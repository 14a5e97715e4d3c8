--------------------------- MODULE PipelineProofs ---------------------------
(***************************************************************************)
(* Proofs about Pipeline for every length of the queues and of the batch,   *)
(* every number of ticks, sockets and faults.                               *)
(***************************************************************************)
EXTENDS Pipeline, FiniteSetTheorems, TLAPS

Rising(s) == \A i, j \in DOMAIN s : i < j => s[i] < s[j]
Below(S, T) == \A a \in S, b \in T : a < b

\* What the consumers hold, by where they are.
Places ==
    /\ hand # 0 <=> cpc = "engine"
    /\ closedBar \in Nat /\ (closedBar # 0 <=> cpc = "put")
    /\ bar # 0 <=> bpc = "write"
    /\ opc = "starting" => cpc = "unborn" /\ bpc = "unborn"

\* What waits behind the consumer, and what it holds of ticks.
Behind == ToSet(tickQ) \cup ToSet(inbox)
InHand == {hand} \ {0}

\* Ticks travel in the order they were received.  A tick of the batch may be
\* in the journal if its write was cut short behind the commit.
InOrder ==
    /\ Rising(inbox) /\ Rising(tickQ) /\ Rising(batch)
    /\ Below(ToSet(tickQ), ToSet(inbox))
    /\ Below(InHand, Behind) /\ Below(ToSet(batch), InHand \cup Behind)
    /\ Below(Journaled, InHand \cup Behind)
    /\ \A r \in Journaled, b \in ToSet(batch) : r < b \/ r \in recommits
    /\ \A i, j \in DOMAIN rows : i < j => rows[i] < rows[j] \/ rows[i] \in recommits

\* No tick is missing while the consumer lives, one may be when it has ended.
Missing == 1..received \ (OnTheWay \cup Journaled \cup dropped)
AtMostOne ==
    /\ cpc \notin Ended => Missing = {}
    /\ \A a, b \in Missing : a = b

\* Bars travel in the order of their minutes, ahead of the one in progress.
Made == ToSet(bars)
Held == {bar} \ {0}
Queued == ToSet(barQ)
Put == {closedBar} \ {0}
InProgress == {current} \ {0}
BarsInOrder ==
    /\ Rising(bars) /\ Rising(barQ) /\ 0 \notin Made \cup Queued
    /\ Below(Made, Held \cup Queued \cup Put \cup InProgress)
    /\ Below(Held, Queued \cup Put \cup InProgress)
    /\ Below(Queued, Put \cup InProgress)
    /\ Below(Put, InProgress)

\* The bar in progress is that of the latest minute; all other minutes'
\* bars have been closed.
Minutes == {Minute(t) : t \in ToSet(batch) \cup Journaled}
BarsComplete ==
    cpc \notin Ended =>
       /\ InProgress \subseteq Minutes /\ (current = 0 => Minutes = {})
       /\ \A m \in Minutes : m <= current
       /\ Made \cup Held \cup Queued \cup Put \subseteq Minutes \ {current}
       /\ bpc # "done" => Minutes \ {current} \subseteq Made \cup Held \cup Queued \cup Put

\* The queues and the batch keep within their sizes: a consumer that can
\* still take a tick has room for it in its batch.
Lengths == Len(tickQ) \in Nat /\ Len(barQ) \in Nat /\ Len(batch) \in Nat
RoomForTick == cpc \in {"unborn", "get", "engine"} => Len(batch) < BatchSize
Room == Limits /\ RoomForTick

\* The inductive invariant.
PipeInv == Types /\ Places /\ Room /\ InOrder /\ AtMostOne /\ BarsInOrder /\ BarsComplete

-----------------------------------------------------------------------------
\* Facts about sequences

LEMMA AppendFacts ==
    ASSUME NEW S, NEW s \in Seq(S), NEW e \in S
    PROVE  /\ Append(s, e) \in Seq(S)
           /\ ToSet(Append(s, e)) = ToSet(s) \cup {e}
           /\ Rising(s) /\ Below(ToSet(s), {e}) => Rising(Append(s, e))
<1>1. /\ Append(s, e) \in Seq(S)
      /\ DOMAIN Append(s, e) = DOMAIN s \cup {Len(s) + 1}
      /\ \A i \in DOMAIN s : Append(s, e)[i] = s[i]
      /\ Append(s, e)[Len(s) + 1] = e
      /\ DOMAIN s = 1..Len(s) /\ Len(s) \in Nat
  OBVIOUS
<1> DEFINE t == Append(s, e)
<1> HIDE DEF t
<1>2. ToSet(t) = ToSet(s) \cup {e}
  BY <1>1 DEF ToSet, t
<1>3. ASSUME Rising(s), Below(ToSet(s), {e})
      PROVE  Rising(t)
  <2>1. \A i \in DOMAIN s : s[i] < e
    BY <1>3 DEF Below, ToSet
  <2> QED
    BY <1>1, <1>3, <2>1 DEF Rising, t
<1> QED
  BY <1>1, <1>2, <1>3 DEF t

LEMMA TailFacts ==
    ASSUME NEW S, NEW s \in Seq(S), s # <<>>
    PROVE  /\ Tail(s) \in Seq(S) /\ Head(s) \in S
           /\ ToSet(s) = {Head(s)} \cup ToSet(Tail(s))
           /\ Rising(s) => Rising(Tail(s)) /\ Below({Head(s)}, ToSet(Tail(s)))
<1>1. /\ Tail(s) \in Seq(S) /\ Head(s) \in S /\ Head(s) = s[1] /\ 1 \in DOMAIN s
      /\ DOMAIN s = 1..Len(s) /\ Len(s) \in Nat /\ Len(s) >= 1
      /\ DOMAIN Tail(s) = 1..(Len(s) - 1)
      /\ \A i \in 1..(Len(s) - 1) : Tail(s)[i] = s[i + 1]
  OBVIOUS
<1> DEFINE t == Tail(s)
           h == Head(s)
<1> HIDE DEF t, h
<1>2. \A i \in DOMAIN s : i = 1 \/ (i - 1 \in DOMAIN t /\ s[i] = t[i - 1])
  BY <1>1 DEF t
<1>3. \A i \in DOMAIN t : i + 1 \in DOMAIN s /\ t[i] = s[i + 1] /\ i + 1 > 1
  BY <1>1 DEF t
<1>4. ToSet(s) = {h} \cup ToSet(t)
  BY <1>1, <1>2, <1>3 DEF ToSet, h
<1>5. Rising(s) => Rising(t) /\ Below({h}, ToSet(t))
  <2> SUFFICES ASSUME Rising(s) PROVE Rising(t) /\ Below({h}, ToSet(t))
    OBVIOUS
  <2>1. Rising(t)
    <3>1. \A i \in DOMAIN t : i \in Int
      BY <1>1 DEF t
    <3> QED
      BY <1>3, <3>1 DEF Rising
  <2>2. Below({h}, ToSet(t))
    <3>1. \A i \in DOMAIN t : s[1] < s[i + 1]
      BY <1>1, <1>3 DEF Rising
    <3> QED
      BY <1>1, <1>3, <3>1 DEF Below, ToSet, h
  <2> QED
    BY <2>1, <2>2
<1> QED
  BY <1>1, <1>4, <1>5 DEF t, h

\* The indices of two sequences put together.
LEMMA JoinIndices ==
    ASSUME NEW S, NEW s \in Seq(S), NEW t \in Seq(S)
    PROVE  /\ s \o t \in Seq(S)
           /\ \A i \in DOMAIN s : i \in DOMAIN (s \o t) /\ (s \o t)[i] = s[i]
           /\ \A i \in DOMAIN t : i + Len(s) \in DOMAIN (s \o t) /\ (s \o t)[i + Len(s)] = t[i]
           /\ \A i \in DOMAIN (s \o t) :
                 i \in DOMAIN s \/ (i - Len(s) \in DOMAIN t /\ (s \o t)[i] = t[i - Len(s)])
           /\ \A i \in DOMAIN s : i \in 1..Len(s)
           /\ Len(s) \in Nat /\ DOMAIN (s \o t) \subseteq Nat /\ DOMAIN t \subseteq Nat \ {0}
<1>1. s \o t \in Seq(S) /\ Len(s \o t) = Len(s) + Len(t)
  OBVIOUS
<1>2. \A i \in DOMAIN s : i \in DOMAIN (s \o t) /\ (s \o t)[i] = s[i]
  OBVIOUS
<1>3. \A i \in DOMAIN t : i + Len(s) \in DOMAIN (s \o t) /\ (s \o t)[i + Len(s)] = t[i]
  OBVIOUS
<1>4. \A i \in DOMAIN (s \o t) :
                 i \in DOMAIN s \/ (i - Len(s) \in DOMAIN t /\ (s \o t)[i] = t[i - Len(s)])
  OBVIOUS
<1>5. (\A i \in DOMAIN s : i \in 1..Len(s)) /\ Len(s) \in Nat
      /\ DOMAIN (s \o t) \subseteq Nat /\ DOMAIN t \subseteq Nat \ {0}
  OBVIOUS
<1> QED
  BY <1>1, <1>2, <1>3, <1>4, <1>5

\* Two sequences in order, one before the other but for a set of exceptions.
LEMMA JoinOrder ==
    ASSUME NEW S, NEW s \in Seq(S), NEW t \in Seq(S), NEW X,
           \A i, j \in DOMAIN s : i < j => s[i] < s[j] \/ s[i] \in X,
           Rising(t),
           \A a \in ToSet(s), b \in ToSet(t) : a < b \/ a \in X
    PROVE  \A i, j \in DOMAIN (s \o t) : i < j => (s \o t)[i] < (s \o t)[j] \/ (s \o t)[i] \in X
<1> DEFINE u == s \o t
<1>1. /\ \A i \in DOMAIN s : i \in DOMAIN u /\ u[i] = s[i]
      /\ \A i \in DOMAIN u : i \in DOMAIN s \/ (i - Len(s) \in DOMAIN t /\ u[i] = t[i - Len(s)])
      /\ \A i \in DOMAIN s : i \in 1..Len(s)
      /\ Len(s) \in Nat /\ DOMAIN u \subseteq Nat /\ DOMAIN t \subseteq Nat \ {0}
  BY JoinIndices
<1> HIDE DEF u
<1> SUFFICES ASSUME NEW i \in DOMAIN u, NEW j \in DOMAIN u, i < j
             PROVE  u[i] < u[j] \/ u[i] \in X
  BY DEF u
<1>2. CASE i \in DOMAIN s /\ j \in DOMAIN s
  BY <1>1, <1>2
<1>3. CASE i \in DOMAIN s /\ j \notin DOMAIN s
  BY <1>1, <1>3 DEF ToSet
<1>4. CASE i \notin DOMAIN s /\ j \notin DOMAIN s
  <2>1. i - Len(s) \in DOMAIN t /\ j - Len(s) \in DOMAIN t /\ i - Len(s) < j - Len(s)
        /\ u[i] = t[i - Len(s)] /\ u[j] = t[j - Len(s)]
    BY <1>1, <1>4
  <2> QED
    BY <2>1 DEF Rising
<1>5. CASE i \notin DOMAIN s /\ j \in DOMAIN s
  BY <1>1, <1>5
<1> QED
  BY <1>2, <1>3, <1>4, <1>5

LEMMA JoinFacts ==
    ASSUME NEW S, NEW s \in Seq(S), NEW t \in Seq(S)
    PROVE  /\ s \o t \in Seq(S)
           /\ ToSet(s \o t) = ToSet(s) \cup ToSet(t)
           /\ Rising(s) /\ Rising(t) /\ Below(ToSet(s), ToSet(t)) => Rising(s \o t)
<1> DEFINE u == s \o t
<1>1. /\ u \in Seq(S)
      /\ \A i \in DOMAIN s : i \in DOMAIN u /\ u[i] = s[i]
      /\ \A i \in DOMAIN t : i + Len(s) \in DOMAIN u /\ u[i + Len(s)] = t[i]
      /\ \A i \in DOMAIN u : i \in DOMAIN s \/ (i - Len(s) \in DOMAIN t /\ u[i] = t[i - Len(s)])
  BY JoinIndices
<1> HIDE DEF u
<1>2. ToSet(u) = ToSet(s) \cup ToSet(t)
  <2>1. ToSet(u) \subseteq ToSet(s) \cup ToSet(t)
    BY <1>1 DEF ToSet
  <2>2. ToSet(s) \subseteq ToSet(u)
    BY <1>1 DEF ToSet
  <2>3. ToSet(t) \subseteq ToSet(u)
    BY <1>1 DEF ToSet
  <2> QED
    BY <2>1, <2>2, <2>3
<1>3. ASSUME Rising(s), Rising(t), Below(ToSet(s), ToSet(t))
      PROVE  Rising(u)
  <2> DEFINE X == {}
  <2>1. \A i, j \in DOMAIN s : i < j => s[i] < s[j] \/ s[i] \in X
    BY <1>3 DEF Rising
  <2>2. \A a \in ToSet(s), b \in ToSet(t) : a < b \/ a \in X
    BY <1>3 DEF Below
  <2> HIDE DEF X
  <2>3. \A i, j \in DOMAIN (s \o t) : i < j => (s \o t)[i] < (s \o t)[j] \/ (s \o t)[i] \in X
    BY <1>3, <2>1, <2>2, JoinOrder
  <2> QED
    BY <2>3 DEF Rising, u, X
<1> QED
  BY <1>1, <1>2, <1>3 DEF u

LEMMA Wider ==
    ASSUME NEW S, NEW T, S \subseteq T, NEW s \in Seq(S)
    PROVE  s \in Seq(T)
<1>1. s = [i \in 1..Len(s) |-> s[i]] /\ Len(s) \in Nat /\ \A i \in 1..Len(s) : s[i] \in T
  OBVIOUS
<1> QED
  BY <1>1

\* Later ticks are of no earlier minute.
LEMMA MinuteFacts ==
    /\ \A t \in Nat \ {0} : Minute(t) \in Nat \ {0}
    /\ \A a, b \in Nat \ {0} : a <= b => Minute(a) <= Minute(b)
<1>1. TicksPerBar \in Nat /\ TicksPerBar > 0
  BY PipelineAssumption
<1>2. \A n \in Nat : /\ n \div TicksPerBar \in Nat
                     /\ TicksPerBar * (n \div TicksPerBar) <= n
                     /\ n < TicksPerBar * (n \div TicksPerBar) + TicksPerBar
  BY <1>1
<1>3. ASSUME NEW a \in Nat, NEW b \in Nat, a <= b
      PROVE  a \div TicksPerBar <= b \div TicksPerBar
  <2> DEFINE p == a \div TicksPerBar
             q == b \div TicksPerBar
  <2>1. p \in Nat /\ q \in Nat /\ TicksPerBar * p <= a /\ b < TicksPerBar * q + TicksPerBar
    BY <1>2
  <2> HIDE DEF p, q
  <2>2. ASSUME q + 1 <= p PROVE FALSE
    <3>1. TicksPerBar * (q + 1) <= TicksPerBar * p
      BY <1>1, <2>1, <2>2
    <3>2. TicksPerBar * (q + 1) = TicksPerBar * q + TicksPerBar
      BY <1>1, <2>1
    <3>3. TicksPerBar * p \in Nat /\ TicksPerBar * q \in Nat
      BY <1>1, <2>1
    <3> QED
      BY <1>1, <1>3, <2>1, <3>1, <3>2, <3>3
  <2> QED
    BY <2>1, <2>2 DEF p, q
<1>4. \A t \in Nat \ {0} : t - 1 \in Nat
  OBVIOUS
<1> QED
  BY <1>2, <1>3, <1>4 DEF Minute

-----------------------------------------------------------------------------
\* The types

LEMMA FeedTypes ==
    ASSUME Types, FeedStep \/ Enqueue \/ SetStop \/ CloseSocket
    PROVE  FeedTypeOK' /\ received' \in 0..MaxTicks /\ received <= received'
<1>0. /\ received \in Nat /\ received <= MaxTicks /\ made \in 0..MaxSockets /\ sws \in 0..made
      /\ closed \subseteq 1..made /\ inbox \in Seq(1..received) /\ tickQ \in Seq(1..received)
      /\ dropped \subseteq 1..received /\ MaxTicks \in Nat /\ MaxSockets \in Nat
      /\ halted \in BOOLEAN
      /\ fpc \in {"check", "building", "connecting", "open", "returned", "waiting", "ended"}
  BY FeedAssumption DEF Types, FeedTypeOK
<1>1. CASE CheckStop
  <2>1. made' \in 0..MaxSockets /\ made <= made'
    BY <1>0, <1>1 DEF CheckStop
  <2>2. fpc' \in {"ended", "building"}
    BY <1>1 DEF CheckStop
  <2> QED
    BY <1>0, <1>1, <2>1, <2>2 DEF CheckStop, FeedTypeOK
<1>2. CASE PublishSocket \/ AfterConnect \/ BackedOff \/ Connected \/ Disconnected
  <2>1. /\ sws' \in 0..made
        /\ fpc' \in {"check", "building", "connecting", "open", "returned", "waiting", "ended"}
        /\ UNCHANGED <<halted, made, closed, received, inbox, tickQ, dropped>>
    BY <1>0, <1>2 DEF PublishSocket, AfterConnect, BackedOff, Connected, Disconnected
  <2> QED
    BY <1>0, <2>1 DEF FeedTypeOK
<1>3. CASE OnData
  <2>1. received' = received + 1 /\ received < MaxTicks
        /\ inbox' = Append(inbox, received')
        /\ UNCHANGED <<halted, fpc, made, sws, closed, tickQ, dropped>>
    BY <1>3 DEF OnData
  <2>2. 1..received \subseteq 1..received' /\ received' \in 1..received'
    BY <1>0, <2>1
  <2>3. inbox \in Seq(1..received') /\ tickQ \in Seq(1..received')
    BY <1>0, <2>2
  <2>4. inbox' \in Seq(1..received')
    BY <2>1, <2>2, <2>3, AppendFacts
  <2>5. dropped \subseteq 1..received' /\ received' \in 0..MaxTicks /\ received <= received'
    BY <1>0, <2>1, <2>2
  <2> HIDE DEF ToSet
  <2> QED
    BY <1>0, <2>1, <2>3, <2>4, <2>5 DEF FeedTypeOK
<1>4. CASE Enqueue
  <2>1. Head(inbox) \in 1..received /\ Tail(inbox) \in Seq(1..received)
    BY <1>0, <1>4, TailFacts DEF Enqueue
  <2>2. Append(tickQ, Head(inbox)) \in Seq(1..received)
    BY <1>0, <2>1, AppendFacts
  <2>3. UNCHANGED <<halted, fpc, made, sws, closed, received>>
        /\ inbox' \in Seq(1..received)
        /\ tickQ' \in Seq(1..received) /\ dropped' \subseteq 1..received
    BY <1>0, <1>4, <2>1, <2>2 DEF Enqueue
  <2> QED
    BY <1>0, <2>3 DEF FeedTypeOK
<1>5. CASE SetStop \/ CloseSocket
  <2>1. /\ closed' \subseteq closed \cup ({sws} \ {0}) /\ halted' \in BOOLEAN
        /\ UNCHANGED <<fpc, made, sws, received, inbox, tickQ, dropped>>
    BY <1>0, <1>5 DEF SetStop, CloseSocket
  <2>2. closed' \subseteq 1..made
    BY <1>0, <2>1
  <2> QED
    BY <1>0, <2>1, <2>2 DEF FeedTypeOK
<1> QED
  BY <1>1, <1>2, <1>3, <1>4, <1>5 DEF FeedStep, ThreadStep

\* The consumers' and the orchestrator's own part of Types.
TaskTypes ==
    /\ cpc \in {"unborn", "get", "engine", "put", "flush", "lastFlush", "dyingFlush", "done"}
    /\ hand \in 0..received /\ current \in Nat
    /\ batch \in Seq(1..received) /\ rows \in Seq(1..received)
    /\ bpc \in {"unborn", "get", "write", "signal", "done"}
    /\ bar \in Nat /\ barQ \in Seq(Nat) /\ bars \in Seq(Nat)
    /\ opc \in {"starting", "running", "closing", "draining", "joining", "stopped", "failed"}
    /\ faults \in 0..MaxFaults /\ recommits \subseteq 1..received

\* The tick consumer's steps that take or add nothing of the feed's but TakeTick.
TickSteps == \/ TakeTick \/ FlushOnTimeout \/ TickDone \/ PutBar \/ FlushDone
             \/ CancelTicks \/ LastFlush \/ TickFault \/ LastFlushFault

OtherSteps == BarTask \/ BarFault \/ TasksAwaited \/ Joined \/ Started \/ StartFault

FeedSteps == Feed \/ Received \/ StopCalled \/ FeedStopped

LEMMA NextSteps ==
    ASSUME [Next]_vars
    PROVE  TickSteps \/ OtherSteps \/ FeedSteps \/ UNCHANGED vars
BY DEF Next, TickTask, BarTask, Stop, TickSteps, OtherSteps, FeedSteps

\* The end of the tick consumer: what is left of its await, and of its bar.
LEMMA Endings ==
    ASSUME Types
    PROVE  /\ EnterFinally =>
                 /\ cpc' \in {"lastFlush", "dyingFlush", "done"}
                 /\ \/ UNCHANGED <<barQ, current>>
                    \/ current' = 0 /\ UNCHANGED barQ
                    \/ current # 0 /\ current' = 0 /\ barQ' = Append(barQ, current)
           /\ FinishTicks =>
                 /\ cpc' = "done"
                 /\ \/ current' = 0 /\ UNCHANGED barQ
                    \/ current # 0 /\ current' = 0 /\ barQ' = Append(barQ, current)
           /\ EndTicks =>
                 /\ cpc \in {"get", "engine", "put", "flush"}
                 /\ EnterFinally /\ hand' = 0 /\ closedBar' = 0 /\ UNCHANGED batch
                 /\ CutWrite
BY DEF EnterFinally, FinishTicks, EndTicks, CutWrite

LEMMA TickTypes ==
    ASSUME Types, Places, TickSteps
    PROVE  Types'
<1>0. /\ TaskTypes /\ FeedTypeOK /\ received \in Nat /\ MaxFaults \in Nat /\ faults \in Nat
      /\ batch \in Seq(1..received) /\ rows \in Seq(1..received) /\ barQ \in Seq(Nat)
      /\ tickQ \in Seq(1..received) /\ current \in Nat /\ closedBar \in Nat
  BY PipelineAssumption DEF Types, FeedTypeOK, TaskTypes, Places
<1>1. ASSUME FeedTypeOK', TaskTypes' PROVE Types'
  BY <1>1 DEF Types, TaskTypes
<1>2. ASSUME UNCHANGED feedVars PROVE FeedTypeOK' /\ received' = received
  BY <1>0, <1>2 DEF feedVars, FeedTypeOK
<1>3. rows \o batch \in Seq(1..received) /\ ToSet(batch) \subseteq 1..received
  BY <1>0, JoinFacts DEF ToSet
<1>4. ASSUME CutWrite, UNCHANGED received
      PROVE  rows' \in Seq(1..received') /\ recommits' \subseteq 1..received'
  BY <1>0, <1>3, <1>4 DEF CutWrite, TaskTypes
<1>5. CASE TakeTick
  <2>1. tickQ' \in Seq(1..received) /\ hand' \in 1..received
    BY <1>0, <1>5, TailFacts DEF TakeTick
  <2>2. UNCHANGED <<halted, fpc, made, sws, closed, received, inbox, dropped,
                   batch, current, closedBar, barTask, barQ, opc, rows, bars, faults,
                   recommits>> /\ cpc' = "engine"
    BY <1>5 DEF TakeTick
  <2>3. FeedTypeOK'
    BY <1>0, <2>1, <2>2 DEF FeedTypeOK
  <2>4. TaskTypes'
    BY <1>0, <2>1, <2>2 DEF TaskTypes, barTask
  <2> QED
    BY <1>1, <2>3, <2>4
<1>6. CASE FlushOnTimeout
  BY <1>0, <1>1, <1>2, <1>6 DEF FlushOnTimeout, TaskTypes, barTask
<1>7. CASE TickDone
  <2>1. hand \in 1..received
    BY <1>0, <1>7 DEF TickDone, Places, TaskTypes
  <2>2. batch' \in Seq(1..received) /\ hand' = 0 /\ current' \in Nat
    BY <1>0, <1>7, <2>1, AppendFacts, MinuteFacts DEF TickDone
  <2>a. Append(barQ, current) \in Seq(Nat)
    BY <1>0, AppendFacts
  <2>3. cpc' \in {"put", "flush", "get"} /\ barQ' \in Seq(Nat)
    BY <1>0, <1>7, <2>a DEF TickDone, Onward
  <2>4. UNCHANGED <<feedVars, barTask, opc, rows, bars, faults, recommits>>
    BY <1>7 DEF TickDone
  <2>5. TaskTypes'
    BY <1>0, <1>2, <2>2, <2>3, <2>4 DEF TaskTypes, barTask
  <2> QED
    BY <1>1, <1>2, <2>4, <2>5
<1>8. CASE PutBar
  <2>1. cpc' \in {"flush", "get"} /\ barQ' \in Seq(Nat)
    BY <1>0, <1>8, AppendFacts DEF PutBar, Onward
  <2>2. UNCHANGED <<feedVars, hand, batch, current, barTask, opc, rows, bars, faults, recommits>>
    BY <1>8 DEF PutBar
  <2>3. TaskTypes'
    BY <1>0, <1>2, <2>1, <2>2 DEF TaskTypes, barTask
  <2> QED
    BY <1>1, <1>2, <2>2, <2>3
<1>9. CASE FlushDone
  <2>1. cpc' = "get" /\ rows' \in Seq(1..received) /\ batch' = <<>>
    BY <1>3, <1>9 DEF FlushDone
  <2>2. UNCHANGED <<feedVars, hand, current, closedBar, barTask, barQ, opc, bars, faults, recommits>>
    BY <1>9 DEF FlushDone
  <2>3. TaskTypes'
    BY <1>0, <1>2, <2>1, <2>2 DEF TaskTypes, barTask
  <2> QED
    BY <1>1, <1>2, <2>2, <2>3
<1>10. ASSUME EnterFinally \/ FinishTicks
       PROVE  cpc' \in {"lastFlush", "dyingFlush", "done"} /\ barQ' \in Seq(Nat) /\ current' \in Nat
  <2> DEFINE longer == Append(barQ, current)
  <2>1. longer \in Seq(Nat)
    BY <1>0, AppendFacts
  <2>2. /\ barQ' \in {barQ, longer} /\ current' \in {0, current}
        /\ cpc' \in {"lastFlush", "dyingFlush", "done"}
    BY <1>10 DEF EnterFinally, FinishTicks
  <2> HIDE DEF longer
  <2> QED
    BY <1>0, <2>1, <2>2
<1>11. ASSUME EndTicks, UNCHANGED <<feedVars, barTask, opc, bars>>, faults' \in 0..MaxFaults
       PROVE  Types'
  <2>1. EnterFinally /\ hand' = 0 /\ UNCHANGED batch /\ CutWrite
    BY <1>11, Endings
  <2>2. UNCHANGED received
    BY <1>2, <1>11
  <2>3. TaskTypes'
    BY <1>0, <1>4, <1>10, <1>11, <2>1, <2>2 DEF TaskTypes, barTask
  <2> QED
    BY <1>1, <1>2, <1>11, <2>3
<1>12. CASE CancelTicks
  <2>1. UNCHANGED <<feedVars, barTask, opc, bars, faults>>
    BY <1>12 DEF CancelTicks
  <2>2. CASE EndTicks
    BY <1>0, <1>11, <2>1, <2>2 DEF TaskTypes
  <2>3. CASE CutWrite /\ cpc' = "done" /\ UNCHANGED <<hand, batch, current, closedBar, barQ>>
    <3>1. UNCHANGED received
      BY <1>2, <2>1
    <3>2. TaskTypes'
      BY <1>0, <1>4, <2>1, <2>3, <3>1 DEF TaskTypes, barTask
    <3> QED
      BY <1>1, <1>2, <2>1, <3>2
  <2> QED
    BY <1>12, <2>2, <2>3 DEF CancelTicks
<1>13. CASE TickFault
  BY <1>0, <1>11, <1>13 DEF TickFault
<1>14. CASE LastFlush
  <2>1. rows' \in Seq(1..received) /\ batch' = <<>> /\ FinishTicks
        /\ UNCHANGED <<feedVars, hand, closedBar, barTask, opc, bars, faults, recommits>>
    BY <1>3, <1>14 DEF LastFlush
  <2>2. TaskTypes'
    BY <1>0, <1>2, <1>10, <2>1 DEF TaskTypes, barTask
  <2> QED
    BY <1>1, <1>2, <2>1, <2>2
<1>15. CASE LastFlushFault
  <2>1. CutWrite /\ cpc' = "done" /\ faults' \in 0..MaxFaults
        /\ UNCHANGED <<feedVars, hand, batch, current, closedBar, barTask, barQ, opc, bars>>
    BY <1>0, <1>15 DEF LastFlushFault
  <2>2. UNCHANGED received
    BY <1>2, <2>1
  <2>3. TaskTypes'
    BY <1>0, <1>4, <2>1, <2>2 DEF TaskTypes, barTask
  <2> QED
    BY <1>1, <1>2, <2>1, <2>3
<1> QED
  BY <1>5, <1>6, <1>7, <1>8, <1>9, <1>12, <1>13, <1>14, <1>15 DEF TickSteps

LEMMA TypesStep ==
    ASSUME Types, Places, [Next]_vars
    PROVE  Types'
<1>0. /\ TaskTypes /\ FeedTypeOK /\ MaxFaults \in Nat /\ received \in Nat
      /\ barQ \in Seq(Nat) /\ bars \in Seq(Nat) /\ bar \in Nat
  BY PipelineAssumption DEF Types, FeedTypeOK, TaskTypes
<1>1. ASSUME FeedTypeOK', TaskTypes' PROVE Types'
  BY <1>1 DEF Types, TaskTypes
<1>2. ASSUME UNCHANGED feedVars PROVE FeedTypeOK' /\ received' = received
  BY <1>0, <1>2 DEF feedVars, FeedTypeOK
<1>3. CASE FeedSteps
  <2>1. FeedTypeOK' /\ received' \in 0..MaxTicks /\ received <= received'
    BY <1>3, FeedTypes DEF FeedSteps, Feed, Received, StopCalled, FeedStopped
  <2>2. 1..received \subseteq 1..received' /\ 0..received \subseteq 0..received'
    BY <1>0, <2>1
  <2>3. UNCHANGED <<tickTask, barTask, barQ, rows, bars, faults, recommits>>
    BY <1>3 DEF FeedSteps, Feed, Received, StopCalled, FeedStopped
  <2>6. opc' \in {"starting", "running", "closing", "draining", "joining", "stopped", "failed"}
    BY <1>0, <1>3 DEF FeedSteps, Feed, Received, StopCalled, FeedStopped, TaskTypes
  <2>4. batch \in Seq(1..received') /\ rows \in Seq(1..received')
        /\ hand \in 0..received' /\ recommits \subseteq 1..received'
    <3>1. batch \in Seq(1..received') /\ rows \in Seq(1..received')
      BY <1>0, <2>2, Wider DEF TaskTypes
    <3>2. hand \in 0..received' /\ recommits \subseteq 1..received'
      BY <1>0, <2>2 DEF TaskTypes
    <3> QED
      BY <3>1, <3>2
  <2>5. TaskTypes'
    BY <1>0, <2>3, <2>4, <2>6 DEF TaskTypes, tickTask, barTask
  <2> QED
    BY <1>1, <2>1, <2>5
<1>4. CASE TasksAwaited \/ Joined \/ Started \/ StartFault
  <2>2. UNCHANGED <<feedVars, hand, batch, current, bar, barQ, rows, bars, recommits>>
    BY <1>4 DEF TasksAwaited, Joined, Started, StartFault, tickTask, barTask
  <2>3. opc' \in {"running", "joining", "stopped", "failed"} /\ faults' \in 0..MaxFaults
    BY <1>0, <1>4 DEF TasksAwaited, Joined, Started, StartFault, TaskTypes
  <2>4. cpc' \in {cpc, "get"} /\ bpc' \in {bpc, "get"}
    BY <1>4 DEF TasksAwaited, Joined, Started, StartFault, tickTask, barTask
  <2>1. TaskTypes'
    BY <1>0, <1>2, <2>2, <2>3, <2>4 DEF TaskTypes
  <2> QED
    BY <1>1, <1>2, <2>1, <2>2
<1>5. CASE BarTask \/ BarFault
  <2>1. UNCHANGED <<feedVars, tickTask, opc, rows, recommits>>
    BY <1>5 DEF BarTask, BarFault, TakeBar, WriteBar, SignalDone, CancelBars
  <2>2. faults' \in 0..MaxFaults
    BY <1>0, <1>5 DEF BarTask, BarFault, TakeBar, WriteBar, SignalDone, CancelBars, TaskTypes
  <2>3. bpc' \in {"unborn", "get", "write", "signal", "done"}
    BY <1>0, <1>5 DEF BarTask, BarFault, TakeBar, WriteBar, SignalDone, CancelBars, EndBars, TaskTypes
  <2>4. Append(bars, bar) \in Seq(Nat)
    BY <1>0, AppendFacts
  <2>5. CASE TakeBar
    <3>1. bar' \in Nat /\ barQ' \in Seq(Nat) /\ bars' = bars
      BY <1>0, <2>5, TailFacts DEF TakeBar
    <3>2. TaskTypes'
      BY <1>0, <1>2, <2>1, <2>2, <2>3, <3>1 DEF TaskTypes, tickTask
    <3> QED
      BY <1>1, <1>2, <2>1, <3>2
  <2>6. CASE ~TakeBar
    <3>1. bar' \in Nat /\ barQ' = barQ /\ bars' \in Seq(Nat)
      <4>1. CASE WriteBar \/ SignalDone
        <5> DEFINE longer == Append(bars, bar)
        <5>1. bar' \in {0, bar} /\ bars' \in {bars, longer} /\ barQ' = barQ
          BY <4>1 DEF WriteBar, SignalDone
        <5>2. longer \in Seq(Nat)
          BY <2>4
        <5> HIDE DEF longer
        <5> QED
          BY <1>0, <5>1, <5>2
      <4>2. CASE CancelBars \/ BarFault
        <5>1. barQ' = barQ /\ EndBars
          BY <4>2 DEF CancelBars, BarFault
        <5> QED
          BY <1>0, <2>4, <5>1 DEF EndBars
      <4> QED
        BY <1>5, <2>6, <4>1, <4>2 DEF BarTask
    <3>2. TaskTypes'
      BY <1>0, <1>2, <2>1, <2>2, <2>3, <3>1 DEF TaskTypes, tickTask
    <3> QED
      BY <1>1, <1>2, <2>1, <3>2
  <2> QED
    BY <2>5, <2>6
<1>6. CASE UNCHANGED vars
  BY <1>0, <1>1, <1>2, <1>6 DEF vars, TaskTypes, tickTask, barTask
<1> QED
  BY <1>3, <1>4, <1>5, <1>6, TickTypes, NextSteps DEF OtherSteps

-----------------------------------------------------------------------------
\* The steps, by what they do to the ticks and to the bars

LEMMA PlacesStep ==
    ASSUME Types, Places, BarsInOrder, [Next]_vars
    PROVE  Places'
<1>0. /\ hand \in Nat /\ closedBar \in Nat /\ current \in Nat /\ bar \in Nat
      /\ received \in Nat
  BY DEF Types, FeedTypeOK, Places
<1>1. CASE FeedSteps \/ TasksAwaited \/ Joined \/ StartFault \/ UNCHANGED vars
  <2>1. UNCHANGED <<cpc, bpc, hand, closedBar, bar>> /\ (opc' = "starting" => opc = "starting")
    BY <1>1 DEF FeedSteps, Feed, Received, StopCalled, FeedStopped, TasksAwaited, Joined,
                StartFault, vars, tickTask, barTask
  <2> QED
    BY <2>1 DEF Places
<1>2. CASE Started
  <2>1. /\ UNCHANGED <<hand, closedBar, bar>> /\ cpc' = "get" /\ bpc' = "get"
        /\ opc = "starting" /\ opc' = "running"
    BY <1>2 DEF Started
  <2> QED
    BY <2>1 DEF Places
<1>3. CASE TickSteps
  <2>1. UNCHANGED <<bar, bpc, opc>> /\ cpc # "unborn"
    BY <1>3 DEF TickSteps, TakeTick, FlushOnTimeout, TickDone, PutBar, FlushDone, CancelTicks,
                LastFlush, TickFault, LastFlushFault, barTask, EndTicks, InLastFlush
  <2> SUFFICES /\ hand' # 0 <=> cpc' = "engine"
               /\ closedBar' \in Nat /\ (closedBar' # 0 <=> cpc' = "put")
    BY <2>1 DEF Places
  <2>2. CASE TakeTick
    <3>1. Head(tickQ) \in 1..received
      BY <2>2, TailFacts DEF TakeTick, Types, FeedTypeOK
    <3>2. hand' # 0 /\ cpc' = "engine" /\ closedBar' = closedBar /\ cpc = "get"
      BY <1>0, <2>2, <3>1 DEF TakeTick
    <3> QED
      BY <3>2 DEF Places
  <2>3. CASE TickDone
    <3>1. /\ cpc = "engine" /\ hand' = 0
          /\ \/ cpc' = "put" /\ closedBar' = current /\ current # 0
             \/ cpc' \in {"get", "flush"} /\ closedBar' = closedBar
      BY <2>3 DEF TickDone, Onward, ClosesBar
    <3> QED
      BY <1>0, <3>1 DEF Places
  <2>4. CASE PutBar
    <3>1. cpc = "put" /\ hand' = hand /\ closedBar' = 0 /\ cpc' \in {"get", "flush"}
      BY <2>4 DEF PutBar, Onward
    <3> QED
      BY <3>1 DEF Places
  <2>5. CASE FlushOnTimeout \/ FlushDone
    <3>1. cpc \in {"get", "flush"} /\ UNCHANGED <<hand, closedBar>> /\ cpc' \in {"get", "flush"}
      BY <2>5 DEF FlushOnTimeout, FlushDone
    <3> QED
      BY <3>1 DEF Places
  <2>6. CASE EndTicks
    <3>1. hand' = 0 /\ closedBar' = 0 /\ cpc' \in {"lastFlush", "dyingFlush", "done"}
      BY <2>6, Endings
    <3> QED
      BY <3>1
  <2>7. ASSUME cpc \in {"lastFlush", "dyingFlush"}, cpc' = "done", UNCHANGED <<hand, closedBar>>
        PROVE  /\ hand' # 0 <=> cpc' = "engine"
               /\ closedBar' \in Nat /\ (closedBar' # 0 <=> cpc' = "put")
    BY <2>7 DEF Places
  <2> QED
    BY <1>3, <2>2, <2>3, <2>4, <2>5, <2>6, <2>7
    DEF TickSteps, CancelTicks, TickFault, LastFlush, LastFlushFault, InLastFlush, FinishTicks
<1>4. CASE BarTask \/ BarFault
  <2>1. UNCHANGED <<cpc, hand, closedBar, opc>> /\ bpc # "unborn"
    BY <1>4 DEF BarTask, BarFault, TakeBar, WriteBar, SignalDone, CancelBars, EndBars, tickTask
  <2>2. CASE TakeBar
    <3>1. Head(barQ) # 0
      BY <2>2, TailFacts DEF TakeBar, Types, BarsInOrder, Queued
    <3> QED
      BY <2>1, <2>2, <3>1 DEF TakeBar, Places
  <2>3. CASE ~TakeBar
    <3>1. (bar' = 0 \/ (bar' = bar /\ bpc = "signal")) /\ bpc' \in {"get", "signal", "done"}
      BY <1>4, <2>3 DEF BarTask, BarFault, WriteBar, SignalDone, CancelBars, EndBars
    <3> QED
      BY <2>1, <3>1 DEF Places
  <2> QED
    BY <2>2, <2>3
<1> QED
  BY <1>1, <1>2, <1>3, <1>4, NextSteps DEF OtherSteps

\* A tick arrives; a tick waits in tick_q or is refused.
Arrives == OnData /\ UNCHANGED <<cpc, hand, batch, rows, recommits>>
Queues == Enqueue /\ UNCHANGED <<cpc, hand, batch, rows, recommits>>

\* The other steps but TakeTick and TickDone: the batch is written, once or
\* short of its end, or not, and the tick in hand may go with the consumer.
Writes ==
    /\ UNCHANGED <<received, inbox, tickQ, dropped>>
    /\ \/ UNCHANGED <<batch, rows, recommits>>
       \/ batch' = <<>> /\ rows' = rows \o batch /\ UNCHANGED recommits
       \/ UNCHANGED batch /\ rows' = rows \o batch /\ recommits' = recommits \cup ToSet(batch)
    /\ cpc \in Ended => cpc' \in Ended
    /\ hand' = hand \/ (hand' = 0 /\ cpc \notin Ended /\ cpc' \in Ended)

LEMMA TickMoves ==
    ASSUME Types, Places, [Next]_vars
    PROVE  Arrives \/ Queues \/ TakeTick \/ TickDone \/ Writes
<1>1. CASE Feed
  <2>1. CASE OnData
    BY <1>1, <2>1 DEF Feed, tickTask, Arrives
  <2>2. CASE ThreadStep \/ Connected \/ Disconnected
    <3>1. UNCHANGED <<received, inbox, tickQ, dropped>>
      BY <2>2 DEF ThreadStep, CheckStop, PublishSocket, AfterConnect, BackedOff, Connected, Disconnected
    <3>2. UNCHANGED <<cpc, hand, batch, rows, recommits>>
      BY <1>1 DEF Feed, tickTask
    <3> QED
      BY <3>1, <3>2 DEF Writes
  <2> QED
    BY <1>1, <2>1, <2>2 DEF Feed, FeedStep
<1>2. CASE Received
  BY <1>2 DEF Received, Queues, tickTask
<1>3. CASE StopCalled \/ FeedStopped \/ OtherSteps \/ UNCHANGED vars
  <2>1. UNCHANGED <<received, inbox, tickQ, dropped>>
    BY <1>3 DEF StopCalled, FeedStopped, SetStop, CloseSocket, OtherSteps, BarTask, BarFault, TakeBar,
                WriteBar, SignalDone, CancelBars, TasksAwaited, Joined, Started, StartFault, vars, feedVars
  <2>2. UNCHANGED <<hand, batch, rows, recommits>>
    BY <1>3 DEF StopCalled, FeedStopped, OtherSteps, BarTask, BarFault, TakeBar, WriteBar, SignalDone,
                CancelBars, TasksAwaited, Joined, Started, StartFault, vars, tickTask
  <2>3. cpc' = cpc \/ cpc = "unborn"
    BY <1>3 DEF StopCalled, FeedStopped, OtherSteps, BarTask, BarFault, TakeBar, WriteBar, SignalDone,
                CancelBars, TasksAwaited, Joined, Started, StartFault, vars, tickTask, Places
  <2> QED
    BY <2>1, <2>2, <2>3 DEF Writes, Ended
<1>4. ASSUME EndTicks, UNCHANGED feedVars
      PROVE  Writes
  <2>1. /\ cpc \notin Ended /\ cpc' \in Ended /\ hand' = 0 /\ UNCHANGED batch /\ CutWrite
    BY <1>4, Endings DEF Ended
  <2>2. UNCHANGED <<received, inbox, tickQ, dropped>>
    BY <1>4 DEF feedVars
  <2> QED
    BY <2>1, <2>2 DEF Writes, CutWrite
<1>5. ASSUME cpc \in Ended, cpc' = "done", CutWrite, UNCHANGED <<feedVars, hand, batch>>
      PROVE  Writes
  <2>1. UNCHANGED <<received, inbox, tickQ, dropped>>
    BY <1>5 DEF feedVars
  <2> QED
    BY <1>5, <2>1 DEF Writes, CutWrite, Ended
<1>6. CASE FlushOnTimeout \/ PutBar
  <2>1. UNCHANGED <<feedVars, hand, batch, rows, recommits>> /\ cpc \notin Ended
    BY <1>6 DEF FlushOnTimeout, PutBar, Ended
  <2> QED
    BY <2>1 DEF Writes, feedVars
<1>7. CASE FlushDone \/ LastFlush
  <2>1. /\ rows' = rows \o batch /\ batch' = <<>> /\ UNCHANGED <<feedVars, hand, recommits>>
        /\ cpc \notin Ended \/ cpc' = "done"
    BY <1>7 DEF FlushDone, LastFlush, FinishTicks, Ended
  <2> QED
    BY <2>1 DEF Writes, feedVars, Ended
<1>8. CASE CancelTicks \/ TickFault
  BY <1>4, <1>5, <1>8 DEF CancelTicks, TickFault, Ended
<1>9. CASE LastFlushFault
  BY <1>5, <1>9 DEF LastFlushFault, InLastFlush, Ended
<1> QED
  BY <1>1, <1>2, <1>3, <1>6, <1>7, <1>8, <1>9, NextSteps DEF TickSteps, FeedSteps

-----------------------------------------------------------------------------
\* The ticks

\* What the sets and sequences of ticks hold.
LEMMA TickSets ==
    ASSUME Types
    PROVE  /\ received \in Nat /\ hand \in 0..received
           /\ inbox \in Seq(1..received) /\ tickQ \in Seq(1..received)
           /\ batch \in Seq(1..received) /\ rows \in Seq(1..received)
           /\ ToSet(inbox) \subseteq 1..received /\ ToSet(tickQ) \subseteq 1..received
           /\ ToSet(batch) \subseteq 1..received /\ ToSet(rows) \subseteq 1..received
           /\ dropped \subseteq 1..received /\ recommits \subseteq 1..received
<1>1. /\ received \in Nat /\ hand \in 0..received
      /\ inbox \in Seq(1..received) /\ tickQ \in Seq(1..received)
      /\ batch \in Seq(1..received) /\ rows \in Seq(1..received)
      /\ dropped \subseteq 1..received /\ recommits \subseteq 1..received
  BY DEF Types, FeedTypeOK
<1> DEFINE S == 1..received
<1> HIDE DEF S
<1>2. ASSUME NEW s \in Seq(S) PROVE ToSet(s) \subseteq S
  <2>1. \A i \in DOMAIN s : s[i] \in S
    OBVIOUS
  <2> QED
    BY <2>1 DEF ToSet
<1> QED
  BY <1>1, <1>2 DEF S

LEMMA ArrivesStep ==
    ASSUME Types, Places, InOrder, AtMostOne, Arrives
    PROVE  InOrder' /\ AtMostOne'
<1> DEFINE n == received + 1
<1>1. /\ received' = n /\ inbox' = Append(inbox, n)
      /\ UNCHANGED <<cpc, hand, batch, rows, recommits, tickQ, dropped>>
  BY DEF Arrives, OnData
<1>2. /\ n \in Nat /\ \A t \in 1..received : t < n
      /\ 1..n = (1..received) \cup {n}
  BY TickSets
<1>3. /\ Below(ToSet(inbox), {n}) /\ Below(ToSet(tickQ), {n}) /\ Below(ToSet(batch), {n})
      /\ Below(Journaled, {n}) /\ Below(InHand, {n})
  <2> HIDE DEF n
  <2>1. InHand \subseteq 1..received
    BY TickSets DEF InHand
  <2> QED
    BY <1>2, <2>1, TickSets DEF Below, Journaled
<1>4. /\ ToSet(inbox') = ToSet(inbox) \cup {n}
      /\ Rising(inbox')
  <2>1. inbox \in Seq(Nat) /\ n \in Nat
    BY <1>2, TickSets, Wider
  <2> HIDE DEF n
  <2> QED
    BY <1>1, <1>3, <2>1, AppendFacts, ZenonT(40) DEF InOrder
<1>5. Behind' = Behind \cup {n} /\ InHand' = InHand /\ Journaled' = Journaled
  BY <1>1, <1>4 DEF Behind, InHand, Journaled
<1> HIDE DEF n
<1>6. InOrder'
  <2>1. /\ Rising(inbox') /\ Rising(tickQ') /\ Rising(batch')
    BY <1>1, <1>4 DEF InOrder
  <2>2. Below(ToSet(tickQ'), ToSet(inbox'))
    BY <1>1, <1>3, <1>4 DEF InOrder, Below
  <2>3. Below(InHand', Behind') /\ Below(ToSet(batch'), InHand' \cup Behind')
        /\ Below(Journaled', InHand' \cup Behind')
    BY <1>1, <1>3, <1>5 DEF InOrder, Below
  <2>4. /\ \A r \in Journaled', b \in ToSet(batch') : r < b \/ r \in recommits'
        /\ \A i, j \in DOMAIN rows' : i < j => rows'[i] < rows'[j] \/ rows'[i] \in recommits'
    BY <1>1, <1>5 DEF InOrder
  <2> QED
    BY <2>1, <2>2, <2>3, <2>4 DEF InOrder
<1>7. OnTheWay' = OnTheWay \cup {n}
  BY <1>1, <1>4 DEF OnTheWay
<1>8. Missing' \subseteq Missing
  BY <1>1, <1>2, <1>5, <1>7 DEF Missing
<1>9. AtMostOne'
  BY <1>1, <1>8 DEF AtMostOne
<1> QED
  BY <1>6, <1>9

LEMMA QueuesStep ==
    ASSUME Types, Places, InOrder, AtMostOne, Queues
    PROVE  InOrder' /\ AtMostOne'
<1> DEFINE n == Head(inbox)
<1>1. /\ inbox # <<>> /\ inbox' = Tail(inbox)
      /\ UNCHANGED <<received, cpc, hand, batch, rows, recommits>>
      /\ \/ tickQ' = Append(tickQ, n) /\ UNCHANGED dropped
         \/ dropped' = dropped \cup {n} /\ UNCHANGED tickQ
  BY DEF Queues, Enqueue
<1>2. /\ n \in 1..received /\ ToSet(inbox) = {n} \cup ToSet(inbox')
      /\ Rising(inbox') /\ Below({n}, ToSet(inbox'))
  BY <1>1, TickSets, TailFacts DEF InOrder
<1> HIDE DEF n
<1>3. Below(ToSet(tickQ), {n}) /\ Below(ToSet(tickQ), ToSet(inbox'))
  BY <1>2 DEF InOrder, Below
<1>4. /\ ToSet(tickQ') = ToSet(tickQ) \cup {n} \/ (ToSet(tickQ') = ToSet(tickQ) /\ n \in dropped')
      /\ Rising(tickQ') /\ dropped \subseteq dropped'
  <2>1. CASE tickQ' = Append(tickQ, n) /\ UNCHANGED dropped
    <3>1. tickQ \in Seq(1..received) /\ Rising(tickQ)
      BY TickSets DEF InOrder
    <3> DEFINE S == 1..received
    <3> HIDE DEF S
    <3>3. tickQ \in Seq(S) /\ n \in S
      BY <1>2, <3>1 DEF S
    <3>2. ToSet(tickQ') = ToSet(tickQ) \cup {n} /\ Rising(tickQ')
      BY <1>3, <2>1, <3>1, <3>3, AppendFacts
    <3> QED
      BY <2>1, <3>2
  <2>2. CASE dropped' = dropped \cup {n} /\ UNCHANGED tickQ
    BY <2>2 DEF InOrder
  <2> QED
    BY <1>1, <2>1, <2>2
<1>5. Below(ToSet(tickQ'), ToSet(inbox')) /\ Behind' \subseteq Behind
  BY <1>2, <1>3, <1>4 DEF Below, Behind
<1>6. InHand' = InHand /\ Journaled' = Journaled
  BY <1>1 DEF InHand, Journaled
<1>7. InOrder'
  <2>1. Rising(inbox') /\ Rising(tickQ') /\ Rising(batch')
    BY <1>1, <1>2, <1>4 DEF InOrder
  <2>2. Below(InHand', Behind') /\ Below(ToSet(batch'), InHand' \cup Behind')
        /\ Below(Journaled', InHand' \cup Behind')
    BY <1>1, <1>5, <1>6 DEF InOrder, Below
  <2>3. /\ \A r \in Journaled', b \in ToSet(batch') : r < b \/ r \in recommits'
        /\ \A i, j \in DOMAIN rows' : i < j => rows'[i] < rows'[j] \/ rows'[i] \in recommits'
    BY <1>1, <1>6 DEF InOrder
  <2> QED
    BY <1>5, <2>1, <2>2, <2>3 DEF InOrder
<1>8. OnTheWay \cup dropped \subseteq OnTheWay' \cup dropped'
  BY <1>1, <1>2, <1>4 DEF OnTheWay
<1>9. Missing' \subseteq Missing
  BY <1>1, <1>6, <1>8 DEF Missing
<1>10. AtMostOne'
  BY <1>1, <1>9 DEF AtMostOne
<1> QED
  BY <1>7, <1>10

LEMMA TakeStep ==
    ASSUME Types, Places, InOrder, AtMostOne, TakeTick
    PROVE  InOrder' /\ AtMostOne'
<1> DEFINE n == Head(tickQ)
<1>1. /\ tickQ # <<>> /\ tickQ' = Tail(tickQ) /\ hand' = n /\ cpc = "get"
      /\ UNCHANGED <<received, inbox, dropped, batch, rows, recommits>>
  BY DEF TakeTick
<1>2. /\ n \in 1..received /\ ToSet(tickQ) = {n} \cup ToSet(tickQ')
      /\ Rising(tickQ') /\ Below({n}, ToSet(tickQ'))
  BY <1>1, TickSets, TailFacts DEF InOrder
<1> HIDE DEF n
<1>3. hand = 0 /\ InHand = {} /\ InHand' = {n}
  <2>1. hand = 0
    BY <1>1 DEF Places
  <2> QED
    BY <1>1, <1>2, <2>1 DEF InHand
<1>4. /\ Behind = InHand' \cup Behind' /\ Below(InHand', Behind') /\ Journaled' = Journaled
      /\ Below(ToSet(tickQ'), ToSet(inbox'))
  BY <1>1, <1>2, <1>3 DEF Behind, InOrder, Below, Journaled
<1>5. InOrder'
  <2>1. Rising(inbox') /\ Rising(tickQ') /\ Rising(batch')
    BY <1>1, <1>2 DEF InOrder
  <2>2. Below(ToSet(batch'), InHand' \cup Behind') /\ Below(Journaled', InHand' \cup Behind')
    BY <1>1, <1>3, <1>4 DEF InOrder, Below
  <2>3. /\ \A r \in Journaled', b \in ToSet(batch') : r < b \/ r \in recommits'
        /\ \A i, j \in DOMAIN rows' : i < j => rows'[i] < rows'[j] \/ rows'[i] \in recommits'
    BY <1>1, <1>4 DEF InOrder
  <2> QED
    BY <1>4, <2>1, <2>2, <2>3 DEF InOrder
<1>6. OnTheWay' = OnTheWay
  BY <1>1, <1>2, <1>3 DEF OnTheWay, InHand
<1>7. Missing' = Missing
  BY <1>1, <1>4, <1>6 DEF Missing
<1>8. AtMostOne'
  BY <1>1, <1>7 DEF AtMostOne, Ended
<1> QED
  BY <1>5, <1>8

\* The batch with the tick in hand.
LEMMA BatchLonger ==
    ASSUME Types, hand # 0, batch' = Append(batch, hand)
    PROVE  ToSet(batch') = ToSet(batch) \cup {hand}
<1>1. hand \in 1..received /\ batch \in Seq(1..received)
  BY TickSets
<1>2. /\ DOMAIN batch' = DOMAIN batch \cup {Len(batch) + 1}
      /\ \A i \in DOMAIN batch : batch'[i] = batch[i]
      /\ batch'[Len(batch) + 1] = hand
  BY <1>1
<1>3. Len(batch) + 1 \notin DOMAIN batch
  BY <1>1
<1> QED
  BY <1>2, <1>3 DEF ToSet

LEMMA DoneStep ==
    ASSUME Types, Places, InOrder, AtMostOne, TickDone
    PROVE  InOrder' /\ AtMostOne'
<1>1. /\ batch' = Append(batch, hand) /\ hand' = 0 /\ cpc = "engine"
      /\ UNCHANGED <<received, inbox, tickQ, dropped, rows, recommits>>
  BY DEF TickDone, feedVars
<1>2. hand \in 1..received /\ InHand = {hand} /\ InHand' = {}
  <2>1. hand # 0
    BY <1>1 DEF Places
  <2> QED
    BY <1>1, <2>1, TickSets DEF InHand
<1>3. Below(ToSet(batch), {hand}) /\ Below(Journaled, {hand}) /\ Below({hand}, Behind)
  BY <1>2 DEF InOrder, Below
<1>4. ToSet(batch') = ToSet(batch) \cup {hand} /\ Rising(batch')
  <2>1. batch \in Seq(1..received) /\ Rising(batch)
    BY TickSets DEF InOrder
  <2> DEFINE S == 1..received
  <2> HIDE DEF S
  <2>2. batch \in Seq(S) /\ hand \in S
    BY <1>2, <2>1 DEF S
  <2> QED
    BY <1>1, <1>3, <2>1, <2>2, AppendFacts
<1>5. Behind' = Behind /\ Journaled' = Journaled
  BY <1>1 DEF Behind, Journaled
<1>6. InOrder'
  <2>1. Rising(inbox') /\ Rising(tickQ') /\ Below(ToSet(tickQ'), ToSet(inbox'))
    BY <1>1 DEF InOrder
  <2>2. Below(InHand', Behind') /\ Below(ToSet(batch'), InHand' \cup Behind')
        /\ Below(Journaled', InHand' \cup Behind')
    BY <1>2, <1>3, <1>4, <1>5 DEF InOrder, Below
  <2>3. \A r \in Journaled', b \in ToSet(batch') : r < b \/ r \in recommits'
    BY <1>1, <1>3, <1>4, <1>5 DEF InOrder, Below
  <2>4. \A i, j \in DOMAIN rows' : i < j => rows'[i] < rows'[j] \/ rows'[i] \in recommits'
    BY <1>1 DEF InOrder
  <2> QED
    BY <1>4, <2>1, <2>2, <2>3, <2>4 DEF InOrder
<1>7. OnTheWay' = OnTheWay
  BY <1>1, <1>2, <1>4 DEF OnTheWay, InHand
<1>8. Missing' = Missing
  BY <1>1, <1>5, <1>7 DEF Missing
<1>9. AtMostOne'
  BY <1>1, <1>8 DEF AtMostOne, Ended
<1> QED
  BY <1>6, <1>9

LEMMA WritesStep ==
    ASSUME Types, Places, InOrder, AtMostOne, Writes
    PROVE  InOrder' /\ AtMostOne'
<1>1. /\ UNCHANGED <<received, inbox, tickQ, dropped>>
      /\ cpc \in Ended => cpc' \in Ended
      /\ hand' = hand \/ (hand' = 0 /\ cpc \notin Ended /\ cpc' \in Ended)
  BY DEF Writes
<1>2. Behind' = Behind /\ InHand' \subseteq InHand
  BY <1>1 DEF Behind, InHand
<1>3. rows \o batch \in Seq(1..received) /\ ToSet(rows \o batch) = Journaled \cup ToSet(batch)
  BY TickSets, JoinFacts DEF Journaled
<1>4. \A i, j \in DOMAIN (rows \o batch) : i < j =>
         (rows \o batch)[i] < (rows \o batch)[j] \/ (rows \o batch)[i] \in recommits
  BY TickSets, JoinOrder DEF InOrder, Journaled
<1> DEFINE u == rows \o batch
<1>5. /\ ToSet(batch') \subseteq ToSet(batch) /\ Rising(batch')
      /\ Journaled' \subseteq Journaled \cup ToSet(batch)
      /\ Journaled \cup ToSet(batch) \subseteq Journaled' \cup ToSet(batch')
      /\ \A r \in Journaled', b \in ToSet(batch') : r < b \/ r \in recommits'
      /\ \A i, j \in DOMAIN rows' : i < j => rows'[i] < rows'[j] \/ rows'[i] \in recommits'
  <2>1. CASE UNCHANGED <<batch, rows, recommits>>
    BY <2>1 DEF InOrder, Journaled
  <2>2. CASE batch' = <<>> /\ rows' = rows \o batch /\ UNCHANGED recommits
    <3>1. ToSet(batch') = {} /\ Rising(batch')
      BY <2>2 DEF ToSet, Rising
    <3>2. Journaled' = Journaled \cup ToSet(batch)
      BY <1>3, <2>2 DEF Journaled
    <3>3. \A i, j \in DOMAIN rows' : i < j => rows'[i] < rows'[j] \/ rows'[i] \in recommits'
      BY <1>4, <2>2
    <3> QED
      BY <3>1, <3>2, <3>3
  <2>3. CASE UNCHANGED batch /\ rows' = rows \o batch /\ recommits' = recommits \cup ToSet(batch)
    <3>1. ToSet(batch') = ToSet(batch) /\ Rising(batch')
      BY <2>3 DEF InOrder
    <3>2. Journaled' = Journaled \cup ToSet(batch)
      BY <1>3, <2>3 DEF Journaled
    <3>3. \A i, j \in DOMAIN rows' : i < j => rows'[i] < rows'[j] \/ rows'[i] \in recommits'
      BY <1>4, <2>3
    <3>4. \A r \in Journaled', b \in ToSet(batch') : r < b \/ r \in recommits'
      BY <2>3, <3>1, <3>2 DEF InOrder
    <3> QED
      BY <3>1, <3>2, <3>3, <3>4
  <2> QED
    BY <2>1, <2>2, <2>3 DEF Writes
<1>6. InOrder'
  <2>1. Rising(inbox') /\ Rising(tickQ') /\ Below(ToSet(tickQ'), ToSet(inbox'))
    BY <1>1 DEF InOrder
  <2>2. Below(InHand', Behind') /\ Below(ToSet(batch'), InHand' \cup Behind')
        /\ Below(Journaled', InHand' \cup Behind')
    BY <1>2, <1>5 DEF InOrder, Below
  <2> QED
    BY <1>5, <2>1, <2>2 DEF InOrder
<1>7. Missing' \subseteq Missing \cup (InHand \ InHand')
  <2>1. ToSet(inbox') = ToSet(inbox) /\ ToSet(tickQ') = ToSet(tickQ)
    BY <1>1
  <2>2. OnTheWay = ToSet(inbox) \cup ToSet(tickQ) \cup InHand \cup ToSet(batch)
        /\ OnTheWay' = ToSet(inbox') \cup ToSet(tickQ') \cup InHand' \cup ToSet(batch')
    BY DEF OnTheWay, InHand
  <2> QED
    BY <1>1, <1>5, <2>1, <2>2 DEF Missing
<1>8. AtMostOne'
  <2>1. CASE hand' = hand
    <3>1. InHand' = InHand
      BY <2>1 DEF InHand
    <3> QED
      BY <1>1, <1>7, <3>1 DEF AtMostOne
  <2>2. CASE cpc \notin Ended /\ cpc' \in Ended
    <3>1. Missing' \subseteq {hand}
      BY <1>7, <2>2 DEF AtMostOne, InHand
    <3> QED
      BY <2>2, <3>1 DEF AtMostOne
  <2> QED
    BY <1>1, <2>1, <2>2
<1> QED
  BY <1>6, <1>8

-----------------------------------------------------------------------------
\* The bars

Still == UNCHANGED <<current, closedBar, bar, barQ, bars>>

BarEnds ==
    /\ bpc' = "done" /\ bar' = 0 /\ UNCHANGED <<current, closedBar, barQ>>
    /\ UNCHANGED bars \/ (bar # 0 /\ bars' = Append(bars, bar))

TickEnds ==
    /\ cpc' \in Ended /\ UNCHANGED <<bar, bars>> /\ closedBar' = 0
    /\ \/ current' \in {0, current} /\ UNCHANGED barQ
       \/ current # 0 /\ current' = 0 /\ barQ' = Append(barQ, current)

\* Both consumers end for good.
Endless == (cpc \in Ended => cpc' \in Ended) /\ (bpc = "done" => bpc' = "done")

LEMMA BarMoves ==
    ASSUME Types, Places, [Next]_vars
    PROVE  /\ Still \/ BarEnds \/ TickEnds \/ TickDone \/ PutBar \/ TakeBar \/ WriteBar
           /\ Endless
<1>1. CASE FeedSteps \/ TasksAwaited \/ Joined \/ StartFault \/ UNCHANGED vars
  <2>1. UNCHANGED <<cpc, bpc, current, closedBar, bar, barQ, bars>>
    BY <1>1 DEF FeedSteps, Feed, Received, StopCalled, FeedStopped, TasksAwaited, Joined,
                StartFault, vars, tickTask, barTask
  <2> QED
    BY <2>1 DEF Still, Endless
<1>2. CASE Started
  <2>1. UNCHANGED <<current, closedBar, bar, barQ, bars>> /\ cpc = "unborn" /\ bpc = "unborn"
    BY <1>2 DEF Started, Places
  <2> QED
    BY <2>1 DEF Still, Endless, Ended
<1>3. CASE BarTask \/ BarFault
  <2>1. UNCHANGED cpc /\ bpc # "done"
    BY <1>3 DEF BarTask, BarFault, TakeBar, WriteBar, SignalDone, CancelBars, EndBars, tickTask
  <2>2. CASE SignalDone
    BY <2>1, <2>2 DEF SignalDone, Still, Endless, tickTask
  <2>3. CASE EndBars /\ UNCHANGED <<tickTask, barQ>>
    <3>1. bpc = "write" => bar # 0
      BY DEF Places
    <3> QED
      BY <2>1, <2>3, <3>1 DEF EndBars, BarEnds, Endless, tickTask
  <2> QED
    BY <1>3, <2>1, <2>2, <2>3 DEF BarTask, BarFault, CancelBars, Endless
<1>4. CASE TickSteps
  <2>1. UNCHANGED <<bpc, bar, bars>>
    BY <1>4 DEF TickSteps, TakeTick, FlushOnTimeout, TickDone, PutBar, FlushDone, CancelTicks,
                LastFlush, TickFault, LastFlushFault, barTask
  <2>2. CASE TakeTick \/ FlushOnTimeout \/ FlushDone
    <3>1. UNCHANGED <<current, closedBar, barQ>> /\ cpc \notin Ended
      BY <2>2 DEF TakeTick, FlushOnTimeout, FlushDone, Ended
    <3> QED
      BY <2>1, <3>1 DEF Still, Endless
  <2>3. CASE TickDone \/ PutBar
    <3>1. cpc \notin Ended
      BY <2>3 DEF TickDone, PutBar, Ended
    <3> QED
      BY <2>1, <2>3, <3>1 DEF Endless
  <2>4. CASE EndTicks
    <3>1. cpc' \in Ended /\ closedBar' = 0 /\ cpc \notin Ended /\ EnterFinally
      BY <2>4, Endings DEF Ended
    <3>2. \/ current' \in {0, current} /\ UNCHANGED barQ
          \/ current # 0 /\ current' = 0 /\ barQ' = Append(barQ, current)
      BY <3>1, Endings
    <3> QED
      BY <2>1, <3>1, <3>2 DEF TickEnds, Endless
  <2>5. CASE LastFlush
    <3>1. FinishTicks /\ UNCHANGED closedBar /\ cpc \in {"lastFlush", "dyingFlush"}
      BY <2>5 DEF LastFlush, InLastFlush
    <3>2. cpc' = "done" /\ closedBar' = 0
      BY <3>1 DEF FinishTicks, Places
    <3>3. \/ current' \in {0, current} /\ UNCHANGED barQ
          \/ current # 0 /\ current' = 0 /\ barQ' = Append(barQ, current)
      BY <3>1, Endings
    <3> QED
      BY <2>1, <3>2, <3>3 DEF TickEnds, Endless, Ended
  <2>6. ASSUME cpc' = "done", UNCHANGED <<current, closedBar, barQ>>
        PROVE  Still /\ Endless
    BY <2>1, <2>6 DEF Still, Endless, Ended
  <2> QED
    BY <1>4, <2>2, <2>3, <2>4, <2>5, <2>6 DEF TickSteps, CancelTicks, TickFault, LastFlushFault
<1> QED
  BY <1>1, <1>2, <1>3, <1>4, NextSteps DEF OtherSteps

LEMMA BarSets ==
    ASSUME Types, Places
    PROVE  /\ current \in Nat /\ closedBar \in Nat /\ bar \in Nat
           /\ barQ \in Seq(Nat) /\ bars \in Seq(Nat)
           /\ Made \subseteq Nat /\ Queued \subseteq Nat /\ Held \subseteq Nat
           /\ Put \subseteq Nat /\ InProgress \subseteq Nat
<1>1. /\ current \in Nat /\ closedBar \in Nat /\ bar \in Nat
      /\ barQ \in Seq(Nat) /\ bars \in Seq(Nat)
  BY DEF Types, Places
<1>2. \A s \in Seq(Nat) : ToSet(s) \subseteq Nat
  BY DEF ToSet
<1> QED
  BY <1>1, <1>2 DEF Made, Queued, Held, Put, InProgress

\* What the ticks in the batch and the journal have been through.
LEMMA MinuteSets ==
    ASSUME Types, Places, InOrder
    PROVE  /\ Minutes \subseteq Nat \ {0}
           /\ hand # 0 => \A m \in Minutes : m <= Minute(hand)
           /\ hand # 0 => Minute(hand) \in Nat \ {0}
<1> DEFINE U == ToSet(batch) \cup Journaled
<1>1. U \subseteq Nat \ {0}
  BY TickSets DEF Journaled
<1>2. hand \in Nat /\ (hand # 0 => \A t \in U : t < hand)
  BY TickSets DEF InOrder, Below, InHand
<1>3. Minutes = {Minute(t) : t \in U}
  BY DEF Minutes
<1> HIDE DEF U
<1>4. Minutes \subseteq Nat \ {0}
  BY <1>1, <1>3, MinuteFacts
<1>5. ASSUME hand # 0 PROVE (\A m \in Minutes : m <= Minute(hand)) /\ Minute(hand) \in Nat \ {0}
  <2>1. \A t \in U : t <= hand /\ t \in Nat \ {0}
    BY <1>1, <1>2, <1>5
  <2>2. \A t \in U : Minute(t) <= Minute(hand)
    BY <1>2, <1>5, <2>1, MinuteFacts
  <2> QED
    BY <1>2, <1>3, <1>5, <2>2, MinuteFacts
<1> QED
  BY <1>4, <1>5

LEMMA MinutesKept ==
    ASSUME Types, Arrives \/ Queues \/ TakeTick \/ Writes
    PROVE  Minutes' = Minutes
<1>1. ToSet(batch') \cup Journaled' = ToSet(batch) \cup Journaled
  <2>1. CASE UNCHANGED <<batch, rows>>
    BY <2>1 DEF Journaled
  <2>2. CASE rows' = rows \o batch /\ (batch' = <<>> \/ batch' = batch)
    <3>1. Journaled' = Journaled \cup ToSet(batch)
      BY <2>2, TickSets, JoinFacts DEF Journaled
    <3>2. ToSet(batch') \subseteq ToSet(batch)
      BY <2>2 DEF ToSet
    <3> QED
      BY <3>1, <3>2
  <2> QED
    BY <2>1, <2>2 DEF Arrives, Queues, TakeTick, Writes
<1> QED
  BY <1>1 DEF Minutes

\* The bar of the minute in progress is appended to bar_q, and so is the one
\* that waited for room.
LEMMA BarAppended ==
    ASSUME Types, Places, BarsInOrder, NEW m \in Nat \ {0}, Below(Queued, {m}),
           barQ' = Append(barQ, m)
    PROVE  Queued' = Queued \cup {m} /\ Rising(barQ')
<1>1. barQ \in Seq(Nat) /\ Rising(barQ) /\ m \in Nat /\ Below(ToSet(barQ), {m})
  BY BarSets DEF BarsInOrder, Queued
<1> QED
  BY <1>1, AppendFacts, ZenonT(40) DEF Queued

LEMMA BarDone ==
    ASSUME Types, Places, InOrder, BarsInOrder, BarsComplete, TickDone
    PROVE  BarsInOrder' /\ BarsComplete'
<1> DEFINE m == Minute(hand)
<1>1. /\ current' = m /\ cpc = "engine" /\ batch' = Append(batch, hand) /\ UNCHANGED <<bar, bars, bpc, rows>>
      /\ \/ closedBar' = current /\ UNCHANGED barQ /\ current # 0 /\ m > current
         \/ barQ' = Append(barQ, current) /\ UNCHANGED closedBar /\ current # 0 /\ m > current
         \/ UNCHANGED <<barQ, closedBar>> /\ ~(current # 0 /\ m > current)
  BY DEF TickDone, ClosesBar, barTask
<1>2. closedBar = 0 /\ Put = {} /\ hand # 0 /\ hand \in Nat
  BY <1>1, TickSets DEF Places, Put
<1>3. m \in Nat \ {0} /\ (\A k \in Minutes : k <= m) /\ Minutes \subseteq Nat \ {0}
  BY <1>2, MinuteSets
<1> HIDE DEF m
<1>4. /\ InProgress \subseteq Minutes /\ (current = 0 => Minutes = {})
      /\ \A k \in Minutes : k <= current
      /\ Made \cup Held \cup Queued \subseteq Minutes \ {current}
      /\ bpc # "done" => Minutes \ {current} \subseteq Made \cup Held \cup Queued
  BY <1>1, <1>2 DEF BarsComplete, Ended
<1>5. current \in Nat /\ (current = 0 \/ current <= m)
  BY <1>3, <1>4, BarSets DEF InProgress
<1>6. Minutes' = Minutes \cup {m}
  <2>1. batch' = Append(batch, hand)
    BY <1>1
  <2>2. ToSet(batch') = ToSet(batch) \cup {hand}
    BY <1>2, <2>1, BatchLonger
  <2>3. Journaled' = Journaled
    BY <1>1 DEF Journaled
  <2> QED
    BY <2>2, <2>3 DEF Minutes, m
<1>7. InProgress' = {m} /\ Made' = Made /\ Held' = Held
  BY <1>1, <1>3 DEF InProgress, Made, Held
<1>8. cpc' \notin Ended
  BY DEF TickDone, Onward, Ended
<1>9. CASE closedBar' = current /\ UNCHANGED barQ /\ current # 0 /\ m > current
  <2>1. Put' = {current} /\ Queued' = Queued /\ InProgress = {current}
    BY <1>9 DEF Put, Queued, InProgress
  <2>2. BarsInOrder'
    <3>1. Rising(bars') /\ Rising(barQ') /\ 0 \notin Made' \cup Queued'
      BY <1>1, <1>7, <1>9, <2>1 DEF BarsInOrder
    <3>2. /\ Below(Made, Held \cup Queued \cup {current}) /\ Below(Held, Queued \cup {current})
          /\ Below(Queued, {current}) /\ Below({current}, {m})
      BY <1>2, <1>3, <1>5, <1>9, <2>1 DEF BarsInOrder, Below
    <3>3. /\ Below(Made, Held \cup Queued \cup {current} \cup {m}) /\ Below(Held, Queued \cup {current} \cup {m})
          /\ Below(Queued, {current} \cup {m})
      <4>1. Made \subseteq Nat /\ Held \subseteq Nat /\ Queued \subseteq Nat
        BY BarSets
      <4> QED
        BY <1>3, <1>5, <1>9, <3>2, <4>1 DEF Below
    <3> QED
      BY <1>7, <2>1, <3>1, <3>2, <3>3 DEF BarsInOrder
  <2>3. BarsComplete'
    BY <1>1, <1>3, <1>4, <1>5, <1>6, <1>7, <1>9, <2>1 DEF BarsComplete
  <2> QED
    BY <2>2, <2>3
<1>10. CASE barQ' = Append(barQ, current) /\ UNCHANGED closedBar /\ current # 0 /\ m > current
  <2>1. InProgress = {current} /\ Put' = {} /\ current \in Nat \ {0}
    BY <1>2, <1>5, <1>10 DEF Put, InProgress
  <2>2. Below(Queued, {current})
    BY <2>1 DEF BarsInOrder, Below
  <2>3. Queued' = Queued \cup {current} /\ Rising(barQ')
    BY <1>10, <2>1, <2>2, BarAppended
  <2>4. BarsInOrder'
    <3>1. Rising(bars') /\ Rising(barQ') /\ 0 \notin Made' \cup Queued'
      BY <1>1, <1>7, <2>1, <2>3 DEF BarsInOrder
    <3>2. /\ Below(Made, Held \cup Queued \cup {current}) /\ Below(Held, Queued \cup {current})
          /\ Below({current}, {m})
      BY <1>2, <1>3, <1>5, <1>10, <2>1 DEF BarsInOrder, Below
    <3>3. /\ Below(Made, Held \cup (Queued \cup {current}) \cup {m})
          /\ Below(Held, (Queued \cup {current}) \cup {m})
          /\ Below(Queued \cup {current}, {m})
      <4>1. Made \subseteq Nat /\ Held \subseteq Nat /\ Queued \subseteq Nat
        BY BarSets
      <4> QED
        BY <1>3, <1>5, <1>10, <2>2, <3>2, <4>1 DEF Below
    <3>4. Below(Put', InProgress')
      BY <2>1 DEF Below
    <3> QED
      BY <1>7, <2>1, <2>3, <3>1, <3>3, <3>4 DEF BarsInOrder
  <2>5. BarsComplete'
    BY <1>1, <1>3, <1>4, <1>5, <1>6, <1>7, <1>10, <2>1, <2>3 DEF BarsComplete
  <2> QED
    BY <2>4, <2>5
<1>11. CASE UNCHANGED <<barQ, closedBar>> /\ ~(current # 0 /\ m > current)
  <2>1. Put' = {} /\ Queued' = Queued
    BY <1>2, <1>11 DEF Put, Queued
  <2>2. (current = 0 /\ Minutes = {}) \/ current = m
    BY <1>3, <1>4, <1>5, <1>11
  <2>3. BarsComplete'
    BY <1>1, <1>3, <1>4, <1>6, <1>7, <2>1, <2>2 DEF BarsComplete
  <2>4. UNCHANGED <<bars, barQ>> /\ Put = {} /\ Put' = {}
    BY <1>1, <1>2, <1>11, <2>1
  <2>5. CASE current = 0 /\ Minutes = {}
    <3>1. Made = {} /\ Held = {} /\ Queued = {}
      BY <1>4, <2>5
    <3>2. Rising(bars') /\ Rising(barQ') /\ Made' = {} /\ Held' = {} /\ Queued' = {}
      BY <1>7, <2>1, <2>4, <3>1 DEF BarsInOrder
    <3>3. /\ Below(Made', Held' \cup Queued' \cup Put' \cup InProgress')
          /\ Below(Held', Queued' \cup Put' \cup InProgress')
          /\ Below(Queued', Put' \cup InProgress') /\ Below(Put', InProgress')
          /\ 0 \notin Made' \cup Queued'
      BY <2>4, <3>2 DEF Below
    <3> QED
      BY <2>3, <3>2, <3>3 DEF BarsInOrder
  <2>6. CASE current = m
    <3>1. InProgress' = InProgress
      BY <1>3, <1>7, <2>6 DEF InProgress
    <3>2. Rising(bars') /\ Rising(barQ') /\ Made' = Made /\ Held' = Held /\ Queued' = Queued /\ Put' = Put
      BY <1>7, <2>1, <2>4 DEF BarsInOrder
    <3>3. /\ Below(Made', Held' \cup Queued' \cup Put' \cup InProgress')
          /\ Below(Held', Queued' \cup Put' \cup InProgress')
          /\ Below(Queued', Put' \cup InProgress') /\ Below(Put', InProgress')
          /\ 0 \notin Made' \cup Queued'
      BY <3>1, <3>2 DEF BarsInOrder
    <3> QED
      BY <2>3, <3>2, <3>3 DEF BarsInOrder
  <2> QED
    BY <2>2, <2>3, <2>5, <2>6
<1> QED
  BY <1>1, <1>9, <1>10, <1>11

LEMMA BarPut ==
    ASSUME Types, Places, BarsInOrder, BarsComplete, PutBar
    PROVE  BarsInOrder' /\ BarsComplete'
<1>1. /\ cpc = "put" /\ cpc' \notin Ended /\ barQ' = Append(barQ, closedBar) /\ closedBar' = 0
      /\ UNCHANGED <<batch, rows, current, bar, bars, bpc>>
  BY DEF PutBar, Onward, Ended, barTask
<1>2. closedBar \in Nat \ {0} /\ Put = {closedBar} /\ Put' = {}
  BY <1>1 DEF Places, Put
<1>3. Below(Queued, {closedBar})
  BY <1>2 DEF BarsInOrder, Below
<1>4. Queued' = Queued \cup {closedBar} /\ Rising(barQ')
  BY <1>1, <1>2, <1>3, BarAppended
<1>5. /\ Made' = Made /\ Held' = Held /\ InProgress' = InProgress /\ Minutes' = Minutes
      /\ UNCHANGED <<bars, bpc, current>> /\ cpc \notin Ended
  BY <1>1 DEF Made, Held, InProgress, Minutes, Journaled, Ended
<1>6. BarsInOrder'
  <2>1. Rising(bars') /\ Rising(barQ') /\ 0 \notin Made' \cup Queued'
    BY <1>2, <1>4, <1>5 DEF BarsInOrder
  <2>2. /\ Below(Made', Held' \cup Queued' \cup Put' \cup InProgress')
        /\ Below(Held', Queued' \cup Put' \cup InProgress')
        /\ Below(Queued', Put' \cup InProgress') /\ Below(Put', InProgress')
    BY <1>2, <1>4, <1>5 DEF BarsInOrder, Below
  <2> QED
    BY <2>1, <2>2 DEF BarsInOrder
<1>7. BarsComplete'
  BY <1>2, <1>4, <1>5 DEF BarsComplete
<1> QED
  BY <1>6, <1>7

LEMMA BarTaken ==
    ASSUME Types, Places, BarsInOrder, BarsComplete, TakeBar
    PROVE  BarsInOrder' /\ BarsComplete'
<1> DEFINE b == Head(barQ)
<1>1. /\ barQ # <<>> /\ barQ' = Tail(barQ) /\ bar' = b /\ bpc = "get" /\ bpc' = "write"
      /\ UNCHANGED <<cpc, batch, rows, current, closedBar, bars>>
  BY DEF TakeBar, tickTask
<1>2. b \in Nat /\ Queued = {b} \cup Queued' /\ Rising(barQ') /\ Below({b}, Queued')
  BY <1>1, BarSets, TailFacts DEF BarsInOrder, Queued
<1> HIDE DEF b
<1>3. Held = {} /\ Held' = {b} /\ b # 0
  <2>1. bar = 0 /\ b # 0
    BY <1>1, <1>2 DEF Places, BarsInOrder
  <2> QED
    BY <1>1, <2>1 DEF Held
<1>4. /\ Made' = Made /\ Put' = Put /\ InProgress' = InProgress /\ Minutes' = Minutes
      /\ UNCHANGED <<bars, cpc, current>> /\ bpc # "done"
  BY <1>1 DEF Made, Put, InProgress, Minutes, Journaled
<1>5. BarsInOrder'
  <2>1. Rising(bars') /\ Rising(barQ') /\ 0 \notin Made' \cup Queued'
    BY <1>2, <1>4 DEF BarsInOrder
  <2>2. /\ Below(Made', Held' \cup Queued' \cup Put' \cup InProgress')
        /\ Below(Held', Queued' \cup Put' \cup InProgress')
        /\ Below(Queued', Put' \cup InProgress') /\ Below(Put', InProgress')
    BY <1>2, <1>3, <1>4 DEF BarsInOrder, Below
  <2> QED
    BY <2>1, <2>2 DEF BarsInOrder
<1>6. BarsComplete'
  BY <1>2, <1>3, <1>4 DEF BarsComplete
<1> QED
  BY <1>5, <1>6

\* The bar in the consumer's hand is appended to the journal's.
LEMMA BarLonger ==
    ASSUME Types, Places, BarsInOrder, bar # 0, bars' = Append(bars, bar)
    PROVE  Made' = Made \cup {bar} /\ Rising(bars') /\ Held = {bar}
<1>1. bars \in Seq(Nat) /\ bar \in Nat /\ Rising(bars) /\ Below(ToSet(bars), {bar})
  BY BarSets DEF BarsInOrder, Made, Held, Below
<1> QED
  BY <1>1, AppendFacts DEF Made, Held

LEMMA BarWritten ==
    ASSUME Types, Places, BarsInOrder, BarsComplete, WriteBar
    PROVE  BarsInOrder' /\ BarsComplete'
<1>1. /\ bars' = Append(bars, bar) /\ bar' = 0 /\ bpc = "write" /\ bpc' # "done"
      /\ UNCHANGED <<cpc, batch, rows, current, closedBar, barQ>>
  BY DEF WriteBar, tickTask
<1>2. bar # 0
  BY <1>1 DEF Places
<1>3. Made' = Made \cup {bar} /\ Rising(bars') /\ Held = {bar} /\ Held' = {}
  BY <1>1, <1>2, BarLonger DEF Held
<1>4. /\ Queued' = Queued /\ Put' = Put /\ InProgress' = InProgress /\ Minutes' = Minutes
      /\ UNCHANGED <<barQ, cpc, current>> /\ bpc # "done"
  BY <1>1 DEF Queued, Put, InProgress, Minutes, Journaled
<1>5. BarsInOrder'
  <2>1. Rising(bars') /\ Rising(barQ') /\ 0 \notin Made' \cup Queued'
    BY <1>2, <1>3, <1>4 DEF BarsInOrder
  <2>2. /\ Below(Made', Held' \cup Queued' \cup Put' \cup InProgress')
        /\ Below(Held', Queued' \cup Put' \cup InProgress')
        /\ Below(Queued', Put' \cup InProgress') /\ Below(Put', InProgress')
    BY <1>3, <1>4 DEF BarsInOrder, Below
  <2> QED
    BY <2>1, <2>2 DEF BarsInOrder
<1>6. BarsComplete'
  BY <1>3, <1>4 DEF BarsComplete
<1> QED
  BY <1>5, <1>6

LEMMA BarsEnded ==
    ASSUME Types, Places, BarsInOrder, BarsComplete, BarEnds, Endless, Minutes' = Minutes
    PROVE  BarsInOrder' /\ BarsComplete'
<1>1. /\ bpc' = "done" /\ Held' = {} /\ Queued' = Queued /\ Put' = Put
      /\ InProgress' = InProgress /\ UNCHANGED <<barQ, current>>
  BY DEF BarEnds, Held, Queued, Put, InProgress
<1>2. /\ Made \subseteq Made' /\ Made' \subseteq Made \cup Held /\ Rising(bars')
      /\ 0 \notin Made'
  <2>1. CASE UNCHANGED bars
    BY <2>1 DEF Made, BarsInOrder
  <2>2. CASE bar # 0 /\ bars' = Append(bars, bar)
    BY <2>2, BarLonger DEF BarsInOrder
  <2> QED
    BY <2>1, <2>2 DEF BarEnds
<1>3. BarsInOrder'
  <2>1. Rising(bars') /\ Rising(barQ') /\ 0 \notin Made' \cup Queued'
    BY <1>1, <1>2 DEF BarsInOrder
  <2>2. /\ Below(Made', Held' \cup Queued' \cup Put' \cup InProgress')
        /\ Below(Held', Queued' \cup Put' \cup InProgress')
        /\ Below(Queued', Put' \cup InProgress') /\ Below(Put', InProgress')
    BY <1>1, <1>2 DEF BarsInOrder, Below
  <2> QED
    BY <2>1, <2>2 DEF BarsInOrder
<1>4. BarsComplete'
  <2>1. cpc' \notin Ended => cpc \notin Ended
    BY DEF Endless
  <2> QED
    BY <1>1, <1>2, <2>1 DEF BarsComplete
<1> QED
  BY <1>3, <1>4

LEMMA TicksEnded ==
    ASSUME Types, Places, BarsInOrder, TickEnds
    PROVE  BarsInOrder' /\ BarsComplete'
<1>1. cpc' \in Ended /\ Made' = Made /\ Held' = Held /\ Put' = {} /\ UNCHANGED bars
  BY DEF TickEnds, Made, Held, Put
<1>2. CASE current' \in {0, current} /\ UNCHANGED barQ
  <2>1. InProgress' \subseteq InProgress /\ Queued' = Queued
    BY <1>2 DEF InProgress, Queued
  <2>2. Rising(bars') /\ Rising(barQ') /\ 0 \notin Made' \cup Queued'
    BY <1>1, <1>2, <2>1 DEF BarsInOrder
  <2>3. /\ Below(Made', Held' \cup Queued' \cup Put' \cup InProgress')
        /\ Below(Held', Queued' \cup Put' \cup InProgress')
        /\ Below(Queued', Put' \cup InProgress') /\ Below(Put', InProgress')
    BY <1>1, <2>1 DEF BarsInOrder, Below
  <2> QED
    BY <1>1, <2>2, <2>3 DEF BarsInOrder, BarsComplete
<1>3. CASE current # 0 /\ current' = 0 /\ barQ' = Append(barQ, current)
  <2>1. InProgress = {current} /\ InProgress' = {} /\ current \in Nat \ {0}
    BY <1>3, BarSets DEF InProgress
  <2>2. Below(Queued, {current})
    BY <2>1 DEF BarsInOrder, Below
  <2>3. Queued' = Queued \cup {current} /\ Rising(barQ')
    BY <1>3, <2>1, <2>2, BarAppended
  <2>4. Rising(bars') /\ Rising(barQ') /\ 0 \notin Made' \cup Queued'
    BY <1>1, <2>1, <2>3 DEF BarsInOrder
  <2>5. /\ Below(Made', Held' \cup Queued' \cup Put' \cup InProgress')
        /\ Below(Held', Queued' \cup Put' \cup InProgress')
        /\ Below(Queued', Put' \cup InProgress') /\ Below(Put', InProgress')
    BY <1>1, <2>1, <2>3 DEF BarsInOrder, Below
  <2> QED
    BY <1>1, <2>4, <2>5 DEF BarsInOrder, BarsComplete
<1> QED
  BY <1>2, <1>3 DEF TickEnds

LEMMA BarsStep ==
    ASSUME Types, Places, InOrder, BarsInOrder, BarsComplete, [Next]_vars
    PROVE  BarsInOrder' /\ BarsComplete'
<1>1. /\ Still \/ BarEnds \/ TickEnds \/ TickDone \/ PutBar \/ TakeBar \/ WriteBar
      /\ Endless
  BY BarMoves
<1>2. TickDone \/ Minutes' = Minutes
  BY TickMoves, MinutesKept
<1>3. CASE Still /\ Minutes' = Minutes
  <2>1. /\ Made' = Made /\ Held' = Held /\ Queued' = Queued /\ Put' = Put /\ InProgress' = InProgress
        /\ UNCHANGED <<bars, barQ, current>>
    BY <1>3 DEF Still, Made, Held, Queued, Put, InProgress
  <2>2. BarsInOrder'
    BY <2>1 DEF BarsInOrder
  <2>3. (cpc' \notin Ended => cpc \notin Ended) /\ (bpc' # "done" => bpc # "done")
    BY <1>1 DEF Endless
  <2>4. BarsComplete'
    BY <1>3, <2>1, <2>3 DEF BarsComplete
  <2> QED
    BY <2>2, <2>4
<1> QED
  BY <1>1, <1>2, <1>3, BarDone, BarPut, BarTaken, BarWritten, BarsEnded, TicksEnded

-----------------------------------------------------------------------------
\* The room

\* The queues and the batch have lengths.
LEMMA LengthsOf ==
    ASSUME Types
    PROVE  /\ tickQ \in Seq(1..received) /\ barQ \in Seq(Nat) /\ batch \in Seq(1..received)
           /\ current \in Nat
           /\ Lengths
<1>1. tickQ \in Seq(1..received) /\ barQ \in Seq(Nat) /\ batch \in Seq(1..received)
      /\ current \in Nat
  BY DEF Types, FeedTypeOK
<1> QED
  BY <1>1 DEF Lengths

\* tick_q grows by Enqueue alone, which looks at its length first.
LEMMA TickRoom ==
    ASSUME Types, Room, [Next]_vars
    PROVE  Len(tickQ') <= QueueMax
<1>0. Len(tickQ) <= QueueMax /\ QueueMax \in Nat /\ Len(tickQ) \in Nat
      /\ tickQ \in Seq(1..received) /\ inbox \in Seq(1..received)
  BY LengthsOf, FeedAssumption DEF Room, Limits, Lengths, Types, FeedTypeOK
<1>1. CASE Enqueue
  <2>1. CASE Len(tickQ) < QueueMax
    <3>1. tickQ' = Append(tickQ, Head(inbox)) /\ Head(inbox) \in 1..received
      BY <1>0, <1>1, <2>1, TailFacts DEF Enqueue
    <3>2. Len(Append(tickQ, Head(inbox))) = Len(tickQ) + 1
      BY <1>0, <3>1
    <3> QED
      BY <1>0, <2>1, <3>1, <3>2
  <2>2. CASE ~(Len(tickQ) < QueueMax)
    BY <1>0, <1>1, <2>2 DEF Enqueue
  <2> QED
    BY <2>1, <2>2
<1>2. CASE TakeTick
  <2>1. tickQ # <<>> /\ tickQ' = Tail(tickQ)
    BY <1>2 DEF TakeTick
  <2>2. Len(Tail(tickQ)) = Len(tickQ) - 1
    BY <1>0, <2>1
  <2> QED
    BY <1>0, <2>1, <2>2
<1>3. CASE UNCHANGED tickQ
  BY <1>0, <1>3
<1>4. CASE TickSteps
  BY <1>2, <1>3, <1>4 DEF TickSteps, FlushOnTimeout, TickDone, PutBar, FlushDone, CancelTicks,
                          LastFlush, TickFault, LastFlushFault, feedVars
<1>5. CASE OtherSteps
  BY <1>3, <1>5 DEF OtherSteps, BarTask, TakeBar, WriteBar, SignalDone, CancelBars, BarFault,
                    TasksAwaited, Joined, Started, StartFault, feedVars
<1>6. CASE FeedSteps
  <2>1. CASE Feed
    BY <1>3, <2>1 DEF Feed, FeedStep, ThreadStep, CheckStop, PublishSocket, AfterConnect,
                      BackedOff, Connected, Disconnected, OnData
  <2>2. CASE Received
    BY <1>1, <2>2 DEF Received
  <2>3. CASE StopCalled \/ FeedStopped
    BY <1>3, <2>3 DEF StopCalled, SetStop, FeedStopped, CloseSocket
  <2> QED
    BY <1>6, <2>1, <2>2, <2>3 DEF FeedSteps
<1> QED
  BY <1>3, <1>4, <1>5, <1>6, NextSteps DEF vars, feedVars

\* bar_q grows by the tick consumer's put, which waits for room, and by
\* flush_all, which gives up without it.
LEMMA BarRoom ==
    ASSUME Types, Places, Room, [Next]_vars
    PROVE  Len(barQ') <= BarQueueMax
<1>0. Len(barQ) <= BarQueueMax /\ BarQueueMax \in Nat /\ Len(barQ) \in Nat
      /\ barQ \in Seq(Nat) /\ current \in Nat /\ closedBar \in Nat
  BY LengthsOf, PipelineAssumption DEF Room, Limits, Lengths, Types, Places
<1>1. ASSUME NEW b \in Nat, Len(barQ) < BarQueueMax, barQ' = Append(barQ, b)
      PROVE  Len(barQ') <= BarQueueMax
  <2>1. Len(Append(barQ, b)) = Len(barQ) + 1
    BY <1>0
  <2> QED
    BY <1>0, <1>1, <2>1
<1>2. CASE UNCHANGED barQ
  BY <1>0, <1>2
<1>3. CASE FinishTicks \/ EnterFinally
  BY <1>0, <1>1, <1>2, <1>3 DEF FinishTicks, EnterFinally
<1>4. CASE TickDone
  <2>1. \/ UNCHANGED barQ
        \/ Len(barQ) # BarQueueMax /\ barQ' = Append(barQ, current)
    BY <1>4 DEF TickDone
  <2> QED
    BY <1>0, <1>1, <1>2, <2>1
<1>5. CASE PutBar
  BY <1>0, <1>1, <1>5 DEF PutBar
<1>6. CASE TakeBar
  <2>1. barQ # <<>> /\ barQ' = Tail(barQ)
    BY <1>6 DEF TakeBar
  <2>2. Len(Tail(barQ)) = Len(barQ) - 1
    BY <1>0, <2>1
  <2> QED
    BY <1>0, <2>1, <2>2
<1>7. CASE TickSteps
  BY <1>2, <1>3, <1>4, <1>5, <1>7, Endings
     DEF TickSteps, TakeTick, FlushOnTimeout, FlushDone, CancelTicks, LastFlush, TickFault,
         LastFlushFault
<1>8. CASE OtherSteps
  BY <1>2, <1>6, <1>8 DEF OtherSteps, BarTask, WriteBar, SignalDone, CancelBars, BarFault,
                          TasksAwaited, Joined, Started, StartFault
<1>9. CASE FeedSteps
  BY <1>2, <1>9 DEF FeedSteps, Feed, Received, StopCalled, FeedStopped
<1> QED
  BY <1>2, <1>7, <1>8, <1>9, NextSteps DEF vars

\* The batch grows by one tick and is flushed as soon as it is full, before
\* or behind the wait for bar_q; a consumer that ends takes no more.
LEMMA BatchRoom ==
    ASSUME Types, Places, Room, [Next]_vars
    PROVE  Len(batch') <= BatchSize /\ RoomForTick'
<1>0. /\ Len(batch) <= BatchSize /\ BatchSize \in Nat \ {0} /\ Len(batch) \in Nat
      /\ batch \in Seq(1..received)
  BY LengthsOf, PipelineAssumption DEF Room, Limits, Lengths
<1>1. RoomForTick
  BY DEF Room
<1>3. CASE UNCHANGED batch /\ cpc' \notin {"unborn", "get", "engine"}
  BY <1>0, <1>3 DEF RoomForTick
<1>4. CASE UNCHANGED batch /\ cpc \in {"unborn", "get", "engine"}
  BY <1>0, <1>1, <1>4 DEF RoomForTick
<1>5. CASE batch' = <<>>
  BY <1>0, <1>5 DEF RoomForTick
<1>6. CASE UNCHANGED <<batch, cpc>>
  BY <1>0, <1>1, <1>6 DEF RoomForTick
<1>7. CASE TickDone
  <2>1. /\ batch' = Append(batch, hand) /\ cpc = "engine"
        /\ cpc' = "put" \/ cpc' = Onward(batch')
    BY <1>7 DEF TickDone
  <2>2. Len(batch') = Len(batch) + 1
    BY <1>0, <2>1
  <2>3. Len(batch) < BatchSize
    BY <1>1, <2>1 DEF RoomForTick
  <2>4. Len(batch') <= BatchSize /\ Len(batch') \in Nat
    BY <1>0, <2>2, <2>3
  <2>5. cpc' \in {"unborn", "get", "engine"} => Len(batch') < BatchSize
    BY <1>0, <2>1, <2>4 DEF Onward
  <2> QED
    BY <2>4, <2>5 DEF RoomForTick
<1>8. CASE PutBar
  <2>1. UNCHANGED batch /\ cpc' = Onward(batch)
    BY <1>8 DEF PutBar
  <2>2. cpc' \in {"unborn", "get", "engine"} => Len(batch') < BatchSize
    BY <1>0, <2>1 DEF Onward
  <2> QED
    BY <1>0, <2>1, <2>2 DEF RoomForTick
<1>9. CASE TickSteps
  <2>1. CASE TakeTick \/ FlushOnTimeout
    BY <1>4, <2>1 DEF TakeTick, FlushOnTimeout
  <2>2. CASE FlushDone \/ LastFlush
    BY <1>5, <2>2 DEF FlushDone, LastFlush
  <2>3. CASE CancelTicks \/ TickFault \/ LastFlushFault
    BY <1>3, <2>3, Endings DEF CancelTicks, TickFault, LastFlushFault
  <2> QED
    BY <1>7, <1>8, <1>9, <2>1, <2>2, <2>3 DEF TickSteps
<1>10. CASE OtherSteps
  <2>1. CASE Started
    BY <1>4, <2>1 DEF Started, Places
  <2>2. CASE BarTask \/ BarFault \/ TasksAwaited \/ Joined \/ StartFault
    BY <1>6, <2>2 DEF BarTask, TakeBar, WriteBar, SignalDone, CancelBars, BarFault,
                      TasksAwaited, Joined, StartFault, tickTask
  <2> QED
    BY <1>10, <2>1, <2>2 DEF OtherSteps
<1>11. CASE FeedSteps
  BY <1>6, <1>11 DEF FeedSteps, Feed, Received, StopCalled, FeedStopped, tickTask
<1> QED
  BY <1>6, <1>9, <1>10, <1>11, NextSteps DEF vars, tickTask

LEMMA RoomStep ==
    ASSUME Types, Places, Room, [Next]_vars
    PROVE  Room'
BY TickRoom, BarRoom, BatchRoom DEF Room, Limits

-----------------------------------------------------------------------------
\* The invariant and what follows from it

LEMMA PipeInit ==
    ASSUME Init
    PROVE  PipeInv
<1>1. /\ received = 0 /\ inbox = <<>> /\ tickQ = <<>> /\ dropped = {} /\ hand = 0
      /\ batch = <<>> /\ rows = <<>> /\ bars = <<>> /\ barQ = <<>> /\ bar = 0
      /\ closedBar = 0 /\ current = 0 /\ recommits = {} /\ faults = 0
      /\ cpc = "unborn" /\ bpc = "unborn" /\ opc = "starting"
      /\ halted = FALSE /\ fpc = "check" /\ made = 0 /\ sws = 0 /\ closed = {}
  BY DEF Init, FeedInit
<1>2. ToSet(<<>>) = {} /\ Rising(<<>>)
  BY DEF ToSet, Rising
<1>3. Types
  <2>1. 0 \in 0..MaxTicks /\ 0 \in 0..MaxSockets /\ 0 \in 0..MaxFaults
    BY FeedAssumption, PipelineAssumption
  <2>2. FeedTypeOK
    <3>1. /\ made \in 0..MaxSockets /\ received \in 0..MaxTicks
          /\ halted \in BOOLEAN /\ fpc = "check"
      BY <1>1, <2>1
    <3>2. sws \in 0..made
      BY <1>1
    <3>3. inbox \in Seq(1..received) /\ tickQ \in Seq(1..received)
      BY <1>1
    <3>4. closed \subseteq 1..made /\ dropped \subseteq 1..received
      BY <1>1
    <3> QED
      BY <3>1, <3>2, <3>3, <3>4 DEF FeedTypeOK
  <2> QED
    BY <1>1, <2>1, <2>2 DEF Types
<1>4. Places
  BY <1>1 DEF Places
<1>5. InHand = {} /\ Behind = {} /\ Journaled = {} /\ ToSet(batch) = {}
  BY <1>1, <1>2 DEF InHand, Behind, Journaled
<1>6. InOrder
  <2>1. Rising(inbox) /\ Rising(tickQ) /\ Rising(batch)
    BY <1>1, <1>2
  <2>2. \A i, j \in DOMAIN rows : i < j => rows[i] < rows[j] \/ rows[i] \in recommits
    BY <1>1
  <2>3. Below(ToSet(tickQ), ToSet(inbox))
    BY <1>1, <1>2 DEF Below
  <2>4. /\ Below(InHand, Behind) /\ Below(ToSet(batch), InHand \cup Behind)
        /\ Below(Journaled, InHand \cup Behind)
    BY <1>5 DEF Below
  <2> QED
    BY <1>5, <2>1, <2>2, <2>3, <2>4 DEF InOrder
<1>7. Missing = {}
  BY <1>1 DEF Missing
<1>8. Made = {} /\ Queued = {} /\ Held = {} /\ Put = {} /\ InProgress = {} /\ Minutes = {}
  BY <1>1, <1>2, <1>5 DEF Made, Queued, Held, Put, InProgress, Minutes
<1>9. BarsInOrder
  <2>1. Rising(bars) /\ Rising(barQ)
    BY <1>1, <1>2
  <2> QED
    BY <1>8, <2>1 DEF BarsInOrder, Below
<1>10. BarsComplete
  BY <1>8 DEF BarsComplete
<1>11. Room
  <2>1. Len(<<>>) = 0 /\ QueueMax \in Nat /\ BarQueueMax \in Nat /\ BatchSize \in Nat \ {0}
    BY FeedAssumption, PipelineAssumption
  <2> QED
    BY <1>1, <2>1 DEF Room, Limits, RoomForTick
<1> QED
  BY <1>3, <1>4, <1>6, <1>7, <1>9, <1>10, <1>11 DEF PipeInv, AtMostOne

LEMMA PipeStep ==
    ASSUME PipeInv, [Next]_vars
    PROVE  PipeInv'
<1>1. Types /\ Places /\ Room /\ InOrder /\ AtMostOne /\ BarsInOrder /\ BarsComplete
  BY DEF PipeInv
<1>2. Types'
  BY <1>1, TypesStep
<1>3. Places' /\ Room'
  BY <1>1, PlacesStep, RoomStep
<1>4. InOrder' /\ AtMostOne'
  BY <1>1, TickMoves, ArrivesStep, QueuesStep, TakeStep, DoneStep, WritesStep
<1>5. BarsInOrder' /\ BarsComplete'
  BY <1>1, BarsStep
<1> QED
  BY <1>2, <1>3, <1>4, <1>5 DEF PipeInv

\* The inductive invariant of the consumers: where each tick and each bar is,
\* and in which order they go.
THEOREM PipeInvariant == Spec => []PipeInv
<1>1. Init => PipeInv
  BY PipeInit
<1>2. PipeInv /\ [Next]_vars => PipeInv'
  BY PipeStep
<1> QED
  BY <1>1, <1>2, PTL DEF Spec

\* Type correctness of the feed, the consumers, start() and stop(); tick_q,
\* bar_q and the batch never outgrow the sizes they were made with
\* (orchestrator.py, TICK_QUEUE_MAX and its neighbours), wherever the
\* consumers wait, die or are cancelled.
THEOREM PipeTypeCorrect == Spec => []TypeOK
<1>1. PipeInv => TypeOK
  BY DEF PipeInv, Room, TypeOK
<1> QED
  BY <1>1, PipeInvariant, PTL

\* Every tick the feed received is on its way to the journal, in it, or was
\* refused by the full tick_q; the end of the tick consumer costs at most the
\* one the engine had.  Rows are written once and in order, but for a batch
\* whose write was cut short behind its commit (orchestrator.py, flush).
THEOREM TicksAccountedCorrect == Spec => []TicksAccounted
<1>1. ASSUME PipeInv PROVE TicksAccounted
  <2>1. Types /\ Places /\ InOrder /\ AtMostOne
    BY <1>1 DEF PipeInv
  <2>2. Cardinality(Missing) <= IF cpc \in Ended THEN 1 ELSE 0
    <3>1. CASE Missing = {}
      BY <3>1, FS_EmptySet
    <3>2. CASE Missing # {}
      <4>1. PICK t \in Missing : TRUE
        BY <3>2
      <4>2. Missing = {t} /\ cpc \in Ended
        BY <2>1, <3>2, <4>1 DEF AtMostOne
      <4>3. Cardinality({t}) = 1
        BY FS_Singleton
      <4> QED
        BY <4>2, <4>3
    <3> QED
      BY <3>1, <3>2
  <2>3. OnTheWay \cap Journaled \subseteq recommits
    <3>1. OnTheWay = InHand \cup Behind \cup ToSet(batch)
      BY DEF OnTheWay, InHand, Behind
    <3>2. Journaled \subseteq Nat
      BY <2>1, TickSets DEF Journaled
    <3>3. ASSUME NEW t \in Journaled, t \in InHand \cup Behind PROVE FALSE
      BY <2>1, <3>2, <3>3 DEF InOrder, Below
    <3>4. ASSUME NEW t \in Journaled, t \in ToSet(batch) PROVE t \in recommits
      BY <2>1, <3>2, <3>4 DEF InOrder
    <3> QED
      BY <3>1, <3>3, <3>4
  <2>4. \A i, j \in DOMAIN rows : i < j => rows[i] < rows[j] \/ rows[i] \in recommits
    BY <2>1 DEF InOrder
  <2> QED
    BY <2>2, <2>3, <2>4 DEF TicksAccounted, Missing
<1> QED
  BY <1>1, PipeInvariant, PTL

\* Two sequences of minutes in order, one before the other.
LEMMA Minutes2 ==
    ASSUME NEW s \in Seq(Nat), NEW t \in Seq(Nat), Rising(s), Rising(t), Below(ToSet(s), ToSet(t))
    PROVE  s \o t \in Seq(Nat) /\ Rising(s \o t) /\ ToSet(s \o t) = ToSet(s) \cup ToSet(t)
BY JoinFacts

\* A bar alone, or none.
LEMMA OneOrNone ==
    ASSUME NEW b \in Nat
    PROVE  LET s == IF b # 0 THEN <<b>> ELSE <<>>
           IN  s \in Seq(Nat) /\ Rising(s) /\ ToSet(s) = {b} \ {0}
<1>1. CASE b # 0
  <2>1. <<b>> \in Seq(Nat) /\ DOMAIN <<b>> = {1} /\ <<b>>[1] = b
    OBVIOUS
  <2>2. ToSet(<<b>>) = {b} /\ Rising(<<b>>)
    BY <2>1 DEF ToSet, Rising
  <2> QED
    BY <1>1, <2>1, <2>2
<1>2. CASE b = 0
  <2>1. ToSet(<<>>) = {} /\ Rising(<<>>)
    BY DEF ToSet, Rising
  <2> QED
    BY <1>2, <2>1
<1> QED
  BY <1>1, <1>2

\* The journal's bars are those of its ticks: no minute has two bars, and
\* while both consumers live each minute before the one in progress has one,
\* in the table, in bar_q or with a consumer.
THEOREM BarsAccountedCorrect == Spec => []BarsAccounted
<1>1. ASSUME PipeInv PROVE BarsAccounted
  <2>1. Types /\ Places /\ BarsInOrder /\ BarsComplete
    BY <1>1 DEF PipeInv
  <2> DEFINE h == IF bar # 0 THEN <<bar>> ELSE <<>>
             p == IF closedBar # 0 THEN <<closedBar>> ELSE <<>>
             q1 == bars \o h
             q2 == q1 \o barQ
             q3 == q2 \o p
  <2>2. /\ bars \in Seq(Nat) /\ Rising(bars) /\ ToSet(bars) = Made
        /\ barQ \in Seq(Nat) /\ Rising(barQ) /\ ToSet(barQ) = Queued
    BY <2>1, BarSets DEF BarsInOrder, Made, Queued
  <2>3. h \in Seq(Nat) /\ Rising(h) /\ ToSet(h) = Held
    BY <2>1, BarSets, OneOrNone DEF Held
  <2>4. p \in Seq(Nat) /\ Rising(p) /\ ToSet(p) = Put
    BY <2>1, BarSets, OneOrNone DEF Put
  <2>5. Below(Made, Held) /\ Below(Made \cup Held, Queued) /\ Below(Made \cup Held \cup Queued, Put)
    BY <2>1 DEF BarsInOrder, Below
  <2> HIDE DEF h, p
  <2>6. q1 \in Seq(Nat) /\ Rising(q1) /\ ToSet(q1) = Made \cup Held
    BY <2>2, <2>3, <2>5, Minutes2
  <2> HIDE DEF q1
  <2>7. q2 \in Seq(Nat) /\ Rising(q2) /\ ToSet(q2) = Made \cup Held \cup Queued
    BY <2>2, <2>5, <2>6, Minutes2
  <2> HIDE DEF q2
  <2>8. q3 \in Seq(Nat) /\ Rising(q3) /\ ToSet(q3) = Made \cup Held \cup Queued \cup Put
    BY <2>4, <2>5, <2>7, Minutes2
  <2> HIDE DEF q3
  <2>9. IsInjective(q3)
    <3>1. \A i \in DOMAIN q3 : i \in Nat /\ q3[i] \in Nat
      BY <2>8
    <3>2. \A i, j \in DOMAIN q3 : q3[i] = q3[j] => i = j
      BY <2>8, <3>1 DEF Rising
    <3> QED
      BY <3>2 DEF IsInjective
  <2>10. cpc \notin Ended /\ bpc # "done" => ToSet(q3) = Minutes \ {current}
    BY <2>1, <2>8 DEF BarsComplete
  <2>11. q3 = bars \o (IF bar # 0 THEN <<bar>> ELSE <<>>) \o barQ
                   \o (IF closedBar # 0 THEN <<closedBar>> ELSE <<>>)
    BY DEF q3, q2, q1, h, p
  <2> QED
    BY <2>9, <2>10, <2>11 DEF BarsAccounted, Minutes
<1> QED
  BY <1>1, PipeInvariant, PTL
=============================================================================
