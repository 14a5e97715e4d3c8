--------------------------- MODULE LlmGateProofs ---------------------------
(***************************************************************************)
(* Proofs about LlmGate for every slot length, age and window, any number   *)
(* of signals, faults and restarts.                                         *)
(***************************************************************************)
EXTENDS LlmGate, FiniteSetTheorems, TLAPS

CallRowType == [no : 1..begun, tier : {"regime", "pretrade"},
                response : Regimes \cup Decisions \cup {"none", "other"},
                error : Failures \cup {"none"}]

VerdictType == [ts : 0..now, label : Regimes, call : 1..Len(calls), asked : 0..now]

FlightType == [no : 1..begun, tier : {"regime", "pretrade"},
               answer : {"none"} \cup Regimes \cup Decisions \cup Failures]

JobType == [at : 0..now, pc : {"context", "call", "verdict"}, since : 0..now,
            asked : 0..now, call : 0..begun, row : 0..Len(calls)]

CheckType == [pc : {"idle", "gate", "context", "call", "dead"}, close : 0..now,
              since : 0..now, gate : 0..Len(verdicts), seen : 0..Len(verdicts),
              call : 0..begun,
              result : {"none", "blocked", "raised"} \cup Decisions]

\* TypeOK without its bounds on sizes, and the tables' columns.
Types ==
    /\ now \in Nat /\ fired \in 0..now /\ begun \in Nat
    /\ jobs \subseteq JobType /\ check \in CheckType
    /\ flight \subseteq FlightType
    /\ \A c \in flight : c.answer \in {"none"} \cup Answers(c.tier) \cup Failures
    /\ calls \in Seq(CallRowType) /\ verdicts \in Seq(VerdictType)
    /\ lost \subseteq 1..begun /\ trouble \in BOOLEAN

Counts == /\ now <= MaxNow
          /\ signals \in 0..MaxSignals
          /\ faults \in Nat /\ restarts \in Nat /\ faults + restarts <= MaxFaults

\* One job at a time, and its call is a regime call: on its way, or the row
\* its verdict will be linked to, that no verdict is linked to yet.
JobInv ==
    /\ \A j, k \in jobs : j = k
    /\ \A j \in jobs :
          /\ j.pc # "context" => j.call \in 1..begun
          /\ j.pc = "call" => \A c \in flight : c.no = j.call => c.tier = "regime"
          /\ j.pc = "verdict" =>
                /\ j.row \in DOMAIN calls
                /\ calls[j.row].tier = "regime" /\ calls[j.row].response \in Regimes
                /\ \A i \in DOMAIN verdicts : verdicts[i].call # j.row

\* A number is that of one row, one call under way or one that was lost.
Numbered ==
    /\ IsFiniteSet(flight)
    /\ \A c, d \in flight : c.no = d.no => c = d
    /\ \A i, k \in DOMAIN calls : calls[i].no = calls[k].no => i = k
    /\ \A c \in flight : c.no \notin lost
    /\ \A i \in DOMAIN calls : calls[i].no \notin lost
    /\ \A i \in DOMAIN calls, c \in flight : calls[i].no # c.no
    /\ \A n \in 1..begun : \/ n \in lost
                           \/ \E c \in flight : c.no = n
                           \/ \E i \in DOMAIN calls : calls[i].no = n
    /\ \A i \in DOMAIN calls :
          calls[i].response = "none" /\ calls[i].error = "none" => restarts > 0

\* A job asks in its slot or in the unit after it, which is before the next
\* slot; every verdict was asked for before the slot of the job that runs.
SlotInv ==
    /\ fired % SlotEvery = 0
    /\ \A j \in jobs :
          /\ j.at <= fired /\ j.at \in ActiveFrom..ActiveUntil
          /\ j.pc = "context" => j.since = j.at /\ now <= j.at + 1
          /\ j.pc # "context" => j.asked \in j.at..(j.at + 1)
          /\ \A i \in DOMAIN verdicts : verdicts[i].asked < j.at
    /\ \A i \in DOMAIN verdicts : verdicts[i].asked <= fired + 1

\* No slot is missed, and while nothing has gone wrong the last verdict was
\* given in the last slot, or in the one before as long as a job still runs,
\* or the window has closed since.
Recent ==
    /\ now <= fired + SlotEvery
    /\ check.close <= ActiveUntil
    /\ verdicts # <<>> => ActiveFrom <= fired
    /\ verdicts # <<>> /\ ~trouble =>
          LET ts == verdicts[Len(verdicts)].ts
          IN \/ ts >= fired
             \/ jobs # {} /\ ts + SlotEvery >= fired
             \/ ts + SlotEvery > ActiveUntil

\* A signal under way is not decided.
Undecided == check.pc \in {"gate", "context", "call"} => check.result = "none"

\* The inductive invariant of all but the last property.
GateInv == /\ Types /\ Counts /\ JobInv /\ Numbered /\ SlotInv /\ Undecided
           /\ VerdictLinked /\ VerdictsInOrder /\ FailOpen /\ GateIsLatest

-----------------------------------------------------------------------------
\* Facts about numbers, sequences and sets.

\* A set of naturals that is not empty has a least element.
LEMMA Least ==
    ASSUME NEW T \in SUBSET Nat, T # {}
    PROVE  \E x \in T : \A y \in T : x <= y
<1>1. PICK x \in T : \A y \in T : ~(<<y, x>> \in OpToRel(<, Nat))
  BY NatLessThanWellFounded, WFMin
<1>2. \A y \in T : y < x => <<y, x>> \in OpToRel(<, Nat)
  BY DEF OpToRel
<1>3. \A y \in T : ~(y < x)
  BY <1>1, <1>2, Zenon
<1> QED
  BY <1>3

\* Max is what it is called, on a bounded set of naturals.
LEMMA Greatest ==
    ASSUME NEW S \in SUBSET Nat, S # {}, NEW n \in Nat, \A s \in S : s <= n
    PROVE  Max(S) \in S /\ \A s \in S : s <= Max(S)
<1> DEFINE T == {n - s : s \in S}
<1>1. \A s \in S : n - s \in Nat
  OBVIOUS
<1>2. T \in SUBSET Nat /\ T # {}
  <2>1. T \in SUBSET Nat
    BY <1>1, Zenon
  <2>2. T # {}
    OBVIOUS
  <2> QED
    BY <2>1, <2>2
<1>3. PICK x \in T : \A y \in T : x <= y
  BY <1>2, Least
<1>4. PICK m \in S : x = n - m
  OBVIOUS
<1>5. \A s \in S : m >= s
  BY <1>3, <1>4
<1> HIDE DEF T
<1> QED
  BY <1>5 DEF Max

\* Two slots are at least one slot's length apart.
LEMMA SlotsApart ==
    ASSUME NEW a \in Nat, NEW b \in Nat, a < b,
           a % SlotEvery = 0, b % SlotEvery = 0
    PROVE  a + SlotEvery <= b
<1>1. SlotEvery \in Nat /\ SlotEvery > 1
  BY GateAssumption
<1>2. PICK p \in Int : a = SlotEvery * p
  BY <1>1
<1>3. PICK q \in Int : b = SlotEvery * q
  BY <1>1
<1>4. p + 1 <= q
  <2>1. SlotEvery * p < SlotEvery * q
    BY <1>2, <1>3
  <2>2. ASSUME q <= p PROVE FALSE
    <3>1. SlotEvery * q <= SlotEvery * p
      BY <1>1, <2>2
    <3> QED
      BY <2>1, <3>1, <1>1
  <2> QED
    BY <2>2
<1>5. SlotEvery * (p + 1) <= SlotEvery * q
  BY <1>1, <1>4
<1>6. SlotEvery * (p + 1) = SlotEvery * p + SlotEvery
  BY <1>1
<1> QED
  BY <1>1, <1>2, <1>3, <1>5, <1>6

\* A slot's length after a slot there is another.
LEMMA NextSlot ==
    ASSUME NEW a \in Nat, a % SlotEvery = 0
    PROVE  (a + SlotEvery) % SlotEvery = 0
<1>1. SlotEvery \in Nat /\ SlotEvery > 1
  BY GateAssumption
<1>2. PICK q \in Int : a = SlotEvery * q
  BY <1>1
<1>3. a + SlotEvery = SlotEvery * (q + 1)
  BY <1>1, <1>2
<1>4. \A n \in Int : (SlotEvery * n) % SlotEvery = 0
  BY <1>1
<1>5. q + 1 \in Int
  BY <1>2
<1> QED
  BY <1>3, <1>4, <1>5

\* Append adds one element and keeps the others.
LEMMA Appended ==
    ASSUME NEW S, NEW s \in Seq(S), NEW e \in S
    PROVE  /\ Append(s, e) \in Seq(S)
           /\ Len(Append(s, e)) = Len(s) + 1
           /\ DOMAIN Append(s, e) = DOMAIN s \cup {Len(s) + 1}
           /\ \A i \in DOMAIN s : Append(s, e)[i] = s[i]
           /\ Append(s, e)[Len(s) + 1] = e
OBVIOUS

\* SetToSeq lists each element once.
LEMMA Listed ==
    ASSUME NEW S, IsFiniteSet(S)
    PROVE  /\ SetToSeq(S) \in Seq(S)
           /\ \A i, k \in DOMAIN SetToSeq(S) : SetToSeq(S)[i] = SetToSeq(S)[k] => i = k
           /\ \A e \in S : \E i \in DOMAIN SetToSeq(S) : SetToSeq(S)[i] = e
<1> DEFINE n == Cardinality(S)
           f == SetToSeq(S)
<1>1. n \in Nat /\ ExistsBijection(1..n, S)
  BY FS_CardinalityType
<1>2. PICK g \in [1..n -> S] : IsInjective(g)
  <2>1. PICK g \in Bijection(1..n, S) : TRUE
    BY <1>1 DEF ExistsBijection
  <2> QED
    BY <2>1 DEF Bijection, Injection, IsInjective
<1>3. f \in [1..n -> S] /\ IsInjective(f)
  BY <1>2 DEF SetToSeq
<1> HIDE DEF f
<1>4. f \in Injection(1..n, S)
  BY <1>3 DEF Injection, IsInjective
<1>5. IsFiniteSet(1..n) /\ Cardinality(1..n) = n
  BY <1>1, FS_Interval
<1>6. f \in Surjection(1..n, S)
  BY <1>4, <1>5, FS_Injection
<1>7. f \in Seq(S) /\ DOMAIN f = 1..n
  BY <1>1, <1>3
<1>8. \A i, k \in DOMAIN f : f[i] = f[k] => i = k
  BY <1>3 DEF IsInjective
<1>9. \A e \in S : \E i \in DOMAIN f : f[i] = e
  BY <1>6, <1>7 DEF Surjection
<1> QED
  BY <1>7, <1>8, <1>9 DEF f

\* The rows appended for the calls a restart cuts short.
LEMMA RowsOfKept ==
    ASSUME Types, IsFiniteSet(flight), NEW kept \in SUBSET flight,
           \A c, d \in flight : c.no = d.no => c = d
    PROVE  LET rows == SetToSeq({CallRow(c) : c \in kept})
           IN /\ rows \in Seq(CallRowType)
              /\ \A i, k \in DOMAIN rows : rows[i].no = rows[k].no => i = k
              /\ \A i \in DOMAIN rows : \E c \in kept : rows[i] = CallRow(c)
              /\ \A c \in kept : \E i \in DOMAIN rows : rows[i] = CallRow(c)
<1> DEFINE R == {CallRow(c) : c \in kept}
           rows == SetToSeq(R)
<1>1. \A c \in kept : CallRow(c) \in CallRowType /\ CallRow(c).no = c.no
  BY DEF Types, FlightType, CallRow, CallRowType, Failures, Answers, Regimes, Decisions
<1>2. IsFiniteSet(R)
  <2>1. IsFiniteSet(kept)
    BY FS_Subset
  <2>2. [c \in kept |-> CallRow(c)] \in Surjection(kept, R)
    BY DEF Surjection
  <2> QED
    BY <2>1, <2>2, FS_Surjection
<1>3. R \subseteq CallRowType
  BY <1>1
<1>4. \A q, r \in R : q.no = r.no => q = r
  BY <1>1
<1>5. rows \in Seq(R)
      /\ (\A i, k \in DOMAIN rows : rows[i] = rows[k] => i = k)
      /\ (\A e \in R : \E i \in DOMAIN rows : rows[i] = e)
  BY <1>2, Listed
<1> HIDE DEF rows
<1>6. \A i \in DOMAIN rows : rows[i] \in R
  <2> HIDE DEF R
  <2> QED
    BY <1>5
<1>7. rows \in Seq(CallRowType)
  <2> HIDE DEF R
  <2> QED
    BY <1>3, <1>5
<1>8. \A i, k \in DOMAIN rows : rows[i].no = rows[k].no => i = k
  <2> HIDE DEF R
  <2> QED
    BY <1>4, <1>5, <1>6
<1>9. \A i \in DOMAIN rows : \E c \in kept : rows[i] = CallRow(c)
  BY <1>6
<1>10. \A c \in kept : \E i \in DOMAIN rows : rows[i] = CallRow(c)
  BY <1>5
<1> QED
  BY <1>7, <1>8, <1>9, <1>10 DEF rows

\* The indices of two sequences put together.
LEMMA Joined ==
    ASSUME NEW S, NEW s \in Seq(S), NEW t \in Seq(S)
    PROVE  /\ s \o t \in Seq(S)
           /\ Len(s \o t) = Len(s) + Len(t)
           /\ \A i \in DOMAIN s : i \in DOMAIN (s \o t) /\ (s \o t)[i] = s[i]
           /\ \A i \in DOMAIN t : i + Len(s) \in DOMAIN (s \o t) /\ (s \o t)[i + Len(s)] = t[i]
           /\ \A i \in DOMAIN (s \o t) :
                 i \in DOMAIN s \/ (i - Len(s) \in DOMAIN t /\ (s \o t)[i] = t[i - Len(s)])
<1>1. s \o t \in Seq(S) /\ Len(s \o t) = Len(s) + Len(t)
  OBVIOUS
<1>2. \A i \in DOMAIN s : i \in DOMAIN (s \o t) /\ (s \o t)[i] = s[i]
  OBVIOUS
<1>3. \A i \in DOMAIN t : i + Len(s) \in DOMAIN (s \o t) /\ (s \o t)[i + Len(s)] = t[i]
  OBVIOUS
<1>4. \A i \in DOMAIN (s \o t) :
                 i \in DOMAIN s \/ (i - Len(s) \in DOMAIN t /\ (s \o t)[i] = t[i - Len(s)])
  OBVIOUS
<1> QED
  BY <1>1, <1>2, <1>3, <1>4

-----------------------------------------------------------------------------
\* What the steps do to the tables.

\* A table only grows.
CallsGrow == /\ Len(calls') \in Nat /\ Len(calls) <= Len(calls')
             /\ \A i \in DOMAIN calls : i \in DOMAIN calls' /\ calls'[i] = calls[i]

\* The types widen with the clock, the calls begun and the tables.
LEMMA Wider ==
    ASSUME Types, now' \in Nat, now <= now', begun' \in Nat, begun <= begun',
           Len(calls') \in Nat, Len(calls) <= Len(calls'),
           Len(verdicts') \in Nat, Len(verdicts) <= Len(verdicts')
    PROVE  /\ fired \in 0..now' /\ jobs \subseteq JobType' /\ check \in CheckType'
           /\ flight \subseteq FlightType'
           /\ calls \in Seq(CallRowType') /\ verdicts \in Seq(VerdictType')
           /\ lost \subseteq 1..begun'
           /\ CallRowType \subseteq CallRowType' /\ VerdictType \subseteq VerdictType'
<1>0. Len(calls) \in Nat /\ Len(verdicts) \in Nat
  BY DEF Types
<1>1. fired \in 0..now' /\ lost \subseteq 1..begun'
  BY DEF Types
<1>2. jobs \subseteq JobType'
  BY <1>0 DEF Types, JobType
<1>3. check \in CheckType'
  BY <1>0 DEF Types, CheckType
<1>4. flight \subseteq FlightType'
  BY DEF Types, FlightType, Regimes, Decisions, Failures
<1>5. CallRowType \subseteq CallRowType'
  BY DEF Types, CallRowType, Regimes, Decisions, Failures
<1>6. VerdictType \subseteq VerdictType'
  BY <1>0 DEF Types, VerdictType, Regimes
<1>7. calls \in Seq(CallRowType')
  BY <1>5 DEF Types
<1>8. verdicts \in Seq(VerdictType')
  BY <1>6 DEF Types
<1> QED
  BY <1>1, <1>2, <1>3, <1>4, <1>5, <1>6, <1>7, <1>8

\* PersistCall and PersistCallFault: at most the call's row is added.
LEMMA CallEnds ==
    ASSUME Types, NEW c \in flight, c.answer # "none", begun' = begun, now' = now,
           PersistCall(c) \/ PersistCallFault(c)
    PROVE  /\ CallsGrow /\ calls' \in Seq(CallRowType)
           /\ flight' = flight \ {c}
           /\ \/ calls' = calls /\ lost' = lost \cup {c.no}
              \/ /\ calls' = Append(calls, CallRow(c)) /\ lost' = lost
                 /\ Len(calls') = Len(calls) + 1
                 /\ DOMAIN calls' = DOMAIN calls \cup {Len(calls) + 1}
                 /\ calls'[Len(calls) + 1] = CallRow(c)
           /\ CallRow(c) \in CallRowType /\ CallRow(c).no = c.no
           /\ CallRow(c).response # "none" \/ CallRow(c).error # "none"
           /\ PersistCall(c) => calls' = Append(calls, CallRow(c))
<1>1. CallRow(c) \in CallRowType /\ CallRow(c).no = c.no
  BY DEF Types, FlightType, CallRow, CallRowType, Failures, Answers, Regimes, Decisions
<1>2. CallRow(c).response # "none" \/ CallRow(c).error # "none"
  BY DEF CallRow, Failures
<1>3. flight' = flight \ {c} /\ (PersistCall(c) => calls' = Append(calls, CallRow(c)))
      /\ ((calls' = calls /\ lost' = lost \cup {c.no})
          \/ (calls' = Append(calls, CallRow(c)) /\ lost' = lost))
  BY DEF PersistCall, PersistCallFault
<1>4. calls \in Seq(CallRowType)
  BY DEF Types
<1>5. CASE calls' = calls /\ lost' = lost \cup {c.no}
  <2>1. CallsGrow /\ calls' \in Seq(CallRowType)
    BY <1>4, <1>5 DEF CallsGrow
  <2> QED
    BY <1>1, <1>2, <1>3, <1>5, <2>1
<1>6. CASE calls' = Append(calls, CallRow(c)) /\ lost' = lost
  <2>1. /\ calls' \in Seq(CallRowType)
        /\ Len(calls') = Len(calls) + 1
        /\ DOMAIN calls' = DOMAIN calls \cup {Len(calls) + 1}
        /\ \A i \in DOMAIN calls : calls'[i] = calls[i]
        /\ calls'[Len(calls) + 1] = CallRow(c)
    BY <1>1, <1>4, <1>6, Appended
  <2>2. CallsGrow
    BY <1>4, <2>1 DEF CallsGrow
  <2> QED
    BY <1>1, <1>2, <1>3, <1>6, <2>1, <2>2
<1> QED
  BY <1>3, <1>5, <1>6

\* Restart: rows are added for the calls kept, the others are lost.
LEMMA CallsCut ==
    ASSUME Types, Numbered, Restart
    PROVE  /\ CallsGrow /\ calls' \in Seq(CallRowType)
           /\ flight' = {} /\ begun' = begun /\ now' = now
           /\ \E kept \in SUBSET flight :
                 /\ lost' = lost \cup {c.no : c \in flight \ kept}
                 /\ \A c \in kept : \E i \in DOMAIN calls' :
                       i \notin DOMAIN calls /\ calls'[i] = CallRow(c)
                 /\ \A i \in DOMAIN calls' : i \notin DOMAIN calls =>
                       /\ \E c \in kept : calls'[i] = CallRow(c)
                       /\ \A k \in DOMAIN calls' : k \notin DOMAIN calls =>
                             (calls'[i].no = calls'[k].no => i = k)
<1>1. PICK kept \in SUBSET flight :
         /\ calls' = calls \o SetToSeq({CallRow(c) : c \in kept})
         /\ lost' = lost \cup {c.no : c \in flight \ kept}
  BY DEF Restart
<1> DEFINE rows == SetToSeq({CallRow(c) : c \in kept})
<1>2. IsFiniteSet(flight) /\ \A c, d \in flight : c.no = d.no => c = d
  BY DEF Numbered
<1>3. /\ rows \in Seq(CallRowType)
      /\ \A i, k \in DOMAIN rows : rows[i].no = rows[k].no => i = k
      /\ \A i \in DOMAIN rows : \E c \in kept : rows[i] = CallRow(c)
      /\ \A c \in kept : \E i \in DOMAIN rows : rows[i] = CallRow(c)
  BY <1>2, RowsOfKept
<1>4. calls' = calls \o rows
  BY <1>1
<1> HIDE DEF rows
<1>5. calls \in Seq(CallRowType)
  BY DEF Types
<1>6. /\ calls' \in Seq(CallRowType)
      /\ Len(calls') = Len(calls) + Len(rows)
      /\ \A i \in DOMAIN calls : i \in DOMAIN calls' /\ calls'[i] = calls[i]
      /\ \A i \in DOMAIN rows : i + Len(calls) \in DOMAIN calls' /\ calls'[i + Len(calls)] = rows[i]
      /\ \A i \in DOMAIN calls' :
            i \in DOMAIN calls \/ (i - Len(calls) \in DOMAIN rows /\ calls'[i] = rows[i - Len(calls)])
  BY <1>3, <1>4, <1>5, Joined
<1>7. Len(calls) \in Nat /\ Len(rows) \in Nat /\ DOMAIN calls = 1..Len(calls)
      /\ DOMAIN rows = 1..Len(rows) /\ DOMAIN calls' = 1..Len(calls')
  BY <1>3, <1>5, <1>6
<1>8. CallsGrow
  BY <1>6, <1>7 DEF CallsGrow
<1>9. \A c \in kept : \E i \in DOMAIN calls' : i \notin DOMAIN calls /\ calls'[i] = CallRow(c)
  <2> SUFFICES ASSUME NEW c \in kept
               PROVE  \E i \in DOMAIN calls' : i \notin DOMAIN calls /\ calls'[i] = CallRow(c)
    OBVIOUS
  <2>1. PICK i \in DOMAIN rows : rows[i] = CallRow(c)
    BY <1>3
  <2>2. i + Len(calls) \notin DOMAIN calls
    BY <1>7
  <2> QED
    BY <1>6, <2>1, <2>2
<1>10. ASSUME NEW i \in DOMAIN calls', i \notin DOMAIN calls
       PROVE  /\ \E c \in kept : calls'[i] = CallRow(c)
              /\ \A k \in DOMAIN calls' : k \notin DOMAIN calls =>
                             (calls'[i].no = calls'[k].no => i = k)
  <2>1. i - Len(calls) \in DOMAIN rows /\ calls'[i] = rows[i - Len(calls)]
    BY <1>6, <1>10
  <2>2. \E c \in kept : calls'[i] = CallRow(c)
    BY <1>3, <2>1
  <2>3. ASSUME NEW k \in DOMAIN calls', k \notin DOMAIN calls, calls'[i].no = calls'[k].no
        PROVE  i = k
    <3>1. k - Len(calls) \in DOMAIN rows /\ calls'[k] = rows[k - Len(calls)]
      BY <1>6, <2>3
    <3>2. i - Len(calls) = k - Len(calls)
      BY <1>3, <2>1, <2>3, <3>1
    <3> QED
      BY <1>7, <3>2
  <2> QED
    BY <2>2, <2>3
<1>11. flight' = {} /\ begun' = begun /\ now' = now
  BY DEF Restart
<1> QED
  BY <1>1, <1>6, <1>8, <1>9, <1>10, <1>11

-----------------------------------------------------------------------------
\* The types

\* The gate's verdict is one of those that are fresh, and the last of them.
LEMMA GateFound ==
    ASSUME Types, NEW cutoff \in Int
    PROVE  LET g == LatestRegime(cutoff)
           IN /\ g \in 0..Len(verdicts)
              /\ g # 0 => verdicts[g].ts >= cutoff
              /\ \A i \in DOMAIN verdicts : verdicts[i].ts >= cutoff => g # 0 /\ i <= g
<1> DEFINE fresh == {i \in DOMAIN verdicts : verdicts[i].ts >= cutoff}
<1>1. DOMAIN verdicts = 1..Len(verdicts) /\ Len(verdicts) \in Nat
  BY DEF Types
<1>2. CASE fresh = {}
  BY <1>1, <1>2 DEF LatestRegime
<1>3. CASE fresh # {}
  <2>1. fresh \in SUBSET Nat /\ \A s \in fresh : s <= Len(verdicts)
    BY <1>1
  <2>2. Max(fresh) \in fresh /\ \A s \in fresh : s <= Max(fresh)
    <3> HIDE DEF fresh
    <3> QED
      BY <1>1, <1>3, <2>1, Greatest
  <2>3. LatestRegime(cutoff) = Max(fresh)
    BY <1>3 DEF LatestRegime
  <2>4. Max(fresh) >= 1
    BY <2>2, <1>1
  <2> HIDE DEF fresh
  <2>5. Max(fresh) \in DOMAIN verdicts /\ verdicts[Max(fresh)].ts >= cutoff
    BY <2>2 DEF fresh
  <2>6. \A i \in DOMAIN verdicts : verdicts[i].ts >= cutoff => i <= Max(fresh)
    BY <2>2 DEF fresh
  <2> QED
    BY <1>1, <2>3, <2>4, <2>5, <2>6
<1> QED
  BY <1>2, <1>3

\* The answers stay among those of their tier.
AnswersOK == \A c \in flight : c.answer \in {"none"} \cup Answers(c.tier) \cup Failures

\* The job's steps keep the types.
LEMMA TypesJob ==
    ASSUME Types, JobInv, NEW j \in jobs,
           BuildRegimeContext(j) \/ RegimeAnswered(j) \/ PersistVerdict(j) \/ RegimeFault(j)
    PROVE  Types'
<1>0. /\ now \in Nat /\ begun \in Nat /\ j \in JobType
      /\ calls \in Seq(CallRowType) /\ verdicts \in Seq(VerdictType)
      /\ Len(calls) \in Nat /\ Len(verdicts) \in Nat
      /\ trouble \in BOOLEAN
  BY DEF Types
<1>1. CASE BuildRegimeContext(j)
  <2>1. now' = now /\ fired' = fired /\ begun' = begun + 1 /\ calls' = calls
        /\ verdicts' = verdicts /\ check' = check /\ lost' = lost /\ trouble' = trouble
    BY <1>1 DEF BuildRegimeContext
  <2>2. /\ fired \in 0..now' /\ jobs \subseteq JobType' /\ check \in CheckType'
        /\ flight \subseteq FlightType'
        /\ calls \in Seq(CallRowType') /\ verdicts \in Seq(VerdictType')
        /\ lost \subseteq 1..begun'
    BY <1>0, <2>1, Wider
  <2>3. flight' \subseteq FlightType'
    BY <1>0, <1>1, <2>1, <2>2 DEF BuildRegimeContext, Asked, FlightType
  <2>4. jobs' \subseteq JobType'
    <3>1. [j EXCEPT !.pc = "call", !.asked = now, !.call = begun + 1] \in JobType'
      <4>1. j \in JobType'
        BY <2>2
      <4>2. now \in 0..now' /\ begun + 1 \in 0..begun'
        BY <1>0, <2>1
      <4> QED
        BY <4>1, <4>2 DEF JobType
    <3> QED
      BY <1>1, <2>2, <3>1 DEF BuildRegimeContext, Moved
  <2>5. AnswersOK'
    BY <1>1 DEF Types, AnswersOK, BuildRegimeContext, Asked
  <2> QED
    BY <1>0, <2>1, <2>2, <2>3, <2>4, <2>5 DEF Types, AnswersOK
<1>2. ASSUME NEW c \in flight, c.answer # "none", PersistCall(c) \/ PersistCallFault(c),
             now' = now, fired' = fired, begun' = begun, verdicts' = verdicts, check' = check,
             trouble' \in BOOLEAN,
             jobs' \subseteq jobs \cup {[j EXCEPT !.pc = "verdict", !.since = now, !.row = Len(calls')]}
      PROVE  Types'
  <2>1. CallsGrow /\ calls' \in Seq(CallRowType) /\ flight' = flight \ {c}
        /\ lost' \subseteq lost \cup {c.no}
    BY <1>2, CallEnds
  <2>2. /\ fired \in 0..now' /\ jobs \subseteq JobType' /\ check \in CheckType'
        /\ flight \subseteq FlightType'
        /\ verdicts \in Seq(VerdictType') /\ CallRowType \subseteq CallRowType'
        /\ lost \subseteq 1..begun'
    BY <1>0, <1>2, <2>1, Wider DEF CallsGrow
  <2>3. calls' \in Seq(CallRowType')
    BY <2>1, <2>2
  <2>4. [j EXCEPT !.pc = "verdict", !.since = now, !.row = Len(calls')] \in JobType'
    <3>1. j \in JobType'
      BY <2>2
    <3>2. now \in 0..now' /\ Len(calls') \in 0..Len(calls')
      BY <1>0, <1>2, <2>1 DEF CallsGrow
    <3> QED
      BY <3>1, <3>2 DEF JobType
  <2>5. lost' \subseteq 1..begun'
    BY <1>2, <2>1, <2>2 DEF Types, FlightType
  <2>6. AnswersOK' /\ flight' \subseteq FlightType'
    BY <2>1, <2>2 DEF Types, AnswersOK
  <2> QED
    BY <1>0, <1>2, <2>2, <2>3, <2>4, <2>5, <2>6 DEF Types, AnswersOK
<1>3. CASE RegimeAnswered(j)
  <2>1. PICK c \in Answered(j.call) :
           /\ PersistCall(c)
           /\ \/ Moved(j, [j EXCEPT !.pc = "verdict", !.since = now, !.row = Len(calls')])
                 /\ trouble' = trouble
              \/ jobs' = jobs \ {j} /\ trouble' = TRUE
    BY <1>3 DEF RegimeAnswered
  <2>2. now' = now /\ fired' = fired /\ begun' = begun /\ verdicts' = verdicts /\ check' = check
    BY <1>3 DEF RegimeAnswered
  <2>3. c \in flight /\ c.answer # "none"
    BY DEF Answered
  <2> QED
    BY <1>0, <1>2, <2>1, <2>2, <2>3 DEF Moved
<1>4. CASE PersistVerdict(j)
  <2>1. now' = now /\ fired' = fired /\ begun' = begun /\ calls' = calls
        /\ flight' = flight /\ check' = check /\ lost' = lost /\ trouble' = trouble
        /\ jobs' = jobs \ {j} /\ verdicts' = Append(verdicts, Verdict(j, j.row))
    BY <1>4 DEF PersistVerdict
  <2>2. Verdict(j, j.row) \in VerdictType
    <3>1. j.row \in DOMAIN calls /\ calls[j.row].response \in Regimes
      BY <1>4 DEF JobInv, PersistVerdict
    <3> QED
      BY <1>0, <3>1 DEF Verdict, VerdictType, JobType
  <2>3. verdicts' \in Seq(VerdictType) /\ Len(verdicts') = Len(verdicts) + 1
    BY <1>0, <2>1, <2>2, Appended
  <2>4. /\ fired \in 0..now' /\ jobs \subseteq JobType' /\ check \in CheckType'
        /\ flight \subseteq FlightType' /\ calls \in Seq(CallRowType')
        /\ VerdictType \subseteq VerdictType' /\ lost \subseteq 1..begun'
    BY <1>0, <2>1, <2>3, Wider
  <2>5. verdicts' \in Seq(VerdictType')
    BY <2>3, <2>4
  <2>6. AnswersOK'
    BY <2>1 DEF Types, AnswersOK
  <2> QED
    BY <1>0, <2>1, <2>4, <2>5, <2>6 DEF Types, AnswersOK
<1>5. CASE RegimeFault(j)
  <2>1. now' = now /\ fired' = fired /\ begun' = begun /\ verdicts' = verdicts /\ check' = check
        /\ jobs' = jobs \ {j} /\ trouble' = TRUE
    BY <1>5 DEF RegimeFault
  <2>2. CASE \E c \in Answered(j.call) : PersistCallFault(c)
    BY <1>0, <1>2, <2>1, <2>2 DEF Answered
  <2>3. CASE UNCHANGED <<flight, calls, lost>>
    <3>1. /\ fired \in 0..now' /\ jobs \subseteq JobType' /\ check \in CheckType'
          /\ flight \subseteq FlightType'
          /\ calls \in Seq(CallRowType') /\ verdicts \in Seq(VerdictType')
          /\ lost \subseteq 1..begun'
      BY <1>0, <2>1, <2>3, Wider
    <3> QED
      BY <1>0, <2>1, <2>3, <3>1 DEF Types
  <2> QED
    BY <1>5, <2>2, <2>3 DEF RegimeFault
<1> QED
  BY <1>1, <1>3, <1>4, <1>5

\* A record stays of its type when fields get values of their types.
LEMMA CheckUpdates ==
    ASSUME NEW P, NEW T, NEW V, NEW B, NEW R,
           NEW k \in [pc : P, close : T, since : T, gate : V, seen : V, call : B, result : R],
           NEW p \in P, NEW t \in T, NEW s \in T, NEW g \in V, NEW n \in V, NEW r \in R
    PROVE  /\ [k EXCEPT !.pc = p, !.close = t, !.since = s]
                  \in [pc : P, close : T, since : T, gate : V, seen : V, call : B, result : R]
           /\ [k EXCEPT !.pc = p, !.result = r, !.gate = g, !.seen = n, !.since = s]
                  \in [pc : P, close : T, since : T, gate : V, seen : V, call : B, result : R]
OBVIOUS

\* The bar consumer's steps keep the types.
LEMMA TypesBar ==
    ASSUME Types, Signal \/ BarTask \/ CheckFault
    PROVE  Types'
<1>0. /\ now \in Nat /\ begun \in Nat /\ check \in CheckType
      /\ calls \in Seq(CallRowType) /\ verdicts \in Seq(VerdictType)
      /\ Len(calls) \in Nat /\ Len(verdicts) \in Nat
      /\ trouble \in BOOLEAN
      /\ ActiveFrom \in Nat /\ Age \in Nat
  BY GateAssumption DEF Types
<1>1. CASE Signal
  <2>1. PICK close \in (ActiveFrom..ActiveUntil) \cap (0..now) :
           check' = [NoCheck EXCEPT !.pc = "gate", !.close = close, !.since = now]
    BY <1>1 DEF Signal
  <2>2. check' \in CheckType
    <3>1. close \in 0..now
      BY <1>0
    <3>2. NoCheck \in CheckType
      BY <1>0 DEF CheckType, NoCheck
    <3>3. now \in 0..now
      BY <1>0
    <3> QED
      BY <2>1, <3>1, <3>2, <3>3, CheckUpdates DEF CheckType
  <2> QED
    BY <1>1, <2>2 DEF Signal, Types, JobType, CheckType, FlightType, CallRowType, VerdictType
<1>2. CASE ReadGate
  <2> DEFINE i == LatestRegime(check.close - Age)
  <2>1. i \in 0..Len(verdicts)
    <3>1. check.close - Age \in Int
      BY <1>0 DEF CheckType
    <3> QED
      BY <3>1, GateFound
  <2>2. \E b \in BOOLEAN : check' = [check EXCEPT !.pc = IF b THEN "idle" ELSE "context",
                                        !.result = IF b THEN "blocked" ELSE "none",
                                        !.gate = i, !.seen = Len(verdicts), !.since = now]
    BY <1>2 DEF ReadGate
  <2> HIDE DEF i
  <2>3. check' \in CheckType
    <3>1. PICK b \in BOOLEAN : check' = [check EXCEPT !.pc = IF b THEN "idle" ELSE "context",
                                        !.result = IF b THEN "blocked" ELSE "none",
                                        !.gate = i, !.seen = Len(verdicts), !.since = now]
      BY <2>2
    <3>2. now \in 0..now /\ Len(verdicts) \in 0..Len(verdicts)
      BY <1>0
    <3>3. (IF b THEN "idle" ELSE "context") \in {"idle", "gate", "context", "call", "dead"}
          /\ (IF b THEN "blocked" ELSE "none") \in {"none", "blocked", "raised"} \cup Decisions
      OBVIOUS
    <3> QED
      BY <1>0, <2>1, <3>1, <3>2, <3>3, CheckUpdates DEF CheckType
  <2> QED
    BY <1>2, <2>3 DEF ReadGate, Types, JobType, CheckType, FlightType, CallRowType, VerdictType
<1>3. CASE BuildPretradeContext
  <2>1. now' = now /\ fired' = fired /\ begun' = begun + 1 /\ calls' = calls
        /\ verdicts' = verdicts /\ jobs' = jobs /\ lost' = lost /\ trouble' = trouble
        /\ check' = [check EXCEPT !.pc = "call", !.since = now, !.call = begun + 1]
    BY <1>3 DEF BuildPretradeContext
  <2>2. /\ fired \in 0..now' /\ jobs \subseteq JobType' /\ check \in CheckType'
        /\ flight \subseteq FlightType'
        /\ calls \in Seq(CallRowType') /\ verdicts \in Seq(VerdictType')
        /\ lost \subseteq 1..begun'
    BY <1>0, <2>1, Wider
  <2>3. flight' \subseteq FlightType'
    BY <1>0, <1>3, <2>1, <2>2 DEF BuildPretradeContext, Asked, FlightType
  <2>4. check' \in CheckType'
    <3>1. now \in 0..now' /\ begun + 1 \in 0..begun'
      BY <1>0, <2>1
    <3> QED
      BY <2>1, <2>2, <3>1 DEF CheckType
  <2>5. AnswersOK'
    BY <1>3 DEF Types, AnswersOK, BuildPretradeContext, Asked
  <2> QED
    BY <1>0, <2>1, <2>2, <2>3, <2>4, <2>5 DEF Types, AnswersOK
<1>4. ASSUME NEW c \in flight, c.answer # "none", PersistCall(c) \/ PersistCallFault(c),
             now' = now, fired' = fired, begun' = begun, verdicts' = verdicts, jobs' = jobs,
             trouble' = trouble,
             NEW pc \in {"idle", "dead"}, NEW r \in {"raised"} \cup Decisions,
             check' = [check EXCEPT !.pc = pc, !.result = r]
      PROVE  Types'
  <2>1. CallsGrow /\ calls' \in Seq(CallRowType) /\ flight' = flight \ {c}
        /\ lost' \subseteq lost \cup {c.no}
    BY <1>4, CallEnds
  <2>2. /\ fired \in 0..now' /\ jobs \subseteq JobType' /\ check \in CheckType'
        /\ flight \subseteq FlightType'
        /\ verdicts \in Seq(VerdictType') /\ CallRowType \subseteq CallRowType'
        /\ lost \subseteq 1..begun'
    BY <1>0, <1>4, <2>1, Wider DEF CallsGrow
  <2>3. calls' \in Seq(CallRowType')
    BY <2>1, <2>2
  <2>4. check' \in CheckType'
    BY <1>4, <2>2 DEF CheckType
  <2>5. lost' \subseteq 1..begun'
    BY <1>4, <2>1, <2>2 DEF Types, FlightType
  <2>6. AnswersOK' /\ flight' \subseteq FlightType'
    BY <2>1, <2>2 DEF Types, AnswersOK
  <2> QED
    BY <1>0, <1>4, <2>2, <2>3, <2>4, <2>5, <2>6 DEF Types, AnswersOK
<1>5. CASE PretradeAnswered
  <2>1. PICK c \in Answered(check.call) :
           /\ PersistCall(c)
           /\ check' = [check EXCEPT !.pc = "idle",
                               !.result = IF c.answer \in Decisions THEN c.answer ELSE FallBack]
    BY <1>5 DEF PretradeAnswered
  <2>2. (IF c.answer \in Decisions THEN c.answer ELSE FallBack) \in Decisions
    BY DEF Decisions, FallBack
  <2>3. now' = now /\ fired' = fired /\ begun' = begun /\ verdicts' = verdicts /\ jobs' = jobs
        /\ trouble' = trouble
    BY <1>5 DEF PretradeAnswered
  <2> QED
    BY <1>4, <2>1, <2>2, <2>3 DEF Answered
<1>6. CASE CheckFault
  <2>1. now' = now /\ fired' = fired /\ begun' = begun /\ verdicts' = verdicts /\ jobs' = jobs
        /\ trouble' = trouble /\ check' = [check EXCEPT !.pc = "dead", !.result = "raised"]
    BY <1>6 DEF CheckFault
  <2>2. CASE \E c \in Answered(check.call) : PersistCallFault(c)
    BY <1>4, <2>1, <2>2 DEF Answered
  <2>3. CASE UNCHANGED <<flight, calls, lost>>
    <3>1. check' \in CheckType
      BY <1>0, <2>1 DEF CheckType
    <3> QED
      BY <2>1, <2>3, <3>1 DEF Types, JobType, CheckType, FlightType, CallRowType, VerdictType
  <2> QED
    BY <1>6, <2>2, <2>3 DEF CheckFault
<1> QED
  BY <1>1, <1>2, <1>3, <1>5, <1>6 DEF BarTask

\* Every step keeps the types.
LEMMA TypesStep ==
    ASSUME Types, JobInv, Numbered, [Next]_vars
    PROVE  Types'
<1>0. /\ now \in Nat /\ begun \in Nat /\ check \in CheckType
      /\ calls \in Seq(CallRowType) /\ verdicts \in Seq(VerdictType)
      /\ Len(calls) \in Nat /\ Len(verdicts) \in Nat
      /\ trouble \in BOOLEAN
  BY GateAssumption DEF Types
<1>1. CASE Fire
  <2>1. [at |-> now, pc |-> "context", since |-> now, asked |-> 0, call |-> 0, row |-> 0] \in JobType
    BY <1>0 DEF JobType
  <2>2. jobs' \subseteq JobType /\ trouble' \in BOOLEAN
    BY <1>0, <1>1, <2>1 DEF Fire, Types
  <2> QED
    BY <1>0, <1>1, <2>2 DEF Fire, Types, JobType, CheckType, FlightType, CallRowType, VerdictType
<1>2. CASE Tick
  <2>1. now' = now + 1 /\ fired' = fired /\ begun' = begun /\ calls' = calls
        /\ verdicts' = verdicts /\ jobs' = jobs /\ lost' = lost /\ trouble' = trouble
        /\ check' = check /\ flight' = flight
    BY <1>2 DEF Tick
  <2>2. /\ fired \in 0..now' /\ jobs \subseteq JobType' /\ check \in CheckType'
        /\ flight \subseteq FlightType'
        /\ calls \in Seq(CallRowType') /\ verdicts \in Seq(VerdictType')
        /\ lost \subseteq 1..begun'
    BY <1>0, <2>1, Wider
  <2> QED
    BY <1>0, <2>1, <2>2 DEF Types
<1>3. CASE ApiAnswers \/ TimeOut
  <2>0. PICK c \in flight : \E a \in Answers(c.tier) \cup Failures :
           flight' = (flight \ {c}) \cup {[c EXCEPT !.answer = a]}
    BY <1>3 DEF ApiAnswers, TimeOut, Failures
  <2>1. PICK a \in Answers(c.tier) \cup Failures :
           flight' = (flight \ {c}) \cup {[c EXCEPT !.answer = a]}
    BY <2>0
  <2>2. [c EXCEPT !.answer = a] \in FlightType
        /\ [c EXCEPT !.answer = a].answer \in Answers([c EXCEPT !.answer = a].tier) \cup Failures
    BY <2>1 DEF Types, FlightType, Answers
  <2>3. flight' \subseteq FlightType /\ AnswersOK'
    BY <2>1, <2>2 DEF Types, AnswersOK
  <2>4. UNCHANGED <<now, fired, begun, calls, verdicts, jobs, lost, trouble, check>>
    BY <1>3 DEF ApiAnswers, TimeOut
  <2> QED
    BY <2>3, <2>4 DEF Types, AnswersOK, JobType, CheckType, FlightType, CallRowType, VerdictType
<1>4. CASE Restart
  <2>1. /\ CallsGrow /\ calls' \in Seq(CallRowType)
        /\ flight' = {} /\ begun' = begun /\ now' = now
        /\ \E kept \in SUBSET flight : lost' = lost \cup {c.no : c \in flight \ kept}
    BY <1>4, CallsCut
  <2>2. /\ fired' = fired /\ verdicts' = verdicts /\ jobs' = {} /\ check' = NoCheck
        /\ trouble' \in BOOLEAN
    BY <1>4 DEF Restart
  <2>3. /\ fired \in 0..now' /\ verdicts \in Seq(VerdictType')
        /\ CallRowType \subseteq CallRowType' /\ lost \subseteq 1..begun'
    BY <1>0, <2>1, <2>2, Wider DEF CallsGrow
  <2>4. lost' \subseteq 1..begun'
    BY <2>1, <2>3 DEF Types, FlightType
  <2>5. check' \in CheckType'
    BY <1>0, <2>1, <2>2 DEF NoCheck, CheckType, CallsGrow
  <2>6. calls' \in Seq(CallRowType')
    BY <2>1, <2>3
  <2> QED
    BY <1>0, <2>1, <2>2, <2>3, <2>4, <2>5, <2>6 DEF Types
<1>5. CASE RegimeJob \/ \E j \in jobs : RegimeFault(j)
  BY <1>5, TypesJob DEF RegimeJob
<1>6. CASE Signal \/ BarTask \/ CheckFault
  BY <1>6, TypesBar
<1>7. CASE UNCHANGED vars
  BY <1>7 DEF vars, Types, JobType, CheckType, FlightType, CallRowType, VerdictType
<1> QED
  BY <1>1, <1>2, <1>3, <1>4, <1>5, <1>6, <1>7 DEF Next

-----------------------------------------------------------------------------
\* What every step does to the tables and to the calls under way.
LEMMA Tables ==
    ASSUME Types, Numbered, [Next]_vars
    PROVE  /\ CallsGrow
           /\ begun' = begun \/ begun' = begun + 1
           /\ \A c \in flight' : \/ \E d \in flight : d.no = c.no /\ d.tier = c.tier
                                 \/ c.no = begun + 1 /\ begun' = begun + 1
           /\ verdicts' = verdicts \/ \E j \in jobs : PersistVerdict(j)
<1>0. calls \in Seq(CallRowType) /\ Len(calls) \in Nat
  BY DEF Types
<1>1. CASE UNCHANGED <<calls, begun, flight>>
  <2>1. CallsGrow
    BY <1>0, <1>1 DEF CallsGrow
  <2>2. verdicts' = verdicts \/ \E j \in jobs : PersistVerdict(j)
    BY DEF Next, Fire, RegimeJob, BarTask, Signal, Tick, ApiAnswers, TimeOut, CheckFault,
           Restart, RegimeFault, BuildRegimeContext, RegimeAnswered, ReadGate,
           BuildPretradeContext, PretradeAnswered, vars
  <2> QED
    BY <1>1, <2>1, <2>2
<1>2. ASSUME NEW no, NEW c \in Answered(no), PersistCall(c) \/ PersistCallFault(c),
             begun' = begun, now' = now, verdicts' = verdicts
      PROVE  /\ CallsGrow /\ flight' = flight \ {c}
             /\ begun' = begun /\ verdicts' = verdicts
  BY <1>2, CallEnds DEF Answered
<1>3. CASE RegimeJob
  <2>1. CASE \E j \in jobs : BuildRegimeContext(j)
    BY <1>0, <2>1 DEF BuildRegimeContext, CallsGrow, Asked
  <2>2. CASE \E j \in jobs : RegimeAnswered(j)
    <3>1. PICK j \in jobs : RegimeAnswered(j)
      BY <2>2
    <3>2. PICK c \in Answered(j.call) : PersistCall(c)
      BY <3>1 DEF RegimeAnswered
    <3>3. begun' = begun /\ now' = now /\ verdicts' = verdicts
      BY <3>1 DEF RegimeAnswered
    <3> QED
      BY <1>2, <3>2, <3>3
  <2>3. CASE \E j \in jobs : PersistVerdict(j)
    BY <1>1, <2>3 DEF PersistVerdict
  <2> QED
    BY <1>3, <2>1, <2>2, <2>3 DEF RegimeJob
<1>4. CASE \E j \in jobs : RegimeFault(j)
  <2>1. PICK j \in jobs : RegimeFault(j)
    BY <1>4
  <2>2. begun' = begun /\ now' = now /\ verdicts' = verdicts
    BY <2>1 DEF RegimeFault
  <2>3. UNCHANGED <<flight, calls>> \/ \E c \in Answered(j.call) : PersistCallFault(c)
    BY <2>1 DEF RegimeFault
  <2> QED
    BY <1>1, <1>2, <2>2, <2>3
<1>5. CASE BarTask
  <2>1. CASE ReadGate
    BY <1>1, <2>1 DEF ReadGate
  <2>2. CASE BuildPretradeContext
    BY <1>0, <2>2 DEF BuildPretradeContext, CallsGrow, Asked
  <2>3. CASE PretradeAnswered
    <3>1. PICK c \in Answered(check.call) : PersistCall(c)
      BY <2>3 DEF PretradeAnswered
    <3>2. begun' = begun /\ now' = now /\ verdicts' = verdicts
      BY <2>3 DEF PretradeAnswered
    <3> QED
      BY <1>2, <3>1, <3>2
  <2> QED
    BY <1>5, <2>1, <2>2, <2>3 DEF BarTask
<1>6. CASE CheckFault
  <2>2. begun' = begun /\ now' = now /\ verdicts' = verdicts
    BY <1>6 DEF CheckFault
  <2>3. UNCHANGED <<flight, calls>> \/ \E c \in Answered(check.call) : PersistCallFault(c)
    BY <1>6 DEF CheckFault
  <2> QED
    BY <1>1, <1>2, <2>2, <2>3
<1>7. CASE ApiAnswers \/ TimeOut
  <2>1. PICK c \in flight : \E a : flight' = (flight \ {c}) \cup {[c EXCEPT !.answer = a]}
    BY <1>7 DEF ApiAnswers, TimeOut
  <2>2. begun' = begun /\ calls' = calls /\ verdicts' = verdicts
    BY <1>7 DEF ApiAnswers, TimeOut
  <2>3. \A d \in flight' : d \in flight \/ (d.no = c.no /\ d.tier = c.tier)
    BY <2>1 DEF Types, FlightType
  <2>4. CallsGrow
    BY <1>0, <2>2 DEF CallsGrow
  <2> QED
    BY <2>2, <2>3, <2>4
<1>8. CASE Restart
  <2>1. verdicts' = verdicts
    BY <1>8 DEF Restart
  <2> QED
    BY <1>8, <2>1, CallsCut
<1>9. CASE Fire \/ Signal \/ Tick \/ UNCHANGED vars
  BY <1>1, <1>9 DEF Fire, Signal, Tick, vars
<1> QED
  BY <1>3, <1>4, <1>5, <1>6, <1>7, <1>8, <1>9 DEF Next

-----------------------------------------------------------------------------
\* The regime job

\* There is at most one instance, so a slot finds it or finds none.
LEMMA OneInstance ==
    ASSUME \A j, k \in jobs : j = k
    PROVE  /\ IsFiniteSet(jobs) /\ Cardinality(jobs) <= 1
           /\ Cardinality(jobs) >= MaxInstances <=> jobs # {}
<1>1. CASE jobs = {}
  BY <1>1, FS_EmptySet DEF MaxInstances
<1>2. CASE jobs # {}
  <2>1. PICK j : jobs = {j}
    BY <1>2
  <2>2. IsFiniteSet({j}) /\ Cardinality({j}) = 1
    BY FS_Singleton
  <2> QED
    BY <1>2, <2>1, <2>2 DEF MaxInstances
<1> QED
  BY <1>1, <1>2

LEMMA JobStep ==
    ASSUME Types, JobInv, Numbered, [Next]_vars
    PROVE  JobInv'
<1>0. /\ calls \in Seq(CallRowType) /\ verdicts \in Seq(VerdictType) /\ begun \in Nat
      /\ Len(calls) \in Nat /\ jobs \subseteq JobType /\ flight \subseteq FlightType
      /\ \A j, k \in jobs : j = k
  BY DEF Types, JobInv
<1>1. /\ CallsGrow /\ begun' \in Nat /\ begun <= begun'
      /\ \A c \in flight' : \/ \E d \in flight : d.no = c.no /\ d.tier = c.tier
                            \/ c.no = begun + 1 /\ begun' = begun + 1
      /\ verdicts' = verdicts \/ \E j \in jobs : PersistVerdict(j)
  BY <1>0, Tables
<1>2. CASE jobs' = {}
  BY <1>2 DEF JobInv
<1>3. CASE jobs' = jobs
  <2>1. verdicts' = verdicts
    BY <1>1, <1>3 DEF PersistVerdict
  <2> SUFFICES ASSUME NEW j \in jobs
               PROVE  /\ j.pc # "context" => j.call \in 1..begun'
                      /\ j.pc = "call" => \A c \in flight' : c.no = j.call => c.tier = "regime"
                      /\ j.pc = "verdict" =>
                            /\ j.row \in DOMAIN calls'
                            /\ calls'[j.row].tier = "regime" /\ calls'[j.row].response \in Regimes
                            /\ \A i \in DOMAIN verdicts' : verdicts'[i].call # j.row
    BY <1>0, <1>3 DEF JobInv
  <2>2. j.pc # "context" => j.call \in 1..begun'
    BY <1>0, <1>1 DEF JobInv
  <2>3. ASSUME j.pc = "call", NEW c \in flight', c.no = j.call
        PROVE  c.tier = "regime"
    <3>1. j.call \in 1..begun /\ \A d \in flight : d.no = j.call => d.tier = "regime"
      BY <2>3 DEF JobInv
    <3> QED
      BY <1>0, <1>1, <2>3, <3>1
  <2>4. j.pc = "verdict" =>
           /\ j.row \in DOMAIN calls'
           /\ calls'[j.row].tier = "regime" /\ calls'[j.row].response \in Regimes
           /\ \A i \in DOMAIN verdicts' : verdicts'[i].call # j.row
    BY <1>1, <2>1 DEF JobInv, CallsGrow
  <2> QED
    BY <2>2, <2>3, <2>4
<1>4. CASE Fire
  <2>1. CASE jobs # {}
    <3>1. jobs' = jobs
      BY <1>0, <1>4, <2>1, OneInstance DEF Fire
    <3> QED
      BY <1>3, <3>1
  <2>2. CASE jobs = {}
    BY <1>4, <2>2 DEF Fire, JobInv
  <2> QED
    BY <2>1, <2>2
<1>5. ASSUME NEW j \in jobs, BuildRegimeContext(j)
      PROVE  JobInv'
  <2> DEFINE k == [j EXCEPT !.pc = "call", !.asked = now, !.call = begun + 1]
  <2>1. jobs' = {k} /\ begun' = begun + 1
    BY <1>0, <1>5 DEF BuildRegimeContext, Moved
  <2>2. k.pc = "call" /\ k.call = begun + 1
    BY <1>0 DEF JobType
  <2>3. \A c \in flight' : c.no = begun + 1 => c.tier = "regime"
    BY <1>0, <1>5 DEF BuildRegimeContext, Asked, FlightType
  <2> HIDE DEF k
  <2> QED
    BY <1>0, <2>1, <2>2, <2>3 DEF JobInv
<1>6. ASSUME NEW j \in jobs, RegimeAnswered(j)
      PROVE  JobInv'
  <2>1. PICK c \in Answered(j.call) :
           /\ PersistCall(c)
           /\ \/ /\ c.answer \in Regimes
                 /\ Moved(j, [j EXCEPT !.pc = "verdict", !.since = now, !.row = Len(calls')])
              \/ jobs' = jobs \ {j}
    BY <1>6 DEF RegimeAnswered
  <2>2. CASE jobs' = jobs \ {j}
    BY <1>0, <1>2, <2>2
  <2>3. CASE /\ c.answer \in Regimes
             /\ Moved(j, [j EXCEPT !.pc = "verdict", !.since = now, !.row = Len(calls')])
    <3> DEFINE k == [j EXCEPT !.pc = "verdict", !.since = now, !.row = Len(calls')]
    <3>1. jobs' = {k}
      BY <1>0, <2>3 DEF Moved
    <3>2. k.pc = "verdict" /\ k.row = Len(calls') /\ k.call = j.call
      BY <1>0 DEF JobType
    <3>3. j.pc = "call" /\ verdicts' = verdicts /\ begun' = begun /\ now' = now
      BY <1>6 DEF RegimeAnswered
    <3>4. j.call \in 1..begun' /\ c.tier = "regime"
      BY <3>3 DEF JobInv, Answered
    <3>5. /\ Len(calls') = Len(calls) + 1 /\ Len(calls') \in DOMAIN calls'
          /\ calls'[Len(calls')] = CallRow(c)
      BY <2>1, <3>3, CallEnds DEF Answered, PersistCall
    <3>6. CallRow(c).tier = "regime" /\ CallRow(c).response \in Regimes
      BY <2>3, <3>4 DEF CallRow, Regimes, Failures
    <3>7. \A i \in DOMAIN verdicts' : verdicts'[i].call # Len(calls')
      <4>1. \A i \in DOMAIN verdicts : verdicts[i] \in VerdictType
        BY <1>0
      <4>2. \A i \in DOMAIN verdicts : verdicts[i].call \in 1..Len(calls)
        BY <4>1 DEF VerdictType
      <4> QED
        BY <1>0, <3>3, <3>5, <4>2
    <3> HIDE DEF k
    <3> QED
      BY <3>1, <3>2, <3>4, <3>5, <3>6, <3>7 DEF JobInv
  <2> QED
    BY <2>1, <2>2, <2>3
<1>7. CASE \E j \in jobs : PersistVerdict(j) \/ RegimeFault(j)
  BY <1>0, <1>2, <1>7 DEF PersistVerdict, RegimeFault
<1>8. CASE RegimeJob
  BY <1>5, <1>6, <1>7, <1>8 DEF RegimeJob
<1>9. CASE Restart
  BY <1>2, <1>9 DEF Restart
<1>10. CASE BarTask \/ Signal \/ Tick \/ ApiAnswers \/ TimeOut \/ CheckFault \/ UNCHANGED vars
  BY <1>3, <1>10 DEF BarTask, ReadGate, BuildPretradeContext, PretradeAnswered, Signal, Tick,
                     ApiAnswers, TimeOut, CheckFault, vars
<1> QED
  BY <1>4, <1>7, <1>8, <1>9, <1>10 DEF Next

-----------------------------------------------------------------------------
\* The numbers of the calls

\* A call that ends passes its number to its row, or to those lost.
LEMMA NumberedEnds ==
    ASSUME Types, Numbered, NEW c \in flight, c.answer # "none",
           PersistCall(c) \/ PersistCallFault(c),
           begun' = begun, now' = now, restarts' = restarts
    PROVE  Numbered'
<1>0. /\ calls \in Seq(CallRowType) /\ Len(calls) \in Nat
      /\ DOMAIN calls = 1..Len(calls) /\ flight \subseteq FlightType
  BY DEF Types
<1>1. /\ CallsGrow /\ flight' = flight \ {c}
      /\ \/ calls' = calls /\ lost' = lost \cup {c.no}
         \/ /\ lost' = lost /\ DOMAIN calls' = DOMAIN calls \cup {Len(calls) + 1}
            /\ calls'[Len(calls) + 1] = CallRow(c)
      /\ CallRow(c).no = c.no /\ (CallRow(c).response # "none" \/ CallRow(c).error # "none")
  BY CallEnds
<1>2. IsFiniteSet(flight')
  BY <1>1, FS_RemoveElement DEF Numbered
<1>3. \A d \in flight' : d.no # c.no
  BY <1>1 DEF Numbered
<1>4. CASE calls' = calls /\ lost' = lost \cup {c.no}
  BY <1>1, <1>2, <1>3, <1>4 DEF Numbered
<1>5. CASE /\ lost' = lost /\ DOMAIN calls' = DOMAIN calls \cup {Len(calls) + 1}
           /\ calls'[Len(calls) + 1] = CallRow(c)
  <2>1. Len(calls) + 1 \notin DOMAIN calls
    BY <1>0
  <2>2. \A i \in DOMAIN calls : calls'[i] = calls[i]
    BY <1>1 DEF CallsGrow
  <2>3. \A i, k \in DOMAIN calls' : calls'[i].no = calls'[k].no => i = k
    BY <1>1, <1>5, <2>2 DEF Numbered
  <2>4. \A d \in flight' : d.no \notin lost'
    BY <1>1, <1>5 DEF Numbered
  <2>5. \A i \in DOMAIN calls' : calls'[i].no \notin lost'
    BY <1>1, <1>5, <2>2 DEF Numbered
  <2>6. \A i \in DOMAIN calls', d \in flight' : calls'[i].no # d.no
    BY <1>1, <1>3, <1>5, <2>2 DEF Numbered
  <2>7. ASSUME NEW n \in 1..begun'
        PROVE  \/ n \in lost'
               \/ \E d \in flight' : d.no = n
               \/ \E i \in DOMAIN calls' : calls'[i].no = n
    <3>1. CASE n \in lost \/ \E d \in flight : d # c /\ d.no = n
      BY <1>1, <1>5, <3>1
    <3>2. CASE n = c.no
      BY <1>1, <1>5, <3>2
    <3>3. CASE \E i \in DOMAIN calls : calls[i].no = n
      BY <1>5, <2>2, <3>3
    <3> QED
      BY <3>1, <3>2, <3>3 DEF Numbered
  <2>8. \A i \in DOMAIN calls' :
           calls'[i].response = "none" /\ calls'[i].error = "none" => restarts' > 0
    BY <1>1, <1>5, <2>2 DEF Numbered
  <2>9. \A d, e \in flight' : d.no = e.no => d = e
    BY <1>1 DEF Numbered
  <2> QED
    BY <1>2, <2>3, <2>4, <2>5, <2>6, <2>7, <2>8, <2>9 DEF Numbered
<1> QED
  BY <1>1, <1>4, <1>5

\* A new call takes the next number.
LEMMA NumberedAsked ==
    ASSUME Types, Numbered, NEW tier, flight' = flight \cup {Asked(tier)}, begun' = begun + 1,
           UNCHANGED <<calls, lost, restarts>>
    PROVE  Numbered'
<1>0. /\ calls \in Seq(CallRowType) /\ begun \in Nat /\ lost \subseteq 1..begun
  BY DEF Types
<1>1. \A d \in flight : d.no \in 1..begun
  BY DEF Types, FlightType
<1>2. \A i \in DOMAIN calls : calls[i].no \in 1..begun
  <2>1. \A i \in DOMAIN calls : calls[i] \in CallRowType
    BY <1>0
  <2> QED
    BY <2>1 DEF CallRowType
<1>3. Asked(tier).no = begun + 1
  BY DEF Asked
<1>4. IsFiniteSet(flight')
  BY FS_AddElement DEF Numbered
<1>5. \A d, e \in flight' : d.no = e.no => d = e
  BY <1>0, <1>1, <1>3 DEF Numbered
<1>6. (\A d \in flight' : d.no \notin lost')
      /\ (\A i \in DOMAIN calls', d \in flight' : calls'[i].no # d.no)
  BY <1>0, <1>1, <1>2, <1>3 DEF Numbered
<1>7. ASSUME NEW n \in 1..begun'
      PROVE  \/ n \in lost'
             \/ \E d \in flight' : d.no = n
             \/ \E i \in DOMAIN calls' : calls'[i].no = n
  <2>1. CASE n = begun + 1
    BY <1>3, <2>1
  <2>2. CASE n \in 1..begun
    BY <2>2 DEF Numbered
  <2> QED
    BY <1>0, <2>1, <2>2
<1> QED
  BY <1>4, <1>5, <1>6, <1>7 DEF Numbered

\* A restart leaves no call under way.
LEMMA NumberedCut ==
    ASSUME Types, Numbered, Restart, restarts \in Nat
    PROVE  Numbered'
<1>0. calls \in Seq(CallRowType) /\ flight \subseteq FlightType
  BY DEF Types
<1>1. CallsGrow /\ flight' = {} /\ begun' = begun
  BY CallsCut
<1>2. PICK kept \in SUBSET flight :
         /\ lost' = lost \cup {c.no : c \in flight \ kept}
         /\ \A c \in kept : \E i \in DOMAIN calls' :
               i \notin DOMAIN calls /\ calls'[i] = CallRow(c)
         /\ \A i \in DOMAIN calls' : i \notin DOMAIN calls =>
               /\ \E c \in kept : calls'[i] = CallRow(c)
               /\ \A k \in DOMAIN calls' : k \notin DOMAIN calls =>
                     (calls'[i].no = calls'[k].no => i = k)
  BY CallsCut
<1>3. \A c \in flight : CallRow(c).no = c.no
  BY DEF CallRow
<1>4. \A i \in DOMAIN calls : calls'[i] = calls[i]
  BY <1>1 DEF CallsGrow
<1>5. IsFiniteSet(flight')
  BY <1>1, FS_EmptySet
<1>6. \A i \in DOMAIN calls' : i \notin DOMAIN calls => \E c \in kept : calls'[i].no = c.no
  BY <1>2, <1>3
<1>7. \A i, k \in DOMAIN calls' : calls'[i].no = calls'[k].no => i = k
  <2> SUFFICES ASSUME NEW i \in DOMAIN calls', NEW k \in DOMAIN calls', calls'[i].no = calls'[k].no
               PROVE  i = k
    OBVIOUS
  <2>1. CASE i \in DOMAIN calls /\ k \in DOMAIN calls
    BY <1>4, <2>1 DEF Numbered
  <2>2. CASE i \notin DOMAIN calls /\ k \notin DOMAIN calls
    BY <1>2, <2>2
  <2>3. CASE i \in DOMAIN calls /\ k \notin DOMAIN calls
    BY <1>4, <1>6, <2>3 DEF Numbered
  <2>4. CASE i \notin DOMAIN calls /\ k \in DOMAIN calls
    BY <1>4, <1>6, <2>4 DEF Numbered
  <2> QED
    BY <2>1, <2>2, <2>3, <2>4
<1>8. \A i \in DOMAIN calls' : calls'[i].no \notin lost'
  <2> SUFFICES ASSUME NEW i \in DOMAIN calls', calls'[i].no \in lost'
               PROVE  FALSE
    OBVIOUS
  <2>1. CASE i \in DOMAIN calls
    BY <1>2, <1>4, <2>1 DEF Numbered
  <2>2. CASE i \notin DOMAIN calls
    BY <1>2, <1>6, <2>2 DEF Numbered
  <2> QED
    BY <2>1, <2>2
<1>9. ASSUME NEW n \in 1..begun'
      PROVE  \/ n \in lost'
             \/ \E i \in DOMAIN calls' : calls'[i].no = n
  <2>1. CASE n \in lost
    BY <1>2, <2>1
  <2>2. CASE \E c \in flight : c.no = n
    <3>1. PICK c \in flight : c.no = n
      BY <2>2
    <3>2. CASE c \in kept
      BY <1>2, <1>3, <3>1, <3>2
    <3>3. CASE c \notin kept
      BY <1>2, <3>1, <3>3
    <3> QED
      BY <3>2, <3>3
  <2>3. CASE \E i \in DOMAIN calls : calls[i].no = n
    BY <1>1, <1>4, <2>3 DEF CallsGrow
  <2> QED
    BY <1>1, <2>1, <2>2, <2>3 DEF Numbered
<1>10. restarts' > 0
  BY DEF Restart
<1> QED
  BY <1>1, <1>5, <1>7, <1>8, <1>9, <1>10 DEF Numbered

LEMMA NumberedStep ==
    ASSUME Types, Numbered, restarts \in Nat, [Next]_vars
    PROVE  Numbered'
<1>1. CASE UNCHANGED <<calls, flight, lost, begun, restarts>>
  BY <1>1 DEF Numbered
<1>2. ASSUME NEW no, NEW c \in Answered(no), PersistCall(c) \/ PersistCallFault(c),
             begun' = begun, now' = now, restarts' = restarts
      PROVE  Numbered'
  BY <1>2, NumberedEnds DEF Answered
<1>3. CASE RegimeJob
  <2>1. ASSUME NEW j \in jobs, BuildRegimeContext(j) PROVE Numbered'
    BY <2>1, NumberedAsked DEF BuildRegimeContext
  <2>2. ASSUME NEW j \in jobs, RegimeAnswered(j) PROVE Numbered'
    BY <1>2, <2>2 DEF RegimeAnswered
  <2>3. ASSUME NEW j \in jobs, PersistVerdict(j) PROVE Numbered'
    BY <1>1, <2>3 DEF PersistVerdict
  <2> QED
    BY <1>3, <2>1, <2>2, <2>3 DEF RegimeJob
<1>4. CASE \E j \in jobs : RegimeFault(j)
  BY <1>1, <1>2, <1>4 DEF RegimeFault
<1>5. CASE BarTask
  <2>1. ASSUME BuildPretradeContext PROVE Numbered'
    BY <2>1, NumberedAsked DEF BuildPretradeContext
  <2>2. ASSUME PretradeAnswered PROVE Numbered'
    BY <1>2, <2>2 DEF PretradeAnswered
  <2>3. ASSUME ReadGate PROVE Numbered'
    BY <1>1, <2>3 DEF ReadGate
  <2> QED
    BY <1>5, <2>1, <2>2, <2>3 DEF BarTask
<1>6. CASE CheckFault
  BY <1>1, <1>2, <1>6 DEF CheckFault
<1>7. CASE ApiAnswers \/ TimeOut
  <2>1. PICK c \in flight : \E a : flight' = (flight \ {c}) \cup {[c EXCEPT !.answer = a]}
    BY <1>7 DEF ApiAnswers, TimeOut
  <2>2. PICK a : flight' = (flight \ {c}) \cup {[c EXCEPT !.answer = a]}
    BY <2>1
  <2>3. UNCHANGED <<calls, lost, begun, restarts>>
    BY <1>7 DEF ApiAnswers, TimeOut
  <2>4. [c EXCEPT !.answer = a].no = c.no
    BY DEF Types, FlightType
  <2>5. IsFiniteSet(flight')
    <3>1. IsFiniteSet(flight \ {c})
      BY FS_RemoveElement DEF Numbered
    <3> QED
      BY <2>2, <3>1, FS_AddElement
  <2>6. \A d \in flight' : \E e \in flight : e.no = d.no
    BY <2>2, <2>4
  <2>7. \A e \in flight : \E d \in flight' : e.no = d.no
    BY <2>2, <2>4
  <2>8. \A d, e \in flight' : d.no = e.no => d = e
    <3> DEFINE u == [c EXCEPT !.answer = a]
    <3>1. \A d \in flight' : d = u \/ (d \in flight /\ d # c)
      BY <2>2
    <3>2. \A d, e \in flight : d.no = e.no => d = e
      BY DEF Numbered
    <3>3. u.no = c.no
      BY <2>4
    <3> HIDE DEF u
    <3> QED
      BY <3>1, <3>2, <3>3
  <2> QED
    BY <2>3, <2>5, <2>6, <2>7, <2>8 DEF Numbered
<1>8. CASE Restart
  BY <1>8, NumberedCut
<1>9. CASE Fire \/ Signal \/ Tick \/ UNCHANGED vars
  BY <1>1, <1>9 DEF Fire, Signal, Tick, vars
<1> QED
  BY <1>3, <1>4, <1>5, <1>6, <1>7, <1>8, <1>9 DEF Next

\* Each row has its number to itself, so there are as many numbers as rows.
LEMMA LoggedOnce ==
    ASSUME Types, Numbered
    PROVE  CallsLogged
<1> DEFINE logged == {calls[i].no : i \in DOMAIN calls}
           coming == {c.no : c \in flight}
<1>0. /\ calls \in Seq(CallRowType) /\ Len(calls) \in Nat
      /\ DOMAIN calls = 1..Len(calls) /\ lost \subseteq 1..begun
  BY DEF Types
<1>1. coming \subseteq 1..begun
  BY DEF Types, FlightType
<1>2. logged \subseteq 1..begun
  <2>1. \A i \in DOMAIN calls : calls[i] \in CallRowType
    BY <1>0
  <2> QED
    BY <2>1 DEF CallRowType
<1>3. 1..begun = logged \cup coming \cup lost
  <2>1. 1..begun \subseteq logged \cup coming \cup lost
    BY DEF Numbered
  <2> QED
    BY <1>0, <1>1, <1>2, <2>1
<1>4. logged \cap (coming \cup lost) = {} /\ coming \cap lost = {}
  BY DEF Numbered
<1>5. Cardinality(logged) = Len(calls)
  <2> DEFINE f == [i \in 1..Len(calls) |-> calls[i].no]
  <2>1. f \in Bijection(1..Len(calls), logged)
    <3>1. f \in [1..Len(calls) -> logged]
      BY <1>0
    <3>2. \A i, k \in 1..Len(calls) : f[i] = f[k] => i = k
      BY <1>0 DEF Numbered
    <3>3. \A n \in logged : \E i \in 1..Len(calls) : f[i] = n
      BY <1>0
    <3> HIDE DEF f, logged
    <3> QED
      BY <3>1, <3>2, <3>3 DEF Bijection, Injection, Surjection, IsInjective
  <2>2. \A n \in Nat : IsFiniteSet(1..n) /\ Cardinality(1..n) = n
    <3> HIDE DEF f, logged
    <3> QED
      BY FS_Interval
  <2>3. ExistsBijection(1..Len(calls), logged)
    BY <2>1 DEF ExistsBijection
  <2> HIDE DEF logged, f
  <2> QED
    BY <1>0, <2>2, <2>3, FS_Bijection
<1>6. \A i \in DOMAIN calls :
             calls[i].response = "none" /\ calls[i].error = "none" => restarts > 0
  BY DEF Numbered
<1> QED
  BY <1>3, <1>4, <1>5, <1>6 DEF CallsLogged

-----------------------------------------------------------------------------
\* The slots and the verdicts

\* Persisting a verdict adds one, linked to the job's row.
LEMMA VerdictAdded ==
    ASSUME Types, JobInv, NEW j \in jobs, PersistVerdict(j)
    PROVE  /\ j.pc = "verdict" /\ jobs' = {}
           /\ Len(verdicts) \in Nat
           /\ DOMAIN verdicts = 1..Len(verdicts)
           /\ DOMAIN verdicts' = DOMAIN verdicts \cup {Len(verdicts) + 1}
           /\ Len(verdicts') = Len(verdicts) + 1
           /\ \A i \in DOMAIN verdicts : verdicts'[i] = verdicts[i]
           /\ verdicts'[Len(verdicts) + 1] = Verdict(j, j.row)
<1>1. verdicts' = Append(verdicts, Verdict(j, j.row)) /\ j.pc = "verdict" /\ jobs' = jobs \ {j}
  BY DEF PersistVerdict
<1>2. jobs' = {}
  BY <1>1 DEF JobInv
<1>3. \E S : verdicts \in Seq(S) /\ Verdict(j, j.row) \in S
  <2>1. verdicts \in Seq(VerdictType \cup {Verdict(j, j.row)})
    BY DEF Types
  <2> QED
    BY <2>1
<1>4. PICK S : verdicts \in Seq(S) /\ Verdict(j, j.row) \in S
  BY <1>3
<1>5. Len(verdicts) \in Nat /\ DOMAIN verdicts = 1..Len(verdicts)
  BY <1>4
<1> QED
  BY <1>1, <1>2, <1>4, <1>5, Appended

LEMMA SlotStep ==
    ASSUME Types, JobInv, SlotInv, [Next]_vars
    PROVE  SlotInv'
<1>0. /\ now \in Nat /\ fired \in Nat /\ fired <= now /\ jobs \subseteq JobType
      /\ verdicts \in Seq(VerdictType) /\ \A j, k \in jobs : j = k
      /\ SlotEvery \in Nat /\ SlotEvery > 1
      /\ \A i \in DOMAIN verdicts : verdicts[i].asked \in Nat
  <2>1. \A i \in DOMAIN verdicts : verdicts[i] \in VerdictType
    BY DEF Types
  <2>2. \A i \in DOMAIN verdicts : verdicts[i].asked \in Nat
    BY <2>1 DEF VerdictType
  <2> QED
    BY <2>2, GateAssumption DEF Types, JobInv
<1>1. CASE UNCHANGED <<now, fired, jobs, verdicts>>
  BY <1>1 DEF SlotInv
<1>2. CASE Fire
  <2>1. now % SlotEvery = 0 /\ fired < now /\ fired' = now /\ now' = now /\ verdicts' = verdicts
    BY <1>2 DEF Fire, AtSlot
  <2>2. fired + SlotEvery <= now
    BY <1>0, <2>1, SlotsApart DEF SlotInv
  <2>3. \A i \in DOMAIN verdicts' : verdicts'[i].asked <= fired' + 1 /\ verdicts'[i].asked < now
    BY <1>0, <2>1, <2>2 DEF SlotInv
  <2>4. CASE jobs' = jobs
    BY <1>0, <2>1, <2>3, <2>4 DEF SlotInv, JobType
  <2>5. CASE /\ jobs = {} /\ now \in ActiveFrom..ActiveUntil
             /\ jobs' = {[at |-> now, pc |-> "context", since |-> now,
                          asked |-> 0, call |-> 0, row |-> 0]}
    BY <1>0, <2>1, <2>3, <2>5 DEF SlotInv
  <2> QED
    BY <1>0, <1>2, <2>4, <2>5, OneInstance DEF Fire
<1>3. ASSUME NEW j \in jobs, BuildRegimeContext(j)
      PROVE  SlotInv'
  <2> DEFINE k == [j EXCEPT !.pc = "call", !.asked = now, !.call = begun + 1]
  <2>1. jobs' = {k} /\ now' = now /\ fired' = fired /\ verdicts' = verdicts /\ j.pc = "context"
    BY <1>0, <1>3 DEF BuildRegimeContext, Moved
  <2>2. k.pc = "call" /\ k.asked = now /\ k.at = j.at /\ j.at \in 0..now
    BY <1>0 DEF JobType
  <2> HIDE DEF k
  <2>3. now \in j.at..(j.at + 1)
    BY <1>0, <2>1, <2>2 DEF SlotInv
  <2> QED
    BY <2>1, <2>2, <2>3 DEF SlotInv
<1>4. ASSUME NEW j \in jobs, RegimeAnswered(j)
      PROVE  SlotInv'
  <2> DEFINE k == [j EXCEPT !.pc = "verdict", !.since = now, !.row = Len(calls')]
  <2>1. /\ jobs' = {k} \/ jobs' = {}
        /\ now' = now /\ fired' = fired /\ verdicts' = verdicts /\ j.pc = "call"
    BY <1>0, <1>4 DEF RegimeAnswered, Moved
  <2>2. k.pc = "verdict" /\ k.asked = j.asked /\ k.at = j.at
    BY <1>0 DEF JobType
  <2> HIDE DEF k
  <2> QED
    BY <2>1, <2>2 DEF SlotInv
<1>5. ASSUME NEW j \in jobs, PersistVerdict(j)
      PROVE  SlotInv'
  <2>1. now' = now /\ fired' = fired
    BY <1>5 DEF PersistVerdict
  <2>2. Verdict(j, j.row).asked <= fired + 1
    BY <1>0, <1>5 DEF SlotInv, Verdict, PersistVerdict, JobType
  <2> QED
    BY <1>5, <2>1, <2>2, VerdictAdded DEF SlotInv
<1>6. CASE \E j \in jobs : RegimeFault(j)
  BY <1>0, <1>6 DEF RegimeFault, SlotInv
<1>7. CASE Tick
  <2>1. now' = now + 1 /\ fired' = fired /\ jobs' = jobs /\ verdicts' = verdicts
        /\ \A j \in jobs : j.pc # "call" => j.since = now
    BY <1>7 DEF Tick, Brief
  <2>2. \A j \in jobs : j.pc = "context" => now' <= j.at + 1
    BY <1>0, <2>1 DEF SlotInv
  <2> QED
    BY <2>1, <2>2 DEF SlotInv
<1>8. CASE Restart
  BY <1>8 DEF Restart, SlotInv
<1>9. CASE BarTask \/ Signal \/ ApiAnswers \/ TimeOut \/ CheckFault \/ UNCHANGED vars
  BY <1>1, <1>9 DEF BarTask, ReadGate, BuildPretradeContext, PretradeAnswered, Signal,
                    ApiAnswers, TimeOut, CheckFault, vars
<1> QED
  BY <1>2, <1>3, <1>4, <1>5, <1>6, <1>7, <1>8, <1>9 DEF Next, RegimeJob

\* What a verdict is linked to stays, and a new verdict has a row of its own.
LEMMA LinkedStep ==
    ASSUME Types, JobInv, Numbered, VerdictLinked, [Next]_vars
    PROVE  VerdictLinked'
<1>1. CallsGrow /\ (verdicts' = verdicts \/ \E j \in jobs : PersistVerdict(j))
  BY Tables
<1>2. CASE verdicts' = verdicts
  BY <1>1, <1>2 DEF VerdictLinked, CallsGrow
<1>3. ASSUME NEW j \in jobs, PersistVerdict(j)
      PROVE  VerdictLinked'
  <2>1. /\ j.pc = "verdict"
        /\ DOMAIN verdicts' = DOMAIN verdicts \cup {Len(verdicts) + 1}
        /\ \A i \in DOMAIN verdicts : verdicts'[i] = verdicts[i]
        /\ verdicts'[Len(verdicts) + 1] = Verdict(j, j.row)
        /\ calls' = calls
    BY <1>3, VerdictAdded DEF PersistVerdict
  <2>2. /\ j.row \in DOMAIN calls
        /\ calls[j.row].tier = "regime"
        /\ \A i \in DOMAIN verdicts : verdicts[i].call # j.row
    BY <2>1 DEF JobInv
  <2>3. Verdict(j, j.row).call = j.row /\ Verdict(j, j.row).label = calls[j.row].response
    BY DEF Verdict
  <2>4. \A i \in DOMAIN verdicts' :
           /\ verdicts'[i].call \in DOMAIN calls'
           /\ calls'[verdicts'[i].call].tier = "regime"
           /\ calls'[verdicts'[i].call].response = verdicts'[i].label
    BY <2>1, <2>2, <2>3 DEF VerdictLinked
  <2>5. \A i, k \in DOMAIN verdicts' : k # i => verdicts'[k].call # verdicts'[i].call
    BY <2>1, <2>2, <2>3 DEF VerdictLinked
  <2> QED
    BY <2>4, <2>5 DEF VerdictLinked
<1> QED
  BY <1>1, <1>2, <1>3

\* A new verdict was asked for after every other.
LEMMA OrderStep ==
    ASSUME Types, JobInv, Numbered, SlotInv, VerdictsInOrder, [Next]_vars
    PROVE  VerdictsInOrder'
<1>1. verdicts' = verdicts \/ \E j \in jobs : PersistVerdict(j)
  BY Tables
<1>2. CASE verdicts' = verdicts
  BY <1>2 DEF VerdictsInOrder
<1>3. ASSUME NEW j \in jobs, PersistVerdict(j)
      PROVE  VerdictsInOrder'
  <2>1. /\ j.pc = "verdict" /\ Len(verdicts) \in Nat /\ DOMAIN verdicts = 1..Len(verdicts)
        /\ DOMAIN verdicts' = DOMAIN verdicts \cup {Len(verdicts) + 1}
        /\ \A i \in DOMAIN verdicts : verdicts'[i] = verdicts[i]
        /\ verdicts'[Len(verdicts) + 1] = Verdict(j, j.row)
    BY <1>3, VerdictAdded
  <2>2. j \in JobType /\ now \in Nat /\ \A i \in DOMAIN verdicts : verdicts[i] \in VerdictType
    BY DEF Types
  <2>3. \A i \in DOMAIN verdicts : /\ verdicts[i].asked < j.asked /\ verdicts[i].ts <= now
                                   /\ verdicts[i].asked \in Nat
    <3>1. j.asked \in j.at..(j.at + 1) /\ \A i \in DOMAIN verdicts : verdicts[i].asked < j.at
      BY <2>1 DEF SlotInv
    <3>2. \A i \in DOMAIN verdicts : verdicts[i].asked \in Nat /\ verdicts[i].ts \in 0..now
      BY <2>2 DEF VerdictType
    <3>3. j.at \in Nat
      BY <2>2 DEF JobType
    <3> QED
      BY <2>2, <3>1, <3>2, <3>3
  <2>4. Verdict(j, j.row).asked = j.asked /\ Verdict(j, j.row).ts = now
    BY DEF Verdict
  <2> QED
    BY <2>1, <2>3, <2>4 DEF VerdictsInOrder
<1> QED
  BY <1>1, <1>2, <1>3

-----------------------------------------------------------------------------
\* The signal that is checked

\* What the steps do to the check: the gate is read, the answer taken, or the
\* fields the properties speak of stay.
LEMMA CheckSteps ==
    ASSUME Types, Numbered, [Next]_vars
    PROVE  \/ check' = NoCheck
           \/ Signal \/ ReadGate \/ BuildPretradeContext \/ PretradeAnswered \/ CheckFault
           \/ check' = check
<1>1. CASE Restart
  BY <1>1 DEF Restart
<1>2. CASE Fire \/ RegimeJob \/ Tick \/ ApiAnswers \/ TimeOut \/ (\E j \in jobs : RegimeFault(j))
           \/ UNCHANGED vars
  BY <1>2 DEF Fire, RegimeJob, Tick, ApiAnswers, TimeOut, RegimeFault, BuildRegimeContext,
              RegimeAnswered, PersistVerdict, vars
<1> QED
  BY <1>1, <1>2 DEF Next, BarTask

\* Each step adds at most one to a count, below its bound.
Adds(n, m, bound) == m = n \/ (m = n + 1 /\ n < bound)

LEMMA CountsMove ==
    ASSUME [Next]_vars
    PROVE  /\ Adds(now, now', MaxNow) /\ Adds(signals, signals', MaxSignals)
           /\ \/ UNCHANGED <<faults, restarts>>
              \/ /\ faults + restarts < MaxFaults
                 /\ \/ faults' = faults + 1 /\ restarts' = restarts
                    \/ faults' = faults /\ restarts' = restarts + 1
<1> USE DEF Adds
<1>1. ASSUME NEW j \in jobs, BuildRegimeContext(j) \/ RegimeAnswered(j) \/ PersistVerdict(j)
      PROVE  UNCHANGED <<now, signals, faults, restarts>>
  BY <1>1 DEF BuildRegimeContext, RegimeAnswered, PersistVerdict
<1>2. ASSUME NEW j \in jobs, RegimeFault(j)
      PROVE  /\ UNCHANGED <<now, signals, restarts>>
             /\ faults' = faults + 1 /\ faults + restarts < MaxFaults
  BY <1>2 DEF RegimeFault, PersistCallFault
<1>3. ASSUME BarTask \/ ApiAnswers \/ TimeOut \/ Fire \/ UNCHANGED vars
      PROVE  UNCHANGED <<now, signals, faults, restarts>>
  BY <1>3 DEF BarTask, ReadGate, BuildPretradeContext, PretradeAnswered, ApiAnswers, TimeOut,
              Fire, vars
<1>4. ASSUME CheckFault
      PROVE  /\ UNCHANGED <<now, signals, restarts>>
             /\ faults' = faults + 1 /\ faults + restarts < MaxFaults
  BY <1>4 DEF CheckFault, PersistCallFault
<1>5. CASE Signal
  BY <1>5 DEF Signal
<1>6. CASE Tick
  BY <1>6 DEF Tick
<1>7. CASE Restart
  BY <1>7 DEF Restart
<1> QED
  BY <1>1, <1>2, <1>3, <1>4, <1>5, <1>6, <1>7 DEF Next, RegimeJob

LEMMA CountsStep ==
    ASSUME Types, Counts, [Next]_vars
    PROVE  Counts'
BY CountsMove, GateAssumption DEF Types, Counts, Adds

\* A signal starts undecided, with no verdict seen.
LEMMA Started ==
    ASSUME check' = NoCheck \/ Signal
    PROVE  check'.result = "none" /\ check'.seen = 0 /\ check'.pc \in {"idle", "gate"}
<1>1. CASE check' = NoCheck
  BY <1>1 DEF NoCheck
<1>2. CASE Signal
  <2>1. PICK close : check' = [NoCheck EXCEPT !.pc = "gate", !.close = close, !.since = now]
    BY <1>2 DEF Signal
  <2> QED
    BY <2>1 DEF NoCheck
<1> QED
  BY <1>1, <1>2

LEMMA FailOpenStep ==
    ASSUME Types, Counts, Numbered, Undecided, VerdictLinked, FailOpen, [Next]_vars
    PROVE  FailOpen'
<1>0. /\ CallsGrow /\ faults \in Nat /\ faults' \in Nat /\ faults <= faults' /\ check \in CheckType
      /\ Age \in Nat /\ now \in Nat
  <2>1. faults \in Nat /\ faults <= faults' /\ faults' \in Nat
    BY CountsMove, GateAssumption DEF Counts, Adds
  <2> QED
    BY <2>1, Tables, GateAssumption DEF Types
<1>1. CASE check' = check
  BY <1>0, <1>1 DEF FailOpen, CallsGrow
<1>2. CASE check' = NoCheck \/ Signal
  <2>1. check'.result = "none"
    BY <1>2, Started
  <2> QED
    BY <2>1 DEF FailOpen
<1>3. CASE ReadGate
  <2> DEFINE i == LatestRegime(check.close - Age)
  <2>1. i \in 0..Len(verdicts)
    <3>1. check.close - Age \in Int
      BY <1>0 DEF CheckType
    <3> QED
      BY <3>1, GateFound
  <2>2. /\ check'.result = IF i # 0 /\ verdicts[i].label = "off" THEN "blocked" ELSE "none"
        /\ calls' = calls
    BY <1>0, <1>3 DEF ReadGate, CheckType
  <2> HIDE DEF i
  <2>3. CASE i # 0 /\ verdicts[i].label = "off"
    <3>1. i \in DOMAIN verdicts
      BY <2>1, <2>3 DEF Types
    <3> QED
      BY <2>2, <2>3, <3>1 DEF VerdictLinked, FailOpen
  <2>4. CASE ~(i # 0 /\ verdicts[i].label = "off")
    BY <2>2, <2>4 DEF FailOpen
  <2> QED
    BY <2>3, <2>4
<1>4. CASE BuildPretradeContext
  <2>1. check'.result = check.result /\ check.pc = "context" /\ calls' = calls
    BY <1>0, <1>4 DEF BuildPretradeContext, CheckType
  <2>2. check.result # "skip"
    BY <2>1 DEF Undecided
  <2> QED
    BY <1>0, <2>1, <2>2 DEF FailOpen
<1>5. CASE PretradeAnswered
  <2>1. PICK c \in Answered(check.call) :
           /\ PersistCall(c)
           /\ check' = [check EXCEPT !.pc = "idle",
                               !.result = IF c.answer \in Decisions THEN c.answer ELSE FallBack]
    BY <1>5 DEF PretradeAnswered
  <2>2. c \in flight /\ c.no = check.call /\ c.answer # "none"
    BY DEF Answered
  <2>3. begun' = begun /\ now' = now
    BY <1>5 DEF PretradeAnswered
  <2>4. /\ Len(calls) + 1 \in DOMAIN calls' /\ calls'[Len(calls) + 1] = CallRow(c)
        /\ CallRow(c).no = check.call
    <3>1. calls \in Seq(CallRowType) /\ calls' = Append(calls, CallRow(c))
          /\ CallRow(c).no = c.no /\ CallRow(c) \in CallRowType
      BY <2>1, <2>2, <2>3, CallEnds DEF Types
    <3> QED
      BY <2>2, <3>1, Appended
  <2>5. /\ check'.call = check.call
        /\ check'.result = IF c.answer \in Decisions THEN c.answer ELSE FallBack
    BY <1>0, <2>1 DEF CheckType
  <2>6. check'.result = "skip" => CallRow(c).response = "skip"
    BY <2>5 DEF CallRow, FallBack, Failures, Decisions
  <2>7. check'.result \in Decisions
    BY <2>5 DEF FallBack, Decisions
  <2> QED
    BY <2>4, <2>5, <2>6, <2>7 DEF FailOpen, Decisions
<1>6. CASE CheckFault
  <2>1. check'.result = "raised" /\ faults' = faults + 1
    BY <1>0, <1>6 DEF CheckFault, PersistCallFault, CheckType
  <2> QED
    BY <1>0, <2>1 DEF FailOpen
<1> QED
  BY <1>1, <1>2, <1>3, <1>4, <1>5, <1>6, CheckSteps

LEMMA UndecidedStep ==
    ASSUME Types, Numbered, Undecided, [Next]_vars
    PROVE  Undecided'
<1>0. check \in CheckType
  BY DEF Types
<1>1. CASE check' = check
  BY <1>1 DEF Undecided
<1>2. CASE check' = NoCheck \/ Signal
  BY <1>2, Started DEF Undecided
<1>3. CASE ReadGate
  <2>1. \E b \in BOOLEAN : /\ check'.pc = IF b THEN "idle" ELSE "context"
                           /\ check'.result = IF b THEN "blocked" ELSE "none"
    BY <1>0, <1>3 DEF ReadGate, CheckType
  <2> QED
    BY <2>1 DEF Undecided
<1>4. CASE BuildPretradeContext
  <2>1. check'.result = check.result /\ check.pc = "context"
    BY <1>0, <1>4 DEF BuildPretradeContext, CheckType
  <2> QED
    BY <2>1 DEF Undecided
<1>5. CASE PretradeAnswered \/ CheckFault
  <2>1. check'.pc \in {"idle", "dead"}
    BY <1>0, <1>5 DEF PretradeAnswered, CheckFault, CheckType
  <2> QED
    BY <2>1 DEF Undecided
<1> QED
  BY <1>1, <1>2, <1>3, <1>4, <1>5, CheckSteps

\* The gate stays what it was when it was read.
LEMMA LatestStep ==
    ASSUME Types, JobInv, Numbered, VerdictsInOrder, GateIsLatest, [Next]_vars
    PROVE  GateIsLatest'
<1>0. /\ check \in CheckType /\ Age \in Nat /\ now \in Nat
      /\ verdicts \in Seq(VerdictType) /\ Len(verdicts) \in Nat
      /\ DOMAIN verdicts = 1..Len(verdicts)
      /\ \A i \in DOMAIN verdicts : verdicts[i].asked \in Nat
  <2>1. \A i \in DOMAIN verdicts : verdicts[i] \in VerdictType
    BY DEF Types
  <2>2. \A i \in DOMAIN verdicts : verdicts[i].asked \in Nat
    BY <2>1 DEF VerdictType
  <2> QED
    BY <2>2, GateAssumption DEF Types
<1>1. ASSUME check'.close = check.close, check'.gate = check.gate, check'.seen = check.seen
      PROVE  GateIsLatest'
  <2>1. \A i \in DOMAIN verdicts : verdicts'[i] = verdicts[i]
    BY Tables, VerdictAdded
  <2>2. check.seen \in 0..Len(verdicts) /\ check.gate \in 0..Len(verdicts)
    BY <1>0 DEF CheckType
  <2> QED
    BY <1>0, <1>1, <2>1, <2>2 DEF GateIsLatest
<1>2. CASE check' = NoCheck \/ Signal
  <2>1. check'.seen = 0
    BY <1>2, Started
  <2> QED
    BY <2>1 DEF GateIsLatest
<1>3. CASE ReadGate
  <2> DEFINE g == LatestRegime(check.close - Age)
  <2>1. check'.gate = g /\ check'.seen = Len(verdicts) /\ check'.close = check.close
        /\ verdicts' = verdicts
    BY <1>0, <1>3 DEF ReadGate, CheckType
  <2>2. check.close - Age \in Int
    BY <1>0 DEF CheckType
  <2>3. /\ g \in 0..Len(verdicts)
        /\ \A i \in DOMAIN verdicts : verdicts[i].ts >= check.close - Age => g # 0 /\ i <= g
    BY <2>2, GateFound
  <2> HIDE DEF g
  <2>4. ASSUME NEW i \in DOMAIN verdicts, verdicts[i].ts >= check.close - Age
        PROVE  g # 0 /\ verdicts[i].asked <= verdicts[g].asked
    <3>1. g \in DOMAIN verdicts /\ i <= g
      BY <1>0, <2>3, <2>4
    <3>2. i < g => verdicts[i].asked < verdicts[g].asked
      BY <3>1 DEF VerdictsInOrder
    <3> QED
      BY <1>0, <3>1, <3>2
  <2> QED
    BY <1>0, <2>1, <2>4 DEF GateIsLatest
<1>4. CASE BuildPretradeContext \/ PretradeAnswered \/ CheckFault \/ check' = check
  BY <1>0, <1>1, <1>4 DEF BuildPretradeContext, PretradeAnswered, CheckFault, CheckType
<1> QED
  BY <1>2, <1>3, <1>4, CheckSteps

-----------------------------------------------------------------------------
\* How old the last verdict can be

LEMMA RecentStep ==
    ASSUME Types, JobInv, Numbered, SlotInv, Recent, [Next]_vars
    PROVE  Recent'
<1>0. /\ now \in Nat /\ fired \in 0..now /\ trouble \in BOOLEAN
      /\ verdicts \in Seq(VerdictType) /\ Len(verdicts) \in Nat
      /\ DOMAIN verdicts = 1..Len(verdicts)
      /\ \A i \in DOMAIN verdicts : verdicts[i].ts \in 0..now
      /\ SlotEvery \in Nat /\ SlotEvery > 1 /\ ActiveFrom \in Nat /\ ActiveUntil \in Nat
  <2>1. \A i \in DOMAIN verdicts : verdicts[i] \in VerdictType
    BY DEF Types
  <2>2. \A i \in DOMAIN verdicts : verdicts[i].ts \in 0..now
    BY <2>1 DEF VerdictType
  <2> QED
    BY <2>2, GateAssumption DEF Types
<1>1. check'.close <= ActiveUntil
  <2>1. CASE check' = NoCheck
    BY <1>0, <2>1 DEF NoCheck
  <2>2. CASE Signal
    <3>1. PICK close \in (ActiveFrom..ActiveUntil) \cap (0..now) :
             check' = [NoCheck EXCEPT !.pc = "gate", !.close = close, !.since = now]
      BY <2>2 DEF Signal
    <3>2. check'.close = close
      BY <3>1 DEF NoCheck
    <3> QED
      BY <1>0, <3>1, <3>2
  <2>3. CASE check' = check \/ ReadGate \/ BuildPretradeContext \/ PretradeAnswered \/ CheckFault
    <3>1. check'.close = check.close
      BY <2>3 DEF ReadGate, BuildPretradeContext, PretradeAnswered, CheckFault, Types, CheckType
    <3> QED
      BY <3>1 DEF Recent
  <2> QED
    BY <2>1, <2>2, <2>3, CheckSteps
<1>2. CASE UNCHANGED <<now, fired, verdicts, trouble>> /\ (jobs # {} => jobs' # {})
  BY <1>1, <1>2 DEF Recent
<1>3. CASE trouble' /\ UNCHANGED <<now, fired, verdicts>>
  BY <1>1, <1>3 DEF Recent
<1>4. CASE Fire
  <2>1. now % SlotEvery = 0 /\ fired < now /\ fired' = now /\ now' = now /\ verdicts' = verdicts
    BY <1>4 DEF Fire, AtSlot
  <2>2. now <= fired + SlotEvery
    BY DEF Recent
  <2>3. ASSUME verdicts # <<>>, ~trouble'
        PROVE  LET ts == verdicts[Len(verdicts)].ts
               IN (jobs' # {} /\ ts + SlotEvery >= now) \/ ts + SlotEvery > ActiveUntil
    <3>1. jobs = {} /\ ~trouble
      BY <1>0, <1>4, <2>3, OneInstance DEF Fire, JobInv
    <3>2. Len(verdicts) \in DOMAIN verdicts
      BY <1>0, <2>3
    <3>3. PICK ts \in 0..now : ts = verdicts[Len(verdicts)].ts
      BY <1>0, <3>2
    <3>4. ts >= fired \/ ts + SlotEvery > ActiveUntil
      BY <2>3, <3>1, <3>3 DEF Recent
    <3>5. ActiveFrom <= fired
      BY <2>3 DEF Recent
    <3>6. now \in ActiveFrom..ActiveUntil => jobs' # {}
      BY <1>0, <1>4, <3>1, OneInstance DEF Fire, JobInv
    <3>7. now \in ActiveFrom..ActiveUntil \/ now > ActiveUntil
      BY <1>0, <2>1, <3>5
    <3> QED
      BY <1>0, <2>1, <2>2, <3>3, <3>4, <3>6, <3>7
  <2>4. now' <= fired' + SlotEvery /\ (verdicts # <<>> => ActiveFrom <= fired')
    BY <1>0, <2>1 DEF Recent
  <2> QED
    BY <1>1, <2>1, <2>3, <2>4 DEF Recent
<1>5. CASE Tick
  <2>1. now' = now + 1 /\ UNCHANGED <<fired, verdicts, trouble, jobs>> /\ ~AtSlot
    BY <1>5 DEF Tick
  <2>2. now # fired + SlotEvery
    <3>1. (fired + SlotEvery) % SlotEvery = 0
      <4>1. fired \in Nat /\ fired % SlotEvery = 0
        BY <1>0 DEF SlotInv
      <4> QED
        BY <4>1, NextSlot
    <3> QED
      BY <1>0, <2>1, <3>1 DEF AtSlot
  <2>3. now' <= fired' + SlotEvery
    BY <1>0, <2>1, <2>2 DEF Recent
  <2> QED
    BY <1>1, <2>1, <2>3 DEF Recent
<1>6. ASSUME NEW j \in jobs, PersistVerdict(j)
      PROVE  Recent'
  <2>1. UNCHANGED <<now, fired>>
    BY <1>6 DEF PersistVerdict
  <2>2. verdicts'[Len(verdicts')].ts = now
    <3>1. verdicts'[Len(verdicts')] = Verdict(j, j.row)
      BY <1>6, VerdictAdded
    <3> QED
      BY <3>1 DEF Verdict
  <2>3. ActiveFrom <= fired
    <3>1. j \in JobType /\ j.at <= fired /\ j.at \in ActiveFrom..ActiveUntil
      BY DEF SlotInv, Types
    <3> QED
      BY <1>0, <3>1
  <2> QED
    BY <1>0, <1>1, <2>1, <2>2, <2>3 DEF Recent
<1>7. ASSUME NEW j \in jobs, BuildRegimeContext(j) \/ RegimeAnswered(j) \/ RegimeFault(j)
      PROVE  Recent'
  <2>1. UNCHANGED <<now, fired, verdicts>>
    BY <1>7 DEF BuildRegimeContext, RegimeAnswered, RegimeFault
  <2>2. trouble' \/ (trouble' = trouble /\ jobs' # {})
    BY <1>7 DEF BuildRegimeContext, RegimeAnswered, RegimeFault, Moved
  <2> QED
    BY <1>2, <1>3, <2>1, <2>2
<1>8. CASE Restart
  <2>1. UNCHANGED <<now, fired, verdicts>> /\ jobs' = {} /\ trouble' = (trouble \/ jobs # {})
    BY <1>8 DEF Restart
  <2> QED
    BY <1>0, <1>2, <1>3, <2>1
<1>9. CASE BarTask \/ Signal \/ ApiAnswers \/ TimeOut \/ CheckFault \/ UNCHANGED vars
  BY <1>2, <1>9 DEF BarTask, ReadGate, BuildPretradeContext, PretradeAnswered, Signal,
                    ApiAnswers, TimeOut, CheckFault, vars
<1> QED
  BY <1>4, <1>5, <1>6, <1>7, <1>8, <1>9 DEF Next, RegimeJob

\* A gate that is read while all slots brought a verdict finds one.
LEMMA CoveredStep ==
    ASSUME Age >= 2 * SlotEvery,
           Types, Numbered, Recent, GateCovered, [Next]_vars
    PROVE  GateCovered'
<1>0. /\ check \in CheckType /\ Age \in Nat /\ SlotEvery \in Nat /\ now \in Nat
      /\ ActiveUntil \in Nat /\ fired \in 0..now
      /\ Len(verdicts) \in Nat /\ DOMAIN verdicts = 1..Len(verdicts)
      /\ \A i \in DOMAIN verdicts : verdicts[i].ts \in 0..now
  <2>1. \A i \in DOMAIN verdicts : verdicts[i] \in VerdictType
    BY DEF Types
  <2>2. \A i \in DOMAIN verdicts : verdicts[i].ts \in 0..now
    BY <2>1 DEF VerdictType
  <2> QED
    BY <2>2, GateAssumption DEF Types
<1>1. trouble => trouble'
  BY DEF Next, Fire, RegimeJob, BarTask, Signal, Tick, ApiAnswers, TimeOut, CheckFault,
        Restart, RegimeFault, BuildRegimeContext, RegimeAnswered, PersistVerdict, ReadGate,
        BuildPretradeContext, PretradeAnswered, vars
<1>2. CASE check' = NoCheck \/ Signal
  BY <1>2, Started DEF GateCovered
<1>3. CASE ReadGate
  <2> DEFINE g == LatestRegime(check.close - Age)
  <2>1. check'.gate = g /\ check'.seen = Len(verdicts) /\ trouble' = trouble
    BY <1>0, <1>3 DEF ReadGate, CheckType
  <2>2. check.close \in 0..now /\ check.close <= ActiveUntil
    BY <1>0 DEF CheckType, Recent
  <2>3. \A i \in DOMAIN verdicts : verdicts[i].ts >= check.close - Age => g # 0
    <3>1. check.close - Age \in Int
      BY <1>0, <2>2
    <3> HIDE DEF g
    <3> QED
      BY <3>1, GateFound DEF g
  <2> HIDE DEF g
  <2>4. ASSUME Len(verdicts) > 0, ~trouble
        PROVE  g # 0
    <3>1. PICK ts \in 0..now : ts = verdicts[Len(verdicts)].ts
      BY <1>0, <2>4
    <3>2. \/ ts >= fired \/ ts + SlotEvery >= fired \/ ts + SlotEvery > ActiveUntil
      BY <2>4, <3>1 DEF Recent
    <3>3. now <= fired + SlotEvery
      BY DEF Recent
    <3>4. ts >= check.close - Age
      BY <1>0, <2>2, <3>2, <3>3
    <3> QED
      BY <1>0, <2>3, <2>4, <3>1, <3>4
  <2> QED
    BY <1>0, <2>1, <2>4 DEF GateCovered
<1>4. CASE BuildPretradeContext \/ PretradeAnswered \/ CheckFault \/ check' = check
  <2>1. check'.gate = check.gate /\ check'.seen = check.seen
    BY <1>0, <1>4 DEF BuildPretradeContext, PretradeAnswered, CheckFault, CheckType
  <2> QED
    BY <1>1, <2>1 DEF GateCovered
<1> QED
  BY <1>2, <1>3, <1>4, CheckSteps

-----------------------------------------------------------------------------
\* The theorems

LEMMA GateInit ==
    ASSUME Init
    PROVE  GateInv /\ Recent /\ GateCovered
<1> USE GateAssumption DEF Init
<1>1. Types
  <2>1. check \in CheckType
    BY DEF CheckType, NoCheck
  <2>2. calls \in Seq(CallRowType) /\ verdicts \in Seq(VerdictType)
    OBVIOUS
  <2>3. now \in Nat /\ fired \in 0..now /\ begun \in Nat /\ jobs \subseteq JobType
        /\ lost \subseteq 1..begun
    OBVIOUS
  <2>5. trouble \in BOOLEAN
    BY Zenon
  <2>4. flight \subseteq FlightType
        /\ \A c \in flight : c.answer \in {"none"} \cup Answers(c.tier) \cup Failures
    OBVIOUS
  <2> HIDE DEF Init
  <2> QED
    BY <2>1, <2>2, <2>3, <2>4, <2>5 DEF Types
<1>2. Counts /\ JobInv /\ Undecided /\ VerdictLinked /\ VerdictsInOrder
  BY DEF Counts, JobInv, Undecided, VerdictLinked, VerdictsInOrder, NoCheck
<1>3. Numbered
  BY FS_EmptySet DEF Numbered
<1>4. SlotInv
  <2>1. 0 % SlotEvery = 0
    OBVIOUS
  <2> QED
    BY <2>1 DEF SlotInv
<1>5. FailOpen /\ GateIsLatest /\ GateCovered
  BY DEF FailOpen, GateIsLatest, GateCovered, NoCheck
<1>6. Recent
  BY DEF Recent, NoCheck
<1> QED
  BY <1>1, <1>2, <1>3, <1>4, <1>5, <1>6 DEF GateInv

\* The job is alone, its call is its own, each number has one row, slots are
\* apart, and with that all the gate promises, but for its coverage: the
\* inductive invariant of the scheduler, the client and the two checks.
THEOREM GateInvariant == Spec => []GateInv
<1>1. Init => GateInv
  BY GateInit
<1>2. GateInv /\ [Next]_vars => GateInv'
  <2> SUFFICES ASSUME GateInv, [Next]_vars PROVE GateInv'
    OBVIOUS
  <2>1. Types' /\ JobInv'
    BY TypesStep, JobStep DEF GateInv
  <2>2. Counts'
    BY CountsStep DEF GateInv
  <2>3. Numbered'
    BY NumberedStep DEF GateInv, Counts
  <2>4. SlotInv' /\ VerdictLinked' /\ VerdictsInOrder'
    BY SlotStep, LinkedStep, OrderStep DEF GateInv
  <2>5. Undecided' /\ FailOpen' /\ GateIsLatest'
    BY UndecidedStep, FailOpenStep, LatestStep DEF GateInv
  <2> QED
    BY <2>1, <2>2, <2>3, <2>4, <2>5 DEF GateInv
<1> QED
  BY <1>1, <1>2, PTL DEF Spec

\* The tables' types, and one instance of the regime job (max_instances).
THEOREM GateTypeCorrect == Spec => []TypeOK
<1>1. GateInv => TypeOK
  <2> SUFFICES ASSUME GateInv PROVE TypeOK
    OBVIOUS
  <2>1. Cardinality(jobs) <= 1
    BY OneInstance DEF GateInv, JobInv
  <2>2. Types /\ Counts
    BY DEF GateInv
  <2>3. \A c \in flight : /\ c.no \in 1..begun /\ c.tier \in {"regime", "pretrade"}
                          /\ c.answer \in {"none"} \cup Answers(c.tier) \cup Failures
    BY <2>2 DEF Types, FlightType
  <2> QED
    BY <2>1, <2>2, <2>3, GateAssumption DEF Types, Counts, TypeOK, JobType, CheckType
<1> QED
  BY <1>1, GateInvariant, PTL

\* Every verdict is linked to the row of its own regime call, whatever the
\* pre-trade check logs through the same client meanwhile.
THEOREM VerdictLinkedCorrect == Spec => []VerdictLinked
BY GateInvariant, PTL DEF GateInv

\* The newest verdict judges the latest data.
THEOREM VerdictsInOrderCorrect == Spec => []VerdictsInOrder
BY GateInvariant, PTL DEF GateInv

\* Every call made has one row, is under way, or is lost with the journal's
\* failure or a restart.
THEOREM CallsLoggedCorrect == Spec => []CallsLogged
<1>1. GateInv => CallsLogged
  BY LoggedOnce DEF GateInv
<1> QED
  BY <1>1, GateInvariant, PTL

\* A signal is skipped or blocked only on an answer the journal has.
THEOREM FailOpenCorrect == Spec => []FailOpen
BY GateInvariant, PTL DEF GateInv

\* No verdict as fresh as the gate's is about later data.
THEOREM GateIsLatestCorrect == Spec => []GateIsLatest
BY GateInvariant, PTL DEF GateInv

\* With verdicts that live two slots (30 minutes, every 15) the gate is never
\* without one after the first, unless a slot brought none.
THEOREM GateCoveredCorrect ==
    ASSUME Age >= 2 * SlotEvery
    PROVE  Spec => []GateCovered
<1>1. Init => Recent /\ GateCovered
  BY GateInit
<1>2. GateInv /\ Recent /\ GateCovered /\ [Next]_vars => (Recent /\ GateCovered)'
  BY RecentStep, CoveredStep DEF GateInv
<1> QED
  BY <1>1, <1>2, GateInvariant, PTL DEF Spec
=============================================================================
