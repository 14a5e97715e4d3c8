----------------------------- MODULE SignalChain -----------------------------
(***************************************************************************)
(* From ticks to signals, as app/orchestrator.py wires it: the tick         *)
(* consumer feeds the aggregator and puts each closed bar on a bounded      *)
(* queue, waiting while that is full; the bar consumer takes the bars, one  *)
(* at a time, through the strategy.  A consumer whose await raises ends for *)
(* good; the tick consumer then flushes its bars in progress to the queue.  *)
(* A restart, clean or not, drops both: when stop() cancels the consumers   *)
(* nobody takes what the tick consumer flushes.                             *)
(***************************************************************************)
EXTENDS BarAggregator, OrbStrategy, SequencesExt

CONSTANTS
    Prices,
    Lot,             \* shares of a trade
    Stale,           \* shares a tick's total volume may lag behind the day's
    Skew,            \* instants a tick may come late, by a clock set back
    BarQueueMax,     \* BAR_QUEUE_MAX
    MaxInstant,      \* bound: last instant
    MaxTraded,       \* bound: shares a symbol trades in a day
    MaxDeaths,       \* bound: consumers that may die in a process lifetime
    MaxRestarts      \* bound: restarts

ASSUME ChainAssumption ==
    /\ Prices \subseteq Nat
    /\ Lot \in Nat /\ Stale \in Nat
    /\ Skew \in Nat
    /\ MaxTraded \in Nat
    /\ BarQueueMax \in Nat \ {0}
    /\ MaxInstant \in Nat
    /\ MaxDeaths \in Nat
    /\ MaxRestarts \in Nat

VARIABLES
    clock,      \* latest instant of a tick taken off the tick queue
    traded,     \* per symbol, the exchange's total volume of the day
    barQ,       \* bar_q
    waiting,    \* the bar whose put the tick consumer awaits, NoBar for none
    tasks,      \* the consumers that still run
    raised,     \* signals handed to on_signal, over all process lifetimes
    blind,      \* days whose opening range was over when the process started
    restarts

chainVars == <<agg, orb, clock, traded, barQ, waiting, tasks, raised, blind, restarts>>

Today == Day(Bucket(clock))

\* volume_trade_for_the_day starts again each day.
TradedBy(s, ts, n) == (IF Day(Bucket(ts)) <= Today THEN traded[s] ELSE 0) + n

\* The tick consumer takes a tick.
TakeTick(s, ltp, ts, n) ==
    /\ "tick-consumer" \in tasks /\ waiting = NoBar
    /\ clock - Skew <= ts
    /\ TradedBy(s, ts, n) \in 0..MaxTraded
    /\ LET tick == [symbol |-> s, ltp |-> ltp, ts |-> ts, volume |-> TradedBy(s, ts, n)]
       IN /\ Ingest(tick)
          /\ IF ~Completes(tick) THEN UNCHANGED <<barQ, waiting>>
             ELSE IF Len(barQ) < BarQueueMax
             THEN barQ' = Append(barQ, Completed(tick)) /\ UNCHANGED waiting
             ELSE waiting' = Completed(tick) /\ UNCHANGED barQ
    /\ traded' = [x \in Symbols |-> IF x = s THEN Max({TradedBy(s, ts, n), TradedBy(s, ts, 0)})
                                    ELSE TradedBy(x, ts, 0)]
    /\ clock' = Max({clock, ts})
    /\ UNCHANGED <<orb, tasks, raised, blind, restarts>>

PutBar ==
    /\ waiting # NoBar
    /\ Len(barQ) < BarQueueMax
    /\ barQ' = Append(barQ, waiting)
    /\ waiting' = NoBar
    /\ UNCHANGED <<agg, orb, clock, traded, tasks, raised, blind, restarts>>

TakeBar ==
    /\ "bar-consumer" \in tasks /\ barQ # <<>>
    /\ OnBar(Head(barQ))
    /\ raised' = IF Signals(Head(barQ)) THEN Append(raised, Signal(Head(barQ))) ELSE raised
    /\ barQ' = Tail(barQ)
    /\ UNCHANGED <<agg, clock, traded, waiting, tasks, blind, restarts>>

Consumers == {"tick-consumer", "bar-consumer"}
MayDie(task) == task \in tasks /\ Cardinality(Consumers \ tasks) < MaxDeaths

\* on_tick or write_ticks_batch raises; the `finally` clause puts what there
\* is room for, unless its own flush raises too.
TickConsumerDies ==
    /\ MayDie("tick-consumer") /\ waiting = NoBar
    /\ tasks' = tasks \ {"tick-consumer"}
    /\ \/ /\ \E bars \in SetToSeqs(Flushed) :
               barQ' = SubSeq(barQ \o bars, 1, Min({BarQueueMax, Len(barQ \o bars)}))
          /\ agg' = Empty
       \/ UNCHANGED <<barQ, agg>>
    /\ UNCHANGED <<orb, clock, traded, waiting, raised, blind, restarts>>

\* write_bar raises: the bar is gone and with it the bar consumer.
BarConsumerDies ==
    /\ MayDie("bar-consumer") /\ barQ # <<>>
    /\ barQ' = Tail(barQ)
    /\ tasks' = tasks \ {"bar-consumer"}
    /\ UNCHANGED <<agg, orb, clock, traded, waiting, raised, blind, restarts>>

Restart ==
    /\ restarts < MaxRestarts
    /\ restarts' = restarts + 1
    /\ agg' = Empty
    /\ orb' = Idle(Symbols)
    /\ barQ' = <<>>
    /\ waiting' = NoBar
    /\ tasks' = Consumers
    /\ blind' = IF PostRange(Bucket(clock)) THEN blind \cup {Today} ELSE blind
    /\ UNCHANGED <<clock, traded, raised>>

Init ==
    /\ agg = Empty
    /\ orb = Idle(Symbols)
    /\ clock = 0
    /\ traded = [s \in Symbols |-> 0]
    /\ barQ = <<>>
    /\ waiting = NoBar
    /\ tasks = Consumers
    /\ raised = <<>>
    /\ blind = {}
    /\ restarts = 0

Next ==
    \/ \E s \in Symbols, ltp \in Prices, ts \in 0..MaxInstant, n \in {-Stale, 0, Lot} :
          TakeTick(s, ltp, ts, n)
    \/ PutBar \/ TakeBar \/ TickConsumerDies \/ BarConsumerDies \/ Restart

Spec == Init /\ [][Next]_chainVars

-----------------------------------------------------------------------------
\* Properties

\* Bars on their way to the strategy, oldest first.
InFlight == barQ \o (IF waiting = NoBar THEN <<>> ELSE <<waiting>>)

\* Each symbol's bars reach the strategy in the order of their minutes, none
\* twice, also when the tick consumer had to wait for the queue.
BarsInOrder ==
    \A i, j \in DOMAIN InFlight :
       i < j /\ InFlight[i].symbol = InFlight[j].symbol
          => InFlight[i].minute < InFlight[j].minute

\* A range that has been locked stays as it is for the day: no bar of the
\* opening range comes after one beyond it (on_bar does not look).
RangeFrozen ==
    [][ \A s \in Symbols : orb[s].locked /\ orb'[s].day = orb[s].day =>
           /\ orb'[s].locked
           /\ orb'[s].high = orb[s].high /\ orb'[s].low = orb[s].low ]_chainVars

\* No traded share counts in two bars of a day.
VolumesBounded ==
    \A s \in Symbols :
       MapThenSumSet(LAMBDA i : InFlight[i].volume,
                     {i \in DOMAIN InFlight : /\ InFlight[i].symbol = s
                                             /\ Day(InFlight[i].minute) = Today})
       + (IF agg[s] # NoBar /\ Day(agg[s].minute) = Today THEN agg[s].last - agg[s].first ELSE 0)
       <= traded[s]

\* Every signal has its stop on one side of the entry and its target on the
\* other, so that size_position meets no zero stop distance.
StopsAndTargets ==
    \A i \in DOMAIN raised :
       LET sig == raised[i]
       IN IF sig.direction = "long" THEN sig.stop < sig.entry /\ sig.entry < sig.target
                                    ELSE sig.target < sig.entry /\ sig.entry < sig.stop

\* With a clock that is never set back, the chain is a source of signals the
\* engine can count on.
Source == INSTANCE SignalSource WITH
    MaxMinute <- Bucket(MaxInstant),
    now <- Bucket(clock),
    signalled <- [i \in DOMAIN raised |-> <<raised[i].symbol, Day(raised[i].minute)>>]

SourceSpec == Source!Spec
=============================================================================
