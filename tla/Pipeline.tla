------------------------------ MODULE Pipeline ------------------------------
(***************************************************************************)
(* The orchestrator around the engine and the strategy (orchestrator.py,     *)
(* data/store.py): the feed's thread, the two consumers with their queues    *)
(* and the batch of ticks on its way to the journal, start() and stop().     *)
(*                                                                           *)
(* The consumers are coroutines: an action runs from one await to the next.  *)
(* engine.on_tick and engine.on_signal are awaits that return or raise; what *)
(* they do is ExecutionEngine's subject.  One symbol, a fixed number of      *)
(* ticks to the minute.  stop() is called at any time.                       *)
(***************************************************************************)
EXTENDS AngelFeed, FiniteSets

CONSTANTS BatchSize,    \* TICK_BATCH_SIZE
          BarQueueMax,  \* BAR_QUEUE_MAX
          TicksPerBar,  \* ticks of a minute
          MaxFaults     \* bound on awaits that raise

ASSUME PipelineAssumption ==
    /\ BatchSize \in Nat \ {0} /\ BarQueueMax \in Nat \ {0}
    /\ TicksPerBar \in Nat \ {0} /\ MaxFaults \in Nat

VARIABLES cpc, hand, batch,            \* _tick_consumer: place, tick, batch
          current, closedBar,          \* minute of the bar in progress, of the one it closed
          bpc, bar,                    \* _bar_consumer: place, bar
          barQ,                        \* bar_q
          opc,                         \* where start() or stop() is
          rows, bars,                  \* the ticks and bars tables
          faults,                      \* awaits that raised
          recommits                    \* ticks whose write was cut short after its commit (history)

tickTask == <<cpc, hand, batch, current, closedBar>>
barTask  == <<bpc, bar>>
vars == <<feedVars, tickTask, barTask, barQ, opc, rows, bars, faults, recommits>>

Minute(t) == ((t - 1) \div TicksPerBar) + 1

\* stop() runs without an await up to its first `await t`, and join() blocks.
LoopFree == opc \in {"starting", "running", "draining", "failed"}

\* Both tasks are cancelled at once; each meets it at its next step, by an
\* exception: wait_for as Python 3.12 has it (CancelTicks).
Cancelled == opc = "draining"

Working == LoopFree /\ ~Cancelled

-----------------------------------------------------------------------------
\* _tick_consumer

TakeTick ==
    /\ Working /\ cpc = "get" /\ tickQ # <<>>
    /\ hand' = Head(tickQ)
    /\ tickQ' = Tail(tickQ)
    /\ cpc' = "engine"
    /\ UNCHANGED <<halted, fpc, made, sws, closed, received, inbox, dropped,
                   batch, current, closedBar, barTask, barQ, opc, rows, bars, faults,
                   recommits>>

\* faulty: the loop goes on without a flush
FlushOnTimeoutNot ==
    /\ Working /\ cpc = "get" /\ tickQ = <<>> /\ batch # <<>>
    /\ UNCHANGED vars

\* One second without a tick: flush() what there is.
FlushOnTimeout ==
    /\ Working /\ cpc = "get" /\ tickQ = <<>> /\ batch # <<>>
    /\ cpc' = "flush"
    /\ UNCHANGED <<feedVars, hand, batch, current, closedBar, barTask, barQ, opc, rows,
                   bars, faults, recommits>>

ClosesBar == current # 0 /\ Minute(hand) > current

\* Where the loop goes with this batch.
Onward(b) == IF Len(b) >= BatchSize THEN "flush" ELSE "get"

\* faulty: put_nowait, a bar the queue has no room for is lost
TickDoneNoWait ==
    /\ Working /\ cpc = "engine"
    /\ batch' = Append(batch, hand)
    /\ hand' = 0
    /\ current' = Minute(hand)
    /\ barQ' = IF ClosesBar /\ Len(barQ) < BarQueueMax THEN Append(barQ, current) ELSE barQ
    /\ cpc' = Onward(batch')
    /\ UNCHANGED <<feedVars, closedBar, barTask, opc, rows, bars, faults, recommits>>

\* on_tick returned: batch, aggregate, and put the bar if one closed.
TickDone ==
    /\ Working /\ cpc = "engine"
    /\ batch' = Append(batch, hand)
    /\ hand' = 0
    /\ current' = Minute(hand)
    /\ IF ClosesBar /\ Len(barQ) = BarQueueMax
       THEN cpc' = "put" /\ closedBar' = current /\ UNCHANGED barQ
       ELSE /\ barQ' = IF ClosesBar THEN Append(barQ, current) ELSE barQ
            /\ cpc' = Onward(batch')
            /\ UNCHANGED closedBar
    /\ UNCHANGED <<feedVars, barTask, opc, rows, bars, faults, recommits>>

\* The wait in bar_q.put is over.
PutBar ==
    /\ Working /\ cpc = "put" /\ Len(barQ) < BarQueueMax
    /\ barQ' = Append(barQ, closedBar)
    /\ closedBar' = 0
    /\ cpc' = Onward(batch)
    /\ UNCHANGED <<feedVars, hand, batch, current, barTask, opc, rows, bars, faults, recommits>>

\* faulty: the batch is kept
FlushDoneKept ==
    /\ Working /\ cpc = "flush"
    /\ rows' = rows \o batch
    /\ cpc' = "get"
    /\ UNCHANGED <<feedVars, hand, batch, current, closedBar, barTask, barQ, opc, bars, faults, recommits>>

FlushDone ==
    /\ Working /\ cpc = "flush"
    /\ rows' = rows \o batch
    /\ batch' = <<>>
    /\ cpc' = "get"
    /\ UNCHANGED <<feedVars, hand, current, closedBar, barTask, barQ, opc, bars, faults,
                   recommits>>

\* The end of the finally clause: flush_all, as far as the queue has room.
FinishTicks ==
    /\ cpc' = "done"
    /\ barQ' = IF current # 0 /\ Len(barQ) < BarQueueMax THEN Append(barQ, current) ELSE barQ
    /\ current' = 0

\* The finally clause begins; flush() has nothing to await without a batch.
EnterFinally ==
    IF batch # <<>> THEN /\ cpc' = IF Cancelled THEN "lastFlush" ELSE "dyingFlush"
                         /\ UNCHANGED <<barQ, current>>
                    ELSE FinishTicks

\* A write cut short, by cancellation or an error: the rows may be committed.
\* The batch is not emptied.
CutWrite ==
    \/ UNCHANGED <<rows, recommits>>
    \/ rows' = rows \o batch /\ recommits' = recommits \cup ToSet(batch)

\* The await of the tick consumer ends by an exception: the tick the engine
\* had, or the bar that waited for room, is lost.
EndTicks ==
    /\ \/ cpc \in {"get", "engine", "put"} /\ EnterFinally /\ UNCHANGED <<rows, recommits>>
       \/ cpc = "flush" /\ CutWrite /\ EnterFinally
    /\ hand' = 0
    /\ closedBar' = 0
    /\ UNCHANGED batch

\* A consumer that was dying already is cancelled in its last write.  Up to
\* Python 3.11 a wait_for whose get has just been served returns the tick
\* instead; that consumer handles it and ends by stop_event.  Not modelled.
CancelTicks ==
    /\ Cancelled
    /\ \/ EndTicks
       \/ /\ cpc = "dyingFlush" /\ CutWrite
          /\ cpc' = "done"
          /\ UNCHANGED <<hand, batch, current, closedBar, barQ>>
    /\ UNCHANGED <<feedVars, barTask, opc, bars, faults>>

TickFault ==
    /\ Working /\ faults < MaxFaults /\ cpc \in {"engine", "flush"}
    /\ EndTicks
    /\ faults' = faults + 1
    /\ UNCHANGED <<feedVars, barTask, opc, bars>>

InLastFlush == \/ LoopFree /\ cpc = "lastFlush"
               \/ Working /\ cpc = "dyingFlush"

LastFlush ==
    /\ InLastFlush
    /\ rows' = rows \o batch
    /\ batch' = <<>>
    /\ FinishTicks
    /\ UNCHANGED <<feedVars, hand, closedBar, barTask, opc, bars, faults, recommits>>

\* The last write raises as well: the bars in progress go with it.
LastFlushFault ==
    /\ InLastFlush /\ faults < MaxFaults
    /\ CutWrite
    /\ cpc' = "done"
    /\ faults' = faults + 1
    /\ UNCHANGED <<feedVars, hand, batch, current, closedBar, barTask, barQ, opc, bars>>

-----------------------------------------------------------------------------
\* _bar_consumer

TakeBar ==
    /\ Working /\ bpc = "get" /\ barQ # <<>>
    /\ bar' = Head(barQ)
    /\ barQ' = Tail(barQ)
    /\ bpc' = "write"
    /\ UNCHANGED <<feedVars, tickTask, opc, rows, bars, faults, recommits>>

\* write_bar, then orb.on_bar; a signal makes the engine await.
WriteBar ==
    /\ Working /\ bpc = "write"
    /\ bars' = Append(bars, bar)
    /\ bpc' \in {"get", "signal"}
    /\ bar' = 0
    /\ UNCHANGED <<feedVars, tickTask, barQ, opc, rows, faults, recommits>>

SignalDone ==
    /\ Working /\ bpc = "signal"
    /\ bpc' = "get"
    /\ UNCHANGED <<feedVars, tickTask, bar, barQ, opc, rows, bars, faults, recommits>>

EndBars ==
    /\ bpc \in {"get", "write", "signal"}
    /\ \/ UNCHANGED bars
       \/ bpc = "write" /\ bars' = Append(bars, bar)
    /\ bpc' = "done"
    /\ bar' = 0

CancelBars ==
    /\ Cancelled /\ EndBars
    /\ UNCHANGED <<feedVars, tickTask, barQ, opc, rows, faults, recommits>>

BarFault ==
    /\ Working /\ faults < MaxFaults /\ bpc \in {"write", "signal"}
    /\ EndBars
    /\ faults' = faults + 1
    /\ UNCHANGED <<feedVars, tickTask, barQ, opc, rows, recommits>>

-----------------------------------------------------------------------------
\* start() and stop()

\* The feed's thread runs before the journal has been read: ticks queue up.
Started ==
    /\ opc = "starting"
    /\ opc' = "running"
    /\ cpc' = "get" /\ bpc' = "get"
    /\ UNCHANGED <<feedVars, hand, batch, current, closedBar, bar, barQ, rows, bars, faults,
                   recommits>>

\* initial_realised_pnl raises: lifespan never reaches its finally clause.
StartFault ==
    /\ opc = "starting" /\ faults < MaxFaults
    /\ opc' = "failed"
    /\ faults' = faults + 1
    /\ UNCHANGED <<feedVars, tickTask, barTask, barQ, rows, bars, recommits>>

StopCalled ==
    /\ opc = "running"
    /\ SetStop
    /\ opc' = "closing"
    /\ UNCHANGED <<tickTask, barTask, barQ, rows, bars, faults, recommits>>

\* feed.stop() closes the socket; cancel() for both tasks.
FeedStopped ==
    /\ opc = "closing"
    /\ CloseSocket
    /\ opc' = "draining"
    /\ UNCHANGED <<tickTask, barTask, barQ, rows, bars, faults, recommits>>

TasksAwaited ==
    /\ opc = "draining" /\ cpc = "done" /\ bpc = "done"
    /\ opc' = "joining"
    /\ UNCHANGED <<feedVars, tickTask, barTask, barQ, rows, bars, faults, recommits>>

\* faulty: join() without a time-out
JoinedForGood ==
    /\ opc = "joining" /\ fpc = "ended"
    /\ opc' = "stopped"
    /\ UNCHANGED <<feedVars, tickTask, barTask, barQ, rows, bars, faults, recommits>>

\* feed_thread.join(timeout=5) comes back with the thread ended or not.
Joined ==
    /\ opc = "joining"
    /\ opc' = "stopped"
    /\ UNCHANGED <<feedVars, tickTask, barTask, barQ, rows, bars, faults, recommits>>

-----------------------------------------------------------------------------
Init ==
    /\ FeedInit
    /\ cpc = "unborn" /\ hand = 0 /\ batch = <<>> /\ current = 0 /\ closedBar = 0
    /\ bpc = "unborn" /\ bar = 0 /\ barQ = <<>>
    /\ opc = "starting" /\ rows = <<>> /\ bars = <<>> /\ faults = 0 /\ recommits = {}

Feed == FeedStep /\ UNCHANGED <<tickTask, barTask, barQ, opc, rows, bars, faults, recommits>>

Received ==
    /\ LoopFree /\ Enqueue
    /\ UNCHANGED <<tickTask, barTask, barQ, opc, rows, bars, faults, recommits>>

TickTask == TakeTick \/ FlushOnTimeout \/ TickDone \/ PutBar \/ FlushDone \/ CancelTicks \/ LastFlush
BarTask  == TakeBar \/ WriteBar \/ SignalDone \/ CancelBars
Stop     == FeedStopped \/ TasksAwaited \/ Joined

Next ==
    \/ Feed \/ Received \/ TickTask \/ BarTask \/ Stop
    \/ Started \/ StartFault \/ StopCalled
    \/ TickFault \/ LastFlushFault \/ BarFault

Spec == Init /\ [][Next]_vars

\* The loop runs what is ready, and the thread its own steps; nothing makes a
\* connection succeed, ticks arrive, or an open connection end by itself.
Fairness ==
    /\ WF_vars(Received) /\ WF_vars(TickTask) /\ WF_vars(BarTask) /\ WF_vars(Stop)
    /\ WF_vars(ThreadStep /\ Feed)
    /\ WF_vars(Hangup /\ Feed)
    /\ WF_vars((Connected \/ (fpc = "connecting" /\ Disconnected)) /\ Feed)

FairSpec == Spec /\ Fairness

-----------------------------------------------------------------------------
\* Properties

Types ==
    /\ FeedTypeOK
    /\ cpc \in {"unborn", "get", "engine", "put", "flush", "lastFlush", "dyingFlush", "done"}
    /\ hand \in 0..received /\ current \in Nat
    /\ batch \in Seq(1..received) /\ rows \in Seq(1..received)
    /\ bpc \in {"unborn", "get", "write", "signal", "done"}
    /\ bar \in Nat /\ barQ \in Seq(Nat) /\ bars \in Seq(Nat)
    /\ opc \in {"starting", "running", "closing", "draining", "joining", "stopped", "failed"}
    /\ faults \in 0..MaxFaults /\ recommits \subseteq 1..received

\* The memory the process may hold: nothing but these bounds keeps it finite.
Limits ==
    /\ Len(tickQ) <= QueueMax /\ Len(barQ) <= BarQueueMax
    /\ Len(batch) <= BatchSize

\* Types, and the two queues and the batch within their sizes wherever the
\* consumers wait, die or are cancelled.
TypeOK == Types /\ Limits

OnTheWay == ToSet(inbox) \cup ToSet(tickQ) \cup ({hand} \ {0}) \cup ToSet(batch)
Journaled == ToSet(rows)
Ended == {"lastFlush", "dyingFlush", "done"}

\* Every tick received is on its way to the journal, in it, or was refused by
\* a full queue; the end of the consumer costs at most the one the engine had.
\* Ticks are written once and in order, a write cut short behind its commit
\* apart: there the finally clause writes the batch a second time.
TicksAccounted ==
    LET missing == 1..received \ (OnTheWay \cup Journaled \cup dropped)
    IN /\ Cardinality(missing) <= IF cpc \in Ended THEN 1 ELSE 0
       /\ OnTheWay \cap Journaled \subseteq recommits
       /\ \A i, j \in DOMAIN rows : i < j => rows[i] < rows[j] \/ rows[i] \in recommits

\* The journal's bars are those of its ticks: while both consumers live, each
\* minute before the one in progress that had a tick has exactly one bar, in
\* the table, in bar_q or with one of the consumers.
BarsAccounted ==
    LET minutes == {Minute(t) : t \in ToSet(batch) \cup Journaled}
        queued  == bars \o (IF bar # 0 THEN <<bar>> ELSE <<>>) \o barQ
                        \o (IF closedBar # 0 THEN <<closedBar>> ELSE <<>>)
    IN /\ IsInjective(queued)
       /\ cpc \notin Ended /\ bpc # "done" => ToSet(queued) = minutes \ {current}

\* A tick that got into tick_q reaches the journal, with the next full batch
\* or with the flush of a quiet second, as long as nobody stops or dies.
QueuedTicksWritten ==
    \A t \in 1..MaxTicks :
       t \in ToSet(tickQ) ~> t \in Journaled \/ opc # "running" \/ faults > 0

\* stop() returns, wherever it meets the consumers: in a wait for a full
\* bar_q whose reader is gone, in a write, in the engine.
StopReturns == opc = "closing" ~> opc = "stopped"

\* The feed's thread ends if stop() met it with its socket open or without
\* one; between the while test and the connection it is not met (FeedEnds).
StopReachesFeed ==
    opc = "closing" /\ fpc \in {"check", "open", "returned", "waiting"} ~> fpc = "ended"

\* "Connects, runs until `stop()` is called" (feed.py:65).
FeedEnds == halted ~> fpc = "ended"
=============================================================================
