----------------------------- MODULE AngelFeed -----------------------------
(***************************************************************************)
(* The market-data feed (data/feed.py): a thread of its own that connects,  *)
(* reads and reconnects, and hands each tick to the event loop, which puts   *)
(* it on a bounded queue.                                                    *)
(*                                                                           *)
(* Ticks are numbered as they are received.  How long the thread backs off   *)
(* is left out: a wait may end at any time.  The socket is the vendor's      *)
(* SDK: connect() blocks while the connection lasts, and closing a socket    *)
(* that has not begun to connect does not keep it from connecting.           *)
(***************************************************************************)
EXTENDS Integers, Sequences, SequencesExt

CONSTANTS MaxTicks,     \* bound on the ticks received
          MaxSockets,   \* bound on the connections tried
          QueueMax      \* TICK_QUEUE_MAX

ASSUME FeedAssumption == MaxTicks \in Nat /\ MaxSockets \in Nat /\ QueueMax \in Nat \ {0}

VARIABLES halted,    \* _stop, the event that tells the thread to end
          fpc,       \* where run_forever is
          made,      \* sockets constructed so far; the last is the thread's
          sws,       \* _sws, the socket stop() sees, 0 for none
          closed,    \* sockets close_connection was called on while connected
          received,  \* ticks received so far
          inbox,     \* calls of _enqueue the loop has yet to make
          tickQ,     \* tick_q
          dropped    \* ticks refused by the full queue

feedVars == <<halted, fpc, made, sws, closed, received, inbox, tickQ, dropped>>

-----------------------------------------------------------------------------
\* The thread

\* The test of the while loop; _connect_once begins if it fails.
CheckStop ==
    /\ fpc = "check"
    /\ \/ halted /\ fpc' = "ended" /\ UNCHANGED made
       \/ ~halted /\ made < MaxSockets /\ fpc' = "building" /\ made' = made + 1
    /\ UNCHANGED <<halted, sws, closed, received, inbox, tickQ, dropped>>

\* self._sws = sws: from here on stop() can find the socket.
PublishSocket ==
    /\ fpc = "building"
    /\ sws' = made
    /\ fpc' = "connecting"
    /\ UNCHANGED <<halted, made, closed, received, inbox, tickQ, dropped>>

Connected ==
    /\ fpc = "connecting"
    /\ fpc' = "open"
    /\ UNCHANGED <<halted, made, sws, closed, received, inbox, tickQ, dropped>>

\* connect() returns or raises: refused, lost, closed by stop().
Disconnected ==
    /\ fpc \in {"building", "connecting", "open"}
    /\ fpc' = "returned"
    /\ UNCHANGED <<halted, made, sws, closed, received, inbox, tickQ, dropped>>

\* The test behind _connect_once: end, or wait for the back-off.
AfterConnect ==
    /\ fpc = "returned"
    /\ fpc' = IF halted THEN "ended" ELSE "waiting"
    /\ UNCHANGED <<halted, made, sws, closed, received, inbox, tickQ, dropped>>

BackedOff ==
    /\ fpc = "waiting"
    /\ fpc' = "check"
    /\ UNCHANGED <<halted, made, sws, closed, received, inbox, tickQ, dropped>>

\* _on_data: a tick goes to the loop whether or not there is room for it.
\* Messages that _to_tick rejects change nothing.
OnData ==
    /\ fpc = "open"
    /\ received < MaxTicks
    /\ received' = received + 1
    /\ inbox' = Append(inbox, received')
    /\ UNCHANGED <<halted, fpc, made, sws, closed, tickQ, dropped>>

\* The connection ends for sure once its socket has been closed.
Hangup == made \in closed /\ Disconnected

ThreadStep == CheckStop \/ PublishSocket \/ AfterConnect \/ BackedOff

-----------------------------------------------------------------------------
\* What the loop runs

\* faulty: the queue is made without a maxsize
EnqueueUnbounded ==
    /\ inbox # <<>>
    /\ inbox' = Tail(inbox)
    /\ tickQ' = Append(tickQ, Head(inbox))
    /\ UNCHANGED <<halted, fpc, made, sws, closed, received, dropped>>

\* _enqueue: a full queue drops the newest tick.
Enqueue ==
    /\ inbox # <<>>
    /\ inbox' = Tail(inbox)
    /\ IF Len(tickQ) < QueueMax
       THEN tickQ' = Append(tickQ, Head(inbox)) /\ UNCHANGED dropped
       ELSE dropped' = dropped \cup {Head(inbox)} /\ UNCHANGED tickQ
    /\ UNCHANGED <<halted, fpc, made, sws, closed, received>>

\* Feed.stop, first line: tell the thread.
SetStop ==
    /\ halted' = TRUE
    /\ UNCHANGED <<fpc, made, sws, closed, received, inbox, tickQ, dropped>>

\* faulty: the thread is told, its socket left open
CloseSocketNot ==
    UNCHANGED <<halted, fpc, made, sws, closed, received, inbox, tickQ, dropped>>

\* Feed.stop, the rest: close the socket it sees, which ends the connection
\* if there is one.
CloseSocket ==
    /\ closed' = IF fpc = "open" THEN closed \cup ({sws} \ {0}) ELSE closed
    /\ UNCHANGED <<halted, fpc, made, sws, received, inbox, tickQ, dropped>>

FeedInit ==
    /\ halted = FALSE /\ fpc = "check" /\ made = 0 /\ sws = 0 /\ closed = {}
    /\ received = 0 /\ inbox = <<>> /\ tickQ = <<>> /\ dropped = {}

FeedStep == ThreadStep \/ Connected \/ Disconnected \/ OnData

FeedTypeOK ==
    /\ halted \in BOOLEAN
    /\ fpc \in {"check", "building", "connecting", "open", "returned", "waiting", "ended"}
    /\ made \in 0..MaxSockets /\ sws \in 0..made /\ closed \subseteq 1..made
    /\ received \in 0..MaxTicks
    /\ inbox \in Seq(1..received) /\ tickQ \in Seq(1..received)
    /\ dropped \subseteq 1..received
=============================================================================
