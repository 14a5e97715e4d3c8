---------------------------- MODULE SignalSource ----------------------------
(***************************************************************************)
(* What the execution engine counts on when it is handed signals, as an     *)
(* abstract specification: a symbol signals at most once a day, in any      *)
(* number of process lifetimes; the signal's bar is a past one, beyond the  *)
(* opening range; and a process started after the opening range of a day   *)
(* raises none that day.  OnSignal of ExecutionEngine has these guards for  *)
(* the one day it models.                                                  *)
(***************************************************************************)
EXTENDS Integers, Sequences

CONSTANTS Symbols, MinutesPerDay, RangeEnd, MaxMinute

VARIABLES
    now,          \* minute of the last tick
    signalled,    \* the signals so far, each as its symbol and its day
    blind         \* days on which the running process cannot signal

vars == <<now, signalled, blind>>

DayOf(minute) == minute \div MinutesPerDay
AfterRange(minute) == minute % MinutesPerDay >= RangeEnd

Init == now = 0 /\ signalled = <<>> /\ blind = {}

Advance ==
    /\ now' \in now..MaxMinute
    /\ UNCHANGED <<signalled, blind>>

\* A signal of the bar that opened at `minute`.
Raise(s, minute) ==
    /\ minute < now
    /\ AfterRange(minute)
    /\ \A i \in DOMAIN signalled : signalled[i] # <<s, DayOf(minute)>>
    /\ DayOf(minute) \notin blind
    /\ signalled' = Append(signalled, <<s, DayOf(minute)>>)
    /\ UNCHANGED <<now, blind>>

Restart ==
    /\ blind' = IF AfterRange(now) THEN blind \cup {DayOf(now)} ELSE blind
    /\ UNCHANGED <<now, signalled>>

Next ==
    \/ Advance
    \/ \E s \in Symbols, minute \in 0..MaxMinute : Raise(s, minute)
    \/ Restart

Spec == Init /\ [][Next]_vars
=============================================================================
