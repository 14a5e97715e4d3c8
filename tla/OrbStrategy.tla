----------------------------- MODULE OrbStrategy -----------------------------
(***************************************************************************)
(* app/strategy/orb.py: the opening-range breakout.  Minutes are counted    *)
(* over all days; a day has MinutesPerDay of them, the opening range is     *)
(* made of the bars opening in [RangeStart, RangeEnd).  The volume and      *)
(* target multiples are in tenths.                                         *)
(***************************************************************************)
EXTENDS Integers, Sequences, FiniteSetsExt

CONSTANTS
    MinutesPerDay,
    RangeStart,        \* 09:15 IST
    RangeEnd,          \* _or_end_hm
    Lookback,          \* DEFAULT_VOLUME_LOOKBACK, length of recent_volumes
    VolumeMultiple,    \* volume_multiplier, tenths
    TargetMultiple     \* target_r_multiple, tenths

ASSUME StrategyAssumption ==
    /\ MinutesPerDay \in Nat \ {0}
    /\ RangeStart \in Nat /\ RangeEnd \in Nat
    /\ Lookback \in Nat \ {0}
    /\ VolumeMultiple \in Nat /\ TargetMultiple \in Nat

VARIABLE orb    \* _state: per symbol, the day's opening range

Day(minute) == minute \div MinutesPerDay
Hour(minute) == minute % MinutesPerDay          \* the time of the day

InRange(minute) == RangeStart <= Hour(minute) /\ Hour(minute) < RangeEnd
PostRange(minute) == Hour(minute) >= RangeEnd

NoPrice == -1
Fresh(day) ==        \* reset
    [day |-> day, high |-> NoPrice, low |-> NoPrice, locked |-> FALSE,
     signaled |-> FALSE, volumes |-> <<>>]

Idle(symbols) == [s \in symbols |-> Fresh(-1)]

\* faulty: yesterday's range is kept
OnDayKept(st, day) == [st EXCEPT !.day = day]
OnDay(st, day) == IF st.day = day THEN st ELSE Fresh(day)

\* faulty: the range is the last bar's
WidenedLast(st, bar) == [st EXCEPT !.high = bar.high, !.low = bar.low]
\* _update_or
Widened(st, bar) ==
    IF st.high = NoPrice THEN [st EXCEPT !.high = bar.high, !.low = bar.low]
    ELSE [st EXCEPT !.high = Max({@, bar.high}), !.low = Min({@, bar.low})]

\* recent_volumes.append on a deque with maxlen.
Noted(st, bar) ==
    [st EXCEPT !.volumes = IF Len(@) = Lookback THEN Append(Tail(@), bar.volume)
                                                ELSE Append(@, bar.volume)]

Total(volumes) == MapThenSumSet(LAMBDA i : volumes[i], DOMAIN volumes)

\* volume > multiple * mean of the prior bars, which is positive.
VolumeConfirms(st, bar) ==
    /\ Len(st.volumes) >= Lookback
    /\ Total(st.volumes) > 0
    /\ 10 * bar.volume * Len(st.volumes) > VolumeMultiple * Total(st.volumes)

Direction(st, bar) ==
    IF bar.close > st.high THEN "long" ELSE IF bar.close < st.low THEN "short" ELSE "none"

\* faulty: a symbol may signal again
BreaksOutAgain(st, bar) ==
    /\ st.high # NoPrice
    /\ VolumeConfirms(st, bar)
    /\ Direction(st, bar) # "none"
\* _maybe_signal
BreaksOut(st, bar) ==
    /\ ~st.signaled
    /\ st.high # NoPrice
    /\ VolumeConfirms(st, bar)
    /\ Direction(st, bar) # "none"

\* faulty: a short's target is above its entry
BreakoutTargetUp(st, bar) ==
    LET stop == IF Direction(st, bar) = "long" THEN st.low ELSE st.high
    IN [symbol |-> bar.symbol, direction |-> Direction(st, bar), entry |-> bar.close,
        stop |-> stop,
        target |-> bar.close + (TargetMultiple * Max({bar.close - stop, stop - bar.close})) \div 10,
        minute |-> bar.minute]
\* The signal a breakout gives; its breakout_close_time is the bar's end.
Breakout(st, bar) ==
    LET stop == IF Direction(st, bar) = "long" THEN st.low ELSE st.high
    IN [symbol |-> bar.symbol, direction |-> Direction(st, bar), entry |-> bar.close,
        stop |-> stop, target |-> bar.close + (TargetMultiple * (bar.close - stop)) \div 10,
        minute |-> bar.minute]

\* The state on_bar finds, after the reset on a new day.
Found(bar) == OnDay(orb[bar.symbol], Day(bar.minute))

Signals(bar) == PostRange(bar.minute) /\ BreaksOut(Found(bar), bar)
Signal(bar) == Breakout(Found(bar), bar)

After(st, bar) ==
    IF InRange(bar.minute) THEN Noted(Widened(st, bar), bar)
    ELSE IF PostRange(bar.minute)
    THEN Noted([st EXCEPT !.locked = TRUE, !.signaled = @ \/ BreaksOut(st, bar)], bar)
    ELSE st

OnBar(bar) == orb' = [orb EXCEPT ![bar.symbol] = After(Found(bar), bar)]
=============================================================================
