---------------------------- MODULE BarAggregator ----------------------------
(***************************************************************************)
(* app/data/bars.py: ticks to one-minute bars.  The bar of a symbol is      *)
(* closed by the symbol's next tick in a later minute, however late that    *)
(* comes; a tick of an earlier minute is folded into the current bar.       *)
(* A minute is numbered, MinuteLength instants long; a bar's opening price  *)
(* is left out, nothing reads it.                                          *)
(***************************************************************************)
EXTENDS Integers, Sequences, FiniteSetsExt

CONSTANTS Symbols, MinuteLength

ASSUME AggregatorAssumption == MinuteLength \in Nat \ {0} /\ IsFiniteSet(Symbols)

VARIABLE agg    \* _state: per symbol, the bar in progress

NoBar == [minute |-> -1]

Bucket(ts) == ts \div MinuteLength      \* _bucket_for

Started(tick) ==
    [minute |-> Bucket(tick.ts), high |-> tick.ltp, low |-> tick.ltp, close |-> tick.ltp,
     first |-> tick.volume, last |-> tick.volume]

\* faulty: a late tick moves the bar back to its own minute
FoldedBack(bar, tick) ==
    [bar EXCEPT !.minute = Bucket(tick.ts), !.high = Max({@, tick.ltp}),
                !.low = Min({@, tick.ltp}), !.close = tick.ltp,
                !.last = Max({@, tick.volume})]
Folded(bar, tick) ==
    [bar EXCEPT !.high = Max({@, tick.ltp}), !.low = Min({@, tick.ltp}),
                !.close = tick.ltp, !.last = Max({@, tick.volume})]

\* faulty: the volume counts from the start of the day
FinishedTotal(symbol, bar) ==
    [symbol |-> symbol, minute |-> bar.minute, high |-> bar.high, low |-> bar.low,
     close |-> bar.close, volume |-> bar.last]
\* to_bar: it opened at bar.minute and closes at bar.minute + 1.
Finished(symbol, bar) ==
    [symbol |-> symbol, minute |-> bar.minute, high |-> bar.high, low |-> bar.low,
     close |-> bar.close, volume |-> Max({0, bar.last - bar.first})]

Empty == [s \in Symbols |-> NoBar]

\* faulty: a bar also ends with a tick of an earlier minute
CompletesAny(tick) ==
    /\ agg[tick.symbol] # NoBar
    /\ Bucket(tick.ts) # agg[tick.symbol].minute
\* ingest: whether it returns a bar, which, and what it leaves.
Completes(tick) ==
    /\ agg[tick.symbol] # NoBar
    /\ Bucket(tick.ts) > agg[tick.symbol].minute

Completed(tick) == Finished(tick.symbol, agg[tick.symbol])

Ingest(tick) ==
    agg' = [agg EXCEPT ![tick.symbol] =
               IF @ = NoBar \/ Completes(tick) THEN Started(tick) ELSE Folded(@, tick)]

\* flush_all: the bars it yields, in some order.
Flushed == {Finished(s, agg[s]) : s \in {x \in Symbols : agg[x] # NoBar}}
=============================================================================
