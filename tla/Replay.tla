-------------------------------- MODULE Replay --------------------------------
(***************************************************************************)
(* app/backtest/replay.py: _replay_one_day, the second implementation of    *)
(* the day's trading rules.  It drives the real strategy over recorded bars *)
(* and simulates fills.  A step is one iteration of its loop: the bar of    *)
(* the next symbol in the sort order (close time, symbol), or no bar where  *)
(* the record has a gap.  What the record holds is chosen as it is read.    *)
(***************************************************************************)
EXTENDS OrbStrategy, Sizing, SequencesExt

CONSTANTS
    Universe,        \* the symbols, in their sort order
    RangeBars,       \* [open, high, low, close] of a bar in the opening range
    LaterBars,       \* the same of a bar after it
    TimeStop,        \* TIME_STOP_IST
    LastMinute,      \* of the recorded day
    Capital, RiskPct,
    SlippageBps,     \* SLIPPAGE_BPS
    Charge           \* charges_for_leg, here one amount for any leg

MaxTradesPerDay == 2            \* MAX_TRADES_PER_DAY
Gates == {"max_trades", "already_open", "reentry", "sizing"}

VARIABLES
    at,            \* the place in the loop: minute, turn in the Universe
    pending,       \* pending_entries, by symbol
    open,          \* open_positions, by symbol
    stoppedOut,    \* stopped_out_today
    tradesToday,   \* trades_today
    signalsFired,  \* signals_fired
    blocked,       \* the blocked_... counters, by gate
    dayPnl,        \* day_pnl
    trades,        \* sink_trades
    lastBar        \* day_bars[symbol][-1], of the symbols with a position

books == <<pending, open, stoppedOut, tradesToday, signalsFired, blocked, dayPnl, trades>>
replayVars == <<orb, at, books, lastBar>>

Symbols == {Universe[i] : i \in DOMAIN Universe}

ASSUME ReplayAssumption ==
    /\ Universe \in Seq(Symbols) /\ Universe # <<>>
    /\ \A i, j \in DOMAIN Universe : Universe[i] = Universe[j] => i = j
    /\ \A bar \in RangeBars \cup LaterBars :
          /\ bar.open \in Int /\ bar.high \in Int /\ bar.low \in Int /\ bar.close \in Int
          /\ bar.low <= bar.open /\ bar.open <= bar.high
          /\ bar.low <= bar.close /\ bar.close <= bar.high
    /\ TimeStop \in Nat
    /\ Capital \in Nat /\ RiskPct \in Nat /\ SlippageBps \in Nat /\ Charge \in Nat

With(f, k, v) == [x \in DOMAIN f \cup {k} |-> IF x = k THEN v ELSE f[x]]
Without(f, k) == Restrict(f, DOMAIN f \ {k})

Side(direction) == IF direction = "long" THEN "BUY" ELSE "SELL"
SideOut(direction) == IF direction = "long" THEN "SELL" ELSE "BUY"

\* Price plus or minus SLIP, always to the trader's cost.
Slipped(side, price) ==
    (price * (IF side = "BUY" THEN 10000 + SlippageBps ELSE 10000 - SlippageBps)) \div 10000

-----------------------------------------------------------------------------
\* 1) The entry decided on an earlier bar is filled at this bar's open.
Filled(entry, bar) ==
    [symbol |-> bar.symbol, direction |-> entry.direction, qty |-> entry.qty,
     price |-> Slipped(Side(entry.direction), bar.open), stop |-> entry.stop,
     target |-> entry.target, decided |-> entry.decided, entered |-> bar.minute]

\* faulty: filled at the open of the bar whose close decides it
OpenAfterFillSame(bar) ==
    IF Signals(bar)
    THEN With(open, bar.symbol, Filled([qty |-> 1, decided |-> bar.minute] @@ Signal(bar), bar))
    ELSE open
OpenAfterFill(bar) ==
    IF bar.symbol \in DOMAIN pending
    THEN With(open, bar.symbol, Filled(pending[bar.symbol], bar))
    ELSE open

StopTouched(pos, bar) ==
    IF pos.direction = "long" THEN bar.low <= pos.stop ELSE bar.high >= pos.stop
\* faulty: a short's target is looked for at the top of the bar
TargetTouchedTop(pos, bar) == bar.high >= pos.target
TargetTouched(pos, bar) ==
    IF pos.direction = "long" THEN bar.high >= pos.target ELSE bar.low <= pos.target

\* 2) _maybe_exit: the price before slippage and the reason; the stop wins when
\* the bar reaches both.
Exit(pos, bar) ==
    IF Hour(bar.minute) >= TimeStop THEN [price |-> bar.open, reason |-> "time_stop"]
    ELSE IF StopTouched(pos, bar) THEN [price |-> pos.stop, reason |-> "stop_hit"]
    ELSE IF TargetTouched(pos, bar) THEN [price |-> pos.target, reason |-> "target_hit"]
    ELSE [price |-> bar.close, reason |-> "hold"]

\* _close_position
Trade(pos, bar, exit) ==
    LET out == Slipped(SideOut(pos.direction), exit.price)
        gross == pos.qty * (IF pos.direction = "long" THEN out - pos.price ELSE pos.price - out)
    IN [symbol |-> pos.symbol, direction |-> pos.direction, reason |-> exit.reason,
        decided |-> pos.decided, entered |-> pos.entered, left |-> bar.minute,
        net |-> gross - 2 * Charge]

Held(bar) == OpenAfterFill(bar)
Exits(bar) == bar.symbol \in DOMAIN Held(bar) /\ Exit(Held(bar)[bar.symbol], bar).reason # "hold"
OpenAfterExit(bar) ==
    IF Exits(bar) THEN Without(Held(bar), bar.symbol) ELSE Held(bar)
StoppedAfter(bar) ==
    IF Exits(bar) /\ Exit(Held(bar)[bar.symbol], bar).reason = "stop_hit"
    THEN stoppedOut \cup {bar.symbol} ELSE stoppedOut

-----------------------------------------------------------------------------
\* 4) The gates, on the state after this bar's fill and exit.  Cash counts
\* positions, not entries still pending, and no realised P&L.
Cash(bar) ==
    Capital - MapThenSumSet(LAMBDA s : OpenAfterExit(bar)[s].qty * OpenAfterExit(bar)[s].price,
                            DOMAIN OpenAfterExit(bar))

Sized(bar) == SizePosition(Capital, Cash(bar), RiskPct, Signal(bar).entry, Signal(bar).stop)

Decision(bar) ==
    IF tradesToday >= MaxTradesPerDay THEN "max_trades"
    ELSE IF bar.symbol \in DOMAIN OpenAfterExit(bar) THEN "already_open"
    ELSE IF bar.symbol \in StoppedAfter(bar) THEN "reentry"
    ELSE IF ~Accepted(Sized(bar)) THEN "sizing"
    ELSE "taken"

Entry(bar) ==
    [direction |-> Signal(bar).direction, qty |-> Sized(bar).qty, stop |-> Signal(bar).stop,
     target |-> Signal(bar).target, decided |-> bar.minute]

\* faulty: the entry stays scheduled
PendingAfterFillKept(bar) == pending
\* pending_entries after the pop and before the decision.
PendingAfterFill(bar) == Without(pending, bar.symbol)

\* 5) An accepted signal waits for the symbol's next bar.
Decide(bar) ==
    IF ~Signals(bar)
    THEN /\ pending' = PendingAfterFill(bar)
         /\ UNCHANGED <<tradesToday, signalsFired, blocked>>
    ELSE /\ signalsFired' = signalsFired + 1
         /\ IF Decision(bar) = "taken"
            THEN /\ pending' = With(PendingAfterFill(bar), bar.symbol, Entry(bar))
                 /\ tradesToday' = tradesToday + 1
                 /\ UNCHANGED blocked
            ELSE /\ pending' = PendingAfterFill(bar)
                 /\ blocked' = [blocked EXCEPT ![Decision(bar)] = @ + 1]
                 /\ UNCHANGED tradesToday

-----------------------------------------------------------------------------
Symbol == Universe[at.turn]
Onward == IF at.turn = Len(Universe) THEN [minute |-> at.minute + 1, turn |-> 1]
                                     ELSE [at EXCEPT !.turn = @ + 1]
InDay == at.minute <= LastMinute

\* The bar shape, with the volume the strategy asks for, as Symbol's next bar.
BarOf(shape) == [symbol |-> Symbol, minute |-> at.minute, open |-> shape.open,
                 high |-> shape.high, low |-> shape.low, close |-> shape.close, volume |-> 1]
Recorded == {BarOf(shape) : shape \in IF InRange(at.minute) THEN RangeBars ELSE LaterBars}

ReplayBar(bar) ==
    /\ InDay
    /\ open' = OpenAfterExit(bar)
    /\ stoppedOut' = StoppedAfter(bar)
    /\ IF Exits(bar)
       THEN LET pos == Held(bar)[bar.symbol]
                trade == Trade(pos, bar, Exit(pos, bar))
            IN trades' = Append(trades, trade) /\ dayPnl' = dayPnl + trade.net
       ELSE UNCHANGED <<trades, dayPnl>>
    /\ OnBar(bar)
    /\ Decide(bar)
    /\ lastBar' = Restrict(With(lastBar, bar.symbol, bar), DOMAIN open')
    /\ at' = Onward

Gap ==
    /\ InDay
    /\ at' = Onward
    /\ UNCHANGED <<orb, books, lastBar>>

\* End of the day: what is open is closed at its symbol's last close, one symbol
\* after the other, here in any order; a pending entry is forgotten, but stays in trades_today.
CloseDay(s) ==
    /\ ~InDay
    /\ s \in DOMAIN open
    /\ LET pos == open[s]
           trade == Trade(pos, lastBar[s], [price |-> lastBar[s].close, reason |-> "time_stop"])
       IN trades' = Append(trades, trade) /\ dayPnl' = dayPnl + trade.net
    /\ open' = Without(open, s)
    /\ lastBar' = Restrict(lastBar, DOMAIN open')
    /\ UNCHANGED <<orb, at, pending, stoppedOut, tradesToday, signalsFired, blocked>>

ReplayInit ==
    /\ orb = Idle(Symbols)
    /\ at = [minute |-> 0, turn |-> 1]
    /\ pending = <<>> /\ open = <<>> /\ stoppedOut = {}
    /\ tradesToday = 0 /\ signalsFired = 0 /\ blocked = [g \in Gates |-> 0]
    /\ dayPnl = 0 /\ trades = <<>> /\ lastBar = <<>>

ReplayNext ==
    \/ \E bar \in Recorded : ReplayBar(bar)
    \/ Gap
    \/ \E s \in Symbols : CloseDay(s)

-----------------------------------------------------------------------------
ReplaySpec == ReplayInit /\ [][ReplayNext]_replayVars

\* No look-ahead: an entry is filled on a bar after the one whose close decided
\* it and leaves on that bar or a later one.
NoHindsight ==
    /\ \A s \in DOMAIN open : open[s].decided < open[s].entered
    /\ \A i \in DOMAIN trades : /\ trades[i].decided < trades[i].entered
                                /\ trades[i].entered <= trades[i].left

\* A day's counters add up to its trades: no signal is lost between the gates,
\* no entry is filled twice or waits beside its own position.  An entry still
\* pending when the day ends counts as taken and is no trade.
DayAdds ==
    /\ signalsFired = tradesToday + SumFunction(blocked)
    /\ tradesToday = Len(trades) + Cardinality(DOMAIN open) + Cardinality(DOMAIN pending)
    /\ dayPnl = FoldLeft(LAMBDA acc, trade : acc + trade.net, 0, trades)
    /\ DOMAIN open \cap DOMAIN pending = {}
=============================================================================
