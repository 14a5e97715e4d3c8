-------------------------- MODULE ExecutionEngine --------------------------
(***************************************************************************)
(* One trading session of app/execution/engine.py on top of                *)
(* app/brokers/paper.py and the journal database.                          *)
(*                                                                         *)
(* Two coroutines share the engine's memory on one asyncio loop: the tick   *)
(* consumer runs on_tick, the bar consumer runs on_signal.  They interleave *)
(* only where one of them awaits, which here is at every database commit    *)
(* and at the language-model call.  tpc and bpc say where each coroutine    *)
(* stands; a tpc outside Suspended is running and keeps the loop.  The      *)
(* SIGUSR1 handler, which sets the kill flag, runs between any two steps.   *)
(*                                                                         *)
(* A journal row's id is its index.  A commit and the resumption of the     *)
(* coroutine that awaits it are one step, as no other coroutine reads the   *)
(* row; a coroutine that dies in the await may have committed or not.       *)
(* Money is in one integer unit, times are points of the day.               *)
(***************************************************************************)
EXTENDS RiskLimits, Sizing, FiniteSets, FiniteSetsExt

CONSTANTS
    Symbols,
    Prices,           \* last traded prices a tick may carry
    SignalSpace,      \* what the strategy may ask for, see SignalType
    Regimes,          \* what latest_regime_dict may return, NoRegime included
    FeedAges,         \* what feed_age_s may return, NoFeedAge included
    SizeMultipliers,  \* percentages a reduce_size answer may carry
    PretradeEnabled,  \* pretrade_llm_check with a Gemini client
    Capital,          \* capital_inr
    RiskPct,          \* risk_per_trade_pct
    SlippageBps,      \* slippage_bps of the paper broker
    Brokerage,        \* flat part of a leg's charges, with its GST
    WeekBefore,       \* realised earlier this week, from initial_realised_pnl
    ORWindowEnd,      \* end of the strategy's opening range
    TimeStop,         \* TIME_STOP_IST
    MaxClock,         \* bound: last point of the day
    MaxFaults,        \* bound: awaits that raise
    MaxRestarts       \* bound: process restarts

SignalType == [symbol : Symbols, direction : {"long", "short"},
               entry : Nat, stop : Nat, target : Nat]

\* "none" stands for no symbol, in the locals of a coroutine that is idle.
ASSUME EngineAssumption ==
    /\ "none" \notin Symbols
    /\ Prices \subseteq Nat
    /\ SignalSpace \subseteq SignalType
    /\ SizeMultipliers \subseteq 0..100
    /\ PretradeEnabled \in BOOLEAN
    /\ Capital \in Nat
    /\ RiskPct \in Nat
    /\ SlippageBps \in Nat
    /\ Brokerage \in Nat
    /\ WeekBefore \in Int
    /\ ORWindowEnd \in Nat
    /\ TimeStop \in Nat
    /\ MaxClock \in Nat
    /\ MaxFaults \in Nat
    /\ MaxRestarts \in Nat

VARIABLES
    \* the journal
    signals,       \* Signal rows
    orders,        \* Order rows, with the payload that place_order stores
    positions,     \* Position rows
    blocks,        \* RiskBlock rows, as a set
    booked,        \* sum of realised_pnl over the closed Position rows
    \* the engine's memory
    open,          \* _open: position id -> what the engine knows of it
    openBySymbol,  \* _open_by_symbol
    tradesToday, stoppedOut, realisedToday, realisedWeek, unrealised,
    \* the paper broker's memory
    pending,       \* _pending: per symbol, the queue of order ids
    \* the tick consumer
    tpc, tick,
    popped,        \* order id the broker is filling, 0 for none
    fills,         \* fills the broker returned and the engine has yet to apply
    closing,       \* the position _close_position has popped
    exitRole,      \* why _check_exits is placing an exit
    \* the bar consumer
    bpc,
    job,           \* the signal on_signal works on and its locals
    \* the environment
    clock,         \* timestamp of the last tick handed to the engine
    killed,        \* kill_switch_active
    signalled,     \* symbols the strategy has spent today's signal on
    armed,         \* the strategy has seen the opening range
    faults, restarts

journal == <<signals, orders, positions, blocks, booked>>
memory  == <<open, openBySymbol, tradesToday, stoppedOut,
             realisedToday, realisedWeek, unrealised>>
tickVars == <<tpc, tick, popped, fills, closing, exitRole>>
barVars  == <<bpc, job>>
envVars  == <<clock, killed, signalled, armed, faults, restarts>>
vars == <<journal, memory, pending, tickVars, barVars, envVars>>

-----------------------------------------------------------------------------
\* Helpers

Side(direction) == IF direction = "long" THEN "BUY" ELSE "SELL"
\* faulty: a short is left by selling, too
OppositeSell(direction) == "SELL"
Opposite(direction) == IF direction = "long" THEN "SELL" ELSE "BUY"
\* faulty: a short is stored with a positive quantity
SignedAbs(direction, qty) == qty
Signed(direction, qty) == IF direction = "long" THEN qty ELSE -qty

\* The simulated price: the last price moved against the trader.
FillPrice(side, ltp) ==
    IF side = "BUY" THEN (ltp * (10000 + SlippageBps)) \div 10000
                    ELSE (ltp * (10000 - SlippageBps)) \div 10000

\* charges_for_leg, rounded down: exchange and SEBI fees with GST on both
\* legs, STT on the sell side only, in ten-millionths of the turnover.
ChargesForLeg(side, qty, price) ==
    Brokerage + (qty * price * (IF side = "SELL" THEN 2895 ELSE 395)) \div 10000000

\* Gross gain of a position were it to trade at price.
Gain(pos, price) ==
    IF pos.direction = "long" THEN (price - pos.entry) * pos.qty
                              ELSE (pos.entry - price) * pos.qty

With(f, k, v) == [x \in DOMAIN f \cup {k} |-> IF x = k THEN v ELSE f[x]]
\* faulty: get instead of pop
WithoutGet(f, k) == f
Without(f, k) == [x \in DOMAIN f \ {k} |-> f[x]]

Filled(row) == [row EXCEPT !.status = "FILLED"]     \* of an order or a signal
Closed(row) == [row EXCEPT !.closed = TRUE]         \* of a position
Marked(pos) == [pos EXCEPT !.exitPending = TRUE]    \* of an open position

Because(task, reason) == [task EXCEPT !.reason = reason]    \* of on_signal's job
ForQty(task, qty) == [task EXCEPT !.qty = qty]
AsRow(task, id) == [task EXCEPT !.id = id]

EmptyMap == [x \in {} |-> x]
NoTick == [symbol |-> "none", ltp |-> 0]
NoClosing == [id |-> 0, symbol |-> "none", net |-> 0, role |-> "none"]
NoJob == [symbol |-> "none"]

Suspended == {"idle", "fill", "open", "close", "exitPlace", "dead"}
BarFree == tpc \in Suspended

SignalRow(sig, qty) ==
    [symbol |-> sig.symbol, direction |-> sig.direction, qty |-> qty,
     stop |-> sig.stop, target |-> sig.target, status |-> "SUBMITTED"]

EntryOrder(sig, qty, id) ==
    [symbol |-> sig.symbol, side |-> Side(sig.direction), qty |-> qty,
     role |-> "entry", signal |-> id, position |-> 0, status |-> "PENDING"]

ExitOrder(pos, id, role) ==
    [symbol |-> pos.symbol, side |-> Opposite(pos.direction), qty |-> pos.qty,
     role |-> role, signal |-> 0, position |-> id, status |-> "PENDING"]

-----------------------------------------------------------------------------
\* The tick consumer: on_tick.  The broker first drains the symbol's queue.

OnTick(s, ltp, ts) ==
    /\ tpc = "idle"
    /\ clock <= ts
    /\ clock' = ts
    /\ tick' = [symbol |-> s, ltp |-> ltp]
    /\ tpc' = "drain"
    /\ UNCHANGED <<journal, memory, pending, popped, fills, closing, exitRole,
                   barVars, killed, signalled, armed, faults, restarts>>

\* faulty: the queue's head is read and stays
PopOrderPeek ==
    /\ tpc = "drain"
    /\ pending[tick.symbol] # <<>>
    /\ popped' = Head(pending[tick.symbol])
    /\ tpc' = "fill"
    /\ UNCHANGED <<journal, memory, pending, tick, fills, closing, exitRole, barVars, envVars>>

PopOrder ==
    /\ tpc = "drain"
    /\ pending[tick.symbol] # <<>>
    /\ popped' = Head(pending[tick.symbol])
    /\ pending' = [pending EXCEPT ![tick.symbol] = Tail(@)]
    /\ tpc' = "fill"
    /\ UNCHANGED <<journal, memory, tick, fills, closing, exitRole, barVars, envVars>>

\* faulty: the session is left without a commit
CommitFillNot == UNCHANGED <<signals, orders, positions, blocks, booked>>

CommitFill ==
    /\ orders' = [orders EXCEPT ![popped] = Filled(@)]
    /\ UNCHANGED <<signals, positions, blocks, booked>>

FillOrder ==
    /\ tpc = "fill"
    /\ CommitFill
    /\ fills' = Append(fills, [order |-> popped,
                               price |-> FillPrice(orders[popped].side, tick.ltp)])
    /\ popped' = 0
    /\ tpc' = "drain"
    /\ UNCHANGED <<memory, pending, tick, closing, exitRole, barVars, envVars>>

Drained ==
    /\ tpc = "drain"
    /\ pending[tick.symbol] = <<>>
    /\ tpc' = "apply"
    /\ UNCHANGED <<journal, memory, pending, tick, popped, fills, closing,
                   exitRole, barVars, envVars>>

\* _apply_fill for each fill in turn: an entry opens a position ...
ApplyEntry ==
    /\ tpc = "apply"
    /\ fills # <<>>
    /\ orders[Head(fills).order].role = "entry"
    /\ tpc' = "open"
    /\ UNCHANGED <<journal, memory, pending, tick, popped, fills, closing,
                   exitRole, barVars, envVars>>

CommitOpen ==
    LET order == orders[Head(fills).order]
        sig   == signals[order.signal]
    IN /\ signals' = [signals EXCEPT ![order.signal] = Filled(@)]
       /\ positions' = Append(positions,
             [symbol |-> order.symbol, closed |-> FALSE,
              qty |-> Signed(sig.direction, order.qty)])
       /\ UNCHANGED <<orders, blocks, booked>>

OpenPosition ==
    /\ tpc = "open"
    /\ CommitOpen
    /\ LET fill  == Head(fills)
           order == orders[fill.order]
           sig   == signals[order.signal]
           id    == Len(positions) + 1
       IN /\ open' = With(open, id,
                [symbol |-> order.symbol, direction |-> sig.direction,
                 qty |-> order.qty, entry |-> fill.price,
                 stop |-> sig.stop, target |-> sig.target,
                 charges |-> ChargesForLeg(order.side, order.qty, fill.price),
                 exitPending |-> FALSE])
          /\ openBySymbol' = With(openBySymbol, order.symbol, id)
    /\ fills' = Tail(fills)
    /\ tpc' = "apply"
    /\ UNCHANGED <<tradesToday, stoppedOut, realisedToday, realisedWeek, unrealised,
                   pending, tick, popped, closing, exitRole, barVars, envVars>>

\* ... and an exit closes one: the position leaves the engine's memory first,
\* an exit for a position it does not hold is only logged.
ApplyExit ==
    /\ tpc = "apply"
    /\ fills # <<>>
    /\ LET fill  == Head(fills)
           order == orders[fill.order]
       IN /\ order.role # "entry"
          /\ IF order.position \in DOMAIN open
             THEN LET pos == open[order.position]
                      net == Gain(pos, fill.price) - pos.charges
                             - ChargesForLeg(order.side, order.qty, fill.price)
                  IN /\ open' = Without(open, order.position)
                     /\ openBySymbol' = Without(openBySymbol, pos.symbol)
                     /\ closing' = [id |-> order.position, symbol |-> pos.symbol,
                                    net |-> net, role |-> order.role]
                     /\ tpc' = "close"
             ELSE UNCHANGED <<open, openBySymbol, closing, tpc>>
    /\ fills' = Tail(fills)
    /\ UNCHANGED <<journal, tradesToday, stoppedOut, realisedToday, realisedWeek,
                   unrealised, pending, tick, popped, exitRole, barVars, envVars>>

\* The counters move only once the row is committed.
CommitClose ==
    /\ positions' = [positions EXCEPT ![closing.id] = Closed(@)]
    /\ booked' = booked + closing.net
    /\ UNCHANGED <<signals, orders, blocks>>

ClosePosition ==
    /\ tpc = "close"
    /\ CommitClose
    /\ realisedToday' = realisedToday + closing.net
    /\ realisedWeek' = realisedWeek + closing.net
    /\ stoppedOut' = IF closing.role = "stop_hit"
                     THEN stoppedOut \cup {closing.symbol} ELSE stoppedOut
    /\ closing' = NoClosing
    /\ tpc' = "apply"
    /\ UNCHANGED <<open, openBySymbol, tradesToday, unrealised, pending,
                   tick, popped, fills, exitRole, barVars, envVars>>

Applied ==
    /\ tpc = "apply"
    /\ fills = <<>>
    /\ tpc' = "exits"
    /\ UNCHANGED <<journal, memory, pending, tick, popped, fills, closing,
                   exitRole, barVars, envVars>>

\* _check_exits looks at the one position in the tick's symbol.
Exitable ==
    /\ tick.symbol \in DOMAIN openBySymbol
    /\ ~open[openBySymbol[tick.symbol]].exitPending

StopHit(pos, ltp) == IF pos.direction = "long" THEN ltp <= pos.stop ELSE ltp >= pos.stop
TargetHit(pos, ltp) == IF pos.direction = "long" THEN ltp >= pos.target ELSE ltp <= pos.target

\* faulty: the kill switch does not force exits
ExitReasonNoKill(pos) ==
    IF clock >= TimeStop THEN "time_stop"
    ELSE IF StopHit(pos, tick.ltp) THEN "stop_hit"
    ELSE IF TargetHit(pos, tick.ltp) THEN "target_hit"
    ELSE "none"

\* faulty: no time stop
ExitReasonNoTimeStop(pos) ==
    IF killed THEN "kill_switch"
    ELSE IF StopHit(pos, tick.ltp) THEN "stop_hit"
    ELSE IF TargetHit(pos, tick.ltp) THEN "target_hit"
    ELSE "none"

\* The reason to leave: the kill switch over the time stop over the prices.
ExitReason(pos) ==
    IF killed THEN "kill_switch"
    ELSE IF clock >= TimeStop THEN "time_stop"
    ELSE IF StopHit(pos, tick.ltp) THEN "stop_hit"
    ELSE IF TargetHit(pos, tick.ltp) THEN "target_hit"
    ELSE "none"

ExitRoles == {"kill_switch", "time_stop", "stop_hit", "target_hit"}

Hold ==
    /\ tpc = "exits"
    /\ Exitable => ExitReason(open[openBySymbol[tick.symbol]]) = "none"
    /\ tpc' = "refresh"
    /\ UNCHANGED <<journal, memory, pending, tick, popped, fills, closing,
                   exitRole, barVars, envVars>>

TriggerExit ==
    /\ tpc = "exits"
    /\ Exitable
    /\ ExitReason(open[openBySymbol[tick.symbol]]) # "none"
    /\ exitRole' = ExitReason(open[openBySymbol[tick.symbol]])
    /\ tpc' = "exitPlace"
    /\ UNCHANGED <<journal, memory, pending, tick, popped, fills, closing,
                   barVars, envVars>>

CommitExit ==
    LET id == openBySymbol[tick.symbol]
    IN /\ orders' = Append(orders, ExitOrder(open[id], id, exitRole))
       /\ UNCHANGED <<signals, positions, blocks, booked>>

\* place_order, then exit_order_pending.
PlaceExit ==
    /\ tpc = "exitPlace"
    /\ CommitExit
    /\ pending' = [pending EXCEPT ![tick.symbol] = Append(@, Len(orders) + 1)]
    /\ open' = [open EXCEPT ![openBySymbol[tick.symbol]] = Marked(@)]
    /\ exitRole' = "none"
    /\ tpc' = "refresh"
    /\ UNCHANGED <<openBySymbol, tradesToday,
                   stoppedOut, realisedToday, realisedWeek, unrealised,
                   tick, popped, fills, closing, barVars, envVars>>

\* _refresh_unrealised adds up only the positions in the tick's symbol.
MarkToTick ==
    MapThenSumSet(LAMBDA id : Gain(open[id], tick.ltp),
                  {id \in DOMAIN open : open[id].symbol = tick.symbol})

RefreshUnrealised ==
    /\ tpc = "refresh"
    /\ unrealised' = MarkToTick
    /\ tick' = NoTick
    /\ tpc' = "idle"
    /\ UNCHANGED <<journal, open, openBySymbol, tradesToday, stoppedOut,
                   realisedToday, realisedWeek, pending, popped, fills, closing,
                   exitRole, barVars, envVars>>

-----------------------------------------------------------------------------
\* The bar consumer: on_signal.

Snapshot(now) ==
    [now |-> now, openCount |-> Cardinality(DOMAIN open),
     openSymbols |-> DOMAIN openBySymbol, trades |-> tradesToday,
     realised |-> realisedToday, unrealised |-> unrealised,
     week |-> realisedWeek, stoppedOut |-> stoppedOut]

\* faulty: the strategy may signal a symbol again
NotSignalledAgain(symbol) == TRUE
NotSignalled(symbol) == symbol \notin signalled

\* The strategy hands over a signal whose bar closed at `close`, at most one
\* for each symbol and day, and none unless it saw the opening range.  The
\* snapshot is taken before the await that reads the regime.
OnSignal(sig, close) ==
    /\ BarFree
    /\ bpc = "idle"
    /\ armed
    /\ NotSignalled(sig.symbol)
    /\ close \in ORWindowEnd..clock
    /\ signalled' = signalled \cup {sig.symbol}
    /\ job' = [symbol |-> sig.symbol, sig |-> sig, snap |-> Snapshot(close),
               qty |-> 0, reason |-> "none", id |-> 0]
    /\ bpc' = "regime"
    /\ UNCHANGED <<journal, memory, pending, tickVars, clock, killed, armed,
                   faults, restarts>>

\* Cash the engine counts as free: only positions already open tie any up.
Available ==
    Capital + realisedToday
        - MapThenSumSet(LAMBDA id : open[id].qty * open[id].entry, DOMAIN open)

Sized == SizePosition(Capital, Available, RiskPct, job.sig.entry, job.sig.stop)

\* The regime is read; feed age and kill flag are read now, the rest of the
\* check uses the snapshot, the sizing uses the engine's present state.
RejectSignal(regime, age) ==
    /\ BarFree
    /\ bpc = "regime"
    /\ \/ /\ ~Passes(job.snap, job.symbol, regime, age, killed)
          /\ job' = Because(job, CheckAll(job.snap, job.symbol, regime, age, killed))
       \/ /\ Passes(job.snap, job.symbol, regime, age, killed)
          /\ ~Accepted(Sized)
          /\ job' = Because(job, Sized.rejected)
    /\ bpc' = "block"
    /\ UNCHANGED <<journal, memory, pending, tickVars, envVars>>

AcceptSignal(regime, age) ==
    /\ BarFree
    /\ bpc = "regime"
    /\ Passes(job.snap, job.symbol, regime, age, killed)
    /\ Accepted(Sized)
    /\ job' = ForQty(job, Sized.qty)
    /\ bpc' = IF PretradeEnabled THEN "pretrade" ELSE "persist"
    /\ UNCHANGED <<journal, memory, pending, tickVars, envVars>>

\* The language model's answer; a model error counts as "proceed".
PretradeProceed ==
    /\ BarFree
    /\ bpc = "pretrade"
    /\ bpc' = "persist"
    /\ UNCHANGED <<journal, memory, pending, tickVars, job, envVars>>

PretradeSkip ==
    /\ BarFree
    /\ bpc = "pretrade"
    /\ job' = Because(job, "pretrade_skip")
    /\ bpc' = "block"
    /\ UNCHANGED <<journal, memory, pending, tickVars, envVars>>

\* faulty: a quantity scaled to nothing is kept
PretradeReduceToZero(multiplier) ==
    /\ BarFree
    /\ bpc = "pretrade"
    /\ job' = ForQty(job, (job.qty * multiplier) \div 100)
    /\ bpc' = "persist"
    /\ UNCHANGED <<journal, memory, pending, tickVars, envVars>>

PretradeReduce(multiplier) ==
    /\ BarFree
    /\ bpc = "pretrade"
    /\ LET scaled == (job.qty * multiplier) \div 100
       IN IF scaled < 1
          THEN /\ job' = Because(job, "pretrade_reduce_below_1")
               /\ bpc' = "block"
          ELSE /\ job' = ForQty(job, scaled)
               /\ bpc' = "persist"
    /\ UNCHANGED <<journal, memory, pending, tickVars, envVars>>

CommitSignal ==
    /\ signals' = Append(signals, SignalRow(job.sig, job.qty))
    /\ UNCHANGED <<orders, positions, blocks, booked>>

PersistSignal ==
    /\ BarFree
    /\ bpc = "persist"
    /\ CommitSignal
    /\ job' = AsRow(job, Len(signals) + 1)
    /\ bpc' = "place"
    /\ UNCHANGED <<memory, pending, tickVars, envVars>>

CommitEntry ==
    /\ orders' = Append(orders, EntryOrder(job.sig, job.qty, job.id))
    /\ UNCHANGED <<signals, positions, blocks, booked>>

PlaceEntry ==
    /\ BarFree
    /\ bpc = "place"
    /\ CommitEntry
    /\ pending' = [pending EXCEPT ![job.symbol] = Append(@, Len(orders) + 1)]
    /\ tradesToday' = tradesToday + 1
    /\ job' = NoJob
    /\ bpc' = "idle"
    /\ UNCHANGED <<open, openBySymbol, stoppedOut, realisedToday, realisedWeek,
                   unrealised, tickVars, envVars>>

\* faulty: the row is not written
LogRiskBlockLost ==
    /\ BarFree
    /\ bpc = "block"
    /\ job' = NoJob
    /\ bpc' = "idle"
    /\ UNCHANGED <<journal, memory, pending, tickVars, envVars>>

CommitBlock ==
    /\ blocks' = blocks \cup {[symbol |-> job.symbol, reason |-> job.reason]}
    /\ UNCHANGED <<signals, orders, positions, booked>>

LogRiskBlock ==
    /\ BarFree
    /\ bpc = "block"
    /\ CommitBlock
    /\ job' = NoJob
    /\ bpc' = "idle"
    /\ UNCHANGED <<memory, pending, tickVars, envVars>>

-----------------------------------------------------------------------------
\* The environment

\* SIGUSR1: the handler only sets the flag.
Kill ==
    /\ ~killed
    /\ killed' = TRUE
    /\ UNCHANGED <<journal, memory, pending, tickVars, barVars,
                   clock, signalled, armed, faults, restarts>>

\* An await raises, before or after its commit took effect, and its consumer
\* task ends; nothing restarts it.  An idle consumer dies writing ticks or bars.
TickFault ==
    /\ faults < MaxFaults
    /\ \/ tpc \in Suspended \ {"dead"} /\ UNCHANGED journal
       \/ tpc = "fill" /\ CommitFill
       \/ tpc = "open" /\ CommitOpen
       \/ tpc = "close" /\ CommitClose
       \/ tpc = "exitPlace" /\ CommitExit
    /\ tpc' = "dead"
    /\ popped' = 0
    /\ faults' = faults + 1
    /\ UNCHANGED <<memory, pending, tick, fills, closing, exitRole,
                   barVars, clock, killed, signalled, armed, restarts>>

BarFault ==
    /\ BarFree
    /\ faults < MaxFaults
    /\ \/ bpc # "dead" /\ UNCHANGED journal
       \/ bpc = "persist" /\ CommitSignal
       \/ bpc = "place" /\ CommitEntry
       \/ bpc = "block" /\ CommitBlock
    /\ bpc' = "dead"
    /\ faults' = faults + 1
    /\ UNCHANGED <<memory, pending, tickVars, job,
                   clock, killed, signalled, armed, restarts>>

\* faulty: the counters start from nothing
InitialRealisedPnlZero == 0
\* initial_realised_pnl: the sum over the rows with a closed_at.
InitialRealisedPnl == booked

\* faulty: the new strategy knows the opening range
StillArmedAlways == armed
StillArmed == armed /\ clock < ORWindowEnd

\* The process ends at any point and start() builds a new engine: memory is
\* gone, the realised counters are read back from the journal, and the new
\* strategy is blind for the day once the opening range is over.
Restart ==
    /\ restarts < MaxRestarts
    /\ restarts' = restarts + 1
    /\ open' = EmptyMap
    /\ openBySymbol' = EmptyMap
    /\ tradesToday' = 0
    /\ stoppedOut' = {}
    /\ unrealised' = 0
    /\ realisedToday' = InitialRealisedPnl
    /\ realisedWeek' = WeekBefore + InitialRealisedPnl
    /\ pending' = [s \in Symbols |-> <<>>]
    /\ tpc' = "idle"
    /\ tick' = NoTick
    /\ popped' = 0
    /\ fills' = <<>>
    /\ closing' = NoClosing
    /\ exitRole' = "none"
    /\ bpc' = "idle"
    /\ job' = NoJob
    /\ killed' = FALSE
    /\ armed' = StillArmed
    /\ UNCHANGED <<journal, clock, signalled, faults>>

-----------------------------------------------------------------------------
Init ==
    /\ signals = <<>> /\ orders = <<>> /\ positions = <<>> /\ blocks = {} /\ booked = 0
    /\ open = EmptyMap /\ openBySymbol = EmptyMap
    /\ tradesToday = 0 /\ stoppedOut = {}
    /\ realisedToday = 0 /\ realisedWeek = WeekBefore /\ unrealised = 0
    /\ pending = [s \in Symbols |-> <<>>]
    /\ tpc = "idle" /\ tick = NoTick /\ popped = 0 /\ fills = <<>>
    /\ closing = NoClosing /\ exitRole = "none"
    /\ bpc = "idle" /\ job = NoJob
    /\ clock = 0 /\ killed = FALSE /\ signalled = {} /\ armed = TRUE
    /\ faults = 0 /\ restarts = 0

TickOf(s) == \E ltp \in Prices, ts \in 0..MaxClock : OnTick(s, ltp, ts)

TickStep ==
    \/ PopOrder \/ FillOrder \/ Drained
    \/ ApplyEntry \/ OpenPosition \/ ApplyExit \/ ClosePosition \/ Applied
    \/ Hold \/ TriggerExit \/ PlaceExit \/ RefreshUnrealised

BarStep ==
    \/ \E regime \in Regimes, age \in FeedAges :
          RejectSignal(regime, age) \/ AcceptSignal(regime, age)
    \/ PretradeProceed \/ PretradeSkip
    \/ \E m \in SizeMultipliers : PretradeReduce(m)
    \/ PersistSignal \/ PlaceEntry \/ LogRiskBlock

Next ==
    \/ \E s \in Symbols : TickOf(s)
    \/ TickStep
    \/ \E sig \in SignalSpace, close \in 0..MaxClock : OnSignal(sig, close)
    \/ BarStep
    \/ Kill \/ TickFault \/ BarFault \/ Restart

Spec == Init /\ [][Next]_vars

\* The loop is fair: a coroutine that can go on does, and each symbol keeps
\* ticking.  A coroutine waits while the other one runs, hence SF.
Fairness ==
    /\ WF_vars(TickStep)
    /\ SF_vars(BarStep)
    /\ \A s \in Symbols : SF_vars(TickOf(s))

FairSpec == Spec /\ Fairness

-----------------------------------------------------------------------------
\* Properties

SignalRowType == [symbol : Symbols, direction : {"long", "short"}, qty : Nat \ {0},
                  stop : Nat, target : Nat, status : {"SUBMITTED", "FILLED"}]
OrderType == [symbol : Symbols, side : {"BUY", "SELL"}, qty : Nat \ {0},
              role : ExitRoles \cup {"entry"}, signal : Nat, position : Nat,
              status : {"PENDING", "FILLED"}]
PositionType == [symbol : Symbols, closed : BOOLEAN, qty : Int]
OpenType == [symbol : Symbols, direction : {"long", "short"}, qty : Nat \ {0},
             entry : Int, stop : Nat, target : Nat, charges : Int,
             exitPending : BOOLEAN]
FillType == [order : Nat, price : Int]
ClosingType == [id : Nat, symbol : Symbols, net : Int, role : ExitRoles]

JournalTypes ==
    /\ signals \in Seq(SignalRowType)
    /\ orders \in Seq(OrderType)
    /\ positions \in Seq(PositionType)
    /\ booked \in Int

EngineTypes ==
    /\ DOMAIN open \subseteq DOMAIN positions
    /\ open \in [DOMAIN open -> OpenType]
    /\ DOMAIN openBySymbol \subseteq Symbols
    /\ tradesToday \in Nat
    /\ realisedToday \in Int
    /\ realisedWeek \in Int
    /\ pending \in [Symbols -> Seq(Nat)]

TickTypes ==
    /\ tpc \in {"idle", "drain", "fill", "apply", "open", "close", "exits",
                "exitPlace", "refresh", "dead"}
    /\ tick \in [symbol : Symbols, ltp : Prices] \cup {NoTick}
    /\ popped \in Nat
    /\ fills \in Seq(FillType)
    /\ closing \in ClosingType \cup {NoClosing}
    /\ exitRole \in ExitRoles \cup {"none"}

ControlTypes ==
    /\ bpc \in {"idle", "regime", "block", "pretrade", "persist", "place", "dead"}
    /\ clock \in Nat
    /\ killed \in BOOLEAN
    /\ signalled \subseteq Symbols
    /\ armed \in BOOLEAN
    /\ faults \in Nat
    /\ restarts \in Nat

\* Type invariant.  unrealised and the money in the snapshot are sums over the
\* open positions and get no type of their own.
TypeOK == JournalTypes /\ EngineTypes /\ TickTypes /\ ControlTypes

IsEntry(o) == orders[o].role = "entry"
Entries == {o \in DOMAIN orders : IsEntry(o)}
Exits == DOMAIN orders \ Entries

\* No position is ever sold (or bought back) twice, whatever interleaves,
\* fails or restarts: each exit order names one position row, undoes exactly
\* its quantity, and is the only one to name it (exit_order_pending).
ExitsMatchPositions ==
    \A o \in Exits :
       LET order == orders[o]
           row   == positions[order.position]
       IN /\ order.position \in DOMAIN positions
          /\ order.symbol = row.symbol
          /\ row.qty = IF order.side = "SELL" THEN order.qty ELSE -order.qty
          /\ \A p \in Exits : orders[p].position = order.position => p = o

\* _open and _open_by_symbol are inverse to each other.  The engine alone does
\* not ensure it: two entries of one symbol in flight would overwrite the
\* index; the strategy's one signal per symbol and day rules that out.
IndexAgrees ==
    /\ \A s \in DOMAIN openBySymbol :
          openBySymbol[s] \in DOMAIN open /\ open[openBySymbol[s]].symbol = s
    /\ \A id \in DOMAIN open :
          open[id].symbol \in DOMAIN openBySymbol /\ openBySymbol[open[id].symbol] = id

\* The broker fills an order at most once and, while no task died and the
\* process lives, loses none: the PENDING rows are those it still has.
OrdersFilledOnce ==
    /\ \A s \in Symbols : \A i, j \in DOMAIN pending[s] :
          /\ pending[s][i] = pending[s][j] => i = j
          /\ pending[s][i] # popped
          /\ orders[pending[s][i]].status = "PENDING"
    /\ popped # 0 => orders[popped].status = "PENDING"
    /\ faults = 0 /\ restarts = 0 =>
          {o \in DOMAIN orders : orders[o].status = "PENDING"} =
             (UNION {{pending[s][i] : i \in DOMAIN pending[s]} : s \in Symbols})
                \cup ({popped} \ {0})

SignedFill(o) == IF orders[o].side = "BUY" THEN orders[o].qty ELSE -orders[o].qty

\* One process lifetime in which no await failed.
Undisturbed == faults = 0 /\ restarts = 0

\* Shares are conserved: what the fills of a symbol add up to is what the
\* journal's open positions say, but for fills the engine has yet to apply
\* and a position between its exit fill and its closed_at.
SharesConserved ==
    Undisturbed => \A s \in Symbols :
       MapThenSumSet(SignedFill, {o \in DOMAIN orders :
                        orders[o].symbol = s /\ orders[o].status = "FILLED"})
       = MapThenSumSet(LAMBDA id : positions[id].qty,
                       {id \in DOMAIN positions : positions[id].symbol = s
                           /\ ~positions[id].closed /\ id # closing.id})
         + MapThenSumSet(LAMBDA i : SignedFill(fills[i].order),
                         {i \in DOMAIN fills : orders[fills[i].order].symbol = s})

\* What the journal calls open is what the engine watches (or is closing),
\* in one process lifetime: no position is left without stop and target.
OpenRowsWatched ==
    Undisturbed =>
      {id \in DOMAIN positions : ~positions[id].closed}
          = DOMAIN open \cup ({closing.id} \ {0})

\* A signal the strategy spent leaves exactly one trace: the order, the risk
\* block, or on_signal still at work; with no task dead and no restart.
SignalsAccounted ==
    Undisturbed => \A s \in signalled :
       (IF job.symbol = s THEN 1 ELSE 0)
         + Cardinality({b \in blocks : b.symbol = s})
         + Cardinality({o \in Entries : orders[o].symbol = s}) = 1

\* The engine forgets its trade counter in a restart, yet no day sees more
\* than max_trades_per_day entries: the strategy is blind by then.
EntriesPerDay == Cardinality(Entries) <= MaxTrades

\* The P&L the loss limits are held against is the journal's, whatever a dead
\* consumer or a restart at any point left half done (restore_pnl_state); only
\* a tick consumer that died in a close leaves them apart, until the restart.
RealisedMatchesJournal ==
    tpc # "dead" => /\ realisedToday = booked
                    /\ realisedWeek = WeekBefore + booked

\* The checks read a snapshot taken several awaits before the order goes out;
\* still no entry is placed in a symbol that is open or stopped out by then,
\* nor beyond two open positions.
EntryWithinLimits ==
    [][ Entries' # Entries =>
            /\ job.symbol \notin DOMAIN openBySymbol
            /\ job.symbol \notin stoppedOut
            /\ Cardinality(DOMAIN open) < MaxOpen ]_vars

Flat == DOMAIN open = {} /\ \A s \in Symbols : pending[s] = <<>>

\* The kill switch leaves no position behind, entries still in flight when it
\* was thrown included ("block new signals and force-exit open positions").
KillFlattens == killed ~> []Flat

\* From 15:15 the engine ends flat, late signals included.
TimeStopFlattens == clock >= TimeStop ~> []Flat

\* The exits the journal has of a position, and those of them it has as filled.
ExitsOf(id) == {o \in Exits : orders[o].position = id}
FilledOf(id) == {o \in ExitsOf(id) : orders[o].status = "FILLED"}

Ledger == [id \in DOMAIN positions |->
              [symbol |-> positions[id].symbol, qty |-> positions[id].qty,
               ordered |-> ExitsOf(id), filled |-> FilledOf(id),
               closed |-> positions[id].closed]]

Book == INSTANCE PositionBook WITH book <- Ledger, realised <- booked

\* The engine implements the book of positions: through all interleavings,
\* dead consumers and restarts the journal shows each position opened, one exit
\* ordered, that exit filled and the position closed, in this order.
BookSpec == Book!Spec

-----------------------------------------------------------------------------
\* What the repository says and the code does not keep (see the README).

\* "15:15 IST: auto-square-off runs" (README.md:92), for what the journal
\* holds as open; a restarted engine does not know its own positions.
SquaredOff == clock >= TimeStop ~> \A id \in DOMAIN positions : positions[id].closed

\* "no MIS leverage in v1" (sizing.py:10): an entry not yet filled ties up
\* nothing of the capital the next one is sized against.
NoLeverage ==
    MapThenSumSet(LAMBDA id : open[id].qty * open[id].entry, DOMAIN open)
        <= Capital + realisedToday
=============================================================================
