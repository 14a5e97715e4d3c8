# Verification of tradingBot

TLA+ models, model-checking runs and machine-checked proofs for the paper
trading bot in `src/app`. Everything is modelled from the Python code; line
numbers refer to it. `PROJECT.json` maps every definition to its lines, lists
the runs, the mutants that show each property can fail, the findings, the
hazards and the theorems.

    tlc -config EngineSafety.cfg MCExecutionEngine.tla      # a run
    tlapm ExecutionEngineProofs.tla                         # the proofs of one component

## The system

One process. A WebSocket thread puts ticks on an asyncio queue; two coroutines
do everything else on one event loop.

    feed thread --tick_q--> tick consumer --bar_q--> bar consumer
                               |  engine.on_tick        |  strategy.on_bar
                               |  aggregator.ingest     |  engine.on_signal
                               v                        v
                   paper broker, journal (SQLite), pre-trade LLM call

| component | state | operations | talks to | makes it correct |
|---|---|---|---|---|
| **Execution engine** `execution/engine.py` | open positions by id and by symbol, trades today, stopped-out symbols, realised and unrealised P&L | `on_signal`, `on_tick` (apply fills, check exits, refresh unrealised), `restore_pnl_state`, `initial_realised_pnl` | awaits broker, journal, LLM; reads the kill flag and the feed's age through callables | books agree with the journal; a position is exited once; limits hold although checked before several awaits; kill and time stop leave it flat |
| **Paper broker** `brokers/paper.py` | per symbol a queue of pending orders | `place_order`, `on_tick` | called by the engine from both coroutines | an order is filled once and not lost |
| **Risk limits** `risk/limits.py` | none | `check_all`: ten checks, first failure wins | called with a snapshot of the engine | order and boundaries of the checks |
| **Sizing** `risk/sizing.py` | none | `size_position` | called by the engine | the largest quantity within the risk budget, at most 90% of the cash |
| **Bar aggregator** `data/bars.py` | per symbol the bar in progress | `ingest`, `flush_all` | tick consumer | bars in order, no tick in two bars, no share counted twice |
| **Strategy** `strategy/orb.py` | per symbol and day: range, lock, signalled flag, last volumes | `on_bar` | bar consumer | the range is that of the day's own bars and frozen; one signal a day; stop and target on the right sides |
| **Orchestrator** `orchestrator.py` | queues, tasks, kill flag | `start`, `stop`, the consumers, SIGUSR1 handler | all of the above | order kept across a full queue; what is lost in a restart does no harm |
| **Feed** `data/feed.py` | stop event, socket, time of the last message | `run_forever`, `stop`, callbacks | thread; `call_soon_threadsafe` | stops when told; a full queue costs the tick it has no room for and nothing else |
| **LLM** `llm/client.py`, `pretrade.py`, `regime.py`, `context.py`, `scheduler.py` | call log, regime verdicts | pre-trade check with time-out, scheduled regime checks | engine, journal | fails open and in finite time; a verdict is linked to its own call, and the newest is used while it is fresh |
| **Journal** `journal/` | the tables | commits by all of the above | SQLite | it is what a restart has left |
| **Kill CLI** `kill.py` | pid file | sends SIGUSR1 | orchestrator | the right process gets it |
| **Replay** `backtest/replay.py` | pending entries, positions, counters of one day | day by day over bars | strategy, sizing | no look-ahead; same rules as live; counters add up |
| **Bar cache** `backtest/historical.py` | a file per symbol and date | fetch with back-off, load | vendor API, disk; the backtest and sweep scripts | a rerun after a kill takes nothing cut short, and no answer without a list, for a day |
| **Reports** `analytics/paper_run.py`, `backtest/report.py`, `scripts/backtest_sweep.py`, `llm/eod.py`, `dashboard/queries.py` | none | sums, drawdown and gates over closed positions | journal | three copies of the gates agree; days add up, but for the rounding |
| Calendar, config, universe, pages, other scripts | | | | I/O, layout and constants |

What is hard here: the two coroutines interleave at every await, and state read
before one is used after it; a commit and the memory update that goes with it
are apart; a consumer whose await raises ends silently; a restart keeps only
what the journal says, and the engine reads back very little of it; ticks come
late, bars later. The hazards in `PROJECT.json` list these at their lines.

## What is modelled

### ExecutionEngine (with RiskLimits and Sizing)

Engine, broker and the journal rows they write, for one trading day.

* **State.** `signals`, `orders`, `positions`, `blocks` are the tables (a row's
  id is its index; an order's row carries the payload `place_order` stores),
  `booked` the sum of `realised_pnl` over closed rows. `open`, `openBySymbol`,
  `tradesToday`, `stoppedOut`, `realisedToday`, `realisedWeek`, `unrealised`
  are the engine's attributes; `pending` is the broker's. `tick`, `popped`,
  `fills`, `closing`, `exitRole` are locals of `on_tick` and what it calls,
  `job` those of `on_signal`.
* **Control.** `tpc` and `bpc` say at which await each coroutine is. `tpc`
  outside `Suspended` means that the tick consumer is running and the bar
  consumer cannot (`BarFree`). One action is the code from one await to the
  next: `PopOrder`, `FillOrder`, `Drained` are the broker's `on_tick`;
  `ApplyEntry`/`OpenPosition` and `ApplyExit`/`ClosePosition` are `_apply_fill`
  before and after its commit; `Hold`, `TriggerExit`, `PlaceExit` are
  `_check_exits`; `RefreshUnrealised` ends the tick. `OnSignal`,
  `RejectSignal`/`AcceptSignal`, the `Pretrade` actions, `PersistSignal`,
  `PlaceEntry`, `LogRiskBlock` are `on_signal`.
* **Environment.** `Kill` is the SIGUSR1 handler. `TickFault` and `BarFault`
  let any await raise, before or after its commit took effect; the consumer is
  then dead, as in the code. `Restart` is the end of the process at any point
  and a new `start()`.
* **Signals** come from any symbol, at most one per symbol and day, none if the
  process started after the opening range. That is not the engine's doing but
  the strategy's; `SignalChain` is checked to provide it (below).
* **Abstractions.** Money is an integer; charges and fills are rounded down.
  Fill and SlippageLog rows repeat other rows and are left out. Regime, feed
  age and LLM answer are any of a set. A day's roll-over is not modelled: the
  counters are the process's, which the README of the repository has restarted
  every morning.

### BarAggregator, OrbStrategy, SignalChain, SignalSource

`BarAggregator` and `OrbStrategy` are `bars.py` and `orb.py` as operators over
one variable each. `SignalChain` puts them together as the orchestrator does:
`TakeTick`, `PutBar` (the tick consumer waits while `bar_q` is full), `TakeBar`,
the death of either consumer (the tick consumer's `finally` clause flushes
unfinished bars behind the queued ones), `Restart`. Days, minutes and instants
within a minute are numbers; volumes restart each day. `Skew` lets the clock be
set back (ticks are stamped with `datetime.now` on arrival), `Stale` lets the
exchange's volume total lag.

`SignalSource` is the abstract specification: a symbol signals at most once a
day over all process lifetimes, with a past bar beyond the opening range, and
not at all in a process that started after the range. `SourceSpec` states that
`SignalChain` implements it; `blind` is a history variable kept for the mapping.

### AngelFeed, Pipeline

The orchestrator around engine and strategy, for one process from start to
stop. `AngelFeed` is `data/feed.py`: the thread's `run_forever` (`CheckStop`,
`PublishSocket`, `Connected`, `Disconnected`, `AfterConnect`, `BackedOff`), its
`OnData`, the `Enqueue` it schedules on the loop, and the two halves of `stop()`
(`SetStop`, `CloseSocket`), which race it. The vendor's socket is external:
connecting may fail or block, and only closing a connected socket ends it.

`Pipeline` extends it by `_tick_consumer` (`cpc`, its `batch`, the bar
aggregator reduced to the minute in progress), `_bar_consumer` (`bpc`), both
bounded queues, the ticks and bars tables, and `start`/`stop` (`opc`). An action
runs from one await to the next; `engine.on_tick` and `on_signal` are awaits that
return or raise. `CancelTicks`/`CancelBars` are the cancellation in whatever
await it meets, `TickFault`, `BarFault`, `LastFlushFault`, `StartFault` awaits
that raise; a write cut short may have committed (`CutWrite`). `lastFlush` and
`dyingFlush` are the `finally` clause after a cancellation and after an error.

A cancelled `wait_for` raises, as from Python 3.12 on. pyproject.toml allows 3.11,
whose `wait_for` returns the item instead if the queue has just served it: that
consumer then handles the item and ends at its next look at `stop_event`. This is
not modelled. `StopReturns` would then have one exception: a tick so returned that
closes a bar, with `bar_q` full and the bar consumer gone, waits in `put` for good.

### LlmGate

The scheduler's slots, the regime job (`context`, `call`, `verdict`), a signal's
way through the regime gate and the pre-trade check, the client both share, and
the `llm_calls` and `regime_verdicts` tables. Time is counted in units of a few
minutes: awaits that take seconds may straddle one change of the unit, the
regime call, which has no time-out, any number. The API may answer, fail, answer
outside the schema or never; the journal may raise at any write or read; a
restart cancels what is running. A verdict is `off` if it would block. A signal's
bar may have closed at any time before, as a gap in the ticks delays it.

### PositionBook

What the journal shows of a position: entered, one exit ordered, that exit
filled, closed and booked, each once and in that order. `BookSpec` states that
`ExecutionEngine` implements it, the positions table and the orders table mapped
by `Ledger`; a process that dies leaves its positions where they are.

### Replay, HistoricalCache, PaperRun

The programs beside the trading loop.

* `Replay` is `_replay_one_day` over the real strategy (`OrbStrategy`) and the
  real sizing: a step is one bar, or a gap where the record has none. The bars
  are chosen as they are read, so every record over the given shapes is met.
* `HistoricalCache` is the file per symbol and date, filled by the backtest
  script, read by it and by the sweep. `Answer` and `Save` are apart, with the
  three seconds of `RATE_LIMIT_SLEEP_S` between them; `Killed` may come there, or
  anywhere else, `KilledInWrite` with the file opened and not yet written; rate
  limits and refusals. An answer has all of a day's bars, those before its close,
  an empty list, or no list. `served` and `unsaved` are history: what the API
  answered for a pair, and which of it a kill kept from the file.
* `PaperRun` holds the sums, the drawdowns and the gates of the five reports over
  a journal of positions opened and closed over several days. The gates are in
  the code three times, and so is the drawdown, and each is translated by
  itself (`MaxDrawdownInr`, `ReportDrawdown`, `SweepDrawdown`). The journal's
  amounts are in `Grain`-ths of a paisa; `Round` is Python's `round(x, 2)`, half to
  even, applied to each trade by paper_run.py and eod.py and not by the
  dashboard. Additions of floats are taken as exact.

### MC modules

`MCExecutionEngine`, `MCSignalChain` give values; `MCEngineMarks` keeps the last
price of each symbol beside the engine to compare P&L at market with what the
limit sees; `MCSignalChain` keeps the bars heard. `MCOffline` runs the three
programs above and calls of `size_position` one at a time (`part` says which:
they share no state, so a product would check nothing more), and holds the
comparison of the replay with the live rules of `RiskLimits` and `_check_exits`.

## The runs

| run | question | bounds, and why they are enough |
|---|---|---|
| `EngineSafety` | do memory, journal and broker agree in every interleaving, with a consumer dying in any await and a restart at any point; do positions live as `PositionBook` says? | two symbols, one long and one short, two prices, one pre-trade reduction, kill at any time, one death and one restart, so that a restart after a death and work of the survivor both occur. Two positions are the limit's own number and give two fills, two exits and every overlap of the two coroutines; a third symbol adds more of the same pairs. No deadlock check: both consumers may be dead |
| `EngineLimits` | do the daily limits survive awaits and restarts? | three symbols against `MaxTrades = 2`, every price a stop-out, regimes and feed ages on both sides of their thresholds |
| `EngineLiveness` | kill and time stop | two symbols that keep ticking; both directions; entries that arrive late |
| `ChainLate` | late ticks, a full bar queue, dying consumers | ticks up to a whole minute late, one day and a minute of the next, two range minutes so that the range widens, queue of two; one symbol, as symbols share nothing but the queue |
| `ChainRestart` | restarts over a day boundary; refinement | two days of one range minute and two beyond it, so that a second breakout may follow; both directions; a queue of one. The volume multiple is below one to reach breakouts with two shares a day; the exchange's total may lag by one (`Stale`) |
| `PipelineStop` | do queues and batch keep their sizes, is every tick and bar accounted for, whatever ends, and does `stop()` always end? | four ticks against a tick queue and a batch of two, a bar queue of one with a bar a minute, so that both queues and the batch fill, two connections, one await that raises, `stop()` anywhere |
| `LlmGate` | do verdicts, calls and the gate agree, and does every signal get decided? | an age of two slots, as in the code, and a window longer than that: three slots, so that verdicts expire, with a job that hangs through later slots and one whose successor's verdict is the only fresh one left; at most two calls when a regime job asks (`MaxCalls`: of the third slot the run has how it is passed over behind a hung job, and its job up to the call), one signal with a bar of any age, one failure of the journal or one restart (`MaxFaults`). Time ends with the window: a slot behind it starts nothing, which the theorems cover |
| `Offline` | replay against the live rules, its counters and its times; the cache over reruns; the reports against each other and a reference; sizing at its edges | three symbols against two trades a day, one range minute and three beyond, bars that reach stop, target, both or neither, a gap anywhere; two files and four scripts, so that a kill, a retry and a reader follow each other; five positions over three days across a week's start, two a day as the engine opens them (`PerDay`), gains that hit 8% and 40% exactly, that lie halfway between two paise, that round to none, and a curve that never rises; all sizing requests with prices to 12, cash to 40 |

`ChainLate`, `ChainRestart`, `PipelineStop`, `LlmGate` and `Offline` end at the last
instant, tick, slot or bar, and are not checked for deadlock.

What holds. *Engine:* no position is sold twice and no order filled twice; the
engine's two maps agree; shares are conserved between filled orders and
positions; while no consumer died every open row is watched and every spent
signal leaves one trace; the realised P&L the limits use is the journal's after
any failure but a dead tick consumer; entries stay within the daily number and
no entry goes out in a symbol that was opened or stopped out since the check;
kill and time stop leave the engine flat. *Chain:* bars reach the strategy in
order, a locked range stays, the range is that of the day, stops and targets are
on the right sides. *Pipeline:* a tick is on its way, in the journal or refused by
the full queue, at most the one in hand is lost with its consumer; each minute
has one bar; `stop()` returns, also while a consumer waits for a queue nobody
reads; neither queue nor the batch outgrows its size. *LLM:* a signal is decided although the model never answers, skipped or
blocked only on an answer that is in the call log; verdicts are in the order of
the data they judge; the gate reads the newest. *Offline:* no look-ahead; on every
bar the replay's copy of gates and exits decides as the live rules, but for what
it leaves out; the counters add up; a script that completes has what the API
answered last, and a pair is asked for again only after an answer without a list
or a kill before its answer was saved; the copies of the gates give one verdict;
the days of paper run and end-of-day report add up to the whole, and the
dashboard's sums differ from the paper run's by half a paisa a trade at most.

### What these rest on

* The engine does not itself refuse a second entry in a symbol while the first
  is unfilled (`IndexAgrees`, `EntryWithinLimits` fail without `NotSignalled`), and
  forgets its trade counter in a restart (`EntriesPerDay` fails without
  `StillArmed`). Both are covered only by the strategy's flag and its blindness
  after a restart.
* The limit of two open positions counts no entry in flight: with
  `max_trades_per_day` above its default of 2 a third position can open.
* The entry window is held against the bar's close, and a bar is closed by its
  symbol's next tick: after a gap an entry may be placed any time later in the
  day, although limits.py:12 says "no late entries".
* The kill switch is looked at once per signal: one that waits for the LLM or a
  commit when it is thrown still places its entry, which its first tick forces
  out again (`KillFlattens`).
* `exit_order_pending` never decides anything with the paper broker: it fills an
  exit before the engine looks at the symbol again.
* bars.py:37 guards against a total volume that falls within a bar, not across
  bars: the volume is then only not negative, and the bars of a day may add up to
  more than its total. `VolumesBounded` is stated and checked for totals that never
  fall (`Stale = 0`); what a lagging total does to range and signals is in
  `ChainRestart`.
* A flush cancelled behind its commit leaves its batch to the `finally` clause,
  which writes the ticks a second time (`TicksAccounted` excepts just these); the
  table has no unique key to refuse them.
* `flush_all` at `stop()` puts the last bars on a queue whose reader is being
  cancelled: they are lost. `TICK_FLUSH_INTERVAL_S` bounds the age of a batch only in
  seconds without a tick.
* A bar consumer that died is never replaced; once `bar_q` is full the tick
  consumer waits in `put` for good and no exit is looked at until `stop()`.
* The feed's age is refreshed by messages whose ticks the full queue drops.
* When `initial_realised_pnl` raises, `start()` leaves the feed's thread behind
  (`StartFault`).
* The regime call has no time-out. One that hangs occupies the job's single
  instance, later slots are passed over, and thirty minutes after the last
  verdict the gate lets everything pass (`GateCovered` holds but for `trouble`).
  A verdict's `ts` is the time it is stored, not that of the data it judges.
* A call cancelled by `stop()` leaves a row with neither response nor error. When
  the journal raises in the `finally` clause of `generate_json` its error, which is
  not an `LLMError` as client.py:76 has it, goes through the pre-trade check's
  fail-open and ends the bar consumer (`CheckFault`).
* The replay has no entry window and no loss limits, though replay.py:2 says
  "Same gates as the live engine apply EXCEPT the LLM ones"; its cash counts
  neither realised P&L nor pending entries; it fills a stop or a target at its
  price also where the bar opened beyond it, so a `stop_hit` may gain and a
  `target_hit` lose. As the strategy signals once a day, its `already_open` and
  `reentry` counters never fire.
* report.py:51 and :188 both say "trades taken"; the second also counts entries still
  pending at the day's end (`DayAdds`).
* An answer with `"data": null` is saved but never read back, and the sweep reports
  it missing, though historical.py:202 says "re-runs are free". A file cut short
  by a kill makes every later run raise until it is deleted. A day fetched before
  its close stays cached in part, and an answer `"data": []`, whatever it came from,
  is a day without bars for backtest and sweep from then on: nothing in the code
  tells either from a whole day, and `CacheKept` does not claim it.
* paper_run.py:284 and eod.py:260 round each trade before they add, queries.py:58
  adds what the journal has: the dashboard's day and the paper run's are not the
  same number. A gain of less than half a paisa is no win for the paper run.
* A position held overnight is in the end-of-day report of its opening day, and
  there only if that is run again; all other reports count it where it closes.

### Findings

Each `Claim` run checks one statement of the repository that the code does not
keep, and finds a counterexample.

| run | the repository says | the code |
|---|---|---|
| `ClaimSquareOff` | README.md:92 "15:15 IST: auto-square-off runs" | a restarted engine does not know its positions; they stay open in the journal |
| `ClaimFeedEnds` | feed.py:65 "runs until `stop()` is called" | a `stop()` between the thread's test and its connection closes nothing; the thread connects afterwards and reads on |
| `ClaimNoLeverage` | sizing.py:10 "no MIS leverage in v1" | unfilled entries tie up no cash; two may take 180% |
| `ClaimDailyLoss` | limits.py:9 "Daily realised + unrealised P&L" | unrealised is only that of the last tick's symbol |

## Fairness

`FairSpec` assumes that the event loop is fair and that symbols keep ticking:
WF of `TickStep` (a coroutine whose await is over is resumed), SF of `BarStep`
(it can be resumed only while the other coroutine is suspended, which comes and
goes) and SF of each symbol's ticks (taken only between two runs of `on_tick`).
The asyncio loop runs ready tasks in turn and the database calls return or
raise; raising is excluded in the liveness run, as a dead consumer exits nothing.

`PipelineStop` assumes WF of what the event loop runs (`Received`, the two tasks,
the steps of `stop()`) and of the thread's own steps, and that a connection whose
socket was closed, or one being made, ends somehow. Nothing makes a connection
succeed, a tick arrive or an open connection end by itself. WF suffices: a task
whose await is over stays ready until it runs.

`LlmGate` assumes WF of the regime job, of the bar consumer and of the loop's
timers (`TimeOut`). Nothing makes the API answer, no clock need advance.

The other runs assume no fairness.

## Proofs

Every safety invariant and every action property a passing run checks, and both
refinements, are proved for all values of the constants, under the assumptions
the modules name and the hypotheses given below. What is only model-checked
comes at the end.

| module | proves of | theorems |
|---|---|---|
| `ExecutionEngineProofs` | `ExecutionEngine` | `TypeCorrect`, `ExitsCorrect`, `RealisedCorrect` |
| `EngineBookProofs` | the same, with `PositionBook` | `OrdersFilledOnceCorrect`, `OpenRowsWatchedCorrect`, `SharesCorrect`, `BookCorrect` |
| `EngineEntryProofs` | the same | `IndexCorrect`, `EntriesPerDayCorrect`, `SignalsAccountedCorrect`, `EntryWithinLimitsCorrect` |
| `SignalChainProofs` | `SignalChain`, with `SignalSource` | `BarsInOrderCorrect`, `RangeFrozenCorrect`, `RangeIsHeardCorrect`, `VolumesCorrect`, `StopsAndTargetsCorrect`, `SourceCorrect` |
| `PipelineProofs` | `Pipeline` | `PipeTypeCorrect`, `TicksAccountedCorrect`, `BarsAccountedCorrect` |
| `LlmGateProofs` | `LlmGate` | `GateTypeCorrect`, `VerdictLinkedCorrect`, `VerdictsInOrderCorrect`, `CallsLoggedCorrect`, `FailOpenCorrect`, `GateIsLatestCorrect`, `GateCoveredCorrect` |
| `OfflineProofs` | `Replay`, `HistoricalCache`, `PaperRun`, `Sizing` as `MCOffline` runs them | `NoLookAhead`, `DayAddsCorrect`, `DecidesAsLiveCorrect`, `CacheKeptCorrect`, `WithinBudget`, `SizesWithinBudgetCorrect`, `ReportsAgreeCorrect` |
| `SumProofs` | sums and folds | lemmas only |

**Engine.** `TypeOK` is not inductive: `OpenPosition` needs its fill to name a
filled entry of an existing signal, `PlaceEntry` needs a job with a positive
quantity. Nor is `ExitsMatchPositions`: that no exit order names a position which
may still get one depends on the engine's flag. `EngineInv` adds

* `TickLocals`, `BarLocals`: what the locals are at each program point;
* `Refs`: every id held in a queue, a fill or an order is that of a row;
* `OpenMatchesRows`: the engine's picture of a position is that of its row, and
  the index leads to positions of the right symbol;
* `ExitsMarked`: a position that some exit order names carries
  `exit_order_pending`, while the tick consumer lives. A consumer that dies
  between the commit of the order and the flag leaves an unmarked one, and no
  longer places exits.

`NextInv` has one lemma per action; `RealisedStep` adds that only a close and a
restart move the two sides of the P&L, together.

`BookInv` adds to it where each order is, pending, popped, a fill in hand,
applied, or lost to a death or restart, in exactly one of these places
(`QueueInv`, `PlaceInv`). From it every action is a step of `PositionBook` or
leaves the mapped book alone (`BookCorrect`). `SharesConserved` needs more
(`SharesInv`): a fill waits once, an exit on its way finds its position in
memory, an entry's side is its signal's. Each action then moves one value
between the three sums.

`EntryInv` adds that a symbol has one live entry, held position or job at a time
(`OnePerSymbol`), that a held position has its signal and its entry order
(`HeldByEntry`), that the counter is the number of the day's entries
(`TradesCounted`), and a signal's one trace (`SignalTraced`).
`EntryWithinLimitsCorrect` has the hypothesis `MaxTrades <= MaxOpen`: config.py:39
allows two trades a day and two open positions are the limit. It cannot be
dropped: with `MaxTrades = 3` in `EngineLimits.cfg` TLC finds an entry beyond the
open positions in 36 steps, as the third signal's snapshot is taken before the
second entry fills.

**Chain.** `ChainInv` is: bars are in order before the one in progress
(`Ordered`, `Latest`), and each bar still to come takes its place after a range
it may no longer change (`InTime`, over `Upcoming` and `Timely`).
`StopsAndTargetsCorrect` has the hypothesis `TargetMultiple >= 10` (tenths;
orb.py:37 has 1.5): with whole prices a smaller one may round the target onto the
entry. `SourceCorrect` has `Skew = 0` and `MaxDeaths = 0`, as the run: a dying
tick consumer flushes the bar of the current minute, which may signal before the
minute is past, and a clock set back gives a day after the range a range again.
`RangeIsHeardCorrect` rests on `HeardInv`: the range spans the bars heard.
`VolumesCorrect` rests on `VolumeInv`: the volumes of a symbol's bars of today on
their way add up to no more than where the bar in progress starts counting, and
that one ends at no more than the day's total. Its hypothesis `Stale = 0` is that
of both runs; with totals that fall from one tick to the next the statement is
false.

**Pipeline.** `PipeInv`: types, the sizes of queues and batch, with room in the batch of
a consumer that can still take a tick (`Room`), one place for each tick (`Places`), queues, batch
and tables in order (`InOrder`), one tick at most lost with its consumer
(`AtMostOne`), and the same for bars (`BarsInOrder`, `BarsComplete`).

**LLM.** `GateInv`: one job with one call of its own, one row for each call
number, slots apart. The module assumes slots at least two units apart: with one
in every unit TLC finds verdicts out of order (`VerdictsInOrder`).
`GateCoveredCorrect` has the hypothesis `Age >= 2 * SlotEvery`, the code's thirty
minutes against fifteen.

**Offline.** `NoHindsight` is not inductive; `HindsightInv` adds where the loop is
(`AtInv`), that an entry pending for a symbol whose turn in the minute is past
was decided no later than this minute, and for the others before it
(`PendingInv`), and that the last bar kept for a symbol with a position is not
older than its entry (`OpenInv`), which the end-of-day close needs. `DayInv` adds
whole numbers everywhere, a symbol pending or held and not both, and counters
and P&L as sums over gates and trades. `DecidesAsLiveCorrect` has the hypothesis
that the limit on a day's trades is the same: it is written down twice, as
`max_trades_per_day` in config.py and `MAX_TRADES_PER_DAY` in replay.py, both 2.
`CacheInv` is: a file with a list holds the last answer, and while a pair may be
asked for again each of its answers is spent: without a list, lost to a kill, or
still in the pause (`FileServed`, `Spent`); an answer in the pause is the last of
its pair, which has no file with a list (`CacheTypes`); what a running script has
taken is the last answer (`OutServed`). `SizesWithinBudgetCorrect` shows
that the floor quotient is the one quantity within the budget of which one more
is not, for a `riskPct` of at most 100.

`ReportsAgreeCorrect` holds for any journal (`JournalInv`: rows are whole numbers
of days gone by). That the fold of a drawdown is the deepest fall of the
curve goes along the trades: after each the fold has the curve's last value, its
top, and its deepest fall so far (`TopNext`, `WorstNext`). All
three copies compute it (`ThreeDrawdowns`). The window of
`compute_paper_run_stats` is a fold too, whose total is the sum of the rounded
gains closed in it (`TradesTotal`); grouped by closing or by opening the days add
up to all of it (`ByClosing`, `ByOpening`). Each rounding is off by half a paisa at
most (`RoundNear`), a sum of them by as much a trade (`SumNear`). `JournalAssumption` takes the capital as
positive (config.py:35 has 50,000): with none the gates pass any drawdown.

**Sums.** `SumProofs` is what these share: a sum over a finite set does not depend
on the order it is taken in, what an element, a change, a union or a grouping
does to it, and that `FoldLeft`, `SumFunction` and `MapThenSumSet` compute it. The
library's induction theorems take an operator, which the provers cannot
instantiate; these proofs go by the least counterexample instead (`LeastNumber`,
from the well-foundedness of the naturals).

**Only model-checked:**

* `KillFlattens`, `TimeStopFlattens`, `QueuedTicksWritten`, `StopReturns`,
  `StopReachesFeed`, `CheckEnds`: liveness under fairness, out of the prover's
  reach, as is `ENABLED`;
* the statements the four `Claim` runs refute.

## Plan

Built: engine, broker, limits, sizing; the signal chain; feed, pipeline and
stop; the LLM gate; the abstract position book; replay, cache and reports; the
proofs of all their safety properties.

What is left: to weaken hypotheses where the code gives more than the theorem
uses (`SourceCorrect` with a dead bar consumer, `EntryWithinLimits` as a bound on
the excess for a larger `MaxTrades`), the steps of the liveness arguments that
are invariants (nothing is placed once the kill flag is seen, `stop()` waits for
no queue without a reader), and to shorten the longest proofs of the engine.

## Not modelled

* `kill.py`'s command line: it reads a pid file and calls `os.kill` once. The
  file is written by `scripts/morning_start.sh` with the pid of `uv run`; whether
  that passes SIGUSR1 on is decided outside the repository. SIGUSR1 before
  `start()` has installed the handler ends the process, which `Restart` covers.
* `scripts/*.sh`: shell around uv, uvicorn, fuser and kill. One thing met in
  reading: in morning_start.sh:47 `rc=$?` follows `if ! ...; then`, where `$?` is 0,
  so that a holiday ends with exit code 4 instead of the announced 0.
* Several days in one process: the engine's counters are the process's, which
  `morning_start.sh` starts every morning. A process that runs on keeps
  yesterday's `trades_today` and realised P&L.
* Engine and chain in one product: the engine meets the chain only through
  signals, and `SourceSpec` is what it assumes of them; a product of the two
  would be far beyond TLC and add the same pairs of steps.
* Calendar, configuration, universe: tables without state. Login, news fetch,
  prompts, HTML, Markdown: I/O and wording. R multiples, slippage averages and
  counts per regime: single sums for display. The ORM's `pnl_daily` has no writer.

The status of each part is in `components` in `PROJECT.json`.
