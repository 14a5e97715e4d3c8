------------------------------ MODULE MCOffline ------------------------------
(***************************************************************************)
(* The programs beside the trading loop, for TLC: the replayed day, the     *)
(* cache it reads, the reports on closed positions, and the sizing asked    *)
(* for any request.  They share no state; each behaviour is one of them.    *)
(***************************************************************************)
EXTENDS Replay, HistoricalCache, PaperRun, RiskLimits

CONSTANTS s1, s2, s3,
    MaxPrice, MaxCash, Capitals, RiskPcts    \* of the requests to size_position

ASSUME RequestAssumption ==
    /\ Capitals \subseteq Nat
    /\ RiskPcts \subseteq 0..100
    /\ MaxPrice \in Nat /\ MaxCash \in Nat

VARIABLES part, asked    \* which program runs; the arguments of a call

vars == <<part, replayVars, cacheVars, journalVars, asked>>

Shape(o, h, l, c) == [open |-> o, high |-> h, low |-> l, close |-> c]
MCUniverse == <<s1, s2, s3>>
MCRange == {Shape(1000, 1000, 900, 900)}
\* Still in the range, up and out of it, down and out of it, one that goes on
\* down to a short's target, and one that opens below the range and reaches
\* stops and targets of both directions.
MCLater == {Shape(900, 1000, 900, 1000), Shape(1000, 1100, 1000, 1100), Shape(900, 990, 800, 800),
            Shape(600, 900, 600, 900), Shape(800, 1400, 600, 1100)}

\* Rounded: a loss of 8 paise, of none though it gained, and 8 from halfway.
MCGains == {-33, 1, 30}

Requests == [capital : Capitals, available : 0..MaxCash, riskPct : RiskPcts,
             entry : 0..MaxPrice, stop : 0..MaxPrice]
Ask == \E cash \in 0..MaxCash : asked' = [asked EXCEPT !.available = cash]

Init ==
    /\ ReplayInit /\ CacheInit /\ JournalInit
    /\ \/ part \in {"replay", "cache", "journal"} /\ asked = <<>>
       \/ part = "sizing" /\ asked \in Requests /\ asked.available = 0

Next ==
    \/ part = "replay" /\ ReplayNext /\ UNCHANGED <<part, cacheVars, journalVars, asked>>
    \/ part = "cache" /\ CacheNext /\ UNCHANGED <<part, replayVars, journalVars, asked>>
    \/ part = "journal" /\ JournalNext /\ UNCHANGED <<part, replayVars, cacheVars, asked>>
    \/ part = "sizing" /\ Ask /\ UNCHANGED <<part, replayVars, cacheVars, journalVars>>

Spec == Init /\ [][Next]_vars

-----------------------------------------------------------------------------
\* What the live engine answers to the signal of a bar in the replayed state.
LiveBlock(bar) ==
    LET pnl == dayPnl + IF Exits(bar)
                        THEN Trade(Held(bar)[bar.symbol], bar, Exit(Held(bar)[bar.symbol], bar)).net
                        ELSE 0
    IN CheckAll([now |-> Hour(bar.minute) + 1, trades |-> tradesToday,
                 openCount |-> Cardinality(DOMAIN OpenAfterExit(bar)),
                 openSymbols |-> DOMAIN OpenAfterExit(bar), stoppedOut |-> StoppedAfter(bar),
                 realised |-> pnl, unrealised |-> 0, week |-> pnl],
                bar.symbol, NoRegime, NoFeedAge, FALSE)

Shared == {"max_trades_per_day_reached", "already_open_in_symbol", "reentry_after_stopout_blocked"}

GateAsLive(bar) ==
    /\ LiveBlock(bar) = NoBlock => Decision(bar) \in {"sizing", "taken"}
    /\ LiveBlock(bar) \in Shared => Decision(bar) \notin {"sizing", "taken"}
    /\ Decision(bar) = "max_trades" =>
          LiveBlock(bar) \in {"max_trades_per_day_reached", "outside_entry_window"}

\* The live engine's _check_exits at one tick (no kill switch).
LiveReason(pos, ltp, hour) ==
    IF hour >= TimeStop THEN "time_stop"
    ELSE IF (IF pos.direction = "long" THEN ltp <= pos.stop ELSE ltp >= pos.stop) THEN "stop_hit"
    ELSE IF (IF pos.direction = "long" THEN ltp >= pos.target ELSE ltp <= pos.target)
    THEN "target_hit"
    ELSE "hold"

\* Over the ticks a bar may be made of, the replay leaves just when the live
\* engine would, and by the stop whenever some tick would have hit it.
ExitAsLive(bar) ==
    bar.symbol \in DOMAIN Held(bar) =>
       LET pos == Held(bar)[bar.symbol]
           reasons == {LiveReason(pos, p, Hour(bar.minute)) : p \in {bar.open, bar.high, bar.low, bar.close}}
           reason == Exit(pos, bar).reason
       IN /\ reason \in reasons
          /\ reason = "hold" => reasons = {"hold"}
          /\ "stop_hit" \in reasons => reason = "stop_hit"

\* On every bar that may come next, the replay's own copy of the gates and the
\* exits decides as the live engine's, but for what it leaves out: the entry
\* window and the loss limits.
DecidesAsLive ==
    part = "replay" /\ InDay =>
       \A bar \in Recorded : ExitAsLive(bar) /\ (Signals(bar) => GateAsLive(bar))

-----------------------------------------------------------------------------
LossAtStop(qty) == qty * StopDistance(asked.entry, asked.stop)

\* The largest quantity whose loss at the stop is within the budget.
IsSize(qty) ==
    /\ 100 * LossAtStop(qty) <= asked.riskPct * asked.capital
    /\ 100 * LossAtStop(qty + 1) > asked.riskPct * asked.capital

\* size_position accepts just the requests for which such a quantity is at
\* least one and costs no more than 90% of the cash, and answers with it; the
\* edges (no stop distance, exactly one share, exactly 90%) included.
SizesWithinBudget ==
    part = "sizing" =>
       LET answer == SizePosition(asked.capital, asked.available, asked.riskPct,
                                  asked.entry, asked.stop)
           right  == {qty \in 1..asked.capital : /\ asked.entry > 0
                                                 /\ IsSize(qty)
                                                 /\ 10 * qty * asked.entry <= 9 * asked.available}
       IN right = IF Accepted(answer) THEN {answer.qty} ELSE {}
=============================================================================
