----------------------------- MODULE RiskLimits -----------------------------
(***************************************************************************)
(* app/risk/limits.py: the checks that gate every signal.  check_all walks  *)
(* ten conditions in a fixed order and reports the first that trips.        *)
(*                                                                         *)
(* Times are points of the day (any unit, EntryStart being 09:30 IST and    *)
(* EntryEnd 14:45), money is in an integer unit, a regime's confidence is   *)
(* in tenths.  The messages' "detail" payloads are left out.                *)
(***************************************************************************)
EXTENDS Integers, Sequences

CONSTANTS
    EntryStart,       \* TRADING_ENTRY_START
    EntryEnd,         \* TRADING_ENTRY_END, itself excluded
    MaxTrades,        \* max_trades_per_day
    DailyLossLimit,   \* daily_loss_limit_inr, a positive amount
    WeeklyLossLimit,  \* weekly_loss_limit_inr, a positive amount
    RespectRegime     \* respect_regime

ASSUME RiskAssumption ==
    /\ EntryStart \in Nat
    /\ EntryEnd \in Nat
    /\ MaxTrades \in Nat
    /\ DailyLossLimit \in Nat
    /\ WeeklyLossLimit \in Nat
    /\ RespectRegime \in BOOLEAN

MaxOpen == 2                \* the literal in check_all
FeedStaleSeconds == 60      \* FEED_STALE_SECONDS
RegimeConfidence == 7       \* REGIME_RISK_OFF_CONFIDENCE_THRESHOLD, tenths

NoFeedAge == -1             \* feed_age_s is None: never stale
NoRegime == [label |-> "none", confidence |-> 0]
NoBlock == "pass"

\* The reasons in the order check_all tries them.
Priority == << "kill_switch", "feed_stale", "outside_entry_window",
               "max_trades_per_day_reached", "max_open_positions",
               "already_open_in_symbol", "reentry_after_stopout_blocked",
               "daily_loss_limit_hit", "weekly_loss_limit_hit",
               "regime_risk_off" >>

Reasons == {Priority[i] : i \in 1..10}

InEntryWindow(t) == EntryStart <= t /\ t < EntryEnd

-----------------------------------------------------------------------------
\* What each check says of one snapshot, whatever its place in the order.
Tripped(snap, symbol, regime, age, killed) ==
    [ kill_switch                   |-> killed,
      feed_stale                    |-> age > FeedStaleSeconds,
      outside_entry_window          |-> ~InEntryWindow(snap.now),
      max_trades_per_day_reached    |-> snap.trades >= MaxTrades,
      max_open_positions            |-> snap.openCount >= MaxOpen,
      already_open_in_symbol        |-> symbol \in snap.openSymbols,
      reentry_after_stopout_blocked |-> symbol \in snap.stoppedOut,
      daily_loss_limit_hit          |-> snap.realised + snap.unrealised <= -DailyLossLimit,
      weekly_loss_limit_hit         |-> snap.week <= -WeeklyLossLimit,
      regime_risk_off               |-> /\ RespectRegime
                                        /\ regime.label = "risk_off"
                                        /\ regime.confidence > RegimeConfidence ]

Passes(snap, symbol, regime, age, killed) ==
    \A r \in Reasons : ~Tripped(snap, symbol, regime, age, killed)[r]

\* The first reason in Priority that trips, NoBlock when none does.
CheckAll(snap, symbol, regime, age, killed) ==
    LET trips(i) == Tripped(snap, symbol, regime, age, killed)[Priority[i]]
    IN  IF Passes(snap, symbol, regime, age, killed)
        THEN NoBlock
        ELSE Priority[CHOOSE i \in 1..10 : trips(i) /\ \A j \in 1..(i - 1) : ~trips(j)]
=============================================================================
