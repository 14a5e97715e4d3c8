------------------------------- MODULE Sizing -------------------------------
(***************************************************************************)
(* app/risk/sizing.py: how many shares a signal may buy or sell.  Amounts   *)
(* and prices are integers of one money unit; the risk is a percentage.     *)
(***************************************************************************)
EXTENDS Integers

StopDistance(entry, stop) == IF entry >= stop THEN entry - stop ELSE stop - entry

\* faulty: rounded up
RawQtyUp(capital, riskPct, distance) == -((-(riskPct * capital)) \div (100 * distance))
\* floor(risk_amount / stop_distance) with risk_amount = riskPct% of capital.
RawQty(capital, riskPct, distance) == (riskPct * capital) \div (100 * distance)

\* size_position: an accepted result has rejected = "none".
SizePosition(capital, available, riskPct, entry, stop) ==
    LET distance == StopDistance(entry, stop)
        qty      == RawQty(capital, riskPct, distance)
    IN  IF entry <= 0 THEN [qty |-> 0, rejected |-> "entry<=0"]
        ELSE IF distance <= 0 THEN [qty |-> 0, rejected |-> "stop==entry"]
        ELSE IF qty < 1 THEN [qty |-> 0, rejected |-> "qty_below_1_stop_too_wide"]
        ELSE IF 10 * qty * entry > 9 * available
             THEN [qty |-> qty, rejected |-> "notional_exceeds_90pct_available"]
        ELSE [qty |-> qty, rejected |-> "none"]

Accepted(sizing) == sizing.rejected = "none" /\ sizing.qty >= 1
=============================================================================
