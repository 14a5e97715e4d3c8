------------------------- MODULE MCExecutionEngine -------------------------
(***************************************************************************)
(* Values for model checking ExecutionEngine.  Prices are rupees; a fill is *)
(* 1% off so that it stays an integer, stop and target are 100 away.  One   *)
(* share risks 100, so Capital and RiskPct give the quantity.               *)
(***************************************************************************)
EXTENDS ExecutionEngine, TLC

CONSTANTS s1, s2, s3

Signal(s, direction) ==
    [symbol |-> s, direction |-> direction, entry |-> 1000,
     stop   |-> IF direction = "long" THEN 900 ELSE 1100,
     target |-> IF direction = "long" THEN 1100 ELSE 900]

MCSignals == {Signal(s, "long") : s \in Symbols}
MCLongShort == {Signal(s1, "long"), Signal(s2, "short")}

\* A stop so close that one position takes most of the capital.
MCTight == {[symbol |-> s, direction |-> "long", entry |-> 1000,
             stop |-> 988, target |-> 1100] : s \in Symbols}

MCRiskOff == [label |-> "risk_off", confidence |-> 8]
MCRegimes == {NoRegime, MCRiskOff}
MCNoRegime == {NoRegime}
MCFeedAges == {0, 61}
MCFresh == {0}

MCSymmetry == Permutations(Symbols)
=============================================================================
