---------------------------- MODULE MCEngineMarks ----------------------------
(***************************************************************************)
(* ExecutionEngine with the last price of every symbol kept beside it, to   *)
(* compare the P&L the daily limit is held against with the P&L at market.  *)
(***************************************************************************)
EXTENDS MCExecutionEngine

VARIABLE marks   \* per symbol, the price of its last tick

MarkSpec ==
    /\ Init /\ marks = [s \in Symbols |-> 1000]
    /\ [][ /\ Next
           /\ marks' = IF tpc = "idle" /\ tpc' = "drain"
                       THEN [marks EXCEPT ![tick'.symbol] = tick'.ltp]
                       ELSE marks ]_<<vars, marks>>

MarkedPnl ==
    realisedToday + MapThenSumSet(LAMBDA id : Gain(open[id], marks[open[id].symbol]),
                                  DOMAIN open)

\* "Daily realised + unrealised P&L <= -1,500" blocks a signal (limits.py:9).
\* With no tick being processed, the snapshot of a signal that arrives while
\* the P&L at market is beyond the limit says so.  _refresh_unrealised keeps
\* only the positions in the tick's symbol, so another symbol's tick hides
\* an open loss from the check.
DailyLossSeen ==
    [][ bpc = "idle" /\ bpc' = "regime" /\ tpc = "idle" /\ MarkedPnl <= -DailyLossLimit
            => job'.snap.realised + job'.snap.unrealised <= -DailyLossLimit ]_<<vars, marks>>
=============================================================================
