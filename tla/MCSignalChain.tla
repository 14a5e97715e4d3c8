---------------------------- MODULE MCSignalChain ----------------------------
(***************************************************************************)
(* SignalChain for TLC, with the opening-range bars the strategy has heard  *)
(* kept beside it to compute the range anew.                                *)
(***************************************************************************)
EXTENDS SignalChain

CONSTANT s1

VARIABLE heard    \* bars of the opening range, since the process started

HeardInit == Init /\ heard = {}

HeardNext ==
    /\ Next
    /\ heard' = IF restarts' # restarts THEN {}
                ELSE IF TakeBar /\ InRange(Head(barQ).minute)
                THEN heard \cup {Head(barQ)} ELSE heard

HeardSpec == HeardInit /\ [][HeardNext]_<<chainVars, heard>>

\* The range the strategy works with is that of the day's own bars, and it has
\* none if it heard none (process started late, or no tick in the range).
RangeIsHeard ==
    \A s \in Symbols :
       LET today == {bar \in heard : bar.symbol = s /\ Day(bar.minute) = orb[s].day}
       IN IF today = {} THEN orb[s].high = NoPrice
          ELSE /\ orb[s].high = Max({bar.high : bar \in today})
               /\ orb[s].low = Min({bar.low : bar \in today})
=============================================================================
