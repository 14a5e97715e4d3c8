---------------------------- MODULE PositionBook ----------------------------
(***************************************************************************)
(* What the engine promises of its positions, as the journal shows them: a  *)
(* position is opened, one exit is ordered, that exit is filled, the        *)
(* position is closed and its gain booked, in that order and each once.      *)
(* Nothing here says when; a process that dies may leave a position at any   *)
(* of these places for good.                                                 *)
(***************************************************************************)
EXTENDS Integers, Sequences

CONSTANT Symbols

VARIABLES book,       \* per position: symbol, signed quantity, exits ordered, exits filled, closed
          realised    \* what the closed positions brought

Entered(s, q) == [symbol |-> s, qty |-> q, ordered |-> {}, filled |-> {}, closed |-> FALSE]

Init == book = <<>> /\ realised = 0

Enter ==
    /\ Len(book') = Len(book) + 1
    /\ LET new == book'[Len(book) + 1]
       IN /\ new.symbol \in Symbols /\ new.qty \in Int \ {0}
          /\ book' = Append(book, Entered(new.symbol, new.qty))
    /\ UNCHANGED realised

\* o is the number of the exit order.
OrderExit(p) ==
    /\ ~book[p].closed /\ book[p].ordered = {}
    /\ \E o \in book'[p].ordered : book' = [book EXCEPT ![p].ordered = {o}]
    /\ UNCHANGED realised

FillExit(p) ==
    /\ ~book[p].closed /\ book[p].ordered # {} /\ book[p].filled = {}
    /\ book' = [book EXCEPT ![p].filled = book[p].ordered]
    /\ UNCHANGED realised

Close(p) ==
    /\ ~book[p].closed /\ book[p].filled # {}
    /\ book' = [book EXCEPT ![p].closed = TRUE]
    /\ realised' \in Int

Next == Enter \/ \E p \in DOMAIN book : OrderExit(p) \/ FillExit(p) \/ Close(p)

Spec == Init /\ [][Next]_<<book, realised>>
=============================================================================
