---------------------------- MODULE OfflineProofs ----------------------------
(***************************************************************************)
(* Proofs about the programs beside the trading loop: the replay for every  *)
(* record of bars and every universe, the cache for any number of pairs and *)
(* scripts, the sizing for all amounts, the reports for any journal.        *)
(***************************************************************************)
EXTENDS MCOffline, SumProofs

\* Where the loop is.
AtInv == at \in [minute : Nat, turn : DOMAIN Universe]

\* An entry waits at least until its symbol's turn of the next minute.
PendingInv ==
    \A i \in DOMAIN Universe : Universe[i] \in DOMAIN pending =>
       LET decided == pending[Universe[i]].decided
       IN /\ decided \in Int
          /\ i < at.turn => decided <= at.minute
          /\ i >= at.turn => decided < at.minute

\* A position was entered after its decision and no later than the last bar
\* its symbol had.
Timely(pos) == pos.decided \in Int /\ pos.entered \in Int /\ pos.decided < pos.entered
OpenInv ==
    \A s \in DOMAIN open :
       /\ Timely(open[s])
       /\ s \in DOMAIN lastBar
       /\ lastBar[s].minute \in Int /\ open[s].entered <= lastBar[s].minute
       /\ open[s].entered <= at.minute

TradesInv ==
    /\ \E S : trades \in Seq(S)
    /\ \A i \in DOMAIN trades : Timely(trades[i]) /\ trades[i].left \in Int
                                /\ trades[i].entered <= trades[i].left

HindsightInv == AtInv /\ PendingInv /\ OpenInv /\ TradesInv

\* A loop moves forward.
LEMMA OnwardAt ==
    ASSUME AtInv
    PROVE  /\ Onward \in [minute : Nat, turn : DOMAIN Universe]
           /\ \A i \in DOMAIN Universe :
                 i < Onward.turn => /\ Onward.turn > at.turn => Onward.minute = at.minute /\ i <= at.turn
                                    /\ Onward.turn <= at.turn => FALSE
           /\ \A i \in DOMAIN Universe :
                 i >= Onward.turn => \/ Onward.minute = at.minute /\ i > at.turn
                                     \/ Onward.minute = at.minute + 1
<1> USE DEF AtInv, Onward
<1>1. DOMAIN Universe = 1..Len(Universe) /\ Len(Universe) \in Nat /\ Len(Universe) >= 1
  BY ReplayAssumption
<1>2. CASE at.turn = Len(Universe)
  BY <1>1, <1>2
<1>3. CASE at.turn # Len(Universe)
  BY <1>1, <1>3
<1> QED
  BY <1>2, <1>3

\* Appending a trade keeps what holds of all trades.
LEMMA AppendTrade ==
    ASSUME TradesInv, NEW t, Timely(t), t.left \in Int, t.entered <= t.left,
           trades' = Append(trades, t)
    PROVE  TradesInv'
<1>1. PICK S : trades \in Seq(S)
  BY DEF TradesInv
<1>2. trades \in Seq(S \cup {t}) /\ t \in S \cup {t}
  BY <1>1
<1>3. trades' \in Seq(S \cup {t})
  BY <1>2
<1>4. ASSUME NEW i \in DOMAIN trades'
      PROVE  trades'[i] = t \/ (i \in DOMAIN trades /\ trades'[i] = trades[i])
  BY <1>2
<1> QED
  BY <1>3, <1>4 DEF TradesInv, Timely

-----------------------------------------------------------------------------
LEMMA HindsightInit == ReplayInit => HindsightInv
<1> SUFFICES ASSUME ReplayInit PROVE HindsightInv
  OBVIOUS
<1>1. AtInv
  BY ReplayAssumption DEF ReplayInit, AtInv
<1>2. trades \in Seq({})
  BY DEF ReplayInit
<1> QED
  BY <1>1, <1>2 DEF ReplayInit, HindsightInv, PendingInv, OpenInv, TradesInv

\* The position a bar leaves a symbol with, or none.
LEMMA HeldTimely ==
    ASSUME HindsightInv, NEW bar, bar.symbol = Symbol, bar.minute = at.minute
    PROVE  \A s \in DOMAIN Held(bar) :
              /\ Timely(Held(bar)[s])
              /\ Held(bar)[s].entered <= at.minute
              /\ s # bar.symbol => s \in DOMAIN open /\ Held(bar)[s] = open[s]
              /\ s = bar.symbol /\ s \notin DOMAIN pending
                    => s \in DOMAIN open /\ Held(bar)[s] = open[s]
              /\ s = bar.symbol /\ s \in DOMAIN pending => Held(bar)[s].entered = at.minute
<1> DEFINE s0 == bar.symbol
<1>1. at.turn \in DOMAIN Universe /\ at.minute \in Nat /\ s0 = Universe[at.turn] /\ at.turn \in Int
  BY ReplayAssumption DEF HindsightInv, AtInv, Symbol
<1>2. CASE s0 \in DOMAIN pending
  <2>1. pending[s0].decided \in Int /\ pending[s0].decided < at.minute
    BY <1>1, <1>2 DEF HindsightInv, PendingInv
  <2>2. Held(bar) = With(open, s0, Filled(pending[s0], bar))
    BY <1>2 DEF Held, OpenAfterFill
  <2>3. Timely(Filled(pending[s0], bar)) /\ Filled(pending[s0], bar).entered = at.minute
    BY <2>1, <1>1 DEF Filled, Timely
  <2> QED
    BY <2>2, <2>3, <1>1, <1>2 DEF HindsightInv, OpenInv, With
<1>3. CASE s0 \notin DOMAIN pending
  BY <1>3 DEF Held, OpenAfterFill, HindsightInv, OpenInv
<1> QED
  BY <1>2, <1>3

LEMMA ReplayBarKeeps ==
    ASSUME HindsightInv, NEW bar \in Recorded, ReplayBar(bar)
    PROVE  HindsightInv'
<1>1. bar.symbol = Symbol /\ bar.minute = at.minute
  BY DEF Recorded, BarOf
<1>2. /\ at.minute \in Nat /\ at.turn \in DOMAIN Universe
      /\ bar.symbol = Universe[at.turn]
  BY <1>1 DEF HindsightInv, AtInv, Symbol
<1>3. \A s \in DOMAIN Held(bar) :
         /\ Timely(Held(bar)[s])
         /\ Held(bar)[s].entered <= at.minute
         /\ s # bar.symbol => s \in DOMAIN open /\ Held(bar)[s] = open[s]
  BY <1>1, HeldTimely
<1>4. /\ at' = Onward /\ open' = OpenAfterExit(bar)
      /\ lastBar' = Restrict(With(lastBar, bar.symbol, bar), DOMAIN open')
  BY DEF ReplayBar
<1>5. AtInv' /\ at'.minute \in Nat /\ at'.minute >= at.minute
  BY <1>4, <1>2, OnwardAt DEF HindsightInv, AtInv, Onward
<1>6. OpenInv'
  <2>1. \A s \in DOMAIN open' : s \in DOMAIN Held(bar) /\ open'[s] = Held(bar)[s]
    BY <1>4 DEF OpenAfterExit, Without, Restrict
  <2> SUFFICES ASSUME NEW s \in DOMAIN open'
               PROVE  /\ Timely(open'[s])
                      /\ s \in DOMAIN lastBar'
                      /\ lastBar'[s].minute \in Int /\ open'[s].entered <= lastBar'[s].minute
                      /\ open'[s].entered <= at'.minute
    BY DEF OpenInv, Timely
  <2>2. Timely(open'[s]) /\ open'[s].entered <= at.minute
    BY <2>1, <1>3
  <2>3. s \in DOMAIN lastBar' /\ lastBar'[s] = With(lastBar, bar.symbol, bar)[s]
    BY <1>4 DEF Restrict
  <2>4. CASE s = bar.symbol
    <3>1. lastBar'[s] = bar
      BY <2>3, <2>4 DEF With
    <3> QED
      BY <3>1, <2>2, <2>3, <1>1, <1>2, <1>5 DEF Timely
  <2>5. CASE s # bar.symbol
    <3>1. s \in DOMAIN open /\ open'[s] = open[s]
      BY <2>1, <1>3, <2>5
    <3>2. lastBar'[s] = lastBar[s]
      BY <2>3, <2>5, <3>1 DEF With, HindsightInv, OpenInv
    <3>3. lastBar[s].minute \in Int /\ open[s].entered <= lastBar[s].minute
      BY <3>1 DEF HindsightInv, OpenInv
    <3>4. open'[s].entered \in Int /\ open'[s].entered <= at'.minute
      BY <2>2, <1>2, <1>5 DEF Timely
    <3> QED
      BY <3>1, <3>2, <3>3, <3>4, <2>2, <2>3
  <2> QED
    BY <2>4, <2>5
<1>7. TradesInv'
  <2>1. CASE Exits(bar)
    <3> DEFINE pos == Held(bar)[bar.symbol]
               t == Trade(pos, bar, Exit(pos, bar))
    <3>1. trades' = Append(trades, t)
      BY <2>1 DEF ReplayBar
    <3>2. Timely(pos) /\ pos.entered <= at.minute
      BY <2>1, <1>3 DEF Exits
    <3>3. Timely(t) /\ t.left \in Int /\ t.entered <= t.left
      BY <3>2, <1>1, <1>2 DEF Trade, Timely
    <3> HIDE DEF t
    <3> QED
      BY <3>1, <3>3, AppendTrade DEF HindsightInv
  <2>2. CASE ~Exits(bar)
    <3>1. trades' = trades
      BY <2>2 DEF ReplayBar
    <3> QED
      BY <3>1 DEF HindsightInv, TradesInv, Timely
  <2> QED
    BY <2>1, <2>2
<1>8. PendingInv'
  <2>1. \/ pending' = PendingAfterFill(bar)
        \/ pending' = With(PendingAfterFill(bar), bar.symbol, Entry(bar))
    BY DEF ReplayBar, Decide
  <2>2. Entry(bar).decided = at.minute
    BY <1>1 DEF Entry
  <2>3. \A s \in DOMAIN pending' :
           \/ s # bar.symbol /\ s \in DOMAIN pending /\ pending'[s] = pending[s]
           \/ s = bar.symbol /\ pending'[s] = Entry(bar)
    <3>1. \A s \in DOMAIN PendingAfterFill(bar) :
             s # bar.symbol /\ s \in DOMAIN pending /\ PendingAfterFill(bar)[s] = pending[s]
      BY DEF PendingAfterFill, Without, Restrict
    <3> QED
      BY <2>1, <3>1 DEF With
  <2> SUFFICES ASSUME NEW i \in DOMAIN Universe, Universe[i] \in DOMAIN pending'
               PROVE  /\ pending'[Universe[i]].decided \in Int
                      /\ i < at'.turn => pending'[Universe[i]].decided <= at'.minute
                      /\ i >= at'.turn => pending'[Universe[i]].decided < at'.minute
    BY DEF PendingInv
  <2>4. DOMAIN Universe = 1..Len(Universe) /\ Len(Universe) \in Nat
    BY ReplayAssumption
  <2>5. CASE i = at.turn
    <3>1. pending'[Universe[i]].decided = at.minute
      BY <2>2, <2>3, <2>5, <1>2
    <3> QED
      BY <3>1, <2>4, <2>5, <1>2, <1>4 DEF Onward
  <2>6. CASE i # at.turn
    <3>1. Universe[i] # bar.symbol
      BY <2>6, <1>2, ReplayAssumption
    <3>2. Universe[i] \in DOMAIN pending /\ pending'[Universe[i]] = pending[Universe[i]]
      BY <2>3, <3>1
    <3>3. /\ pending[Universe[i]].decided \in Int
          /\ i < at.turn => pending[Universe[i]].decided <= at.minute
          /\ i >= at.turn => pending[Universe[i]].decided < at.minute
      BY <3>2 DEF HindsightInv, PendingInv
    <3> QED
      BY <3>2, <3>3, <2>4, <2>6, <1>2, <1>4 DEF Onward
  <2> QED
    BY <2>5, <2>6
<1> QED
  BY <1>5, <1>6, <1>7, <1>8 DEF HindsightInv

LEMMA GapKeeps == HindsightInv /\ Gap => HindsightInv'
<1> SUFFICES ASSUME HindsightInv, Gap PROVE HindsightInv'
  OBVIOUS
<1>1. /\ at.minute \in Nat /\ at.turn \in DOMAIN Universe
      /\ DOMAIN Universe = 1..Len(Universe) /\ Len(Universe) \in Nat
  BY ReplayAssumption DEF HindsightInv, AtInv
<1>2. at' = Onward /\ UNCHANGED <<pending, open, trades, lastBar>>
  BY DEF Gap, books
<1>3. AtInv' /\ at'.minute \in Nat /\ at'.minute >= at.minute
  BY <1>1, <1>2, OnwardAt DEF HindsightInv, AtInv, Onward
<1>4. PendingInv'
  BY <1>1, <1>2 DEF HindsightInv, PendingInv, Onward
<1>5. OpenInv'
  BY <1>1, <1>2, <1>3 DEF HindsightInv, OpenInv, Timely
<1>6. TradesInv'
  BY <1>2 DEF HindsightInv, TradesInv, Timely
<1> QED
  BY <1>3, <1>4, <1>5, <1>6 DEF HindsightInv

LEMMA CloseDayKeeps ==
    ASSUME HindsightInv, NEW s, CloseDay(s)
    PROVE  HindsightInv'
<1> DEFINE t == Trade(open[s], lastBar[s], [price |-> lastBar[s].close, reason |-> "time_stop"])
<1>1. /\ s \in DOMAIN open /\ trades' = Append(trades, t)
      /\ open' = Without(open, s) /\ lastBar' = Restrict(lastBar, DOMAIN open')
      /\ UNCHANGED <<at, pending>>
  BY DEF CloseDay
<1>2. Timely(t) /\ t.left \in Int /\ t.entered <= t.left
  BY <1>1 DEF HindsightInv, OpenInv, Trade, Timely
<1> HIDE DEF t
<1>3. TradesInv'
  BY <1>1, <1>2, AppendTrade DEF HindsightInv
<1>4. OpenInv'
  BY <1>1 DEF HindsightInv, OpenInv, Timely, Without, Restrict
<1>5. AtInv' /\ PendingInv'
  BY <1>1 DEF HindsightInv, AtInv, PendingInv
<1> QED
  BY <1>3, <1>4, <1>5 DEF HindsightInv

\* The times of the loop, of pending entries, of positions and of trades.
THEOREM HindsightInvariant == ReplaySpec => []HindsightInv
<1>1. HindsightInv /\ [ReplayNext]_replayVars => HindsightInv'
  <2> SUFFICES ASSUME HindsightInv, [ReplayNext]_replayVars PROVE HindsightInv'
    OBVIOUS
  <2>1. CASE \E bar \in Recorded : ReplayBar(bar)
    BY <2>1, ReplayBarKeeps
  <2>2. CASE Gap
    BY <2>2, GapKeeps
  <2>3. CASE \E s \in Symbols : CloseDay(s)
    BY <2>3, CloseDayKeeps
  <2>4. CASE UNCHANGED replayVars
    BY <2>4 DEF replayVars, books, HindsightInv, AtInv, PendingInv, OpenInv, TradesInv, Timely
  <2> QED
    BY <2>1, <2>2, <2>3, <2>4 DEF ReplayNext
<1> QED
  BY <1>1, HindsightInit, PTL DEF ReplaySpec

\* The backtest has no look-ahead, whatever the bars and their gaps.
THEOREM NoLookAhead == ReplaySpec => []NoHindsight
<1>1. HindsightInv => NoHindsight
  BY DEF HindsightInv, OpenInv, TradesInv, Timely, NoHindsight
<1> QED
  BY <1>1, HindsightInvariant, PTL

-----------------------------------------------------------------------------
\* The size of a position.

\* The quotient of integers leaves a remainder below the divisor.
LEMMA Floor ==
    ASSUME NEW a \in Int, NEW b \in Nat \ {0}
    PROVE  /\ a \div b \in Int
           /\ b * (a \div b) <= a
           /\ a < b * (a \div b) + b
  OBVIOUS

\* The quantity is the largest whose loss at the stop stays within the risk
\* budget (module docstring of sizing.py), and its cost leaves a tenth of the
\* available capital.
THEOREM WithinBudget ==
    ASSUME NEW capital \in Nat, NEW available \in Int, NEW riskPct \in Nat,
           NEW entry \in Nat, NEW stop \in Nat,
           Accepted(SizePosition(capital, available, riskPct, entry, stop))
    PROVE  LET qty      == SizePosition(capital, available, riskPct, entry, stop).qty
               distance == StopDistance(entry, stop)
           IN  /\ 100 * distance * qty <= riskPct * capital
               /\ riskPct * capital < 100 * distance * qty + 100 * distance
               /\ 10 * qty * entry <= 9 * available
<1> DEFINE distance == StopDistance(entry, stop)
           sized == SizePosition(capital, available, riskPct, entry, stop)
           raw == RawQty(capital, riskPct, distance)
<1>1. distance \in Nat
  BY DEF StopDistance
<1>2. distance > 0 /\ sized.qty = raw /\ ~(10 * raw * entry > 9 * available)
  BY <1>1 DEF Accepted, SizePosition
<1>3. 100 * distance \in Nat \ {0} /\ riskPct * capital \in Int
  BY <1>1, <1>2
<1>4. /\ raw \in Int
      /\ (100 * distance) * raw <= riskPct * capital
      /\ riskPct * capital < (100 * distance) * raw + 100 * distance
  BY <1>3, Floor DEF RawQty
<1>5. 10 * raw * entry \in Int /\ 9 * available \in Int
  BY <1>4
<1> QED
  BY <1>1, <1>2, <1>3, <1>4, <1>5

\* A product grows with its factor.
LEMMA Grows ==
    ASSUME NEW b \in Nat \ {0}, NEW x \in Int, NEW y \in Int, x < y
    PROVE  b * (x + 1) <= b * y
<1> DEFINE k == y - (x + 1)
<1>1. k \in Nat /\ y = (x + 1) + k
  OBVIOUS
<1>2. b * k >= 0 /\ b * k \in Int
  BY <1>1
<1>3. b * y = b * (x + 1) + b * k
  BY <1>1
<1> QED
  BY <1>2, <1>3

\* It is the only number with that remainder.
LEMMA OneFloor ==
    ASSUME NEW a \in Int, NEW b \in Nat \ {0}, NEW n \in Int
    PROVE  (b * n <= a /\ a < b * (n + 1)) <=> n = a \div b
<1> DEFINE q == a \div b
<1>1. q \in Int /\ b * q <= a /\ a < b * (q + 1)
  BY Floor
<1> HIDE DEF q
<1>2. ASSUME b * n <= a, a < b * (n + 1), n < q PROVE FALSE
  <2>1. b * (n + 1) <= b * q /\ b * (n + 1) \in Int /\ b * q \in Int
    BY <1>1, <1>2, Grows
  <2> QED
    BY <2>1, <1>1, <1>2
<1>3. ASSUME b * n <= a, a < b * (n + 1), q < n PROVE FALSE
  <2>1. b * (q + 1) <= b * n /\ b * (q + 1) \in Int /\ b * n \in Int
    BY <1>1, <1>3, Grows
  <2> QED
    BY <2>1, <1>1, <1>3
<1> QED
  BY <1>1, <1>2, <1>3 DEF q

\* A share at a time: no more of them than the capital has units.
LEMMA AtMostCapital ==
    ASSUME NEW capital \in Nat, NEW riskPct \in 0..100, NEW distance \in Nat \ {0},
           NEW qty \in Nat, (100 * distance) * qty <= riskPct * capital
    PROVE  qty <= capital
<1>1. distance * qty >= qty /\ distance * qty \in Nat
  <2>1. distance - 1 \in Nat /\ (distance - 1) * qty >= 0
    OBVIOUS
  <2> QED
    BY <2>1
<1>2. riskPct * capital <= 100 * capital /\ riskPct * capital \in Nat
  <2>1. 100 - riskPct \in Nat /\ (100 - riskPct) * capital >= 0
    OBVIOUS
  <2> QED
    BY <2>1
<1>3. (100 * distance) * qty = 100 * (distance * qty)
  OBVIOUS
<1> QED
  BY <1>1, <1>2, <1>3

\* The requests the run asks, for any amounts the assumptions allow.
AskedInv == part = "sizing" => asked \in Requests

LEMMA AskedAlways == Spec => []AskedInv
<1>1. Init => AskedInv
  BY DEF Init, AskedInv
<1>2. AskedInv /\ [Next]_vars => AskedInv'
  BY DEF AskedInv, Next, vars, Ask, Requests
<1> QED
  BY <1>1, <1>2, PTL DEF Spec

\* size_position takes a request just when some quantity of at least one share
\* is the largest within the risk budget and costs at most nine tenths of the
\* cash, and that quantity is its answer, for all amounts.
THEOREM SizesWithinBudgetCorrect == Spec => []SizesWithinBudget
<1>1. ASSUME AskedInv, part = "sizing" PROVE SizesWithinBudget
  <2> PICK capital, available, riskPct, entry, stop :
         /\ capital = asked.capital /\ available = asked.available /\ riskPct = asked.riskPct
         /\ entry = asked.entry /\ stop = asked.stop
    OBVIOUS
  <2>1. /\ capital \in Nat /\ available \in Nat /\ riskPct \in 0..100
        /\ entry \in Nat /\ stop \in Nat
    <3>1. /\ asked.capital \in Capitals /\ asked.available \in 0..MaxCash
          /\ asked.riskPct \in RiskPcts
          /\ asked.entry \in 0..MaxPrice /\ asked.stop \in 0..MaxPrice
      BY <1>1, Zenon DEF AskedInv, Requests
    <3>2. /\ capital \in Capitals /\ available \in 0..MaxCash /\ riskPct \in RiskPcts
          /\ entry \in 0..MaxPrice /\ stop \in 0..MaxPrice
      BY <3>1
    <3>3. capital \in Nat /\ riskPct \in 0..100
      BY <3>2, RequestAssumption, Zenon
    <3>4. available \in Nat /\ entry \in Nat /\ stop \in Nat
      BY <3>2
    <3> QED
      BY <3>3, <3>4
  <2> DEFINE distance == StopDistance(entry, stop)
             a == riskPct * capital
             raw == RawQty(capital, riskPct, distance)
             sized == SizePosition(capital, available, riskPct, entry, stop)
             Right(n) == entry > 0 /\ IsSize(n) /\ 10 * n * entry <= 9 * available
             right == {n \in 1..capital : Right(n)}
  <2>2. distance \in Nat /\ a \in Nat
    BY <2>1 DEF StopDistance
  <2>3. SizesWithinBudget <=> right = IF Accepted(sized) THEN {sized.qty} ELSE {}
    BY <1>1 DEF SizesWithinBudget
  <2>4. ASSUME NEW n \in Int
        PROVE  IsSize(n) <=> (100 * distance) * n <= a /\ a < (100 * distance) * (n + 1)
    <3>1. IsSize(n) <=> 100 * (n * distance) <= a /\ 100 * ((n + 1) * distance) > a
      BY DEF IsSize, LossAtStop
    <3>2. /\ 100 * (n * distance) = (100 * distance) * n
          /\ 100 * ((n + 1) * distance) = (100 * distance) * (n + 1)
      BY <2>2
    <3>3. (100 * distance) * (n + 1) \in Int
      BY <2>2
    <3> QED
      BY <3>1, <3>2, <3>3, <2>2
  <2>5. CASE distance = 0
    <3>1. ~Accepted(sized)
      BY <2>5 DEF Accepted, SizePosition
    <3>2. \A n \in 1..capital : ~IsSize(n)
      <4> TAKE n \in 1..capital
      <4>1. (100 * distance) * (n + 1) = 0
        BY <2>1, <2>5
      <4> QED
        BY <4>1, <2>1, <2>2, <2>4
    <3> QED
      BY <2>3, <3>1, <3>2
  <2>6. CASE distance # 0
    <3>1. 100 * distance \in Nat \ {0} /\ distance \in Nat \ {0}
      BY <2>2, <2>6
    <3>2. raw = a \div (100 * distance)
      BY DEF RawQty
    <3>3. raw \in Int /\ (100 * distance) * raw <= a
      <4>1. PICK unit \in Nat \ {0} : unit = 100 * distance
        BY <3>1
      <4>2. PICK budget \in Nat : budget = a
        BY <2>2
      <4>3. (budget \div unit) \in Int /\ unit * (budget \div unit) <= budget
        BY Floor, SMTT(60)
      <4> QED
        BY <3>2, <4>1, <4>2, <4>3, SMTT(60)
    <3> HIDE DEF raw, a, distance
    <3>4. ASSUME NEW n \in Int PROVE IsSize(n) <=> n = raw
      <4>1. a \in Int
        BY <2>2
      <4>2. /\ (100 * distance) * n <= a /\ a < (100 * distance) * (n + 1)
            <=> n = a \div (100 * distance)
        BY <3>1, <4>1, OneFloor
      <4> QED
        BY <4>2, <2>4, <3>2
    <3> USE DEF a, distance
    <3>5. raw >= 1 => raw \in 1..capital
      BY <2>1, <3>1, <3>3, AtMostCapital
    <3>6. 10 * raw * entry \in Int /\ 9 * available \in Int
      BY <3>3, <2>1
    <3>7. /\ Accepted(sized) <=> entry > 0 /\ raw >= 1 /\ 10 * raw * entry <= 9 * available
          /\ Accepted(sized) => sized.qty = raw
      <4> HIDE DEF distance
      <4>1. /\ sized = IF entry <= 0 THEN [qty |-> 0, rejected |-> "entry<=0"]
                       ELSE IF raw < 1 THEN [qty |-> 0, rejected |-> "qty_below_1_stop_too_wide"]
                       ELSE IF 10 * raw * entry > 9 * available
                       THEN [qty |-> raw, rejected |-> "notional_exceeds_90pct_available"]
                       ELSE [qty |-> raw, rejected |-> "none"]
        BY <3>1 DEF SizePosition, raw, distance
      <4> QED
        BY <4>1, <2>1, <3>3, <3>6 DEF Accepted
    <3>8. right = {n \in {raw} : entry > 0 /\ n >= 1 /\ 10 * n * entry <= 9 * available}
      BY <3>3, <3>4, <3>5
    <3> QED
      BY <2>3, <3>7, <3>8
  <2> QED
    BY <2>5, <2>6
<1>2. AskedInv => SizesWithinBudget
  BY <1>1 DEF SizesWithinBudget
<1> QED
  BY <1>2, AskedAlways, PTL

-----------------------------------------------------------------------------
\* The cache.

\* What the files and the script's answers are; an answer in the pause is the
\* backtest's, the last of its pair, which has no file with a list.
CacheTypes ==
    /\ file \in [1..Pairs -> Answers \cup {NoFile, Cut}]
    /\ served \in [1..Pairs -> Seq(Answers)]
    /\ unsaved \in [1..Pairs -> SUBSET Nat]
    /\ resp \in Answers \cup {NoResp}
    /\ out \in Seq(Answers \cup {"missing"})
    /\ next \in Nat \ {0}
    /\ Running => next <= Pairs + 1 /\ Len(out) = next - 1
    /\ resp # NoResp => /\ script = "backtest" /\ next <= Pairs
                        /\ file[next] \in {NoFile, "null"}
                        /\ served[next] # <<>> /\ LastServed(next) = resp

\* An answer that keeps its pair from no further call: without a list, lost to a
\* kill, or still in the pause.
Spent(p, i) ==
    \/ served[p][i] = "null"
    \/ i \in unsaved[p]
    \/ resp # NoResp /\ p = next /\ i = Len(served[p])

\* A file with a list holds the last answer; as long as a pair may be asked for
\* again, all its answers are spent.
FileServed ==
    \A p \in 1..Pairs :
       /\ file[p] \in Answers \ {"null"} => served[p] # <<>> /\ file[p] = LastServed(p)
       /\ file[p] \in {NoFile, "null"} => \A i \in DOMAIN served[p] : Spent(p, i)
       /\ \A i \in 1..(Len(served[p]) - 1) : served[p][i] = "null" \/ i \in unsaved[p]

\* What a script has in its hands is the last answer.
OutServed ==
    /\ Running => \A p \in DOMAIN out : out[p] = "missing" \/ out[p] = LastServed(p)
    /\ script = "sweep" => \A p \in DOMAIN out : out[p] # "null"
    /\ script = "done" => \A p \in 1..Pairs : out[p] = LastServed(p)

CacheInv == CacheTypes /\ FileServed /\ OutServed

\* The next answer in the script's hands.
LEMMA GotKeeps ==
    ASSUME CacheInv, Running, next <= Pairs, NEW answer \in Answers \cup {"missing"},
           Got(answer)
    PROVE  /\ out' \in Seq(Answers \cup {"missing"})
           /\ next' \in Nat \ {0} /\ next' <= Pairs + 1 /\ Len(out') = next' - 1
           /\ DOMAIN out = 1..(next - 1) /\ DOMAIN out' = 1..next
           /\ \A p \in DOMAIN out : out'[p] = out[p]
           /\ out'[next] = answer
<1> DEFINE S == Answers \cup {"missing"}
<1>1. /\ out \in Seq(S) /\ next \in Nat \ {0} /\ next <= Pairs /\ Len(out) = next - 1
      /\ out' = Append(out, answer) /\ next' = next + 1 /\ Pairs \in Nat
  BY CacheAssumption DEF CacheInv, CacheTypes, Got
<1> HIDE DEF S
<1>2. answer \in S
  BY DEF S
<1>3. /\ out' \in Seq(S) /\ Len(out') = Len(out) + 1
      /\ \A p \in 1..Len(out) : out'[p] = out[p]
      /\ out'[Len(out) + 1] = answer
  BY <1>1, <1>2
<1>4. DOMAIN out = 1..Len(out) /\ DOMAIN out' = 1..Len(out')
  BY <1>1, <1>3
<1> QED
  BY <1>1, <1>3, <1>4 DEF S

\* An answer of the API's, one more of its pair: all before it are spent.
LEMMA AnswerServed ==
    ASSUME CacheInv, NEW answer \in Answers, Answer(answer)
    PROVE  /\ served' \in [1..Pairs -> Seq(Answers)]
           /\ FileServed'
           /\ served'[next] # <<>> /\ served'[next][Len(served'[next])] = answer
           /\ \A p \in 1..Pairs : p # next => served'[p] = served[p]
<1>1. /\ next \in 1..Pairs /\ file[next] \in {NoFile, "null"} /\ resp = NoResp /\ resp' = answer
      /\ UNCHANGED <<file, next, unsaved>>
      /\ file \in [1..Pairs -> Answers \cup {NoFile, Cut}]
      /\ served \in [1..Pairs -> Seq(Answers)]
      /\ served' = [served EXCEPT ![next] = Append(@, answer)]
  BY CacheAssumption DEF CacheInv, CacheTypes, Answer, Asking, InLoop, LoadCached
<1> PICK q, r, lost : q = served[next] /\ r = served'[next] /\ lost = unsaved[next]
  OBVIOUS
<1>2. /\ q \in Seq(Answers) /\ r = Append(q, answer)
      /\ \A i \in DOMAIN q : q[i] = "null" \/ i \in lost
  BY <1>1 DEF CacheInv, FileServed, Spent
<1>3. /\ r \in Seq(Answers) /\ Len(r) = Len(q) + 1 /\ Len(q) \in Nat /\ r[Len(q) + 1] = answer
      /\ \A i \in 1..Len(q) : r[i] = "null" \/ i \in lost
  BY <1>2
<1>4. /\ served' \in [1..Pairs -> Seq(Answers)]
      /\ \A p \in 1..Pairs : p # next => served'[p] = served[p]
  BY <1>1, <1>2, <1>3
<1>5. served'[next] # <<>> /\ served'[next][Len(served'[next])] = answer
  BY <1>3
<1>6. answer # NoResp
  BY DEF Answers, NoResp
<1>7. FileServed'
  <2> SUFFICES ASSUME NEW p \in 1..Pairs
               PROVE  /\ file'[p] \in Answers \ {"null"} =>
                            served'[p] # <<>> /\ file'[p] = served'[p][Len(served'[p])]
                      /\ file'[p] \in {NoFile, "null"} =>
                            \A i \in DOMAIN served'[p] :
                               \/ served'[p][i] = "null" \/ i \in unsaved'[p]
                               \/ resp' # NoResp /\ p = next' /\ i = Len(served'[p])
                      /\ \A i \in 1..(Len(served'[p]) - 1) :
                            served'[p][i] = "null" \/ i \in unsaved'[p]
    BY DEF FileServed, LastServed, Spent, Answers, NoFile, NoResp
  <2>1. CASE p # next
    BY <1>1, <1>4, <2>1 DEF CacheInv, FileServed, LastServed, Spent
  <2>2. CASE p = next
    <3>1. /\ file'[p] = file[next] /\ served'[p] = r /\ unsaved'[p] = lost /\ next' = next
      BY <1>1, <2>2
    <3>2. \A i \in 1..(Len(r) - 1) : r[i] = "null" \/ i \in lost
      BY <1>3
    <3>3. \A i \in DOMAIN r : r[i] = "null" \/ i \in lost \/ i = Len(r)
      BY <1>3
    <3>4. file[next] \notin Answers \ {"null"}
      BY <1>1 DEF NoFile, Answers
    <3> QED
      BY <1>1, <1>6, <2>2, <3>1, <3>2, <3>3, <3>4
  <2> QED
    BY <2>1, <2>2
<1> QED
  BY <1>4, <1>5, <1>7

\* The answer in the pause gets its file, whole or cut short.
LEMMA WriteServed ==
    ASSUME CacheInv, resp # NoResp, NEW content \in {resp, Cut},
           file' = [file EXCEPT ![next] = content], resp' = NoResp,
           UNCHANGED <<served, unsaved>>
    PROVE  /\ file' \in [1..Pairs -> Answers \cup {NoFile, Cut}]
           /\ FileServed'
<1>1. /\ next \in 1..Pairs /\ file[next] \in {NoFile, "null"} /\ resp \in Answers
      /\ file \in [1..Pairs -> Answers \cup {NoFile, Cut}]
      /\ served[next] # <<>> /\ LastServed(next) = resp
      /\ served[next] \in Seq(Answers)
  BY CacheAssumption DEF CacheInv, CacheTypes
<1>2. /\ file' \in [1..Pairs -> Answers \cup {NoFile, Cut}]
      /\ file'[next] = content
      /\ \A p \in 1..Pairs : p # next => file'[p] = file[p]
  BY <1>1
<1>3. FileServed'
  <2> SUFFICES ASSUME NEW p \in 1..Pairs
               PROVE  /\ file'[p] \in Answers \ {"null"} =>
                            served[p] # <<>> /\ file'[p] = LastServed(p)
                      /\ file'[p] \in {NoFile, "null"} =>
                            \A i \in DOMAIN served[p] : served[p][i] = "null" \/ i \in unsaved[p]
                      /\ \A i \in 1..(Len(served[p]) - 1) :
                            served[p][i] = "null" \/ i \in unsaved[p]
    BY DEF FileServed, LastServed, Spent, Answers, NoFile, NoResp
  <2>1. CASE p # next
    BY <1>2, <2>1 DEF CacheInv, FileServed, Spent
  <2>2. CASE p = next
    <3> PICK q, lost : q = served[next] /\ lost = unsaved[next]
      OBVIOUS
    <3>1. /\ q \in Seq(Answers) /\ q # <<>> /\ q[Len(q)] = resp
          /\ \A i \in 1..(Len(q) - 1) : q[i] = "null" \/ i \in lost
      BY <1>1 DEF CacheInv, FileServed, LastServed
    <3>2. content \in {NoFile, "null"} => q[Len(q)] = "null"
      BY <1>1, <3>1 DEF NoFile, Cut, Answers
    <3>3. \A i \in DOMAIN q : i \in 1..(Len(q) - 1) \/ i = Len(q)
      BY <3>1
    <3>4. content \in Answers => content = resp
      BY DEF Cut, Answers
    <3>5. content \in {NoFile, "null"} => \A i \in DOMAIN q : q[i] = "null" \/ i \in lost
      BY <3>1, <3>2, <3>3
    <3> QED
      BY <1>2, <2>2, <3>1, <3>4, <3>5, <1>1
  <2> QED
    BY <2>1, <2>2
<1> QED
  BY <1>2, <1>3


\* Up to the pair reached: those before it, and itself.
LEMMA Reached ==
    ASSUME NEW n \in 1..Pairs, NEW before, before = 1..(n - 1), NEW upto, upto = 1..n
    PROVE  \A p \in upto : p \in 1..Pairs /\ (p = n \/ (p # n /\ p \in before))
  BY CacheAssumption

LEMMA CacheStep ==
    ASSUME CacheInv, [CacheNext]_cacheVars
    PROVE  CacheInv'
<1> USE DEF CacheInv
<1>1. ASSUME UNCHANGED <<file, served, unsaved, resp>>, next' = next \/ resp = NoResp
      PROVE  /\ file' \in [1..Pairs -> Answers \cup {NoFile, Cut}]
             /\ served' \in [1..Pairs -> Seq(Answers)]
             /\ unsaved' \in [1..Pairs -> SUBSET Nat]
             /\ resp' \in Answers \cup {NoResp}
             /\ FileServed'
             /\ \A p \in 1..Pairs : LastServed(p)' = LastServed(p)
  BY <1>1 DEF CacheTypes, FileServed, LastServed, Spent
<1>2. CASE UNCHANGED cacheVars
  BY <1>2 DEF cacheVars, CacheTypes, FileServed, OutServed, LastServed, Running, Spent
<1>3. ASSUME NEW which \in {"backtest", "sweep"}, StartScript(which)
      PROVE  CacheInv'
  <2>1. /\ script' = which /\ next' = 1 /\ out' = <<>> /\ UNCHANGED <<file, served, unsaved, resp>>
        /\ resp = NoResp /\ Pairs \in Nat
    BY <1>3, CacheAssumption DEF StartScript, CacheTypes, Running
  <2>2. out' \in Seq(Answers \cup {"missing"}) /\ Len(out') = 0 /\ DOMAIN out' = {}
    BY <2>1
  <2> QED
    BY <1>1, <2>1, <2>2 DEF CacheTypes, OutServed
<1>4. CASE FromCache
  <2>1. /\ InLoop /\ Running /\ LoadCached(next) /\ Got(file[next])
        /\ UNCHANGED <<file, script, served, unsaved, resp>> /\ resp = NoResp
        /\ next \in 1..Pairs /\ next <= Pairs
    BY <1>4, CacheAssumption DEF FromCache, InLoop, CacheTypes
  <2>2. /\ file[next] \in Answers /\ file[next] # "null"
        /\ file[next] = LastServed(next)
    BY <2>1 DEF LoadCached, CacheTypes, FileServed
  <2>3. /\ out' \in Seq(Answers \cup {"missing"})
        /\ next' \in Nat \ {0} /\ next' <= Pairs + 1 /\ Len(out') = next' - 1
        /\ DOMAIN out = 1..(next - 1) /\ DOMAIN out' = 1..next
        /\ \A p \in DOMAIN out : out'[p] = out[p]
        /\ out'[next] = file[next]
    BY <2>1, <2>2, GotKeeps
  <2>4. \A p \in DOMAIN out' : p \in 1..Pairs /\ (p = next \/ p \in DOMAIN out)
    BY <2>1, <2>3, Reached, Zenon
  <2>5. OutServed'
    <3>1. script' = script /\ Running /\ Running'
      BY <2>1 DEF InLoop, Running
    <3>2. \A p \in DOMAIN out' : out'[p] = "missing" \/ out'[p] = LastServed(p)'
      BY <1>1, <2>1, <2>2, <2>3, <2>4, <3>1 DEF OutServed
    <3>3. script = "sweep" => \A p \in DOMAIN out' : out'[p] # "null"
      BY <2>2, <2>3, <2>4 DEF OutServed
    <3> QED
      BY <3>1, <3>2, <3>3 DEF OutServed, Running
  <2> QED
    BY <1>1, <2>1, <2>3, <2>5 DEF CacheTypes
<1>5. CASE Missing
  <2>1. /\ InLoop /\ Running /\ script = "sweep" /\ Got("missing")
        /\ UNCHANGED <<file, script, served, unsaved, resp>> /\ resp = NoResp
        /\ next \in 1..Pairs /\ next <= Pairs
    BY <1>5, CacheAssumption DEF Missing, InLoop, CacheTypes
  <2>2. /\ out' \in Seq(Answers \cup {"missing"})
        /\ next' \in Nat \ {0} /\ next' <= Pairs + 1 /\ Len(out') = next' - 1
        /\ DOMAIN out = 1..(next - 1) /\ DOMAIN out' = 1..next
        /\ \A p \in DOMAIN out : out'[p] = out[p]
        /\ out'[next] = "missing"
    BY <2>1, GotKeeps
  <2>3. \A p \in DOMAIN out' : p \in 1..Pairs /\ (p = next \/ p \in DOMAIN out)
    BY <2>1, <2>2, Reached, Zenon
  <2>4. OutServed'
    <3>1. script' = "sweep" /\ Running /\ Running'
      BY <2>1 DEF InLoop, Running
    <3>2. \A p \in DOMAIN out' : out'[p] = "missing" \/ out'[p] = LastServed(p)'
      BY <1>1, <2>1, <2>2, <2>3, <3>1 DEF OutServed
    <3>3. \A p \in DOMAIN out' : out'[p] # "null"
      BY <2>1, <2>2, <2>3 DEF OutServed
    <3> QED
      BY <3>1, <3>2, <3>3 DEF OutServed, Running
  <2> QED
    BY <1>1, <2>1, <2>2, <2>4 DEF CacheTypes
<1>6. ASSUME NEW answer \in Answers, Answer(answer)
      PROVE  CacheInv'
  <2>1. /\ Running /\ script = "backtest" /\ UNCHANGED <<script, file, next, out, unsaved>>
        /\ next \in 1..Pairs /\ next <= Pairs /\ resp' = answer
        /\ file[next] \in {NoFile, "null"} /\ Len(out) = next - 1
    BY <1>6, CacheAssumption DEF Answer, Asking, InLoop, LoadCached, CacheTypes
  <2>2. /\ served' \in [1..Pairs -> Seq(Answers)]
        /\ FileServed'
        /\ served'[next] # <<>> /\ served'[next][Len(served'[next])] = answer
        /\ \A p \in 1..Pairs : p # next => served'[p] = served[p]
    BY <1>6, AnswerServed
  <2>3. \A p \in DOMAIN out : p \in 1..Pairs /\ p # next
    BY <2>1, CacheAssumption DEF CacheTypes
  <2>4. \A p \in DOMAIN out : out[p] = "missing" \/ out[p] = LastServed(p)'
    BY <2>1, <2>2, <2>3 DEF OutServed, LastServed
  <2>5. OutServed'
    BY <2>1, <2>4 DEF OutServed
  <2>6. CacheTypes'
    BY <2>1, <2>2 DEF CacheTypes, LastServed, Running
  <2> QED
    BY <2>2, <2>5, <2>6
<1>7. CASE Save
  <2>1. /\ resp # NoResp /\ resp' = NoResp /\ Got(resp) /\ script = "backtest" /\ Running
        /\ file' = [file EXCEPT ![next] = resp] /\ UNCHANGED <<script, served, unsaved>>
        /\ next \in 1..Pairs /\ next <= Pairs /\ resp \in Answers /\ LastServed(next) = resp
    BY <1>7, CacheAssumption DEF Save, CacheTypes, Running
  <2>2. file' \in [1..Pairs -> Answers \cup {NoFile, Cut}] /\ FileServed'
    BY <2>1, WriteServed
  <2>3. /\ out' \in Seq(Answers \cup {"missing"})
        /\ next' \in Nat \ {0} /\ next' <= Pairs + 1 /\ Len(out') = next' - 1
        /\ DOMAIN out = 1..(next - 1) /\ DOMAIN out' = 1..next
        /\ \A p \in DOMAIN out : out'[p] = out[p]
        /\ out'[next] = resp
    BY <2>1, GotKeeps
  <2>4. \A p \in DOMAIN out' : p = next \/ (p \in DOMAIN out /\ p # next /\ p \in 1..Pairs)
    BY <2>1, <2>3, Reached, Zenon
  <2>5. \A p \in DOMAIN out' : out'[p] = "missing" \/ out'[p] = LastServed(p)
    BY <2>1, <2>3, <2>4 DEF OutServed
  <2>6. \A p : LastServed(p)' = LastServed(p)
    BY <2>1 DEF LastServed
  <2>7. OutServed'
    BY <2>1, <2>5, <2>6 DEF OutServed
  <2> QED
    BY <2>1, <2>2, <2>3, <2>7 DEF CacheTypes
<1>8. CASE KilledInWrite
  <2>1. /\ resp # NoResp /\ resp' = NoResp /\ script' = "failed"
        /\ file' = [file EXCEPT ![next] = Cut] /\ UNCHANGED <<next, out, served, unsaved>>
    BY <1>8 DEF KilledInWrite
  <2>2. file' \in [1..Pairs -> Answers \cup {NoFile, Cut}] /\ FileServed'
    BY <2>1, WriteServed
  <2> QED
    BY <2>1, <2>2 DEF CacheTypes, OutServed, Running
<1>9. CASE Killed
  <2>1. /\ resp' = NoResp /\ script' = "failed" /\ UNCHANGED <<file, next, out, served>>
        /\ unsaved' = IF resp = NoResp THEN unsaved
                      ELSE [unsaved EXCEPT ![next] = @ \cup {Len(served[next])}]
    BY <1>9 DEF Killed
  <2>2. /\ unsaved' \in [1..Pairs -> SUBSET Nat]
        /\ \A p \in 1..Pairs : \A i : i \in unsaved[p] => i \in unsaved'[p]
        /\ resp # NoResp => Len(served[next]) \in unsaved'[next]
    <3>1. resp # NoResp => next \in 1..Pairs /\ Len(served[next]) \in Nat
      BY CacheAssumption DEF CacheTypes
    <3> QED
      BY <2>1, <3>1 DEF CacheTypes
  <2>3. FileServed'
    BY <2>1, <2>2 DEF FileServed, LastServed, Spent
  <2> QED
    BY <2>1, <2>2, <2>3 DEF CacheTypes, OutServed, Running
<1>10. CASE Loaded
  <2>1. /\ Running /\ next > Pairs /\ UNCHANGED <<file, next, out, served, unsaved, resp>>
        /\ script' = IF \E p \in 1..Pairs : out[p] = "missing" THEN "failed" ELSE "done"
        /\ next = Pairs + 1 /\ DOMAIN out = 1..Pairs /\ resp = NoResp
    BY <1>10, CacheAssumption DEF Loaded, CacheTypes
  <2>2. script' = "done" => \A p \in 1..Pairs : out[p] = LastServed(p)
    BY <2>1 DEF OutServed
  <2>3. ~Running' /\ script' # "sweep"
    BY <2>1 DEF Running
  <2> QED
    BY <1>1, <2>1, <2>2, <2>3 DEF CacheTypes, OutServed
<1>11. CASE Unreadable \/ Refused \/ RateLimited
  <2>1. UNCHANGED <<file, next, out, served, unsaved, resp>> /\ resp = NoResp
        /\ (script' = script \/ script' = "failed")
    BY <1>11 DEF Unreadable, Refused, RateLimited, Asking, InLoop
  <2>2. CASE script' = "failed"
    BY <1>1, <2>1, <2>2 DEF CacheTypes, OutServed, Running
  <2>3. CASE script' = script
    BY <1>1, <2>1, <2>3 DEF CacheTypes, OutServed, Running, LastServed
  <2> QED
    BY <2>1, <2>2, <2>3
<1>12. CASE SessionEnds
  <2>1. UNCHANGED <<file, next, out, served, unsaved, resp, script>>
    BY <1>12 DEF SessionEnds
  <2> QED
    BY <1>1, <2>1 DEF CacheTypes, OutServed, Running, LastServed
<1> QED
  BY <1>2, <1>3, <1>4, <1>5, <1>6, <1>7, <1>8, <1>9, <1>10, <1>11, <1>12 DEF CacheNext

\* Over reruns, kills, refusals and files cut short: a script that completes
\* has of each pair what the API answered last, a pair is asked for again only
\* after answers without a list and after kills in the pause before an answer
\* is saved, and no sweep takes an answer without a list for a day without bars
\* (fetch_day_raw, load_cached_raw), for any number of pairs and scripts.
THEOREM CacheKeptCorrect == Spec => []CacheKept
<1>1. Spec => CacheInit /\ [][CacheNext]_cacheVars
  <2>1. Init => CacheInit
    BY DEF Init
  <2>2. [Next]_vars => [CacheNext]_cacheVars
    BY DEF Next, vars
  <2> QED
    BY <2>1, <2>2, PTL DEF Spec
<1>2. CacheInit => CacheInv
  BY CacheAssumption DEF CacheInit, CacheInv, CacheTypes, FileServed, OutServed, Running,
     LastServed, Answers, NoFile, NoResp
<1>3. CacheInv /\ [CacheNext]_cacheVars => CacheInv'
  BY CacheStep
<1>4. CacheInv => CacheKept
  BY DEF CacheInv, FileServed, OutServed, CacheKept
<1> QED
  BY <1>1, <1>2, <1>3, <1>4, PTL


-----------------------------------------------------------------------------
\* The counters of the replayed day.

\* What the strategy holds of a symbol, and what its numbers are.
Ranges == [day : Int, high : Int, low : Int, locked : BOOLEAN, signaled : BOOLEAN,
           volumes : Seq(Int)]
RangeInv == orb \in [Symbols -> Ranges]

Whole(p) == p.qty \in Int /\ p.stop \in Int /\ p.target \in Int
WholeBar(bar) == bar.open \in Int /\ bar.high \in Int /\ bar.low \in Int /\ bar.close \in Int
BooksInv ==
    /\ IsFiniteSet(DOMAIN open) /\ IsFiniteSet(DOMAIN pending)
    /\ DOMAIN open \cap DOMAIN pending = {}
    /\ \A s \in DOMAIN pending : Whole(pending[s])
    /\ \A s \in DOMAIN open : Whole(open[s]) /\ open[s].price \in Int
                              /\ s \in DOMAIN lastBar /\ lastBar[s].close \in Int

CountInv ==
    /\ tradesToday \in Int /\ blocked \in [Gates -> Int]
    /\ signalsFired = tradesToday + SumOf(blocked, Gates)
    /\ tradesToday = Len(trades) + Cardinality(DOMAIN open) + Cardinality(DOMAIN pending)

Nets(ts) == [i \in DOMAIN ts |-> ts[i].net]
MoneyInv ==
    /\ \A i \in DOMAIN trades : trades[i].net \in Int
    /\ dayPnl = SumOf(Nets(trades), DOMAIN trades)

DayInv == RangeInv /\ BooksInv /\ CountInv /\ MoneyInv

LEMMA HigherLower ==
    ASSUME NEW a \in Int, NEW b \in Int
    PROVE  Max({a, b}) \in Int /\ Min({a, b}) \in Int
<1>1. (\E x \in {a, b} : \A y \in {a, b} : x >= y) /\ (\E x \in {a, b} : \A y \in {a, b} : x <= y)
  BY SMT
<1>2. Max({a, b}) \in {a, b}
  BY <1>1, Zenon DEF Max
<1>3. Min({a, b}) \in {a, b}
  BY <1>1, Zenon DEF Min
<1> QED
  BY <1>2, <1>3

LEMMA RecordedBar ==
    ASSUME NEW bar \in Recorded, AtInv
    PROVE  /\ bar.symbol = Symbol /\ bar.symbol \in Symbols /\ bar.minute = at.minute
           /\ at.minute \in Nat /\ WholeBar(bar) /\ bar.volume = 1
           /\ bar.low <= bar.open /\ bar.open <= bar.high
           /\ bar.low <= bar.close /\ bar.close <= bar.high
<1>1. PICK shape \in RangeBars \cup LaterBars : bar = BarOf(shape)
  BY DEF Recorded
<1>2. at.turn \in DOMAIN Universe /\ at.minute \in Nat
  BY DEF AtInv
<1>3. /\ shape.open \in Int /\ shape.high \in Int /\ shape.low \in Int /\ shape.close \in Int
      /\ shape.low <= shape.open /\ shape.open <= shape.high
      /\ shape.low <= shape.close /\ shape.close <= shape.high
  BY ReplayAssumption
<1> QED
  BY <1>1, <1>2, <1>3 DEF BarOf, Symbol, Symbols, WholeBar

\* The strategy's numbers stay numbers.
LEMMA AfterRanges ==
    ASSUME NEW st \in Ranges, NEW bar, WholeBar(bar), bar.volume \in Int
    PROVE  After(st, bar) \in Ranges
<1>1. Widened(st, bar) \in Ranges
  <2>1. /\ Max({st.high, bar.high}) \in Int /\ Min({st.low, bar.low}) \in Int
        /\ bar.high \in Int /\ bar.low \in Int
    BY HigherLower DEF Ranges, WholeBar
  <2> QED
    BY <2>1 DEF Widened, Ranges
<1>2. [st EXCEPT !.locked = TRUE, !.signaled = @ \/ BreaksOut(st, bar)] \in Ranges
  BY DEF Ranges
<1>3. ASSUME NEW r \in Ranges PROVE Noted(r, bar) \in Ranges
  <2>1. r.volumes \in Seq(Int)
    BY DEF Ranges
  <2>2. Len(r.volumes) = Lookback => Tail(r.volumes) \in Seq(Int)
    BY <2>1, StrategyAssumption
  <2>3. ASSUME NEW q \in Seq(Int) PROVE Append(q, bar.volume) \in Seq(Int)
    OBVIOUS
  <2> QED
    BY <2>1, <2>2, <2>3 DEF Noted, Ranges
<1> QED
  BY <1>1, <1>2, <1>3 DEF After

\* What on_bar makes of a recorded bar.
LEMMA SignalWhole ==
    ASSUME RangeInv, NEW bar, WholeBar(bar), bar.symbol \in Symbols, bar.minute \in Nat,
           bar.volume \in Int
    PROVE  /\ Found(bar) \in Ranges
           /\ Signal(bar).entry \in Int /\ Signal(bar).stop \in Int /\ Signal(bar).target \in Int
           /\ OnBar(bar) => RangeInv'
<1>1. Found(bar) \in Ranges
  <2>1. orb[bar.symbol] \in Ranges
    BY DEF RangeInv
  <2>2. Day(bar.minute) \in Int
    BY StrategyAssumption, Floor DEF Day
  <2>3. Fresh(Day(bar.minute)) \in Ranges
    BY <2>2 DEF Fresh, Ranges, NoPrice
  <2> QED
    BY <2>1, <2>3 DEF Found, OnDay
<1>2. Signal(bar).entry \in Int /\ Signal(bar).stop \in Int /\ Signal(bar).target \in Int
  <2> PICK st : st = Found(bar)
    OBVIOUS
  <2> DEFINE stop == IF Direction(st, bar) = "long" THEN st.low ELSE st.high
  <2>1. stop \in Int /\ bar.close \in Int
    BY <1>1 DEF Ranges, WholeBar
  <2>2. Signal(bar).entry = bar.close /\ Signal(bar).stop = stop
        /\ Signal(bar).target = bar.close + (TargetMultiple * (bar.close - stop)) \div 10
    BY DEF Signal, Breakout
  <2> HIDE DEF stop
  <2>3. (TargetMultiple * (bar.close - stop)) \div 10 \in Int
    <3>1. TargetMultiple * (bar.close - stop) \in Int
      BY <2>1, StrategyAssumption
    <3> QED
      BY <3>1, Floor
  <2> QED
    BY <2>1, <2>2, <2>3
<1>3. ASSUME OnBar(bar) PROVE RangeInv'
  <2>1. After(Found(bar), bar) \in Ranges
    BY <1>1, AfterRanges
  <2> QED
    BY <1>3, <2>1 DEF OnBar, RangeInv
<1> QED
  BY <1>1, <1>2, <1>3

LEMMA SlippedWhole ==
    ASSUME NEW side, NEW price \in Int
    PROVE  Slipped(side, price) \in Int
<1> DEFINE factor == IF side = "BUY" THEN 10000 + SlippageBps ELSE 10000 - SlippageBps
<1>1. factor \in Int
  BY ReplayAssumption
<1>2. price * factor \in Int
  BY <1>1
<1> QED
  BY <1>2, Floor DEF Slipped

\* A trade of whole numbers nets a whole number.
LEMMA TradeWhole ==
    ASSUME NEW pos, pos.qty \in Int, pos.price \in Int, NEW bar, NEW exit, exit.price \in Int
    PROVE  Trade(pos, bar, exit).net \in Int
<1> PICK value : value = Slipped(SideOut(pos.direction), exit.price)
  OBVIOUS
<1>1. value \in Int
  BY SlippedWhole
<1>2. (value - pos.price) \in Int /\ (pos.price - value) \in Int
  BY <1>1
<1>3. pos.qty * (IF pos.direction = "long" THEN value - pos.price ELSE pos.price - value) \in Int
  BY <1>2
<1> QED
  BY <1>3, ReplayAssumption DEF Trade


\* The books of a symbol after its pending entry is filled.
LEMMA HeldBooks ==
    ASSUME BooksInv, NEW bar, WholeBar(bar)
    PROVE  LET held == Held(bar)
               left == PendingAfterFill(bar)
           IN  /\ IsFiniteSet(DOMAIN held) /\ IsFiniteSet(DOMAIN left)
               /\ DOMAIN held \cap DOMAIN left = {}
               /\ bar.symbol \notin DOMAIN left
               /\ DOMAIN left \subseteq DOMAIN pending
               /\ \A s \in DOMAIN left : Whole(left[s])
               /\ \A s \in DOMAIN held : Whole(held[s]) /\ held[s].price \in Int
               /\ \A s \in DOMAIN held : s # bar.symbol => s \in DOMAIN open /\ held[s] = open[s]
               /\ Cardinality(DOMAIN held) + Cardinality(DOMAIN left)
                     = Cardinality(DOMAIN open) + Cardinality(DOMAIN pending)
<1> PICK symbol, held, left :
       symbol = bar.symbol /\ held = Held(bar) /\ left = PendingAfterFill(bar)
  OBVIOUS
<1>1. /\ DOMAIN left = DOMAIN pending \ {symbol}
      /\ \A s \in DOMAIN left : left[s] = pending[s]
  BY DEF PendingAfterFill, Without, Restrict
<1>2. /\ IsFiniteSet(DOMAIN open) /\ IsFiniteSet(DOMAIN pending)
      /\ DOMAIN open \cap DOMAIN pending = {}
      /\ \A s \in DOMAIN pending : Whole(pending[s])
      /\ \A s \in DOMAIN open : Whole(open[s]) /\ open[s].price \in Int
  BY DEF BooksInv
<1>3. /\ IsFiniteSet(DOMAIN left)
      /\ symbol \in DOMAIN pending => Cardinality(DOMAIN left) = Cardinality(DOMAIN pending) - 1
      /\ symbol \notin DOMAIN pending => Cardinality(DOMAIN left) = Cardinality(DOMAIN pending)
  <2> PICK D : D = DOMAIN pending
    OBVIOUS
  <2>1. IsFiniteSet(D) /\ DOMAIN left = D \ {symbol}
    BY <1>1, <1>2
  <2>2. /\ IsFiniteSet(D \ {symbol})
        /\ Cardinality(D \ {symbol}) = IF symbol \in D THEN Cardinality(D) - 1 ELSE Cardinality(D)
    BY <2>1, FS_RemoveElement, Zenon
  <2> QED
    BY <2>1, <2>2
<1>4. /\ Cardinality(DOMAIN open) \in Nat /\ Cardinality(DOMAIN pending) \in Nat
  BY <1>2, FS_CardinalityType
<1>5. CASE symbol \in DOMAIN pending
  <2>1. held = With(open, symbol, Filled(pending[symbol], bar))
    BY <1>5 DEF Held, OpenAfterFill
  <2>2. /\ DOMAIN held = DOMAIN open \cup {symbol}
        /\ held[symbol] = Filled(pending[symbol], bar)
        /\ \A s \in DOMAIN open : s # symbol => held[s] = open[s]
    BY <2>1 DEF With
  <2>3. Whole(pending[symbol]) /\ symbol \notin DOMAIN open
    BY <1>2, <1>5
  <2>4. Whole(held[symbol]) /\ held[symbol].price \in Int
    <3>1. Slipped(Side(pending[symbol].direction), bar.open) \in Int
      BY SlippedWhole DEF WholeBar
    <3> QED
      BY <2>2, <2>3, <3>1 DEF Filled, Whole
  <2>5. IsFiniteSet(DOMAIN held) /\ Cardinality(DOMAIN held) = Cardinality(DOMAIN open) + 1
    BY <1>2, <2>2, <2>3, FS_AddElement
  <2>6. \A s \in DOMAIN held : s = symbol \/ (s \in DOMAIN open /\ s # symbol)
    BY <2>2
  <2>7. \A s \in DOMAIN held : Whole(held[s]) /\ held[s].price \in Int
    BY <1>2, <2>2, <2>4, <2>6 DEF Whole
  <2>8. Cardinality(DOMAIN held) + Cardinality(DOMAIN left)
           = Cardinality(DOMAIN open) + Cardinality(DOMAIN pending)
    BY <1>3, <1>4, <1>5, <2>5
  <2>9. \A s \in DOMAIN left : Whole(left[s])
    BY <1>1, <1>2 DEF Whole
  <2>10. DOMAIN held \cap DOMAIN left = {} /\ DOMAIN left \subseteq DOMAIN pending
    BY <1>1, <1>2, <2>2
  <2> QED
    BY <1>1, <1>3, <2>2, <2>5, <2>6, <2>7, <2>8, <2>9, <2>10
<1>6. CASE symbol \notin DOMAIN pending
  <2>1. held = open
    BY <1>6 DEF Held, OpenAfterFill
  <2>2. \A s \in DOMAIN left : Whole(left[s])
    BY <1>1, <1>2 DEF Whole
  <2>3. Cardinality(DOMAIN left) = Cardinality(DOMAIN pending)
    BY <1>3, <1>6
  <2> QED
    BY <1>1, <1>2, <1>3, <2>1, <2>2, <2>3
<1> QED
  BY <1>5, <1>6

\* And after its position has left on the bar, if it does.
LEMMA ExitBooks ==
    ASSUME BooksInv, NEW bar, WholeBar(bar)
    PROVE  LET kept == OpenAfterExit(bar)
               held == Held(bar)
           IN  /\ IsFiniteSet(DOMAIN kept) /\ DOMAIN kept \subseteq DOMAIN held
               /\ \A s \in DOMAIN kept : kept[s] = held[s]
               /\ Cardinality(DOMAIN kept) \in Nat
               /\ Exits(bar) => Cardinality(DOMAIN kept) = Cardinality(DOMAIN held) - 1
               /\ ~Exits(bar) => kept = held
<1> PICK symbol, held, kept : symbol = bar.symbol /\ held = Held(bar) /\ kept = OpenAfterExit(bar)
  OBVIOUS
<1>1. IsFiniteSet(DOMAIN held)
  BY HeldBooks
<1>2. CASE Exits(bar)
  <2>1. /\ DOMAIN kept = DOMAIN held \ {symbol} /\ symbol \in DOMAIN held
        /\ \A s \in DOMAIN kept : kept[s] = held[s]
    BY <1>2 DEF OpenAfterExit, Exits, Without, Restrict
  <2>2. /\ IsFiniteSet(DOMAIN kept)
        /\ Cardinality(DOMAIN kept) = Cardinality(DOMAIN held) - 1
    BY <1>1, <2>1, FS_RemoveElement
  <2> QED
    BY <1>2, <2>1, <2>2, FS_CardinalityType
<1>3. CASE ~Exits(bar)
  <2>1. kept = held
    BY <1>3 DEF OpenAfterExit
  <2> QED
    BY <1>1, <1>3, <2>1, FS_CardinalityType
<1> QED
  BY <1>2, <1>3

\* What leaves, and at what whole price.
LEMMA ExitWhole ==
    ASSUME NEW pos, Whole(pos), NEW bar, WholeBar(bar)
    PROVE  Exit(pos, bar).price \in Int
  BY DEF Exit, Whole, WholeBar

\* One trade more.
LEMMA MoneyMore ==
    ASSUME MoneyInv, NEW S, trades \in Seq(S), NEW t, t.net \in Int,
           trades' = Append(trades, t), dayPnl' = dayPnl + t.net
    PROVE  MoneyInv' /\ Len(trades') = Len(trades) + 1
<1> PICK old, new : old = trades /\ new = trades'
  OBVIOUS
<1>1. /\ DOMAIN old = 1..Len(old) /\ Len(old) \in Nat
      /\ DOMAIN new = 1..(Len(old) + 1) /\ Len(new) = Len(old) + 1
      /\ new[Len(old) + 1] = t /\ \A i \in 1..Len(old) : new[i] = old[i]
  BY DEF MoneyInv
<1> DEFINE z == Len(old) + 1
           f == Nets(old)
           g == Nets(new)
<1>2. /\ \A i \in DOMAIN old : f[i] \in Int /\ g[i] = f[i]
      /\ g[z] = t.net /\ z \notin DOMAIN old /\ DOMAIN new = DOMAIN old \cup {z}
  BY <1>1 DEF Nets, MoneyInv
<1>3. IsFiniteSet(DOMAIN old)
  BY <1>1, FS_Interval
<1>4. \A i \in DOMAIN new : new[i].net \in Int
  BY <1>1, <1>2 DEF MoneyInv
<1> HIDE DEF f, g, z
<1>5. SumOf(g, DOMAIN new) = SumOf(f, DOMAIN old) + g[z]
  BY <1>2, <1>3, SumMore
<1>6. dayPnl = SumOf(f, DOMAIN old)
  BY DEF MoneyInv, f
<1>7. dayPnl' = SumOf(g, DOMAIN new)
  BY <1>2, <1>5, <1>6
<1> QED
  BY <1>1, <1>4, <1>7 DEF MoneyInv, g


\* The quantity of an entry that is taken.
LEMMA TakenWhole ==
    ASSUME RangeInv, NEW bar, WholeBar(bar), bar.symbol \in Symbols, bar.minute \in Nat,
           bar.volume \in Int, Decision(bar) = "taken"
    PROVE  /\ Whole(Entry(bar)) /\ bar.symbol \notin DOMAIN OpenAfterExit(bar)
<1>1. /\ Accepted(Sized(bar)) /\ bar.symbol \notin DOMAIN OpenAfterExit(bar)
  BY DEF Decision
<1> PICK entry, stop : entry = Signal(bar).entry /\ stop = Signal(bar).stop
  OBVIOUS
<1>2. entry \in Int /\ stop \in Int /\ Signal(bar).target \in Int
  BY SignalWhole
<1> DEFINE distance == StopDistance(entry, stop)
           raw == RawQty(Capital, RiskPct, distance)
<1>3. Sized(bar).qty = raw /\ distance > 0
  <2>1. Sized(bar) = SizePosition(Capital, Cash(bar), RiskPct, entry, stop)
    BY DEF Sized
  <2>2. Sized(bar).rejected = "none"
    BY <1>1 DEF Accepted
  <2> HIDE DEF raw, distance
  <2>3. Sized(bar) = IF entry <= 0 THEN [qty |-> 0, rejected |-> "entry<=0"]
                     ELSE IF distance <= 0 THEN [qty |-> 0, rejected |-> "stop==entry"]
                     ELSE IF raw < 1 THEN [qty |-> 0, rejected |-> "qty_below_1_stop_too_wide"]
                     ELSE IF 10 * raw * entry > 9 * Cash(bar)
                     THEN [qty |-> raw, rejected |-> "notional_exceeds_90pct_available"]
                     ELSE [qty |-> raw, rejected |-> "none"]
    BY <2>1 DEF SizePosition, raw, distance
  <2>4. ~(distance <= 0) /\ Sized(bar).qty = raw
    BY <2>2, <2>3
  <2>5. distance \in Int
    BY <1>2 DEF StopDistance, distance
  <2> QED
    BY <2>4, <2>5
<1>4. distance \in Int
  BY <1>2 DEF StopDistance
<1>5. raw \in Int
  <2>1. 100 * distance \in Nat \ {0} /\ RiskPct * Capital \in Int
    BY <1>3, <1>4, ReplayAssumption
  <2> QED
    BY <2>1, Floor DEF RawQty
<1> HIDE DEF raw
<1>6. Whole(Entry(bar))
  BY <1>2, <1>3, <1>5 DEF Entry, Whole
<1> QED
  BY <1>1, <1>6

LEMMA GatesFinite == IsFiniteSet(Gates)
<1>1. IsFiniteSet({"max_trades"}) /\ Gates = {"max_trades"} \cup {"already_open"} \cup {"reentry"}
                                              \cup {"sizing"}
  BY FS_Singleton DEF Gates
<1>2. IsFiniteSet({"max_trades"} \cup {"already_open"})
  BY <1>1, FS_AddElement
<1>3. IsFiniteSet({"max_trades"} \cup {"already_open"} \cup {"reentry"})
  BY <1>2, FS_AddElement
<1> QED
  BY <1>1, <1>3, FS_AddElement

\* What the gates leave of the entries and the counters.
LEMMA DecideCounts ==
    ASSUME BooksInv, RangeInv, NEW bar, WholeBar(bar), bar.symbol \in Symbols,
           bar.minute \in Nat, bar.volume \in Int,
           tradesToday \in Int, blocked \in [Gates -> Int],
           signalsFired = tradesToday + SumOf(blocked, Gates), Decide(bar)
    PROVE  /\ tradesToday' \in Int /\ blocked' \in [Gates -> Int]
           /\ signalsFired' = tradesToday' + SumOf(blocked', Gates)
           /\ IsFiniteSet(DOMAIN pending')
           /\ DOMAIN OpenAfterExit(bar) \cap DOMAIN pending' = {}
           /\ \A s \in DOMAIN pending' : Whole(pending'[s])
           /\ tradesToday' - Cardinality(DOMAIN pending')
                 = tradesToday - Cardinality(DOMAIN PendingAfterFill(bar))
<1> PICK symbol, left, kept :
       symbol = bar.symbol /\ left = PendingAfterFill(bar) /\ kept = OpenAfterExit(bar)
  OBVIOUS
<1>1. /\ IsFiniteSet(DOMAIN left) /\ symbol \notin DOMAIN left
      /\ \A s \in DOMAIN left : Whole(left[s])
      /\ DOMAIN kept \cap DOMAIN left = {}
  BY HeldBooks, ExitBooks
<1>2. CASE pending' = left /\ UNCHANGED <<tradesToday, signalsFired, blocked>>
  BY <1>1, <1>2
<1>3. CASE /\ Decision(bar) = "taken"
           /\ signalsFired' = signalsFired + 1
           /\ pending' = With(left, symbol, Entry(bar))
           /\ tradesToday' = tradesToday + 1
           /\ UNCHANGED blocked
  <2>1. Whole(Entry(bar)) /\ symbol \notin DOMAIN kept
    BY <1>3, TakenWhole
  <2>2. /\ DOMAIN pending' = DOMAIN left \cup {symbol} /\ pending'[symbol] = Entry(bar)
        /\ \A s \in DOMAIN left : pending'[s] = left[s]
    BY <1>1, <1>3 DEF With
  <2>3. IsFiniteSet(DOMAIN pending') /\ Cardinality(DOMAIN pending') = Cardinality(DOMAIN left) + 1
    BY <1>1, <2>2, FS_AddElement
  <2>4. \A s \in DOMAIN pending' : Whole(pending'[s])
    BY <1>1, <2>1, <2>2 DEF Whole
  <2>5. Cardinality(DOMAIN left) \in Int
    BY <1>1, FS_CardinalityType
  <2>6. SumOf(blocked, Gates) \in Int
    <3>1. IsFiniteSet(Gates) /\ \A g \in Gates : blocked[g] \in Int
      BY GatesFinite
    <3> QED
      BY <3>1, SumIs
  <2>7. signalsFired' = tradesToday' + SumOf(blocked', Gates)
    BY <1>3, <2>6
  <2>8. tradesToday' - Cardinality(DOMAIN pending') = tradesToday - Cardinality(DOMAIN left)
    BY <1>3, <2>3, <2>5
  <2>9. DOMAIN kept \cap DOMAIN pending' = {}
    BY <1>1, <2>1, <2>2
  <2> QED
    BY <1>3, <2>3, <2>4, <2>7, <2>8, <2>9
<1>4. CASE /\ Decision(bar) # "taken"
           /\ signalsFired' = signalsFired + 1
           /\ pending' = left
           /\ blocked' = [blocked EXCEPT ![Decision(bar)] = @ + 1]
           /\ UNCHANGED tradesToday
  <2> PICK g : g = Decision(bar)
    OBVIOUS
  <2>1. g \in Gates
    BY <1>4 DEF Decision, Gates
  <2>2. /\ IsFiniteSet(Gates) /\ \A x \in Gates : blocked[x] \in Int
    BY GatesFinite
  <2>3. /\ blocked'[g] = blocked[g] + 1 /\ \A x \in Gates : x # g => blocked'[x] = blocked[x]
        /\ blocked'[g] \in Int /\ blocked' \in [Gates -> Int]
    BY <1>4, <2>1, <2>2
  <2>4. /\ SumOf(blocked', Gates) = SumOf(blocked, Gates) + (blocked'[g] - blocked[g])
        /\ SumOf(blocked, Gates) \in Int
    BY <2>1, <2>2, <2>3, SumChanged
  <2>5. signalsFired' = tradesToday' + SumOf(blocked', Gates)
    BY <1>4, <2>1, <2>2, <2>3, <2>4
  <2> QED
    BY <1>1, <1>4, <2>3, <2>5
<1> QED
  BY <1>2, <1>3, <1>4 DEF Decide


LEMMA TakeAway ==
    ASSUME NEW closed \in Nat, NEW opened \in Nat, NEW waiting \in Nat,
           NEW heldNow \in Nat, NEW leftNow \in Nat, heldNow + leftNow = opened + waiting
    PROVE  (closed + opened + waiting) - leftNow = closed + heldNow
  OBVIOUS

LEMMA PutBack ==
    ASSUME NEW total \in Int, NEW waiting \in Nat, NEW closed \in Int, NEW opened \in Nat,
           total - waiting = closed + opened
    PROVE  total = closed + opened + waiting
  OBVIOUS

LEMMA DayBar ==
    ASSUME HindsightInv, DayInv, NEW bar \in Recorded, ReplayBar(bar)
    PROVE  DayInv'
<1>1. /\ bar.symbol \in Symbols /\ bar.minute \in Nat /\ WholeBar(bar) /\ bar.volume \in Int
  BY RecordedBar DEF HindsightInv
<1>2. RangeInv'
  BY <1>1, SignalWhole DEF DayInv, ReplayBar
<1> PICK symbol, held, left, kept :
       symbol = bar.symbol /\ held = Held(bar) /\ left = PendingAfterFill(bar)
       /\ kept = OpenAfterExit(bar)
  OBVIOUS
<1>3. /\ IsFiniteSet(DOMAIN held) /\ IsFiniteSet(DOMAIN left) /\ IsFiniteSet(DOMAIN kept)
      /\ \A s \in DOMAIN held : Whole(held[s]) /\ held[s].price \in Int
      /\ \A s \in DOMAIN held : s # symbol => s \in DOMAIN open /\ held[s] = open[s]
      /\ DOMAIN kept \subseteq DOMAIN held /\ \A s \in DOMAIN kept : kept[s] = held[s]
  BY <1>1, HeldBooks, ExitBooks DEF DayInv
<1>4. /\ Cardinality(DOMAIN held) + Cardinality(DOMAIN left)
            = Cardinality(DOMAIN open) + Cardinality(DOMAIN pending)
      /\ Exits(bar) => Cardinality(DOMAIN kept) = Cardinality(DOMAIN held) - 1
      /\ ~Exits(bar) => kept = held
  BY <1>1, HeldBooks, ExitBooks DEF DayInv
<1>5. /\ tradesToday' \in Int /\ blocked' \in [Gates -> Int]
      /\ signalsFired' = tradesToday' + SumOf(blocked', Gates)
      /\ IsFiniteSet(DOMAIN pending')
      /\ DOMAIN kept \cap DOMAIN pending' = {}
      /\ \A s \in DOMAIN pending' : Whole(pending'[s])
      /\ tradesToday' - Cardinality(DOMAIN pending') = tradesToday - Cardinality(DOMAIN left)
  BY <1>1, DecideCounts DEF DayInv, CountInv, ReplayBar
<1>6. open' = kept /\ lastBar' = Restrict(With(lastBar, symbol, bar), DOMAIN open')
  BY DEF ReplayBar
<1>7. BooksInv'
  <2>1. ASSUME NEW s \in DOMAIN open'
        PROVE  /\ Whole(open'[s]) /\ open'[s].price \in Int
               /\ s \in DOMAIN lastBar' /\ lastBar'[s].close \in Int
    <3>1. Whole(held[s]) /\ held[s].price \in Int /\ open'[s] = held[s]
      BY <1>3, <1>6, <2>1
    <3>2. s \in DOMAIN lastBar' /\ lastBar'[s] = With(lastBar, symbol, bar)[s]
      BY <1>6, <2>1 DEF Restrict
    <3>3. CASE s = symbol
      BY <1>1, <3>1, <3>2, <3>3 DEF With, WholeBar
    <3>4. CASE s # symbol
      <4>1. s \in DOMAIN open
        BY <1>3, <1>6, <2>1, <3>4
      <4>2. lastBar[s].close \in Int /\ s \in DOMAIN lastBar
        BY <4>1 DEF DayInv, BooksInv
      <4> QED
        BY <3>1, <3>2, <3>4, <4>2 DEF With
    <3> QED
      BY <3>3, <3>4
  <2> QED
    BY <1>3, <1>5, <1>6, <2>1 DEF BooksInv, Whole
<1>8. PICK S : trades \in Seq(S)
  BY DEF HindsightInv, TradesInv
<1>9. MoneyInv' /\ Len(trades') + Cardinality(DOMAIN kept) = Len(trades) + Cardinality(DOMAIN held)
  <2>1. /\ Cardinality(DOMAIN held) \in Nat /\ Cardinality(DOMAIN kept) \in Nat
        /\ Len(trades) \in Nat
    BY <1>3, <1>8, FS_CardinalityType
  <2>2. CASE Exits(bar)
    <3> DEFINE pos == held[symbol]
               t == Trade(pos, bar, Exit(pos, bar))
    <3>1. trades' = Append(trades, t) /\ dayPnl' = dayPnl + t.net
      BY <2>2 DEF ReplayBar
    <3>2. Whole(pos) /\ pos.price \in Int
      BY <1>3, <2>2 DEF Exits
    <3>3. t.net \in Int
      BY <1>1, <3>2, ExitWhole, TradeWhole DEF Whole
    <3> HIDE DEF t
    <3>4. MoneyInv' /\ Len(trades') = Len(trades) + 1
      BY <1>8, <3>1, <3>3, MoneyMore DEF DayInv
    <3> QED
      BY <1>4, <2>1, <2>2, <3>4
  <2>3. CASE ~Exits(bar)
    <3>1. UNCHANGED <<trades, dayPnl>>
      BY <2>3 DEF ReplayBar
    <3> QED
      BY <1>4, <2>3, <3>1 DEF DayInv, MoneyInv
  <2> QED
    BY <2>2, <2>3
<1>10. CountInv'
  <2>1. tradesToday = Len(trades) + Cardinality(DOMAIN open) + Cardinality(DOMAIN pending)
    BY DEF DayInv, CountInv
  <2>2. /\ Cardinality(DOMAIN held) \in Nat /\ Cardinality(DOMAIN kept) \in Nat
        /\ Cardinality(DOMAIN left) \in Nat /\ Cardinality(DOMAIN open) \in Nat
        /\ Cardinality(DOMAIN pending) \in Nat /\ Cardinality(DOMAIN pending') \in Nat
        /\ Len(trades) \in Nat
    BY <1>3, <1>5, <1>8, FS_CardinalityType DEF DayInv, BooksInv
  <2>3. Len(trades') \in Int
    <3>1. CASE Exits(bar)
      <4> PICK t : trades' = Append(trades, t)
        BY <3>1 DEF ReplayBar
      <4> QED
        BY <1>8
    <3>2. CASE ~Exits(bar)
      BY <2>2, <3>2 DEF ReplayBar
    <3> QED
      BY <3>1, <3>2
  <2>4. tradesToday' = Len(trades') + Cardinality(DOMAIN open') + Cardinality(DOMAIN pending')
    <3>1. tradesToday - Cardinality(DOMAIN left) = Len(trades) + Cardinality(DOMAIN held)
      <4>1. PICK a, b, c, h, l :
               /\ a = Len(trades) /\ b = Cardinality(DOMAIN open)
               /\ c = Cardinality(DOMAIN pending)
               /\ h = Cardinality(DOMAIN held) /\ l = Cardinality(DOMAIN left)
        OBVIOUS
      <4>2. a \in Nat /\ b \in Nat /\ c \in Nat /\ h \in Nat /\ l \in Nat
        BY <2>2, <4>1, Zenon
      <4>3. h + l = b + c
        BY <1>4, <4>1, Zenon
      <4>4. (a + b + c) - l = a + h
        BY <4>2, <4>3
      <4> QED
        BY <2>1, <4>1, <4>4, Zenon
    <3>2. tradesToday' - Cardinality(DOMAIN pending') = Len(trades') + Cardinality(DOMAIN open')
      BY <1>5, <1>6, <1>9, <3>1
    <3> QED
      BY <1>5, <1>6, <2>2, <2>3, <3>2, PutBack
  <2> QED
    BY <1>5, <2>4 DEF CountInv
<1> QED
  BY <1>2, <1>7, <1>9, <1>10 DEF DayInv

LEMMA DayClose ==
    ASSUME HindsightInv, DayInv, NEW s, CloseDay(s)
    PROVE  DayInv'
<1> DEFINE t == Trade(open[s], lastBar[s], [price |-> lastBar[s].close, reason |-> "time_stop"])
<1>1. /\ s \in DOMAIN open /\ trades' = Append(trades, t) /\ dayPnl' = dayPnl + t.net
      /\ open' = Without(open, s) /\ lastBar' = Restrict(lastBar, DOMAIN open')
      /\ UNCHANGED <<orb, pending, tradesToday, signalsFired, blocked>>
  BY DEF CloseDay
<1>2. t.net \in Int
  <2>1. Whole(open[s]) /\ open[s].price \in Int /\ lastBar[s].close \in Int
    BY <1>1 DEF DayInv, BooksInv
  <2> QED
    BY <2>1, TradeWhole DEF Whole
<1> HIDE DEF t
<1>3. PICK S : trades \in Seq(S)
  BY DEF HindsightInv, TradesInv
<1>4. MoneyInv' /\ Len(trades') = Len(trades) + 1 /\ Len(trades) \in Nat
  BY <1>1, <1>2, <1>3, MoneyMore DEF DayInv
<1>5. /\ DOMAIN open' = DOMAIN open \ {s} /\ \A x \in DOMAIN open' : open'[x] = open[x]
      /\ \A x \in DOMAIN open' : x \in DOMAIN lastBar' /\ lastBar'[x] = lastBar[x]
  BY <1>1 DEF Without, Restrict
<1>6. /\ IsFiniteSet(DOMAIN open) /\ IsFiniteSet(DOMAIN pending)
      /\ DOMAIN open \cap DOMAIN pending = {}
      /\ \A x \in DOMAIN pending : Whole(pending[x])
      /\ \A x \in DOMAIN open : Whole(open[x]) /\ open[x].price \in Int
                                /\ x \in DOMAIN lastBar /\ lastBar[x].close \in Int
  BY DEF DayInv, BooksInv
<1>7. IsFiniteSet(DOMAIN open') /\ Cardinality(DOMAIN open') = Cardinality(DOMAIN open) - 1
  BY <1>1, <1>5, <1>6, FS_RemoveElement
<1>8. BooksInv'
  <2>1. \A x \in DOMAIN open' : Whole(open'[x]) /\ open'[x].price \in Int
                                /\ x \in DOMAIN lastBar' /\ lastBar'[x].close \in Int
    BY <1>5, <1>6 DEF Whole
  <2>2. \A x \in DOMAIN pending' : Whole(pending'[x])
    BY <1>1, <1>6 DEF Whole
  <2>3. DOMAIN open' \cap DOMAIN pending' = {} /\ IsFiniteSet(DOMAIN pending')
    BY <1>1, <1>5, <1>6
  <2> QED
    BY <1>7, <2>1, <2>2, <2>3 DEF BooksInv, Whole
<1>9. CountInv'
  <2>1. Cardinality(DOMAIN open) \in Nat /\ Cardinality(DOMAIN pending) \in Nat
    BY <1>6, FS_CardinalityType
  <2> QED
    BY <1>1, <1>4, <1>7, <2>1 DEF DayInv, CountInv
<1>10. RangeInv'
  BY <1>1 DEF DayInv, RangeInv
<1> QED
  BY <1>4, <1>8, <1>9, <1>10 DEF DayInv

\* The day's books and counters, for every record and every universe.
THEOREM DayInvariant == ReplaySpec => []DayInv
<1>1. ReplayInit => DayInv
  <2> SUFFICES ASSUME ReplayInit PROVE DayInv
    OBVIOUS
  <2>1. RangeInv
    <3>1. Fresh(-1) \in Ranges
      BY DEF Fresh, Ranges, NoPrice
    <3> QED
      BY <3>1 DEF ReplayInit, RangeInv, Idle
  <2>2. DOMAIN open = {} /\ DOMAIN pending = {} /\ trades = <<>> /\ DOMAIN trades = {} /\ Len(trades) = 0
    BY DEF ReplayInit
  <2>3. Cardinality({}) = 0 /\ IsFiniteSet({})
    BY FS_EmptySet
  <2>4. blocked \in [Gates -> Int] /\ \A g \in Gates : blocked[g] = 0
    BY DEF ReplayInit
  <2>5. SumOf(blocked, Gates) = 0
    BY <2>4, GatesFinite, SumZero
  <2>6. SumOf(Nets(trades), DOMAIN trades) = 0
    BY <2>2, SumEmpty
  <2> QED
    BY <2>1, <2>2, <2>3, <2>4, <2>5, <2>6
       DEF ReplayInit, DayInv, BooksInv, CountInv, MoneyInv
<1>2. HindsightInv /\ DayInv /\ [ReplayNext]_replayVars => DayInv'
  <2> SUFFICES ASSUME HindsightInv, DayInv, [ReplayNext]_replayVars PROVE DayInv'
    OBVIOUS
  <2>1. CASE \E bar \in Recorded : ReplayBar(bar)
    BY <2>1, DayBar
  <2>2. CASE Gap \/ UNCHANGED replayVars
    <3>1. UNCHANGED <<orb, books, lastBar>>
      BY <2>2 DEF Gap, replayVars
    <3> QED
      BY <3>1 DEF books, DayInv, RangeInv, BooksInv, CountInv, MoneyInv, Whole
  <2>3. CASE \E s \in Symbols : CloseDay(s)
    BY <2>3, DayClose
  <2> QED
    BY <2>1, <2>2, <2>3 DEF ReplayNext
<1> QED
  BY <1>1, <1>2, HindsightInvariant, PTL DEF ReplaySpec

\* The fold of the trades' nets is their sum.
LEMMA NetsFold ==
    ASSUME NEW T, NEW ts \in Seq(T), \A i \in DOMAIN ts : ts[i].net \in Int
    PROVE  FoldLeft(LAMBDA acc, trade : acc + trade.net, 0, ts) = SumOf(Nets(ts), DOMAIN ts)
<1> PICK n \in Nat : n = Len(ts) /\ DOMAIN ts = 1..n
  OBVIOUS
<1> PICK f : f = Nets(ts)
  OBVIOUS
<1> DEFINE Eq(g) == g = [s \in SUBSET (1..n) |->
                            IF s = {} THEN 0 ELSE g[s \ {Max(s)}] + ts[Max(s)].net]
           sum == CHOOSE g : Eq(g)
<1>1. FoldLeft(LAMBDA acc, trade : acc + trade.net, 0, ts) = sum[1..n]
  BY DEF FoldLeft, MapThenFoldSet
<1>2. \A x \in 1..n : f[x] = ts[x].net /\ f[x] \in Int
  BY DEF Nets
<1>3. \A g : AddsByMax(g, f, n) <=> Eq(g)
  <2>1. \A s \in SUBSET (1..n) : s # {} => f[Max(s)] = ts[Max(s)].net
    BY <1>2, GreatestIs
  <2> QED
    BY <2>1 DEF AddsByMax
<1> HIDE DEF Eq
<1>4. AddsByMax(sum, f, n)
  BY <1>2, <1>3, SumByMax, Zenon
<1> HIDE DEF sum
<1>5. sum[1..n] = SumOf(f, 1..n)
  BY <1>2, <1>4, SumByMax
<1>6. SumOf(f, 1..n) = SumOf(Nets(ts), DOMAIN ts)
  OBVIOUS
<1> QED
  BY <1>1, <1>5, <1>6, Zenon

\* The counters of a replayed day add up to its signals and its trades, and
\* the day's result is the sum of its trades' nets, whatever the record holds.
THEOREM DayAddsCorrect == ReplaySpec => []DayAdds
<1>1. HindsightInv /\ DayInv => DayAdds
  <2> SUFFICES ASSUME HindsightInv, DayInv PROVE DayAdds
    OBVIOUS
  <2>1. SumFunction(blocked) = SumOf(blocked, Gates)
    <3>1. DOMAIN blocked = Gates /\ \A g \in Gates : blocked[g] \in Int
      BY DEF DayInv, CountInv
    <3> QED
      BY <3>1, GatesFinite, SumFunctionIs
  <2>2. FoldLeft(LAMBDA acc, trade : acc + trade.net, 0, trades) = SumOf(Nets(trades), DOMAIN trades)
    BY NetsFold DEF HindsightInv, TradesInv, DayInv, MoneyInv
  <2> QED
    BY <2>1, <2>2 DEF DayInv, BooksInv, CountInv, MoneyInv, DayAdds
<1> QED
  BY <1>1, HindsightInvariant, DayInvariant, PTL


-----------------------------------------------------------------------------
\* The replay's copy of the gates and the exits.

\* check_all reports the first reason that trips.
LEMMA FirstReason ==
    ASSUME NEW snap, NEW symbol, NEW regime, NEW age, NEW killed,
           ~Passes(snap, symbol, regime, age, killed)
    PROVE  \E i \in 1..10 :
              /\ CheckAll(snap, symbol, regime, age, killed) = Priority[i]
              /\ Tripped(snap, symbol, regime, age, killed)[Priority[i]]
              /\ \A j \in 1..(i - 1) : ~Tripped(snap, symbol, regime, age, killed)[Priority[j]]
<1> DEFINE trips(i) == Tripped(snap, symbol, regime, age, killed)[Priority[i]]
           First(i) == trips(i) /\ \A j \in 1..(i - 1) : ~trips(j)
           T == {i \in 1..10 : trips(i)}
<1>1. CheckAll(snap, symbol, regime, age, killed) = Priority[CHOOSE i \in 1..10 : First(i)]
  BY Zenon DEF CheckAll
<1>2. T # {}
  BY DEF Passes, Reasons
<1> HIDE DEF trips
<1>3. PICK i \in T : \A j \in T : i <= j
  BY <1>2, LeastNumber
<1>4. i \in 1..10 /\ First(i)
  BY <1>3
<1>5. (CHOOSE n \in 1..10 : First(n)) \in 1..10 /\ First(CHOOSE n \in 1..10 : First(n))
  <2> HIDE DEF First
  <2> QED
    BY <1>4, Zenon
<1> HIDE DEF First
<1> PICK k : k = (CHOOSE n \in 1..10 : First(n))
  OBVIOUS
<1>6. k \in 1..10 /\ trips(k) /\ \A j \in 1..(k - 1) : ~trips(j)
  BY <1>5 DEF First
<1> QED
  BY <1>1, <1>6 DEF trips

\* Reasons of the two copies, as long as their limits on trades are the same.
LEMMA GatesAgree ==
    ASSUME MaxTrades = MaxTradesPerDay, tradesToday \in Int, NEW bar
    PROVE  GateAsLive(bar)
<1> PICK snap : snap = [now |-> Hour(bar.minute) + 1, trades |-> tradesToday,
                 openCount |-> Cardinality(DOMAIN OpenAfterExit(bar)),
                 openSymbols |-> DOMAIN OpenAfterExit(bar), stoppedOut |-> StoppedAfter(bar),
                 realised |-> dayPnl + IF Exits(bar)
                    THEN Trade(Held(bar)[bar.symbol], bar, Exit(Held(bar)[bar.symbol], bar)).net
                    ELSE 0,
                 unrealised |-> 0,
                 week |-> dayPnl + IF Exits(bar)
                    THEN Trade(Held(bar)[bar.symbol], bar, Exit(Held(bar)[bar.symbol], bar)).net
                    ELSE 0]
  OBVIOUS
<1>1. LiveBlock(bar) = CheckAll(snap, bar.symbol, NoRegime, NoFeedAge, FALSE)
  BY DEF LiveBlock
<1> DEFINE tripped == Tripped(snap, bar.symbol, NoRegime, NoFeedAge, FALSE)
<1>2. /\ tripped["kill_switch"] = FALSE
      /\ tripped["feed_stale"] = (NoFeedAge > FeedStaleSeconds)
      /\ tripped["max_trades_per_day_reached"] = (snap.trades >= MaxTrades)
      /\ tripped["already_open_in_symbol"] = (bar.symbol \in snap.openSymbols)
      /\ tripped["reentry_after_stopout_blocked"] = (bar.symbol \in snap.stoppedOut)
  BY DEF Tripped
<1>3. snap.trades = tradesToday /\ snap.openSymbols = DOMAIN OpenAfterExit(bar)
      /\ snap.stoppedOut = StoppedAfter(bar)
  OBVIOUS
<1>4. ~tripped["kill_switch"] /\ ~tripped["feed_stale"]
  <2>1. ~(NoFeedAge > FeedStaleSeconds)
    BY DEF NoFeedAge, FeedStaleSeconds
  <2> QED
    BY <1>2, <2>1, Zenon
<1>5. /\ tripped["max_trades_per_day_reached"] <=> tradesToday >= MaxTradesPerDay
      /\ tripped["already_open_in_symbol"] <=> bar.symbol \in DOMAIN OpenAfterExit(bar)
      /\ tripped["reentry_after_stopout_blocked"] <=> bar.symbol \in StoppedAfter(bar)
  BY <1>2, <1>3, Zenon
<1>6. /\ tradesToday >= MaxTradesPerDay => Decision(bar) = "max_trades"
      /\ Decision(bar) = "max_trades" => tradesToday >= MaxTradesPerDay
      /\ Decision(bar) \in {"sizing", "taken"}
            <=> /\ ~(tradesToday >= MaxTradesPerDay)
                /\ bar.symbol \notin DOMAIN OpenAfterExit(bar)
                /\ bar.symbol \notin StoppedAfter(bar)
  BY DEF Decision
<1>7. {"max_trades_per_day_reached", "already_open_in_symbol", "reentry_after_stopout_blocked"}
         \subseteq Reasons
  BY DEF Reasons, Priority
<1>8. CASE Passes(snap, bar.symbol, NoRegime, NoFeedAge, FALSE)
  <2>1. LiveBlock(bar) = "pass"
    BY <1>1, <1>8 DEF CheckAll, NoBlock
  <2>2. \A r \in Reasons : ~tripped[r]
    BY <1>8 DEF Passes
  <2>3. Decision(bar) \in {"sizing", "taken"}
    BY <1>5, <1>6, <1>7, <2>2
  <2> QED
    BY <2>1, <2>3 DEF GateAsLive, Shared
<1>9. CASE ~Passes(snap, bar.symbol, NoRegime, NoFeedAge, FALSE)
  <2>1. PICK i \in 1..10 : /\ LiveBlock(bar) = Priority[i] /\ tripped[Priority[i]]
                           /\ \A j \in 1..(i - 1) : ~tripped[Priority[j]]
    <3> PICK regime, age, killed, symbol, live :
           /\ regime = NoRegime /\ age = NoFeedAge /\ killed = FALSE /\ symbol = bar.symbol
           /\ live = CheckAll(snap, symbol, regime, age, killed)
      OBVIOUS
    <3>1. ~Passes(snap, symbol, regime, age, killed)
      BY <1>9
    <3>2. \E i \in 1..10 :
             /\ live = Priority[i]
             /\ Tripped(snap, symbol, regime, age, killed)[Priority[i]]
             /\ \A j \in 1..(i - 1) : ~Tripped(snap, symbol, regime, age, killed)[Priority[j]]
      BY <3>1, FirstReason
    <3> QED
      BY <1>1, <3>2
  <2>2. LiveBlock(bar) # NoBlock
    BY <2>1 DEF Priority, NoBlock
  <2>3. LiveBlock(bar) \in Shared => Decision(bar) \notin {"sizing", "taken"}
    BY <1>5, <1>6, <2>1 DEF Shared
  <2>4. ASSUME Decision(bar) = "max_trades"
        PROVE  LiveBlock(bar) \in {"max_trades_per_day_reached", "outside_entry_window"}
    <3>1. tripped["max_trades_per_day_reached"]
      BY <1>5, <1>6, <2>4
    <3>2. Priority[1] = "kill_switch" /\ Priority[2] = "feed_stale"
          /\ Priority[3] = "outside_entry_window" /\ Priority[4] = "max_trades_per_day_reached"
      BY DEF Priority
    <3> HIDE DEF tripped
    <3>3. i # 1 /\ i # 2
      BY <1>4, <2>1, <3>2
    <3>4. i <= 4
      BY <2>1, <3>1, <3>2
    <3> QED
      BY <2>1, <3>2, <3>3, <3>4
  <2> QED
    BY <2>2, <2>3, <2>4 DEF GateAsLive
<1> QED
  BY <1>8, <1>9

\* A bar's prices lie between its low and its high, so the one at the bottom
\* or at the top meets a level if any does.
LEMMA ExitsAgree ==
    ASSUME NEW bar, WholeBar(bar), bar.low <= bar.open, bar.open <= bar.high,
           bar.low <= bar.close, bar.close <= bar.high, Hour(bar.minute) \in Int,
           bar.symbol \in DOMAIN Held(bar) => Whole(Held(bar)[bar.symbol])
    PROVE  ExitAsLive(bar)
<1> SUFFICES ASSUME bar.symbol \in DOMAIN Held(bar)
             PROVE  ExitAsLive(bar)
  BY DEF ExitAsLive
<1> PICK pos, hour : pos = Held(bar)[bar.symbol] /\ hour = Hour(bar.minute)
  OBVIOUS
<1> DEFINE Prices == {bar.open, bar.high, bar.low, bar.close}
           reasons == {LiveReason(pos, p, hour) : p \in Prices}
           reason == Exit(pos, bar).reason
<1>1. /\ pos.stop \in Int /\ pos.target \in Int
      /\ bar.open \in Int /\ bar.high \in Int /\ bar.low \in Int /\ bar.close \in Int
      /\ \A p \in Prices : p \in Int /\ bar.low <= p /\ p <= bar.high
      /\ bar.low \in Prices /\ bar.high \in Prices
  BY DEF Whole, WholeBar
<1> SUFFICES /\ reason \in reasons
             /\ reason = "hold" => \A r \in reasons : r = "hold"
             /\ "stop_hit" \in reasons => reason = "stop_hit"
  BY DEF ExitAsLive
<1>2. CASE hour >= TimeStop
  <2>1. reason = "time_stop"
    BY <1>2 DEF Exit
  <2>2. \A p \in Prices : LiveReason(pos, p, hour) = "time_stop"
    BY <1>2 DEF LiveReason
  <2> HIDE DEF reason, Prices
  <2>3. \A r \in reasons : r = "time_stop"
    BY <2>2
  <2>4. "time_stop" \in reasons
    BY <1>1, <2>2
  <2> QED
    BY <2>1, <2>3, <2>4
<1>3. CASE ~(hour >= TimeStop) /\ StopTouched(pos, bar)
  <2>1. reason = "stop_hit"
    BY <1>3 DEF Exit
  <2>2. LiveReason(pos, bar.low, hour) = "stop_hit" \/ LiveReason(pos, bar.high, hour) = "stop_hit"
    BY <1>3 DEF LiveReason, StopTouched
  <2> HIDE DEF reason
  <2> QED
    BY <1>1, <2>1, <2>2
<1>4. CASE ~(hour >= TimeStop) /\ ~StopTouched(pos, bar)
  <2>1. \A p \in Prices : LiveReason(pos, p, hour) # "stop_hit"
    <3> SUFFICES ASSUME NEW p \in Prices PROVE LiveReason(pos, p, hour) # "stop_hit"
      OBVIOUS
    <3>1. p \in Int /\ bar.low <= p /\ p <= bar.high
      BY <1>1
    <3> HIDE DEF Prices
    <3> QED
      BY <1>1, <1>4, <3>1 DEF LiveReason, StopTouched
  <2>2. CASE TargetTouched(pos, bar)
    <3>1. reason = "target_hit"
      BY <1>4, <2>2 DEF Exit
    <3>2. \/ LiveReason(pos, bar.low, hour) = "target_hit"
          \/ LiveReason(pos, bar.high, hour) = "target_hit"
      <4>1. \/ pos.direction = "long" /\ ~(bar.high <= pos.stop) /\ bar.high >= pos.target
            \/ pos.direction # "long" /\ ~(bar.low >= pos.stop) /\ bar.low <= pos.target
        BY <1>1, <1>4, <2>2 DEF StopTouched, TargetTouched
      <4> QED
        BY <1>4, <4>1 DEF LiveReason
    <3> HIDE DEF reason
    <3> QED
      BY <1>1, <2>1, <3>1, <3>2
  <2>3. CASE ~TargetTouched(pos, bar)
    <3>1. reason = "hold"
      BY <1>4, <2>3 DEF Exit
    <3>2. \A p \in Prices : LiveReason(pos, p, hour) = "hold"
      <4> SUFFICES ASSUME NEW p \in Prices PROVE LiveReason(pos, p, hour) = "hold"
        OBVIOUS
      <4>1. p \in Int /\ bar.low <= p /\ p <= bar.high
        BY <1>1
      <4> HIDE DEF Prices
      <4> QED
        BY <1>1, <1>4, <2>3, <4>1 DEF LiveReason, StopTouched, TargetTouched
    <3> HIDE DEF reason, Prices
    <3> QED
      BY <1>1, <3>1, <3>2
  <2> QED
    BY <2>2, <2>3
<1> QED
  BY <1>2, <1>3, <1>4

\* The replay's copy of the exits leaves just when the live engine would on the
\* ticks of the bar, and its copy of the gates blocks what the live ones block,
\* but for the entry window and the loss limits, as long as the two limits on a
\* day's trades are the same (MAX_TRADES_PER_DAY in replay.py and
\* max_trades_per_day in config.py, both 2).
THEOREM DecidesAsLiveCorrect ==
    ASSUME MaxTrades = MaxTradesPerDay
    PROVE  Spec => []DecidesAsLive
<1>1. Spec => ReplaySpec
  <2>1. Init => ReplayInit
    BY DEF Init
  <2>2. [Next]_vars => [ReplayNext]_replayVars
    BY DEF Next, vars
  <2> QED
    BY <2>1, <2>2, PTL DEF Spec, ReplaySpec
<1>2. HindsightInv /\ DayInv => DecidesAsLive
  <2> SUFFICES ASSUME HindsightInv, DayInv, NEW bar \in Recorded
               PROVE  ExitAsLive(bar) /\ GateAsLive(bar)
    BY DEF DecidesAsLive
  <2>1. /\ WholeBar(bar) /\ bar.low <= bar.open /\ bar.open <= bar.high
        /\ bar.low <= bar.close /\ bar.close <= bar.high /\ bar.minute \in Nat
    BY RecordedBar DEF HindsightInv
  <2>2. Hour(bar.minute) \in Int
    BY <2>1, StrategyAssumption DEF Hour
  <2>3. bar.symbol \in DOMAIN Held(bar) => Whole(Held(bar)[bar.symbol])
    BY <2>1, HeldBooks DEF DayInv
  <2> QED
    BY <2>1, <2>2, <2>3, ExitsAgree, GatesAgree DEF DayInv, CountInv
<1> QED
  BY <1>1, <1>2, HindsightInvariant, DayInvariant, PTL

-----------------------------------------------------------------------------
\* The positions of the reports.
Rows == [opened : 1..today, closed : 1..today, pnl : Int]
JournalInv ==
    /\ today \in Nat \ {0}
    /\ openRows \in Seq(1..today)
    /\ closedRows \in Seq(Rows)

LEMMA RemoveTyped ==
    ASSUME NEW T, NEW q \in Seq(T), NEW i \in DOMAIN q
    PROVE  RemoveAt(q, i) \in Seq(T)
<1> PICK a, b : a = SubSeq(q, 1, i - 1) /\ b = SubSeq(q, i + 1, Len(q))
  OBVIOUS
<1>1. a \in Seq(T) /\ b \in Seq(T)
  OBVIOUS
<1>2. a \o b \in Seq(T)
  BY <1>1
<1> QED
  BY <1>2 DEF RemoveAt

LEMMA SeqWider ==
    ASSUME NEW S, NEW T, S \subseteq T, NEW q \in Seq(S)
    PROVE  q \in Seq(T)
<1>1. \A i \in 1..Len(q) : q[i] \in T
  OBVIOUS
<1> QED
  BY <1>1

LEMMA JournalStep ==
    ASSUME JournalInv, JournalNext PROVE JournalInv'
<1> USE JournalAssumption DEF JournalInv, Rows
<1>1. CASE OpenRow
  BY <1>1 DEF OpenRow
<1>2. CASE NextDay
  <2> PICK t : t = today'
    OBVIOUS
  <2> PICK S, T : S = Rows /\ T = [opened : 1..t, closed : 1..t, pnl : Int]
    OBVIOUS
  <2>1. t = today + 1 /\ openRows' = openRows /\ closedRows' = closedRows
    BY <1>2 DEF NextDay
  <2>2. 1..today \subseteq 1..t /\ t \in Nat \ {0}
    BY <2>1
  <2>3. S \subseteq T
    BY <2>2
  <2>4. openRows \in Seq(1..today) /\ closedRows \in Seq(S)
    OBVIOUS
  <2>5. openRows \in Seq(1..t) /\ closedRows \in Seq(T)
    <3>1. PICK A, B : A = 1..today /\ B = 1..t
      OBVIOUS
    <3> HIDE DEF JournalInv, Rows
    <3>2. openRows \in Seq(A) /\ A \subseteq B
      BY <2>2, <2>4, <3>1
    <3>3. openRows \in Seq(B) /\ closedRows \in Seq(T)
      BY <2>3, <2>4, <3>2, SeqWider
    <3> QED
      BY <3>1, <3>3, Zenon
  <2> QED
    BY <2>1, <2>2, <2>5
<1>3. ASSUME NEW i \in DOMAIN openRows, CloseRow(i) PROVE JournalInv'
  <2> PICK gain \in Gains :
         closedRows' = Append(closedRows, [opened |-> openRows[i], closed |-> today, pnl |-> gain])
    BY <1>3 DEF CloseRow
  <2>1. openRows' = RemoveAt(openRows, i) /\ today' = today
    BY <1>3 DEF CloseRow
  <2>2. RemoveAt(openRows, i) \in Seq(1..today)
    BY RemoveTyped
  <2> PICK row : row = [opened |-> openRows[i], closed |-> today, pnl |-> gain]
    OBVIOUS
  <2>3. row \in Rows
    OBVIOUS
  <2>4. closedRows' \in Seq(Rows)
    BY <2>3
  <2> QED
    BY <2>1, <2>2, <2>4
<1> QED
  BY <1>1, <1>2, <1>3 DEF JournalNext

LEMMA JournalAlways == Spec => []JournalInv
<1>1. Init => JournalInv
  BY DEF Init, JournalInit, JournalInv, Rows
<1>2. JournalInv /\ [Next]_vars => JournalInv'
  <2> SUFFICES ASSUME JournalInv, [Next]_vars PROVE JournalInv'
    OBVIOUS
  <2>1. CASE JournalNext
    BY <2>1, JournalStep
  <2>2. CASE UNCHANGED journalVars
    BY <2>2 DEF journalVars, JournalInv, Rows
  <2> QED
    BY <2>1, <2>2 DEF Next, vars
<1> QED
  BY <1>1, <1>2, PTL DEF Spec

-----------------------------------------------------------------------------
LEMMA FirstFinite ==
    ASSUME NEW q \in Seq(Int), NEW k \in 0..Len(q)
    PROVE  IsFiniteSet(1..k) /\ \A x \in 1..k : q[x] \in Int
<1>1. k \in Int
  OBVIOUS
<1>2. IsFiniteSet(1..k)
  BY <1>1, FS_Interval
<1>3. \A x \in 1..k : q[x] \in Int
  OBVIOUS
<1> QED
  BY <1>2, <1>3

\* What the first n add up to.
Curve(q) == [n \in 0..Len(q) |-> SumOf(q, 1..n)]

LEMMA CurveIs ==
    ASSUME NEW q \in Seq(Int)
    PROVE  /\ Curve(q) \in [0..Len(q) -> Int]
           /\ Curve(q)[0] = 0
           /\ \A k \in 1..Len(q) : Curve(q)[k] = Curve(q)[k - 1] + q[k]
           /\ \A k \in 0..Len(q) : Sum(q, k) = Curve(q)[k]
           /\ TotalPnl(q) = Curve(q)[Len(q)]
<1> PICK n \in Nat : n = Len(q) /\ DOMAIN q = 1..n
  OBVIOUS
<1>1. \A x \in 1..n : q[x] \in Int
  OBVIOUS
<1>2. \A k \in 0..n : Curve(q)[k] = SumOf(q, 1..k)
  BY DEF Curve
<1>3. \A k \in 0..n : SumOf(q, 1..k) \in Int
  <2> TAKE k \in 0..n
  <2>1. IsFiniteSet(1..k) /\ \A x \in 1..k : q[x] \in Int
    BY FirstFinite
  <2> QED
    BY <2>1, SumIs
<1>4. SumOf(q, 1..0) = 0
  <2>1. 1..0 = {}
    OBVIOUS
  <2> QED
    BY <2>1, SumEmpty
<1>5. ASSUME NEW k \in 1..n PROVE SumOf(q, 1..k) = SumOf(q, 1..(k - 1)) + q[k]
  <2>1. k \in Nat /\ k # 0 /\ \A x \in 1..k : q[x] \in Int
    BY <1>1
  <2> QED
    BY <2>1, SumNext, Zenon
<1>6. ASSUME NEW k \in 0..n PROVE Sum(q, k) = SumOf(q, 1..k)
  <2> PICK r : r = SubSeq(q, 1, k)
    OBVIOUS
  <2>1. r \in Seq(Int) /\ Len(r) = k /\ \A x \in 1..k : r[x] = q[x]
    OBVIOUS
  <2>2. Sum(q, k) = FoldLeft(+, 0, r)
    BY DEF Sum
  <2>3. FoldLeft(+, 0, r) = SumOf(r, 1..k)
    BY <2>1, TotalIs
  <2>4. SumOf(r, 1..k) = SumOf(q, 1..k)
    <3>1. \A x \in 1..k : q[x] \in Int
      BY FirstFinite
    <3>2. k \in Nat
      OBVIOUS
    <3>3. SameFirst(r, q, k)
      BY <2>1, <3>1 DEF SameFirst
    <3> QED
      BY <3>2, <3>3, SumSameFirst
  <2> QED
    BY <2>2, <2>3, <2>4, Zenon
<1>7. TotalPnl(q) = SumOf(q, 1..n)
  <2>1. TotalPnl(q) = FoldLeft(+, 0, q)
    BY DEF TotalPnl
  <2>2. FoldLeft(+, 0, q) = SumOf(q, 1..Len(q))
    BY TotalIs
  <2>3. SumOf(q, 1..Len(q)) = SumOf(q, 1..n)
    OBVIOUS
  <2> QED
    BY <2>1, <2>2, <2>3, Zenon
<1>8. Curve(q) \in [0..n -> Int]
  BY <1>3 DEF Curve
<1>9. Curve(q)[0] = 0
  BY <1>2, <1>4
<1>10. \A k \in 1..n : Curve(q)[k] = Curve(q)[k - 1] + q[k]
  BY <1>2, <1>5
<1>11. \A k \in 0..n : Sum(q, k) = Curve(q)[k]
  BY <1>2, <1>6
<1>12. TotalPnl(q) = Curve(q)[n]
  BY <1>2, <1>7
<1> HIDE DEF Curve
<1> QED
  BY <1>8, <1>9, <1>10, <1>11, <1>12

\* What each drawdown keeps of the trades so far, and what one more makes of it.
Falls == [equity : Int, peak : Int, worst : Int]
NoFall == [equity |-> 0, peak |-> 0, worst |-> 0]
FallAfter(fall, pnl) ==
    LET equity == fall.equity + pnl
        peak == Max({fall.peak, equity})
    IN [equity |-> equity, peak |-> peak, worst |-> Max({fall.worst, peak - equity})]

DeepestFall(pnls) == FoldLeft(LAMBDA fall, pnl : FallAfter(fall, pnl), NoFall, pnls).worst

LEMMA FallTyped ==
    ASSUME NEW fall \in Falls, NEW pnl \in Int
    PROVE  FallAfter(fall, pnl) \in Falls
<1> PICK equity : equity = fall.equity + pnl
  OBVIOUS
<1> PICK peak : peak = Max({fall.peak, equity})
  OBVIOUS
<1> PICK worst : worst = Max({fall.worst, peak - equity})
  OBVIOUS
<1>1. equity \in Int /\ fall.peak \in Int /\ fall.worst \in Int
  BY DEF Falls
<1>2. peak \in Int
  BY <1>1, MaxOfTwo
<1>3. worst \in Int
  BY <1>1, <1>2, MaxOfTwo
<1>4. FallAfter(fall, pnl) = [equity |-> equity, peak |-> peak, worst |-> worst]
  BY DEF FallAfter
<1> QED
  BY <1>1, <1>2, <1>3, <1>4 DEF Falls

LEMMA DrawdownFold ==
    ASSUME NEW q \in Seq(Int)
    PROVE  \E d : /\ d \in [0..Len(q) -> Falls]
                  /\ d[0] = NoFall
                  /\ \A k \in 1..Len(q) : d[k] = FallAfter(d[k - 1], q[k])
                  /\ DeepestFall(q) = d[Len(q)].worst
<1> PICK n \in Nat : n = Len(q) /\ DOMAIN q = 1..n
  OBVIOUS
<1> DEFINE Eq(g) == g = [s \in SUBSET (1..n) |->
                            IF s = {} THEN NoFall ELSE FallAfter(g[s \ {Max(s)}], q[Max(s)])]
           fold == CHOOSE g : Eq(g)
           step == [p \in Falls \X (1..n) |-> FallAfter(p[1], q[p[2]])]
<1>1. DeepestFall(q) = fold[1..n].worst
  BY DEF DeepestFall, FoldLeft, MapThenFoldSet
<1>2. \A a \in Falls, i \in 1..n : step[<<a, i>>] = FallAfter(a, q[i]) /\ step[<<a, i>>] \in Falls
  BY FallTyped
<1>3. NoFall \in Falls
  BY DEF Falls, NoFall
<1> HIDE DEF step
<1>4. PICK h \in [SUBSET (1..n) -> Falls] : Folds(h, step, NoFall, n)
  BY <1>2, <1>3, FoldExists
<1>5. Eq(h)
  <2> DEFINE r == [s \in SUBSET (1..n) |->
                      IF s = {} THEN NoFall ELSE FallAfter(h[s \ {Max(s)}], q[Max(s)])]
  <2>1. ASSUME NEW s \in SUBSET (1..n), s # {}
        PROVE  h[s] = r[s]
    <3>1. PICK x : x = Max(s)
      OBVIOUS
    <3>2. x \in 1..n
      BY <2>1, <3>1, GreatestIs
    <3>3. PICK t \in SUBSET (1..n) : t = s \ {x}
      OBVIOUS
    <3>4. h[t] \in Falls
      OBVIOUS
    <3>5. h[s] = step[<<h[t], x>>]
      BY <1>4, <2>1, <3>1, <3>3 DEF Folds
    <3>6. r[s] = FallAfter(h[t], q[x])
      BY <2>1, <3>1, <3>3
    <3> HIDE DEF r
    <3> QED
      BY <1>2, <3>2, <3>4, <3>5, <3>6
  <2>2. h[{}] = r[{}]
    BY <1>4 DEF Folds
  <2>3. h = [s \in SUBSET (1..n) |-> h[s]] /\ r = [s \in SUBSET (1..n) |-> r[s]]
    OBVIOUS
  <2>4. \A s \in SUBSET (1..n) : h[s] = r[s]
    BY <2>1, <2>2
  <2> HIDE DEF r
  <2>5. h = r
    BY <2>3, <2>4
  <2> QED
    BY <2>5 DEF r
<1>6. Eq(fold)
  <2> HIDE DEF Eq
  <2> QED
    BY <1>5, Zenon
<1> HIDE DEF fold
<1>7. fold[{}] = NoFall
  BY <1>6
<1>8. ASSUME NEW k \in Nat, k # 0, k <= n
      PROVE  fold[1..k] = FallAfter(fold[1..(k - 1)], q[k])
  <2>1. PICK s : s = 1..k
    OBVIOUS
  <2>2. s \in SUBSET (1..n) /\ s # {} /\ Max(s) = k /\ s \ {k} = 1..(k - 1)
    <3>1. 1..k \in SUBSET (1..n)
      BY <1>8
    <3>2. Max(1..k) = k /\ (1..k) \ {k} = 1..(k - 1) /\ 1..k # {}
      BY <1>8, FirstPlaces
    <3> QED
      BY <2>1, <3>1, <3>2, Zenon
  <2>3. fold[s] = FallAfter(fold[s \ {Max(s)}], q[Max(s)])
    BY <1>6, <2>2
  <2> QED
    BY <2>1, <2>2, <2>3, Zenon
<1> HIDE DEF Eq
<1>9. \A k \in 1..n : fold[1..(k - 1)] \in Falls => fold[1..k] = step[<<fold[1..(k - 1)], k>>]
  <2> TAKE k \in 1..n
  <2>1. PICK f : f = fold[1..(k - 1)]
    OBVIOUS
  <2>2. f \in Falls => step[<<f, k>>] = FallAfter(f, q[k])
    BY <1>2
  <2>3. fold[1..k] = FallAfter(f, q[k])
    BY <1>8, <2>1
  <2> QED
    BY <2>1, <2>2, <2>3, Zenon
<1>10. PICK d : IsWalk(d, fold, NoFall, step, Falls, n)
  <2>1. StepsIn(step, Falls, n)
    BY <1>2 DEF StepsIn
  <2>2. Walks(fold, NoFall, step, Falls, n)
    BY <1>7, <1>9, Zenon DEF Walks
  <2> QED
    BY <1>3, <2>1, <2>2, WalkPlaces, Zenon
<1>11. \A k \in 1..n : d[k] = FallAfter(d[k - 1], q[k])
  <2> TAKE k \in 1..n
  <2>1. d[k - 1] \in Falls
    <3>1. k - 1 \in 0..n /\ d \in [0..n -> Falls]
      BY <1>10 DEF IsWalk
    <3> QED
      BY <3>1
  <2> QED
    BY <1>2, <1>10, <2>1 DEF IsWalk
<1>12. DeepestFall(q) = d[n].worst
  BY <1>1, <1>10 DEF IsWalk
<1> QED
  BY <1>10, <1>11, <1>12 DEF IsWalk

\* p is the highest and w the deepest fall of the curve c up to its place k.
IsTop(p, c, k) == (\E i \in 0..k : p = c[i]) /\ \A i \in 0..k : c[i] <= p
IsWorst(w, c, k) ==
    /\ \E i \in 0..k : \E j \in i..k : w = c[i] - c[j]
    /\ \A i \in 0..k : \A j \in i..k : c[i] - c[j] <= w

LEMMA TopNext ==
    ASSUME NEW n \in Nat, NEW c \in [0..n -> Int], NEW k \in 1..n, NEW p \in Int,
           IsTop(p, c, k - 1), NEW m, m = Max({p, c[k]})
    PROVE  m \in Int /\ IsTop(m, c, k)
<1>1. c[k] \in Int /\ k \in 0..n /\ m = IF p >= c[k] THEN p ELSE c[k]
  BY MaxOfTwo
<1>2. PICK i \in 0..(k - 1) : p = c[i]
  BY DEF IsTop
<1>3. \A j \in 0..(k - 1) : c[j] <= p /\ c[j] \in Int
  BY DEF IsTop
<1>4. m \in Int /\ m >= p /\ m >= c[k]
  BY <1>1
<1>5. \A j \in 0..k : c[j] <= m
  <2> TAKE j \in 0..k
  <2>1. CASE j = k
    BY <1>1, <1>4, <2>1
  <2>2. CASE j # k
    <3>1. j \in 0..(k - 1)
      BY <2>2
    <3> QED
      BY <1>3, <1>4, <3>1
  <2> QED
    BY <2>1, <2>2
<1>6. \E j \in 0..k : m = c[j]
  <2>1. i \in 0..k /\ k \in 0..k
    OBVIOUS
  <2> QED
    BY <1>1, <1>2, <2>1
<1> QED
  BY <1>4, <1>5, <1>6 DEF IsTop

LEMMA WorstNext ==
    ASSUME NEW n \in Nat, NEW c \in [0..n -> Int], NEW k \in 1..n, NEW w \in Int,
           IsWorst(w, c, k - 1), NEW p \in Int, IsTop(p, c, k), NEW m, m = Max({w, p - c[k]})
    PROVE  m \in Int /\ IsWorst(m, c, k)
<1>1. c[k] \in Int /\ p - c[k] \in Int
  OBVIOUS
<1>2. PICK v : v = p - c[k]
  OBVIOUS
<1>3. v \in Int /\ m = IF w >= v THEN w ELSE v
  BY <1>1, <1>2, MaxOfTwo
<1>4. m \in Int /\ m >= w /\ m >= v
  BY <1>3
<1>5. ASSUME NEW i \in 0..k, NEW j \in i..k PROVE c[i] - c[j] <= m
  <2>1. CASE j = k
    <3>1. c[i] <= p /\ c[i] \in Int
      BY DEF IsTop
    <3>2. c[i] - c[k] <= v
      BY <1>1, <1>2, <3>1
    <3>3. c[i] - c[k] \in Int
      BY <1>1, <3>1
    <3> QED
      BY <1>3, <1>4, <2>1, <3>2, <3>3
  <2>2. CASE j # k
    <3>1. i \in 0..(k - 1) /\ j \in i..(k - 1)
      BY <2>2
    <3>2. c[i] - c[j] <= w
      BY <3>1, Zenon DEF IsWorst
    <3>3. c[i] \in Int /\ c[j] \in Int
      BY <3>1
    <3> QED
      BY <1>4, <3>2, <3>3
  <2> QED
    BY <2>1, <2>2
<1>6. \E i \in 0..k : \E j \in i..k : m = c[i] - c[j]
  <2>1. CASE m = w
    <3> PICK i \in 0..(k - 1) : \E j \in i..(k - 1) : w = c[i] - c[j]
      BY DEF IsWorst
    <3> PICK j \in i..(k - 1) : w = c[i] - c[j]
      OBVIOUS
    <3>1. i \in 0..k /\ j \in i..k
      OBVIOUS
    <3> QED
      BY <2>1, <3>1
  <2>2. CASE m = v
    <3> PICK i \in 0..k : p = c[i]
      BY DEF IsTop
    <3>1. k \in i..k /\ m = c[i] - c[k]
      BY <1>2, <2>2
    <3> QED
      BY <3>1
  <2> QED
    BY <1>3, <2>1, <2>2
<1> QED
  BY <1>4, <1>5, <1>6 DEF IsWorst

LEMMA WorstIsDeepest ==
    ASSUME NEW q \in Seq(Int)
    PROVE  IsWorst(DeepestFall(q), Curve(q), Len(q)) /\ DeepestFall(q) \in Int
<1> PICK n \in Nat : n = Len(q)
  OBVIOUS
<1>1. PICK c : c = Curve(q)
  OBVIOUS
<1>2. /\ c \in [0..n -> Int] /\ c[0] = 0
      /\ \A k \in 1..n : c[k] = c[k - 1] + q[k]
  BY <1>1, CurveIs
<1>3. PICK d : /\ d \in [0..n -> Falls]
               /\ d[0] = NoFall
               /\ \A k \in 1..n : d[k] = FallAfter(d[k - 1], q[k])
               /\ DeepestFall(q) = d[n].worst
  BY DrawdownFold
<1> DEFINE Good(k) == /\ d[k].equity = c[k]
                      /\ IsTop(d[k].peak, c, k)
                      /\ IsWorst(d[k].worst, c, k)
           Bad == {k \in Nat : k <= n /\ ~Good(k)}
<1>4. Good(0)
  BY <1>2, <1>3 DEF NoFall, IsTop, IsWorst
<1>5. ASSUME NEW k \in 1..n, Good(k - 1) PROVE Good(k)
  <2>1. PICK f \in Falls : f = d[k - 1]
    <3>1. k - 1 \in 0..n
      OBVIOUS
    <3> QED
      BY <1>3, <3>1
  <2>2. f.equity \in Int /\ f.peak \in Int /\ f.worst \in Int
    BY DEF Falls
  <2>3. f.equity = c[k - 1] /\ IsTop(f.peak, c, k - 1) /\ IsWorst(f.worst, c, k - 1)
    BY <1>5, <2>1
  <2>4. c[k] = f.equity + q[k]
    BY <1>2, <2>3
  <2>5. PICK p : p = Max({f.peak, c[k]})
    OBVIOUS
  <2>6. PICK w : w = Max({f.worst, p - c[k]})
    OBVIOUS
  <2>7. d[k] = [equity |-> c[k], peak |-> p, worst |-> w]
    <3>1. d[k] = FallAfter(f, q[k])
      BY <1>3, <2>1
    <3> QED
      BY <2>4, <2>5, <2>6, <3>1 DEF FallAfter
  <2> HIDE DEF Good
  <2>8. p \in Int /\ IsTop(p, c, k)
    BY <1>2, <2>2, <2>3, <2>5, TopNext
  <2>9. IsWorst(w, c, k)
    BY <1>2, <2>2, <2>3, <2>6, <2>8, WorstNext
  <2> QED
    BY <2>7, <2>8, <2>9 DEF Good
<1> HIDE DEF Good
<1>6. Good(n)
  <2> SUFFICES ASSUME ~Good(n) PROVE FALSE
    OBVIOUS
  <2>1. n \in Bad /\ Bad \in SUBSET Nat
    OBVIOUS
  <2>2. PICK m \in Bad : \A l \in Bad : m <= l
    BY <2>1, LeastNumber
  <2>3. m \in Nat /\ m <= n /\ ~Good(m)
    OBVIOUS
  <2>4. m # 0
    BY <1>4, <2>3
  <2>5. m - 1 \notin Bad
    <3> HIDE DEF Bad
    <3> QED
      BY <2>2, <2>3
  <2>6. Good(m - 1) /\ m \in 1..n
    BY <2>3, <2>4, <2>5
  <2> QED
    BY <1>5, <2>3, <2>6
<1>7. d[n] \in Falls
  BY <1>3
<1>8. DeepestFall(q) = d[n].worst /\ d[n].worst \in Int
  BY <1>3, <1>7 DEF Falls
<1> QED
  BY <1>1, <1>6, <1>8 DEF Good

LEMMA DrawdownIsWorst ==
    ASSUME NEW q \in Seq(Int)
    PROVE  DeepestFall(q) = WorstFall(q) /\ DeepestFall(q) \in Nat
<1> PICK n \in Nat : n = Len(q)
  OBVIOUS
<1>1. PICK w : w = DeepestFall(q)
  OBVIOUS
<1>2. PICK c : c = Curve(q)
  OBVIOUS
<1>3. IsWorst(w, c, n) /\ w \in Int
  BY <1>1, <1>2, WorstIsDeepest
<1>4. c \in [0..n -> Int] /\ \A k \in 0..n : Sum(q, k) = c[k]
  BY <1>2, CurveIs
<1>5. w \in Nat
  <2>1. 0 \in 0..n /\ 0 \in 0..0
    OBVIOUS
  <2>2. c[0] - c[0] <= w /\ c[0] \in Int
    BY <1>3, <1>4, <2>1 DEF IsWorst
  <2> QED
    BY <1>3, <2>2
<1>6. PICK U : U = UNION {{c[i] - c[j] : j \in i..n} : i \in 0..n}
  OBVIOUS
<1>7. WorstFall(q) = Max(U)
  <2>1. c = [k \in 0..Len(q) |-> Sum(q, k)]
    BY <1>4
  <2> QED
    BY <1>6, <2>1 DEF WorstFall
<1>8. w \in U
  <2> PICK i \in 0..n : \E j \in i..n : w = c[i] - c[j]
    BY <1>3 DEF IsWorst
  <2> PICK j \in i..n : w = c[i] - c[j]
    OBVIOUS
  <2> QED
    BY <1>6
<1>9. ASSUME NEW x \in U PROVE x \in Int /\ x <= w
  <2> PICK i \in 0..n : \E j \in i..n : x = c[i] - c[j]
    BY <1>6
  <2> PICK j \in i..n : x = c[i] - c[j]
    OBVIOUS
  <2>1. i \in 0..n /\ j \in i..n /\ j \in 0..n
    OBVIOUS
  <2>2. c[i] \in Int /\ c[j] \in Int
    BY <1>4, <2>1, Zenon
  <2>3. c[i] - c[j] <= w
    BY <1>3, <2>1, Zenon DEF IsWorst
  <2> QED
    BY <2>2, <2>3
<1>10. Max(U) = w
  <2>1. \A x \in U : w >= x
    BY <1>3, <1>9
  <2>2. Max(U) \in U /\ \A x \in U : Max(U) >= x
    BY <1>8, <2>1 DEF Max
  <2>3. Max(U) >= w /\ w >= Max(U) /\ Max(U) \in Int
    BY <1>8, <1>9, <2>1, <2>2
  <2> QED
    BY <1>3, <2>3
<1> QED
  BY <1>1, <1>5, <1>7, <1>10

\* What the paper run, the report and the sweep each make of it.
LEMMA ThreeDrawdowns ==
    ASSUME NEW q \in Seq(Int), NEW fall \in Int, fall = DeepestFall(q)
    PROVE  /\ q # <<>> => MaxDrawdownInr(q) = fall
           /\ q # <<>> /\ Equity # 0 => ReportDrawdown(q) = 100 * fall
           /\ Equity > 0 => SweepDrawdown(q) = 100 * fall
<1>1. q # <<>> => MaxDrawdownInr(q) = DeepestFall(q)
  BY DEF MaxDrawdownInr, DeepestFall, FallAfter, NoFall
<1>2. q # <<>> /\ Equity # 0 => ReportDrawdown(q) = 100 * DeepestFall(q)
  BY DEF ReportDrawdown, DeepestFall, FallAfter, NoFall
<1>3. Equity > 0 => SweepDrawdown(q) = 100 * DeepestFall(q)
  BY DEF SweepDrawdown, DeepestFall, FallAfter, NoFall
<1> QED
  BY <1>1, <1>2, <1>3

\* The three copies of the gates give one verdict on any trades.
Agreed(pnls) ==
    LET go == Graduates(pnls)
    IN IF pnls = <<>>
       THEN PaperExit(pnls) = 2 /\ ReportVerdict(pnls) = "none" /\ SweepVerdict(pnls) = "no-go"
       ELSE /\ PaperExit(pnls) = 0 <=> go
            /\ ReportVerdict(pnls) = "go" <=> go
            /\ SweepVerdict(pnls) = "go" <=> go

LEMMA VerdictsOn == ASSUME NEW q \in Seq(Int) PROVE Agreed(q)
<1>1. PICK n \in Nat : n = Len(q)
  OBVIOUS
<1>2. PICK wins \in Nat : wins = Wins(q)
  <2>1. IsFiniteSet(1..Len(q))
    BY FS_Interval
  <2>2. DOMAIN q = 1..Len(q)
    OBVIOUS
  <2>3. IsFiniteSet({i \in DOMAIN q : q[i] > 0})
    BY <2>1, <2>2, FS_Subset
  <2>4. Wins(q) \in Nat
    BY <2>3, FS_CardinalityType DEF Wins
  <2> QED
    BY <2>4
<1>3. PICK fall \in Nat : fall = DeepestFall(q) /\ fall = WorstFall(q)
  BY DrawdownIsWorst
<1>4. PICK total \in Int : total = TotalPnl(q) /\ total = Sum(q, n)
  <2>1. PICK c : c = Curve(q)
    OBVIOUS
  <2>2. c \in [0..n -> Int] /\ Sum(q, n) = c[n] /\ TotalPnl(q) = c[n]
    <3>1. n \in 0..n
      OBVIOUS
    <3> QED
      BY <1>1, <2>1, <3>1, CurveIs
  <2> QED
    BY <2>2
<1>5. Equity \in Nat /\ Equity > 0
  BY JournalAssumption
<1>6. PICK go \in BOOLEAN : go <=> (5 * wins >= 2 * n /\ total > 0 /\ 100 * fall <= 8 * Equity)
  OBVIOUS
<1>7. Graduates(q) <=> go
  BY <1>1, <1>2, <1>3, <1>4, <1>6 DEF Graduates
<1>8. 5 * wins >= 2 * n <=> 100 * wins >= 40 * n
  OBVIOUS
<1>9. /\ q # <<>> => MaxDrawdownInr(q) = fall /\ ReportDrawdown(q) = 100 * fall
      /\ SweepDrawdown(q) = 100 * fall
  <2>1. fall \in Int /\ fall = DeepestFall(q) /\ Equity # 0
    BY <1>3, <1>5
  <2> QED
    BY <1>5, <2>1, ThreeDrawdowns, Zenon
<1>10. CASE q = <<>>
  BY <1>10 DEF Agreed, PaperExit, ReportVerdict, SweepVerdict
<1>11. CASE q # <<>>
  <2>1. PassWinRate(q) <=> 5 * wins >= 2 * n
    BY <1>1, <1>2, <1>8, <1>11 DEF PassWinRate
  <2>2. PassExpectancy(q) <=> total > 0
    BY <1>4, <1>11 DEF PassExpectancy
  <2>3. PassWinRate(q) /\ PassExpectancy(q) /\ PassDrawdown(q) <=> go
    <3>1. PassDrawdown(q) <=> 100 * fall <= 8 * Equity
      BY <1>5, <1>9, <1>11 DEF PassDrawdown
    <3> QED
      BY <1>6, <2>1, <2>2, <3>1
  <2>4. PaperExit(q) = 0 <=> go
    BY <1>11, <2>3 DEF PaperExit
  <2>5. SweepVerdict(q) = "go" <=> go
    <3>1. n > 0
      BY <1>1, <1>11
    <3>2. SweepVerdict(q) = IF 5 * wins >= 2 * n /\ total > 0 /\ 100 * fall <= 8 * Equity
                            THEN "go" ELSE "no-go"
      BY <1>1, <1>2, <1>4, <1>8, <1>9, <3>1 DEF SweepVerdict
    <3> QED
      BY <1>6, <3>2
  <2>6. ReportVerdict(q) = "go" <=> go
    <3>1. ReportVerdict(q) = IF 5 * wins >= 2 * n /\ total > 0 /\ 100 * fall <= 8 * Equity
                             THEN "go" ELSE "no-go"
      BY <1>1, <1>2, <1>4, <1>8, <1>9, <1>11 DEF ReportVerdict
    <3> QED
      BY <1>6, <3>1
  <2> QED
    BY <1>7, <1>11, <2>4, <2>5, <2>6 DEF Agreed
<1> QED
  BY <1>10, <1>11

-----------------------------------------------------------------------------
\* What each closed position made, rounded and as the journal has it, and which
\* closed in some days.
Made == [i \in DOMAIN closedRows |-> Round(closedRows[i].pnl)]
Booked == [i \in DOMAIN closedRows |-> closedRows[i].pnl]
Within(first, last) ==
    {i \in DOMAIN closedRows : first <= closedRows[i].closed /\ closedRows[i].closed < last + 1}

\* A rounded amount is at most half a paisa off.
LEMMA RoundNear ==
    ASSUME NEW x \in Int
    PROVE  Round(x) \in Int /\ NearBy(Grain, Round(x), x, 1)
<1>1. Grain \in Nat \ {0}
  BY JournalAssumption
<1> PICK paise, rest : paise = x \div Grain /\ rest = x % Grain
  OBVIOUS
<1>2. paise \in Int /\ rest \in Int /\ x = Grain * paise + rest /\ 0 <= rest /\ rest < Grain
  BY <1>1
<1> PICK whole \in Int : whole = Grain * paise
  BY <1>1, <1>2
<1>3. /\ Round(x) \in {paise, paise + 1}
      /\ Round(x) = paise => 2 * rest <= Grain
      /\ Round(x) = paise + 1 => 2 * rest >= Grain
  BY <1>1, <1>2 DEF Round
<1>4. Grain * (paise + 1) = whole + Grain /\ Grain * 1 = Grain
  BY <1>1, <1>2
<1>5. CASE Round(x) = paise
  BY <1>1, <1>2, <1>3, <1>4, <1>5 DEF NearBy
<1>6. CASE Round(x) = paise + 1
  <2>1. /\ 2 * ((whole + Grain) - x) <= Grain
        /\ 2 * (x - (whole + Grain)) <= Grain
    BY <1>1, <1>2, <1>3, <1>6
  <2> QED
    BY <1>2, <1>4, <1>6, <2>1 DEF NearBy
<1> QED
  BY <1>3, <1>5, <1>6

LEMMA MadeTyped ==
    ASSUME JournalInv
    PROVE  /\ IsFiniteSet(DOMAIN closedRows)
           /\ \A i \in DOMAIN closedRows :
                 /\ Made[i] = Round(closedRows[i].pnl) /\ Made[i] \in Int
                 /\ Booked[i] = closedRows[i].pnl /\ Booked[i] \in Int
                 /\ NearBy(Grain, Made[i], Booked[i], 1)
                 /\ closedRows[i].opened \in 1..today /\ closedRows[i].closed \in 1..today
<1>1. closedRows \in Seq(Rows)
  BY DEF JournalInv
<1> PICK n \in Nat : n = Len(closedRows) /\ DOMAIN closedRows = 1..n
  BY <1>1
<1>2. IsFiniteSet(1..n)
  BY FS_Interval
<1>3. \A i \in DOMAIN closedRows : closedRows[i] \in Rows
  BY <1>1
<1>4. \A i \in DOMAIN closedRows : closedRows[i].pnl \in Int
  BY <1>3 DEF Rows
<1>5. \A i \in DOMAIN closedRows :
         /\ Made[i] = Round(closedRows[i].pnl) /\ Made[i] \in Int
         /\ Booked[i] = closedRows[i].pnl /\ Booked[i] \in Int
         /\ NearBy(Grain, Made[i], Booked[i], 1)
  BY <1>4, RoundNear DEF Made, Booked
<1> QED
  BY <1>2, <1>3, <1>5 DEF Rows

\* The trades of some days after the first k positions.
TradesAfter(pnls, row, first, last) ==
    IF first <= row.closed /\ row.closed < last + 1 THEN Append(pnls, Round(row.pnl)) ELSE pnls

LEMMA TradesFold ==
    ASSUME JournalInv, NEW first \in Int, NEW last \in Int
    PROVE  \E d : /\ d \in [0..Len(closedRows) -> Seq(Int)]
                  /\ d[0] = <<>>
                  /\ \A k \in 1..Len(closedRows) :
                        d[k] = TradesAfter(d[k - 1], closedRows[k], first, last)
                  /\ PaperTrades(first, last) = d[Len(closedRows)]
<1> PICK q : q = closedRows
  OBVIOUS
<1>1. q \in Seq(Rows)
  BY DEF JournalInv
<1> PICK n \in Nat : n = Len(q) /\ DOMAIN q = 1..n
  BY <1>1
<1> DEFINE Eq(g) == g = [s \in SUBSET (1..n) |->
                            IF s = {} THEN <<>>
                            ELSE TradesAfter(g[s \ {Max(s)}], q[Max(s)], first, last)]
           fold == CHOOSE g : Eq(g)
           step == [p \in Seq(Int) \X (1..n) |-> TradesAfter(p[1], q[p[2]], first, last)]
<1>2. PaperTrades(first, last) = fold[1..n]
  BY DEF PaperTrades, FoldLeft, MapThenFoldSet, TradesAfter
<1>3. \A a \in Seq(Int), i \in 1..n : step[<<a, i>>] = TradesAfter(a, q[i], first, last)
  OBVIOUS
<1> HIDE DEF step
<1>4. ASSUME NEW a \in Seq(Int), NEW i \in 1..n PROVE step[<<a, i>>] \in Seq(Int)
  <2>1. q[i] \in Rows
    BY <1>1
  <2>2. q[i].pnl \in Int
    BY <2>1 DEF Rows
  <2>3. Round(q[i].pnl) \in Int
    BY <2>2, RoundNear
  <2>4. Append(a, Round(q[i].pnl)) \in Seq(Int)
    BY <2>3
  <2> QED
    BY <1>3, <2>4 DEF TradesAfter
<1>5. StepsIn(step, Seq(Int), n) /\ <<>> \in Seq(Int)
  BY <1>4 DEF StepsIn
<1>6. PICK h \in [SUBSET (1..n) -> Seq(Int)] : Folds(h, step, <<>>, n)
  BY <1>4, <1>5, FoldExists
<1>7. Eq(h)
  <2> DEFINE r == [s \in SUBSET (1..n) |->
                      IF s = {} THEN <<>>
                      ELSE TradesAfter(h[s \ {Max(s)}], q[Max(s)], first, last)]
  <2>1. ASSUME NEW s \in SUBSET (1..n), s # {}
        PROVE  h[s] = r[s]
    <3>1. PICK x : x = Max(s)
      OBVIOUS
    <3>2. x \in 1..n
      BY <2>1, <3>1, GreatestIs
    <3>3. PICK t \in SUBSET (1..n) : t = s \ {x}
      OBVIOUS
    <3>4. h[t] \in Seq(Int)
      OBVIOUS
    <3>5. h[s] = step[<<h[t], x>>]
      BY <1>6, <2>1, <3>1, <3>3 DEF Folds
    <3>6. r[s] = TradesAfter(h[t], q[x], first, last)
      BY <2>1, <3>1, <3>3
    <3> HIDE DEF r
    <3> QED
      BY <1>3, <3>2, <3>4, <3>5, <3>6
  <2>2. h[{}] = r[{}]
    BY <1>6 DEF Folds
  <2>3. h = [s \in SUBSET (1..n) |-> h[s]] /\ r = [s \in SUBSET (1..n) |-> r[s]]
    OBVIOUS
  <2>4. \A s \in SUBSET (1..n) : h[s] = r[s]
    BY <2>1, <2>2
  <2> HIDE DEF r
  <2>5. h = r
    BY <2>3, <2>4
  <2> QED
    BY <2>5 DEF r
<1>8. Eq(fold)
  <2> HIDE DEF Eq
  <2> QED
    BY <1>7, Zenon
<1> HIDE DEF fold
<1>9. fold[{}] = <<>>
  BY <1>8
<1>10. ASSUME NEW k \in 1..n, fold[1..(k - 1)] \in Seq(Int)
       PROVE  fold[1..k] = step[<<fold[1..(k - 1)], k>>]
  <2>1. PICK s : s = 1..k
    OBVIOUS
  <2>2. s \in SUBSET (1..n) /\ s # {} /\ Max(s) = k /\ s \ {k} = 1..(k - 1)
    <3>1. 1..k \in SUBSET (1..n) /\ k \in Nat /\ k # 0
      OBVIOUS
    <3>2. Max(1..k) = k /\ (1..k) \ {k} = 1..(k - 1) /\ 1..k # {}
      BY <3>1, FirstPlaces
    <3> QED
      BY <2>1, <3>1, <3>2, Zenon
  <2>3. fold[s] = TradesAfter(fold[s \ {Max(s)}], q[Max(s)], first, last)
    BY <1>8, <2>2
  <2>4. PICK a \in Seq(Int) : a = fold[1..(k - 1)]
    BY <1>10
  <2>5. fold[1..k] = TradesAfter(a, q[k], first, last)
    BY <2>1, <2>2, <2>3, <2>4, Zenon
  <2>6. step[<<a, k>>] = TradesAfter(a, q[k], first, last)
    BY <1>3
  <2> QED
    BY <2>4, <2>5, <2>6, Zenon
<1> HIDE DEF Eq
<1>11. PICK d : IsWalk(d, fold, <<>>, step, Seq(Int), n)
  <2>1. Walks(fold, <<>>, step, Seq(Int), n)
    BY <1>9, <1>10, Zenon DEF Walks
  <2> QED
    BY <1>5, <2>1, WalkPlaces, Zenon
<1>12. \A k \in 1..n : d[k] = TradesAfter(d[k - 1], q[k], first, last)
  <2> TAKE k \in 1..n
  <2>1. d[k - 1] \in Seq(Int)
    <3>1. k - 1 \in 0..n /\ d \in [0..n -> Seq(Int)]
      BY <1>11 DEF IsWalk
    <3> QED
      BY <3>1
  <2> QED
    BY <1>3, <1>11, <2>1 DEF IsWalk
<1>13. PaperTrades(first, last) = d[n]
  BY <1>2, <1>11 DEF IsWalk
<1> QED
  BY <1>11, <1>12, <1>13 DEF IsWalk

\* One trade more.
LEMMA TotalMore ==
    ASSUME NEW a \in Seq(Int), NEW x \in Int, NEW b, b = Append(a, x)
    PROVE  SumOf(b, 1..Len(b)) = SumOf(a, 1..Len(a)) + x
<1> PICK m \in Nat : m = Len(a)
  OBVIOUS
<1>1. b \in Seq(Int) /\ Len(b) = m + 1 /\ b[m + 1] = x /\ \A i \in 1..m : b[i] = a[i] /\ a[i] \in Int
  OBVIOUS
<1>2. PICK k \in Nat : k = m + 1
  OBVIOUS
<1>3. k # 0 /\ \A i \in 1..k : b[i] \in Int
  BY <1>1, <1>2
<1>4. SumOf(b, 1..k) = SumOf(b, 1..(k - 1)) + b[k]
  BY <1>3, SumNext
<1>5. SumOf(b, 1..m) = SumOf(a, 1..m)
  <2>1. SameFirst(b, a, m)
    BY <1>1 DEF SameFirst
  <2> QED
    BY <2>1, SumSameFirst
<1>6. k - 1 = m /\ b[k] = x /\ Len(b) = k
  BY <1>1, <1>2
<1> QED
  BY <1>4, <1>5, <1>6

\* The trades of some days add up to what the positions closed in them made,
\* and are as many.
LEMMA TradesTotal ==
    ASSUME JournalInv, NEW first \in Int, NEW last \in Int
    PROVE  /\ PaperTrades(first, last) \in Seq(Int)
           /\ TotalPnl(PaperTrades(first, last)) = SumOf(Made, Within(first, last))
           /\ Len(PaperTrades(first, last)) = Cardinality(Within(first, last))
<1> PICK q : q = closedRows
  OBVIOUS
<1>1. q \in Seq(Rows)
  BY DEF JournalInv
<1> PICK n \in Nat : n = Len(q) /\ DOMAIN q = 1..n
  BY <1>1
<1>2. PICK d : /\ d \in [0..n -> Seq(Int)]
               /\ d[0] = <<>>
               /\ \A k \in 1..n : d[k] = TradesAfter(d[k - 1], q[k], first, last)
               /\ PaperTrades(first, last) = d[n]
  BY TradesFold
<1> DEFINE In(k) == {i \in 1..k : first <= q[i].closed /\ q[i].closed < last + 1}
           Good(k) == /\ SumOf(d[k], 1..Len(d[k])) = SumOf(Made, In(k))
                      /\ Len(d[k]) = Cardinality(In(k))
           Bad == {k \in Nat : k <= n /\ ~Good(k)}
<1>3. Good(0)
  <2>1. In(0) = {} /\ 1..Len(d[0]) = {}
    BY <1>2
  <2>2. SumOf(d[0], 1..Len(d[0])) = SumOf(d[0], {}) /\ SumOf(Made, In(0)) = SumOf(Made, {})
    BY <2>1, Zenon
  <2>3. SumOf(d[0], {}) = 0 /\ SumOf(Made, {}) = 0
    BY SumEmpty
  <2>4. Len(d[0]) = 0 /\ Cardinality(In(0)) = 0
    BY <1>2, <2>1, FS_EmptySet
  <2> QED
    BY <2>2, <2>3, <2>4, Zenon
<1>4. ASSUME NEW k \in 1..n, Good(k - 1) PROVE Good(k)
  <2>1. PICK a \in Seq(Int) : a = d[k - 1]
    <3>1. k - 1 \in 0..n
      OBVIOUS
    <3> QED
      BY <1>2, <3>1
  <2>2. PICK b : b = d[k]
    OBVIOUS
  <2>3. PICK S : S = In(k - 1)
    OBVIOUS
  <2>4. PICK T : T = In(k)
    OBVIOUS
  <2>5. SumOf(a, 1..Len(a)) = SumOf(Made, S) /\ Len(a) = Cardinality(S)
    BY <1>4, <2>1, <2>3
  <2>6. PICK row \in Rows : row = q[k]
    BY <1>1
  <2>7. b = TradesAfter(a, row, first, last)
    BY <1>2, <2>1, <2>2, <2>6
  <2>8. k \in DOMAIN closedRows /\ Made[k] = Round(row.pnl) /\ Round(row.pnl) \in Int
    BY <2>6, MadeTyped
  <2>9. IsFiniteSet(S) /\ k \notin S /\ \A i \in S : Made[i] \in Int
    <3>1. S \subseteq DOMAIN closedRows /\ k \notin S
      BY <2>3
    <3> QED
      BY <3>1, MadeTyped, FS_Subset
  <2>10. CASE first <= row.closed /\ row.closed < last + 1
    <3>1. T = S \cup {k}
      BY <2>3, <2>4, <2>6, <2>10
    <3>2. SumOf(Made, T) = SumOf(Made, S) + Made[k]
      <4>1. Made[k] \in Int /\ \A i \in S : Made[i] = Made[i]
        BY <2>8
      <4> QED
        BY <2>9, <3>1, <4>1, SumMore
    <3>3. b = Append(a, Round(row.pnl))
      BY <2>7, <2>10 DEF TradesAfter
    <3>4. SumOf(b, 1..Len(b)) = SumOf(a, 1..Len(a)) + Round(row.pnl)
      BY <2>8, <3>3, TotalMore
    <3>5. SumOf(b, 1..Len(b)) = SumOf(Made, T)
      BY <2>5, <2>8, <3>2, <3>4, Zenon
    <3>6. Len(b) = Len(a) + 1
      BY <2>8, <3>3
    <3>7. Cardinality(T) = Cardinality(S) + 1
      BY <2>9, <3>1, FS_AddElement
    <3>8. Len(b) = Cardinality(T)
      BY <2>5, <3>6, <3>7, Zenon
    <3> QED
      BY <2>2, <2>4, <3>5, <3>8, Zenon
  <2>11. CASE ~(first <= row.closed /\ row.closed < last + 1)
    <3>1. T = S
      BY <2>3, <2>4, <2>6, <2>11
    <3>2. b = a
      BY <2>7, <2>11 DEF TradesAfter
    <3> QED
      BY <2>2, <2>4, <2>5, <3>1, <3>2, Zenon
  <2> QED
    BY <2>10, <2>11, Zenon
<1> HIDE DEF Good
<1>5. Good(n)
  <2> SUFFICES ASSUME ~Good(n) PROVE FALSE
    OBVIOUS
  <2>1. n \in Bad /\ Bad \in SUBSET Nat
    OBVIOUS
  <2>2. PICK m \in Bad : \A l \in Bad : m <= l
    BY <2>1, LeastNumber
  <2>3. m \in Nat /\ m <= n /\ ~Good(m)
    OBVIOUS
  <2>4. m # 0
    BY <1>3, <2>3
  <2>5. m - 1 \notin Bad
    <3> HIDE DEF Bad
    <3> QED
      BY <2>2, <2>3
  <2>6. Good(m - 1) /\ m \in 1..n
    BY <2>3, <2>4, <2>5
  <2> QED
    BY <1>4, <2>3, <2>6
<1>6. PICK t \in Seq(Int) : t = d[n] /\ t = PaperTrades(first, last)
  <2>1. n \in 0..n
    OBVIOUS
  <2> QED
    BY <1>2, <2>1
<1>7. TotalPnl(t) = SumOf(t, 1..Len(t))
  <2>1. TotalPnl(t) = FoldLeft(+, 0, t)
    BY DEF TotalPnl
  <2>2. FoldLeft(+, 0, t) = SumOf(t, 1..Len(t))
    BY TotalIs
  <2> QED
    BY <2>1, <2>2, Zenon
<1>8. SumOf(t, 1..Len(t)) = SumOf(Made, In(n)) /\ Len(t) = Cardinality(In(n))
  BY <1>5, <1>6 DEF Good
<1>9. In(n) = Within(first, last)
  BY DEF Within
<1> QED
  BY <1>6, <1>7, <1>8, <1>9, Zenon

\* The sum of the end-of-day report.
LEMMA EodIs ==
    ASSUME JournalInv, NEW day, NEW S,
           S = {i \in DOMAIN closedRows : closedRows[i].opened = day}
    PROVE  EodRealised(day) = SumOf(Made, S)
<1> DEFINE Eq(g) == g = [t \in SUBSET S |->
                            IF t = {} THEN 0
                            ELSE Round(closedRows[CHOOSE x \in t : TRUE].pnl)
                                 + g[t \ {CHOOSE x \in t : TRUE}]]
           sum == CHOOSE g : Eq(g)
<1>1. EodRealised(day) = sum[S]
  BY DEF EodRealised, MapThenSumSet, MapThenFoldSet
<1>2. IsFiniteSet(S) /\ \A i \in S : Made[i] \in Int /\ Made[i] = Round(closedRows[i].pnl)
  BY MadeTyped, FS_Subset
<1>3. \A g : Unfolds(g, Made, S) <=> Eq(g)
  <2>1. \A t \in SUBSET S : t # {} =>
           Made[CHOOSE x \in t : TRUE] = Round(closedRows[CHOOSE x \in t : TRUE].pnl)
    BY <1>2
  <2> QED
    BY <2>1 DEF Unfolds
<1> HIDE DEF Eq
<1>4. Unfolds(sum, Made, S)
  BY <1>2, <1>3, SumUnfolds, Zenon
<1> HIDE DEF sum
<1>5. sum[S] = SumOf(Made, S)
  BY <1>2, <1>4, SumUnfolds, Zenon
<1> QED
  BY <1>1, <1>5, Zenon

\* The sum of the dashboard's query.
LEMMA SinceIs ==
    ASSUME JournalInv, NEW day, NEW S,
           S = {i \in DOMAIN closedRows : closedRows[i].closed >= day}
    PROVE  RealisedSince(day) = SumOf(Booked, S)
<1> DEFINE Eq(g) == g = [t \in SUBSET S |->
                            IF t = {} THEN 0
                            ELSE closedRows[CHOOSE x \in t : TRUE].pnl
                                 + g[t \ {CHOOSE x \in t : TRUE}]]
           sum == CHOOSE g : Eq(g)
<1>1. RealisedSince(day) = sum[S]
  BY DEF RealisedSince, MapThenSumSet, MapThenFoldSet
<1>2. IsFiniteSet(S) /\ \A i \in S : Booked[i] \in Int /\ Booked[i] = closedRows[i].pnl
  BY MadeTyped, FS_Subset
<1>3. \A g : Unfolds(g, Booked, S) <=> Eq(g)
  <2>1. \A t \in SUBSET S : t # {} =>
           Booked[CHOOSE x \in t : TRUE] = closedRows[CHOOSE x \in t : TRUE].pnl
    BY <1>2
  <2> QED
    BY <2>1 DEF Unfolds
<1> HIDE DEF Eq
<1>4. Unfolds(sum, Booked, S)
  BY <1>2, <1>3, SumUnfolds, Zenon
<1> HIDE DEF sum
<1>5. sum[S] = SumOf(Booked, S)
  BY <1>2, <1>4, SumUnfolds, Zenon
<1> QED
  BY <1>1, <1>5, Zenon

\* The days' sums by closing, and those by opening.
LEMMA ByClosing ==
    ASSUME JournalInv, NEW first \in 1..today
    PROVE  MapThenSumSet(LAMBDA day : TotalPnl(PaperTrades(day, day)), first..today)
           = SumOf(Made, {i \in DOMAIN closedRows : closedRows[i].closed >= first})
<1>1. PICK D : D = first..today
  OBVIOUS
<1>2. IsFiniteSet(D) /\ \A d \in D : d \in Int
  <2>1. first \in Int /\ today \in Int
    BY DEF JournalInv
  <2>2. IsFiniteSet(first..today)
    BY <2>1, FS_Interval
  <2> QED
    BY <1>1, <2>1, <2>2
<1> DEFINE F == [d \in D |-> TotalPnl(PaperTrades(d, d))]
           key == [i \in DOMAIN closedRows |-> closedRows[i].closed]
           Eq(g) == g = [t \in SUBSET D |->
                            IF t = {} THEN 0
                            ELSE TotalPnl(PaperTrades(CHOOSE x \in t : TRUE, CHOOSE x \in t : TRUE))
                                 + g[t \ {CHOOSE x \in t : TRUE}]]
           sum == CHOOSE g : Eq(g)
<1>3. MapThenSumSet(LAMBDA day : TotalPnl(PaperTrades(day, day)), D) = sum[D]
  BY DEF MapThenSumSet, MapThenFoldSet
<1>4. \A d \in D : F[d] = TotalPnl(PaperTrades(d, d))
  OBVIOUS
<1>5. ASSUME NEW d \in D
      PROVE  F[d] = SumOf(Made, Keyed(key, DOMAIN closedRows, {d}))
  <2>1. d \in Int
    BY <1>2
  <2>2. F[d] = SumOf(Made, Within(d, d))
    <3>1. TotalPnl(PaperTrades(d, d)) = SumOf(Made, Within(d, d))
      BY <2>1, TradesTotal
    <3> QED
      BY <1>4, <3>1, Zenon
  <2>3. Within(d, d) = Keyed(key, DOMAIN closedRows, {d})
    <3>1. \A i \in DOMAIN closedRows : closedRows[i].closed \in Int
      BY MadeTyped
    <3>2. \A i \in DOMAIN closedRows :
             (d <= closedRows[i].closed /\ closedRows[i].closed < d + 1) <=> key[i] \in {d}
      BY <2>1, <3>1
    <3> QED
      BY <3>2, Zenon DEF Within, Keyed
  <2> QED
    BY <2>2, <2>3, Zenon
<1>6. Keyed(key, DOMAIN closedRows, D)
      = {i \in DOMAIN closedRows : closedRows[i].closed >= first}
  <2>1. \A i \in DOMAIN closedRows : closedRows[i].closed \in 1..today
    BY MadeTyped
  <2>2. \A i \in DOMAIN closedRows : key[i] \in D <=> closedRows[i].closed >= first
    BY <1>1, <2>1 DEF JournalInv
  <2> QED
    BY <2>2, Zenon DEF Keyed
<1>7. \A g : Unfolds(g, F, D) <=> Eq(g)
  <2>1. \A t \in SUBSET D : t # {} =>
           F[CHOOSE x \in t : TRUE]
           = TotalPnl(PaperTrades(CHOOSE x \in t : TRUE, CHOOSE x \in t : TRUE))
    BY <1>4
  <2> HIDE DEF F
  <2> DEFINE U(g) == [t \in SUBSET D |->
                         IF t = {} THEN 0
                         ELSE F[CHOOSE x \in t : TRUE] + g[t \ {CHOOSE x \in t : TRUE}]]
             V(g) == [t \in SUBSET D |->
                         IF t = {} THEN 0
                         ELSE TotalPnl(PaperTrades(CHOOSE x \in t : TRUE, CHOOSE x \in t : TRUE))
                              + g[t \ {CHOOSE x \in t : TRUE}]]
  <2>2. \A g : U(g) = V(g)
    BY <2>1
  <2>3. \A g : Unfolds(g, F, D) <=> g = U(g)
    BY Zenon DEF Unfolds
  <2>4. \A g : Eq(g) <=> g = V(g)
    BY Zenon
  <2> HIDE DEF U, V, Eq
  <2> QED
    BY <2>2, <2>3, <2>4, Zenon
<1> HIDE DEF F, Eq, key
<1>8. /\ SumOf(F, D) = SumOf(Made, Keyed(key, DOMAIN closedRows, D))
      /\ \A d \in D : F[d] \in Int
  <2>1. PICK S : S = DOMAIN closedRows
    OBVIOUS
  <2>2. IsFiniteSet(S) /\ \A x \in S : Made[x] \in Int
    BY <2>1, MadeTyped
  <2>3. GroupSums(F, Made, key, S, D)
    BY <1>5, <2>1 DEF GroupSums
  <2>4. SumOf(F, D) = SumOf(Made, Keyed(key, S, D)) /\ \A d \in D : F[d] \in Int
    BY <1>2, <2>2, <2>3, SumGrouped
  <2> QED
    BY <2>1, <2>4, Zenon
<1>9. Unfolds(sum, F, D)
  BY <1>2, <1>7, <1>8, SumUnfolds, Zenon
<1> HIDE DEF sum
<1>10. sum[D] = SumOf(F, D)
  BY <1>2, <1>8, <1>9, SumUnfolds, Zenon
<1> QED
  BY <1>1, <1>3, <1>6, <1>8, <1>10, Zenon

LEMMA ByOpening ==
    ASSUME JournalInv
    PROVE  MapThenSumSet(EodRealised, 1..today) = SumOf(Made, DOMAIN closedRows)
<1>1. PICK D : D = 1..today
  OBVIOUS
<1>2. IsFiniteSet(D)
  <2>1. today \in Int
    BY DEF JournalInv
  <2>2. IsFiniteSet(1..today)
    BY <2>1, FS_Interval
  <2> QED
    BY <1>1, <2>2
<1> DEFINE F == [d \in D |-> EodRealised(d)]
           key == [i \in DOMAIN closedRows |-> closedRows[i].opened]
           Eq(g) == g = [t \in SUBSET D |->
                            IF t = {} THEN 0
                            ELSE EodRealised(CHOOSE x \in t : TRUE)
                                 + g[t \ {CHOOSE x \in t : TRUE}]]
           sum == CHOOSE g : Eq(g)
<1>3. MapThenSumSet(EodRealised, D) = sum[D]
  BY DEF MapThenSumSet, MapThenFoldSet
<1>4. \A d \in D : F[d] = EodRealised(d)
  OBVIOUS
<1>5. ASSUME NEW d \in D
      PROVE  F[d] = SumOf(Made, Keyed(key, DOMAIN closedRows, {d}))
  <2>1. PICK S \in SUBSET DOMAIN closedRows : S = {i \in DOMAIN closedRows : closedRows[i].opened = d}
    OBVIOUS
  <2>2. EodRealised(d) = SumOf(Made, S)
    BY <2>1, EodIs, Zenon
  <2>3. S = Keyed(key, DOMAIN closedRows, {d})
    BY <2>1 DEF Keyed
  <2> QED
    BY <1>4, <2>2, <2>3, Zenon
<1>6. DOMAIN closedRows = Keyed(key, DOMAIN closedRows, D)
  <2>1. \A i \in DOMAIN closedRows : key[i] \in D
    BY <1>1, MadeTyped
  <2> QED
    BY <2>1 DEF Keyed
<1>7. \A g : Unfolds(g, F, D) <=> Eq(g)
  <2>1. \A t \in SUBSET D : t # {} =>
           F[CHOOSE x \in t : TRUE] = EodRealised(CHOOSE x \in t : TRUE)
    BY <1>4
  <2> HIDE DEF F
  <2> QED
    BY <2>1 DEF Unfolds
<1> HIDE DEF F, Eq, key
<1>8. SumOf(F, D) = SumOf(Made, DOMAIN closedRows) /\ \A d \in D : F[d] \in Int
  <2>1. PICK S : S = DOMAIN closedRows
    OBVIOUS
  <2>2. IsFiniteSet(S) /\ \A x \in S : Made[x] \in Int
    BY <2>1, MadeTyped
  <2>3. GroupSums(F, Made, key, S, D)
    BY <1>5, <2>1 DEF GroupSums
  <2>4. SumOf(F, D) = SumOf(Made, Keyed(key, S, D)) /\ \A d \in D : F[d] \in Int
    BY <1>2, <2>2, <2>3, SumGrouped
  <2> QED
    BY <1>6, <2>1, <2>4, Zenon
<1>9. Unfolds(sum, F, D)
  BY <1>2, <1>7, <1>8, SumUnfolds, Zenon
<1> HIDE DEF sum
<1>10. sum[D] = SumOf(F, D)
  BY <1>2, <1>8, <1>9, SumUnfolds, Zenon
<1> QED
  BY <1>1, <1>3, <1>8, <1>10, Zenon

\* The report's sums on any journal.
LEMMA DaysAddUpHere == JournalInv => DaysAddUp
<1> SUFFICES ASSUME JournalInv PROVE DaysAddUp
  OBVIOUS
<1>1. today \in 1..today /\ 1 \in 1..today /\ today \in Int /\ today >= 1
  BY DEF JournalInv
<1>2. Monday \in 1..today
  BY <1>1, JournalAssumption DEF Monday
<1>3. \A i \in DOMAIN closedRows : /\ closedRows[i].opened \in 1..today
                                   /\ closedRows[i].closed \in 1..today
  BY MadeTyped
<1>4. ASSUME NEW day \in 1..today, NEW S,
             S = {i \in DOMAIN closedRows : closedRows[i].closed >= day}
      PROVE  NearBy(Grain, SumOf(Made, S), RealisedSince(day), Len(PaperTrades(day, today)))
  <2>1. RealisedSince(day) = SumOf(Booked, S)
    BY <1>4, SinceIs, Zenon
  <2>2. IsFiniteSet(S) /\ CloseOn(Grain, Made, Booked, S)
    BY <1>4, MadeTyped, FS_Subset DEF CloseOn
  <2>3. Grain \in Nat
    BY JournalAssumption
  <2>4. NearBy(Grain, SumOf(Made, S), SumOf(Booked, S), Cardinality(S))
    BY <2>2, <2>3, SumNear
  <2>5. S = Within(day, today)
    BY <1>1, <1>3, <1>4 DEF Within
  <2>6. Len(PaperTrades(day, today)) = Cardinality(Within(day, today))
    <3>1. day \in Int
      BY <1>1
    <3> QED
      BY <1>1, <3>1, TradesTotal
  <2> QED
    BY <2>1, <2>4, <2>5, <2>6, Zenon
<1>5. TotalPnl(PaperTrades(1, today)) = SumOf(Made, DOMAIN closedRows)
  <2>1. Within(1, today) = DOMAIN closedRows
    BY <1>1, <1>3 DEF Within
  <2>2. TotalPnl(PaperTrades(1, today)) = SumOf(Made, Within(1, today))
    BY <1>1, TradesTotal
  <2> QED
    BY <2>1, <2>2, Zenon
<1>6. MapThenSumSet(LAMBDA day : TotalPnl(PaperTrades(day, day)), 1..today)
      = SumOf(Made, DOMAIN closedRows)
  <2>1. {i \in DOMAIN closedRows : closedRows[i].closed >= 1} = DOMAIN closedRows
    BY <1>3
  <2>2. MapThenSumSet(LAMBDA day : TotalPnl(PaperTrades(day, day)), 1..today)
        = SumOf(Made, {i \in DOMAIN closedRows : closedRows[i].closed >= 1})
    BY <1>1, ByClosing
  <2> QED
    BY <2>1, <2>2, Zenon
<1>7. MapThenSumSet(EodRealised, 1..today) = SumOf(Made, DOMAIN closedRows)
  BY ByOpening
<1>8. Near(MapThenSumSet(LAMBDA day : TotalPnl(PaperTrades(day, day)), Monday..today),
           RealisedWeek, Len(PaperTrades(Monday, today)))
  <2> PICK monday \in 1..today : monday = Monday
    BY <1>2
  <2> PICK S : S = {i \in DOMAIN closedRows : closedRows[i].closed >= monday}
    OBVIOUS
  <2>1. MapThenSumSet(LAMBDA day : TotalPnl(PaperTrades(day, day)), monday..today)
        = SumOf(Made, S)
    BY ByClosing
  <2>2. NearBy(Grain, SumOf(Made, S), RealisedSince(monday), Len(PaperTrades(monday, today)))
    BY <1>4, Zenon
  <2>3. RealisedSince(monday) = RealisedWeek
    BY DEF RealisedWeek
  <2>4. Near(SumOf(Made, S), RealisedWeek, Len(PaperTrades(monday, today)))
    BY <2>2, <2>3 DEF Near, NearBy
  <2> QED
    BY <2>1, <2>4, Zenon
<1>9. Near(TotalPnl(PaperTrades(today, today)), RealisedToday, Len(PaperTrades(today, today)))
  <2> PICK S : S = {i \in DOMAIN closedRows : closedRows[i].closed >= today}
    OBVIOUS
  <2>1. Within(today, today) = S
    BY <1>1, <1>3 DEF Within
  <2>2. TotalPnl(PaperTrades(today, today)) = SumOf(Made, S)
    BY <1>1, <2>1, TradesTotal, Zenon
  <2>3. NearBy(Grain, SumOf(Made, S), RealisedSince(today), Len(PaperTrades(today, today)))
    BY <1>1, <1>4, Zenon
  <2> QED
    BY <2>2, <2>3 DEF Near, NearBy, RealisedToday
<1>10. ASSUME Overnight = {}, NEW day \in 1..today
       PROVE  EodRealised(day) = TotalPnl(PaperTrades(day, day))
  <2>1. PICK S \in SUBSET DOMAIN closedRows :
           S = {i \in DOMAIN closedRows : closedRows[i].opened = day}
    OBVIOUS
  <2>2. EodRealised(day) = SumOf(Made, S)
    BY <2>1, EodIs, Zenon
  <2>3. \A i \in DOMAIN closedRows : closedRows[i].opened = closedRows[i].closed
    BY <1>10 DEF Overnight
  <2>4. S = Within(day, day)
    BY <1>1, <1>3, <2>1, <2>3 DEF Within
  <2>5. TotalPnl(PaperTrades(day, day)) = SumOf(Made, Within(day, day))
    <3>1. day \in Int
      BY <1>1
    <3> QED
      BY <3>1, TradesTotal
  <2> QED
    BY <2>2, <2>4, <2>5, Zenon
<1> QED
  BY <1>5, <1>6, <1>7, <1>8, <1>9, <1>10 DEF DaysAddUp, SumOfDays

\* The reports on closed positions agree: over any days the three copies of the
\* gates give the verdict of their definition, the days' sums by closing and by
\* opening both add up to all of it, and the dashboard's unrounded sums are off
\* by at most half a paisa a trade, whatever the journal holds.
THEOREM ReportsAgreeCorrect == Spec => []ReportsAgree
<1>1. JournalInv => VerdictsAgree
  <2> SUFFICES ASSUME JournalInv PROVE VerdictsAgree
    OBVIOUS
  <2>1. ASSUME NEW first \in 1..today, NEW last \in 1..today
        PROVE  Agreed(PaperTrades(first, last))
    <3>1. first \in Int /\ last \in Int
      BY DEF JournalInv
    <3>2. PaperTrades(first, last) \in Seq(Int)
      BY <3>1, TradesTotal
    <3> QED
      BY <3>2, VerdictsOn
  <2>2. \A pnls \in {PaperTrades(first, last) : first \in 1..today, last \in 1..today} : Agreed(pnls)
    BY <2>1
  <2> QED
    BY <2>2 DEF VerdictsAgree, Agreed
<1>2. JournalInv => ReportsAgree
  BY <1>1, DaysAddUpHere DEF ReportsAgree
<1> QED
  BY <1>2, JournalAlways, PTL
==============================================================================
