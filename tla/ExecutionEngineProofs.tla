----------------------- MODULE ExecutionEngineProofs -----------------------
(***************************************************************************)
(* Proofs about ExecutionEngine for every set of symbols, prices, signals   *)
(* and limits, any number of restarts and of failing awaits.                *)
(***************************************************************************)
EXTENDS ExecutionEngine, TLAPS

\* What on_tick's locals are at each point of its run.
TickLocals ==
    /\ tpc \notin {"idle", "dead"} => tick \in [symbol : Symbols, ltp : Prices]
    /\ tpc = "fill" => popped \in DOMAIN orders
    /\ tpc = "open" => fills # <<>> /\ orders[Head(fills).order].role = "entry"
    /\ tpc = "close" => closing.id \in DOMAIN positions
    /\ tpc = "exitPlace" =>
          /\ exitRole \in ExitRoles
          /\ tick.symbol \in DOMAIN openBySymbol
          /\ ~open[openBySymbol[tick.symbol]].exitPending

\* What on_signal's locals are.
IsJob(task) ==
    /\ task \in [symbol : Symbols, sig : SignalType, snap : {task.snap},
                qty : Nat, reason : {task.reason}, id : Nat]
    /\ task.sig.symbol = task.symbol

BarLocals ==
    /\ bpc \in {"regime", "block", "pretrade", "persist", "place"} =>
          IsJob(job)
    /\ bpc \in {"pretrade", "persist", "place"} => job.qty >= 1
    /\ bpc = "place" => job.id \in DOMAIN signals

\* Every id held somewhere is that of a row.
Refs ==
    /\ \A s \in Symbols : \A i \in DOMAIN pending[s] : pending[s][i] \in DOMAIN orders
    /\ \A i \in DOMAIN fills : fills[i].order \in DOMAIN orders
    /\ \A o \in DOMAIN orders : IsEntry(o) => orders[o].signal \in DOMAIN signals

\* The engine's picture of an open position is that of its row, and its index
\* leads to positions of the right symbol.
OpenMatchesRows ==
    /\ \A id \in DOMAIN open :
          /\ positions[id].symbol = open[id].symbol
          /\ positions[id].qty = Signed(open[id].direction, open[id].qty)
    /\ \A s \in DOMAIN openBySymbol :
          /\ openBySymbol[s] \in DOMAIN open
          /\ open[openBySymbol[s]].symbol = s

\* A position that some exit order names is marked so while the engine holds
\* it; a consumer that died after place_order's commit has not come to mark it.
ExitsMarked ==
    tpc # "dead" =>
       \A o \in Exits : orders[o].position \in DOMAIN open
                           => open[orders[o].position].exitPending

RowInv == Refs /\ OpenMatchesRows /\ ExitsMarked /\ ExitsMatchPositions

\* The inductive invariant.
EngineInv == TypeOK /\ TickLocals /\ BarLocals /\ RowInv

-----------------------------------------------------------------------------
\* The arithmetic the handlers rest on.

\* A size that size_position accepts is a positive quantity.
LEMMA AcceptedQty ==
    ASSUME NEW available, NEW entry \in Nat, NEW stop \in Nat,
           Accepted(SizePosition(Capital, available, RiskPct, entry, stop))
    PROVE  SizePosition(Capital, available, RiskPct, entry, stop).qty \in Nat \ {0}
<1> DEFINE distance == StopDistance(entry, stop)
           qty == RawQty(Capital, RiskPct, distance)
<1>1. distance \in Nat
  BY DEF StopDistance
<1>2. distance > 0 => qty \in Int
  <2> SUFFICES ASSUME distance > 0 PROVE qty \in Int
    OBVIOUS
  <2>1. 100 * distance \in Nat \ {0}
    BY <1>1
  <2>2. RiskPct * Capital \in Int
    BY EngineAssumption
  <2> QED
    BY <2>1, <2>2 DEF RawQty
<1> QED
  BY <1>1, <1>2 DEF SizePosition, Accepted

\* Prices and charges stay integers.
LEMMA MoneyIsInt ==
    /\ \A side \in {"BUY", "SELL"}, ltp \in Prices : FillPrice(side, ltp) \in Int
    /\ \A side \in {"BUY", "SELL"}, qty \in Nat, price \in Int :
          ChargesForLeg(side, qty, price) \in Int
    /\ \A pos \in OpenType, price \in Int : Gain(pos, price) \in Int
<1>1. \A side \in {"BUY", "SELL"}, ltp \in Prices : FillPrice(side, ltp) \in Int
  BY EngineAssumption DEF FillPrice
<1>2. ASSUME NEW side \in {"BUY", "SELL"}, NEW qty \in Nat, NEW price \in Int
      PROVE  ChargesForLeg(side, qty, price) \in Int
  <2>1. qty * price \in Int
    OBVIOUS
  <2>2. qty * price * (IF side = "SELL" THEN 2895 ELSE 395) \in Int
    BY <2>1
  <2> QED
    BY <2>2, EngineAssumption DEF ChargesForLeg
<1>3. ASSUME NEW pos \in OpenType, NEW price \in Int
      PROVE  Gain(pos, price) \in Int
  <2>1. pos.entry \in Int /\ pos.qty \in Int
    BY DEF OpenType
  <2> QED
    BY <2>1 DEF Gain
<1> QED
  BY <1>1, <1>2, <1>3

\* What the updates of one field leave as it was.
LEMMA Updates ==
    /\ \A row \in OrderType :
          /\ Filled(row) \in OrderType
          /\ Filled(row).symbol = row.symbol /\ Filled(row).side = row.side
          /\ Filled(row).qty = row.qty /\ Filled(row).role = row.role
          /\ Filled(row).signal = row.signal /\ Filled(row).position = row.position
    /\ \A row \in SignalRowType :
          /\ Filled(row) \in SignalRowType
          /\ Filled(row).symbol = row.symbol
    /\ \A row \in PositionType :
          /\ Closed(row) \in PositionType
          /\ Closed(row).symbol = row.symbol /\ Closed(row).qty = row.qty
    /\ \A pos \in OpenType :
          /\ Marked(pos) \in OpenType
          /\ Marked(pos).symbol = pos.symbol /\ Marked(pos).qty = pos.qty
          /\ Marked(pos).direction = pos.direction /\ Marked(pos).exitPending
BY DEF Filled, Closed, Marked, OrderType, SignalRowType, PositionType, OpenType

LEMMA JobUpdates ==
    ASSUME NEW task, IsJob(task)
    PROVE  /\ \A reason : IsJob(Because(task, reason))
           /\ \A qty \in Nat : IsJob(ForQty(task, qty)) /\ ForQty(task, qty).qty = qty
           /\ \A id \in Nat : /\ IsJob(AsRow(task, id)) /\ AsRow(task, id).id = id
                              /\ AsRow(task, id).qty = task.qty
BY DEF IsJob, Because, ForQty, AsRow

\* A step that touches no row, position, queue or fill keeps what is said of them.
LEMMA RowsUntouched ==
    ASSUME RowInv,
           UNCHANGED <<signals, orders, positions, open, openBySymbol, pending, fills>>,
           tpc' = "dead" \/ tpc # "dead" \/ tpc' = tpc
    PROVE  RowInv'
BY DEF RowInv, Refs, OpenMatchesRows, ExitsMarked, ExitsMatchPositions,
       Exits, Entries, IsEntry

-----------------------------------------------------------------------------
\* Sequences and maps.

LEMMA HeadTail ==
    ASSUME NEW S, NEW q \in Seq(S), q # <<>>
    PROVE  /\ Head(q) \in S /\ Tail(q) \in Seq(S)
           /\ 1 \in DOMAIN q /\ Head(q) = q[1]
           /\ \A i \in DOMAIN Tail(q) : i + 1 \in DOMAIN q /\ Tail(q)[i] = q[i + 1]
OBVIOUS

LEMMA Appended ==
    ASSUME NEW S, NEW q \in Seq(S), NEW e \in S
    PROVE  /\ Append(q, e) \in Seq(S)
           /\ Len(q) + 1 \in Nat \ DOMAIN q
           /\ DOMAIN Append(q, e) = DOMAIN q \cup {Len(q) + 1}
           /\ Append(q, e)[Len(q) + 1] = e
           /\ \A i \in DOMAIN q : Append(q, e)[i] = q[i]
OBVIOUS

LEMMA Replaced ==
    ASSUME NEW S, NEW q \in Seq(S), NEW k \in DOMAIN q, NEW e \in S
    PROVE  /\ [q EXCEPT ![k] = e] \in Seq(S)
           /\ DOMAIN [q EXCEPT ![k] = e] = DOMAIN q
           /\ [q EXCEPT ![k] = e][k] = e
           /\ \A i \in DOMAIN q : i # k => [q EXCEPT ![k] = e][i] = q[i]
OBVIOUS

LEMMA WithoutFacts ==
    ASSUME NEW S, NEW f, f \in [DOMAIN f -> S], NEW k
    PROVE  /\ Without(f, k) \in [DOMAIN Without(f, k) -> S]
           /\ DOMAIN Without(f, k) = DOMAIN f \ {k}
           /\ \A x \in DOMAIN f : x # k => Without(f, k)[x] = f[x]
BY DEF Without

-----------------------------------------------------------------------------
\* What the commits do to the rows.

\* No row goes, and what identifies it stays.
Kept ==
    /\ DOMAIN signals \subseteq DOMAIN signals'
    /\ DOMAIN positions \subseteq DOMAIN positions'
    /\ \A p \in DOMAIN positions : /\ positions'[p].symbol = positions[p].symbol
                                   /\ positions'[p].qty = positions[p].qty
    /\ DOMAIN orders \subseteq DOMAIN orders'
    /\ \A o \in DOMAIN orders :
          /\ orders'[o].symbol = orders[o].symbol /\ orders'[o].side = orders[o].side
          /\ orders'[o].qty = orders[o].qty /\ orders'[o].role = orders[o].role
          /\ orders'[o].signal = orders[o].signal
          /\ orders'[o].position = orders[o].position

LEMMA RefsKept ==
    ASSUME EngineInv, Kept, UNCHANGED <<open, openBySymbol, pending, fills>>,
           \A o \in DOMAIN orders' \ DOMAIN orders :
              orders'[o].role = "entry" => orders'[o].signal \in DOMAIN signals'
    PROVE  Refs' /\ OpenMatchesRows'
<1> USE DEF EngineInv, RowInv, Kept
<1>1. \A s \in Symbols : \A i \in DOMAIN pending'[s] : pending'[s][i] \in DOMAIN orders'
  BY DEF Refs
<1>2. \A i \in DOMAIN fills' : fills'[i].order \in DOMAIN orders'
  BY DEF Refs
<1>3. \A o \in DOMAIN orders' : IsEntry(o)' => orders'[o].signal \in DOMAIN signals'
  BY DEF Refs, IsEntry
<1>4. OpenMatchesRows'
  BY DEF OpenMatchesRows, TypeOK, EngineTypes, Signed
<1> QED
  BY <1>1, <1>2, <1>3, <1>4 DEF Refs

LEMMA ExitsKept ==
    ASSUME EngineInv, Kept,
           \A o \in DOMAIN orders' \ DOMAIN orders : orders'[o].role = "entry"
    PROVE  /\ Exits' = Exits
           /\ ExitsMatchPositions'
<1>1. Exits' = Exits /\ Exits \subseteq DOMAIN orders
  BY DEF Kept, Exits, Entries, IsEntry
<1> QED
  BY <1>1 DEF Kept, EngineInv, RowInv, ExitsMatchPositions

LEMMA FillCommitted ==
    ASSUME EngineInv, tpc = "fill", CommitFill
    PROVE  JournalTypes' /\ Kept /\ DOMAIN orders' = DOMAIN orders
<1>1. popped \in DOMAIN orders /\ orders[popped] \in OrderType
  BY DEF EngineInv, TickLocals, TypeOK, JournalTypes
<1> DEFINE row == Filled(orders[popped])
<1>2. /\ row \in OrderType
      /\ row.symbol = orders[popped].symbol /\ row.side = orders[popped].side
      /\ row.qty = orders[popped].qty /\ row.role = orders[popped].role
      /\ row.signal = orders[popped].signal /\ row.position = orders[popped].position
  BY <1>1, Updates
<1>3. orders' = [orders EXCEPT ![popped] = row]
  BY DEF CommitFill
<1> HIDE DEF row
<1>4. /\ orders' \in Seq(OrderType) /\ DOMAIN orders' = DOMAIN orders
      /\ orders'[popped] = row
      /\ \A o \in DOMAIN orders : o # popped => orders'[o] = orders[o]
  BY <1>1, <1>2, <1>3, Replaced DEF EngineInv, TypeOK, JournalTypes
<1>5. UNCHANGED <<signals, positions, booked>>
  BY DEF CommitFill
<1>6. JournalTypes'
  BY <1>4, <1>5 DEF EngineInv, TypeOK, JournalTypes
<1>7. Kept
  BY <1>2, <1>4, <1>5 DEF Kept
<1> QED
  BY <1>4, <1>6, <1>7

LEMMA CloseCommitted ==
    ASSUME EngineInv, tpc = "close", CommitClose
    PROVE  JournalTypes' /\ Kept /\ closing.net \in Int
<1> USE DEF EngineInv, TypeOK
<1>1. closing.id \in DOMAIN positions /\ closing.net \in Int
  BY DEF TickLocals, TickTypes, ClosingType, NoClosing
<1> DEFINE row == Closed(positions[closing.id])
<1>2. /\ row \in PositionType
      /\ row.symbol = positions[closing.id].symbol
      /\ row.qty = positions[closing.id].qty
  BY <1>1, Updates DEF JournalTypes
<1>3. /\ positions' = [positions EXCEPT ![closing.id] = row]
      /\ booked' = booked + closing.net
      /\ UNCHANGED <<signals, orders>>
  BY DEF CommitClose
<1> HIDE DEF row
<1>4. /\ positions' \in Seq(PositionType) /\ DOMAIN positions' = DOMAIN positions
      /\ positions'[closing.id] = row
      /\ \A p \in DOMAIN positions : p # closing.id => positions'[p] = positions[p]
  BY <1>1, <1>2, <1>3, Replaced DEF JournalTypes
<1>5. JournalTypes'
  BY <1>1, <1>3, <1>4 DEF JournalTypes
<1>6. Kept
  BY <1>2, <1>3, <1>4 DEF Kept
<1> QED
  BY <1>1, <1>5, <1>6

LEMMA OpenCommitted ==
    ASSUME EngineInv, tpc = "open", CommitOpen
    PROVE  LET fill  == Head(fills)
               order == orders[fill.order]
               sig   == signals[order.signal]
               id    == Len(positions) + 1
           IN /\ JournalTypes' /\ Kept
              /\ fill \in FillType /\ order \in OrderType /\ sig \in SignalRowType
              /\ UNCHANGED <<orders, booked>>
              /\ DOMAIN signals' = DOMAIN signals
              /\ id \in Nat \ DOMAIN positions
              /\ DOMAIN positions' = DOMAIN positions \cup {id}
              /\ positions'[id].symbol = order.symbol
              /\ positions'[id].qty = Signed(sig.direction, order.qty)
<1> USE DEF EngineInv, TypeOK
<1> DEFINE fill  == Head(fills)
           order == orders[fill.order]
           sig   == signals[order.signal]
           id    == Len(positions) + 1
           row   == [symbol |-> order.symbol, closed |-> FALSE,
                     qty |-> Signed(sig.direction, order.qty)]
           filled == Filled(sig)
<1>1. /\ signals' = [signals EXCEPT ![order.signal] = filled]
      /\ positions' = Append(positions, row)
      /\ UNCHANGED <<orders, booked>>
  BY DEF CommitOpen
<1>2. fill \in FillType /\ fill.order \in DOMAIN orders
  BY HeadTail DEF TickLocals, TickTypes, RowInv, Refs
<1>3. order \in OrderType /\ order.role = "entry"
  BY <1>2 DEF JournalTypes, TickLocals
<1>4. order.signal \in DOMAIN signals /\ sig \in SignalRowType
  BY <1>2, <1>3 DEF RowInv, Refs, IsEntry, JournalTypes
<1>5. row \in PositionType /\ filled \in SignalRowType
  BY <1>3, <1>4, Updates DEF PositionType, Signed, OrderType, SignalRowType
<1>6. row.symbol = order.symbol /\ row.qty = Signed(sig.direction, order.qty)
  OBVIOUS
<1> HIDE DEF fill, order, sig, row, filled
<1>7. /\ positions' \in Seq(PositionType)
      /\ id \in Nat \ DOMAIN positions
      /\ DOMAIN positions' = DOMAIN positions \cup {id}
      /\ positions'[id] = row
      /\ \A p \in DOMAIN positions : positions'[p] = positions[p]
  BY <1>1, <1>5, Appended DEF JournalTypes
<1>8. signals' \in Seq(SignalRowType) /\ DOMAIN signals' = DOMAIN signals
  BY <1>1, <1>4, <1>5, Replaced DEF JournalTypes
<1> HIDE DEF id
<1>9. JournalTypes'
  BY <1>1, <1>7, <1>8 DEF JournalTypes
<1>10. Kept
  BY <1>1, <1>7, <1>8 DEF Kept
<1> QED
  BY <1>1, <1>2, <1>3, <1>4, <1>6, <1>7, <1>8, <1>9, <1>10 DEF fill, order, sig, id

\* The exit goes to a position not marked yet, which no exit order names: the
\* new one is the only one, and it undoes the row.
LEMMA ExitCommitted ==
    ASSUME EngineInv, tpc = "exitPlace", CommitExit
    PROVE  LET id  == openBySymbol[tick.symbol]
               new == Len(orders) + 1
           IN /\ JournalTypes' /\ Kept /\ ExitsMatchPositions'
              /\ UNCHANGED <<signals, positions, booked>>
              /\ tick.symbol \in Symbols
              /\ id \in DOMAIN open /\ open[id] \in OpenType
              /\ new \in Nat \ DOMAIN orders
              /\ DOMAIN orders' = DOMAIN orders \cup {new}
              /\ orders'[new].role # "entry" /\ orders'[new].position = id
              /\ Exits' = Exits \cup {new} /\ Exits \subseteq DOMAIN orders
<1> DEFINE s     == tick.symbol
           id    == openBySymbol[s]
           order == ExitOrder(open[id], id, exitRole)
           new   == Len(orders) + 1
<1> USE DEF EngineInv, TypeOK
<1>1. orders' = Append(orders, order) /\ UNCHANGED <<signals, positions, booked>>
  BY DEF CommitExit
<1>2. /\ s \in Symbols /\ s \in DOMAIN openBySymbol
      /\ id \in DOMAIN open /\ open[id] \in OpenType
      /\ open[id].symbol = s /\ ~open[id].exitPending
      /\ id \in DOMAIN positions /\ id \in Nat
      /\ positions[id].symbol = s
      /\ positions[id].qty = Signed(open[id].direction, open[id].qty)
      /\ exitRole \in ExitRoles
  <2>1. s \in Symbols /\ s \in DOMAIN openBySymbol /\ exitRole \in ExitRoles
        /\ ~open[id].exitPending
    BY DEF TickLocals
  <2>2. id \in DOMAIN open /\ open[id].symbol = s
    BY <2>1 DEF RowInv, OpenMatchesRows
  <2>3. open[id] \in OpenType /\ id \in DOMAIN positions /\ id \in Nat
    BY <2>2 DEF EngineTypes, JournalTypes
  <2> QED
    BY <2>1, <2>2, <2>3 DEF RowInv, OpenMatchesRows
<1>3. /\ order \in OrderType
      /\ order.role # "entry" /\ order.symbol = s /\ order.position = id
      /\ positions[id].qty = IF order.side = "SELL" THEN order.qty ELSE -order.qty
  BY <1>2 DEF ExitOrder, Opposite, OrderType, OpenType, ExitRoles, Signed
<1>4. \A o \in Exits : orders[o].position # id
  BY <1>2 DEF RowInv, ExitsMarked
<1> HIDE DEF order, id, s
<1>5. /\ orders' \in Seq(OrderType)
      /\ new \in Nat \ DOMAIN orders
      /\ DOMAIN orders' = DOMAIN orders \cup {new}
      /\ orders'[new] = order
      /\ \A o \in DOMAIN orders : orders'[o] = orders[o]
  BY <1>1, <1>3, Appended DEF JournalTypes
<1> HIDE DEF new
<1>6. JournalTypes'
  BY <1>1, <1>5 DEF JournalTypes
<1>7. Kept
  BY <1>1, <1>5 DEF Kept
<1>8. Exits' = Exits \cup {new} /\ Exits \subseteq DOMAIN orders
  BY <1>3, <1>5 DEF Exits, Entries, IsEntry
<1>9. ExitsMatchPositions'
  BY <1>1, <1>2, <1>3, <1>4, <1>5, <1>8 DEF RowInv, ExitsMatchPositions
<1> QED
  BY <1>1, <1>2, <1>3, <1>5, <1>6, <1>7, <1>8, <1>9 DEF s, id, new

LEMMA SignalCommitted ==
    ASSUME EngineInv, bpc = "persist", CommitSignal
    PROVE  /\ JournalTypes' /\ Kept /\ UNCHANGED <<orders, positions, booked>>
           /\ Len(signals) + 1 \in Nat /\ Len(signals) + 1 \in DOMAIN signals'
<1> DEFINE row == SignalRow(job.sig, job.qty)
           new == Len(signals) + 1
<1> USE DEF EngineInv, TypeOK
<1>1. signals' = Append(signals, row) /\ UNCHANGED <<orders, positions, booked>>
  BY DEF CommitSignal
<1>2. job.sig \in SignalType /\ job.qty \in Nat \ {0}
  BY DEF BarLocals, IsJob
<1>3. row \in SignalRowType
  BY <1>2 DEF SignalRow, SignalRowType, SignalType
<1> HIDE DEF row
<1>4. /\ signals' \in Seq(SignalRowType)
      /\ new \in Nat
      /\ DOMAIN signals' = DOMAIN signals \cup {new}
  BY <1>1, <1>3, Appended DEF JournalTypes
<1> HIDE DEF new
<1>5. JournalTypes'
  BY <1>1, <1>4 DEF JournalTypes
<1>6. Kept
  BY <1>1, <1>4 DEF Kept
<1> QED
  BY <1>1, <1>4, <1>5, <1>6 DEF new

LEMMA EntryCommitted ==
    ASSUME EngineInv, bpc = "place", CommitEntry
    PROVE  LET new == Len(orders) + 1
           IN /\ JournalTypes' /\ Kept /\ UNCHANGED <<signals, positions, booked>>
              /\ job.symbol \in Symbols
              /\ new \in Nat \ DOMAIN orders
              /\ DOMAIN orders' = DOMAIN orders \cup {new}
              /\ orders'[new].role = "entry" /\ orders'[new].signal \in DOMAIN signals
<1> DEFINE order == EntryOrder(job.sig, job.qty, job.id)
           new   == Len(orders) + 1
<1> USE DEF EngineInv, TypeOK
<1>1. orders' = Append(orders, order) /\ UNCHANGED <<signals, positions, booked>>
  BY DEF CommitEntry
<1>2. /\ job.symbol \in Symbols /\ job.sig \in SignalType
      /\ job.qty \in Nat \ {0} /\ job.id \in DOMAIN signals /\ job.id \in Nat
  BY DEF BarLocals, IsJob
<1>3. order \in OrderType /\ order.role = "entry" /\ order.signal \in DOMAIN signals
  BY <1>2 DEF EntryOrder, Side, OrderType, SignalType
<1> HIDE DEF order
<1>4. /\ orders' \in Seq(OrderType)
      /\ new \in Nat \ DOMAIN orders
      /\ DOMAIN orders' = DOMAIN orders \cup {new}
      /\ orders'[new] = order
      /\ \A o \in DOMAIN orders : orders'[o] = orders[o]
  BY <1>1, <1>3, Appended DEF JournalTypes
<1> HIDE DEF new
<1>5. JournalTypes'
  BY <1>1, <1>4 DEF JournalTypes
<1>6. Kept
  BY <1>1, <1>4 DEF Kept
<1> QED
  BY <1>1, <1>2, <1>3, <1>4, <1>5, <1>6 DEF new

LEMMA Enqueued ==
    ASSUME pending \in [Symbols -> Seq(Nat)], NEW s \in Symbols, NEW new \in Nat,
           pending' = [pending EXCEPT ![s] = Append(@, new)],
           \A q \in Symbols : \A i \in DOMAIN pending[q] : pending[q][i] \in DOMAIN orders,
           DOMAIN orders \subseteq DOMAIN orders', new \in DOMAIN orders'
    PROVE  /\ pending' \in [Symbols -> Seq(Nat)]
           /\ \A q \in Symbols : \A i \in DOMAIN pending'[q] :
                 pending'[q][i] \in DOMAIN orders'
<1>1. pending[s] \in Seq(Nat)
  OBVIOUS
<1>2. /\ Append(pending[s], new) \in Seq(Nat)
      /\ DOMAIN Append(pending[s], new) = DOMAIN pending[s] \cup {Len(pending[s]) + 1}
      /\ Append(pending[s], new)[Len(pending[s]) + 1] = new
      /\ \A i \in DOMAIN pending[s] : Append(pending[s], new)[i] = pending[s][i]
  BY <1>1, Appended
<1> QED
  BY <1>2

-----------------------------------------------------------------------------
\* One lemma for each step of the tick consumer.

LEMMA InitInv == Init => EngineInv
<1> SUFFICES ASSUME Init PROVE EngineInv
  OBVIOUS
<1>1. JournalTypes
  BY DEF Init, JournalTypes
<1>2. EngineTypes
  BY EngineAssumption DEF Init, EngineTypes, EmptyMap
<1>3. TickTypes
  BY DEF Init, TickTypes
<1>4. ControlTypes
  BY DEF Init, ControlTypes
<1>5. TickLocals /\ BarLocals
  BY DEF Init, TickLocals, BarLocals
<1>6. RowInv
  BY DEF Init, RowInv, Refs, OpenMatchesRows, ExitsMarked, ExitsMatchPositions,
         Exits, Entries, IsEntry, EmptyMap
<1> QED
  BY <1>1, <1>2, <1>3, <1>4, <1>5, <1>6 DEF EngineInv, TypeOK

LEMMA OnTickInv ==
    ASSUME EngineInv, NEW s \in Symbols, NEW ltp \in Prices, NEW ts \in 0..MaxClock,
           OnTick(s, ltp, ts)
    PROVE  EngineInv'
<1> USE DEF EngineInv, OnTick, journal, memory, barVars
<1>1. JournalTypes'
  BY DEF TypeOK, JournalTypes
<1>2. EngineTypes'
  BY DEF TypeOK, EngineTypes
<1>3. TickTypes'
  BY DEF TypeOK, TickTypes
<1>4. ControlTypes'
  BY EngineAssumption DEF TypeOK, ControlTypes
<1>5. TickLocals'
  BY DEF TickLocals
<1>6. BarLocals'
  BY DEF BarLocals
<1>7. RowInv'
  BY RowsUntouched
<1> QED
  BY <1>1, <1>2, <1>3, <1>4, <1>5, <1>6, <1>7 DEF TypeOK

LEMMA PopOrderInv == ASSUME EngineInv, PopOrder PROVE EngineInv'
<1> USE DEF EngineInv, PopOrder, journal, memory, barVars, envVars
<1> DEFINE queue == pending[tick.symbol]
<1>1. tick.symbol \in Symbols /\ queue \in Seq(Nat) /\ queue # <<>>
  BY DEF TypeOK, EngineTypes, TickLocals
<1>2. /\ Head(queue) \in DOMAIN orders
      /\ Tail(queue) \in Seq(Nat)
      /\ \A i \in DOMAIN Tail(queue) : Tail(queue)[i] \in DOMAIN orders
  BY <1>1 DEF RowInv, Refs
<1>3. JournalTypes' /\ ControlTypes'
  BY DEF TypeOK, JournalTypes, ControlTypes
<1>4. EngineTypes'
  BY <1>1, <1>2 DEF TypeOK, EngineTypes
<1>5. TickTypes'
  BY <1>1, <1>2 DEF TypeOK, TickTypes, JournalTypes
<1>6. TickLocals'
  BY <1>2 DEF TickLocals
<1>7. BarLocals'
  BY DEF BarLocals
<1>8. Refs'
  BY <1>1, <1>2 DEF RowInv, Refs, IsEntry, TypeOK, EngineTypes
<1>9. OpenMatchesRows' /\ ExitsMarked' /\ ExitsMatchPositions'
  BY DEF RowInv, OpenMatchesRows, ExitsMarked, ExitsMatchPositions, Exits, Entries, IsEntry
<1> QED
  BY <1>3, <1>4, <1>5, <1>6, <1>7, <1>8, <1>9 DEF TypeOK, RowInv

LEMMA FillOrderInv == ASSUME EngineInv, FillOrder PROVE EngineInv'
<1> DEFINE fill == [order |-> popped, price |-> FillPrice(orders[popped].side, tick.ltp)]
<1> USE DEF EngineInv, TypeOK
<1>1. /\ tpc = "fill" /\ tpc' = "drain" /\ CommitFill
      /\ fills' = Append(fills, fill) /\ popped' = 0
      /\ UNCHANGED <<open, openBySymbol, tradesToday, realisedToday, realisedWeek,
                     pending, tick, closing, exitRole, bpc, job, clock, killed,
                     signalled, armed, faults, restarts>>
  BY DEF FillOrder, memory, barVars, envVars
<1>2. JournalTypes' /\ Kept /\ DOMAIN orders' = DOMAIN orders
  BY <1>1, FillCommitted
<1>3. UNCHANGED <<signals, positions>>
  BY <1>1 DEF CommitFill
<1>4. popped \in DOMAIN orders /\ orders[popped] \in OrderType
  BY <1>1 DEF TickLocals, JournalTypes
<1>5. fill \in FillType /\ fill.order \in DOMAIN orders
  <2>1. orders[popped].side \in {"BUY", "SELL"} /\ tick.ltp \in Prices /\ popped \in Nat
    BY <1>1, <1>4 DEF TickLocals, TickTypes, OrderType
  <2> QED
    BY <1>4, <2>1, MoneyIsInt DEF FillType
<1> HIDE DEF fill
<1>6. /\ fills' \in Seq(FillType)
      /\ \A i \in DOMAIN fills' : fills'[i].order \in DOMAIN orders
  BY <1>1, <1>5, Appended DEF TickTypes, RowInv, Refs
<1>7. EngineTypes' /\ ControlTypes'
  BY <1>1, <1>3 DEF EngineTypes, ControlTypes
<1>8. TickTypes'
  BY <1>1, <1>6 DEF TickTypes
<1>9. TickLocals' /\ BarLocals'
  BY <1>1, <1>3 DEF TickLocals, BarLocals
<1>10. Refs' /\ OpenMatchesRows'
  BY <1>1, <1>2, <1>3, <1>6 DEF RowInv, Refs, OpenMatchesRows, IsEntry, Kept, Signed
<1>11. Exits' = Exits /\ ExitsMatchPositions'
  BY <1>2, ExitsKept
<1>12. ExitsMarked'
  BY <1>1, <1>2, <1>11 DEF RowInv, ExitsMarked, Kept, Exits
<1> QED
  BY <1>2, <1>7, <1>8, <1>9, <1>10, <1>11, <1>12 DEF RowInv

LEMMA ExitReasonType == \A pos : ExitReason(pos) \in ExitRoles \cup {"none"}
BY DEF ExitReason, ExitRoles

\* The steps that only move the tick consumer on.
LEMMA TickControlInv ==
    ASSUME EngineInv, Drained \/ ApplyEntry \/ Applied \/ Hold \/ TriggerExit
    PROVE  EngineInv'
<1> USE DEF EngineInv, Drained, ApplyEntry, Applied, Hold, TriggerExit,
            journal, memory, barVars, envVars
<1>1. JournalTypes' /\ EngineTypes' /\ ControlTypes'
  BY DEF TypeOK, JournalTypes, EngineTypes, ControlTypes
<1>2. TickTypes'
  BY ExitReasonType DEF TypeOK, TickTypes
<1>3. TickLocals'
  BY ExitReasonType DEF TickLocals, Exitable
<1>4. BarLocals'
  BY DEF BarLocals
<1>5. RowInv'
  BY RowsUntouched
<1> QED
  BY <1>1, <1>2, <1>3, <1>4, <1>5 DEF TypeOK

LEMMA RefreshUnrealisedInv == ASSUME EngineInv, RefreshUnrealised PROVE EngineInv'
<1> USE DEF EngineInv, RefreshUnrealised, journal, barVars, envVars
<1>1. JournalTypes' /\ EngineTypes' /\ ControlTypes'
  BY DEF TypeOK, JournalTypes, EngineTypes, ControlTypes
<1>2. TickTypes'
  BY DEF TypeOK, TickTypes
<1>3. TickLocals' /\ BarLocals'
  BY DEF TickLocals, BarLocals
<1>4. RowInv'
  BY RowsUntouched
<1> QED
  BY <1>1, <1>2, <1>3, <1>4 DEF TypeOK

\* A new row's id is held by nothing yet, so the position it opens is unmarked
\* and no exit order names it.
LEMMA OpenPositionInv == ASSUME EngineInv, OpenPosition PROVE EngineInv'
<1> DEFINE fill  == Head(fills)
           order == orders[fill.order]
           sig   == signals[order.signal]
           id    == Len(positions) + 1
           pos   == [symbol |-> order.symbol, direction |-> sig.direction,
                     qty |-> order.qty, entry |-> fill.price,
                     stop |-> sig.stop, target |-> sig.target,
                     charges |-> ChargesForLeg(order.side, order.qty, fill.price),
                     exitPending |-> FALSE]
<1> USE DEF EngineInv, TypeOK
<1>1. /\ CommitOpen
      /\ open' = With(open, id, pos)
      /\ openBySymbol' = With(openBySymbol, order.symbol, id)
      /\ fills' = Tail(fills)
      /\ tpc = "open" /\ tpc' = "apply"
      /\ UNCHANGED <<tradesToday, realisedToday, realisedWeek, pending,
                     tick, popped, closing, exitRole, bpc, job, clock, killed,
                     signalled, armed, faults, restarts>>
  BY DEF OpenPosition, barVars, envVars
<1>2. /\ fills \in Seq(FillType)
      /\ Tail(fills) \in Seq(FillType)
      /\ \A i \in DOMAIN Tail(fills) : i + 1 \in DOMAIN fills /\ Tail(fills)[i] = fills[i + 1]
  BY <1>1, HeadTail DEF TickLocals, TickTypes
<1>3. /\ JournalTypes' /\ Kept
      /\ fill \in FillType /\ order \in OrderType /\ sig \in SignalRowType
      /\ UNCHANGED <<orders, booked>>
      /\ DOMAIN signals' = DOMAIN signals
      /\ id \in Nat \ DOMAIN positions
      /\ DOMAIN positions' = DOMAIN positions \cup {id}
      /\ positions'[id].symbol = order.symbol
      /\ positions'[id].qty = Signed(sig.direction, order.qty)
  BY <1>1, OpenCommitted
<1>4. pos \in OpenType
  <2>1. fill.price \in Int
    BY <1>3 DEF FillType
  <2>2. order.side \in {"BUY", "SELL"} /\ order.qty \in Nat \ {0} /\ order.symbol \in Symbols
    BY <1>3 DEF OrderType
  <2>3. ChargesForLeg(order.side, order.qty, fill.price) \in Int
    BY <2>1, <2>2, MoneyIsInt
  <2>4. sig.direction \in {"long", "short"} /\ sig.stop \in Nat /\ sig.target \in Nat
    BY <1>3 DEF SignalRowType
  <2> QED
    BY <2>1, <2>2, <2>3, <2>4 DEF OpenType
<1>5. /\ positions'[id].symbol = pos.symbol
      /\ positions'[id].qty = Signed(pos.direction, pos.qty)
      /\ pos.symbol = order.symbol /\ order.symbol \in Symbols
  BY <1>3 DEF OrderType
<1> HIDE DEF fill, order, sig, pos, id
<1>6. /\ id \notin DOMAIN open
       /\ open' \in [DOMAIN open' -> OpenType]
       /\ DOMAIN open' = DOMAIN open \cup {id}
       /\ open'[id] = pos
       /\ \A p \in DOMAIN open : open'[p] = open[p]
  <2>1. open \in [DOMAIN open -> OpenType] /\ DOMAIN open \subseteq DOMAIN positions
    BY DEF EngineTypes
  <2>2. id \notin DOMAIN open
    BY <1>3, <2>1
  <2>3. /\ DOMAIN open' = DOMAIN open \cup {id}
        /\ open'[id] = pos
        /\ \A p \in DOMAIN open : open'[p] = open[p]
    BY <1>1, <2>2 DEF With
  <2>4. open' = [p \in DOMAIN open \cup {id} |-> open'[p]]
    BY <1>1 DEF With
  <2>5. \A p \in DOMAIN open' : open'[p] \in OpenType
    BY <1>4, <2>1, <2>3
  <2> QED
    BY <2>2, <2>3, <2>4, <2>5
<1>7. /\ DOMAIN openBySymbol' = DOMAIN openBySymbol \cup {order.symbol}
       /\ openBySymbol'[order.symbol] = id
       /\ \A s \in DOMAIN openBySymbol : s # order.symbol => openBySymbol'[s] = openBySymbol[s]
  BY <1>1 DEF With
<1>8. EngineTypes'
  BY <1>1, <1>3, <1>5, <1>6, <1>7 DEF EngineTypes
<1>9. TickTypes' /\ ControlTypes'
  BY <1>1, <1>2 DEF TickTypes, ControlTypes
<1>10. TickLocals'
  BY <1>1 DEF TickLocals
<1>11. BarLocals'
  BY <1>1, <1>3 DEF BarLocals
<1>12. Refs'
  BY <1>1, <1>2, <1>3 DEF RowInv, Refs, IsEntry
<1>13. OpenMatchesRows'
  <2>1. \A p \in DOMAIN open' :
           /\ positions'[p].symbol = open'[p].symbol
           /\ positions'[p].qty = Signed(open'[p].direction, open'[p].qty)
    <3>1. \A p \in DOMAIN open : p # id /\ positions'[p].symbol = positions[p].symbol
                                        /\ positions'[p].qty = positions[p].qty
      BY <1>3, <1>6 DEF EngineTypes, Kept
    <3> QED
      BY <1>5, <1>6, <3>1 DEF RowInv, OpenMatchesRows
  <2>2. \A s \in DOMAIN openBySymbol' :
           /\ openBySymbol'[s] \in DOMAIN open'
           /\ open'[openBySymbol'[s]].symbol = s
    BY <1>5, <1>6, <1>7 DEF RowInv, OpenMatchesRows
  <2> QED
    BY <2>1, <2>2 DEF OpenMatchesRows, Signed
<1>14. Exits' = Exits /\ ExitsMatchPositions'
  BY <1>3, ExitsKept
<1>15. \A o \in Exits : orders[o].position \in DOMAIN positions
  BY DEF RowInv, ExitsMatchPositions
<1>16. ExitsMarked'
  BY <1>1, <1>3, <1>6, <1>14, <1>15 DEF RowInv, ExitsMarked
<1> QED
  BY <1>3, <1>8, <1>9, <1>10, <1>11, <1>12, <1>13, <1>14, <1>16 DEF RowInv

\* The position leaves the engine's memory: what is said of the others stays.
LEMMA ApplyExitInv == ASSUME EngineInv, ApplyExit PROVE EngineInv'
<1> USE DEF EngineInv, journal, barVars, envVars
<1> DEFINE fill  == Head(fills)
           order == orders[fill.order]
           id    == order.position
           pos   == open[id]
           net   == Gain(pos, fill.price) - pos.charges
                       - ChargesForLeg(order.side, order.qty, fill.price)
<1>1. /\ fills \in Seq(FillType) /\ fills # <<>>
      /\ fill \in FillType
      /\ Tail(fills) \in Seq(FillType)
      /\ 1 \in DOMAIN fills /\ fill = fills[1]
      /\ \A i \in DOMAIN Tail(fills) : i + 1 \in DOMAIN fills /\ Tail(fills)[i] = fills[i + 1]
  BY HeadTail DEF ApplyExit, TypeOK, TickTypes
<1>2. fill.order \in DOMAIN orders /\ order \in OrderType /\ order.role # "entry"
  BY <1>1 DEF ApplyExit, RowInv, Refs, TypeOK, JournalTypes
<1>3. /\ UNCHANGED <<signals, orders, positions, booked, tradesToday, realisedToday,
                     realisedWeek, pending, tick, popped, exitRole, bpc, job, clock,
                     killed, signalled, armed, faults, restarts>>
      /\ fills' = Tail(fills)
  BY DEF ApplyExit
<1>4. JournalTypes' /\ ControlTypes'
  BY <1>3 DEF TypeOK, JournalTypes, ControlTypes
<1>5. BarLocals'
  BY <1>3 DEF BarLocals
<1>6. Refs'
  BY <1>1, <1>3 DEF RowInv, Refs, IsEntry
<1>7. Exits' = Exits
  BY <1>3 DEF Exits, Entries, IsEntry
<1>8. ExitsMatchPositions'
  BY <1>3, <1>7 DEF RowInv, ExitsMatchPositions
<1>9. CASE id \notin DOMAIN open
  <2>1. UNCHANGED <<open, openBySymbol, closing, tpc>>
    BY <1>9 DEF ApplyExit
  <2>2. tpc = "apply"
    BY DEF ApplyExit
  <2>3. EngineTypes' /\ TickTypes'
    BY <1>1, <1>3, <2>1 DEF TypeOK, EngineTypes, TickTypes
  <2>4. TickLocals'
    BY <1>3, <2>1, <2>2 DEF TickLocals
  <2>5. OpenMatchesRows' /\ ExitsMarked'
    BY <1>3, <1>7, <2>1 DEF RowInv, OpenMatchesRows, ExitsMarked, Signed
  <2> QED
    BY <1>4, <1>5, <1>6, <1>8, <2>3, <2>4, <2>5 DEF TypeOK, RowInv
<1>10. CASE id \in DOMAIN open
  <2>1. /\ open' = Without(open, id)
        /\ openBySymbol' = Without(openBySymbol, pos.symbol)
        /\ closing' = [id |-> id, symbol |-> pos.symbol, net |-> net, role |-> order.role]
        /\ tpc = "apply" /\ tpc' = "close"
    BY <1>10 DEF ApplyExit
  <2>2. pos \in OpenType /\ id \in DOMAIN positions /\ id \in Nat
    BY <1>2, <1>10 DEF TypeOK, EngineTypes, OrderType
  <2>3. net \in Int
    <3>1. Gain(pos, fill.price) \in Int /\ pos.charges \in Int
      BY <1>1, <2>2, MoneyIsInt DEF FillType, OpenType
    <3>2. order.side \in {"BUY", "SELL"} /\ order.qty \in Nat
      BY <1>2 DEF OrderType
    <3>3. ChargesForLeg(order.side, order.qty, fill.price) \in Int
      BY <1>1, <3>2, MoneyIsInt DEF FillType
    <3> QED
      BY <3>1, <3>3
  <2>4. closing' \in ClosingType
    <3>1. pos.symbol \in Symbols
      BY <2>2 DEF OpenType
    <3>2. order.role \in ExitRoles
      BY <1>2 DEF OrderType
    <3> HIDE DEF net, pos, id, order
    <3> QED
      BY <2>1, <2>2, <2>3, <3>1, <3>2 DEF ClosingType
  <2> HIDE DEF net, pos, id, order
  <2>5. /\ DOMAIN open' = DOMAIN open \ {id}
        /\ \A p \in DOMAIN open' : open'[p] = open[p]
        /\ DOMAIN openBySymbol' = DOMAIN openBySymbol \ {pos.symbol}
        /\ \A s \in DOMAIN openBySymbol' : openBySymbol'[s] = openBySymbol[s]
    BY <2>1 DEF Without
  <2>6. EngineTypes'
    <3>1. open' \in [DOMAIN open' -> OpenType]
      BY <2>1, WithoutFacts DEF TypeOK, EngineTypes
    <3> QED
      BY <1>3, <2>5, <3>1 DEF TypeOK, EngineTypes
  <2>7. TickTypes'
    BY <1>1, <1>3, <2>1, <2>4 DEF TypeOK, TickTypes
  <2>8. TickLocals'
    <3>1. closing'.id = id
      BY <2>1
    <3> QED
      BY <1>3, <2>1, <2>2, <3>1 DEF TickLocals
  <2>9. OpenMatchesRows'
    <3>1. \A p \in DOMAIN open' :
             /\ positions'[p].symbol = open'[p].symbol
             /\ positions'[p].qty = Signed(open'[p].direction, open'[p].qty)
      BY <1>3, <2>5 DEF RowInv, OpenMatchesRows
    <3>2. \A s \in DOMAIN openBySymbol' :
             /\ openBySymbol'[s] \in DOMAIN open'
             /\ open'[openBySymbol'[s]].symbol = s
      BY <2>5 DEF RowInv, OpenMatchesRows, pos
    <3> QED
      BY <3>1, <3>2 DEF OpenMatchesRows, Signed
  <2>10. ExitsMarked'
    <3>1. tpc # "dead"
      BY DEF ApplyExit
    <3> QED
      BY <1>3, <1>7, <2>5, <3>1 DEF RowInv, ExitsMarked
  <2> QED
    BY <1>4, <1>5, <1>6, <1>8, <2>6, <2>7, <2>8, <2>9, <2>10 DEF TypeOK, RowInv
<1> QED
  BY <1>9, <1>10

LEMMA ClosePositionInv == ASSUME EngineInv, ClosePosition PROVE EngineInv'
<1> USE DEF EngineInv, TypeOK
<1>1. /\ CommitClose
      /\ realisedToday' = realisedToday + closing.net
      /\ realisedWeek' = realisedWeek + closing.net
      /\ closing' = NoClosing
      /\ tpc = "close" /\ tpc' = "apply"
      /\ UNCHANGED <<open, openBySymbol, tradesToday, pending, tick,
                     popped, fills, exitRole, bpc, job, clock, killed, signalled,
                     armed, faults, restarts>>
  BY DEF ClosePosition, barVars, envVars
<1>2. JournalTypes' /\ Kept /\ closing.net \in Int
  BY <1>1, CloseCommitted
<1>3. UNCHANGED <<signals, orders>>
  BY <1>1 DEF CommitClose
<1>4. EngineTypes'
  BY <1>1, <1>2 DEF EngineTypes, Kept
<1>5. TickTypes' /\ ControlTypes'
  BY <1>1 DEF TickTypes, ControlTypes
<1>6. TickLocals' /\ BarLocals'
  BY <1>1, <1>3 DEF TickLocals, BarLocals
<1>7. Refs' /\ OpenMatchesRows'
  BY <1>1, <1>2, <1>3, RefsKept
<1>8. Exits' = Exits /\ ExitsMatchPositions'
  BY <1>2, <1>3, ExitsKept
<1>9. ExitsMarked'
  BY <1>1, <1>3, <1>8 DEF RowInv, ExitsMarked
<1> QED
  BY <1>2, <1>4, <1>5, <1>6, <1>7, <1>8, <1>9 DEF RowInv

LEMMA PlaceExitInv == ASSUME EngineInv, PlaceExit PROVE EngineInv'
<1> DEFINE s     == tick.symbol
           id    == openBySymbol[s]
           new   == Len(orders) + 1
<1> USE DEF EngineInv, TypeOK
<1>1. /\ CommitExit
      /\ pending' = [pending EXCEPT ![s] = Append(@, new)]
      /\ open' = [open EXCEPT ![id] = Marked(@)]
      /\ exitRole' = "none"
      /\ tpc = "exitPlace" /\ tpc' = "refresh"
      /\ UNCHANGED <<openBySymbol, tradesToday, realisedToday,
                     realisedWeek, tick, popped, fills, closing, bpc, job, clock,
                     killed, signalled, armed, faults, restarts>>
  BY DEF PlaceExit, barVars, envVars
<1>2. /\ JournalTypes' /\ Kept /\ ExitsMatchPositions'
      /\ UNCHANGED <<signals, positions, booked>>
      /\ s \in Symbols
      /\ id \in DOMAIN open /\ open[id] \in OpenType
      /\ new \in Nat \ DOMAIN orders
      /\ DOMAIN orders' = DOMAIN orders \cup {new}
      /\ orders'[new].role # "entry" /\ orders'[new].position = id
      /\ Exits' = Exits \cup {new} /\ Exits \subseteq DOMAIN orders
  BY <1>1, ExitCommitted
<1> HIDE DEF id, s, new
<1>3. /\ pending' \in [Symbols -> Seq(Nat)]
      /\ \A q \in Symbols : \A i \in DOMAIN pending'[q] : pending'[q][i] \in DOMAIN orders'
  BY <1>1, <1>2, Enqueued DEF EngineTypes, RowInv, Refs
<1>4. /\ open' \in [DOMAIN open' -> OpenType] /\ DOMAIN open' = DOMAIN open
      /\ \A p \in DOMAIN open : /\ open'[p].symbol = open[p].symbol
                                /\ open'[p].qty = open[p].qty
                                /\ open'[p].direction = open[p].direction
      /\ open'[id].exitPending
      /\ \A p \in DOMAIN open : open[p].exitPending => open'[p].exitPending
  BY <1>1, <1>2, Updates DEF EngineTypes
<1>5. EngineTypes'
  BY <1>1, <1>2, <1>3, <1>4 DEF EngineTypes
<1>6. TickTypes' /\ ControlTypes'
  BY <1>1 DEF TickTypes, ControlTypes
<1>7. TickLocals' /\ BarLocals'
  BY <1>1, <1>2 DEF TickLocals, BarLocals
<1>8. Refs'
  <2>1. \A o \in DOMAIN orders' : IsEntry(o)' => orders'[o].signal \in DOMAIN signals'
    BY <1>2 DEF RowInv, Refs, IsEntry, Kept
  <2>2. \A i \in DOMAIN fills' : fills'[i].order \in DOMAIN orders'
    BY <1>1, <1>2 DEF RowInv, Refs
  <2> QED
    BY <1>3, <2>1, <2>2 DEF Refs
<1>9. OpenMatchesRows'
  BY <1>1, <1>2, <1>4 DEF RowInv, OpenMatchesRows, Signed
<1>10. ExitsMarked'
  BY <1>1, <1>2, <1>4 DEF RowInv, ExitsMarked, Kept
<1> QED
  BY <1>2, <1>5, <1>6, <1>7, <1>8, <1>9, <1>10 DEF RowInv

-----------------------------------------------------------------------------
\* One lemma for each step of the bar consumer.

LEMMA OnSignalInv ==
    ASSUME EngineInv, NEW sig \in SignalSpace, NEW close \in 0..MaxClock,
           OnSignal(sig, close)
    PROVE  EngineInv'
<1> USE DEF EngineInv, TypeOK
<1>1. /\ signalled' = signalled \cup {sig.symbol}
      /\ job' = [symbol |-> sig.symbol, sig |-> sig, snap |-> Snapshot(close),
                 qty |-> 0, reason |-> "none", id |-> 0]
      /\ bpc' = "regime"
      /\ UNCHANGED <<signals, orders, positions, booked, open, openBySymbol, tradesToday,
                     realisedToday, realisedWeek, pending, tpc, tick, popped, fills,
                     closing, exitRole, clock, killed, armed, faults, restarts>>
  BY DEF OnSignal, journal, memory, tickVars
<1>2. sig \in SignalType /\ sig.symbol \in Symbols
  BY EngineAssumption DEF SignalType
<1>3. JournalTypes' /\ EngineTypes' /\ TickTypes'
  BY <1>1 DEF JournalTypes, EngineTypes, TickTypes
<1>4. ControlTypes'
  BY <1>1, <1>2 DEF ControlTypes
<1>5. TickLocals'
  BY <1>1 DEF TickLocals
<1>6. BarLocals'
  BY <1>1, <1>2 DEF BarLocals, IsJob
<1>7. RowInv'
  BY <1>1, RowsUntouched
<1> QED
  BY <1>3, <1>4, <1>5, <1>6, <1>7

\* The steps between the snapshot and the signal's row, which only change the
\* job, and the risk block.
LEMMA VettingInv ==
    ASSUME EngineInv,
           \/ \E regime \in Regimes, age \in FeedAges :
                 RejectSignal(regime, age) \/ AcceptSignal(regime, age)
           \/ PretradeProceed \/ PretradeSkip
           \/ \E m \in SizeMultipliers : PretradeReduce(m)
           \/ LogRiskBlock
    PROVE  EngineInv'
<1> USE DEF EngineInv, TypeOK
<1>1. UNCHANGED <<signals, orders, positions, booked, open, openBySymbol, tradesToday,
                  realisedToday, realisedWeek, pending, tpc, tick, popped, fills,
                  closing, exitRole, clock, killed, signalled, armed, faults, restarts>>
  BY DEF RejectSignal, AcceptSignal, PretradeProceed, PretradeSkip, PretradeReduce,
         LogRiskBlock, CommitBlock, journal, memory, tickVars, envVars
<1>2. JournalTypes' /\ EngineTypes' /\ TickTypes'
  BY <1>1 DEF JournalTypes, EngineTypes, TickTypes
<1>3. TickLocals'
  BY <1>1 DEF TickLocals
<1>4. RowInv'
  BY <1>1, RowsUntouched
<1>5. ControlTypes'
  BY <1>1 DEF RejectSignal, AcceptSignal, PretradeProceed, PretradeSkip, PretradeReduce,
              LogRiskBlock, ControlTypes
<1>6. bpc \in {"regime", "pretrade"} => IsJob(job)
  BY DEF BarLocals
<1>7. ASSUME NEW regime \in Regimes, NEW age \in FeedAges, RejectSignal(regime, age)
      PROVE  BarLocals'
  <2>1. /\ bpc = "regime" /\ bpc' = "block"
        /\ \E reason : job' = Because(job, reason)
    BY <1>7 DEF RejectSignal
  <2> QED
    BY <1>6, <2>1, JobUpdates DEF BarLocals
<1>8. ASSUME NEW regime \in Regimes, NEW age \in FeedAges, AcceptSignal(regime, age)
      PROVE  BarLocals'
  <2>1. /\ bpc = "regime" /\ bpc' \in {"pretrade", "persist"}
        /\ Accepted(Sized) /\ job' = ForQty(job, Sized.qty)
    BY <1>8 DEF AcceptSignal
  <2>2. job.sig.entry \in Nat /\ job.sig.stop \in Nat
    BY <1>6, <2>1 DEF IsJob, SignalType
  <2>3. Sized.qty \in Nat \ {0}
    BY <2>1, <2>2, AcceptedQty DEF Sized
  <2>4. IsJob(job') /\ job'.qty = Sized.qty
    BY <1>6, <2>1, <2>3, JobUpdates
  <2> QED
    BY <2>1, <2>3, <2>4 DEF BarLocals
<1>9. ASSUME PretradeProceed PROVE BarLocals'
  BY <1>1, <1>9 DEF PretradeProceed, BarLocals
<1>10. ASSUME PretradeSkip PROVE BarLocals'
  <2>1. bpc = "pretrade" /\ bpc' = "block" /\ job' = Because(job, "pretrade_skip")
    BY <1>10 DEF PretradeSkip
  <2> QED
    BY <1>6, <2>1, JobUpdates DEF BarLocals
<1>11. ASSUME NEW m \in SizeMultipliers, PretradeReduce(m) PROVE BarLocals'
  <2> DEFINE scaled == (job.qty * m) \div 100
  <2>1. bpc = "pretrade"
    BY <1>11 DEF PretradeReduce
  <2>2. scaled \in Int
    BY <1>6, <2>1, EngineAssumption DEF IsJob
  <2>3. \/ scaled < 1 /\ bpc' = "block" /\ job' = Because(job, "pretrade_reduce_below_1")
        \/ ~(scaled < 1) /\ bpc' = "persist" /\ job' = ForQty(job, scaled)
    BY <1>11 DEF PretradeReduce
  <2> HIDE DEF scaled
  <2>4. CASE scaled < 1
    BY <1>6, <2>1, <2>3, <2>4, JobUpdates DEF BarLocals
  <2>5. CASE ~(scaled < 1)
    <3>1. scaled \in Nat /\ scaled >= 1
      BY <2>2, <2>5
    <3>2. IsJob(job') /\ job'.qty = scaled
      BY <1>6, <2>1, <2>3, <2>5, <3>1, JobUpdates
    <3> QED
      BY <2>3, <2>5, <3>1, <3>2 DEF BarLocals
  <2> QED
    BY <2>4, <2>5
<1>12. ASSUME LogRiskBlock PROVE BarLocals'
  BY <1>12 DEF LogRiskBlock, BarLocals
<1>13. BarLocals'
  BY <1>7, <1>8, <1>9, <1>10, <1>11, <1>12
<1> QED
  BY <1>2, <1>3, <1>4, <1>5, <1>13

LEMMA PersistSignalInv == ASSUME EngineInv, PersistSignal PROVE EngineInv'
<1> DEFINE new == Len(signals) + 1
<1> USE DEF EngineInv, TypeOK
<1>1. /\ CommitSignal
      /\ job' = AsRow(job, new)
      /\ bpc = "persist" /\ bpc' = "place"
      /\ UNCHANGED <<open, openBySymbol, tradesToday,
                     realisedToday, realisedWeek, pending, tpc, tick, popped, fills,
                     closing, exitRole, clock, killed, signalled, armed, faults, restarts>>
  BY DEF PersistSignal, memory, tickVars, envVars
<1>2. /\ JournalTypes' /\ Kept /\ UNCHANGED <<orders, positions, booked>>
      /\ new \in Nat /\ new \in DOMAIN signals'
  BY <1>1, SignalCommitted
<1> HIDE DEF new
<1>3. EngineTypes' /\ TickTypes' /\ ControlTypes'
  BY <1>1, <1>2 DEF EngineTypes, TickTypes, ControlTypes
<1>4. TickLocals'
  BY <1>1, <1>2 DEF TickLocals
<1>5. BarLocals'
  BY <1>1, <1>2, JobUpdates DEF BarLocals
<1>6. Refs' /\ OpenMatchesRows'
  BY <1>1, <1>2, RefsKept
<1>7. Exits' = Exits /\ ExitsMatchPositions'
  BY <1>2, ExitsKept
<1>8. ExitsMarked'
  BY <1>1, <1>2, <1>7 DEF RowInv, ExitsMarked
<1> QED
  BY <1>2, <1>3, <1>4, <1>5, <1>6, <1>7, <1>8 DEF RowInv

LEMMA PlaceEntryInv == ASSUME EngineInv, PlaceEntry PROVE EngineInv'
<1> DEFINE s   == job.symbol
           new == Len(orders) + 1
<1> USE DEF EngineInv, TypeOK
<1>1. /\ CommitEntry
      /\ pending' = [pending EXCEPT ![s] = Append(@, new)]
      /\ tradesToday' = tradesToday + 1
      /\ bpc = "place" /\ bpc' = "idle"
      /\ UNCHANGED <<open, openBySymbol, realisedToday,
                     realisedWeek, tpc, tick, popped, fills, closing, exitRole,
                     clock, killed, signalled, armed, faults, restarts>>
  BY DEF PlaceEntry, tickVars, envVars
<1>2. /\ JournalTypes' /\ Kept /\ UNCHANGED <<signals, positions, booked>>
      /\ s \in Symbols
      /\ new \in Nat \ DOMAIN orders
      /\ DOMAIN orders' = DOMAIN orders \cup {new}
      /\ orders'[new].role = "entry" /\ orders'[new].signal \in DOMAIN signals
  BY <1>1, EntryCommitted
<1> HIDE DEF s, new
<1>3. /\ pending' \in [Symbols -> Seq(Nat)]
      /\ \A q \in Symbols : \A i \in DOMAIN pending'[q] : pending'[q][i] \in DOMAIN orders'
  BY <1>1, <1>2, Enqueued DEF EngineTypes, RowInv, Refs
<1>4. EngineTypes' /\ TickTypes' /\ ControlTypes'
  BY <1>1, <1>2, <1>3 DEF EngineTypes, TickTypes, ControlTypes
<1>5. TickLocals'
  <2>1. tpc = "open" => Head(fills).order \in DOMAIN orders
    BY HeadTail DEF TickLocals, TickTypes, RowInv, Refs
  <2> QED
    BY <1>1, <1>2, <2>1 DEF TickLocals, Kept
<1>6. BarLocals'
  BY <1>1 DEF BarLocals
<1>7. Refs'
  <2>1. \A o \in DOMAIN orders' : IsEntry(o)' => orders'[o].signal \in DOMAIN signals'
    BY <1>2 DEF RowInv, Refs, IsEntry, Kept
  <2>2. \A i \in DOMAIN fills' : fills'[i].order \in DOMAIN orders'
    BY <1>1, <1>2 DEF RowInv, Refs
  <2> QED
    BY <1>3, <2>1, <2>2 DEF Refs
<1>8. OpenMatchesRows'
  BY <1>1, <1>2 DEF RowInv, OpenMatchesRows, Signed
<1>9. Exits' = Exits /\ ExitsMatchPositions'
  BY <1>2, ExitsKept
<1>10. ExitsMarked'
  BY <1>1, <1>2, <1>9 DEF RowInv, ExitsMarked, Kept, Exits
<1> QED
  BY <1>2, <1>4, <1>5, <1>6, <1>7, <1>8, <1>9, <1>10 DEF RowInv

-----------------------------------------------------------------------------
\* The environment and the theorems.

LEMMA KillInv == ASSUME EngineInv, Kill PROVE EngineInv'
<1> USE DEF EngineInv, TypeOK, Kill, journal, memory, tickVars, barVars
<1>1. JournalTypes' /\ EngineTypes' /\ TickTypes'
  BY DEF JournalTypes, EngineTypes, TickTypes
<1>2. ControlTypes'
  BY DEF ControlTypes
<1>3. TickLocals' /\ BarLocals'
  BY DEF TickLocals, BarLocals
<1>4. RowInv'
  BY RowsUntouched
<1> QED
  BY <1>1, <1>2, <1>3, <1>4

LEMMA TickFaultInv == ASSUME EngineInv, TickFault PROVE EngineInv'
<1> USE DEF EngineInv, TypeOK
<1>1. /\ UNCHANGED <<open, openBySymbol, tradesToday, realisedToday, realisedWeek, pending,
                     tick, fills, closing, exitRole, bpc, job, clock, killed, signalled,
                     armed, restarts>>
      /\ tpc' = "dead" /\ popped' = 0 /\ faults' = faults + 1
  BY DEF TickFault, memory, barVars
<1>2. /\ JournalTypes' /\ Kept /\ ExitsMatchPositions'
      /\ \A o \in DOMAIN orders' \ DOMAIN orders :
            orders'[o].role = "entry" => orders'[o].signal \in DOMAIN signals'
  <2>1. CASE UNCHANGED journal
    <3>1. UNCHANGED <<signals, orders, positions, booked>>
      BY <2>1 DEF journal
    <3>2. Kept
      BY <3>1 DEF Kept
    <3> QED
      BY <3>1, <3>2, ExitsKept DEF JournalTypes
  <2>2. CASE tpc = "fill" /\ CommitFill
    BY <2>2, FillCommitted, ExitsKept
  <2>3. CASE tpc = "open" /\ CommitOpen
    BY <2>3, OpenCommitted, ExitsKept
  <2>4. CASE tpc = "close" /\ CommitClose
    BY <2>4, CloseCommitted, ExitsKept DEF CommitClose
  <2>5. CASE tpc = "exitPlace" /\ CommitExit
    BY <2>5, ExitCommitted
  <2> QED
    BY <2>1, <2>2, <2>3, <2>4, <2>5 DEF TickFault
<1>3. EngineTypes'
  BY <1>1, <1>2 DEF EngineTypes, Kept
<1>4. TickTypes' /\ ControlTypes'
  BY <1>1 DEF TickTypes, ControlTypes
<1>5. TickLocals' /\ BarLocals'
  BY <1>1, <1>2 DEF TickLocals, BarLocals, Kept
<1>6. Refs' /\ OpenMatchesRows'
  BY <1>1, <1>2, RefsKept
<1>7. ExitsMarked'
  BY <1>1 DEF ExitsMarked
<1> QED
  BY <1>2, <1>3, <1>4, <1>5, <1>6, <1>7 DEF RowInv

LEMMA BarFaultInv == ASSUME EngineInv, BarFault PROVE EngineInv'
<1> USE DEF EngineInv, TypeOK
<1>1. /\ UNCHANGED <<open, openBySymbol, tradesToday, realisedToday, realisedWeek, pending,
                     tpc, tick, popped, fills, closing, exitRole, job, clock, killed,
                     signalled, armed, restarts>>
      /\ bpc' = "dead" /\ faults' = faults + 1
  BY DEF BarFault, memory, tickVars
<1>2. /\ JournalTypes' /\ Kept
      /\ \A o \in DOMAIN orders' \ DOMAIN orders :
            orders'[o].role = "entry" /\ orders'[o].signal \in DOMAIN signals'
  <2>1. CASE UNCHANGED <<signals, orders, positions, booked>>
    BY <2>1 DEF JournalTypes, Kept
  <2>2. CASE bpc = "persist" /\ CommitSignal
    BY <2>2, SignalCommitted
  <2>3. CASE bpc = "place" /\ CommitEntry
    BY <2>3, EntryCommitted
  <2> QED
    BY <2>1, <2>2, <2>3 DEF BarFault, CommitBlock, journal
<1>3. EngineTypes'
  BY <1>1, <1>2 DEF EngineTypes, Kept
<1>4. TickTypes' /\ ControlTypes'
  BY <1>1 DEF TickTypes, ControlTypes
<1>5. TickLocals'
  <2>1. tpc = "open" => Head(fills).order \in DOMAIN orders
    BY HeadTail DEF TickLocals, TickTypes, RowInv, Refs
  <2> QED
    BY <1>1, <1>2, <2>1 DEF TickLocals, Kept
<1>6. BarLocals'
  BY <1>1 DEF BarLocals
<1>7. Refs' /\ OpenMatchesRows'
  BY <1>1, <1>2, RefsKept
<1>8. Exits' = Exits /\ ExitsMatchPositions'
  BY <1>2, ExitsKept
<1>9. ExitsMarked'
  BY <1>1, <1>2, <1>8 DEF RowInv, ExitsMarked, Kept, Exits
<1> QED
  BY <1>2, <1>3, <1>4, <1>5, <1>6, <1>7, <1>8, <1>9 DEF RowInv

LEMMA RestartInv == ASSUME EngineInv, Restart PROVE EngineInv'
<1> USE DEF EngineInv, TypeOK
<1>1. /\ UNCHANGED <<signals, orders, positions, booked, clock, signalled, faults>>
      /\ open' = EmptyMap /\ openBySymbol' = EmptyMap
      /\ tradesToday' = 0 /\ realisedToday' = booked /\ realisedWeek' = WeekBefore + booked
      /\ pending' = [s \in Symbols |-> <<>>]
      /\ tpc' = "idle" /\ tick' = NoTick /\ popped' = 0 /\ fills' = <<>>
      /\ closing' = NoClosing /\ exitRole' = "none" /\ bpc' = "idle"
      /\ killed' = FALSE /\ armed' \in BOOLEAN /\ restarts' = restarts + 1
  BY DEF Restart, journal, InitialRealisedPnl, StillArmed, ControlTypes
<1>2. JournalTypes'
  BY <1>1 DEF JournalTypes
<1>3. EngineTypes'
  BY <1>1, EngineAssumption DEF EngineTypes, JournalTypes, EmptyMap
<1>4. TickTypes'
  BY <1>1 DEF TickTypes
<1>5. ControlTypes'
  <2>1. killed' \in BOOLEAN
    BY DEF Restart
  <2>2. armed' \in BOOLEAN
    BY <1>1
  <2> QED
    BY <1>1, <2>1, <2>2 DEF ControlTypes
<1>6. TickLocals' /\ BarLocals'
  BY <1>1 DEF TickLocals, BarLocals
<1>7. Refs'
  BY <1>1 DEF RowInv, Refs, IsEntry
<1>8. OpenMatchesRows'
  BY <1>1 DEF OpenMatchesRows, EmptyMap
<1>9. Exits' = Exits
  BY <1>1 DEF Exits, Entries, IsEntry
<1>10. ExitsMarked' /\ ExitsMatchPositions'
  BY <1>1, <1>9 DEF RowInv, ExitsMarked, ExitsMatchPositions, EmptyMap
<1> QED
  BY <1>2, <1>3, <1>4, <1>6, <1>7, <1>8, <1>10, <1>5 DEF RowInv

LEMMA StutterInv == ASSUME EngineInv, UNCHANGED vars PROVE EngineInv'
<1> USE DEF EngineInv, TypeOK, vars, journal, memory, tickVars, barVars, envVars
<1>1. JournalTypes' /\ EngineTypes' /\ TickTypes' /\ ControlTypes'
  BY DEF JournalTypes, EngineTypes, TickTypes, ControlTypes
<1>2. TickLocals' /\ BarLocals'
  BY DEF TickLocals, BarLocals
<1>3. RowInv'
  BY RowsUntouched
<1> QED
  BY <1>1, <1>2, <1>3

LEMMA NextInv == ASSUME EngineInv, [Next]_vars PROVE EngineInv'
<1>1. CASE \E s \in Symbols : TickOf(s)
  BY <1>1, OnTickInv, EngineAssumption DEF TickOf
<1>2. CASE TickStep
  BY <1>2, PopOrderInv, FillOrderInv, TickControlInv, OpenPositionInv, ApplyExitInv,
     ClosePositionInv, PlaceExitInv, RefreshUnrealisedInv DEF TickStep
<1>3. CASE \E sig \in SignalSpace, close \in 0..MaxClock : OnSignal(sig, close)
  BY <1>3, OnSignalInv
<1>4. CASE BarStep
  BY <1>4, VettingInv, PersistSignalInv, PlaceEntryInv DEF BarStep
<1>5. CASE Kill \/ TickFault \/ BarFault \/ Restart
  BY <1>5, KillInv, TickFaultInv, BarFaultInv, RestartInv
<1>6. CASE UNCHANGED vars
  BY <1>6, StutterInv
<1> QED
  BY <1>1, <1>2, <1>3, <1>4, <1>5, <1>6 DEF Next

\* The inductive invariant holds throughout.
THEOREM EngineInvariant == Spec => []EngineInv
<1>1. Init => EngineInv
  BY InitInv
<1>2. EngineInv /\ [Next]_vars => EngineInv'
  BY NextInv
<1> QED
  BY <1>1, <1>2, PTL DEF Spec

\* Rows, counters, queues and locals keep their types, whatever interleaves,
\* raises or restarts (ExecutionEngine, PaperBroker).
THEOREM TypeCorrect == Spec => []TypeOK
<1>1. EngineInv => TypeOK
  BY DEF EngineInv
<1> QED
  BY <1>1, EngineInvariant, PTL

\* No position is exited twice and every exit order undoes exactly the row of
\* the position it names (_check_exits, exit_order_pending), for any symbols,
\* prices, signals and limits and any number of faults and restarts.
THEOREM ExitsCorrect == Spec => []ExitsMatchPositions
<1>1. EngineInv => ExitsMatchPositions
  BY DEF EngineInv, RowInv
<1> QED
  BY <1>1, EngineInvariant, PTL

-----------------------------------------------------------------------------
\* Only a close and a restart touch the two sides of the P&L.

LEMMA RealisedStep ==
    ASSUME EngineInv, RealisedMatchesJournal, [Next]_vars
    PROVE  RealisedMatchesJournal'
<1> USE DEF RealisedMatchesJournal
<1>1. CASE ClosePosition
  <2>1. /\ tpc = "close" /\ CommitClose
        /\ realisedToday' = realisedToday + closing.net
        /\ realisedWeek' = realisedWeek + closing.net
    BY <1>1 DEF ClosePosition
  <2>2. booked' = booked + closing.net /\ closing.net \in Int
    BY <2>1, CloseCommitted DEF CommitClose
  <2>3. booked \in Int /\ WeekBefore \in Int
    BY EngineAssumption DEF EngineInv, TypeOK, JournalTypes
  <2> QED
    BY <2>1, <2>2, <2>3
<1>2. CASE Restart
  BY <1>2 DEF Restart, journal, InitialRealisedPnl
<1>3. CASE TickFault
  BY <1>3 DEF TickFault
<1>4. CASE BarFault
  BY <1>4 DEF BarFault, CommitSignal, CommitEntry, CommitBlock, journal, memory, tickVars
<1>5. CASE /\ UNCHANGED <<booked, realisedToday, realisedWeek>>
           /\ tpc = "dead" => tpc' = "dead"
  BY <1>5
<1>6. CASE \/ \E s \in Symbols : TickOf(s)
           \/ PopOrder \/ FillOrder \/ Drained
           \/ ApplyEntry \/ OpenPosition \/ ApplyExit \/ Applied
           \/ Hold \/ TriggerExit \/ PlaceExit \/ RefreshUnrealised
  BY <1>5, <1>6
     DEF TickOf, OnTick, PopOrder, FillOrder, CommitFill, Drained, ApplyEntry, OpenPosition,
         CommitOpen, ApplyExit, Applied, Hold, TriggerExit, PlaceExit, CommitExit,
         RefreshUnrealised, journal, memory
<1>7. CASE \/ \E sig \in SignalSpace, close \in 0..MaxClock : OnSignal(sig, close)
           \/ BarStep \/ Kill
  BY <1>5, <1>7
     DEF OnSignal, BarStep, RejectSignal, AcceptSignal, PretradeProceed, PretradeSkip,
         PretradeReduce, PersistSignal, CommitSignal, PlaceEntry, CommitEntry,
         LogRiskBlock, CommitBlock, Kill, journal, memory, tickVars
<1>8. CASE UNCHANGED vars
  BY <1>5, <1>8 DEF vars, journal, memory, tickVars
<1> QED
  BY <1>1, <1>2, <1>3, <1>4, <1>6, <1>7, <1>8 DEF Next, TickStep

\* The loss limits are held against the journal's P&L (restore_pnl_state), for
\* any symbols and prices and any number of faults and restarts.
THEOREM RealisedCorrect == Spec => []RealisedMatchesJournal
<1>1. Init => RealisedMatchesJournal
  BY EngineAssumption DEF Init, RealisedMatchesJournal
<1>2. EngineInv /\ RealisedMatchesJournal /\ [Next]_vars => RealisedMatchesJournal'
  BY RealisedStep
<1> QED
  BY <1>1, <1>2, EngineInvariant, PTL DEF Spec
=============================================================================
