-------------------------- MODULE EngineBookProofs --------------------------
(***************************************************************************)
(* The engine implements the book of positions, the broker fills each order *)
(* once, and what the journal calls open is watched: proofs for every set   *)
(* of symbols, prices, signals and limits, and any number of restarts and   *)
(* of failing awaits.                                                       *)
(***************************************************************************)
EXTENDS ExecutionEngineProofs, SumProofs

Ids(q) == {q[i] : i \in DOMAIN q}
Distinct(q) == \A i, j \in DOMAIN q : q[i] = q[j] => i = j

\* Where an order is between its row's commit and its fill, and behind it.
QueueInv ==
    /\ \A s \in Symbols :
          /\ Distinct(pending[s])
          /\ \A o \in Ids(pending[s]) :
                orders[o].status = "PENDING" /\ orders[o].symbol = s /\ o # popped
    /\ popped # 0 <=> tpc = "fill"
    /\ tpc = "fill" => orders[popped].status = "PENDING"
    /\ \A i \in DOMAIN fills : orders[fills[i].order].status = "FILLED"
    /\ Undisturbed => \A o \in DOMAIN orders :
          orders[o].status = "PENDING" => o = popped \/ \E s \in Symbols : o \in Ids(pending[s])

\* Where a position is between its row's commit and its closed_at.
PlaceInv ==
    /\ \A id \in DOMAIN open : ~positions[id].closed
    /\ tpc = "close" => /\ closing.id \notin DOMAIN open
                        /\ ~positions[closing.id].closed
                        /\ FilledOf(closing.id) # {}
    /\ \A id \in DOMAIN positions : positions[id].closed => FilledOf(id) # {}
    /\ Undisturbed =>
          /\ tpc # "dead" /\ (tpc # "close" => closing.id = 0)
          /\ \A id \in DOMAIN positions :
                ~positions[id].closed => id \in DOMAIN open \/ id = closing.id

\* The inductive invariant.
BookInv == EngineInv /\ QueueInv /\ PlaceInv

-----------------------------------------------------------------------------
\* Queues

LEMMA LongerQueue ==
    ASSUME NEW q \in Seq(Nat), NEW n \in Nat, NEW r, r = Append(q, n)
    PROVE  /\ r \in Seq(Nat) /\ Ids(r) = Ids(q) \cup {n}
           /\ Distinct(q) /\ n \notin Ids(q) => Distinct(r)
<1>1. /\ r \in Seq(Nat) /\ DOMAIN r = DOMAIN q \cup {Len(q) + 1}
      /\ \A i \in DOMAIN q : r[i] = q[i]
      /\ r[Len(q) + 1] = n
      /\ Len(q) + 1 \notin DOMAIN q
  OBVIOUS
<1> QED
  BY <1>1 DEF Ids, Distinct

LEMMA ShorterQueue ==
    ASSUME NEW q \in Seq(Nat), q # <<>>, NEW r, r = Tail(q), NEW n, n = Head(q)
    PROVE  /\ r \in Seq(Nat) /\ n \in Nat /\ Ids(q) = Ids(r) \cup {n}
           /\ Distinct(q) => Distinct(r) /\ n \notin Ids(r)
<1>1. /\ r \in Seq(Nat) /\ n \in Nat /\ 1 \in DOMAIN q /\ q[1] = n
      /\ \A i \in DOMAIN r : i \in Nat \ {0} /\ i + 1 \in DOMAIN q /\ r[i] = q[i + 1]
  BY HeadTail
<1>2. ASSUME NEW i \in DOMAIN q, i # 1
      PROVE  i - 1 \in DOMAIN r /\ q[i] = r[i - 1]
  <2> DEFINE m == Len(q)
  <2>1. m \in Nat /\ DOMAIN r = 1..(m - 1) /\ i \in 1..m
    OBVIOUS
  <2> HIDE DEF m
  <2>2. i - 1 \in DOMAIN r /\ (i - 1) + 1 = i
    BY <1>2, <2>1
  <2> QED
    BY <1>1, <2>2
<1>3. Ids(q) = Ids(r) \cup {n}
  <2>1. Ids(q) \subseteq Ids(r) \cup {n}
    <3>1. \A i \in DOMAIN q : i = 1 \/ \E j \in DOMAIN r : q[i] = r[j]
      BY <1>2
    <3> QED
      BY <1>1, <3>1 DEF Ids
  <2>2. Ids(r) \cup {n} \subseteq Ids(q)
    BY <1>1 DEF Ids
  <2> QED
    BY <2>1, <2>2
<1>4. ASSUME Distinct(q) PROVE Distinct(r) /\ n \notin Ids(r)
  <2>1. ASSUME NEW i \in DOMAIN r, NEW j \in DOMAIN r, r[i] = r[j] PROVE i = j
    <3>1. i + 1 = j + 1 /\ i \in Nat /\ j \in Nat
      BY <1>1, <1>4, <2>1 DEF Distinct
    <3> QED
      BY <3>1
  <2>2. ASSUME NEW i \in DOMAIN r, r[i] = n PROVE FALSE
    <3>1. i + 1 = 1 /\ i \in Nat \ {0}
      BY <1>1, <1>4, <2>2 DEF Distinct
    <3> QED
      BY <3>1
  <2>3. Distinct(r)
    BY <2>1 DEF Distinct
  <2> QED
    BY <2>2, <2>3 DEF Ids
<1> QED
  BY <1>1, <1>3, <1>4

-----------------------------------------------------------------------------
\* What the commits do to the orders and the positions.

LEMMA FillRow ==
    ASSUME EngineInv, tpc = "fill", CommitFill
    PROVE  /\ popped \in DOMAIN orders /\ DOMAIN orders' = DOMAIN orders
           /\ orders'[popped].status = "FILLED" /\ orders'[popped].role = orders[popped].role
           /\ orders'[popped].symbol = orders[popped].symbol
           /\ orders'[popped].position = orders[popped].position
           /\ \A o \in DOMAIN orders : o # popped => orders'[o] = orders[o]
           /\ UNCHANGED <<positions, booked>>
<1>1. popped \in DOMAIN orders /\ orders[popped] \in OrderType /\ orders \in Seq(OrderType)
  BY DEF EngineInv, TickLocals, TypeOK, JournalTypes
<1> DEFINE row == Filled(orders[popped])
<1>2. /\ row.status = "FILLED" /\ row.role = orders[popped].role
      /\ row.symbol = orders[popped].symbol /\ row.position = orders[popped].position
  BY <1>1 DEF Filled, OrderType
<1>3. orders' = [orders EXCEPT ![popped] = row] /\ UNCHANGED <<positions, booked>>
  BY DEF CommitFill
<1> HIDE DEF row
<1>4. /\ DOMAIN orders' = DOMAIN orders /\ orders'[popped] = row
      /\ \A o \in DOMAIN orders : o # popped => orders'[o] = orders[o]
  BY <1>1, <1>3
<1> QED
  BY <1>1, <1>2, <1>3, <1>4

LEMMA EntryRow ==
    ASSUME EngineInv, bpc = "place", CommitEntry
    PROVE  LET new == Len(orders) + 1
           IN /\ new \in Nat \ {0} /\ new \notin DOMAIN orders
              /\ DOMAIN orders' = DOMAIN orders \cup {new}
              /\ orders'[new].role = "entry" /\ orders'[new].status = "PENDING"
              /\ orders'[new].symbol = job.symbol /\ job.symbol \in Symbols
              /\ \A o \in DOMAIN orders : orders'[o] = orders[o]
              /\ UNCHANGED <<positions, booked>>
<1> DEFINE row == EntryOrder(job.sig, job.qty, job.id)
           new == Len(orders) + 1
<1>1. orders' = Append(orders, row) /\ UNCHANGED <<positions, booked>>
  BY DEF CommitEntry
<1>2. orders \in Seq(OrderType) /\ IsJob(job)
  BY DEF EngineInv, TypeOK, JournalTypes, BarLocals
<1>3. row.role = "entry" /\ row.status = "PENDING" /\ row.symbol = job.symbol /\ job.symbol \in Symbols
  BY <1>2 DEF EntryOrder, IsJob
<1> HIDE DEF row
<1>4. /\ new \in Nat \ {0} /\ new \notin DOMAIN orders
      /\ DOMAIN orders' = DOMAIN orders \cup {new} /\ orders'[new] = row
      /\ \A o \in DOMAIN orders : orders'[o] = orders[o]
  BY <1>1, <1>2
<1> HIDE DEF new
<1> QED
  BY <1>1, <1>3, <1>4 DEF new

LEMMA ExitRow ==
    ASSUME EngineInv, tpc = "exitPlace", CommitExit
    PROVE  LET new == Len(orders) + 1
               id  == openBySymbol[tick.symbol]
           IN /\ new \in Nat \ {0} /\ new \notin DOMAIN orders
              /\ DOMAIN orders' = DOMAIN orders \cup {new}
              /\ orders'[new].role # "entry" /\ orders'[new].status = "PENDING"
              /\ orders'[new].symbol = tick.symbol /\ tick.symbol \in Symbols
              /\ orders'[new].position = id
              /\ id \in DOMAIN open /\ id \in DOMAIN positions
              /\ \A o \in Exits : orders[o].position # id
              /\ \A o \in DOMAIN orders : orders'[o] = orders[o]
              /\ UNCHANGED <<positions, booked>>
<1> DEFINE id  == openBySymbol[tick.symbol]
           row == ExitOrder(open[id], id, exitRole)
           new == Len(orders) + 1
<1>1. orders' = Append(orders, row) /\ UNCHANGED <<positions, booked>>
  BY DEF CommitExit
<1>2. /\ orders \in Seq(OrderType) /\ tick.symbol \in Symbols /\ exitRole \in ExitRoles
      /\ tick.symbol \in DOMAIN openBySymbol /\ ~open[id].exitPending
  BY DEF EngineInv, TypeOK, JournalTypes, TickLocals
<1>3. id \in DOMAIN open /\ open[id].symbol = tick.symbol /\ id \in DOMAIN positions
  BY <1>2 DEF EngineInv, RowInv, OpenMatchesRows, TypeOK, EngineTypes
<1>4. /\ row.role # "entry" /\ row.status = "PENDING" /\ row.symbol = tick.symbol
      /\ row.position = id
  BY <1>2, <1>3 DEF ExitOrder, ExitRoles
<1>5. \A o \in Exits : orders[o].position # id
  BY <1>2, <1>3 DEF EngineInv, RowInv, ExitsMarked
<1> HIDE DEF row, id
<1>6. /\ new \in Nat \ {0} /\ new \notin DOMAIN orders
      /\ DOMAIN orders' = DOMAIN orders \cup {new} /\ orders'[new] = row
      /\ \A o \in DOMAIN orders : orders'[o] = orders[o]
  BY <1>1, <1>2
<1> HIDE DEF new
<1> QED
  BY <1>1, <1>2, <1>3, <1>4, <1>5, <1>6 DEF new, id

LEMMA OpenRow ==
    ASSUME EngineInv, tpc = "open", CommitOpen
    PROVE  LET id  == Len(positions) + 1
               row == positions'[id]
           IN /\ id \in Nat \ {0} /\ id \notin DOMAIN positions
              /\ positions' = Append(positions, row)
              /\ DOMAIN positions' = DOMAIN positions \cup {id}
              /\ ~row.closed /\ row.symbol \in Symbols /\ row.qty \in Int \ {0}
              /\ \A p \in DOMAIN positions : positions'[p] = positions[p]
              /\ UNCHANGED <<orders, booked>>
<1> DEFINE order == orders[Head(fills).order]
           sig   == signals[order.signal]
           id    == Len(positions) + 1
           row   == [symbol |-> order.symbol, closed |-> FALSE,
                     qty |-> Signed(sig.direction, order.qty)]
<1>1. positions' = Append(positions, row) /\ UNCHANGED <<orders, booked>>
  BY DEF CommitOpen
<1>2. positions \in Seq(PositionType) /\ order \in OrderType
  BY OpenCommitted DEF EngineInv, TypeOK, JournalTypes
<1>3. ~row.closed /\ row.symbol \in Symbols /\ row.qty \in Int \ {0}
  BY <1>2 DEF OrderType, Signed
<1> HIDE DEF row
<1>4. /\ id \in Nat \ {0} /\ id \notin DOMAIN positions
      /\ DOMAIN positions' = DOMAIN positions \cup {id} /\ positions'[id] = row
      /\ \A p \in DOMAIN positions : positions'[p] = positions[p]
  BY <1>1, <1>2
<1>5. positions' = Append(positions, positions'[id])
  BY <1>1, <1>4
<1> HIDE DEF id
<1> QED
  BY <1>1, <1>3, <1>4, <1>5 DEF id

LEMMA CloseRow ==
    ASSUME EngineInv, tpc = "close", CommitClose
    PROVE  /\ closing.id \in DOMAIN positions /\ DOMAIN positions' = DOMAIN positions
           /\ positions'[closing.id].closed
           /\ positions'[closing.id].symbol = positions[closing.id].symbol
           /\ positions'[closing.id].qty = positions[closing.id].qty
           /\ \A p \in DOMAIN positions : p # closing.id => positions'[p] = positions[p]
           /\ UNCHANGED orders /\ booked' \in Int
<1>1. /\ closing.id \in DOMAIN positions /\ positions \in Seq(PositionType)
      /\ positions[closing.id] \in PositionType
  BY DEF EngineInv, TickLocals, TypeOK, JournalTypes
<1> DEFINE row == Closed(positions[closing.id])
<1>2. /\ row.closed /\ row.symbol = positions[closing.id].symbol
      /\ row.qty = positions[closing.id].qty
  BY <1>1 DEF Closed, PositionType
<1>3. positions' = [positions EXCEPT ![closing.id] = row] /\ UNCHANGED orders
  BY DEF CommitClose
<1>4. booked' \in Int
  BY CloseCommitted DEF JournalTypes
<1> HIDE DEF row
<1>5. /\ DOMAIN positions' = DOMAIN positions /\ positions'[closing.id] = row
      /\ \A p \in DOMAIN positions : p # closing.id => positions'[p] = positions[p]
  BY <1>1, <1>3
<1> QED
  BY <1>1, <1>2, <1>3, <1>4, <1>5

-----------------------------------------------------------------------------
\* Most steps touch neither orders, positions nor what the two coroutines and
\* the broker hold of them.

Quiet ==
    /\ UNCHANGED <<orders, positions, booked, open, openBySymbol, pending, popped,
                   fills, closing>>
    /\ \/ tpc' = tpc
       \/ {tpc, tpc'} \cap {"fill", "close", "dead"} = {}
    /\ Undisturbed' => Undisturbed

Loud ==
    \/ PopOrder \/ FillOrder \/ OpenPosition \/ ApplyExit \/ ClosePosition \/ PlaceExit
    \/ PlaceEntry \/ TickFault \/ (BarFault /\ bpc = "place" /\ CommitEntry) \/ Restart

LEMMA QuietOrLoud == ASSUME EngineInv, [Next]_vars PROVE Quiet \/ Loud
<1> USE DEF Quiet, Undisturbed, journal, memory, tickVars, barVars, envVars
<1>1. CASE \E s \in Symbols : TickOf(s)
  BY <1>1 DEF TickOf, OnTick
<1>2. CASE Drained \/ ApplyEntry \/ Applied \/ Hold \/ TriggerExit
  BY <1>2 DEF Drained, ApplyEntry, Applied, Hold, TriggerExit
<1>3. CASE RefreshUnrealised
  BY <1>3 DEF RefreshUnrealised
<1>4. CASE TickStep
  BY <1>2, <1>3, <1>4 DEF TickStep, Loud
<1>5. CASE \E sig \in SignalSpace, close \in 0..MaxClock : OnSignal(sig, close)
  BY <1>5 DEF OnSignal
<1>6. CASE BarStep
  <2>1. CASE PlaceEntry
    BY <2>1 DEF Loud
  <2>2. CASE PersistSignal \/ LogRiskBlock
    BY <2>2 DEF PersistSignal, CommitSignal, LogRiskBlock, CommitBlock
  <2>3. CASE \E regime \in Regimes, age \in FeedAges :
                RejectSignal(regime, age) \/ AcceptSignal(regime, age)
    BY <2>3 DEF RejectSignal, AcceptSignal
  <2>4. CASE \/ PretradeProceed \/ PretradeSkip
             \/ \E m \in SizeMultipliers : PretradeReduce(m)
    BY <2>4 DEF PretradeProceed, PretradeSkip, PretradeReduce
  <2> QED
    BY <1>6, <2>1, <2>2, <2>3, <2>4 DEF BarStep
<1>7. CASE Kill
  BY <1>7 DEF Kill
<1>8. CASE BarFault
  <2>1. CASE bpc = "place" /\ CommitEntry
    BY <1>8, <2>1 DEF Loud
  <2>2. CASE UNCHANGED journal \/ CommitSignal \/ CommitBlock
    <3>1. faults' = faults + 1 /\ faults \in Nat
      BY <1>8 DEF BarFault, EngineInv, TypeOK, ControlTypes
    <3>2. UNCHANGED <<orders, positions, booked>>
      BY <2>2 DEF CommitSignal, CommitBlock
    <3> QED
      BY <1>8, <3>1, <3>2 DEF BarFault
  <2> QED
    BY <1>8, <2>1, <2>2 DEF BarFault
<1>9. CASE UNCHANGED vars
  BY <1>9 DEF vars
<1>10. CASE TickFault \/ Restart
  BY <1>10 DEF Loud
<1> QED
  BY <1>1, <1>4, <1>5, <1>6, <1>7, <1>8, <1>9, <1>10 DEF Next

-----------------------------------------------------------------------------
\* The queues

\* The rows a queue holds are untouched by what happens to other rows.
LEMMA QueueQuiet == ASSUME EngineInv, QueueInv, Quiet PROVE QueueInv'
<1>1. UNCHANGED <<orders, pending, popped, fills>> /\ (Undisturbed' => Undisturbed)
  BY DEF Quiet
<1>2. tpc' = "fill" <=> tpc = "fill"
  BY DEF Quiet
<1> QED
  BY <1>1, <1>2 DEF QueueInv, Distinct, Ids

LEMMA QueuePopped == ASSUME EngineInv, QueueInv, PopOrder PROVE QueueInv'
<1> DEFINE s == tick.symbol
           q == pending[s]
           r == Tail(q)
           n == Head(q)
<1>1. /\ s \in Symbols /\ pending \in [Symbols -> Seq(Nat)] /\ q \in Seq(Nat)
      /\ q # <<>> /\ tpc = "drain" /\ popped = 0
  BY DEF PopOrder, EngineInv, TickLocals, TypeOK, EngineTypes, QueueInv
<1>2. /\ pending' = [pending EXCEPT ![s] = r] /\ popped' = n /\ tpc' = "fill"
      /\ UNCHANGED <<orders, fills, faults, restarts>>
  BY DEF PopOrder, journal, envVars
<1>3. /\ r \in Seq(Nat) /\ n \in Nat /\ Ids(q) = Ids(r) \cup {n}
      /\ Distinct(q) => Distinct(r) /\ n \notin Ids(r)
  <2>1. q \in Seq(Nat) /\ q # <<>> /\ r = Tail(q) /\ n = Head(q)
    BY <1>1
  <2> HIDE DEF q, r, n
  <2> QED
    BY <2>1, ShorterQueue
<1> HIDE DEF r, n
<1>4. Distinct(q) /\ n # 0 /\ orders[n].status = "PENDING" /\ orders[n].symbol = s
  <2>1. n \in Ids(q)
    BY <1>3
  <2> HIDE DEF s
  <2> QED
    BY <1>1, <2>1 DEF QueueInv
<1>5. pending'[s] = r /\ \A t \in Symbols : t # s => pending'[t] = pending[t]
  BY <1>1, <1>2
<1>6. ASSUME NEW t \in Symbols
      PROVE  /\ Distinct(pending'[t])
             /\ \A o \in Ids(pending'[t]) :
                   /\ orders'[o].status = "PENDING" /\ orders'[o].symbol = t
                   /\ o # popped'
  <2>1. CASE t = s
    BY <1>1, <1>2, <1>3, <1>4, <1>5, <2>1 DEF QueueInv
  <2>2. CASE t # s
    <3>1. pending'[t] = pending[t]
      BY <1>5, <2>2
    <3> HIDE DEF s
    <3> QED
      BY <1>2, <1>4, <2>2, <3>1 DEF QueueInv
  <2> QED
    BY <2>1, <2>2
<1>7. ASSUME Undisturbed', NEW o \in DOMAIN orders', orders'[o].status = "PENDING"
      PROVE  o = popped' \/ \E t \in Symbols : o \in Ids(pending'[t])
  <2>1. PICK t \in Symbols : o \in Ids(pending[t])
    <3>1. Undisturbed /\ o # popped
      BY <1>1, <1>2, <1>7 DEF Undisturbed, EngineInv, TypeOK, JournalTypes
    <3> QED
      BY <1>2, <1>7, <3>1 DEF QueueInv
  <2> QED
    BY <1>1, <1>2, <1>3, <1>5, <2>1
<1>8. \A i \in DOMAIN fills' : orders'[fills'[i].order].status = "FILLED"
  BY <1>2 DEF QueueInv
<1>9. popped' # 0 /\ orders'[popped'].status = "PENDING"
  BY <1>2, <1>4
<1> QED
  BY <1>2, <1>6, <1>7, <1>8, <1>9 DEF QueueInv

LEMMA QueueFilled == ASSUME EngineInv, QueueInv, FillOrder PROVE QueueInv'
<1> DEFINE fill == [order |-> popped, price |-> FillPrice(orders[popped].side, tick.ltp)]
<1>1. /\ tpc = "fill" /\ tpc' = "drain" /\ popped' = 0 /\ fills' = Append(fills, fill)
      /\ UNCHANGED <<pending, faults, restarts>> /\ CommitFill
  BY DEF FillOrder, envVars
<1>2. /\ popped \in DOMAIN orders /\ DOMAIN orders' = DOMAIN orders
      /\ orders'[popped].status = "FILLED"
      /\ orders'[popped].symbol = orders[popped].symbol
      /\ \A o \in DOMAIN orders : o # popped => orders'[o] = orders[o]
  BY <1>1, FillRow
<1>3. popped # 0 /\ fill.order = popped
  BY <1>1 DEF QueueInv
<1>4. /\ DOMAIN fills' = DOMAIN fills \cup {Len(fills) + 1}
      /\ fills'[Len(fills) + 1] = fill /\ \A i \in DOMAIN fills : fills'[i] = fills[i]
  <2> HIDE DEF fill
  <2> QED
    BY <1>1 DEF EngineInv, TypeOK, TickTypes
<1> HIDE DEF fill
<1>5. \A i \in DOMAIN fills' : orders'[fills'[i].order].status = "FILLED"
  BY <1>2, <1>3, <1>4 DEF QueueInv, EngineInv, RowInv, Refs
<1>6. ASSUME NEW t \in Symbols
      PROVE  /\ Distinct(pending'[t])
             /\ \A o \in Ids(pending'[t]) :
                   /\ orders'[o].status = "PENDING" /\ orders'[o].symbol = t
                   /\ o # popped'
  <2>1. pending'[t] = pending[t] /\ Ids(pending[t]) \subseteq DOMAIN orders
    BY <1>1 DEF EngineInv, RowInv, Refs, Ids
  <2>2. \A o \in Ids(pending[t]) : o \in DOMAIN orders /\ o # popped /\ o # 0
    BY <2>1 DEF QueueInv, EngineInv, TypeOK, JournalTypes
  <2> QED
    BY <1>1, <1>2, <2>1, <2>2 DEF QueueInv
<1>7. ASSUME Undisturbed', NEW o \in DOMAIN orders', orders'[o].status = "PENDING"
      PROVE  \E t \in Symbols : o \in Ids(pending'[t])
  <2>1. Undisturbed /\ o # popped /\ orders[o].status = "PENDING"
    BY <1>1, <1>2, <1>7 DEF Undisturbed
  <2> QED
    BY <1>1, <1>2, <1>7, <2>1 DEF QueueInv
<1> QED
  BY <1>1, <1>5, <1>6, <1>7 DEF QueueInv

\* A step that takes nothing but a fill from the engine's hands.
LEMMA QueueKept ==
    ASSUME EngineInv, QueueInv, UNCHANGED <<orders, pending, popped>>,
           \/ fills' = fills
           \/ fills # <<>> /\ fills' = Tail(fills),
           tpc' = "fill" <=> tpc = "fill", Undisturbed' => Undisturbed
    PROVE  QueueInv'
<1>1. \A i \in DOMAIN fills' : orders'[fills'[i].order].status = "FILLED"
  <2>1. CASE fills' = fills
    BY <2>1 DEF QueueInv
  <2>2. CASE fills # <<>> /\ fills' = Tail(fills)
    <3>1. \A i \in DOMAIN fills' : i + 1 \in DOMAIN fills /\ fills'[i] = fills[i + 1]
      BY <2>2, HeadTail DEF EngineInv, TypeOK, TickTypes
    <3> QED
      BY <3>1 DEF QueueInv
  <2> QED
    BY <2>1, <2>2
<1> QED
  BY <1>1 DEF QueueInv, Distinct, Ids

\* A new order, behind the others of its symbol or, as its consumer died in the
\* await, in no queue.
LEMMA QueueExtended ==
    ASSUME EngineInv, QueueInv, NEW s \in Symbols, NEW new \in Nat \ {0},
           new \notin DOMAIN orders, DOMAIN orders' = DOMAIN orders \cup {new},
           orders'[new].status = "PENDING", orders'[new].symbol = s,
           \A o \in DOMAIN orders : orders'[o] = orders[o],
           \/ pending' = [pending EXCEPT ![s] = Append(@, new)]
           \/ pending' = pending /\ ~Undisturbed',
           UNCHANGED fills,
           \/ popped' = popped /\ (tpc' = "fill" <=> tpc = "fill")
           \/ popped' = 0 /\ tpc' # "fill" /\ ~Undisturbed',
           Undisturbed' => Undisturbed
    PROVE  QueueInv'
<1>1. /\ \A t \in Symbols : pending[t] \in Seq(Nat) /\ Ids(pending[t]) \subseteq DOMAIN orders
      /\ pending \in [Symbols -> Seq(Nat)]
  BY DEF EngineInv, TypeOK, EngineTypes, RowInv, Refs, Ids
<1>2. popped # 0 => popped \in DOMAIN orders
  BY DEF EngineInv, TickLocals, QueueInv
<1>3. ASSUME NEW t \in Symbols
      PROVE  /\ Distinct(pending'[t])
             /\ Ids(pending'[t]) \subseteq Ids(pending[t]) \cup {new}
             /\ t # s => Ids(pending'[t]) = Ids(pending[t])
             /\ Ids(pending[t]) \subseteq Ids(pending'[t])
             /\ Undisturbed' => new \in Ids(pending'[s])
  <2>1. CASE pending' = pending /\ ~Undisturbed'
    BY <2>1 DEF QueueInv
  <2>2. CASE pending' = [pending EXCEPT ![s] = Append(@, new)]
    <3> DEFINE q == pending[s]
               r == Append(q, new)
    <3>1. pending'[s] = r /\ \A u \in Symbols : u # s => pending'[u] = pending[u]
      BY <1>1, <2>2
    <3>2. q \in Seq(Nat) /\ Distinct(q) /\ new \notin Ids(q) /\ r = Append(q, new)
      BY <1>1 DEF QueueInv
    <3> HIDE DEF q, r
    <3>3. Ids(r) = Ids(q) \cup {new} /\ Distinct(r)
      BY <3>2, LongerQueue
    <3>4. CASE t = s
      BY <3>1, <3>3, <3>4 DEF q
    <3>5. CASE t # s
      <4>1. new \in Ids(pending'[s])
        BY <3>1, <3>3
      <4>2. pending'[t] = pending[t]
        BY <3>1, <3>5
      <4> QED
        BY <3>5, <4>1, <4>2 DEF QueueInv
    <3> QED
      BY <3>4, <3>5
  <2> QED
    BY <2>1, <2>2
<1>4. ASSUME NEW t \in Symbols, NEW o \in Ids(pending'[t])
      PROVE  /\ orders'[o].status = "PENDING" /\ orders'[o].symbol = t
             /\ o # popped'
  <2>1. CASE o = new
    <3>1. t = s
      BY <1>1, <1>3, <2>1
    <3> QED
      BY <1>2, <2>1, <3>1
  <2>2. CASE o # new
    <3>1. o \in Ids(pending[t]) /\ o \in DOMAIN orders /\ o # 0
      BY <1>1, <1>3, <2>2 DEF EngineInv, TypeOK, JournalTypes
    <3> QED
      BY <3>1 DEF QueueInv
  <2> QED
    BY <2>1, <2>2
<1>5. tpc' = "fill" => orders'[popped'].status = "PENDING"
  BY <1>2 DEF QueueInv
<1>6. \A i \in DOMAIN fills' : orders'[fills'[i].order].status = "FILLED"
  BY DEF QueueInv, EngineInv, RowInv, Refs
<1>7. ASSUME Undisturbed', NEW o \in DOMAIN orders', orders'[o].status = "PENDING"
      PROVE  o = popped' \/ \E t \in Symbols : o \in Ids(pending'[t])
  <2>1. CASE o = new
    BY <1>3, <1>7, <2>1
  <2>2. CASE o # new
    <3>1. o \in DOMAIN orders /\ orders[o].status = "PENDING" /\ Undisturbed /\ popped' = popped
      BY <1>7, <2>2
    <3>2. o = popped \/ \E t \in Symbols : o \in Ids(pending[t])
      BY <3>1 DEF QueueInv
    <3> QED
      BY <1>3, <3>1, <3>2
  <2> QED
    BY <2>1, <2>2
<1>8. popped' # 0 <=> tpc' = "fill"
  BY DEF QueueInv
<1> QED
  BY <1>3, <1>4, <1>5, <1>6, <1>7, <1>8 DEF QueueInv

LEMMA QueueExitPlaced == ASSUME EngineInv, QueueInv, PlaceExit PROVE QueueInv'
<1> DEFINE s   == tick.symbol
           new == Len(orders) + 1
<1>1. /\ tpc = "exitPlace" /\ CommitExit /\ tpc' = "refresh"
      /\ pending' = [pending EXCEPT ![s] = Append(@, new)]
      /\ UNCHANGED <<fills, popped, faults, restarts>>
  BY DEF PlaceExit, envVars
<1>2. /\ new \in Nat \ {0} /\ new \notin DOMAIN orders
      /\ DOMAIN orders' = DOMAIN orders \cup {new}
      /\ orders'[new].status = "PENDING" /\ orders'[new].symbol = s /\ s \in Symbols
      /\ \A o \in DOMAIN orders : orders'[o] = orders[o]
  BY <1>1, ExitRow
<1>3. (tpc' = "fill" <=> tpc = "fill") /\ (Undisturbed' => Undisturbed)
  BY <1>1 DEF Undisturbed
<1> HIDE DEF s, new
<1> QED
  BY <1>1, <1>2, <1>3, QueueExtended

LEMMA QueueEntryPlaced == ASSUME EngineInv, QueueInv, PlaceEntry PROVE QueueInv'
<1> DEFINE s   == job.symbol
           new == Len(orders) + 1
<1>1. /\ bpc = "place" /\ CommitEntry
      /\ pending' = [pending EXCEPT ![s] = Append(@, new)]
      /\ UNCHANGED <<tpc, fills, popped, faults, restarts>>
  BY DEF PlaceEntry, envVars, tickVars
<1>2. /\ new \in Nat \ {0} /\ new \notin DOMAIN orders
      /\ DOMAIN orders' = DOMAIN orders \cup {new}
      /\ orders'[new].status = "PENDING" /\ orders'[new].symbol = s /\ s \in Symbols
      /\ \A o \in DOMAIN orders : orders'[o] = orders[o]
  BY <1>1, EntryRow
<1>3. (tpc' = "fill" <=> tpc = "fill") /\ (Undisturbed' => Undisturbed)
  BY <1>1 DEF Undisturbed
<1> HIDE DEF s, new
<1> QED
  BY <1>1, <1>2, <1>3, QueueExtended

LEMMA QueueBarFault ==
    ASSUME EngineInv, QueueInv, BarFault, bpc = "place", CommitEntry
    PROVE  QueueInv'
<1> DEFINE s   == job.symbol
           new == Len(orders) + 1
<1>1. UNCHANGED <<pending, tpc, fills, popped>> /\ faults' = faults + 1 /\ faults \in Nat
  BY DEF BarFault, tickVars, EngineInv, TypeOK, ControlTypes
<1>2. /\ new \in Nat \ {0} /\ new \notin DOMAIN orders
      /\ DOMAIN orders' = DOMAIN orders \cup {new}
      /\ orders'[new].status = "PENDING" /\ orders'[new].symbol = s /\ s \in Symbols
      /\ \A o \in DOMAIN orders : orders'[o] = orders[o]
  BY EntryRow
<1>3. (tpc' = "fill" <=> tpc = "fill") /\ ~Undisturbed'
  BY <1>1 DEF Undisturbed
<1> HIDE DEF s, new
<1> QED
  BY <1>1, <1>2, <1>3, QueueExtended

LEMMA QueueTickFault == ASSUME EngineInv, QueueInv, TickFault PROVE QueueInv'
<1>1. /\ UNCHANGED <<pending, fills>> /\ popped' = 0 /\ tpc' = "dead"
      /\ faults' = faults + 1 /\ faults \in Nat
  BY DEF TickFault, EngineInv, TypeOK, ControlTypes
<1>2. ~Undisturbed'
  BY <1>1 DEF Undisturbed
<1>3. CASE orders' = orders
  <2>1. \A s \in Symbols : \A o \in Ids(pending[s]) : o # 0
    BY DEF EngineInv, RowInv, Refs, TypeOK, JournalTypes, Ids
  <2>2. \A s \in Symbols : \A o \in Ids(pending'[s]) :
           orders'[o].status = "PENDING" /\ orders'[o].symbol = s /\ o # popped'
    BY <1>1, <1>3, <2>1 DEF QueueInv
  <2>3. \A s \in Symbols : Distinct(pending'[s])
    BY <1>1 DEF QueueInv
  <2>4. \A i \in DOMAIN fills' : orders'[fills'[i].order].status = "FILLED"
    BY <1>1, <1>3 DEF QueueInv
  <2> QED
    BY <1>1, <1>2, <2>2, <2>3, <2>4 DEF QueueInv
<1>4. CASE tpc = "fill" /\ CommitFill
  <2>1. /\ popped \in DOMAIN orders
        /\ orders'[popped].status = "FILLED"
        /\ \A o \in DOMAIN orders : o # popped => orders'[o] = orders[o]
    BY <1>4, FillRow
  <2>2. \A s \in Symbols : \A o \in Ids(pending[s]) : o \in DOMAIN orders /\ o # 0
    BY DEF EngineInv, RowInv, Refs, TypeOK, JournalTypes, Ids
  <2>3. \A s \in Symbols : \A o \in Ids(pending'[s]) :
           orders'[o].status = "PENDING" /\ orders'[o].symbol = s /\ o # popped'
    BY <1>1, <2>1, <2>2 DEF QueueInv
  <2>4. \A s \in Symbols : Distinct(pending'[s])
    BY <1>1 DEF QueueInv
  <2>5. \A i \in DOMAIN fills' : orders'[fills'[i].order].status = "FILLED"
    BY <1>1, <2>1 DEF QueueInv, EngineInv, RowInv, Refs
  <2> QED
    BY <1>1, <1>2, <2>3, <2>4, <2>5 DEF QueueInv
<1>5. CASE tpc = "exitPlace" /\ CommitExit
  <2> DEFINE s   == tick.symbol
             new == Len(orders) + 1
  <2>1. /\ new \in Nat \ {0} /\ new \notin DOMAIN orders
        /\ DOMAIN orders' = DOMAIN orders \cup {new}
        /\ orders'[new].status = "PENDING" /\ orders'[new].symbol = s /\ s \in Symbols
        /\ \A o \in DOMAIN orders : orders'[o] = orders[o]
    BY <1>5, ExitRow
  <2> HIDE DEF s, new
  <2>2. /\ pending' = pending /\ ~Undisturbed' /\ UNCHANGED fills
        /\ popped' = 0 /\ tpc' # "fill"
    BY <1>1, <1>2
  <2> QED
    BY <2>1, <2>2, QueueExtended
<1>6. CASE tpc = "open" /\ CommitOpen
  BY <1>3, <1>6 DEF CommitOpen
<1>7. CASE tpc = "close" /\ CommitClose
  BY <1>3, <1>7 DEF CommitClose
<1> QED
  BY <1>3, <1>4, <1>5, <1>6, <1>7 DEF TickFault, journal

LEMMA QueueStep == ASSUME EngineInv, QueueInv, [Next]_vars PROVE QueueInv'
<1>1. CASE OpenPosition
  <2>1. /\ UNCHANGED <<orders, pending, popped, faults, restarts>>
        /\ fills' = Tail(fills) /\ fills # <<>> /\ tpc = "open" /\ tpc' = "apply"
    BY <1>1 DEF OpenPosition, CommitOpen, envVars, EngineInv, TickLocals
  <2> QED
    BY <2>1, QueueKept DEF Undisturbed
<1>2. CASE ApplyExit
  <2>1. /\ UNCHANGED <<orders, pending, popped, faults, restarts>>
        /\ fills' = Tail(fills) /\ fills # <<>> /\ tpc = "apply" /\ tpc' # "fill"
    BY <1>2 DEF ApplyExit, journal, envVars
  <2> QED
    BY <2>1, QueueKept DEF Undisturbed
<1>3. CASE ClosePosition
  <2>1. /\ UNCHANGED <<orders, pending, popped, fills, faults, restarts>>
        /\ tpc = "close" /\ tpc' = "apply"
    BY <1>3 DEF ClosePosition, CommitClose, envVars
  <2> QED
    BY <2>1, QueueKept DEF Undisturbed
<1>4. CASE Restart
  <2>1. /\ pending' = [s \in Symbols |-> <<>>] /\ popped' = 0 /\ tpc' = "idle"
        /\ fills' = <<>> /\ restarts' = restarts + 1 /\ restarts \in Nat
    BY <1>4 DEF Restart, EngineInv, TypeOK, ControlTypes
  <2>2. ~Undisturbed'
    BY <2>1 DEF Undisturbed
  <2> QED
    BY <2>1, <2>2 DEF QueueInv, Distinct, Ids
<1> QED
  BY <1>1, <1>2, <1>3, <1>4, QuietOrLoud, QueueQuiet, QueuePopped, QueueFilled,
     QueueExitPlaced, QueueEntryPlaced, QueueTickFault, QueueBarFault DEF Loud

-----------------------------------------------------------------------------
\* The places of a position

\* No row loses what FilledOf reads of it.
RowsGrow ==
    /\ DOMAIN orders \subseteq DOMAIN orders'
    /\ \A o \in DOMAIN orders :
          /\ orders'[o].role = orders[o].role /\ orders'[o].position = orders[o].position
          /\ orders[o].status = "FILLED" => orders'[o].status = "FILLED"

LEMMA FilledKept == ASSUME RowsGrow PROVE \A id : FilledOf(id) \subseteq FilledOf(id)'
BY DEF RowsGrow, FilledOf, ExitsOf, Exits, Entries, IsEntry

LEMMA SameRows == ASSUME UNCHANGED orders PROVE RowsGrow
BY DEF RowsGrow

LEMMA PlaceKept ==
    ASSUME PlaceInv, RowsGrow, UNCHANGED <<positions, closing>>, DOMAIN open' = DOMAIN open,
           tpc' = tpc \/ {tpc, tpc'} \cap {"close", "dead"} = {},
           Undisturbed' => Undisturbed
    PROVE  PlaceInv'
<1>1. \A id : FilledOf(id) \subseteq FilledOf(id)'
  BY FilledKept
<1>2. (tpc' = "close" <=> tpc = "close") /\ (tpc' = "dead" => tpc = "dead")
  OBVIOUS
<1>3. UNCHANGED positions /\ UNCHANGED closing
  OBVIOUS
<1> QED
  BY <1>1, <1>2, <1>3 DEF PlaceInv

LEMMA PlaceOpened == ASSUME EngineInv, PlaceInv, OpenPosition PROVE PlaceInv'
<1> DEFINE id == Len(positions) + 1
<1>1. /\ tpc = "open" /\ tpc' = "apply" /\ CommitOpen
      /\ UNCHANGED <<closing, faults, restarts>> /\ DOMAIN open' = DOMAIN open \cup {id}
  BY DEF OpenPosition, With, envVars
<1>2. /\ id \notin DOMAIN positions
      /\ DOMAIN positions' = DOMAIN positions \cup {id} /\ ~positions'[id].closed
      /\ \A p \in DOMAIN positions : positions'[p] = positions[p]
      /\ UNCHANGED orders
  BY <1>1, OpenRow
<1> HIDE DEF id
<1>3. DOMAIN open \subseteq DOMAIN positions
  BY DEF EngineInv, TypeOK, EngineTypes
<1>4. \A p : FilledOf(p)' = FilledOf(p)
  BY <1>2 DEF FilledOf, ExitsOf, Exits, Entries, IsEntry
<1>5. \A p \in DOMAIN open' : ~positions'[p].closed
  BY <1>1, <1>2, <1>3 DEF PlaceInv
<1>6. \A p \in DOMAIN positions' : positions'[p].closed => FilledOf(p)' # {}
  BY <1>2, <1>4 DEF PlaceInv
<1>7. ASSUME Undisturbed'
      PROVE  /\ closing'.id = 0
             /\ \A p \in DOMAIN positions' :
                   ~positions'[p].closed => p \in DOMAIN open' \/ p = closing'.id
  <2>1. Undisturbed
    BY <1>1, <1>7 DEF Undisturbed
  <2> QED
    BY <1>1, <1>2, <2>1 DEF PlaceInv
<1> QED
  BY <1>1, <1>5, <1>6, <1>7 DEF PlaceInv

\* The order whose fill takes a position out of the engine's memory is one of
\* the position's own, and filled.
LEMMA PlaceTaken == ASSUME EngineInv, QueueInv, PlaceInv, ApplyExit PROVE PlaceInv'
<1> DEFINE o  == Head(fills).order
           id == orders[o].position
<1>1. /\ tpc = "apply" /\ fills # <<>> /\ orders[o].role # "entry"
      /\ UNCHANGED <<orders, positions, faults, restarts>>
  BY DEF ApplyExit, journal, envVars
<1>2. RowsGrow /\ (Undisturbed' => Undisturbed)
  BY <1>1, SameRows DEF Undisturbed
<1>3. CASE id \notin DOMAIN open
  <2>1. UNCHANGED <<open, closing, tpc>>
    BY <1>3 DEF ApplyExit
  <2> QED
    BY <1>1, <1>2, <2>1, PlaceKept
<1>4. CASE id \in DOMAIN open
  <2>1. DOMAIN open' = DOMAIN open \ {id} /\ closing'.id = id /\ tpc' = "close"
    BY <1>4, SMTT(30) DEF ApplyExit, Without
  <2>2. o \in DOMAIN orders /\ orders[o].status = "FILLED"
    BY <1>1, HeadTail DEF EngineInv, TypeOK, TickTypes, RowInv, Refs, QueueInv
  <2>3. o \in FilledOf(id)
    BY <1>1, <2>2 DEF FilledOf, ExitsOf, Exits, Entries, IsEntry
  <2>4. \A p : FilledOf(p)' = FilledOf(p)
    BY <1>1 DEF FilledOf, ExitsOf, Exits, Entries, IsEntry
  <2> HIDE DEF id, o
  <2>5. ~positions'[id].closed
    BY <1>1, <1>4 DEF PlaceInv
  <2>6. \A p \in DOMAIN open' : ~positions'[p].closed
    BY <1>1, <2>1 DEF PlaceInv
  <2>7. \A p \in DOMAIN positions' : positions'[p].closed => FilledOf(p)' # {}
    BY <1>1, <2>4 DEF PlaceInv
  <2>8. ASSUME Undisturbed', NEW p \in DOMAIN positions', ~positions'[p].closed
        PROVE  p \in DOMAIN open' \/ p = closing'.id
    <3>1. closing.id = 0 /\ (p \in DOMAIN open \/ p = closing.id) /\ p # 0
      BY <1>1, <1>2, <2>8 DEF PlaceInv, EngineInv, TypeOK, JournalTypes
    <3> QED
      BY <2>1, <3>1
  <2> QED
    BY <1>1, <2>1, <2>3, <2>4, <2>5, <2>6, <2>7, <2>8 DEF PlaceInv
<1> QED
  BY <1>3, <1>4

LEMMA PlaceClosed == ASSUME EngineInv, PlaceInv, ClosePosition PROVE PlaceInv'
<1> DEFINE id == closing.id
<1>1. /\ tpc = "close" /\ tpc' = "apply" /\ CommitClose /\ closing'.id = 0
      /\ UNCHANGED <<open, faults, restarts>>
  BY DEF ClosePosition, envVars, NoClosing
<1>2. /\ id \in DOMAIN positions /\ DOMAIN positions' = DOMAIN positions
      /\ positions'[id].closed
      /\ \A p \in DOMAIN positions : p # id => positions'[p] = positions[p]
      /\ UNCHANGED orders
  BY <1>1, CloseRow
<1>3. id \notin DOMAIN open /\ FilledOf(id) # {} /\ DOMAIN open \subseteq DOMAIN positions
  BY <1>1 DEF PlaceInv, EngineInv, TypeOK, EngineTypes
<1> HIDE DEF id
<1>4. \A p : FilledOf(p)' = FilledOf(p)
  BY <1>2 DEF FilledOf, ExitsOf, Exits, Entries, IsEntry
<1>5. \A p \in DOMAIN open' : ~positions'[p].closed
  BY <1>1, <1>2, <1>3 DEF PlaceInv
<1>6. \A p \in DOMAIN positions' : positions'[p].closed => FilledOf(p)' # {}
  BY <1>2, <1>3, <1>4 DEF PlaceInv
<1>7. ASSUME Undisturbed', NEW p \in DOMAIN positions', ~positions'[p].closed
      PROVE  p \in DOMAIN open' \/ p = closing'.id
  <2>1. Undisturbed /\ p # id /\ p \in DOMAIN positions /\ ~positions[p].closed
    BY <1>1, <1>2, <1>7 DEF Undisturbed
  <2> QED
    BY <1>1, <2>1 DEF PlaceInv, id
<1> QED
  BY <1>1, <1>5, <1>6, <1>7 DEF PlaceInv

LEMMA PlaceTickFault == ASSUME EngineInv, PlaceInv, TickFault PROVE PlaceInv'
<1>1. /\ UNCHANGED <<open, closing>> /\ tpc' = "dead" /\ faults' = faults + 1 /\ faults \in Nat
      /\ DOMAIN open \subseteq DOMAIN positions
  BY DEF TickFault, memory, EngineInv, TypeOK, ControlTypes, EngineTypes
<1>2. ~Undisturbed'
  BY <1>1 DEF Undisturbed
<1>3. CASE RowsGrow /\ UNCHANGED positions
  <2>1. \A id : FilledOf(id) \subseteq FilledOf(id)'
    BY <1>3, FilledKept
  <2> QED
    BY <1>1, <1>2, <1>3, <2>1 DEF PlaceInv
<1>4. CASE UNCHANGED journal
  BY <1>3, <1>4, SameRows DEF journal
<1>5. CASE tpc = "fill" /\ CommitFill
  BY <1>3, <1>5, FillRow DEF RowsGrow
<1>6. CASE tpc = "exitPlace" /\ CommitExit
  BY <1>3, <1>6, ExitRow DEF RowsGrow
<1>7. CASE tpc = "open" /\ CommitOpen
  <2> DEFINE id == Len(positions) + 1
  <2>1. /\ id \notin DOMAIN positions
        /\ DOMAIN positions' = DOMAIN positions \cup {id} /\ ~positions'[id].closed
        /\ \A p \in DOMAIN positions : positions'[p] = positions[p]
        /\ UNCHANGED orders
    BY <1>7, OpenRow
  <2> HIDE DEF id
  <2>2. \A p : FilledOf(p)' = FilledOf(p)
    BY <2>1 DEF FilledOf, ExitsOf, Exits, Entries, IsEntry
  <2> QED
    BY <1>1, <1>2, <2>1, <2>2 DEF PlaceInv
<1>8. CASE tpc = "close" /\ CommitClose
  <2> DEFINE id == closing.id
  <2>1. /\ id \in DOMAIN positions /\ DOMAIN positions' = DOMAIN positions
        /\ \A p \in DOMAIN positions : p # id => positions'[p] = positions[p]
        /\ UNCHANGED orders
    BY <1>8, CloseRow
  <2>2. id \notin DOMAIN open /\ FilledOf(id) # {}
    BY <1>8 DEF PlaceInv
  <2> HIDE DEF id
  <2>3. \A p : FilledOf(p)' = FilledOf(p)
    BY <2>1 DEF FilledOf, ExitsOf, Exits, Entries, IsEntry
  <2>4. \A p \in DOMAIN positions' : positions'[p].closed => FilledOf(p)' # {}
    BY <2>1, <2>2, <2>3 DEF PlaceInv
  <2>5. \A p \in DOMAIN open' : ~positions'[p].closed
    BY <1>1, <2>1, <2>2 DEF PlaceInv
  <2> QED
    BY <1>1, <1>2, <2>4, <2>5 DEF PlaceInv
<1> QED
  BY <1>4, <1>5, <1>6, <1>7, <1>8 DEF TickFault

LEMMA PlaceStep == ASSUME EngineInv, QueueInv, PlaceInv, [Next]_vars PROVE PlaceInv'
<1>1. CASE Quiet
  BY <1>1, SameRows, PlaceKept DEF Quiet
<1>2. CASE PopOrder
  <2>1. /\ UNCHANGED <<orders, positions, open, closing, faults, restarts>>
        /\ tpc = "drain" /\ tpc' = "fill"
    BY <1>2 DEF PopOrder, journal, memory, envVars
  <2> QED
    BY <2>1, SameRows, PlaceKept DEF Undisturbed
<1>3. CASE FillOrder
  <2>1. /\ UNCHANGED <<open, closing, faults, restarts>>
        /\ tpc = "fill" /\ tpc' = "drain" /\ CommitFill
    BY <1>3 DEF FillOrder, memory, envVars
  <2>2. RowsGrow /\ UNCHANGED positions
    BY <2>1, FillRow DEF RowsGrow
  <2> QED
    BY <2>1, <2>2, PlaceKept DEF Undisturbed
<1>4. CASE PlaceExit
  <2>1. /\ UNCHANGED <<closing, faults, restarts>> /\ DOMAIN open' = DOMAIN open
        /\ tpc = "exitPlace" /\ tpc' = "refresh" /\ CommitExit
    BY <1>4 DEF PlaceExit, envVars
  <2>2. RowsGrow /\ UNCHANGED positions
    BY <2>1, ExitRow DEF RowsGrow
  <2> QED
    BY <2>1, <2>2, PlaceKept DEF Undisturbed
<1>5. CASE PlaceEntry
  <2>1. /\ UNCHANGED <<open, closing, faults, restarts, tpc>> /\ bpc = "place" /\ CommitEntry
    BY <1>5 DEF PlaceEntry, tickVars, envVars
  <2>2. RowsGrow /\ UNCHANGED positions
    BY <2>1, EntryRow DEF RowsGrow
  <2> QED
    BY <2>1, <2>2, PlaceKept DEF Undisturbed
<1>6. CASE BarFault /\ bpc = "place" /\ CommitEntry
  <2>1. /\ UNCHANGED <<open, closing, tpc>> /\ faults' = faults + 1 /\ faults \in Nat
    BY <1>6 DEF BarFault, memory, tickVars, EngineInv, TypeOK, ControlTypes
  <2>2. RowsGrow /\ UNCHANGED positions
    BY <1>6, EntryRow DEF RowsGrow
  <2>3. ~Undisturbed'
    BY <2>1 DEF Undisturbed
  <2> QED
    BY <2>1, <2>2, <2>3, PlaceKept
<1>7. CASE Restart
  <2>1. /\ UNCHANGED <<orders, positions>> /\ DOMAIN open' = {} /\ tpc' = "idle"
        /\ restarts' = restarts + 1 /\ restarts \in Nat
    BY <1>7 DEF Restart, journal, EmptyMap, EngineInv, TypeOK, ControlTypes
  <2>2. ~Undisturbed'
    BY <2>1 DEF Undisturbed
  <2>3. \A id : FilledOf(id) \subseteq FilledOf(id)'
    BY <2>1, SameRows, FilledKept
  <2> QED
    BY <2>1, <2>2, <2>3 DEF PlaceInv
<1> QED
  BY <1>1, <1>2, <1>3, <1>4, <1>5, <1>6, <1>7, QuietOrLoud, PlaceOpened, PlaceTaken,
     PlaceClosed, PlaceTickFault DEF Loud

-----------------------------------------------------------------------------
\* The inductive invariant holds throughout.
THEOREM BookInvariant == Spec => []BookInv
<1>1. ASSUME Init PROVE BookInv
  <2>1. EngineInv
    BY <1>1, InitInv
  <2>2. QueueInv
    BY <1>1 DEF Init, QueueInv, Distinct, Ids
  <2>3. PlaceInv
    BY <1>1 DEF Init, PlaceInv, EmptyMap, NoClosing
  <2> QED
    BY <2>1, <2>2, <2>3 DEF BookInv
<1>2. BookInv /\ [Next]_vars => BookInv'
  BY NextInv, QueueStep, PlaceStep DEF BookInv
<1> QED
  BY <1>1, <1>2, PTL DEF Spec

\* The broker fills no order twice and, while no task died and the process
\* lives, loses none (PaperBroker.on_tick), for any symbols and signals.
THEOREM OrdersFilledOnceCorrect == Spec => []OrdersFilledOnce
<1>1. ASSUME BookInv PROVE OrdersFilledOnce
  <2>1. /\ \A s \in Symbols : /\ Ids(pending[s]) \subseteq DOMAIN orders
                              /\ Ids(pending[s]) = {pending[s][i] : i \in DOMAIN pending[s]}
        /\ popped # 0 => popped \in DOMAIN orders
    BY <1>1 DEF BookInv, QueueInv, EngineInv, TickLocals, RowInv, Refs, Ids
  <2>2. \A s \in Symbols : \A i, j \in DOMAIN pending[s] :
           /\ pending[s][i] = pending[s][j] => i = j
           /\ pending[s][i] # popped
           /\ orders[pending[s][i]].status = "PENDING"
    BY <1>1 DEF BookInv, QueueInv, Distinct, Ids
  <2>3. popped # 0 => orders[popped].status = "PENDING"
    BY <1>1 DEF BookInv, QueueInv
  <2>4. ASSUME faults = 0 /\ restarts = 0
        PROVE  {o \in DOMAIN orders : orders[o].status = "PENDING"} =
                  (UNION {Ids(pending[s]) : s \in Symbols}) \cup ({popped} \ {0})
    <3>1. \A o \in DOMAIN orders : orders[o].status = "PENDING" =>
             o # 0 /\ (o = popped \/ \E s \in Symbols : o \in Ids(pending[s]))
      BY <1>1, <2>4 DEF BookInv, QueueInv, Undisturbed, EngineInv, TypeOK, JournalTypes
    <3>2. \A s \in Symbols : \A o \in Ids(pending[s]) : orders[o].status = "PENDING"
      BY <1>1 DEF BookInv, QueueInv
    <3> QED
      BY <2>1, <2>3, <3>1, <3>2
  <2> QED
    BY <2>1, <2>2, <2>3, <2>4 DEF OrdersFilledOnce, Ids
<1> QED
  BY <1>1, BookInvariant, PTL

\* In one process lifetime without a failing await the journal's open rows are
\* those the engine holds or is closing (_apply_fill, _close_position).
THEOREM OpenRowsWatchedCorrect == Spec => []OpenRowsWatched
<1>1. ASSUME BookInv, Undisturbed
      PROVE  {id \in DOMAIN positions : ~positions[id].closed}
                = DOMAIN open \cup ({closing.id} \ {0})
  <2>1. DOMAIN open \subseteq DOMAIN positions /\ 0 \notin DOMAIN positions
    BY <1>1 DEF BookInv, EngineInv, TypeOK, EngineTypes, JournalTypes
  <2>2. closing.id # 0 => closing.id \in DOMAIN positions /\ ~positions[closing.id].closed
    BY <1>1 DEF BookInv, PlaceInv, EngineInv, TickLocals
  <2> QED
    BY <1>1, <2>1, <2>2 DEF BookInv, PlaceInv
<1>2. BookInv => OpenRowsWatched
  BY <1>1 DEF OpenRowsWatched
<1> QED
  BY <1>2, BookInvariant, PTL

-----------------------------------------------------------------------------
\* The book

\* What the journal shows of one position.
Row(id) == [symbol |-> positions[id].symbol, qty |-> positions[id].qty,
            ordered |-> ExitsOf(id), filled |-> FilledOf(id),
            closed |-> positions[id].closed]

LEMMA LedgerRows ==
    /\ Ledger = [id \in DOMAIN positions |-> Row(id)]
    /\ Ledger' = [id \in DOMAIN positions' |-> Row(id)']
BY DEF Ledger, Row

LEMMA RowFields ==
    \A id : /\ Row(id).ordered = ExitsOf(id) /\ Row(id).filled = FilledOf(id)
            /\ Row(id).closed = positions[id].closed
BY DEF Row

LEMMA RowClosed ==
    ASSUME NEW a, NEW b, NEW c, NEW d, NEW e, NEW f
    PROVE  [[symbol |-> a, qty |-> b, ordered |-> c, filled |-> d, closed |-> e]
               EXCEPT !.closed = f]
              = [symbol |-> a, qty |-> b, ordered |-> c, filled |-> d, closed |-> f]
OBVIOUS

LEMMA LedgerSame ==
    ASSUME UNCHANGED positions,
           \A id \in DOMAIN positions : ExitsOf(id)' = ExitsOf(id) /\ FilledOf(id)' = FilledOf(id)
    PROVE  Ledger' = Ledger
<1>1. \A id \in DOMAIN positions : Row(id)' = Row(id)
  BY DEF Row
<1> QED
  BY <1>1, LedgerRows

LEMMA LedgerChanged ==
    ASSUME NEW p \in DOMAIN positions, DOMAIN positions' = DOMAIN positions,
           \A id \in DOMAIN positions : id # p => Row(id)' = Row(id),
           NEW row, Row(p)' = row
    PROVE  Ledger' = [Ledger EXCEPT ![p] = row]
<1>1. /\ DOMAIN Ledger = DOMAIN positions
      /\ \A id \in DOMAIN positions : Ledger[id] = Row(id)
  BY LedgerRows
<1>2. \A id \in DOMAIN positions : Row(id)' = IF id = p THEN row ELSE Ledger[id]
  BY <1>1
<1>3. Ledger' = [id \in DOMAIN positions |-> IF id = p THEN row ELSE Ledger[id]]
  BY <1>2, LedgerRows
<1> QED
  BY <1>1, <1>3

LEMMA SeqFromMap ==
    ASSUME NEW S, NEW n \in Nat, NEW f \in [1..n -> S]
    PROVE  f \in Seq(S) /\ Len(f) = n
<1>1. f \in Seq(S) /\ DOMAIN f = 1..n
  OBVIOUS
<1> QED
  BY <1>1

LEMMA AppendedMap ==
    ASSUME NEW n \in Nat, NEW f, f = [i \in 1..n |-> f[i]],
           NEW e, NEW g, g = [i \in 1..(n + 1) |-> IF i = n + 1 THEN e ELSE f[i]]
    PROVE  /\ Len(f) = n /\ Len(g) = n + 1 /\ g[n + 1] = e /\ g = Append(f, e)
<1> DEFINE S == {f[i] : i \in 1..n} \cup {e}
<1>1. (\A i \in 1..n : f[i] \in S) /\ e \in S
  OBVIOUS
<1> HIDE DEF S
<1>2. f \in [1..n -> S] /\ g \in [1..(n + 1) -> S]
  BY <1>1
<1>3. f \in Seq(S) /\ Len(f) = n
  BY <1>2, SeqFromMap
<1>4. g \in Seq(S) /\ Len(g) = n + 1 /\ g[n + 1] = e
  BY <1>2, SeqFromMap
<1> DEFINE h == Append(f, e)
<1>5. h \in Seq(S) /\ Len(h) = n + 1 /\ h[n + 1] = e /\ \A i \in 1..n : h[i] = f[i]
  BY <1>1, <1>3
<1> HIDE DEF h
<1>6. \A i \in 1..(n + 1) : g[i] = h[i]
  BY <1>5
<1>7. g = h
  BY <1>4, <1>5, <1>6
<1> QED
  BY <1>3, <1>4, <1>7 DEF h

\* The four steps of the book, each of a commit.

LEMMA BookEnters ==
    ASSUME EngineInv, tpc = "open", CommitOpen
    PROVE  Book!Enter
<1>1. PICK id \in Nat : id = Len(positions) + 1
  BY DEF EngineInv, TypeOK, JournalTypes
<1>2. /\ id \notin DOMAIN positions
      /\ DOMAIN positions' = DOMAIN positions \cup {id}
      /\ ~positions'[id].closed
      /\ positions'[id].symbol \in Symbols /\ positions'[id].qty \in Int \ {0}
      /\ \A p \in DOMAIN positions : positions'[p] = positions[p]
      /\ UNCHANGED <<orders, booked>>
  BY <1>1, OpenRow
<1>3. PICK n \in Nat : id = n + 1 /\ DOMAIN positions = 1..n
  BY <1>1 DEF EngineInv, TypeOK, JournalTypes
<1>4. /\ \A p : ExitsOf(p)' = ExitsOf(p) /\ FilledOf(p)' = FilledOf(p)
      /\ ExitsOf(id) = {} /\ FilledOf(id) = {}
  <2>1. \A o \in Exits : orders[o].position \in DOMAIN positions
    BY DEF EngineInv, RowInv, ExitsMatchPositions
  <2> QED
    BY <1>2, <2>1 DEF FilledOf, ExitsOf, Exits, Entries, IsEntry
<1>5. positions'[id].closed = FALSE
  <2>1. positions' \in Seq(PositionType) /\ id \in DOMAIN positions'
    <3>1. JournalTypes'
      BY OpenCommitted
    <3> QED
      BY <1>2, <3>1 DEF JournalTypes
  <2>2. positions'[id] \in PositionType
    BY <2>1
  <2>3. positions'[id].closed \in BOOLEAN
    BY <2>2 DEF PositionType
  <2> QED
    BY <1>2, <2>3
<1> DEFINE new == Book!Entered(positions'[id].symbol, positions'[id].qty)
<1>6. Row(id)' = new /\ \A p \in DOMAIN positions : Row(p)' = Row(p)
  BY <1>2, <1>4, <1>5 DEF Row, Book!Entered
<1>7. new.symbol = positions'[id].symbol /\ new.qty = positions'[id].qty
  BY DEF Book!Entered
<1>8. new = Book!Entered(new.symbol, new.qty)
  BY <1>7
<1> HIDE DEF new
<1>9. DOMAIN positions' = 1..(n + 1) /\ \A p \in 1..n : p # n + 1
  BY <1>2, <1>3
<1>10. Ledger = [p \in 1..n |-> Row(p)]
  BY <1>3, LedgerRows
<1>11. Ledger' = [p \in 1..(n + 1) |-> Row(p)']
  BY <1>9, LedgerRows
<1>12. \A p \in 1..n : Ledger[p] = Row(p) /\ Row(p)' = Row(p)
  BY <1>3, <1>6, <1>10
<1>13. /\ Ledger = [p \in 1..n |-> Ledger[p]]
       /\ Ledger' = [p \in 1..(n + 1) |-> IF p = n + 1 THEN new ELSE Ledger[p]]
  <2>1. \A p \in 1..(n + 1) : Row(p)' = IF p = n + 1 THEN new ELSE Ledger[p]
    BY <1>3, <1>6, <1>12
  <2> QED
    BY <1>10, <1>11, <1>12, <2>1
<1>14. /\ Len(Ledger) = n /\ Len(Ledger') = n + 1 /\ Ledger'[n + 1] = new
       /\ Ledger' = Append(Ledger, new)
  BY <1>13, AppendedMap
<1> QED
  BY <1>2, <1>7, <1>8, <1>14 DEF Book!Enter

LEMMA BookOrders ==
    ASSUME EngineInv, PlaceInv, tpc = "exitPlace", CommitExit
    PROVE  \E p \in DOMAIN Ledger : Book!OrderExit(p)
<1>1. PICK p \in DOMAIN open : p = openBySymbol[tick.symbol]
  BY ExitRow
<1>2. PICK new \in Nat : new = Len(orders) + 1
  BY DEF EngineInv, TypeOK, JournalTypes
<1>3. /\ new \notin DOMAIN orders /\ DOMAIN orders' = DOMAIN orders \cup {new}
      /\ orders'[new].role # "entry" /\ orders'[new].status = "PENDING"
      /\ orders'[new].position = p
      /\ \A o \in Exits : orders[o].position # p
      /\ \A o \in DOMAIN orders : orders'[o] = orders[o]
      /\ UNCHANGED <<positions, booked>>
  BY <1>1, <1>2, ExitRow
<1>4. p \in DOMAIN positions /\ ~positions[p].closed
  BY DEF EngineInv, TypeOK, EngineTypes, PlaceInv
<1>5. /\ ExitsOf(p) = {} /\ ExitsOf(p)' = {new}
      /\ FilledOf(p) = {} /\ FilledOf(p)' = {}
  BY <1>3 DEF FilledOf, ExitsOf, Exits, Entries, IsEntry
<1>6. \A id \in DOMAIN positions : id # p => /\ ExitsOf(id)' = ExitsOf(id)
                                             /\ FilledOf(id)' = FilledOf(id)
  BY <1>3 DEF FilledOf, ExitsOf, Exits, Entries, IsEntry
<1> DEFINE row == [Row(p) EXCEPT !.ordered = {new}]
<1>7. Row(p)' = row
  <2>1. /\ Row(p)' = [symbol |-> positions[p].symbol, qty |-> positions[p].qty,
                      ordered |-> {new}, filled |-> FilledOf(p), closed |-> positions[p].closed]
    BY <1>3, <1>5 DEF Row
  <2> QED
    BY <2>1 DEF Row
<1>8. \A id \in DOMAIN positions : id # p => Row(id)' = Row(id)
  BY <1>3, <1>6 DEF Row
<1>9. row.ordered = {new} /\ Row(p).ordered = {} /\ Row(p).closed = positions[p].closed
  BY <1>5 DEF Row
<1> HIDE DEF row
<1>10. Ledger' = [Ledger EXCEPT ![p] = row]
  BY <1>3, <1>4, <1>7, <1>8, LedgerChanged
<1>11. DOMAIN Ledger = DOMAIN positions /\ Ledger[p] = Row(p)
  BY <1>4, LedgerRows
<1>12. Ledger'[p].ordered = {new} /\ Ledger' = [Ledger EXCEPT ![p].ordered = {new}]
  BY <1>4, <1>9, <1>10, <1>11 DEF row
<1>13. Book!OrderExit(p)
  BY <1>3, <1>4, <1>9, <1>11, <1>12 DEF Book!OrderExit
<1> QED
  BY <1>4, <1>11, <1>13

\* The fill of an exit is one of the book's, that of an entry is not.
LEMMA BookFills ==
    ASSUME EngineInv, QueueInv, PlaceInv, tpc = "fill", CommitFill
    PROVE  \/ \E p \in DOMAIN Ledger : Book!FillExit(p)
           \/ UNCHANGED <<Ledger, booked>>
<1>1. PICK n \in DOMAIN orders : n = popped
  BY FillRow
<1>2. /\ DOMAIN orders' = DOMAIN orders
      /\ orders'[n].status = "FILLED" /\ orders'[n].role = orders[n].role
      /\ orders'[n].position = orders[n].position
      /\ \A o \in DOMAIN orders : o # n => orders'[o] = orders[o]
      /\ UNCHANGED <<positions, booked>> /\ orders[n].status = "PENDING"
  BY <1>1, FillRow DEF QueueInv
<1>3. CASE IsEntry(n)
  <2>1. \A id : ExitsOf(id)' = ExitsOf(id) /\ FilledOf(id)' = FilledOf(id)
    BY <1>2, <1>3 DEF FilledOf, ExitsOf, Exits, Entries, IsEntry
  <2> QED
    BY <1>2, <2>1, LedgerSame
<1>4. CASE ~IsEntry(n)
  <2>1. n \in Exits
    BY <1>4 DEF Exits, Entries
  <2>2. PICK p \in DOMAIN positions : p = orders[n].position
    BY <2>1 DEF EngineInv, RowInv, ExitsMatchPositions
  <2>3. \A o \in Exits : orders[o].position = p => o = n
    BY <2>1, <2>2 DEF EngineInv, RowInv, ExitsMatchPositions
  <2>4. /\ ExitsOf(p) = {n} /\ ExitsOf(p)' = {n}
        /\ FilledOf(p) = {} /\ FilledOf(p)' = {n}
    BY <1>2, <2>1, <2>2, <2>3 DEF FilledOf, ExitsOf, Exits, Entries, IsEntry
  <2>5. \A id \in DOMAIN positions : id # p => /\ ExitsOf(id)' = ExitsOf(id)
                                               /\ FilledOf(id)' = FilledOf(id)
    BY <1>2, <2>2 DEF FilledOf, ExitsOf, Exits, Entries, IsEntry
  <2>6. ~positions[p].closed
    BY <2>4 DEF PlaceInv
  <2> DEFINE row == [Row(p) EXCEPT !.filled = {n}]
  <2>7. Row(p)' = row
    BY <1>2, <2>4 DEF Row
  <2>8. \A id \in DOMAIN positions : id # p => Row(id)' = Row(id)
    BY <1>2, <2>5 DEF Row
  <2>9. Row(p).ordered = {n} /\ Row(p).filled = {} /\ Row(p).closed = positions[p].closed
    BY <2>4 DEF Row
  <2> HIDE DEF row
  <2>10. Ledger' = [Ledger EXCEPT ![p] = row]
    BY <1>2, <2>7, <2>8, LedgerChanged
  <2>11. DOMAIN Ledger = DOMAIN positions /\ Ledger[p] = Row(p)
    BY LedgerRows
  <2>12. Ledger' = [Ledger EXCEPT ![p].filled = Ledger[p].ordered]
    BY <2>9, <2>10, <2>11 DEF row
  <2>13. Book!FillExit(p)
    BY <1>2, <2>6, <2>9, <2>11, <2>12 DEF Book!FillExit
  <2> QED
    BY <2>11, <2>13
<1> QED
  BY <1>3, <1>4

LEMMA BookCloses ==
    ASSUME EngineInv, PlaceInv, tpc = "close", CommitClose
    PROVE  \E p \in DOMAIN Ledger : Book!Close(p)
<1>1. PICK p \in DOMAIN positions : p = closing.id
  BY CloseRow
<1>2. /\ DOMAIN positions' = DOMAIN positions /\ positions'[p].closed
      /\ positions'[p].symbol = positions[p].symbol /\ positions'[p].qty = positions[p].qty
      /\ \A id \in DOMAIN positions : id # p => positions'[id] = positions[id]
      /\ UNCHANGED orders /\ booked' \in Int
  BY <1>1, CloseRow
<1>3. ~positions[p].closed /\ FilledOf(p) # {}
  BY <1>1 DEF PlaceInv
<1>4. positions'[p].closed = TRUE
  <2>1. positions' \in Seq(PositionType) /\ p \in DOMAIN positions'
    <3>1. JournalTypes'
      BY CloseCommitted
    <3> QED
      BY <1>2, <3>1 DEF JournalTypes
  <2>2. positions'[p] \in PositionType
    BY <2>1
  <2>3. positions'[p].closed \in BOOLEAN
    BY <2>2 DEF PositionType
  <2> QED
    BY <1>2, <2>3
<1>5. \A id : ExitsOf(id)' = ExitsOf(id) /\ FilledOf(id)' = FilledOf(id)
  BY <1>2 DEF FilledOf, ExitsOf, Exits, Entries, IsEntry
<1>6. PICK yes : yes = TRUE
  OBVIOUS
<1> DEFINE row == [Row(p) EXCEPT !.closed = yes]
<1>7. Row(p)' = row
  <2>1. Row(p)' = [symbol |-> positions[p].symbol, qty |-> positions[p].qty,
                   ordered |-> ExitsOf(p), filled |-> FilledOf(p), closed |-> yes]
    BY <1>2, <1>4, <1>5, <1>6 DEF Row
  <2> QED
    BY <2>1, RowClosed DEF Row
<1>8. \A id \in DOMAIN positions : id # p => Row(id)' = Row(id)
  BY <1>2, <1>5 DEF Row
<1>9. Row(p).filled = FilledOf(p) /\ Row(p).closed = positions[p].closed
  BY DEF Row
<1> HIDE DEF row
<1>10. Ledger' = [Ledger EXCEPT ![p] = row]
  BY <1>2, <1>7, <1>8, LedgerChanged
<1>11. DOMAIN Ledger = DOMAIN positions /\ Ledger[p] = Row(p)
  BY LedgerRows
<1>12. Ledger' = [Ledger EXCEPT ![p].closed = yes]
  BY <1>10, <1>11 DEF row
<1>13. Ledger' = [Ledger EXCEPT ![p].closed = TRUE]
  BY <1>6, <1>12, Zenon
<1>14. Book!Close(p)
  BY <1>2, <1>3, <1>9, <1>11, <1>13 DEF Book!Close
<1> QED
  BY <1>11, <1>14

\* No other step shows in the book.
LEMMA BookStutters ==
    ASSUME EngineInv, UNCHANGED <<positions, booked>>,
           \/ UNCHANGED orders
           \/ bpc = "place" /\ CommitEntry
    PROVE  UNCHANGED <<Ledger, booked>>
<1>1. \A id : ExitsOf(id)' = ExitsOf(id) /\ FilledOf(id)' = FilledOf(id)
  <2>1. CASE UNCHANGED orders
    BY <2>1 DEF FilledOf, ExitsOf, Exits, Entries, IsEntry
  <2>2. CASE bpc = "place" /\ CommitEntry
    BY <2>2, EntryRow DEF FilledOf, ExitsOf, Exits, Entries, IsEntry
  <2> QED
    BY <2>1, <2>2
<1> QED
  BY <1>1, LedgerSame

LEMMA BookStep ==
    ASSUME BookInv, [Next]_vars
    PROVE  [Book!Next]_<<Ledger, booked>>
<1> DEFINE Silent == UNCHANGED <<Ledger, booked>>
<1> USE DEF BookInv
<1>1. ASSUME tpc = "open" /\ CommitOpen PROVE Book!Next
  BY <1>1, BookEnters DEF Book!Next
<1>2. ASSUME tpc = "exitPlace" /\ CommitExit PROVE Book!Next
  BY <1>2, BookOrders DEF Book!Next
<1>3. ASSUME tpc = "fill" /\ CommitFill PROVE Book!Next \/ Silent
  BY <1>3, BookFills DEF Book!Next
<1>4. ASSUME tpc = "close" /\ CommitClose PROVE Book!Next
  BY <1>4, BookCloses DEF Book!Next
<1>5. ASSUME bpc = "place" /\ CommitEntry PROVE Silent
  BY <1>5, BookStutters DEF CommitEntry
<1>6. ASSUME UNCHANGED <<orders, positions, booked>> PROVE Silent
  BY <1>6, BookStutters
<1> HIDE DEF Silent, BookInv
<1>7. CASE Quiet
  BY <1>6, <1>7 DEF Quiet, Silent
<1>8. CASE PopOrder \/ ApplyExit \/ Restart
  BY <1>6, <1>8 DEF PopOrder, ApplyExit, Restart, journal, Silent
<1>9. CASE FillOrder
  BY <1>3, <1>9 DEF FillOrder, Silent
<1>10. CASE OpenPosition
  BY <1>1, <1>10 DEF OpenPosition
<1>11. CASE ClosePosition
  BY <1>4, <1>11 DEF ClosePosition
<1>12. CASE PlaceExit
  BY <1>2, <1>12 DEF PlaceExit
<1>13. CASE PlaceEntry \/ (BarFault /\ bpc = "place" /\ CommitEntry)
  BY <1>5, <1>13 DEF PlaceEntry, Silent
<1>14. CASE TickFault
  BY <1>1, <1>2, <1>3, <1>4, <1>6, <1>14 DEF TickFault, journal, Silent
<1>15. Quiet \/ Loud
  BY QuietOrLoud DEF BookInv
<1> QED
  BY <1>7, <1>8, <1>9, <1>10, <1>11, <1>12, <1>13, <1>14, <1>15 DEF Loud, Silent

\* The engine implements the book of positions: whatever interleaves, fails or
\* restarts, the journal shows each position opened, one exit ordered, that exit
\* filled and the position closed, in this order and each once (_apply_fill,
\* _check_exits, PaperBroker.on_tick, _close_position).
THEOREM BookCorrect == Spec => BookSpec
<1>1. Init => Book!Init
  <2>1. ASSUME positions = <<>> PROVE Ledger = <<>>
    BY <2>1 DEF Ledger
  <2> QED
    BY <2>1 DEF Init, Book!Init
<1>2. BookInv /\ [Next]_vars => [Book!Next]_<<Ledger, booked>>
  BY BookStep
<1> QED
  BY <1>1, <1>2, BookInvariant, PTL DEF Spec, BookSpec, Book!Spec

-----------------------------------------------------------------------------
\* Shares

\* What conserves shares, in one process lifetime in which no await failed: a
\* fill waits to be applied once, an exit that is on its way finds its position
\* in the engine's memory, and an entry's side is that of its signal, from which
\* the position takes its sign.
FillsApply ==
    /\ \A i, j \in DOMAIN fills : fills[i].order = fills[j].order => i = j
    /\ \A o \in Exits : orders[o].status = "PENDING" => orders[o].position \in DOMAIN open
    /\ \A i \in DOMAIN fills : fills[i].order \in Exits =>
          orders[fills[i].order].position \in DOMAIN open

SidesTraced ==
    /\ \A o \in Entries : orders[o].side = Side(signals[orders[o].signal].direction)
    /\ bpc = "place" => signals[job.id].direction = job.sig.direction

SharesInv == Undisturbed => FillsApply /\ SidesTraced /\ SharesConserved

\* The three sums.
Traded(s) == {o \in DOMAIN orders : orders[o].symbol = s /\ orders[o].status = "FILLED"}
Held(s) == {id \in DOMAIN positions :
               positions[id].symbol = s /\ ~positions[id].closed /\ id # closing.id}
Waiting(s) == {i \in DOMAIN fills : orders[fills[i].order].symbol = s}

BookedShares == [o \in DOMAIN orders |-> SignedFill(o)]
HeldShares == [id \in DOMAIN positions |-> positions[id].qty]
FilledShares == [i \in DOMAIN fills |-> SignedFill(fills[i].order)]

\* The signed quantity of an order's row.
Worth(row) == IF row.side = "BUY" THEN row.qty ELSE -row.qty

Balanced(s) == SumOf(BookedShares, Traded(s))
               = SumOf(HeldShares, Held(s)) + SumOf(FilledShares, Waiting(s))

LEMMA SharesAreNumbers ==
    ASSUME EngineInv
    PROVE  /\ \A o \in DOMAIN orders : SignedFill(o) \in Int /\ BookedShares[o] = SignedFill(o)
           /\ \A id \in DOMAIN positions : /\ HeldShares[id] = positions[id].qty
                                           /\ positions[id].qty \in Int
           /\ \A i \in DOMAIN fills : /\ fills[i].order \in DOMAIN orders
                                      /\ FilledShares[i] = SignedFill(fills[i].order)
                                      /\ FilledShares[i] \in Int
           /\ \A s : /\ IsFiniteSet(Traded(s)) /\ Traded(s) \subseteq DOMAIN orders
                     /\ IsFiniteSet(Held(s)) /\ Held(s) \subseteq DOMAIN positions
                     /\ IsFiniteSet(Waiting(s)) /\ Waiting(s) \subseteq DOMAIN fills
<1>1. \A o \in DOMAIN orders : SignedFill(o) \in Int /\ BookedShares[o] = SignedFill(o)
  <2>1. \A o \in DOMAIN orders : orders[o] \in OrderType
    BY DEF EngineInv, TypeOK, JournalTypes
  <2>2. \A o \in DOMAIN orders : orders[o].qty \in Nat
    BY <2>1 DEF OrderType
  <2> QED
    BY <2>2 DEF SignedFill, BookedShares
<1>2. \A id \in DOMAIN positions : HeldShares[id] = positions[id].qty /\ positions[id].qty \in Int
  <2>1. \A id \in DOMAIN positions : positions[id] \in PositionType
    BY DEF EngineInv, TypeOK, JournalTypes
  <2> QED
    BY <2>1 DEF PositionType, HeldShares
<1>3. \A i \in DOMAIN fills : fills[i].order \in DOMAIN orders
  BY DEF EngineInv, RowInv, Refs
<1>4. \A i \in DOMAIN fills : /\ FilledShares[i] = SignedFill(fills[i].order)
                              /\ FilledShares[i] \in Int
  BY <1>1, <1>3 DEF FilledShares
<1>5. IsFiniteSet(DOMAIN orders) /\ IsFiniteSet(DOMAIN positions) /\ IsFiniteSet(DOMAIN fills)
  <2>1. /\ DOMAIN orders = 1..Len(orders) /\ Len(orders) \in Nat
        /\ DOMAIN positions = 1..Len(positions) /\ Len(positions) \in Nat
        /\ DOMAIN fills = 1..Len(fills) /\ Len(fills) \in Nat
    BY DEF EngineInv, TypeOK, JournalTypes, TickTypes
  <2> QED
    BY <2>1, FS_Interval
<1>6. ASSUME NEW s
      PROVE  /\ IsFiniteSet(Traded(s)) /\ Traded(s) \subseteq DOMAIN orders
             /\ IsFiniteSet(Held(s)) /\ Held(s) \subseteq DOMAIN positions
             /\ IsFiniteSet(Waiting(s)) /\ Waiting(s) \subseteq DOMAIN fills
  <2>1. /\ Traded(s) \subseteq DOMAIN orders /\ Held(s) \subseteq DOMAIN positions
        /\ Waiting(s) \subseteq DOMAIN fills
    BY DEF Traded, Held, Waiting
  <2> QED
    BY <1>5, <2>1, FS_Subset
<1> QED
  BY <1>1, <1>2, <1>3, <1>4, <1>6

\* The three sums are those of the invariant.
LEMMA TradedSum ==
    ASSUME EngineInv, NEW s
    PROVE  MapThenSumSet(SignedFill, Traded(s)) = SumOf(BookedShares, Traded(s))
<1> PICK S : S = Traded(s)
  OBVIOUS
<1> DEFINE f == BookedShares
           Eq(g) == g = [t \in SUBSET S |->
                            IF t = {} THEN 0
                            ELSE SignedFill(CHOOSE x \in t : TRUE) + g[t \ {CHOOSE x \in t : TRUE}]]
           sum == CHOOSE g : Eq(g)
<1>1. MapThenSumSet(SignedFill, S) = sum[S]
  BY DEF MapThenSumSet, MapThenFoldSet
<1>2. /\ IsFiniteSet(S) /\ \A x \in S : f[x] \in Int
      /\ \A t \in SUBSET S : t # {} => f[CHOOSE x \in t : TRUE] = SignedFill(CHOOSE x \in t : TRUE)
  <2>1. IsFiniteSet(S) /\ \A x \in S : f[x] \in Int /\ f[x] = SignedFill(x)
    BY SharesAreNumbers
  <2> QED
    BY <2>1
<1>3. \A g : Unfolds(g, f, S) <=> Eq(g)
  BY <1>2, ZenonT(40) DEF Unfolds
<1> HIDE DEF Eq, f
<1>4. Unfolds(sum, f, S)
  BY <1>2, <1>3, SumUnfolds, Zenon
<1> QED
  BY <1>1, <1>2, <1>4, SumUnfolds DEF f

LEMMA HeldSum ==
    ASSUME EngineInv, NEW s
    PROVE  MapThenSumSet(LAMBDA id : positions[id].qty, Held(s)) = SumOf(HeldShares, Held(s))
<1> PICK S : S = Held(s)
  OBVIOUS
<1> DEFINE f == HeldShares
           Eq(g) == g = [t \in SUBSET S |->
                            IF t = {} THEN 0
                            ELSE positions[CHOOSE x \in t : TRUE].qty + g[t \ {CHOOSE x \in t : TRUE}]]
           sum == CHOOSE g : Eq(g)
<1>1. MapThenSumSet(LAMBDA id : positions[id].qty, S) = sum[S]
  BY DEF MapThenSumSet, MapThenFoldSet
<1>2. /\ IsFiniteSet(S) /\ \A x \in S : f[x] \in Int
      /\ \A t \in SUBSET S : t # {} => f[CHOOSE x \in t : TRUE] = positions[CHOOSE x \in t : TRUE].qty
  <2>1. IsFiniteSet(S) /\ \A x \in S : f[x] \in Int /\ f[x] = positions[x].qty
    BY SharesAreNumbers
  <2> QED
    BY <2>1
<1>3. \A g : Unfolds(g, f, S) <=> Eq(g)
  BY <1>2 DEF Unfolds
<1> HIDE DEF Eq, f
<1>4. Unfolds(sum, f, S)
  BY <1>2, <1>3, SumUnfolds, Zenon
<1> QED
  BY <1>1, <1>2, <1>4, SumUnfolds DEF f

LEMMA WaitingSum ==
    ASSUME EngineInv, NEW s
    PROVE  MapThenSumSet(LAMBDA i : SignedFill(fills[i].order), Waiting(s)) = SumOf(FilledShares, Waiting(s))
<1> PICK S : S = Waiting(s)
  OBVIOUS
<1> DEFINE f == FilledShares
           Eq(g) == g = [t \in SUBSET S |->
                            IF t = {} THEN 0
                            ELSE SignedFill(fills[CHOOSE x \in t : TRUE].order) + g[t \ {CHOOSE x \in t : TRUE}]]
           sum == CHOOSE g : Eq(g)
<1>1. MapThenSumSet(LAMBDA i : SignedFill(fills[i].order), S) = sum[S]
  BY DEF MapThenSumSet, MapThenFoldSet
<1>2. /\ IsFiniteSet(S) /\ \A x \in S : f[x] \in Int
      /\ \A t \in SUBSET S : t # {} => f[CHOOSE x \in t : TRUE] = SignedFill(fills[CHOOSE x \in t : TRUE].order)
  <2>1. IsFiniteSet(S) /\ \A x \in S : f[x] \in Int /\ f[x] = SignedFill(fills[x].order)
    BY SharesAreNumbers
  <2> QED
    BY <2>1
<1>3. \A g : Unfolds(g, f, S) <=> Eq(g)
  BY <1>2 DEF Unfolds
<1> HIDE DEF Eq, f
<1>4. Unfolds(sum, f, S)
  BY <1>2, <1>3, SumUnfolds, Zenon
<1> QED
  BY <1>1, <1>2, <1>4, SumUnfolds DEF f

LEMMA SharesBalanced ==
    ASSUME EngineInv
    PROVE  SharesConserved <=> (Undisturbed => \A s \in Symbols : Balanced(s))
<1>1. \A s : /\ MapThenSumSet(SignedFill, Traded(s)) = SumOf(BookedShares, Traded(s))
             /\ MapThenSumSet(LAMBDA id : positions[id].qty, Held(s)) = SumOf(HeldShares, Held(s))
             /\ MapThenSumSet(LAMBDA i : SignedFill(fills[i].order), Waiting(s))
                = SumOf(FilledShares, Waiting(s))
  BY TradedSum, HeldSum, WaitingSum
<1>2. SharesConserved <=>
        (Undisturbed => \A s \in Symbols :
           MapThenSumSet(SignedFill, Traded(s))
           = MapThenSumSet(LAMBDA id : positions[id].qty, Held(s))
             + MapThenSumSet(LAMBDA i : SignedFill(fills[i].order), Waiting(s)))
  BY DEF SharesConserved, Traded, Held, Waiting
<1> QED
  BY <1>1, <1>2, Zenon DEF Balanced

-----------------------------------------------------------------------------
\* Fills on their way

\* A step that adds at most an order, takes at most a fill and no position.
LEMMA FillsKept ==
    ASSUME EngineInv, FillsApply, DOMAIN open \subseteq DOMAIN open',
           DOMAIN orders \subseteq DOMAIN orders',
           \A o \in DOMAIN orders : orders'[o] = orders[o],
           \A o \in DOMAIN orders' \ DOMAIN orders :
              orders'[o].role # "entry" => orders'[o].position \in DOMAIN open',
           \/ fills' = fills
           \/ fills # <<>> /\ fills' = Tail(fills)
    PROVE  FillsApply'
<1>1. \A i \in DOMAIN fills' : \E k \in DOMAIN fills : fills'[i] = fills[k]
  <2>1. CASE fills' = fills
    BY <2>1
  <2>2. CASE fills # <<>> /\ fills' = Tail(fills)
    BY <2>2, HeadTail DEF EngineInv, TypeOK, TickTypes
  <2> QED
    BY <2>1, <2>2
<1>2. \A i, j \in DOMAIN fills' : fills'[i].order = fills'[j].order => i = j
  <2>1. CASE fills' = fills
    BY <2>1 DEF FillsApply
  <2>2. CASE fills # <<>> /\ fills' = Tail(fills)
    <3>1. \A i \in DOMAIN fills' : i \in Nat /\ i + 1 \in DOMAIN fills /\ fills'[i] = fills[i + 1]
      BY <2>2, HeadTail DEF EngineInv, TypeOK, TickTypes
    <3> SUFFICES ASSUME NEW i \in DOMAIN fills', NEW j \in DOMAIN fills',
                        fills'[i].order = fills'[j].order
                 PROVE  i = j
      OBVIOUS
    <3>2. i + 1 = j + 1 /\ i \in Nat /\ j \in Nat
      BY <3>1 DEF FillsApply
    <3> QED
      BY <3>2
  <2> QED
    BY <2>1, <2>2
<1>3. \A o \in Exits' : o \in Exits \/ orders'[o].position \in DOMAIN open'
  BY DEF Exits, Entries, IsEntry
<1>4. \A o \in Exits : orders'[o] = orders[o] /\ o \in DOMAIN orders
  BY DEF Exits
<1>5. \A o \in Exits' : orders'[o].status = "PENDING" => orders'[o].position \in DOMAIN open'
  BY <1>3, <1>4 DEF FillsApply
<1>6. ASSUME NEW i \in DOMAIN fills', fills'[i].order \in Exits'
      PROVE  orders'[fills'[i].order].position \in DOMAIN open'
  <2>1. PICK k \in DOMAIN fills : fills'[i] = fills[k]
    BY <1>1
  <2>2. fills[k].order \in DOMAIN orders
    BY DEF EngineInv, RowInv, Refs
  <2>3. fills[k].order \in Exits
    BY <1>6, <2>1, <2>2 DEF Exits, Entries, IsEntry
  <2> QED
    BY <1>4, <2>1, <2>3 DEF FillsApply
<1> QED
  BY <1>2, <1>5, <1>6 DEF FillsApply

LEMMA FillsFilled ==
    ASSUME EngineInv, QueueInv, FillsApply, FillOrder
    PROVE  FillsApply'
<1> DEFINE fill == [order |-> popped, price |-> FillPrice(orders[popped].side, tick.ltp)]
<1>1. /\ tpc = "fill" /\ fills' = Append(fills, fill) /\ UNCHANGED open /\ CommitFill
  BY DEF FillOrder, memory
<1>2. /\ popped \in DOMAIN orders /\ DOMAIN orders' = DOMAIN orders
      /\ orders'[popped].status = "FILLED" /\ orders'[popped].role = orders[popped].role
      /\ orders'[popped].position = orders[popped].position
      /\ \A o \in DOMAIN orders : o # popped => orders'[o] = orders[o]
  BY <1>1, FillRow
<1>3. fill.order = popped
  OBVIOUS
<1>4. /\ DOMAIN fills' = DOMAIN fills \cup {Len(fills) + 1}
      /\ fills'[Len(fills) + 1] = fill /\ \A i \in DOMAIN fills : fills'[i] = fills[i]
  <2> HIDE DEF fill
  <2> QED
    BY <1>1 DEF EngineInv, TypeOK, TickTypes
<1> HIDE DEF fill
<1>5. \A i \in DOMAIN fills : fills[i].order # popped /\ fills[i].order \in DOMAIN orders
  BY <1>1 DEF QueueInv, EngineInv, RowInv, Refs
<1>6. \A i, j \in DOMAIN fills' : fills'[i].order = fills'[j].order => i = j
  BY <1>3, <1>4, <1>5 DEF FillsApply
<1>7. Exits' = Exits /\ \A o \in Exits : orders'[o].position = orders[o].position
  BY <1>2 DEF Exits, Entries, IsEntry
<1>8. \A o \in Exits' : orders'[o].status = "PENDING" => orders'[o].position \in DOMAIN open'
  <2>1. \A o \in Exits : o \in DOMAIN orders
    BY DEF Exits
  <2> QED
    BY <1>1, <1>2, <1>7, <2>1 DEF FillsApply
<1>9. popped \in Exits => orders[popped].position \in DOMAIN open
  BY <1>1 DEF QueueInv, FillsApply
<1>10. \A i \in DOMAIN fills' : fills'[i].order \in Exits' =>
          orders'[fills'[i].order].position \in DOMAIN open'
  BY <1>1, <1>3, <1>4, <1>7, <1>9 DEF FillsApply
<1> QED
  BY <1>6, <1>8, <1>10 DEF FillsApply

\* The fill of an exit finds its position, and no other exit names it.
LEMMA ExitApplies ==
    ASSUME EngineInv, QueueInv, PlaceInv, FillsApply, Undisturbed, ApplyExit
    PROVE  \E o \in Exits, id \in DOMAIN open :
              /\ o = Head(fills).order /\ id = orders[o].position
              /\ fills # <<>> /\ fills' = Tail(fills)
              /\ UNCHANGED <<orders, positions>>
              /\ DOMAIN open' = DOMAIN open \ {id}
              /\ closing.id = 0 /\ closing'.id = id
              /\ \A p \in Exits : orders[p].position = id => p = o
<1> DEFINE o  == Head(fills).order
           id == orders[o].position
<1>1. /\ tpc = "apply" /\ fills # <<>> /\ orders[o].role # "entry" /\ fills' = Tail(fills)
      /\ UNCHANGED <<orders, positions>>
  BY DEF ApplyExit, journal
<1>2. 1 \in DOMAIN fills /\ o = fills[1].order /\ o \in DOMAIN orders
  BY <1>1, HeadTail DEF EngineInv, TypeOK, TickTypes, RowInv, Refs
<1>3. o \in Exits
  BY <1>1, <1>2 DEF Exits, Entries, IsEntry
<1>4. id \in DOMAIN open
  BY <1>2, <1>3 DEF FillsApply
<1>5. DOMAIN open' = DOMAIN open \ {id} /\ closing'.id = id
  BY <1>4, SMTT(30) DEF ApplyExit, Without
<1>6. closing.id = 0
  BY <1>1 DEF PlaceInv
<1>7. \A p \in Exits : orders[p].position = id => p = o
  BY <1>3 DEF EngineInv, RowInv, ExitsMatchPositions
<1> QED
  BY <1>1, <1>3, <1>4, <1>5, <1>6, <1>7

LEMMA FillsTaken ==
    ASSUME EngineInv, QueueInv, PlaceInv, FillsApply, Undisturbed, ApplyExit
    PROVE  FillsApply'
<1>1. PICK o \in Exits, id \in DOMAIN open :
              /\ o = Head(fills).order /\ id = orders[o].position
              /\ fills # <<>> /\ fills' = Tail(fills)
              /\ UNCHANGED <<orders, positions>>
              /\ DOMAIN open' = DOMAIN open \ {id}
              /\ closing.id = 0 /\ closing'.id = id
              /\ \A p \in Exits : orders[p].position = id => p = o
  BY ExitApplies
<1>2. /\ 1 \in DOMAIN fills /\ o = fills[1].order
      /\ \A i \in DOMAIN fills' : i \in Nat \ {0} /\ i + 1 \in DOMAIN fills /\ fills'[i] = fills[i + 1]
  BY <1>1, HeadTail DEF EngineInv, TypeOK, TickTypes
<1>3. \A i, j \in DOMAIN fills' : fills'[i].order = fills'[j].order => i = j
  <2> SUFFICES ASSUME NEW i \in DOMAIN fills', NEW j \in DOMAIN fills',
                      fills'[i].order = fills'[j].order
               PROVE  i = j
    OBVIOUS
  <2>1. i + 1 = j + 1 /\ i \in Nat /\ j \in Nat
    BY <1>2 DEF FillsApply
  <2> QED
    BY <2>1
<1>4. Exits' = Exits /\ orders[o].status = "FILLED"
  BY <1>1, <1>2 DEF Exits, Entries, IsEntry, QueueInv
<1>5. \A p \in Exits' : orders'[p].status = "PENDING" => orders'[p].position \in DOMAIN open'
  BY <1>1, <1>4 DEF FillsApply
<1>6. ASSUME NEW i \in DOMAIN fills', fills'[i].order \in Exits'
      PROVE  orders'[fills'[i].order].position \in DOMAIN open'
  <2> PICK k \in DOMAIN fills : k = i + 1 /\ k # 1 /\ fills'[i] = fills[k]
    BY <1>2
  <2>1. fills[k].order # o /\ fills[k].order \in Exits
    BY <1>2, <1>4, <1>6 DEF FillsApply
  <2>2. orders[fills[k].order].position \in DOMAIN open \ {id}
    BY <1>1, <2>1 DEF FillsApply
  <2> QED
    BY <1>1, <2>2
<1> QED
  BY <1>3, <1>5, <1>6 DEF FillsApply

LEMMA FillsStep ==
    ASSUME BookInv, FillsApply, Undisturbed', [Next]_vars
    PROVE  FillsApply'
<1> USE DEF BookInv
<1>1. CASE Quiet
  <2>1. UNCHANGED <<orders, open, fills>>
    BY <1>1 DEF Quiet
  <2> QED
    BY <2>1, FillsKept
<1>2. CASE PopOrder \/ ClosePosition
  <2>1. UNCHANGED <<orders, open, fills>>
    BY <1>2 DEF PopOrder, ClosePosition, CommitClose, journal, memory
  <2> QED
    BY <2>1, FillsKept
<1>3. CASE FillOrder
  BY <1>3, FillsFilled
<1>4. CASE OpenPosition
  <2>1. /\ UNCHANGED orders /\ DOMAIN open \subseteq DOMAIN open'
        /\ fills # <<>> /\ fills' = Tail(fills)
    BY <1>4 DEF OpenPosition, CommitOpen, With, EngineInv, TickLocals
  <2> QED
    BY <2>1, FillsKept
<1>5. CASE ApplyExit
  <2>1. Undisturbed
    BY <1>5 DEF ApplyExit, envVars, Undisturbed
  <2> QED
    BY <1>5, <2>1, FillsTaken
<1>6. CASE PlaceExit
  <2> DEFINE id == openBySymbol[tick.symbol]
             new == Len(orders) + 1
  <2>1. /\ tpc = "exitPlace" /\ CommitExit /\ UNCHANGED fills /\ DOMAIN open' = DOMAIN open
    BY <1>6 DEF PlaceExit
  <2>2. /\ DOMAIN orders' = DOMAIN orders \cup {new}
        /\ orders'[new].position = id /\ id \in DOMAIN open
        /\ \A o \in DOMAIN orders : orders'[o] = orders[o]
    BY <2>1, ExitRow
  <2> HIDE DEF id, new
  <2> QED
    BY <2>1, <2>2, FillsKept
<1>7. CASE PlaceEntry
  <2> DEFINE new == Len(orders) + 1
  <2>1. bpc = "place" /\ CommitEntry /\ UNCHANGED <<fills, open>>
    BY <1>7 DEF PlaceEntry, tickVars
  <2>2. /\ DOMAIN orders' = DOMAIN orders \cup {new} /\ orders'[new].role = "entry"
        /\ \A o \in DOMAIN orders : orders'[o] = orders[o]
    BY <2>1, EntryRow
  <2> HIDE DEF new
  <2> QED
    BY <2>1, <2>2, FillsKept
<1>8. ~(TickFault \/ BarFault \/ Restart)
  <2>1. TickFault \/ BarFault => faults' = faults + 1
    BY DEF TickFault, BarFault
  <2>2. Restart => restarts' = restarts + 1
    BY DEF Restart
  <2> QED
    BY <2>1, <2>2 DEF Undisturbed, EngineInv, TypeOK, ControlTypes
<1> QED
  BY <1>1, <1>2, <1>3, <1>4, <1>5, <1>6, <1>7, <1>8, QuietOrLoud DEF Loud

-----------------------------------------------------------------------------
\* The sides of the entries

\* A signal's row keeps its direction, a new one has that of its job.
SignalsKept ==
    /\ DOMAIN signals \subseteq DOMAIN signals'
    /\ \A n \in DOMAIN signals : signals'[n].direction = signals[n].direction

LEMMA SignalStep ==
    ASSUME EngineInv, [Next]_vars
    PROVE  SignalsKept
<1>1. ASSUME UNCHANGED signals PROVE SignalsKept
  BY <1>1 DEF SignalsKept
<1>2. ASSUME CommitSignal PROVE SignalsKept
  <2> DEFINE row == SignalRow(job.sig, job.qty)
  <2>1. signals' = Append(signals, row)
    BY <1>2 DEF CommitSignal
  <2> HIDE DEF row
  <2> QED
    BY <2>1 DEF SignalsKept, EngineInv, TypeOK, JournalTypes
<1>3. ASSUME tpc = "open" /\ CommitOpen PROVE SignalsKept
  <2> PICK n : n = orders[Head(fills).order].signal
    OBVIOUS
  <2>1. signals' = [signals EXCEPT ![n] = Filled(@)]
    BY <1>3 DEF CommitOpen
  <2>2. \A k \in DOMAIN signals : signals[k] \in SignalRowType
    BY DEF EngineInv, TypeOK, JournalTypes
  <2>3. \A row \in SignalRowType : Filled(row).direction = row.direction
    BY DEF Filled, SignalRowType
  <2>4. \A k \in DOMAIN signals : signals'[k] = IF k = n THEN Filled(signals[k]) ELSE signals[k]
    BY <2>1
  <2> QED
    BY <2>1, <2>2, <2>3, <2>4 DEF SignalsKept
<1>4. CASE \/ \E s \in Symbols : TickOf(s)
           \/ \E sig \in SignalSpace, close \in 0..MaxClock : OnSignal(sig, close)
           \/ Kill \/ Restart \/ UNCHANGED vars
  BY <1>1, <1>4 DEF TickOf, OnTick, OnSignal, Kill, Restart, journal, vars
<1>5. CASE TickStep
  <2>1. OpenPosition \/ UNCHANGED signals
    BY <1>5 DEF TickStep, PopOrder, FillOrder, CommitFill, Drained, ApplyEntry, ApplyExit,
                ClosePosition, CommitClose, Applied, Hold, TriggerExit, PlaceExit, CommitExit,
                RefreshUnrealised, journal
  <2> QED
    BY <1>1, <1>3, <2>1 DEF OpenPosition
<1>6. CASE BarStep
  <2>1. CommitSignal \/ UNCHANGED signals
    BY <1>6 DEF BarStep, RejectSignal, AcceptSignal, PretradeProceed, PretradeSkip,
                PretradeReduce, PersistSignal, PlaceEntry, CommitEntry, LogRiskBlock,
                CommitBlock, journal
  <2> QED
    BY <1>1, <1>2, <2>1
<1>7. CASE TickFault
  <2>1. (CommitFill \/ CommitClose \/ CommitExit \/ UNCHANGED journal) => UNCHANGED signals
    BY DEF CommitFill, CommitClose, CommitExit, journal
  <2>2. (tpc = "open" /\ CommitOpen) \/ UNCHANGED signals
    BY <1>7, <2>1, Zenon DEF TickFault
  <2> QED
    BY <1>1, <1>3, <2>2
<1>8. CASE BarFault
  <2>1. (CommitEntry \/ CommitBlock \/ UNCHANGED journal) => UNCHANGED signals
    BY DEF CommitEntry, CommitBlock, journal
  <2>2. CommitSignal \/ UNCHANGED signals
    BY <1>8, <2>1, Zenon DEF BarFault
  <2> QED
    BY <1>1, <1>2, <2>2
<1> QED
  BY <1>4, <1>5, <1>6, <1>7, <1>8 DEF Next

\* What becomes of the orders in a step.
LEMMA OrdersStep ==
    ASSUME EngineInv, [Next]_vars
    PROVE  \/ UNCHANGED orders
           \/ tpc = "fill" /\ CommitFill
           \/ tpc = "exitPlace" /\ CommitExit
           \/ bpc = "place" /\ CommitEntry
<1>1. CASE Quiet \/ PopOrder \/ OpenPosition \/ ApplyExit \/ ClosePosition \/ Restart
  BY <1>1 DEF Quiet, PopOrder, OpenPosition, CommitOpen, ApplyExit, ClosePosition,
              CommitClose, Restart, journal
<1>2. CASE FillOrder \/ PlaceExit \/ PlaceEntry \/ (BarFault /\ bpc = "place" /\ CommitEntry)
  BY <1>2 DEF FillOrder, PlaceExit, PlaceEntry
<1>3. CASE TickFault
  <2>1. (CommitOpen \/ CommitClose \/ UNCHANGED journal) => UNCHANGED orders
    BY DEF CommitOpen, CommitClose, journal
  <2> QED
    BY <1>3, <2>1, Zenon DEF TickFault
<1> QED
  BY <1>1, <1>2, <1>3, QuietOrLoud DEF Loud

LEMMA SidesStep ==
    ASSUME EngineInv, SidesTraced, [Next]_vars
    PROVE  SidesTraced'
<1>1. SignalsKept
  BY SignalStep
<1>2. \A o \in Entries : orders[o].signal \in DOMAIN signals /\ o \in DOMAIN orders
  BY DEF EngineInv, RowInv, Refs, Entries
<1>3. ASSUME NEW o \in Entries'
      PROVE  orders'[o].side = Side(signals'[orders'[o].signal].direction)
  <2>1. ASSUME o \in Entries, orders'[o].side = orders[o].side, orders'[o].signal = orders[o].signal
        PROVE  orders'[o].side = Side(signals'[orders'[o].signal].direction)
    BY <1>1, <1>2, <2>1 DEF SignalsKept, SidesTraced
  <2>2. CASE UNCHANGED orders
    BY <2>1, <2>2 DEF Entries, IsEntry
  <2>3. CASE tpc = "fill" /\ CommitFill
    <3>1. Kept /\ DOMAIN orders' = DOMAIN orders
      BY <2>3, FillCommitted
    <3> QED
      BY <2>1, <3>1 DEF Kept, Entries, IsEntry
  <2>4. CASE tpc = "exitPlace" /\ CommitExit
    <3>1. o \in Entries /\ orders'[o] = orders[o]
      BY <2>4, ExitRow DEF Entries, IsEntry
    <3> QED
      BY <2>1, <3>1
  <2>5. CASE bpc = "place" /\ CommitEntry
    <3> DEFINE row == EntryOrder(job.sig, job.qty, job.id)
    <3>1. orders' = Append(orders, row) /\ UNCHANGED signals
      BY <2>5 DEF CommitEntry
    <3>2. row.side = Side(job.sig.direction) /\ row.signal = job.id
      BY DEF EntryOrder
    <3> HIDE DEF row
    <3>3. (o \in DOMAIN orders /\ orders'[o] = orders[o]) \/ orders'[o] = row
      BY <3>1 DEF Entries, EngineInv, TypeOK, JournalTypes
    <3>4. CASE orders'[o] = row
      BY <2>5, <3>1, <3>2, <3>4 DEF SidesTraced
    <3>5. CASE o \in DOMAIN orders /\ orders'[o] = orders[o]
      <4>1. o \in Entries
        BY <3>5 DEF Entries, IsEntry
      <4> QED
        BY <2>1, <3>5, <4>1
    <3> QED
      BY <3>3, <3>4, <3>5
  <2> QED
    BY <2>2, <2>3, <2>4, <2>5, OrdersStep
<1>4. ASSUME bpc' = "place"
      PROVE  signals'[job'.id].direction = job'.sig.direction
  <2>1. CASE PersistSignal
    <3> DEFINE row == SignalRow(job.sig, job.qty)
               new == Len(signals) + 1
    <3>1. signals' = Append(signals, row) /\ job' = AsRow(job, new) /\ IsJob(job)
      BY <2>1 DEF PersistSignal, CommitSignal, EngineInv, BarLocals
    <3>2. row.direction = job.sig.direction
      BY DEF SignalRow
    <3> HIDE DEF row
    <3>3. new \in Nat /\ signals'[new] = row
      BY <3>1 DEF EngineInv, TypeOK, JournalTypes
    <3> HIDE DEF new
    <3>4. job'.id = new /\ job'.sig = job.sig
      BY <3>1, <3>3, JobUpdates DEF AsRow, IsJob
    <3> QED
      BY <3>2, <3>3, <3>4
  <2>2. CASE bpc = "place" /\ UNCHANGED job
    <3>1. job.id \in DOMAIN signals /\ signals[job.id].direction = job.sig.direction
      BY <2>2 DEF EngineInv, BarLocals, SidesTraced
    <3> QED
      BY <1>1, <2>2, <3>1 DEF SignalsKept
  <2>3. PersistSignal \/ (bpc = "place" /\ UNCHANGED job)
    <3>1. CASE TickStep \/ (\E s \in Symbols : TickOf(s)) \/ Kill \/ TickFault \/ UNCHANGED vars
      <4>1. UNCHANGED <<bpc, job>>
        BY <3>1 DEF TickStep, PopOrder, FillOrder, Drained, ApplyEntry, OpenPosition, ApplyExit,
             ClosePosition, Applied, Hold, TriggerExit, PlaceExit, RefreshUnrealised, TickOf,
             OnTick, Kill, TickFault, barVars, vars
      <4> QED
        BY <1>4, <4>1
    <3>2. CASE BarStep
      BY <1>4, <3>2 DEF BarStep, RejectSignal, AcceptSignal, PretradeProceed, PretradeSkip,
                PretradeReduce, PlaceEntry, LogRiskBlock
    <3>3. CASE \/ \E sig \in SignalSpace, close \in 0..MaxClock : OnSignal(sig, close)
               \/ BarFault \/ Restart
      BY <1>4, <3>3 DEF OnSignal, BarFault, Restart
    <3> QED
      BY <3>1, <3>2, <3>3 DEF Next
  <2> QED
    BY <2>1, <2>2, <2>3
<1> QED
  BY <1>3, <1>4 DEF SidesTraced

-----------------------------------------------------------------------------
\* The balance

\* A sum keeps its value where its set and the values on it stay.
LEMMA TradedSame ==
    ASSUME EngineInv, DOMAIN orders \subseteq DOMAIN orders',
           \A o \in DOMAIN orders : orders'[o] = orders[o],
           \A o \in DOMAIN orders' \ DOMAIN orders : orders'[o].status = "PENDING",
           NEW s
    PROVE  SumOf(BookedShares', Traded(s)') = SumOf(BookedShares, Traded(s))
<1>1. Traded(s)' = Traded(s)
  BY DEF Traded
<1>2. IsFiniteSet(Traded(s)) /\ \A o \in Traded(s) : BookedShares[o] \in Int /\ o \in DOMAIN orders
  BY SharesAreNumbers
<1>3. \A o \in DOMAIN orders : BookedShares'[o] = BookedShares[o]
  BY DEF BookedShares, SignedFill
<1>4. \A o \in Traded(s) : BookedShares[o] \in Int /\ BookedShares[o] = BookedShares'[o]
  BY <1>2, <1>3
<1> QED
  BY <1>1, <1>2, <1>4, SumSame

LEMMA HeldSame ==
    ASSUME EngineInv, NEW s, Held(s)' = Held(s),
           DOMAIN positions \subseteq DOMAIN positions',
           \A id \in DOMAIN positions : positions'[id].qty = positions[id].qty
    PROVE  SumOf(HeldShares', Held(s)') = SumOf(HeldShares, Held(s))
<1>1. IsFiniteSet(Held(s)) /\ \A id \in Held(s) : HeldShares[id] \in Int /\ id \in DOMAIN positions
  BY SharesAreNumbers
<1>2. \A id \in DOMAIN positions : HeldShares'[id] = HeldShares[id]
  BY DEF HeldShares
<1>3. \A id \in Held(s) : HeldShares[id] \in Int /\ HeldShares[id] = HeldShares'[id]
  BY <1>1, <1>2
<1> QED
  BY <1>1, <1>3, SumSame

LEMMA WaitingSame ==
    ASSUME EngineInv, UNCHANGED fills, DOMAIN orders \subseteq DOMAIN orders',
           \A o \in DOMAIN orders : orders'[o] = orders[o],
           NEW s
    PROVE  SumOf(FilledShares', Waiting(s)') = SumOf(FilledShares, Waiting(s))
<1>1. Waiting(s)' = Waiting(s)
  BY SharesAreNumbers DEF Waiting
<1>2. IsFiniteSet(Waiting(s)) /\ \A i \in Waiting(s) : FilledShares[i] \in Int /\ i \in DOMAIN fills
  BY SharesAreNumbers
<1>3. \A i \in DOMAIN fills : FilledShares'[i] = FilledShares[i]
  BY SharesAreNumbers DEF FilledShares, SignedFill
<1>4. \A i \in Waiting(s) : FilledShares[i] \in Int /\ FilledShares[i] = FilledShares'[i]
  BY <1>2, <1>3
<1> QED
  BY <1>1, <1>2, <1>4, SumSame

\* The fills behind the first.
LEMMA WaitingTail ==
    ASSUME EngineInv, fills # <<>>, fills' = Tail(fills), UNCHANGED orders, NEW s
    PROVE  /\ s # orders[Head(fills).order].symbol =>
                SumOf(FilledShares', Waiting(s)') = SumOf(FilledShares, Waiting(s))
           /\ s = orders[Head(fills).order].symbol =>
                SumOf(FilledShares, Waiting(s))
                = SignedFill(Head(fills).order) + SumOf(FilledShares', Waiting(s)')
           /\ SumOf(FilledShares', Waiting(s)') \in Int
<1> PICK S, T, f, g : /\ S = Waiting(s)' /\ T = Waiting(s) \ {1}
                      /\ f = FilledShares' /\ g = FilledShares
  OBVIOUS
<1>1. /\ 1 \in DOMAIN fills /\ Head(fills) = fills[1]
      /\ \A i \in DOMAIN fills' : i \in Nat \ {0} /\ i + 1 \in DOMAIN fills /\ fills'[i] = fills[i + 1]
      /\ \A i \in DOMAIN fills : i # 1 => i \in Nat /\ i - 1 \in DOMAIN fills'
  <2>1. fills \in Seq(FillType)
    BY DEF EngineInv, TypeOK, TickTypes
  <2>2. fills' \in Seq(FillType) /\ Len(fills') = Len(fills) - 1 /\ Len(fills) \in Nat
    BY <2>1
  <2>3. DOMAIN fills = 1..Len(fills) /\ DOMAIN fills' = 1..(Len(fills) - 1)
    BY <2>1, <2>2
  <2> PICK n \in Nat : n = Len(fills)
    BY <2>2
  <2>4. \A i \in DOMAIN fills : i # 1 => i \in Nat /\ i - 1 \in DOMAIN fills'
    BY <2>3
  <2>5. \A i \in DOMAIN fills' : i \in Nat \ {0}
    BY <2>3
  <2> QED
    BY <2>1, <2>4, <2>5, HeadTail
<1>2. /\ IsFiniteSet(Waiting(s)) /\ IsFiniteSet(T)
      /\ \A i \in DOMAIN fills : g[i] \in Int /\ g[i] = SignedFill(fills[i].order)
      /\ Waiting(s) \subseteq DOMAIN fills
  BY SharesAreNumbers, FS_RemoveElement
<1>3. IsFiniteSet(S) /\ S \subseteq DOMAIN fills'
  <2>1. S \subseteq DOMAIN fills'
    BY DEF Waiting
  <2>2. DOMAIN fills' \subseteq DOMAIN fills
    <3>1. fills \in Seq(FillType)
      BY DEF EngineInv, TypeOK, TickTypes
    <3> QED
      BY <3>1
  <2>3. IsFiniteSet(DOMAIN fills)
    <3>1. fills \in Seq(FillType)
      BY DEF EngineInv, TypeOK, TickTypes
    <3> PICK n \in Nat : DOMAIN fills = 1..n
      BY <3>1
    <3> QED
      BY FS_Interval
  <2> QED
    BY <2>1, <2>2, <2>3, FS_Subset
<1>4. \A i \in DOMAIN fills' : f[i] = g[i + 1]
  <2>1. \A i \in DOMAIN fills' : f[i] = SignedFill(fills'[i].order)
    BY DEF FilledShares, SignedFill
  <2> QED
    BY <1>1, <1>2, <2>1
<1> DEFINE p == [i \in S |-> i + 1]
<1>5. \A i \in S : p[i] \in T /\ f[i] = g[p[i]]
  <2>1. \A i \in S : i + 1 \in Waiting(s) /\ i + 1 # 1
    BY <1>1, <1>3 DEF Waiting
  <2> QED
    BY <1>3, <1>4, <2>1
<1>6. \A i, j \in S : p[i] = p[j] => i = j
  BY <1>1, <1>3
<1>7. \A k \in T : \E i \in S : p[i] = k
  <2> SUFFICES ASSUME NEW k \in T PROVE \E i \in S : p[i] = k
    OBVIOUS
  <2>1. k \in DOMAIN fills /\ k # 1
    BY <1>2
  <2> PICK i : i = k - 1
    OBVIOUS
  <2>2. i \in DOMAIN fills' /\ i + 1 = k
    BY <1>1, <2>1
  <2>3. fills'[i] = fills[k]
    BY <1>1, <2>2
  <2>4. i \in S
    BY <2>2, <2>3 DEF Waiting
  <2> QED
    BY <2>2, <2>4
<1> HIDE DEF p
<1>8. \A k \in T : g[k] \in Int
  BY <1>2
<1>9. SumOf(f, S) = SumOf(g, T)
  <2>1. IsFiniteSet(S) /\ IsFiniteSet(T)
    BY <1>2, <1>3
  <2>2. \A i \in S : p[i] \in T /\ f[i] = g[p[i]]
    BY <1>5
  <2> QED
    BY <1>6, <1>7, <1>8, <2>1, <2>2, SumMoved
<1>10. 1 \in Waiting(s) <=> s = orders[Head(fills).order].symbol
  BY <1>1 DEF Waiting
<1>11. 1 \notin Waiting(s) => T = Waiting(s)
  OBVIOUS
<1>12. 1 \in Waiting(s) => SumOf(g, Waiting(s)) = g[1] + SumOf(g, T)
  <2>1. \A i \in Waiting(s) : g[i] \in Int
    BY <1>2
  <2> QED
    BY <1>2, <2>1, SumSplit
<1>13. g[1] = SignedFill(Head(fills).order)
  BY <1>1, <1>2
<1>14. SumOf(g, T) \in Int
  BY <1>2, <1>8, SumIs
<1> QED
  BY <1>9, <1>10, <1>11, <1>12, <1>13, <1>14

\* The broker's fill adds the same to both sides.
LEMMA BalanceFilled ==
    ASSUME EngineInv, QueueInv, FillOrder, NEW s, Balanced(s)
    PROVE  Balanced(s)'
<1> DEFINE fill == [order |-> popped, price |-> FillPrice(orders[popped].side, tick.ltp)]
           new  == Len(fills) + 1
<1>1. /\ tpc = "fill" /\ fills' = Append(fills, fill) /\ CommitFill /\ UNCHANGED closing
  BY DEF FillOrder
<1>2. /\ popped \in DOMAIN orders /\ DOMAIN orders' = DOMAIN orders
      /\ orders'[popped].status = "FILLED"
      /\ orders'[popped].symbol = orders[popped].symbol
      /\ \A o \in DOMAIN orders : o # popped => orders'[o] = orders[o]
      /\ UNCHANGED positions
  BY <1>1, FillRow
<1>3. \A o \in DOMAIN orders : /\ orders'[o].symbol = orders[o].symbol
                               /\ Worth(orders'[o]) = SignedFill(o)
  <2>1. Kept
    BY <1>1, FillCommitted
  <2> QED
    BY <2>1 DEF Kept, SignedFill, Worth
<1>4. orders[popped].status = "PENDING"
  BY <1>1 DEF QueueInv
<1>5. fill.order = popped
  OBVIOUS
<1>6. /\ new \notin DOMAIN fills /\ DOMAIN fills' = DOMAIN fills \cup {new}
      /\ fills'[new] = fill /\ \A i \in DOMAIN fills : fills'[i] = fills[i]
  <2> HIDE DEF fill
  <2> QED
    BY <1>1 DEF EngineInv, TypeOK, TickTypes
<1> HIDE DEF fill, new
<1>7. SumOf(HeldShares', Held(s)') = SumOf(HeldShares, Held(s))
  <2>1. Held(s)' = Held(s)
    BY <1>1, <1>2 DEF Held
  <2> QED
    BY <1>2, <2>1, HeldSame
<1>8. /\ \A o \in DOMAIN orders : /\ BookedShares'[o] = SignedFill(o)
                                  /\ BookedShares[o] = SignedFill(o) /\ SignedFill(o) \in Int
      /\ \A i \in DOMAIN fills : /\ FilledShares'[i] = FilledShares[i]
                                 /\ FilledShares[i] \in Int
      /\ FilledShares'[new] = SignedFill(popped)
  <2>1. \A o \in DOMAIN orders : BookedShares'[o] = SignedFill(o)
    <3>1. \A o \in DOMAIN orders' : BookedShares'[o] = Worth(orders'[o])
      BY DEF BookedShares, SignedFill, Worth
    <3> QED
      BY <1>2, <1>3, <3>1
  <2>2. \A i \in DOMAIN fills' : FilledShares'[i] = Worth(orders'[fills'[i].order])
    BY DEF FilledShares, SignedFill, Worth
  <2>3. FilledShares'[new] = SignedFill(popped)
    BY <1>2, <1>3, <1>5, <1>6, <2>2
  <2>4. \A i \in DOMAIN fills : FilledShares'[i] = SignedFill(fills[i].order)
    BY <1>3, <1>6, <2>2, SharesAreNumbers
  <2> QED
    BY <2>1, <2>3, <2>4, SharesAreNumbers
<1>9. /\ IsFiniteSet(Traded(s)) /\ Traded(s) \subseteq DOMAIN orders
      /\ IsFiniteSet(Waiting(s)) /\ Waiting(s) \subseteq DOMAIN fills
      /\ popped \notin Traded(s) /\ new \notin Waiting(s)
  BY <1>4, <1>6, SharesAreNumbers DEF Traded
<1>10. \A i \in DOMAIN fills : fills[i].order \in DOMAIN orders
  BY SharesAreNumbers
<1>11. CASE s = orders[popped].symbol
  <2>1. Traded(s)' = Traded(s) \cup {popped}
    BY <1>2, <1>3, <1>11 DEF Traded
  <2>2. Waiting(s)' = Waiting(s) \cup {new}
    BY <1>2, <1>3, <1>5, <1>6, <1>10, <1>11 DEF Waiting
  <2> PICK f, g, S, T : f = BookedShares /\ g = BookedShares' /\ S = Traded(s) /\ T = Traded(s)'
    OBVIOUS
  <2>3. /\ \A o \in S : f[o] \in Int /\ g[o] = f[o]
        /\ g[popped] \in Int /\ g[popped] = SignedFill(popped)
    BY <1>2, <1>8, <1>9
  <2>4. SumOf(g, T) = SumOf(f, S) + g[popped] /\ SumOf(f, S) \in Int
    BY <1>9, <2>1, <2>3, SumMore
  <2> PICK h, k, U, V : h = FilledShares /\ k = FilledShares' /\ U = Waiting(s) /\ V = Waiting(s)'
    OBVIOUS
  <2>5. /\ \A i \in U : h[i] \in Int /\ k[i] = h[i]
        /\ k[new] \in Int /\ k[new] = SignedFill(popped)
    BY <1>2, <1>8, <1>9
  <2>6. SumOf(k, V) = SumOf(h, U) + k[new] /\ SumOf(h, U) \in Int
    BY <1>9, <2>2, <2>5, SumMore
  <2>7. SumOf(HeldShares, Held(s)) \in Int
    BY SharesAreNumbers, SumIs
  <2> QED
    BY <1>7, <2>3, <2>4, <2>5, <2>6, <2>7 DEF Balanced
<1>12. CASE s # orders[popped].symbol
  <2>1. Traded(s)' = Traded(s)
    BY <1>2, <1>3, <1>12 DEF Traded
  <2>2. Waiting(s)' = Waiting(s)
    BY <1>2, <1>3, <1>5, <1>6, <1>10, <1>12 DEF Waiting
  <2>3. SumOf(BookedShares', Traded(s)') = SumOf(BookedShares, Traded(s))
    BY <1>8, <1>9, <2>1, SumSame
  <2>4. SumOf(FilledShares', Waiting(s)') = SumOf(FilledShares, Waiting(s))
    BY <1>8, <1>9, <2>2, SumSame
  <2> QED
    BY <1>7, <2>3, <2>4 DEF Balanced
<1> QED
  BY <1>11, <1>12

\* Applying the fill of an entry moves its shares to a position, ...
LEMMA BalanceOpened ==
    ASSUME EngineInv, PlaceInv, SidesTraced, Undisturbed, OpenPosition,
           NEW s \in Symbols, Balanced(s)
    PROVE  Balanced(s)'
<1> DEFINE n   == Head(fills).order
           row == orders[n]
           id  == Len(positions) + 1
<1>1. /\ tpc = "open" /\ CommitOpen /\ fills # <<>> /\ fills' = Tail(fills)
      /\ UNCHANGED <<orders, closing>> /\ row.role = "entry"
  BY DEF OpenPosition, CommitOpen, EngineInv, TickLocals
<1>2. closing.id = 0
  BY <1>1 DEF PlaceInv
<1>3. n \in Entries
  BY <1>1, HeadTail DEF EngineInv, TypeOK, TickTypes, RowInv, Refs, Entries, IsEntry
<1>4. /\ id \in Nat \ DOMAIN positions /\ id # 0 /\ DOMAIN positions' = DOMAIN positions \cup {id}
      /\ positions'[id].symbol = row.symbol /\ ~positions'[id].closed
      /\ positions'[id].qty = Signed(signals[row.signal].direction, row.qty)
      /\ \A p \in DOMAIN positions : positions'[p] = positions[p]
  BY <1>1, OpenCommitted, OpenRow
<1>5. /\ positions'[id].qty = SignedFill(n) /\ SignedFill(n) \in Int
  <2>1. row.side = Side(signals[row.signal].direction)
    BY <1>3 DEF SidesTraced
  <2>2. Signed(signals[row.signal].direction, row.qty) = SignedFill(n)
    BY <2>1 DEF Signed, SignedFill, Side
  <2>3. n \in DOMAIN orders
    BY <1>3 DEF Entries
  <2> QED
    BY <1>4, <2>2, <2>3, SharesAreNumbers
<1> HIDE DEF id
<1>6. SumOf(BookedShares', Traded(s)') = SumOf(BookedShares, Traded(s))
  BY <1>1, TradedSame
<1>7. /\ s # row.symbol => SumOf(FilledShares', Waiting(s)') = SumOf(FilledShares, Waiting(s))
      /\ s = row.symbol => SumOf(FilledShares, Waiting(s))
                           = SignedFill(n) + SumOf(FilledShares', Waiting(s)')
      /\ SumOf(FilledShares', Waiting(s)') \in Int
  BY <1>1, WaitingTail
<1>8. CASE s = row.symbol
  <2>1. Held(s)' = Held(s) \cup {id} /\ id \notin Held(s)
    BY <1>1, <1>2, <1>4, <1>8 DEF Held
  <2> PICK h, k, U, V : h = HeldShares /\ k = HeldShares' /\ U = Held(s) /\ V = Held(s)'
    OBVIOUS
  <2>2. IsFiniteSet(U) /\ \A p \in U : h[p] \in Int /\ k[p] = h[p]
    BY <1>4, SharesAreNumbers DEF HeldShares
  <2>3. k[id] = SignedFill(n)
    BY <1>4, <1>5 DEF HeldShares
  <2>4. SumOf(k, V) = SumOf(h, U) + k[id] /\ SumOf(h, U) \in Int
    BY <1>5, <2>1, <2>2, <2>3, SumMore
  <2> QED
    BY <1>5, <1>6, <1>7, <1>8, <2>3, <2>4 DEF Balanced
<1>9. CASE s # row.symbol
  <2>1. Held(s)' = Held(s)
    BY <1>1, <1>4, <1>9 DEF Held
  <2>2. SumOf(HeldShares', Held(s)') = SumOf(HeldShares, Held(s))
    BY <1>4, <2>1, HeldSame
  <2> QED
    BY <1>6, <1>7, <1>9, <2>2 DEF Balanced
<1> QED
  BY <1>8, <1>9

\* ... that of an exit takes those of its position away.
LEMMA BalanceTaken ==
    ASSUME EngineInv, QueueInv, PlaceInv, FillsApply, Undisturbed, ApplyExit,
           NEW s \in Symbols, Balanced(s)
    PROVE  Balanced(s)'
<1>1. PICK o \in Exits, id \in DOMAIN open :
              /\ o = Head(fills).order /\ id = orders[o].position
              /\ fills # <<>> /\ fills' = Tail(fills)
              /\ UNCHANGED <<orders, positions>>
              /\ DOMAIN open' = DOMAIN open \ {id}
              /\ closing.id = 0 /\ closing'.id = id
              /\ \A p \in Exits : orders[p].position = id => p = o
  BY ExitApplies
<1>2. /\ id \in DOMAIN positions /\ ~positions[id].closed /\ id # 0
      /\ positions[id].symbol = orders[o].symbol
      /\ positions[id].qty = IF orders[o].side = "SELL" THEN orders[o].qty ELSE -orders[o].qty
  BY <1>1 DEF EngineInv, TypeOK, JournalTypes, EngineTypes, RowInv, ExitsMatchPositions, PlaceInv
<1>3. positions[id].qty = -SignedFill(o) /\ SignedFill(o) \in Int
  <2>1. o \in DOMAIN orders
    BY DEF Exits
  <2>2. orders[o] \in OrderType
    BY <2>1 DEF EngineInv, TypeOK, JournalTypes
  <2>3. orders[o].side \in {"BUY", "SELL"} /\ orders[o].qty \in Nat
    BY <2>2 DEF OrderType
  <2> QED
    BY <1>2, <2>3 DEF SignedFill
<1>4. SumOf(BookedShares', Traded(s)') = SumOf(BookedShares, Traded(s))
  BY <1>1, TradedSame
<1>5. /\ s # orders[o].symbol =>
            SumOf(FilledShares', Waiting(s)') = SumOf(FilledShares, Waiting(s))
      /\ s = orders[o].symbol =>
            SumOf(FilledShares, Waiting(s)) = SignedFill(o) + SumOf(FilledShares', Waiting(s)')
      /\ SumOf(FilledShares', Waiting(s)') \in Int
  BY <1>1, WaitingTail
<1>6. HeldShares' = HeldShares
  BY <1>1 DEF HeldShares
<1>7. CASE s = orders[o].symbol
  <2>1. Held(s)' = Held(s) \ {id} /\ id \in Held(s)
    <3>1. \A p \in DOMAIN positions : p # 0
      BY DEF EngineInv, TypeOK, JournalTypes
    <3> QED
      BY <1>1, <1>2, <1>7, <3>1 DEF Held
  <2> PICK h, U, V : h = HeldShares /\ U = Held(s) /\ V = Held(s)'
    OBVIOUS
  <2>2. IsFiniteSet(U) /\ \A p \in U : h[p] \in Int
    BY SharesAreNumbers
  <2>3. h[id] = -SignedFill(o)
    BY <1>2, <1>3 DEF HeldShares
  <2>4. SumOf(h, U) = h[id] + SumOf(h, V) /\ SumOf(h, V) \in Int
    <3>1. SumOf(h, U) = h[id] + SumOf(h, U \ {id}) /\ SumOf(h, U \ {id}) \in Int
      BY <2>1, <2>2, SumSplit
    <3> QED
      BY <2>1, <3>1
  <2> QED
    BY <1>3, <1>4, <1>5, <1>6, <1>7, <2>3, <2>4 DEF Balanced
<1>8. CASE s # orders[o].symbol
  <2>1. Held(s)' = Held(s)
    <3>1. \A p \in DOMAIN positions : p # 0
      BY DEF EngineInv, TypeOK, JournalTypes
    <3> QED
      BY <1>1, <1>2, <1>8, <3>1 DEF Held
  <2> QED
    BY <1>4, <1>5, <1>6, <1>8, <2>1 DEF Balanced
<1> QED
  BY <1>7, <1>8

\* The other steps touch no sum.
LEMMA BalanceKept ==
    ASSUME BookInv, [Next]_vars, Undisturbed',
           ~FillOrder, ~OpenPosition, ~ApplyExit, NEW s, Balanced(s)
    PROVE  Balanced(s)'
<1> USE DEF BookInv
<1>1. ASSUME UNCHANGED <<positions, closing, fills>>,
             DOMAIN orders \subseteq DOMAIN orders',
             \A o \in DOMAIN orders : orders'[o] = orders[o],
             \A o \in DOMAIN orders' \ DOMAIN orders : orders'[o].status = "PENDING"
      PROVE  Balanced(s)'
  <2>1. Held(s)' = Held(s)
    BY <1>1 DEF Held
  <2>2. SumOf(HeldShares', Held(s)') = SumOf(HeldShares, Held(s))
    BY <1>1, <2>1, HeldSame
  <2>3. SumOf(BookedShares', Traded(s)') = SumOf(BookedShares, Traded(s))
    BY <1>1, TradedSame
  <2>4. SumOf(FilledShares', Waiting(s)') = SumOf(FilledShares, Waiting(s))
    BY <1>1, WaitingSame
  <2> QED
    BY <2>2, <2>3, <2>4 DEF Balanced
<1>2. CASE Quiet
  BY <1>1, <1>2 DEF Quiet
<1>3. CASE PopOrder
  BY <1>1, <1>3 DEF PopOrder, journal
<1>4. CASE PlaceExit
  <2> PICK new : new = Len(orders) + 1
    OBVIOUS
  <2>1. tpc = "exitPlace" /\ CommitExit /\ UNCHANGED <<closing, fills>>
    BY <1>4 DEF PlaceExit
  <2>2. /\ DOMAIN orders' = DOMAIN orders \cup {new} /\ orders'[new].status = "PENDING"
        /\ \A o \in DOMAIN orders : orders'[o] = orders[o]
    BY <2>1, ExitRow
  <2>3. UNCHANGED positions
    BY <2>1 DEF CommitExit
  <2> QED
    BY <1>1, <2>1, <2>2, <2>3
<1>5. CASE PlaceEntry
  <2> PICK new : new = Len(orders) + 1
    OBVIOUS
  <2>1. bpc = "place" /\ CommitEntry /\ UNCHANGED <<closing, fills, positions>>
    BY <1>5 DEF PlaceEntry, CommitEntry, tickVars
  <2>2. /\ DOMAIN orders' = DOMAIN orders \cup {new} /\ orders'[new].status = "PENDING"
        /\ \A o \in DOMAIN orders : orders'[o] = orders[o]
    BY <2>1, EntryRow
  <2> QED
    BY <1>1, <2>1, <2>2
<1>6. CASE ClosePosition
  <2>1. tpc = "close" /\ CommitClose /\ UNCHANGED <<fills, orders>> /\ closing' = NoClosing
    BY <1>6 DEF ClosePosition, CommitClose
  <2>2. /\ closing.id \in DOMAIN positions /\ DOMAIN positions' = DOMAIN positions
        /\ positions'[closing.id].closed
        /\ positions'[closing.id].qty = positions[closing.id].qty
        /\ \A p \in DOMAIN positions : p # closing.id => positions'[p] = positions[p]
    BY <2>1, CloseRow
  <2>3. closing'.id = 0 /\ \A p \in DOMAIN positions : p # 0
    BY <2>1 DEF NoClosing, EngineInv, TypeOK, JournalTypes
  <2>4. Held(s)' = Held(s)
    BY <2>2, <2>3 DEF Held
  <2>5. SumOf(HeldShares', Held(s)') = SumOf(HeldShares, Held(s))
    BY <2>2, <2>4, HeldSame
  <2>6. SumOf(BookedShares', Traded(s)') = SumOf(BookedShares, Traded(s))
    BY <2>1, TradedSame
  <2>7. SumOf(FilledShares', Waiting(s)') = SumOf(FilledShares, Waiting(s))
    BY <2>1, WaitingSame
  <2> QED
    BY <2>5, <2>6, <2>7 DEF Balanced
<1>7. ~(TickFault \/ BarFault \/ Restart)
  <2>1. TickFault \/ BarFault => faults' = faults + 1
    BY DEF TickFault, BarFault
  <2>2. Restart => restarts' = restarts + 1
    BY DEF Restart
  <2> QED
    BY <2>1, <2>2 DEF Undisturbed, EngineInv, TypeOK, ControlTypes
<1> QED
  BY <1>2, <1>3, <1>4, <1>5, <1>6, <1>7, QuietOrLoud DEF Loud

\* A process that was disturbed stays so.
LEMMA DisturbedStays ==
    ASSUME EngineInv, [Next]_vars, Undisturbed'
    PROVE  Undisturbed
<1>1. CASE Quiet
  BY <1>1 DEF Quiet
<1>2. CASE \/ PopOrder \/ FillOrder \/ OpenPosition \/ ApplyExit \/ ClosePosition
           \/ PlaceExit \/ PlaceEntry
  BY <1>2 DEF Undisturbed, PopOrder, FillOrder, OpenPosition, ApplyExit, ClosePosition,
              PlaceExit, PlaceEntry, envVars
<1>3. ~(TickFault \/ BarFault \/ Restart)
  <2>1. TickFault \/ BarFault => faults' = faults + 1
    BY DEF TickFault, BarFault
  <2>2. Restart => restarts' = restarts + 1
    BY DEF Restart
  <2> QED
    BY <2>1, <2>2 DEF Undisturbed, EngineInv, TypeOK, ControlTypes
<1> QED
  BY <1>1, <1>2, <1>3, QuietOrLoud DEF Loud

LEMMA SharesStep == ASSUME BookInv, SharesInv, [Next]_vars, BookInv' PROVE SharesInv'
<1> SUFFICES ASSUME Undisturbed' PROVE (FillsApply /\ SidesTraced /\ SharesConserved)'
  BY DEF SharesInv
<1>1. EngineInv /\ QueueInv /\ PlaceInv /\ EngineInv'
  BY DEF BookInv
<1>2. Undisturbed
  BY <1>1, DisturbedStays
<1>3. FillsApply /\ SidesTraced /\ \A s \in Symbols : Balanced(s)
  BY <1>1, <1>2, SharesBalanced DEF SharesInv
<1>4. FillsApply' /\ SidesTraced'
  BY <1>1, <1>3, FillsStep, SidesStep
<1>5. ASSUME NEW s \in Symbols PROVE Balanced(s)'
  <2>1. Balanced(s)
    BY <1>3
  <2> QED
    BY <1>1, <1>2, <1>3, <2>1, BalanceFilled, BalanceOpened, BalanceTaken, BalanceKept
<1>6. SharesConserved'
  <2>1. EngineInv' => (SharesConserved <=> (Undisturbed => \A s \in Symbols : Balanced(s)))'
    BY SharesBalanced, PTL
  <2> QED
    BY <1>1, <1>5, <2>1
<1> QED
  BY <1>4, <1>6

\* Shares are conserved between the fills of a symbol's orders, the positions in
\* the journal and the fills still to be applied, in every interleaving of the
\* two coroutines (PaperBroker.on_tick, _apply_fill, _open_position,
\* _close_position).
THEOREM SharesCorrect == Spec => []SharesConserved
<1>1. Init => SharesInv
  <2> SUFFICES ASSUME Init PROVE FillsApply /\ SidesTraced /\ SharesConserved
    BY DEF SharesInv
  <2>1. FillsApply /\ SidesTraced
    BY DEF Init, FillsApply, SidesTraced, Exits, Entries
  <2>2. EngineInv
    BY InitInv
  <2>3. ASSUME NEW s PROVE Balanced(s)
    <3>1. Traded(s) = {} /\ Held(s) = {} /\ Waiting(s) = {}
      BY DEF Init, Traded, Held, Waiting
    <3>2. \A f : SumOf(f, {}) = 0
      BY SumEmpty
    <3> QED
      BY <3>1, <3>2 DEF Balanced
  <2> QED
    BY <2>1, <2>2, <2>3, SharesBalanced
<1>2. BookInv /\ SharesInv /\ [Next]_vars /\ BookInv' => SharesInv'
  BY SharesStep
<1>3. BookInv /\ SharesInv => SharesConserved
  BY DEF SharesInv, SharesConserved
<1> QED
  BY <1>1, <1>2, <1>3, BookInvariant, PTL DEF Spec
=============================================================================
