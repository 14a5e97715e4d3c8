------------------------- MODULE EngineEntryProofs -------------------------
(***************************************************************************)
(* The strategy signals a symbol once a day, the engine checks a snapshot    *)
(* that is several awaits old when the order goes out: proofs that each      *)
(* symbol still gets one entry at most, that index and positions agree, and  *)
(* that the day's limits hold, for every set of symbols, prices, signals and *)
(* limits, and any number of restarts and of failing awaits.                 *)
(***************************************************************************)
EXTENDS EngineBookProofs, FiniteSetTheorems

Live == {"regime", "block", "pretrade", "persist", "place"}
EntrySymbols == {orders[o].symbol : o \in Entries}

\* A symbol gets one entry, and none while its signal is worked on.
OnePerSymbol ==
    /\ \A o, p \in Entries : orders[o].symbol = orders[p].symbol => o = p
    /\ EntrySymbols \subseteq signalled
    /\ bpc \in Live => job.symbol \in signalled \ EntrySymbols

\* What the engine holds in a symbol stems from that entry, whose fill it has
\* applied: no other fill will open a second position there.
HeldByEntry ==
    /\ \A i, j \in DOMAIN fills : fills[i].order = fills[j].order => i = j
    /\ \A id \in DOMAIN open : \E o \in Entries :
          /\ orders[o].symbol = open[id].symbol
          /\ orders[o].status = "FILLED"
          /\ \A i \in DOMAIN fills : fills[i].order # o
    /\ IndexAgrees
    /\ tpc = "close" => closing.symbol \in EntrySymbols
    /\ stoppedOut \subseteq EntrySymbols

\* The counter is the journal's for as long as a signal can come: it is lost in
\* a restart only when the strategy is blind from then on.
TradesCounted ==
    /\ bpc \in Live => armed /\ clock >= ORWindowEnd /\ job.snap.trades = tradesToday
    /\ bpc \in {"pretrade", "persist", "place"} => job.snap.trades < MaxTrades
    /\ Entries # {} => clock >= ORWindowEnd
    /\ armed /\ bpc # "dead" => tradesToday = Cardinality(Entries)
    /\ EntriesPerDay

\* What became of each signal.
SignalTraced ==
    /\ bpc = "idle" => job.symbol = "none"
    /\ \A b, c \in blocks : b.symbol = c.symbol => b = c
    /\ \A b \in blocks : /\ b.symbol \in signalled \ EntrySymbols
                         /\ bpc \in Live => b.symbol # job.symbol
    /\ Undisturbed =>
          /\ bpc # "dead"
          /\ \A s \in signalled : \/ bpc \in Live /\ job.symbol = s
                                  \/ s \in EntrySymbols
                                  \/ \E b \in blocks : b.symbol = s

\* The inductive invariant.
EntryInv == BookInv /\ OnePerSymbol /\ HeldByEntry /\ TradesCounted /\ SignalTraced

-----------------------------------------------------------------------------
\* What a step may do to the entries.

EntriesGrow ==
    /\ Entries \subseteq Entries'
    /\ \A o \in Entries : /\ orders'[o].symbol = orders[o].symbol
                          /\ orders[o].status = "FILLED" => orders'[o].status = "FILLED"

\* The order `new' of on_signal's job is on record, whether the consumer lives or
\* died in the await.
Adds(new) ==
    /\ bpc = "place" /\ CommitEntry /\ (PlaceEntry \/ BarFault)
    /\ new \notin DOMAIN orders
    /\ Entries' = Entries \cup {new}
    /\ orders'[new].symbol = job.symbol

LEMMA EntriesMove ==
    ASSUME EngineInv, [Next]_vars
    PROVE  /\ EntriesGrow
           /\ Entries' = Entries \/ \E new \in Nat : Adds(new)
<1> DEFINE Goal == EntriesGrow /\ (Entries' = Entries \/ \E new \in Nat : Adds(new))
<1>1. ASSUME UNCHANGED orders PROVE Goal
  BY <1>1 DEF EntriesGrow, Entries, IsEntry
<1>2. ASSUME tpc = "fill" /\ CommitFill PROVE Goal
  BY <1>2, FillRow DEF EntriesGrow, Entries, IsEntry
<1>3. ASSUME tpc = "exitPlace" /\ CommitExit PROVE Goal
  BY <1>3, ExitRow DEF EntriesGrow, Entries, IsEntry
<1>4. ASSUME bpc = "place" /\ CommitEntry /\ (PlaceEntry \/ BarFault) PROVE Goal
  <2>1. PICK new \in Nat : new = Len(orders) + 1
    BY DEF EngineInv, TypeOK, JournalTypes
  <2>2. /\ new \notin DOMAIN orders /\ DOMAIN orders' = DOMAIN orders \cup {new}
        /\ orders'[new].role = "entry" /\ orders'[new].symbol = job.symbol
        /\ \A o \in DOMAIN orders : orders'[o] = orders[o]
    BY <1>4, <2>1, EntryRow
  <2>3. EntriesGrow /\ Entries' = Entries \cup {new}
    BY <2>2 DEF EntriesGrow, Entries, IsEntry
  <2> QED
    BY <1>4, <2>2, <2>3 DEF Adds
<1> HIDE DEF Goal
<1>5. CASE Quiet \/ PopOrder \/ OpenPosition \/ ApplyExit \/ ClosePosition \/ Restart
  BY <1>1, <1>5 DEF Goal, Quiet, PopOrder, OpenPosition, CommitOpen, ApplyExit, ClosePosition,
                    CommitClose, Restart, journal
<1>6. CASE FillOrder \/ PlaceExit \/ PlaceEntry \/ (BarFault /\ bpc = "place" /\ CommitEntry)
  BY <1>2, <1>3, <1>4, <1>6 DEF Goal, FillOrder, PlaceExit, PlaceEntry
<1>7. CASE TickFault
  <2>1. \/ UNCHANGED orders
        \/ tpc = "fill" /\ CommitFill
        \/ tpc = "exitPlace" /\ CommitExit
    <3>1. (CommitOpen \/ CommitClose \/ UNCHANGED journal) => UNCHANGED orders
      BY DEF CommitOpen, CommitClose, journal
    <3> QED
      BY <1>7, <3>1, Zenon DEF TickFault
  <2>2. Goal
    BY <1>1, <1>2, <1>3, <2>1
  <2> QED
    BY <2>2 DEF Goal
<1> QED
  BY <1>5, <1>6, <1>7, QuietOrLoud DEF Loud

-----------------------------------------------------------------------------
\* What a step may do to the bar consumer.

BarStill ==
    /\ UNCHANGED <<bpc, job, signalled, armed, tradesToday, blocks>>
    /\ clock' >= clock
    /\ Undisturbed' => Undisturbed

BarVets ==
    /\ bpc \in {"regime", "pretrade", "persist"} /\ bpc' \in Live
    /\ job'.symbol = job.symbol /\ job'.snap = job.snap
    /\ UNCHANGED <<signalled, armed, tradesToday, blocks, clock, faults, restarts>>
    /\ bpc' \in {"pretrade", "persist", "place"} =>
          bpc \in {"pretrade", "persist"} \/ job.snap.trades < MaxTrades

\* check_all lets a signal pass only below the day's number of trades.
LEMMA TradesChecked ==
    ASSUME NEW snap, NEW symbol, NEW regime, NEW age, NEW flag,
           Passes(snap, symbol, regime, age, flag), snap.trades \in Nat
    PROVE  snap.trades < MaxTrades
<1>1. "max_trades_per_day_reached" \in Reasons
  <2>1. 4 \in 1..10 /\ Priority[4] = "max_trades_per_day_reached"
    BY DEF Priority
  <2> QED
    BY <2>1 DEF Reasons
<1>2. ~Tripped(snap, symbol, regime, age, flag)["max_trades_per_day_reached"]
  BY <1>1 DEF Passes
<1>3. ~(snap.trades >= MaxTrades)
  BY <1>2, Zenon DEF Tripped
<1> QED
  BY <1>3, RiskAssumption

LEMMA BarMoves ==
    ASSUME EngineInv, bpc = "regime" => job.snap.trades \in Nat, [Next]_vars
    PROVE  \/ BarStill \/ BarVets \/ PlaceEntry \/ LogRiskBlock \/ BarFault \/ Restart
           \/ \E sig \in SignalSpace, close \in 0..MaxClock : OnSignal(sig, close)
<1> USE DEF journal, memory, tickVars, barVars, envVars, Undisturbed
<1>0. clock \in Nat
  BY DEF EngineInv, TypeOK, ControlTypes
<1>1. CASE \E s \in Symbols : TickOf(s)
  <2>1. PICK s \in Symbols, ltp \in Prices, ts \in 0..MaxClock : OnTick(s, ltp, ts)
    BY <1>1 DEF TickOf
  <2>2. clock' >= clock
    BY <1>0, <2>1, EngineAssumption DEF OnTick
  <2> QED
    BY <2>1, <2>2 DEF OnTick, BarStill
<1>2. CASE TickStep
  BY <1>0, <1>2, SMTT(30) DEF TickStep, PopOrder, FillOrder, CommitFill, Drained, ApplyEntry,
     OpenPosition, CommitOpen, ApplyExit, ClosePosition, CommitClose, Applied, Hold,
     TriggerExit, PlaceExit, CommitExit, RefreshUnrealised, BarStill
<1>3. CASE Kill
  BY <1>0, <1>3 DEF Kill, BarStill
<1>4. CASE TickFault
  <2>1. faults' = faults + 1 /\ faults \in Nat
    BY <1>4 DEF TickFault, EngineInv, TypeOK, ControlTypes
  <2>2. ~Undisturbed'
    BY <2>1
  <2> HIDE DEF Undisturbed
  <2> QED
    BY <1>0, <1>4, <2>2 DEF TickFault, CommitFill, CommitOpen, CommitClose, CommitExit,
                            BarStill
<1>5. CASE UNCHANGED vars
  BY <1>0, <1>5 DEF vars, BarStill
<1>6. CASE BarStep
  <2>1. bpc \in Live => IsJob(job)
    BY DEF EngineInv, BarLocals, Live
  <2>2. IsJob(job) => /\ \A reason : /\ Because(job, reason).symbol = job.symbol
                                     /\ Because(job, reason).snap = job.snap
                      /\ \A qty : /\ ForQty(job, qty).symbol = job.symbol
                                  /\ ForQty(job, qty).snap = job.snap
                      /\ \A id : /\ AsRow(job, id).symbol = job.symbol
                                 /\ AsRow(job, id).snap = job.snap
    BY DEF IsJob, Because, ForQty, AsRow
  <2>3. CASE \E regime \in Regimes, age \in FeedAges : RejectSignal(regime, age)
    BY <2>1, <2>2, <2>3 DEF RejectSignal, BarVets, Live
  <2>4. CASE \E regime \in Regimes, age \in FeedAges : AcceptSignal(regime, age)
    <3>1. PICK regime \in Regimes, age \in FeedAges : AcceptSignal(regime, age)
      BY <2>4
    <3>2. bpc = "regime" /\ Passes(job.snap, job.symbol, regime, age, killed)
      BY <3>1 DEF AcceptSignal
    <3>3. job.snap.trades < MaxTrades
      BY <3>2, TradesChecked
    <3>4. /\ job' = ForQty(job, Sized.qty) /\ bpc' \in {"pretrade", "persist"}
          /\ UNCHANGED <<journal, memory, pending, tickVars, envVars>>
      BY <3>1 DEF AcceptSignal
    <3> QED
      BY <2>1, <2>2, <3>2, <3>3, <3>4 DEF BarVets, Live
  <2>5. CASE PretradeProceed \/ PretradeSkip
    BY <2>1, <2>2, <2>5 DEF PretradeProceed, PretradeSkip, BarVets, Live
  <2>6. CASE \E m \in SizeMultipliers : PretradeReduce(m)
    BY <2>1, <2>2, <2>6 DEF PretradeReduce, BarVets, Live
  <2>7. CASE PersistSignal
    BY <2>1, <2>2, <2>7 DEF PersistSignal, CommitSignal, BarVets, Live
  <2> QED
    BY <1>6, <2>3, <2>4, <2>5, <2>6, <2>7 DEF BarStep
<1> QED
  BY <1>1, <1>2, <1>3, <1>4, <1>5, <1>6 DEF Next

\* The handover of a signal: on_signal works on it, for a symbol not signalled.
LEMMA SignalTaken ==
    ASSUME EngineInv, NEW sig \in SignalSpace, NEW close \in 0..MaxClock, OnSignal(sig, close)
    PROVE  /\ bpc = "idle" /\ bpc' = "regime" /\ armed
           /\ job'.symbol = sig.symbol /\ job'.snap.trades = tradesToday
           /\ sig.symbol \notin signalled /\ signalled' = signalled \cup {sig.symbol}
           /\ clock >= ORWindowEnd
           /\ UNCHANGED <<orders, blocks, tradesToday, armed, clock, faults, restarts>>
<1>1. /\ bpc = "idle" /\ bpc' = "regime" /\ armed
      /\ sig.symbol \notin signalled /\ signalled' = signalled \cup {sig.symbol}
      /\ UNCHANGED <<orders, blocks, tradesToday, armed, clock, faults, restarts>>
  BY DEF OnSignal, NotSignalled, journal, memory
<1>2. close \in ORWindowEnd..clock /\ clock \in Nat
  BY DEF OnSignal, EngineInv, TypeOK, ControlTypes
<1>3. job'.symbol = sig.symbol /\ job'.snap = Snapshot(close)
  BY DEF OnSignal
<1>4. Snapshot(close).trades = tradesToday
  BY DEF Snapshot
<1> QED
  BY <1>1, <1>2, <1>3, <1>4, EngineAssumption

\* The ends of a job.
LEMMA JobEnds ==
    ASSUME PlaceEntry \/ LogRiskBlock \/ BarFault \/ Restart
    PROVE  /\ bpc' \in {"idle", "dead"} /\ bpc' \notin Live
           /\ bpc' = "idle" => job'.symbol = "none"
           /\ UNCHANGED signalled
<1>1. bpc' \in {"idle", "dead"} /\ (bpc' = "idle" => job' = NoJob) /\ UNCHANGED signalled
  BY DEF PlaceEntry, LogRiskBlock, BarFault, Restart, envVars
<1> QED
  BY <1>1 DEF Live, NoJob

-----------------------------------------------------------------------------
\* One entry per symbol

LEMMA OnePerSymbolStep ==
    ASSUME EngineInv, OnePerSymbol, TradesCounted, [Next]_vars
    PROVE  OnePerSymbol'
<1>1. EntriesGrow /\ (Entries' = Entries \/ \E new \in Nat : Adds(new))
  BY EntriesMove
<1>2. CASE Entries' = Entries
  <2>1. /\ \A o, p \in Entries' : orders'[o].symbol = orders'[p].symbol => o = p
        /\ EntrySymbols' = EntrySymbols
    BY <1>1, <1>2 DEF OnePerSymbol, EntrySymbols, EntriesGrow
  <2>2. CASE BarStill
    BY <2>1, <2>2 DEF OnePerSymbol, BarStill
  <2>3. CASE BarVets
    BY <2>1, <2>3 DEF OnePerSymbol, BarVets, Live
  <2>4. CASE \E sig \in SignalSpace, close \in 0..MaxClock : OnSignal(sig, close)
    <3>1. PICK sig \in SignalSpace, close \in 0..MaxClock : OnSignal(sig, close)
      BY <2>4
    <3> QED
      BY <2>1, <3>1, SignalTaken DEF OnePerSymbol
  <2>5. CASE PlaceEntry \/ LogRiskBlock \/ BarFault \/ Restart
    BY <2>1, <2>5, JobEnds DEF OnePerSymbol
  <2>6. bpc = "regime" => job.snap.trades \in Nat
    BY DEF TradesCounted, Live, EngineInv, TypeOK, EngineTypes
  <2> QED
    BY <2>2, <2>3, <2>4, <2>5, <2>6, BarMoves
<1>3. CASE \E new \in Nat : Adds(new)
  <2>1. PICK new \in Nat : Adds(new)
    BY <1>3
  <2>2. /\ bpc' \notin Live /\ UNCHANGED signalled
        /\ new \notin Entries /\ Entries' = Entries \cup {new}
        /\ orders'[new].symbol = job.symbol
        /\ job.symbol \in signalled \ EntrySymbols
    BY <2>1, JobEnds DEF Adds, OnePerSymbol, Live, Entries
  <2>3. \A o \in Entries : orders'[o].symbol = orders[o].symbol /\ orders[o].symbol \in EntrySymbols
    BY <1>1 DEF EntriesGrow, EntrySymbols
  <2>4. EntrySymbols' = EntrySymbols \cup {job.symbol}
    BY <2>2, <2>3 DEF EntrySymbols
  <2>5. \A o, p \in Entries' : orders'[o].symbol = orders'[p].symbol => o = p
    BY <2>2, <2>3 DEF OnePerSymbol
  <2> QED
    BY <2>2, <2>4, <2>5 DEF OnePerSymbol
<1> QED
  BY <1>1, <1>2, <1>3

-----------------------------------------------------------------------------
\* The trades of the day

LEMMA EntriesFinite ==
    ASSUME EngineInv
    PROVE  IsFiniteSet(Entries) /\ Cardinality(Entries) \in Nat
<1>1. DOMAIN orders = 1..Len(orders) /\ Len(orders) \in Nat
  BY DEF EngineInv, TypeOK, JournalTypes
<1>2. IsFiniteSet(1..Len(orders))
  BY <1>1, FS_Interval
<1>3. Entries \in SUBSET (1..Len(orders))
  BY <1>1 DEF Entries
<1> QED
  BY <1>2, <1>3, FS_Subset, FS_CardinalityType

LEMMA TradesStep ==
    ASSUME EngineInv, TradesCounted, [Next]_vars
    PROVE  TradesCounted'
<1>1. EntriesGrow /\ (Entries' = Entries \/ \E new \in Nat : Adds(new))
  BY EntriesMove
<1>2. bpc = "regime" => job.snap.trades \in Nat
  BY DEF TradesCounted, Live, EngineInv, TypeOK, EngineTypes
<1>3. clock \in Nat /\ ORWindowEnd \in Nat /\ tradesToday \in Nat /\ armed \in BOOLEAN
  BY EngineAssumption DEF EngineInv, TypeOK, ControlTypes, EngineTypes
<1>4. CASE Entries' = Entries
  <2>1. EntriesPerDay' /\ Cardinality(Entries)' = Cardinality(Entries)
    BY <1>4 DEF TradesCounted, EntriesPerDay
  <2>2. CASE BarStill
    <3>1. clock' \in Nat /\ (clock >= ORWindowEnd => clock' >= ORWindowEnd)
      BY <1>3, <2>2, NextInv DEF BarStill, EngineInv, TypeOK, ControlTypes
    <3> QED
      BY <1>4, <2>1, <2>2, <3>1 DEF TradesCounted, BarStill
  <2>3. CASE BarVets
    BY <1>4, <2>1, <2>3 DEF TradesCounted, BarVets, Live
  <2>4. CASE \E sig \in SignalSpace, close \in 0..MaxClock : OnSignal(sig, close)
    <3>1. PICK sig \in SignalSpace, close \in 0..MaxClock : OnSignal(sig, close)
      BY <2>4
    <3> QED
      BY <1>4, <2>1, <3>1, SignalTaken DEF TradesCounted
  <2>5. CASE Restart
    <3>1. /\ bpc' = "idle" /\ tradesToday' = 0 /\ clock' = clock
          /\ armed' => clock < ORWindowEnd
      BY <2>5 DEF Restart, StillArmed
    <3>2. armed' => Entries = {}
      BY <1>3, <3>1 DEF TradesCounted
    <3> QED
      BY <1>4, <2>1, <3>1, <3>2, FS_EmptySet DEF TradesCounted, Live
  <2>6. CASE BarFault
    <3>1. bpc' = "dead" /\ clock' = clock
      BY <2>6 DEF BarFault
    <3> QED
      BY <1>4, <2>1, <3>1 DEF TradesCounted, Live
  <2>7. CASE LogRiskBlock
    <3>1. bpc = "block" /\ bpc' = "idle" /\ UNCHANGED <<clock, armed, tradesToday>>
      BY <2>7 DEF LogRiskBlock, memory, envVars
    <3> QED
      BY <1>4, <2>1, <3>1 DEF TradesCounted, Live
  <2>8. CASE PlaceEntry
    <3>1. bpc = "place" /\ CommitEntry
      BY <2>8 DEF PlaceEntry
    <3>2. Len(orders) + 1 \in Entries' /\ Len(orders) + 1 \notin Entries
      BY <3>1, EntryRow DEF Entries, IsEntry
    <3> QED
      BY <1>4, <3>2
  <2> QED
    BY <1>2, <2>2, <2>3, <2>4, <2>5, <2>6, <2>7, <2>8, BarMoves
<1>5. CASE \E new \in Nat : Adds(new)
  <2>1. PICK new \in Nat : Adds(new)
    BY <1>5
  <2>2. /\ bpc = "place" /\ new \notin Entries /\ Entries' = Entries \cup {new}
        /\ PlaceEntry \/ BarFault
    BY <2>1 DEF Adds, Entries
  <2>3. /\ armed /\ clock >= ORWindowEnd /\ tradesToday < MaxTrades
        /\ tradesToday = Cardinality(Entries)
    BY <2>2 DEF TradesCounted, Live
  <2>4. Cardinality(Entries') = Cardinality(Entries) + 1
    BY <2>2, EntriesFinite, FS_AddElement
  <2>5. clock' = clock
    BY <2>2 DEF PlaceEntry, BarFault, envVars
  <2>6. EntriesPerDay'
    BY <1>3, <2>3, <2>4, RiskAssumption DEF EntriesPerDay
  <2>7. bpc' \notin Live /\ bpc' \in {"idle", "dead"}
    BY <2>2, JobEnds
  <2>8. bpc' # "dead" => tradesToday' = Cardinality(Entries')
    BY <2>2, <2>3, <2>4 DEF PlaceEntry, BarFault
  <2> QED
    BY <2>3, <2>5, <2>6, <2>7, <2>8 DEF TradesCounted, Live
<1> QED
  BY <1>1, <1>4, <1>5

-----------------------------------------------------------------------------
\* What the engine holds

\* A step that leaves the engine's picture of its positions as it was.
HoldsStill ==
    /\ DOMAIN open' = DOMAIN open
    /\ \A id \in DOMAIN open : open'[id].symbol = open[id].symbol
    /\ UNCHANGED <<openBySymbol, fills, stoppedOut>>
    /\ tpc' = "close" => tpc = "close" /\ UNCHANGED closing

LEMMA HoldMoves ==
    ASSUME EngineInv, [Next]_vars
    PROVE  HoldsStill \/ FillOrder \/ OpenPosition \/ ApplyExit \/ ClosePosition \/ Restart
<1>1. stoppedOut' = stoppedOut \/ ClosePosition \/ Restart
  <2> USE DEF journal, memory, tickVars, barVars, envVars
  <2>1. CASE (\E s \in Symbols : TickOf(s)) \/ TickStep
    BY <2>1 DEF TickOf, OnTick, TickStep, PopOrder, FillOrder, Drained, ApplyEntry,
       OpenPosition, ApplyExit, Applied, Hold, TriggerExit, PlaceExit, RefreshUnrealised
  <2>2. CASE (\E sig \in SignalSpace, close \in 0..MaxClock : OnSignal(sig, close)) \/ BarStep
    BY <2>2 DEF OnSignal, BarStep, RejectSignal, AcceptSignal, PretradeProceed,
       PretradeSkip, PretradeReduce, PersistSignal, PlaceEntry, LogRiskBlock
  <2>3. CASE Kill \/ TickFault \/ BarFault \/ Restart \/ UNCHANGED vars
    BY <2>3 DEF Kill, TickFault, BarFault, vars
  <2> QED
    BY <2>1, <2>2, <2>3 DEF Next
<1>2. CASE Quiet /\ stoppedOut' = stoppedOut
  BY <1>2 DEF Quiet, HoldsStill
<1>3. CASE PopOrder \/ PlaceEntry
  BY <1>3 DEF PopOrder, PlaceEntry, HoldsStill, memory, tickVars
<1>4. CASE PlaceExit
  <2>1. /\ open' = [open EXCEPT ![openBySymbol[tick.symbol]] = Marked(@)]
        /\ open \in [DOMAIN open -> OpenType]
        /\ UNCHANGED <<openBySymbol, fills, stoppedOut>> /\ tpc' = "refresh"
    BY <1>4 DEF PlaceExit, EngineInv, TypeOK, EngineTypes
  <2>2. \A id \in DOMAIN open : Marked(open[id]).symbol = open[id].symbol
    BY <2>1, Updates
  <2> QED
    BY <2>1, <2>2 DEF HoldsStill
<1>5. CASE TickFault \/ (BarFault /\ bpc = "place" /\ CommitEntry)
  BY <1>5 DEF TickFault, BarFault, HoldsStill, memory, tickVars
<1> QED
  BY <1>1, <1>2, <1>3, <1>4, <1>5, QuietOrLoud DEF Loud

\* The engine's index, as EngineInv has it and as HeldByEntry adds to it.
LEMMA IndexHalf ==
    EngineInv => \A s \in DOMAIN openBySymbol :
                    openBySymbol[s] \in DOMAIN open /\ open[openBySymbol[s]].symbol = s
BY DEF EngineInv, RowInv, OpenMatchesRows

LEMMA HeldStill ==
    ASSUME EngineInv, HeldByEntry, HoldsStill, EntriesGrow
    PROVE  HeldByEntry'
<1>1. EntrySymbols \subseteq EntrySymbols'
  BY DEF EntriesGrow, EntrySymbols
<1>2. ASSUME NEW id \in DOMAIN open'
      PROVE  \E o \in Entries' : /\ orders'[o].symbol = open'[id].symbol
                                 /\ orders'[o].status = "FILLED"
                                 /\ \A i \in DOMAIN fills' : fills'[i].order # o
  <2>1. PICK o \in Entries : /\ orders[o].symbol = open[id].symbol
                             /\ orders[o].status = "FILLED"
                             /\ \A i \in DOMAIN fills : fills[i].order # o
    BY <1>2 DEF HeldByEntry, HoldsStill
  <2> QED
    BY <1>2, <2>1 DEF HoldsStill, EntriesGrow
<1>3. IndexAgrees'
  BY DEF HeldByEntry, IndexAgrees, HoldsStill
<1>4. tpc' = "close" => closing'.symbol \in EntrySymbols'
  BY <1>1 DEF HeldByEntry, HoldsStill
<1> QED
  BY <1>1, <1>2, <1>3, <1>4 DEF HeldByEntry, HoldsStill

\* The broker fills an order that no fill is of.
LEMMA HeldFilled ==
    ASSUME EngineInv, QueueInv, HeldByEntry, FillOrder, EntriesGrow, Entries' = Entries
    PROVE  HeldByEntry'
<1> DEFINE n == popped
           f == [order |-> n, price |-> FillPrice(orders[n].side, tick.ltp)]
<1>1. /\ tpc = "fill" /\ tpc' = "drain" /\ fills' = Append(fills, f)
      /\ UNCHANGED <<open, openBySymbol, stoppedOut>> /\ fills \in Seq(FillType)
      /\ f.order = n
  BY DEF FillOrder, memory, EngineInv, TypeOK, TickTypes
<1>2. orders[n].status = "PENDING"
  BY <1>1 DEF QueueInv
<1> HIDE DEF f, n
<1>3. PICK m \in Nat : /\ m \notin DOMAIN fills /\ DOMAIN fills' = DOMAIN fills \cup {m}
                       /\ fills'[m] = f /\ \A i \in DOMAIN fills : fills'[i] = fills[i]
  <2>1. Len(fills) + 1 \in Nat
    BY <1>1
  <2> QED
    BY <1>1, <2>1
<1>4. \A i \in DOMAIN fills : fills[i].order # n
  BY <1>2 DEF QueueInv
<1>5. \A i, j \in DOMAIN fills' : fills'[i].order = fills'[j].order => i = j
  BY <1>1, <1>3, <1>4 DEF HeldByEntry
<1>6. ASSUME NEW id \in DOMAIN open'
      PROVE  \E o \in Entries' : /\ orders'[o].symbol = open'[id].symbol
                                 /\ orders'[o].status = "FILLED"
                                 /\ \A i \in DOMAIN fills' : fills'[i].order # o
  <2>1. PICK o \in Entries : /\ orders[o].symbol = open[id].symbol
                             /\ orders[o].status = "FILLED"
                             /\ \A i \in DOMAIN fills : fills[i].order # o
    BY <1>1, <1>6 DEF HeldByEntry
  <2>2. o # n
    BY <1>2, <2>1
  <2>3. \A i \in DOMAIN fills' : fills'[i].order # o
    BY <1>1, <1>3, <2>1, <2>2
  <2> QED
    BY <1>1, <2>1, <2>3 DEF EntriesGrow
<1>7. EntrySymbols \subseteq EntrySymbols'
  BY DEF EntriesGrow, EntrySymbols
<1>8. IndexAgrees'
  BY <1>1 DEF HeldByEntry, IndexAgrees
<1> QED
  BY <1>1, <1>5, <1>6, <1>7, <1>8 DEF HeldByEntry

\* The tail of the fills.
LEMMA FillsTail ==
    ASSUME EngineInv, HeldByEntry, fills # <<>>, fills' = Tail(fills)
    PROVE  /\ \A i \in DOMAIN fills' : \E j \in DOMAIN fills : fills'[i] = fills[j]
           /\ \A i \in DOMAIN fills' : fills'[i].order # Head(fills).order
           /\ \A i, j \in DOMAIN fills' : fills'[i].order = fills'[j].order => i = j
           /\ Head(fills).order \in DOMAIN orders
           /\ \E j \in DOMAIN fills : Head(fills) = fills[j]
<1>1. fills \in Seq(FillType)
  BY DEF EngineInv, TypeOK, TickTypes
<1>2. /\ 1 \in DOMAIN fills /\ Head(fills) = fills[1]
      /\ \A i \in DOMAIN fills' : i \in Nat \ {0} /\ i + 1 \in DOMAIN fills /\ fills'[i] = fills[i + 1]
  BY <1>1, HeadTail
<1>3. ASSUME NEW i \in DOMAIN fills' PROVE fills'[i].order # Head(fills).order
  <2>1. i + 1 # 1 /\ i + 1 \in DOMAIN fills
    BY <1>2
  <2> QED
    BY <1>2, <2>1 DEF HeldByEntry
<1>4. ASSUME NEW i \in DOMAIN fills', NEW j \in DOMAIN fills', fills'[i].order = fills'[j].order
      PROVE  i = j
  <2>1. i + 1 = j + 1
    BY <1>2, <1>4 DEF HeldByEntry
  <2> QED
    BY <1>2, <2>1
<1> QED
  BY <1>2, <1>3, <1>4 DEF EngineInv, RowInv, Refs

\* An entry's fill opens the symbol's one position.
LEMMA HeldOpened ==
    ASSUME EngineInv, EngineInv', QueueInv, OnePerSymbol, HeldByEntry, OpenPosition
    PROVE  HeldByEntry'
<1> DEFINE s == orders[Head(fills).order].symbol
<1>1. PICK e \in DOMAIN orders : e = Head(fills).order
  BY HeadTail, SMTT(30) DEF OpenPosition, EngineInv, TickLocals, TypeOK, TickTypes, RowInv, Refs
<1>2. PICK id \in Nat : id = Len(positions) + 1 /\ id \notin DOMAIN positions
  BY DEF EngineInv, TypeOK, JournalTypes
<1>3. /\ tpc = "open" /\ tpc' = "apply" /\ fills # <<>> /\ fills' = Tail(fills)
      /\ UNCHANGED <<orders, stoppedOut>>
      /\ openBySymbol' = With(openBySymbol, s, id)
      /\ DOMAIN open' = DOMAIN open \cup {id} /\ open'[id].symbol = s
      /\ \A p \in DOMAIN open : p # id => open'[p] = open[p]
  BY <1>1, <1>2 DEF OpenPosition, CommitOpen, EngineInv, TickLocals, With
<1>4. s = orders[e].symbol /\ e \in Entries /\ orders[e].status = "FILLED"
  <2>1. orders[e].role = "entry"
    BY <1>1, <1>3 DEF EngineInv, TickLocals
  <2>2. orders[e].status = "FILLED"
    BY <1>1, <1>3, FillsTail DEF QueueInv
  <2> QED
    BY <1>1, <2>1, <2>2 DEF Entries, IsEntry
<1>5. /\ \A i \in DOMAIN fills' : \E j \in DOMAIN fills : fills'[i] = fills[j]
      /\ \A i \in DOMAIN fills' : fills'[i].order # e
      /\ \A i, j \in DOMAIN fills' : fills'[i].order = fills'[j].order => i = j
      /\ \E j \in DOMAIN fills : e = fills[j].order
  BY <1>1, <1>3, FillsTail
<1>6. DOMAIN open \subseteq DOMAIN positions
  BY DEF EngineInv, TypeOK, EngineTypes
<1> HIDE DEF s
<1>7. Entries' = Entries /\ EntrySymbols' = EntrySymbols
  BY <1>3 DEF Entries, IsEntry, EntrySymbols
<1>8. \A p \in DOMAIN open : open[p].symbol # s
  <2> SUFFICES ASSUME NEW p \in DOMAIN open, open[p].symbol = s PROVE FALSE
    OBVIOUS
  <2>1. PICK o \in Entries : /\ orders[o].symbol = s
                             /\ \A i \in DOMAIN fills : fills[i].order # o
    BY DEF HeldByEntry
  <2>2. o = e
    BY <1>4, <2>1 DEF OnePerSymbol
  <2> QED
    BY <1>5, <2>1, <2>2
<1>9. ASSUME NEW p \in DOMAIN open'
      PROVE  \E o \in Entries' : /\ orders'[o].symbol = open'[p].symbol
                                 /\ orders'[o].status = "FILLED"
                                 /\ \A i \in DOMAIN fills' : fills'[i].order # o
  <2>1. CASE p = id
    BY <1>3, <1>4, <1>5, <1>7, <2>1
  <2>2. CASE p # id
    <3>1. p \in DOMAIN open /\ open'[p] = open[p]
      BY <1>3, <2>2
    <3>2. PICK o \in Entries : /\ orders[o].symbol = open[p].symbol
                               /\ orders[o].status = "FILLED"
                               /\ \A i \in DOMAIN fills : fills[i].order # o
      BY <3>1 DEF HeldByEntry
    <3> QED
      BY <1>3, <1>5, <1>7, <3>1, <3>2
  <2> QED
    BY <2>1, <2>2
<1>10. IndexAgrees'
  <2>1. \A t \in DOMAIN openBySymbol' :
           openBySymbol'[t] \in DOMAIN open' /\ open'[openBySymbol'[t]].symbol = t
    BY IndexHalf DEF EngineInv, RowInv, OpenMatchesRows
  <2>2. ASSUME NEW p \in DOMAIN open'
        PROVE  open'[p].symbol \in DOMAIN openBySymbol' /\ openBySymbol'[open'[p].symbol] = p
    <3>1. CASE p = id
      BY <1>3, <3>1 DEF With
    <3>2. CASE p # id
      <4>1. p \in DOMAIN open /\ open'[p] = open[p] /\ open[p].symbol # s
        BY <1>3, <1>8, <3>2
      <4>2. open[p].symbol \in DOMAIN openBySymbol /\ openBySymbol[open[p].symbol] = p
        BY <4>1 DEF HeldByEntry, IndexAgrees
      <4> QED
        BY <1>3, <4>1, <4>2 DEF With
    <3> QED
      BY <3>1, <3>2
  <2> QED
    BY <2>1, <2>2 DEF IndexAgrees
<1> QED
  BY <1>3, <1>5, <1>7, <1>9, <1>10 DEF HeldByEntry

\* A position that goes takes its symbol out of the index with it.
LEMMA HeldTaken ==
    ASSUME EngineInv, EngineInv', HeldByEntry, ApplyExit
    PROVE  HeldByEntry'
<1>1. PICK p : p = orders[Head(fills).order].position
  OBVIOUS
<1>2. /\ tpc = "apply" /\ fills # <<>> /\ fills' = Tail(fills)
      /\ UNCHANGED <<orders, stoppedOut>>
  BY DEF ApplyExit, journal
<1>3. /\ \A i \in DOMAIN fills' : \E j \in DOMAIN fills : fills'[i] = fills[j]
      /\ \A i, j \in DOMAIN fills' : fills'[i].order = fills'[j].order => i = j
  BY <1>2, FillsTail
<1>4. Entries' = Entries /\ EntrySymbols' = EntrySymbols
  BY <1>2 DEF Entries, IsEntry, EntrySymbols
<1>5. \/ UNCHANGED <<open, openBySymbol, closing, tpc>>
      \/ /\ p \in DOMAIN open /\ open' = Without(open, p)
         /\ openBySymbol' = Without(openBySymbol, open[p].symbol)
         /\ closing'.symbol = open[p].symbol /\ tpc' = "close"
  BY <1>1 DEF ApplyExit
<1>6. /\ DOMAIN open' \subseteq DOMAIN open
      /\ \A id \in DOMAIN open' : open'[id] = open[id]
  BY <1>5 DEF Without
<1>7. ASSUME NEW id \in DOMAIN open'
      PROVE  \E o \in Entries' : /\ orders'[o].symbol = open'[id].symbol
                                 /\ orders'[o].status = "FILLED"
                                 /\ \A i \in DOMAIN fills' : fills'[i].order # o
  <2>1. PICK o \in Entries : /\ orders[o].symbol = open[id].symbol
                             /\ orders[o].status = "FILLED"
                             /\ \A i \in DOMAIN fills : fills[i].order # o
    BY <1>6 DEF HeldByEntry
  <2> QED
    BY <1>2, <1>3, <1>4, <1>6, <2>1
<1>8. IndexAgrees'
  <2>1. \A t \in DOMAIN openBySymbol' :
           openBySymbol'[t] \in DOMAIN open' /\ open'[openBySymbol'[t]].symbol = t
    BY DEF EngineInv, RowInv, OpenMatchesRows
  <2>2. ASSUME NEW id \in DOMAIN open'
        PROVE  open'[id].symbol \in DOMAIN openBySymbol' /\ openBySymbol'[open'[id].symbol] = id
    <3>1. /\ open[id].symbol \in DOMAIN openBySymbol /\ openBySymbol[open[id].symbol] = id
          /\ open'[id] = open[id]
      BY <1>6 DEF HeldByEntry, IndexAgrees
    <3>2. CASE UNCHANGED <<open, openBySymbol>>
      BY <3>1, <3>2
    <3>3. CASE /\ p \in DOMAIN open /\ open' = Without(open, p)
               /\ openBySymbol' = Without(openBySymbol, open[p].symbol)
      <4>1. id # p
        BY <3>3 DEF Without
      <4>2. open[id].symbol # open[p].symbol
        BY <3>1, <3>3, <4>1 DEF HeldByEntry, IndexAgrees
      <4> QED
        BY <3>1, <3>3, <4>2 DEF Without
    <3> QED
      BY <1>5, <3>2, <3>3
  <2> QED
    BY <2>1, <2>2 DEF IndexAgrees
<1>9. tpc' = "close" => closing'.symbol \in EntrySymbols
  <2>1. ASSUME p \in DOMAIN open PROVE open[p].symbol \in EntrySymbols
    BY <2>1 DEF HeldByEntry, EntrySymbols
  <2> QED
    BY <1>2, <1>5, <2>1
<1> QED
  BY <1>2, <1>3, <1>4, <1>7, <1>8, <1>9 DEF HeldByEntry

LEMMA HeldStep ==
    ASSUME EngineInv, QueueInv, OnePerSymbol, HeldByEntry, [Next]_vars
    PROVE  HeldByEntry'
<1>1. EntriesGrow /\ EngineInv'
  BY EntriesMove, NextInv
<1>2. CASE HoldsStill
  BY <1>1, <1>2, HeldStill
<1>3. CASE FillOrder
  <2>1. Entries' = Entries
    BY <1>3, FillRow DEF FillOrder, Entries, IsEntry
  <2> QED
    BY <1>1, <1>3, <2>1, HeldFilled
<1>4. CASE OpenPosition
  BY <1>1, <1>4, HeldOpened
<1>5. CASE ApplyExit
  BY <1>1, <1>5, HeldTaken
<1>6. CASE ClosePosition
  <2>1. /\ tpc = "close" /\ tpc' = "apply"
        /\ UNCHANGED <<open, openBySymbol, fills, orders>>
        /\ stoppedOut' \subseteq stoppedOut \cup {closing.symbol}
    BY <1>6 DEF ClosePosition, CommitClose
  <2>2. Entries' = Entries /\ EntrySymbols' = EntrySymbols /\ IndexAgrees'
    BY <2>1 DEF Entries, IsEntry, EntrySymbols, HeldByEntry, IndexAgrees
  <2> QED
    BY <2>1, <2>2 DEF HeldByEntry
<1>7. CASE Restart
  <2>1. /\ fills' = <<>> /\ DOMAIN open' = {} /\ DOMAIN openBySymbol' = {}
        /\ stoppedOut' = {} /\ tpc' = "idle"
    BY <1>7 DEF Restart, EmptyMap
  <2> QED
    BY <2>1 DEF HeldByEntry, IndexAgrees
<1> QED
  BY <1>2, <1>3, <1>4, <1>5, <1>6, <1>7, HoldMoves

-----------------------------------------------------------------------------
\* What becomes of a signal

LEMMA TraceStep ==
    ASSUME EngineInv, OnePerSymbol, TradesCounted, SignalTraced, [Next]_vars
    PROVE  SignalTraced'
<1>1. EntriesGrow /\ (Entries' = Entries \/ \E new \in Nat : Adds(new))
  BY EntriesMove
<1>2. EntrySymbols \subseteq EntrySymbols'
  BY <1>1 DEF EntriesGrow, EntrySymbols
<1>3. Entries' = Entries => EntrySymbols' = EntrySymbols
  BY <1>1 DEF EntriesGrow, EntrySymbols
<1>4. bpc = "regime" => job.snap.trades \in Nat
  BY DEF TradesCounted, Live, EngineInv, TypeOK, EngineTypes
<1>5. CASE Entries' = Entries /\ BarStill
  BY <1>3, <1>5 DEF SignalTraced, BarStill
<1>6. CASE Entries' = Entries /\ BarVets
  <2>1. Undisturbed' => Undisturbed
    BY <1>6 DEF BarVets, Undisturbed
  <2> QED
    BY <1>3, <1>6, <2>1 DEF SignalTraced, BarVets, Live
<1>7. CASE \E sig \in SignalSpace, close \in 0..MaxClock : OnSignal(sig, close)
  <2>1. PICK sig \in SignalSpace, close \in 0..MaxClock : OnSignal(sig, close)
    BY <1>7
  <2>2. /\ bpc = "idle" /\ bpc' = "regime" /\ job'.symbol = sig.symbol
        /\ sig.symbol \notin signalled /\ signalled' = signalled \cup {sig.symbol}
        /\ UNCHANGED <<orders, blocks, faults, restarts>>
    BY <2>1, SignalTaken
  <2>3. EntrySymbols' = EntrySymbols /\ (Undisturbed' => Undisturbed)
    BY <2>2 DEF EntrySymbols, Entries, IsEntry, Undisturbed
  <2> QED
    BY <2>2, <2>3 DEF SignalTraced, Live, OnePerSymbol
<1>8. CASE LogRiskBlock
  <2> DEFINE new == [symbol |-> job.symbol, reason |-> job.reason]
  <2>1. /\ bpc = "block" /\ bpc' = "idle" /\ blocks' = blocks \cup {new}
        /\ UNCHANGED <<orders, signalled, faults, restarts>> /\ job'.symbol = "none"
    BY <1>8, JobEnds DEF LogRiskBlock, CommitBlock, envVars
  <2>2. EntrySymbols' = EntrySymbols /\ (Undisturbed' => Undisturbed)
    BY <2>1 DEF EntrySymbols, Entries, IsEntry, Undisturbed
  <2>3. new.symbol = job.symbol /\ job.symbol \in signalled \ EntrySymbols
        /\ \A b \in blocks : b.symbol # job.symbol
    BY <2>1 DEF OnePerSymbol, SignalTraced, Live
  <2> HIDE DEF new
  <2> QED
    BY <2>1, <2>2, <2>3 DEF SignalTraced, Live
<1>9. CASE PlaceEntry
  <2>1. bpc = "place" /\ CommitEntry /\ bpc' = "idle" /\ UNCHANGED <<blocks, signalled, faults, restarts>>
    BY <1>9 DEF PlaceEntry, CommitEntry, envVars
  <2>2. PICK new \in Nat : Adds(new)
    <3>1. Len(orders) + 1 \in Entries' /\ Len(orders) + 1 \notin Entries
      BY <2>1, EntryRow DEF Entries, IsEntry
    <3> QED
      BY <1>1, <3>1
  <2>3. EntrySymbols' = EntrySymbols \cup {job.symbol}
    BY <1>1, <2>2 DEF EntrySymbols, EntriesGrow, Adds
  <2>4. job'.symbol = "none" /\ (Undisturbed' => Undisturbed)
    BY <1>9, <2>1, JobEnds DEF Undisturbed
  <2> QED
    BY <2>1, <2>3, <2>4 DEF SignalTraced, Live
<1>10. CASE BarFault
  <2>1. UNCHANGED signalled /\ faults' = faults + 1 /\ faults \in Nat
    BY <1>10 DEF BarFault, EngineInv, TypeOK, ControlTypes
  <2>2. ~Undisturbed' /\ bpc' = "dead"
    BY <1>10, <2>1 DEF Undisturbed, BarFault
  <2>3. CASE bpc = "block" /\ CommitBlock
    <3> DEFINE new == [symbol |-> job.symbol, reason |-> job.reason]
    <3>1. blocks' = blocks \cup {new} /\ UNCHANGED orders
      BY <2>3 DEF CommitBlock
    <3>2. EntrySymbols' = EntrySymbols
      BY <3>1 DEF EntrySymbols, Entries, IsEntry
    <3>3. new.symbol = job.symbol /\ job.symbol \in signalled \ EntrySymbols
          /\ \A b \in blocks : b.symbol # job.symbol
      BY <2>3 DEF OnePerSymbol, SignalTraced, Live
    <3> HIDE DEF new
    <3> QED
      BY <2>1, <2>2, <3>1, <3>2, <3>3 DEF SignalTraced, Live
  <2>4. CASE bpc = "place" /\ CommitEntry
    <3>1. UNCHANGED blocks
      BY <2>4 DEF CommitEntry
    <3>2. EntrySymbols' \subseteq EntrySymbols \cup {job.symbol}
      BY <1>1, <1>3 DEF EntrySymbols, EntriesGrow, Adds
    <3>3. \A b \in blocks : b.symbol # job.symbol
      BY <2>4 DEF SignalTraced, Live
    <3> QED
      BY <2>1, <2>2, <3>1, <3>2, <3>3 DEF SignalTraced, Live
  <2>5. CASE UNCHANGED journal \/ (bpc = "persist" /\ CommitSignal)
    <3>1. UNCHANGED <<blocks, orders>>
      BY <2>5 DEF journal, CommitSignal
    <3>2. EntrySymbols' = EntrySymbols
      BY <3>1 DEF EntrySymbols, Entries, IsEntry
    <3> QED
      BY <2>1, <2>2, <3>1, <3>2 DEF SignalTraced, Live
  <2> QED
    BY <1>10, <2>3, <2>4, <2>5 DEF BarFault
<1>11. CASE Restart
  <2>1. /\ UNCHANGED <<blocks, orders, signalled>> /\ bpc' = "idle" /\ job'.symbol = "none"
        /\ restarts' = restarts + 1 /\ restarts \in Nat
    BY <1>11, JobEnds DEF Restart, journal, EngineInv, TypeOK, ControlTypes
  <2>2. ~Undisturbed'
    BY <2>1 DEF Undisturbed
  <2>3. EntrySymbols' = EntrySymbols
    BY <2>1 DEF EntrySymbols, Entries, IsEntry
  <2> QED
    BY <2>1, <2>2, <2>3 DEF SignalTraced, Live
<1>12. (\E new \in Nat : Adds(new)) => PlaceEntry \/ BarFault
  BY DEF Adds
<1> QED
  BY <1>1, <1>4, <1>5, <1>6, <1>7, <1>8, <1>9, <1>10, <1>11, <1>12, BarMoves

-----------------------------------------------------------------------------
\* The inductive invariant holds throughout.
THEOREM EntryInvariant == Spec => []EntryInv
<1>1. ASSUME Init PROVE OnePerSymbol /\ HeldByEntry /\ TradesCounted /\ SignalTraced
  <2>1. /\ orders = <<>> /\ open = EmptyMap /\ openBySymbol = EmptyMap /\ fills = <<>>
        /\ bpc = "idle" /\ job.symbol = "none" /\ tpc = "idle" /\ stoppedOut = {}
        /\ blocks = {} /\ signalled = {} /\ tradesToday = 0
    BY <1>1 DEF Init, NoJob
  <2>2. Entries = {} /\ EntrySymbols = {}
    BY <2>1 DEF Entries, EntrySymbols
  <2>3. OnePerSymbol /\ SignalTraced
    BY <2>1, <2>2 DEF OnePerSymbol, SignalTraced, Live
  <2>4. HeldByEntry
    BY <2>1, <2>2 DEF HeldByEntry, IndexAgrees, EmptyMap
  <2>5. TradesCounted
    BY <2>1, <2>2, FS_EmptySet, RiskAssumption DEF TradesCounted, EntriesPerDay, Live
  <2> QED
    BY <2>3, <2>4, <2>5
<1>2. BookInv /\ OnePerSymbol /\ HeldByEntry /\ TradesCounted /\ SignalTraced /\ [Next]_vars
        => OnePerSymbol' /\ HeldByEntry' /\ TradesCounted' /\ SignalTraced'
  BY OnePerSymbolStep, HeldStep, TradesStep, TraceStep DEF BookInv
<1>3. EntryInv <=> BookInv /\ (OnePerSymbol /\ HeldByEntry /\ TradesCounted /\ SignalTraced)
  BY DEF EntryInv
<1> QED
  BY <1>1, <1>2, <1>3, BookInvariant, PTL DEF Spec

\* _open and _open_by_symbol stay inverse to each other, for any number of
\* symbols and signals in flight: the strategy's one signal per symbol and day
\* is what keeps two entries of a symbol from overwriting the index.
THEOREM IndexCorrect == Spec => []IndexAgrees
<1>1. EntryInv => IndexAgrees
  BY DEF EntryInv, HeldByEntry
<1> QED
  BY <1>1, EntryInvariant, PTL

\* No day sees more than max_trades_per_day entries, although a restart forgets
\* the counter (OpeningRangeBreakout's opening range, check_all).
THEOREM EntriesPerDayCorrect == Spec => []EntriesPerDay
<1>1. EntryInv => EntriesPerDay
  BY DEF EntryInv, TradesCounted
<1> QED
  BY <1>1, EntryInvariant, PTL

\* With no task dead and no restart, a spent signal leaves exactly one trace:
\* an order, a risk block, or on_signal still at work (on_signal).
THEOREM SignalsAccountedCorrect == Spec => []SignalsAccounted
<1>1. ASSUME EntryInv, Undisturbed, NEW s \in signalled
      PROVE  (IF job.symbol = s THEN 1 ELSE 0)
               + Cardinality({b \in blocks : b.symbol = s})
               + Cardinality({o \in Entries : orders[o].symbol = s}) = 1
  <2> USE DEF EntryInv
  <2> DEFINE B == {b \in blocks : b.symbol = s}
             E == {o \in Entries : orders[o].symbol = s}
  <2>1. s # "none"
    BY <1>1, EngineAssumption DEF BookInv, EngineInv, TypeOK, ControlTypes
  <2>2. bpc \in Live \/ bpc = "idle"
    BY <1>1 DEF SignalTraced, BookInv, EngineInv, TypeOK, ControlTypes, Live
  <2>3. job.symbol = s <=> bpc \in Live /\ job.symbol = s
    BY <1>1, <2>1, <2>2 DEF SignalTraced
  <2>4. E = {} <=> s \notin EntrySymbols
    BY DEF EntrySymbols
  <2>5. \A b, c \in B : b = c
    BY <1>1 DEF SignalTraced
  <2>6. \A o, p \in E : o = p
    BY <1>1 DEF OnePerSymbol
  <2>7. B # {} => s \notin EntrySymbols /\ job.symbol # s
    BY <1>1, <2>3 DEF SignalTraced
  <2>8. job.symbol = s => s \notin EntrySymbols
    BY <1>1, <2>3 DEF OnePerSymbol
  <2>9. job.symbol = s \/ s \in EntrySymbols \/ B # {}
    BY <1>1 DEF SignalTraced
  <2>10. CASE job.symbol = s
    <3>1. B = {} /\ E = {}
      BY <2>4, <2>7, <2>8, <2>10
    <3>2. Cardinality(B) = 0 /\ Cardinality(E) = 0
      BY <3>1, FS_EmptySet
    <3> HIDE DEF B, E
    <3>3. (IF job.symbol = s THEN 1 ELSE 0) + Cardinality(B) + Cardinality(E) = 1
      BY <2>10, <3>2
    <3> QED
      BY <3>3 DEF B, E
  <2>11. CASE B # {}
    <3>1. job.symbol # s /\ E = {}
      BY <2>4, <2>7, <2>11
    <3>2. Cardinality(B) = 1 /\ Cardinality(E) = 0
      <4> HIDE DEF B, E
      <4>1. PICK b : B = {b}
        BY <2>5, <2>11
      <4> QED
        BY <3>1, <4>1, FS_EmptySet, FS_Singleton
    <3> HIDE DEF B, E
    <3>3. (IF job.symbol = s THEN 1 ELSE 0) + Cardinality(B) + Cardinality(E) = 1
      BY <3>1, <3>2
    <3> QED
      BY <3>3 DEF B, E
  <2>12. CASE s \in EntrySymbols
    <3>1. job.symbol # s /\ B = {} /\ E # {}
      BY <2>4, <2>7, <2>8, <2>12
    <3>2. Cardinality(B) = 0 /\ Cardinality(E) = 1
      <4> HIDE DEF B, E
      <4>1. PICK o : E = {o}
        BY <2>6, <3>1
      <4> QED
        BY <3>1, <4>1, FS_EmptySet, FS_Singleton
    <3> HIDE DEF B, E
    <3>3. (IF job.symbol = s THEN 1 ELSE 0) + Cardinality(B) + Cardinality(E) = 1
      BY <3>1, <3>2
    <3> QED
      BY <3>3 DEF B, E
  <2> QED
    BY <2>9, <2>10, <2>11, <2>12
<1>2. EntryInv => SignalsAccounted
  BY <1>1 DEF SignalsAccounted
<1> QED
  BY <1>2, EntryInvariant, PTL

-----------------------------------------------------------------------------
\* What an entry may not meet

\* At most one entry on record, at most one position held.
LEMMA FewHeld ==
    ASSUME EngineInv, OnePerSymbol, HeldByEntry, Cardinality(Entries) < 2
    PROVE  Cardinality(DOMAIN open) < 2
<1>1. \A o, p \in Entries : o = p
  <2> SUFFICES ASSUME NEW o \in Entries, NEW p \in Entries, o # p
               PROVE  FALSE
    OBVIOUS
  <2>1. IsFiniteSet({o}) /\ Cardinality({o}) = 1
    BY FS_Singleton
  <2>2. Cardinality({o} \cup {p}) = 2
    BY <2>1, FS_AddElement
  <2>3. {o} \cup {p} \in SUBSET Entries
    OBVIOUS
  <2>4. Cardinality({o} \cup {p}) <= Cardinality(Entries)
    BY <2>3, EntriesFinite, FS_Subset
  <2> QED
    BY <2>2, <2>4, EntriesFinite
<1>2. \A id \in DOMAIN open : /\ \E o \in Entries : orders[o].symbol = open[id].symbol
                              /\ openBySymbol[open[id].symbol] = id
  BY DEF HeldByEntry, IndexAgrees
<1>3. \A id, jd \in DOMAIN open : id = jd
  BY <1>1, <1>2
<1>4. CASE DOMAIN open = {}
  BY <1>4, FS_EmptySet
<1>5. CASE DOMAIN open # {}
  <2>1. PICK id : id \in DOMAIN open
    BY <1>5
  <2>2. DOMAIN open = {id}
    BY <1>3, <2>1
  <2>3. Cardinality({id}) = 1
    BY FS_Singleton
  <2> QED
    BY <2>2, <2>3
<1> QED
  BY <1>4, <1>5

\* The snapshot is stale by the time the order goes out; still no entry meets a
\* position or a stop-out of its symbol and, the day's trades being at most two
\* as configured (max_trades_per_day), none goes beyond two open positions
\* (on_signal, check_all).
THEOREM EntryWithinLimitsCorrect ==
    ASSUME MaxTrades <= MaxOpen
    PROVE  Spec => EntryWithinLimits
<1> DEFINE Limits == Entries' # Entries => /\ job.symbol \notin DOMAIN openBySymbol
                                           /\ job.symbol \notin stoppedOut
                                           /\ Cardinality(DOMAIN open) < MaxOpen
<1>1. ASSUME EntryInv, [Next]_vars, Entries' # Entries
      PROVE  /\ job.symbol \notin DOMAIN openBySymbol
             /\ job.symbol \notin stoppedOut
             /\ Cardinality(DOMAIN open) < MaxOpen
  <2> USE DEF EntryInv
  <2>1. EngineInv
    BY <1>1 DEF BookInv
  <2>2. bpc = "place"
    BY <1>1, <2>1, EntriesMove DEF Adds
  <2>3. job.symbol \notin EntrySymbols
    BY <1>1, <2>2 DEF OnePerSymbol, Live
  <2>4. DOMAIN openBySymbol \subseteq EntrySymbols
    BY <1>1 DEF HeldByEntry, IndexAgrees, EntrySymbols
  <2>5. Cardinality(Entries) = tradesToday /\ tradesToday < MaxTrades
    BY <1>1, <2>2 DEF TradesCounted, Live
  <2>6. Cardinality(Entries) < 2
    BY <2>1, <2>5, EntriesFinite, RiskAssumption DEF MaxOpen
  <2>7. Cardinality(DOMAIN open) < 2
    BY <1>1, <2>1, <2>6, FewHeld
  <2> QED
    BY <1>1, <2>3, <2>4, <2>7 DEF HeldByEntry, MaxOpen
<1>2. EntryInv /\ [Next]_vars => [Limits]_vars
  BY <1>1
<1>3. Spec => [][Limits]_vars
  BY <1>2, EntryInvariant, PTL DEF Spec
<1> QED
  BY <1>3 DEF EntryWithinLimits
=============================================================================
