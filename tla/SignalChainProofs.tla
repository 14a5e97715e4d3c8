-------------------------- MODULE SignalChainProofs --------------------------
(***************************************************************************)
(* From ticks to signals, for any symbols, prices, queue size and multiples, *)
(* any number of restarts and deaths of a consumer: proofs that bars stay in *)
(* order, that a locked opening range stays as it is and is made of its      *)
(* day's own bars, that volumes add up to no more than the day's total, that *)
(* stops and targets lie on either side of the entry, and that the chain    *)
(* implements SignalSource.                                                *)
(***************************************************************************)
EXTENDS MCSignalChain, SumProofs, FiniteSetTheorems, SequenceTheorems, TLAPS

Bars ==          \* in progress
    {bar \in [minute : Nat, high : Nat, low : Nat, close : Nat, first : Int, last : Int] :
        bar.low <= bar.close /\ bar.close <= bar.high}
ClosedBars ==
    {bar \in [symbol : Symbols, minute : Nat, high : Nat, low : Nat, close : Nat, volume : Int] :
        bar.low <= bar.close /\ bar.close <= bar.high}
Ranges ==
    {st \in [day : Int, high : Int, low : Int, locked : BOOLEAN, signaled : BOOLEAN,
             volumes : Seq(Int)] :
        /\ st.locked => st.day \in Nat
        /\ st.high # NoPrice => st.low \in Nat /\ st.low <= st.high}
SignalSet ==
    [symbol : Symbols, direction : {"long", "short"}, entry : Nat, stop : Nat, target : Int,
     minute : Nat]

ChainTypes ==
    /\ agg \in [Symbols -> Bars \cup {NoBar}]
    /\ orb \in [Symbols -> Ranges]
    /\ clock \in 0..MaxInstant
    /\ traded \in [Symbols -> Nat]
    /\ barQ \in Seq(ClosedBars)
    /\ waiting \in ClosedBars \cup {NoBar}
    /\ tasks \subseteq Consumers
    /\ raised \in Seq(SignalSet)
    /\ blind \subseteq Nat
    /\ restarts \in Nat

\* BarsInOrder, with the bar in progress after those on their way.
Ordered ==
    /\ \A i, j \in DOMAIN barQ :
          i < j /\ barQ[i].symbol = barQ[j].symbol => barQ[i].minute < barQ[j].minute
    /\ waiting # NoBar => \A i \in DOMAIN barQ :
          barQ[i].symbol = waiting.symbol => barQ[i].minute < waiting.minute

Coming == {barQ[i] : i \in DOMAIN barQ} \cup (IF waiting = NoBar THEN {} ELSE {waiting})

\* A bar of the tick consumer's: its symbol's latest.
Latest ==
    /\ "tick-consumer" \in tasks =>
          \A bar \in Coming : agg[bar.symbol] # NoBar /\ bar.minute < agg[bar.symbol].minute
    /\ \A s \in Symbols : agg[s] # NoBar => agg[s].minute <= Bucket(clock)

\* The strategy may yet hear a bar of the symbol and the minute.
Upcoming(s, m) ==
    \/ \E bar \in Coming : bar.symbol = s /\ bar.minute = m
    \/ "tick-consumer" \in tasks /\ agg[s] # NoBar /\ agg[s].minute = m

\* It can take that bar as the next of its day, or the first of a new day.
Timely(st, m) ==
    \/ Day(m) > st.day
    \/ Day(m) = st.day /\ (st.locked => PostRange(m))

InTime ==
    /\ \A s \in Symbols, m \in Nat : Upcoming(s, m) => Timely(orb[s], m)
    /\ "tick-consumer" \in tasks =>
          \A s \in Symbols : agg[s] = NoBar => orb[s] = Fresh(-1)

ChainInv == ChainTypes /\ Ordered /\ Latest /\ InTime /\ (TargetMultiple >= 10 => StopsAndTargets)

\* The rest takes a clock that is never set back.
\* Days the process came too late for: it has no range then.
Blind ==
    \A d \in blind :
       /\ d < Today \/ (d = Today /\ PostRange(Bucket(clock)))
       /\ \A s \in Symbols : orb[s].day = d => orb[s].high = NoPrice
       /\ \A s \in Symbols, m \in Nat : Upcoming(s, m) /\ Day(m) = d => PostRange(m)

\* The signal of a day is spent: the strategy knows, or no bar of that day comes.
Spent(s, d) ==
    \/ d \in blind
    \/ d < orb[s].day
    \/ d = orb[s].day /\ orb[s].signaled
    \/ d < Today /\ \A m \in Nat : Upcoming(s, m) => d < Day(m)

Once ==
    \A i \in DOMAIN raised : /\ raised[i].minute <= Bucket(clock)
                             /\ PostRange(raised[i].minute)
                             /\ Spent(raised[i].symbol, Day(raised[i].minute))

\* The bars on their way are of minutes gone by.
Gone == \A s \in Symbols, m \in Nat : Upcoming(s, m) => m <= Bucket(clock)

SourceInv == ChainInv /\ Gone /\ Blind /\ Once

\* The bars of the opening range the strategy has heard, as it has them.
Spans(high, low, bars) ==
    /\ bars = {} => high = NoPrice
    /\ bars # {} =>
          /\ \A bar \in bars : bar.high <= high /\ low <= bar.low
          /\ \E bar \in bars : bar.high = high
          /\ \E bar \in bars : bar.low = low

Of(bars, s, d) == {bar \in bars : bar.symbol = s /\ Day(bar.minute) = d}

HeardInv ==
    /\ heard \subseteq ClosedBars
    /\ \A bar \in heard : Day(bar.minute) <= orb[bar.symbol].day
    /\ \A s \in Symbols : Spans(orb[s].high, orb[s].low, Of(heard, s, orb[s].day))

\* The shares of bars of one symbol and day, on their way and in progress,
\* out of so many traded: the one in progress counts from where they end.
Shares == [bar \in ClosedBars |-> bar.volume]

Bounded(bars, bar, d, total) ==
    /\ SumOf(Shares, bars) <= total
    /\ bar # NoBar /\ Day(bar.minute) = d =>
          /\ SumOf(Shares, bars) <= bar.first
          /\ bar.first <= bar.last /\ bar.last <= total

VolumeInv ==
    /\ \A bar \in Coming : bar.volume \in Nat
    /\ \A s \in Symbols : Bounded(Of(Coming, s, Today), agg[s], Today, traded[s])

-----------------------------------------------------------------------------
\* Minutes, days and prices.

\* The quotient by a positive number, and what remains.
LEMMA Quotient ==
    ASSUME NEW a \in Nat, NEW b \in Nat \ {0}
    PROVE  /\ a \div b \in Nat /\ a % b \in Nat
           /\ a = b * (a \div b) + (a % b)
           /\ a % b < b
<1> DEFINE q == a \div b
<1>1. q \in Int /\ a % b \in Nat /\ a = b * q + (a % b) /\ a % b < b
  OBVIOUS
<1>2. q >= 0
  <2> HIDE DEF q
  <2>1. ASSUME q <= -1
        PROVE  FALSE
    <3>1. b * q <= -b
      BY <1>1, <2>1
    <3> QED
      BY <1>1, <3>1
  <2> QED
    BY <1>1, <2>1
<1> QED
  BY <1>1, <1>2

\* A quotient grows with the dividend.
LEMMA QuotientGrows ==
    ASSUME NEW a \in Nat, NEW c \in Nat, NEW b \in Nat \ {0}, a <= c
    PROVE  a \div b <= c \div b
<1> DEFINE q == a \div b
           r == c \div b
<1>1. q \in Nat /\ r \in Nat /\ b * q <= a /\ c < b * r + b
  BY Quotient
<1> HIDE DEF q, r
<1>2. ASSUME q > r
      PROVE  FALSE
  <2>1. q >= r + 1
    BY <1>1, <1>2
  <2>2. b * q >= b * (r + 1)
    BY <1>1, <2>1
  <2>3. b * (r + 1) = b * r + b
    BY <1>1
  <2>4. b * q \in Nat /\ b * r \in Nat
    BY <1>1
  <2> QED
    BY <1>1, <2>2, <2>3, <2>4
<1>3. q <= r
  BY <1>1, <1>2
<1> QED
  BY <1>3 DEF q, r

LEMMA Buckets ==
    ASSUME NEW ts \in Nat, NEW uts \in Nat, ts <= uts
    PROVE  Bucket(ts) \in Nat /\ Bucket(uts) \in Nat /\ Bucket(ts) <= Bucket(uts)
  BY Quotient, QuotientGrows, AggregatorAssumption DEF Bucket

LEMMA Days ==
    ASSUME NEW m \in Nat
    PROVE  /\ Day(m) \in Nat /\ Hour(m) \in Nat
           /\ m = MinutesPerDay * Day(m) + Hour(m)
           /\ InRange(m) => ~PostRange(m)
  BY Quotient, StrategyAssumption DEF Day, Hour, InRange, PostRange

\* A later minute is of a later day, or of the same day at a later time.
LEMMA Onwards ==
    ASSUME NEW m \in Nat, NEW n \in Nat, m <= n
    PROVE  /\ Day(m) <= Day(n)
           /\ Day(m) = Day(n) /\ PostRange(m) => PostRange(n)
<1>1. Day(m) <= Day(n)
  BY QuotientGrows, StrategyAssumption DEF Day
<1>2. Day(m) = Day(n) => Hour(m) <= Hour(n)
  <2>1. MinutesPerDay * Day(n) \in Nat
    BY Days, StrategyAssumption
  <2> QED
    BY <2>1, Days
<1>3. Hour(m) \in Nat /\ Hour(n) \in Nat
  BY Days
<1> QED
  BY <1>1, <1>2, <1>3, StrategyAssumption DEF PostRange

\* Max and Min of two numbers.
LEMMA OfTwo ==
    ASSUME NEW a \in Int, NEW b \in Int
    PROVE  /\ Max({a, b}) \in {a, b} /\ Max({a, b}) >= a /\ Max({a, b}) >= b
           /\ Min({a, b}) \in {a, b} /\ Min({a, b}) <= a /\ Min({a, b}) <= b
<1>1. (\E x \in {a, b} : \A y \in {a, b} : x >= y) /\ (\E x \in {a, b} : \A y \in {a, b} : x <= y)
  BY DEF Max
<1>2. /\ Max({a, b}) \in {a, b} /\ \A y \in {a, b} : Max({a, b}) >= y
      /\ Min({a, b}) \in {a, b} /\ \A y \in {a, b} : Min({a, b}) <= y
  BY <1>1 DEF Max, Min
<1> QED
  BY <1>2

-----------------------------------------------------------------------------
\* What a bar in progress and the strategy's state are after a step.

LEMMA NoBarApart == NoBar \notin Bars /\ NoBar \notin ClosedBars
  BY DEF NoBar, Bars, ClosedBars

LEMMA StartedBar ==
    ASSUME NEW s \in Symbols, NEW ltp \in Prices, NEW ts \in Nat, NEW v \in Int
    PROVE  LET tick == [symbol |-> s, ltp |-> ltp, ts |-> ts, volume |-> v]
           IN Started(tick) \in Bars /\ Started(tick).minute = Bucket(ts)
  BY Buckets, ChainAssumption DEF Started, Bars

LEMMA FoldedBar ==
    ASSUME NEW s \in Symbols, NEW ltp \in Prices, NEW ts \in Nat, NEW v \in Int, NEW bar \in Bars
    PROVE  LET tick == [symbol |-> s, ltp |-> ltp, ts |-> ts, volume |-> v]
           IN Folded(bar, tick) \in Bars /\ Folded(bar, tick).minute = bar.minute
<1> DEFINE tick == [symbol |-> s, ltp |-> ltp, ts |-> ts, volume |-> v]
           high == Max({bar.high, ltp})
           low == Min({bar.low, ltp})
           last == Max({bar.last, v})
<1>1. bar \in [minute : Nat, high : Nat, low : Nat, close : Nat, first : Int, last : Int]
  BY DEF Bars
<1>2. ltp \in Nat
  BY ChainAssumption
<1>3. high \in Nat /\ high >= ltp /\ low \in Nat /\ low <= ltp /\ last \in Int
  <2>1. bar.high \in Nat /\ bar.low \in Nat /\ bar.last \in Int
    BY <1>1
  <2>2. /\ high \in {bar.high, ltp} /\ high >= ltp
        /\ low \in {bar.low, ltp} /\ low <= ltp
        /\ last \in {bar.last, v}
    <3>1. ltp \in Int /\ bar.high \in Int /\ bar.low \in Int
      BY <1>2, <2>1
    <3> QED
      BY <2>1, <3>1, OfTwo, Zenon
  <2> HIDE DEF high, low, last
  <2> QED
    BY <1>2, <2>1, <2>2
<1>4. Folded(bar, tick) = [bar EXCEPT !.high = high, !.low = low, !.close = ltp, !.last = last]
  BY DEF Folded
<1> HIDE DEF high, low, last
<1> QED
  BY <1>1, <1>2, <1>3, <1>4 DEF Bars

LEMMA FinishedBar ==
    ASSUME NEW s \in Symbols, NEW bar \in Bars
    PROVE  /\ Finished(s, bar) \in ClosedBars
           /\ Finished(s, bar).symbol = s /\ Finished(s, bar).minute = bar.minute
<1>1. bar \in [minute : Nat, high : Nat, low : Nat, close : Nat, first : Int, last : Int]
  BY DEF Bars
<1>2. Max({0, bar.last - bar.first}) \in Int
  <2>1. bar.last - bar.first \in Int
    BY <1>1
  <2>2. Max({0, bar.last - bar.first}) \in {0, bar.last - bar.first}
    <3>1. 0 \in Int
      OBVIOUS
    <3> QED
      BY <2>1, <3>1, OfTwo, Zenon
  <2> QED
    BY <2>1, <2>2
<1> QED
  BY <1>1, <1>2 DEF Finished, ClosedBars, Bars

LEMMA KeptDay ==
    ASSUME NEW st \in Ranges, NEW bar \in ClosedBars
    PROVE  LET kept == OnDay(st, Day(bar.minute))
           IN /\ kept \in Ranges /\ kept.day = Day(bar.minute)
              /\ kept = st \/ kept = Fresh(Day(bar.minute))
              /\ st.day = Day(bar.minute) => kept = st
              /\ st.day # Day(bar.minute) => kept = Fresh(Day(bar.minute))
<1>1. Day(bar.minute) \in Nat
  BY Days DEF ClosedBars
<1>2. ASSUME NEW d \in Nat
      PROVE  Fresh(d) \in Ranges /\ Fresh(d).day = d
  BY DEF Fresh, Ranges, NoPrice
<1> QED
  BY <1>1, <1>2 DEF OnDay

LEMMA NotedRange ==
    ASSUME NEW st \in Ranges, NEW bar \in ClosedBars
    PROVE  LET noted == Noted(st, bar)
           IN /\ noted \in Ranges
              /\ noted.day = st.day /\ noted.high = st.high /\ noted.low = st.low
              /\ noted.locked = st.locked /\ noted.signaled = st.signaled
<1> DEFINE v == IF Len(st.volumes) = Lookback THEN Append(Tail(st.volumes), bar.volume)
                                              ELSE Append(st.volumes, bar.volume)
<1>1. st.volumes \in Seq(Int) /\ bar.volume \in Int
  BY DEF Ranges, ClosedBars
<1>2. v \in Seq(Int)
  <2>1. CASE Len(st.volumes) = Lookback
    <3>1. st.volumes # <<>>
      BY <1>1, <2>1, StrategyAssumption
    <3>2. Tail(st.volumes) \in Seq(Int)
      BY <1>1, <3>1
    <3> QED
      BY <1>1, <2>1, <3>2
  <2>2. CASE Len(st.volumes) # Lookback
    BY <1>1, <2>2
  <2> QED
    BY <2>1, <2>2
<1>3. Noted(st, bar) = [st EXCEPT !.volumes = v]
  BY DEF Noted
<1> HIDE DEF v
<1> QED
  BY <1>2, <1>3 DEF Ranges

\* A bar of the opening range widens it to take the bar in, and no further.
LEMMA WidenedRange ==
    ASSUME NEW st \in Ranges, NEW bar \in ClosedBars
    PROVE  LET wide == Widened(st, bar)
           IN /\ wide \in Ranges
              /\ wide.day = st.day /\ wide.locked = st.locked /\ wide.signaled = st.signaled
              /\ wide.high # NoPrice /\ bar.high <= wide.high /\ wide.low <= bar.low
              /\ st.high = NoPrice => wide.high = bar.high /\ wide.low = bar.low
              /\ st.high # NoPrice =>
                    /\ wide.high \in {st.high, bar.high} /\ st.high <= wide.high
                    /\ wide.low \in {st.low, bar.low} /\ wide.low <= st.low
<1>1. /\ bar.high \in Nat /\ bar.low \in Nat /\ bar.low <= bar.high
      /\ st \in [day : Int, high : Int, low : Int, locked : BOOLEAN, signaled : BOOLEAN,
                 volumes : Seq(Int)]
      /\ st.locked => st.day \in Nat
      /\ st.high # NoPrice => st.low \in Nat /\ st.low <= st.high
  BY DEF ClosedBars, Ranges
<1>2. CASE st.high = NoPrice
  <2>1. Widened(st, bar) = [st EXCEPT !.high = bar.high, !.low = bar.low]
    BY <1>2 DEF Widened
  <2>2. Widened(st, bar) \in Ranges
    <3>1. Widened(st, bar) \in [day : Int, high : Int, low : Int, locked : BOOLEAN,
                               signaled : BOOLEAN, volumes : Seq(Int)]
      <4>1. st \in [day : Int, high : Int, low : Int, locked : BOOLEAN, signaled : BOOLEAN,
                    volumes : Seq(Int)] /\ bar.high \in Int /\ bar.low \in Int
        BY <1>1
      <4> QED
        BY <2>1, <4>1
    <3>2. /\ Widened(st, bar).high = bar.high /\ Widened(st, bar).low = bar.low
          /\ Widened(st, bar).locked = st.locked /\ Widened(st, bar).day = st.day
      BY <1>1, <2>1
    <3>3. Widened(st, bar).locked => Widened(st, bar).day \in Nat
      BY <1>1, <3>2, Zenon
    <3>4. Widened(st, bar).low \in Nat /\ Widened(st, bar).low <= Widened(st, bar).high
      BY <1>1, <3>2
    <3> QED
      BY <3>1, <3>3, <3>4, Zenon DEF Ranges
  <2> QED
    BY <1>1, <1>2, <2>1, <2>2 DEF NoPrice
<1>3. CASE st.high # NoPrice
  <2> DEFINE high == Max({st.high, bar.high})
             low == Min({st.low, bar.low})
  <2>1. st.high \in Int /\ bar.high \in Int /\ st.low \in Int /\ bar.low \in Int
    BY <1>1
  <2>2. /\ high \in {st.high, bar.high} /\ st.high <= high /\ bar.high <= high
        /\ low \in {st.low, bar.low} /\ low <= st.low /\ low <= bar.low
    <3>1. high \in {st.high, bar.high} /\ high >= st.high /\ high >= bar.high
      BY <2>1, OfTwo, Zenon
    <3>2. low \in {st.low, bar.low} /\ low <= st.low /\ low <= bar.low
      BY <2>1, OfTwo, Zenon
    <3> HIDE DEF high, low
    <3> QED
      BY <2>1, <3>1, <3>2
  <2>3. Widened(st, bar) = [st EXCEPT !.high = high, !.low = low]
    BY <1>3 DEF Widened
  <2> HIDE DEF high, low
  <2>4. Widened(st, bar) \in Ranges
    <3>1. high \in Int /\ low \in Nat /\ low <= high
      BY <1>1, <1>3, <2>2
    <3>2. Widened(st, bar) \in [day : Int, high : Int, low : Int, locked : BOOLEAN,
                               signaled : BOOLEAN, volumes : Seq(Int)]
      <4>1. st \in [day : Int, high : Int, low : Int, locked : BOOLEAN, signaled : BOOLEAN,
                    volumes : Seq(Int)] /\ high \in Int /\ low \in Int
        BY <1>1, <3>1
      <4> QED
        BY <2>3, <4>1
    <3>3. /\ Widened(st, bar).high = high /\ Widened(st, bar).low = low
          /\ Widened(st, bar).locked = st.locked /\ Widened(st, bar).day = st.day
      BY <1>1, <2>3
    <3>4. Widened(st, bar).locked => Widened(st, bar).day \in Nat
      BY <1>1, <3>3, Zenon
    <3>5. Widened(st, bar).low \in Nat /\ Widened(st, bar).low <= Widened(st, bar).high
      BY <1>1, <3>1, <3>3
    <3> QED
      BY <3>2, <3>4, <3>5, Zenon DEF Ranges
  <2> QED
    BY <1>1, <1>3, <2>2, <2>3, <2>4 DEF NoPrice
<1> QED
  BY <1>2, <1>3

\* What on_bar leaves: the range is locked beyond the opening range only, and
\* what comes after that leaves it as it is.
LEMMA AfterBar ==
    ASSUME NEW st \in Ranges, NEW bar \in ClosedBars, st.day = Day(bar.minute)
    PROVE  LET after == After(st, bar)
           IN /\ after \in Ranges /\ after.day = st.day
              /\ after.locked => st.locked \/ PostRange(bar.minute)
              /\ st.locked => after.locked
              /\ st.signaled => after.signaled
              /\ PostRange(bar.minute) /\ BreaksOut(st, bar) => after.signaled
              /\ ~InRange(bar.minute) => after.high = st.high /\ after.low = st.low
              /\ InRange(bar.minute) => /\ after.high = Widened(st, bar).high
                                        /\ after.low = Widened(st, bar).low
<1>1. /\ bar.minute \in Nat
      /\ st \in [day : Int, high : Int, low : Int, locked : BOOLEAN, signaled : BOOLEAN,
                 volumes : Seq(Int)]
      /\ st.high # NoPrice => st.low \in Nat /\ st.low <= st.high
  BY DEF ClosedBars, Ranges
<1>2. CASE InRange(bar.minute)
  <2>1. ~PostRange(bar.minute)
    BY <1>1, <1>2, Days
  <2>2. After(st, bar) = Noted(Widened(st, bar), bar)
    BY <1>2 DEF After
  <2> QED
    BY <1>2, <2>1, <2>2, WidenedRange, NotedRange
<1>3. CASE ~InRange(bar.minute) /\ PostRange(bar.minute)
  <2> DEFINE mid == [st EXCEPT !.locked = TRUE, !.signaled = @ \/ BreaksOut(st, bar)]
  <2>1. BreaksOut(st, bar) \in BOOLEAN
    BY DEF BreaksOut
  <2>2. st.day \in Nat
    BY <1>1, Days
  <2>3. /\ mid \in Ranges /\ mid.day = st.day /\ mid.high = st.high /\ mid.low = st.low
        /\ mid.locked
    BY <1>1, <2>1, <2>2 DEF Ranges
  <2>4. mid.signaled = (st.signaled \/ BreaksOut(st, bar))
    BY <1>1
  <2>5. After(st, bar) = Noted(mid, bar)
    BY <1>3 DEF After
  <2> HIDE DEF mid
  <2>6. /\ Noted(mid, bar) \in Ranges /\ Noted(mid, bar).day = mid.day
        /\ Noted(mid, bar).high = mid.high /\ Noted(mid, bar).low = mid.low
        /\ Noted(mid, bar).signaled = mid.signaled /\ Noted(mid, bar).locked = mid.locked
    BY <2>3, NotedRange
  <2>7. /\ st.signaled => After(st, bar).signaled
        /\ BreaksOut(st, bar) => After(st, bar).signaled
        /\ After(st, bar).locked
    BY <2>3, <2>4, <2>5, <2>6, Zenon
  <2> QED
    BY <1>3, <2>3, <2>5, <2>6, <2>7
<1>4. CASE ~InRange(bar.minute) /\ ~PostRange(bar.minute)
  <2>1. After(st, bar) = st
    BY <1>4 DEF After
  <2> QED
    BY <1>4, <2>1
<1> QED
  BY <1>2, <1>3, <1>4

\* A breakout's stop and target lie on either side of its entry.
LEMMA BreakoutSignal ==
    ASSUME NEW st \in Ranges, NEW bar \in ClosedBars, BreaksOut(st, bar)
    PROVE  LET sig == Breakout(st, bar)
           IN /\ sig \in SignalSet /\ sig.symbol = bar.symbol /\ sig.minute = bar.minute
              /\ TargetMultiple >= 10 =>
                    IF sig.direction = "long" THEN sig.stop < sig.entry /\ sig.entry < sig.target
                                              ELSE sig.target < sig.entry /\ sig.entry < sig.stop
<1>1. /\ st.high # NoPrice /\ st.high \in Nat /\ st.low \in Nat /\ st.low <= st.high
      /\ bar.symbol \in Symbols /\ bar.close \in Nat /\ bar.minute \in Nat
  BY DEF BreaksOut, Ranges, ClosedBars, NoPrice
<1>2. \/ Direction(st, bar) = "long" /\ bar.close > st.high
      \/ Direction(st, bar) = "short" /\ bar.close < st.low
  BY DEF BreaksOut, Direction
<1> DEFINE stop == IF Direction(st, bar) = "long" THEN st.low ELSE st.high
           reach == TargetMultiple * (bar.close - stop)
<1>3. /\ stop \in Nat
      /\ Direction(st, bar) = "long" => bar.close - stop >= 1
      /\ Direction(st, bar) = "short" => bar.close - stop <= -1
  BY <1>1, <1>2
<1>4. /\ reach \in Int
      /\ TargetMultiple >= 10 /\ Direction(st, bar) = "long" => reach >= 10
      /\ TargetMultiple >= 10 /\ Direction(st, bar) = "short" => reach <= -10
  <2> HIDE DEF stop
  <2>1. ASSUME NEW t \in Nat, NEW x \in Int, t >= 10
        PROVE  (x >= 1 => t * x >= 10) /\ (x <= -1 => t * x <= -10)
    <3>1. x >= 1 => t * x >= t * 1
      BY <2>1
    <3>2. x <= -1 => t * x <= t * (-1)
      BY <2>1
    <3> QED
      BY <2>1, <3>1, <3>2
  <2>2. bar.close - stop \in Int /\ TargetMultiple \in Nat
    BY <1>1, <1>3, StrategyAssumption
  <2> QED
    BY <1>3, <2>1, <2>2
<1>5. Breakout(st, bar) = [symbol |-> bar.symbol, direction |-> Direction(st, bar),
                           entry |-> bar.close, stop |-> stop,
                           target |-> bar.close + (reach \div 10), minute |-> bar.minute]
  BY DEF Breakout
<1> HIDE DEF stop, reach
<1>6. reach \div 10 \in Int /\ (reach >= 10 => reach \div 10 >= 1) /\ (reach <= -10 => reach \div 10 <= -1)
  BY <1>4
<1>7. Breakout(st, bar) \in SignalSet
  BY <1>1, <1>2, <1>3, <1>5, <1>6 DEF SignalSet
<1> QED
  BY <1>1, <1>2, <1>3, <1>4, <1>5, <1>6, <1>7

-----------------------------------------------------------------------------
\* What a step does to the bars on their way.

\* A bar put on the queue, or waiting for room there.
Queues(bar) ==
    \/ barQ' = Append(barQ, bar) /\ waiting' = NoBar
    \/ barQ' = barQ /\ waiting' = bar

LEMMA BarQueued ==
    ASSUME ChainTypes, Ordered, waiting = NoBar, NEW bar \in ClosedBars, Queues(bar),
           \A b \in Coming : b.symbol = bar.symbol => b.minute < bar.minute
    PROVE  /\ barQ' \in Seq(ClosedBars) /\ waiting' \in ClosedBars \cup {NoBar}
           /\ Coming' = Coming \cup {bar}
           /\ Ordered'
<1>1. barQ \in Seq(ClosedBars) /\ Coming = {barQ[i] : i \in DOMAIN barQ}
  BY DEF ChainTypes, Coming
<1>2. \A i \in DOMAIN barQ : barQ[i].symbol = bar.symbol => barQ[i].minute < bar.minute
  BY <1>1
<1>3. CASE barQ' = barQ /\ waiting' = bar
  <2>1. bar # NoBar
    BY NoBarApart
  <2> QED
    BY <1>1, <1>2, <1>3, <2>1 DEF Ordered, Coming
<1>4. CASE barQ' = Append(barQ, bar) /\ waiting' = NoBar
  <2>1. /\ barQ' \in Seq(ClosedBars) /\ DOMAIN barQ' = 1..(Len(barQ) + 1)
        /\ DOMAIN barQ = 1..Len(barQ) /\ Len(barQ) \in Nat
        /\ \A i \in DOMAIN barQ : barQ'[i] = barQ[i]
        /\ barQ'[Len(barQ) + 1] = bar
    BY <1>1, <1>4, AppendProperties
  <2>2. Coming' = {barQ'[i] : i \in DOMAIN barQ'}
    BY <1>4 DEF Coming
  <2>3. Coming' = Coming \cup {bar}
    BY <1>1, <2>1, <2>2
  <2>4. ASSUME NEW i \in DOMAIN barQ', NEW j \in DOMAIN barQ', i < j,
               barQ'[i].symbol = barQ'[j].symbol
        PROVE  barQ'[i].minute < barQ'[j].minute
    <3>1. i \in DOMAIN barQ
      BY <2>1, <2>4
    <3>2. CASE j \in DOMAIN barQ
      BY <2>1, <2>4, <3>1, <3>2 DEF Ordered
    <3>3. CASE j = Len(barQ) + 1
      BY <1>2, <2>1, <2>4, <3>1, <3>3
    <3> QED
      BY <2>1, <3>2, <3>3
  <2> QED
    BY <1>4, <2>1, <2>3, <2>4 DEF Ordered
<1> QED
  BY <1>3, <1>4 DEF Queues

LEMMA BarPut ==
    ASSUME ChainTypes, Ordered, PutBar
    PROVE  /\ barQ' \in Seq(ClosedBars) /\ waiting' \in ClosedBars \cup {NoBar}
           /\ Coming' = Coming
           /\ Ordered'
<1>1. /\ waiting # NoBar /\ waiting \in ClosedBars /\ barQ \in Seq(ClosedBars)
      /\ barQ' = Append(barQ, waiting) /\ waiting' = NoBar
  BY DEF ChainTypes, PutBar
<1>2. /\ barQ' \in Seq(ClosedBars) /\ DOMAIN barQ' = 1..(Len(barQ) + 1)
      /\ DOMAIN barQ = 1..Len(barQ) /\ Len(barQ) \in Nat
      /\ \A i \in DOMAIN barQ : barQ'[i] = barQ[i]
      /\ barQ'[Len(barQ) + 1] = waiting
  BY <1>1, AppendProperties
<1>3. Coming' = {barQ'[i] : i \in DOMAIN barQ'} /\ Coming = {barQ[i] : i \in DOMAIN barQ} \cup {waiting}
  BY <1>1 DEF Coming
<1>4. Coming' = Coming
  BY <1>2, <1>3
<1>5. ASSUME NEW i \in DOMAIN barQ', NEW j \in DOMAIN barQ', i < j,
             barQ'[i].symbol = barQ'[j].symbol
      PROVE  barQ'[i].minute < barQ'[j].minute
  <2>1. i \in DOMAIN barQ
    BY <1>2, <1>5
  <2>2. CASE j \in DOMAIN barQ
    BY <1>2, <1>5, <2>1, <2>2 DEF Ordered
  <2>3. CASE j = Len(barQ) + 1
    BY <1>1, <1>2, <1>5, <2>1, <2>3 DEF Ordered
  <2> QED
    BY <1>2, <2>2, <2>3
<1> QED
  BY <1>1, <1>2, <1>4, <1>5 DEF Ordered

\* What follows the bar taken is later.
LEMMA BarTaken ==
    ASSUME ChainTypes, Ordered, barQ # <<>>, barQ' = Tail(barQ), waiting' = waiting
    PROVE  /\ barQ' \in Seq(ClosedBars)
           /\ Head(barQ) \in Coming /\ Head(barQ) \in ClosedBars
           /\ Coming' \subseteq Coming
           /\ \A b \in Coming' : b.symbol = Head(barQ).symbol => Head(barQ).minute < b.minute
           /\ Ordered'
<1>1. /\ barQ \in Seq(ClosedBars) /\ Len(barQ) \in Nat /\ Len(barQ) >= 1
      /\ DOMAIN barQ = 1..Len(barQ) /\ Head(barQ) = barQ[1] /\ 1 \in DOMAIN barQ
  BY DEF ChainTypes
<1>2. /\ barQ' \in Seq(ClosedBars) /\ DOMAIN barQ' = 1..(Len(barQ) - 1)
      /\ \A i \in DOMAIN barQ' : i + 1 \in DOMAIN barQ /\ barQ'[i] = barQ[i + 1]
  BY <1>1, HeadTailProperties
<1>3. Head(barQ) \in Coming /\ Head(barQ) \in ClosedBars
  BY <1>1 DEF Coming
<1>4. Coming' \subseteq Coming
  BY <1>1, <1>2 DEF Coming
<1>5. ASSUME NEW b \in Coming', b.symbol = Head(barQ).symbol
      PROVE  Head(barQ).minute < b.minute
  <2>1. CASE waiting # NoBar /\ b = waiting
    BY <1>1, <1>5, <2>1 DEF Ordered
  <2>2. CASE \E i \in DOMAIN barQ' : b = barQ'[i]
    <3>1. PICK i \in DOMAIN barQ' : b = barQ'[i]
      BY <2>2
    <3>2. i + 1 \in DOMAIN barQ /\ b = barQ[i + 1] /\ 1 < i + 1
      BY <1>2, <3>1
    <3> QED
      BY <1>1, <1>5, <3>2 DEF Ordered
  <2> QED
    BY <2>1, <2>2 DEF Coming
<1>6. ASSUME NEW i \in DOMAIN barQ', NEW j \in DOMAIN barQ', i < j,
             barQ'[i].symbol = barQ'[j].symbol
      PROVE  barQ'[i].minute < barQ'[j].minute
  <2>1. i + 1 \in DOMAIN barQ /\ j + 1 \in DOMAIN barQ /\ i + 1 < j + 1
    BY <1>2, <1>6
  <2> QED
    BY <1>2, <1>6, <2>1 DEF Ordered
<1>7. waiting # NoBar => \A i \in DOMAIN barQ' :
         barQ'[i].symbol = waiting.symbol => barQ'[i].minute < waiting.minute
  BY <1>2 DEF Ordered
<1> QED
  BY <1>2, <1>3, <1>4, <1>5, <1>6, <1>7 DEF Ordered

LEMMA FlushedBars ==
    ASSUME ChainTypes
    PROVE  /\ IsFiniteSet(Flushed) /\ Flushed \subseteq ClosedBars
           /\ \A b \in Flushed : /\ agg[b.symbol] # NoBar /\ b.minute = agg[b.symbol].minute
                                 /\ b = Finished(b.symbol, agg[b.symbol])
<1> DEFINE S == {x \in Symbols : agg[x] # NoBar}
           f == [x \in S |-> Finished(x, agg[x])]
<1>1. \A x \in S : agg[x] \in Bars
  BY DEF ChainTypes
<1>2. Flushed = {Finished(x, agg[x]) : x \in S}
  BY DEF Flushed
<1>3. \A x \in S : /\ Finished(x, agg[x]) \in ClosedBars
                   /\ Finished(x, agg[x]).symbol = x
                   /\ Finished(x, agg[x]).minute = agg[x].minute
  BY <1>1, FinishedBar
<1>4. IsFiniteSet(S)
  BY FS_Subset, AggregatorAssumption
<1>5. f \in Surjection(S, Flushed)
  <2>1. f \in [S -> Flushed]
    BY <1>2
  <2>2. \A t \in Flushed : \E x \in S : f[x] = t
    BY <1>2
  <2> QED
    BY <2>1, <2>2 DEF Surjection
<1>6. IsFiniteSet(Flushed)
  BY <1>4, <1>5, FS_Surjection
<1> HIDE DEF f
<1> QED
  BY <1>2, <1>3, <1>6

\* front is the first k elements of the sequences q and r, one after the other.
IsFront(front, q, r, k) ==
    /\ DOMAIN front = 1..k
    /\ \A i \in 1..k : \/ i \in 1..Len(q) /\ front[i] = q[i]
                       \/ /\ i > Len(q) /\ i - Len(q) \in 1..Len(r)
                          /\ front[i] = r[i - Len(q)]

LEMMA FrontOfTwo ==
    ASSUME NEW S, NEW q \in Seq(S), NEW r \in Seq(S), NEW k \in Nat, k <= Len(q \o r),
           NEW front, front = SubSeq(q \o r, 1, k)
    PROVE  front \in Seq(S) /\ IsFront(front, q, r, k)
<1> DEFINE both == q \o r
<1>1. /\ both \in Seq(S) /\ Len(both) = Len(q) + Len(r) /\ Len(both) \in Nat
      /\ Len(q) \in Nat /\ Len(r) \in Nat
      /\ \A i \in 1..Len(both) : both[i] = IF i <= Len(q) THEN q[i] ELSE r[i - Len(q)]
  BY ConcatProperties
<1>2. k <= Len(both) /\ front = SubSeq(both, 1, k)
  OBVIOUS
<1> HIDE DEF both
<1>3. \A i \in 1..k : both[i] \in S
  <2>1. \A i \in 1..Len(both) : both[i] \in S
    BY <1>1
  <2> QED
    BY <1>1, <1>2, <2>1
<1>4. /\ front \in Seq(S)
      /\ Len(front) = IF 1 <= k THEN k - 1 + 1 ELSE 0
      /\ \A i \in 1..(k - 1 + 1) : front[i] = both[1 + i - 1]
  BY <1>2, <1>3, SubSeqProperties
<1>5. DOMAIN front = 1..k
  BY <1>4
<1>6. ASSUME NEW i \in 1..k
      PROVE  front[i] = IF i <= Len(q) THEN q[i] ELSE r[i - Len(q)]
  <2>1. i \in 1..Len(both) /\ i \in 1..(k - 1 + 1) /\ 1 + i - 1 = i
    BY <1>1, <1>2
  <2> QED
    BY <1>1, <1>4, <2>1
<1>7. ASSUME NEW i \in 1..k
      PROVE  i \in 1..Len(q) \/ (i > Len(q) /\ i - Len(q) \in 1..Len(r))
  BY <1>1, <1>2
<1> QED
  BY <1>1, <1>4, <1>5, <1>6, <1>7 DEF IsFront

\* Bars in progress put behind those on their way, one of each symbol.
LEMMA QueueExtended ==
    ASSUME ChainTypes, Ordered, Latest, "tick-consumer" \in tasks,
           waiting = NoBar, waiting' = waiting,
           NEW bars, \A i \in DOMAIN bars : bars[i] \in Flushed,
           \A i, j \in DOMAIN bars : i # j => bars[i] # bars[j],
           NEW k \in Nat, DOMAIN barQ' = 1..k,
           \A i \in 1..k : \/ i \in DOMAIN barQ /\ barQ'[i] = barQ[i]
                           \/ /\ i > Len(barQ) /\ i - Len(barQ) \in DOMAIN bars
                              /\ barQ'[i] = bars[i - Len(barQ)]
    PROVE  Coming' \subseteq Coming \cup Flushed /\ Ordered'
<1>1. /\ Len(barQ) \in Nat /\ DOMAIN barQ = 1..Len(barQ)
      /\ Coming = {barQ[i] : i \in DOMAIN barQ} /\ Coming' = {barQ'[i] : i \in DOMAIN barQ'}
  BY DEF ChainTypes, Coming
<1>2. Coming' \subseteq Coming \cup Flushed
  <2>1. ASSUME NEW i \in 1..k
        PROVE  barQ'[i] \in Coming \cup Flushed
    BY <1>1
  <2> QED
    BY <1>1, <2>1
<1>3. ASSUME NEW i \in 1..k, NEW j \in 1..k, i < j, barQ'[i].symbol = barQ'[j].symbol
      PROVE  barQ'[i].minute < barQ'[j].minute
  <2>1. CASE j \in DOMAIN barQ
    <3>1. i \in DOMAIN barQ /\ barQ'[i] = barQ[i] /\ barQ'[j] = barQ[j]
      BY <1>1, <1>3, <2>1
    <3> QED
      BY <1>3, <2>1, <3>1 DEF Ordered
  <2>2. CASE j > Len(barQ) /\ i \in DOMAIN barQ
    <3>1. barQ'[j] \in Flushed /\ barQ'[i] \in Coming
      BY <1>1, <2>2
    <3> QED
      BY <1>3, <3>1, FlushedBars DEF Latest
  <2>3. CASE j > Len(barQ) /\ i > Len(barQ)
    <3>1. /\ i - Len(barQ) \in DOMAIN bars /\ j - Len(barQ) \in DOMAIN bars
          /\ barQ'[i] = bars[i - Len(barQ)] /\ barQ'[j] = bars[j - Len(barQ)]
      BY <1>1, <2>3
    <3>2. i - Len(barQ) # j - Len(barQ)
      BY <1>1, <1>3
    <3>3. barQ'[i] \in Flushed /\ barQ'[j] \in Flushed /\ barQ'[i] # barQ'[j]
      BY <3>1, <3>2
    <3> QED
      BY <1>3, <3>3, FlushedBars
  <2> QED
    BY <1>1, <2>1, <2>2, <2>3
<1> QED
  BY <1>1, <1>2, <1>3 DEF Ordered

\* The flush of a dying tick consumer.
LEMMA BarsFlushed ==
    ASSUME ChainTypes, Ordered, Latest, "tick-consumer" \in tasks, waiting = NoBar,
           waiting' = waiting, NEW bars \in SetToSeqs(Flushed),
           barQ' = SubSeq(barQ \o bars, 1, Min({BarQueueMax, Len(barQ \o bars)}))
    PROVE  /\ barQ' \in Seq(ClosedBars)
           /\ Coming' \subseteq Coming \cup Flushed
           /\ Ordered'
<1>1. barQ \in Seq(ClosedBars) /\ DOMAIN barQ = 1..Len(barQ)
  BY DEF ChainTypes
<1>2. /\ bars \in Seq(ClosedBars) /\ DOMAIN bars = 1..Len(bars)
      /\ \A i \in DOMAIN bars : bars[i] \in Flushed
      /\ \A i, j \in DOMAIN bars : i # j => bars[i] # bars[j]
  <2>1. Cardinality(Flushed) \in Nat /\ Flushed \subseteq ClosedBars
    BY FlushedBars, FS_CardinalityType
  <2>2. /\ bars \in [1..Cardinality(Flushed) -> Flushed]
        /\ \A i, j \in 1..Cardinality(Flushed) : i # j => bars[i] # bars[j]
    BY DEF SetToSeqs
  <2>3. bars \in Seq(Flushed)
    BY <2>1, <2>2
  <2>4. bars \in Seq(ClosedBars)
    BY <2>1, <2>2
  <2> QED
    BY <2>2, <2>3, <2>4
<1>3. PICK k : k = Min({BarQueueMax, Len(barQ \o bars)})
  OBVIOUS
<1>4. k \in Nat /\ k <= Len(barQ \o bars)
  <2>1. Len(barQ \o bars) \in Nat
    BY <1>1, <1>2, ConcatProperties
  <2>2. Len(barQ \o bars) \in Int /\ BarQueueMax \in Int
    BY <2>1, ChainAssumption
  <2>3. k \in {BarQueueMax, Len(barQ \o bars)} /\ k <= Len(barQ \o bars)
    BY <1>3, <2>2, OfTwo, Zenon
  <2> QED
    BY <2>1, <2>3, ChainAssumption
<1>5. barQ' \in Seq(ClosedBars) /\ IsFront(barQ', barQ, bars, k)
  BY <1>1, <1>2, <1>3, <1>4, FrontOfTwo
<1>6. \A i \in 1..k : \/ i \in DOMAIN barQ /\ barQ'[i] = barQ[i]
                      \/ /\ i > Len(barQ) /\ i - Len(barQ) \in DOMAIN bars
                         /\ barQ'[i] = bars[i - Len(barQ)]
  BY <1>1, <1>2, <1>5 DEF IsFront
<1>7. Coming' \subseteq Coming \cup Flushed /\ Ordered'
  BY <1>2, <1>4, <1>5, <1>6, QueueExtended, Zenon DEF IsFront
<1> QED
  BY <1>5, <1>7

-----------------------------------------------------------------------------
\* Types and order, step by step.

\* The tick goes into the symbol's bar in progress, or begins one of its own
\* minute; then the one it ends is queued.
TickEffect(s, ts) ==
    /\ "tick-consumer" \in tasks /\ tasks' = tasks /\ waiting = NoBar
    /\ clock - Skew <= ts /\ ts <= clock' /\ clock <= clock' /\ clock' \in 0..MaxInstant
    /\ agg' \in [Symbols -> Bars \cup {NoBar}]
    /\ \A x \in Symbols : x # s => agg'[x] = agg[x]
    /\ agg'[s] # NoBar
    /\ \/ /\ agg[s] # NoBar /\ agg'[s].minute = agg[s].minute
          /\ barQ' = barQ /\ waiting' = waiting
       \/ /\ agg[s] = NoBar /\ agg'[s].minute = Bucket(ts)
          /\ barQ' = barQ /\ waiting' = waiting
       \/ /\ agg[s] # NoBar /\ agg'[s].minute = Bucket(ts) /\ agg[s].minute < Bucket(ts)
          /\ Queues(Finished(s, agg[s]))
    /\ orb' = orb /\ raised' = raised /\ blind' = blind /\ restarts' = restarts

LEMMA TickMoves ==
    ASSUME ChainTypes, NEW s \in Symbols, NEW ltp \in Prices, NEW ts \in 0..MaxInstant,
           NEW n \in {-Stale, 0, Lot}, TakeTick(s, ltp, ts, n)
    PROVE  TickEffect(s, ts) /\ traded' \in [Symbols -> Nat]
<1> DEFINE v == TradedBy(s, ts, n)
           tick == [symbol |-> s, ltp |-> ltp, ts |-> ts, volume |-> v]
<1>1. /\ v \in Int /\ ts \in Nat /\ clock \in Int /\ ts \in Int
      /\ agg \in [Symbols -> Bars \cup {NoBar}] /\ traded \in [Symbols -> Nat]
  BY ChainAssumption DEF TakeTick, ChainTypes
<1>2. /\ "tick-consumer" \in tasks /\ tasks' = tasks /\ waiting = NoBar /\ clock - Skew <= ts
      /\ Ingest(tick)
      /\ IF ~Completes(tick) THEN UNCHANGED <<barQ, waiting>> ELSE Queues(Completed(tick))
      /\ orb' = orb /\ raised' = raised /\ blind' = blind /\ restarts' = restarts
      /\ clock' = Max({clock, ts})
  BY DEF TakeTick, Queues
<1>3. clock' \in 0..MaxInstant /\ ts <= clock' /\ clock <= clock'
  <2>1. clock' \in {clock, ts} /\ clock' >= clock /\ clock' >= ts
    BY <1>1, <1>2, OfTwo, Zenon
  <2> QED
    BY <1>1, <2>1 DEF ChainTypes
<1>4. traded' \in [Symbols -> Nat]
  <2>1. v \in Nat /\ \A x \in Symbols : TradedBy(x, ts, 0) \in Nat
    BY <1>1, ChainAssumption DEF TradedBy, TakeTick
  <2>2. Max({v, TradedBy(s, ts, 0)}) \in Nat
    <3>1. v \in Int /\ TradedBy(s, ts, 0) \in Int
      BY <2>1
    <3>2. Max({v, TradedBy(s, ts, 0)}) \in {v, TradedBy(s, ts, 0)}
      BY <3>1, OfTwo, Zenon
    <3> HIDE DEF v
    <3> QED
      BY <2>1, <3>2
  <2>3. traded' = [x \in Symbols |-> IF x = s THEN Max({v, TradedBy(s, ts, 0)})
                                              ELSE TradedBy(x, ts, 0)]
    BY DEF TakeTick
  <2> HIDE DEF v
  <2> QED
    BY <2>1, <2>2, <2>3
<1> HIDE DEF v
<1>5. tick.symbol = s /\ tick.ts = ts
  OBVIOUS
<1>6. /\ Started(tick) \in Bars /\ Started(tick).minute = Bucket(ts)
      /\ agg[s] # NoBar => Folded(agg[s], tick) \in Bars /\ Folded(agg[s], tick).minute = agg[s].minute
  BY <1>1, StartedBar, FoldedBar
<1>7. Completes(tick) <=> agg[s] # NoBar /\ Bucket(ts) > agg[s].minute
  BY DEF Completes
<1>8. Completed(tick) = Finished(s, agg[s])
  BY DEF Completed
<1>9. agg' = [agg EXCEPT ![s] = IF agg[s] = NoBar \/ Completes(tick) THEN Started(tick)
                                ELSE Folded(agg[s], tick)]
  BY <1>2 DEF Ingest
<1> HIDE DEF tick
<1>10. /\ agg' \in [Symbols -> Bars \cup {NoBar}]
       /\ \A x \in Symbols : x # s => agg'[x] = agg[x]
       /\ agg[s] = NoBar \/ Completes(tick) => agg'[s] = Started(tick)
       /\ ~(agg[s] = NoBar \/ Completes(tick)) => agg'[s] = Folded(agg[s], tick)
  BY <1>1, <1>6, <1>9
<1>11. agg'[s] # NoBar
  BY <1>6, <1>10, NoBarApart
<1>12. CASE Completes(tick)
  <2>1. /\ agg[s] # NoBar /\ agg'[s].minute = Bucket(ts) /\ Bucket(ts) > agg[s].minute
        /\ Queues(Finished(s, agg[s]))
    BY <1>2, <1>6, <1>7, <1>8, <1>10, <1>12
  <2>2. agg[s].minute < Bucket(ts)
    <3>1. Bucket(ts) \in Nat /\ agg[s].minute \in Nat
      BY <1>1, <2>1, Buckets DEF Bars
    <3> QED
      BY <2>1, <3>1
  <2> QED
    BY <1>2, <1>3, <1>4, <1>10, <1>11, <2>1, <2>2 DEF TickEffect
<1>13. CASE ~Completes(tick) /\ agg[s] = NoBar
  BY <1>2, <1>3, <1>4, <1>6, <1>10, <1>11, <1>13 DEF TickEffect
<1>14. CASE ~Completes(tick) /\ agg[s] # NoBar
  BY <1>2, <1>3, <1>4, <1>6, <1>10, <1>11, <1>14 DEF TickEffect
<1> QED
  BY <1>12, <1>13, <1>14

\* Types and order after a tick.
LEMMA TickKeeps ==
    ASSUME ChainTypes, Ordered, Latest, NEW s \in Symbols, NEW ts \in 0..MaxInstant,
           TickEffect(s, ts)
    PROVE  /\ barQ' \in Seq(ClosedBars) /\ waiting' \in ClosedBars \cup {NoBar}
           /\ Ordered' /\ Latest'
           /\ \A b \in Coming' : \/ b \in Coming
                                 \/ agg[s] # NoBar /\ b.symbol = s /\ b.minute = agg[s].minute
<1>1. /\ agg \in [Symbols -> Bars \cup {NoBar}] /\ clock \in Nat /\ clock' \in Nat /\ ts \in Nat
      /\ barQ \in Seq(ClosedBars) /\ waiting \in ClosedBars \cup {NoBar}
      /\ Coming \subseteq ClosedBars
  BY ChainAssumption, SMTT(30) DEF ChainTypes, TickEffect, Coming
<1>2. /\ Bucket(ts) \in Nat /\ Bucket(clock) \in Nat /\ Bucket(clock') \in Nat
      /\ Bucket(ts) <= Bucket(clock') /\ Bucket(clock) <= Bucket(clock')
  BY <1>1, Buckets DEF TickEffect
<1>3. \A x \in Symbols : agg[x] # NoBar => agg[x].minute \in Nat /\ agg[x].minute <= Bucket(clock)
  BY <1>1 DEF Latest, Bars
<1>4. \A x \in Symbols : agg'[x] # NoBar => agg'[x].minute <= Bucket(clock')
  <2> SUFFICES ASSUME NEW x \in Symbols, agg'[x] # NoBar
               PROVE  agg'[x].minute <= Bucket(clock')
    OBVIOUS
  <2>1. CASE x # s
    BY <1>2, <1>3, <2>1 DEF TickEffect
  <2>2. CASE x = s
    BY <1>2, <1>3, <2>2 DEF TickEffect
  <2> QED
    BY <2>1, <2>2
<1>5. ASSUME NEW b \in Coming
      PROVE  agg'[b.symbol] # NoBar /\ b.minute < agg'[b.symbol].minute
  <2>1. b.symbol \in Symbols /\ b.minute \in Nat
    BY <1>1 DEF ClosedBars
  <2>2. agg[b.symbol] # NoBar /\ b.minute < agg[b.symbol].minute
    BY DEF Latest, TickEffect
  <2>3. CASE b.symbol # s
    BY <2>1, <2>2, <2>3 DEF TickEffect
  <2>4. CASE b.symbol = s
    BY <1>2, <1>3, <2>1, <2>2, <2>4 DEF TickEffect
  <2> QED
    BY <2>3, <2>4
<1>6. CASE barQ' = barQ /\ waiting' = waiting
  <2>1. Coming' = Coming /\ Ordered'
    BY <1>6 DEF Coming, Ordered
  <2> QED
    BY <1>1, <1>4, <1>5, <1>6, <2>1 DEF Latest
<1>7. CASE /\ agg[s] # NoBar /\ agg'[s].minute = Bucket(ts) /\ agg[s].minute < Bucket(ts)
           /\ Queues(Finished(s, agg[s]))
  <2> DEFINE bar == Finished(s, agg[s])
  <2>1. bar \in ClosedBars /\ bar.symbol = s /\ bar.minute = agg[s].minute
    BY <1>1, <1>7, FinishedBar
  <2> HIDE DEF bar
  <2>2. Queues(bar)
    BY <1>7 DEF bar
  <2>3. waiting = NoBar /\ \A b \in Coming : b.symbol = bar.symbol => b.minute < bar.minute
    BY <2>1 DEF Latest, TickEffect
  <2>4. /\ barQ' \in Seq(ClosedBars) /\ waiting' \in ClosedBars \cup {NoBar}
        /\ Coming' = Coming \cup {bar}
        /\ Ordered'
    BY <2>1, <2>2, <2>3, BarQueued
  <2>5. agg'[bar.symbol] # NoBar /\ bar.minute < agg'[bar.symbol].minute
    BY <1>7, <2>1 DEF TickEffect
  <2>6. Latest'
    BY <1>4, <1>5, <2>4, <2>5 DEF Latest
  <2> QED
    BY <1>7, <2>1, <2>4, <2>6
<1> QED
  BY <1>6, <1>7 DEF TickEffect

\* No bar is to come that was not before.
Quiet == \A s \in Symbols, m \in Nat : Upcoming(s, m)' => Upcoming(s, m)

\* None but that of a tick, which is its symbol's latest.
Begins(x, k) ==
    /\ "tick-consumer" \in tasks
    /\ agg[x] = NoBar \/ agg[x].minute < k
    /\ \A s \in Symbols, m \in Nat : Upcoming(s, m)' => Upcoming(s, m) \/ (s = x /\ m = k)

\* A bar is put on the queue, a consumer dies, nothing happens.
Passes ==
    /\ UNCHANGED <<orb, clock, traded, raised, blind, restarts>>
    /\ tasks' \subseteq tasks
    /\ "tick-consumer" \in tasks' => agg' = agg
    /\ Quiet

\* The strategy hears the bar, and what it may hear next is later.
Hears(bar) ==
    /\ bar \in ClosedBars /\ Upcoming(bar.symbol, bar.minute)
    /\ UNCHANGED <<agg, clock, traded, tasks, blind, restarts>>
    /\ orb' \in [Symbols -> Ranges]
    /\ \A s \in Symbols : s # bar.symbol => orb'[s] = orb[s]
    /\ orb'[bar.symbol] = After(Found(bar), bar)
    /\ raised' = IF Signals(bar) THEN Append(raised, Signal(bar)) ELSE raised
    /\ Quiet
    /\ \A m \in Nat : Upcoming(bar.symbol, m)' => bar.minute < m

LEMMA ComingTyped == ChainTypes => Coming \subseteq ClosedBars
  BY NoBarApart DEF ChainTypes, Coming

LEMMA FoundRange ==
    ASSUME ChainTypes, NEW bar \in ClosedBars
    PROVE  /\ Found(bar) \in Ranges /\ Found(bar).day = Day(bar.minute)
           /\ orb[bar.symbol] \in Ranges /\ bar.symbol \in Symbols /\ bar.minute \in Nat
           /\ orb[bar.symbol].day = Day(bar.minute) => Found(bar) = orb[bar.symbol]
           /\ orb[bar.symbol].day # Day(bar.minute) => Found(bar) = Fresh(Day(bar.minute))
<1>1. bar.symbol \in Symbols /\ bar.minute \in Nat /\ orb[bar.symbol] \in Ranges
  BY DEF ChainTypes, ClosedBars
<1> QED
  BY <1>1, KeptDay DEF Found

LEMMA BarHeard ==
    ASSUME ChainTypes, Ordered, Latest, TakeBar
    PROVE  /\ barQ # <<>> /\ barQ' = Tail(barQ) /\ waiting' = waiting
           /\ \E bar : bar = Head(barQ) /\ Hears(bar)
           /\ raised' \in Seq(SignalSet)
<1> PICK b : b = Head(barQ)
  OBVIOUS
<1>1. /\ barQ # <<>> /\ barQ' = Tail(barQ) /\ waiting' = waiting
      /\ UNCHANGED <<agg, clock, traded, tasks, blind, restarts>>
      /\ OnBar(b)
      /\ raised' = IF Signals(b) THEN Append(raised, Signal(b)) ELSE raised
  BY DEF TakeBar
<1>2. /\ b \in Coming /\ b \in ClosedBars
      /\ Coming' \subseteq Coming
      /\ \A c \in Coming' : c.symbol = b.symbol => b.minute < c.minute
  BY <1>1, BarTaken
<1>3. /\ Found(b) \in Ranges /\ Found(b).day = Day(b.minute)
      /\ b.symbol \in Symbols /\ b.minute \in Nat
  BY <1>2, FoundRange
<1>4. orb' \in [Symbols -> Ranges] /\ orb'[b.symbol] = After(Found(b), b)
      /\ \A s \in Symbols : s # b.symbol => orb'[s] = orb[s]
  <2>1. After(Found(b), b) \in Ranges
    BY <1>2, <1>3, AfterBar
  <2>2. orb' = [orb EXCEPT ![b.symbol] = After(Found(b), b)] /\ orb \in [Symbols -> Ranges]
    BY <1>1 DEF OnBar, ChainTypes
  <2> QED
    BY <1>3, <2>1, <2>2
<1>5. raised' \in Seq(SignalSet)
  <2>1. raised \in Seq(SignalSet)
    BY DEF ChainTypes
  <2>2. Signals(b) => Signal(b) \in SignalSet
    BY <1>2, <1>3, BreakoutSignal DEF Signals, Signal
  <2>3. CASE Signals(b)
    <3>1. PICK sig : sig = Signal(b)
      OBVIOUS
    <3>2. sig \in SignalSet /\ raised' = Append(raised, sig)
      BY <1>1, <2>2, <2>3, <3>1
    <3> QED
      BY <2>1, <3>2
  <2>4. CASE ~Signals(b)
    BY <1>1, <2>1, <2>4
  <2> QED
    BY <2>3, <2>4
<1>6. Quiet
  BY <1>1, <1>2 DEF Quiet, Upcoming
<1>7. Upcoming(b.symbol, b.minute)
  BY <1>2 DEF Upcoming
<1>8. ASSUME NEW m \in Nat, Upcoming(b.symbol, m)'
      PROVE  b.minute < m
  <2>1. CASE \E c \in Coming' : c.symbol = b.symbol /\ c.minute = m
    BY <1>2, <2>1
  <2>2. CASE "tick-consumer" \in tasks' /\ agg'[b.symbol] # NoBar /\ agg'[b.symbol].minute = m
    BY <1>1, <1>2, <2>2 DEF Latest
  <2> QED
    BY <1>8, <2>1, <2>2 DEF Upcoming
<1>9. Hears(b)
  BY <1>1, <1>2, <1>4, <1>6, <1>7, <1>8 DEF Hears
<1> QED
  BY <1>1, <1>5, <1>9

LEMMA TickBegins ==
    ASSUME ChainTypes, Ordered, Latest, NEW s \in Symbols, NEW ts \in 0..MaxInstant,
           TickEffect(s, ts)
    PROVE  Quiet \/ (Begins(s, Bucket(ts)) /\ agg'[s].minute = Bucket(ts))
<1>1. \A b \in Coming' : \/ b \in Coming
                         \/ agg[s] # NoBar /\ b.symbol = s /\ b.minute = agg[s].minute
  BY TickKeeps
<1>2. "tick-consumer" \in tasks /\ \A x \in Symbols : x # s => agg'[x] = agg[x]
  BY DEF TickEffect
<1>3. CASE agg[s] # NoBar /\ agg'[s].minute = agg[s].minute
  <2>1. ASSUME NEW x \in Symbols, NEW m \in Nat, Upcoming(x, m)'
        PROVE  Upcoming(x, m)
    <3>1. CASE \E c \in Coming' : c.symbol = x /\ c.minute = m
      BY <1>1, <1>2, <3>1 DEF Upcoming
    <3>2. CASE "tick-consumer" \in tasks' /\ agg'[x] # NoBar /\ agg'[x].minute = m
      BY <1>2, <1>3, <3>2 DEF Upcoming
    <3> QED
      BY <2>1, <3>1, <3>2 DEF Upcoming
  <2> QED
    BY <2>1 DEF Quiet
<1>4. CASE agg'[s].minute = Bucket(ts) /\ (agg[s] = NoBar \/ agg[s].minute < Bucket(ts))
  <2>1. ASSUME NEW x \in Symbols, NEW m \in Nat, Upcoming(x, m)'
        PROVE  Upcoming(x, m) \/ (x = s /\ m = Bucket(ts))
    <3>1. CASE \E c \in Coming' : c.symbol = x /\ c.minute = m
      BY <1>1, <1>2, <3>1 DEF Upcoming
    <3>2. CASE "tick-consumer" \in tasks' /\ agg'[x] # NoBar /\ agg'[x].minute = m
      BY <1>2, <1>4, <3>2 DEF Upcoming
    <3> QED
      BY <2>1, <3>1, <3>2 DEF Upcoming
  <2> QED
    BY <1>2, <1>4, <2>1 DEF Begins
<1> QED
  BY <1>3, <1>4 DEF TickEffect

LEMMA RestartMoves ==
    ASSUME ChainTypes, Restart
    PROVE  /\ ChainTypes' /\ Ordered' /\ Latest'
           /\ \A s \in Symbols, m \in Nat : ~Upcoming(s, m)'
<1>1. /\ agg' = Empty /\ orb' = Idle(Symbols) /\ barQ' = <<>> /\ waiting' = NoBar
      /\ tasks' = Consumers /\ clock' = clock /\ traded' = traded /\ raised' = raised
      /\ restarts' = restarts + 1
      /\ blind' = IF PostRange(Bucket(clock)) THEN blind \cup {Today} ELSE blind
  BY DEF Restart
<1>2. Coming' = {} /\ Ordered' /\ barQ' \in Seq(ClosedBars)
  BY <1>1 DEF Coming, Ordered
<1>3. \A s \in Symbols : agg'[s] = NoBar
  BY <1>1 DEF Empty
<1>4. agg' \in [Symbols -> Bars \cup {NoBar}]
  BY <1>1 DEF Empty
<1>5. orb' \in [Symbols -> Ranges]
  <2>1. Fresh(-1) \in Ranges
    BY DEF Fresh, Ranges, NoPrice
  <2> QED
    BY <1>1, <2>1 DEF Idle
<1>6. blind' \subseteq Nat
  <2>1. clock \in Nat /\ blind \subseteq Nat
    BY ChainAssumption DEF ChainTypes
  <2>2. Today \in Nat
    BY <2>1, Buckets, Days DEF Today
  <2> QED
    BY <1>1, <2>1, <2>2
<1>7. ChainTypes'
  BY <1>1, <1>2, <1>4, <1>5, <1>6 DEF ChainTypes
<1>8. Latest'
  BY <1>2, <1>3 DEF Latest
<1>9. \A s \in Symbols, m \in Nat : ~Upcoming(s, m)'
  BY <1>2, <1>3 DEF Upcoming
<1> QED
  BY <1>2, <1>7, <1>8, <1>9

LEMMA PutMoves ==
    ASSUME ChainTypes, Ordered, Latest, PutBar
    PROVE  ChainTypes' /\ Ordered' /\ Latest' /\ Passes
<1>1. /\ barQ' \in Seq(ClosedBars) /\ waiting' \in ClosedBars \cup {NoBar}
      /\ Coming' = Coming /\ Ordered'
  BY BarPut
<1>2. UNCHANGED <<agg, orb, clock, traded, tasks, raised, blind, restarts>>
  BY DEF PutBar
<1>3. ChainTypes'
  BY <1>1, <1>2 DEF ChainTypes
<1>4. Latest'
  BY <1>1, <1>2 DEF Latest, Bucket
<1>5. Passes
  BY <1>1, <1>2 DEF Passes, Quiet, Upcoming
<1> QED
  BY <1>1, <1>3, <1>4, <1>5

LEMMA BarDeathMoves ==
    ASSUME ChainTypes, Ordered, Latest, BarConsumerDies
    PROVE  ChainTypes' /\ Ordered' /\ Latest' /\ Passes
<1>1. /\ barQ # <<>> /\ barQ' = Tail(barQ) /\ waiting' = waiting
      /\ tasks' = tasks \ {"bar-consumer"}
      /\ UNCHANGED <<agg, orb, clock, traded, raised, blind, restarts>>
  BY DEF BarConsumerDies
<1>2. barQ' \in Seq(ClosedBars) /\ Coming' \subseteq Coming /\ Ordered'
  BY <1>1, BarTaken
<1>3. tasks' \subseteq tasks /\ ("tick-consumer" \in tasks' => "tick-consumer" \in tasks)
  BY <1>1
<1>4. ChainTypes'
  BY <1>1, <1>2, <1>3 DEF ChainTypes
<1>5. Latest'
  BY <1>1, <1>2, <1>3 DEF Latest, Bucket
<1>6. Passes
  BY <1>1, <1>2, <1>3 DEF Passes, Quiet, Upcoming
<1> QED
  BY <1>2, <1>4, <1>5, <1>6

LEMMA TickDeathMoves ==
    ASSUME ChainTypes, Ordered, Latest, TickConsumerDies
    PROVE  ChainTypes' /\ Ordered' /\ Latest' /\ Passes
<1>1. /\ "tick-consumer" \in tasks /\ waiting = NoBar /\ waiting' = waiting
      /\ tasks' = tasks \ {"tick-consumer"}
      /\ UNCHANGED <<orb, clock, traded, raised, blind, restarts>>
  BY DEF TickConsumerDies, MayDie
<1>2. tasks' \subseteq tasks /\ "tick-consumer" \notin tasks'
  BY <1>1
<1>3. /\ barQ' \in Seq(ClosedBars) /\ Ordered'
      /\ \A b \in Coming' : b \in Coming \/ b \in Flushed
      /\ agg' = Empty \/ agg' = agg
  <2>1. CASE barQ' = barQ /\ agg' = agg
    BY <1>1, <2>1 DEF ChainTypes, Ordered, Coming
  <2>2. CASE /\ \E bars \in SetToSeqs(Flushed) :
                   barQ' = SubSeq(barQ \o bars, 1, Min({BarQueueMax, Len(barQ \o bars)}))
             /\ agg' = Empty
    <3>1. PICK bars \in SetToSeqs(Flushed) :
             barQ' = SubSeq(barQ \o bars, 1, Min({BarQueueMax, Len(barQ \o bars)}))
      BY <2>2
    <3>2. barQ' \in Seq(ClosedBars) /\ Coming' \subseteq Coming \cup Flushed /\ Ordered'
      BY <1>1, <3>1, BarsFlushed
    <3> QED
      BY <2>2, <3>2
  <2> QED
    BY <2>1, <2>2 DEF TickConsumerDies
<1>4. /\ agg' \in [Symbols -> Bars \cup {NoBar}]
      /\ \A s \in Symbols : agg'[s] # NoBar => agg'[s] = agg[s]
  BY <1>3 DEF ChainTypes, Empty
<1>5. ChainTypes'
  BY <1>1, <1>2, <1>3, <1>4 DEF ChainTypes
<1>6. Latest'
  BY <1>1, <1>2, <1>4 DEF Latest, Bucket
<1>7. Quiet
  <2>1. ASSUME NEW s \in Symbols, NEW m \in Nat, Upcoming(s, m)'
        PROVE  Upcoming(s, m)
    <3>1. PICK b \in Coming' : b.symbol = s /\ b.minute = m
      BY <1>2, <2>1 DEF Upcoming
    <3>2. CASE b \in Coming
      BY <3>1, <3>2 DEF Upcoming
    <3>3. CASE b \in Flushed
      BY <1>1, <3>1, <3>3, FlushedBars DEF Upcoming
    <3> QED
      BY <1>3, <3>2, <3>3
  <2> QED
    BY <2>1 DEF Quiet
<1>8. Passes
  BY <1>1, <1>2, <1>7 DEF Passes
<1> QED
  BY <1>3, <1>5, <1>6, <1>8

\* Types and order are kept, and a step does one of four things.
LEMMA ChainMoves ==
    ASSUME ChainTypes, Ordered, Latest, [Next]_chainVars
    PROVE  /\ ChainTypes' /\ Ordered' /\ Latest'
           /\ \/ Restart
              \/ \E s \in Symbols, ts \in 0..MaxInstant : TickEffect(s, ts)
              \/ TakeBar /\ \E bar : bar = Head(barQ) /\ Hears(bar)
              \/ Passes
<1>1. ASSUME NEW s \in Symbols, NEW ltp \in Prices, NEW ts \in 0..MaxInstant,
             NEW n \in {-Stale, 0, Lot}, TakeTick(s, ltp, ts, n)
      PROVE  ChainTypes' /\ Ordered' /\ Latest' /\ TickEffect(s, ts)
  <2>1. TickEffect(s, ts) /\ traded' \in [Symbols -> Nat]
    BY <1>1, TickMoves
  <2>2. /\ barQ' \in Seq(ClosedBars) /\ waiting' \in ClosedBars \cup {NoBar}
        /\ Ordered' /\ Latest'
    BY <2>1, TickKeeps
  <2>3. ChainTypes'
    BY <2>1, <2>2 DEF ChainTypes, TickEffect
  <2> QED
    BY <2>1, <2>2, <2>3
<1>2. ASSUME TakeBar
      PROVE  ChainTypes' /\ Ordered' /\ Latest' /\ \E bar : bar = Head(barQ) /\ Hears(bar)
  <2>1. PICK bar : bar = Head(barQ) /\ Hears(bar)
    BY <1>2, BarHeard
  <2>2. barQ # <<>> /\ barQ' = Tail(barQ) /\ waiting' = waiting /\ raised' \in Seq(SignalSet)
    BY <1>2, BarHeard
  <2>3. barQ' \in Seq(ClosedBars) /\ Coming' \subseteq Coming /\ Ordered'
    BY <2>2, BarTaken
  <2>4. UNCHANGED <<agg, clock, traded, tasks, blind, restarts>> /\ orb' \in [Symbols -> Ranges]
    BY <2>1 DEF Hears
  <2>5. ChainTypes'
    BY <2>2, <2>3, <2>4 DEF ChainTypes
  <2>6. Latest'
    BY <2>3, <2>4 DEF Latest, Bucket
  <2> QED
    BY <2>1, <2>3, <2>5, <2>6
<1>3. CASE UNCHANGED chainVars
  <2>1. /\ UNCHANGED <<agg, orb, clock, traded, barQ, waiting, tasks, raised, blind, restarts>>
        /\ Coming' = Coming
    BY <1>3 DEF chainVars, Coming
  <2>2. ChainTypes' /\ Ordered' /\ Latest'
    BY <2>1 DEF ChainTypes, Ordered, Latest, Bucket
  <2>3. Passes
    BY <2>1 DEF Passes, Quiet, Upcoming
  <2> QED
    BY <2>2, <2>3
<1>4. CASE Restart
  BY <1>4, RestartMoves
<1>5. CASE PutBar
  BY <1>5, PutMoves
<1>6. CASE TickConsumerDies
  BY <1>6, TickDeathMoves
<1>7. CASE BarConsumerDies
  BY <1>7, BarDeathMoves
<1> QED
  BY <1>1, <1>2, <1>3, <1>4, <1>5, <1>6, <1>7 DEF Next

-----------------------------------------------------------------------------
\* The range is locked after the bars that may widen it.

LEMMA LaterTimely ==
    ASSUME NEW st \in Ranges, NEW m \in Nat, NEW n \in Nat, m <= n, Timely(st, m)
    PROVE  Timely(st, n)
<1>1. /\ Day(m) \in Nat /\ Day(n) \in Nat /\ st.day \in Int /\ Day(m) <= Day(n)
      /\ Day(m) = Day(n) /\ PostRange(m) => PostRange(n)
  BY Days, Onwards DEF Ranges
<1>2. CASE Day(m) > st.day
  <2>1. Day(n) > st.day
    BY <1>1, <1>2
  <2> QED
    BY <2>1 DEF Timely
<1>3. CASE Day(m) = st.day /\ (st.locked => PostRange(m))
  <2>1. CASE Day(n) = Day(m)
    BY <1>1, <1>3, <2>1 DEF Timely
  <2>2. CASE Day(n) # Day(m)
    <3>1. Day(n) > st.day
      BY <1>1, <1>3, <2>2
    <3> QED
      BY <3>1 DEF Timely
  <2> QED
    BY <2>1, <2>2
<1> QED
  BY <1>2, <1>3 DEF Timely

\* What a bar leaves of the symbol's state, given that it comes in time.
LEMMA HeardInTime ==
    ASSUME ChainTypes, InTime, NEW bar, Hears(bar)
    PROVE  LET old == orb[bar.symbol]
               new == orb'[bar.symbol]
           IN /\ new.day = Day(bar.minute) /\ new \in Ranges /\ old \in Ranges
              /\ old.day <= new.day
              /\ new.locked => PostRange(bar.minute)
              /\ old.locked /\ old.day = new.day =>
                    new.locked /\ new.high = old.high /\ new.low = old.low
<1>1. bar \in ClosedBars /\ orb'[bar.symbol] = After(Found(bar), bar)
  BY DEF Hears
<1>2. /\ Found(bar) \in Ranges /\ Found(bar).day = Day(bar.minute)
      /\ orb[bar.symbol] \in Ranges /\ bar.symbol \in Symbols /\ bar.minute \in Nat
      /\ orb[bar.symbol].day = Day(bar.minute) => Found(bar) = orb[bar.symbol]
      /\ orb[bar.symbol].day # Day(bar.minute) => Found(bar) = Fresh(Day(bar.minute))
  BY <1>1, FoundRange
<1>3. Timely(orb[bar.symbol], bar.minute)
  BY <1>2 DEF InTime, Hears
<1>4. /\ After(Found(bar), bar) \in Ranges /\ After(Found(bar), bar).day = Found(bar).day
      /\ After(Found(bar), bar).locked => Found(bar).locked \/ PostRange(bar.minute)
      /\ Found(bar).locked => After(Found(bar), bar).locked
      /\ ~InRange(bar.minute) => /\ After(Found(bar), bar).high = Found(bar).high
                                 /\ After(Found(bar), bar).low = Found(bar).low
  BY <1>1, <1>2, AfterBar
<1>5. Found(bar).locked => PostRange(bar.minute)
  <2>1. CASE orb[bar.symbol].day = Day(bar.minute)
    <3>1. Found(bar) = orb[bar.symbol]
      BY <1>2, <2>1
    <3>2. orb[bar.symbol].locked => PostRange(bar.minute)
      BY <1>2, <1>3, <2>1, Days DEF Timely
    <3> QED
      BY <3>1, <3>2, Zenon
  <2>2. CASE orb[bar.symbol].day # Day(bar.minute)
    <3>1. Found(bar) = Fresh(Day(bar.minute)) /\ Fresh(Day(bar.minute)).locked = FALSE
      BY <1>2, <2>2 DEF Fresh
    <3> QED
      BY <3>1, Zenon
  <2> QED
    BY <2>1, <2>2
<1>6. orb[bar.symbol].day <= Day(bar.minute)
  <2>1. orb[bar.symbol].day \in Int /\ Day(bar.minute) \in Nat
    BY <1>2, Days DEF Ranges
  <2>2. Day(bar.minute) > orb[bar.symbol].day \/ Day(bar.minute) = orb[bar.symbol].day
    BY <1>3 DEF Timely
  <2> QED
    BY <2>1, <2>2
<1>7. PostRange(bar.minute) => ~InRange(bar.minute)
  BY <1>2, Days
<1>8. ASSUME orb[bar.symbol].locked, orb[bar.symbol].day = Day(bar.minute)
      PROVE  /\ After(Found(bar), bar).locked
             /\ After(Found(bar), bar).high = orb[bar.symbol].high
             /\ After(Found(bar), bar).low = orb[bar.symbol].low
  <2>1. Found(bar) = orb[bar.symbol]
    BY <1>2, <1>8
  <2>2. Found(bar).locked
    BY <1>8, <2>1, Zenon
  <2> QED
    BY <1>4, <1>5, <1>7, <2>1, <2>2, Zenon
<1>9. After(Found(bar), bar).locked => PostRange(bar.minute)
  BY <1>4, <1>5, Zenon
<1>10. /\ orb'[bar.symbol].day = Day(bar.minute) /\ orb'[bar.symbol] \in Ranges
       /\ orb[bar.symbol].day <= orb'[bar.symbol].day
  BY <1>1, <1>2, <1>4, <1>6
<1> QED
  BY <1>1, <1>2, <1>8, <1>9, <1>10, Zenon

LEMMA InTimeStep ==
    ASSUME ChainTypes, Ordered, Latest, InTime, [Next]_chainVars
    PROVE  InTime'
<1>1. CASE Restart
  <2>1. \A s \in Symbols, m \in Nat : ~Upcoming(s, m)'
    BY <1>1, RestartMoves
  <2>2. \A s \in Symbols : orb'[s] = Fresh(-1)
    BY <1>1 DEF Restart, Idle
  <2> QED
    BY <2>1, <2>2 DEF InTime
<1>2. ASSUME NEW x \in Symbols, NEW ts \in 0..MaxInstant, TickEffect(x, ts)
      PROVE  InTime'
  <2>1. /\ orb' = orb /\ "tick-consumer" \in tasks /\ agg'[x] # NoBar
        /\ \A s \in Symbols : s # x => agg'[s] = agg[s]
    BY <1>2 DEF TickEffect
  <2>2. Bucket(ts) \in Nat /\ Day(Bucket(ts)) \in Nat
    BY ChainAssumption, Buckets, Days
  <2>3. ASSUME NEW s \in Symbols, NEW m \in Nat, Upcoming(s, m)'
        PROVE  Timely(orb[s], m)
    <3>1. CASE Upcoming(s, m)
      BY <3>1 DEF InTime
    <3>2. CASE s = x /\ m = Bucket(ts) /\ agg[x] = NoBar
      <4>1. orb[x].day = -1
        BY <2>1, <3>2 DEF InTime, Fresh
      <4> QED
        BY <2>2, <3>2, <4>1 DEF Timely
    <3>3. CASE s = x /\ m = Bucket(ts) /\ agg[x] # NoBar /\ agg[x].minute < m
      <4>1. agg[x].minute \in Nat /\ orb[x] \in Ranges
        BY <3>3 DEF ChainTypes, Bars
      <4>2. Timely(orb[x], agg[x].minute)
        BY <2>1, <3>3, <4>1 DEF InTime, Upcoming
      <4>3. agg[x].minute <= m
        BY <3>3, <4>1
      <4> QED
        BY <3>3, <4>1, <4>2, <4>3, LaterTimely
    <3> QED
      BY <1>2, <2>3, <3>1, <3>2, <3>3, TickBegins DEF Quiet, Begins
  <2> QED
    BY <2>1, <2>3 DEF InTime
<1>3. ASSUME NEW bar, Hears(bar)
      PROVE  InTime'
  <2>1. /\ bar.symbol \in Symbols /\ bar.minute \in Nat
        /\ agg' = agg /\ tasks' = tasks
        /\ \A s \in Symbols : s # bar.symbol => orb'[s] = orb[s]
        /\ \A s \in Symbols, m \in Nat : Upcoming(s, m)' => Upcoming(s, m)
        /\ \A m \in Nat : Upcoming(bar.symbol, m)' => bar.minute < m
    BY <1>3 DEF Hears, Quiet, ClosedBars
  <2>2. Timely(orb'[bar.symbol], bar.minute) /\ orb'[bar.symbol] \in Ranges
    BY <1>3, HeardInTime DEF Timely
  <2>3. ASSUME NEW s \in Symbols, NEW m \in Nat, Upcoming(s, m)'
        PROVE  Timely(orb'[s], m)
    <3>1. CASE s # bar.symbol
      BY <2>1, <2>3, <3>1 DEF InTime
    <3>2. CASE s = bar.symbol
      <4>1. bar.minute <= m
        BY <2>1, <2>3, <3>2
      <4> QED
        BY <2>1, <2>2, <3>2, <4>1, LaterTimely
    <3> QED
      BY <3>1, <3>2
  <2>4. "tick-consumer" \in tasks => agg[bar.symbol] # NoBar
    BY <1>3 DEF Hears, Upcoming, Latest
  <2>5. ASSUME "tick-consumer" \in tasks', NEW s \in Symbols, agg'[s] = NoBar
        PROVE  orb'[s] = Fresh(-1)
    <3>1. s # bar.symbol
      BY <2>1, <2>4, <2>5
    <3> QED
      BY <2>1, <2>5, <3>1 DEF InTime
  <2> QED
    BY <2>3, <2>5 DEF InTime
<1>4. CASE Passes
  BY <1>4 DEF Passes, Quiet, InTime
<1> QED
  BY <1>1, <1>2, <1>3, <1>4, ChainMoves

LEMMA StopsStep ==
    ASSUME ChainTypes, Ordered, Latest, StopsAndTargets, TargetMultiple >= 10, [Next]_chainVars
    PROVE  StopsAndTargets'
<1>1. CASE raised' = raised
  BY <1>1 DEF StopsAndTargets
<1>2. ASSUME NEW bar, Hears(bar), Signals(bar)
      PROVE  StopsAndTargets'
  <2>1. PICK sig : sig = Signal(bar)
    OBVIOUS
  <2>2. raised \in Seq(SignalSet) /\ raised' = Append(raised, sig)
    BY <1>2, <2>1 DEF Hears, ChainTypes
  <2>3. IF sig.direction = "long" THEN sig.stop < sig.entry /\ sig.entry < sig.target
                                  ELSE sig.target < sig.entry /\ sig.entry < sig.stop
    <3>1. bar \in ClosedBars /\ BreaksOut(Found(bar), bar)
      BY <1>2 DEF Hears, Signals
    <3> QED
      BY <2>1, <3>1, FoundRange, BreakoutSignal DEF Signal
  <2>4. sig \in SignalSet
    <3>1. bar \in ClosedBars /\ BreaksOut(Found(bar), bar)
      BY <1>2 DEF Hears, Signals
    <3> QED
      BY <2>1, <3>1, FoundRange, BreakoutSignal DEF Signal
  <2>5. /\ DOMAIN raised' = 1..(Len(raised) + 1) /\ DOMAIN raised = 1..Len(raised)
        /\ \A i \in 1..Len(raised) : raised'[i] = raised[i]
        /\ raised'[Len(raised) + 1] = sig /\ Len(raised) \in Nat
    BY <2>2, <2>4, AppendProperties
  <2>6. \A i \in DOMAIN raised' : raised'[i] = sig \/ (i \in DOMAIN raised /\ raised'[i] = raised[i])
    BY <2>5
  <2> QED
    BY <2>3, <2>6 DEF StopsAndTargets
<1>3. raised' = raised \/ \E bar : Hears(bar) /\ Signals(bar)
  BY ChainMoves DEF Restart, TickEffect, Hears, Passes
<1> QED
  BY <1>1, <1>2, <1>3

LEMMA InitChain == ASSUME Init PROVE ChainInv
<1>1. /\ agg = Empty /\ orb = Idle(Symbols) /\ clock = 0 /\ traded = [s \in Symbols |-> 0]
      /\ barQ = <<>> /\ waiting = NoBar /\ tasks = Consumers /\ raised = <<>>
      /\ blind = {} /\ restarts = 0
  BY DEF Init
<1>2. Fresh(-1) \in Ranges
  BY DEF Fresh, Ranges, NoPrice
<1>3. Coming = {} /\ \A s \in Symbols : agg[s] = NoBar /\ orb[s] = Fresh(-1)
  BY <1>1 DEF Coming, Empty, Idle
<1>4. ChainTypes
  <2>1. clock \in 0..MaxInstant
    BY <1>1, ChainAssumption
  <2>2. orb \in [Symbols -> Ranges] /\ agg \in [Symbols -> Bars \cup {NoBar}]
    BY <1>1, <1>2 DEF Idle, Empty
  <2> QED
    BY <1>1, <2>1, <2>2 DEF ChainTypes
<1>5. Ordered /\ Latest /\ InTime
  BY <1>1, <1>3 DEF Ordered, Latest, InTime, Upcoming
<1>6. StopsAndTargets
  BY <1>1 DEF StopsAndTargets
<1> QED
  BY <1>4, <1>5, <1>6 DEF ChainInv

-----------------------------------------------------------------------------
\* The inductive invariant holds throughout.
THEOREM ChainInvariant == Spec => []ChainInv
<1>1. Init => ChainInv
  BY InitChain
<1>2. ChainInv /\ [Next]_chainVars => ChainInv'
  <2> SUFFICES ASSUME ChainInv, [Next]_chainVars
               PROVE  ChainInv'
    OBVIOUS
  <2>1. ChainTypes /\ Ordered /\ Latest /\ InTime
    BY DEF ChainInv
  <2>2. ChainTypes' /\ Ordered' /\ Latest' /\ InTime'
    BY <2>1, ChainMoves, InTimeStep
  <2>3. TargetMultiple >= 10 => StopsAndTargets'
    BY <2>1, StopsStep DEF ChainInv
  <2> QED
    BY <2>2, <2>3 DEF ChainInv
<1> QED
  BY <1>1, <1>2, PTL DEF Spec

LEMMA InFlightOrdered ==
    ASSUME ChainTypes, Ordered
    PROVE  BarsInOrder
<1> DEFINE last == IF waiting = NoBar THEN <<>> ELSE <<waiting>>
<1>1. barQ \in Seq(ClosedBars) /\ last \in Seq(ClosedBars) /\ Len(barQ) \in Nat
  BY DEF ChainTypes
<1>2. Len(last) \in 0..1 /\ (Len(last) = 1 => waiting # NoBar /\ last[1] = waiting)
  OBVIOUS
<1> HIDE DEF last
<1>3. InFlight = barQ \o last
  BY DEF InFlight, last
<1>4. /\ Len(InFlight) = Len(barQ) + Len(last) /\ DOMAIN InFlight = 1..Len(InFlight)
      /\ \A i \in 1..Len(barQ) + Len(last) :
            InFlight[i] = IF i <= Len(barQ) THEN barQ[i] ELSE last[i - Len(barQ)]
  BY <1>1, <1>3, ConcatProperties
<1>5. ASSUME NEW i \in DOMAIN InFlight, NEW j \in DOMAIN InFlight,
             i < j, InFlight[i].symbol = InFlight[j].symbol
      PROVE  InFlight[i].minute < InFlight[j].minute
  <2>1. i \in DOMAIN barQ /\ InFlight[i] = barQ[i]
    BY <1>1, <1>2, <1>4, <1>5
  <2>2. CASE j <= Len(barQ)
    <3>1. j \in DOMAIN barQ /\ InFlight[j] = barQ[j]
      BY <1>1, <1>2, <1>4, <1>5, <2>2
    <3> QED
      BY <1>5, <2>1, <3>1 DEF Ordered
  <2>3. CASE j > Len(barQ)
    <3>1. j - Len(barQ) = 1 /\ Len(last) = 1
      BY <1>1, <1>2, <1>4, <1>5, <2>3
    <3>2. InFlight[j] = waiting /\ waiting # NoBar
      BY <1>1, <1>2, <1>4, <1>5, <2>3, <3>1
    <3> QED
      BY <1>5, <2>1, <3>2 DEF Ordered
  <2> QED
    BY <1>1, <1>4, <1>5, <2>2, <2>3
<1> QED
  BY <1>5 DEF BarsInOrder

\* Bars reach the strategy in the order of their minutes, none twice, however
\* late ticks come and wherever a consumer dies (ingest, _tick_consumer).
THEOREM BarsInOrderCorrect == Spec => []BarsInOrder
<1>1. ChainInv => BarsInOrder
  BY InFlightOrdered DEF ChainInv
<1> QED
  BY <1>1, ChainInvariant, PTL

\* A locked opening range stays as it is for its day (on_bar, _update_or).
THEOREM RangeFrozenCorrect == Spec => RangeFrozen
<1> DEFINE Frozen == \A s \in Symbols : orb[s].locked /\ orb'[s].day = orb[s].day =>
                        /\ orb'[s].locked
                        /\ orb'[s].high = orb[s].high /\ orb'[s].low = orb[s].low
<1>1. ASSUME ChainInv, [Next]_chainVars
      PROVE  Frozen
  <2>1. ChainTypes /\ InTime
    BY <1>1 DEF ChainInv
  <2>2. CASE orb' = orb
    BY <2>2
  <2>3. CASE Restart
    <3>1. ASSUME NEW s \in Symbols, orb[s].locked
          PROVE  orb'[s].day # orb[s].day
      <4>1. orb'[s].day = -1
        BY <2>3 DEF Restart, Idle, Fresh
      <4>2. orb[s] \in Ranges
        BY <2>1 DEF ChainTypes
      <4>3. orb[s].day \in Nat
        BY <3>1, <4>2 DEF Ranges
      <4> QED
        BY <4>1, <4>3
    <3> QED
      BY <3>1
  <2>4. ASSUME NEW bar, Hears(bar)
        PROVE  Frozen
    <3> SUFFICES ASSUME NEW s \in Symbols, orb[s].locked, orb'[s].day = orb[s].day
                 PROVE  /\ orb'[s].locked
                        /\ orb'[s].high = orb[s].high /\ orb'[s].low = orb[s].low
      OBVIOUS
    <3>1. CASE s # bar.symbol
      <4>1. orb'[s] = orb[s]
        BY <2>4, <3>1 DEF Hears
      <4> QED
        BY <4>1, Zenon
    <3>2. CASE s = bar.symbol
      <4>1. orb[s].locked /\ orb[s].day = orb'[s].day =>
               orb'[s].locked /\ orb'[s].high = orb[s].high /\ orb'[s].low = orb[s].low
        BY <2>1, <2>4, <3>2, HeardInTime
      <4> QED
        BY <4>1, Zenon
    <3> QED
      BY <3>1, <3>2
  <2>5. orb' = orb \/ Restart \/ \E bar : Hears(bar)
    BY <1>1, ChainMoves DEF ChainInv, TickEffect, Passes
  <2> QED
    BY <2>2, <2>3, <2>4, <2>5
<1>2. ChainInv /\ [Next]_chainVars => [Frozen]_chainVars
  BY <1>1
<1> QED
  BY <1>2, ChainInvariant, PTL DEF Spec, RangeFrozen

\* Every signal's stop and target lie on either side of its entry, for a target
\* of at least one price step per price step of risk (_maybe_signal).
THEOREM StopsAndTargetsCorrect ==
    ASSUME TargetMultiple >= 10
    PROVE  Spec => []StopsAndTargets
<1>1. ChainInv => StopsAndTargets
  BY DEF ChainInv
<1> QED
  BY <1>1, ChainInvariant, PTL

-----------------------------------------------------------------------------
\* With a clock that is never set back, a symbol signals once a day, and never on
\* a day the process came too late for.

LEMMA ClockMoves ==
    ASSUME ChainTypes, NEW x \in Symbols, NEW ts \in 0..MaxInstant, TickEffect(x, ts)
    PROVE  /\ Bucket(clock) \in Nat /\ Bucket(clock') \in Nat /\ Bucket(ts) \in Nat
           /\ Bucket(clock) <= Bucket(clock') /\ Bucket(ts) <= Bucket(clock')
           /\ Skew = 0 => Bucket(clock) <= Bucket(ts)
           /\ Today \in Nat /\ Today' \in Nat /\ Today <= Today'
           /\ Today = Today' /\ PostRange(Bucket(clock)) => PostRange(Bucket(clock'))
           /\ Today' = Day(Bucket(clock')) /\ Bucket(clock)' = Bucket(clock')
<1>1. /\ clock \in Nat /\ clock' \in Nat /\ ts \in Nat /\ clock <= clock' /\ ts <= clock'
      /\ Skew = 0 => clock <= ts
  BY ChainAssumption DEF ChainTypes, TickEffect
<1>2. /\ Bucket(clock) \in Nat /\ Bucket(clock') \in Nat /\ Bucket(ts) \in Nat
      /\ Bucket(clock) <= Bucket(clock') /\ Bucket(ts) <= Bucket(clock')
      /\ Skew = 0 => Bucket(clock) <= Bucket(ts)
  BY <1>1, Buckets
<1>3. Today' = Day(Bucket(clock')) /\ Bucket(clock)' = Bucket(clock')
  BY DEF Today, Day, Bucket
<1>4. /\ Today \in Nat /\ Day(Bucket(clock')) \in Nat
      /\ Today <= Day(Bucket(clock'))
      /\ Today = Day(Bucket(clock')) /\ PostRange(Bucket(clock)) => PostRange(Bucket(clock'))
  BY <1>2, Days, Onwards DEF Today
<1> QED
  BY <1>2, <1>3, <1>4

LEMMA ClockStays ==
    ASSUME clock' = clock
    PROVE  Today' = Today /\ Bucket(clock)' = Bucket(clock)
  BY DEF Today, Day, Bucket

LEMMA ClockTyped ==
    ASSUME ChainTypes
    PROVE  Bucket(clock) \in Nat /\ Today \in Nat
<1>1. clock \in Nat /\ clock <= clock
  BY ChainAssumption DEF ChainTypes
<1>2. Bucket(clock) \in Nat
  BY <1>1, Buckets
<1> QED
  BY <1>2, Days DEF Today

LEMMA GoneStep ==
    ASSUME ChainTypes, Ordered, Latest, Gone, [Next]_chainVars
    PROVE  Gone'
<1>1. CASE Restart
  BY <1>1, RestartMoves DEF Gone
<1>2. ASSUME NEW x \in Symbols, NEW ts \in 0..MaxInstant, TickEffect(x, ts)
      PROVE  Gone'
  <2>1. ASSUME NEW s \in Symbols, NEW m \in Nat, Upcoming(s, m)'
        PROVE  m <= Bucket(clock')
    <3>1. CASE Upcoming(s, m)
      BY <1>2, <3>1, ClockMoves DEF Gone
    <3>2. CASE m = Bucket(ts)
      BY <1>2, <3>2, ClockMoves
    <3> QED
      BY <1>2, <2>1, <3>1, <3>2, TickBegins DEF Quiet, Begins
  <2> QED
    BY <1>2, <2>1, ClockMoves DEF Gone
<1>3. CASE clock' = clock /\ Quiet
  BY <1>3, ClockStays DEF Gone, Quiet
<1> QED
  BY <1>1, <1>2, <1>3, ChainMoves DEF Hears, Passes

LEMMA BlindStep ==
    ASSUME Skew = 0, ChainTypes, Ordered, Latest, InTime, Blind, [Next]_chainVars
    PROVE  Blind'
<1>1. CASE Restart
  <2>1. /\ clock' = clock
        /\ blind' = IF PostRange(Bucket(clock)) THEN blind \cup {Today} ELSE blind
        /\ \A s \in Symbols : orb'[s].day = -1
    BY <1>1 DEF Restart, Idle, Fresh
  <2>2. \A s \in Symbols, m \in Nat : ~Upcoming(s, m)'
    BY <1>1, RestartMoves
  <2>3. blind' \subseteq Nat
    BY <1>1, RestartMoves DEF ChainTypes
  <2> SUFFICES ASSUME NEW d \in blind'
               PROVE  /\ d < Today' \/ (d = Today' /\ PostRange(Bucket(clock))')
                      /\ \A s \in Symbols : orb'[s].day = d => orb'[s].high = NoPrice
                      /\ \A s \in Symbols, m \in Nat : Upcoming(s, m)' /\ Day(m) = d => PostRange(m)
    BY DEF Blind
  <2>4. d < Today \/ (d = Today /\ PostRange(Bucket(clock)))
    BY <2>1 DEF Blind
  <2>5. PostRange(Bucket(clock))' <=> PostRange(Bucket(clock))
    BY <2>1 DEF PostRange, Hour, Bucket
  <2>6. \A s \in Symbols : orb'[s].day # d
    BY <2>1, <2>3
  <2> QED
    BY <2>1, <2>2, <2>4, <2>5, <2>6, ClockStays
<1>2. ASSUME NEW x \in Symbols, NEW ts \in 0..MaxInstant, TickEffect(x, ts)
      PROVE  Blind'
  <2> SUFFICES ASSUME NEW d \in blind'
               PROVE  /\ d < Today' \/ (d = Today' /\ PostRange(Bucket(clock))')
                      /\ \A s \in Symbols : orb'[s].day = d => orb'[s].high = NoPrice
                      /\ \A s \in Symbols, m \in Nat : Upcoming(s, m)' /\ Day(m) = d => PostRange(m)
    BY DEF Blind
  <2>1. d \in blind /\ d \in Nat /\ orb' = orb
    BY <1>2 DEF TickEffect, ChainTypes
  <2>2. PostRange(Bucket(clock))' <=> PostRange(Bucket(clock'))
    BY DEF PostRange, Hour, Bucket
  <2>3. d < Today \/ (d = Today /\ PostRange(Bucket(clock)))
    BY <2>1 DEF Blind
  <2>4. d < Today' \/ (d = Today' /\ PostRange(Bucket(clock))')
    <3>1. /\ Today \in Nat /\ Today' \in Nat /\ Today <= Today'
          /\ Today = Today' /\ PostRange(Bucket(clock)) => PostRange(Bucket(clock'))
      BY <1>2, ClockMoves
    <3> QED
      BY <2>1, <2>2, <2>3, <3>1
  <2>5. \A s \in Symbols : orb'[s].day = d => orb'[s].high = NoPrice
    BY <2>1 DEF Blind
  <2>6. ASSUME NEW s \in Symbols, NEW m \in Nat, Upcoming(s, m)', Day(m) = d
        PROVE  PostRange(m)
    <3>1. CASE Upcoming(s, m)
      BY <2>1, <2>6, <3>1 DEF Blind
    <3>2. CASE m = Bucket(ts)
      <4>1. Bucket(clock) \in Nat /\ Bucket(clock) <= m
        BY <1>2, <3>2, ClockMoves
      <4>2. Today <= d /\ (Today = d /\ PostRange(Bucket(clock)) => PostRange(m))
        BY <2>6, <4>1, Onwards DEF Today
      <4>3. Today \in Nat
        BY ClockTyped
      <4> QED
        BY <2>1, <2>3, <4>2, <4>3
    <3> QED
      BY <1>2, <2>6, <3>1, <3>2, TickBegins DEF Quiet, Begins
  <2> QED
    BY <2>4, <2>5, <2>6
<1>3. ASSUME NEW bar, Hears(bar)
      PROVE  Blind'
  <2>1. /\ bar \in ClosedBars /\ clock' = clock /\ blind' = blind /\ Quiet
        /\ Upcoming(bar.symbol, bar.minute)
        /\ orb'[bar.symbol] = After(Found(bar), bar)
        /\ \A s \in Symbols : s # bar.symbol => orb'[s] = orb[s]
    BY <1>3 DEF Hears
  <2>2. /\ bar.symbol \in Symbols /\ bar.minute \in Nat
        /\ Found(bar) \in Ranges /\ Found(bar).day = Day(bar.minute)
        /\ orb[bar.symbol].day = Day(bar.minute) => Found(bar) = orb[bar.symbol]
        /\ orb[bar.symbol].day # Day(bar.minute) => Found(bar) = Fresh(Day(bar.minute))
    BY <2>1, FoundRange
  <2>3. /\ After(Found(bar), bar).day = Day(bar.minute)
        /\ ~InRange(bar.minute) => After(Found(bar), bar).high = Found(bar).high
    BY <2>1, <2>2, AfterBar
  <2>4. ASSUME NEW d \in blind, orb'[bar.symbol].day = d
        PROVE  orb'[bar.symbol].high = NoPrice
    <3>1. Day(bar.minute) = d
      BY <2>1, <2>3, <2>4
    <3>2. PostRange(bar.minute)
      BY <2>1, <2>2, <3>1 DEF Blind
    <3>3. ~InRange(bar.minute)
      BY <2>2, <3>2, Days
    <3>4. Found(bar).high = NoPrice
      BY <2>2, <3>1 DEF Blind, Fresh
    <3> QED
      BY <2>1, <2>3, <3>3, <3>4
  <2>5. /\ \A s \in Symbols, m \in Nat : Upcoming(s, m)' => Upcoming(s, m)
        /\ Today' = Today
    BY <2>1, ClockStays DEF Quiet
  <2>6. PostRange(Bucket(clock))' <=> PostRange(Bucket(clock))
    BY <2>1 DEF PostRange, Hour, Bucket
  <2> SUFFICES ASSUME NEW d \in blind'
               PROVE  /\ d < Today' \/ (d = Today' /\ PostRange(Bucket(clock))')
                      /\ \A s \in Symbols : orb'[s].day = d => orb'[s].high = NoPrice
                      /\ \A s \in Symbols, m \in Nat : Upcoming(s, m)' /\ Day(m) = d => PostRange(m)
    BY DEF Blind
  <2>7. d \in blind
    BY <2>1
  <2>8. d < Today' \/ (d = Today' /\ PostRange(Bucket(clock))')
    BY <2>5, <2>6, <2>7 DEF Blind
  <2>9. \A s \in Symbols : orb'[s].day = d => orb'[s].high = NoPrice
    BY <2>1, <2>4, <2>7 DEF Blind
  <2>10. \A s \in Symbols, m \in Nat : Upcoming(s, m)' /\ Day(m) = d => PostRange(m)
    BY <2>5, <2>7 DEF Blind
  <2> QED
    BY <2>8, <2>9, <2>10
<1>4. CASE Passes
  <2>1. /\ clock' = clock /\ blind' = blind /\ orb' = orb /\ Today' = Today
        /\ \A s \in Symbols, m \in Nat : Upcoming(s, m)' => Upcoming(s, m)
    BY <1>4, ClockStays DEF Passes, Quiet
  <2>2. PostRange(Bucket(clock))' <=> PostRange(Bucket(clock))
    BY <2>1 DEF PostRange, Hour, Bucket
  <2> QED
    BY <2>1, <2>2 DEF Blind
<1> QED
  BY <1>1, <1>2, <1>3, <1>4, ChainMoves

\* A spent signal stays spent: the strategy forgets it in a restart only, which
\* makes the day a blind one or a past one.
LEMMA SpentStep ==
    ASSUME Skew = 0, ChainTypes, Ordered, Latest, InTime, [Next]_chainVars,
           NEW s \in Symbols, NEW k \in Nat, k <= Bucket(clock), PostRange(k), Spent(s, Day(k))
    PROVE  Spent(s, Day(k))'
<1> PICK d : d = Day(k)
  OBVIOUS
<1>1. d \in Nat /\ Today \in Nat /\ Bucket(clock) \in Nat /\ d <= Today
  BY Days, Onwards, ClockTyped DEF Today
<1>2. Spent(s, d)
  OBVIOUS
<1> SUFFICES Spent(s, d)'
  BY DEF Spent
<1>3. CASE Restart
  <2>1. /\ blind' = IF PostRange(Bucket(clock)) THEN blind \cup {Today} ELSE blind
        /\ Today' = Today
    BY <1>3, ClockStays DEF Restart
  <2>2. \A m \in Nat : ~Upcoming(s, m)'
    BY <1>3, RestartMoves
  <2>3. CASE d = Today
    <3>1. PostRange(Bucket(clock))
      BY <1>1, <2>3, Onwards DEF Today
    <3> QED
      BY <2>1, <2>3, <3>1 DEF Spent
  <2>4. CASE d # Today
    <3>1. d < Today'
      BY <1>1, <2>1, <2>4
    <3> QED
      BY <2>2, <3>1 DEF Spent
  <2> QED
    BY <2>3, <2>4
<1>4. ASSUME NEW x \in Symbols, NEW ts \in 0..MaxInstant, TickEffect(x, ts)
      PROVE  Spent(s, d)'
  <2>1. orb' = orb /\ blind' = blind
    BY <1>4 DEF TickEffect
  <2>2. CASE d \in blind \/ d < orb[s].day \/ (d = orb[s].day /\ orb[s].signaled)
    BY <2>1, <2>2 DEF Spent
  <2>3. CASE d < Today /\ \A m \in Nat : Upcoming(s, m) => d < Day(m)
    <3>1. d < Today'
      BY <1>1, <1>4, <2>3, ClockMoves
    <3>2. ASSUME NEW m \in Nat, Upcoming(s, m)'
          PROVE  d < Day(m)
      <4>1. CASE Upcoming(s, m)
        BY <2>3, <4>1
      <4>2. CASE m = Bucket(ts)
        <5>1. Bucket(clock) <= m
          BY <1>4, <4>2, ClockMoves
        <5>2. Today <= Day(m) /\ Day(m) \in Nat
          BY <1>1, <5>1, Onwards, Days DEF Today
        <5> QED
          BY <1>1, <2>3, <5>2
      <4> QED
        BY <1>4, <3>2, <4>1, <4>2, TickBegins DEF Quiet, Begins
    <3> QED
      BY <3>1, <3>2 DEF Spent
  <2> QED
    BY <1>2, <2>2, <2>3 DEF Spent
<1>5. ASSUME NEW bar, Hears(bar)
      PROVE  Spent(s, d)'
  <2>1. /\ bar \in ClosedBars /\ clock' = clock /\ blind' = blind
        /\ orb'[bar.symbol] = After(Found(bar), bar)
        /\ s # bar.symbol => orb'[s] = orb[s]
        /\ \A m \in Nat : Upcoming(s, m)' => Upcoming(s, m)
        /\ Today' = Today
    BY <1>5, ClockStays DEF Hears, Quiet
  <2>2. CASE d \in blind
    BY <2>1, <2>2 DEF Spent
  <2>3. CASE d < orb[s].day \/ (d = orb[s].day /\ orb[s].signaled)
    <3>1. CASE s # bar.symbol
      <4>1. orb'[s] = orb[s]
        BY <2>1, <3>1
      <4> QED
        BY <2>3, <4>1, Zenon DEF Spent
    <3>2. CASE s = bar.symbol
      <4>1. /\ orb'[s].day = Day(bar.minute) /\ orb[s].day <= orb'[s].day
            /\ orb[s].day \in Int /\ orb'[s].day \in Int
        BY <1>5, <3>2, HeardInTime DEF Ranges
      <4>2. CASE d < orb'[s].day
        BY <4>2 DEF Spent
      <4>3. CASE ~(d < orb'[s].day)
        <5>1. d = orb[s].day /\ orb[s].day = Day(bar.minute) /\ orb[s].signaled
          BY <1>1, <2>3, <4>1, <4>3
        <5>2. Found(bar) = orb[s] /\ Found(bar) \in Ranges /\ Found(bar).day = Day(bar.minute)
          BY <2>1, <3>2, <5>1, FoundRange
        <5>3. Found(bar).signaled => After(Found(bar), bar).signaled
          BY <2>1, <5>2, AfterBar
        <5>4. orb'[s].signaled
          BY <2>1, <3>2, <5>1, <5>2, <5>3, Zenon
        <5>5. d = orb'[s].day
          BY <4>1, <5>1
        <5> QED
          BY <5>4, <5>5 DEF Spent
      <4> QED
        BY <4>2, <4>3
    <3> QED
      BY <3>1, <3>2
  <2>4. CASE d < Today /\ \A m \in Nat : Upcoming(s, m) => d < Day(m)
    BY <2>1, <2>4 DEF Spent
  <2> QED
    BY <1>2, <2>2, <2>3, <2>4 DEF Spent
<1>6. CASE Passes
  BY <1>2, <1>6, ClockStays DEF Passes, Quiet, Spent
<1> QED
  BY <1>3, <1>4, <1>5, <1>6, ChainMoves

\* What raising a signal takes, and what it leaves.
LEMMA SignalFresh ==
    ASSUME ChainTypes, InTime, Blind, NEW bar, Hears(bar), Signals(bar),
           NEW s, s = bar.symbol, NEW d, d = Day(bar.minute)
    PROVE  /\ s \in Symbols /\ bar.minute \in Nat /\ PostRange(bar.minute)
           /\ d \notin blind
           /\ ~Spent(s, d)
           /\ Spent(s, d)'
<1>1. /\ bar \in ClosedBars /\ orb'[bar.symbol] = After(Found(bar), bar)
      /\ Upcoming(bar.symbol, bar.minute)
      /\ PostRange(bar.minute) /\ BreaksOut(Found(bar), bar)
  BY DEF Hears, Signals
<1>2. /\ s \in Symbols /\ bar.minute \in Nat
      /\ Found(bar) \in Ranges /\ Found(bar).day = d
      /\ orb[s].day = d => Found(bar) = orb[s]
      /\ orb[s].day # d => Found(bar) = Fresh(d)
      /\ d \in Nat /\ orb[s].day \in Int
  BY <1>1, FoundRange, Days DEF Ranges
<1>3. Found(bar).high # NoPrice /\ ~Found(bar).signaled
  BY <1>1 DEF BreaksOut
<1>4. orb[s].day = d
  <2>1. CASE orb[s].day # d
    BY <1>2, <1>3, <2>1 DEF Fresh
  <2> QED
    BY <2>1
<1>5. orb[s].high # NoPrice /\ ~orb[s].signaled
  <2>1. Found(bar) = orb[s]
    BY <1>2, <1>4
  <2> QED
    BY <1>3, <2>1, Zenon
<1>6. d \notin blind
  BY <1>2, <1>4, <1>5 DEF Blind
<1>7. ~Spent(s, d)
  <2>1. ~(d < orb[s].day)
    BY <1>2, <1>4
  <2>2. ~(\A m \in Nat : Upcoming(s, m) => d < Day(m))
    BY <1>1, <1>2
  <2> QED
    BY <1>5, <1>6, <2>1, <2>2, Zenon DEF Spent
<1>8. orb'[s].day = d /\ orb'[s].signaled
  <2>1. /\ After(Found(bar), bar).day = d
        /\ PostRange(bar.minute) /\ BreaksOut(Found(bar), bar) => After(Found(bar), bar).signaled
    BY <1>1, <1>2, AfterBar
  <2>2. orb'[s] = After(Found(bar), bar)
    BY <1>1
  <2> QED
    BY <1>1, <2>1, <2>2, Zenon
<1>9. Spent(s, d)'
  BY <1>8 DEF Spent
<1> QED
  BY <1>1, <1>2, <1>6, <1>7, <1>9

LEMMA RaisedTyped ==
    ASSUME ChainTypes, NEW i \in DOMAIN raised
    PROVE  raised[i].symbol \in Symbols /\ raised[i].minute \in Nat
<1>1. raised[i] \in SignalSet
  BY DEF ChainTypes
<1> QED
  BY <1>1 DEF SignalSet

LEMMA OnceStep ==
    ASSUME Skew = 0, ChainTypes, Ordered, Latest, InTime, Gone, Blind, Once, [Next]_chainVars
    PROVE  Once'
<1>1. Bucket(clock)' \in Nat /\ Bucket(clock) <= Bucket(clock)'
  <2>1. CASE clock' = clock
    BY <2>1, ClockStays, ClockTyped
  <2>2. ASSUME NEW x \in Symbols, NEW ts \in 0..MaxInstant, TickEffect(x, ts)
        PROVE  Bucket(clock)' \in Nat /\ Bucket(clock) <= Bucket(clock)'
    BY <2>2, ClockMoves
  <2> QED
    BY <2>1, <2>2, ChainMoves DEF Restart, Hears, Passes
<1>2. ASSUME NEW i \in DOMAIN raised, NEW s, NEW k, s = raised[i].symbol, k = raised[i].minute
      PROVE  k <= Bucket(clock)' /\ PostRange(k) /\ Spent(s, Day(k))'
  <2>1. s \in Symbols /\ k \in Nat
    BY <1>2, RaisedTyped
  <2>2. k <= Bucket(clock) /\ PostRange(k) /\ Spent(s, Day(k))
    BY <1>2 DEF Once
  <2> QED
    BY <1>1, <2>1, <2>2, SpentStep, ClockTyped
<1>3. ASSUME NEW bar, Hears(bar), Signals(bar), NEW s, NEW k, s = bar.symbol, k = bar.minute
      PROVE  k <= Bucket(clock)' /\ PostRange(k) /\ Spent(s, Day(k))'
  <2>1. s \in Symbols /\ k \in Nat /\ PostRange(k) /\ Spent(s, Day(k))'
    BY <1>3, SignalFresh
  <2>2. k <= Bucket(clock)
    BY <1>3, <2>1 DEF Hears, Gone
  <2> QED
    BY <1>1, <2>1, <2>2, ClockTyped
<1>4. ASSUME NEW i \in DOMAIN raised', NEW s, NEW k, s = raised'[i].symbol, k = raised'[i].minute
      PROVE  k <= Bucket(clock)' /\ PostRange(k) /\ Spent(s, Day(k))'
  <2>1. CASE raised' = raised
    BY <1>2, <1>4, <2>1
  <2>2. ASSUME NEW bar, Hears(bar), Signals(bar)
        PROVE  k <= Bucket(clock)' /\ PostRange(k) /\ Spent(s, Day(k))'
    <3>1. PICK sig : sig = Signal(bar)
      OBVIOUS
    <3>2. /\ raised \in Seq(SignalSet) /\ raised' = Append(raised, sig)
          /\ sig.symbol = bar.symbol /\ sig.minute = bar.minute
      BY <2>2, <3>1 DEF Hears, ChainTypes, Signal, Breakout
    <3>3. \/ i \in DOMAIN raised /\ raised'[i] = raised[i]
          \/ raised'[i] = sig
      BY <1>4, <3>2
    <3>4. CASE i \in DOMAIN raised /\ raised'[i] = raised[i]
      BY <1>2, <1>4, <3>4
    <3>5. CASE raised'[i] = sig
      BY <1>3, <1>4, <2>2, <3>2, <3>5
    <3> QED
      BY <3>3, <3>4, <3>5
  <2>3. raised' = raised \/ \E bar : Hears(bar) /\ Signals(bar)
    BY ChainMoves DEF Restart, TickEffect, Hears, Passes
  <2> QED
    BY <2>1, <2>2, <2>3
<1> SUFFICES ASSUME NEW i \in DOMAIN raised'
             PROVE  /\ raised'[i].minute <= Bucket(clock)' /\ PostRange(raised'[i].minute)
                    /\ Spent(raised[i].symbol, Day(raised[i].minute))'
  BY DEF Once, PostRange, Hour
<1> PICK s, k : s = raised'[i].symbol /\ k = raised'[i].minute
  OBVIOUS
<1>5. k <= Bucket(clock)' /\ PostRange(k) /\ Spent(s, Day(k))'
  BY <1>4
<1> QED
  BY <1>5 DEF Spent, Day

\* The inductive invariant of a clock that is never set back.
LEMMA SourceInvariant ==
    ASSUME Skew = 0
    PROVE  Spec => []SourceInv
<1>1. ASSUME Init PROVE Gone /\ Blind /\ Once
  <2>1. /\ agg = Empty /\ barQ = <<>> /\ waiting = NoBar /\ raised = <<>> /\ blind = {}
    BY <1>1 DEF Init
  <2>2. \A s \in Symbols, m \in Nat : ~Upcoming(s, m)
    BY <2>1 DEF Upcoming, Coming, Empty
  <2> QED
    BY <2>1, <2>2 DEF Gone, Blind, Once
<1>2. ChainInv /\ Gone /\ Blind /\ Once /\ [Next]_chainVars => Gone' /\ Blind' /\ Once'
  BY GoneStep, BlindStep, OnceStep DEF ChainInv
<1>3. SourceInv <=> ChainInv /\ (Gone /\ Blind /\ Once)
  BY DEF SourceInv
<1> QED
  BY <1>1, <1>2, <1>3, ChainInvariant, PTL DEF Spec

LEMMA AllAlive ==
    ASSUME MaxDeaths = 0
    PROVE  Spec => [](tasks = Consumers)
<1>1. Init => tasks = Consumers
  BY DEF Init
<1>2. tasks = Consumers /\ [Next]_chainVars => (tasks = Consumers)'
  <2> SUFFICES ASSUME tasks = Consumers, [Next]_chainVars
               PROVE  tasks' = Consumers
    OBVIOUS
  <2>1. \A task : ~MayDie(task)
    <3>1. Consumers \ tasks = {}
      OBVIOUS
    <3>2. Cardinality(Consumers \ tasks) = 0
      BY <3>1, FS_EmptySet
    <3> QED
      BY <3>2 DEF MayDie
  <2>2. ~TickConsumerDies /\ ~BarConsumerDies
    BY <2>1 DEF TickConsumerDies, BarConsumerDies
  <2>3. ASSUME NEW s \in Symbols, NEW ltp \in Prices, NEW ts \in 0..MaxInstant,
               NEW n \in {-Stale, 0, Lot}, TakeTick(s, ltp, ts, n)
        PROVE  tasks' = tasks
    BY <2>3, Zenon DEF TakeTick
  <2>4. PutBar => tasks' = tasks
    BY DEF PutBar
  <2>5. TakeBar => tasks' = tasks
    BY Zenon DEF TakeBar
  <2>6. Restart => tasks' = Consumers
    BY DEF Restart
  <2>7. UNCHANGED chainVars => tasks' = tasks
    BY DEF chainVars
  <2> QED
    BY <2>2, <2>3, <2>4, <2>5, <2>6, <2>7, Zenon DEF Next
<1> QED
  BY <1>1, <1>2, PTL DEF Spec

\* The signals as SignalSource has them, and how they grow.
Pairs(signals) == [i \in DOMAIN signals |-> <<signals[i].symbol, Day(signals[i].minute)>>]

LEMMA PairsGrow ==
    ASSUME NEW S, NEW signals \in Seq(S), NEW sig \in S,
           NEW more, more = Append(signals, sig)
    PROVE  Pairs(more) = Append(Pairs(signals), <<sig.symbol, Day(sig.minute)>>)
<1> DEFINE last == <<sig.symbol, Day(sig.minute)>>
<1>1. /\ DOMAIN more = 1..(Len(signals) + 1) /\ DOMAIN signals = 1..Len(signals)
      /\ \A i \in 1..Len(signals) : more[i] = signals[i]
      /\ more[Len(signals) + 1] = sig /\ Len(signals) \in Nat
  BY AppendProperties
<1> PICK T : T = {<<signals[i].symbol, Day(signals[i].minute)>> : i \in DOMAIN signals} \cup {last}
  OBVIOUS
<1>2. /\ Pairs(signals) \in Seq(T) /\ Len(Pairs(signals)) = Len(signals) /\ last \in T
      /\ \A i \in 1..Len(signals) :
            Pairs(signals)[i] = <<signals[i].symbol, Day(signals[i].minute)>>
  BY <1>1 DEF Pairs
<1> HIDE DEF last
<1>3. /\ Append(Pairs(signals), last) \in Seq(T)
      /\ Len(Append(Pairs(signals), last)) = Len(signals) + 1
      /\ \A i \in 1..Len(signals) : Append(Pairs(signals), last)[i] = Pairs(signals)[i]
      /\ Append(Pairs(signals), last)[Len(signals) + 1] = last
  BY <1>2, AppendProperties
<1>4. /\ DOMAIN Pairs(more) = 1..(Len(signals) + 1)
      /\ \A i \in 1..Len(signals) :
            Pairs(more)[i] = <<signals[i].symbol, Day(signals[i].minute)>>
      /\ Pairs(more)[Len(signals) + 1] = last
  BY <1>1 DEF Pairs, last
<1>5. \A i \in 1..(Len(signals) + 1) : Pairs(more)[i] = Append(Pairs(signals), last)[i]
  <2> TAKE i \in 1..(Len(signals) + 1)
  <2>1. i \in 1..Len(signals) \/ i = Len(signals) + 1
    BY <1>1
  <2>2. CASE i \in 1..Len(signals)
    <3>1. Pairs(more)[i] = <<signals[i].symbol, Day(signals[i].minute)>>
      BY <1>4, <2>2, Zenon
    <3>2. Append(Pairs(signals), last)[i] = <<signals[i].symbol, Day(signals[i].minute)>>
      BY <1>2, <1>3, <2>2, Zenon
    <3> QED
      BY <3>1, <3>2
  <2> QED
    BY <1>3, <1>4, <2>1, <2>2
<1>6. DOMAIN Append(Pairs(signals), last) = 1..(Len(signals) + 1)
  BY <1>3
<1>7. /\ Pairs(more) = [i \in 1..(Len(signals) + 1) |-> Pairs(more)[i]]
      /\ Append(Pairs(signals), last) = [i \in 1..(Len(signals) + 1) |-> Append(Pairs(signals), last)[i]]
  BY <1>3, <1>4, <1>6 DEF Pairs
<1>8. Pairs(more) = Append(Pairs(signals), last)
  BY <1>5, <1>7
<1> QED
  BY <1>8 DEF last

LEMMA SourceAdvances ==
    ASSUME ChainTypes, NEW x \in Symbols, NEW ts \in 0..MaxInstant, TickEffect(x, ts)
    PROVE  Source!Advance
<1>1. /\ Bucket(clock) \in Nat /\ Bucket(clock') \in Nat /\ Bucket(clock) <= Bucket(clock')
      /\ Bucket(clock)' = Bucket(clock')
  BY ClockMoves
<1>2. Bucket(MaxInstant) \in Nat /\ Bucket(clock') <= Bucket(MaxInstant)
  <2>1. clock' \in Nat /\ MaxInstant \in Nat /\ clock' <= MaxInstant
    BY ChainAssumption DEF TickEffect
  <2> QED
    BY <2>1, Buckets
<1>3. raised' = raised /\ blind' = blind
  BY DEF TickEffect
<1>4. [i \in DOMAIN raised |-> <<raised[i].symbol, Day(raised[i].minute)>>]'
        = [i \in DOMAIN raised |-> <<raised[i].symbol, Day(raised[i].minute)>>]
  BY <1>3 DEF Day
<1> QED
  BY <1>1, <1>2, <1>3, <1>4 DEF Source!Advance

LEMMA SourceRestarts ==
    ASSUME Restart
    PROVE  Source!Restart
<1>1. /\ clock' = clock /\ raised' = raised
      /\ blind' = IF PostRange(Bucket(clock)) THEN blind \cup {Today} ELSE blind
  BY DEF Restart
<1>2. /\ [i \in DOMAIN raised |-> <<raised[i].symbol, Day(raised[i].minute)>>]'
           = [i \in DOMAIN raised |-> <<raised[i].symbol, Day(raised[i].minute)>>]
      /\ Bucket(clock)' = Bucket(clock)
  BY <1>1, ClockStays DEF Day
<1>3. /\ PostRange(Bucket(clock)) <=> Source!AfterRange(Bucket(clock))
      /\ Today = Source!DayOf(Bucket(clock))
  BY DEF PostRange, Hour, Today, Day, Source!AfterRange, Source!DayOf
<1> QED
  BY <1>1, <1>2, <1>3 DEF Source!Restart

LEMMA SourceRaises ==
    ASSUME SourceInv, tasks = Consumers, TakeBar, NEW bar, bar = Head(barQ), Hears(bar),
           Signals(bar)
    PROVE  \E s \in Symbols, minute \in 0..Bucket(MaxInstant) : Source!Raise(s, minute)
<1> PICK s, m, d : s = bar.symbol /\ m = bar.minute /\ d = Day(bar.minute)
  OBVIOUS
<1>1. ChainTypes /\ Ordered /\ Latest /\ InTime /\ Blind /\ Once
  BY DEF SourceInv, ChainInv
<1>2. /\ s \in Symbols /\ m \in Nat /\ PostRange(m) /\ d \notin blind /\ ~Spent(s, d)
  BY <1>1, SignalFresh
<1>3. m < Bucket(clock)
  <2>1. bar \in Coming /\ "tick-consumer" \in tasks
    BY <1>1, BarTaken DEF TakeBar, Consumers
  <2>2. agg[s] # NoBar /\ m < agg[s].minute /\ agg[s].minute <= Bucket(clock)
    BY <1>1, <1>2, <2>1 DEF Latest
  <2>3. agg[s].minute \in Nat /\ Bucket(clock) \in Nat
    BY <1>1, <1>2, <2>2, ClockTyped DEF ChainTypes, Bars
  <2> QED
    BY <1>2, <2>2, <2>3
<1>4. m \in 0..Bucket(MaxInstant)
  <2>1. clock \in Nat /\ MaxInstant \in Nat /\ clock <= MaxInstant
    BY <1>1, ChainAssumption DEF ChainTypes
  <2>2. /\ Bucket(clock) \in Nat /\ Bucket(MaxInstant) \in Nat
        /\ Bucket(clock) <= Bucket(MaxInstant)
    BY <2>1, Buckets
  <2> QED
    BY <1>2, <1>3, <2>2
<1>5. \A i \in DOMAIN raised : <<raised[i].symbol, Day(raised[i].minute)>> # <<s, d>>
  <2> SUFFICES ASSUME NEW i \in DOMAIN raised, raised[i].symbol = s, Day(raised[i].minute) = d
               PROVE  FALSE
    OBVIOUS
  <2>1. Spent(s, d)
    BY <1>1 DEF Once
  <2> QED
    BY <1>2, <2>1
<1>6. /\ clock' = clock /\ blind' = blind /\ raised \in Seq(SignalSet)
      /\ raised' = Append(raised, Signal(bar))
  BY <1>1 DEF Hears, ChainTypes
<1>7. Signal(bar) \in SignalSet /\ Signal(bar).symbol = s /\ Signal(bar).minute = m
  <2>1. bar \in ClosedBars /\ BreaksOut(Found(bar), bar)
    BY DEF Hears, Signals
  <2> QED
    BY <1>1, <2>1, FoundRange, BreakoutSignal DEF Signal
<1>8. Pairs(raised)' = Append(Pairs(raised), <<s, d>>)
  <2> PICK sig, more : sig = Signal(bar) /\ more = raised'
    OBVIOUS
  <2>1. sig \in SignalSet /\ sig.symbol = s /\ sig.minute = m /\ more = Append(raised, sig)
    BY <1>6, <1>7
  <2>2. Pairs(more) = Append(Pairs(raised), <<sig.symbol, Day(sig.minute)>>)
    BY <1>6, <2>1, PairsGrow
  <2>3. Pairs(raised)' = Pairs(more)
    BY DEF Pairs, Day
  <2> QED
    BY <2>1, <2>2, <2>3
<1>9. Bucket(clock)' = Bucket(clock)
  BY <1>6, ClockStays
<1>10. /\ Source!AfterRange(m) <=> PostRange(m)
       /\ Source!DayOf(m) = d
  BY DEF PostRange, Hour, Day, Source!AfterRange, Source!DayOf
<1>11. Source!Raise(s, m)
  <2>1. \A i \in DOMAIN Pairs(raised) : Pairs(raised)[i] # <<s, d>>
    BY <1>5 DEF Pairs
  <2> QED
    BY <1>2, <1>3, <1>6, <1>8, <1>9, <1>10, <2>1 DEF Source!Raise, Pairs
<1> QED
  BY <1>2, <1>4, <1>11

\* With a clock that is never set back and no consumer dead, the chain is what
\* the engine counts on: one signal a symbol and day, of a minute gone by, none
\* on a day the process came too late for.
THEOREM SourceCorrect ==
    ASSUME Skew = 0, MaxDeaths = 0
    PROVE  Spec => SourceSpec
<1>1. ASSUME Init PROVE Source!Init
  <2>1. clock = 0 /\ raised = <<>> /\ blind = {}
    BY <1>1 DEF Init
  <2>2. Bucket(clock) = 0
    <3>1. Bucket(0) \in Nat /\ 0 = MinuteLength * (0 \div MinuteLength) + (0 % MinuteLength)
      BY Quotient, AggregatorAssumption DEF Bucket
    <3> QED
      BY <2>1, AggregatorAssumption DEF Bucket
  <2>3. [i \in DOMAIN raised |-> <<raised[i].symbol, Day(raised[i].minute)>>] = <<>>
    BY <2>1
  <2> QED
    BY <2>1, <2>2, <2>3 DEF Source!Init
<1>2. ASSUME SourceInv, tasks = Consumers, [Next]_chainVars
      PROVE  [Source!Next]_(Source!vars)
  <2>1. ChainTypes /\ Ordered /\ Latest
    BY <1>2 DEF SourceInv, ChainInv
  <2>2. CASE Restart
    BY <2>2, SourceRestarts DEF Source!Next
  <2>3. ASSUME NEW x \in Symbols, NEW ts \in 0..MaxInstant, TickEffect(x, ts)
        PROVE  Source!Next
    BY <2>1, <2>3, SourceAdvances DEF Source!Next
  <2>4. ASSUME TakeBar, NEW bar, bar = Head(barQ), Hears(bar), Signals(bar)
        PROVE  Source!Next
    BY <1>2, <2>4, SourceRaises DEF Source!Next
  <2>5. CASE clock' = clock /\ raised' = raised /\ blind' = blind
    <3>1. [i \in DOMAIN raised |-> <<raised[i].symbol, Day(raised[i].minute)>>]'
            = [i \in DOMAIN raised |-> <<raised[i].symbol, Day(raised[i].minute)>>]
      BY <2>5 DEF Day
    <3> QED
      BY <2>5, <3>1, ClockStays DEF Source!vars
  <2>6. ASSUME NEW bar, Hears(bar), ~Signals(bar)
        PROVE  clock' = clock /\ raised' = raised /\ blind' = blind
    BY <2>6 DEF Hears
  <2>7. CASE Passes
    BY <2>5, <2>7 DEF Passes
  <2> QED
    BY <1>2, <2>1, <2>2, <2>3, <2>4, <2>5, <2>6, <2>7, ChainMoves
<1> QED
  BY <1>1, <1>2, SourceInvariant, AllAlive, PTL DEF Spec, SourceSpec, Source!Spec

-----------------------------------------------------------------------------
\* The range is made of the bars heard.

LEMMA SpansWider ==
    ASSUME NEW st \in Ranges, NEW bars, bars \subseteq ClosedBars, NEW bar \in ClosedBars,
           Spans(st.high, st.low, bars)
    PROVE  Spans(Widened(st, bar).high, Widened(st, bar).low, bars \cup {bar})
<1> PICK wide : wide = Widened(st, bar)
  OBVIOUS
<1>1. /\ wide \in Ranges /\ bar.high <= wide.high /\ wide.low <= bar.low
      /\ st.high = NoPrice => wide.high = bar.high /\ wide.low = bar.low
      /\ st.high # NoPrice =>
            /\ wide.high \in {st.high, bar.high} /\ st.high <= wide.high
            /\ wide.low \in {st.low, bar.low} /\ wide.low <= st.low
  BY WidenedRange
<1>2. /\ \A b \in bars \cup {bar} : b.high \in Nat /\ b.low \in Nat
      /\ wide.high \in Int /\ wide.low \in Int /\ st.high \in Int /\ st.low \in Int
  BY <1>1 DEF ClosedBars, Ranges
<1>3. CASE bars = {}
  BY <1>1, <1>2, <1>3 DEF Spans
<1>4. CASE bars # {}
  <2>1. /\ \A b \in bars : b.high <= st.high /\ st.low <= b.low
        /\ \E b \in bars : b.high = st.high
        /\ \E b \in bars : b.low = st.low
    BY <1>4 DEF Spans
  <2>2. st.high # NoPrice
    BY <1>2, <2>1 DEF NoPrice
  <2>3. \A b \in bars \cup {bar} : b.high <= wide.high /\ wide.low <= b.low
    BY <1>1, <1>2, <2>1, <2>2
  <2>4. \E b \in bars \cup {bar} : b.high = wide.high
    BY <1>1, <2>1, <2>2
  <2>5. \E b \in bars \cup {bar} : b.low = wide.low
    BY <1>1, <2>1, <2>2
  <2> QED
    BY <2>3, <2>4, <2>5 DEF Spans
<1> QED
  BY <1>3, <1>4

\* What spans the bars is their highest and their lowest price.
LEMMA SpansExtremes ==
    ASSUME NEW high \in Int, NEW low \in Int, NEW bars, bars \subseteq ClosedBars, bars # {},
           Spans(high, low, bars)
    PROVE  high = Max({bar.high : bar \in bars}) /\ low = Min({bar.low : bar \in bars})
<1>1. \A bar \in bars : bar.high \in Int /\ bar.low \in Int
  BY DEF ClosedBars
<1>2. /\ \A bar \in bars : bar.high <= high /\ low <= bar.low
      /\ \E bar \in bars : bar.high = high
      /\ \E bar \in bars : bar.low = low
  BY DEF Spans
<1>3. high = Max({bar.high : bar \in bars})
  <2> DEFINE highs == {bar.high : bar \in bars}
  <2>1. highs \subseteq Int /\ high \in highs /\ \A x \in highs : high >= x
    BY <1>1, <1>2
  <2> HIDE DEF highs
  <2>2. Max(highs) = CHOOSE x \in highs : \A y \in highs : x >= y
    BY DEF Max
  <2>3. Max(highs) \in highs /\ \A y \in highs : Max(highs) >= y
    BY <2>1, <2>2, Zenon
  <2> PICK m : m = Max(highs)
    OBVIOUS
  <2>4. m \in Int /\ m >= high /\ high >= m
    BY <2>1, <2>3
  <2>5. m = high
    BY <2>4
  <2> QED
    BY <2>5 DEF highs
<1>4. low = Min({bar.low : bar \in bars})
  <2> DEFINE lows == {bar.low : bar \in bars}
  <2>1. lows \subseteq Int /\ low \in lows /\ \A x \in lows : low <= x
    BY <1>1, <1>2
  <2> HIDE DEF lows
  <2>2. Min(lows) = CHOOSE x \in lows : \A y \in lows : x <= y
    BY DEF Min
  <2>3. Min(lows) \in lows /\ \A y \in lows : Min(lows) <= y
    BY <2>1, <2>2, Zenon
  <2> PICK m : m = Min(lows)
    OBVIOUS
  <2>4. m \in Int /\ m <= low /\ low <= m
    BY <2>1, <2>3
  <2>5. m = low
    BY <2>4
  <2> QED
    BY <2>5 DEF lows
<1> QED
  BY <1>3, <1>4

\* A bar the strategy hears: of the range, and it is kept; of another minute.
LEMMA HeardNow ==
    ASSUME ChainTypes, InTime, HeardInv, NEW bar, Hears(bar),
           heard' = IF InRange(bar.minute) THEN heard \cup {bar} ELSE heard
    PROVE  HeardInv'
<1> PICK s, d, old, new : s = bar.symbol /\ d = Day(bar.minute) /\ old = orb[s] /\ new = orb'[s]
  OBVIOUS
<1>1. /\ bar \in ClosedBars /\ s \in Symbols
      /\ orb' \in [Symbols -> Ranges] /\ \A x \in Symbols : x # s => orb'[x] = orb[x]
      /\ new = After(Found(bar), bar)
  BY DEF Hears, ClosedBars
<1>2. /\ Found(bar) \in Ranges /\ Found(bar).day = d
      /\ old.day = d => Found(bar) = old
      /\ old.day # d => Found(bar) = Fresh(d)
  BY <1>1, FoundRange
<1>3. new.day = d /\ new \in Ranges /\ old \in Ranges /\ old.day <= d
  BY HeardInTime
<1>4. /\ ~InRange(bar.minute) => new.high = Found(bar).high /\ new.low = Found(bar).low
      /\ InRange(bar.minute) => /\ new.high = Widened(Found(bar), bar).high
                                /\ new.low = Widened(Found(bar), bar).low
  BY <1>1, <1>2, AfterBar
<1>5. heard \subseteq ClosedBars /\ heard' \subseteq ClosedBars
  BY <1>1 DEF HeardInv
<1>6. \A b \in heard' : Day(b.minute) <= orb'[b.symbol].day
  <2> SUFFICES ASSUME NEW b \in heard'
               PROVE  Day(b.minute) <= orb'[b.symbol].day
    OBVIOUS
  <2>1. b.symbol \in Symbols /\ b.minute \in Nat
    BY <1>5 DEF ClosedBars
  <2>2. Day(b.minute) \in Nat /\ d \in Nat /\ old.day \in Int /\ new.day \in Int
    BY <1>1, <1>3, <2>1, Days DEF Ranges, ClosedBars
  <2>3. CASE b = bar
    BY <1>3, <2>2, <2>3
  <2>4. CASE b \in heard
    <3>1. Day(b.minute) <= orb[b.symbol].day
      BY <2>4 DEF HeardInv
    <3>2. CASE b.symbol = s
      BY <1>3, <2>2, <3>1, <3>2
    <3>3. CASE b.symbol # s
      BY <1>1, <2>1, <3>1, <3>3
    <3> QED
      BY <3>2, <3>3
  <2> QED
    BY <2>3, <2>4
<1>7. ASSUME NEW x \in Symbols, x # s
      PROVE  Spans(orb'[x].high, orb'[x].low, Of(heard', x, orb'[x].day))
  <2>1. orb'[x] = orb[x]
    BY <1>1, <1>7
  <2>2. Of(heard', x, orb'[x].day) = Of(heard, x, orb[x].day)
    BY <1>7, <2>1 DEF Of, Day
  <2> QED
    BY <2>1, <2>2 DEF HeardInv
<1>8. Spans(new.high, new.low, Of(heard', s, d))
  <2>1. Spans(Found(bar).high, Found(bar).low, Of(heard, s, d))
    <3>1. CASE old.day = d
      BY <1>1, <1>2, <3>1 DEF HeardInv
    <3>2. CASE old.day # d
      <4>1. Of(heard, s, d) = {}
        <5>1. ASSUME NEW b \in Of(heard, s, d)
              PROVE  FALSE
          <6>1. b \in heard /\ b.symbol = s /\ Day(b.minute) = d
            BY DEF Of
          <6>2. d <= old.day
            BY <6>1 DEF HeardInv
          <6>3. d \in Nat /\ old.day \in Int
            BY <1>1, <1>3, Days DEF Ranges, ClosedBars
          <6> QED
            BY <1>3, <3>2, <6>2, <6>3
        <5> QED
          BY <5>1
      <4>2. Found(bar).high = NoPrice
        BY <1>2, <3>2 DEF Fresh
      <4> QED
        BY <4>1, <4>2 DEF Spans
    <3> QED
      BY <3>1, <3>2
  <2>2. Of(heard, s, d) \subseteq ClosedBars
    BY <1>5 DEF Of
  <2>3. CASE InRange(bar.minute)
    <3>1. Of(heard', s, d) = Of(heard, s, d) \cup {bar}
      BY <2>3 DEF Of, Day
    <3> PICK st, bars : st = Found(bar) /\ bars = Of(heard, s, d)
      OBVIOUS
    <3>2. st \in Ranges /\ bars \subseteq ClosedBars /\ Spans(st.high, st.low, bars)
      BY <1>2, <2>1, <2>2
    <3>3. Spans(Widened(st, bar).high, Widened(st, bar).low, bars \cup {bar})
      BY <1>1, <3>2, SpansWider
    <3>4. new.high = Widened(st, bar).high /\ new.low = Widened(st, bar).low
      BY <1>4, <2>3
    <3> QED
      BY <3>1, <3>3, <3>4
  <2>4. CASE ~InRange(bar.minute)
    <3>1. Of(heard', s, d) = Of(heard, s, d)
      BY <2>4 DEF Of, Day
    <3> QED
      BY <1>4, <2>1, <2>4, <3>1
  <2> QED
    BY <2>3, <2>4
<1> QED
  <2>1. \A x \in Symbols : Spans(orb'[x].high, orb'[x].low, Of(heard', x, orb'[x].day))
    BY <1>3, <1>7, <1>8
  <2> QED
    BY <1>5, <1>6, <2>1 DEF HeardInv, Spans, Of, ClosedBars, Day

LEMMA HeardStep ==
    ASSUME ChainInv, HeardInv, [HeardNext]_<<chainVars, heard>>
    PROVE  HeardInv'
<1>1. ChainTypes /\ Ordered /\ Latest /\ InTime
  BY DEF ChainInv
<1>2. CASE UNCHANGED <<chainVars, heard>>
  BY <1>2 DEF HeardInv, chainVars, Of, Spans, ClosedBars, Day
<1>3. ASSUME orb' = orb, heard' = heard
      PROVE  HeardInv'
  BY <1>3 DEF HeardInv, Of, Spans, ClosedBars, Day
<1>4. CASE HeardNext
  <2>1. /\ Next
        /\ heard' = IF restarts' # restarts THEN {}
                    ELSE IF TakeBar /\ InRange(Head(barQ).minute)
                    THEN heard \cup {Head(barQ)} ELSE heard
    BY <1>4, Zenon DEF HeardNext
  <2>2. CASE Restart
    <3>1. orb' = Idle(Symbols) /\ restarts' = restarts + 1 /\ restarts \in Nat
      BY <1>1, <2>2 DEF Restart, ChainTypes
    <3>2. heard' = {}
      BY <2>1, <3>1
    <3>3. \A s \in Symbols : orb'[s].high = NoPrice
      BY <3>1 DEF Idle, Fresh
    <3> QED
      BY <3>2, <3>3 DEF HeardInv, Of, Spans
  <2>3. CASE TakeBar
    <3>1. PICK bar : bar = Head(barQ) /\ Hears(bar)
      BY <1>1, <2>3, BarHeard
    <3>2. restarts' = restarts
      BY <3>1 DEF Hears
    <3>3. heard' = IF InRange(bar.minute) THEN heard \cup {bar} ELSE heard
      BY <2>1, <2>3, <3>1, <3>2
    <3> QED
      BY <1>1, <3>1, <3>3, HeardNow
  <2>4. CASE ~TakeBar /\ ~Restart
    <3>1. Passes \/ \E s \in Symbols, ts \in 0..MaxInstant : TickEffect(s, ts)
      BY <1>1, <2>1, <2>4, ChainMoves
    <3>2. orb' = orb /\ restarts' = restarts
      BY <3>1 DEF Passes, TickEffect
    <3>3. heard' = heard
      BY <2>1, <2>4, <3>2
    <3> QED
      BY <1>3, <3>2, <3>3
  <2> QED
    BY <2>2, <2>3, <2>4
<1> QED
  BY <1>2, <1>4

\* The range the strategy works with is that of the bars of the opening range
\* it has heard that day, and it has none without them (on_bar, _update_or).
THEOREM RangeIsHeardCorrect == HeardSpec => []RangeIsHeard
<1>1. HeardSpec => []ChainInv
  <2>1. HeardInit => Init
    BY DEF HeardInit
  <2>2. [HeardNext]_<<chainVars, heard>> => [Next]_chainVars
    BY DEF HeardNext
  <2> QED
    BY <2>1, <2>2, ChainInvariant, PTL DEF HeardSpec, Spec
<1>2. HeardInit => HeardInv
  <2> SUFFICES ASSUME heard = {}, orb = Idle(Symbols)
               PROVE  HeardInv
    BY DEF HeardInit, Init
  <2> QED
    BY DEF HeardInv, Spans, Of, Idle, Fresh
<1>3. ChainInv /\ HeardInv /\ [HeardNext]_<<chainVars, heard>> => HeardInv'
  BY HeardStep
<1>4. ASSUME ChainInv, HeardInv
      PROVE  RangeIsHeard
  <2> SUFFICES ASSUME NEW s \in Symbols
               PROVE  IF Of(heard, s, orb[s].day) = {} THEN orb[s].high = NoPrice
                      ELSE /\ orb[s].high = Max({bar.high : bar \in Of(heard, s, orb[s].day)})
                           /\ orb[s].low = Min({bar.low : bar \in Of(heard, s, orb[s].day)})
    BY DEF RangeIsHeard, Of
  <2> PICK bars, high, low :
         bars = Of(heard, s, orb[s].day) /\ high = orb[s].high /\ low = orb[s].low
    OBVIOUS
  <2>1. bars \subseteq ClosedBars /\ Spans(high, low, bars)
    BY <1>4 DEF HeardInv, Of
  <2>2. high \in Int /\ low \in Int
    BY <1>4 DEF ChainInv, ChainTypes, Ranges
  <2>3. bars = {} => high = NoPrice
    BY <2>1 DEF Spans
  <2>4. bars # {} => high = Max({bar.high : bar \in bars}) /\ low = Min({bar.low : bar \in bars})
    BY <2>1, <2>2, SpansExtremes
  <2> QED
    BY <2>3, <2>4, Zenon
<1> QED
  BY <1>1, <1>2, <1>3, <1>4, PTL DEF HeardSpec

-----------------------------------------------------------------------------
\* The volumes of bars.

LEMMA ComingFinite == ASSUME ChainTypes PROVE IsFiniteSet(Coming)
<1> DEFINE S == {barQ[i] : i \in DOMAIN barQ}
           f == [i \in DOMAIN barQ |-> barQ[i]]
<1>1. IsFiniteSet(DOMAIN barQ)
  <2>1. DOMAIN barQ = 1..Len(barQ) /\ Len(barQ) \in Nat
    BY DEF ChainTypes
  <2>2. IsFiniteSet(1..Len(barQ))
    BY <2>1, FS_Interval
  <2> QED
    BY <2>1, <2>2
<1>2. f \in Surjection(DOMAIN barQ, S)
  BY DEF Surjection
<1> HIDE DEF f
<1>3. IsFiniteSet(S)
  BY <1>1, <1>2, FS_Surjection
<1>4. IsFiniteSet(S \cup {waiting})
  BY <1>3, FS_AddElement
<1>5. Coming = S \/ Coming = S \cup {waiting}
  BY DEF Coming
<1> QED
  BY <1>3, <1>4, <1>5

LEMMA FinishedVolume ==
    ASSUME NEW s \in Symbols, NEW bar \in Bars
    PROVE  /\ Finished(s, bar).volume \in Nat
           /\ bar.first <= bar.last => Finished(s, bar).volume = bar.last - bar.first
           /\ Shares[Finished(s, bar)] = Finished(s, bar).volume
<1> PICK v : v = Max({0, bar.last - bar.first})
  OBVIOUS
<1>1. bar.first \in Int /\ bar.last \in Int /\ bar.last - bar.first \in Int /\ 0 \in Int
  BY DEF Bars
<1>2. v \in {0, bar.last - bar.first} /\ v >= 0 /\ v >= bar.last - bar.first
  BY <1>1, OfTwo, Zenon
<1>3. Finished(s, bar).volume = v
  BY DEF Finished
<1>4. Shares[Finished(s, bar)] = Finished(s, bar).volume
  BY FinishedBar DEF Shares
<1>5. v \in Nat /\ (bar.first <= bar.last => v = bar.last - bar.first)
  BY <1>1, <1>2
<1> QED
  BY <1>3, <1>4, <1>5

\* Bars that add shares up.
Weighed(bars) ==
    /\ IsFiniteSet(bars) /\ bars \subseteq ClosedBars
    /\ \A bar \in bars : bar.volume \in Nat

LEMMA WeighedShares ==
    ASSUME NEW bars, Weighed(bars)
    PROVE  /\ \A bar \in bars : Shares[bar] \in Nat /\ Shares[bar] \in Int
           /\ SumOf(Shares, bars) \in Int
<1>1. \A bar \in bars : Shares[bar] \in Nat /\ Shares[bar] \in Int
  BY DEF Weighed, Shares
<1> QED
  BY <1>1, SumIs DEF Weighed

\* Fewer bars, and none in progress or the same one.
LEMMA FewerBars ==
    ASSUME NEW bars, Weighed(bars), NEW bar \in Bars \cup {NoBar}, NEW d, NEW total \in Int,
           Bounded(bars, bar, d, total), NEW fewer \in SUBSET bars, NEW next \in {bar, NoBar}
    PROVE  Bounded(fewer, next, d, total)
<1>1. /\ SumOf(Shares, fewer) \in Int /\ SumOf(Shares, bars) \in Int
      /\ SumOf(Shares, fewer) <= SumOf(Shares, bars)
  <2>1. IsFiniteSet(bars) /\ \A b \in bars : Shares[b] \in Nat
    BY WeighedShares DEF Weighed
  <2> QED
    BY <2>1, SumFewer
<1>2. SumOf(Shares, fewer) <= total
  BY <1>1 DEF Bounded
<1>3. ASSUME next # NoBar, Day(next.minute) = d
      PROVE  SumOf(Shares, fewer) <= next.first /\ next.first <= next.last /\ next.last <= total
  <2>1. next = bar /\ bar \in Bars
    BY <1>3
  <2>2. bar.first \in Int
    BY <2>1 DEF Bars
  <2>3. SumOf(Shares, bars) <= bar.first /\ bar.first <= bar.last /\ bar.last <= total
    BY <1>3, <2>1 DEF Bounded
  <2> QED
    BY <1>1, <2>1, <2>2, <2>3
<1> QED
  BY <1>2, <1>3 DEF Bounded

\* The bar in progress goes after the others.
LEMMA OneBarMore ==
    ASSUME NEW bars, Weighed(bars), NEW s \in Symbols, NEW bar \in Bars, NEW d, NEW total \in Int,
           Bounded(bars, bar, d, total), Day(bar.minute) = d,
           NEW more, more = bars \cup {Finished(s, bar)}
    PROVE  Weighed(more) /\ SumOf(Shares, more) \in Int /\ SumOf(Shares, more) <= total
<1> PICK b : b = Finished(s, bar)
  OBVIOUS
<1>1. b \in ClosedBars /\ b.volume \in Nat /\ Shares[b] = b.volume
  BY FinishedBar, FinishedVolume
<1>2. Weighed(more)
  <2>1. IsFiniteSet(bars \cup {b})
    BY FS_AddElement DEF Weighed
  <2> QED
    BY <1>1, <2>1 DEF Weighed
<1>3. /\ SumOf(Shares, bars) <= bar.first /\ bar.first <= bar.last /\ bar.last <= total
      /\ SumOf(Shares, bars) <= total
  <2>1. bar # NoBar
    BY NoBarApart
  <2> QED
    BY <2>1 DEF Bounded
<1>4. b.volume = bar.last - bar.first /\ bar.first \in Int /\ bar.last \in Int
  BY <1>3, FinishedVolume DEF Bars
<1>5. /\ SumOf(Shares, bars) \in Int
      /\ IsFiniteSet(bars) /\ \A x \in bars : Shares[x] \in Int
  BY WeighedShares DEF Weighed
<1>6. CASE b \in bars
  <2>1. more = bars
    BY <1>6
  <2> QED
    BY <1>2, <1>3, <1>5, <2>1
<1>7. CASE b \notin bars
  <2>1. SumOf(Shares, more) = SumOf(Shares, bars) + Shares[b]
    <3>1. Shares[b] \in Int
      BY <1>1
    <3>2. \A x \in bars : Shares[x] = Shares[x]
      OBVIOUS
    <3> QED
      BY <1>5, <1>7, <3>1, <3>2, SumMore
  <2>2. SumOf(Shares, more) <= bar.last
    BY <1>1, <1>3, <1>4, <1>5, <2>1
  <2> QED
    BY <1>1, <1>2, <1>3, <1>4, <1>5, <2>1, <2>2
<1> QED
  BY <1>6, <1>7

\* What a tick leaves of the shares: the day's total, and the symbol's bar.
TickVolume(s, ts, v) ==
    /\ v \in Nat /\ traded' \in [Symbols -> Nat] /\ clock' \in {clock, ts}
    /\ TradedBy(s, ts, 0) <= v /\ traded'[s] = v
    /\ \A x \in Symbols : x # s => traded'[x] = TradedBy(x, ts, 0)
    /\ \A x \in Symbols : x # s => agg'[x] = agg[x]
    /\ agg'[s] \in Bars
    /\ \/ /\ agg[s] # NoBar /\ Coming' = Coming
          /\ agg'[s].minute = agg[s].minute /\ agg'[s].first = agg[s].first
          /\ agg'[s].last \in {agg[s].last, v} /\ agg[s].last <= agg'[s].last
       \/ /\ agg[s] = NoBar /\ Coming' = Coming
          /\ agg'[s].minute = Bucket(ts) /\ agg'[s].first = v /\ agg'[s].last = v
       \/ /\ agg[s] # NoBar /\ Coming' = Coming \cup {Finished(s, agg[s])}
          /\ agg'[s].minute = Bucket(ts) /\ agg'[s].first = v /\ agg'[s].last = v

LEMMA TickVolumes ==
    ASSUME Stale = 0, ChainTypes, Ordered, Latest,
           NEW s \in Symbols, NEW ltp \in Prices, NEW ts \in 0..MaxInstant,
           NEW n \in {-Stale, 0, Lot}, TakeTick(s, ltp, ts, n)
    PROVE  TickEffect(s, ts) /\ \E v : TickVolume(s, ts, v)
<1> PICK v, base : v = TradedBy(s, ts, n) /\ base = TradedBy(s, ts, 0)
  OBVIOUS
<1> DEFINE tick == [symbol |-> s, ltp |-> ltp, ts |-> ts, volume |-> v]
<1>1. /\ v \in Nat /\ base \in Nat /\ base <= v
      /\ \A x \in Symbols : TradedBy(x, ts, 0) \in Nat
  <2>1. \A x \in Symbols : traded[x] \in Nat
    BY DEF ChainTypes
  <2>2. n \in Nat
    BY ChainAssumption
  <2> QED
    BY <2>1, <2>2 DEF TradedBy
<1>2. /\ agg \in [Symbols -> Bars \cup {NoBar}] /\ waiting = NoBar /\ "tick-consumer" \in tasks
      /\ Ingest(tick)
      /\ IF ~Completes(tick) THEN UNCHANGED <<barQ, waiting>> ELSE Queues(Completed(tick))
      /\ traded' = [x \in Symbols |-> IF x = s THEN Max({v, base}) ELSE TradedBy(x, ts, 0)]
  BY DEF ChainTypes, TakeTick, Queues
<1>3. TickEffect(s, ts) /\ traded' \in [Symbols -> Nat] /\ clock' \in {clock, ts}
  <2>1. clock \in Int /\ ts \in Int /\ clock' = Max({clock, ts})
    BY DEF ChainTypes, TakeTick
  <2>2. clock' \in {clock, ts}
    BY <2>1, OfTwo, Zenon
  <2> QED
    BY <2>2, TickMoves
<1>4. traded'[s] = v /\ \A x \in Symbols : x # s => traded'[x] = TradedBy(x, ts, 0)
  <2>1. Max({v, base}) \in {v, base} /\ Max({v, base}) >= v
    <3>1. v \in Int /\ base \in Int
      BY <1>1
    <3> QED
      BY <3>1, OfTwo, Zenon
  <2>2. Max({v, base}) = v
    BY <1>1, <2>1
  <2> QED
    BY <1>2, <2>2
<1>5. tick.symbol = s /\ tick.ts = ts /\ ts \in Nat /\ v \in Int
  BY <1>1
<1>6. /\ Started(tick) \in Bars /\ Started(tick).minute = Bucket(ts)
      /\ Started(tick).first = v /\ Started(tick).last = v
  <2>1. Started(tick) \in Bars /\ Started(tick).minute = Bucket(ts)
    BY <1>5, StartedBar
  <2> QED
    BY <2>1 DEF Started
<1>7. ASSUME agg[s] # NoBar
      PROVE  /\ Folded(agg[s], tick) \in Bars /\ Folded(agg[s], tick).minute = agg[s].minute
             /\ Folded(agg[s], tick).first = agg[s].first
             /\ Folded(agg[s], tick).last \in {agg[s].last, v}
             /\ agg[s].last <= Folded(agg[s], tick).last
  <2> PICK bar, last : bar = agg[s] /\ last = Max({agg[s].last, v})
    OBVIOUS
  <2>1. bar \in Bars
    BY <1>2, <1>7
  <2>2. Folded(bar, tick) \in Bars /\ Folded(bar, tick).minute = bar.minute
    BY <1>5, <2>1, FoldedBar
  <2>3. Folded(bar, tick).first = bar.first /\ Folded(bar, tick).last = last
    BY <2>1 DEF Folded, Bars
  <2>4. bar.last \in Int
    BY <2>1 DEF Bars
  <2>5. last \in {bar.last, v} /\ last >= bar.last
    BY <1>5, <2>4, OfTwo, Zenon
  <2>6. bar.last <= last
    BY <1>5, <2>4, <2>5
  <2> QED
    BY <2>2, <2>3, <2>5, <2>6
<1>8. Completed(tick) = Finished(s, agg[s])
  BY DEF Completed
<1>9. /\ Completes(tick) => agg[s] # NoBar
      /\ agg' = [agg EXCEPT ![s] = IF agg[s] = NoBar \/ Completes(tick) THEN Started(tick)
                                   ELSE Folded(agg[s], tick)]
  BY <1>2 DEF Ingest, Completes
<1> HIDE DEF tick
<1>10. /\ \A x \in Symbols : x # s => agg'[x] = agg[x]
       /\ agg[s] = NoBar \/ Completes(tick) => agg'[s] = Started(tick)
       /\ ~(agg[s] = NoBar \/ Completes(tick)) => agg'[s] = Folded(agg[s], tick)
  BY <1>2, <1>9
<1>11. CASE ~Completes(tick)
  <2>1. Coming' = Coming
    BY <1>2, <1>11 DEF Coming
  <2>2. CASE agg[s] = NoBar
    BY <1>1, <1>3, <1>4, <1>6, <1>10, <2>1, <2>2 DEF TickVolume
  <2>3. CASE agg[s] # NoBar
    BY <1>1, <1>3, <1>4, <1>7, <1>10, <1>11, <2>1, <2>3 DEF TickVolume
  <2> QED
    BY <1>3, <2>2, <2>3
<1>12. CASE Completes(tick)
  <2> PICK bar : bar = Finished(s, agg[s])
    OBVIOUS
  <2>1. bar \in ClosedBars /\ bar.symbol = s /\ bar.minute = agg[s].minute
    BY <1>2, <1>9, <1>12, FinishedBar
  <2>2. \A b \in Coming : b.symbol = bar.symbol => b.minute < bar.minute
    BY <1>2, <2>1 DEF Latest
  <2>3. Queues(bar)
    BY <1>2, <1>8, <1>12
  <2>4. Coming' = Coming \cup {bar}
    BY <1>2, <2>1, <2>2, <2>3, BarQueued
  <2>5. agg'[s] = Started(tick) /\ agg[s] # NoBar
    BY <1>9, <1>10, <1>12
  <2> QED
    BY <1>1, <1>3, <1>4, <1>6, <1>10, <2>4, <2>5 DEF TickVolume
<1> QED
  BY <1>11, <1>12

\* The bars a symbol has on their way.
LEMMA OwnBars ==
    ASSUME ChainTypes, VolumeInv, NEW s \in Symbols, NEW d
    PROVE  /\ Weighed(Of(Coming, s, d))
           /\ agg[s] \in Bars \cup {NoBar} /\ traded[s] \in Int
<1>1. Coming \subseteq ClosedBars /\ IsFiniteSet(Coming) /\ Of(Coming, s, d) \subseteq Coming
  BY ComingTyped, ComingFinite DEF Of
<1>2. IsFiniteSet(Of(Coming, s, d))
  BY <1>1, FS_Subset
<1> QED
  BY <1>1, <1>2 DEF Weighed, VolumeInv, ChainTypes

\* Bars gone by for which there is no room in a new day.
LEMMA NewDay ==
    ASSUME NEW total \in Nat, NEW bar, NEW d,
           bar = NoBar \/ Day(bar.minute) # d \/ (bar.first = total /\ bar.last = total)
    PROVE  Bounded({}, bar, d, total)
<1>1. SumOf(Shares, {}) = 0
  BY SumEmpty
<1> QED
  BY <1>1 DEF Bounded

LEMMA VolumeTick ==
    ASSUME ChainTypes, Ordered, Latest, VolumeInv, NEW s \in Symbols, NEW ts \in 0..MaxInstant,
           TickEffect(s, ts), NEW v, TickVolume(s, ts, v)
    PROVE  VolumeInv'
<1> PICK d, e : d = Today /\ e = Today'
  OBVIOUS
<1>1. /\ Bucket(clock) \in Nat /\ Bucket(ts) \in Nat /\ d \in Nat /\ e \in Nat /\ d <= e
      /\ Day(Bucket(ts)) \in Nat /\ Day(Bucket(ts)) <= e
      /\ Day(Bucket(ts)) <= d => e = d
      /\ ~(Day(Bucket(ts)) <= d) => e = Day(Bucket(ts))
  <2>1. /\ Bucket(clock) \in Nat /\ Bucket(ts) \in Nat /\ d \in Nat /\ e \in Nat /\ d <= e
        /\ e = Day(Bucket(clock')) /\ Bucket(ts) <= Bucket(clock') /\ Bucket(clock') \in Nat
    BY ClockMoves
  <2>2. Day(Bucket(ts)) \in Nat /\ Day(Bucket(ts)) <= e
    BY <2>1, Days, Onwards
  <2>3. clock' = clock \/ clock' = ts
    BY DEF TickVolume
  <2>4. e = d \/ e = Day(Bucket(ts))
    BY <2>1, <2>3 DEF Today
  <2> QED
    BY <2>1, <2>2, <2>4
<1>2. \A x \in Symbols : TradedBy(x, ts, 0) = IF Day(Bucket(ts)) <= d THEN traded[x] ELSE 0
  BY DEF TradedBy, ChainTypes
<1>3. \A bar \in Coming : bar.minute \in Nat /\ bar.symbol \in Symbols /\ Day(bar.minute) <= d
  <2> SUFFICES ASSUME NEW bar \in Coming
               PROVE  bar.minute \in Nat /\ bar.symbol \in Symbols /\ Day(bar.minute) <= d
    OBVIOUS
  <2>1. bar.minute \in Nat /\ bar.symbol \in Symbols
    BY ComingTyped DEF ClosedBars
  <2>2. agg[bar.symbol] # NoBar /\ bar.minute < agg[bar.symbol].minute
        /\ agg[bar.symbol].minute <= Bucket(clock)
    BY <2>1 DEF Latest, TickEffect
  <2>3. agg[bar.symbol].minute \in Nat
    BY <2>1, <2>2 DEF ChainTypes, Bars
  <2>4. bar.minute <= Bucket(clock)
    BY <1>1, <2>1, <2>2, <2>3
  <2> QED
    BY <1>1, <2>1, <2>4, Onwards DEF Today
<1>4. \A x \in Symbols : agg[x] # NoBar => agg[x] \in Bars /\ Day(agg[x].minute) <= d
  <2> SUFFICES ASSUME NEW x \in Symbols, agg[x] # NoBar
               PROVE  agg[x] \in Bars /\ Day(agg[x].minute) <= d
    OBVIOUS
  <2>1. agg[x] \in Bars /\ agg[x].minute <= Bucket(clock)
    BY DEF ChainTypes, Latest
  <2>2. agg[x].minute \in Nat
    BY <2>1 DEF Bars
  <2> QED
    BY <1>1, <2>1, <2>2, Onwards DEF Today
<1>5. /\ Coming' = Coming \/ (agg[s] # NoBar /\ Coming' = Coming \cup {Finished(s, agg[s])})
      /\ \A bar \in Coming' : bar.volume \in Nat
  <2>1. Coming' = Coming \/ (agg[s] # NoBar /\ Coming' = Coming \cup {Finished(s, agg[s])})
    BY DEF TickVolume
  <2>2. agg[s] # NoBar => Finished(s, agg[s]).volume \in Nat
    BY <1>4, FinishedVolume
  <2> QED
    BY <2>1, <2>2 DEF VolumeInv
<1>6. agg[s] # NoBar => /\ Finished(s, agg[s]).symbol = s
                        /\ Finished(s, agg[s]).minute = agg[s].minute
  BY <1>4, FinishedBar
<1>7. ASSUME ~(Day(Bucket(ts)) <= d), NEW x \in Symbols
      PROVE  Bounded(Of(Coming', x, e), agg'[x], e, traded'[x])
  <2>1. d < e
    BY <1>1, <1>7
  <2>2. \A bar \in Coming' : Day(bar.minute) # e
    BY <1>1, <1>3, <1>4, <1>5, <1>6, <2>1
  <2>3. Of(Coming', x, e) = {}
    BY <2>2 DEF Of
  <2>4. traded'[x] \in Nat
    BY DEF TickVolume
  <2>5. \/ agg'[x] = NoBar \/ Day(agg'[x].minute) # e
        \/ agg'[x].first = traded'[x] /\ agg'[x].last = traded'[x]
    <3>1. CASE x # s
      <4>1. agg'[x] = agg[x]
        BY <3>1 DEF TickVolume
      <4> QED
        BY <1>1, <1>4, <2>1, <4>1
    <3>2. CASE x = s
      <4>1. agg[s] # NoBar /\ agg'[s].minute = agg[s].minute => Day(agg'[s].minute) # e
        BY <1>1, <1>4, <2>1
      <4> QED
        BY <3>2, <4>1 DEF TickVolume
    <3> QED
      BY <3>1, <3>2
  <2> QED
    BY <2>3, <2>4, <2>5, NewDay
<1>8. ASSUME Day(Bucket(ts)) <= d, NEW x \in Symbols
      PROVE  Bounded(Of(Coming', x, e), agg'[x], e, traded'[x])
  <2>1. e = d /\ Bounded(Of(Coming, x, d), agg[x], d, traded[x])
    BY <1>1, <1>8 DEF VolumeInv
  <2>2. CASE x # s
    <3>1. agg'[x] = agg[x] /\ traded'[x] = traded[x]
      BY <1>2, <1>8, <2>2 DEF TickVolume
    <3>2. Of(Coming', x, d) = Of(Coming, x, d)
      BY <1>5, <1>6, <2>2 DEF Of
    <3> QED
      BY <2>1, <3>1, <3>2
  <2>3. CASE x = s
    <3> PICK bars, more, bar, next, total :
            /\ bars = Of(Coming, s, d) /\ more = Of(Coming', s, d)
            /\ bar = agg[s] /\ next = agg'[s] /\ total = traded[s]
      OBVIOUS
    <3>1. /\ Weighed(bars) /\ bar \in Bars \cup {NoBar} /\ total \in Int
          /\ Bounded(bars, bar, d, total) /\ total <= v /\ v \in Nat /\ traded'[s] = v
          /\ SumOf(Shares, bars) \in Int /\ SumOf(Shares, bars) <= total
      <4>1. Weighed(bars) /\ bar \in Bars \cup {NoBar} /\ total \in Int
        BY OwnBars
      <4>2. total <= v /\ v \in Nat /\ traded'[s] = v
        BY <1>2, <1>8 DEF TickVolume
      <4>3. Bounded(bars, bar, d, total)
        BY <2>1, <2>3
      <4> QED
        BY <4>1, <4>2, <4>3, WeighedShares DEF Bounded
    <3>2. CASE Coming' = Coming /\ next.first = v /\ next.last = v
      <4>1. more = bars
        BY <3>2 DEF Of
      <4>2. Bounded(more, next, d, v)
        BY <3>1, <3>2, <4>1 DEF Bounded
      <4> QED
        BY <2>1, <2>3, <3>1, <4>2
    <3>3. CASE /\ bar # NoBar /\ Coming' = Coming
               /\ next.minute = bar.minute /\ next.first = bar.first
               /\ next.last \in {bar.last, v} /\ bar.last <= next.last
      <4>1. more = bars
        BY <3>3 DEF Of
      <4>2. bar.first \in Int /\ bar.last \in Int
        BY <3>1, <3>3 DEF Bars
      <4>3. ASSUME Day(next.minute) = d
            PROVE  /\ SumOf(Shares, more) <= next.first /\ next.first <= next.last
                   /\ next.last <= v
        <5>1. /\ SumOf(Shares, bars) <= bar.first /\ bar.first <= bar.last /\ bar.last <= total
          BY <3>1, <3>3, <4>3 DEF Bounded
        <5> QED
          BY <3>1, <3>3, <4>1, <4>2, <5>1
      <4>4. SumOf(Shares, more) <= v
        BY <3>1, <4>1
      <4>5. Bounded(more, next, d, v)
        BY <4>3, <4>4 DEF Bounded
      <4> QED
        BY <2>1, <2>3, <3>1, <4>5
    <3>4. CASE /\ bar # NoBar /\ Coming' = Coming \cup {Finished(s, bar)}
               /\ next.first = v /\ next.last = v
      <4>1. bar \in Bars
        BY <3>1, <3>4
      <4>2. SumOf(Shares, more) \in Int /\ SumOf(Shares, more) <= total
        <5>1. CASE Day(bar.minute) = d
          <6>1. more = bars \cup {Finished(s, bar)}
            BY <1>6, <3>4, <5>1 DEF Of
          <6> QED
            BY <3>1, <4>1, <5>1, <6>1, OneBarMore
        <5>2. CASE Day(bar.minute) # d
          <6>1. more = bars
            BY <1>6, <3>4, <5>2 DEF Of
          <6> QED
            BY <3>1, <6>1
        <5> QED
          BY <5>1, <5>2
      <4>3. Bounded(more, next, d, v)
        BY <3>1, <3>4, <4>2 DEF Bounded
      <4> QED
        BY <2>1, <2>3, <3>1, <4>3
    <3> QED
      BY <3>2, <3>3, <3>4 DEF TickVolume
  <2> QED
    BY <2>2, <2>3
<1>9. \A x \in Symbols : Bounded(Of(Coming', x, e), agg'[x], e, traded'[x])
  BY <1>7, <1>8
<1> QED
  BY <1>5, <1>9 DEF VolumeInv, Bounded, Of, Day, Shares, ClosedBars, NoBar

LEMMA VolumeFlush ==
    ASSUME ChainTypes, Ordered, Latest, VolumeInv, TickConsumerDies
    PROVE  VolumeInv'
<1> PICK d : d = Today
  OBVIOUS
<1>1. /\ "tick-consumer" \in tasks /\ waiting = NoBar /\ waiting' = waiting
      /\ traded' = traded /\ clock' = clock
  BY DEF TickConsumerDies, MayDie
<1>2. Today' = d
  BY <1>1, ClockStays
<1>3. CASE barQ' = barQ /\ agg' = agg
  <2>1. Coming' = Coming
    BY <1>1, <1>3 DEF Coming
  <2> QED
    BY <1>1, <1>2, <1>3, <2>1 DEF VolumeInv, Bounded, Of, Day, Shares, ClosedBars, NoBar
<1>4. CASE /\ \E bars \in SetToSeqs(Flushed) :
                 barQ' = SubSeq(barQ \o bars, 1, Min({BarQueueMax, Len(barQ \o bars)}))
           /\ agg' = Empty
  <2>1. Coming' \subseteq Coming \cup Flushed
    <3>1. PICK bars \in SetToSeqs(Flushed) :
             barQ' = SubSeq(barQ \o bars, 1, Min({BarQueueMax, Len(barQ \o bars)}))
      BY <1>4
    <3> QED
      BY <1>1, <3>1, BarsFlushed
  <2>2. \A b \in Flushed : /\ b.symbol \in Symbols /\ agg[b.symbol] \in Bars
                           /\ b.minute = agg[b.symbol].minute
                           /\ b = Finished(b.symbol, agg[b.symbol])
    <3> SUFFICES ASSUME NEW b \in Flushed
                 PROVE  /\ b.symbol \in Symbols /\ agg[b.symbol] \in Bars
                        /\ b.minute = agg[b.symbol].minute
                        /\ b = Finished(b.symbol, agg[b.symbol])
      OBVIOUS
    <3>1. /\ agg[b.symbol] # NoBar /\ b.minute = agg[b.symbol].minute
          /\ b = Finished(b.symbol, agg[b.symbol]) /\ b.symbol \in Symbols
      BY FlushedBars DEF ClosedBars
    <3> QED
      BY <3>1 DEF ChainTypes
  <2>3. \A bar \in Coming' : bar.volume \in Nat
    <3>1. \A b \in Flushed : b.volume \in Nat
      <4>1. ASSUME NEW b \in Flushed PROVE b.volume \in Nat
        BY <2>2, FinishedVolume
      <4> QED
        BY <4>1
    <3> QED
      BY <2>1, <3>1 DEF VolumeInv
  <2>4. ASSUME NEW s \in Symbols
        PROVE  Bounded(Of(Coming', s, d), agg'[s], d, traded'[s])
    <3> PICK bars, more, bar, total :
            /\ bars = Of(Coming, s, d) /\ more = Of(Coming', s, d)
            /\ bar = agg[s] /\ total = traded[s]
      OBVIOUS
    <3>1. /\ Weighed(bars) /\ bar \in Bars \cup {NoBar} /\ total \in Int
          /\ Bounded(bars, bar, d, total)
          /\ traded'[s] = total /\ agg'[s] = NoBar
      BY <1>1, <1>4, OwnBars DEF VolumeInv, Empty
    <3>2. CASE bar \in Bars /\ Day(bar.minute) = d
      <4> PICK all : all = bars \cup {Finished(s, bar)}
        OBVIOUS
      <4>1. Weighed(all) /\ SumOf(Shares, all) \in Int /\ SumOf(Shares, all) <= total
        BY <3>1, <3>2, OneBarMore
      <4>2. more \subseteq all
        BY <2>1, <2>2 DEF Of
      <4>3. Bounded(all, NoBar, d, total)
        BY <4>1 DEF Bounded
      <4>4. more \in SUBSET all /\ NoBar \in Bars \cup {NoBar} /\ NoBar \in {NoBar, NoBar}
        BY <4>2
      <4>5. Bounded(more, NoBar, d, total)
        BY <3>1, <4>1, <4>3, <4>4, FewerBars
      <4> QED
        BY <3>1, <4>5
    <3>3. CASE ~(bar \in Bars /\ Day(bar.minute) = d)
      <4>1. more \in SUBSET bars /\ NoBar \in {bar, NoBar}
        BY <2>1, <2>2, <3>3 DEF Of
      <4>2. Bounded(more, NoBar, d, total)
        BY <3>1, <4>1, FewerBars
      <4> QED
        BY <3>1, <4>2
    <3> QED
      BY <3>2, <3>3
  <2> QED
    BY <1>2, <2>3, <2>4 DEF VolumeInv, Bounded, Of, Day, Shares, ClosedBars, NoBar
<1> QED
  BY <1>3, <1>4 DEF TickConsumerDies

\* A bar taken, or put where another waited.
LEMMA VolumeKept ==
    ASSUME ChainTypes, VolumeInv, Coming' \subseteq Coming,
           agg' = agg, clock' = clock, traded' = traded
    PROVE  VolumeInv'
<1> PICK d : d = Today
  OBVIOUS
<1>1. Today' = d
  BY ClockStays
<1>2. ASSUME NEW s \in Symbols
      PROVE  Bounded(Of(Coming', s, d), agg'[s], d, traded'[s])
  <2> PICK bars, fewer, bar, total :
          /\ bars = Of(Coming, s, d) /\ fewer = Of(Coming', s, d)
          /\ bar = agg[s] /\ total = traded[s]
    OBVIOUS
  <2>1. /\ Weighed(bars) /\ bar \in Bars \cup {NoBar} /\ total \in Int
        /\ Bounded(bars, bar, d, total)
    BY OwnBars DEF VolumeInv
  <2>2. fewer \in SUBSET bars /\ bar \in {bar, NoBar}
    BY DEF Of
  <2>3. Bounded(fewer, bar, d, total)
    BY <2>1, <2>2, FewerBars
  <2> QED
    BY <2>3
<1>3. \A bar \in Coming' : bar.volume \in Nat
  BY DEF VolumeInv
<1> QED
  BY <1>1, <1>2, <1>3 DEF VolumeInv, Bounded, Of, Day, Shares, ClosedBars, NoBar

\* Nothing on its way, nothing in progress.
LEMMA VolumeNone ==
    ASSUME ChainTypes, Coming = {}, agg = Empty
    PROVE  VolumeInv
<1>1. ASSUME NEW s \in Symbols
      PROVE  Bounded(Of(Coming, s, Today), agg[s], Today, traded[s])
  <2>1. Of(Coming, s, Today) = {} /\ agg[s] = NoBar /\ traded[s] \in Nat
    BY DEF Of, Empty, ChainTypes
  <2> PICK d : d = Today
    OBVIOUS
  <2>2. Bounded({}, NoBar, d, traded[s])
    BY <2>1, NewDay
  <2> QED
    BY <2>1, <2>2
<1> QED
  BY <1>1 DEF VolumeInv

LEMMA VolumeStep ==
    ASSUME Stale = 0, ChainInv, VolumeInv, [Next]_chainVars, ChainInv'
    PROVE  VolumeInv'
<1>1. ChainTypes /\ Ordered /\ Latest /\ ChainTypes'
  BY DEF ChainInv
<1>2. ASSUME NEW s \in Symbols, NEW ltp \in Prices, NEW ts \in 0..MaxInstant,
             NEW n \in {-Stale, 0, Lot}, TakeTick(s, ltp, ts, n)
      PROVE  VolumeInv'
  <2>1. TickEffect(s, ts) /\ \E v : TickVolume(s, ts, v)
    BY <1>1, <1>2, TickVolumes
  <2> QED
    BY <1>1, <2>1, VolumeTick
<1>3. CASE Restart
  <2>1. Coming' = {} /\ agg' = Empty
    BY <1>3 DEF Restart, Coming
  <2>2. (ChainTypes /\ Coming = {} /\ agg = Empty => VolumeInv)'
    BY VolumeNone, PTL
  <2>3. Empty' = Empty
    BY DEF Empty, NoBar
  <2> QED
    BY <1>1, <2>1, <2>2, <2>3
<1>4. CASE TickConsumerDies
  BY <1>1, <1>4, VolumeFlush
<1>5. CASE PutBar
  <2>1. Coming' \subseteq Coming
    BY <1>1, <1>5, BarPut
  <2> QED
    BY <1>1, <1>5, <2>1, VolumeKept DEF PutBar
<1>6. CASE TakeBar
  <2>1. barQ # <<>> /\ barQ' = Tail(barQ) /\ waiting' = waiting
    BY <1>6 DEF TakeBar
  <2>2. Coming' \subseteq Coming
    BY <1>1, <2>1, BarTaken
  <2> QED
    BY <1>1, <1>6, <2>2, VolumeKept DEF TakeBar
<1>7. CASE BarConsumerDies
  <2>1. barQ # <<>> /\ barQ' = Tail(barQ) /\ waiting' = waiting
    BY <1>7 DEF BarConsumerDies
  <2>2. Coming' \subseteq Coming
    BY <1>1, <2>1, BarTaken
  <2> QED
    BY <1>1, <1>7, <2>2, VolumeKept DEF BarConsumerDies
<1>8. CASE UNCHANGED chainVars
  <2>1. Coming' = Coming
    BY <1>8 DEF chainVars, Coming
  <2> QED
    BY <1>1, <1>8, <2>1, VolumeKept DEF chainVars
<1> QED
  BY <1>2, <1>3, <1>4, <1>5, <1>6, <1>7, <1>8 DEF Next

\* The sum over the places in the queue is that over the bars.
LEMMA PlacesSum ==
    ASSUME ChainTypes, Ordered, NEW s \in Symbols, NEW d
    PROVE  MapThenSumSet(LAMBDA i : InFlight[i].volume,
                         {i \in DOMAIN InFlight : /\ InFlight[i].symbol = s
                                                 /\ Day(InFlight[i].minute) = d})
           = SumOf(Shares, Of(Coming, s, d))
<1> PICK S : S = {i \in DOMAIN InFlight : /\ InFlight[i].symbol = s
                                         /\ Day(InFlight[i].minute) = d}
  OBVIOUS
<1> DEFINE f == [i \in S |-> InFlight[i].volume]
           p == [i \in S |-> InFlight[i]]
           Eq(g) == g = [t \in SUBSET S |->
                            IF t = {} THEN 0
                            ELSE InFlight[CHOOSE x \in t : TRUE].volume
                                 + g[t \ {CHOOSE x \in t : TRUE}]]
           sum == CHOOSE g : Eq(g)
<1>1. MapThenSumSet(LAMBDA i : InFlight[i].volume, S) = sum[S]
  BY DEF MapThenSumSet, MapThenFoldSet
<1>2. /\ InFlight \in Seq(ClosedBars) /\ Coming = {InFlight[i] : i \in DOMAIN InFlight}
  <2>1. barQ \in Seq(ClosedBars)
    BY DEF ChainTypes
  <2>2. CASE waiting = NoBar
    <3>1. InFlight = barQ
      BY <2>1, <2>2 DEF InFlight
    <3> QED
      BY <2>1, <2>2, <3>1 DEF Coming
  <2>3. CASE waiting # NoBar
    <3>1. waiting \in ClosedBars
      BY <2>3 DEF ChainTypes
    <3> PICK q : q = Append(barQ, waiting)
      OBVIOUS
    <3>2. InFlight = q
      BY <2>1, <2>3, <3>1 DEF InFlight
    <3>3. /\ q \in Seq(ClosedBars) /\ DOMAIN q = 1..(Len(barQ) + 1)
          /\ DOMAIN barQ = 1..Len(barQ) /\ Len(barQ) \in Nat
          /\ \A i \in DOMAIN barQ : q[i] = barQ[i]
          /\ q[Len(barQ) + 1] = waiting
      BY <2>1, <3>1, AppendProperties
    <3>4. Coming = {barQ[i] : i \in DOMAIN barQ} \cup {waiting}
      BY <2>3 DEF Coming
    <3>5. Coming = {q[i] : i \in DOMAIN q}
      BY <3>3, <3>4
    <3> QED
      BY <3>2, <3>3, <3>5
  <2> QED
    BY <2>2, <2>3
<1>3. \A i \in S : /\ i \in DOMAIN InFlight /\ InFlight[i] \in ClosedBars
                   /\ InFlight[i].symbol = s /\ Day(InFlight[i].minute) = d
  BY <1>2
<1>4. IsFiniteSet(S)
  <2>1. DOMAIN InFlight = 1..Len(InFlight) /\ Len(InFlight) \in Nat
    BY <1>2
  <2>2. IsFiniteSet(1..Len(InFlight))
    BY <2>1, FS_Interval
  <2>3. S \in SUBSET (1..Len(InFlight))
    BY <2>1
  <2> QED
    BY <2>2, <2>3, FS_Subset
<1>5. \A i \in S : f[i] \in Int /\ f[i] = InFlight[i].volume /\ p[i] = InFlight[i]
  BY <1>3 DEF ClosedBars
<1>6. \A g : Unfolds(g, f, S) <=> Eq(g)
  <2>1. \A t \in SUBSET S : t # {} =>
           f[CHOOSE x \in t : TRUE] = InFlight[CHOOSE x \in t : TRUE].volume
    BY <1>5
  <2> HIDE DEF f
  <2> QED
    BY <2>1 DEF Unfolds
<1> HIDE DEF Eq, f, p
<1>7. Unfolds(sum, f, S)
  BY <1>4, <1>5, <1>6, SumUnfolds, Zenon
<1>8. sum[S] = SumOf(f, S)
  BY <1>4, <1>5, <1>7, SumUnfolds
<1>9. SumOf(f, S) = SumOf(Shares, Of(Coming, s, d))
  <2> PICK T : T = Of(Coming, s, d)
    OBVIOUS
  <2>1. IsFiniteSet(T) /\ T \subseteq ClosedBars
    <3>1. Coming \subseteq ClosedBars /\ IsFiniteSet(Coming) /\ T \subseteq Coming
      BY ComingTyped, ComingFinite DEF Of
    <3> QED
      BY <3>1, FS_Subset
  <2>2. \A y \in T : Shares[y] \in Int /\ Shares[y] = y.volume
    BY <2>1 DEF Shares, ClosedBars
  <2>3. \A x \in S : p[x] \in T /\ f[x] = Shares[p[x]]
    <3>1. \A x \in S : p[x] \in T
      BY <1>2, <1>3, <1>5 DEF Of
    <3> QED
      BY <1>5, <2>2, <3>1
  <2>4. \A x, y \in S : p[x] = p[y] => x = y
    <3> SUFFICES ASSUME NEW x \in S, NEW y \in S, p[x] = p[y], x # y
                 PROVE  FALSE
      OBVIOUS
    <3>1. InFlight[x] = InFlight[y] /\ InFlight[x].minute \in Nat
      BY <1>3, <1>5 DEF ClosedBars
    <3>2. x \in Nat /\ y \in Nat /\ x \in DOMAIN InFlight /\ y \in DOMAIN InFlight
      BY <1>2, <1>3
    <3>3. \A i, j \in DOMAIN InFlight :
             i < j /\ InFlight[i].symbol = InFlight[j].symbol
                => InFlight[i].minute < InFlight[j].minute
      BY InFlightOrdered DEF BarsInOrder
    <3>4. x < y \/ y < x
      BY <3>2
    <3> QED
      BY <3>1, <3>2, <3>3, <3>4
  <2>5. \A y \in T : \E x \in S : p[x] = y
    <3> SUFFICES ASSUME NEW y \in T
                 PROVE  \E x \in S : p[x] = y
      OBVIOUS
    <3>1. y \in Coming /\ y.symbol = s /\ Day(y.minute) = d
      BY DEF Of
    <3>2. PICK x \in DOMAIN InFlight : InFlight[x] = y
      BY <1>2, <3>1
    <3>3. x \in S
      BY <3>1, <3>2
    <3> QED
      BY <1>5, <3>2, <3>3
  <2> QED
    BY <1>4, <2>1, <2>2, <2>3, <2>4, <2>5, SumMoved
<1> QED
  BY <1>1, <1>8, <1>9

\* No traded share counts in two bars of a day, whatever is lost with a consumer
\* or a restart (MinuteBar.to_bar, TickAggregator.ingest, flush_all), given that
\* the total volume of a tick never falls within a day.
THEOREM VolumesCorrect ==
    ASSUME Stale = 0
    PROVE  Spec => []VolumesBounded
<1>1. Init => VolumeInv
  <2> SUFFICES ASSUME Init PROVE VolumeInv
    OBVIOUS
  <2>1. Coming = {} /\ agg = Empty
    BY DEF Init, Coming
  <2>2. ChainTypes
    BY InitChain DEF ChainInv
  <2> QED
    BY <2>1, <2>2, VolumeNone
<1>2. ChainInv /\ VolumeInv /\ [Next]_chainVars /\ ChainInv' => VolumeInv'
  BY VolumeStep
<1>3. ASSUME ChainInv, VolumeInv
      PROVE  VolumesBounded
  <2> SUFFICES ASSUME NEW s \in Symbols
               PROVE  SumOf(Shares, Of(Coming, s, Today))
                      + (IF agg[s] # NoBar /\ Day(agg[s].minute) = Today
                         THEN agg[s].last - agg[s].first ELSE 0)
                      <= traded[s]
    BY <1>3, PlacesSum DEF VolumesBounded, ChainInv
  <2> PICK bars, bar, total, d :
          bars = Of(Coming, s, Today) /\ bar = agg[s] /\ total = traded[s] /\ d = Today
    OBVIOUS
  <2>1. /\ Weighed(bars) /\ bar \in Bars \cup {NoBar} /\ total \in Int
        /\ Bounded(bars, bar, d, total)
    BY <1>3, OwnBars DEF VolumeInv, ChainInv
  <2>2. SumOf(Shares, bars) \in Int /\ SumOf(Shares, bars) <= total
    BY <2>1, WeighedShares DEF Bounded
  <2>3. ASSUME bar # NoBar, Day(bar.minute) = d
        PROVE  SumOf(Shares, bars) + (bar.last - bar.first) <= total
    <3>1. bar.first \in Int /\ bar.last \in Int
      BY <2>1, <2>3 DEF Bars
    <3>2. SumOf(Shares, bars) <= bar.first /\ bar.last <= total
      BY <2>1, <2>3 DEF Bounded
    <3> QED
      BY <2>1, <2>2, <3>1, <3>2
  <2> QED
    BY <2>2, <2>3
<1> QED
  BY <1>1, <1>2, <1>3, ChainInvariant, PTL DEF Spec

=============================================================================
