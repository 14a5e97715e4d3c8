------------------------------- MODULE PaperRun -------------------------------
(***************************************************************************)
(* What is computed from closed positions: analytics/paper_run.py with the  *)
(* exit code of scripts/paper_to_live_check.py, the gates of                *)
(* backtest/report.py and scripts/backtest_sweep.py over simulated trades,  *)
(* the day's sums of llm/eod.py and the summary of dashboard/queries.py.    *)
(* Times are abstracted to days and to the order of the closings, which is  *)
(* all the queries look at.  The journal's amounts are in Grain-ths of a     *)
(* paisa; reports that round to two decimals are in paise.  Additions of     *)
(* floats are taken as exact.                                               *)
(***************************************************************************)
EXTENDS Integers, SequencesExt, FiniteSetsExt

CONSTANTS
    Gains,        \* realised P&L a position may close with, as the journal has it
    Grain,        \* units of the journal's amounts in a paisa
    Equity,       \* capital_inr, in paise
    PerDay,       \* positions opened in a day: max_trades_per_day
    MaxRows,      \* bound: positions
    MaxDay,       \* bound: days
    WeekLength    \* days from Monday to Monday

ASSUME JournalAssumption ==
    /\ Gains \subseteq Int
    /\ Grain \in Nat \ {0}
    /\ Equity \in Nat \ {0}
    /\ WeekLength \in Nat \ {0} /\ PerDay \in Nat

VARIABLES
    openRows,     \* days on which the positions still open were opened
    closedRows,   \* closed positions in the order of closed_at
    today

journalVars == <<openRows, closedRows, today>>

JournalInit == openRows = <<>> /\ closedRows = <<>> /\ today = 1

\* The engine opens no more in a day (ExecutionEngine, EntriesPerDay).
OpenRow ==
    /\ Len(openRows) + Len(closedRows) < MaxRows
    /\ Cardinality({i \in DOMAIN openRows : openRows[i] = today})
       + Cardinality({i \in DOMAIN closedRows : closedRows[i].opened = today}) < PerDay
    /\ openRows' = Append(openRows, today)
    /\ UNCHANGED <<closedRows, today>>

CloseRow(i) ==
    /\ \E gain \in Gains :
          closedRows' = Append(closedRows, [opened |-> openRows[i], closed |-> today, pnl |-> gain])
    /\ openRows' = RemoveAt(openRows, i)
    /\ UNCHANGED today

NextDay == today < MaxDay /\ today' = today + 1 /\ UNCHANGED <<openRows, closedRows>>

JournalNext == OpenRow \/ NextDay \/ \E i \in DOMAIN openRows : CloseRow(i)

-----------------------------------------------------------------------------
\* round(x, 2): to the nearest paisa, from halfway between two to the even one.
Round(x) ==
    LET paise == x \div Grain
        rest  == x % Grain
    IN IF 2 * rest < Grain \/ (2 * rest = Grain /\ paise % 2 = 0) THEN paise ELSE paise + 1

TotalPnl(pnls) == FoldLeft(+, 0, pnls)
Wins(pnls) == Cardinality({i \in DOMAIN pnls : pnls[i] > 0})

\* compute_paper_run_stats: closed from the start of the first day to before
\* the day after the last, each rounded.
PaperTrades(first, last) ==
    FoldLeft(LAMBDA pnls, row : IF first <= row.closed /\ row.closed < last + 1
                                THEN Append(pnls, Round(row.pnl)) ELSE pnls,
             <<>>, closedRows)

\* The gates of the paper run, over its trades.
MaxDrawdownInr(pnls) ==
    IF pnls = <<>> THEN 0
    ELSE FoldLeft(LAMBDA acc, pnl :
                     LET equity == acc.equity + pnl
                         peak == Max({acc.peak, equity})
                     IN [equity |-> equity, peak |-> peak, worst |-> Max({acc.worst, peak - equity})],
                  [equity |-> 0, peak |-> 0, worst |-> 0], pnls).worst

PassWinRate(pnls) == pnls # <<>> /\ 100 * Wins(pnls) >= 40 * Len(pnls)
PassExpectancy(pnls) == pnls # <<>> /\ TotalPnl(pnls) > 0
PassDrawdown(pnls) == Equity > 0 => 100 * MaxDrawdownInr(pnls) <= 8 * Equity

\* paper_to_live_check: exit code 2 without trades, else 0 or 1.
PaperExit(pnls) ==
    IF pnls = <<>> THEN 2
    ELSE IF PassWinRate(pnls) /\ PassExpectancy(pnls) /\ PassDrawdown(pnls) THEN 0 ELSE 1

\* faulty: the peak starts anew whenever the curve is back at 0
ReportDrawdownAnew(pnls) ==
    IF pnls = <<>> \/ Equity = 0 THEN 0
    ELSE 100 * FoldLeft(LAMBDA acc, pnl :
                     LET equity == acc.equity + pnl
                         peak == IF acc.equity = 0 THEN equity ELSE Max({acc.peak, equity})
                     IN [equity |-> equity, peak |-> peak, worst |-> Max({acc.worst, peak - equity})],
                  [equity |-> 0, peak |-> 0, worst |-> 0], pnls).worst

\* The report's own drawdown, over simulated trades: in percent, Equity times.
ReportDrawdown(pnls) ==
    IF pnls = <<>> \/ Equity = 0 THEN 0
    ELSE 100 * FoldLeft(LAMBDA acc, pnl :
                     LET equity == acc.equity + pnl
                         peak == Max({acc.peak, equity})
                     IN [equity |-> equity, peak |-> peak, worst |-> Max({acc.worst, peak - equity})],
                  [equity |-> 0, peak |-> 0, worst |-> 0], pnls).worst

\* _section_gates: no verdict without trades.
ReportVerdict(pnls) ==
    IF pnls = <<>> THEN "none"
    ELSE IF /\ 100 * Wins(pnls) >= 40 * Len(pnls)
            /\ TotalPnl(pnls) > 0
            /\ ReportDrawdown(pnls) <= 8 * Equity
    THEN "go" ELSE "no-go"

\* The sweep's own loop, without a return ahead of it for no trades.
SweepDrawdown(pnls) ==
    LET worst == FoldLeft(LAMBDA acc, pnl :
                     LET equity == acc.equity + pnl
                         peak == Max({acc.peak, equity})
                     IN [equity |-> equity, peak |-> peak, worst |-> Max({acc.worst, peak - equity})],
                  [equity |-> 0, peak |-> 0, worst |-> 0], pnls).worst
    IN IF Equity > 0 THEN 100 * worst ELSE 0

\* _summarize, overall_pass: without trades the first two gates fail.
SweepVerdict(pnls) ==
    IF /\ Len(pnls) > 0 /\ 100 * Wins(pnls) >= 40 * Len(pnls)
       /\ Len(pnls) > 0 /\ TotalPnl(pnls) > 0
       /\ SweepDrawdown(pnls) <= 8 * Equity
    THEN "go" ELSE "no-go"

-----------------------------------------------------------------------------
\* build_eod_context: the positions opened on the day, those closed by now,
\* each rounded.
EodRealised(day) ==
    MapThenSumSet(LAMBDA i : Round(closedRows[i].pnl),
                  {i \in DOMAIN closedRows : closedRows[i].opened = day})

\* get_pnl_summary: everything closed since midnight, and since Monday, as the
\* journal has it.
Monday == today - ((today - 1) % WeekLength)
RealisedSince(day) ==
    MapThenSumSet(LAMBDA i : closedRows[i].pnl,
                  {i \in DOMAIN closedRows : closedRows[i].closed >= day})
RealisedToday == RealisedSince(today)
RealisedWeek == RealisedSince(Monday)

-----------------------------------------------------------------------------
Sum(pnls, n) == FoldLeft(+, 0, SubSeq(pnls, 1, n))
WorstFall(pnls) ==
    LET curve == [n \in 0..Len(pnls) |-> Sum(pnls, n)]
    IN Max(UNION {{curve[i] - curve[j] : j \in i..Len(pnls)} : i \in 0..Len(pnls)})
Graduates(pnls) ==
    /\ 5 * Wins(pnls) >= 2 * Len(pnls)
    /\ Sum(pnls, Len(pnls)) > 0
    /\ 100 * WorstFall(pnls) <= 8 * Equity

\* All three copies of the gates let a run of trades pass just when two in five
\* win, it gains, and its worst fall from any point to a later one is at most
\* 8% of the capital; without trades none does.
VerdictsAgree ==
    \A pnls \in {PaperTrades(first, last) : first \in 1..today, last \in 1..today} :
       LET go == Graduates(pnls)
       IN IF pnls = <<>>
          THEN PaperExit(pnls) = 2 /\ ReportVerdict(pnls) = "none" /\ SweepVerdict(pnls) = "no-go"
          ELSE /\ PaperExit(pnls) = 0 <=> go
               /\ ReportVerdict(pnls) = "go" <=> go
               /\ SweepVerdict(pnls) = "go" <=> go

Overnight == {i \in DOMAIN closedRows : closedRows[i].opened # closedRows[i].closed}
SumOfDays(op(_), first, last) == MapThenSumSet(op, first..last)

\* A sum of rounded trades is within half a paisa a trade of the journal's.
Near(paise, booked, trades) ==
    /\ 2 * (Grain * paise - booked) <= Grain * trades
    /\ 2 * (booked - Grain * paise) <= Grain * trades

\* Every closed position is in one day of each report: the days' sums by
\* closing (paper run) and by opening (end-of-day report) both add up to all of
\* it, rounded as they are, and are the same as long as nothing was held
\* overnight.  The dashboard adds up what the journal has: its day and its week
\* are off the paper run's by at most half a paisa a trade.
DaysAddUp ==
    LET byClosing(day) == TotalPnl(PaperTrades(day, day))
        all == TotalPnl(PaperTrades(1, today))
    IN /\ SumOfDays(byClosing, 1, today) = all
       /\ SumOfDays(EodRealised, 1, today) = all
       /\ Near(SumOfDays(byClosing, Monday, today), RealisedWeek, Len(PaperTrades(Monday, today)))
       /\ Near(byClosing(today), RealisedToday, Len(PaperTrades(today, today)))
       /\ Overnight = {} => \A day \in 1..today : EodRealised(day) = byClosing(day)

\* The reports on closed positions agree, in their verdicts and, but for the
\* rounding, in their sums.
ReportsAgree == VerdictsAgree /\ DaysAddUp
=============================================================================
