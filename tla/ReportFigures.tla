--------------------------- MODULE ReportFigures ----------------------------
(****************************************************************************)
(* The figures of the reports, the dashboard, the search and the export.    *)
(*                                                                          *)
(* Every figure is a query of its own over the live transactions of a range *)
(* of days, and a report is several of them.  Sums add the amounts as they  *)
(* are, in whole cents, whatever the currency.  That a report's total may   *)
(* come out of a cache is in ReportCache, the converted figures of the cash *)
(* flow are in AccountBook, debts and budgets have modules of their own.    *)
(****************************************************************************)
EXTENDS Calculations, SequencesExt

CONSTANTS
  LineIds,     \* ids of transactions, integers
  LineKinds,   \* transaction types that are recorded
  Categories,  \* categories
  Merchants,   \* merchants
  NoMerchant,  \* NULL in transactions.merchant
  Sums,        \* amounts
  LineDays,    \* days on which transactions are dated
  AsOf,        \* days on which reports are asked for
  Spans,       \* lengths in days, even, of the ranges asked for
  TopLimit,    \* entries of a top list
  PageSize,    \* results on a page
  MaxExport,   \* rows in a file
  Nothing      \* null, of a figure that is not there

ASSUME ReportsAssumption ==
  /\ LineIds \subseteq Int /\ IsFiniteSet(LineIds)
  /\ IsFiniteSet(Categories) /\ IsFiniteSet(Merchants) /\ NoMerchant \notin Merchants
  /\ Sums \subseteq Nat /\ LineDays \subseteq 0..(12 * 365 - 1) /\ AsOf \subseteq 366..(12 * 365 - 7)
  /\ Spans \subseteq Nat /\ TopLimit \in Nat /\ PageSize \in Nat \ {0} /\ MaxExport \in Nat
  /\ Nothing \notin Categories \cup Merchants \cup {"EXPENSE"}
  /\ Nothing \notin [expense : Nat, income : Nat] /\ Nothing \notin [start : Int, end : Int]

VARIABLE
  lines   \* [LineIds -> the live transaction, or NoLine]

NoLine == [kind |-> "none"]

Lines == [kind : LineKinds, category : Categories, merchant : Merchants \cup {NoMerchant},
          day : LineDays, amount : Sums]

ReportsInit ==
  /\ date \in AsOf
  /\ lines = [i \in LineIds |-> NoLine]

\* A transaction is recorded, or restored.
RecordLine(i, line) ==
  /\ lines[i] = NoLine
  /\ lines' = [lines EXCEPT ![i] = line]

RemoveLine(i) ==
  /\ lines[i] # NoLine
  /\ lines' = [lines EXCEPT ![i] = NoLine]

ReportsNext ==
  /\ \/ \E i \in LineIds, line \in Lines : RecordLine(i, line)
     \/ \E i \in LineIds : RemoveLine(i)
  /\ UNCHANGED date

ReportsSpec == ReportsInit /\ [][ReportsNext]_<<date, lines>>

(***************************************************************************)
(* The queries                                                             *)
(***************************************************************************)
Live == {i \in LineIds : lines[i] # NoLine}

\* ReportQueryFilters, Nothing where a filter is not set.
All == [kind |-> Nothing, category |-> Nothing, merchant |-> Nothing]
Expenses == [All EXCEPT !.kind = "EXPENSE"]
Passes(line, filters) == \A f \in DOMAIN filters : filters[f] \in {Nothing, line[f]}

\* buildWhere
Where(range, filters) ==
  {i \in Live : range.start <= lines[i].day /\ lines[i].day < range.end
                /\ Passes(lines[i], filters)}

IncomeLike == {"INCOME", "SALARY", "REFUND"}

SumOf(ids) == SumFunction([i \in ids |-> lines[i].amount])

TotalsOf(ids) == [expense |-> SumOf({i \in ids : lines[i].kind = "EXPENSE"}),
                  income |-> SumOf({i \in ids : lines[i].kind \in IncomeLike})]

GetTotals(range, filters) == TotalsOf(Where(range, filters))

GetCategoryBreakdown(range, filters) ==
  LET rows == Where(range, filters) IN
  [c \in {lines[i].category : i \in rows} |-> SumOf({i \in rows : lines[i].category = c})]

\* Rows without a merchant are left out.
GetMerchantBreakdown(range, filters) ==
  LET rows == {i \in Where(range, filters) : lines[i].merchant # NoMerchant} IN
  [n \in {lines[i].merchant : i \in rows} |-> SumOf({i \in rows : lines[i].merchant = n})]

\* date_trunc
Truncated(n, unit) == IF unit = "day" THEN n ELSE Utc(YearOf(n), MonthOf(n), 1)

\* The buckets that hold a row.
GetPeriodicBreakdown(range, unit, filters) ==
  LET rows == Where(range, filters) IN
  [b \in {Truncated(lines[i].day, unit) : i \in rows} |->
     TotalsOf({i \in rows : Truncated(lines[i].day, unit) = b})]

\* ORDER BY amount DESC LIMIT.
First(s, limit) == SubSeq(s, 1, Min({limit, Len(s)}))
GetLargest(range, filters, limit) ==
  First(SetToSortSeq(Where(range, filters), LAMBDA i, j : lines[i].amount >= lines[j].amount), limit)

TopOf(breakdown, limit) ==
  First(SetToSortSeq(DOMAIN breakdown, LAMBDA k, l : breakdown[k] >= breakdown[l]), limit)

\* getEarliestTransactionDate, of all live rows, against a bound.
RecordedBefore(n) == \E i \in Live : lines[i].day < n

(***************************************************************************)
(* GenerateReportUseCase; n is the day the report is asked for             *)
(***************************************************************************)
PriorOf(boundary) == [start |-> boundary.prior, end |-> boundary.start]

\* Half up, of cents.
DividedBy(cents, divisor) == (cents + divisor \div 2) \div divisor

AverageWindow == 30
DailyAverage(n) ==
  IF ~ RecordedBefore(n) THEN Nothing
  ELSE DividedBy(GetTotals([start |-> n - AverageWindow, end |-> n], Expenses).expense,
                 AverageWindow)

Comparison(boundary) ==
  IF RecordedBefore(boundary.start) THEN GetTotals(PriorOf(boundary), All) ELSE Nothing

GenerateDaily(n) ==
  LET b == ReportBoundary(n, "daily") IN
  [totals |-> GetTotals(b, All), categories |-> GetCategoryBreakdown(b, Expenses),
   average |-> DailyAverage(n)]

GenerateWeekly(n) ==
  LET b == ReportBoundary(n, "weekly") IN
  [totals |-> GetTotals(b, All), categories |-> GetCategoryBreakdown(b, Expenses),
   trend |-> GetPeriodicBreakdown(b, "day", All), prior |-> Comparison(b)]

GenerateMonthly(n) ==
  LET b == ReportBoundary(n, "monthly")
      totals == GetTotals(b, All) IN
  [totals |-> totals, saved |-> totals.income - totals.expense,
   categories |-> GetCategoryBreakdown(b, Expenses),
   topMerchants |-> TopOf(GetMerchantBreakdown(b, Expenses), TopLimit), prior |-> Comparison(b)]

GenerateQuarterly(n) ==
  LET b == ReportBoundary(n, "quarterly") IN
  [trend |-> GetPeriodicBreakdown(b, "month", All),
   shift |-> [current |-> GetCategoryBreakdown(b, Expenses),
              prior |-> GetCategoryBreakdown(PriorOf(b), Expenses)]]

GenerateYearly(n) ==
  LET b == ReportBoundary(n, "yearly") IN
  [totals |-> GetTotals(b, All), trend |-> GetPeriodicBreakdown(b, "month", All),
   categories |-> GetCategoryBreakdown(b, Expenses), prior |-> Comparison(b)]

GenerateCategoryReport(c, range) ==
  LET ofCategory == [All EXCEPT !.category = c] IN
  [trend |-> GetPeriodicBreakdown(range, "month", ofCategory),
   merchants |-> GetMerchantBreakdown(range, ofCategory),
   largest |-> GetLargest(range, ofCategory, TopLimit)]

GenerateMerchantReport(merchant, range) ==
  LET ofMerchant == [All EXCEPT !.merchant = merchant] IN
  [total |-> GetTotals(range, ofMerchant).expense,
   count |-> Cardinality(Where(range, ofMerchant)),
   trend |-> GetPeriodicBreakdown(range, "month", ofMerchant)]

GenerateCustomRange(range) ==
  [totals |-> GetTotals(range, All), categories |-> GetCategoryBreakdown(range, Expenses),
   merchants |-> GetMerchantBreakdown(range, All)]

\* The change in percent, cut towards zero as a quotient of BigInts is.
ClassifyTrajectory(first, second) ==
  LET change == IF second >= first THEN ((second - first) * 100) \div first
                ELSE - (((first - second) * 100) \div first) IN
  IF first = 0 THEN (IF second = 0 THEN "flat" ELSE "increasing")
  ELSE IF change >= 10 THEN "increasing"
  ELSE IF change <= -10 THEN "decreasing" ELSE "flat"

AmountIn(breakdown, c) == IF c \in DOMAIN breakdown THEN breakdown[c] ELSE 0

GenerateTrendAnalysis(range) ==
  LET midpoint == (range.start + range.end) \div 2
      first == GetCategoryBreakdown([range EXCEPT !.end = midpoint], Expenses)
      second == GetCategoryBreakdown([range EXCEPT !.start = midpoint], Expenses) IN
  [trend |-> GetPeriodicBreakdown(range, "month", Expenses),
   trajectory |-> [c \in DOMAIN first \cup DOMAIN second |->
                     ClassifyTrajectory(AmountIn(first, c), AmountIn(second, c))]]

(***************************************************************************)
(* GenerateDashboardUseCase, SearchTransactionsUseCase,                    *)
(* ExportTransactionsUseCase                                               *)
(***************************************************************************)
\* Without the debts, drafts and budgets that also keep it from being empty.
GenerateDashboard(n) ==
  LET b == ReportBoundary(n, "monthly")
      totals == GetTotals(b, All)
      categories == GetCategoryBreakdown(b, Expenses) IN
  IF totals.expense = 0 /\ totals.income = 0 /\ categories = << >> THEN [kind |-> "empty"]
  ELSE [kind |-> "summary", totals |-> totals, topCategories |-> TopOf(categories, TopLimit)]

\* ORDER BY transaction_date DESC, id DESC.
Newer(i, j) == lines[i].day > lines[j].day \/ (lines[i].day = lines[j].day /\ i > j)
NewestFirst(ids) ==
  CHOOSE s \in [1..Cardinality(ids) -> ids] : \A k, l \in DOMAIN s : k < l => Newer(s[k], s[l])

\* buildSearchWhere: a search may do without a range.
SearchWhere(range, filters) ==
  IF range = Nothing THEN {i \in Live : Passes(lines[i], filters)} ELSE Where(range, filters)

\* Pages count from 0, and a page below 0 is page 0.
Search(range, filters, asked) ==
  LET rows == NewestFirst(SearchWhere(range, filters))
      page == Max({0, asked})
      offset == page * PageSize
      results == SubSeq(rows, offset + 1, Min({offset + PageSize, Len(rows)})) IN
  [results |-> results, hasNext |-> offset + Len(results) < Len(rows), hasPrevious |-> page > 0]

Export(range, filters) ==
  LET rows == First(NewestFirst(Where(range, filters)), MaxExport + 1) IN
  CASE rows = << >> -> [kind |-> "empty"]
    [] Len(rows) > MaxExport -> [kind |-> "too_large"]
    [] rows # << >> /\ Len(rows) <= MaxExport -> [kind |-> "generated", rows |-> rows]

(***************************************************************************)
(* Properties                                                              *)
(***************************************************************************)
Ranges == {[start |-> date - span, end |-> date + 1] : span \in {s - 1 : s \in Spans}}

TotalIn(trend, side) == SumFunction([b \in DOMAIN trend |-> trend[b][side]])

\* What a report lists under a total adds up to it, for any range: its
\* categories, the months or days of its trend, the categories' own reports,
\* and what merchants sold together with what no merchant did.
ListsAddUp ==
  \A range \in Ranges :
    LET report == GenerateCustomRange(range)
        trend == GetPeriodicBreakdown(range, "month", All) IN
    /\ SumFunction(report.categories) = report.totals.expense
    /\ \A side \in {"expense", "income"} :
         /\ TotalIn(trend, side) = report.totals[side]
         /\ report.totals[side] = SumFunction(
              [c \in Categories |-> TotalIn(GenerateCategoryReport(c, range).trend, side)])
    /\ report.totals.expense =
         SumFunction([m \in Merchants |-> GenerateMerchantReport(m, range).total])
           + SumOf({i \in Where(range, Expenses) : lines[i].merchant = NoMerchant})

\* Reports asked for on one day tell one story: a day of the week's trend is
\* that day's report, a month of the year's or of the quarter's is that
\* month's report, the dashboard is the monthly report, the shift of a quarter
\* starts from what the quarter before showed, and the comparison with the
\* period before is that period's report, missing only if it showed nothing.
ReportsTellOneStory ==
  LET weekly == GenerateWeekly(date)
      monthly == GenerateMonthly(date)
      quarterly == GenerateQuarterly(date)
      yearly == GenerateYearly(date)
      dashboard == GenerateDashboard(date)
      Before(type) == ReportBoundary(date, type).start - 1
      none == [expense |-> 0, income |-> 0] IN
  /\ \A d \in DOMAIN weekly.trend : weekly.trend[d] = GenerateDaily(d).totals
  /\ \A m \in DOMAIN yearly.trend : yearly.trend[m] = GenerateMonthly(m).totals
  /\ \A m \in DOMAIN quarterly.trend : yearly.trend[m] = quarterly.trend[m]
  /\ quarterly.shift.prior = GenerateQuarterly(Before("quarterly")).shift.current
  /\ IF dashboard.kind = "empty" THEN monthly.totals = none
     ELSE dashboard.totals = monthly.totals
  /\ weekly.prior \in {GenerateWeekly(Before("weekly")).totals} \cup {Nothing}
  /\ weekly.prior = Nothing => GenerateWeekly(Before("weekly")).totals = none
  /\ yearly.prior = Nothing => GenerateYearly(Before("yearly")).totals = none
  /\ monthly.prior # Nothing => monthly.prior = GenerateMonthly(Before("monthly")).totals

\* A category's trajectory is the comparison of the two halves of the range,
\* which between them hold all of it: "increasing" and "decreasing" tell of a
\* rise or a fall, and every one of more than a tenth is told, with nothing
\* turned into something counted as a rise.  A change of exactly a tenth is
\* left open: the comment on the threshold says more than 10%, and "otherwise
\* flat" (generate-report.use-case.ts:719-724), the code tells it from 10% on.
TrajectoriesCompareHalves ==
  \A range \in Ranges :
    LET analysis == GenerateTrendAnalysis(range)
        whole == GenerateCustomRange(range).categories
        half == (range.end - range.start) \div 2
        early == GenerateCustomRange([start |-> range.start, end |-> range.start + half]).categories IN
    /\ DOMAIN analysis.trajectory = DOMAIN whole
    /\ \A c \in DOMAIN whole :
         LET first == AmountIn(early, c)
             second == whole[c] - first IN
         /\ 10 * (second - first) > first => analysis.trajectory[c] = "increasing"
         /\ 10 * (first - second) > first => analysis.trajectory[c] = "decreasing"
         /\ analysis.trajectory[c] = "increasing"
              => second > first /\ 10 * (second - first) >= first
         /\ analysis.trajectory[c] = "decreasing"
              => second < first /\ 10 * (first - second) >= first

\* The pages of a search, read up to the first that announces no next one,
\* are all that an export of the same rows holds, in the same order, each row
\* once; and no page of a range has what the search of all days has not.
PagesCoverTheExport ==
  \A range \in Ranges :
    LET Page(p) == Search(range, Expenses, p)
        last == CHOOSE p \in 0..Cardinality(LineIds) :
                  ~ Page(p).hasNext /\ \A q \in 0..(p - 1) : Page(q).hasNext
        read[n \in 0..(last + 1)] == IF n = 0 THEN << >> ELSE read[n - 1] \o Page(n - 1).results
        all == read[last + 1]
        file == Export(range, Expenses) IN
    /\ file.kind = "empty" <=> all = << >>
    /\ file.kind = "too_large" <=> Len(all) > MaxExport
    /\ file.kind = "generated" => file.rows = all
    /\ Where(range, Expenses) \subseteq
         UNION {Range(Search(Nothing, Expenses, p).results) : p \in 0..Cardinality(LineIds)}
=============================================================================
