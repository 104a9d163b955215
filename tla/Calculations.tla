---------------------------- MODULE Calculations ----------------------------
(***************************************************************************)
(* Calendar arithmetic of budgets, reports, the report cache and loans, as *)
(* a walk through the days of several years.                               *)
(*                                                                         *)
(* A date is the number of days since 1 January of FirstYear, a Monday.    *)
(* Date.UTC accepts months and days outside their range and carries them   *)
(* over, and so do the operators here.  A period key is a pair of numbers  *)
(* that compare as the strings of the code do.                             *)
(***************************************************************************)
EXTENDS Integers, FiniteSets

CONSTANTS
  FirstYear,   \* a year that begins on a Monday, before any date of interest
  WalkFrom,    \* first day of the walk
  WalkTo,      \* last day of the walk
  LoanStarts   \* days on which loans begin

\* The calendar below has thirteen years: one before the walk and one to look ahead.
ASSUME WalkAssumption ==
  /\ FirstYear \in Nat /\ LoanStarts \subseteq Nat
  /\ WalkTo \in Nat /\ WalkTo + 7 <= 12 * 365 /\ WalkFrom \in 366..WalkTo

VARIABLE
  date    \* the day reached

(***************************************************************************)
(* The calendar of Date.UTC                                                *)
(***************************************************************************)
Years == FirstYear..(FirstYear + 12)
Leap(y) == y % 4 = 0 /\ (y % 100 # 0 \/ y % 400 = 0)
YearStart == [y \in Years |->
  (365 * (y - FirstYear)) + Cardinality({l \in Years : l < y /\ Leap(l)})]

DaysBefore(y, m) ==
  <<0, 31, 59, 90, 120, 151, 181, 212, 243, 273, 304, 334>>[m]
    + (IF m > 2 /\ Leap(y) THEN 1 ELSE 0)

\* Date.UTC(year, month - 1, day).
Utc(y, m, d) ==
  LET year == y + (m - 1) \div 12
      month == ((m - 1) % 12) + 1
  IN YearStart[year] + DaysBefore(year, month) + d - 1

YearOf(n) == CHOOSE y \in FirstYear..(FirstYear + 11) : YearStart[y] <= n /\ n < YearStart[y + 1]
MonthOf(n) ==
  CHOOSE m \in 1..12 : Utc(YearOf(n), m, 1) <= n /\ n < Utc(YearOf(n), m + 1, 1)
DayOf(n) == n - Utc(YearOf(n), MonthOf(n), 1) + 1
Weekday(n) == n % 7       \* Monday = 0
Quarter(n) == (MonthOf(n) - 1) \div 3

(***************************************************************************)
(* computeBudgetPeriodBoundaries: inclusive bounds                         *)
(***************************************************************************)
PeriodTypes == {"weekly", "monthly", "quarterly", "yearly"}

BudgetPeriod(n, type) ==
  CASE type = "weekly" -> [start |-> n - Weekday(n), end |-> n - Weekday(n) + 6]
    [] type = "monthly" -> [start |-> Utc(YearOf(n), MonthOf(n), 1),
                            end |-> Utc(YearOf(n), MonthOf(n) + 1, 0)]
    [] type = "quarterly" -> [start |-> Utc(YearOf(n), 3 * Quarter(n) + 1, 1),
                              end |-> Utc(YearOf(n), 3 * Quarter(n) + 4, 0)]
    [] type = "yearly" -> [start |-> Utc(YearOf(n), 1, 1), end |-> Utc(YearOf(n), 12, 31)]

NextBudgetPeriod(end, type) == BudgetPeriod(end + 1, type)

(***************************************************************************)
(* computeReportCachePeriods and the report boundaries: half open bounds   *)
(***************************************************************************)
ReportTypes == {"daily"} \cup PeriodTypes

ThursdayOf(n) == n - Weekday(n) + 3

\* As it would be with the week of the year instead of the ISO week.
WeekKeyCalendar(n) == <<YearOf(n), 1 + (n - YearStart[YearOf(n)]) \div 7>>

\* ISO 8601: a week belongs to the year of its Thursday.
WeekKey(n) ==
  LET year == YearOf(ThursdayOf(n)) IN
  <<year, 1 + (ThursdayOf(n) - ThursdayOf(Utc(year, 1, 4))) \div 7>>

PeriodKey(n, type) ==
  CASE type = "daily" -> <<YearOf(n), 100 * MonthOf(n) + DayOf(n)>>
    [] type = "weekly" -> WeekKey(n)
    [] type = "monthly" -> <<YearOf(n), MonthOf(n)>>
    [] type = "quarterly" -> <<YearOf(n), Quarter(n) + 1>>
    [] type = "yearly" -> <<YearOf(n), 0>>

\* Start of the period, of the one before and of the one after.
ReportBoundary(n, type) ==
  LET y == YearOf(n)
      m == MonthOf(n)
      q == 3 * Quarter(n) + 1 IN
  CASE type = "daily" -> [prior |-> n - 1, start |-> n, end |-> n + 1]
    [] type = "weekly" -> LET monday == n - Weekday(n)
                          IN [prior |-> monday - 7, start |-> monday, end |-> monday + 7]
    [] type = "monthly" -> [prior |-> Utc(y, m - 1, 1), start |-> Utc(y, m, 1),
                            end |-> Utc(y, m + 1, 1)]
    [] type = "quarterly" -> [prior |-> Utc(y, q - 3, 1), start |-> Utc(y, q, 1),
                              end |-> Utc(y, q + 3, 1)]
    [] type = "yearly" -> [prior |-> Utc(y - 1, 1, 1), start |-> Utc(y, 1, 1),
                           end |-> Utc(y + 1, 1, 1)]

(***************************************************************************)
(* calculateNextLoanDueDate                                                *)
(***************************************************************************)
Frequencies == {"weekly", "monthly", "quarterly"}

\* setUTCMonth keeps the day of the month and carries it over when the month
\* is too short: 31 January is followed by 3 March, and that by 3 April.
AddInstallment(n, frequency) ==
  CASE frequency = "weekly" -> n + 7
    [] frequency = "monthly" -> Utc(YearOf(n), MonthOf(n) + 1, DayOf(n))
    [] frequency = "quarterly" -> Utc(YearOf(n), MonthOf(n) + 3, DayOf(n))

\* The first due date on or after asOf, counting on from the start.
NextDue(start, frequency, asOf) ==
  LET reach[n \in start..(asOf + 100)] ==
        IF n >= asOf /\ n # start THEN n ELSE reach[AddInstallment(n, frequency)]
  IN reach[start]

(***************************************************************************)
(* The walk                                                                *)
(***************************************************************************)
WalkInit == date = WalkFrom

NextDay ==
  /\ date < WalkTo
  /\ date' = date + 1

WalkSpec == WalkInit /\ [][NextDay]_date

(***************************************************************************)
(* Properties                                                              *)
(***************************************************************************)
\* Budget periods tile the calendar: the period of a day holds it, the next
\* day has the same period or, after the last day, exactly the one that the
\* rollover computes from the end of the old, however late it runs.
PeriodsTile ==
  \A type \in PeriodTypes :
    LET period == BudgetPeriod(date, type) IN
    /\ period.start <= date /\ date <= period.end
    /\ IF date = period.end
       THEN /\ NextBudgetPeriod(period.end, type).start = date + 1
            /\ BudgetPeriod(date + 1, type) = NextBudgetPeriod(period.end, type)
       ELSE BudgetPeriod(date + 1, type) = period

Earlier(k, l) == k[1] < l[1] \/ (k[1] = l[1] /\ k[2] < l[2])

\* A report is cached under the key of the day its range starts on, an event
\* deletes the keys of the day it falls on: one function, of two different
\* days, while the ranges of reports are computed by functions of their own
\* (report-period-boundaries.ts).  They agree: every day of a range has the
\* key of the day the range starts on, keys change exactly where one report
\* ends and the next begins, and only grow, so that none is used twice.  The
\* comparison period ends where the current one starts and is a whole period.
KeysNameReports ==
  \A type \in ReportTypes :
    LET b == ReportBoundary(date, type)
        key == PeriodKey(date, type) IN
    /\ b.start <= date /\ date < b.end
    /\ PeriodKey(b.start, type) = key
    /\ IF date + 1 = b.end THEN Earlier(key, PeriodKey(date + 1, type))
                           ELSE PeriodKey(date + 1, type) = key
    /\ ReportBoundary(b.start - 1, type).start = b.prior

\* A due date once shown stays until it has passed, and the next one follows
\* it by one installment, though months differ in length.
DueDatesStay ==
  \A start \in LoanStarts, frequency \in Frequencies :
    start < date =>
      LET due == NextDue(start, frequency, date) IN
      /\ due >= date
      /\ NextDue(start, frequency, date + 1) =
           IF due = date THEN AddInstallment(due, frequency) ELSE due
=============================================================================
