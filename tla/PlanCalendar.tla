---------------------------- MODULE PlanCalendar ----------------------------
(***************************************************************************)
(* The calendar of the maintenance plan: adding months to a due date, the  *)
(* visits projected from one stored date (GET /schedule), the 52 work      *)
(* weeks of the grid, and the past-due visits the grid announces.          *)
(*                                                                         *)
(* A date is a pair: months since January of year 0, and a day of the      *)
(* month.  Year 0 is a leap year.                                          *)
(***************************************************************************)
EXTENDS Integers

(* Date.UTC, the calendar. *)
Leap(y) == y % 4 = 0 /\ (y % 100 # 0 \/ y % 400 = 0)
DaysInMonth(m) ==
    CASE m % 12 \in {3, 5, 8, 10} -> 30
      [] m % 12 = 1 -> IF Leap(m \div 12) THEN 29 ELSE 28
      [] OTHER -> 31
DaysInYear(y) == IF Leap(y) THEN 366 ELSE 365

Dates == {d \in Nat \X (1 .. 31) : d[2] <= DaysInMonth(d[1])}
YearOf(d) == d[1] \div 12
NotAfter(d, e) == d[1] < e[1] \/ (d[1] = e[1] /\ d[2] <= e[2])
Before(d, e) == NotAfter(d, e) /\ d # e

(* Days of the year before the first of each month, in a common year. *)
DaysBeforeMonth == <<0, 31, 59, 90, 120, 151, 181, 212, 243, 273, 304, 334>>
DayIndex(d) ==
    DaysBeforeMonth[(d[1] % 12) + 1] + d[2] - 1
        + (IF Leap(YearOf(d)) /\ d[1] % 12 > 1 THEN 1 ELSE 0)

-----------------------------------------------------------------------------
(* Months are added to the month; a day the month lacks becomes its last.  *)
addCalendarMonthsClamped(d, months) ==
    LET last == DaysInMonth(d[1] + months)
    IN  <<d[1] + months, IF d[2] <= last THEN d[2] ELSE last>>

(* A verified job moves every rule of its scope to one interval after the  *)
(* day of the verification.                                                *)
computeCompletionCascade(verifiedOn, intervals) ==
    [f \in DOMAIN intervals |-> [lastCompletedOn |-> verifiedOn,
                                 nextDueOn |-> addCalendarMonthsClamped(verifiedOn, intervals[f])]]

(* resolveWindow: a window that ends before it begins, or spans more than  *)
(* maxDays days, is refused.                                               *)
DayNumber(d) == DayIndex(d) + 365 * YearOf(d) + (YearOf(d) + 3) \div 4
                  - (YearOf(d) + 99) \div 100 + (YearOf(d) + 399) \div 400
resolveWindow(from, to, maxDays) ==
    NotAfter(from, to) /\ DayNumber(to) - DayNumber(from) <= maxDays

(* The dates one rule falls due on in a window, each counted from the      *)
(* stored date; maxVisits bounds the loop.                                 *)
projectVisitDates(nextDueOn, interval, from, to, maxVisits) ==
    IF interval < 1
    THEN {d \in {nextDueOn} : NotAfter(from, d) /\ NotAfter(d, to)}
    ELSE {d \in {addCalendarMonthsClamped(nextDueOn, n * interval) : n \in 0 .. maxVisits - 1} :
             NotAfter(from, d) /\ NotAfter(d, to)}

-----------------------------------------------------------------------------
(* Work weeks: seven days each from 1 January; the last one takes the rest *)
(* of the year.  NoWeek for a date of another year.                        *)
WORK_WEEKS_PER_YEAR == 52
NoWeek == 0

weekOfDay(day) ==
    LET week == day \div 7 + 1
    IN  IF week <= WORK_WEEKS_PER_YEAR THEN week ELSE WORK_WEEKS_PER_YEAR
workWeekOfDate(d, year) == IF YearOf(d) # year THEN NoWeek ELSE weekOfDay(DayIndex(d))

workWeekStart(week) == (week - 1) * 7
workWeekEnd(year, week) ==
    IF week >= WORK_WEEKS_PER_YEAR THEN DaysInYear(year) - 1 ELSE workWeekStart(week) + 6

-----------------------------------------------------------------------------
(* buildGrid: the cells of a rule, the ones marked LATE, and how a rule    *)
(* that is past due is announced.                                          *)
GridCells(rule, year) == {d \in rule.plannedDates : workWeekOfDate(d, year) # NoWeek}
LateCells(rule, year, now) == {d \in GridCells(rule, year) : d = rule.nextDueOn /\ Before(d, now)}
CountedLate(rule, year, now) ==
    Before(rule.nextDueOn, now) /\ workWeekOfDate(rule.nextDueOn, year) # NoWeek
OverdueElsewhere(rule, year, now) ==
    Before(rule.nextDueOn, now) /\ workWeekOfDate(rule.nextDueOn, year) = NoWeek

(* A row of the plan for one calendar year, as the planner asks for it. *)
toPlannerRow(nextDueOn, interval, year, maxVisits) ==
    [nextDueOn |-> nextDueOn,
     plannedDates |-> projectVisitDates(nextDueOn, interval, <<12 * year, 1>>,
                                        <<12 * year + 11, 31>>, maxVisits)]

(* findMany: a rule due after the year's end is not read for that year.    *)
PlannerRowsOf(nextDueOn, interval, year, maxVisits) ==
    {row \in {toPlannerRow(nextDueOn, interval, year, maxVisits)} :
        NotAfter(row.nextDueOn, <<12 * year + 11, 31>>)}

-----------------------------------------------------------------------------
(* Every day of a year lies in one work week, and that is the week whose   *)
(* column it is drawn in.                                                  *)
WeekHoldsItsDays(year, day) ==
    \A week \in 1 .. WORK_WEEKS_PER_YEAR :
        week = weekOfDay(day) <=> workWeekStart(week) <= day /\ day <= workWeekEnd(year, week)

(* A rule whose visits are verified on their due dates keeps to the dates  *)
(* that were projected from the first of them.                             *)
PunctualFollowsPlan(first, n, interval) ==
    computeCompletionCascade(addCalendarMonthsClamped(first, n * interval),
                             [f \in {"rule"} |-> interval])["rule"].nextDueOn
        = addCalendarMonthsClamped(first, (n + 1) * interval)

(* A rule that is past due has its stored date as the one cell marked LATE *)
(* on the plan of that date's year, is named as lying outside the year on  *)
(* the plan of a later one, and is not on the plan of an earlier one.      *)
LateIsVisible(due, rows, year, now) ==
    Before(due, now) =>
        IF YearOf(due) > year THEN rows = {}
        ELSE \E row \in rows :
                IF YearOf(due) = year
                THEN CountedLate(row, year, now) /\ LateCells(row, year, now) = {due}
                ELSE OverdueElsewhere(row, year, now) /\ LateCells(row, year, now) = {}
=============================================================================
