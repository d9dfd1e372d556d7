----------------------------- MODULE Recurrence -----------------------------
(***************************************************************************)
(* The calendar of recurring tasks: agent/recurrence.py, and advance_       *)
(* recurrence in agent/scheduler.py, by which a task's due time moves on    *)
(* each time it fires.                                                      *)
(*                                                                          *)
(* A date is a record of the month, counted from the first month of the     *)
(* year of the first due time, and the day of the month; the time of day,   *)
(* which no recurrence changes, is left out.                                *)
(***************************************************************************)
EXTENDS Integers, Sequences

CONSTANTS
    MonthLength,   \* the lengths of the months, as a sequence that starts with a January
    FirstWeekday,  \* the weekday of its first day, 0 to 6
    FirstDue,      \* the first due times
    Rule,          \* the recurrences: records of repeat, interval and weekdays
    MaxFirings     \* bound on the firings

Weekday == 0 .. 6

Date == [month : DOMAIN MonthLength, day : 1 .. 31]

ASSUME RecurrenceAssumption ==
    /\ MonthLength \in Seq(28 .. 31)
    /\ FirstWeekday \in Weekday
    /\ \A d \in FirstDue : d \in Date /\ d.day <= MonthLength[d.month]
    /\ Rule \subseteq [repeat : {"daily", "weekly", "monthly"}, interval : Int,
                       weekdays : SUBSET Weekday]
    /\ MaxFirings \in Nat

VARIABLES
    rule,     \* the task's repeat, interval and weekdays
    firings   \* history variable: the due times so far, the last of which is due_at

recurrenceVars == <<rule, firings>>

-----------------------------------------------------------------------------
(* Dates as numbers of days: timedelta and weekday().                       *)

\* the days before a month
Before[m \in Nat] == IF m <= 1 THEN 0 ELSE Before[m - 1] + MonthLength[m - 1]
DayNumber(date) == Before[date.month] + date.day

DateOf(n) ==
    LET m == CHOOSE m \in DOMAIN MonthLength : Before[m] < n /\ n <= Before[m] + MonthLength[m]
    IN  [month |-> m, day |-> n - Before[m]]

LastDay == Before[Len(MonthLength)] + MonthLength[Len(MonthLength)]
WeekdayOf(n) == (FirstWeekday + n - 1) % 7

-----------------------------------------------------------------------------
(* agent/recurrence.py                                                      *)

\* advance_weekly: it stops at the first day that matches, at the latest after its rounds
AdvanceWeekly(n, interval, weekdays) ==
    IF weekdays = {} THEN n + 7 * interval
    ELSE LET rounds == 7 * interval + 1
             Matches(k) == WeekdayOf(n + k) \in weekdays
             stops == {k \in 1 .. rounds : Matches(k) \/ k = rounds}
         IN  n + CHOOSE k \in stops : \A j \in stops : k <= j

\* Faulty variant: a day that the month does not have is carried into the next one
AdvanceMonthlyCarried(date, interval) ==
    DateOf(Before[date.month + interval] + date.day)

\* advance_monthly: the day is clamped to the length of the month
AdvanceMonthly(date, interval) ==
    LET m == date.month + interval
    IN  [month |-> m, day |-> IF date.day <= MonthLength[m] THEN date.day ELSE MonthLength[m]]

-----------------------------------------------------------------------------

Due == firings[Len(firings)]

\* an interval below 1 counts as 1
Interval == IF rule.interval < 1 THEN 1 ELSE rule.interval

\* a firing that is the last one the calendar has room for
Ends(date) == DayNumber(date) + 31 * Interval > LastDay

\* advance_recurrence, when pop_due takes the task
Fire ==
    /\ Len(firings) <= MaxFirings
    /\ ~ Ends(Due)
    /\ firings' = Append(firings,
           CASE rule.repeat = "daily" -> DateOf(DayNumber(Due) + Interval)
             [] rule.repeat = "weekly" ->
                    DateOf(AdvanceWeekly(DayNumber(Due), Interval, rule.weekdays))
             [] rule.repeat = "monthly" -> AdvanceMonthly(Due, Interval))
    /\ UNCHANGED rule

RecurrenceInit ==
    /\ rule \in Rule
    /\ \E d \in FirstDue : firings = <<d>>

RecurrenceNext == Fire

RecurrenceSpec == RecurrenceInit /\ [][RecurrenceNext]_recurrenceVars

-----------------------------------------------------------------------------
(* Properties.                                                              *)

Between(a, b) == DayNumber(a) + 1 .. DayNumber(b)

\* From one firing to the next, however many there were before: a weekly recurrence with
\* weekdays fires on one of them and, if it was asked for every week, passes over none (a
\* longer interval is not kept: see EveryNWeeks); a monthly one keeps to its months and fires
\* on the first day it was asked for or, if a month since then was too short for it, on the
\* last day that all of them have; another fires once in each interval.
NoDayIsSkipped ==
    \A i \in 2 .. Len(firings) :
        LET a == firings[i - 1]
            b == firings[i]
        IN  CASE rule.repeat = "monthly" ->
                    /\ b.month = a.month + Interval
                    /\ b.day \in {firings[1].day}
                                     \cup {MonthLength[firings[j].month] : j \in 1 .. i}
                    /\ b.day <= firings[1].day
                    /\ \A j \in 1 .. i : b.day <= MonthLength[firings[j].month]
              [] rule.repeat = "weekly" /\ rule.weekdays # {} ->
                    LET asked == {n \in Between(a, b) : WeekdayOf(n) \in rule.weekdays}
                    IN  /\ DayNumber(b) \in asked
                        /\ Interval = 1 => asked = {DayNumber(b)}
              [] OTHER ->
                    DayNumber(b) - DayNumber(a)
                        = Interval * (IF rule.repeat = "weekly" THEN 7 ELSE 1)

\* Claim of the docstring of Task, "interval is the step (every N days/weeks/months). For
\* weekly recurrence, weekdays can restrict to specific days": a recurrence every N weeks
\* fires again on the same weekday only after N weeks, with weekdays or without.
EveryNWeeks ==
    rule.repeat = "weekly" =>
        \A i, j \in DOMAIN firings :
            LET m == DayNumber(firings[i])
                n == DayNumber(firings[j])
            IN  i < j /\ WeekdayOf(m) = WeekdayOf(n) => n - m >= 7 * Interval

=============================================================================
