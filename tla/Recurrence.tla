----------------------------- MODULE Recurrence -----------------------------
(***************************************************************************)
(* What the next date of a repeating Task is (core/src/recurrence/         *)
(* engine.ts): from the rule, the Task's date and today, and nothing that  *)
(* was remembered.  dateString is parsed again on every completion, so a   *)
(* rule stands for the string it parses from; a time of day only changes   *)
(* how the result is printed.                                              *)
(***************************************************************************)
EXTENDS Calendar, FiniteSets, FiniteSetsExt

CONSTANT NoDate   \* null, for dates, bounds and a rule's month

ASSUME NoDateAssumption == NoDate \notin Int

Units == {"day", "week", "month", "year"}

Entries == [ordinal : {-1} \cup 1 .. 5, day : Weekdays, month : 1 .. 12]

\* days, ordinal, day, month and entries as the kind needs them.
Frequencies ==
  [kind : {"daily", "weekly", "workdays", "monthly", "yearly"}]
    \cup [kind : {"weekdays"}, days : (SUBSET Weekdays) \ {{}}]
    \cup [kind : {"ordinalWeekday"}, ordinal : {-1} \cup 1 .. 5, day : Weekdays,
          month : {NoDate} \cup 1 .. 12]
    \cup [kind : {"ordinalWeekdayList"}, entries : (SUBSET Entries) \ {{}}]
    \cup [kind : {"monthlyDay"}, day : 1 .. 31]
    \cup [kind : {"yearlyMonthDay"}, month : 1 .. 12, day : 1 .. 31]

MonthDay == [month : 1 .. 12, day : 1 .. 31, year : {NoDate} \cup Int]

Rule == [frequency : Frequencies, interval : Nat \ {0},
         anchor : {"due", "completion"},
         startBound : {NoDate} \cup MonthDay, endBound : {NoDate} \cup MonthDay,
         durationBound : {NoDate} \cup [count : Nat, unit : Units]]

-----------------------------------------------------------------------------
(* One period forward                                                      *)

\* nextMatchingWeekday and its on-or-after twin.
NextMatchingWeekday(day, days) == Min({NextWeekdayAfter(day, w) : w \in days})

FirstMatchingWeekday(day, days) == Min({NextWeekdayOnOrAfter(day, w) : w \in days})

Workdays == 1 .. 5

AddWorkdays(day, interval) ==
  LET after[n \in Nat] == IF n = 0 THEN day ELSE NextMatchingWeekday(after[n - 1], Workdays)
  IN  after[interval]

\* Assumes that day is on the pattern: the next month's, or year's, instance.
NextOrdinalWeekday(day, f) ==
  LET ymd == YmdOf(day)
      index == MonthIndex(ymd.year, ymd.month) + 1
  IN  IF f.month = NoDate
        THEN NthWeekdayOfMonth(index \div 12, (index % 12) + 1, f.ordinal, f.day)
        ELSE NthWeekdayOfMonth(ymd.year + 1, f.month, f.ordinal, f.day)

FirstOrdinalWeekday(day, f) ==
  LET ymd == YmdOf(day)
      here == NthWeekdayOfMonth(ymd.year, IF f.month = NoDate THEN ymd.month ELSE f.month,
                                f.ordinal, f.day)
  IN  IF here >= day THEN here ELSE NextOrdinalWeekday(day, f)

\* nextEntryOccurrence, asked for the first instance on or after a day.
FirstEntryOccurrence(day, e) ==
  LET year == YmdOf(day).year
      here == NthWeekdayOfMonth(year, e.month, e.ordinal, e.day)
  IN  IF here >= day THEN here ELSE NthWeekdayOfMonth(year + 1, e.month, e.ordinal, e.day)

NextEntryOccurrence(day, e) ==
  LET year == YmdOf(day).year
      here == NthWeekdayOfMonth(year, e.month, e.ordinal, e.day)
  IN  IF here > day THEN here ELSE NthWeekdayOfMonth(year + 1, e.month, e.ordinal, e.day)

NextMonthlyDay(day, target) ==
  LET ymd == YmdOf(day)
      index == MonthIndex(ymd.year, ymd.month) + 1
  IN  DayInMonth(index \div 12, (index % 12) + 1, target)

FirstMonthlyDay(day, target) ==
  LET ymd == YmdOf(day)
      here == DayInMonth(ymd.year, ymd.month, target)
  IN  IF here >= day THEN here ELSE NextMonthlyDay(day, target)

FirstYearlyMonthDay(day, f) ==
  LET year == YmdOf(day).year
      here == DayInMonth(year, f.month, f.day)
  IN  IF here >= day THEN here ELSE DayInMonth(year + 1, f.month, f.day)

StepOnce(day, rule) ==
  LET f == rule.frequency
      n == rule.interval
  IN  CASE f.kind = "daily" -> day + n
        [] f.kind = "weekly" -> day + 7 * n
        [] f.kind = "workdays" -> AddWorkdays(day, n)
        [] f.kind = "weekdays" -> NextMatchingWeekday(day, f.days)
        [] f.kind = "monthly" -> AddMonths(day, n)
        [] f.kind = "yearly" -> AddYears(day, n)
        [] f.kind = "ordinalWeekday" -> NextOrdinalWeekday(day, f)
        [] f.kind = "ordinalWeekdayList" ->
             Min({NextEntryOccurrence(day, e) : e \in f.entries})
        [] f.kind = "monthlyDay" -> NextMonthlyDay(day, f.day)
        [] f.kind = "yearlyMonthDay" -> DayInMonth(YmdOf(day).year + 1, f.month, f.day)

FirstOnOrAfterOrigin(day, rule) ==
  LET f == rule.frequency
  IN  CASE f.kind \in {"daily", "weekly", "monthly", "yearly"} -> day
        [] f.kind = "workdays" -> FirstMatchingWeekday(day, Workdays)
        [] f.kind = "weekdays" -> FirstMatchingWeekday(day, f.days)
        [] f.kind = "ordinalWeekday" -> FirstOrdinalWeekday(day, f)
        [] f.kind = "ordinalWeekdayList" ->
             Min({FirstEntryOccurrence(day, e) : e \in f.entries})
        [] f.kind = "monthlyDay" -> FirstMonthlyDay(day, f.day)
        [] f.kind = "yearlyMonthDay" -> FirstYearlyMonthDay(day, f)

-----------------------------------------------------------------------------
(* computeOccurrence                                                       *)

ResolveBoundDate(bound, origin) ==
  DayInMonth(IF bound.year = NoDate THEN YmdOf(origin).year ELSE bound.year,
             bound.month, bound.day)

AddUnit(day, count, unit) ==
  CASE unit = "day" -> day + count
    [] unit = "week" -> day + 7 * count
    [] unit = "month" -> AddMonths(day, count)
    [] unit = "year" -> AddYears(day, count)

\* Only an anchored rule of a Task that has a date starts from that date.
Origin(rule, due, today) ==
  IF rule.anchor = "due" /\ due # NoDate THEN due ELSE today

StartBound(rule, origin) ==
  IF rule.startBound = NoDate THEN NoDate ELSE ResolveBoundDate(rule.startBound, origin)

\* An explicit end wins over a duration, which has no memory of where it began.
EndBound(rule, origin) ==
  LET start == StartBound(rule, origin)
  IN  IF rule.endBound # NoDate THEN ResolveBoundDate(rule.endBound, origin)
      ELSE IF rule.durationBound = NoDate THEN NoDate
      ELSE AddUnit(IF start = NoDate THEN origin ELSE start,
                   rule.durationBound.count, rule.durationBound.unit)

\* Defect: a completed Task comes due again the same day (issue 290).
ClearsSameDay(day, rule, origin, today, completed) ==
  /\ day >= today
  /\ LET start == StartBound(rule, origin) IN start = NoDate \/ day >= start

\* Past the floor, which is after today once today's is done, and the start.
Clears(day, rule, origin, today, completed) ==
  /\ IF completed THEN day > today ELSE day >= today
  /\ LET start == StartBound(rule, origin) IN start = NoDate \/ day >= start

\* The outcome: a day, or NoDate when the rule has ended.  The code gives up
\* after MAX_STEPS steps, which the dates of a calendar in use never reach.
Occurrence(rule, due, today, completed) ==
  LET origin == Origin(rule, due, today)
      from[day \in Int] == IF Clears(day, rule, origin, today, completed)
                             THEN day ELSE from[StepOnce(day, rule)]
      found == from[IF completed THEN StepOnce(origin, rule)
                                 ELSE FirstOnOrAfterOrigin(origin, rule)]
      end == EndBound(rule, origin)
  IN  IF end # NoDate /\ found > end THEN NoDate ELSE found

NextOccurrenceAfterCompletion(rule, due, today) == Occurrence(rule, due, today, TRUE)

FirstOccurrence(rule, due, today) == Occurrence(rule, due, today, FALSE)

-----------------------------------------------------------------------------
(* What a rule means, said of each day by itself.                          *)

\* The ordinal-th weekday of its month.
IsNthWeekday(day, ordinal) ==
  IF ordinal = -1 THEN YmdOf(day).month # YmdOf(day + 7).month
                  ELSE (YmdOf(day).day - 1) \div 7 = ordinal - 1

IsDayOfMonth(day, target) ==
  LET ymd == YmdOf(day)
  IN  ymd.day <= target /\ (ymd.day = target \/ YmdOf(day + 1).day = 1)

MonthsBetween(from, to) ==
  LET f == YmdOf(from) t == YmdOf(to)
  IN  MonthIndex(t.year, t.month) - MonthIndex(f.year, f.month)

\* day is one of the days the rule names, counting intervals from origin.
Named(rule, origin, day) ==
  LET f == rule.frequency
      n == rule.interval
      w == WeekdayOf(day)
      months == MonthsBetween(origin, day)
  IN  \/ f.kind = "daily" /\ (day - origin) % n = 0
      \/ f.kind = "weekly" /\ (day - origin) % (7 * n) = 0
      \/ /\ f.kind = "workdays"
         /\ w \in Workdays
         /\ Cardinality({d \in origin + 1 .. day : WeekdayOf(d) \in Workdays}) % n = 0
      \/ f.kind = "weekdays" /\ w \in f.days
      \/ f.kind = "monthly" /\ months % n = 0 /\ IsDayOfMonth(day, YmdOf(origin).day)
      \/ f.kind = "yearly" /\ months % (12 * n) = 0 /\ IsDayOfMonth(day, YmdOf(origin).day)
      \/ /\ f.kind = "ordinalWeekday"
         /\ w = f.day /\ IsNthWeekday(day, f.ordinal)
         /\ f.month \in {NoDate, YmdOf(day).month}
      \/ /\ f.kind = "ordinalWeekdayList"
         /\ \E e \in f.entries :
              w = e.day /\ IsNthWeekday(day, e.ordinal) /\ e.month = YmdOf(day).month
      \/ f.kind = "monthlyDay" /\ IsDayOfMonth(day, f.day)
      \/ /\ f.kind = "yearlyMonthDay"
         /\ IsDayOfMonth(day, f.day) /\ f.month = YmdOf(day).month

=============================================================================
