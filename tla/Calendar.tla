------------------------------ MODULE Calendar ------------------------------
(***************************************************************************)
(* Calendar arithmetic on whole days (core/src/recurrence/calendar.ts).  A *)
(* day is its number, counted from 1 January 1970, where the code counts   *)
(* the milliseconds of its UTC midnight.  EpochOf and YmdOf stand for      *)
(* ECMAScript's Date.UTC and getUTC*, in the proleptic Gregorian calendar. *)
(***************************************************************************)
EXTENDS Integers

\* Sunday is 0, as for getUTCDay.
Weekdays == 0 .. 6

\* A civil year counted from March has its leap day last.
EpochOf(year, month, day) ==
  LET y == IF month > 2 THEN year ELSE year - 1
      fromMarch == (month + 9) % 12
  IN  365 * y + (y \div 4) - (y \div 100) + (y \div 400)
        + ((153 * fromMarch + 2) \div 5) + day - 1 - 719468

WeekdayOf(day) == (day + 4) % 7

\* Month number of a year and month, so that months can be added.
MonthIndex(year, month) == year * 12 + month - 1

FirstOfMonth(index) == EpochOf(index \div 12, (index % 12) + 1, 1)

\* The inverse: 400 years are 146097 days.
YmdOf(day) ==
  LET z == day + 719468
      inEra == z % 146097
      ofEra == (inEra - (inEra \div 1460) + (inEra \div 36524) - (inEra \div 146096)) \div 365
      inYear == inEra - (365 * ofEra + (ofEra \div 4) - (ofEra \div 100))
      fromMarch == (5 * inYear + 2) \div 153
      month == IF fromMarch < 10 THEN fromMarch + 3 ELSE fromMarch - 9
  IN  [year |-> ofEra + 400 * (z \div 146097) + (IF month <= 2 THEN 1 ELSE 0),
       month |-> month,
       day |-> inYear - ((153 * fromMarch + 2) \div 5) + 1]

DaysInMonth(year, month) ==
  FirstOfMonth(MonthIndex(year, month) + 1) - FirstOfMonth(MonthIndex(year, month))

\* dayInMonth (engine.ts), the clamping addMonths and addYears share.
DayInMonth(year, month, day) ==
  LET length == DaysInMonth(year, month)
  IN  EpochOf(year, month, IF day < length THEN day ELSE length)

AddMonths(day, count) ==
  LET ymd == YmdOf(day)
      index == MonthIndex(ymd.year, ymd.month) + count
  IN  DayInMonth(index \div 12, (index % 12) + 1, ymd.day)

AddYears(day, count) ==
  LET ymd == YmdOf(day) IN DayInMonth(ymd.year + count, ymd.month, ymd.day)

NextWeekdayOnOrAfter(day, target) == day + ((target - WeekdayOf(day)) % 7)

NextWeekdayAfter(day, target) == NextWeekdayOnOrAfter(day + 1, target)

\* ordinal -1 is the last one.  A fifth that the month lacks is one of the next.
NthWeekdayOfMonth(year, month, ordinal, target) ==
  LET last == EpochOf(year, month, DaysInMonth(year, month))
  IN  IF ordinal = -1
        THEN last - ((WeekdayOf(last) - target) % 7)
        ELSE NextWeekdayOnOrAfter(EpochOf(year, month, 1), target) + (ordinal - 1) * 7

=============================================================================
