----------------------------- MODULE TodoProofs -----------------------------
(***************************************************************************)
(* For every set of Tasks, Sections and callers, every recurrence rule and *)
(* every scene: what the calls of one Device, its setters, a Sync, midnight*)
(* and a closed tab leave of the Tasks, however they interleave.           *)
(*                                                                         *)
(* The argument is about a list of steps: each step of it is fit (it knows *)
(* rows that are there, completes none that the call has to spare, and a   *)
(* walk of setParent is sound), and only the first is in the middle of     *)
(* setParent (Harmless).  A statement replaces the first step by harmless  *)
(* ones, and no write of another takes the fitness of the rest away.       *)
(*                                                                         *)
(* What a cascade has promised is a second invariant over the same steps   *)
(* (OwedIsDue, in Duties): each Task it owes is reached, is listed in a    *)
(* step, or is in every set that holds what the steps will visit and what  *)
(* hangs below it.  A step keeps what it was about in one of the three; the*)
(* write of another takes away the Tasks it touched and all below them,    *)
(* which leaves no gap in the branches of the rest.                        *)
(*                                                                         *)
(* The dates come first, for every rule and every day: each step of the    *)
(* engine goes forward, so its search ends, and what it finds is within    *)
(* the bounds.  That takes the calendar - a year is at least 365 days, a   *)
(* month at least 28, and a date and its number are each other's - and a   *)
(* form of induction that is about a set of numbers.                       *)
(*                                                                         *)
(* Nor does a step of the engine pass over a day that the rule names       *)
(* (IsFirst).  A rule names every n-th day, every workday that is a        *)
(* multiple of n away, the days of some weekdays, or one day of each of    *)
(* some months (ByDay, ByWeekday); for each the next is told from what the *)
(* step computes, and a list has the least of what its entries name next.  *)
(* So the search comes to the nearest day within the bounds.               *)
(***************************************************************************)
EXTENDS Duties, SequenceTheorems, FiniteSetTheorems, WellFoundedInduction, TLAPS

-----------------------------------------------------------------------------
(* The calendar                                                            *)

\* Division, as the calendar uses it.
LEMMA Quotient ==
  ASSUME NEW n \in Int, NEW d \in Int, d > 0
  PROVE  /\ n \div d \in Int /\ n % d \in Int
         /\ d * (n \div d) <= n
         /\ n < d * (n \div d) + d
         /\ n = d * (n \div d) + (n % d)
         /\ 0 <= n % d /\ n % d < d
  BY SMTT(30)

\* The days before a civil year and before a month of one, both from March.
DaysToYear(y) == 365 * y + (y \div 4) - (y \div 100) + (y \div 400)

DaysToMonth(m) == (153 * m + 2) \div 5

\* A year is at least 365 days.
LEMMA YearsGrow ==
  ASSUME NEW y \in Int, NEW z \in Int, y <= z
  PROVE  DaysToYear(y) + 365 * (z - y) <= DaysToYear(z)
<1>. DEFINE a == y \div 4  b == y \div 100  c == y \div 400
            p == z \div 4  q == z \div 100  r == z \div 400
<1>1. /\ a \in Int /\ 4 * a <= y /\ y < 4 * a + 4
      /\ b \in Int /\ 100 * b <= y /\ y < 100 * b + 100
      /\ c \in Int /\ 400 * c <= y /\ y < 400 * c + 400
      /\ p \in Int /\ 4 * p <= z /\ z < 4 * p + 4
      /\ q \in Int /\ 100 * q <= z /\ z < 100 * q + 100
      /\ r \in Int /\ 400 * r <= z /\ z < 400 * r + 400
  BY Quotient, SMT
<1>. HIDE DEF a, b, c, p, q, r
<1>2. a <= p /\ b <= q /\ c <= r
  BY <1>1, SMTT(30)
<1>3. 25 * b <= a /\ a < 25 * b + 25 /\ 25 * q <= p /\ p < 25 * q + 25
  BY <1>1, SMTT(30)
<1>4. q - b <= p - a
  BY <1>1, <1>2, <1>3, SMTT(30)
<1>. QED
  BY <1>1, <1>2, <1>4, SMT DEF DaysToYear, a, b, c, p, q, r

\* A year is 365 or 366 days.
LEMMA YearLength ==
  ASSUME NEW y \in Int
  PROVE  DaysToYear(y) + 365 <= DaysToYear(y + 1) /\ DaysToYear(y + 1) <= DaysToYear(y) + 366
<1>. DEFINE a == y \div 4  b == y \div 100  c == y \div 400
            z == y + 1
            p == z \div 4  q == z \div 100  r == z \div 400
<1>1. /\ a \in Int /\ 4 * a <= y /\ y < 4 * a + 4
      /\ b \in Int /\ 100 * b <= y /\ y < 100 * b + 100
      /\ c \in Int /\ 400 * c <= y /\ y < 400 * c + 400
      /\ p \in Int /\ 4 * p <= z /\ z < 4 * p + 4
      /\ q \in Int /\ 100 * q <= z /\ z < 100 * q + 100
      /\ r \in Int /\ 400 * r <= z /\ z < 400 * r + 400
  BY Quotient, SMT
<1>2. DaysToYear(y) = 365 * y + a - b + c /\ DaysToYear(z) = 365 * z + p - q + r
  BY SMT DEF DaysToYear
<1>. HIDE DEF a, b, c, p, q, r
<1>4. (p - a) - (q - b) + (r - c) \in {0, 1}
  <2>1. p - a \in {0, 1} /\ q - b \in {0, 1} /\ r - c \in {0, 1}
    BY <1>1, SMTT(30)
  <2>2. q - b = 1 => p - a = 1
    BY <1>1, SMTT(30)
  <2>3. r - c = 1 => q - b = 1
    BY <1>1, SMTT(30)
  <2>. QED BY <2>1, <2>2, <2>3, <1>1, SMT
<1>. QED
  BY <1>1, <1>2, <1>4, SMT

\* The day that calendar.ts's days are counted from, in days from March of year 0.
Shift == 719468

\* So days and the days of calendar.ts are whole numbers apart.
LEMMA ShiftIsInt == Shift \in Int
  BY SMT DEF Shift

\* A year and a month of one begin on a day.
LEMMA YearIsDay ==
  ASSUME NEW y \in Int PROVE DaysToYear(y) \in Int
  BY SMT DEF DaysToYear

\* The same of the months.
LEMMA MonthIsDay ==
  ASSUME NEW m \in Int PROVE DaysToMonth(m) \in Int
  BY SMT DEF DaysToMonth

\* Months follow each other in a year that begins with March.
LEMMA MonthsGrow ==
  ASSUME NEW m \in Int, NEW n \in Int, 0 <= m, m <= n, n < 12
  PROVE  /\ 0 <= DaysToMonth(m) /\ DaysToMonth(m) <= DaysToMonth(n)
         /\ DaysToMonth(n) <= 337
  BY SMT DEF DaysToMonth

\* The last of them begins 337 days in.
LEMMA YearEnds == DaysToMonth(0) = 0 /\ DaysToMonth(11) = 337
  BY SMT DEF DaysToMonth

\* Counted from March, each month but the last is 28 to 31 days.
LEMMA MonthStep ==
  ASSUME NEW m \in Int, 0 <= m, m < 11
  PROVE  DaysToMonth(m) + 28 <= DaysToMonth(m + 1)
         /\ DaysToMonth(m + 1) <= DaysToMonth(m) + 31
  BY SMT DEF DaysToMonth

\* EpochOf, of a month counted from March.
LEMMA EpochFromMarch ==
  ASSUME NEW y \in Int, NEW m \in Int, 3 <= m, m <= 12
  PROVE  EpochOf(y, m, 1) = DaysToYear(y) + DaysToMonth(m - 3) - Shift
  BY SMT DEF EpochOf, DaysToYear, DaysToMonth, Shift

\* January and February belong to the year before.
LEMMA EpochBeforeMarch ==
  ASSUME NEW y \in Int, NEW m \in Int, 1 <= m, m <= 2
  PROVE  EpochOf(y, m, 1) = DaysToYear(y - 1) + DaysToMonth(m + 9) - Shift
  BY SMT DEF EpochOf, DaysToYear, DaysToMonth, Shift

\* A date has a number.
LEMMA EpochIsDay ==
  ASSUME NEW y \in Int, NEW m \in Int, NEW d \in Int
  PROVE  /\ EpochOf(y, m, d) \in Int
         /\ EpochOf(y, m, d) = EpochOf(y, m, 1) + (d - 1)
  BY SMT DEF EpochOf

\* FirstOfMonth, of a month counted from March of year y.
LEMMA FirstFromMarch ==
  ASSUME NEW y \in Int, NEW m \in Int, 0 <= m, m < 12, NEW k \in Int, k = 12 * y + m + 2
  PROVE  FirstOfMonth(k) = DaysToYear(y) + DaysToMonth(m) - Shift
<1>1. CASE m < 10
  <2>1. k \div 12 = y /\ (k % 12) + 1 = m + 3 BY <1>1, SMT
  <2>2. FirstOfMonth(k) = EpochOf(y, m + 3, 1) BY <2>1, SMT DEF FirstOfMonth
  <2>3. 3 <= m + 3 /\ m + 3 <= 12 /\ m + 3 - 3 = m /\ m + 3 \in Int BY <1>1
  <2>4. EpochOf(y, m + 3, 1) = DaysToYear(y) + DaysToMonth(m + 3 - 3) - Shift
    BY <2>3, EpochFromMarch
  <2>. QED BY <2>2, <2>3, <2>4
<1>2. CASE m >= 10
  <2>1. k \div 12 = y + 1 /\ (k % 12) + 1 = m - 9 BY <1>2, SMT
  <2>2. FirstOfMonth(k) = EpochOf(y + 1, m - 9, 1) BY <2>1, SMT DEF FirstOfMonth
  <2>3. /\ 1 <= m - 9 /\ m - 9 <= 2 /\ m - 9 + 9 = m /\ m - 9 \in Int
        /\ y + 1 \in Int /\ y + 1 - 1 = y
    BY <1>2
  <2>4. EpochOf(y + 1, m - 9, 1) = DaysToYear(y + 1 - 1) + DaysToMonth(m - 9 + 9) - Shift
    BY <2>3, EpochBeforeMarch
  <2>. QED BY <2>2, <2>3, <2>4
<1>. QED BY <1>1, <1>2

\* A month index is a year and a month counted from March.
LEMMA FromMarch ==
  ASSUME NEW k \in Int
  PROVE  \E y \in Int, m \in Int : 0 <= m /\ m < 12 /\ k = 12 * y + m + 2
<1>1. /\ (k - 2) \div 12 \in Int /\ (k - 2) % 12 \in Int
      /\ 0 <= (k - 2) % 12 /\ (k - 2) % 12 < 12
      /\ k = 12 * ((k - 2) \div 12) + ((k - 2) % 12) + 2
  BY SMT
<1>. QED BY <1>1, Zenon

\* A month, by its index, starts so many days after March of year 0.
LEMMA MonthStart ==
  ASSUME NEW k \in Int
  PROVE  \E y \in Int, m \in Int :
           /\ 0 <= m /\ m < 12 /\ k = 12 * y + m + 2
           /\ FirstOfMonth(k) = DaysToYear(y) + DaysToMonth(m) - Shift
<1>1. PICK y \in Int, m \in Int : 0 <= m /\ m < 12 /\ k = 12 * y + m + 2
  BY FromMarch
<1>2. FirstOfMonth(k) = DaysToYear(y) + DaysToMonth(m) - Shift
  BY <1>1, FirstFromMarch
<1>. QED BY <1>1, <1>2

\* The first of a month has a number.
LEMMA FirstIsDay ==
  ASSUME NEW k \in Int PROVE FirstOfMonth(k) \in Int
  BY MonthStart, YearIsDay, MonthIsDay, ShiftIsInt

\* A month has 28 to 31 days.
LEMMA MonthLength ==
  ASSUME NEW k \in Int
  PROVE  /\ FirstOfMonth(k) + 28 <= FirstOfMonth(k + 1)
         /\ FirstOfMonth(k + 1) <= FirstOfMonth(k) + 31
<1>1. PICK y \in Int, m \in Int : 0 <= m /\ m < 12 /\ k = 12 * y + m + 2
  BY FromMarch
<1>2. FirstOfMonth(k) = DaysToYear(y) + DaysToMonth(m) - Shift
  BY <1>1, FirstFromMarch
<1>3. DaysToYear(y) \in Int /\ DaysToMonth(m) \in Int /\ DaysToMonth(m + 1) \in Int
  BY YearIsDay, MonthIsDay
<1>4. CASE m < 11
  <2>1. k + 1 = 12 * y + (m + 1) + 2 /\ 0 <= m + 1 /\ m + 1 < 12 BY <1>1, <1>4
  <2>2. FirstOfMonth(k + 1) = DaysToYear(y) + DaysToMonth(m + 1) - Shift
    BY <2>1, FirstFromMarch
  <2>3. DaysToMonth(m) + 28 <= DaysToMonth(m + 1) /\ DaysToMonth(m + 1) <= DaysToMonth(m) + 31
    BY <1>1, <1>4, MonthStep
  <2>. QED BY <1>2, <1>3, <2>2, <2>3, ShiftIsInt
<1>5. CASE m = 11
  <2>1. \A z \in Int : k + 1 = 12 * z + 0 + 2 =>
           FirstOfMonth(k + 1) = DaysToYear(z) + DaysToMonth(0) - Shift
    BY FirstFromMarch
  <2>2. FirstOfMonth(k + 1) = DaysToYear(y + 1) + DaysToMonth(0) - Shift
    <3>1. k + 1 = 12 * (y + 1) + 0 + 2 /\ y + 1 \in Int BY <1>1, <1>5
    <3>. QED BY <2>1, <3>1, Zenon
  <2>3. DaysToYear(y + 1) \in Int BY YearIsDay
  <2>4. DaysToYear(y) + 365 <= DaysToYear(y + 1) /\ DaysToYear(y + 1) <= DaysToYear(y) + 366
    BY <1>3, <2>3, YearLength
  <2>. QED BY <1>2, <1>3, <1>5, <2>2, <2>3, <2>4, YearEnds, ShiftIsInt
<1>. QED BY <1>1, <1>4, <1>5

\* A later month begins later.
LEMMA MonthsInOrder ==
  ASSUME NEW j \in Int, NEW k \in Int, j <= k
  PROVE  FirstOfMonth(j) <= FirstOfMonth(k)
<1>1. PICK y \in Int, m \in Int : 0 <= m /\ m < 12 /\ j = 12 * y + m + 2
  BY FromMarch
<1>2. PICK z \in Int, n \in Int : 0 <= n /\ n < 12 /\ k = 12 * z + n + 2
  BY FromMarch
<1>3. /\ FirstOfMonth(j) = DaysToYear(y) + DaysToMonth(m) - Shift
      /\ FirstOfMonth(k) = DaysToYear(z) + DaysToMonth(n) - Shift
  BY <1>1, <1>2, FirstFromMarch
<1>4. /\ DaysToYear(y) \in Int /\ DaysToYear(z) \in Int
      /\ DaysToMonth(m) \in Int /\ DaysToMonth(n) \in Int
  BY YearIsDay, MonthIsDay
<1>5. 0 <= DaysToMonth(n) /\ DaysToMonth(m) <= 337
  BY <1>1, <1>2, MonthsGrow
<1>6. CASE y = z
  <2>1. m <= n BY <1>1, <1>2, <1>6
  <2>2. DaysToMonth(m) <= DaysToMonth(n) BY <1>1, <1>2, <2>1, MonthsGrow
  <2>. QED BY <1>3, <1>4, <1>6, <2>2, ShiftIsInt
<1>7. CASE y # z
  <2>1. y + 1 <= z BY <1>1, <1>2, <1>7
  <2>2. DaysToYear(y) + 365 * (z - y) <= DaysToYear(z) BY <2>1, YearsGrow
  <2>3. DaysToYear(y) + 365 <= DaysToYear(z) BY <1>4, <2>1, <2>2
  <2>. QED BY <1>3, <1>4, <1>5, <2>3, ShiftIsInt
<1>. QED BY <1>6, <1>7

\* One 400-year era: its day e lies in the year that YmdOf computes.
LEMMA EraYear ==
  ASSUME NEW e \in Int, NEW a \in Int, NEW c \in Int, NEW q \in Int,
         0 <= e, e < 146097,
         1460 * a <= e, e < 1460 * a + 1460,
         36524 * c <= e, e < 36524 * c + 36524, 0 <= c, c < 4,
         365 * q <= e - a + c, e - a + c < 365 * q + 365,
         NEW g \in Int, NEW h \in Int, q = 4 * g + h, 0 <= h, h < 4
  PROVE  /\ q >= 100 * c /\ q < 100 * c + 100
         /\ 365 * q + g - c <= e
         /\ (h = 3 /\ q # 100 * c + 99) => e < 365 * (q + 1) + g + 1 - c
         /\ (h # 3 \/ q = 100 * c + 99) => e < 365 * (q + 1) + g - c
<1>1. q >= 100 * c BY SMTT(30)
<1>2. q < 100 * c + 100 BY SMTT(30)
<1>3. 365 * q + g - c <= e  BY <1>1, <1>2, SMTT(30)
<1>4. (h = 3 /\ q # 100 * c + 99) => e < 365 * (q + 1) + g + 1 - c BY <1>1, <1>2, SMTT(30)
<1>5. h # 3 => e < 365 * (q + 1) + g - c BY <1>1, <1>2, SMTT(30)
<1>6. q = 100 * c + 99 => e < 365 * (q + 1) + g - c BY <1>1, <1>2, SMTT(30)
<1>. QED BY <1>1, <1>2, <1>3, <1>4, <1>5, <1>6, SMT

\* The year of an era that its day e lies in, as YmdOf computes it.
YearOfEra(e) == (e - (e \div 1460) + (e \div 36524) - (e \div 146096)) \div 365

\* The year of an era that a day of it falls in.
LEMMA EraOf ==
  ASSUME NEW e \in Int, 0 <= e, e < 146097,
         NEW q \in Int, q = YearOfEra(e)
  PROVE  /\ 0 <= q /\ q < 400
         /\ DaysToYear(q) <= e
         /\ q < 399 => e < DaysToYear(q + 1)
         /\ DaysToYear(q) = 365 * q + (q \div 4) - (q \div 100)
<1>. DEFINE a == e \div 1460  c == e \div 36524  l == e \div 146096
            g == q \div 4  h == q % 4  b == q \div 100
            z == q + 1
            p == z \div 4  r == z \div 100
<1>1. /\ a \in Int /\ 1460 * a <= e /\ e < 1460 * a + 1460
      /\ c \in Int /\ 36524 * c <= e /\ e < 36524 * c + 36524
      /\ l \in Int /\ 146096 * l <= e /\ e < 146096 * l + 146096
      /\ g \in Int /\ h \in Int /\ q = 4 * g + h /\ 0 <= h /\ h < 4
      /\ b \in Int /\ 100 * b <= q /\ q < 100 * b + 100
      /\ p \in Int /\ 4 * p <= z /\ z < 4 * p + 4
      /\ r \in Int /\ 100 * r <= z /\ z < 100 * r + 100
  BY Quotient, SMT
<1>2. 365 * q <= e - a + c - l /\ e - a + c - l < 365 * q + 365
  <2>1. q = (e - a + c - l) \div 365 /\ e - a + c - l \in Int
    BY <1>1, SMT DEF YearOfEra
  <2>. HIDE DEF a, c, l
  <2>. QED BY <2>1, Quotient, SMT
<1>3. DaysToYear(q) = 365 * q + g - b + (q \div 400)
      /\ DaysToYear(z) = 365 * z + p - r + (z \div 400)
  BY SMT DEF DaysToYear
<1>. HIDE DEF a, c, l, g, h, b, p, r
<1>4. CASE e < 146096
  <2>1. l = 0 /\ 0 <= c /\ c < 4
    BY <1>1, <1>4, SMT
  <2>2. /\ q >= 100 * c /\ q < 100 * c + 100
        /\ 365 * q + g - c <= e
        /\ (h = 3 /\ q # 100 * c + 99) => e < 365 * (q + 1) + g + 1 - c
        /\ (h # 3 \/ q = 100 * c + 99) => e < 365 * (q + 1) + g - c
    <3>1. 365 * q <= e - a + c /\ e - a + c < 365 * q + 365 BY <1>2, <1>1, <2>1, SMT
    <3>. QED BY <1>1, <2>1, <3>1, EraYear, SMT
  <2>3. b = c BY <1>1, <2>1, <2>2, SMT
  <2>4. 0 <= q /\ q < 400 BY <1>1, <2>1, <2>2, SMT
  <2>5. q \div 400 = 0 BY <2>4, SMT
  <2>6. q < 399 => z \div 400 = 0 BY <2>4, SMT
  <2>7. q < 399 => e < 365 * z + p - r
    <3>1. h = 3 => p = g + 1 BY <1>1, SMT
    <3>2. h # 3 => p = g BY <1>1, SMT
    <3>3. q = 100 * c + 99 => r = c + 1 /\ h = 3 BY <1>1, <2>1, SMT
    <3>4. q # 100 * c + 99 => r = c BY <1>1, <2>1, <2>2, SMT
    <3>. QED BY <1>1, <2>1, <2>2, <3>1, <3>2, <3>3, <3>4, SMT
  <2>. QED BY <1>1, <1>3, <2>1, <2>2, <2>3, <2>4, <2>5, <2>6, <2>7, SMT
<1>5. CASE e = 146096
  <2>1. a = 100 /\ c = 4 /\ l = 1 BY <1>1, <1>5, SMT
  <2>2. q = 399 BY <1>2, <1>5, <2>1, SMT
  <2>3. g = 99 /\ b = 3 /\ q \div 400 = 0 BY <1>1, <2>2, SMT
  <2>. QED BY <1>3, <1>5, <2>2, <2>3, SMT
<1>. QED BY <1>4, <1>5, SMT

\* That year begins on or before the day, and the next one after it.
LEMMA YearOfEraHolds ==
  ASSUME NEW e \in Int, 0 <= e, e < 146097
  PROVE  /\ YearOfEra(e) \in Int
         /\ 0 <= YearOfEra(e) /\ YearOfEra(e) < 400
         /\ DaysToYear(YearOfEra(e)) <= e
         /\ e < DaysToYear(YearOfEra(e) + 1)
         /\ DaysToYear(YearOfEra(e)) =
              365 * YearOfEra(e) + (YearOfEra(e) \div 4) - (YearOfEra(e) \div 100)
<1>. DEFINE q == YearOfEra(e)
<1>1. q \in Int
  <2>1. e \div 1460 \in Int /\ e \div 36524 \in Int /\ e \div 146096 \in Int
    BY SMT
  <2>2. e - (e \div 1460) + (e \div 36524) - (e \div 146096) \in Int
    BY <2>1, SMT
  <2>. QED BY <2>2, Quotient, SMT DEF YearOfEra
<1>2. q = YearOfEra(e)
  BY DEF q
<1>. HIDE DEF q
<1>3. /\ 0 <= q /\ q < 400
      /\ DaysToYear(q) <= e
      /\ q < 399 => e < DaysToYear(q + 1)
      /\ DaysToYear(q) = 365 * q + (q \div 4) - (q \div 100)
  BY <1>1, <1>2, EraOf
<1>4. q = 399 => DaysToYear(q + 1) = 146097
  BY SMT DEF DaysToYear
<1>5. e < DaysToYear(q + 1)
  BY <1>1, <1>3, <1>4, SMT
<1>. QED BY <1>1, <1>3, <1>5, SMT DEF q

\* A day of a year falls in one of its twelve months.
LEMMA MonthOfYear ==
  ASSUME NEW r \in Int, 0 <= r, r <= 365
  PROVE  /\ (5 * r + 2) \div 153 \in Int
         /\ 0 <= (5 * r + 2) \div 153 /\ (5 * r + 2) \div 153 < 12
         /\ DaysToMonth((5 * r + 2) \div 153) <= r
         /\ r < DaysToMonth((5 * r + 2) \div 153 + 1)
  BY SMTT(60) DEF DaysToMonth

\* The calendar repeats every 400 years.
LEMMA ErasRepeat ==
  ASSUME NEW x \in Int, NEW era \in Int
  PROVE  DaysToYear(x + 400 * era) = DaysToYear(x) + 146097 * era
  BY SMT DEF DaysToYear

\* YmdOf finds the year and the month, both counted from March, a day lies in.
LEMMA YmdFromMarch ==
  ASSUME NEW day \in Int
  PROVE  \E y \in Int, m \in Int, d \in Int :
           /\ 0 <= m /\ m < 12 /\ 1 <= d
           /\ day = DaysToYear(y) + DaysToMonth(m) + (d - 1) - Shift
           /\ DaysToMonth(m) + d <= DaysToMonth(m + 1)
           /\ DaysToYear(y) + DaysToMonth(m) + d <= DaysToYear(y + 1)
           /\ YmdOf(day) = [year |-> IF m < 10 THEN y ELSE y + 1,
                            month |-> IF m < 10 THEN m + 3 ELSE m - 9, day |-> d]
<1>. DEFINE n == day + 719468
            era == n \div 146097
            e == n % 146097
            q == YearOfEra(e)
            r == e - (365 * q + (q \div 4) - (q \div 100))
            m == (5 * r + 2) \div 153
            month == IF m < 10 THEN m + 3 ELSE m - 9
            d == r - ((153 * m + 2) \div 5) + 1
            y == q + 400 * era
<1>1. YmdOf(day) = [year |-> y + (IF month <= 2 THEN 1 ELSE 0), month |-> month, day |-> d]
  BY SMT DEF YmdOf, YearOfEra
<1>2. era \in Int /\ e \in Int /\ n = 146097 * era + e /\ 0 <= e /\ e < 146097 /\ n \in Int
  BY SMT
<1>3. n = day + Shift
  BY SMT DEF Shift
<1>. HIDE DEF n, era, e
<1>4. /\ q \in Int /\ 0 <= q /\ q < 400
      /\ DaysToYear(q) <= e /\ e < DaysToYear(q + 1)
      /\ DaysToYear(q) = 365 * q + (q \div 4) - (q \div 100)
  BY <1>2, YearOfEraHolds, SMT
<1>. HIDE DEF q
<1>5. r = e - DaysToYear(q)
  BY <1>4
<1>. HIDE DEF r
<1>6. DaysToYear(q) \in Int /\ DaysToYear(q + 1) \in Int /\ DaysToYear(q + 1) <= DaysToYear(q) + 366
  BY <1>4, YearIsDay, YearLength
<1>7. r \in Int /\ 0 <= r /\ r <= 365
  BY <1>2, <1>4, <1>5, <1>6
<1>8. m \in Int /\ 0 <= m /\ m < 12 /\ DaysToMonth(m) <= r /\ r < DaysToMonth(m + 1)
  BY <1>7, MonthOfYear
<1>9. d = r - DaysToMonth(m) + 1
  BY DEF DaysToMonth
<1>. HIDE DEF m, d
<1>10. DaysToMonth(m) \in Int /\ DaysToMonth(m + 1) \in Int
  BY <1>8, MonthIsDay
<1>11. y \in Int /\ q + 1 \in Int /\ y + 1 = (q + 1) + 400 * era
  BY <1>2, <1>4
<1>12. /\ DaysToYear(y) = DaysToYear(q) + 146097 * era
       /\ DaysToYear(y + 1) = DaysToYear(q + 1) + 146097 * era
  BY <1>2, <1>4, <1>11, ErasRepeat, SMT
<1>. HIDE DEF y
<1>13. 1 <= d /\ d \in Int /\ DaysToMonth(m) + d <= DaysToMonth(m + 1)
  BY <1>7, <1>8, <1>9, <1>10
<1>14. day = DaysToYear(y) + DaysToMonth(m) + (d - 1) - Shift
  BY <1>2, <1>3, <1>5, <1>6, <1>9, <1>10, <1>12, ShiftIsInt, SMT
<1>15. DaysToYear(y) + DaysToMonth(m) + d <= DaysToYear(y + 1)
  BY <1>2, <1>4, <1>5, <1>6, <1>9, <1>10, <1>12, SMT
<1>16. YmdOf(day) = [year |-> IF m < 10 THEN y ELSE y + 1,
                     month |-> IF m < 10 THEN m + 3 ELSE m - 9, day |-> d]
  <2>1. CASE m < 10
    <3>1. month = m + 3 /\ ~(month <= 2) BY <1>8, <2>1
    <3>. QED BY <1>1, <1>11, <2>1, <3>1
  <2>2. CASE ~(m < 10)
    <3>1. month = m - 9 /\ month <= 2 BY <1>8, <2>2
    <3>. QED BY <1>1, <1>11, <2>2, <3>1
  <2>. QED BY <2>1, <2>2
<1>. QED BY <1>8, <1>11, <1>13, <1>14, <1>15, <1>16

\* YmdOf names the month a day lies in, and its place there.
LEMMA YmdIsDay ==
  ASSUME NEW day \in Int
  PROVE  /\ YmdOf(day).year \in Int
         /\ YmdOf(day).month \in Int
         /\ 1 <= YmdOf(day).month /\ YmdOf(day).month <= 12
         /\ YmdOf(day).day \in Int /\ 1 <= YmdOf(day).day
         /\ MonthIndex(YmdOf(day).year, YmdOf(day).month) \in Int
         /\ day = FirstOfMonth(MonthIndex(YmdOf(day).year, YmdOf(day).month))
                    + YmdOf(day).day - 1
         /\ day < FirstOfMonth(MonthIndex(YmdOf(day).year, YmdOf(day).month) + 1)
<1>1. PICK y \in Int, m \in Int, d \in Int :
        /\ 0 <= m /\ m < 12 /\ 1 <= d
        /\ day = DaysToYear(y) + DaysToMonth(m) + (d - 1) - Shift
        /\ DaysToMonth(m) + d <= DaysToMonth(m + 1)
        /\ DaysToYear(y) + DaysToMonth(m) + d <= DaysToYear(y + 1)
        /\ YmdOf(day) = [year |-> IF m < 10 THEN y ELSE y + 1,
                         month |-> IF m < 10 THEN m + 3 ELSE m - 9, day |-> d]
  BY YmdFromMarch
<1>. DEFINE k == 12 * y + m + 2
<1>2. /\ YmdOf(day).year \in Int
      /\ YmdOf(day).month \in Int
      /\ 1 <= YmdOf(day).month /\ YmdOf(day).month <= 12
      /\ YmdOf(day).day = d
  BY <1>1
<1>3. MonthIndex(YmdOf(day).year, YmdOf(day).month) = k
  BY <1>1 DEF MonthIndex
<1>4. k \in Int /\ k = 12 * y + m + 2
  OBVIOUS
<1>. HIDE DEF k
<1>5. FirstOfMonth(k) = DaysToYear(y) + DaysToMonth(m) - Shift
  BY <1>1, <1>4, FirstFromMarch
<1>6. /\ DaysToYear(y) \in Int /\ DaysToYear(y + 1) \in Int
      /\ DaysToMonth(m) \in Int /\ DaysToMonth(m + 1) \in Int
  BY YearIsDay, MonthIsDay
<1>7. day = FirstOfMonth(k) + d - 1
  BY <1>1, <1>5, <1>6, ShiftIsInt
<1>8. day < FirstOfMonth(k + 1)
  <2>1. CASE m < 11
    <3>1. FirstOfMonth(k + 1) = DaysToYear(y) + DaysToMonth(m + 1) - Shift
      <4>1. k + 1 = 12 * y + (m + 1) + 2 /\ 0 <= m + 1 /\ m + 1 < 12 /\ m + 1 \in Int /\ k + 1 \in Int
        BY <1>1, <1>4, <2>1
      <4>. QED BY <4>1, FirstFromMarch
    <3>. QED BY <1>1, <1>6, <3>1, ShiftIsInt
  <2>2. CASE ~(m < 11)
    <3>1. m = 11 BY <1>1, <2>2
    <3>2. \A z \in Int : k + 1 = 12 * z + 0 + 2 =>
             FirstOfMonth(k + 1) = DaysToYear(z) + DaysToMonth(0) - Shift
      <4>1. k + 1 \in Int BY <1>4
      <4>. QED BY <4>1, FirstFromMarch
    <3>3. k + 1 = 12 * (y + 1) + 0 + 2 /\ y + 1 \in Int BY <1>4, <3>1
    <3>4. FirstOfMonth(k + 1) = DaysToYear(y + 1) + DaysToMonth(0) - Shift
      BY <3>2, <3>3, Zenon
    <3>. QED BY <1>1, <1>6, <3>1, <3>4, YearEnds, ShiftIsInt
  <2>. QED BY <2>1, <2>2
<1>. QED BY <1>1, <1>2, <1>3, <1>4, <1>7, <1>8
-----------------------------------------------------------------------------
(* Induction, said with sets                                               *)

\* A set of naturals has a least element.
LEMMA Smallest ==
  ASSUME NEW S \in SUBSET Nat, S # {}
  PROVE  \E x \in S : \A y \in S : x <= y
<1>1. IsWellFoundedOn(OpToRel(<, Nat), Nat)
  BY NatLessThanWellFounded
<1>2. PICK x \in S : \A y \in S : ~ (<<y, x>> \in OpToRel(<, Nat))
  BY <1>1, WFMin
<1>3. \A y \in S : y < x => <<y, x>> \in OpToRel(<, Nat)
  BY DEF OpToRel
<1>4. \A y \in S : ~(y < x)
  BY <1>2, <1>3, Zenon
<1>. QED BY <1>4

\* A set that holds 0 and each successor holds every natural.
LEMMA Induction ==
  ASSUME NEW S, 0 \in S, \A n \in Nat : n \in S => n + 1 \in S
  PROVE  Nat \subseteq S
<1>. SUFFICES ASSUME Nat \ S # {} PROVE FALSE
  OBVIOUS
<1>1. PICK x \in Nat \ S : \A y \in Nat \ S : x <= y
  BY Smallest
<1>2. x # 0 /\ x - 1 \in Nat BY <1>1
<1>3. x - 1 \in S BY <1>1, <1>2
<1>. QED BY <1>1, <1>2, <1>3

\* g is x, F[x], F[F[x]], and so on.
Iterates(g, x, F) == g[0] = x /\ \A n \in Nat : g[n + 1] = F[g[n]]

\* A function of the naturals is defined by its first value and its steps.
LEMMA Recursion ==
  ASSUME NEW X, NEW x \in X, NEW F \in [X -> X]
  PROVE  \E g \in [Nat -> X] : Iterates(g, x, F)
<1>. DEFINE Prefix(n) == {h \in [0 .. n -> X] :
                            h[0] = x /\ \A i \in 0 .. n : i < n => h[i + 1] = F[h[i]]}
<1>1. \A n \in Nat : Prefix(n) # {}
  <2>. DEFINE S == {n \in Nat : Prefix(n) # {}}
  <2>1. 0 \in S
    <3>1. [i \in 0 .. 0 |-> x] \in Prefix(0)
      OBVIOUS
    <3>. QED BY <3>1
  <2>2. ASSUME NEW n \in Nat, n \in S PROVE n + 1 \in S
    <3>1. PICK h : h \in Prefix(n)
      BY <2>2
    <3>. DEFINE k == [i \in 0 .. n + 1 |-> IF i = n + 1 THEN F[h[n]] ELSE h[i]]
    <3>2. /\ h \in [0 .. n -> X] /\ h[0] = x
          /\ \A i \in 0 .. n : i < n => h[i + 1] = F[h[i]]
      BY <3>1
    <3>3. k \in [0 .. n + 1 -> X]
      <4>1. \A i \in 0 .. n + 1 : i # n + 1 => i \in 0 .. n OBVIOUS
      <4>. QED BY <3>2, <4>1
    <3>4. k[0] = x
      BY <3>2
    <3>5. ASSUME NEW i \in 0 .. n + 1, i < n + 1 PROVE k[i + 1] = F[k[i]]
      <4>1. i \in 0 .. n /\ i + 1 \in 0 .. n + 1 /\ i # n + 1 BY <3>5
      <4>2. k[i] = h[i] BY <4>1
      <4>3. CASE i = n BY <4>1, <4>2, <4>3
      <4>4. CASE i # n
        <5>1. i < n /\ i + 1 # n + 1 BY <4>1, <4>4
        <5>. QED BY <3>2, <4>1, <4>2, <5>1
      <4>. QED BY <4>3, <4>4
    <3>6. k \in Prefix(n + 1)
      <4>. HIDE DEF k
      <4>. QED BY <3>3, <3>4, <3>5
    <3>. HIDE DEF Prefix, k
    <3>. QED BY <3>6
  <2>. HIDE DEF S
  <2>3. Nat \subseteq S BY <2>1, <2>2, Induction
  <2>. QED BY <2>3 DEF S
<1>2. ASSUME NEW n \in Nat, NEW h \in Prefix(n), NEW k \in Prefix(n + 1)
      PROVE  k[n] = h[n]
  <2>. DEFINE S == {i \in Nat : i <= n => k[i] = h[i]}
  <2>1. 0 \in S OBVIOUS
  <2>2. ASSUME NEW i \in Nat, i \in S PROVE i + 1 \in S
    <3>. SUFFICES ASSUME i + 1 <= n PROVE k[i + 1] = h[i + 1]
      OBVIOUS
    <3>1. i \in 0 .. n /\ i < n /\ i \in 0 .. n + 1 /\ i < n + 1 OBVIOUS
    <3>2. h[i + 1] = F[h[i]] BY <3>1
    <3>3. k[i + 1] = F[k[i]] BY <3>1
    <3>4. k[i] = h[i] BY <2>2, <3>1
    <3>. QED BY <3>2, <3>3, <3>4
  <2>. HIDE DEF S
  <2>3. Nat \subseteq S BY <2>1, <2>2, Induction
  <2>. QED BY <2>3 DEF S
<1>. DEFINE H(n) == CHOOSE h : h \in Prefix(n)
            g == [n \in Nat |-> H(n)[n]]
<1>3. \A n \in Nat : H(n) \in Prefix(n)
  BY <1>1
<1>. HIDE DEF H
<1>4. \A n \in Nat : H(n) \in [0 .. n -> X] /\ H(n)[0] = x
                     /\ \A i \in 0 .. n : i < n => H(n)[i + 1] = F[H(n)[i]]
  BY <1>3
<1>5. \A n \in Nat : H(n + 1)[n] = H(n)[n]
  <2>. HIDE DEF Prefix
  <2>1. \A n \in Nat : n + 1 \in Nat OBVIOUS
  <2>. QED BY <1>2, <1>3, <2>1
<1>6. g \in [Nat -> X]
  <2>1. \A n \in Nat : n \in 0 .. n OBVIOUS
  <2>. QED BY <1>4, <2>1
<1>7. g[0] = x
  BY <1>4
<1>8. ASSUME NEW n \in Nat PROVE g[n + 1] = F[g[n]]
  <2>1. n + 1 \in Nat /\ n \in 0 .. n + 1 /\ n < n + 1 OBVIOUS
  <2>2. H(n + 1)[n + 1] = F[H(n + 1)[n]] BY <1>4, <2>1
  <2>. QED BY <1>5, <2>1, <2>2
<1>. QED
  <2>. HIDE DEF g
  <2>. QED BY <1>6, <1>7, <1>8 DEF Iterates

\* Min of days none of which is before bound.
LEMMA MinOfDays ==
  ASSUME NEW S \in SUBSET Int, S # {}, NEW bound \in Int, \A x \in S : bound <= x
  PROVE  Min(S) \in S /\ \A x \in S : Min(S) <= x
<1>. DEFINE T == {x - bound : x \in S}
<1>1. T \in SUBSET Nat /\ T # {}
  <2>1. \A x \in S : x - bound \in Nat
    OBVIOUS
  <2>2. PICK s \in S : TRUE
    OBVIOUS
  <2>3. s - bound \in T
    BY <2>2
  <2>. QED BY <2>1, <2>3
<1>2. PICK t \in T : \A u \in T : t <= u
  BY <1>1, Smallest
<1>3. PICK x \in S : t = x - bound
  BY <1>2
<1>4. \A y \in S : x <= y
  <2>1. TAKE y \in S
  <2>2. y - bound \in T BY <2>1
  <2>3. t <= y - bound BY <1>2, <2>2
  <2>. QED BY <1>3, <2>1, <2>3
<1>5. \E z \in S : \A y \in S : z <= y
  BY <1>4
<1>. QED BY <1>5 DEF Min

-----------------------------------------------------------------------------
(* The engine's steps                                                      *)

\* The first of the month a day is in.
LEMMA FirstDayOfMonth ==
  ASSUME NEW y \in Int, NEW m \in Int, 1 <= m, m <= 12
  PROVE  /\ MonthIndex(y, m) \in Int
         /\ EpochOf(y, m, 1) = FirstOfMonth(MonthIndex(y, m))
<1>1. /\ MonthIndex(y, m) \in Int
      /\ MonthIndex(y, m) \div 12 = y
      /\ (MonthIndex(y, m) % 12) + 1 = m
  BY SMT DEF MonthIndex
<1>. QED BY <1>1, SMT DEF FirstOfMonth

\* Clamping to the length of a month stays in the month.
LEMMA DayInMonthIsThere ==
  ASSUME NEW y \in Int, NEW m \in Int, 1 <= m, m <= 12, NEW d \in Int, 1 <= d
  PROVE  /\ DayInMonth(y, m, d) \in Int
         /\ FirstOfMonth(MonthIndex(y, m)) <= DayInMonth(y, m, d)
         /\ DayInMonth(y, m, d) < FirstOfMonth(MonthIndex(y, m) + 1)
<1>. DEFINE k == MonthIndex(y, m)
            length == DaysInMonth(y, m)
            e == IF d < length THEN d ELSE length
<1>1. k \in Int /\ EpochOf(y, m, 1) = FirstOfMonth(k)
  BY FirstDayOfMonth
<1>. HIDE DEF k
<1>2. /\ FirstOfMonth(k) \in Int /\ FirstOfMonth(k + 1) \in Int
      /\ FirstOfMonth(k) + 28 <= FirstOfMonth(k + 1)
  BY <1>1, FirstIsDay, MonthLength
<1>3. length = FirstOfMonth(k + 1) - FirstOfMonth(k)
  BY DEF DaysInMonth, k
<1>. HIDE DEF length
<1>4. e \in Int /\ 1 <= e /\ e <= length
  BY <1>2, <1>3
<1>5. DayInMonth(y, m, d) = EpochOf(y, m, e)
  BY DEF DayInMonth, length
<1>. HIDE DEF e
<1>6. DayInMonth(y, m, d) = FirstOfMonth(k) + (e - 1)
  BY <1>1, <1>4, <1>5, EpochIsDay
<1>7. /\ DayInMonth(y, m, d) \in Int
      /\ FirstOfMonth(k) <= DayInMonth(y, m, d)
      /\ DayInMonth(y, m, d) < FirstOfMonth(k + 1)
  BY <1>2, <1>3, <1>4, <1>6
<1>. QED BY <1>7 DEF k

\* The month of an index, as addMonths takes it apart.
LEMMA MonthOfIndex ==
  ASSUME NEW k \in Int
  PROVE  /\ k \div 12 \in Int /\ (k % 12) + 1 \in Int
         /\ 1 <= (k % 12) + 1 /\ (k % 12) + 1 <= 12
         /\ MonthIndex(k \div 12, (k % 12) + 1) = k
<1>1. /\ k \div 12 \in Int /\ k % 12 \in Int /\ k = 12 * (k \div 12) + (k % 12)
      /\ 0 <= k % 12 /\ k % 12 < 12
  BY SMT
<1>. QED BY <1>1, SMT DEF MonthIndex

\* A day of a later month is a later day.
LEMMA LaterMonth ==
  ASSUME NEW day \in Int, NEW k \in Int, NEW later \in Int,
         MonthIndex(YmdOf(day).year, YmdOf(day).month) + 1 <= k, FirstOfMonth(k) <= later
  PROVE  day < later
<1>. DEFINE i == MonthIndex(YmdOf(day).year, YmdOf(day).month)
<1>1. i \in Int /\ day < FirstOfMonth(i + 1)
  BY YmdIsDay
<1>. HIDE DEF i
<1>2. FirstOfMonth(i + 1) <= FirstOfMonth(k)
  BY <1>1, MonthsInOrder DEF i
<1>3. FirstOfMonth(i + 1) \in Int /\ FirstOfMonth(k) \in Int
  BY <1>1, FirstIsDay
<1>. QED BY <1>1, <1>2, <1>3

\* addMonths goes forward, clamped or not.
LEMMA AddMonthsMoves ==
  ASSUME NEW day \in Int, NEW n \in Int
  PROVE  AddMonths(day, n) \in Int /\ (1 <= n => day < AddMonths(day, n))
<1>. DEFINE ymd == YmdOf(day)
            i == MonthIndex(ymd.year, ymd.month)
            k == i + n
<1>1. i \in Int /\ ymd.day \in Int /\ 1 <= ymd.day
  BY YmdIsDay
<1>. HIDE DEF i
<1>2. k \in Int
  BY <1>1
<1>3. AddMonths(day, n) = DayInMonth(k \div 12, (k % 12) + 1, ymd.day)
  BY DEF AddMonths, i
<1>. HIDE DEF k, ymd
<1>4. /\ AddMonths(day, n) \in Int
      /\ FirstOfMonth(k) <= AddMonths(day, n)
  <2>. DEFINE y == k \div 12  m == (k % 12) + 1
  <2>1. /\ y \in Int /\ m \in Int /\ 1 <= m /\ m <= 12
        /\ MonthIndex(y, m) = k
    BY <1>2, MonthOfIndex
  <2>2. AddMonths(day, n) = DayInMonth(y, m, ymd.day)
    BY <1>3
  <2>. HIDE DEF y, m
  <2>3. /\ DayInMonth(y, m, ymd.day) \in Int
        /\ FirstOfMonth(MonthIndex(y, m)) <= DayInMonth(y, m, ymd.day)
    BY <1>1, <2>1, DayInMonthIsThere
  <2>. QED BY <2>1, <2>2, <2>3
<1>5. 1 <= n => i + 1 <= k
  BY <1>1 DEF k
<1>. QED BY <1>2, <1>4, <1>5, LaterMonth DEF i, ymd

\* addYears does.
LEMMA AddYearsMoves ==
  ASSUME NEW day \in Int, NEW n \in Int
  PROVE  AddYears(day, n) \in Int /\ (1 <= n => day < AddYears(day, n))
<1>. DEFINE ymd == YmdOf(day)
            k == MonthIndex(ymd.year + n, ymd.month)
<1>1. /\ ymd.year \in Int /\ ymd.month \in Int /\ 1 <= ymd.month /\ ymd.month <= 12
      /\ ymd.day \in Int /\ 1 <= ymd.day
  BY YmdIsDay
<1>2. AddYears(day, n) = DayInMonth(ymd.year + n, ymd.month, ymd.day)
  BY DEF AddYears
<1>. HIDE DEF ymd
<1>3. /\ AddYears(day, n) \in Int
      /\ FirstOfMonth(k) <= AddYears(day, n)
      /\ k \in Int
  <2>. DEFINE y == ymd.year + n  m == ymd.month
  <2>1. y \in Int /\ m \in Int /\ 1 <= m /\ m <= 12
    BY <1>1
  <2>2. AddYears(day, n) = DayInMonth(y, m, ymd.day) /\ k = MonthIndex(y, m)
    BY <1>2
  <2>. HIDE DEF y, m, k
  <2>3. /\ DayInMonth(y, m, ymd.day) \in Int
        /\ FirstOfMonth(MonthIndex(y, m)) <= DayInMonth(y, m, ymd.day)
    BY <1>1, <2>1, DayInMonthIsThere
  <2>4. MonthIndex(y, m) \in Int
    BY <2>1, FirstDayOfMonth
  <2>. QED BY <2>2, <2>3, <2>4
<1>4. 1 <= n => MonthIndex(ymd.year, ymd.month) + 1 <= k
  BY <1>1 DEF MonthIndex
<1>. QED BY <1>3, <1>4, LaterMonth DEF ymd

\* The next weekday is on the day or after it, or after it, as asked.
LEMMA WeekdayIsNear ==
  ASSUME NEW day \in Int, NEW t \in Int
  PROVE  /\ NextWeekdayOnOrAfter(day, t) \in Int
         /\ day <= NextWeekdayOnOrAfter(day, t)
         /\ NextWeekdayAfter(day, t) \in Int
         /\ day < NextWeekdayAfter(day, t)
  BY SMT DEF NextWeekdayOnOrAfter, NextWeekdayAfter, WeekdayOf

\* The nth weekday of a month does not come before the month.
LEMMA NthWeekdayIsThere ==
  ASSUME NEW y \in Int, NEW m \in Int, 1 <= m, m <= 12,
         NEW ordinal \in Int, ordinal = -1 \/ 1 <= ordinal, NEW t \in Int
  PROVE  /\ NthWeekdayOfMonth(y, m, ordinal, t) \in Int
         /\ FirstOfMonth(MonthIndex(y, m)) <= NthWeekdayOfMonth(y, m, ordinal, t)
<1>. DEFINE k == MonthIndex(y, m)
            last == EpochOf(y, m, DaysInMonth(y, m))
            first == EpochOf(y, m, 1)
<1>1. k \in Int /\ first = FirstOfMonth(k)
  BY FirstDayOfMonth
<1>2. DaysInMonth(y, m) = FirstOfMonth(k + 1) - FirstOfMonth(k)
  BY DEF DaysInMonth
<1>3. /\ FirstOfMonth(k) \in Int /\ FirstOfMonth(k + 1) \in Int
      /\ FirstOfMonth(k) + 28 <= FirstOfMonth(k + 1)
  BY <1>1, FirstIsDay, MonthLength
<1>4. last = first + (DaysInMonth(y, m) - 1)
  <2>1. DaysInMonth(y, m) \in Int BY <1>2, <1>3
  <2>. QED BY <2>1, EpochIsDay
<1>. HIDE DEF last, first, k
<1>5. first \in Int /\ last \in Int /\ first + 27 <= last
  BY <1>1, <1>2, <1>3, <1>4
<1>6. CASE ordinal = -1
  <2>1. NthWeekdayOfMonth(y, m, ordinal, t) = last - ((WeekdayOf(last) - t) % 7)
    BY <1>6 DEF NthWeekdayOfMonth, last
  <2>2. WeekdayOf(last) - t \in Int
    BY <1>5 DEF WeekdayOf
  <2>3. /\ (WeekdayOf(last) - t) % 7 \in Int
        /\ 0 <= (WeekdayOf(last) - t) % 7 /\ (WeekdayOf(last) - t) % 7 < 7
    BY <2>2, Quotient
  <2>4. /\ NthWeekdayOfMonth(y, m, ordinal, t) \in Int
        /\ FirstOfMonth(k) <= NthWeekdayOfMonth(y, m, ordinal, t)
    BY <1>1, <1>5, <2>1, <2>3
  <2>. QED BY <2>4 DEF k
<1>7. CASE ordinal # -1
  <2>1. NthWeekdayOfMonth(y, m, ordinal, t) =
          NextWeekdayOnOrAfter(first, t) + (ordinal - 1) * 7
    BY <1>7 DEF NthWeekdayOfMonth, first
  <2>2. NextWeekdayOnOrAfter(first, t) \in Int /\ first <= NextWeekdayOnOrAfter(first, t)
    BY <1>5, WeekdayIsNear
  <2>3. 1 <= ordinal
    BY <1>7
  <2>4. /\ NthWeekdayOfMonth(y, m, ordinal, t) \in Int
        /\ FirstOfMonth(k) <= NthWeekdayOfMonth(y, m, ordinal, t)
    BY <1>1, <1>5, <2>1, <2>2, <2>3
  <2>. QED BY <2>4 DEF k
<1>. QED BY <1>6, <1>7
\* The next of a set of weekdays is within a week.
LEMMA NextMatchingMoves ==
  ASSUME NEW day \in Int, NEW days \in SUBSET Int, days # {}
  PROVE  /\ NextMatchingWeekday(day, days) \in Int /\ day < NextMatchingWeekday(day, days)
         /\ FirstMatchingWeekday(day, days) \in Int /\ day <= FirstMatchingWeekday(day, days)
<1>. DEFINE S == {NextWeekdayAfter(day, w) : w \in days}
            T == {NextWeekdayOnOrAfter(day, w) : w \in days}
<1>1. S \in SUBSET Int /\ \A x \in S : day < x /\ day <= x
  <2>1. \A w \in days : /\ NextWeekdayAfter(day, w) \in Int
                        /\ day < NextWeekdayAfter(day, w)
                        /\ day <= NextWeekdayAfter(day, w)
    <3>1. TAKE w \in days
    <3>2. w \in Int OBVIOUS
    <3>3. /\ NextWeekdayAfter(day, w) \in Int
          /\ day < NextWeekdayAfter(day, w)
      BY <3>2, WeekdayIsNear
    <3>. QED BY <3>3
  <2>. QED BY <2>1
<1>2. T \in SUBSET Int /\ \A x \in T : day <= x
  BY WeekdayIsNear
<1>3. S # {} /\ T # {}
  OBVIOUS
<1>4. NextMatchingWeekday(day, days) = Min(S) /\ FirstMatchingWeekday(day, days) = Min(T)
  BY DEF NextMatchingWeekday, FirstMatchingWeekday
<1>. HIDE DEF S, T
<1>5. Min(S) \in S /\ Min(T) \in T
  BY <1>1, <1>2, <1>3, MinOfDays
<1>. QED BY <1>1, <1>2, <1>4, <1>5

\* addWorkdays, one workday at a time.
LEMMA AddWorkdaysSteps ==
  ASSUME NEW day \in Int
  PROVE  /\ AddWorkdays(day, 0) = day
         /\ \A i \in Nat : AddWorkdays(day, i + 1) =
                             NextMatchingWeekday(AddWorkdays(day, i), Workdays)
<1>. DEFINE F == [d \in Int |-> NextMatchingWeekday(d, Workdays)]
            Chain(a) == [i \in Nat |-> IF i = 0 THEN day
                                       ELSE NextMatchingWeekday(a[i - 1], Workdays)]
            after == CHOOSE a : a = Chain(a)
<1>1. \A d \in Int : NextMatchingWeekday(d, Workdays) \in Int
  <2>1. Workdays \in SUBSET Int /\ Workdays # {} BY DEF Workdays
  <2>. QED BY <2>1, NextMatchingMoves
<1>2. \E a : a = Chain(a)
  <2>1. F \in [Int -> Int] BY <1>1
  <2>. HIDE DEF F
  <2>2. PICK a \in [Nat -> Int] : Iterates(a, day, F)
    BY <2>1, Recursion
  <2>3. ASSUME NEW i \in Nat, i # 0
        PROVE  a[i] = NextMatchingWeekday(a[i - 1], Workdays)
    <3>1. i - 1 \in Nat /\ (i - 1) + 1 = i BY <2>3
    <3>2. a[i] = F[a[i - 1]] BY <2>2, <3>1 DEF Iterates
    <3>3. a[i - 1] \in Int BY <2>2, <3>1
    <3>. QED BY <3>2, <3>3 DEF F
  <2>4. a = Chain(a)
    BY <2>2, <2>3 DEF Iterates
  <2>. QED BY <2>4
<1>3. after = Chain(after)
  <2>. HIDE DEF Chain
  <2>. QED BY <1>2
<1>4. \A n : AddWorkdays(day, n) = after[n]
  BY DEF AddWorkdays
<1>. HIDE DEF after
<1>5. after[0] = day
  BY <1>3
<1>6. ASSUME NEW i \in Nat
      PROVE  after[i + 1] = NextMatchingWeekday(after[i], Workdays)
  <2>1. i + 1 \in Nat /\ i + 1 # 0 /\ (i + 1) - 1 = i OBVIOUS
  <2>2. after[i + 1] = Chain(after)[i + 1] BY <1>3
  <2>. QED BY <2>1, <2>2
<1>. QED BY <1>4, <1>5, <1>6

\* Counting workdays goes forward.
LEMMA AddWorkdaysMoves ==
  ASSUME NEW day \in Int, NEW n \in Nat
  PROVE  AddWorkdays(day, n) \in Int /\ day + n <= AddWorkdays(day, n)
<1>. DEFINE S == {i \in Nat : AddWorkdays(day, i) \in Int /\ day + i <= AddWorkdays(day, i)}
<1>1. \A d \in Int : NextMatchingWeekday(d, Workdays) \in Int
                     /\ d < NextMatchingWeekday(d, Workdays)
  <2>1. Workdays \in SUBSET Int /\ Workdays # {} BY DEF Workdays
  <2>. QED BY <2>1, NextMatchingMoves
<1>2. 0 \in S
  BY AddWorkdaysSteps
<1>3. ASSUME NEW i \in Nat, i \in S PROVE i + 1 \in S
  <2>1. PICK d \in Int : d = AddWorkdays(day, i) /\ day + i <= d
    BY <1>3
  <2>2. AddWorkdays(day, i + 1) = NextMatchingWeekday(d, Workdays)
    BY <2>1, AddWorkdaysSteps
  <2>. QED BY <1>1, <2>1, <2>2
<1>. HIDE DEF S
<1>4. Nat \subseteq S BY <1>2, <1>3, Induction
<1>. QED BY <1>4 DEF S

\* The next ordinal weekday is later, in this month or a later one.
LEMMA NextOrdinalMoves ==
  ASSUME NEW day \in Int, NEW f,
         f.month = NoDate \/ (f.month \in Int /\ 1 <= f.month /\ f.month <= 12),
         NEW n \in Int, n = f.ordinal, n = -1 \/ 1 <= n, NEW t \in Int, t = f.day
  PROVE  NextOrdinalWeekday(day, f) \in Int /\ day < NextOrdinalWeekday(day, f)
<1>. DEFINE ymd == YmdOf(day)
            i == MonthIndex(ymd.year, ymd.month)
            k == i + 1
<1>1. /\ ymd.year \in Int /\ ymd.month \in Int /\ 1 <= ymd.month /\ ymd.month <= 12
      /\ i \in Int
  BY YmdIsDay
<1>3. CASE f.month = NoDate
  <2>. DEFINE y == k \div 12  m == (k % 12) + 1
  <2>1. NextOrdinalWeekday(day, f) = NthWeekdayOfMonth(y, m, n, t)
    BY <1>3 DEF NextOrdinalWeekday
  <2>2. k \in Int
    BY <1>1
  <2>. HIDE DEF k
  <2>3. y \in Int /\ m \in Int /\ 1 <= m /\ m <= 12 /\ MonthIndex(y, m) = k
    BY <2>2, MonthOfIndex
  <2>. HIDE DEF y, m
  <2>4. /\ NextOrdinalWeekday(day, f) \in Int
        /\ FirstOfMonth(k) <= NextOrdinalWeekday(day, f)
    <3>1. /\ NthWeekdayOfMonth(y, m, n, t) \in Int
          /\ FirstOfMonth(MonthIndex(y, m)) <= NthWeekdayOfMonth(y, m, n, t)
      BY <2>3, NthWeekdayIsThere
    <3>. QED BY <2>1, <2>3, <3>1
  <2>5. i + 1 <= k
    BY <1>1 DEF k
  <2>. QED BY <2>2, <2>4, <2>5, LaterMonth
<1>4. CASE f.month # NoDate
  <2>. DEFINE y == ymd.year + 1  m == f.month
  <2>1. m \in Int /\ 1 <= m /\ m <= 12 /\ y \in Int
    BY <1>1, <1>4
  <2>2. NextOrdinalWeekday(day, f) = NthWeekdayOfMonth(y, m, n, t)
    BY <1>4 DEF NextOrdinalWeekday
  <2>3. i + 1 <= MonthIndex(y, m)
    BY <1>1, <2>1 DEF MonthIndex
  <2>. HIDE DEF y, m
  <2>4. /\ NextOrdinalWeekday(day, f) \in Int
        /\ FirstOfMonth(MonthIndex(y, m)) <= NextOrdinalWeekday(day, f)
        /\ MonthIndex(y, m) \in Int
    <3>1. /\ NthWeekdayOfMonth(y, m, n, t) \in Int
          /\ FirstOfMonth(MonthIndex(y, m)) <= NthWeekdayOfMonth(y, m, n, t)
      BY <2>1, NthWeekdayIsThere
    <3>2. MonthIndex(y, m) \in Int
      BY <2>1, FirstDayOfMonth
    <3>. QED BY <2>2, <3>1, <3>2
  <2>. QED BY <2>3, <2>4, LaterMonth
<1>. QED BY <1>3, <1>4

\* The same day or weekday of a month of next year.
LEMMA NextYearMoves ==
  ASSUME NEW day \in Int, NEW m \in Int, 1 <= m, m <= 12
  PROVE  /\ \A d \in Int : 1 <= d =>
              /\ DayInMonth(YmdOf(day).year + 1, m, d) \in Int
              /\ day < DayInMonth(YmdOf(day).year + 1, m, d)
         /\ \A n \in Int, t \in Int : n = -1 \/ 1 <= n =>
              /\ NthWeekdayOfMonth(YmdOf(day).year + 1, m, n, t) \in Int
              /\ day < NthWeekdayOfMonth(YmdOf(day).year + 1, m, n, t)
<1>. DEFINE ymd == YmdOf(day)
            y == ymd.year + 1
            k == MonthIndex(y, m)
<1>1. /\ ymd.year \in Int /\ ymd.month \in Int /\ 1 <= ymd.month /\ ymd.month <= 12
  BY YmdIsDay
<1>2. y \in Int /\ k \in Int /\ MonthIndex(ymd.year, ymd.month) + 1 <= k
  BY <1>1 DEF MonthIndex
<1>. HIDE DEF y
<1>3. ASSUME NEW d \in Int, 1 <= d
      PROVE  DayInMonth(y, m, d) \in Int /\ day < DayInMonth(y, m, d)
  <2>1. DayInMonth(y, m, d) \in Int /\ FirstOfMonth(k) <= DayInMonth(y, m, d)
    BY <1>2, <1>3, DayInMonthIsThere
  <2>. HIDE DEF k
  <2>. QED BY <1>2, <2>1, LaterMonth
<1>4. ASSUME NEW n \in Int, NEW t \in Int, n = -1 \/ 1 <= n
      PROVE  NthWeekdayOfMonth(y, m, n, t) \in Int /\ day < NthWeekdayOfMonth(y, m, n, t)
  <2>1. /\ NthWeekdayOfMonth(y, m, n, t) \in Int
        /\ FirstOfMonth(k) <= NthWeekdayOfMonth(y, m, n, t)
    BY <1>2, <1>4, NthWeekdayIsThere
  <2>. HIDE DEF k
  <2>. QED BY <1>2, <2>1, LaterMonth
<1>. QED BY <1>3, <1>4 DEF y

\* So is the next day of a month.
LEMMA NextMonthlyMoves ==
  ASSUME NEW day \in Int, NEW d \in Int, 1 <= d
  PROVE  NextMonthlyDay(day, d) \in Int /\ day < NextMonthlyDay(day, d)
<1>. DEFINE i == MonthIndex(YmdOf(day).year, YmdOf(day).month)
            k == i + 1
            y == k \div 12  m == (k % 12) + 1
<1>1. i \in Int
  BY YmdIsDay
<1>2. k \in Int /\ i + 1 <= k
  BY <1>1
<1>3. NextMonthlyDay(day, d) = DayInMonth(y, m, d)
  BY DEF NextMonthlyDay
<1>. HIDE DEF k
<1>4. y \in Int /\ m \in Int /\ 1 <= m /\ m <= 12 /\ MonthIndex(y, m) = k
  BY <1>2, MonthOfIndex
<1>. HIDE DEF y, m
<1>5. NextMonthlyDay(day, d) \in Int /\ FirstOfMonth(k) <= NextMonthlyDay(day, d)
  BY <1>3, <1>4, DayInMonthIsThere
<1>. QED BY <1>2, <1>5, LaterMonth

\* So is each of a list of ordinal weekdays.
LEMMA EntryMoves ==
  ASSUME NEW day \in Int, NEW e \in Entries
  PROVE  /\ NextEntryOccurrence(day, e) \in Int /\ day < NextEntryOccurrence(day, e)
         /\ FirstEntryOccurrence(day, e) \in Int /\ day <= FirstEntryOccurrence(day, e)
<1>. DEFINE y == YmdOf(day).year
            here == NthWeekdayOfMonth(y, e.month, e.ordinal, e.day)
            there == NthWeekdayOfMonth(y + 1, e.month, e.ordinal, e.day)
<1>1. /\ e.month \in Int /\ 1 <= e.month /\ e.month <= 12
      /\ e.ordinal \in Int /\ (e.ordinal = -1 \/ 1 <= e.ordinal) /\ e.day \in Int
  BY DEF Entries, Weekdays
<1>2. y \in Int
  BY YmdIsDay
<1>3. here \in Int
  BY <1>1, <1>2, NthWeekdayIsThere
<1>4. there \in Int /\ day < there
  BY <1>1, NextYearMoves
<1>5. /\ NextEntryOccurrence(day, e) = IF here > day THEN here ELSE there
      /\ FirstEntryOccurrence(day, e) = IF here >= day THEN here ELSE there
  BY DEF NextEntryOccurrence, FirstEntryOccurrence
<1>. HIDE DEF here, there
<1>. QED BY <1>3, <1>4, <1>5

\* The first one on or after a day is not before it.
LEMMA FirstOrdinalMoves ==
  ASSUME NEW day \in Int, NEW f,
         f.month = NoDate \/ (f.month \in Int /\ 1 <= f.month /\ f.month <= 12),
         NEW n \in Int, n = f.ordinal, n = -1 \/ 1 <= n, NEW t \in Int, t = f.day
  PROVE  FirstOrdinalWeekday(day, f) \in Int /\ day <= FirstOrdinalWeekday(day, f)
<1>. DEFINE y == YmdOf(day).year
            m == IF f.month = NoDate THEN YmdOf(day).month ELSE f.month
            here == NthWeekdayOfMonth(y, m, n, t)
            next == NextOrdinalWeekday(day, f)
<1>1. /\ y \in Int /\ m \in Int /\ 1 <= m /\ m <= 12
  BY YmdIsDay
<1>2. FirstOrdinalWeekday(day, f) = IF here >= day THEN here ELSE next
  BY DEF FirstOrdinalWeekday
<1>3. next \in Int /\ day < next
  BY NextOrdinalMoves
<1>. HIDE DEF y, m, next
<1>4. here \in Int
  BY <1>1, NthWeekdayIsThere
<1>. HIDE DEF here
<1>. QED BY <1>2, <1>3, <1>4

\* The engine goes forward: one period on is a later day, whatever the rule.
THEOREM StepMovesForward ==
  ASSUME NEW day \in Int, NEW rule \in Rule
  PROVE  StepOnce(day, rule) \in Int /\ day < StepOnce(day, rule)
<1>. DEFINE f == rule.frequency
            n == rule.interval
            next == StepOnce(day, rule)
<1>1. f \in Frequencies /\ n \in Nat /\ n >= 1
  BY DEF Rule
<1>. HIDE DEF f, n
<1>2. CASE f.kind = "daily"
  <2>1. next = day + n BY <1>2 DEF StepOnce, f, n
  <2>. QED BY <1>1, <2>1
<1>3. CASE f.kind = "weekly"
  <2>1. next = day + 7 * n BY <1>3 DEF StepOnce, f, n
  <2>. QED BY <1>1, <2>1
<1>4. CASE f.kind = "workdays"
  <2>1. next = AddWorkdays(day, n) BY <1>4 DEF StepOnce, f, n
  <2>2. AddWorkdays(day, n) \in Int /\ day + n <= AddWorkdays(day, n)
    BY <1>1, AddWorkdaysMoves
  <2>. QED BY <1>1, <2>1, <2>2
<1>5. CASE f.kind = "weekdays"
  <2>1. next = NextMatchingWeekday(day, f.days) BY <1>5 DEF StepOnce, f, n
  <2>2. f.days \in SUBSET Int /\ f.days # {}
    BY <1>1, <1>5 DEF Frequencies, Weekdays
  <2>. QED BY <2>1, <2>2, NextMatchingMoves
<1>6. CASE f.kind = "monthly"
  <2>1. next = AddMonths(day, n) BY <1>6 DEF StepOnce, f, n
  <2>. QED BY <1>1, <2>1, AddMonthsMoves
<1>7. CASE f.kind = "yearly"
  <2>1. next = AddYears(day, n) BY <1>7 DEF StepOnce, f, n
  <2>. QED BY <1>1, <2>1, AddYearsMoves
<1>8. CASE f.kind = "ordinalWeekday"
  <2>1. next = NextOrdinalWeekday(day, f) BY <1>8 DEF StepOnce, f, n
  <2>2. /\ f.month = NoDate \/ (f.month \in Int /\ 1 <= f.month /\ f.month <= 12)
        /\ f.ordinal \in Int /\ (f.ordinal = -1 \/ 1 <= f.ordinal) /\ f.day \in Int
    BY <1>1, <1>8 DEF Frequencies, Weekdays
  <2>. QED BY <2>1, <2>2, NextOrdinalMoves
<1>9. CASE f.kind = "ordinalWeekdayList"
  <2>. DEFINE S == {NextEntryOccurrence(day, e) : e \in f.entries}
  <2>1. next = Min(S) BY <1>9 DEF StepOnce, f, n
  <2>2. f.entries \in SUBSET Entries /\ f.entries # {}
    BY <1>1, <1>9 DEF Frequencies
  <2>3. \A e \in f.entries : NextEntryOccurrence(day, e) \in Int
                             /\ day < NextEntryOccurrence(day, e)
    BY <2>2, EntryMoves
  <2>4. S \in SUBSET Int /\ S # {} /\ \A x \in S : day < x /\ day <= x
    BY <2>2, <2>3
  <2>. HIDE DEF S
  <2>5. Min(S) \in S BY <2>4, MinOfDays
  <2>. QED BY <2>1, <2>4, <2>5
<1>10. CASE f.kind = "monthlyDay"
  <2>. DEFINE d == f.day
  <2>1. next = NextMonthlyDay(day, d) BY <1>10 DEF StepOnce, f, n
  <2>2. d \in Int /\ 1 <= d
    BY <1>1, <1>10 DEF Frequencies
  <2>. HIDE DEF d
  <2>. QED BY <2>1, <2>2, NextMonthlyMoves
<1>11. CASE f.kind = "yearlyMonthDay"
  <2>. DEFINE d == f.day  m == f.month
  <2>1. next = DayInMonth(YmdOf(day).year + 1, m, d) BY <1>11 DEF StepOnce, f, n
  <2>2. d \in Int /\ 1 <= d /\ m \in Int /\ 1 <= m /\ m <= 12
    BY <1>1, <1>11 DEF Frequencies
  <2>. HIDE DEF d, m
  <2>3. DayInMonth(YmdOf(day).year + 1, m, d) \in Int
        /\ day < DayInMonth(YmdOf(day).year + 1, m, d)
    BY <2>2, NextYearMoves
  <2>. QED BY <2>1, <2>3
<1>12. f.kind \in {"daily", "workdays", "weekly", "monthly", "yearly", "weekdays",
                   "ordinalWeekday", "ordinalWeekdayList", "monthlyDay", "yearlyMonthDay"}
  BY <1>1 DEF Frequencies
<1>. QED
  BY <1>2, <1>3, <1>4, <1>5, <1>6, <1>7, <1>8, <1>9, <1>10, <1>11, <1>12

\* firstOnOrAfterOrigin gives a day, and none before the origin.
LEMMA FirstOnOrAfterIsThere ==
  ASSUME NEW day \in Int, NEW rule \in Rule
  PROVE  FirstOnOrAfterOrigin(day, rule) \in Int /\ day <= FirstOnOrAfterOrigin(day, rule)
<1>. DEFINE f == rule.frequency
            first == FirstOnOrAfterOrigin(day, rule)
            y == YmdOf(day).year
<1>1. f \in Frequencies
  BY DEF Rule
<1>2. /\ y \in Int
      /\ YmdOf(day).month \in Int /\ 1 <= YmdOf(day).month /\ YmdOf(day).month <= 12
  BY YmdIsDay
<1>. HIDE DEF f
<1>3. CASE f.kind \in {"daily", "weekly", "monthly", "yearly"}
  <2>1. first = day BY <1>3 DEF FirstOnOrAfterOrigin, f
  <2>. QED BY <2>1
<1>4. CASE f.kind = "workdays"
  <2>1. first = FirstMatchingWeekday(day, Workdays) BY <1>4 DEF FirstOnOrAfterOrigin, f
  <2>2. Workdays \in SUBSET Int /\ Workdays # {} BY DEF Workdays
  <2>. QED BY <2>1, <2>2, NextMatchingMoves
<1>5. CASE f.kind = "weekdays"
  <2>1. first = FirstMatchingWeekday(day, f.days) BY <1>5 DEF FirstOnOrAfterOrigin, f
  <2>2. f.days \in SUBSET Int /\ f.days # {}
    BY <1>1, <1>5 DEF Frequencies, Weekdays
  <2>. QED BY <2>1, <2>2, NextMatchingMoves
<1>6. CASE f.kind = "ordinalWeekday"
  <2>1. first = FirstOrdinalWeekday(day, f) BY <1>6 DEF FirstOnOrAfterOrigin, f
  <2>2. /\ f.month = NoDate \/ (f.month \in Int /\ 1 <= f.month /\ f.month <= 12)
        /\ f.ordinal \in Int /\ (f.ordinal = -1 \/ 1 <= f.ordinal) /\ f.day \in Int
    BY <1>1, <1>6 DEF Frequencies, Weekdays
  <2>. QED BY <2>1, <2>2, FirstOrdinalMoves
<1>7. CASE f.kind = "ordinalWeekdayList"
  <2>. DEFINE S == {FirstEntryOccurrence(day, e) : e \in f.entries}
  <2>1. first = Min(S) BY <1>7 DEF FirstOnOrAfterOrigin, f
  <2>2. f.entries \in SUBSET Entries /\ f.entries # {}
    BY <1>1, <1>7 DEF Frequencies
  <2>3. \A e \in f.entries : FirstEntryOccurrence(day, e) \in Int
                             /\ day <= FirstEntryOccurrence(day, e)
    BY <2>2, EntryMoves
  <2>4. S \in SUBSET Int /\ S # {} /\ \A x \in S : day <= x
    BY <2>2, <2>3
  <2>. HIDE DEF S
  <2>5. Min(S) \in S BY <2>4, MinOfDays
  <2>. QED BY <2>1, <2>4, <2>5
<1>8. CASE f.kind = "monthlyDay"
  <2>. DEFINE d == f.day  m == YmdOf(day).month
              here == DayInMonth(y, m, d)
              next == NextMonthlyDay(day, d)
  <2>1. first = IF here >= day THEN here ELSE next
    BY <1>8 DEF FirstOnOrAfterOrigin, FirstMonthlyDay, f
  <2>2. d \in Int /\ 1 <= d
    BY <1>1, <1>8 DEF Frequencies
  <2>. HIDE DEF d, y, m
  <2>3. here \in Int
    BY <1>2, <2>2, DayInMonthIsThere DEF m
  <2>4. next \in Int /\ day < next
    BY <2>2, NextMonthlyMoves
  <2>. HIDE DEF here, next
  <2>. QED BY <2>1, <2>3, <2>4
<1>9. CASE f.kind = "yearlyMonthDay"
  <2>. DEFINE d == f.day  m == f.month
              here == DayInMonth(y, m, d)
              next == DayInMonth(y + 1, m, d)
  <2>1. first = IF here >= day THEN here ELSE next
    BY <1>9 DEF FirstOnOrAfterOrigin, FirstYearlyMonthDay, f
  <2>2. d \in Int /\ 1 <= d /\ m \in Int /\ 1 <= m /\ m <= 12
    BY <1>1, <1>9 DEF Frequencies
  <2>. HIDE DEF d, m
  <2>3. next \in Int /\ day < next
    BY <2>2, NextYearMoves
  <2>. HIDE DEF y
  <2>4. here \in Int
    BY <1>2, <2>2, DayInMonthIsThere
  <2>. HIDE DEF here, next
  <2>. QED BY <2>1, <2>3, <2>4
<1>10. f.kind \in {"daily", "workdays", "weekly", "monthly", "yearly", "weekdays",
                   "ordinalWeekday", "ordinalWeekdayList", "monthlyDay", "yearlyMonthDay"}
  BY <1>1 DEF Frequencies
<1>. QED
  BY <1>3, <1>4, <1>5, <1>6, <1>7, <1>8, <1>9, <1>10

-----------------------------------------------------------------------------
(* The search for a day that clears the floor                              *)

\* g stops at a day of stop, and goes on from any other.
Searches(g, stop, next) ==
  g = [day \in Int |-> IF day \in stop THEN day ELSE g[next[day]]]

\* Days from limit on all being in stop, the search that goes forward finds one.
LEMMA SearchFinds ==
  ASSUME NEW stop \in SUBSET Int, NEW next \in [Int -> Int], NEW limit \in Int,
         \A d \in Int : d < next[d], \A d \in Int : limit <= d => d \in stop,
         NEW g, Searches(g, stop, next)
  PROVE  \A d \in Int : g[d] \in stop /\ d <= g[d]
<1>. DEFINE S == {n \in Nat : \A d \in Int : limit - d <= n => g[d] \in stop /\ d <= g[d]}
<1>1. \A d \in Int : g[d] = IF d \in stop THEN d ELSE g[next[d]]
  BY DEF Searches
<1>2. 0 \in S
  <2>1. ASSUME NEW d \in Int, limit - d <= 0 PROVE g[d] \in stop /\ d <= g[d]
    <3>1. d \in stop BY <2>1
    <3>. QED BY <1>1, <3>1
  <2>. QED BY <2>1
<1>3. ASSUME NEW n \in Nat, n \in S PROVE n + 1 \in S
  <2>1. ASSUME NEW d \in Int, limit - d <= n + 1 PROVE g[d] \in stop /\ d <= g[d]
    <3>1. CASE d \in stop BY <1>1, <3>1
    <3>2. CASE d \notin stop
      <4>1. next[d] \in Int /\ d < next[d] OBVIOUS
      <4>2. limit - next[d] <= n BY <2>1, <4>1
      <4>3. g[next[d]] \in stop /\ next[d] <= g[next[d]] BY <1>3, <4>1, <4>2
      <4>4. g[d] = g[next[d]] BY <1>1, <3>2
      <4>5. g[next[d]] \in Int BY <4>3
      <4>6. d <= g[next[d]] BY <4>1, <4>3, <4>5
      <4>. QED BY <4>3, <4>4, <4>6
    <3>. QED BY <3>1, <3>2
  <2>. QED BY <2>1
<1>4. Nat \subseteq S
  <2>. HIDE DEF S
  <2>. QED BY <1>2, <1>3, Induction
<1>. SUFFICES ASSUME NEW d \in Int PROVE g[d] \in stop /\ d <= g[d]
  OBVIOUS
<1>5. CASE limit <= d
  <2>1. d \in stop BY <1>5
  <2>. QED BY <1>1, <2>1
<1>6. CASE ~(limit <= d)
  <2>1. limit - d \in Nat /\ limit - d <= limit - d BY <1>6
  <2>2. limit - d \in S BY <1>4, <2>1
  <2>. QED BY <2>1, <2>2
<1>. QED BY <1>5, <1>6

\* The recursive search is a function: each step goes forward, so that the
\* days it may still pass are fewer.
LEMMA SearchExists ==
  ASSUME NEW stop \in SUBSET Int, NEW next \in [Int -> Int], NEW limit \in Int,
         \A d \in Int : d < next[d], \A d \in Int : limit <= d => d \in stop
  PROVE  \E g : Searches(g, stop, next)
<1>. DEFINE T == [d \in Int |-> IF d \in stop THEN d ELSE next[d]]
            X == [Int -> Int]
            Id == [d \in Int |-> d]
            F == [h \in X |-> [d \in Int |-> h[T[d]]]]
            Far(d) == IF limit <= d THEN 0 ELSE limit - d
<1>1. T \in X /\ Id \in X
  OBVIOUS
<1>2. F \in [X -> X]
  BY <1>1
<1>3. PICK it \in [Nat -> X] : Iterates(it, Id, F)
  <2>. HIDE DEF F, Id, X
  <2>. QED BY <1>1, <1>2, Recursion
<1>4. \A d \in Int : it[0][d] = d
  BY <1>3 DEF Iterates
<1>5. \A n \in Nat, d \in Int : it[n + 1][d] = it[n][T[d]]
  <2>1. \A n \in Nat : it[n] \in X BY <1>3
  <2>2. \A n \in Nat : it[n + 1] = F[it[n]] BY <1>3 DEF Iterates
  <2>3. ASSUME NEW h \in X PROVE F[h] = [d \in Int |-> h[T[d]]]
    OBVIOUS
  <2>. HIDE DEF F, X, T
  <2>4. ASSUME NEW n \in Nat, NEW d \in Int PROVE it[n + 1][d] = it[n][T[d]]
    <3>1. it[n + 1] = [e \in Int |-> it[n][T[e]]] BY <2>1, <2>2, <2>3
    <3>. QED BY <3>1
  <2>. QED BY <2>4
<1>. HIDE DEF F, Id, X
<1>6. \A d \in stop, n \in Nat : it[n][d] = d
  <2>. SUFFICES ASSUME NEW d \in stop PROVE \A n \in Nat : it[n][d] = d
    OBVIOUS
  <2>. DEFINE S == {n \in Nat : it[n][d] = d}
  <2>1. 0 \in S BY <1>4
  <2>2. ASSUME NEW n \in Nat, n \in S PROVE n + 1 \in S
    <3>1. T[d] = d /\ d \in Int OBVIOUS
    <3>2. it[n + 1][d] = it[n][T[d]] BY <1>5, <3>1
    <3>. QED BY <2>2, <3>1, <3>2
  <2>. HIDE DEF S
  <2>3. Nat \subseteq S BY <2>1, <2>2, Induction
  <2>. QED BY <2>3 DEF S
<1>7. \A d \in Int : Far(d) \in Nat
  OBVIOUS
<1>8. \A d \in Int : d \notin stop => T[d] = next[d] /\ Far(T[d]) + 1 <= Far(d)
  OBVIOUS
<1>9. \A n \in Nat : \A d \in Int : Far(d) <= n => it[n + 1][d] = it[n][d]
  <2>. DEFINE S == {n \in Nat : \A d \in Int : Far(d) <= n => it[n + 1][d] = it[n][d]}
  <2>1. 0 \in S
    <3>1. ASSUME NEW d \in Int, Far(d) <= 0 PROVE it[0 + 1][d] = it[0][d]
      <4>1. d \in stop BY <3>1
      <4>. QED BY <1>6, <4>1
    <3>. QED BY <3>1
  <2>2. ASSUME NEW n \in Nat, n \in S PROVE n + 1 \in S
    <3>1. ASSUME NEW d \in Int, Far(d) <= n + 1 PROVE it[(n + 1) + 1][d] = it[n + 1][d]
      <4>1. CASE d \in stop BY <1>6, <4>1
      <4>2. CASE d \notin stop
        <5>1. T[d] \in Int /\ Far(T[d]) \in Nat /\ Far(T[d]) <= n
          BY <1>1, <1>7, <1>8, <3>1, <4>2
        <5>2. it[n + 1][T[d]] = it[n][T[d]]
          <6>. HIDE DEF T, Far
          <6>. QED BY <2>2, <5>1
        <5>3. n + 1 \in Nat OBVIOUS
        <5>. QED BY <1>5, <5>2, <5>3
      <4>. QED BY <4>1, <4>2
    <3>. QED BY <3>1
  <2>. HIDE DEF S
  <2>3. Nat \subseteq S BY <2>1, <2>2, Induction
  <2>. QED BY <2>3 DEF S
<1>10. \A d \in Int, m \in Nat, n \in Nat :
          Far(d) <= m /\ m <= n => it[n][d] = it[m][d]
  <2>. SUFFICES ASSUME NEW d \in Int, NEW m \in Nat, Far(d) <= m
                PROVE  \A n \in Nat : m <= n => it[n][d] = it[m][d]
    OBVIOUS
  <2>. DEFINE S == {n \in Nat : m <= n => it[n][d] = it[m][d]}
  <2>1. 0 \in S OBVIOUS
  <2>2. ASSUME NEW n \in Nat, n \in S PROVE n + 1 \in S
    <3>1. CASE m = n + 1 BY <3>1
    <3>2. CASE m # n + 1
      <4>. SUFFICES ASSUME m <= n + 1 PROVE it[n + 1][d] = it[m][d]
        OBVIOUS
      <4>1. m <= n /\ Far(d) <= n BY <1>7, <3>2
      <4>2. it[n + 1][d] = it[n][d] BY <1>9, <4>1
      <4>. QED BY <2>2, <4>1, <4>2
    <3>. QED BY <3>1, <3>2
  <2>. HIDE DEF S
  <2>3. Nat \subseteq S BY <2>1, <2>2, Induction
  <2>. QED BY <2>3 DEF S
<1>. DEFINE g == [d \in Int |-> it[Far(d)][d]]
<1>11. ASSUME NEW d \in Int
       PROVE  g[d] = IF d \in stop THEN d ELSE g[next[d]]
  <2>1. CASE d \in stop
    <3>1. it[Far(d)][d] = d BY <1>6, <1>7, <2>1
    <3>. QED BY <2>1, <3>1
  <2>2. CASE d \notin stop
    <3>. DEFINE e == next[d]  m == Far(d) - 1
    <3>1. e \in Int /\ T[d] = e /\ Far(e) \in Nat /\ Far(d) \in Nat /\ Far(e) <= m /\ m \in Nat
      BY <1>7, <1>8, <2>2
    <3>2. it[Far(d)][d] = it[m][e]
      <4>1. m + 1 = Far(d) BY <3>1
      <4>. HIDE DEF m, T, Far, e
      <4>. QED BY <1>5, <3>1, <4>1
    <3>3. it[m][e] = it[Far(e)][e]
      <4>. HIDE DEF m, Far, e
      <4>1. Far(e) <= Far(e) BY <3>1
      <4>. QED BY <1>10, <3>1, <4>1
    <3>. HIDE DEF Far
    <3>. QED BY <2>2, <3>1, <3>2, <3>3
  <2>. QED BY <2>1, <2>2
<1>12. g = [d \in Int |-> IF d \in stop THEN d ELSE g[next[d]]]
  <2>1. g = [d \in Int |-> g[d]] OBVIOUS
  <2>. HIDE DEF g
  <2>. QED BY <1>11, <2>1
<1>. HIDE DEF g
<1>. QED BY <1>12 DEF Searches

-----------------------------------------------------------------------------
(* computeOccurrence                                                       *)

\* A bound of a rule is a day.
LEMMA BoundIsDay ==
  ASSUME NEW bound \in MonthDay, NEW origin \in Int
  PROVE  ResolveBoundDate(bound, origin) \in Int
<1>. DEFINE y == IF bound.year = NoDate THEN YmdOf(origin).year ELSE bound.year
            m == bound.month  d == bound.day
<1>1. y \in Int /\ m \in Int /\ 1 <= m /\ m <= 12 /\ d \in Int /\ 1 <= d
  <2>1. YmdOf(origin).year \in Int BY YmdIsDay
  <2>. QED BY <2>1 DEF MonthDay
<1>2. ResolveBoundDate(bound, origin) = DayInMonth(y, m, d)
  BY DEF ResolveBoundDate
<1>. HIDE DEF y, m, d
<1>. QED BY <1>1, <1>2, DayInMonthIsThere

\* Where a rule starts.
LEMMA StartIsDay ==
  ASSUME NEW rule \in Rule, NEW origin \in Int
  PROVE  StartBound(rule, origin) \in Int \cup {NoDate}
<1>1. rule.startBound = NoDate \/ rule.startBound \in MonthDay
  BY DEF Rule
<1>. QED BY <1>1, BoundIsDay DEF StartBound

\* A duration from a day ends on a day.
LEMMA AddUnitIsDay ==
  ASSUME NEW day \in Int, NEW n \in Nat, NEW unit \in Units
  PROVE  AddUnit(day, n, unit) \in Int
<1>1. CASE unit = "day" BY <1>1 DEF AddUnit
<1>2. CASE unit = "week" BY <1>2 DEF AddUnit
<1>3. CASE unit = "month" BY <1>3, AddMonthsMoves DEF AddUnit
<1>4. CASE unit = "year" BY <1>4, AddYearsMoves DEF AddUnit
<1>. QED BY <1>1, <1>2, <1>3, <1>4 DEF Units

\* Where a rule ends.
LEMMA EndIsDay ==
  ASSUME NEW rule \in Rule, NEW origin \in Int
  PROVE  EndBound(rule, origin) \in Int \cup {NoDate}
<1>. DEFINE start == StartBound(rule, origin)
            from == IF start = NoDate THEN origin ELSE start
<1>1. start \in Int \cup {NoDate}
  BY StartIsDay
<1>2. from \in Int
  BY <1>1
<1>. HIDE DEF start
<1>3. CASE rule.endBound # NoDate
  <2>1. rule.endBound \in MonthDay BY <1>3 DEF Rule
  <2>2. EndBound(rule, origin) = ResolveBoundDate(rule.endBound, origin)
    BY <1>3 DEF EndBound
  <2>. QED BY <2>1, <2>2, BoundIsDay
<1>4. CASE rule.endBound = NoDate /\ rule.durationBound = NoDate
  BY <1>4 DEF EndBound
<1>5. CASE rule.endBound = NoDate /\ rule.durationBound # NoDate
  <2>. DEFINE n == rule.durationBound.count  unit == rule.durationBound.unit
  <2>1. n \in Nat /\ unit \in Units BY <1>5 DEF Rule
  <2>2. EndBound(rule, origin) = AddUnit(from, n, unit)
    BY <1>5 DEF EndBound, start
  <2>. HIDE DEF from, n, unit
  <2>. QED BY <1>2, <2>1, <2>2, AddUnitIsDay
<1>. QED BY <1>3, <1>4, <1>5

\* Where a rule counts from.
LEMMA OriginIsDay ==
  ASSUME NEW rule, NEW due \in Int \cup {NoDate}, NEW now \in Int
  PROVE  Origin(rule, due, now) \in Int
  BY DEF Origin

\* From some day on, all are in stop.
EndsIn(stop) == \E limit \in Int : \A d \in Int : limit <= d => d \in stop

\* Where computeOccurrence's search may stop, what it goes on to, and the date
\* it begins with.
Stops(rule, origin, now, completed) == {day \in Int : Clears(day, rule, origin, now, completed)}
Onwards(rule) == [day \in Int |-> StepOnce(day, rule)]
Candidate(rule, origin, completed) ==
  IF completed THEN StepOnce(origin, rule) ELSE FirstOnOrAfterOrigin(origin, rule)

\* The search of computeOccurrence goes forward, to a day it may stop at, and
\* ends.
LEMMA OccurrenceSearches ==
  ASSUME NEW rule \in Rule, NEW due \in Int \cup {NoDate}, NEW now \in Int,
         NEW completed \in BOOLEAN, NEW origin, origin = Origin(rule, due, now),
         NEW stop, stop = Stops(rule, origin, now, completed),
         NEW next, next = Onwards(rule),
         NEW first, first = Candidate(rule, origin, completed),
         NEW end, end = EndBound(rule, origin)
  PROVE  /\ origin \in Int /\ end \in Int \cup {NoDate}
         /\ stop \in SUBSET Int /\ next \in [Int -> Int]
         /\ first \in Int /\ origin <= first /\ (completed => origin < first)
         /\ EndsIn(stop)
         /\ \E g : /\ Searches(g, stop, next)
                   /\ g[first] \in stop /\ first <= g[first]
                   /\ Occurrence(rule, due, now, completed)
                        = IF end # NoDate /\ g[first] > end THEN NoDate ELSE g[first]
<1>. DEFINE start == StartBound(rule, origin)
            limit == IF start # NoDate /\ start > now + 1 THEN start ELSE now + 1
            Search(g) == [day \in Int |-> IF Clears(day, rule, origin, now, completed)
                                            THEN day ELSE g[StepOnce(day, rule)]]
            from == CHOOSE g : g = Search(g)
<1>1. origin \in Int
  BY OriginIsDay
<1>2. Occurrence(rule, due, now, completed)
        = IF end # NoDate /\ from[first] > end THEN NoDate ELSE from[first]
  BY DEF Occurrence, Candidate
<1>3. start \in Int \cup {NoDate} /\ end \in Int \cup {NoDate}
  BY <1>1, StartIsDay, EndIsDay
<1>4. stop \in SUBSET Int /\ limit \in Int
  BY <1>3 DEF Stops
<1>5. next \in [Int -> Int] /\ \A d \in Int : d < next[d]
  BY StepMovesForward DEF Onwards
<1>6. \A d \in Int : limit <= d => d \in stop
  <2>. SUFFICES ASSUME NEW d \in Int, limit <= d PROVE Clears(d, rule, origin, now, completed)
    BY DEF Stops
  <2>. HIDE DEF start
  <2>1. d > now /\ (start = NoDate \/ d >= start) BY <1>3
  <2>. QED BY <1>3, <2>1 DEF Clears, start
<1>7. first \in Int /\ origin <= first /\ (completed => origin < first)
  BY <1>1, StepMovesForward, FirstOnOrAfterIsThere DEF Candidate
<1>8. \A g : g = Search(g) <=> Searches(g, stop, next)
  <2>1. \A g : Search(g) = [day \in Int |-> IF day \in stop THEN day ELSE g[next[day]]]
    BY DEF Stops, Onwards
  <2>. HIDE DEF Search
  <2>. QED BY <2>1 DEF Searches
<1>. HIDE DEF limit, start, Search
<1>9. from = Search(from)
  <2>1. \E g : Searches(g, stop, next) BY <1>4, <1>5, <1>6, SearchExists
  <2>. QED BY <1>8, <2>1
<1>. HIDE DEF from
<1>10. Searches(from, stop, next)
  BY <1>8, <1>9
<1>11. from[first] \in stop /\ first <= from[first]
  BY <1>4, <1>5, <1>6, <1>7, <1>10, SearchFinds
<1>12. EndsIn(stop)
  BY <1>4, <1>6 DEF EndsIn
<1>. QED BY <1>1, <1>2, <1>3, <1>4, <1>5, <1>7, <1>10, <1>11, <1>12

\* What the engine promises of every date it gives: it is a day, from the
\* origin on, that clears the floor - past today once today's is done - and the
\* start, and is not after the end.  So the search ends for every rule.
THEOREM OccurrenceClears ==
  ASSUME NEW rule \in Rule, NEW due \in Int \cup {NoDate}, NEW now \in Int,
         NEW completed \in BOOLEAN,
         NEW found, found = Occurrence(rule, due, now, completed)
  PROVE  \/ found = NoDate
         \/ /\ found \in Int
            /\ Origin(rule, due, now) <= found
            /\ completed => Origin(rule, due, now) < found
            /\ Clears(found, rule, Origin(rule, due, now), now, completed)
            /\ \/ EndBound(rule, Origin(rule, due, now)) = NoDate
               \/ found <= EndBound(rule, Origin(rule, due, now))
<1>. DEFINE origin == Origin(rule, due, now)
            end == EndBound(rule, origin)
            stop == Stops(rule, origin, now, completed)
            next == Onwards(rule)
            first == Candidate(rule, origin, completed)
<1>1. /\ origin \in Int /\ end \in Int \cup {NoDate} /\ stop \in SUBSET Int
      /\ first \in Int /\ origin <= first /\ (completed => origin < first)
      /\ \E g : /\ g[first] \in stop /\ first <= g[first]
                /\ found = IF end # NoDate /\ g[first] > end THEN NoDate ELSE g[first]
  <2>. HIDE DEF origin, end, stop, next, first
  <2>1. /\ origin = Origin(rule, due, now) /\ stop = Stops(rule, origin, now, completed)
        /\ next = Onwards(rule) /\ first = Candidate(rule, origin, completed)
        /\ end = EndBound(rule, origin)
    BY DEF origin, end, stop, next, first
  <2>. QED BY <2>1, OccurrenceSearches
<1>2. PICK g : /\ g[first] \in stop /\ first <= g[first]
               /\ found = IF end # NoDate /\ g[first] > end THEN NoDate ELSE g[first]
  BY <1>1
<1>3. \A day : day \in stop => Clears(day, rule, origin, now, completed)
  BY DEF Stops
<1>. HIDE DEF origin, end, stop, first
<1>4. CASE found # NoDate
  <2>1. PICK day \in Int : day = g[first]
    BY <1>1, <1>2
  <2>2. found = day /\ (end = NoDate \/ day <= end)
    BY <1>1, <1>2, <1>4, <2>1
  <2>3. origin <= found /\ (completed => origin < found)
    BY <1>1, <1>2, <2>1, <2>2
  <2>. QED BY <1>2, <1>3, <2>1, <2>2, <2>3 DEF origin, end
<1>. QED BY <1>4

-----------------------------------------------------------------------------
(* The days a rule names                                                   *)

\* The index of the month a day is in.
MonthOf(day) == MonthIndex(YmdOf(day).year, YmdOf(day).month)

\* A day, its month and what YmdOf says of it.
LEMMA DayOfMonth ==
  ASSUME NEW day \in Int, NEW k, k = MonthOf(day)
  PROVE  /\ k \in Int
         /\ FirstOfMonth(k) \in Int /\ FirstOfMonth(k + 1) \in Int
         /\ FirstOfMonth(k) <= day /\ day < FirstOfMonth(k + 1)
         /\ YmdOf(day).day = day - FirstOfMonth(k) + 1
         /\ YmdOf(day).month = (k % 12) + 1
         /\ YmdOf(day).year = k \div 12
<1>1. /\ YmdOf(day).year \in Int /\ YmdOf(day).month \in Int /\ YmdOf(day).day \in Int
      /\ 1 <= YmdOf(day).month /\ YmdOf(day).month <= 12 /\ 1 <= YmdOf(day).day
      /\ k \in Int
      /\ day = FirstOfMonth(k) + YmdOf(day).day - 1
      /\ day < FirstOfMonth(k + 1)
  BY YmdIsDay DEF MonthOf
<1>2. FirstOfMonth(k) \in Int /\ FirstOfMonth(k + 1) \in Int
  BY <1>1, FirstIsDay
<1>3. k = YmdOf(day).year * 12 + YmdOf(day).month - 1
  BY DEF MonthOf, MonthIndex
<1>4. YmdOf(day).month = (k % 12) + 1 /\ YmdOf(day).year = k \div 12
  <2>. DEFINE y == YmdOf(day).year  m == YmdOf(day).month
  <2>1. y \in Int /\ m \in Int /\ 1 <= m /\ m <= 12 /\ k = 12 * y + m - 1
    BY <1>1, <1>3
  <2>. HIDE DEF y, m
  <2>2. m = (k % 12) + 1 /\ y = k \div 12
    BY <2>1, SMT
  <2>. QED BY <2>2 DEF y, m
<1>. QED BY <1>1, <1>2, <1>4

\* Months follow each other, so a day is in one of them.
LEMMA MonthHolds ==
  ASSUME NEW day \in Int, NEW k \in Int,
         FirstOfMonth(k) <= day, day < FirstOfMonth(k + 1)
  PROVE  MonthOf(day) = k
<1>. DEFINE j == MonthOf(day)
<1>1. /\ j \in Int /\ FirstOfMonth(j) \in Int /\ FirstOfMonth(j + 1) \in Int
      /\ FirstOfMonth(j) <= day /\ day < FirstOfMonth(j + 1)
  BY DayOfMonth
<1>. HIDE DEF j
<1>2. FirstOfMonth(k) \in Int /\ FirstOfMonth(k + 1) \in Int
  BY FirstIsDay
<1>3. ~(j + 1 <= k)
  <2>. SUFFICES ASSUME j + 1 <= k PROVE FALSE
    OBVIOUS
  <2>1. FirstOfMonth(j + 1) <= FirstOfMonth(k) BY <1>1, MonthsInOrder
  <2>. QED BY <1>1, <1>2, <2>1
<1>4. ~(k + 1 <= j)
  <2>. SUFFICES ASSUME k + 1 <= j PROVE FALSE
    OBVIOUS
  <2>1. FirstOfMonth(k + 1) <= FirstOfMonth(j) BY <1>1, MonthsInOrder
  <2>. QED BY <1>1, <1>2, <2>1
<1>5. j = k BY <1>1, <1>3, <1>4
<1>. QED BY <1>5 DEF j

\* D has one day for each month, in that month.
InMonths(D) ==
  /\ D \in [Int -> Int]
  /\ \A k \in Int : FirstOfMonth(k) <= D[k] /\ D[k] < FirstOfMonth(k + 1)

\* The days of D whose month is in K.
DaysOf(D, K) == {day \in Int : MonthOf(day) \in K /\ day = D[MonthOf(day)]}

\* day is the first of the days of S from from on.
IsFirst(S, from, day) ==
  /\ day \in S /\ day \in Int /\ from <= day
  /\ \A d \in S : from <= d => day <= d

\* Of one day a month, the next is that of the next month there is.
LEMMA NextMonthIsNext ==
  ASSUME NEW D, InMonths(D), NEW K \in SUBSET Int, NEW from \in Int,
         NEW i \in Int, NEW l \in K, \A k \in K : k <= i \/ l <= k,
         D[i] < from, from <= D[l]
  PROVE  IsFirst(DaysOf(D, K), from, D[l])
<1>1. D[i] \in Int /\ D[l] \in Int /\ l \in Int
  BY DEF InMonths
<1>2. MonthOf(D[l]) = l
  BY <1>1, MonthHolds DEF InMonths
<1>3. ASSUME NEW d \in DaysOf(D, K), from <= d PROVE D[l] <= d
  <2>. DEFINE k == MonthOf(d)
  <2>1. d \in Int /\ k \in K /\ d = D[k]
    BY DEF DaysOf
  <2>. HIDE DEF k
  <2>2. CASE k <= i
    <3>1. k # i
      BY <1>1, <1>3, <2>1
    <3>2. k + 1 <= i /\ k \in Int
      BY <2>1, <2>2, <3>1
    <3>3. FirstOfMonth(k + 1) <= FirstOfMonth(i)
      BY <3>2, MonthsInOrder
    <3>4. D[k] < FirstOfMonth(k + 1) /\ FirstOfMonth(i) <= D[i]
      BY <3>2 DEF InMonths
    <3>5. FirstOfMonth(k + 1) \in Int /\ FirstOfMonth(i) \in Int
      BY <3>2, FirstIsDay
    <3>. QED BY <1>1, <1>3, <2>1, <3>3, <3>4, <3>5
  <2>3. CASE l <= k
    <3>1. CASE k = l BY <1>1, <2>1, <3>1
    <3>2. CASE k # l
      <4>1. l + 1 <= k /\ k \in Int
        BY <1>1, <2>1, <2>3, <3>2
      <4>2. FirstOfMonth(l + 1) <= FirstOfMonth(k)
        BY <1>1, <4>1, MonthsInOrder
      <4>3. D[l] < FirstOfMonth(l + 1) /\ FirstOfMonth(k) <= D[k]
        BY <1>1, <4>1 DEF InMonths
      <4>4. FirstOfMonth(l + 1) \in Int /\ FirstOfMonth(k) \in Int
        BY <1>1, <4>1, FirstIsDay
      <4>. QED BY <1>1, <2>1, <4>2, <4>3, <4>4
    <3>. QED BY <3>1, <3>2
  <2>. QED BY <2>1, <2>2, <2>3
<1>. QED BY <1>1, <1>2, <1>3 DEF IsFirst, DaysOf

\* The day of each month with that number, or the last of a shorter one.
ByDay(t) == [k \in Int |-> DayInMonth(k \div 12, (k % 12) + 1, t)]

\* The ordinal-th t of each month.
ByWeekday(ordinal, t) == [k \in Int |-> NthWeekdayOfMonth(k \div 12, (k % 12) + 1, ordinal, t)]

\* Both, of the month of a year and a month.
LEMMA ByMonth ==
  ASSUME NEW y \in Int, NEW m \in Int, 1 <= m, m <= 12
  PROVE  /\ MonthIndex(y, m) \in Int
         /\ (MonthIndex(y, m) % 12) + 1 = m
         /\ MonthIndex(y, m) \div 12 = y
         /\ \A t : ByDay(t)[MonthIndex(y, m)] = DayInMonth(y, m, t)
         /\ \A ordinal, t : ByWeekday(ordinal, t)[MonthIndex(y, m)] =
                              NthWeekdayOfMonth(y, m, ordinal, t)
<1>. DEFINE k == MonthIndex(y, m)
<1>1. k = 12 * y + m - 1 /\ k \in Int
  BY DEF MonthIndex
<1>. HIDE DEF k
<1>2. k \div 12 = y /\ (k % 12) + 1 = m
  BY <1>1, SMT
<1>3. /\ \A t : ByDay(t)[k] = DayInMonth(y, m, t)
      /\ \A ordinal, t : ByWeekday(ordinal, t)[k] = NthWeekdayOfMonth(y, m, ordinal, t)
  BY <1>1, <1>2 DEF ByDay, ByWeekday
<1>. QED BY <1>1, <1>2, <1>3 DEF k

\* A month has one day of each number from 1 on, which IsDayOfMonth tells.
LEMMA ByDayIsTold ==
  ASSUME NEW t \in Int, 1 <= t
  PROVE  /\ InMonths(ByDay(t))
         /\ \A day \in Int : IsDayOfMonth(day, t) <=> day = ByDay(t)[MonthOf(day)]
         /\ t <= 28 => \A day \in Int : day = ByDay(t)[MonthOf(day)] => YmdOf(day).day = t
<1>1. ASSUME NEW k \in Int
      PROVE  /\ ByDay(t)[k] \in Int
             /\ FirstOfMonth(k) <= ByDay(t)[k] /\ ByDay(t)[k] < FirstOfMonth(k + 1)
             /\ ByDay(t)[k] - FirstOfMonth(k) + 1 =
                  IF t < FirstOfMonth(k + 1) - FirstOfMonth(k) THEN t
                  ELSE FirstOfMonth(k + 1) - FirstOfMonth(k)
  <2>. DEFINE y == k \div 12  m == (k % 12) + 1
              length == DaysInMonth(y, m)
              e == IF t < length THEN t ELSE length
  <2>1. y \in Int /\ m \in Int /\ 1 <= m /\ m <= 12 /\ MonthIndex(y, m) = k
    BY MonthOfIndex
  <2>2. ByDay(t)[k] = DayInMonth(y, m, t)
    BY DEF ByDay
  <2>. HIDE DEF y, m
  <2>3. /\ ByDay(t)[k] \in Int
        /\ FirstOfMonth(k) <= ByDay(t)[k] /\ ByDay(t)[k] < FirstOfMonth(k + 1)
    BY <2>1, <2>2, DayInMonthIsThere
  <2>4. /\ FirstOfMonth(k) \in Int /\ FirstOfMonth(k + 1) \in Int
        /\ EpochOf(y, m, 1) = FirstOfMonth(k)
    BY <2>1, FirstIsDay, FirstDayOfMonth
  <2>5. length = FirstOfMonth(k + 1) - FirstOfMonth(k)
    BY <2>1 DEF DaysInMonth
  <2>6. ByDay(t)[k] = EpochOf(y, m, e)
    BY <2>2 DEF DayInMonth
  <2>. HIDE DEF length
  <2>7. e \in Int /\ e = IF t < length THEN t ELSE length
    BY <2>4, <2>5
  <2>. HIDE DEF e
  <2>8. ByDay(t)[k] = FirstOfMonth(k) + (e - 1)
    <3>1. EpochOf(y, m, e) = EpochOf(y, m, 1) + (e - 1)
      BY <2>1, <2>7, EpochIsDay
    <3>. QED BY <2>4, <2>6, <3>1
  <2>9. ByDay(t)[k] - FirstOfMonth(k) + 1 = e
    BY <2>4, <2>7, <2>8
  <2>. QED BY <2>3, <2>5, <2>7, <2>9
<1>2. InMonths(ByDay(t))
  <2>1. ByDay(t) = [k \in Int |-> ByDay(t)[k]] BY DEF ByDay
  <2>. QED BY <1>1, <2>1 DEF InMonths
<1>3. ASSUME NEW day \in Int
      PROVE  IsDayOfMonth(day, t) <=> day = ByDay(t)[MonthOf(day)]
  <2>0. PICK e \in Int : e = day + 1
    OBVIOUS
  <2>. DEFINE k == MonthOf(day)
              here == ByDay(t)[k]
              first == FirstOfMonth(k)
              next == FirstOfMonth(k + 1)
              n == YmdOf(day).day
              after == YmdOf(e).day
  <2>1. /\ k \in Int /\ first \in Int /\ next \in Int
        /\ first <= day /\ day < next /\ n = day - first + 1
    BY DayOfMonth
  <2>2. /\ here \in Int
        /\ here - first + 1 = IF t < next - first THEN t ELSE next - first
    BY <1>1, <2>1
  <2>3. IsDayOfMonth(day, t) <=> n <= t /\ (n = t \/ after = 1)
    BY <2>0 DEF IsDayOfMonth
  <2>4. after = 1 <=> e = next
    <3>1. CASE e = next
      <4>1. next + 28 <= FirstOfMonth(k + 1 + 1) /\ FirstOfMonth(k + 1 + 1) \in Int
        BY <2>1, MonthLength, FirstIsDay
      <4>2. MonthOf(e) = k + 1
        BY <2>0, <2>1, <3>1, <4>1, MonthHolds
      <4>3. after = e - FirstOfMonth(k + 1) + 1
        BY <4>2, DayOfMonth
      <4>. QED BY <2>0, <2>1, <3>1, <4>3
    <3>2. CASE e # next
      <4>1. first <= e /\ e < next
        BY <2>0, <2>1, <3>2
      <4>2. MonthOf(e) = k
        BY <2>1, <4>1, MonthHolds
      <4>3. after = e - FirstOfMonth(k) + 1
        BY <4>2, DayOfMonth
      <4>. QED BY <2>0, <2>1, <3>2, <4>3
    <3>. QED BY <3>1, <3>2
  <2>. HIDE DEF here, first, next, n, after
  <2>5. IsDayOfMonth(day, t) <=> day = here
    BY <2>0, <2>1, <2>2, <2>3, <2>4
  <2>. QED BY <2>5 DEF here
<1>4. ASSUME t <= 28, NEW day \in Int, day = ByDay(t)[MonthOf(day)]
      PROVE  YmdOf(day).day = t
  <2>. DEFINE k == MonthOf(day)
  <2>1. k \in Int /\ YmdOf(day).day = day - FirstOfMonth(k) + 1
    BY DayOfMonth
  <2>2. /\ FirstOfMonth(k) \in Int /\ FirstOfMonth(k + 1) \in Int
        /\ FirstOfMonth(k) + 28 <= FirstOfMonth(k + 1)
    BY <2>1, FirstIsDay, MonthLength
  <2>3. ByDay(t)[k] - FirstOfMonth(k) + 1 = t
    <3>1. ~(t < FirstOfMonth(k + 1) - FirstOfMonth(k)) =>
            FirstOfMonth(k + 1) - FirstOfMonth(k) = t
      BY <1>4, <2>2
    <3>. QED BY <1>1, <2>1, <3>1
  <2>. QED BY <1>4, <2>1, <2>3
<1>. QED BY <1>2, <1>3, <1>4

\* A weekday comes back after a week and no sooner.
LEMMA WeekdayRepeats ==
  /\ \A d \in Int, e \in Int : WeekdayOf(d) = WeekdayOf(e) /\ d <= e /\ e < d + 7 => d = e
  /\ \A d \in Int, j \in Int : WeekdayOf(d + 7 * j) = WeekdayOf(d)
  /\ \A d \in Int : WeekdayOf(d) \in Weekdays
<1>1. ASSUME NEW d \in Int, NEW e \in Int, WeekdayOf(d) = WeekdayOf(e), d <= e, e < d + 7
      PROVE  d = e
  BY <1>1, SMT DEF WeekdayOf
<1>2. ASSUME NEW d \in Int, NEW j \in Int PROVE WeekdayOf(d + 7 * j) = WeekdayOf(d)
  BY SMT DEF WeekdayOf
<1>3. ASSUME NEW d \in Int PROVE WeekdayOf(d) \in Weekdays
  BY SMT DEF WeekdayOf, Weekdays
<1>. QED BY <1>1, <1>2, <1>3

\* Where the next weekday is: in the week that follows.
LEMMA NextWeekdayIsThere ==
  ASSUME NEW day \in Int, NEW t \in Weekdays
  PROVE  /\ NextWeekdayOnOrAfter(day, t) \in Int
         /\ day <= NextWeekdayOnOrAfter(day, t) /\ NextWeekdayOnOrAfter(day, t) < day + 7
         /\ WeekdayOf(NextWeekdayOnOrAfter(day, t)) = t
<1>1. PICK w \in Int : w = WeekdayOf(day)
  BY SMT DEF WeekdayOf
<1>2. PICK r \in Int : r = (t - w) % 7
  BY <1>1, SMT DEF Weekdays
<1>3. NextWeekdayOnOrAfter(day, t) = day + r
  BY <1>1, <1>2 DEF NextWeekdayOnOrAfter
<1>4. 0 <= r /\ r < 7 /\ (day + r + 4) % 7 = t
  BY <1>1, <1>2, SMT DEF WeekdayOf, Weekdays
<1>5. day + r \in Int /\ WeekdayOf(day + r) = t
  BY <1>4 DEF WeekdayOf
<1>. QED BY <1>3, <1>4, <1>5

\* The ordinal-th weekday of a month, but for a fifth, is in it, and told by
\* IsNthWeekday.
LEMMA ByWeekdayIsTold ==
  ASSUME NEW ordinal \in {-1} \cup 1 .. 4, NEW t \in Weekdays
  PROVE  /\ InMonths(ByWeekday(ordinal, t))
         /\ \A day \in Int : WeekdayOf(day) = t /\ IsNthWeekday(day, ordinal)
                               <=> day = ByWeekday(ordinal, t)[MonthOf(day)]
<1>. DEFINE D == ByWeekday(ordinal, t)
            Span(k) == IF ordinal = -1 THEN FirstOfMonth(k + 1) - 7
                                       ELSE FirstOfMonth(k) + 7 * (ordinal - 1)
<1>1. ASSUME NEW k \in Int
      PROVE  /\ FirstOfMonth(k) \in Int /\ FirstOfMonth(k + 1) \in Int
             /\ FirstOfMonth(k) <= Span(k) /\ Span(k) + 7 <= FirstOfMonth(k + 1)
             /\ Span(k) \in Int
  <2>1. /\ FirstOfMonth(k) \in Int /\ FirstOfMonth(k + 1) \in Int
        /\ FirstOfMonth(k) + 28 <= FirstOfMonth(k + 1)
    BY FirstIsDay, MonthLength
  <2>. QED BY <2>1
<1>2. ASSUME NEW k \in Int
      PROVE  /\ D[k] \in Int /\ Span(k) <= D[k] /\ D[k] < Span(k) + 7
             /\ WeekdayOf(D[k]) = t
  <2>. DEFINE y == k \div 12  m == (k % 12) + 1
              first == EpochOf(y, m, 1)
              last == EpochOf(y, m, DaysInMonth(y, m))
  <2>1. y \in Int /\ m \in Int /\ 1 <= m /\ m <= 12 /\ MonthIndex(y, m) = k
    BY MonthOfIndex
  <2>2. D[k] = NthWeekdayOfMonth(y, m, ordinal, t)
    BY DEF ByWeekday
  <2>. HIDE DEF y, m, D
  <2>3. FirstOfMonth(k) \in Int /\ FirstOfMonth(k + 1) \in Int /\ first = FirstOfMonth(k)
    BY <1>1, <2>1, FirstDayOfMonth
  <2>4. last = FirstOfMonth(k + 1) - 1
    <3>1. DaysInMonth(y, m) = FirstOfMonth(k + 1) - FirstOfMonth(k)
      BY <2>1 DEF DaysInMonth
    <3>2. DaysInMonth(y, m) \in Int
      BY <2>3, <3>1
    <3>3. last = first + (DaysInMonth(y, m) - 1)
      BY <2>1, <3>2, EpochIsDay
    <3>. QED BY <2>3, <3>1, <3>3
  <2>. HIDE DEF first, last
  <2>5. CASE ordinal = -1
    <3>1. D[k] = last - ((WeekdayOf(last) - t) % 7)
      BY <2>2, <2>5 DEF NthWeekdayOfMonth, last
    <3>2. last \in Int
      BY <2>3, <2>4
    <3>3. PICK w \in Int : w = WeekdayOf(last)
      BY <3>2, SMT DEF WeekdayOf
    <3>4. PICK r \in Int : r = (w - t) % 7
      BY <3>3, SMT DEF Weekdays
    <3>5. 0 <= r /\ r < 7 /\ (last - r + 4) % 7 = t
      BY <3>2, <3>3, <3>4, SMT DEF WeekdayOf, Weekdays
    <3>6. D[k] = last - r
      BY <3>1, <3>3, <3>4
    <3>7. WeekdayOf(last - r) = t
      BY <3>5 DEF WeekdayOf
    <3>. QED BY <2>3, <2>4, <2>5, <3>2, <3>5, <3>6, <3>7
  <2>6. CASE ordinal # -1
    <3>. DEFINE near == NextWeekdayOnOrAfter(first, t)
    <3>1. D[k] = near + (ordinal - 1) * 7
      BY <2>2, <2>6 DEF NthWeekdayOfMonth, first
    <3>2. near \in Int /\ first <= near /\ near < first + 7 /\ WeekdayOf(near) = t
      BY <2>3, NextWeekdayIsThere
    <3>. HIDE DEF near
    <3>3. ordinal - 1 \in Int
      OBVIOUS
    <3>4. WeekdayOf(near + 7 * (ordinal - 1)) = t
      BY <3>2, <3>3, WeekdayRepeats
    <3>5. D[k] = near + 7 * (ordinal - 1)
      BY <3>1, <3>2, <3>3
    <3>. QED BY <2>3, <2>6, <3>2, <3>3, <3>4, <3>5
  <2>. QED BY <2>5, <2>6
<1>3. InMonths(D)
  <2>1. D = [k \in Int |-> D[k]] BY DEF ByWeekday
  <2>. HIDE DEF D, Span
  <2>2. ASSUME NEW k \in Int
        PROVE  /\ D[k] \in Int
               /\ FirstOfMonth(k) <= D[k] /\ D[k] < FirstOfMonth(k + 1)
    BY <1>1, <1>2
  <2>. QED BY <2>1, <2>2 DEF InMonths
<1>4. ASSUME NEW day \in Int
      PROVE  WeekdayOf(day) = t /\ IsNthWeekday(day, ordinal) <=> day = D[MonthOf(day)]
  <2>. DEFINE k == MonthOf(day)
  <2>1. /\ k \in Int /\ FirstOfMonth(k) <= day /\ day < FirstOfMonth(k + 1)
        /\ FirstOfMonth(k) \in Int /\ FirstOfMonth(k + 1) \in Int
        /\ YmdOf(day).day = day - FirstOfMonth(k) + 1
        /\ YmdOf(day).month = (k % 12) + 1
    BY DayOfMonth
  <2>2. IsNthWeekday(day, ordinal) <=> Span(k) <= day /\ day < Span(k) + 7
    <3>1. CASE ordinal = -1
      <4>1. PICK e \in Int : e = day + 7
        OBVIOUS
      <4>2. IsNthWeekday(day, ordinal) <=> YmdOf(day).month # YmdOf(e).month
        BY <3>1, <4>1 DEF IsNthWeekday
      <4>3. CASE e < FirstOfMonth(k + 1)
        <5>1. MonthOf(e) = k
          BY <2>1, <4>1, <4>3, MonthHolds
        <5>2. YmdOf(e).month = (k % 12) + 1
          BY <5>1, DayOfMonth
        <5>. QED BY <2>1, <3>1, <4>1, <4>2, <4>3, <5>2
      <4>4. CASE ~(e < FirstOfMonth(k + 1))
        <5>1. k + 1 \in Int
          BY <2>1
        <5>2. /\ FirstOfMonth(k + 1) + 28 <= FirstOfMonth(k + 1 + 1)
              /\ FirstOfMonth(k + 1 + 1) \in Int
          BY <5>1, MonthLength, FirstIsDay
        <5>3. MonthOf(e) = k + 1
          BY <2>1, <4>1, <4>4, <5>1, <5>2, MonthHolds
        <5>4. YmdOf(e).month = ((k + 1) % 12) + 1
          BY <5>1, <5>3, DayOfMonth
        <5>5. (k + 1) % 12 # k % 12
          <6>. HIDE DEF k
          <6>. QED BY <2>1, SMT
        <5>. QED BY <2>1, <3>1, <4>1, <4>2, <4>4, <5>4, <5>5
      <4>. QED BY <4>3, <4>4
    <3>2. CASE ordinal # -1
      <4>1. PICK n \in Int : n = YmdOf(day).day - 1 /\ n = day - FirstOfMonth(k)
        BY <2>1
      <4>2. IsNthWeekday(day, ordinal) <=> n \div 7 = ordinal - 1
        BY <3>2, <4>1 DEF IsNthWeekday
      <4>3. n \div 7 = ordinal - 1 <=> 7 * (ordinal - 1) <= n /\ n < 7 * (ordinal - 1) + 7
        BY <3>2, SMT
      <4>. QED BY <2>1, <3>2, <4>1, <4>2, <4>3
    <3>. QED BY <3>1, <3>2
  <2>3. /\ D[k] \in Int /\ Span(k) <= D[k] /\ D[k] < Span(k) + 7 /\ WeekdayOf(D[k]) = t
        /\ Span(k) \in Int
    BY <1>1, <1>2, <2>1
  <2>. HIDE DEF k, D, Span
  <2>4. ASSUME WeekdayOf(day) = t, Span(k) <= day, day < Span(k) + 7 PROVE day = D[k]
    <3>1. CASE day <= D[k]
      <4>1. D[k] < day + 7 BY <2>3, <2>4
      <4>. QED BY <2>3, <2>4, <3>1, <4>1, WeekdayRepeats
    <3>2. CASE D[k] <= day
      <4>1. day < D[k] + 7 BY <2>3, <2>4
      <4>. QED BY <2>3, <2>4, <3>2, <4>1, WeekdayRepeats
    <3>. QED BY <2>3, <3>1, <3>2
  <2>5. WeekdayOf(day) = t /\ IsNthWeekday(day, ordinal) <=> day = D[k]
    BY <2>2, <2>3, <2>4
  <2>. QED BY <2>5 DEF k
<1>. QED BY <1>3, <1>4

\* Of what several sets name next, the least is what they name next together.
LEMMA FirstOfAll ==
  ASSUME NEW I, I # {}, NEW S \in [I -> SUBSET Int], NEW x \in [I -> Int], NEW from \in Int,
         \A i \in I : IsFirst(S[i], from, x[i])
  PROVE  IsFirst(UNION {S[i] : i \in I}, from, Min({x[i] : i \in I}))
<1>. DEFINE X == {x[i] : i \in I}
<1>1. X \in SUBSET Int /\ X # {} /\ \A y \in X : from <= y
  BY DEF IsFirst
<1>2. \A i \in I : x[i] \in X
  OBVIOUS
<1>3. \A y \in X : \E i \in I : y = x[i]
  OBVIOUS
<1>. HIDE DEF X
<1>4. Min(X) \in X /\ \A y \in X : Min(X) <= y
  BY <1>1, MinOfDays
<1>5. PICK i \in I : Min(X) = x[i]
  BY <1>3, <1>4
<1>6. Min(X) \in UNION {S[j] : j \in I} /\ Min(X) \in Int /\ from <= Min(X)
  BY <1>5 DEF IsFirst
<1>7. ASSUME NEW d \in UNION {S[j] : j \in I}, from <= d PROVE Min(X) <= d
  <2>1. PICK j \in I : d \in S[j]
    OBVIOUS
  <2>2. x[j] <= d /\ d \in Int /\ x[j] \in Int
    BY <1>7, <2>1 DEF IsFirst
  <2>3. Min(X) <= x[j]
    BY <1>2, <1>4
  <2>. QED BY <1>6, <2>2, <2>3
<1>8. IsFirst(UNION {S[j] : j \in I}, from, Min(X))
  BY <1>6, <1>7 DEF IsFirst
<1>. QED BY <1>8 DEF X

\* The days that are one of a set of weekdays.
DaysOn(days) == {d \in Int : WeekdayOf(d) \in days}

\* The next day on one of a set of weekdays, after a day or from it on.
LEMMA NextMatchingIsNext ==
  ASSUME NEW day \in Int, NEW days \in SUBSET Weekdays, days # {}
  PROVE  /\ IsFirst(DaysOn(days), day + 1, NextMatchingWeekday(day, days))
         /\ IsFirst(DaysOn(days), day, FirstMatchingWeekday(day, days))
<1>1. ASSUME NEW from \in Int, NEW w \in Weekdays
      PROVE  IsFirst(DaysOn({w}), from, NextWeekdayOnOrAfter(from, w))
  <2>. DEFINE next == NextWeekdayOnOrAfter(from, w)
  <2>1. next \in Int /\ from <= next /\ next < from + 7 /\ WeekdayOf(next) = w
    BY NextWeekdayIsThere
  <2>. HIDE DEF next
  <2>2. ASSUME NEW d \in DaysOn({w}), from <= d PROVE next <= d
    <3>1. d \in Int /\ WeekdayOf(d) = w BY DEF DaysOn
    <3>. SUFFICES ASSUME ~(next <= d) PROVE FALSE
      OBVIOUS
    <3>2. d <= next /\ next < d + 7 /\ d # next BY <2>1, <2>2, <3>1
    <3>. QED BY <2>1, <3>1, <3>2, WeekdayRepeats
  <2>3. IsFirst(DaysOn({w}), from, next)
    BY <2>1, <2>2 DEF IsFirst, DaysOn
  <2>. QED BY <2>3 DEF next
<1>2. ASSUME NEW from \in Int
      PROVE  IsFirst(DaysOn(days), from, Min({NextWeekdayOnOrAfter(from, w) : w \in days}))
  <2>. DEFINE S == [w \in days |-> DaysOn({w})]
              x == [w \in days |-> NextWeekdayOnOrAfter(from, w)]
  <2>1. \A w \in days : w \in Weekdays /\ x[w] \in Int
    BY NextWeekdayIsThere
  <2>2. S \in [days -> SUBSET Int] /\ x \in [days -> Int]
    BY <2>1 DEF DaysOn
  <2>3. \A w \in days : IsFirst(S[w], from, x[w])
    BY <1>1, <2>1
  <2>4. UNION {S[w] : w \in days} = DaysOn(days)
    BY DEF DaysOn
  <2>5. {x[w] : w \in days} = {NextWeekdayOnOrAfter(from, w) : w \in days}
    OBVIOUS
  <2>. HIDE DEF S, x
  <2>6. IsFirst(UNION {S[w] : w \in days}, from, Min({x[w] : w \in days}))
    BY <2>2, <2>3, FirstOfAll
  <2>. QED BY <2>4, <2>5, <2>6
<1>3. NextMatchingWeekday(day, days) = Min({NextWeekdayOnOrAfter(day + 1, w) : w \in days})
  BY DEF NextMatchingWeekday, NextWeekdayAfter
<1>4. FirstMatchingWeekday(day, days) = Min({NextWeekdayOnOrAfter(day, w) : w \in days})
  BY DEF FirstMatchingWeekday
<1>5. day + 1 \in Int
  OBVIOUS
<1>. QED BY <1>2, <1>3, <1>4, <1>5

\* The workdays past origin up to a day.
Worked(origin, day) == {d \in origin + 1 .. day : WeekdayOf(d) \in Workdays}

\* They are finitely many, more by one with each workday.
LEMMA WorkedGrows ==
  ASSUME NEW origin \in Int
  PROVE  /\ \A d \in Int : Cardinality(Worked(origin, d)) \in Nat
         /\ \A d \in Int, e \in Int : d < e /\ origin < e /\ WeekdayOf(e) \in Workdays
              => Cardinality(Worked(origin, d)) < Cardinality(Worked(origin, e))
         /\ \A d \in Int, e \in Int :
              origin <= d /\ IsFirst(DaysOn(Workdays), d + 1, e)
              => Cardinality(Worked(origin, e)) = Cardinality(Worked(origin, d)) + 1
<1>1. ASSUME NEW d \in Int
      PROVE  IsFiniteSet(Worked(origin, d)) /\ Cardinality(Worked(origin, d)) \in Nat
  <2>1. IsFiniteSet(origin + 1 .. d)
    BY FS_Interval
  <2>2. Worked(origin, d) \subseteq origin + 1 .. d
    BY DEF Worked
  <2>3. IsFiniteSet(Worked(origin, d))
    BY <2>1, <2>2, FS_Subset
  <2>. QED BY <2>3, FS_CardinalityType
<1>2. ASSUME NEW d \in Int, NEW e \in Int, d < e, origin < e, WeekdayOf(e) \in Workdays
      PROVE  Cardinality(Worked(origin, d)) < Cardinality(Worked(origin, e))
  <2>1. Worked(origin, d) \subseteq Worked(origin, e)
    BY <1>2 DEF Worked
  <2>2. e \in Worked(origin, e) /\ e \notin Worked(origin, d)
    BY <1>2 DEF Worked
  <2>. QED BY <1>1, <2>1, <2>2, FS_Subset
<1>3. ASSUME NEW d \in Int, NEW e \in Int, origin <= d, IsFirst(DaysOn(Workdays), d + 1, e)
      PROVE  Cardinality(Worked(origin, e)) = Cardinality(Worked(origin, d)) + 1
  <2>1. d < e /\ WeekdayOf(e) \in Workdays
    BY <1>3 DEF IsFirst, DaysOn
  <2>2. \A b \in Int : WeekdayOf(b) \in Workdays /\ d + 1 <= b => e <= b
    BY <1>3 DEF IsFirst, DaysOn
  <2>3. Worked(origin, e) = Worked(origin, d) \cup {e}
    BY <1>3, <2>1, <2>2 DEF Worked
  <2>4. e \notin Worked(origin, d)
    BY <2>1 DEF Worked
  <2>. QED BY <1>1, <2>3, <2>4, FS_AddElement
<1>. QED BY <1>1, <1>2, <1>3

\* addWorkdays counts that many.
LEMMA AddWorkdaysCounts ==
  ASSUME NEW origin \in Int, NEW day \in Int, origin <= day, NEW n \in Nat
  PROVE  /\ AddWorkdays(day, n) \in Int /\ day + n <= AddWorkdays(day, n)
         /\ Cardinality(Worked(origin, AddWorkdays(day, n)))
              = Cardinality(Worked(origin, day)) + n
         /\ n # 0 => WeekdayOf(AddWorkdays(day, n)) \in Workdays
<1>. DEFINE A(i) == AddWorkdays(day, i)
            Count(d) == Cardinality(Worked(origin, d))
            S == {i \in Nat : Count(A(i)) = Count(day) + i}
<1>1. ASSUME NEW i \in Nat PROVE A(i) \in Int /\ day + i <= A(i)
  BY AddWorkdaysMoves
<1>2. A(0) = day /\ \A i \in Nat : A(i + 1) = NextMatchingWeekday(A(i), Workdays)
  BY AddWorkdaysSteps
<1>. HIDE DEF A
<1>3. ASSUME NEW i \in Nat PROVE IsFirst(DaysOn(Workdays), A(i) + 1, A(i + 1))
  <2>1. Workdays \in SUBSET Weekdays /\ Workdays # {}
    BY DEF Workdays, Weekdays
  <2>2. IsFirst(DaysOn(Workdays), A(i) + 1, NextMatchingWeekday(A(i), Workdays))
    BY <1>1, <2>1, NextMatchingIsNext
  <2>. QED BY <1>2, <2>2
<1>4. 0 \in S
  <2>1. Count(day) \in Nat BY WorkedGrows
  <2>2. Count(A(0)) = Count(day) BY <1>2
  <2>. HIDE DEF Count
  <2>. QED BY <2>1, <2>2
<1>5. ASSUME NEW i \in Nat, i \in S PROVE i + 1 \in S
  <2>1. A(i) \in Int /\ A(i + 1) \in Int /\ origin <= A(i)
    <3>1. i + 1 \in Nat OBVIOUS
    <3>. QED BY <1>1, <3>1
  <2>2. Count(A(i + 1)) = Count(A(i)) + 1
    BY <1>3, <2>1, WorkedGrows
  <2>3. Count(day) \in Nat BY WorkedGrows
  <2>. HIDE DEF Count
  <2>. QED BY <1>5, <2>2, <2>3
<1>6. Nat \subseteq S
  <2>. HIDE DEF S
  <2>. QED BY <1>4, <1>5, Induction
<1>7. n # 0 => WeekdayOf(A(n)) \in Workdays
  <2>. SUFFICES ASSUME n # 0 PROVE WeekdayOf(A(n)) \in Workdays
    OBVIOUS
  <2>1. PICK i \in Nat : i + 1 = n
    <3>1. n - 1 \in Nat /\ (n - 1) + 1 = n OBVIOUS
    <3>. QED BY <3>1
  <2>2. IsFirst(DaysOn(Workdays), A(i) + 1, A(n))
    BY <1>3, <2>1
  <2>. QED BY <2>2 DEF IsFirst, DaysOn
<1>8. n \in S
  BY <1>6
<1>. QED BY <1>1, <1>7, <1>8 DEF A

\* Multiples of n are n apart.
LEMMA Multiples ==
  ASSUME NEW n \in Nat, 1 <= n
  PROVE  /\ 0 % n = 0
         /\ \A a \in Int : a % n = 0 => (a + n) % n = 0
         /\ \A a \in Int, b \in Int : a % n = 0 /\ b % n = 0 /\ a < b => a + n <= b
<1>1. ASSUME NEW j \in Int PROVE /\ 0 < n * j => n <= n * j
                                 /\ n * j \in Int
                                 /\ 0 <= n * j /\ n * j < n => n * j = 0
  <2>1. CASE j <= -1 BY <2>1, SMT
  <2>2. CASE j = 0 BY <2>2, SMT
  <2>3. CASE 1 <= j BY <2>3, SMT
  <2>. QED BY <2>1, <2>2, <2>3
<1>2. \A a \in Int : /\ a \div n \in Int /\ a % n \in Int
                     /\ a = n * (a \div n) + (a % n)
                     /\ 0 <= a % n /\ a % n < n
  BY Quotient
<1>3. \A p \in Int, q \in Int : n * (p - q) = n * p - n * q
  BY SMT
<1>4. ASSUME NEW q \in Int PROVE (n * q) % n = 0
  <2>1. PICK a \in Int : a = n * q
    BY <1>1
  <2>2. PICK p \in Int : a = n * p + (a % n)
    BY <1>2
  <2>3. n * (q - p) = a % n /\ q - p \in Int
    BY <1>1, <1>2, <1>3, <2>1, <2>2
  <2>. QED BY <1>1, <1>2, <2>1, <2>3
<1>5. ASSUME NEW a \in Int, a % n = 0 PROVE (a + n) % n = 0
  <2>1. PICK p \in Int : a = n * p
    BY <1>2, <1>5
  <2>2. n * (p + 1) = n * p + n /\ p + 1 \in Int
    BY SMT
  <2>. QED BY <1>4, <2>1, <2>2
<1>6. ASSUME NEW a \in Int, NEW b \in Int, a % n = 0, b % n = 0, a < b PROVE a + n <= b
  <2>0. a \div n \in Int /\ a = n * (a \div n) /\ b \div n \in Int /\ b = n * (b \div n)
    BY <1>2, <1>6
  <2>1. PICK p \in Int : a = n * p
    BY <2>0, Zenon
  <2>2. PICK q \in Int : b = n * q
    BY <2>0, Zenon
  <2>3. n * (q - p) = b - a /\ q - p \in Int
    BY <1>3, <2>1, <2>2
  <2>. QED BY <1>1, <1>6, <2>3
<1>7. 0 % n = 0
  <2>1. n * 0 = 0 BY SMT
  <2>. QED BY <1>4, <2>1
<1>. QED BY <1>5, <1>6, <1>7

\* Every n months from a month on, and one month of each year.
Every(n, month) == {k \in Int : (k - month) % n = 0}

Yearly(m) == {k \in Int : (k % 12) + 1 = m}

\* One day of every month, from a day on or past it.
LEMMA EachMonthIsNext ==
  ASSUME NEW D, InMonths(D), NEW day \in Int, NEW from \in {day, day + 1},
         NEW i, i = MonthOf(day)
  PROVE  /\ i \in Int /\ D[i] \in Int
         /\ from <= D[i] => IsFirst(DaysOf(D, Int), from, D[i])
         /\ D[i] < from => IsFirst(DaysOf(D, Int), from, D[i + 1])
<1>1. /\ i \in Int /\ FirstOfMonth(i) <= day /\ day < FirstOfMonth(i + 1)
      /\ FirstOfMonth(i) \in Int /\ FirstOfMonth(i + 1) \in Int
  BY DayOfMonth
<1>2. \A k \in Int : D[k] \in Int /\ FirstOfMonth(k) <= D[k] /\ D[k] < FirstOfMonth(k + 1)
  BY DEF InMonths
<1>3. ASSUME from <= D[i] PROVE IsFirst(DaysOf(D, Int), from, D[i])
  <2>1. PICK j \in Int : j + 1 = i
    <3>1. i - 1 \in Int /\ (i - 1) + 1 = i BY <1>1
    <3>. QED BY <3>1
  <2>2. D[j] < from
    BY <1>1, <1>2, <2>1
  <2>3. \A k \in Int : k <= j \/ i <= k
    BY <1>1, <2>1
  <2>. QED BY <1>1, <1>3, <2>2, <2>3, NextMonthIsNext
<1>4. ASSUME D[i] < from PROVE IsFirst(DaysOf(D, Int), from, D[i + 1])
  <2>1. PICK l \in Int : l = i + 1
    BY <1>1
  <2>2. from <= D[l] /\ from \in Int /\ \A k \in Int : k <= i \/ l <= k
    BY <1>1, <1>2, <2>1
  <2>3. IsFirst(DaysOf(D, Int), from, D[l])
    BY <1>1, <1>4, <2>2, NextMonthIsNext
  <2>. QED BY <2>1, <2>3
<1>. QED BY <1>1, <1>2, <1>3, <1>4

\* One day of one month of every year.
LEMMA EachYearIsNext ==
  ASSUME NEW D, InMonths(D), NEW day \in Int, NEW from \in {day, day + 1},
         NEW m \in Int, 1 <= m, m <= 12,
         NEW y, y = YmdOf(day).year,
         NEW i, i = MonthIndex(y, m), NEW j, j = MonthIndex(y + 1, m)
  PROVE  /\ i \in Int /\ D[i] \in Int /\ y \in Int
         /\ from <= D[i] => IsFirst(DaysOf(D, Yearly(m)), from, D[i])
         /\ D[i] < from => IsFirst(DaysOf(D, Yearly(m)), from, D[j])
<1>. DEFINE k == MonthOf(day)
<1>1. /\ k \in Int /\ FirstOfMonth(k) <= day /\ day < FirstOfMonth(k + 1)
      /\ FirstOfMonth(k) \in Int /\ FirstOfMonth(k + 1) \in Int
      /\ y = k \div 12
  BY DayOfMonth
<1>. HIDE DEF k
<1>2. y \in Int /\ 12 * y <= k /\ k < 12 * y + 12
  BY <1>1, SMT
<1>3. i \in Int /\ j \in Int /\ i = 12 * y + m - 1 /\ j = 12 * y + 12 + m - 1
  BY <1>2 DEF MonthIndex
<1>4. \A l \in Int : D[l] \in Int /\ FirstOfMonth(l) <= D[l] /\ D[l] < FirstOfMonth(l + 1)
                     /\ FirstOfMonth(l) \in Int
  BY FirstIsDay DEF InMonths
<1>5. i \in Yearly(m) /\ j \in Yearly(m)
  <2>1. ASSUME NEW z \in Int, NEW l \in Int, l = 12 * z + m - 1 PROVE (l % 12) + 1 = m
    BY <2>1, SMT
  <2>2. y + 1 \in Int /\ j = 12 * (y + 1) + m - 1
    BY <1>2, <1>3
  <2>. QED BY <1>2, <1>3, <2>1, <2>2 DEF Yearly
<1>6. \A l \in Yearly(m) : \E z \in Int : l = 12 * z + m - 1
  <2>. SUFFICES ASSUME NEW l \in Yearly(m) PROVE \E z \in Int : l = 12 * z + m - 1
    OBVIOUS
  <2>1. l \in Int /\ (l % 12) + 1 = m
    BY DEF Yearly
  <2>2. l \div 12 \in Int /\ l = 12 * (l \div 12) + m - 1
    BY <2>1, SMT
  <2>. QED BY <2>2
<1>7. ASSUME from <= D[i] PROVE IsFirst(DaysOf(D, Yearly(m)), from, D[i])
  <2>1. PICK h \in Int : h + 12 = i
    <3>1. i - 12 \in Int /\ (i - 12) + 12 = i BY <1>3
    <3>. QED BY <3>1
  <2>2. h + 1 \in Int /\ h + 1 <= k
    BY <1>1, <1>2, <1>3, <2>1
  <2>3. FirstOfMonth(h + 1) <= FirstOfMonth(k)
    BY <1>1, <2>2, MonthsInOrder
  <2>4. D[h] < from
    BY <1>1, <1>4, <2>2, <2>3
  <2>5. \A l \in Yearly(m) : l <= h \/ i <= l
    BY <1>2, <1>3, <1>6, <2>1
  <2>6. Yearly(m) \in SUBSET Int /\ from \in Int
    BY DEF Yearly
  <2>. QED BY <1>5, <1>7, <2>4, <2>5, <2>6, NextMonthIsNext
<1>8. ASSUME D[i] < from PROVE IsFirst(DaysOf(D, Yearly(m)), from, D[j])
  <2>1. k + 1 \in Int /\ k + 1 <= j
    BY <1>1, <1>2, <1>3
  <2>2. FirstOfMonth(k + 1) <= FirstOfMonth(j)
    BY <1>3, <2>1, MonthsInOrder
  <2>3. from <= D[j]
    BY <1>1, <1>3, <1>4, <2>2
  <2>4. \A l \in Yearly(m) : l <= i \/ j <= l
    BY <1>2, <1>3, <1>6
  <2>5. Yearly(m) \in SUBSET Int /\ from \in Int
    BY DEF Yearly
  <2>. QED BY <1>3, <1>5, <1>8, <2>3, <2>4, <2>5, NextMonthIsNext
<1>. QED BY <1>2, <1>3, <1>4, <1>7, <1>8

\* One day of every n-th month.
LEMMA EachNthIsNext ==
  ASSUME NEW D, InMonths(D), NEW n \in Nat, 1 <= n, NEW start \in Int,
         NEW day \in DaysOf(D, Every(n, start)), NEW i, i = MonthOf(day)
  PROVE  i \in Int /\ IsFirst(DaysOf(D, Every(n, start)), day + 1, D[i + n])
<1>1. day \in Int /\ i \in Every(n, start) /\ day = D[i]
  BY DEF DaysOf
<1>2. Every(n, start) \in SUBSET Int
  BY DEF Every
<1>3. i \in Int /\ i + n \in Int /\ (i - start) % n = 0
  BY <1>1 DEF Every
<1>4. i + n \in Every(n, start)
  <2>1. PICK a \in Int : a = i - start
    BY <1>3
  <2>2. (a + n) % n = 0
    BY <1>3, <2>1, Multiples
  <2>3. i + n - start = a + n
    BY <1>3, <2>1
  <2>. QED BY <1>3, <2>2, <2>3 DEF Every
<1>5. ASSUME NEW k \in Every(n, start) PROVE k <= i \/ i + n <= k
  <2>1. PICK a \in Int : a = i - start
    BY <1>3
  <2>2. PICK b \in Int : b = k - start
    BY <1>2
  <2>3. a % n = 0 /\ b % n = 0
    BY <1>3, <2>1, <2>2 DEF Every
  <2>4. a < b => a + n <= b
    BY <2>3, Multiples
  <2>. QED BY <1>2, <1>3, <2>1, <2>2, <2>4
<1>6. D[i] < day + 1 /\ day + 1 <= D[i + n]
  <2>1. i + 1 <= i + n /\ i + 1 \in Int
    BY <1>3
  <2>2. FirstOfMonth(i + 1) <= FirstOfMonth(i + n)
    BY <1>3, <2>1, MonthsInOrder
  <2>3. /\ D[i] < FirstOfMonth(i + 1) /\ FirstOfMonth(i + n) <= D[i + n]
        /\ D[i + n] \in Int
    BY <1>3 DEF InMonths
  <2>4. FirstOfMonth(i + 1) \in Int /\ FirstOfMonth(i + n) \in Int
    BY <1>3, <2>1, FirstIsDay
  <2>. QED BY <1>1, <2>2, <2>3, <2>4
<1>7. day + 1 \in Int
  BY <1>1
<1>. QED BY <1>2, <1>3, <1>4, <1>5, <1>6, <1>7, NextMonthIsNext

\* The days a rule names, counting from origin.
NamedDays(rule, origin) == {day \in Int : Named(rule, origin, day)}

\* Every n-th day.
LEMMA NthDayIsNext ==
  ASSUME NEW n \in Nat, 1 <= n, NEW origin \in Int,
         NEW S, S = {d \in Int : (d - origin) % n = 0}
  PROVE  /\ origin \in S
         /\ \A day \in S : IsFirst(S, day + 1, day + n)
<1>1. origin \in S
  <2>1. origin - origin = 0
    OBVIOUS
  <2>. QED BY <2>1, Multiples
<1>2. ASSUME NEW day \in S PROVE IsFirst(S, day + 1, day + n)
  <2>1. PICK a \in Int : a = day - origin /\ a % n = 0
    OBVIOUS
  <2>2. (a + n) % n = 0 /\ day \in Int
    BY <2>1, Multiples
  <2>3. (day + n) - origin = a + n
    BY <2>1, <2>2
  <2>4. day + n \in S
    BY <2>2, <2>3
  <2>5. ASSUME NEW d \in S, day + 1 <= d PROVE day + n <= d
    <3>1. PICK b \in Int : b = d - origin /\ b % n = 0
      OBVIOUS
    <3>2. a < b => a + n <= b
      BY <2>1, <3>1, Multiples
    <3>. QED BY <2>1, <2>2, <2>5, <3>1, <3>2
  <2>. QED BY <2>2, <2>4, <2>5 DEF IsFirst
<1>. QED BY <1>1, <1>2

\* The kinds that count days: daily, weekly, weekdays.
LEMMA DayKinds ==
  ASSUME NEW rule \in Rule, NEW origin \in Int, NEW day \in Int,
         rule.frequency.kind \in {"daily", "weekly", "weekdays"}
  PROVE  /\ Named(rule, origin, day) \/ day = origin
              => IsFirst(NamedDays(rule, origin), day + 1, StepOnce(day, rule))
         /\ IsFirst(NamedDays(rule, origin), origin, FirstOnOrAfterOrigin(origin, rule))
<1>. DEFINE f == rule.frequency  n == rule.interval  N == NamedDays(rule, origin)
<1>1. f \in Frequencies /\ n \in Nat /\ 1 <= n
  BY DEF Rule
<1>. HIDE DEF f, n
<1>2. ASSUME NEW p \in Nat, 1 <= p, N = {d \in Int : (d - origin) % p = 0},
             StepOnce(day, rule) = day + p, FirstOnOrAfterOrigin(origin, rule) = origin
      PROVE  /\ day \in N \/ day = origin => IsFirst(N, day + 1, StepOnce(day, rule))
             /\ IsFirst(N, origin, FirstOnOrAfterOrigin(origin, rule))
  <2>. HIDE DEF N
  <2>1. origin \in N /\ \A d \in N : IsFirst(N, d + 1, d + p)
    BY <1>2, NthDayIsNext
  <2>. QED BY <1>2, <2>1 DEF IsFirst
<1>3. day \in N <=> Named(rule, origin, day)
  BY DEF NamedDays
<1>4. CASE f.kind = "daily"
  <2>1. N = {d \in Int : (d - origin) % n = 0}
    BY <1>4 DEF NamedDays, Named, f, n
  <2>2. StepOnce(day, rule) = day + n
    BY <1>4 DEF StepOnce, f, n
  <2>3. FirstOnOrAfterOrigin(origin, rule) = origin
    BY <1>4 DEF FirstOnOrAfterOrigin, f
  <2>. HIDE DEF N
  <2>4. /\ day \in N \/ day = origin => IsFirst(N, day + 1, StepOnce(day, rule))
        /\ IsFirst(N, origin, FirstOnOrAfterOrigin(origin, rule))
    BY <1>1, <1>2, <2>1, <2>2, <2>3
  <2>. QED BY <1>3, <2>4 DEF N
<1>5. CASE f.kind = "weekly"
  <2>1. N = {d \in Int : (d - origin) % (7 * n) = 0}
    BY <1>5 DEF NamedDays, Named, f, n
  <2>2. StepOnce(day, rule) = day + 7 * n
    BY <1>5 DEF StepOnce, f, n
  <2>3. FirstOnOrAfterOrigin(origin, rule) = origin
    BY <1>5 DEF FirstOnOrAfterOrigin, f
  <2>4. PICK p \in Nat : p = 7 * n /\ 1 <= p
    BY <1>1
  <2>. HIDE DEF N
  <2>5. /\ day \in N \/ day = origin => IsFirst(N, day + 1, StepOnce(day, rule))
        /\ IsFirst(N, origin, FirstOnOrAfterOrigin(origin, rule))
    BY <1>2, <2>1, <2>2, <2>3, <2>4
  <2>. QED BY <1>3, <2>5 DEF N
<1>6. CASE f.kind = "weekdays"
  <2>1. f.days \in SUBSET Weekdays /\ f.days # {}
    BY <1>1, <1>6 DEF Frequencies
  <2>2. N = DaysOn(f.days)
    BY <1>6 DEF NamedDays, Named, DaysOn, f
  <2>3. StepOnce(day, rule) = NextMatchingWeekday(day, f.days)
    BY <1>6 DEF StepOnce, f
  <2>4. FirstOnOrAfterOrigin(origin, rule) = FirstMatchingWeekday(origin, f.days)
    BY <1>6 DEF FirstOnOrAfterOrigin, f
  <2>. HIDE DEF N
  <2>5. IsFirst(N, day + 1, StepOnce(day, rule))
    BY <2>1, <2>2, <2>3, NextMatchingIsNext
  <2>6. IsFirst(N, origin, FirstOnOrAfterOrigin(origin, rule))
    BY <2>1, <2>2, <2>4, NextMatchingIsNext
  <2>. QED BY <2>5, <2>6 DEF N
<1>. QED BY <1>4, <1>5, <1>6 DEF f

\* Workdays: one in so many of those past the origin.
LEMMA WorkdayKind ==
  ASSUME NEW rule \in Rule, NEW origin \in Int, NEW day \in Int, origin <= day,
         rule.frequency.kind = "workdays"
  PROVE  /\ Named(rule, origin, day) \/ day = origin
              => IsFirst(NamedDays(rule, origin), day + 1, StepOnce(day, rule))
         /\ rule.interval = 1 =>
              IsFirst(NamedDays(rule, origin), origin, FirstOnOrAfterOrigin(origin, rule))
<1>. DEFINE n == rule.interval  N == NamedDays(rule, origin)
            Count(d) == Cardinality(Worked(origin, d))
            next == StepOnce(day, rule)
<1>1. n \in Nat /\ 1 <= n
  BY DEF Rule
<1>. HIDE DEF n
<1>2. N = {d \in Int : WeekdayOf(d) \in Workdays /\ Count(d) % n = 0}
  BY DEF NamedDays, Named, Worked, n
<1>3. /\ \A d \in Int : Count(d) \in Nat
      /\ \A d \in Int, e \in Int : d < e /\ origin < e /\ WeekdayOf(e) \in Workdays
                                     => Count(d) < Count(e)
  BY WorkedGrows
<1>4. next = AddWorkdays(day, n)
  BY DEF StepOnce, n
<1>5. /\ next \in Int /\ day + n <= next /\ Count(next) = Count(day) + n
      /\ WeekdayOf(next) \in Workdays
  <2>. HIDE DEF next
  <2>1. n # 0
    BY <1>1
  <2>. QED BY <1>1, <1>4, <2>1, AddWorkdaysCounts
<1>6. Count(origin) = 0
  <2>1. Worked(origin, origin) = {} BY DEF Worked
  <2>. QED BY <2>1, FS_EmptySet
<1>7. day \in N <=> Named(rule, origin, day)
  BY DEF NamedDays
<1>. HIDE DEF N, Count, next
<1>8. ASSUME Named(rule, origin, day) \/ day = origin
      PROVE  IsFirst(N, day + 1, next)
  <2>1. Count(day) % n = 0
    <3>1. CASE Named(rule, origin, day) BY <1>2, <1>7, <3>1
    <3>2. CASE day = origin BY <1>1, <1>6, <3>2, Multiples
    <3>. QED BY <1>8, <3>1, <3>2
  <2>2. PICK a \in Int : a = Count(day) /\ a % n = 0 /\ a + n = Count(next)
    BY <1>3, <1>5, <2>1
  <2>3. next \in N
    <3>1. (a + n) % n = 0 BY <1>1, <2>2, Multiples
    <3>. QED BY <1>2, <1>5, <2>2, <3>1
  <2>4. ASSUME NEW d \in N, day + 1 <= d PROVE next <= d
    <3>. SUFFICES ASSUME ~(next <= d) PROVE FALSE
      OBVIOUS
    <3>1. d \in Int /\ WeekdayOf(d) \in Workdays /\ Count(d) % n = 0 BY <1>2
    <3>2. day < d /\ d < next /\ origin < d /\ origin < next BY <1>5, <2>4, <3>1
    <3>3. Count(day) < Count(d) /\ Count(d) < Count(next) BY <1>3, <1>5, <3>1, <3>2
    <3>4. PICK b \in Int : b = Count(d) BY <1>3, <3>1
    <3>5. a + n <= b BY <1>1, <2>2, <3>1, <3>3, <3>4, Multiples
    <3>. QED BY <1>1, <2>2, <3>3, <3>4, <3>5
  <2>. QED BY <1>1, <1>5, <2>3, <2>4 DEF IsFirst
<1>9. ASSUME n = 1 PROVE IsFirst(N, origin, FirstOnOrAfterOrigin(origin, rule))
  <2>1. FirstOnOrAfterOrigin(origin, rule) = FirstMatchingWeekday(origin, Workdays)
    BY DEF FirstOnOrAfterOrigin
  <2>2. Workdays \in SUBSET Weekdays /\ Workdays # {}
    BY DEF Workdays, Weekdays
  <2>3. IsFirst(DaysOn(Workdays), origin, FirstMatchingWeekday(origin, Workdays))
    BY <2>2, NextMatchingIsNext
  <2>4. \A x \in Nat : x % 1 = 0
    BY SMT
  <2>5. N = DaysOn(Workdays)
    BY <1>2, <1>3, <1>9, <2>4 DEF DaysOn
  <2>. QED BY <2>1, <2>3, <2>5
<1>. QED BY <1>8, <1>9 DEF N, next, n

\* The kinds that keep the day of the month: monthly and yearly.
LEMMA DateKinds ==
  ASSUME NEW rule \in Rule, NEW origin \in Int, NEW day \in Int,
         rule.frequency.kind \in {"monthly", "yearly"}, YmdOf(origin).day <= 28
  PROVE  /\ Named(rule, origin, day) \/ day = origin
              => IsFirst(NamedDays(rule, origin), day + 1, StepOnce(day, rule))
         /\ IsFirst(NamedDays(rule, origin), origin, FirstOnOrAfterOrigin(origin, rule))
<1>. DEFINE f == rule.frequency
            n == IF f.kind = "monthly" THEN rule.interval ELSE 12 * rule.interval
            t == YmdOf(origin).day
            start == MonthOf(origin)
            D == ByDay(t)
            N == NamedDays(rule, origin)
            next == StepOnce(day, rule)
<1>1. n \in Nat /\ 1 <= n /\ rule.interval \in Nat
  BY DEF Rule
<1>2. t \in Int /\ 1 <= t /\ start \in Int
  BY YmdIsDay, DayOfMonth
<1>3. /\ InMonths(D)
      /\ \A d \in Int : IsDayOfMonth(d, t) <=> d = D[MonthOf(d)]
      /\ \A d \in Int : d = D[MonthOf(d)] => YmdOf(d).day = t
  <2>. HIDE DEF t
  <2>. QED BY <1>2, ByDayIsTold DEF t
<1>4. \A d \in Int : Named(rule, origin, d)
                      <=> (MonthOf(d) - start) % n = 0 /\ IsDayOfMonth(d, t)
  <2>1. \A d : MonthsBetween(origin, d) = MonthOf(d) - start
    BY DEF MonthsBetween, MonthOf
  <2>2. CASE f.kind = "monthly"
    BY <2>1, <2>2 DEF Named
  <2>3. CASE f.kind = "yearly"
    BY <2>1, <2>3 DEF Named
  <2>. QED BY <2>2, <2>3
<1>5. N = DaysOf(D, Every(n, start))
  <2>1. \A d \in Int : MonthOf(d) \in Int
    BY DayOfMonth
  <2>. HIDE DEF D, t, start, n
  <2>. QED BY <1>3, <1>4, <2>1 DEF NamedDays, DaysOf, Every
<1>6. origin \in N
  <2>1. YmdOf(origin).day = t
    OBVIOUS
  <2>2. IsDayOfMonth(origin, t)
    BY <1>2, <2>1 DEF IsDayOfMonth
  <2>3. (MonthOf(origin) - start) % n = 0
    <3>1. start - start = 0 BY <1>2
    <3>2. 0 % n = 0 BY <1>1, Multiples
    <3>. QED BY <3>1, <3>2
  <2>. QED BY <1>4, <2>2, <2>3 DEF NamedDays
<1>7. FirstOnOrAfterOrigin(origin, rule) = origin
  BY DEF FirstOnOrAfterOrigin
<1>8. ASSUME day \in N PROVE IsFirst(N, day + 1, next)
  <2>. DEFINE ymd == YmdOf(day)
              k == MonthOf(day)
  <2>1. /\ k \in Int /\ ymd.year \in Int /\ ymd.month \in Int
        /\ 1 <= ymd.month /\ ymd.month <= 12 /\ k = MonthIndex(ymd.year, ymd.month)
    BY YmdIsDay DEF MonthOf
  <2>2. ymd.day = t
    BY <1>3, <1>5, <1>8 DEF DaysOf
  <2>3. next = D[k + n]
    <3>1. CASE f.kind = "monthly"
      <4>1. next = AddMonths(day, n)
        BY <3>1 DEF StepOnce
      <4>2. AddMonths(day, n) = DayInMonth((k + n) \div 12, ((k + n) % 12) + 1, ymd.day)
        BY DEF AddMonths, MonthOf
      <4>. HIDE DEF ymd, k, next, n, t
      <4>3. k + n \in Int
        BY <1>1, <2>1
      <4>. QED BY <2>2, <4>1, <4>2, <4>3 DEF ByDay
    <3>2. CASE f.kind = "yearly"
      <4>1. next = AddYears(day, rule.interval)
        BY <3>2 DEF StepOnce
      <4>2. AddYears(day, rule.interval) =
              DayInMonth(ymd.year + rule.interval, ymd.month, ymd.day)
        BY DEF AddYears
      <4>3. n = 12 * rule.interval
        BY <3>2
      <4>. HIDE DEF ymd, k, next, n, t
      <4>4. PICK y \in Int : y = ymd.year + rule.interval
        BY <1>1, <2>1
      <4>5. MonthIndex(y, ymd.month) = k + n
        BY <1>1, <2>1, <4>3, <4>4, SMT DEF MonthIndex
      <4>6. ByDay(t)[MonthIndex(y, ymd.month)] = DayInMonth(y, ymd.month, t)
        BY <2>1, ByMonth
      <4>. QED BY <2>2, <4>1, <4>2, <4>4, <4>5, <4>6
    <3>. QED BY <3>1, <3>2
  <2>. HIDE DEF D, N, next, n, start, k
  <2>. QED BY <1>1, <1>2, <1>3, <1>5, <1>8, <2>3, EachNthIsNext DEF k
<1>9. IsFirst(N, origin, origin)
  BY <1>6 DEF IsFirst
<1>10. Named(rule, origin, day) \/ day = origin => day \in N
  BY <1>6 DEF NamedDays
<1>. QED BY <1>7, <1>8, <1>9, <1>10

\* The kinds that name one day of each month, or of a month of each year.
LEMMA MonthKinds ==
  ASSUME NEW rule \in Rule, NEW origin \in Int, NEW day \in Int,
         rule.frequency.kind \in {"ordinalWeekday", "monthlyDay", "yearlyMonthDay"},
         rule.frequency.kind = "ordinalWeekday" => rule.frequency.ordinal # 5
  PROVE  /\ Named(rule, origin, day)
              => IsFirst(NamedDays(rule, origin), day + 1, StepOnce(day, rule))
         /\ IsFirst(NamedDays(rule, origin), day, FirstOnOrAfterOrigin(day, rule))
<1>. DEFINE f == rule.frequency  N == NamedDays(rule, origin)
            D == IF f.kind = "ordinalWeekday" THEN ByWeekday(f.ordinal, f.day)
                                              ELSE ByDay(f.day)
            next == StepOnce(day, rule)
            first == FirstOnOrAfterOrigin(day, rule)
            ymd == YmdOf(day)
            k == MonthOf(day)
<1>1. f \in Frequencies
  BY DEF Rule
<1>2. /\ k \in Int /\ ymd.year \in Int /\ ymd.month \in Int
      /\ 1 <= ymd.month /\ ymd.month <= 12 /\ k = MonthIndex(ymd.year, ymd.month)
  BY YmdIsDay DEF MonthOf
<1>3. /\ f.kind = "ordinalWeekday" =>
           /\ f.ordinal \in {-1} \cup 1 .. 4 /\ f.day \in Weekdays
           /\ f.month = NoDate \/ f.month \in 1 .. 12
      /\ f.kind # "ordinalWeekday" => f.day \in Int /\ 1 <= f.day
      /\ f.kind = "yearlyMonthDay" => f.month \in 1 .. 12
  BY <1>1 DEF Frequencies
<1>4. /\ InMonths(D)
      /\ \A d \in Int : /\ f.kind = "ordinalWeekday" =>
                              (WeekdayOf(d) = f.day /\ IsNthWeekday(d, f.ordinal)
                                 <=> d = D[MonthOf(d)])
                        /\ f.kind # "ordinalWeekday" =>
                              (IsDayOfMonth(d, f.day) <=> d = D[MonthOf(d)])
  <2>. HIDE DEF f
  <2>1. CASE f.kind = "ordinalWeekday"
    BY <1>3, <2>1, ByWeekdayIsTold
  <2>2. CASE f.kind # "ordinalWeekday"
    BY <1>3, <2>2, ByDayIsTold
  <2>. QED BY <2>1, <2>2
<1>5. \A d \in Int : MonthOf(d) \in Int /\ YmdOf(d).month = (MonthOf(d) % 12) + 1
  BY DayOfMonth
<1>6. /\ \A m \in Int : 1 <= m /\ m <= 12 =>
           \A ordinal, t : \A y \in Int :
             /\ ByDay(t)[MonthIndex(y, m)] = DayInMonth(y, m, t)
             /\ ByWeekday(ordinal, t)[MonthIndex(y, m)] = NthWeekdayOfMonth(y, m, ordinal, t)
      /\ \A ordinal, t : \A j \in Int :
           /\ ByDay(t)[j] = DayInMonth(j \div 12, (j % 12) + 1, t)
           /\ ByWeekday(ordinal, t)[j] = NthWeekdayOfMonth(j \div 12, (j % 12) + 1, ordinal, t)
  BY ByMonth DEF ByDay, ByWeekday
<1>7. CASE f.kind = "monthlyDay" \/ (f.kind = "ordinalWeekday" /\ f.month = NoDate)
  <2>1. N = DaysOf(D, Int)
    <3>1. \A d \in Int : Named(rule, origin, d) <=> d = D[MonthOf(d)]
      <4>. HIDE DEF D
      <4>1. CASE f.kind = "monthlyDay"
        BY <1>4, <4>1 DEF Named
      <4>2. CASE f.kind = "ordinalWeekday" /\ f.month = NoDate
        BY <1>4, <4>2 DEF Named
      <4>. QED BY <1>7, <4>1, <4>2
    <3>. HIDE DEF D
    <3>. QED BY <1>5, <3>1 DEF NamedDays, DaysOf
  <2>2. k + 1 \in Int
    BY <1>2
  <2>3. D[k + 1] = IF f.kind = "ordinalWeekday"
                   THEN NthWeekdayOfMonth((k + 1) \div 12, ((k + 1) % 12) + 1, f.ordinal, f.day)
                   ELSE DayInMonth((k + 1) \div 12, ((k + 1) % 12) + 1, f.day)
    <3>. HIDE DEF k, f
    <3>. QED BY <1>6, <2>2
  <2>4. next = D[k + 1]
    <3>1. CASE f.kind = "monthlyDay"
      <4>1. next = NextMonthlyDay(day, f.day)
        BY <3>1 DEF StepOnce
      <4>2. NextMonthlyDay(day, f.day) =
              DayInMonth((k + 1) \div 12, ((k + 1) % 12) + 1, f.day)
        BY DEF NextMonthlyDay, MonthOf
      <4>. HIDE DEF D, next
      <4>. QED BY <2>3, <3>1, <4>1, <4>2
    <3>2. CASE f.kind = "ordinalWeekday" /\ f.month = NoDate
      <4>1. next = NextOrdinalWeekday(day, f)
        BY <3>2 DEF StepOnce
      <4>2. NextOrdinalWeekday(day, f) =
              NthWeekdayOfMonth((k + 1) \div 12, ((k + 1) % 12) + 1, f.ordinal, f.day)
        BY <3>2 DEF NextOrdinalWeekday, MonthOf
      <4>. HIDE DEF D, next
      <4>. QED BY <2>3, <3>2, <4>1, <4>2
    <3>. QED BY <1>7, <3>1, <3>2
  <2>5. first = IF D[k] >= day THEN D[k] ELSE D[k + 1]
    <3>1. CASE f.kind = "monthlyDay"
      <4>1. first = FirstMonthlyDay(day, f.day) /\ next = NextMonthlyDay(day, f.day)
        BY <3>1 DEF FirstOnOrAfterOrigin, StepOnce
      <4>2. D[k] = DayInMonth(ymd.year, ymd.month, f.day)
        <5>. HIDE DEF ymd, k, f
        <5>. QED BY <1>2, <1>6, <3>1
      <4>. HIDE DEF D, next, first, k
      <4>. QED BY <2>4, <4>1, <4>2 DEF FirstMonthlyDay
    <3>2. CASE f.kind = "ordinalWeekday" /\ f.month = NoDate
      <4>1. first = FirstOrdinalWeekday(day, f) /\ next = NextOrdinalWeekday(day, f)
        BY <3>2 DEF FirstOnOrAfterOrigin, StepOnce
      <4>2. D[k] = NthWeekdayOfMonth(ymd.year, ymd.month, f.ordinal, f.day)
        <5>. HIDE DEF ymd, k, f
        <5>. QED BY <1>2, <1>6, <3>2
      <4>. HIDE DEF D, next, first, k
      <4>. QED BY <2>4, <3>2, <4>1, <4>2 DEF FirstOrdinalWeekday
    <3>. QED BY <1>7, <3>1, <3>2
  <2>. HIDE DEF D, N, next, first, k
  <2>6. ASSUME NEW from \in {day, day + 1}
        PROVE  /\ D[k] \in Int
               /\ from <= D[k] => IsFirst(N, from, D[k])
               /\ D[k] < from => IsFirst(N, from, D[k + 1])
    BY <1>4, <2>1, EachMonthIsNext DEF k
  <2>7. IsFirst(N, day, first)
    BY <2>5, <2>6
  <2>8. ASSUME Named(rule, origin, day) PROVE IsFirst(N, day + 1, next)
    <3>1. day = D[k]
      BY <2>1, <2>8 DEF N, NamedDays, DaysOf, k
    <3>. QED BY <2>4, <2>6, <3>1
  <2>. QED BY <2>7, <2>8 DEF N, next, first
<1>8. CASE f.kind = "yearlyMonthDay" \/ (f.kind = "ordinalWeekday" /\ f.month # NoDate)
  <2>. DEFINE m == f.month
              i == MonthIndex(ymd.year, m)
              j == MonthIndex(ymd.year + 1, m)
  <2>1. m \in Int /\ 1 <= m /\ m <= 12
    BY <1>3, <1>8
  <2>2. N = DaysOf(D, Yearly(m))
    <3>1. \A d \in Int : Named(rule, origin, d) <=> m = YmdOf(d).month /\ d = D[MonthOf(d)]
      <4>. HIDE DEF D
      <4>1. CASE f.kind = "yearlyMonthDay"
        BY <1>4, <4>1 DEF Named
      <4>2. CASE f.kind = "ordinalWeekday" /\ f.month # NoDate
        BY <1>4, <4>2 DEF Named
      <4>. QED BY <1>8, <4>1, <4>2
    <3>. HIDE DEF D, m
    <3>. QED BY <1>5, <3>1 DEF NamedDays, DaysOf, Yearly
  <2>3. ymd.year + 1 \in Int
    BY <1>2
  <2>4. /\ D[i] = IF f.kind = "ordinalWeekday"
                  THEN NthWeekdayOfMonth(ymd.year, m, f.ordinal, f.day)
                  ELSE DayInMonth(ymd.year, m, f.day)
        /\ D[j] = IF f.kind = "ordinalWeekday"
                  THEN NthWeekdayOfMonth(ymd.year + 1, m, f.ordinal, f.day)
                  ELSE DayInMonth(ymd.year + 1, m, f.day)
    <3>1. \A y \in Int : D[MonthIndex(y, m)] =
                           IF f.kind = "ordinalWeekday"
                           THEN NthWeekdayOfMonth(y, m, f.ordinal, f.day)
                           ELSE DayInMonth(y, m, f.day)
      <4>. HIDE DEF m
      <4>. QED BY <1>6, <2>1
    <3>. HIDE DEF ymd, m, D
    <3>. QED BY <1>2, <2>3, <3>1
  <2>5. next = D[j]
    <3>1. CASE f.kind = "yearlyMonthDay"
      <4>1. next = DayInMonth(ymd.year + 1, m, f.day)
        BY <3>1 DEF StepOnce
      <4>. HIDE DEF D, next
      <4>. QED BY <2>4, <3>1, <4>1
    <3>2. CASE f.kind = "ordinalWeekday" /\ f.month # NoDate
      <4>1. next = NextOrdinalWeekday(day, f)
        BY <3>2 DEF StepOnce
      <4>2. NextOrdinalWeekday(day, f) = NthWeekdayOfMonth(ymd.year + 1, m, f.ordinal, f.day)
        BY <3>2 DEF NextOrdinalWeekday
      <4>. HIDE DEF D, next
      <4>. QED BY <2>4, <3>2, <4>1, <4>2
    <3>. QED BY <1>8, <3>1, <3>2
  <2>6. first = IF D[i] >= day THEN D[i] ELSE D[j]
    <3>1. CASE f.kind = "yearlyMonthDay"
      <4>1. first = FirstYearlyMonthDay(day, f)
        BY <3>1 DEF FirstOnOrAfterOrigin
      <4>. HIDE DEF D, first, i, j
      <4>. QED BY <2>4, <3>1, <4>1 DEF FirstYearlyMonthDay
    <3>2. CASE f.kind = "ordinalWeekday" /\ f.month # NoDate
      <4>1. first = FirstOrdinalWeekday(day, f) /\ next = NextOrdinalWeekday(day, f)
        BY <3>2 DEF FirstOnOrAfterOrigin, StepOnce
      <4>. HIDE DEF D, next, first, i, j
      <4>. QED BY <2>4, <2>5, <3>2, <4>1 DEF FirstOrdinalWeekday
    <3>. QED BY <1>8, <3>1, <3>2
  <2>. HIDE DEF D, N, next, first, m, i, j
  <2>7. ASSUME NEW from \in {day, day + 1}
        PROVE  /\ D[i] \in Int
               /\ from <= D[i] => IsFirst(N, from, D[i])
               /\ D[i] < from => IsFirst(N, from, D[j])
    BY <1>4, <2>1, <2>2, EachYearIsNext DEF i, j
  <2>8. IsFirst(N, day, first)
    BY <2>6, <2>7
  <2>9. ASSUME Named(rule, origin, day) PROVE IsFirst(N, day + 1, next)
    <3>1. day = D[k] /\ k \in Yearly(m)
      BY <2>2, <2>9 DEF N, NamedDays, DaysOf
    <3>2. k = i
      <4>1. ymd.month = m BY <1>5, <3>1 DEF Yearly
      <4>. QED BY <1>2, <4>1 DEF i
    <3>. QED BY <2>5, <2>7, <3>1, <3>2
  <2>. QED BY <2>8, <2>9 DEF N, next, first
<1>9. \/ f.kind = "yearlyMonthDay" \/ (f.kind = "ordinalWeekday" /\ f.month # NoDate)
      \/ f.kind = "monthlyDay" \/ (f.kind = "ordinalWeekday" /\ f.month = NoDate)
  OBVIOUS
<1>. QED BY <1>7, <1>8, <1>9

\* One of a list of ordinal weekdays, each of one month of the year.
LEMMA EntryIsNext ==
  ASSUME NEW day \in Int, NEW e \in Entries, e.ordinal # 5,
         NEW S, S = {d \in Int : /\ WeekdayOf(d) = e.day /\ IsNthWeekday(d, e.ordinal)
                                 /\ e.month = YmdOf(d).month}
  PROVE  /\ S \in SUBSET Int
         /\ NextEntryOccurrence(day, e) \in Int /\ FirstEntryOccurrence(day, e) \in Int
         /\ IsFirst(S, day + 1, NextEntryOccurrence(day, e))
         /\ IsFirst(S, day, FirstEntryOccurrence(day, e))
<1>. DEFINE y == YmdOf(day).year  m == e.month
            D == ByWeekday(e.ordinal, e.day)
            i == MonthIndex(y, m)  j == MonthIndex(y + 1, m)
<1>1. /\ m \in Int /\ 1 <= m /\ m <= 12 /\ e.ordinal \in {-1} \cup 1 .. 4
      /\ e.day \in Weekdays
  BY DEF Entries
<1>2. y \in Int
  BY YmdIsDay
<1>3. /\ InMonths(D)
      /\ \A d \in Int : WeekdayOf(d) = e.day /\ IsNthWeekday(d, e.ordinal)
                          <=> d = D[MonthOf(d)]
  BY <1>1, ByWeekdayIsTold
<1>4. S = DaysOf(D, Yearly(m))
  <2>1. \A d \in Int : MonthOf(d) \in Int /\ YmdOf(d).month = (MonthOf(d) % 12) + 1
    BY DayOfMonth
  <2>. HIDE DEF D
  <2>. QED BY <1>3, <2>1 DEF DaysOf, Yearly
<1>5. /\ D[i] = NthWeekdayOfMonth(y, m, e.ordinal, e.day)
      /\ D[j] = NthWeekdayOfMonth(y + 1, m, e.ordinal, e.day)
  <2>1. PICK z \in Int : z = y + 1
    BY <1>2
  <2>2. \A x \in Int : D[MonthIndex(x, m)] = NthWeekdayOfMonth(x, m, e.ordinal, e.day)
    <3>. SUFFICES ASSUME NEW x \in Int
                  PROVE  D[MonthIndex(x, m)] = NthWeekdayOfMonth(x, m, e.ordinal, e.day)
      OBVIOUS
    <3>. HIDE DEF m
    <3>1. \A o, t : ByWeekday(o, t)[MonthIndex(x, m)] = NthWeekdayOfMonth(x, m, o, t)
      BY <1>1, ByMonth
    <3>. QED BY <3>1
  <2>. HIDE DEF D, m, y
  <2>. QED BY <1>2, <2>1, <2>2
<1>6. /\ NextEntryOccurrence(day, e) = IF D[i] > day THEN D[i] ELSE D[j]
      /\ FirstEntryOccurrence(day, e) = IF D[i] >= day THEN D[i] ELSE D[j]
  <2>. HIDE DEF D, i, j
  <2>. QED BY <1>5 DEF NextEntryOccurrence, FirstEntryOccurrence
<1>. HIDE DEF D, i, j, m, y
<1>7. ASSUME NEW from \in {day, day + 1}
      PROVE  /\ D[i] \in Int
             /\ from <= D[i] => IsFirst(S, from, D[i])
             /\ D[i] < from => IsFirst(S, from, D[j])
  <2>1. y = YmdOf(day).year /\ i = MonthIndex(y, m) /\ j = MonthIndex(y + 1, m)
    BY DEF i, j, y
  <2>2. /\ D[i] \in Int
        /\ from <= D[i] => IsFirst(DaysOf(D, Yearly(m)), from, D[i])
        /\ D[i] < from => IsFirst(DaysOf(D, Yearly(m)), from, D[j])
    BY ONLY day \in Int, from \in {day, day + 1}, <1>1, <1>3, <2>1, EachYearIsNext
  <2>. QED BY <1>4, <2>2
<1>8. IsFirst(S, day + 1, NextEntryOccurrence(day, e))
  BY <1>6, <1>7
<1>9. IsFirst(S, day, FirstEntryOccurrence(day, e))
  BY <1>6, <1>7
<1>. QED BY <1>8, <1>9 DEF IsFirst

\* So the earliest of the list is the next.
LEMMA ListKind ==
  ASSUME NEW rule \in Rule, NEW origin \in Int, NEW day \in Int,
         rule.frequency.kind = "ordinalWeekdayList",
         \A e \in rule.frequency.entries : e.ordinal # 5
  PROVE  /\ IsFirst(NamedDays(rule, origin), day + 1, StepOnce(day, rule))
         /\ IsFirst(NamedDays(rule, origin), day, FirstOnOrAfterOrigin(day, rule))
<1>. DEFINE E == rule.frequency.entries
            Is(d, e) == /\ WeekdayOf(d) = e.day /\ IsNthWeekday(d, e.ordinal)
                        /\ e.month = YmdOf(d).month
            S == [e \in E |-> {d \in Int : Is(d, e)}]
            x == [e \in E |-> NextEntryOccurrence(day, e)]
            z == [e \in E |-> FirstEntryOccurrence(day, e)]
<1>1. E \in SUBSET Entries /\ E # {}
  <2>1. rule.frequency \in Frequencies
    BY DEF Rule
  <2>. QED BY <2>1 DEF Frequencies
<1>2. NamedDays(rule, origin) = UNION {S[e] : e \in E}
  <2>1. \A d \in Int : Named(rule, origin, d) <=> \E e \in E : Is(d, e)
    BY DEF Named
  <2>2. \A d : d \in UNION {S[e] : e \in E} <=> d \in Int /\ \E e \in E : Is(d, e)
    <3>. HIDE DEF E, Is
    <3>. QED OBVIOUS
  <2>. HIDE DEF S, Is, E
  <2>. QED BY <2>1, <2>2 DEF NamedDays
<1>3. ASSUME NEW e \in E
      PROVE  /\ S[e] \in SUBSET Int
             /\ x[e] \in Int /\ z[e] \in Int
             /\ IsFirst(S[e], day + 1, x[e]) /\ IsFirst(S[e], day, z[e])
  <2>1. e \in Entries /\ e.ordinal # 5
    BY <1>1
  <2>2. S[e] = {d \in Int : Is(d, e)}
    OBVIOUS
  <2>3. x[e] = NextEntryOccurrence(day, e) /\ z[e] = FirstEntryOccurrence(day, e)
    OBVIOUS
  <2>. HIDE DEF S, x, z
  <2>. QED BY <2>1, <2>2, <2>3, EntryIsNext
<1>4. {x[e] : e \in E} = {NextEntryOccurrence(day, e) : e \in E}
  OBVIOUS
<1>5. {z[e] : e \in E} = {FirstEntryOccurrence(day, e) : e \in E}
  OBVIOUS
<1>6. StepOnce(day, rule) = Min({x[e] : e \in E})
  BY <1>4 DEF StepOnce
<1>7. FirstOnOrAfterOrigin(day, rule) = Min({z[e] : e \in E})
  BY <1>5 DEF FirstOnOrAfterOrigin
<1>8. /\ S = [e \in E |-> S[e]] /\ x = [e \in E |-> x[e]] /\ z = [e \in E |-> z[e]]
  OBVIOUS
<1>. HIDE DEF S, x, z, E
<1>9. S \in [E -> SUBSET Int] /\ x \in [E -> Int] /\ z \in [E -> Int] /\ day + 1 \in Int
  BY <1>3, <1>8
<1>10. IsFirst(UNION {S[e] : e \in E}, day + 1, Min({x[e] : e \in E}))
  BY <1>1, <1>3, <1>9, FirstOfAll
<1>11. IsFirst(UNION {S[e] : e \in E}, day, Min({z[e] : e \in E}))
  BY <1>1, <1>3, <1>9, FirstOfAll
<1>. QED BY <1>2, <1>6, <1>7, <1>10, <1>11

\* The engine passes over no day: from a day the rule names, or from the
\* origin, one period on is the next day that it names.
THEOREM StepIsNext ==
  ASSUME NEW rule \in Rule, NEW origin \in Int, NEW given \in BOOLEAN,
         Steady(rule, origin, given), NEW day \in Int, origin <= day,
         Named(rule, origin, day) \/ (~given /\ day = origin)
  PROVE  IsFirst(NamedDays(rule, origin), day + 1, StepOnce(day, rule))
<1>. DEFINE f == rule.frequency
<1>1. f.kind \in {"daily", "workdays", "weekly", "monthly", "yearly", "weekdays",
                  "ordinalWeekday", "ordinalWeekdayList", "monthlyDay", "yearlyMonthDay"}
  <2>1. f \in Frequencies
    BY DEF Rule
  <2>. QED BY <2>1 DEF Frequencies
<1>2. CASE f.kind \in {"daily", "weekly", "weekdays"}
  BY <1>2, DayKinds
<1>3. CASE f.kind = "workdays"
  BY <1>3, WorkdayKind
<1>4. CASE f.kind \in {"monthly", "yearly"}
  BY <1>4, DateKinds DEF Steady
<1>5. CASE f.kind \in {"ordinalWeekday", "monthlyDay", "yearlyMonthDay"}
  <2>1. Named(rule, origin, day) /\ (f.kind = "ordinalWeekday" => f.ordinal # 5)
    BY <1>5 DEF Steady
  <2>. QED BY <1>5, <2>1, MonthKinds
<1>6. CASE f.kind = "ordinalWeekdayList"
  <2>1. \A e \in f.entries : e.ordinal # 5
    BY <1>6 DEF Steady
  <2>. QED BY <1>6, <2>1, ListKind
<1>. QED BY <1>1, <1>2, <1>3, <1>4, <1>5, <1>6

\* A rule just given starts with the first day it names, the origin included.
LEMMA FirstIsFirst ==
  ASSUME NEW rule \in Rule, NEW origin \in Int, Steady(rule, origin, TRUE)
  PROVE  IsFirst(NamedDays(rule, origin), origin, FirstOnOrAfterOrigin(origin, rule))
<1>. DEFINE f == rule.frequency
<1>1. f.kind \in {"daily", "workdays", "weekly", "monthly", "yearly", "weekdays",
                  "ordinalWeekday", "ordinalWeekdayList", "monthlyDay", "yearlyMonthDay"}
  <2>1. f \in Frequencies
    BY DEF Rule
  <2>. QED BY <2>1 DEF Frequencies
<1>2. CASE f.kind \in {"daily", "weekly", "weekdays"}
  BY <1>2, DayKinds
<1>3. CASE f.kind = "workdays"
  <2>1. rule.interval = 1 /\ origin <= origin BY <1>3 DEF Steady
  <2>. QED BY <1>3, <2>1, WorkdayKind
<1>4. CASE f.kind \in {"monthly", "yearly"}
  BY <1>4, DateKinds DEF Steady
<1>5. CASE f.kind \in {"ordinalWeekday", "monthlyDay", "yearlyMonthDay"}
  <2>1. f.kind = "ordinalWeekday" => f.ordinal # 5
    BY <1>5 DEF Steady
  <2>. QED BY <1>5, <2>1, MonthKinds
<1>6. CASE f.kind = "ordinalWeekdayList"
  <2>1. \A e \in f.entries : e.ordinal # 5
    BY <1>6 DEF Steady
  <2>. QED BY <1>6, <2>1, ListKind
<1>. QED BY <1>1, <1>2, <1>3, <1>4, <1>5, <1>6

\* From any day of S, next is the next of S.
GoesThrough(S, low, next) == \A d \in S : low <= d => IsFirst(S, d + 1, next[d])

\* From any day of S, g is the first of S that stop has.
ComesTo(S, stop, low, g) ==
  \A d \in S : low <= d => g[d] \in S /\ \A e \in S : e \in stop /\ d <= e => g[d] <= e

\* A search that passes over no day of S comes to the first that stop has.
LEMMA SearchIsNearest ==
  ASSUME NEW stop \in SUBSET Int, NEW next \in [Int -> Int], EndsIn(stop),
         NEW g, Searches(g, stop, next),
         NEW S \in SUBSET Int, NEW low \in Int, GoesThrough(S, low, next)
  PROVE  ComesTo(S, stop, low, g)
<1>. DEFINE Good(d) == g[d] \in S /\ \A e \in S : e \in stop /\ d <= e => g[d] <= e
<1>. PICK limit \in Int : \A d \in Int : limit <= d => d \in stop
  BY DEF EndsIn
<1>. DEFINE T == {n \in Nat : \A d \in S : low <= d /\ limit - d <= n => Good(d)}
<1>1. \A d \in Int : g[d] = IF d \in stop THEN d ELSE g[next[d]]
  BY DEF Searches
<1>2. ASSUME NEW d \in S, d \in stop PROVE Good(d)
  BY <1>1, <1>2
<1>3. ASSUME NEW d \in S, low <= d, d \notin stop, Good(next[d]) PROVE Good(d)
  <2>1. d \in Int /\ g[d] = g[next[d]]
    BY <1>1, <1>3
  <2>2. ASSUME NEW e \in S, e \in stop, d <= e PROVE g[d] <= e
    <3>1. d + 1 <= e BY <1>3, <2>1, <2>2
    <3>2. next[d] <= e BY <1>3, <3>1 DEF GoesThrough, IsFirst
    <3>. QED BY <1>3, <2>1, <2>2, <3>2
  <2>. QED BY <1>3, <2>1, <2>2
<1>. HIDE DEF Good
<1>4. 0 \in T
  <2>1. ASSUME NEW d \in S, limit - d <= 0 PROVE Good(d)
    <3>1. d \in stop BY <2>1
    <3>. QED BY <1>2, <3>1
  <2>. QED BY <2>1
<1>5. ASSUME NEW n \in Nat, n \in T PROVE n + 1 \in T
  <2>1. ASSUME NEW d \in S, low <= d, limit - d <= n + 1 PROVE Good(d)
    <3>1. CASE d \in stop BY <1>2, <3>1
    <3>2. CASE d \notin stop
      <4>1. next[d] \in S /\ d + 1 <= next[d] /\ next[d] \in Int /\ d \in Int
        BY <2>1 DEF GoesThrough, IsFirst
      <4>2. low <= next[d] /\ limit - next[d] <= n
        BY <2>1, <4>1
      <4>3. Good(next[d]) BY <1>5, <4>1, <4>2
      <4>. QED BY <1>3, <2>1, <3>2, <4>3
    <3>. QED BY <3>1, <3>2
  <2>. QED BY <2>1
<1>6. Nat \subseteq T
  <2>. HIDE DEF T
  <2>. QED BY <1>4, <1>5, Induction
<1>7. ASSUME NEW d \in S, low <= d PROVE Good(d)
  <2>1. CASE limit <= d BY <1>2, <2>1
  <2>2. CASE ~(limit <= d)
    <3>1. limit - d \in Nat /\ limit - d <= limit - d BY <2>2
    <3>2. limit - d \in T BY <1>6, <3>1
    <3>. QED BY <1>7, <3>1, <3>2
  <2>. QED BY <2>1, <2>2
<1>. QED BY <1>7 DEF ComesTo, Good

\* What a completion dates a Task with, and a new rule: the nearest day there
\* is, and none only when none is left.
THEOREM OccurrenceIsNearest ==
  ASSUME NEW rule \in Rule, NEW due \in Int \cup {NoDate}, NEW now \in Int,
         NEW given \in BOOLEAN, NEW completed \in BOOLEAN, completed = ~given,
         Steady(rule, Origin(rule, due, now), given)
  PROVE  Nearest(Occurrence(rule, due, now, completed), rule, due, now, given)
<1>. DEFINE origin == Origin(rule, due, now)
            start == StartBound(rule, origin)
            end == EndBound(rule, origin)
            stop == Stops(rule, origin, now, completed)
            next == Onwards(rule)
            first == Candidate(rule, origin, completed)
            found == Occurrence(rule, due, now, completed)
            S == NamedDays(rule, origin)
            low == IF given THEN origin ELSE origin + 1
            Fits(day) == /\ Named(rule, origin, day)
                         /\ IF given THEN day >= now ELSE day > now
                         /\ start = NoDate \/ day >= start
                         /\ end = NoDate \/ day <= end
<1>1. /\ origin \in Int /\ end \in Int \cup {NoDate}
      /\ stop \in SUBSET Int /\ next \in [Int -> Int]
      /\ first \in Int /\ origin <= first
      /\ EndsIn(stop)
      /\ \E g : /\ Searches(g, stop, next)
                /\ g[first] \in stop /\ first <= g[first]
                /\ found = IF end # NoDate /\ g[first] > end THEN NoDate ELSE g[first]
  <2>. HIDE DEF origin, end, stop, next, first, found
  <2>1. /\ origin = Origin(rule, due, now) /\ stop = Stops(rule, origin, now, completed)
        /\ next = Onwards(rule) /\ first = Candidate(rule, origin, completed)
        /\ end = EndBound(rule, origin) /\ found = Occurrence(rule, due, now, completed)
    BY DEF origin, end, stop, next, first, found
  <2>2. rule \in Rule /\ due \in Int \cup {NoDate} /\ now \in Int /\ completed \in BOOLEAN
    OBVIOUS
  <2>. QED BY ONLY <2>1, <2>2, OccurrenceSearches
<1>2. PICK g : /\ Searches(g, stop, next)
               /\ g[first] \in stop /\ first <= g[first]
               /\ found = IF end # NoDate /\ g[first] > end THEN NoDate ELSE g[first]
  BY <1>1
<1>3. Nearest(found, rule, due, now, given) <=>
        IF found = NoDate THEN \A day \in low .. end : ~Fits(day)
                          ELSE Fits(found) /\ \A day \in low .. found - 1 : ~Fits(day)
  <2>. HIDE DEF found
  <2>. QED BY DEF Nearest
<1>4. \A day \in Int : Fits(day) <=> day \in S /\ day \in stop /\ (end = NoDate \/ day <= end)
  <2>1. \A day \in Int : day \in S <=> Named(rule, origin, day)
    BY DEF NamedDays
  <2>2. \A day \in Int : day \in stop <=> /\ IF given THEN day >= now ELSE day > now
                                          /\ start = NoDate \/ day >= start
    <3>. HIDE DEF origin
    <3>. QED BY DEF Stops, Clears
  <2>. HIDE DEF S, stop, start, end, origin
  <2>. QED BY <2>1, <2>2
<1>5. Steady(rule, origin, given) /\ (given => Steady(rule, origin, TRUE))
  BY Zenon
<1>6. S \in SUBSET Int /\ low \in Int /\ origin <= low
  BY <1>1 DEF NamedDays
<1>. HIDE DEF origin
<1>7. IsFirst(S, low, first)
  <2>1. CASE given
    BY <1>1, <1>5, <2>1, FirstIsFirst DEF Candidate
  <2>2. CASE ~given
    <3>1. IsFirst(S, origin + 1, StepOnce(origin, rule))
      BY <1>1, <1>5, <2>2, StepIsNext
    <3>. QED BY <2>2, <3>1 DEF Candidate
  <2>. QED BY <2>1, <2>2
<1>8. GoesThrough(S, origin, next)
  <2>. SUFFICES ASSUME NEW d \in S, origin <= d PROVE IsFirst(S, d + 1, next[d])
    BY DEF GoesThrough
  <2>1. d \in Int /\ Named(rule, origin, d)
    BY DEF NamedDays
  <2>2. next[d] = StepOnce(d, rule)
    BY <2>1 DEF Onwards
  <2>. QED BY <1>1, <1>5, <2>1, <2>2, StepIsNext
<1>. HIDE DEF S, stop, next, first, start, end, found, low, Fits
<1>9. g[first] \in S /\ \A e \in S : e \in stop /\ first <= e => g[first] <= e
  <2>1. first \in S /\ origin <= first
    BY <1>1, <1>7 DEF IsFirst
  <2>2. ComesTo(S, stop, origin, g)
    BY <1>1, <1>2, <1>6, <1>8, SearchIsNearest
  <2>. QED BY <2>1, <2>2 DEF ComesTo
<1>10. \A day \in Int : Fits(day) /\ low <= day => g[first] <= day
  <2>. SUFFICES ASSUME NEW day \in Int, Fits(day), low <= day PROVE g[first] <= day
    OBVIOUS
  <2>1. day \in S /\ day \in stop BY <1>4
  <2>2. first <= day BY <1>7, <2>1 DEF IsFirst
  <2>. QED BY <1>9, <2>1, <2>2
<1>11. g[first] \in Int /\ found \in Int \cup {NoDate} /\ NoDate \notin Int
  BY <1>1, <1>2, NoDateAssumption
<1>12. CASE found = NoDate
  <2>1. end # NoDate /\ g[first] > end BY <1>2, <1>11, <1>12
  <2>2. end \in Int BY <1>1, <2>1
  <2>3. \A day \in low .. end : ~Fits(day)
    BY <1>6, <1>10, <1>11, <2>1, <2>2
  <2>. QED BY <1>3, <1>12, <2>3 DEF found
<1>13. CASE found # NoDate
  <2>1. found = g[first] /\ found \in Int /\ (end = NoDate \/ found <= end)
    BY <1>1, <1>2, <1>11, <1>13
  <2>2. Fits(found)
    BY <1>2, <1>4, <1>9, <2>1
  <2>3. \A day \in low .. found - 1 : ~Fits(day)
    BY <1>6, <1>10, <2>1
  <2>. QED BY <1>3, <1>13, <2>2, <2>3 DEF found
<1>. QED BY <1>12, <1>13 DEF found

-----------------------------------------------------------------------------
(* Sequences of steps                                                      *)

\* The rows of a query, in the order they come.
LEMMA OrderIsSeq ==
  ASSUME NEW S \in SUBSET Tasks, NEW order \in SetToSeqs(S)
  PROVE  /\ order \in Seq(S) /\ order \in Seq(Tasks)
         /\ DOMAIN order = 1 .. Len(order)
         /\ \A k \in DOMAIN order : order[k] \in S
<1>1. IsFiniteSet(S)
  BY FS_Subset, TaskStoreAssumption
<1>2. Cardinality(S) \in Nat
  BY <1>1, FS_CardinalityType
<1>3. order \in [1 .. Cardinality(S) -> S]
  BY DEF SetToSeqs
<1>4. order \in Seq(S)
  BY <1>2, <1>3, SeqDef
<1>. QED BY <1>4

\* A step for each of them.
LEMMA DoesIsSeq ==
  ASSUME NEW order \in Seq(Tasks), NEW do \in {"complete", "remove"}
  PROVE  /\ Does(do, order) \in Seq(Step)
         /\ DOMAIN Does(do, order) = DOMAIN order
         /\ \A k \in DOMAIN order : Does(do, order)[k] = [do |-> do, id |-> order[k]]
<1>1. \A k \in DOMAIN order : [do |-> do, id |-> order[k]] \in Step
  BY DEF Step
<1>2. DOMAIN order = 1 .. Len(order) /\ Len(order) \in Nat
  OBVIOUS
<1>3. Does(do, order) = [k \in 1 .. Len(order) |-> [do |-> do, id |-> order[k]]]
  BY <1>2 DEF Does
<1>4. Does(do, order) \in [1 .. Len(order) -> Step]
  BY <1>1, <1>2, <1>3
<1>5. Does(do, order) \in Seq(Step)
  BY <1>2, <1>4, SeqDef
<1>. QED BY <1>2, <1>3, <1>5

\* Replacing the first step: what is new comes first, the rest is as it was.
LEMMA Replaced ==
  ASSUME NEW old \in Seq(Step), old # <<>>, NEW new \in Seq(Step)
  PROVE  /\ new \o Tail(old) \in Seq(Step)
         /\ \A k \in DOMAIN (new \o Tail(old)) :
              \/ k \in DOMAIN new /\ (new \o Tail(old))[k] = new[k]
              \/ \E j \in DOMAIN old : j > 1 /\ (new \o Tail(old))[k] = old[j]
<1>. DEFINE rest == Tail(old)  all == new \o rest
<1>1. rest \in Seq(Step) /\ Len(rest) = Len(old) - 1 /\ Len(old) \in Nat
      /\ \A i \in 1 .. Len(rest) : rest[i] = old[i + 1]
  BY HeadTailProperties
<1>. HIDE DEF rest
<1>2. /\ all \in Seq(Step) /\ Len(all) = Len(new) + Len(rest)
      /\ \A i \in 1 .. Len(new) + Len(rest) :
           all[i] = IF i <= Len(new) THEN new[i] ELSE rest[i - Len(new)]
  BY <1>1, ConcatProperties
<1>3. Len(new) \in Nat /\ Len(rest) \in Nat /\ DOMAIN new = 1 .. Len(new)
      /\ DOMAIN old = 1 .. Len(old) /\ DOMAIN all = 1 .. Len(all)
  BY <1>1, <1>2
<1>. HIDE DEF all
<1>4. ASSUME NEW k \in DOMAIN all
      PROVE  \/ k \in DOMAIN new /\ all[k] = new[k]
             \/ \E j \in DOMAIN old : j > 1 /\ all[k] = old[j]
  <2>1. k \in 1 .. Len(new) + Len(rest) BY <1>2, <1>3
  <2>2. CASE k <= Len(new)
    <3>1. all[k] = new[k] BY <1>2, <2>1, <2>2
    <3>2. k \in DOMAIN new BY <1>3, <2>1, <2>2
    <3>. QED BY <3>1, <3>2
  <2>3. CASE ~(k <= Len(new))
    <3>. DEFINE i == k - Len(new)
    <3>1. i \in 1 .. Len(rest) BY <1>3, <2>1, <2>3
    <3>2. all[k] = rest[i] BY <1>2, <2>1, <2>3
    <3>3. rest[i] = old[i + 1] BY <1>1, <3>1
    <3>4. i + 1 \in DOMAIN old /\ i + 1 > 1 BY <1>1, <1>3, <3>1
    <3>. QED BY <3>2, <3>3, <3>4
  <2>. QED BY <2>2, <2>3
<1>. QED BY <1>2, <1>4 DEF all, rest

\* The step a call takes next.
LEMMA HeadStep ==
  ASSUME TypeOK, NEW c \in Callers, Busy(c)
  PROVE  /\ call[c] \in Call
         /\ call[c].steps \in Seq(Step) /\ call[c].steps # <<>>
         /\ Head(call[c].steps) \in Step
         /\ 1 \in DOMAIN call[c].steps
         /\ Head(call[c].steps) = call[c].steps[1]
<1>1. call[c] \in Call /\ call[c].steps \in Seq(Step) /\ call[c].steps # <<>>
  BY DEF TypeOK, Call, Busy
<1>. DEFINE s == call[c].steps
<1>. HIDE DEF s
<1>2. s \in Seq(Step) /\ s # <<>> BY <1>1 DEF s
<1>3. Len(s) \in Nat /\ Len(s) # 0 /\ DOMAIN s = 1 .. Len(s)
  BY <1>2, EmptySeq, LenProperties
<1>4. 1 \in DOMAIN s /\ Head(s) = s[1] /\ Head(s) \in Step
  BY <1>2, <1>3
<1>. QED BY <1>1, <1>4 DEF s

\* What a step carries, by what it does.
LEMMA StepFields ==
  ASSUME NEW step \in Step
  PROVE  /\ step.do \notin {"open", "members", "finish"} => step.id \in Tasks
         /\ step.do = "stamp" => step.forever \in BOOLEAN
         /\ step.do = "reparent" => step.to \in Tasks \cup {NoTask}
         /\ step.do = "walk" =>
              /\ step = [do |-> "walk", id |-> step.id, to |-> step.to, next |-> step.next,
                         seen |-> step.seen, depth |-> step.depth]
              /\ step.to \in Tasks /\ step.next \in Tasks
              /\ step.seen \in SUBSET Tasks /\ step.depth \in Nat
         /\ step.do = "link" => step.to \in Tasks \cup {NoTask} /\ step.seen \in SUBSET Tasks
         /\ step.do = "recur" => step.rule \in Rule
         /\ step.do = "date" => step.date \in Int /\ step.rule \in Rule \cup {NoRule}
         /\ step.do \in {"open", "members", "finish"} =>
              /\ step = [do |-> step.do, section |-> step.section, fate |-> step.fate]
              /\ step.section \in Sections /\ step.fate \in Fates
         /\ step.do = "descend" =>
              /\ step = [do |-> "descend", id |-> step.id, frontier |-> step.frontier,
                         found |-> step.found, fate |-> step.fate]
              /\ step.frontier \in SUBSET Tasks /\ step.found \in Seq(Tasks)
              /\ step.fate \in Fates
  BY SMTT(60) DEF Step

-----------------------------------------------------------------------------
(* What a step leaves to do                                                *)

\* What a step of a call carries can be relied on when it runs.
Fit(step, done) == Knows(step) /\ Apart(step, done) /\ (raced \/ Sound(step))

\* Steps a call may go on with: each is fit, and none but the first is in the middle
\* of setParent.
Harmless(new, done) ==
  /\ new \in Seq(Step)
  /\ \A k \in DOMAIN new :
       Fit(new[k], done) /\ (k > 1 => new[k].do \notin {"walk", "link"})

\* A call that ends, or goes on with steps that are harmless.
Goes(c) == Throw(c) \/ \E new : Harmless(new, kept[c]) /\ Then(c, new)

\* A call may end.
LEMMA NothingIsHarmless ==
  ASSUME NEW done PROVE Harmless(<<>>, done)
  BY DEF Harmless

\* A call may go on with one fit step.
LEMMA OneIsHarmless ==
  ASSUME NEW done, NEW step \in Step, Fit(step, done)
  PROVE  Harmless(<<step>>, done)
  BY DEF Harmless

\* Lists of a step or two.
LEMMA TwoAreHarmless ==
  ASSUME NEW done, NEW first \in Step, NEW second \in Step,
         Fit(first, done), Fit(second, done),
         second.do \notin {"walk", "link"}
  PROVE  Harmless(<<first, second>>, done)
<1>. DEFINE new == <<first, second>>
<1>1. new \in Seq(Step) /\ DOMAIN new = {1, 2} /\ new[1] = first /\ new[2] = second
  OBVIOUS
<1>. HIDE DEF new
<1>2. Harmless(new, done)
  BY <1>1 DEF Harmless
<1>. QED BY <1>2 DEF new

\* The Tasks of an order to complete must not be done, those to remove be held.
LEMMA DoesIsHarmless ==
  ASSUME NEW done, NEW order \in Seq(Tasks), NEW do \in {"complete", "remove"},
         do = "complete" => \A k \in DOMAIN order : order[k] \notin done,
         do = "remove" => \A k \in DOMAIN order : order[k] \in Held
  PROVE  Harmless(Does(do, order), done)
<1>. DEFINE new == Does(do, order)
<1>1. /\ new \in Seq(Step) /\ DOMAIN new = DOMAIN order
      /\ \A k \in DOMAIN order : new[k] = [do |-> do, id |-> order[k]]
  BY DoesIsSeq
<1>. HIDE DEF new
<1>2. ASSUME NEW k \in DOMAIN new
      PROVE  Fit(new[k], done) /\ new[k].do \notin {"walk", "link"}
  <2>1. new[k].do = do /\ new[k].id = order[k] BY <1>1
  <2>. QED BY <1>1, <2>1 DEF Fit, Sound, Knows, Apart
<1>3. Harmless(new, done)
  BY <1>1, <1>2 DEF Harmless
<1>. QED BY <1>3 DEF new

\* What a query reads is a row, and live is held.
LEMMA InStore ==
  ASSUME TypeOK
  PROVE  /\ Live \subseteq Held /\ ActiveTasks \subseteq Live /\ Held \subseteq Tasks
         /\ \A t \in Held : task[t] \in Row
         /\ \A t \in Live : task[t].deleted = FALSE
         /\ \A t \in ActiveTasks : task[t].done = 0
         /\ \A t \in Tasks \ Held : task[t] = NoRow
  BY DEF Held, Live, ActiveTasks, TypeOK, Row

\* complete, and completeForever: the update and then the children, or nothing.
LEMMA CompleteGoes ==
  ASSUME TasksInv, NEW c \in Callers, Complete(c)
  PROVE  Goes(c)
<1>. DEFINE step == Head(call[c].steps)
            first == [do |-> "stamp", id |-> step.id, forever |-> step.do = "completeForever"]
            second == [do |-> "children", id |-> step.id]
<1>1. TypeOK /\ Busy(c) /\ step.do \in {"complete", "completeForever"}
  BY DEF TasksInv, Complete, At
<1>2. step \in Step /\ 1 \in DOMAIN call[c].steps /\ step = call[c].steps[1]
  BY <1>1, HeadStep
<1>3. step.id \in Tasks /\ step.id \notin kept[c]
  BY <1>1, <1>2, StepFields DEF TasksInv, KeptIsApart, Apart
<1>4. first \in Step /\ second \in Step
  BY <1>3 DEF Step
<1>5. Fit(first, kept[c]) /\ Fit(second, kept[c])
  BY <1>3 DEF Fit, Sound, Knows, Apart
<1>6. Harmless(<<first, second>>, kept[c]) /\ Harmless(<<>>, kept[c])
  BY <1>4, <1>5, TwoAreHarmless, NothingIsHarmless
<1>7. Then(c, <<first, second>>) \/ Then(c, <<>>)
  BY DEF Complete
<1>. QED BY <1>6, <1>7 DEF Goes

\* completeChildren: the children it lists are active, so none is to be spared.
LEMMA ChildrenGoes ==
  ASSUME TasksInv, NEW c \in Callers, Children(c)
  PROVE  Goes(c)
<1>1. TypeOK /\ KeptIsApart
  BY DEF TasksInv
<1>. DEFINE S == ListChildren(Head(call[c].steps).id)
<1>2. S \subseteq ActiveTasks /\ S \in SUBSET Tasks
  BY <1>1, InStore DEF ListChildren
<1>3. PICK order \in SetToSeqs(S) : Then(c, Does("complete", order))
  BY DEF Children
<1>. HIDE DEF S
<1>4. order \in Seq(Tasks) /\ \A k \in DOMAIN order : order[k] \in S
  BY <1>2, <1>3, OrderIsSeq
<1>5. \A k \in DOMAIN order : order[k] \notin kept[c]
  BY <1>1, <1>2, <1>4, InStore DEF KeptIsApart
<1>6. Harmless(Does("complete", order), kept[c])
  BY <1>4, <1>5, DoesIsHarmless
<1>. QED BY <1>3, <1>6 DEF Goes

\* setParent: a walk that starts is about to look at the new parent.
LEMMA ReparentGoes ==
  ASSUME TasksInv, NEW c \in Callers, Reparent(c)
  PROVE  Goes(c)
<1>. DEFINE step == Head(call[c].steps)
            link == [do |-> "link", id |-> step.id, to |-> NoTask, seen |-> {}]
            walk == [do |-> "walk", id |-> step.id, to |-> step.to,
                     next |-> step.to, seen |-> {}, depth |-> 0]
<1>1. TypeOK /\ Busy(c) /\ step.do = "reparent"
  BY DEF TasksInv, Reparent, At
<1>2. step \in Step /\ step.id \in Tasks /\ step.to \in Tasks \cup {NoTask}
  BY <1>1, HeadStep, StepFields
<1>3. Throw(c) \/ Then(c, <<link>>)
      \/ (step.to # NoTask /\ step.to # step.id /\ Then(c, <<walk>>))
  BY DEF Reparent
<1>4. Harmless(<<link>>, kept[c])
  <2>1. link \in Step BY <1>2 DEF Step
  <2>2. Fit(link, kept[c]) BY DEF Fit, Sound, Knows, Apart
  <2>. QED BY <2>1, <2>2, OneIsHarmless
<1>5. step.to # NoTask /\ step.to # step.id => Harmless(<<walk>>, kept[c])
  <2>. SUFFICES ASSUME step.to # NoTask, step.to # step.id PROVE Harmless(<<walk>>, kept[c])
    OBVIOUS
  <2>1. walk \in Step BY <1>2 DEF Step
  <2>2. Fit(walk, kept[c]) BY DEF Fit, Sound, Knows, Apart
  <2>. QED BY <2>1, <2>2, OneIsHarmless
<1>. QED BY <1>3, <1>4, <1>5 DEF Goes

\* The statements that end their step.
LEMMA StampGoes ==
  ASSUME NEW c \in Callers, Stamp(c) \/ Link(c) \/ Date(c) \/ RemoveStep(c) \/ Finish(c)
  PROVE  Then(c, <<>>) /\ Goes(c)
<1>1. Then(c, <<>>)
  BY DEF Stamp, Link, Date, RemoveStep, Finish
<1>. QED BY <1>1, NothingIsHarmless DEF Goes

\* A walk's step, one Task further up.
Onward(step, above, more, n) ==
  [step EXCEPT !.next = above, !.seen = more, !.depth = n]

\* The step that a walk goes on with is one.
LEMMA WalkOn ==
  ASSUME NEW step \in Step, step.do = "walk",
         NEW above \in Tasks, NEW more \in SUBSET Tasks, NEW n \in Nat,
         NEW up, up = Onward(step, above, more, n)
  PROVE  /\ up \in Step
         /\ up.do = "walk" /\ up.id = step.id /\ up.to = step.to
         /\ up.next = above /\ up.seen = more
<1>. DEFINE Walks == [do : {"walk"}, id : Tasks, to : Tasks, next : Tasks,
                      seen : SUBSET Tasks, depth : Nat]
<1>1. step \in Walks
  BY StepFields
<1>2. /\ up \in Walks /\ up.do = "walk" /\ up.id = step.id /\ up.to = step.to
      /\ up.next = above /\ up.seen = more
  BY <1>1 DEF Onward
<1>3. Walks \subseteq Step
  BY DEF Step
<1>. QED BY <1>2, <1>3

\* The walk has seen one Task more, or knows enough to link.
LEMMA WalkGoes ==
  ASSUME TasksInv, NEW c \in Callers, Walk(c)
  PROVE  Goes(c)
<1>. DEFINE step == Head(call[c].steps)
            seen == step.seen \cup {step.next}
            above == task[step.next].parent
            On(s) == [do |-> "link", id |-> step.id, to |-> step.to, seen |-> s]
            up == [step EXCEPT !.next = above, !.seen = seen, !.depth = @ + 1]
<1>1. TypeOK /\ Busy(c) /\ step.do = "walk" /\ StepsKnow /\ (raced \/ Sound(step))
  BY DEF TasksInv, Walk, At, WalksAreSound
<1>2. step \in Step /\ 1 \in DOMAIN call[c].steps /\ step = call[c].steps[1]
  BY <1>1, HeadStep
<1>3. /\ step.id \in Tasks /\ step.to \in Tasks /\ step.next \in Tasks
      /\ step.seen \in SUBSET Tasks /\ step.depth \in Nat
      /\ step = [do |-> "walk", id |-> step.id, to |-> step.to, next |-> step.next,
                 seen |-> step.seen, depth |-> step.depth]
  BY <1>1, <1>2, StepFields
<1>4. /\ step.seen \subseteq Held
      /\ IF step.seen = {} THEN step.next = step.to ELSE step.to \in step.seen
  BY <1>1, <1>2 DEF StepsKnow, Knows
<1>9. raced \/ /\ step.id \notin seen
               /\ \A t \in step.seen \cap Live : task[t].parent \in seen \cup {NoTask}
  BY <1>1 DEF Sound
<1>5. ASSUME NEW s \in SUBSET Held, step.to \in s,
             raced \/ /\ step.id \notin s
                      /\ \A t \in s \cap Live : task[t].parent \in Live => task[t].parent \in s
      PROVE  Harmless(<<On(s)>>, kept[c])
  <2>1. On(s) \in Step BY <1>1, <1>3, <1>5, InStore DEF Step
  <2>2. Fit(On(s), kept[c]) BY <1>5 DEF Fit, Sound, Knows, Apart
  <2>. QED BY <2>1, <2>2, OneIsHarmless
<1>6. ASSUME NEW s \in SUBSET Held, step.to \in s, NEW n, Linking(c, step, s, n),
             raced \/ /\ step.id \notin s
                      /\ \A t \in s \cap Live : task[t].parent \in Live => task[t].parent \in s
      PROVE  Goes(c)
  BY <1>5, <1>6 DEF Linking, Goes
<1>7. CASE step.next \notin Live
  <2>1. Throw(c) \/ (step.seen # {} /\ Linking(c, step, step.seen, step.depth))
    BY <1>7 DEF Walk
  <2>2. raced \/ \A t \in step.seen \cap Live :
                   task[t].parent \in Live => task[t].parent \in step.seen
    BY <1>7, <1>9, TaskStoreAssumption DEF Live
  <2>. QED BY <2>1, <2>2, <1>4, <1>6, <1>9 DEF Goes
<1>8. CASE step.next \in Live
  <2>1. seen \in SUBSET Held /\ step.to \in seen
    BY <1>1, <1>4, <1>8, InStore
  <2>2. above \in Tasks \cup {NoTask}
    BY <1>1, <1>8, InStore DEF Row
  <2>3. (above = NoTask /\ Linking(c, step, seen, step.depth + 1)) \/ Throw(c)
        \/ (above # NoTask /\ above # step.id /\ Then(c, <<up>>))
    BY <1>8 DEF Walk
  <2>4. above # NoTask /\ above # step.id => Harmless(<<up>>, kept[c])
    <3>. SUFFICES ASSUME above # NoTask, above # step.id PROVE Harmless(<<up>>, kept[c])
      OBVIOUS
    <3>1. above \in Tasks /\ seen \in SUBSET Tasks /\ step.depth + 1 \in Nat
      BY <1>1, <1>3, <2>1, <2>2, InStore
    <3>6. raced \/ /\ step.id \notin seen
                   /\ \A t \in seen \cap Live : task[t].parent \in seen \cup {above, NoTask}
      BY <1>9
    <3>. HIDE DEF step, seen, above
    <3>. DEFINE n == step.depth + 1
    <3>2. n \in Nat /\ up = Onward(step, above, seen, n)
      BY <3>1 DEF Onward
    <3>. HIDE DEF n, up
    <3>5. /\ up \in Step /\ up.do = "walk" /\ up.id = step.id /\ up.to = step.to
          /\ up.next = above /\ up.seen = seen
      BY <1>1, <1>2, <3>1, <3>2, WalkOn
    <3>3. seen # {} BY <2>1
    <3>4. Fit(up, kept[c])
      BY <2>1, <3>5, <3>3, <3>6 DEF Fit, Sound, Knows, Apart
    <3>. QED BY <3>5, <3>4, OneIsHarmless
  <2>5. ASSUME Linking(c, step, seen, step.depth + 1), above = NoTask PROVE Goes(c)
    <3>1. raced \/ \A t \in seen \cap Live : task[t].parent \in Live => task[t].parent \in seen
      BY <1>9, <2>5, TaskStoreAssumption DEF Live
    <3>. QED BY <1>6, <1>9, <2>1, <2>5, <3>1
  <2>. QED BY <2>3, <2>4, <2>5 DEF Goes
<1>. QED BY <1>7, <1>8

\* The write of a date spares every completion.
LEMMA DateIsHarmless ==
  ASSUME NEW id \in Tasks, NEW date \in Int, NEW rule \in Rule \cup {NoRule}, NEW done
  PROVE  Harmless(<<[do |-> "date", id |-> id, date |-> date, rule |-> rule]>>, done)
<1>. DEFINE step == [do |-> "date", id |-> id, date |-> date, rule |-> rule]
<1>1. step \in Step BY DEF Step
<1>2. Fit(step, done) BY DEF Fit, Sound, Knows, Apart
<1>. QED BY <1>1, <1>2, OneIsHarmless

\* advanceRecurring: the search of the engine ends, with a day or with none.
LEMMA AdvanceGoes ==
  ASSUME TasksInv, NEW c \in Callers, Advance(c)
  PROVE  Goes(c)
<1>. DEFINE step == Head(call[c].steps)
            id == step.id
            row == task[id]
            next == NextOccurrenceAfterCompletion(row.rule, row.date, call[c].today)
            first == [do |-> "stamp", id |-> id, forever |-> TRUE]
            second == [do |-> "children", id |-> id]
<1>1. TypeOK /\ Busy(c) /\ step.do = "advance"
  BY DEF TasksInv, Advance, At
<1>2. step \in Step /\ 1 \in DOMAIN call[c].steps /\ step = call[c].steps[1]
      /\ call[c] \in Call
  BY <1>1, HeadStep
<1>3. step.id \in Tasks /\ step.id \notin kept[c]
  BY <1>1, <1>2, StepFields DEF TasksInv, KeptIsApart, Apart
<1>4. \/ Throw(c)
      \/ /\ id \in Live /\ row.rule # NoRule
         /\ \/ Then(c, <<first, second>>)
            \/ /\ next # NoDate
               /\ Then(c, <<[do |-> "date", id |-> id, date |-> next, rule |-> NoRule]>>)
  BY DEF Advance
<1>5. CASE Throw(c) BY <1>5 DEF Goes
<1>6. CASE id \in Live /\ row.rule # NoRule
  <2>1. row.rule \in Rule /\ row.date \in Int \cup {NoDate} /\ call[c].today \in Int
    BY <1>1, <1>2, <1>6, InStore DEF Row, Call
  <2>2. next = NoDate \/ next \in Int
    BY <2>1, OccurrenceClears DEF NextOccurrenceAfterCompletion
  <2>3. Harmless(<<first, second>>, kept[c])
    <3>1. first \in Step /\ second \in Step
      BY <1>3 DEF Step
    <3>2. Fit(first, kept[c]) /\ Fit(second, kept[c])
      BY <1>3 DEF Fit, Sound, Knows, Apart
    <3>. QED BY <3>1, <3>2, TwoAreHarmless
  <2>4. next # NoDate =>
          Harmless(<<[do |-> "date", id |-> id, date |-> next, rule |-> NoRule]>>, kept[c])
    BY <1>3, <2>2, DateIsHarmless
  <2>. QED BY <1>4, <2>3, <2>4 DEF Goes
<1>. QED BY <1>4, <1>5, <1>6

\* setDateString: the first day of a rule, if there is one.
LEMMA RecurGoes ==
  ASSUME TasksInv, NEW c \in Callers, Recur(c)
  PROVE  Goes(c)
<1>. DEFINE step == Head(call[c].steps)
            first == FirstOccurrence(step.rule, task[step.id].date, call[c].today)
<1>1. TypeOK /\ Busy(c) /\ step.do = "recur"
  BY DEF TasksInv, Recur, At
<1>2. step \in Step /\ call[c] \in Call
  BY <1>1, HeadStep
<1>3. step.id \in Tasks /\ step.rule \in Rule
  BY <1>1, <1>2, StepFields
<1>4. \/ Throw(c)
      \/ /\ step.id \in Live /\ first # NoDate
         /\ Then(c, <<[do |-> "date", id |-> step.id, date |-> first, rule |-> step.rule]>>)
  BY DEF Recur
<1>5. CASE Throw(c) BY <1>5 DEF Goes
<1>6. CASE step.id \in Live /\ first # NoDate
  <2>1. task[step.id].date \in Int \cup {NoDate} /\ call[c].today \in Int
    BY <1>1, <1>2, <1>6, InStore DEF Row, Call
  <2>2. first \in Int
    BY <1>3, <1>6, <2>1, OccurrenceClears DEF FirstOccurrence
  <2>3. Harmless(<<[do |-> "date", id |-> step.id, date |-> first, rule |-> step.rule]>>,
                 kept[c])
    BY <1>3, <2>2, DateIsHarmless
  <2>. QED BY <1>4, <2>3 DEF Goes
<1>. QED BY <1>4, <1>5, <1>6

\* postpone: tomorrow.
LEMMA PostponeGoes ==
  ASSUME TasksInv, NEW c \in Callers, Postpone(c)
  PROVE  Goes(c)
<1>. DEFINE step == Head(call[c].steps)
            date == [do |-> "date", id |-> step.id, date |-> call[c].today + 1,
                     rule |-> NoRule]
<1>1. TypeOK /\ Busy(c) /\ step.do = "postpone"
  BY DEF TasksInv, Postpone, At
<1>2. step \in Step /\ call[c] \in Call
  BY <1>1, HeadStep
<1>3. step.id \in Tasks /\ call[c].today + 1 \in Int
  BY <1>1, <1>2, StepFields DEF Call
<1>4. Then(c, <<>>) \/ Then(c, <<date>>)
  BY DEF Postpone
<1>5. Harmless(<<>>, kept[c]) /\ Harmless(<<date>>, kept[c])
  BY <1>3, DateIsHarmless, NothingIsHarmless
<1>. QED BY <1>4, <1>5 DEF Goes

\* deleteSection and archiveSection go on to the members.
LEMMA OpenGoes ==
  ASSUME TasksInv, NEW c \in Callers, Open(c)
  PROVE  Goes(c)
<1>. DEFINE step == Head(call[c].steps)
            next == [step EXCEPT !.do = "members"]
            next2 == [do |-> "members", section |-> step.section, fate |-> step.fate]
<1>1. TypeOK /\ Busy(c) /\ step.do = "open"
  BY DEF TasksInv, Open, At
<1>2. step \in Step
  BY <1>1, HeadStep
<1>3. /\ step = [do |-> "open", section |-> step.section, fate |-> step.fate]
      /\ step.section \in Sections /\ step.fate \in Fates
  BY <1>1, <1>2, StepFields
<1>4. Then(c, <<>>) \/ Then(c, <<next>>)
  BY DEF Open
<1>5. next = next2
  BY <1>3
<1>6. next2 \in Step
  BY <1>3 DEF Step
<1>7. Fit(next2, kept[c])
  BY DEF Fit, Sound, Knows, Apart
<1>8. Harmless(<<>>, kept[c]) /\ Harmless(<<next2>>, kept[c])
  BY <1>6, <1>7, OneIsHarmless, NothingIsHarmless
<1>. QED BY <1>4, <1>5, <1>8 DEF Goes

\* Several steps after each other, none of them in the middle of setParent.
LEMMA TogetherHarmless ==
  ASSUME NEW done, NEW first \in Seq(Step), NEW second \in Seq(Step),
         Harmless(first, done), Harmless(second, done),
         \A k \in DOMAIN second : second[k].do \notin {"walk", "link"}
  PROVE  Harmless(first \o second, done)
<1>. DEFINE all == first \o second
<1>1. /\ all \in Seq(Step) /\ Len(all) = Len(first) + Len(second)
      /\ \A i \in 1 .. Len(first) + Len(second) :
           all[i] = IF i <= Len(first) THEN first[i] ELSE second[i - Len(first)]
  BY ConcatProperties
<1>2. Len(first) \in Nat /\ Len(second) \in Nat /\ DOMAIN first = 1 .. Len(first)
      /\ DOMAIN second = 1 .. Len(second) /\ DOMAIN all = 1 .. Len(all)
  BY <1>1
<1>. HIDE DEF all
<1>3. ASSUME NEW k \in DOMAIN all
      PROVE  Fit(all[k], done)
             /\ (k > 1 => all[k].do \notin {"walk", "link"})
  <2>1. k \in 1 .. Len(first) + Len(second) BY <1>1, <1>2
  <2>2. CASE k <= Len(first)
    <3>1. all[k] = first[k] /\ k \in DOMAIN first BY <1>1, <1>2, <2>1, <2>2
    <3>. QED BY <3>1 DEF Harmless
  <2>3. CASE ~(k <= Len(first))
    <3>. DEFINE i == k - Len(first)
    <3>1. all[k] = second[i] /\ i \in DOMAIN second BY <1>1, <1>2, <2>1, <2>3
    <3>. HIDE DEF i
    <3>2. Fit(second[i], done) BY <3>1 DEF Harmless
    <3>. QED BY <3>1, <3>2
  <2>. QED BY <2>2, <2>3
<1>4. Harmless(all, done)
  BY <1>1, <1>3 DEF Harmless
<1>. QED BY <1>4 DEF all

\* A walk down from every member; those that are active were found.
LEMMA MembersGoes ==
  ASSUME TasksInv, NEW c \in Callers, Members(c)
  PROVE  Goes(c)
<1>. DEFINE step == Head(call[c].steps)
            S == {t \in Live : task[t].section = step.section}
            Start(t) == [do |-> "descend", id |-> t, frontier |-> {t}, fate |-> step.fate,
                         found |-> IF step.fate = "complete" /\ t \in ActiveTasks
                                     THEN <<t>> ELSE <<>>]
            last == [do |-> "finish", section |-> step.section, fate |-> step.fate]
<1>1. TypeOK /\ Busy(c) /\ step.do = "members" /\ KeptIsApart
  BY DEF TasksInv, Members, At
<1>2. step \in Step
  BY <1>1, HeadStep
<1>3. step.section \in Sections /\ step.fate \in Fates
  BY <1>1, <1>2, StepFields
<1>4. S \subseteq Held /\ S \in SUBSET Tasks
  BY <1>1, InStore
<1>5. PICK order \in SetToSeqs(S) :
        Then(c, [k \in DOMAIN order |-> Start(order[k])] \o <<last>>)
  BY DEF Members
<1>6. /\ order \in Seq(Tasks) /\ DOMAIN order = 1 .. Len(order)
      /\ \A k \in DOMAIN order : order[k] \in S
  BY <1>4, <1>5, OrderIsSeq
<1>7. last \in Step /\ Fit(last, kept[c]) /\ last.do = "finish"
  BY <1>3 DEF Step, Fit, Sound, Knows, Apart
<1>8. ASSUME NEW t \in S
      PROVE  /\ Start(t) \in Step /\ Fit(Start(t), kept[c])
             /\ Start(t).do = "descend"
  <2>. DEFINE found == IF step.fate = "complete" /\ t \in ActiveTasks THEN <<t>> ELSE <<>>
  <2>1. t \in Held /\ t \in Tasks BY <1>4
  <2>2. found \in Seq(Tasks) /\ ToSet(found) \subseteq {t}
    BY <2>1 DEF ToSet
  <2>3. t \in ActiveTasks => t \notin kept[c]
    BY <1>1, InStore DEF KeptIsApart
  <2>4. t \notin ActiveTasks => ToSet(found) = {}
    BY DEF ToSet
  <2>. DEFINE start == [do |-> "descend", id |-> t, frontier |-> {t}, fate |-> step.fate,
                        found |-> found]
  <2>5. Start(t) = start OBVIOUS
  <2>. HIDE DEF found, step, Start
  <2>6. start \in Step BY <1>3, <2>1, <2>2 DEF Step
  <2>7. Knows(start) BY <2>1, <2>2 DEF Knows
  <2>8. Apart(start, kept[c]) BY <2>2, <2>3, <2>4 DEF Apart
  <2>10. Fit(start, kept[c]) BY <2>7, <2>8 DEF Fit, Sound
  <2>9. start.do = "descend" OBVIOUS
  <2>. QED BY <2>5, <2>6, <2>9, <2>10
<1>. DEFINE first == [k \in DOMAIN order |-> Start(order[k])]
<1>9. /\ first \in Seq(Step) /\ DOMAIN first = DOMAIN order
      /\ \A k \in DOMAIN order : first[k] = Start(order[k])
  <2>. HIDE DEF Start
  <2>1. Len(order) \in Nat BY <1>6
  <2>2. first \in [1 .. Len(order) -> Step] BY <1>6, <1>8
  <2>3. first \in Seq(Step) BY <2>1, <2>2, SeqDef
  <2>. QED BY <2>3
<1>10. Harmless(first, kept[c])
  <2>. HIDE DEF first, Start
  <2>1. \A k \in DOMAIN first : /\ Fit(first[k], kept[c])
                                /\ first[k].do \notin {"walk", "link"}
    BY <1>6, <1>8, <1>9
  <2>. QED BY <1>9, <2>1 DEF Harmless
<1>. HIDE DEF first, last
<1>11. Harmless(<<last>>, kept[c]) /\ <<last>> \in Seq(Step)
       /\ \A k \in DOMAIN <<last>> : <<last>>[k].do \notin {"walk", "link"}
  BY <1>7, OneIsHarmless
<1>12. Harmless(first \o <<last>>, kept[c])
  BY <1>9, <1>10, <1>11, TogetherHarmless
<1>. QED BY <1>5, <1>12 DEF Goes, first

\* What a walk down leaves to do is fit, as the walk was.
LEMMA AppliedIsHarmless ==
  ASSUME NEW step \in Step, step.do = "descend", NEW done, Fit(step, done)
  PROVE  Harmless(Apply(step), done)
<1>1. step.id \in Tasks /\ step.found \in Seq(Tasks) /\ step.fate \in Fates
  BY StepFields
<1>. DEFINE found == step.found  all == Append(found, step.id)
<1>2. /\ all \in Seq(Tasks) /\ Len(all) = Len(found) + 1 /\ Len(found) \in Nat
      /\ \A i \in 1 .. Len(found) : all[i] = found[i]
      /\ all[Len(found) + 1] = step.id
      /\ DOMAIN all = 1 .. Len(all) /\ DOMAIN found = 1 .. Len(found)
  BY <1>1, AppendProperties
<1>3. step.id \in Held /\ \A k \in DOMAIN found : found[k] \in Held
  BY DEF Fit, Knows, ToSet
<1>. HIDE DEF all
<1>4. \A k \in DOMAIN all : all[k] \in Held
  <2>. SUFFICES ASSUME NEW k \in 1 .. Len(found) + 1 PROVE all[k] \in Held
    BY <1>2
  <2>. HIDE DEF found
  <2>. QED BY <1>2, <1>3
<1>5. step.fate = "complete" => \A k \in DOMAIN found : found[k] \notin done
  BY DEF Fit, Apart, ToSet
<1>6. CASE step.fate = "remove"
  <2>1. Harmless(Does("remove", all), done)
    BY <1>2, <1>4, DoesIsHarmless
  <2>. QED BY <1>6, <2>1 DEF Apply, all
<1>7. CASE step.fate = "complete"
  <2>1. Harmless(Does("complete", found), done)
    BY <1>1, <1>5, <1>7, DoesIsHarmless
  <2>. QED BY <1>7, <2>1 DEF Apply
<1>. QED BY <1>1, <1>6, <1>7 DEF Fates

\* A walk down, one level further.
Deeper(step, kids, all) == [step EXCEPT !.frontier = kids, !.found = all]

\* The step that a walk down goes on with is one.
LEMMA DescendOn ==
  ASSUME NEW step \in Step, step.do = "descend",
         NEW kids \in SUBSET Tasks, NEW all \in Seq(Tasks),
         NEW down, down = Deeper(step, kids, all)
  PROVE  /\ down \in Step
         /\ down.do = "descend" /\ down.id = step.id /\ down.fate = step.fate
         /\ down.found = all
<1>. DEFINE Walks == [do : {"descend"}, id : Tasks, frontier : SUBSET Tasks,
                      found : Seq(Tasks), fate : Fates]
<1>1. step \in Walks
  BY StepFields
<1>2. /\ down \in Walks /\ down.do = "descend" /\ down.id = step.id
      /\ down.fate = step.fate /\ down.found = all
  BY <1>1 DEF Deeper
<1>3. Walks \subseteq Step
  BY DEF Step
<1>. QED BY <1>2, <1>3

\* The walk down finds rows, and to complete only those that are active.
LEMMA DescendGoes ==
  ASSUME TasksInv, NEW c \in Callers, Descend(c)
  PROVE  Goes(c)
<1>. DEFINE step == Head(call[c].steps)
            kids == ChildrenOf(step.frontier)
            fresh == (IF step.fate = "remove" THEN kids ELSE kids \cap ActiveTasks)
                       \ ToSet(step.found)
<1>1. TypeOK /\ Busy(c) /\ step.do = "descend" /\ KeptIsApart /\ StepsKnow
  BY DEF TasksInv, Descend, At
<1>2. step \in Step /\ 1 \in DOMAIN call[c].steps /\ step = call[c].steps[1]
  BY <1>1, HeadStep
<1>3. step.id \in Tasks /\ step.found \in Seq(Tasks) /\ step.fate \in Fates
  BY <1>1, <1>2, StepFields
<1>4. Fit(step, kept[c])
  BY <1>1, <1>2 DEF StepsKnow, KeptIsApart, Fit, Sound
<1>5. kids \subseteq Live /\ kids \in SUBSET Tasks /\ fresh \subseteq kids
  BY <1>1, InStore DEF ChildrenOf
<1>6. \/ Then(c, Apply(step))
      \/ \E order \in SetToSeqs(fresh) : Then(c, <<Deeper(step, kids, step.found \o order)>>)
  BY DEF Descend, Deeper
<1>7. CASE Then(c, Apply(step))
  BY <1>1, <1>2, <1>4, <1>7, AppliedIsHarmless DEF Goes
<1>8. ASSUME NEW order \in SetToSeqs(fresh),
             Then(c, <<Deeper(step, kids, step.found \o order)>>)
      PROVE  Goes(c)
  <2>. DEFINE found == step.found  all == found \o order
              down == Deeper(step, kids, all)
  <2>0. step.fate = "complete" => fresh \subseteq ActiveTasks
    OBVIOUS
  <2>. HIDE DEF kids, fresh
  <2>1. order \in Seq(Tasks) /\ \A k \in DOMAIN order : order[k] \in fresh
    BY <1>5, OrderIsSeq
  <2>2. /\ all \in Seq(Tasks) /\ Len(all) = Len(found) + Len(order)
        /\ \A i \in 1 .. Len(found) + Len(order) :
             all[i] = IF i <= Len(found) THEN found[i] ELSE order[i - Len(found)]
    BY <1>3, <2>1, ConcatProperties
  <2>3. Len(found) \in Nat /\ Len(order) \in Nat /\ DOMAIN found = 1 .. Len(found)
        /\ DOMAIN order = 1 .. Len(order) /\ DOMAIN all = 1 .. Len(all)
    BY <1>3, <2>1, <2>2
  <2>4. /\ down \in Step /\ down.do = "descend" /\ down.id = step.id
        /\ down.fate = step.fate /\ down.found = all
    <3>. HIDE DEF step, all
    <3>. QED BY <1>1, <1>2, <1>5, <2>2, DescendOn
  <2>. HIDE DEF all, down
  <2>5. \A k \in DOMAIN all : all[k] \in ToSet(found) \cup fresh
    <3>. SUFFICES ASSUME NEW k \in 1 .. Len(found) + Len(order)
                  PROVE  all[k] \in ToSet(found) \cup fresh
      BY <2>2, <2>3
    <3>. HIDE DEF found
    <3>1. CASE k <= Len(found)
      BY <2>2, <2>3, <3>1 DEF ToSet
    <3>2. CASE ~(k <= Len(found))
      <4>1. k - Len(found) \in DOMAIN order /\ all[k] = order[k - Len(found)]
        BY <2>2, <2>3, <3>2
      <4>. QED BY <2>1, <4>1
    <3>. QED BY <3>1, <3>2
  <2>6. ToSet(all) \subseteq ToSet(found) \cup fresh
    BY <2>5 DEF ToSet
  <2>7. fresh \subseteq Held
    BY <1>1, <1>5, InStore
  <2>8. step.fate = "complete" => fresh \cap kept[c] = {}
    BY <1>1, <2>0, InStore DEF KeptIsApart
  <2>9. step.id \in Held /\ ToSet(found) \subseteq Held
        /\ (step.fate = "complete" => ToSet(found) \cap kept[c] = {})
    BY <1>1, <1>4 DEF Fit, Sound, Knows, Apart
  <2>10. Knows(down)
    BY <2>4, <2>6, <2>7, <2>9 DEF Knows
  <2>11. Apart(down, kept[c])
    BY <2>4, <2>6, <2>8, <2>9 DEF Apart
  <2>13. Fit(down, kept[c])
    BY <2>4, <2>10, <2>11 DEF Fit, Sound
  <2>12. Harmless(<<down>>, kept[c])
    BY <2>4, <2>13, OneIsHarmless
  <2>. QED BY <1>8, <2>12 DEF Goes, down, all
<1>. QED BY <1>6, <1>7, <1>8

\* What a step puts in its place is harmless, whatever it has read.
LEMMA StepGoes ==
  ASSUME TasksInv, NEW c \in Callers, StoreStep(c)
  PROVE  Goes(c)
  BY CompleteGoes, StampGoes, ChildrenGoes, ReparentGoes, WalkGoes, AdvanceGoes, RecurGoes,
     PostponeGoes, OpenGoes, MembersGoes, DescendGoes, Zenon DEF StoreStep

-----------------------------------------------------------------------------
(* What a statement writes                                                 *)

\* What no statement of this Device does: lose a row, write a tombstone, or
\* bring one back.
Settled ==
  /\ task' \in [Tasks -> Row \cup {NoRow}]
  /\ Held' = Held
  /\ Live' \subseteq Live
  /\ \A t \in Held : task[t].deleted => task'[t] = task[t]

\* updateIfLive.
LEMMA UpdateSettles ==
  ASSUME TypeOK, NEW id \in Tasks, NEW row, UpdateIfLive(id, row),
         id \in Live => row \in Row /\ row.deleted = FALSE
  PROVE  /\ Settled
         /\ \A t \in Tasks : t # id \/ id \notin Live => task'[t] = task[t]
         /\ id \in Live => task'[id] = row
<1>1. task \in [Tasks -> Row \cup {NoRow}]
  BY DEF TypeOK
<1>2. task' = [task EXCEPT ![id] = IF id \in Live THEN row ELSE task[id]]
  BY DEF UpdateIfLive
<1>3. /\ task' \in [Tasks -> Row \cup {NoRow}]
      /\ \A t \in Tasks : t # id \/ id \notin Live => task'[t] = task[t]
      /\ id \in Live => task'[id] = row
  BY <1>1, <1>2
<1>4. id \in Live => row # NoRow /\ id \in Held /\ ~task[id].deleted
  BY NoRowAssumption, InStore DEF Live
<1>5. \A t \in Tasks : (task'[t] = NoRow) <=> (task[t] = NoRow)
  BY <1>3, <1>4 DEF Held
<1>6. Held' = Held
  BY <1>5 DEF Held
<1>7. ASSUME NEW t \in Live' PROVE t \in Live
  <2>1. t \in Tasks /\ task'[t] # NoRow /\ ~task'[t].deleted BY <1>7 DEF Live
  <2>2. CASE t = id /\ id \in Live BY <2>2
  <2>3. CASE t # id \/ id \notin Live BY <1>3, <2>1, <2>3 DEF Live
  <2>. QED BY <2>2, <2>3
<1>8. ASSUME NEW t \in Held, task[t].deleted PROVE task'[t] = task[t]
  <2>1. t # id \/ id \notin Live BY <1>4, <1>8
  <2>. QED BY <1>3, <2>1 DEF Held
<1>. QED BY <1>3, <1>6, <1>7, <1>8 DEF Settled

\* remove.
LEMMA RemovalSettles ==
  ASSUME TypeOK, NEW id \in Held, task' = [task EXCEPT ![id].deleted = TRUE]
  PROVE  /\ Settled
         /\ \A t \in Held : task'[t].parent = task[t].parent /\ task'[t].done = task[t].done
<1>1. task \in [Tasks -> Row \cup {NoRow}] /\ id \in Tasks /\ task[id] \in Row
      /\ task[id] # NoRow
  BY InStore DEF TypeOK, Held
<1>. DEFINE row == [task[id] EXCEPT !.deleted = TRUE]
<1>2. task' = [task EXCEPT ![id] = row]
  OBVIOUS
<1>3. /\ row \in Row /\ row.deleted = TRUE /\ row.parent = task[id].parent
      /\ row.done = task[id].done
      /\ (task[id].deleted => row = task[id])
  BY <1>1 DEF Row
<1>. HIDE DEF row
<1>4. /\ task' \in [Tasks -> Row \cup {NoRow}]
      /\ \A t \in Tasks : t # id => task'[t] = task[t]
      /\ task'[id] = row
  BY <1>1, <1>2, <1>3
<1>5. row # NoRow
  BY <1>3, NoRowAssumption
<1>6. Held' = Held
  BY <1>1, <1>4, <1>5 DEF Held
<1>7. Live' \subseteq Live
  BY <1>3, <1>4 DEF Live
<1>8. \A t \in Held : task[t].deleted => task'[t] = task[t]
  BY <1>3, <1>4 DEF Held
<1>9. \A t \in Held : task'[t].parent = task[t].parent /\ task'[t].done = task[t].done
  BY <1>3, <1>4 DEF Held
<1>. QED BY <1>4, <1>6, <1>7, <1>8, <1>9 DEF Settled

\* A statement that only reads.
LEMMA UnchangedSettles ==
  ASSUME TypeOK, UNCHANGED task
  PROVE  Settled /\ \A t \in Held : task'[t] = task[t]
  BY DEF Settled, TypeOK, Held, Live

\* The rows that the statements of a call and the setters write.
Linked(row, parent) == [row EXCEPT !.parent = parent]
Stamped(row, done, rule) == [row EXCEPT !.done = done, !.rule = rule]
Dated(row, date, rule) == [row EXCEPT !.date = date, !.rule = rule]

\* They are rows, and differ in what they were written for alone.
LEMMA RowFields ==
  ASSUME NEW row \in Row
  PROVE  /\ \A p \in Tasks \cup {NoTask} :
              /\ Linked(row, p) \in Row
              /\ Linked(row, p).deleted = row.deleted
              /\ Linked(row, p).parent = p
              /\ Linked(row, p).done = row.done
         /\ \A d \in Nat : \A r \in Rule \cup {NoRule} :
              /\ Stamped(row, d, r) \in Row
              /\ Stamped(row, d, r).deleted = row.deleted
              /\ Stamped(row, d, r).parent = row.parent
              /\ Stamped(row, d, r).done = d
         /\ \A d \in Int \cup {NoDate} : \A r \in Rule \cup {NoRule} :
              /\ Dated(row, d, r) \in Row
              /\ Dated(row, d, r).deleted = row.deleted
              /\ Dated(row, d, r).parent = row.parent
              /\ Dated(row, d, r).done = row.done
  BY DEF Row, Linked, Stamped, Dated

\* What a statement of a call leaves as it was.
Spares(c) ==
  /\ Settled
  /\ \A t \in Held : task'[t].parent = task[t].parent
  /\ \A t \in kept[c] : task'[t].done = task[t].done
  /\ section' \in [Sections -> {"live", "archived", "deleted"}]

\* A completion is written for a Task the call need not spare.
LEMMA StampSpares ==
  ASSUME TasksInv, NEW c \in Callers, Stamp(c)
  PROVE  Spares(c)
<1>. DEFINE step == Head(call[c].steps)
            old == task[step.id]
            rule == IF step.forever THEN NoRule ELSE old.rule
            row == Stamped(old, call[c].stamp, rule)
<1>1. TypeOK /\ Busy(c) /\ step.do = "stamp" /\ KeptIsApart
  BY DEF TasksInv, Stamp, At
<1>2. step \in Step /\ 1 \in DOMAIN call[c].steps /\ step = call[c].steps[1]
      /\ call[c].stamp \in Nat
  BY <1>1, HeadStep DEF Call
<1>3. step.id \in Tasks /\ step.forever \in BOOLEAN
  BY <1>1, <1>2, StepFields
<1>4. step.id \notin kept[c] /\ kept[c] \subseteq Held
  BY <1>1, <1>2 DEF KeptIsApart, Apart
<1>5. UpdateIfLive(step.id, row) /\ UNCHANGED section
  BY DEF Stamp, Stamped
<1>6. ASSUME step.id \in Live PROVE row \in Row /\ row.deleted = FALSE /\ row.parent = old.parent
  <2>1. old \in Row /\ old.deleted = FALSE /\ old.rule \in Rule \cup {NoRule}
    BY <1>1, <1>6, InStore DEF Row
  <2>2. rule \in Rule \cup {NoRule} BY <2>1
  <2>3. call[c].stamp \in Nat BY <1>2
  <2>. HIDE DEF rule, old, step
  <2>. QED BY <2>1, <2>2, <2>3, RowFields
<1>. HIDE DEF row, step
<1>7. /\ Settled
      /\ \A t \in Tasks : t # step.id \/ step.id \notin Live => task'[t] = task[t]
      /\ step.id \in Live => task'[step.id] = row
  BY <1>1, <1>3, <1>5, <1>6, UpdateSettles
<1>8. Held \subseteq Tasks BY <1>1, InStore
<1>9. \A t \in Held : task'[t].parent = task[t].parent
  BY <1>6, <1>7, <1>8
<1>10. \A t \in kept[c] : task'[t].done = task[t].done
  BY <1>4, <1>7, <1>8
<1>. QED BY <1>1, <1>5, <1>7, <1>9, <1>10 DEF Spares, TypeOK

\* A date leaves the parent and the completion.
LEMMA DateSpares ==
  ASSUME TasksInv, NEW c \in Callers, Date(c)
  PROVE  Spares(c)
<1>. DEFINE step == Head(call[c].steps)
            old == task[step.id]
            rule == IF step.rule = NoRule THEN old.rule ELSE step.rule
            row == Dated(old, step.date, rule)
<1>1. TypeOK /\ Busy(c) /\ step.do = "date" /\ KeptIsApart
  BY DEF TasksInv, Date, At
<1>2. step \in Step
  BY <1>1, HeadStep
<1>3. step.id \in Tasks /\ step.date \in Int /\ step.rule \in Rule \cup {NoRule}
  BY <1>1, <1>2, StepFields
<1>4. kept[c] \subseteq Held
  BY <1>1 DEF KeptIsApart
<1>5. UpdateIfLive(step.id, row) /\ UNCHANGED section
  BY DEF Date, Dated
<1>6. ASSUME step.id \in Live
      PROVE  row \in Row /\ row.deleted = FALSE /\ row.parent = old.parent /\ row.done = old.done
  <2>1. old \in Row /\ old.deleted = FALSE /\ old.rule \in Rule \cup {NoRule}
    BY <1>1, <1>6, InStore DEF Row
  <2>2. rule \in Rule \cup {NoRule} BY <1>3, <2>1
  <2>. HIDE DEF rule, old, step
  <2>. QED BY <1>3, <2>1, <2>2, RowFields
<1>. HIDE DEF row, step
<1>7. /\ Settled
      /\ \A t \in Tasks : t # step.id \/ step.id \notin Live => task'[t] = task[t]
      /\ step.id \in Live => task'[step.id] = row
  BY <1>1, <1>3, <1>5, <1>6, UpdateSettles
<1>8. Held \subseteq Tasks BY <1>1, InStore
<1>9. \A t \in Held : task'[t].parent = task[t].parent /\ task'[t].done = task[t].done
  BY <1>6, <1>7, <1>8
<1>. QED BY <1>1, <1>4, <1>5, <1>7, <1>9 DEF Spares, TypeOK

\* The write of setParent changes the parent of its Task and nothing else.
LEMMA LinkWrites ==
  ASSUME TasksInv, NEW c \in Callers, Link(c)
  PROVE  LET step == Head(call[c].steps)
         IN  /\ Settled
             /\ UNCHANGED section
             /\ \A t \in Held : task'[t].done = task[t].done
             /\ \A t \in Held : t # step.id \/ step.id \notin Live => task'[t] = task[t]
             /\ step.id \in Live => task'[step.id].parent = step.to
<1>. DEFINE step == Head(call[c].steps)
            old == task[step.id]
            row == Linked(old, step.to)
<1>1. TypeOK /\ Busy(c) /\ step.do = "link"
  BY DEF TasksInv, Link, At
<1>2. step \in Step
  BY <1>1, HeadStep
<1>3. step.id \in Tasks /\ step.to \in Tasks \cup {NoTask}
  BY <1>1, <1>2, StepFields
<1>5. UpdateIfLive(step.id, row) /\ UNCHANGED section
  BY DEF Link, Linked
<1>6. ASSUME step.id \in Live
      PROVE  row \in Row /\ row.deleted = FALSE /\ row.parent = step.to /\ row.done = old.done
  <2>1. old \in Row /\ old.deleted = FALSE
    BY <1>1, <1>6, InStore DEF Row
  <2>. HIDE DEF old, step
  <2>. QED BY <1>3, <2>1, RowFields
<1>. HIDE DEF row, step
<1>7. /\ Settled
      /\ \A t \in Tasks : t # step.id \/ step.id \notin Live => task'[t] = task[t]
      /\ step.id \in Live => task'[step.id] = row
  BY <1>1, <1>3, <1>5, <1>6, UpdateSettles
<1>8. Held \subseteq Tasks BY <1>1, InStore
<1>9. \A t \in Held : task'[t].done = task[t].done
  BY <1>6, <1>7, <1>8
<1>10. \A t \in Held : t # step.id \/ step.id \notin Live => task'[t] = task[t]
  BY <1>7, <1>8
<1>11. step.id \in Live => task'[step.id].parent = step.to
  BY <1>6, <1>7
<1>. QED BY <1>5, <1>7, <1>9, <1>10, <1>11 DEF step

\* A tombstone leaves the parent and the completion.
LEMMA RemoveSpares ==
  ASSUME TasksInv, NEW c \in Callers, RemoveStep(c)
  PROVE  Spares(c)
<1>. DEFINE step == Head(call[c].steps)
<1>1. TypeOK /\ Busy(c) /\ step.do = "remove" /\ KeptIsApart /\ StepsKnow
  BY DEF TasksInv, RemoveStep, At
<1>2. 1 \in DOMAIN call[c].steps /\ step = call[c].steps[1]
  BY <1>1, HeadStep
<1>3. step.id \in Held /\ kept[c] \subseteq Held
  BY <1>1, <1>2 DEF StepsKnow, Knows, KeptIsApart
<1>4. task' = [task EXCEPT ![step.id].deleted = TRUE] /\ UNCHANGED section
  BY DEF RemoveStep, RemoveRow
<1>5. /\ Settled
      /\ \A t \in Held : task'[t].parent = task[t].parent /\ task'[t].done = task[t].done
  BY <1>1, <1>3, <1>4, RemovalSettles
<1>. QED BY <1>1, <1>3, <1>4, <1>5 DEF Spares, TypeOK

\* A Section goes, its Tasks do not.
LEMMA FinishSpares ==
  ASSUME TasksInv, NEW c \in Callers, Finish(c)
  PROVE  Spares(c)
<1>. DEFINE step == Head(call[c].steps)
<1>1. TypeOK /\ Busy(c) /\ step.do = "finish" /\ KeptIsApart
  BY DEF TasksInv, Finish, At
<1>2. UNCHANGED task
  BY DEF Finish
<1>3. Settled /\ \A t \in Held : task'[t] = task[t]
  BY <1>1, <1>2, UnchangedSettles
<1>4. section' \in [Sections -> {"live", "archived", "deleted"}]
  BY <1>1 DEF Finish, TypeOK
<1>. QED BY <1>1, <1>3, <1>4 DEF Spares, KeptIsApart

\* A step that only reads.
LEMMA ReadsSpare ==
  ASSUME TasksInv, NEW c \in Callers, UNCHANGED <<task, section>>
  PROVE  Spares(c)
<1>1. TypeOK /\ KeptIsApart
  BY DEF TasksInv
<1>2. Settled /\ \A t \in Held : task'[t] = task[t]
  BY <1>1, UnchangedSettles
<1>. QED BY <1>1, <1>2 DEF Spares, KeptIsApart, TypeOK

\* Only setParent's last statement changes a parent.
LEMMA StepSpares ==
  ASSUME TasksInv, NEW c \in Callers, StoreStep(c)
  PROVE  Link(c) \/ Spares(c)
<1>1. Complete(c) \/ Children(c) \/ Reparent(c) \/ Walk(c) \/ Advance(c) \/ Recur(c)
      \/ Postpone(c) \/ Open(c) \/ Members(c) \/ Descend(c) => UNCHANGED <<task, section>>
  BY DEF Complete, Children, Reparent, Walk, Advance, Recur, Postpone, Open, Members, Descend
<1>. QED BY <1>1, StampSpares, DateSpares, RemoveSpares, FinishSpares, ReadsSpare, Zenon
         DEF StoreStep

-----------------------------------------------------------------------------
(* Calls stay fit                                                          *)

\* No Task that is held comes to life, moves, or gets a parent that does.
TreeKept ==
  \A t \in Held \cap Live' :
    /\ t \in Live
    /\ task'[t].parent = task[t].parent
    /\ task[t].parent \in Live' => task[t].parent \in Live

\* A step that can be relied on still can after a write that loses no row,
\* unless it is in the middle of setParent and a parent has changed.
LEMMA FitStays ==
  ASSUME NEW step, NEW done, NEW less, Fit(step, done), less \subseteq done,
         Held \subseteq Held', raced => raced',
         raced' \/ step.do \notin {"walk", "link"} \/ TreeKept
  PROVE  Fit(step, less)'
<1>1. Knows(step)'
  BY DEF Fit, Knows
<1>2. Apart(step, less)'
  BY DEF Fit, Apart
<1>3. (raced \/ Sound(step))'
  <2>. SUFFICES ASSUME ~raced', step.do \in {"walk", "link"} PROVE Sound(step)'
    BY DEF Sound
  <2>1. Sound(step) /\ TreeKept
    BY DEF Fit
  <2>2. step.seen \subseteq Held
    BY DEF Fit, Knows
  <2>3. CASE step.do = "walk"
    BY <2>1, <2>2, <2>3 DEF Sound, TreeKept
  <2>4. CASE step.do = "link"
    BY <2>1, <2>2, <2>4 DEF Sound, TreeKept
  <2>. QED BY <2>3, <2>4
<1>. QED BY <1>1, <1>2, <1>3 DEF Fit

\* So a list of steps stays harmless.
LEMMA HarmlessStays ==
  ASSUME NEW new, NEW done, NEW less, Harmless(new, done), less \subseteq done,
         Held \subseteq Held', raced => raced',
         \/ raced' \/ TreeKept
         \/ \A k \in DOMAIN new : new[k].do \notin {"walk", "link"}
  PROVE  Harmless(new, less)'
<1>1. \A k \in DOMAIN new : Fit(new[k], done)
  BY DEF Harmless
<1>2. \A k \in DOMAIN new : Fit(new[k], less)'
  BY <1>1, FitStays
<1>. QED BY <1>2 DEF Harmless

\* Every call is fit, and spares what it has to.
CallsFit == \A c \in Callers : Harmless(call[c].steps, kept[c])

CallsApart ==
  \A c \in Callers : \A k \in DOMAIN call[c].steps : Apart(call[c].steps[k], kept[c])

\* That every call is fit is what the inductive invariant says of the calls.
LEMMA FitCalls ==
  TypeOK => (CallsFit <=> WalksAreSound /\ WalksComeFirst /\ StepsKnow /\ CallsApart)
<1>. SUFFICES ASSUME TypeOK
              PROVE  CallsFit <=> WalksAreSound /\ WalksComeFirst /\ StepsKnow /\ CallsApart
  OBVIOUS
<1>1. \A c \in Callers : call[c].steps \in Seq(Step)
  BY DEF TypeOK, Call
<1>2. \A c \in Callers : Busy(c) => /\ 1 \in DOMAIN call[c].steps
                                    /\ Head(call[c].steps) = call[c].steps[1]
  BY HeadStep
<1>3. ASSUME CallsFit
      PROVE  WalksAreSound /\ WalksComeFirst /\ StepsKnow /\ CallsApart
  <2>1. \A c \in Callers : \A k \in DOMAIN call[c].steps :
          /\ Fit(call[c].steps[k], kept[c])
          /\ k > 1 => call[c].steps[k].do \notin {"walk", "link"}
    BY <1>3 DEF CallsFit, Harmless
  <2>2. WalksComeFirst BY <2>1 DEF WalksComeFirst
  <2>3. StepsKnow BY <2>1 DEF StepsKnow, Fit
  <2>4. WalksAreSound BY <1>2, <2>1 DEF WalksAreSound, Fit
  <2>. QED BY <2>1, <2>2, <2>3, <2>4 DEF Fit, CallsApart
<1>4. ASSUME WalksAreSound, WalksComeFirst, StepsKnow, CallsApart
      PROVE  CallsFit
  <2>1. ASSUME NEW c \in Callers, NEW k \in DOMAIN call[c].steps
        PROVE  /\ Fit(call[c].steps[k], kept[c])
               /\ k > 1 => call[c].steps[k].do \notin {"walk", "link"}
    <3>. DEFINE step == call[c].steps[k]
    <3>1. Knows(step) /\ Apart(step, kept[c]) BY <1>4, <2>1 DEF StepsKnow, CallsApart
    <3>2. k > 1 => step.do \notin {"walk", "link"} BY <1>4, <2>1 DEF WalksComeFirst
    <3>3. k \in Nat /\ k >= 1 /\ Busy(c)
      <4>1. call[c].steps \in Seq(Step) BY <1>1
      <4>2. \A s \in Seq(Step) : DOMAIN s = 1 .. Len(s) /\ Len(s) \in Nat
        BY LenProperties
      <4>3. k \in 1 .. Len(call[c].steps) /\ Len(call[c].steps) \in Nat BY <4>1, <4>2
      <4>4. DOMAIN <<>> = {} OBVIOUS
      <4>. QED BY <4>3, <4>4 DEF Busy
    <3>4. k = 1 => raced \/ Sound(step) BY <1>2, <1>4, <3>3 DEF WalksAreSound
    <3>5. k # 1 => Sound(step) BY <3>2, <3>3 DEF Sound
    <3>. QED BY <3>1, <3>2, <3>4, <3>5 DEF Fit
  <2>. QED BY <1>1, <2>1 DEF CallsFit, Harmless
<1>. QED BY <1>3, <1>4

\* The invariant in the form the steps use it.
LEMMA CallsAreFit ==
  ASSUME TasksInv
  PROVE  TypeOK /\ CallsFit
  BY FitCalls DEF TasksInv, KeptIsApart, CallsApart

\* The rest of a call is as fit as it was, and in the middle of nothing.
LEMMA ReplacedIsHarmless ==
  ASSUME NEW old \in Seq(Step), old # <<>>, NEW done, Harmless(old, done),
         NEW new, Harmless(new, done)
  PROVE  /\ Harmless(new \o Tail(old), done)
         /\ new = <<>> => \A k \in DOMAIN (new \o Tail(old)) :
                            (new \o Tail(old))[k].do \notin {"walk", "link"}
<1>1. new \in Seq(Step)
  BY DEF Harmless
<1>. DEFINE all == new \o Tail(old)
<1>2. /\ all \in Seq(Step)
      /\ \A k \in DOMAIN all :
           \/ k \in DOMAIN new /\ all[k] = new[k]
           \/ \E j \in DOMAIN old : j > 1 /\ all[k] = old[j]
  BY <1>1, Replaced
<1>. HIDE DEF all
<1>3. \A k \in DOMAIN all : Fit(all[k], done) /\ (k > 1 => all[k].do \notin {"walk", "link"})
  BY <1>2 DEF Harmless
<1>4. ASSUME new = <<>>, NEW k \in DOMAIN all
      PROVE  all[k].do \notin {"walk", "link"}
  <2>1. DOMAIN new = {} BY <1>4
  <2>. QED BY <1>2, <2>1 DEF Harmless
<1>5. Harmless(all, done)
  BY <1>2, <1>3 DEF Harmless
<1>. QED BY <1>4, <1>5 DEF all

\* A step of a call changes that call alone, and leaves it harmless.
LEMMA CallGoesOn ==
  ASSUME TasksInv, NEW c \in Callers, Busy(c), Goes(c)
  PROVE  /\ call' \in [Callers -> Call]
         /\ \A d \in Callers : d # c => call'[d] = call[d]
         /\ \E steps : Harmless(steps, kept[c]) /\ call'[c].steps = steps
         /\ call'[c].op = call[c].op /\ call'[c].stamp = call[c].stamp
<1>1. TypeOK /\ CallsFit
  BY CallsAreFit
<1>2. /\ call \in [Callers -> Call] /\ call[c] \in Call
      /\ call[c].steps \in Seq(Step) /\ call[c].steps # <<>>
  BY <1>1, HeadStep DEF TypeOK
<1>3. Harmless(call[c].steps, kept[c])
  BY <1>1 DEF CallsFit
<1>4. PICK steps : /\ Harmless(steps, kept[c])
                   /\ call' = [call EXCEPT ![c].steps = steps]
  <2>1. CASE Throw(c)
    BY <2>1, NothingIsHarmless DEF Throw
  <2>2. CASE \E new : Harmless(new, kept[c]) /\ Then(c, new)
    <3>1. PICK new : Harmless(new, kept[c]) /\ Then(c, new)
      BY <2>2
    <3>2. Harmless(new \o Tail(call[c].steps), kept[c])
      BY <1>2, <1>3, <3>1, ReplacedIsHarmless
    <3>3. call' = [call EXCEPT ![c].steps = new \o Tail(call[c].steps)]
      BY <3>1 DEF Then
    <3>. QED BY <3>2, <3>3
  <2>. QED BY <2>1, <2>2 DEF Goes
<1>5. steps \in Seq(Step)
  BY <1>4 DEF Harmless
<1>. DEFINE next == [call[c] EXCEPT !.steps = steps]
<1>6. call' = [call EXCEPT ![c] = next]
  BY <1>4
<1>7. next \in Call /\ next.steps = steps /\ next.op = call[c].op
      /\ next.stamp = call[c].stamp
  BY <1>2, <1>5 DEF Call
<1>. HIDE DEF next
<1>8. call' \in [Callers -> Call] /\ call'[c] = next
      /\ \A d \in Callers : d # c => call'[d] = call[d]
  BY <1>2, <1>6, <1>7
<1>. QED BY <1>4, <1>7, <1>8

\* The calls that are not in the middle of setParent.
LEMMA NotWalking ==
  ASSUME TypeOK, CallsFit, NEW d \in Callers, ~At(d, "walk"), ~At(d, "link")
  PROVE  \A k \in DOMAIN call[d].steps : call[d].steps[k].do \notin {"walk", "link"}
<1>. SUFFICES ASSUME NEW k \in DOMAIN call[d].steps
              PROVE  call[d].steps[k].do \notin {"walk", "link"}
  OBVIOUS
<1>1. call[d].steps \in Seq(Step)
  BY DEF TypeOK, Call
<1>2. \A s \in Seq(Step) : DOMAIN s = 1 .. Len(s) /\ Len(s) \in Nat
  BY LenProperties
<1>3. k \in 1 .. Len(call[d].steps) /\ Len(call[d].steps) \in Nat
  BY <1>1, <1>2
<1>4. Busy(d)
  <2>1. DOMAIN <<>> = {} OBVIOUS
  <2>. QED BY <2>1 DEF Busy
<1>5. Head(call[d].steps) = call[d].steps[1]
  BY <1>4, HeadStep
<1>6. CASE k = 1
  BY <1>4, <1>5, <1>6 DEF At
<1>7. CASE k # 1
  BY <1>3, <1>7 DEF CallsFit, Harmless
<1>. QED BY <1>6, <1>7

\* Another's write of a row is a write that calls can still rely on.
Interferes == \A d \in Callers : kept'[d] \subseteq kept[d]

\* Every call is fit after a step of one: a link that nobody raced had no
\* other walk beside it.
LEMMA CallsStayFit ==
  ASSUME TasksInv, NEW c \in Callers, StoreStep(c), Interferes,
         raced' = (raced \/ (At(c, "link") /\ Walking(Callers \ {c})))
  PROVE  CallsFit'
<1>1. TypeOK /\ CallsFit
  BY CallsAreFit
<1>2. Busy(c)
  BY DEF StoreStep, Complete, Stamp, Children, Reparent, Walk, Link, Advance, Recur, Date,
         Postpone, Open, Members, Descend, RemoveStep, Finish, At
<1>3. Goes(c)
  BY StepGoes
<1>4. /\ \A d \in Callers : d # c => call'[d] = call[d]
      /\ \E steps : Harmless(steps, kept[c]) /\ call'[c].steps = steps
  BY <1>2, <1>3, CallGoesOn
<1>5. PICK steps : Harmless(steps, kept[c]) /\ call'[c].steps = steps
  BY <1>4
<1>6. raced => raced'
  OBVIOUS
<1>7. CASE Spares(c)
  <2>1. Held \subseteq Held' /\ TreeKept
    BY <1>1, <1>7, InStore DEF Spares, Settled, TreeKept
  <2>2. ASSUME NEW d \in Callers
        PROVE  Harmless(call[d].steps, kept[d])'
    <3>1. PICK now : now = call'[d].steps
      OBVIOUS
    <3>2. PICK less : less = kept'[d]
      OBVIOUS
    <3>3. Harmless(now, kept[d])
      BY <1>1, <1>4, <1>5, <3>1 DEF CallsFit
    <3>4. Harmless(now, less)'
      BY <1>6, <2>1, <3>2, <3>3, HarmlessStays DEF Interferes
    <3>. QED BY <3>1, <3>2, <3>4
  <2>. QED BY <2>2 DEF CallsFit
<1>8. CASE Link(c)
  <2>1. Held' = Held
    BY <1>8, LinkWrites DEF Settled
  <2>2. Then(c, <<>>) /\ At(c, "link")
    BY <1>8, StampGoes DEF Link
  <2>3. /\ call[c].steps \in Seq(Step) /\ call[c].steps # <<>>
        /\ Harmless(call[c].steps, kept[c])
    BY <1>1, <1>2, HeadStep DEF CallsFit
  <2>4. PICK rest : rest = <<>> \o Tail(call[c].steps)
    OBVIOUS
  <2>5. Harmless(rest, kept[c]) /\ \A k \in DOMAIN rest : rest[k].do \notin {"walk", "link"}
    BY <2>3, <2>4, NothingIsHarmless, ReplacedIsHarmless
  <2>6. call'[c].steps = rest
    BY <1>1, <2>2, <2>4 DEF Then, TypeOK, Call
  <2>7. ASSUME NEW d \in Callers
        PROVE  Harmless(call[d].steps, kept[d])'
    <3>1. PICK now : now = call'[d].steps
      OBVIOUS
    <3>2. PICK less : less = kept'[d]
      OBVIOUS
    <3>3. Harmless(now, kept[d])
      BY <1>1, <1>4, <2>5, <2>6, <3>1 DEF CallsFit
    <3>4. raced' \/ \A k \in DOMAIN now : now[k].do \notin {"walk", "link"}
      <4>1. CASE d = c BY <2>5, <2>6, <3>1, <4>1
      <4>2. CASE d # c
        <5>1. raced' \/ (~At(d, "walk") /\ ~At(d, "link"))
          BY <2>2, <4>2 DEF Walking
        <5>. QED BY <1>1, <1>4, <3>1, <4>2, <5>1, NotWalking
      <4>. QED BY <4>1, <4>2
    <3>5. Held \subseteq Held' /\ less \subseteq kept[d]
      BY <2>1, <3>2 DEF Interferes
    <3>6. Harmless(now, less)'
      BY <1>6, <3>3, <3>4, <3>5, HarmlessStays
    <3>. QED BY <3>1, <3>2, <3>6
  <2>. QED BY <2>7 DEF CallsFit
<1>. QED BY <1>7, <1>8, StepSpares

-----------------------------------------------------------------------------
(* The parts of the invariant                                              *)

\* Only what a call has been disturbed in leaves its history.
LEMMA InterfereKeeps ==
  ASSUME TypeOK, KeptIsApart, NEW C, Interfere(C), Held \subseteq Held'
  PROVE  /\ owed' \in [Callers -> SUBSET Tasks]
         /\ kept' \in [Callers -> SUBSET Tasks]
         /\ Interferes
         /\ \A c \in Callers : \A t \in kept'[c] : t \in Held' /\ task'[t].done # 0
<1>1. owed \in [Callers -> SUBSET Tasks] /\ kept \in [Callers -> SUBSET Tasks]
  BY DEF TypeOK
<1>. DEFINE touched == {t \in Held : Disturbed(t)}
<1>2. kept' = [c \in Callers |-> kept[c] \ touched]
  BY DEF Interfere
<1>3. owed' \in [Callers -> SUBSET Tasks]
  <2>. DEFINE lost == Below({t \in Held : Disturbed(t)}, Held)
  <2>1. owed' = [c \in Callers |-> IF c \in C THEN owed[c] ELSE owed[c] \ lost]
    BY DEF Interfere
  <2>. HIDE DEF lost
  <2>. QED BY <1>1, <2>1
<1>4. kept' \in [Callers -> SUBSET Tasks] /\ Interferes
  <2>. HIDE DEF touched
  <2>. QED BY <1>1, <1>2 DEF Interferes
<1>5. ASSUME NEW c \in Callers, NEW t \in kept'[c]
      PROVE  t \in Held' /\ task'[t].done # 0
  <2>1. t \in kept[c] /\ ~(t \in touched)
    <3>. HIDE DEF touched
    <3>. QED BY <1>2, <1>5
  <2>2. t \in Held /\ task[t].done # 0
    BY <2>1 DEF KeptIsApart
  <2>3. task'[t].done = task[t].done
    BY <2>1, <2>2 DEF Disturbed
  <2>. QED BY <2>2, <2>3
<1>. QED BY <1>3, <1>4, <1>5

\* The rows a parent is set in keep the Tasks a forest.
LEMMA LinkClosesNoCycle ==
  ASSUME TasksInv, NEW c \in Callers, Link(c), ~raced
  PROVE  Acyclic'
<1>. DEFINE step == Head(call[c].steps)
<1>1. TypeOK /\ Acyclic /\ At(c, "link") /\ step.do = "link" /\ Sound(step)
  BY DEF TasksInv, NoCycle, WalksAreSound, Link, At
<1>2. step \in Step /\ step.id \in Tasks
  BY <1>1, HeadStep, StepFields DEF At
<1>. HIDE DEF step
<1>3. /\ Live' \subseteq Live
      /\ \A t \in Held : t # step.id \/ step.id \notin Live => task'[t] = task[t]
      /\ step.id \in Live => task'[step.id].parent = step.to
  BY LinkWrites DEF Settled, step
<1>4. Live \subseteq Held /\ Live \subseteq Tasks
  BY <1>1, InStore
<1>5. ASSUME NEW S \in SUBSET Live', S # {}, \A t \in S : task'[t].parent \in S
      PROVE  FALSE
  <2>1. S \in SUBSET Live
    BY <1>3
  <2>2. step.id \in S
    <3>. SUFFICES ASSUME step.id \notin S PROVE FALSE
      OBVIOUS
    <3>1. \A t \in S : task'[t] = task[t]
      BY <1>3, <1>4, <2>1
    <3>. QED BY <1>1, <1>5, <2>1, <3>1 DEF Acyclic
  <2>3. step.to \in S /\ step.to # NoTask
    BY <1>3, <1>4, <1>5, <2>1, <2>2, TaskStoreAssumption
  <2>4. /\ step.to \in step.seen /\ step.id \notin step.seen
        /\ \A t \in step.seen \cap Live : task[t].parent \in Live => task[t].parent \in step.seen
    BY <1>1, <2>3 DEF Sound
  <2>. DEFINE U == S \cap step.seen
  <2>5. U \in SUBSET Live /\ U # {}
    BY <2>1, <2>3, <2>4
  <2>6. ASSUME NEW t \in U PROVE task[t].parent \in U
    <3>1. t \in Live /\ t # step.id /\ t \in S /\ t \in step.seen
      BY <2>1, <2>4
    <3>2. task[t].parent = task'[t].parent
      BY <1>3, <1>4, <3>1
    <3>3. task[t].parent \in S
      BY <1>5, <3>1, <3>2
    <3>. QED BY <2>1, <2>4, <3>1, <3>3
  <2>. QED BY <1>1, <2>5, <2>6 DEF Acyclic
<1>. QED BY <1>5 DEF Acyclic

\* Fewer Tasks under the same parents are a forest still.
LEMMA AcyclicStays ==
  ASSUME Acyclic, Live' \subseteq Live, \A t \in Live : task'[t].parent = task[t].parent
  PROVE  Acyclic'
<1>1. ASSUME NEW S \in SUBSET Live', S # {} PROVE \E t \in S : task'[t].parent \notin S
  <2>1. PICK t \in S : task[t].parent \notin S
    BY <1>1 DEF Acyclic
  <2>. QED BY <1>1, <2>1
<1>. QED BY <1>1 DEF Acyclic

\* The Tasks that are still to be added.
NewIds == {r.id : r \in {q \in agenda.requests : q.op = "add"}}

\* A parent that a call sets is a row's, so it is none that is still to be added.
LEMMA NewStaysNoParent ==
  ASSUME TypeOK, NewIsNoParent, Held \subseteq Held',
         agenda'.requests \subseteq agenda.requests, agenda'.pulls \subseteq agenda.pulls,
         \A t \in Held' :
           \/ t \in Held /\ task'[t].parent = task[t].parent
           \/ task'[t].parent \in Held \cup {NoTask}
           \/ \E p \in agenda.pulls : task'[t].parent = p.row.parent
           \/ \E q \in agenda.requests : q.op = "add" /\ task'[t].parent = q.row.parent
  PROVE  NewIsNoParent'
<1>. SUFFICES ASSUME NEW r \in agenda'.requests, r.op = "add", task'[r.id] = NoRow
              PROVE  /\ \A t \in Held' : task'[t].parent # r.id
                     /\ \A p \in agenda'.pulls : p.row.parent # r.id
                     /\ \A q \in agenda'.requests : q.op = "add" => q.row.parent # r.id
  BY DEF NewIsNoParent
<1>1. r \in agenda.requests /\ r.id \in Tasks
  BY DEF TypeOK, CallRequest, WriteRequest
<1>2. r.id \notin Held /\ task[r.id] = NoRow /\ r.id # NoTask
  BY <1>1, TaskStoreAssumption DEF Held
<1>3. /\ \A t \in Held : task[t].parent # r.id
      /\ \A p \in agenda.pulls : p.row.parent # r.id
      /\ \A q \in agenda.requests : q.op = "add" => q.row.parent # r.id
  BY <1>1, <1>2 DEF NewIsNoParent
<1>4. \A t \in Held' : task'[t].parent # r.id
  BY <1>2, <1>3
<1>. QED BY <1>3, <1>4

-----------------------------------------------------------------------------
(* The inductive invariant                                                 *)

\* The inductive invariant, put together from what the lemmas are about.
LEMMA InvFromParts ==
  ASSUME TypeOK', NoCycle', CallsFit', NewIsNoParent',
         \A c \in Callers : \A t \in kept'[c] : t \in Held' /\ task'[t].done # 0
  PROVE  TasksInv'
<1>1. WalksAreSound' /\ WalksComeFirst' /\ StepsKnow' /\ CallsApart'
  BY FitCalls, PTL
<1>. QED BY <1>1 DEF TasksInv, KeptIsApart, CallsApart

\* Only a remove() has a tombstone wait for a push.
Marks ==
  /\ pending' \in SUBSET Tasks
  /\ \A t \in Held : task[t].deleted /\ t \in pending' => t \in pending \/ Removes(t)

\* So does updateIfLive.
LEMMA UpdateMarks ==
  ASSUME TypeOK, NEW id, NEW row, UpdateIfLive(id, row)
  PROVE  Marks
BY DEF TypeOK, UpdateIfLive, Marks, Live

LEMMA RunMarks ==
  ASSUME TasksInv, NEW c \in Callers, Run(c)
  PROVE  Marks
<1>1. TypeOK /\ StepsKnow /\ StoreStep(c)
  BY DEF TasksInv, Run
<1>2. CASE UNCHANGED pending
  BY <1>1, <1>2 DEF TypeOK, Marks
<1>3. CASE Stamp(c) \/ Link(c) \/ Date(c)
  <2>1. \E id, row : UpdateIfLive(id, row) BY <1>3 DEF Stamp, Link, Date
  <2>. QED BY <1>1, <2>1, UpdateMarks
<1>4. CASE RemoveStep(c)
  <2>. DEFINE id == Head(call[c].steps).id
  <2>1. At(c, "remove") /\ Busy(c) /\ pending' = pending \cup {id}
    BY <1>4 DEF RemoveStep, RemoveRow, At
  <2>2. Head(call[c].steps) \in Step BY <1>1, <2>1, HeadStep DEF TypeOK
  <2>3. id \in Tasks BY <2>1, <2>2, StepFields DEF At
  <2>4. Removes(id) BY <2>1 DEF Removes
  <2>. HIDE DEF id
  <2>. QED BY <1>1, <2>1, <2>3, <2>4 DEF TypeOK, Marks
<1>. QED BY <1>1, <1>2, <1>3, <1>4 DEF StoreStep, Complete, Children, Reparent, Walk, Advance,
       Recur, Postpone, Open, Members, Descend, Finish

\* A step of a call keeps the invariant.
LEMMA RunKeepsInv ==
  ASSUME TasksInv, NEW c \in Callers, Run(c)
  PROVE  TasksInv'
<1>1. TypeOK /\ CallsFit /\ NoCycle /\ NewIsNoParent /\ KeptIsApart
  BY CallsAreFit DEF TasksInv
<1>2. /\ StoreStep(c) /\ Interfere({c}) /\ UNCHANGED <<today, agenda, clock>>
      /\ raced' = (raced \/ (At(c, "link") /\ Walking(Callers \ {c})))
  BY DEF Run
<1>3. Link(c) \/ Spares(c)
  BY <1>2, StepSpares
<1>4. Settled /\ section' \in [Sections -> {"live", "archived", "deleted"}]
  BY <1>1, <1>3, LinkWrites DEF Spares, TypeOK
<1>5. Held' = Held /\ Live' \subseteq Live /\ task' \in [Tasks -> Row \cup {NoRow}]
  BY <1>4 DEF Settled
<1>6. /\ owed' \in [Callers -> SUBSET Tasks] /\ kept' \in [Callers -> SUBSET Tasks]
      /\ Interferes
      /\ \A d \in Callers : \A t \in kept'[d] : t \in Held' /\ task'[t].done # 0
  BY <1>1, <1>2, <1>5, InterfereKeeps
<1>7. Busy(c)
  BY <1>2 DEF StoreStep, Complete, Stamp, Children, Reparent, Walk, Link, Advance, Recur, Date,
              Postpone, Open, Members, Descend, RemoveStep, Finish, At
<1>8. call' \in [Callers -> Call]
  BY <1>2, <1>7, CallGoesOn, StepGoes
<1>9. TypeOK'
  <2>1. pending' \in SUBSET Tasks BY RunMarks DEF Marks
  <2>. QED BY <1>1, <1>2, <1>4, <1>5, <1>6, <1>8, <2>1 DEF TypeOK, Walking
<1>10. CallsFit'
  BY <1>2, <1>6, CallsStayFit
<1>11. NoCycle'
  <2>. SUFFICES ASSUME ~raced PROVE Acyclic'
    BY <1>2 DEF NoCycle
  <2>1. CASE Link(c)
    BY <2>1, LinkClosesNoCycle
  <2>2. CASE Spares(c)
    BY <1>1, <1>5, <2>2, AcyclicStays, InStore DEF Spares, NoCycle
  <2>. QED BY <1>3, <2>1, <2>2
<1>12. NewIsNoParent'
  <2>1. \A t \in Held' : \/ task'[t].parent = task[t].parent
                         \/ task'[t].parent \in Held \cup {NoTask}
    <3>1. CASE Spares(c)
      BY <1>5, <3>1 DEF Spares
    <3>2. CASE Link(c)
      <4>. DEFINE step == Head(call[c].steps)
      <4>1. /\ \A t \in Held : t # step.id \/ step.id \notin Live => task'[t] = task[t]
            /\ step.id \in Live => task'[step.id].parent = step.to
        BY <3>2, LinkWrites
      <4>2. 1 \in DOMAIN call[c].steps /\ step = call[c].steps[1] /\ step.do = "link"
        BY <1>1, <1>7, <3>2, HeadStep DEF Link, At
      <4>3. step.to \in Held \cup {NoTask}
        BY <4>2 DEF TasksInv, StepsKnow, Knows
      <4>. HIDE DEF step
      <4>. QED BY <1>5, <4>1, <4>3
    <3>. QED BY <1>3, <3>1, <3>2
  <2>2. agenda'.requests \subseteq agenda.requests /\ agenda'.pulls \subseteq agenda.pulls
    BY <1>2
  <2>. QED BY <1>1, <1>5, <2>1, <2>2, NewStaysNoParent
<1>. QED BY <1>6, <1>9, <1>10, <1>11, <1>12, InvFromParts

\* What a request carries, by what it asks.
LEMMA RequestFields ==
  ASSUME NEW r \in CallRequest \cup WriteRequest
  PROVE  /\ r.op \in Methods => r \in CallRequest
         /\ r.op \notin {"deleteSection", "archiveSection", "unarchiveSection"} =>
              "id" \in DOMAIN r /\ r.id \in Tasks
         /\ r.op \in {"deleteSection", "archiveSection", "unarchiveSection"} =>
              r.section \in Sections
         /\ r.op = "setParent" => r.to \in Tasks \cup {NoTask}
         /\ r.op = "setDateString" => r.rule \in Rule
         /\ r.op = "add" => r.row \in Row
         /\ r.op = "setSection" => r.section \in Sections \cup {NoSection}
         /\ r.op = "setDate" => r.date \in Int \cup {NoDate}
  BY SMTT(60) DEF CallRequest, WriteRequest, Methods

\* What a call promises to reach are Tasks.
LEMMA PromiseIsTasks ==
  ASSUME TypeOK, NEW r \in CallRequest
  PROVE  Promise(r) \in SUBSET Tasks
  BY DEF Promise, Below

\* A call starts with one step that is fit for it.
LEMMA FirstStepIsHarmless ==
  ASSUME NEW r \in CallRequest, NEW done, "id" \in DOMAIN r => r.id \notin done
  PROVE  Harmless(Steps(r), done)
<1>. DEFINE Simple(do) == [do |-> do, id |-> r.id]
            reparent == [do |-> "reparent", id |-> r.id, to |-> r.to]
            recur == [do |-> "recur", id |-> r.id, rule |-> r.rule]
            open(fate) == [do |-> "open", section |-> r.section, fate |-> fate]
<1>1. ASSUME NEW do \in {"complete", "completeForever", "advance", "postpone"},
             "id" \in DOMAIN r, r.id \in Tasks
      PROVE  Harmless(<<Simple(do)>>, done)
  <2>1. Simple(do) \in Step BY <1>1 DEF Step
  <2>2. Fit(Simple(do), done) BY <1>1 DEF Fit, Sound, Knows, Apart
  <2>. QED BY <2>1, <2>2, OneIsHarmless
<1>2. CASE r.op \in {"complete", "completeForever", "advanceRecurring", "postpone"}
  <2>1. "id" \in DOMAIN r /\ r.id \in Tasks BY <1>2, RequestFields
  <2>. QED BY <1>1, <1>2, <2>1 DEF Steps
<1>3. CASE r.op = "setParent"
  <2>1. r.id \in Tasks /\ r.to \in Tasks \cup {NoTask} BY <1>3, RequestFields
  <2>2. reparent \in Step BY <2>1 DEF Step
  <2>3. Fit(reparent, done) BY DEF Fit, Sound, Knows, Apart
  <2>. QED BY <1>3, <2>2, <2>3, OneIsHarmless DEF Steps
<1>4. CASE r.op = "setDateString"
  <2>1. r.id \in Tasks /\ r.rule \in Rule BY <1>4, RequestFields
  <2>2. recur \in Step BY <2>1 DEF Step
  <2>3. Fit(recur, done) BY DEF Fit, Sound, Knows, Apart
  <2>. QED BY <1>4, <2>2, <2>3, OneIsHarmless DEF Steps
<1>5. CASE r.op \in {"deleteSection", "archiveSection"}
  <2>1. r.section \in Sections BY <1>5, RequestFields
  <2>2. \A fate \in Fates : open(fate) \in Step BY <2>1 DEF Step
  <2>3. \A fate \in Fates : Fit(open(fate), done) BY DEF Fit, Sound, Knows, Apart
  <2>4. Harmless(<<open("remove")>>, done) /\ Harmless(<<open("complete")>>, done)
    BY <2>2, <2>3, OneIsHarmless DEF Fates
  <2>. QED BY <1>5, <2>4 DEF Steps
<1>6. r.op \in {"complete", "completeForever", "advanceRecurring", "postpone", "setParent",
                "setDateString", "deleteSection", "archiveSection"}
  BY DEF CallRequest
<1>. QED BY <1>2, <1>3, <1>4, <1>5, <1>6

\* What the setters have in common: none is in a walk's way.
Setter ==
  /\ task' \in [Tasks -> Row \cup {NoRow}]
  /\ Held \subseteq Held'
  /\ TreeKept
  /\ \A t \in Held : task[t].deleted => task'[t] = task[t]
  /\ section' \in [Sections -> {"live", "archived", "deleted"}]

\* A setter that leaves the parents alone.
LEMMA SettledIsSetter ==
  ASSUME TypeOK, Settled, \A t \in Held : task'[t].parent = task[t].parent,
         section' \in [Sections -> {"live", "archived", "deleted"}]
  PROVE  Setter /\ Held' = Held /\ \A t \in Held : task'[t].parent = task[t].parent
  BY InStore DEF Settled, Setter, TreeKept

\* What a setter writes into a row.
Filed(row, s) == [row EXCEPT !.section = s]
Reopened(row) == [row EXCEPT !.done = 0]
Moved(row, date) == [row EXCEPT !.date = date]
\* A Task whose series is over.
Ended(row) == [row EXCEPT !.rule = NoRule]

\* They are rows under the same parent, deleted or not as before.
LEMMA SetterRows ==
  ASSUME NEW row \in Row, NEW new,
         \/ \E s \in Sections \cup {NoSection} : new = Filed(row, s)
         \/ new = Reopened(row)
         \/ \E date \in Int \cup {NoDate} : new = Moved(row, date)
         \/ new = Ended(row)
  PROVE  new \in Row /\ new.deleted = row.deleted /\ new.parent = row.parent
  BY DEF Row, Filed, Reopened, Moved, Ended

\* A setter that goes through updateIfLive.
LEMMA UpdateIsSetter ==
  ASSUME TypeOK, NEW id \in Tasks, NEW row, UpdateIfLive(id, row), UNCHANGED section,
         id \in Live => row \in Row /\ row.deleted = task[id].deleted
                          /\ row.parent = task[id].parent
  PROVE  Setter /\ Held' = Held /\ \A t \in Held : task'[t].parent = task[t].parent
<1>1. id \in Live => row.deleted = FALSE
  BY InStore
<1>2. /\ Settled
      /\ \A t \in Tasks : t # id \/ id \notin Live => task'[t] = task[t]
      /\ id \in Live => task'[id] = row
  BY <1>1, UpdateSettles
<1>3. \A t \in Held : task'[t].parent = task[t].parent
  BY <1>2, InStore
<1>. QED BY <1>2, <1>3, SettledIsSetter DEF TypeOK

\* Every setter but an add leaves the tree as it is.
LEMMA SettersSet ==
  ASSUME TypeOK, NEW r \in CallRequest \cup WriteRequest,
         \/ RemoveTask(r) \/ Uncomplete(r) \/ SetSection(r) \/ SetDate(r) \/ EndRule(r)
         \/ UnarchiveSection(r)
  PROVE  Setter /\ Held' = Held /\ \A t \in Held : task'[t].parent = task[t].parent
<1>1. \A id \in Live : task[id] \in Row
  BY InStore
<1>2. CASE RemoveTask(r)
  <2>1. r.id \in Tasks /\ task[r.id] # NoRow BY <1>2, RequestFields DEF RemoveTask
  <2>2. r.id \in Held BY <2>1 DEF Held
  <2>3. task' = [task EXCEPT ![r.id].deleted = TRUE] BY <1>2 DEF RemoveTask, RemoveRow
  <2>4. Settled /\ \A t \in Held : task'[t].parent = task[t].parent
    BY <2>2, <2>3, RemovalSettles
  <2>. QED BY <1>2, <2>4, SettledIsSetter DEF RemoveTask, TypeOK
<1>3. CASE Uncomplete(r)
  <2>1. r.id \in Tasks BY <1>3, RequestFields DEF Uncomplete
  <2>2. UpdateIfLive(r.id, Reopened(task[r.id])) /\ UNCHANGED section
    BY <1>3 DEF Uncomplete, Reopened
  <2>3. LET new == Reopened(task[r.id])
        IN  r.id \in Live => new \in Row /\ new.deleted = task[r.id].deleted
                               /\ new.parent = task[r.id].parent
    BY <1>1, <2>1, SetterRows
  <2>. QED BY <2>1, <2>2, <2>3, UpdateIsSetter
<1>4. CASE SetSection(r)
  <2>1. r.id \in Tasks /\ r.section \in Sections \cup {NoSection}
    BY <1>4, RequestFields DEF SetSection
  <2>2. UpdateIfLive(r.id, Filed(task[r.id], r.section)) /\ UNCHANGED section
    BY <1>4 DEF SetSection, Filed
  <2>3. LET new == Filed(task[r.id], r.section)
        IN  r.id \in Live => new \in Row /\ new.deleted = task[r.id].deleted
                               /\ new.parent = task[r.id].parent
    BY <1>1, <2>1, SetterRows
  <2>. QED BY <2>1, <2>2, <2>3, UpdateIsSetter
<1>5. CASE SetDate(r)
  <2>1. r.id \in Tasks /\ r.date \in Int \cup {NoDate}
    BY <1>5, RequestFields DEF SetDate
  <2>2. UpdateIfLive(r.id, Moved(task[r.id], r.date)) /\ UNCHANGED section
    BY <1>5 DEF SetDate, Moved
  <2>3. LET new == Moved(task[r.id], r.date)
        IN  r.id \in Live => new \in Row /\ new.deleted = task[r.id].deleted
                               /\ new.parent = task[r.id].parent
    BY <1>1, <2>1, SetterRows
  <2>. QED BY <2>1, <2>2, <2>3, UpdateIsSetter
<1>6. CASE EndRule(r)
  <2>1. r.id \in Tasks BY <1>6, RequestFields DEF EndRule
  <2>2. UpdateIfLive(r.id, Ended(task[r.id])) /\ UNCHANGED section
    BY <1>6 DEF EndRule, Ended
  <2>3. LET new == Ended(task[r.id])
        IN  r.id \in Live => new \in Row /\ new.deleted = task[r.id].deleted
                               /\ new.parent = task[r.id].parent
    BY <1>1, <2>1, SetterRows
  <2>. QED BY <2>1, <2>2, <2>3, UpdateIsSetter
<1>7. CASE UnarchiveSection(r)
  <2>1. UNCHANGED task BY <1>7 DEF UnarchiveSection
  <2>2. Settled /\ \A t \in Held : task'[t].parent = task[t].parent
    BY <2>1, UnchangedSettles
  <2>3. section' \in [Sections -> {"live", "archived", "deleted"}]
    BY <1>7 DEF UnarchiveSection, TypeOK
  <2>. QED BY <2>2, <2>3, SettledIsSetter
<1>. QED BY <1>2, <1>3, <1>4, <1>5, <1>6, <1>7

\* An add brings a row that no Task that is held has for a parent.
LEMMA AddSets ==
  ASSUME TypeOK, NewIsNoParent, NEW r \in agenda.requests, Add(r)
  PROVE  /\ Setter
         /\ r.id \in Tasks \ Held /\ r.row \in Row
         /\ task' = [task EXCEPT ![r.id] = r.row]
         /\ \A t \in Held : task[t].parent # r.id /\ task'[t] = task[t]
         /\ r.row.parent # r.id
         /\ Held' = Held \cup {r.id}
<1>1. r \in CallRequest \cup WriteRequest /\ r.op = "add"
  BY DEF TypeOK, Add
<1>2. r.id \in Tasks /\ r.row \in Row /\ r.row # NoRow
  BY <1>1, RequestFields, NoRowAssumption
<1>3. task[r.id] = NoRow /\ task' = [task EXCEPT ![r.id] = r.row] /\ UNCHANGED section
  BY DEF Add
<1>4. task \in [Tasks -> Row \cup {NoRow}]
  BY DEF TypeOK
<1>5. /\ task' \in [Tasks -> Row \cup {NoRow}] /\ task'[r.id] = r.row
      /\ \A t \in Tasks : t # r.id => task'[t] = task[t]
  BY <1>2, <1>3, <1>4
<1>6. r.id \notin Held /\ Held' = Held \cup {r.id}
  BY <1>2, <1>3, <1>5 DEF Held
<1>7. r.row.parent # r.id /\ \A t \in Held : task[t].parent # r.id
  BY <1>1, <1>3 DEF NewIsNoParent
<1>8. \A t \in Held : t # r.id /\ t \in Tasks /\ task'[t] = task[t]
  BY <1>5, <1>6 DEF Held
<1>9. TreeKept
  BY <1>5, <1>7, <1>8 DEF TreeKept, Live
<1>. QED BY <1>2, <1>3, <1>5, <1>6, <1>7, <1>8, <1>9 DEF Setter, TypeOK

\* A Task that is nobody's parent closes no cycle.
LEMMA AddClosesNoCycle ==
  ASSUME TypeOK, NewIsNoParent, NEW r \in agenda.requests, Add(r), Acyclic
  PROVE  Acyclic'
<1>1. /\ r.id \in Tasks \ Held /\ r.row \in Row
      /\ task' = [task EXCEPT ![r.id] = r.row]
      /\ \A t \in Held : task[t].parent # r.id /\ task'[t] = task[t]
      /\ r.row.parent # r.id /\ Held' = Held \cup {r.id}
  BY AddSets
<1>2. task'[r.id] = r.row
  BY <1>1 DEF TypeOK
<1>3. Live' \subseteq Held \cup {r.id} /\ Live' \cap Held \subseteq Live
  BY <1>1 DEF Live, Held
<1>4. ASSUME NEW S \in SUBSET Live', S # {}, \A t \in S : task'[t].parent \in S
      PROVE  FALSE
  <2>. DEFINE U == S \ {r.id}
  <2>1. U \in SUBSET Live /\ \A t \in U : task'[t] = task[t] /\ task[t].parent # r.id
    BY <1>1, <1>3, <1>4
  <2>2. \A t \in U : task[t].parent \in U
    BY <1>4, <2>1
  <2>3. U # {}
    BY <1>1, <1>2, <1>4
  <2>. QED BY <2>1, <2>2, <2>3 DEF Acyclic
<1>. QED BY <1>4 DEF Acyclic

\* The setters move no Task.
LEMMA SetterClosesNoCycle ==
  ASSUME TypeOK, Setter, Held' = Held, Acyclic
  PROVE  Acyclic'
<1>1. Live' \subseteq Held'
  BY DEF Live, Held
<1>2. \A t \in Live' : t \in Live /\ task'[t].parent = task[t].parent
  BY <1>1 DEF Setter, TreeKept
<1>3. ASSUME NEW S \in SUBSET Live', S # {} PROVE \E t \in S : task'[t].parent \notin S
  <2>1. S \in SUBSET Live BY <1>2
  <2>2. PICK t \in S : task[t].parent \notin S BY <1>3, <2>1 DEF Acyclic
  <2>. QED BY <1>2, <2>2
<1>. QED BY <1>3 DEF Acyclic

\* Calls that have read nothing but what a setter leaves are fit after it.
LEMMA SetterKeepsCalls ==
  ASSUME TypeOK, CallsFit, Setter, Interferes, UNCHANGED <<call, raced>>
  PROVE  CallsFit'
<1>1. ASSUME NEW c \in Callers
      PROVE  Harmless(call[c].steps, kept[c])'
  <2>1. PICK now : now = call'[c].steps
    OBVIOUS
  <2>2. PICK less : less = kept'[c]
    OBVIOUS
  <2>3. Harmless(now, kept[c])
    BY <2>1 DEF CallsFit
  <2>4. Harmless(now, less)'
    BY <2>2, <2>3, HarmlessStays DEF Interferes, Setter
  <2>. QED BY <2>1, <2>2, <2>4
<1>. QED BY <1>1 DEF CallsFit

\* A setter marks what it writes.
LEMMA WriteMarks ==
  ASSUME TypeOK, NEW r \in agenda.requests, Write(r)
  PROVE  Marks
<1>1. r \in CallRequest \cup WriteRequest
  BY DEF TypeOK
<1>2. CASE Add(r)
  <2>1. r.op = "add" /\ task[r.id] = NoRow /\ pending' = pending \cup {r.id}
    BY <1>2 DEF Add
  <2>2. r.id \in Tasks BY <1>1, <2>1, RequestFields
  <2>. QED BY <2>1, <2>2 DEF TypeOK, Marks, Held
<1>3. CASE RemoveTask(r)
  <2>1. r.op = "remove" /\ pending' = pending \cup {r.id}
    BY <1>3 DEF RemoveTask, RemoveRow
  <2>2. r.id \in Tasks /\ Removes(r.id) BY <1>1, <2>1, RequestFields DEF Removes
  <2>. QED BY <2>1, <2>2 DEF TypeOK, Marks
<1>4. CASE Uncomplete(r) \/ SetSection(r) \/ SetDate(r) \/ EndRule(r)
  <2>1. \E id, row : UpdateIfLive(id, row)
    BY <1>4 DEF Uncomplete, SetSection, SetDate, EndRule
  <2>. QED BY <2>1, UpdateMarks
<1>5. CASE UnarchiveSection(r)
  BY <1>5 DEF UnarchiveSection, TypeOK, Marks
<1>. QED BY <1>2, <1>3, <1>4, <1>5 DEF Write

\* A setter keeps the invariant.
LEMMA WriteKeepsInv ==
  ASSUME TasksInv, NEW r \in agenda.requests, Write(r)
  PROVE  TasksInv'
<1>1. TypeOK /\ CallsFit /\ NoCycle /\ NewIsNoParent /\ KeptIsApart
  BY CallsAreFit DEF TasksInv
<1>2. /\ agenda' = [agenda EXCEPT !.requests = agenda.requests \ {r}] /\ clock' = clock + 1
      /\ Interfere({}) /\ UNCHANGED <<call, today, raced>>
  BY DEF Write, Asked
<1>3. r \in CallRequest \cup WriteRequest
  BY <1>1 DEF TypeOK
<1>4. \/ Add(r)
      \/ RemoveTask(r) \/ Uncomplete(r) \/ SetSection(r) \/ SetDate(r) \/ EndRule(r)
         \/ UnarchiveSection(r)
  BY DEF Write
<1>5. Setter
  BY <1>1, <1>3, <1>4, AddSets, SettersSet
<1>6. /\ agenda'.requests = agenda.requests \ {r} /\ agenda'.pulls = agenda.pulls
      /\ agenda' \in [requests : SUBSET (CallRequest \cup WriteRequest),
                      pulls : SUBSET [id : Tasks, row : Row],
                      acks : SUBSET Tasks, days : SUBSET Int, restarts : Nat]
  BY <1>1, <1>2 DEF TypeOK
<1>7. /\ owed' \in [Callers -> SUBSET Tasks] /\ kept' \in [Callers -> SUBSET Tasks]
      /\ Interferes
      /\ \A d \in Callers : \A t \in kept'[d] : t \in Held' /\ task'[t].done # 0
  BY <1>1, <1>2, <1>5, InterfereKeeps DEF Setter
<1>8. TypeOK'
  <2>1. clock' \in Nat \ {0} /\ today' \in Int /\ raced' \in BOOLEAN
        /\ call' \in [Callers -> Call]
    BY <1>1, <1>2 DEF TypeOK
  <2>2. pending' \in SUBSET Tasks BY <1>1, WriteMarks DEF Marks
  <2>. QED BY <1>5, <1>6, <1>7, <2>1, <2>2 DEF TypeOK, Setter
<1>9. CallsFit'
  BY <1>1, <1>2, <1>5, <1>7, SetterKeepsCalls
<1>10. NoCycle'
  <2>. SUFFICES ASSUME Acyclic PROVE Acyclic'
    BY <1>1, <1>2 DEF NoCycle
  <2>1. CASE Add(r)
    BY <1>1, <2>1, AddClosesNoCycle
  <2>2. CASE ~Add(r)
    BY <1>1, <1>3, <1>4, <2>2, SettersSet, SetterClosesNoCycle
  <2>. QED BY <2>1, <2>2
<1>11. NewIsNoParent'
  <2>1. CASE Add(r)
    <3>1. /\ \A t \in Held : task'[t] = task[t]
          /\ task'[r.id].parent = r.row.parent /\ Held' = Held \cup {r.id}
      BY <1>1, <2>1, AddSets DEF TypeOK
    <3>2. r.op = "add" BY <2>1 DEF Add
    <3>. QED BY <1>1, <1>5, <1>6, <3>1, <3>2, NewStaysNoParent DEF Setter
  <2>2. CASE ~Add(r)
    <3>1. Held' = Held /\ \A t \in Held : task'[t].parent = task[t].parent
      BY <1>1, <1>3, <1>4, <2>2, SettersSet
    <3>. QED BY <1>1, <1>5, <1>6, <3>1, NewStaysNoParent DEF Setter
  <2>. QED BY <2>1, <2>2
<1>. QED BY <1>7, <1>8, <1>9, <1>10, <1>11, InvFromParts

\* A call that starts keeps the invariant.
LEMMA BeginKeepsInv ==
  ASSUME TasksInv, NEW c \in Callers, NEW r \in agenda.requests, Begin(c, r)
  PROVE  TasksInv'
<1>. DEFINE mine == {t \in Held : task[t].done # 0}
                      \ (IF "id" \in DOMAIN r THEN {r.id} ELSE {})
            new == [op |-> r.op, steps |-> Steps(r), stamp |-> clock, today |-> today]
<1>1. TypeOK /\ CallsFit /\ NoCycle /\ NewIsNoParent /\ KeptIsApart
  BY CallsAreFit DEF TasksInv
<1>2. /\ r.op \in Methods
      /\ agenda' = [agenda EXCEPT !.requests = agenda.requests \ {r}] /\ clock' = clock + 1
      /\ call' = [call EXCEPT ![c] = new]
      /\ owed' = [owed EXCEPT ![c] = Promise(r)]
      /\ kept' = [kept EXCEPT ![c] = mine]
      /\ UNCHANGED <<task, pending, section, today, raced>>
  BY DEF Begin, Asked
<1>3. r \in CallRequest
  BY <1>1, <1>2, RequestFields DEF TypeOK
<1>4. mine \in SUBSET Tasks /\ mine \subseteq Held
      /\ ("id" \in DOMAIN r => r.id \notin mine)
      /\ \A t \in mine : task[t].done # 0
  BY <1>1, InStore
<1>5. Harmless(Steps(r), mine) /\ Promise(r) \in SUBSET Tasks
  <2>. HIDE DEF mine
  <2>. QED BY <1>1, <1>3, <1>4, FirstStepIsHarmless, PromiseIsTasks
<1>. HIDE DEF mine
<1>6. new \in Call
  <2>1. Steps(r) \in Seq(Step) BY <1>5 DEF Harmless
  <2>2. clock \in Nat /\ today \in Int BY <1>1 DEF TypeOK
  <2>. QED BY <1>2, <2>1, <2>2 DEF Call
<1>7. /\ call' \in [Callers -> Call] /\ call'[c].steps = Steps(r)
      /\ \A d \in Callers : d # c => call'[d] = call[d]
  <2>1. call \in [Callers -> Call] BY <1>1 DEF TypeOK
  <2>2. new.steps = Steps(r) OBVIOUS
  <2>. HIDE DEF new
  <2>. QED BY <1>2, <1>6, <2>1, <2>2
<1>8. /\ owed' \in [Callers -> SUBSET Tasks] /\ kept' \in [Callers -> SUBSET Tasks]
      /\ kept'[c] = mine /\ \A d \in Callers : d # c => kept'[d] = kept[d]
  BY <1>1, <1>2, <1>4, <1>5 DEF TypeOK
<1>9. /\ agenda'.requests = agenda.requests \ {r} /\ agenda'.pulls = agenda.pulls
      /\ agenda' \in [requests : SUBSET (CallRequest \cup WriteRequest),
                      pulls : SUBSET [id : Tasks, row : Row],
                      acks : SUBSET Tasks, days : SUBSET Int, restarts : Nat]
  BY <1>1, <1>2 DEF TypeOK
<1>10. Held' = Held /\ Live' = Live
  BY <1>2 DEF Held, Live
<1>11. TypeOK'
  <2>1. clock' \in Nat \ {0} BY <1>1, <1>2 DEF TypeOK
  <2>. QED BY <1>1, <1>2, <1>7, <1>8, <1>9, <2>1 DEF TypeOK
<1>12. NoCycle'
  BY <1>1, <1>2, <1>10 DEF NoCycle, Acyclic
<1>13. TreeKept
  BY <1>2, <1>10 DEF TreeKept
<1>14. CallsFit'
  <2>1. ASSUME NEW d \in Callers
        PROVE  Harmless(call[d].steps, kept[d])'
    <3>1. PICK now : now = call'[d].steps
      OBVIOUS
    <3>2. PICK less : less = kept'[d]
      OBVIOUS
    <3>3. Harmless(now, less)
      BY <1>1, <1>5, <1>7, <1>8, <3>1, <3>2 DEF CallsFit
    <3>4. Harmless(now, less)'
      BY <1>2, <1>10, <1>13, <3>3, HarmlessStays
    <3>. QED BY <3>1, <3>2, <3>4
  <2>. QED BY <2>1 DEF CallsFit
<1>15. NewIsNoParent'
  BY <1>1, <1>2, <1>9, <1>10, NewStaysNoParent
<1>16. \A d \in Callers : \A t \in kept'[d] : t \in Held' /\ task'[t].done # 0
  BY <1>1, <1>2, <1>4, <1>8, <1>10 DEF KeptIsApart
<1>. QED BY <1>11, <1>12, <1>14, <1>15, <1>16, InvFromParts

\* A pull keeps the invariant: a walk it races is marked.
LEMMA PullKeepsInv ==
  ASSUME TasksInv, NEW p \in agenda.pulls, Pull(p)
  PROVE  TasksInv'
<1>1. TypeOK /\ CallsFit /\ NewIsNoParent /\ KeptIsApart
  BY CallsAreFit DEF TasksInv
<1>2. /\ agenda' = [agenda EXCEPT !.pulls = agenda.pulls \ {p}]
      /\ task' = [task EXCEPT ![p.id] = p.row]
      /\ pending' = pending \ {p.id}
      /\ raced' = (raced \/ Walking(Callers) \/ ~Acyclic')
      /\ Interfere({}) /\ UNCHANGED <<section, call, today, clock>>
  BY DEF Pull
<1>3. p.id \in Tasks /\ p.row \in Row /\ p.row # NoRow
  BY <1>1, NoRowAssumption DEF TypeOK
<1>4. /\ task' \in [Tasks -> Row \cup {NoRow}] /\ task'[p.id] = p.row
      /\ \A t \in Tasks : t # p.id => task'[t] = task[t]
  BY <1>1, <1>2, <1>3 DEF TypeOK
<1>5. Held' = Held \cup {p.id}
  BY <1>3, <1>4 DEF Held
<1>6. /\ owed' \in [Callers -> SUBSET Tasks] /\ kept' \in [Callers -> SUBSET Tasks]
      /\ Interferes
      /\ \A d \in Callers : \A t \in kept'[d] : t \in Held' /\ task'[t].done # 0
  BY <1>1, <1>2, <1>5, InterfereKeeps
<1>7. /\ agenda'.requests = agenda.requests /\ agenda'.pulls \subseteq agenda.pulls
      /\ agenda' \in [requests : SUBSET (CallRequest \cup WriteRequest),
                      pulls : SUBSET [id : Tasks, row : Row],
                      acks : SUBSET Tasks, days : SUBSET Int, restarts : Nat]
  BY <1>1, <1>2 DEF TypeOK
<1>8. TypeOK'
  <2>1. raced' \in BOOLEAN BY <1>1, <1>2 DEF TypeOK, Walking
  <2>. QED BY <1>1, <1>2, <1>4, <1>6, <1>7, <2>1 DEF TypeOK
<1>9. NoCycle'
  BY <1>2 DEF NoCycle
<1>10. CallsFit'
  <2>1. ASSUME NEW d \in Callers
        PROVE  Harmless(call[d].steps, kept[d])'
    <3>1. PICK now : now = call'[d].steps
      OBVIOUS
    <3>2. PICK less : less = kept'[d]
      OBVIOUS
    <3>3. Harmless(now, kept[d])
      BY <1>1, <1>2, <3>1 DEF CallsFit
    <3>4. raced' \/ \A k \in DOMAIN now : now[k].do \notin {"walk", "link"}
      BY <1>1, <1>2, <3>1, NotWalking DEF Walking
    <3>5. Held \subseteq Held' /\ (raced => raced') /\ less \subseteq kept[d]
      BY <1>2, <1>5, <1>6, <3>2 DEF Interferes
    <3>6. Harmless(now, less)'
      BY <3>3, <3>4, <3>5, HarmlessStays
    <3>. QED BY <3>1, <3>2, <3>6
  <2>. QED BY <2>1 DEF CallsFit
<1>11. NewIsNoParent'
  <2>1. \A t \in Held' : \/ t \in Held /\ task'[t].parent = task[t].parent
                         \/ task'[t].parent = p.row.parent
    BY <1>4, <1>5, InStore, <1>1
  <2>2. Held \subseteq Held' /\ agenda'.requests \subseteq agenda.requests
        /\ agenda'.pulls \subseteq agenda.pulls
    BY <1>5, <1>7
  <2>. QED BY <1>1, <2>1, <2>2, NewStaysNoParent
<1>. QED BY <1>6, <1>8, <1>9, <1>10, <1>11, InvFromParts

\* The day changes, or a push is answered, or nothing happens.
LEMMA TodayKeepsInv ==
  ASSUME TasksInv, today' \in Int, pending' \in SUBSET Tasks,
         UNCHANGED <<task, section, call, clock, raced, owed, kept>>,
         agenda'.requests = agenda.requests, agenda'.pulls = agenda.pulls,
         agenda' \in [requests : SUBSET (CallRequest \cup WriteRequest),
                      pulls : SUBSET [id : Tasks, row : Row],
                      acks : SUBSET Tasks, days : SUBSET Int, restarts : Nat]
  PROVE  TasksInv'
<1>1. TypeOK' BY DEF TasksInv, TypeOK
<1>2. Held' = Held /\ Live' = Live BY DEF Held, Live
<1>3. NoCycle' BY <1>2 DEF TasksInv, NoCycle, Acyclic
<1>4. NewIsNoParent' BY <1>2 DEF TasksInv, NewIsNoParent
<1>5. (WalksAreSound /\ WalksComeFirst /\ StepsKnow)'
  BY <1>2 DEF TasksInv, WalksAreSound, Sound, WalksComeFirst, StepsKnow, Knows, Busy
<1>6. KeptIsApart' BY <1>2 DEF TasksInv, KeptIsApart, Apart
<1>. QED BY <1>1, <1>3, <1>4, <1>5, <1>6 DEF TasksInv

\* Midnight keeps the inductive invariant.
LEMMA NewDayKeepsInv ==
  ASSUME TasksInv, NEW d \in agenda.days, NewDay(d)
  PROVE  TasksInv'
<1>1. /\ today' = d /\ agenda' = [agenda EXCEPT !.days = {e \in agenda.days : e > d}]
      /\ UNCHANGED <<task, pending, section, call, clock, raced, owed, kept>>
  BY DEF NewDay
<1>2. /\ d \in Int /\ pending \in SUBSET Tasks /\ {e \in agenda.days : e > d} \in SUBSET Int
      /\ agenda \in [requests : SUBSET (CallRequest \cup WriteRequest),
                     pulls : SUBSET [id : Tasks, row : Row],
                     acks : SUBSET Tasks, days : SUBSET Int, restarts : Nat]
  BY DEF TasksInv, TypeOK
<1>. QED BY <1>1, <1>2, TodayKeepsInv

\* An answered push keeps it.
LEMMA AcknowledgeKeepsInv ==
  ASSUME TasksInv, NEW t \in agenda.acks, Acknowledge(t)
  PROVE  TasksInv'
<1>1. /\ pending' = pending \ {t} /\ agenda' = [agenda EXCEPT !.acks = agenda.acks \ {t}]
      /\ UNCHANGED <<task, section, call, today, clock, raced, owed, kept>>
  BY DEF Acknowledge
<1>2. /\ today \in Int /\ pending \in SUBSET Tasks /\ agenda.acks \ {t} \in SUBSET Tasks
      /\ agenda \in [requests : SUBSET (CallRequest \cup WriteRequest),
                     pulls : SUBSET [id : Tasks, row : Row],
                     acks : SUBSET Tasks, days : SUBSET Int, restarts : Nat]
  BY DEF TasksInv, TypeOK
<1>. QED BY <1>1, <1>2, TodayKeepsInv

\* A closed tab leaves no call.
LEMMA RestartKeepsInv ==
  ASSUME TasksInv, Restart
  PROVE  TasksInv'
<1>1. TypeOK /\ NoCycle /\ NewIsNoParent
  BY DEF TasksInv
<1>2. /\ agenda' = [agenda EXCEPT !.restarts = agenda.restarts - 1] /\ agenda.restarts > 0
      /\ call' = [c \in Callers |-> Idle] /\ owed' = [c \in Callers |-> {}]
      /\ kept' = [c \in Callers |-> {}]
      /\ UNCHANGED <<task, pending, section, today, clock, raced>>
  BY DEF Restart
<1>3. /\ agenda'.requests = agenda.requests /\ agenda'.pulls = agenda.pulls
      /\ agenda' \in [requests : SUBSET (CallRequest \cup WriteRequest),
                      pulls : SUBSET [id : Tasks, row : Row],
                      acks : SUBSET Tasks, days : SUBSET Int, restarts : Nat]
  BY <1>1, <1>2 DEF TypeOK
<1>4. Idle \in Call /\ Idle.steps = <<>>
  <2>1. <<>> \in Seq(Step) OBVIOUS
  <2>. QED BY <2>1 DEF Idle, Call
<1>5. TypeOK'
  BY <1>1, <1>2, <1>3, <1>4 DEF TypeOK
<1>6. Held' = Held /\ Live' = Live
  BY <1>2 DEF Held, Live
<1>7. NoCycle'
  BY <1>1, <1>2, <1>6 DEF NoCycle, Acyclic
<1>8. NewIsNoParent'
  BY <1>1, <1>2, <1>3, <1>6 DEF NewIsNoParent
<1>9. ASSUME NEW c \in Callers PROVE Harmless(call[c].steps, kept[c])'
  <2>1. call'[c].steps = <<>> BY <1>2, <1>4
  <2>2. (\A done : Harmless(<<>>, done))' BY DEF Harmless
  <2>. QED BY <2>1, <2>2
<1>10. CallsFit' BY <1>9 DEF CallsFit
<1>11. \A c \in Callers : \A t \in kept'[c] : t \in Held' /\ task'[t].done # 0
  BY <1>2
<1>. QED BY <1>5, <1>7, <1>8, <1>10, <1>11, InvFromParts

\* What a scene starts with.
LEMMA InitHasInv ==
  Init => TasksInv
<1>. SUFFICES ASSUME Init PROVE TasksInv
  OBVIOUS
<1>1. PICK s \in Scenes :
        /\ task = s.task /\ pending = s.pending /\ section = s.section
        /\ call = [c \in Callers |-> Idle] /\ today = s.today
        /\ agenda = [requests |-> s.requests, pulls |-> s.pulls, acks |-> s.acks,
                     days |-> s.days, restarts |-> s.restarts]
        /\ clock = 1 /\ raced = FALSE
        /\ owed = [c \in Callers |-> {}] /\ kept = [c \in Callers |-> {}]
  BY DEF Init
<1>2. s \in Scene
  BY <1>1, ScenesAssumption
<1>4. Idle \in Call /\ Idle.steps = <<>>
  <2>1. <<>> \in Seq(Step) OBVIOUS
  <2>. QED BY <2>1 DEF Idle, Call
<1>5. TypeOK
  <2>1. /\ task \in [Tasks -> Row \cup {NoRow}] /\ pending \in SUBSET Tasks
        /\ section \in [Sections -> {"live", "archived", "deleted"}]
        /\ today \in Int /\ clock \in Nat \ {0} /\ raced \in BOOLEAN
    <3>1. /\ s.task \in [Tasks -> Row \cup {NoRow}] /\ s.pending \in SUBSET Tasks
          /\ s.section \in [Sections -> {"live", "archived", "deleted"}]
          /\ s.today \in Int
      BY <1>2 DEF Scene
    <3>2. 1 \in Nat \ {0} /\ FALSE \in BOOLEAN
      OBVIOUS
    <3>. QED BY <1>1, <3>1, <3>2
  <2>2. agenda \in [requests : SUBSET (CallRequest \cup WriteRequest),
                   pulls : SUBSET [id : Tasks, row : Row],
                   acks : SUBSET Tasks, days : SUBSET Int, restarts : Nat]
    BY <1>1, <1>2 DEF Scene
  <2>3. /\ call \in [Callers -> Call]
        /\ owed \in [Callers -> SUBSET Tasks] /\ kept \in [Callers -> SUBSET Tasks]
    BY <1>1, <1>4
  <2>. QED BY <2>1, <2>2, <2>3 DEF TypeOK
<1>6. Live = {t \in Tasks : s.task[t] # NoRow /\ ~s.task[t].deleted}
  BY <1>1 DEF Live
<1>7. NoCycle
  BY <1>1, <1>6, ScenesAssumption DEF NoCycle, Acyclic
<1>8. NewIsNoParent
  <2>. SUFFICES ASSUME NEW r \in s.requests, r.op = "add"
                PROVE  /\ \A t \in Held : task[t].parent # r.id
                       /\ \A p \in s.pulls : p.row.parent # r.id
                       /\ \A q \in s.requests : q.op = "add" => q.row.parent # r.id
    BY <1>1 DEF NewIsNoParent
  <2>. DEFINE Rows == {s.task[t] : t \in {u \in Tasks : s.task[u] # NoRow}}
                        \cup {p.row : p \in s.pulls}
                        \cup {q.row : q \in {x \in s.requests : x.op = "add"}}
  <2>1. \A row \in Rows : row.parent # r.id
    BY <1>1, ScenesAssumption
  <2>2. \A t \in Held : task[t] \in Rows
    BY <1>1 DEF Held
  <2>3. \A p \in s.pulls : p.row \in Rows
    OBVIOUS
  <2>4. \A q \in s.requests : q.op = "add" => q.row \in Rows
    OBVIOUS
  <2>. HIDE DEF Rows
  <2>. QED BY <2>1, <2>2, <2>3, <2>4
<1>9. CallsFit
  <2>1. \A c \in Callers : call[c].steps = <<>> BY <1>1, <1>4
  <2>. QED BY <2>1, NothingIsHarmless DEF CallsFit
<1>10. \A c \in Callers : kept[c] = {}
  BY <1>1
<1>. QED BY <1>5, <1>7, <1>8, <1>9, <1>10, FitCalls DEF TasksInv, KeptIsApart, CallsApart

-----------------------------------------------------------------------------
(* What a cascade still owes                                               *)

\* A Task that todo was going to find is still going to be found, unless it is
\* one of gone: what is closed now was closed before once gone is put back.
LEMMA StillAhead ==
  ASSUME NEW table, NEW table2, NEW op, NEW todo, NEW todo2, NEW due, NEW due2,
         NEW gone \in SUBSET Tasks, NEW t, Ahead(table, op, todo, due, t),
         \A S \in SUBSET Tasks : Closed(table2, op, todo2, due2, S) =>
                                   Closed(table, op, todo, due, S \cup gone)
  PROVE  t \in gone \/ Ahead(table2, op, todo2, due2, t)
<1>. SUFFICES ASSUME t \notin gone, NEW S \in SUBSET Tasks,
                     Closed(table2, op, todo2, due2, S)
              PROVE  t \in S
  BY DEF Ahead
<1>1. Closed(table, op, todo, due, S \cup gone) /\ S \cup gone \in SUBSET Tasks
  OBVIOUS
<1>2. t \in S \cup gone
  BY <1>1 DEF Ahead
<1>. QED BY <1>2

\* Who owes nothing is done.
LEMMA NothingIsDue ==
  ASSUME NEW table, NEW op, op \notin Cascading, NEW todo
  PROVE  Due(table, op, todo, {})
<1>1. op \notin Completing
  BY DEF Cascading
<1>. QED BY <1>1, Zenon DEF Due, Provides

\* How a step h of a call replaced by the steps of new, with the rest of them
\* left, has changed the table.
Moves(table, table2, op, h, rest, new, due) ==
  /\ \A t \in due : /\ table[t] # NoRow /\ table2[t] # NoRow
                    /\ table2[t].parent = table[t].parent
  /\ Alive(table2) \subseteq Alive(table)
  /\ op \in Completing => Alive(table2) = Alive(table)
  /\ \A t \in due : Reached(table, op, t) => Reached(table2, op, t)
  /\ \A t \in due : Lists(h, t) => Reached(table2, op, t) \/ Listed(new, t)
  /\ h.do = "remove" => h.id \notin Alive(table2)
  /\ \A step \in rest : step.do # "stamp"

\* What was listed is so still, or reached.
LEMMA ListedStays ==
  ASSUME NEW table, NEW table2, NEW op, NEW h, NEW rest, NEW new, NEW due,
         Moves(table, table2, op, h, rest, new, due), NEW t \in due,
         Reached(table, op, t) \/ Listed({h} \cup rest, t)
  PROVE  Reached(table2, op, t) \/ Listed(new \cup rest, t)
<1>1. CASE Reached(table, op, t)
  BY <1>1 DEF Moves
<1>2. CASE Lists(h, t)
  BY <1>2 DEF Moves, Listed
<1>3. CASE Listed(rest, t)
  BY <1>3 DEF Listed
<1>. QED BY <1>1, <1>2, <1>3 DEF Listed

\* The steps that are left provide what they did.
LEMMA RestProvides ==
  ASSUME NEW table, NEW table2, NEW op, NEW h, NEW rest, NEW new, NEW due,
         Moves(table, table2, op, h, rest, new, due),
         NEW step \in rest, Provides(table, op, {h} \cup rest, step, due)
  PROVE  Provides(table2, op, new \cup rest, step, due)
<1>. DEFINE old == {h} \cup rest  todo == new \cup rest
<1>1. ASSUME step.do = "descend", NEW t \in due \cap step.frontier
      PROVE  Reached(table2, op, t) \/ Listed(todo, t)
  <2>1. Reached(table, op, t) \/ Listed(old, t) BY <1>1 DEF Provides
  <2>. QED BY <2>1, ListedStays
<1>2. ASSUME step.do = "descend", step.fate = "remove", NEW t \in due \cap Alive(table2),
             table2[t].parent \in (ToSet(step.found) \cup {step.id}) \ step.frontier
      PROVE  t \in ToSet(step.found)
  <2>1. t \in due \cap Alive(table) /\ table[t].parent = table2[t].parent BY <1>2 DEF Moves
  <2>. QED BY <1>2, <2>1 DEF Provides
<1>3. ASSUME step.do = "remove", NEW t \in due \cap Alive(table2), table2[t].parent = step.id
      PROVE  \E other \in todo : other.do = "remove" /\ other.id = t
  <2>1. t \in due \cap Alive(table) /\ table[t].parent = step.id BY <1>3 DEF Moves
  <2>2. PICK other \in old : other.do = "remove" /\ other.id = t BY <1>3, <2>1 DEF Provides
  <2>3. other # h BY <1>3, <2>2 DEF Moves
  <2>. QED BY <2>2, <2>3
<1>4. step.do # "stamp"
  BY DEF Moves
<1>5. ASSUME op \in Completing, step.do = "children", step.id \in due
      PROVE  Reached(table2, op, step.id) \/ Listed(todo, step.id)
  <2>1. Reached(table, op, step.id) \/ Listed(old, step.id) BY <1>5 DEF Provides
  <2>. QED BY <1>5, <2>1, ListedStays
<1>6. ASSUME op \in Completing, step.do \in Completing
      PROVE  step.id \in Alive(table2) \/ \A t \in due : table2[t].parent # step.id
  <2>1. Alive(table2) = Alive(table) /\ \A t \in due : table2[t].parent = table[t].parent
    BY <1>6 DEF Moves
  <2>. QED BY <1>6, <2>1 DEF Provides
<1>. HIDE DEF todo, old
<1>. QED BY <1>1, <1>2, <1>3, <1>4, <1>5, <1>6, Zenon DEF Provides, todo

\* When a step's changes leave what it was going to find to others, or reach it,
\* the call has not lost sight of what it owes.
LEMMA StepIsDue ==
  ASSUME NEW table, NEW table2, NEW op, NEW h, NEW rest, NEW new, NEW due,
         op \in Cascading,
         Due(table, op, {h} \cup rest, due),
         Moves(table, table2, op, h, rest, new, due),
         \A step \in new : StepOf(op, step),
         \A step \in new : Provides(table2, op, new \cup rest, step, due),
         NEW gone \in SUBSET Tasks,
         \A t \in due \cap gone : Reached(table2, op, t) \/ Listed(new \cup rest, t),
         \A S \in SUBSET Tasks : Closed(table2, op, new \cup rest, due, S) =>
                                   Closed(table, op, {h} \cup rest, due, S \cup gone)
  PROVE  Due(table2, op, new \cup rest, due)
<1>. DEFINE old == {h} \cup rest  todo == new \cup rest
<1>1. \A t \in due : table2[t] # NoRow
  BY DEF Moves
<1>2. \A step \in todo : StepOf(op, step)
  BY DEF Due
<1>3. \A step \in todo : Provides(table2, op, todo, step, due)
  <2>1. ASSUME NEW step \in rest PROVE Provides(table2, op, todo, step, due)
    <3>1. Provides(table, op, old, step, due) BY DEF Due
    <3>. QED BY <3>1, RestProvides
  <2>. QED BY <2>1
<1>4. ASSUME NEW t \in due
      PROVE  Reached(table2, op, t) \/ Listed(todo, t) \/ Ahead(table2, op, todo, due, t)
  <2>1. CASE Reached(table, op, t) \/ Listed(old, t)
    BY <2>1, ListedStays
  <2>2. CASE Ahead(table, op, old, due, t)
    <3>1. t \in gone \/ Ahead(table2, op, todo, due, t)
      BY <2>2, StillAhead
    <3>. QED BY <3>1
  <2>. QED BY <2>1, <2>2 DEF Due
<1>. HIDE DEF todo, old
<1>5. Due(table2, op, todo, due)
  BY <1>1, <1>2, <1>3, <1>4, Zenon DEF Due
<1>. QED BY <1>5 DEF todo

\* The steps of each method, case by case.
LEMMA StepsOfMethods ==
  ASSUME NEW op \in Cascading
  PROVE  \/ op \in Completing /\ Takes(op) = Completing \cup {"stamp", "children"}
         \/ /\ op = "deleteSection"
            /\ Takes(op) = {"open", "members", "descend", "remove", "finish"}
         \/ /\ op = "archiveSection"
            /\ Takes(op) = {"open", "members", "descend", "finish"}
                             \cup Completing \cup {"stamp", "children"}
<1>1. CASE op \in Completing
  BY <1>1 DEF Takes, Completing
<1>2. CASE op = "deleteSection"
  BY <1>2 DEF Takes, Completing
<1>3. CASE op = "archiveSection"
  BY <1>3 DEF Takes, Completing
<1>. QED BY <1>1, <1>2, <1>3 DEF Cascading

\* The steps that a call takes depend on its method.
LEMMA MethodOf ==
  ASSUME NEW op \in Cascading, NEW step, StepOf(op, step)
  PROVE  /\ step.do \in Completing \cup {"stamp", "children"} => op # "deleteSection"
         /\ step.do = "remove" => op = "deleteSection"
         /\ step.do \in {"open", "members", "descend", "finish"} => op \notin Completing
         /\ step.do \in {"open", "members", "descend"} =>
              step.fate = IF op = "deleteSection" THEN "remove" ELSE "complete"
  BY StepsOfMethods DEF StepOf, Completing

\* And those it may take.
LEMMA MayTake ==
  ASSUME NEW op \in Cascading, NEW step
  PROVE  /\ op # "deleteSection" /\ step.do \in Completing \cup {"stamp", "children"} =>
              StepOf(op, step)
         /\ op = "deleteSection" /\ step.do = "remove" => StepOf(op, step)
         /\ op \notin Completing /\ step.do = "finish" => StepOf(op, step)
         /\ op \notin Completing /\ step.do \in {"members", "descend"}
              /\ (step.fate = IF op = "deleteSection" THEN "remove" ELSE "complete") =>
              StepOf(op, step)
  BY StepsOfMethods DEF StepOf, Completing

\* A step that reads changes no row.
LEMMA ReadMoves ==
  ASSUME NEW table, NEW op, NEW h, NEW rest, NEW new, NEW due,
         Due(table, op, {h} \cup rest, due),
         \A t \in due : Lists(h, t) => Reached(table, op, t) \/ Listed(new, t),
         h.do # "remove",
         \A step \in rest : step.do # "stamp"
  PROVE  Moves(table, table, op, h, rest, new, due)
<1>1. \A t \in due : table[t] # NoRow
  BY DEF Due
<1>. QED BY <1>1, Zenon DEF Moves

\* A row that is not alive is a tombstone's.
LEMMA DeadIsReached ==
  ASSUME NEW table, NEW op, NEW t \in Tasks, table[t] # NoRow, t \notin Alive(table)
  PROVE  Reached(table, op, t)
  BY DEF Alive, Reached

\* complete of a Task that is there.
LEMMA CompleteIsDue ==
  ASSUME NEW table, NEW op \in Cascading, NEW h, NEW rest, NEW due \in SUBSET Tasks,
         Due(table, op, {h} \cup rest, due),
         \A step \in rest : step.do # "stamp",
         h.do \in Completing, h.id \in Alive(table), NEW forever,
         NEW new, new = {[do |-> "stamp", id |-> h.id, forever |-> forever],
                         [do |-> "children", id |-> h.id]}
  PROVE  Due(table, op, new \cup rest, due)
<1>. DEFINE stamp == [do |-> "stamp", id |-> h.id, forever |-> forever]
            children == [do |-> "children", id |-> h.id]
            todo == new \cup rest
<1>1. /\ stamp.do = "stamp" /\ stamp.id = h.id
      /\ children.do = "children" /\ children.id = h.id
      /\ new = {stamp, children}
  OBVIOUS
<1>. HIDE DEF stamp, children
<1>2. op # "deleteSection"
  <2>1. StepOf(op, h) BY DEF Due
  <2>. QED BY <2>1, MethodOf
<1>3. \A step \in new : StepOf(op, step)
  BY <1>1, <1>2, MayTake
<1>4. \A t \in due : Lists(h, t) => Lists(stamp, t)
  BY <1>1 DEF Lists, Completing
<1>5. Moves(table, table, op, h, rest, new, due)
  <2>1. \A t \in due : Lists(h, t) => Reached(table, op, t) \/ Listed(new, t)
    BY <1>1, <1>4 DEF Listed
  <2>2. h.do # "remove" BY DEF Completing
  <2>. QED BY <2>1, <2>2, ReadMoves
<1>6. Provides(table, op, todo, stamp, due)
  <2>1. children \in todo BY <1>1
  <2>. QED BY <1>1, <2>1 DEF Provides, Completing
<1>7. Provides(table, op, todo, children, due)
  <2>1. Lists(stamp, h.id) BY <1>1 DEF Lists
  <2>2. Listed(todo, h.id) BY <1>1, <2>1 DEF Listed
  <2>. QED BY <1>1, <2>2 DEF Provides, Completing
<1>8. ASSUME NEW S \in SUBSET Tasks, Closed(table, op, todo, due, S)
      PROVE  Closed(table, op, {h} \cup rest, due, S \cup {})
  <2>1. \A t \in Tasks : Visits(table, op, h, t) => Visits(table, op, children, t)
    BY <1>1 DEF Visits, Completing
  <2>2. children \in todo BY <1>1
  <2>3. \A step \in {h} \cup rest : \A t \in Tasks : Visits(table, op, step, t) => t \in S
    BY <1>8, <2>1, <2>2 DEF Closed
  <2>4. S \cup {} = S OBVIOUS
  <2>. QED BY <1>8, <2>3, <2>4, Zenon DEF Closed
<1>9. {} \in SUBSET Tasks /\ \A t \in due \cap {} : FALSE
  OBVIOUS
<1>10. \A step \in new : Provides(table, op, todo, step, due)
  BY <1>1, <1>6, <1>7
<1>. HIDE DEF todo
<1>11. Due(table, op, new \cup rest, due)
  BY <1>3, <1>5, <1>8, <1>9, <1>10, StepIsDue DEF todo
<1>. QED BY <1>11

\* complete of one that is gone: nobody hangs under it any more.
LEMMA GoneIsDue ==
  ASSUME NEW table, NEW op \in Cascading, NEW h, NEW rest, NEW due \in SUBSET Tasks,
         Due(table, op, {h} \cup rest, due),
         \A step \in rest : step.do # "stamp",
         h.do \in Completing, h.id \in Tasks, h.id \notin Alive(table)
  PROVE  Due(table, op, {} \cup rest, due)
<1>. DEFINE gone == IF op \in Completing THEN {h.id} ELSE {}
<1>1. \A t \in due : Lists(h, t) => t = h.id
  BY DEF Lists, Completing
<1>2. h.id \in due => Reached(table, op, h.id)
  BY DeadIsReached DEF Due
<1>3. Moves(table, table, op, h, rest, {}, due)
  <2>1. \A t \in due : Lists(h, t) => Reached(table, op, t) \/ Listed({}, t)
    BY <1>1, <1>2
  <2>2. h.do # "remove" BY DEF Completing
  <2>. QED BY <2>1, <2>2, ReadMoves
<1>4. op \in Completing => \A t \in due : table[t].parent # h.id
  BY DEF Due, Provides
<1>5. ASSUME NEW S \in SUBSET Tasks, Closed(table, op, {} \cup rest, due, S)
      PROVE  Closed(table, op, {h} \cup rest, due, S \cup gone)
  <2>1. \A t \in Tasks : Visits(table, op, h, t) => t \in gone
    BY DEF Visits, Completing
  <2>2. \A step \in {h} \cup rest : \A t \in Tasks : Visits(table, op, step, t) => t \in S \cup gone
    BY <1>5, <2>1 DEF Closed
  <2>3. ASSUME NEW t \in due \cap Through(table, op), table[t].parent \in S \cup gone
        PROVE  t \in S \cup gone
    <3>1. table[t].parent \in S BY <1>4, <2>3
    <3>. QED BY <1>5, <3>1 DEF Closed
  <2>. QED BY <2>2, <2>3 DEF Closed
<1>6. gone \in SUBSET Tasks /\ \A t \in due \cap gone : Reached(table, op, t)
  BY <1>2
<1>. HIDE DEF gone
<1>7. Due(table, op, {} \cup rest, due)
  <2>1. \A step \in {} : StepOf(op, step) OBVIOUS
  <2>2. \A step \in {} : Provides(table, op, {} \cup rest, step, due) OBVIOUS
  <2>. QED BY <1>3, <1>5, <1>6, <2>1, <2>2, StepIsDue
<1>. QED BY <1>7

\* The update of a completion.
LEMMA StampIsDue ==
  ASSUME NEW table, NEW table2, NEW op \in Cascading, NEW h, NEW rest,
         NEW due \in SUBSET Tasks,
         Due(table, op, {h} \cup rest, due),
         \A step \in rest : step.do # "stamp",
         h.do = "stamp", h.id \in Tasks,
         \A t \in Tasks \ {h.id} : table2[t] = table[t],
         h.id \notin Alive(table) => table2[h.id] = table[h.id],
         h.id \in Alive(table) =>
           /\ table2[h.id] # NoRow /\ table2[h.id].done # 0
           /\ table2[h.id].deleted = table[h.id].deleted
           /\ table2[h.id].parent = table[h.id].parent
           /\ table2[h.id].section = table[h.id].section
  PROVE  Due(table2, op, {} \cup rest, due)
<1>1. op # "deleteSection"
  <2>1. StepOf(op, h) BY DEF Due
  <2>. QED BY <2>1, MethodOf
<1>2. Alive(table2) = Alive(table)
  BY DEF Alive
<1>3. /\ \A t \in due : table[t] # NoRow
      /\ \A t \in Alive(table) : table2[t].parent = table[t].parent
                                 /\ table2[t].section = table[t].section
  BY DEF Due, Alive
<1>4. h.id \in due => Reached(table2, op, h.id)
  <2>1. CASE h.id \in Alive(table) BY <1>1, <2>1 DEF Reached
  <2>2. CASE h.id \notin Alive(table)
    BY <1>2, <1>3, <2>2, DeadIsReached
  <2>. QED BY <2>1, <2>2
<1>5. Moves(table, table2, op, h, rest, {}, due)
  <2>1. \A t \in due : table2[t] # NoRow /\ table2[t].parent = table[t].parent
    <3>1. \A t \in due : t \in Alive(table) \/ table2[t] = table[t] OBVIOUS
    <3>2. \A t \in Alive(table) : table2[t] # NoRow BY <1>2 DEF Alive
    <3>. QED BY <1>3, <3>1, <3>2
  <2>2. \A t \in due : Reached(table, op, t) => Reached(table2, op, t)
    BY <1>4 DEF Reached
  <2>3. \A t \in due : Lists(h, t) => Reached(table2, op, t)
    BY <1>4 DEF Lists, Completing
  <2>. QED BY <1>2, <1>3, <2>1, <2>2, <2>3, Zenon DEF Moves
<1>6. op \in Completing =>
        \E other \in rest : other.do = "children" /\ other.id = h.id
  BY DEF Due, Provides
<1>7. ASSUME NEW S \in SUBSET Tasks, Closed(table2, op, {} \cup rest, due, S)
      PROVE  Closed(table, op, {h} \cup rest, due, S \cup {})
  <2>1. \A t \in Tasks : ~Visits(table, op, h, t)
    BY DEF Visits, Completing
  <2>2. \A step \in rest : \A t \in Tasks :
          Visits(table, op, step, t) => Visits(table2, op, step, t)
    BY <1>2, <1>3 DEF Visits
  <2>3. \A step \in {h} \cup rest : \A t \in Tasks : Visits(table, op, step, t) => t \in S
    BY <1>7, <2>1, <2>2 DEF Closed
  <2>4. ASSUME NEW t \in due \cap Through(table, op), table[t].parent \in S
        PROVE  t \in S
    <3>1. t \in Alive(table2) /\ table2[t].parent \in S BY <1>2, <1>3, <2>4 DEF Through
    <3>2. CASE op \in Completing /\ t = h.id
      <4>1. PICK other \in rest : other.do = "children" /\ other.id = t BY <1>6, <3>2
      <4>2. Visits(table2, op, other, t) BY <3>2, <4>1 DEF Visits
      <4>. QED BY <1>7, <4>2 DEF Closed
    <3>3. CASE op \notin Completing \/ t # h.id
      <4>1. t \in Through(table2, op) BY <2>4, <3>1, <3>3 DEF Through
      <4>. QED BY <1>7, <2>4, <3>1, <4>1 DEF Closed
    <3>. QED BY <3>2, <3>3
  <2>5. S \cup {} = S OBVIOUS
  <2>. QED BY <2>3, <2>4, <2>5, Zenon DEF Closed
<1>8. Due(table2, op, {} \cup rest, due)
  <2>1. \A step \in {} : StepOf(op, step) OBVIOUS
  <2>2. \A step \in {} : Provides(table2, op, {} \cup rest, step, due) OBVIOUS
  <2>3. {} \in SUBSET Tasks /\ \A t \in due \cap {} : FALSE OBVIOUS
  <2>. QED BY <1>5, <1>7, <2>1, <2>2, <2>3, StepIsDue
<1>. QED BY <1>8

\* A step with nothing left to list or to visit.
LEMMA SpentIsDue ==
  ASSUME NEW table, NEW op \in Cascading, NEW h, NEW rest, NEW due \in SUBSET Tasks,
         Due(table, op, {h} \cup rest, due),
         \A step \in rest : step.do # "stamp",
         h.do = "finish"
  PROVE  Due(table, op, {} \cup rest, due)
<1>1. \A t \in Tasks : ~Lists(h, t) /\ ~Visits(table, op, h, t)
  BY DEF Lists, Visits, Completing
<1>2. Moves(table, table, op, h, rest, {}, due)
  BY <1>1, ReadMoves
<1>3. ASSUME NEW S \in SUBSET Tasks, Closed(table, op, {} \cup rest, due, S)
      PROVE  Closed(table, op, {h} \cup rest, due, S \cup {})
  <2>1. \A step \in {h} \cup rest : \A t \in Tasks : Visits(table, op, step, t) => t \in S
    BY <1>1, <1>3 DEF Closed
  <2>2. S \cup {} = S OBVIOUS
  <2>. QED BY <1>3, <2>1, <2>2, Zenon DEF Closed
<1>4. Due(table, op, {} \cup rest, due)
  <2>1. \A step \in {} : StepOf(op, step) OBVIOUS
  <2>2. \A step \in {} : Provides(table, op, {} \cup rest, step, due) OBVIOUS
  <2>3. {} \in SUBSET Tasks /\ \A t \in due \cap {} : FALSE OBVIOUS
  <2>. QED BY <1>2, <1>3, <2>1, <2>2, <2>3, StepIsDue
<1>. QED BY <1>4

\* completeChildren of one level.
LEMMA ChildrenAreDue ==
  ASSUME NEW table, NEW op \in Cascading, NEW h, NEW rest, NEW due \in SUBSET Tasks,
         Due(table, op, {h} \cup rest, due),
         \A step \in rest : step.do # "stamp",
         h.do = "children", h.id \in Tasks,
         NEW kids, kids = {t \in Alive(table) : table[t].parent = h.id /\ table[t].done = 0},
         NEW new, new = {[do |-> "complete", id |-> t] : t \in kids}
  PROVE  Due(table, op, new \cup rest, due)
<1>. DEFINE gone == IF op \in Completing THEN {h.id} ELSE {}
            todo == new \cup rest
<1>1. \A step \in new : step.do = "complete" /\ step.id \in kids
  OBVIOUS
<1>2. op # "deleteSection"
  <2>1. StepOf(op, h) BY DEF Due
  <2>. QED BY <2>1, MethodOf
<1>3. \A step \in new : StepOf(op, step)
  BY <1>1, <1>2, MayTake DEF Completing
<1>4. \A t \in Tasks : ~Lists(h, t)
  BY DEF Lists, Completing
<1>5. Moves(table, table, op, h, rest, new, due)
  BY <1>4, ReadMoves
<1>6. ASSUME NEW step \in new PROVE Provides(table, op, todo, step, due)
  <2>1. step.do = "complete" /\ step.id \in Alive(table) BY <1>1, <1>6
  <2>. QED BY <2>1 DEF Provides, Completing
<1>7. \A t \in due \cap gone : Reached(table, op, t) \/ Listed(todo, t)
  <2>. SUFFICES ASSUME NEW t \in due \cap gone
                PROVE  Reached(table, op, t) \/ Listed(todo, t)
    OBVIOUS
  <2>1. t = h.id /\ op \in Completing OBVIOUS
  <2>2. Reached(table, op, t) \/ Listed({h} \cup rest, t) BY <2>1 DEF Due, Provides
  <2>. QED BY <1>5, <2>2, ListedStays
<1>8. ASSUME NEW S \in SUBSET Tasks, Closed(table, op, todo, due, S)
      PROVE  Closed(table, op, {h} \cup rest, due, S \cup gone)
  <2>1. \A t \in Tasks : Visits(table, op, h, t) => t \in gone
    BY DEF Visits, Completing
  <2>2. \A step \in {h} \cup rest : \A t \in Tasks : Visits(table, op, step, t) => t \in S \cup gone
    BY <1>8, <2>1 DEF Closed
  <2>3. ASSUME NEW t \in due \cap Through(table, op), table[t].parent \in S \cup gone
        PROVE  t \in S \cup gone
    <3>1. CASE table[t].parent \in S
      BY <1>8, <2>3, <3>1 DEF Closed
    <3>2. CASE op \in Completing /\ table[t].parent = h.id
      <4>1. t \in kids BY <2>3, <3>2 DEF Through
      <4>2. [do |-> "complete", id |-> t] \in todo BY <4>1
      <4>3. Visits(table, op, [do |-> "complete", id |-> t], t)
        BY <3>2 DEF Visits, Completing
      <4>. QED BY <1>8, <4>2, <4>3 DEF Closed
    <3>. QED BY <2>3, <3>1, <3>2
  <2>. QED BY <2>2, <2>3 DEF Closed
<1>9. gone \in SUBSET Tasks
  OBVIOUS
<1>. HIDE DEF gone, todo
<1>10. Due(table, op, new \cup rest, due)
  BY <1>3, <1>5, <1>6, <1>7, <1>8, <1>9, StepIsDue DEF todo
<1>. QED BY <1>10

\* A Section that is found there.
LEMMA OpenIsDue ==
  ASSUME NEW table, NEW op \in Cascading, NEW h, NEW rest, NEW due \in SUBSET Tasks,
         Due(table, op, {h} \cup rest, due),
         \A step \in rest : step.do # "stamp",
         h.do = "open", NEW next, next.do = "members",
         next.section = h.section, next.fate = h.fate
  PROVE  Due(table, op, {next} \cup rest, due)
<1>1. StepOf(op, h)
  BY DEF Due
<1>2. StepOf(op, next)
  <2>1. op \notin Completing
        /\ h.fate = IF op = "deleteSection" THEN "remove" ELSE "complete"
    BY <1>1, MethodOf
  <2>. QED BY <2>1, MayTake
<1>3. \A t \in Tasks : ~Lists(h, t)
  BY DEF Lists, Completing
<1>4. Moves(table, table, op, h, rest, {next}, due)
  BY <1>3, ReadMoves
<1>5. Provides(table, op, {next} \cup rest, next, due)
  BY DEF Provides, Completing
<1>6. ASSUME NEW S \in SUBSET Tasks, Closed(table, op, {next} \cup rest, due, S)
      PROVE  Closed(table, op, {h} \cup rest, due, S \cup {})
  <2>1. \A t \in Tasks : Visits(table, op, h, t) => Visits(table, op, next, t)
    BY DEF Visits, Completing
  <2>2. \A step \in {h} \cup rest : \A t \in Tasks : Visits(table, op, step, t) => t \in S
    BY <1>6, <2>1 DEF Closed
  <2>3. S \cup {} = S OBVIOUS
  <2>. QED BY <1>6, <2>2, <2>3, Zenon DEF Closed
<1>7. Due(table, op, {next} \cup rest, due)
  <2>1. {} \in SUBSET Tasks /\ \A t \in due \cap {} : FALSE OBVIOUS
  <2>2. \A step \in {next} : StepOf(op, step) /\ Provides(table, op, {next} \cup rest, step, due)
    BY <1>2, <1>5
  <2>. QED BY <1>4, <1>6, <2>1, <2>2, StepIsDue
<1>. QED BY <1>7

\* A walk that is about to go down from a member.
Starts(table, fate, step) ==
  /\ step.do = "descend" /\ step.fate = fate /\ step.frontier = {step.id}
  /\ ToSet(step.found) = IF fate = "complete" /\ table[step.id].done = 0
                           THEN {step.id} ELSE {}

\* Its members, each with a walk down from it.
LEMMA MembersAreDue ==
  ASSUME NEW table, NEW op \in Cascading, NEW h, NEW rest, NEW due \in SUBSET Tasks,
         Due(table, op, {h} \cup rest, due),
         \A step \in rest : step.do # "stamp",
         h.do = "members",
         NEW members, members = {t \in Alive(table) : table[t].section = h.section},
         NEW walks, NEW finish, finish.do = "finish",
         \A step \in walks : step.id \in members /\ Starts(table, h.fate, step),
         \A t \in members : \E step \in walks : step.id = t
  PROVE  Due(table, op, (walks \cup {finish}) \cup rest, due)
<1>. DEFINE new == walks \cup {finish}
            todo == new \cup rest
<1>1. op \notin Completing
      /\ h.fate = IF op = "deleteSection" THEN "remove" ELSE "complete"
  <2>1. StepOf(op, h) BY DEF Due
  <2>. QED BY <2>1, MethodOf
<1>2. \A step \in new : StepOf(op, step)
  <2>1. StepOf(op, finish)
    BY <1>1, MayTake
  <2>2. ASSUME NEW step \in walks PROVE StepOf(op, step)
    <3>1. step.do = "descend" /\ step.fate = h.fate BY DEF Starts
    <3>. QED BY <1>1, <3>1, MayTake
  <2>. QED BY <2>1, <2>2
<1>3. \A t \in Tasks : ~Lists(h, t)
  BY DEF Lists, Completing
<1>4. Moves(table, table, op, h, rest, new, due)
  BY <1>3, ReadMoves
<1>5. ASSUME NEW step \in walks PROVE Provides(table, op, todo, step, due)
  <2>1. /\ step.do = "descend" /\ step.fate = h.fate /\ step.frontier = {step.id}
        /\ ToSet(step.found) = IF h.fate = "complete" /\ table[step.id].done = 0
                                 THEN {step.id} ELSE {}
    BY <1>5 DEF Starts
  <2>2. ASSUME NEW t \in due \cap step.frontier
        PROVE  Reached(table, op, t) \/ Listed(todo, t)
    <3>1. t = step.id BY <2>1, <2>2
    <3>2. CASE h.fate = "remove" \/ table[t].done = 0
      <4>1. Lists(step, t) BY <1>1, <2>1, <3>1, <3>2 DEF Lists
      <4>. QED BY <1>5, <4>1 DEF Listed
    <3>3. CASE h.fate # "remove" /\ table[t].done # 0
      BY <1>1, <3>3 DEF Reached
    <3>. QED BY <3>2, <3>3
  <2>3. step.fate = "remove" => (ToSet(step.found) \cup {step.id}) \ step.frontier = {}
    BY <2>1
  <2>. HIDE DEF todo
  <2>. QED BY <1>1, <2>1, <2>2, <2>3 DEF Provides
<1>6. Provides(table, op, todo, finish, due)
  BY DEF Provides, Completing
<1>7. ASSUME NEW S \in SUBSET Tasks, Closed(table, op, todo, due, S)
      PROVE  Closed(table, op, {h} \cup rest, due, S \cup {})
  <2>1. ASSUME NEW t \in Tasks, Visits(table, op, h, t) PROVE t \in S
    <3>1. t \in members BY <2>1 DEF Visits, Completing
    <3>2. PICK step \in walks : step.id = t BY <3>1
    <3>3. Visits(table, op, step, t) BY <3>2 DEF Visits, Starts
    <3>. QED BY <1>7, <3>2, <3>3 DEF Closed
  <2>2. \A step \in {h} \cup rest : \A t \in Tasks : Visits(table, op, step, t) => t \in S
    BY <1>7, <2>1 DEF Closed
  <2>3. S \cup {} = S OBVIOUS
  <2>. QED BY <1>7, <2>2, <2>3, Zenon DEF Closed
<1>8. \A step \in new : Provides(table, op, todo, step, due)
  BY <1>5, <1>6
<1>. HIDE DEF todo, new
<1>9. Due(table, op, new \cup rest, due)
  <2>1. {} \in SUBSET Tasks /\ \A t \in due \cap {} : FALSE OBVIOUS
  <2>. QED BY <1>2, <1>4, <1>7, <1>8, <2>1, StepIsDue DEF todo
<1>. QED BY <1>9 DEF new

\* A walk's fate is its method's.
LEMMA WalkFate ==
  ASSUME NEW table, NEW op \in Cascading, NEW h, NEW rest, NEW due,
         Due(table, op, {h} \cup rest, due), h.do = "descend"
  PROVE  /\ op \notin Completing
         /\ h.fate = IF op = "deleteSection" THEN "remove" ELSE "complete"
<1>1. StepOf(op, h)
  BY DEF Due
<1>. QED BY <1>1, MethodOf

\* The level a walk has asked about is listed: its Tasks need no visit any more.
LEMMA FrontierIsListed ==
  ASSUME NEW table, NEW op, NEW h, NEW rest, NEW new, NEW due,
         Due(table, op, {h} \cup rest, due), h.do = "descend",
         Moves(table, table, op, h, rest, new, due), NEW t \in due \cap h.frontier
  PROVE  Reached(table, op, t) \/ Listed(new \cup rest, t)
<1>1. Reached(table, op, t) \/ Listed({h} \cup rest, t)
  BY DEF Due, Provides
<1>. QED BY <1>1, ListedStays

\* One more level of a walk down.
LEMMA DescentIsDue ==
  ASSUME NEW table, NEW op \in Cascading, NEW h, NEW rest, NEW due \in SUBSET Tasks,
         Due(table, op, {h} \cup rest, due),
         \A step \in rest : step.do # "stamp",
         h.do = "descend",
         NEW kids, kids = {t \in Alive(table) : table[t].parent \in h.frontier},
         NEW next, next.do = "descend", next.id = h.id, next.fate = h.fate,
         next.frontier = kids,
         \A t \in Tasks : t \in ToSet(h.found) => t \in ToSet(next.found),
         \A t \in kids : h.fate = "remove" \/ table[t].done = 0 => t \in ToSet(next.found),
         ToSet(next.found) \subseteq ToSet(h.found) \cup kids
  PROVE  Due(table, op, {next} \cup rest, due)
<1>. DEFINE gone == {t \in Tasks : t \in h.frontier}
            todo == {next} \cup rest
<1>1. /\ op \notin Completing
      /\ h.fate = IF op = "deleteSection" THEN "remove" ELSE "complete"
  BY WalkFate
<1>2. StepOf(op, next)
  BY <1>1, MayTake
<1>3. Moves(table, table, op, h, rest, {next}, due)
  <2>1. ASSUME NEW t \in due, Lists(h, t) PROVE Lists(next, t)
    <3>1. t \in ToSet(h.found) \/ (h.fate = "remove" /\ h.id = t)
      BY <2>1 DEF Lists, Completing
    <3>2. t \in ToSet(next.found) \/ (next.fate = "remove" /\ next.id = t)
      BY <3>1
    <3>. QED BY <3>2 DEF Lists
  <2>. QED BY <2>1, ReadMoves DEF Listed
<1>4. Provides(table, op, todo, next, due)
  <2>1. ASSUME NEW t \in due \cap next.frontier
        PROVE  Reached(table, op, t) \/ Listed(todo, t)
    <3>1. t \in kids BY <2>1
    <3>2. CASE h.fate = "remove" \/ table[t].done = 0
      <4>1. t \in ToSet(next.found) BY <3>1, <3>2
      <4>2. Lists(next, t) BY <4>1 DEF Lists
      <4>. QED BY <4>2 DEF Listed
    <3>3. CASE h.fate # "remove" /\ table[t].done # 0
      BY <1>1, <3>3 DEF Reached
    <3>. QED BY <3>2, <3>3
  <2>2. ASSUME next.fate = "remove", NEW t \in due \cap Alive(table),
               table[t].parent \in (ToSet(next.found) \cup {next.id}) \ next.frontier
        PROVE  t \in ToSet(next.found)
    <3>1. table[t].parent \in ToSet(h.found) \cup {h.id} BY <2>2
    <3>2. CASE table[t].parent \in h.frontier
      <4>1. t \in kids BY <2>2, <3>2
      <4>. QED BY <2>2, <4>1
    <3>3. CASE table[t].parent \notin h.frontier
      <4>1. t \in ToSet(h.found) BY <2>2, <3>1, <3>3 DEF Due, Provides
      <4>. QED BY <4>1
    <3>. QED BY <3>2, <3>3
  <2>. HIDE DEF todo
  <2>. QED BY <1>1, <2>1, <2>2 DEF Provides
<1>5. \A t \in due \cap gone : Reached(table, op, t) \/ Listed(todo, t)
  <2>. SUFFICES ASSUME NEW t \in due \cap h.frontier
                PROVE  Reached(table, op, t) \/ Listed(todo, t)
    OBVIOUS
  <2>. QED BY <1>3, FrontierIsListed
<1>6. ASSUME NEW S \in SUBSET Tasks, Closed(table, op, todo, due, S)
      PROVE  Closed(table, op, {h} \cup rest, due, S \cup gone)
  <2>1. \A t \in Tasks : Visits(table, op, h, t) => t \in gone
    BY DEF Visits, Completing
  <2>2. \A step \in {h} \cup rest : \A t \in Tasks : Visits(table, op, step, t) => t \in S \cup gone
    BY <1>6, <2>1 DEF Closed
  <2>3. ASSUME NEW t \in due \cap Through(table, op), table[t].parent \in S \cup gone
        PROVE  t \in S \cup gone
    <3>1. CASE table[t].parent \in S
      BY <1>6, <2>3, <3>1 DEF Closed
    <3>2. CASE table[t].parent \in gone
      <4>1. t \in kids BY <2>3, <3>2 DEF Through
      <4>2. Visits(table, op, next, t) BY <4>1 DEF Visits
      <4>. QED BY <1>6, <4>2 DEF Closed
    <3>. QED BY <2>3, <3>1, <3>2
  <2>. QED BY <2>2, <2>3 DEF Closed
<1>7. gone \in SUBSET Tasks
  OBVIOUS
<1>. HIDE DEF gone, todo
<1>8. \A step \in {next} : StepOf(op, step) /\ Provides(table, op, todo, step, due)
  BY <1>2, <1>4
<1>9. Due(table, op, {next} \cup rest, due)
  BY <1>3, <1>5, <1>6, <1>7, <1>8, StepIsDue DEF todo
<1>. QED BY <1>9

\* A walk that has found its last level leaves a step for each Task it found.
LEMMA WalkedIsDue ==
  ASSUME NEW table, NEW op \in Cascading, NEW h, NEW rest, NEW due \in SUBSET Tasks,
         Due(table, op, {h} \cup rest, due),
         \A step \in rest : step.do # "stamp",
         h.do = "descend",
         \A t \in Alive(table) : table[t].parent \notin h.frontier,
         NEW new,
         new = IF h.fate = "remove"
                 THEN {[do |-> "remove", id |-> t] : t \in ToSet(h.found) \cup {h.id}}
                 ELSE {[do |-> "complete", id |-> t] : t \in ToSet(h.found)}
  PROVE  Due(table, op, new \cup rest, due)
<1>. DEFINE gone == {t \in Tasks : t \in h.frontier}
            todo == new \cup rest
<1>1. /\ op \notin Completing
      /\ h.fate = IF op = "deleteSection" THEN "remove" ELSE "complete"
  BY WalkFate
<1>2. \A step \in new :
        \/ /\ op = "deleteSection" /\ step.do = "remove"
           /\ step.id \in ToSet(h.found) \cup {h.id}
        \/ op # "deleteSection" /\ step.do = "complete"
  BY <1>1
<1>3. \A step \in new : StepOf(op, step)
  BY <1>2, MayTake DEF Completing
<1>4. Moves(table, table, op, h, rest, new, due)
  <2>1. ASSUME NEW t \in due, Lists(h, t) PROVE Listed(new, t)
    <3>1. t \in ToSet(h.found) \/ (h.fate = "remove" /\ h.id = t)
      BY <2>1 DEF Lists, Completing
    <3>2. CASE h.fate = "remove"
      <4>1. [do |-> "remove", id |-> t] \in new BY <3>1, <3>2
      <4>2. Lists([do |-> "remove", id |-> t], t) BY DEF Lists
      <4>. QED BY <4>1, <4>2 DEF Listed
    <3>3. CASE h.fate # "remove"
      <4>1. [do |-> "complete", id |-> t] \in new BY <3>1, <3>3
      <4>2. Lists([do |-> "complete", id |-> t], t) BY DEF Lists, Completing
      <4>. QED BY <4>1, <4>2 DEF Listed
    <3>. QED BY <3>2, <3>3
  <2>. QED BY <2>1, ReadMoves
<1>5. ASSUME NEW step \in new PROVE Provides(table, op, todo, step, due)
  <2>1. ASSUME step.do = "remove", NEW t \in due \cap Alive(table), table[t].parent = step.id
        PROVE  \E other \in todo : other.do = "remove" /\ other.id = t
    <3>1. op = "deleteSection" /\ h.fate = "remove"
          /\ table[t].parent \in (ToSet(h.found) \cup {h.id}) \ h.frontier
      BY <1>1, <1>2, <1>5, <2>1
    <3>2. t \in ToSet(h.found) BY <2>1, <3>1 DEF Due, Provides
    <3>3. [do |-> "remove", id |-> t] \in todo BY <3>1, <3>2
    <3>. QED BY <3>3
  <2>2. step.do # "descend" BY <1>2, <1>5
  <2>. HIDE DEF todo
  <2>. QED BY <1>1, <2>1, <2>2 DEF Provides
<1>6. \A t \in due \cap gone : Reached(table, op, t) \/ Listed(todo, t)
  <2>. SUFFICES ASSUME NEW t \in due \cap h.frontier
                PROVE  Reached(table, op, t) \/ Listed(todo, t)
    OBVIOUS
  <2>. QED BY <1>4, FrontierIsListed
<1>7. ASSUME NEW S \in SUBSET Tasks, Closed(table, op, todo, due, S)
      PROVE  Closed(table, op, {h} \cup rest, due, S \cup gone)
  <2>1. \A t \in Tasks : Visits(table, op, h, t) => t \in gone
    BY DEF Visits, Completing
  <2>2. \A step \in {h} \cup rest : \A t \in Tasks : Visits(table, op, step, t) => t \in S \cup gone
    BY <1>7, <2>1 DEF Closed
  <2>3. ASSUME NEW t \in due \cap Through(table, op), table[t].parent \in S \cup gone
        PROVE  t \in S \cup gone
    <3>1. table[t].parent \in S BY <2>3 DEF Through
    <3>. QED BY <1>7, <2>3, <3>1 DEF Closed
  <2>. QED BY <2>2, <2>3 DEF Closed
<1>8. gone \in SUBSET Tasks
  OBVIOUS
<1>. HIDE DEF gone, todo
<1>9. Due(table, op, new \cup rest, due)
  BY <1>3, <1>4, <1>5, <1>6, <1>7, <1>8, StepIsDue DEF todo
<1>. QED BY <1>9

\* remove() of one row: what hangs under it is about to be removed as well.
LEMMA RemovalIsDue ==
  ASSUME NEW table, NEW table2, NEW op \in Cascading, NEW h, NEW rest,
         NEW due \in SUBSET Tasks,
         Due(table, op, {h} \cup rest, due),
         \A step \in rest : step.do # "stamp",
         h.do = "remove", h.id \in Tasks,
         \A t \in Tasks \ {h.id} : table2[t] = table[t],
         table[h.id] # NoRow,
         table2[h.id] # NoRow, table2[h.id].deleted,
         table2[h.id].parent = table[h.id].parent
  PROVE  Due(table2, op, {} \cup rest, due)
<1>. DEFINE Removing == {t \in Tasks : \E step \in {h} \cup rest :
                                          step.do = "remove" /\ step.id = t}
<1>1. op = "deleteSection"
  <2>1. StepOf(op, h) BY DEF Due
  <2>. QED BY <2>1, MethodOf
<1>2. Alive(table2) = Alive(table) \ {h.id}
  BY DEF Alive
<1>3. Reached(table2, op, h.id)
  BY DEF Reached
<1>4. Moves(table, table2, op, h, rest, {}, due)
  <2>1. \A t \in due : /\ table[t] # NoRow /\ table2[t] # NoRow
                       /\ table2[t].parent = table[t].parent
    BY DEF Due
  <2>2. \A t \in due : Reached(table, op, t) => Reached(table2, op, t)
    BY <1>3 DEF Reached
  <2>3. \A t \in due : Lists(h, t) => Reached(table2, op, t)
    BY <1>3 DEF Lists, Completing
  <2>4. op \notin Completing
    BY <1>1 DEF Completing
  <2>. QED BY <1>2, <2>1, <2>2, <2>3, <2>4 DEF Moves
<1>5. \A t \in due \cap Removing : Reached(table2, op, t) \/ Listed({} \cup rest, t)
  <2>. SUFFICES ASSUME NEW t \in due, NEW step \in {h} \cup rest,
                       step.do = "remove", step.id = t
                PROVE  Reached(table2, op, t) \/ Listed({} \cup rest, t)
    OBVIOUS
  <2>1. Lists(step, t) BY DEF Lists
  <2>2. CASE step = h BY <1>3, <2>2
  <2>3. CASE step \in rest BY <2>1, <2>3 DEF Listed
  <2>. QED BY <2>2, <2>3
<1>6. ASSUME NEW S \in SUBSET Tasks, Closed(table2, op, {} \cup rest, due, S)
      PROVE  Closed(table, op, {h} \cup rest, due, S \cup Removing)
  <2>1. \A t \in Tasks : ~Visits(table, op, h, t)
    BY DEF Visits, Completing
  <2>2. h.id \in Removing
    OBVIOUS
  <2>. HIDE DEF Removing
  <2>3. ASSUME NEW step \in rest, NEW t \in Tasks, Visits(table, op, step, t)
        PROVE  t \in S \cup Removing
    <3>1. CASE t = h.id BY <2>2, <3>1
    <3>2. CASE t # h.id
      <4>1. table2[t] = table[t] /\ (t \in Alive(table) => t \in Alive(table2))
        BY <1>2, <3>2
      <4>2. Visits(table2, op, step, t) BY <2>3, <4>1 DEF Visits
      <4>. QED BY <1>6, <4>2 DEF Closed
    <3>. QED BY <3>1, <3>2
  <2>4. ASSUME NEW t \in due \cap Through(table, op), table[t].parent \in S \cup Removing
        PROVE  t \in S \cup Removing
    <3>1. CASE t = h.id BY <2>2, <3>1
    <3>2. CASE table[t].parent \in Removing
      <4>1. PICK step \in {h} \cup rest : step.do = "remove" /\ step.id = table[t].parent
        BY <3>2 DEF Removing
      <4>2. t \in due \cap Alive(table) BY <2>4 DEF Through
      <4>3. Provides(table, op, {h} \cup rest, step, due) BY DEF Due
      <4>4. \E other \in {h} \cup rest : other.do = "remove" /\ other.id = t
        BY <4>1, <4>2, <4>3 DEF Provides
      <4>. QED BY <4>4 DEF Removing
    <3>3. CASE t # h.id /\ table[t].parent \in S
      <4>1. t \in Through(table2, op) /\ table2[t].parent \in S
        BY <1>1, <1>2, <2>4, <3>3 DEF Through, Completing
      <4>. QED BY <1>6, <2>4, <4>1 DEF Closed
    <3>. QED BY <2>4, <3>1, <3>2, <3>3
  <2>. QED BY <2>1, <2>3, <2>4 DEF Closed
<1>7. Removing \in SUBSET Tasks
  OBVIOUS
<1>. HIDE DEF Removing
<1>8. Due(table2, op, {} \cup rest, due)
  <2>1. \A step \in {} : StepOf(op, step) OBVIOUS
  <2>2. \A step \in {} : Provides(table2, op, {} \cup rest, step, due) OBVIOUS
  <2>. QED BY <1>4, <1>5, <1>6, <1>7, <2>1, <2>2, StepIsDue
<1>. QED BY <1>8

\* What others wrote is no longer owed, nor what hangs below it; the rest is as
\* it was.
LEMMA OthersLeaveDue ==
  ASSUME NEW table, NEW table2, NEW op, NEW todo, NEW due \in SUBSET Tasks,
         Due(table, op, todo, due),
         NEW lost \in SUBSET Tasks,
         \A t \in Tasks : table[t] # NoRow => table2[t] # NoRow,
         \A t \in Tasks \ lost : table[t] # NoRow =>
           /\ table2[t].parent = table[t].parent /\ table2[t].section = table[t].section
           /\ table2[t].deleted = table[t].deleted /\ table2[t].done = table[t].done,
         \A t \in Tasks : table[t] # NoRow /\ table[t].parent \in lost => t \in lost
  PROVE  Due(table2, op, todo, due \ lost)
<1>. DEFINE less == due \ lost
<1>1. /\ \A t \in due : t \in Tasks /\ table[t] # NoRow
      /\ less \subseteq due /\ \A t \in less : t \in Tasks \ lost
  BY DEF Due
<1>2. \A t \in less : /\ table2[t] # NoRow
                      /\ table2[t].parent = table[t].parent
                      /\ table2[t].section = table[t].section
                      /\ table2[t].deleted = table[t].deleted
                      /\ table2[t].done = table[t].done
                      /\ table[t].parent \notin lost
  BY <1>1
<1>3. \A t \in Alive(table) \ lost : t \in Alive(table2)
  BY DEF Alive
<1>4. \A t \in less : t \in Alive(table2) <=> t \in Alive(table)
  BY <1>1, <1>2 DEF Alive
<1>5. \A t \in less : Reached(table, op, t) => Reached(table2, op, t)
  BY <1>2 DEF Reached
<1>. HIDE DEF less
<1>6. ASSUME NEW step \in todo
      PROVE  Provides(table2, op, todo, step, less)
  <2>1. Provides(table, op, todo, step, due) BY DEF Due
  <2>2. step.do = "descend" =>
          \A t \in less \cap step.frontier : Reached(table2, op, t) \/ Listed(todo, t)
    BY <1>1, <1>5, <2>1 DEF Provides
  <2>3. ASSUME step.do = "descend", step.fate = "remove", NEW t \in less \cap Alive(table2),
               table2[t].parent \in (ToSet(step.found) \cup {step.id}) \ step.frontier
        PROVE  t \in ToSet(step.found)
    <3>1. t \in due \cap Alive(table) /\ table[t].parent = table2[t].parent
      BY <1>1, <1>2, <1>4, <2>3
    <3>. QED BY <2>1, <2>3, <3>1 DEF Provides
  <2>4. ASSUME step.do = "remove", NEW t \in less \cap Alive(table2),
               table2[t].parent = step.id
        PROVE  \E other \in todo : other.do = "remove" /\ other.id = t
    <3>1. t \in due \cap Alive(table) /\ table[t].parent = table2[t].parent
      BY <1>1, <1>2, <1>4, <2>4
    <3>. QED BY <2>1, <2>4, <3>1 DEF Provides
  <2>5. op \in Completing /\ step.do = "stamp" =>
          \E other \in todo : other.do = "children" /\ other.id = step.id
    BY <2>1 DEF Provides
  <2>6. op \in Completing /\ step.do = "children" /\ step.id \in less =>
          Reached(table2, op, step.id) \/ Listed(todo, step.id)
    BY <1>1, <1>5, <2>1 DEF Provides
  <2>7. ASSUME op \in Completing, step.do \in Completing, step.id \notin Alive(table2)
        PROVE  \A t \in less : table2[t].parent # step.id
    <3>1. CASE step.id \in Alive(table)
      <4>1. step.id \in lost BY <1>3, <2>7, <3>1
      <4>. QED BY <1>2, <4>1
    <3>2. CASE step.id \notin Alive(table)
      <4>1. \A t \in due : table[t].parent # step.id BY <2>1, <2>7, <3>2 DEF Provides
      <4>. QED BY <1>1, <1>2, <4>1
    <3>. QED BY <3>1, <3>2
  <2>. QED BY <2>2, <2>3, <2>4, <2>5, <2>6, <2>7, Zenon DEF Provides
<1>7. ASSUME NEW S \in SUBSET Tasks, Closed(table2, op, todo, less, S)
      PROVE  Closed(table, op, todo, due, S \cup lost)
  <2>1. ASSUME NEW step \in todo, NEW t \in Tasks, Visits(table, op, step, t)
        PROVE  t \in S \cup lost
    <3>1. CASE t \in lost BY <3>1
    <3>2. CASE t \notin lost
      <4>1. t \in Alive(table) =>
              t \in Alive(table2) /\ table2[t].section = table[t].section
        BY <1>3, <3>2 DEF Alive
      <4>2. Visits(table2, op, step, t) BY <2>1, <4>1 DEF Visits
      <4>. QED BY <1>7, <4>2 DEF Closed
    <3>. QED BY <3>1, <3>2
  <2>2. ASSUME NEW t \in due \cap Through(table, op), table[t].parent \in S \cup lost
        PROVE  t \in S \cup lost
    <3>1. CASE t \in lost BY <3>1
    <3>2. CASE t \notin lost
      <4>1. t \in less BY <3>2 DEF less
      <4>2. t \in Through(table2, op) BY <1>2, <1>4, <2>2, <4>1 DEF Through
      <4>3. table2[t].parent \in S BY <1>2, <2>2, <4>1
      <4>. QED BY <1>7, <4>1, <4>2, <4>3 DEF Closed
    <3>. QED BY <3>1, <3>2
  <2>. QED BY <2>1, <2>2 DEF Closed
<1>8. ASSUME NEW t \in less
      PROVE  Reached(table2, op, t) \/ Listed(todo, t) \/ Ahead(table2, op, todo, less, t)
  <2>1. t \in due /\ t \notin lost BY <1>1
  <2>2. Ahead(table, op, todo, due, t) => Ahead(table2, op, todo, less, t)
    BY <1>7, <2>1, StillAhead
  <2>. QED BY <1>5, <2>1, <2>2 DEF Due
<1>9. op \notin Cascading => less = {}
  BY <1>1 DEF Due
<1>10. op \in Cascading => \A step \in todo : StepOf(op, step)
  BY DEF Due
<1>11. Due(table2, op, todo, less)
  BY <1>2, <1>6, <1>8, <1>9, <1>10, Zenon DEF Due
<1>. QED BY <1>11 DEF less

\* Below(S, within) holds S and is closed.
LEMMA BelowIsClosed ==
  ASSUME NEW S \in SUBSET Tasks, NEW within \in SUBSET Tasks
  PROVE  /\ S \subseteq Below(S, within)
         /\ \A t \in within : task[t].parent \in Below(S, within) => t \in Below(S, within)
<1>1. S \subseteq Below(S, within)
  BY DEF Below
<1>2. ASSUME NEW t \in within, task[t].parent \in Below(S, within),
             NEW X \in SUBSET Tasks, S \subseteq X,
             \A u \in within : task[u].parent \in X => u \in X
      PROVE  t \in X
  <2>1. task[t].parent \in X BY <1>2 DEF Below
  <2>. QED BY <1>2, <2>1
<1>. QED BY <1>1, <1>2 DEF Below

\* Nothing but the visit of its roots is needed to find what hangs below them.
LEMMA RootsAreAhead ==
  ASSUME TypeOK, NEW op, NEW todo, NEW roots \in SUBSET Tasks,
         \A t \in roots : \E step \in todo : Visits(task, op, step, t),
         NEW due, due = Below(roots, Through(task, op)), NEW t \in due
  PROVE  Ahead(task, op, todo, due, t)
<1>. SUFFICES ASSUME NEW S \in SUBSET Tasks, Closed(task, op, todo, due, S)
              PROVE  t \in S
  BY DEF Ahead
<1>. DEFINE X == S \cap due  within == Through(task, op)
<1>1. within \in SUBSET Tasks
  BY DEF Through, Alive
<1>2. roots \subseteq due /\ \A u \in within : task[u].parent \in due => u \in due
  BY <1>1, BelowIsClosed
<1>3. roots \subseteq S
  BY DEF Closed
<1>4. \A u \in within : task[u].parent \in X => u \in X
  BY <1>2 DEF Closed
<1>5. X \in SUBSET Tasks /\ roots \subseteq X
  BY <1>2, <1>3
<1>. HIDE DEF X, within
<1>6. t \in X
  BY <1>4, <1>5 DEF Below, within
<1>. QED BY <1>6 DEF X

\* The two views of the table.
LEMMA AliveIsLive ==
  /\ Alive(task) = Live
  /\ \A op : Through(task, op) = IF op \in Completing THEN ActiveTasks ELSE Live
  BY DEF Alive, Live, ActiveTasks, Through

\* A call begins with all that it promises ahead of it.
LEMMA PromiseIsDue ==
  ASSUME TypeOK, NEW r \in CallRequest, NEW first, Steps(r) = <<first>>
  PROVE  Due(task, r.op, {first}, Promise(r))
<1>. DEFINE due == Promise(r)  op == r.op
<1>1. CASE op \in Completing
  <2>. DEFINE roots == {r.id} \cap Live
  <2>1. first = [do |-> op, id |-> r.id]
    <3>1. Steps(r) = <<[do |-> op, id |-> r.id]>> BY <1>1 DEF Steps, Completing
    <3>. QED BY <3>1
  <2>2. due = Below(roots, Through(task, op))
    BY <1>1, AliveIsLive DEF Promise, Completing
  <2>3. roots \in SUBSET Tasks /\ roots \subseteq Alive(task)
    BY InStore, AliveIsLive
  <2>4. \A t \in roots : Visits(task, op, first, t)
    BY <1>1, <2>1 DEF Visits
  <2>5. Through(task, op) \subseteq Alive(task) /\ Alive(task) \in SUBSET Tasks
    BY DEF Through, Alive
  <2>. HIDE DEF roots, due
  <2>6. \A t \in due : Ahead(task, op, {first}, due, t)
    BY <2>2, <2>3, <2>4, RootsAreAhead
  <2>7. due \subseteq Alive(task)
    <3>1. \A u \in Through(task, op) : task[u].parent \in Alive(task) => u \in Alive(task)
      BY <2>5
    <3>. QED BY <2>2, <2>3, <2>5, <3>1 DEF Below
  <2>8. \A t \in due : task[t] # NoRow BY <2>7 DEF Alive
  <2>9. StepOf(op, first) BY <1>1, <2>1 DEF StepOf, Takes, Completing
  <2>10. r.id \in Alive(task) \/ due = {}
    <3>1. CASE r.id \notin Alive(task)
      <4>1. roots = {} BY <3>1, AliveIsLive DEF roots
      <4>2. {} \in SUBSET Tasks /\ roots \subseteq {} BY <4>1
      <4>3. \A t \in due : t \in {} BY <2>2, <4>1, <4>2 DEF Below
      <4>. QED BY <4>3
    <3>. QED BY <3>1
  <2>11. Provides(task, op, {first}, first, due)
    BY <1>1, <2>1, <2>10 DEF Provides, Completing
  <2>12. op \in Cascading BY <1>1 DEF Cascading
  <2>. QED BY <2>6, <2>8, <2>9, <2>11, <2>12 DEF Due, due
<1>2. CASE op \in {"deleteSection", "archiveSection"}
  <2>. DEFINE roots == {t \in Live : task[t].section = r.section}
  <2>1. first = [do |-> "open", section |-> r.section,
                 fate |-> IF op = "deleteSection" THEN "remove" ELSE "complete"]
    <3>1. Steps(r) = <<[do |-> "open", section |-> r.section,
                        fate |-> IF op = "deleteSection" THEN "remove" ELSE "complete"]>>
      BY <1>2 DEF Steps
    <3>. QED BY <3>1
  <2>2. op \notin Completing BY <1>2 DEF Completing
  <2>3. due = Below(roots, Through(task, op))
    BY <1>2, <2>2, AliveIsLive DEF Promise
  <2>4. roots \in SUBSET Tasks /\ roots \subseteq Alive(task)
    BY InStore, AliveIsLive
  <2>5. \A t \in roots : Visits(task, op, first, t)
    BY <2>1, AliveIsLive DEF Visits
  <2>6. Through(task, op) \subseteq Alive(task) /\ Alive(task) \in SUBSET Tasks
    BY DEF Through, Alive
  <2>. HIDE DEF roots, due
  <2>7. \A t \in due : Ahead(task, op, {first}, due, t)
    BY <2>3, <2>4, <2>5, RootsAreAhead
  <2>8. due \subseteq Alive(task)
    <3>1. \A u \in Through(task, op) : task[u].parent \in Alive(task) => u \in Alive(task)
      BY <2>6
    <3>. QED BY <2>3, <2>4, <2>6, <3>1 DEF Below
  <2>9. \A t \in due : task[t] # NoRow BY <2>8 DEF Alive
  <2>10. op \in Cascading BY <1>2 DEF Cascading
  <2>11. StepOf(op, first) BY <1>2, <2>1, <2>2, <2>10, StepsOfMethods DEF StepOf
  <2>12. Provides(task, op, {first}, first, due)
    BY <2>1, <2>2 DEF Provides
  <2>. QED BY <2>7, <2>9, <2>10, <2>11, <2>12 DEF Due, due
<1>3. CASE op \notin Cascading
  <2>1. Promise(r) = {} BY <1>3 DEF Promise, Cascading, Completing
  <2>. QED BY <1>3, <2>1, NothingIsDue
<1>. QED BY <1>1, <1>2, <1>3 DEF Cascading

\* The steps that a step may be replaced by.
Follow(new) ==
  /\ new \in Seq(Step)
  /\ \A k \in DOMAIN new : new[k].do # "open" /\ (new[k].do = "stamp" => k = 1)

\* A call goes on and can still keep its promise.
GoesOn(c, new) ==
  /\ Follow(new)
  /\ Then(c, new)
  /\ Due(task', call[c].op, ToSet(new) \cup ToSet(Tail(call[c].steps)), owed[c])

Keeps(c) == \E new : GoesOn(c, new)

\* The first step of a call and the others.
LEMMA FirstAndRest ==
  ASSUME NEW steps \in Seq(Step), steps # <<>>
  PROVE  /\ Head(steps) \in Step /\ Head(steps) = steps[1] /\ 1 \in DOMAIN steps
         /\ Tail(steps) \in Seq(Step)
         /\ ToSet(steps) = {Head(steps)} \cup ToSet(Tail(steps))
         /\ \A step \in ToSet(Tail(steps)) : \E k \in DOMAIN steps : k > 1 /\ step = steps[k]
         /\ Len(steps) = 1 => Tail(steps) = <<>>
<1>. DEFINE rest == Tail(steps)
<1>1. /\ rest \in Seq(Step) /\ Len(rest) = Len(steps) - 1 /\ Len(steps) \in Nat
      /\ \A i \in 1 .. Len(rest) : rest[i] = steps[i + 1]
  BY HeadTailProperties
<1>2. /\ Len(steps) # 0 /\ DOMAIN steps = 1 .. Len(steps)
      /\ Head(steps) = steps[1] /\ Head(steps) \in Step
  BY EmptySeq, LenProperties, HeadTailProperties
<1>3. DOMAIN rest = 1 .. Len(rest)
  BY <1>1, LenProperties
<1>. HIDE DEF rest
<1>4. Len(steps) = 1 => rest = <<>>
  <2>1. Len(steps) = 1 => Len(rest) = 0 BY <1>1
  <2>. QED BY <1>1, <2>1, EmptySeq
<1>5. \A step \in ToSet(rest) : \E k \in DOMAIN steps : k > 1 /\ step = steps[k]
  <2>. SUFFICES ASSUME NEW i \in DOMAIN rest
                PROVE  \E k \in DOMAIN steps : k > 1 /\ rest[i] = steps[k]
    BY DEF ToSet
  <2>1. i + 1 \in DOMAIN steps /\ i + 1 > 1 /\ rest[i] = steps[i + 1]
    BY <1>1, <1>2, <1>3
  <2>. QED BY <2>1
<1>6. ToSet(steps) \subseteq {Head(steps)} \cup ToSet(rest)
  <2>. SUFFICES ASSUME NEW k \in DOMAIN steps, k # 1
                PROVE  steps[k] \in ToSet(rest)
    BY <1>2 DEF ToSet
  <2>1. k - 1 \in DOMAIN rest /\ rest[k - 1] = steps[k]
    <3>1. k \in 1 .. Len(steps) /\ k - 1 \in 1 .. Len(rest) /\ (k - 1) + 1 = k
      BY <1>1, <1>2
    <3>. QED BY <1>1, <1>3, <3>1
  <2>. QED BY <2>1 DEF ToSet
<1>7. {Head(steps)} \cup ToSet(rest) \subseteq ToSet(steps)
  <2>1. 1 \in DOMAIN steps BY <1>2
  <2>. QED BY <1>2, <1>5, <2>1 DEF ToSet
<1>8. 1 \in DOMAIN steps
  BY <1>2
<1>. QED BY <1>1, <1>2, <1>4, <1>5, <1>6, <1>7, <1>8 DEF rest

\* What the step of a call that is able can rely on.
LEMMA HeadAndRest ==
  ASSUME TypeOK, NEW c \in Callers, Busy(c), Able(task, call[c], owed[c]),
         call[c].op \in Cascading, NEW h, h = Head(call[c].steps),
         NEW rest, rest = ToSet(Tail(call[c].steps))
  PROVE  /\ h \in Step /\ owed[c] \in SUBSET Tasks
         /\ \A step \in rest : step.do # "stamp" /\ step.do # "open"
         /\ h.do = "open" => rest = {}
         /\ Due(task, call[c].op, {h} \cup rest, owed[c])
<1>. DEFINE steps == call[c].steps
<1>1. steps \in Seq(Step) /\ steps # <<>> /\ owed[c] \in SUBSET Tasks
  BY HeadStep DEF TypeOK
<1>2. /\ \A k \in DOMAIN steps : /\ steps[k].do = "open" => Len(steps) = 1
                                 /\ steps[k].do = "stamp" => k = 1
      /\ Due(task, call[c].op, ToSet(steps), owed[c])
  BY DEF Able
<1>. HIDE DEF steps
<1>3. /\ h \in Step /\ h = steps[1] /\ 1 \in DOMAIN steps
      /\ ToSet(steps) = {h} \cup rest
      /\ \A step \in rest : \E k \in DOMAIN steps : k > 1 /\ step = steps[k]
      /\ Len(steps) = 1 => Tail(steps) = <<>>
  BY <1>1, FirstAndRest DEF steps
<1>4. ToSet(<<>>) = {}
  BY DEF ToSet
<1>5. Len(steps) = 1 => rest = {}
  BY <1>3, <1>4 DEF steps
<1>6. ASSUME NEW step \in rest PROVE step.do # "stamp" /\ step.do # "open"
  <2>1. PICK k \in DOMAIN steps : k > 1 /\ step = steps[k] BY <1>3
  <2>2. DOMAIN steps \subseteq Nat BY <1>1, LenProperties
  <2>3. k # 1 BY <2>1, <2>2
  <2>. QED BY <1>2, <1>5, <2>1, <2>3
<1>. QED BY <1>1, <1>2, <1>3, <1>5, <1>6

\* Nothing follows.
LEMMA NothingFollows ==
  Follow(<<>>) /\ ToSet(<<>>) = {}
  BY DEF Follow, ToSet

\* One step follows.
LEMMA OneFollows ==
  ASSUME NEW step \in Step, step.do \notin {"open"}
  PROVE  Follow(<<step>>) /\ ToSet(<<step>>) = {step}
  BY DEF Follow, ToSet

\* A completion's update and its children follow.
LEMMA TwoFollow ==
  ASSUME NEW first \in Step, NEW second \in Step, first.do = "stamp", second.do = "children"
  PROVE  Follow(<<first, second>>) /\ ToSet(<<first, second>>) = {first, second}
<1>. DEFINE new == <<first, second>>
<1>1. new \in Seq(Step) /\ DOMAIN new = {1, 2} /\ new[1] = first /\ new[2] = second
  OBVIOUS
<1>. HIDE DEF new
<1>2. Follow(new) /\ ToSet(new) = {first, second}
  BY <1>1 DEF Follow, ToSet
<1>. QED BY <1>2 DEF new

\* A step for each Task of a list follows.
LEMMA DoesFollow ==
  ASSUME NEW order \in Seq(Tasks), NEW do \in {"complete", "remove"}
  PROVE  /\ Follow(Does(do, order))
         /\ ToSet(Does(do, order)) = {[do |-> do, id |-> t] : t \in ToSet(order)}
<1>. DEFINE new == Does(do, order)
<1>1. /\ new \in Seq(Step) /\ DOMAIN new = DOMAIN order
      /\ \A k \in DOMAIN order : new[k] = [do |-> do, id |-> order[k]]
  BY DoesIsSeq
<1>. HIDE DEF new
<1>2. Follow(new)
  BY <1>1 DEF Follow
<1>3. ToSet(new) = {[do |-> do, id |-> t] : t \in ToSet(order)}
  BY <1>1 DEF ToSet
<1>. QED BY <1>2, <1>3 DEF new

\* complete and completeForever.
LEMMA CompleteKeeps ==
  ASSUME TypeOK, NEW c \in Callers, Able(task, call[c], owed[c]), Complete(c),
         call[c].op \in Cascading
  PROVE  Keeps(c)
<1>. DEFINE h == Head(call[c].steps)  rest == ToSet(Tail(call[c].steps))
            op == call[c].op
            stamp == [do |-> "stamp", id |-> h.id, forever |-> h.do = "completeForever"]
            children == [do |-> "children", id |-> h.id]
<1>0. op \in Cascading
  OBVIOUS
<1>1. Busy(c) /\ h.do \in Completing /\ UNCHANGED task
  BY DEF Complete, At, Completing
<1>2. /\ h \in Step /\ owed[c] \in SUBSET Tasks
      /\ \A step \in rest : step.do # "stamp" /\ step.do # "open"
      /\ Due(task, op, {h} \cup rest, owed[c])
  BY <1>1, HeadAndRest
<1>3. h.id \in Tasks
  BY <1>1, <1>2, StepFields DEF Completing
<1>4. Then(c, IF h.id \in Live THEN <<stamp, children>> ELSE <<>>)
  BY DEF Complete
<1>5. stamp \in Step /\ children \in Step /\ stamp.do = "stamp" /\ children.do = "children"
  BY <1>3 DEF Step
<1>6. CASE h.id \in Live
  <2>1. Follow(<<stamp, children>>) /\ ToSet(<<stamp, children>>) = {stamp, children}
    BY <1>5, TwoFollow
  <2>2. Due(task, op, {stamp, children} \cup rest, owed[c])
    <3>1. h.id \in Alive(task) BY <1>6, AliveIsLive
    <3>. HIDE DEF h, rest, op
    <3>. QED BY <1>0, <1>1, <1>2, <3>1, CompleteIsDue
  <2>3. GoesOn(c, <<stamp, children>>)
    <3>1. Then(c, <<stamp, children>>) BY <1>4, <1>6
    <3>. HIDE DEF stamp, children
    <3>. QED BY <1>1, <2>1, <2>2, <3>1 DEF GoesOn
  <2>. QED BY <2>3 DEF Keeps
<1>7. CASE h.id \notin Live
  <2>1. Due(task, op, {} \cup rest, owed[c])
    <3>1. h.id \notin Alive(task) BY <1>7, AliveIsLive
    <3>. HIDE DEF h, rest, op
    <3>. QED BY <1>0, <1>1, <1>2, <1>3, <3>1, GoneIsDue
  <2>2. GoesOn(c, <<>>)
    <3>1. Then(c, <<>>) BY <1>4, <1>7
    <3>. QED BY <1>1, <2>1, <3>1, NothingFollows DEF GoesOn
  <2>. QED BY <2>2 DEF Keeps
<1>. QED BY <1>6, <1>7

\* The update of a completion.
LEMMA StampKeeps ==
  ASSUME TypeOK, NEW c \in Callers, Able(task, call[c], owed[c]), Stamp(c),
         call[c].op \in Cascading
  PROVE  Keeps(c)
<1>. DEFINE h == Head(call[c].steps)  rest == ToSet(Tail(call[c].steps))
            op == call[c].op
            rule == IF h.forever THEN NoRule ELSE task[h.id].rule
            row == Stamped(task[h.id], call[c].stamp, rule)
<1>0. op \in Cascading
  OBVIOUS
<1>1. Busy(c) /\ h.do = "stamp" /\ Then(c, <<>>)
  BY DEF Stamp, At
<1>2. /\ h \in Step /\ owed[c] \in SUBSET Tasks
      /\ \A step \in rest : step.do # "stamp" /\ step.do # "open"
      /\ Due(task, op, {h} \cup rest, owed[c])
  BY <1>1, HeadAndRest
<1>3. h.id \in Tasks /\ task \in [Tasks -> Row \cup {NoRow}]
  BY <1>1, <1>2, StepFields DEF TypeOK
<1>4. task' = [task EXCEPT ![h.id] = IF h.id \in Live THEN row ELSE task[h.id]]
  BY DEF Stamp, UpdateIfLive, Stamped
<1>5. h.id \in Live =>
        /\ row \in Row /\ row # NoRow /\ row.done # 0
        /\ row.deleted = task[h.id].deleted /\ row.parent = task[h.id].parent
        /\ row.section = task[h.id].section
  <2>. SUFFICES ASSUME h.id \in Live
                PROVE  /\ row \in Row /\ row # NoRow /\ row.done # 0
                       /\ row.deleted = task[h.id].deleted /\ row.parent = task[h.id].parent
                       /\ row.section = task[h.id].section
    OBVIOUS
  <2>1. task[h.id] \in Row BY InStore
  <2>2. call[c].stamp \in Nat /\ call[c].stamp # 0
    BY <1>1, HeadStep DEF Call, Able
  <2>3. rule \in Rule \cup {NoRule} BY <2>1 DEF Row
  <2>. HIDE DEF rule, h
  <2>4. /\ row \in Row /\ row.done # 0
        /\ row.deleted = task[h.id].deleted /\ row.parent = task[h.id].parent
        /\ row.section = task[h.id].section
    BY <2>1, <2>2, <2>3 DEF Stamped, Row
  <2>. QED BY <2>4, NoRowAssumption
<1>. HIDE DEF row
<1>6. /\ \A t \in Tasks \ {h.id} : task'[t] = task[t]
      /\ h.id \notin Live => task'[h.id] = task[h.id]
      /\ h.id \in Live => task'[h.id] = row
  BY <1>3, <1>4
<1>7. Due(task', op, {} \cup rest, owed[c])
  <2>1. /\ h.id \notin Alive(task) => task'[h.id] = task[h.id]
        /\ h.id \in Alive(task) =>
             /\ task'[h.id] # NoRow /\ task'[h.id].done # 0
             /\ task'[h.id].deleted = task[h.id].deleted
             /\ task'[h.id].parent = task[h.id].parent
             /\ task'[h.id].section = task[h.id].section
    BY <1>5, <1>6, AliveIsLive
  <2>2. PICK after : after = task' OBVIOUS
  <2>. HIDE DEF h, rest, op
  <2>3. Due(after, op, {} \cup rest, owed[c])
    BY <1>0, <1>1, <1>2, <1>3, <1>6, <2>1, <2>2, StampIsDue
  <2>. QED BY <2>2, <2>3
<1>8. GoesOn(c, <<>>)
  BY <1>1, <1>7, NothingFollows DEF GoesOn
<1>. QED BY <1>8 DEF Keeps

\* An order of a set of Tasks leaves none of them out.
LEMMA OrderIsWhole ==
  ASSUME NEW S \in SUBSET Tasks, NEW order \in SetToSeqs(S)
  PROVE  order \in Seq(Tasks) /\ ToSet(order) = S
<1>. DEFINE n == Cardinality(S)  D == 1 .. n
<1>1. order \in Seq(Tasks) /\ \A k \in DOMAIN order : order[k] \in S
  BY OrderIsSeq
<1>2. IsFiniteSet(S)
  BY FS_Subset, TaskStoreAssumption
<1>3. n \in Nat
  BY <1>2, FS_CardinalityType
<1>4. IsFiniteSet(D) /\ Cardinality(D) = n
  BY <1>3, FS_Interval
<1>5. order \in [D -> S] /\ \A i, j \in D : i # j => order[i] # order[j]
  BY DEF SetToSeqs
<1>. HIDE DEF D, n
<1>6. order \in Injection(D, S)
  BY <1>5 DEF Injection, IsInjective
<1>7. order \in Surjection(D, S)
  BY <1>2, <1>4, <1>6, FS_Injection DEF n
<1>8. \A t \in S : \E k \in D : order[k] = t
  BY <1>7 DEF Surjection
<1>9. DOMAIN order = D
  BY <1>5
<1>. QED BY <1>1, <1>8, <1>9 DEF ToSet

\* completeChildren.
LEMMA ChildrenKeeps ==
  ASSUME TypeOK, NEW c \in Callers, Able(task, call[c], owed[c]), Children(c),
         call[c].op \in Cascading
  PROVE  Keeps(c)
<1>. DEFINE h == Head(call[c].steps)  rest == ToSet(Tail(call[c].steps))
            op == call[c].op
            kids == ListChildren(h.id)
<1>0. op \in Cascading
  OBVIOUS
<1>1. Busy(c) /\ h.do = "children" /\ UNCHANGED task
  BY DEF Children, At
<1>2. /\ h \in Step /\ owed[c] \in SUBSET Tasks
      /\ \A step \in rest : step.do # "stamp" /\ step.do # "open"
      /\ Due(task, op, {h} \cup rest, owed[c])
  BY <1>1, HeadAndRest
<1>3. h.id \in Tasks
  BY <1>1, <1>2, StepFields
<1>4. kids = {t \in Alive(task) : task[t].parent = h.id /\ task[t].done = 0}
  BY AliveIsLive DEF ListChildren, ChildrenOf, ActiveTasks
<1>5. kids \in SUBSET Tasks
  BY <1>4 DEF Alive
<1>6. PICK order \in SetToSeqs(kids) : Then(c, Does("complete", order))
  BY DEF Children
<1>. HIDE DEF kids
<1>7. order \in Seq(Tasks) /\ ToSet(order) = kids
  BY <1>5, OrderIsWhole
<1>. DEFINE new == Does("complete", order)
<1>8. Follow(new) /\ ToSet(new) = {[do |-> "complete", id |-> t] : t \in kids}
  BY <1>7, DoesFollow
<1>. HIDE DEF new
<1>9. Due(task, op, ToSet(new) \cup rest, owed[c])
  <2>. HIDE DEF h, rest, op
  <2>. QED BY <1>0, <1>1, <1>2, <1>3, <1>4, <1>8, ChildrenAreDue
<1>10. GoesOn(c, new)
  BY <1>1, <1>6, <1>8, <1>9 DEF GoesOn, new
<1>. QED BY <1>10 DEF Keeps

\* The Section is looked up: only a call that finds it gone stops short.
LEMMA OpenKeeps ==
  ASSUME TypeOK, NEW c \in Callers, Able(task, call[c], owed[c]), Open(c),
         call[c].op \in Cascading
  PROVE  Keeps(c) \/ (At(c, "open") /\ Throw(c))
<1>. DEFINE h == Head(call[c].steps)  rest == ToSet(Tail(call[c].steps))
            op == call[c].op
            copy == [h EXCEPT !.do = "members"]
            next == [do |-> "members", section |-> h.section, fate |-> h.fate]
<1>0. op \in Cascading
  OBVIOUS
<1>1. Busy(c) /\ h.do = "open" /\ UNCHANGED task /\ At(c, "open")
  BY DEF Open, At
<1>2. /\ h \in Step /\ owed[c] \in SUBSET Tasks
      /\ \A step \in rest : step.do # "stamp" /\ step.do # "open"
      /\ Due(task, op, {h} \cup rest, owed[c])
  BY <1>1, HeadAndRest
<1>3. /\ h = [do |-> "open", section |-> h.section, fate |-> h.fate]
      /\ h.section \in Sections /\ h.fate \in Fates
  BY <1>1, <1>2, StepFields
<1>4. copy = next /\ next \in Step /\ next.do = "members"
  <2>1. copy = next BY <1>3
  <2>. QED BY <1>3, <2>1 DEF Step
<1>5. Then(c, <<>>) \/ Then(c, <<copy>>)
  BY DEF Open
<1>6. CASE Then(c, <<copy>>)
  <2>1. Follow(<<next>>) /\ ToSet(<<next>>) = {next}
    <3>. HIDE DEF next
    <3>. QED BY <1>4, OneFollows
  <2>2. Due(task, op, {next} \cup rest, owed[c])
    <3>1. next.section = h.section /\ next.fate = h.fate OBVIOUS
    <3>. HIDE DEF h, rest, op, next
    <3>. QED BY <1>0, <1>1, <1>2, <1>4, <3>1, OpenIsDue
  <2>3. GoesOn(c, <<next>>)
    <3>1. Then(c, <<next>>) BY <1>4, <1>6
    <3>. HIDE DEF next
    <3>. QED BY <1>1, <2>1, <2>2, <3>1 DEF GoesOn
  <2>. QED BY <2>3 DEF Keeps
<1>7. CASE Then(c, <<>>)
  <2>1. Tail(call[c].steps) = <<>>
    <3>1. call[c].steps \in Seq(Step) /\ call[c].steps # <<>> BY <1>1, HeadStep
    <3>2. h = call[c].steps[1] /\ 1 \in DOMAIN call[c].steps BY <3>1, FirstAndRest
    <3>3. Len(call[c].steps) = 1 BY <1>1, <3>2 DEF Able
    <3>. QED BY <3>1, <3>3, FirstAndRest
  <2>2. <<>> \o Tail(call[c].steps) = <<>> BY <2>1
  <2>. QED BY <1>1, <1>7, <2>2 DEF Then, Throw
<1>. QED BY <1>5, <1>6, <1>7

\* listInSection.
LEMMA MembersKeeps ==
  ASSUME TypeOK, NEW c \in Callers, Able(task, call[c], owed[c]), Members(c),
         call[c].op \in Cascading
  PROVE  Keeps(c)
<1>. DEFINE h == Head(call[c].steps)  rest == ToSet(Tail(call[c].steps))
            op == call[c].op
            S == {t \in Live : task[t].section = h.section}
            Found(t) == IF h.fate = "complete" /\ t \in ActiveTasks THEN <<t>> ELSE <<>>
            Start(t) == [do |-> "descend", id |-> t, frontier |-> {t}, fate |-> h.fate,
                         found |-> Found(t)]
            last == [do |-> "finish", section |-> h.section, fate |-> h.fate]
<1>0. op \in Cascading
  OBVIOUS
<1>1. Busy(c) /\ h.do = "members" /\ UNCHANGED task
  BY DEF Members, At
<1>2. /\ h \in Step /\ owed[c] \in SUBSET Tasks
      /\ \A step \in rest : step.do # "stamp" /\ step.do # "open"
      /\ Due(task, op, {h} \cup rest, owed[c])
  BY <1>1, HeadAndRest
<1>3. h.section \in Sections /\ h.fate \in Fates
  BY <1>1, <1>2, StepFields
<1>4. S = {t \in Alive(task) : task[t].section = h.section} /\ S \in SUBSET Tasks
  BY InStore, AliveIsLive
<1>5. PICK order \in SetToSeqs(S) :
        Then(c, [k \in DOMAIN order |-> Start(order[k])] \o <<last>>)
  BY DEF Members
<1>6. order \in Seq(Tasks) /\ ToSet(order) = S
  BY <1>4, OrderIsWhole
<1>7. last \in Step /\ last.do = "finish"
  BY <1>3 DEF Step
<1>8. ASSUME NEW t \in S
      PROVE  Start(t) \in Step /\ Start(t).id = t /\ Starts(task, h.fate, Start(t))
  <2>1. t \in Tasks /\ (t \in ActiveTasks <=> task[t].done = 0)
    BY <1>4 DEF ActiveTasks
  <2>2. Found(t) \in Seq(Tasks) BY <2>1
  <2>3. ToSet(<<t>>) = {t} /\ ToSet(<<>>) = {} BY DEF ToSet
  <2>4. ToSet(Found(t)) = IF h.fate = "complete" /\ task[t].done = 0 THEN {t} ELSE {}
    BY <2>1, <2>3
  <2>. HIDE DEF Found, h
  <2>5. Start(t) \in Step BY <1>3, <2>1, <2>2 DEF Step
  <2>. QED BY <2>4, <2>5 DEF Starts
<1>. DEFINE first == [k \in DOMAIN order |-> Start(order[k])]
            new == first \o <<last>>
<1>. HIDE DEF Start, last, S
<1>9. /\ first \in Seq(Step) /\ DOMAIN first = DOMAIN order
      /\ \A k \in DOMAIN order : first[k] = Start(order[k]) /\ order[k] \in S
  <2>1. Len(order) \in Nat /\ DOMAIN order = 1 .. Len(order) BY <1>6, LenProperties
  <2>2. \A k \in DOMAIN order : order[k] \in S BY <1>6 DEF ToSet
  <2>3. first \in [1 .. Len(order) -> Step] BY <1>8, <2>1, <2>2
  <2>4. first \in Seq(Step) BY <2>1, <2>3, SeqDef
  <2>. QED BY <2>2, <2>4
<1>10. ToSet(first) = {Start(t) : t \in S}
  <2>. HIDE DEF first
  <2>1. \A t \in S : \E k \in DOMAIN order : order[k] = t BY <1>6 DEF ToSet
  <2>. QED BY <1>9, <2>1 DEF ToSet
<1>11. /\ new \in Seq(Step)
       /\ \A k \in DOMAIN new : new[k] \in ToSet(first) \cup {last}
       /\ ToSet(new) = ToSet(first) \cup {last}
  <2>. HIDE DEF first
  <2>. DEFINE tip == <<last>>
  <2>1. tip \in Seq(Step) /\ Len(tip) = 1 /\ tip[1] = last BY <1>7
  <2>. HIDE DEF tip
  <2>2. /\ new \in Seq(Step) /\ Len(new) = Len(first) + 1 /\ Len(first) \in Nat
        /\ \A i \in 1 .. Len(first) + 1 :
             new[i] = IF i <= Len(first) THEN first[i] ELSE tip[i - Len(first)]
    BY <1>9, <2>1, ConcatProperties, LenProperties DEF tip
  <2>3. DOMAIN new = 1 .. Len(first) + 1 /\ DOMAIN first = 1 .. Len(first)
    BY <1>9, <2>2, LenProperties
  <2>. HIDE DEF new
  <2>4. \A k \in DOMAIN new : new[k] \in ToSet(first) \cup {last}
    <3>. SUFFICES ASSUME NEW k \in 1 .. Len(first) + 1
                  PROVE  new[k] \in ToSet(first) \cup {last}
      BY <2>3
    <3>1. CASE k <= Len(first) BY <2>2, <2>3, <3>1 DEF ToSet
    <3>2. CASE k = Len(first) + 1 BY <2>1, <2>2, <3>2
    <3>. QED BY <2>2, <3>1, <3>2
  <2>5. ToSet(new) \subseteq ToSet(first) \cup {last} BY <2>4 DEF ToSet
  <2>6. last \in ToSet(new)
    <3>1. Len(first) + 1 \in DOMAIN new /\ new[Len(first) + 1] = last BY <2>1, <2>2, <2>3
    <3>. QED BY <3>1 DEF ToSet
  <2>7. ToSet(first) \subseteq ToSet(new)
    <3>1. \A k \in DOMAIN first : k \in DOMAIN new /\ new[k] = first[k]
      BY <2>2, <2>3
    <3>. QED BY <3>1 DEF ToSet
  <2>. QED BY <2>2, <2>4, <2>5, <2>6, <2>7
<1>. HIDE DEF new, first
<1>12. ASSUME NEW step \in ToSet(first)
       PROVE  step.id \in S /\ Starts(task, h.fate, step)
  <2>1. PICK t \in S : step = Start(t) BY <1>10, Zenon
  <2>. QED BY <1>8, <2>1, Zenon
<1>13. Follow(new)
  BY <1>7, <1>11, <1>12 DEF Follow, Starts
<1>14. Due(task, op, ToSet(new) \cup rest, owed[c])
  <2>. DEFINE walks == ToSet(first)
  <2>1. \A step \in walks : step.id \in S /\ Starts(task, h.fate, step)
    BY <1>12, Zenon
  <2>2. \A t \in S : \E step \in walks : step.id = t
    BY <1>8, <1>10
  <2>3. S = {t \in Alive(task) : task[t].section = h.section}
    BY <1>4
  <2>4. ToSet(new) = walks \cup {last} BY <1>11
  <2>. HIDE DEF h, rest, op, walks
  <2>5. Due(task, op, (walks \cup {last}) \cup rest, owed[c])
    BY <1>0, <1>1, <1>2, <1>7, <2>1, <2>2, <2>3, MembersAreDue
  <2>. QED BY <2>4, <2>5
<1>15. GoesOn(c, new)
  BY <1>1, <1>5, <1>13, <1>14 DEF GoesOn, new, first
<1>. QED BY <1>15 DEF Keeps

\* A walk down, one level further, has the level and what was found there.
LEMMA Descended ==
  ASSUME NEW step \in Step, step.do = "descend",
         NEW kids \in SUBSET Tasks, NEW all \in Seq(Tasks),
         NEW down, down = Deeper(step, kids, all)
  PROVE  down \in Step /\ down.frontier = kids /\ down.found = all
         /\ down.do = "descend" /\ down.id = step.id /\ down.fate = step.fate
<1>. DEFINE Walks == [do : {"descend"}, id : Tasks, frontier : SUBSET Tasks,
                      found : Seq(Tasks), fate : Fates]
<1>1. step \in Walks
  BY StepFields
<1>2. down.frontier = kids
  BY <1>1 DEF Deeper
<1>. QED BY <1>2, DescendOn

\* One list after another holds what both did.
LEMMA BothLists ==
  ASSUME NEW T, NEW one \in Seq(T), NEW two \in Seq(T)
  PROVE  one \o two \in Seq(T) /\ ToSet(one \o two) = ToSet(one) \cup ToSet(two)
<1>. DEFINE all == one \o two
<1>1. /\ all \in Seq(T) /\ Len(all) = Len(one) + Len(two)
      /\ \A i \in 1 .. Len(one) + Len(two) :
           all[i] = IF i <= Len(one) THEN one[i] ELSE two[i - Len(one)]
  BY ConcatProperties
<1>2. /\ Len(one) \in Nat /\ Len(two) \in Nat /\ DOMAIN one = 1 .. Len(one)
      /\ DOMAIN two = 1 .. Len(two) /\ DOMAIN all = 1 .. Len(one) + Len(two)
  BY <1>1, LenProperties
<1>. HIDE DEF all
<1>3. \A k \in DOMAIN all : all[k] \in ToSet(one) \cup ToSet(two)
  <2>. SUFFICES ASSUME NEW k \in 1 .. Len(one) + Len(two)
                PROVE  all[k] \in ToSet(one) \cup ToSet(two)
    BY <1>2
  <2>1. CASE k <= Len(one) BY <1>1, <1>2, <2>1 DEF ToSet
  <2>2. CASE ~(k <= Len(one))
    <3>1. k - Len(one) \in DOMAIN two /\ all[k] = two[k - Len(one)]
      BY <1>1, <1>2, <2>2
    <3>. QED BY <3>1 DEF ToSet
  <2>. QED BY <2>1, <2>2
<1>4. ToSet(one) \subseteq ToSet(all)
  <2>1. \A k \in DOMAIN one : k \in DOMAIN all /\ all[k] = one[k] BY <1>1, <1>2
  <2>. QED BY <2>1 DEF ToSet
<1>5. ToSet(two) \subseteq ToSet(all)
  <2>. SUFFICES ASSUME NEW k \in DOMAIN two PROVE two[k] \in ToSet(all)
    BY DEF ToSet
  <2>1. k \in 1 .. Len(two) BY <1>2
  <2>2. k + Len(one) \in DOMAIN all /\ all[k + Len(one)] = two[k]
    <3>1. /\ k + Len(one) \in 1 .. Len(one) + Len(two) /\ ~(k + Len(one) <= Len(one))
          /\ (k + Len(one)) - Len(one) = k
      BY <1>2, <2>1
    <3>. QED BY <1>1, <1>2, <3>1
  <2>. QED BY <2>2 DEF ToSet
<1>6. ToSet(all) \subseteq ToSet(one) \cup ToSet(two)
  BY <1>3 DEF ToSet
<1>. QED BY <1>1, <1>4, <1>5, <1>6 DEF all

\* The steps of a finished walk.
LEMMA AppliedSteps ==
  ASSUME NEW h \in Step, h.do = "descend"
  PROVE  /\ Follow(Apply(h))
         /\ ToSet(Apply(h)) =
              IF h.fate = "remove"
                THEN {[do |-> "remove", id |-> t] : t \in ToSet(h.found) \cup {h.id}}
                ELSE {[do |-> "complete", id |-> t] : t \in ToSet(h.found)}
<1>1. h.id \in Tasks /\ h.found \in Seq(Tasks)
  BY StepFields
<1>2. CASE h.fate = "remove"
  <2>. DEFINE tip == <<h.id>>  all == h.found \o tip
  <2>1. tip \in Seq(Tasks) /\ ToSet(tip) = {h.id} BY <1>1 DEF ToSet
  <2>2. Append(h.found, h.id) = all BY <1>1, AppendIsConcat
  <2>. HIDE DEF tip
  <2>3. all \in Seq(Tasks) /\ ToSet(all) = ToSet(h.found) \cup {h.id}
    BY <1>1, <2>1, BothLists
  <2>. HIDE DEF all
  <2>4. /\ Follow(Does("remove", all))
        /\ ToSet(Does("remove", all)) = {[do |-> "remove", id |-> t] : t \in ToSet(all)}
    BY <2>3, DoesFollow
  <2>. QED BY <1>2, <2>2, <2>3, <2>4 DEF Apply
<1>3. CASE h.fate # "remove"
  <2>1. /\ Follow(Does("complete", h.found))
        /\ ToSet(Does("complete", h.found)) =
             {[do |-> "complete", id |-> t] : t \in ToSet(h.found)}
    BY <1>1, DoesFollow
  <2>. QED BY <1>3, <2>1 DEF Apply
<1>. QED BY <1>2, <1>3

\* One query of listDescendants.
LEMMA DescendKeeps ==
  ASSUME TypeOK, NEW c \in Callers, Able(task, call[c], owed[c]), Descend(c),
         call[c].op \in Cascading
  PROVE  Keeps(c)
<1>. DEFINE h == Head(call[c].steps)  rest == ToSet(Tail(call[c].steps))
            op == call[c].op
            kids == ChildrenOf(h.frontier)
            fresh == (IF h.fate = "remove" THEN kids ELSE kids \cap ActiveTasks)
                       \ ToSet(h.found)
<1>0. op \in Cascading
  OBVIOUS
<1>1. Busy(c) /\ h.do = "descend" /\ UNCHANGED task
  BY DEF Descend, At
<1>2. /\ h \in Step /\ owed[c] \in SUBSET Tasks
      /\ \A step \in rest : step.do # "stamp" /\ step.do # "open"
      /\ Due(task, op, {h} \cup rest, owed[c])
  BY <1>1, HeadAndRest
<1>3. h.id \in Tasks /\ h.found \in Seq(Tasks)
  BY <1>1, <1>2, StepFields
<1>4. kids = {t \in Alive(task) : task[t].parent \in h.frontier}
  BY AliveIsLive DEF ChildrenOf
<1>5. kids \in SUBSET Tasks /\ fresh \in SUBSET Tasks /\ fresh \subseteq kids
  BY <1>4 DEF Alive
<1>6. \/ kids = {} /\ Then(c, Apply(h))
      \/ \E order \in SetToSeqs(fresh) : Then(c, <<Deeper(h, kids, h.found \o order)>>)
  BY DEF Descend, Deeper
<1>7. CASE kids = {} /\ Then(c, Apply(h))
  <2>. DEFINE new == Apply(h)
  <2>1. /\ Follow(new)
        /\ ToSet(new) =
             IF h.fate = "remove"
               THEN {[do |-> "remove", id |-> t] : t \in ToSet(h.found) \cup {h.id}}
               ELSE {[do |-> "complete", id |-> t] : t \in ToSet(h.found)}
    BY <1>1, <1>2, AppliedSteps
  <2>2. \A t \in Alive(task) : task[t].parent \notin h.frontier
    BY <1>4, <1>7
  <2>. HIDE DEF new
  <2>3. Due(task, op, ToSet(new) \cup rest, owed[c])
    <3>. HIDE DEF h, rest, op
    <3>. QED BY <1>0, <1>1, <1>2, <2>1, <2>2, WalkedIsDue
  <2>4. GoesOn(c, new)
    BY <1>1, <1>7, <2>1, <2>3 DEF GoesOn, new
  <2>. QED BY <2>4 DEF Keeps
<1>8. ASSUME NEW order \in SetToSeqs(fresh),
             Then(c, <<Deeper(h, kids, h.found \o order)>>)
      PROVE  Keeps(c)
  <2>. DEFINE all == h.found \o order  next == Deeper(h, kids, all)
  <2>1. \A t \in kids : t \in fresh \/ t \in ToSet(h.found)
                          \/ (h.fate # "remove" /\ task[t].done # 0)
    BY <1>4, AliveIsLive DEF ActiveTasks
  <2>. HIDE DEF kids, fresh
  <2>2. order \in Seq(Tasks) /\ ToSet(order) = fresh
    BY <1>5, OrderIsWhole
  <2>3. all \in Seq(Tasks) /\ ToSet(all) = ToSet(h.found) \cup fresh
    BY <1>3, <2>2, BothLists
  <2>. HIDE DEF all
  <2>4. /\ next \in Step /\ next.do = "descend" /\ next.id = h.id /\ next.fate = h.fate
        /\ next.frontier = kids /\ next.found = all
    <3>. HIDE DEF h
    <3>. QED BY <1>1, <1>2, <1>5, <2>3, Descended
  <2>. HIDE DEF next
  <2>5. Follow(<<next>>) /\ ToSet(<<next>>) = {next}
    BY <2>4, OneFollows
  <2>6. /\ \A t \in Tasks : t \in ToSet(h.found) => t \in ToSet(next.found)
        /\ \A t \in kids : h.fate = "remove" \/ task[t].done = 0 => t \in ToSet(next.found)
        /\ ToSet(next.found) \subseteq ToSet(h.found) \cup kids
    BY <1>5, <2>1, <2>3, <2>4
  <2>7. Due(task, op, {next} \cup rest, owed[c])
    <3>. HIDE DEF h, rest, op
    <3>. QED BY <1>0, <1>1, <1>2, <1>4, <2>4, <2>6, DescentIsDue
  <2>8. GoesOn(c, <<next>>)
    <3>1. Then(c, <<next>>) BY <1>8 DEF next, all
    <3>. QED BY <1>1, <2>5, <2>7, <3>1 DEF GoesOn
  <2>. QED BY <2>8 DEF Keeps
<1>. QED BY <1>6, <1>7, <1>8

\* remove() of a row that is there.
LEMMA RemoveKeeps ==
  ASSUME TypeOK, StepsKnow, NEW c \in Callers, Able(task, call[c], owed[c]), RemoveStep(c),
         call[c].op \in Cascading
  PROVE  Keeps(c)
<1>. DEFINE h == Head(call[c].steps)  rest == ToSet(Tail(call[c].steps))
            op == call[c].op
            row == [task[h.id] EXCEPT !.deleted = TRUE]
<1>0. op \in Cascading
  OBVIOUS
<1>1. Busy(c) /\ h.do = "remove" /\ Then(c, <<>>)
  BY DEF RemoveStep, At
<1>2. /\ h \in Step /\ owed[c] \in SUBSET Tasks
      /\ \A step \in rest : step.do # "stamp" /\ step.do # "open"
      /\ Due(task, op, {h} \cup rest, owed[c])
  BY <1>1, HeadAndRest
<1>3. h.id \in Held
  <2>1. 1 \in DOMAIN call[c].steps /\ h = call[c].steps[1] BY <1>1, HeadStep
  <2>. QED BY <1>1, <2>1 DEF StepsKnow, Knows
<1>4. h.id \in Tasks /\ task[h.id] # NoRow /\ task[h.id] \in Row
      /\ task \in [Tasks -> Row \cup {NoRow}]
  BY <1>3, InStore DEF Held, TypeOK
<1>5. task' = [task EXCEPT ![h.id] = row]
  BY DEF RemoveStep, RemoveRow
<1>6. row \in Row /\ row.deleted /\ row.parent = task[h.id].parent /\ row # NoRow
  <2>1. row \in Row /\ row.deleted /\ row.parent = task[h.id].parent BY <1>4 DEF Row
  <2>. QED BY <2>1, NoRowAssumption
<1>. HIDE DEF row
<1>7. /\ \A t \in Tasks \ {h.id} : task'[t] = task[t]
      /\ task'[h.id] = row
  BY <1>4, <1>5
<1>8. Due(task', op, {} \cup rest, owed[c])
  <2>1. PICK after : after = task' OBVIOUS
  <2>2. /\ after[h.id] # NoRow /\ after[h.id].deleted
        /\ after[h.id].parent = task[h.id].parent
        /\ \A t \in Tasks \ {h.id} : after[t] = task[t]
    BY <1>6, <1>7, <2>1
  <2>. HIDE DEF h, rest, op
  <2>3. Due(after, op, {} \cup rest, owed[c])
    BY <1>0, <1>1, <1>2, <1>4, <2>2, RemovalIsDue
  <2>. QED BY <2>1, <2>3
<1>9. GoesOn(c, <<>>)
  BY <1>1, <1>8, NothingFollows DEF GoesOn
<1>. QED BY <1>9 DEF Keeps

\* The Section's own row.
LEMMA FinishKeeps ==
  ASSUME TypeOK, NEW c \in Callers, Able(task, call[c], owed[c]), Finish(c),
         call[c].op \in Cascading
  PROVE  Keeps(c)
<1>. DEFINE h == Head(call[c].steps)  rest == ToSet(Tail(call[c].steps))
            op == call[c].op
<1>0. op \in Cascading
  OBVIOUS
<1>1. Busy(c) /\ h.do = "finish" /\ Then(c, <<>>) /\ UNCHANGED task
  BY DEF Finish, At
<1>2. /\ h \in Step /\ owed[c] \in SUBSET Tasks
      /\ \A step \in rest : step.do # "stamp" /\ step.do # "open"
      /\ Due(task, op, {h} \cup rest, owed[c])
  BY <1>1, HeadAndRest
<1>3. Due(task, op, {} \cup rest, owed[c])
  <2>. HIDE DEF h, rest, op
  <2>. QED BY <1>0, <1>1, <1>2, SpentIsDue
<1>4. GoesOn(c, <<>>)
  BY <1>1, <1>3, NothingFollows DEF GoesOn
<1>. QED BY <1>4 DEF Keeps

\* No other step is one that a cascade takes.
LEMMA OtherMethods ==
  ASSUME TypeOK, NEW c \in Callers, Able(task, call[c], owed[c]), Busy(c),
         call[c].op \in Cascading
  PROVE  Head(call[c].steps).do \notin
           {"reparent", "walk", "link", "advance", "recur", "date", "postpone"}
<1>. DEFINE h == Head(call[c].steps)  op == call[c].op
<1>1. Due(task, op, {h} \cup ToSet(Tail(call[c].steps)), owed[c])
  BY HeadAndRest
<1>2. h.do \in Takes(op)
  BY <1>1 DEF Due, StepOf
<1>3. h.do \notin {"reparent", "walk", "link", "advance", "recur", "date", "postpone"}
  <2>. HIDE DEF h, op
  <2>1. op \in Cascading BY DEF op
  <2>. QED BY <1>2, <2>1, StepsOfMethods DEF Completing
<1>. QED BY <1>3

\* Each step of a cascade leaves it able to keep its promise, but for the one
\* that finds its Section gone and ends the call.
LEMMA CascadeKeeps ==
  ASSUME TasksInv, NEW c \in Callers, Able(task, call[c], owed[c]), StoreStep(c),
         call[c].op \in Cascading
  PROVE  Keeps(c) \/ (At(c, "open") /\ Throw(c))
<1>1. TypeOK /\ StepsKnow
  BY DEF TasksInv
<1>2. CASE \/ Reparent(c) \/ Walk(c) \/ Link(c) \/ Advance(c) \/ Recur(c) \/ Date(c)
           \/ Postpone(c)
  <2>1. Busy(c) /\ Head(call[c].steps).do \in
                     {"reparent", "walk", "link", "advance", "recur", "date", "postpone"}
    BY <1>2 DEF At, Reparent, Walk, Link, Advance, Recur, Date, Postpone
  <2>. QED BY <1>1, <2>1, OtherMethods
<1>. QED BY <1>1, <1>2, CompleteKeeps, StampKeeps, ChildrenKeeps, OpenKeeps, MembersKeeps,
            DescendKeeps, RemoveKeeps, FinishKeeps, Zenon DEF StoreStep

\* What replaces the first step of a call, and the others, are in order.
LEMMA StepsFollow ==
  ASSUME NEW old \in Seq(Step), old # <<>>, NEW new, Follow(new),
         \A k \in DOMAIN old : /\ old[k].do = "open" => Len(old) = 1
                               /\ old[k].do = "stamp" => k = 1
  PROVE  /\ ToSet(new \o Tail(old)) = ToSet(new) \cup ToSet(Tail(old))
         /\ \A k \in DOMAIN (new \o Tail(old)) :
              /\ (new \o Tail(old))[k].do # "open"
              /\ (new \o Tail(old))[k].do = "stamp" => k = 1
<1>. DEFINE rest == Tail(old)  all == new \o rest
<1>1. new \in Seq(Step) /\ rest \in Seq(Step)
  BY FirstAndRest DEF Follow
<1>2. \A k \in DOMAIN all : \/ k \in DOMAIN new /\ all[k] = new[k]
                            \/ \E j \in DOMAIN old : j > 1 /\ all[k] = old[j]
  BY <1>1, Replaced
<1>3. DOMAIN old = 1 .. Len(old) /\ Len(old) \in Nat
  BY LenProperties
<1>. HIDE DEF rest
<1>4. ToSet(all) = ToSet(new) \cup ToSet(rest)
  BY <1>1, BothLists
<1>. HIDE DEF all
<1>5. ASSUME NEW k \in DOMAIN all
      PROVE  all[k].do # "open" /\ (all[k].do = "stamp" => k = 1)
  <2>1. CASE k \in DOMAIN new /\ all[k] = new[k]
    BY <2>1 DEF Follow
  <2>2. ASSUME NEW j \in DOMAIN old, j > 1, all[k] = old[j]
        PROVE  all[k].do # "open" /\ all[k].do # "stamp"
    <3>1. j # 1 /\ Len(old) # 1 BY <1>3, <2>2
    <3>. QED BY <2>2, <3>1
  <2>. QED BY <1>2, <2>1, <2>2
<1>. QED BY <1>4, <1>5 DEF all, rest

\* A cascade that goes on is able to keep its promise.
LEMMA GoingOnIsAble ==
  ASSUME TypeOK, NEW c \in Callers, Busy(c), Able(task, call[c], owed[c]),
         call[c].op \in Cascading, Keeps(c)
  PROVE  /\ Due(task', call[c].op, ToSet(call'[c].steps), owed[c])
         /\ \A k \in DOMAIN call'[c].steps :
              /\ call'[c].steps[k].do # "open"
              /\ call'[c].steps[k].do = "stamp" => k = 1
<1>. DEFINE old == call[c].steps
<1>1. old \in Seq(Step) /\ old # <<>> /\ call \in [Callers -> Call]
  BY HeadStep DEF TypeOK
<1>2. \A k \in DOMAIN old : /\ old[k].do = "open" => Len(old) = 1
                            /\ old[k].do = "stamp" => k = 1
  BY DEF Able
<1>3. PICK new : GoesOn(c, new)
  BY DEF Keeps
<1>4. /\ Follow(new) /\ call' = [call EXCEPT ![c].steps = new \o Tail(old)]
      /\ Due(task', call[c].op, ToSet(new) \cup ToSet(Tail(old)), owed[c])
  BY <1>3 DEF GoesOn, Then
<1>5. call'[c].steps = new \o Tail(old)
  <2>. DEFINE all == new \o Tail(old)
  <2>. HIDE DEF all
  <2>1. call' = [call EXCEPT ![c].steps = all] BY <1>4 DEF all
  <2>2. call[c] \in Call BY <1>1
  <2>3. call'[c].steps = all BY <1>1, <2>1, <2>2 DEF Call
  <2>. QED BY <2>3 DEF all
<1>. HIDE DEF old
<1>6. /\ ToSet(new \o Tail(old)) = ToSet(new) \cup ToSet(Tail(old))
      /\ \A k \in DOMAIN (new \o Tail(old)) :
           /\ (new \o Tail(old))[k].do # "open"
           /\ (new \o Tail(old))[k].do = "stamp" => k = 1
  BY <1>1, <1>2, <1>4, StepsFollow
<1>. QED BY <1>4, <1>5, <1>6

\* A call's own step leaves it what it owes, and able to reach it, unless its
\* Section was gone.
LEMMA RunIsDue ==
  ASSUME TasksInv, OwedIsDue, NEW c \in Callers, Run(c)
  PROVE  /\ Busy(c) /\ \A d \in Callers : d # c => call'[d] = call[d]
         /\ call'[c].op = call[c].op /\ call'[c].stamp = call[c].stamp
         /\ owed'[c] = owed[c]
         /\ \/ At(c, "open") /\ call'[c].steps = <<>>
            \/ /\ Due(task', call[c].op, ToSet(call'[c].steps), owed[c])
               /\ call[c].op \in Cascading => \A k \in DOMAIN call'[c].steps :
                    /\ call'[c].steps[k].do # "open"
                    /\ call'[c].steps[k].do = "stamp" => k = 1
<1>1. StoreStep(c) /\ Interfere({c}) /\ TypeOK
  BY DEF Run, TasksInv
<1>2. Busy(c)
  BY <1>1 DEF StoreStep, Complete, Stamp, Children, Reparent, Walk, Link, Advance, Recur, Date,
              Postpone, Open, Members, Descend, RemoveStep, Finish, At
<1>3. /\ \A d \in Callers : d # c => call'[d] = call[d]
      /\ call'[c].op = call[c].op /\ call'[c].stamp = call[c].stamp
  BY <1>1, <1>2, CallGoesOn, StepGoes
<1>4. owed'[c] = owed[c]
  BY <1>1 DEF Interfere
<1>5. Able(task, call[c], owed[c])
  BY <1>2 DEF OwedIsDue
<1>6. CASE call[c].op \notin Cascading
  <2>1. owed[c] = {} BY <1>5, <1>6 DEF Able, Due
  <2>2. Due(task', call[c].op, ToSet(call'[c].steps), {}) BY <1>6, NothingIsDue
  <2>. QED BY <1>2, <1>3, <1>4, <1>6, <2>1, <2>2
<1>7. CASE call[c].op \in Cascading
  <2>1. CASE Keeps(c)
    BY <1>1, <1>2, <1>3, <1>4, <1>5, <1>7, <2>1, GoingOnIsAble
  <2>2. CASE At(c, "open") /\ Throw(c)
    <3>1. call \in [Callers -> Call] /\ call[c] \in Call BY <1>1 DEF TypeOK
    <3>2. call' = [call EXCEPT ![c].steps = <<>>] BY <2>2 DEF Throw
    <3>3. call'[c].steps = <<>> BY <3>1, <3>2 DEF Call
    <3>. QED BY <1>2, <1>3, <1>4, <2>2, <3>3
  <2>. QED BY <1>1, <1>5, <1>7, <2>1, <2>2, CascadeKeeps
<1>. QED BY <1>6, <1>7

\* A call that another interfered with is able to reach what it is still owed.
LEMMA OthersStayAble ==
  ASSUME TypeOK, OwedIsDue, NEW C, Interfere(C), Held \subseteq Held',
         NEW d \in Callers, d \notin C, Busy(d)
  PROVE  Able(task', call[d], owed'[d])
<1>. DEFINE lost == Below({t \in Held : Disturbed(t)}, Held)
<1>1. {t \in Held : Disturbed(t)} \in SUBSET Tasks /\ Held \in SUBSET Tasks
  BY DEF Held
<1>2. /\ lost \in SUBSET Tasks
      /\ \A t \in Held : Disturbed(t) => t \in lost
      /\ \A t \in Held : task[t].parent \in lost => t \in lost
  BY <1>1, BelowIsClosed DEF Below
<1>3. owed'[d] = owed[d] \ lost
  BY DEF Interfere
<1>. HIDE DEF lost
<1>4. Able(task, call[d], owed[d]) /\ owed[d] \in SUBSET Tasks
  BY DEF OwedIsDue, TypeOK
<1>5. PICK after : after = task'
  OBVIOUS
<1>6. \A t \in Tasks : task[t] # NoRow => after[t] # NoRow
  BY <1>5 DEF Held
<1>7. \A t \in Tasks \ lost : task[t] # NoRow =>
        /\ after[t].parent = task[t].parent /\ after[t].section = task[t].section
        /\ after[t].deleted = task[t].deleted /\ after[t].done = task[t].done
  BY <1>2, <1>5 DEF Held, Disturbed
<1>8. \A t \in Tasks : task[t] # NoRow /\ task[t].parent \in lost => t \in lost
  BY <1>2 DEF Held
<1>9. Due(after, call[d].op, ToSet(call[d].steps), owed[d] \ lost)
  <2>1. Due(task, call[d].op, ToSet(call[d].steps), owed[d]) BY <1>4 DEF Able
  <2>. QED BY <1>2, <1>4, <1>6, <1>7, <1>8, <2>1, OthersLeaveDue
<1>. QED BY <1>3, <1>4, <1>5, <1>9 DEF Able

\* A call begins able to keep its promise.
LEMMA BeginIsAble ==
  ASSUME TypeOK, NEW c \in Callers, NEW r \in agenda.requests, Begin(c, r)
  PROVE  /\ Able(task', call'[c], owed'[c])
         /\ \A d \in Callers : d # c => call'[d] = call[d] /\ owed'[d] = owed[d]
<1>. DEFINE its == [op |-> r.op, steps |-> Steps(r), stamp |-> clock, today |-> today]
<1>1. /\ r.op \in Methods /\ call' = [call EXCEPT ![c] = its]
      /\ owed' = [owed EXCEPT ![c] = Promise(r)] /\ UNCHANGED task
  BY DEF Begin
<1>2. r \in CallRequest
  BY <1>1, RequestFields DEF TypeOK
<1>3. /\ its.op = r.op /\ its.steps = Steps(r) /\ its.stamp = clock
      /\ clock # 0
  BY DEF TypeOK
<1>. HIDE DEF its
<1>4. /\ call'[c] = its /\ owed'[c] = Promise(r)
      /\ \A d \in Callers : d # c => call'[d] = call[d] /\ owed'[d] = owed[d]
  BY <1>1 DEF TypeOK
<1>5. \E first : Steps(r) = <<first>> /\ first.do # "stamp"
  <2>1. r.op \in {"complete", "completeForever", "advanceRecurring", "postpone", "setParent",
                  "setDateString", "deleteSection", "archiveSection"}
    BY <1>1 DEF Methods
  <2>. QED BY <2>1 DEF Steps
<1>6. PICK first : Steps(r) = <<first>> /\ first.do # "stamp"
  BY <1>5
<1>7. Due(task, r.op, {first}, Promise(r))
  BY <1>2, <1>6, PromiseIsDue
<1>8. ToSet(<<first>>) = {first} /\ Len(<<first>>) = 1 /\ DOMAIN <<first>> = {1}
  BY DEF ToSet
<1>9. Able(task, its, Promise(r))
  BY <1>3, <1>6, <1>7, <1>8 DEF Able
<1>. QED BY <1>1, <1>4, <1>9

-----------------------------------------------------------------------------
(* The theorems                                                            *)

\* The invariant is inductive.
LEMMA NextKeepsInv ==
  TasksInv /\ [Next]_vars => TasksInv'
<1>. SUFFICES ASSUME TasksInv, [Next]_vars PROVE TasksInv'
  OBVIOUS
<1>1. CASE \E c \in Callers : Run(c)
  BY <1>1, RunKeepsInv
<1>2. CASE \E c \in Callers : \E r \in agenda.requests : Begin(c, r)
  BY <1>2, BeginKeepsInv
<1>3. CASE \E r \in agenda.requests : Write(r)
  BY <1>3, WriteKeepsInv
<1>4. CASE \E p \in agenda.pulls : Pull(p)
  BY <1>4, PullKeepsInv
<1>5. CASE \E d \in agenda.days : NewDay(d)
  BY <1>5, NewDayKeepsInv
<1>6. CASE Restart
  BY <1>6, RestartKeepsInv
<1>7. CASE UNCHANGED vars
  BY <1>7, TodayKeepsInv DEF vars, TasksInv, TypeOK
<1>8. CASE \E t \in agenda.acks : Acknowledge(t)
  BY <1>8, AcknowledgeKeepsInv
<1>. QED BY <1>1, <1>2, <1>3, <1>4, <1>5, <1>6, <1>7, <1>8 DEF Next

\* However calls, setters, pulls, midnight and a closed tab interleave, a call
\* holds only what it may still rely on, and the table is a forest unless
\* another write raced a walk: the inductive invariant.
THEOREM TasksInvariant == Spec => []TasksInv
<1>. QED BY InitHasInv, NextKeepsInv, PTL DEF Spec

\* Of a Task that was set under another by this Device alone, none is its own
\* ancestor.
THEOREM NestingHasNoCycle == Spec => []NoCycle
<1>1. TasksInv => NoCycle BY DEF TasksInv
<1>. QED BY <1>1, TasksInvariant, PTL

\* A walk of setParent that nothing raced has seen whole branches, and not the
\* Task that it is about.
THEOREM WalksStaySound == Spec => []WalksAreSound
<1>1. TasksInv => WalksAreSound BY DEF TasksInv
<1>. QED BY <1>1, TasksInvariant, PTL

\* TombstonesStay, of one step.
TombstoneStays(t) ==
  \/ \E p \in agenda.pulls : p.id = t /\ Pull(p)
  \/ task'[t] = task[t] /\ (t \in pending' => t \in pending \/ Removes(t))

\* A tombstone is changed by a pull alone and sent again because of a remove()
\* alone, however late a method's write is.
THEOREM TombstonesAreFinal == Spec => TombstonesStay
<1>1. ASSUME TasksInv, [Next]_vars, NEW t \in Held, task[t].deleted
      PROVE  TombstoneStays(t)
  <2>1. TypeOK /\ NewIsNoParent /\ t \in Tasks BY <1>1 DEF TasksInv, Held
  <2>2. ASSUME NEW c \in Callers, Run(c) PROVE TombstoneStays(t)
    <3>1. task'[t] = task[t]
      BY <1>1, <2>2, StepSpares, LinkWrites DEF Run, Spares, Settled
    <3>. QED BY <1>1, <2>2, <3>1, RunMarks DEF Marks, TombstoneStays
  <2>3. ASSUME NEW r \in agenda.requests, Write(r) PROVE TombstoneStays(t)
    <3>1. r \in CallRequest \cup WriteRequest BY <2>1 DEF TypeOK
    <3>2. Setter BY <2>1, <2>3, <3>1, AddSets, SettersSet DEF Write
    <3>3. task'[t] = task[t] BY <1>1, <3>2 DEF Setter
    <3>. QED BY <1>1, <2>1, <2>3, <3>3, WriteMarks DEF Marks, TombstoneStays
  <2>4. ASSUME NEW p \in agenda.pulls, Pull(p) PROVE TombstoneStays(t)
    <3>1. CASE p.id = t BY <2>4, <3>1 DEF TombstoneStays
    <3>2. CASE p.id # t BY <2>1, <2>4, <3>2 DEF Pull, TypeOK, TombstoneStays
    <3>. QED BY <3>1, <3>2
  <2>5. Restart \/ UNCHANGED vars \/ (\E d \in agenda.days : NewDay(d))
          \/ (\E u \in agenda.acks : Acknowledge(u))
          \/ (\E c \in Callers : \E r \in agenda.requests : Begin(c, r))
          => UNCHANGED task /\ pending' \subseteq pending
    BY DEF Restart, vars, NewDay, Acknowledge, Begin
  <2>. QED BY <1>1, <2>2, <2>3, <2>4, <2>5 DEF Next, TombstoneStays
<1>2. TasksInv /\ [Next]_vars => \A t \in Held : task[t].deleted => TombstoneStays(t)
  BY <1>1
<1>. QED BY <1>2, TasksInvariant, PTL DEF Spec, TombstonesStay, TombstoneStays

\* CompletionsKept, of one step.
CompletionKept ==
  \A c \in Callers : call'[c] # call[c] => \A t \in kept[c] : task'[t].done = task[t].done

\* No cascade overwrites the completedAt a Task had when the cascade began, as
\* long as nobody else has written it.
THEOREM CompletionsAreKept == Spec => CompletionsKept
<1>1. TasksInv /\ [Next]_vars => CompletionKept
  <2>. SUFFICES ASSUME TasksInv, [Next]_vars, NEW c \in Callers, call'[c] # call[c]
                PROVE  \A t \in kept[c] : task'[t].done = task[t].done
    BY DEF CompletionKept
  <2>1. TypeOK /\ KeptIsApart BY DEF TasksInv
  <2>2. CASE UNCHANGED task
    BY <2>2
  <2>3. ASSUME NEW d \in Callers, Run(d)
        PROVE  \A t \in kept[c] : task'[t].done = task[t].done
    <3>1. StoreStep(d) BY <2>3 DEF Run
    <3>2. Busy(d)
      BY <3>1 DEF StoreStep, Complete, Stamp, Children, Reparent, Walk, Link, Advance, Recur,
                  Date, Postpone, Open, Members, Descend, RemoveStep, Finish, At
    <3>3. c = d BY <3>1, <3>2, CallGoesOn, StepGoes
    <3>4. CASE Spares(d) BY <3>3, <3>4 DEF Spares
    <3>5. CASE Link(d) BY <2>1, <3>5, LinkWrites DEF KeptIsApart
    <3>. QED BY <3>1, <3>4, <3>5, StepSpares
  <2>4. Restart \/ UNCHANGED vars \/ (\E d \in agenda.days : NewDay(d))
          \/ (\E t \in agenda.acks : Acknowledge(t))
          \/ (\E d \in Callers : \E r \in agenda.requests : Begin(d, r)) => UNCHANGED task
    BY DEF Restart, vars, NewDay, Acknowledge, Begin
  <2>5. (\E r \in agenda.requests : Write(r)) \/ (\E p \in agenda.pulls : Pull(p))
          => UNCHANGED call
    BY DEF Write, Pull
  <2>. QED BY <2>2, <2>3, <2>4, <2>5 DEF Next
<1>. QED BY <1>1, TasksInvariant, PTL DEF Spec, CompletionsKept, CompletionKept

\* What is owed is still due after any step.
LEMMA NextKeepsDue ==
  TasksInv /\ OwedIsDue /\ [Next]_vars => OwedIsDue'
<1>. SUFFICES ASSUME TasksInv, OwedIsDue, [Next]_vars, NEW d \in Callers, call'[d].steps # <<>>
              PROVE  Able(task', call'[d], owed'[d])
  BY DEF OwedIsDue, Busy
<1>1. TypeOK /\ NewIsNoParent
  BY DEF TasksInv
<1>2. CASE call'[d] = call[d] /\ owed'[d] = owed[d] /\ UNCHANGED task
  BY <1>2 DEF OwedIsDue, Busy
<1>3. ASSUME NEW C, Interfere(C), Held \subseteq Held', d \notin C, call'[d] = call[d]
      PROVE  Able(task', call'[d], owed'[d])
  <2>1. Busy(d) BY <1>3 DEF Busy
  <2>. QED BY <1>1, <1>3, <2>1, OthersStayAble
<1>4. ASSUME NEW c \in Callers, Run(c)
      PROVE  Able(task', call'[d], owed'[d])
  <2>1. Held \subseteq Held'
    <3>1. Link(c) \/ Spares(c) BY <1>4, StepSpares DEF Run
    <3>. QED BY <1>1, <3>1, LinkWrites DEF Spares, Settled
  <2>2. CASE d = c
    <3>1. /\ Busy(c) /\ call'[c].op = call[c].op /\ call'[c].stamp = call[c].stamp
          /\ owed'[c] = owed[c]
          /\ Due(task', call[c].op, ToSet(call'[c].steps), owed[c])
          /\ call[c].op \in Cascading => \A k \in DOMAIN call'[c].steps :
               /\ call'[c].steps[k].do # "open"
               /\ call'[c].steps[k].do = "stamp" => k = 1
      BY <1>4, <2>2, RunIsDue
    <3>2. call[c].stamp # 0 BY <3>1 DEF OwedIsDue, Able
    <3>. QED BY <2>2, <3>1, <3>2 DEF Able
  <2>3. CASE d # c
    <3>1. call'[d] = call[d] BY <1>4, <2>3, RunIsDue
    <3>2. Interfere({c}) BY <1>4 DEF Run
    <3>. QED BY <1>3, <2>1, <2>3, <3>1, <3>2
  <2>. QED BY <2>2, <2>3
<1>5. ASSUME NEW c \in Callers, NEW r \in agenda.requests, Begin(c, r)
      PROVE  Able(task', call'[d], owed'[d])
  <2>1. CASE d = c BY <1>1, <1>5, <2>1, BeginIsAble
  <2>2. CASE d # c
    <3>1. UNCHANGED task BY <1>5 DEF Begin
    <3>. QED BY <1>1, <1>2, <1>5, <2>2, <3>1, BeginIsAble
  <2>. QED BY <2>1, <2>2
<1>6. ASSUME NEW r \in agenda.requests, Write(r)
      PROVE  Able(task', call'[d], owed'[d])
  <2>1. r \in CallRequest \cup WriteRequest BY <1>1 DEF TypeOK
  <2>2. Setter BY <1>1, <1>6, <2>1, AddSets, SettersSet DEF Write
  <2>3. Held \subseteq Held' /\ Interfere({}) /\ call'[d] = call[d]
    BY <1>6, <2>2 DEF Setter, Write
  <2>. QED BY <1>3, <2>3
<1>7. ASSUME NEW p \in agenda.pulls, Pull(p)
      PROVE  Able(task', call'[d], owed'[d])
  <2>1. p.id \in Tasks /\ p.row \in Row /\ p.row # NoRow
    BY <1>1, NoRowAssumption DEF TypeOK
  <2>2. task' = [task EXCEPT ![p.id] = p.row] /\ Interfere({}) /\ call'[d] = call[d]
    BY <1>7 DEF Pull
  <2>3. Held \subseteq Held' BY <1>1, <2>1, <2>2 DEF Held, TypeOK
  <2>. QED BY <1>3, <2>2, <2>3
<1>8. ASSUME NEW day \in agenda.days, NewDay(day)
      PROVE  Able(task', call'[d], owed'[d])
  BY <1>2, <1>8 DEF NewDay
<1>11. ASSUME NEW t \in agenda.acks, Acknowledge(t)
       PROVE  Able(task', call'[d], owed'[d])
  BY <1>2, <1>11 DEF Acknowledge
<1>9. CASE Restart
  <2>1. call'[d] = Idle BY <1>9 DEF Restart
  <2>. QED BY <2>1 DEF Idle
<1>10. CASE UNCHANGED vars
  BY <1>2, <1>10 DEF vars
<1>. QED BY <1>4, <1>5, <1>6, <1>7, <1>8, <1>9, <1>10, <1>11 DEF Next

\* Nothing is owed at first.
LEMMA InitIsDue ==
  Init => OwedIsDue
<1>. SUFFICES ASSUME Init, NEW c \in Callers PROVE ~Busy(c)
  BY DEF OwedIsDue
<1>1. call[c] = Idle
  BY DEF Init
<1>. QED BY <1>1 DEF Busy, Idle

\* At every moment each Task that a cascade owes is reached, is listed in one of
\* its steps, or hangs below one whose children it will ask for.
THEOREM OwedStaysDue == Spec => []OwedIsDue
<1>. QED BY InitIsDue, NextKeepsDue, TasksInvariant, PTL DEF Spec

\* The invariant that the run checks, for all that the model leaves open: the
\* rows are a forest, walks are sound, and cascades can keep their promise.
THEOREM Invariance == Spec => []IInv
<1>1. TasksInv /\ OwedIsDue => IInv BY DEF IInv
<1>. QED BY <1>1, TasksInvariant, OwedStaysDue, PTL

\* A call with nothing left to do has reached all it owes.
LEMMA DoneIsReached ==
  ASSUME NEW table, NEW op, NEW due, Due(table, op, {}, due), NEW t \in due
  PROVE  Reached(table, op, t)
<1>1. \A S : Closed(table, op, {}, due, S) => S # {} \/ ~Ahead(table, op, {}, due, t)
  BY DEF Ahead
<1>2. Closed(table, op, {}, due, {})
  BY DEF Closed
<1>3. ~Ahead(table, op, {}, due, t)
  BY <1>1, <1>2
<1>4. ~Listed({}, t)
  BY DEF Listed
<1>. QED BY <1>3, <1>4 DEF Due

\* CallsDeliver, of one step.
CallDelivers ==
  \A c \in Callers :
    Busy(c) /\ ~At(c, "open") /\ call'[c].steps = <<>> =>
      \A t \in owed'[c] :
        task'[t].deleted \/ (task'[t].done # 0 /\ call[c].op # "deleteSection")

\* A cascade that ends has reached every Task it was for, whatever ran between
\* its statements, but for what that disturbed.
THEOREM CallsReachWhatTheyOwe == Spec => CallsDeliver
<1>1. TasksInv /\ OwedIsDue /\ [Next]_vars => CallDelivers
  <2>. SUFFICES ASSUME TasksInv, OwedIsDue, [Next]_vars, NEW c \in Callers,
                       Busy(c), ~At(c, "open"), call'[c].steps = <<>>, NEW t \in owed'[c]
                PROVE  task'[t].deleted \/ (task'[t].done # 0 /\ call[c].op # "deleteSection")
    BY DEF CallDelivers
  <2>1. call'[c] # call[c] BY DEF Busy
  <2>2. CASE Run(c)
    <3>1. /\ Due(task', call[c].op, ToSet(call'[c].steps), owed[c])
          /\ owed'[c] = owed[c]
      BY <2>2, RunIsDue
    <3>2. ToSet(<<>>) = {} BY DEF ToSet
    <3>3. Reached(task', call[c].op, t) BY <3>1, <3>2, DoneIsReached
    <3>. QED BY <3>3 DEF Reached
  <2>3. ASSUME NEW d \in Callers, d # c, Run(d) PROVE FALSE
    BY <2>1, <2>3, RunIsDue
  <2>4. ASSUME NEW d \in Callers, NEW r \in agenda.requests, Begin(d, r) PROVE FALSE
    <3>1. d # c BY <2>4 DEF Begin
    <3>2. TypeOK BY DEF TasksInv
    <3>. QED BY <2>1, <2>4, <3>1, <3>2, BeginIsAble
  <2>5. CASE Restart
    <3>1. owed'[c] = {} BY <2>5 DEF Restart
    <3>. QED BY <3>1
  <2>6. (\E r \in agenda.requests : Write(r)) \/ (\E p \in agenda.pulls : Pull(p))
          \/ (\E d \in agenda.days : NewDay(d)) \/ UNCHANGED vars
          \/ (\E u \in agenda.acks : Acknowledge(u)) => UNCHANGED call
    BY DEF Write, Pull, NewDay, Acknowledge, vars
  <2>. QED BY <2>1, <2>2, <2>3, <2>4, <2>5, <2>6 DEF Next
<1>. QED BY <1>1, OwedStaysDue, TasksInvariant, PTL DEF Spec, CallsDeliver, CallDelivers

-----------------------------------------------------------------------------
(* The date of a completion and of a new rule                               *)

\* A call in flight is one of a method.
BusyCalls == \A c \in Callers : Busy(c) => call[c].op \in Methods

\* The step that follows is the one put first.
LEMMA FirstFollows ==
  ASSUME TypeOK, NEW c \in Callers, Busy(c), NEW new \in Seq(Step), Then(c, new), new # <<>>
  PROVE  call'[c].steps # <<>> /\ Head(call'[c].steps) = new[1]
<1>. DEFINE rest == Tail(call[c].steps)  all == new \o rest
<1>1. call[c].steps \in Seq(Step) /\ call[c].steps # <<>> /\ call[c] \in Call
      /\ call \in [Callers -> Call]
  BY HeadStep DEF TypeOK
<1>2. rest \in Seq(Step)
  BY <1>1, FirstAndRest
<1>3. call'[c].steps = all
  BY <1>1 DEF Then, Call
<1>. HIDE DEF rest
<1>4. /\ all \in Seq(Step) /\ Len(all) = Len(new) + Len(rest)
      /\ \A i \in 1 .. Len(new) + Len(rest) :
           all[i] = IF i <= Len(new) THEN new[i] ELSE rest[i - Len(new)]
  BY <1>2, ConcatProperties
<1>5. Len(new) \in Nat /\ Len(new) # 0 /\ Len(rest) \in Nat
  BY <1>2, EmptySeq, LenProperties
<1>6. all[1] = new[1] /\ Len(all) # 0
  BY <1>4, <1>5
<1>. HIDE DEF all
<1>7. all # <<>> /\ Head(all) = all[1]
  BY <1>4, <1>6, EmptySeq
<1>. QED BY <1>3, <1>6, <1>7

\* The date that a step leaves to write, if it leaves one.
ToDate(steps) == IF steps # <<>> /\ Head(steps).do = "date" THEN Head(steps).date ELSE NoDate

\* advanceRecurring writes what the engine found.
LEMMA AdvanceDates ==
  ASSUME TypeOK, NEW c \in Callers, Advance(c), NEW step, step = Head(call[c].steps),
         step.id \in Live, task[step.id].rule # NoRule
  PROVE  ToDate(call'[c].steps)
           = Occurrence(task[step.id].rule, task[step.id].date, call[c].today, TRUE)
<1>. DEFINE row == task[step.id]
            next == Occurrence(row.rule, row.date, call[c].today, TRUE)
            one == [do |-> "stamp", id |-> step.id, forever |-> TRUE]
            two == [do |-> "children", id |-> step.id]
            dated == [do |-> "date", id |-> step.id, date |-> next, rule |-> NoRule]
<1>1. Busy(c) /\ step.do = "advance" /\ call[c] \in Call /\ step \in Step
  BY HeadStep DEF Advance, At
<1>2. step.id \in Tasks
  BY <1>1, StepFields
<1>3. row.rule \in Rule /\ row.date \in Int \cup {NoDate} /\ call[c].today \in Int
  BY <1>1, InStore DEF Row, Call
<1>4. next = NoDate \/ next \in Int
  BY <1>3, OccurrenceClears
<1>5. IF next = NoDate THEN Then(c, <<one, two>>) ELSE Then(c, <<dated>>)
  BY DEF Advance, NextOccurrenceAfterCompletion
<1>6. /\ dated.do = "date" /\ dated.date = next /\ one.do = "stamp"
      /\ one \in Step /\ two \in Step /\ (next # NoDate => dated \in Step)
  BY <1>2, <1>4 DEF Step
<1>. HIDE DEF one, two, dated, next
<1>7. CASE next = NoDate
  <2>. DEFINE both == <<one, two>>
  <2>1. both \in Seq(Step) /\ both # <<>> /\ both[1] = one
    BY <1>6
  <2>2. Then(c, both) BY <1>5, <1>7
  <2>. HIDE DEF both
  <2>3. call'[c].steps # <<>> /\ Head(call'[c].steps) = one
    BY <1>1, <2>1, <2>2, FirstFollows
  <2>. QED BY <1>6, <1>7, <2>3 DEF ToDate, next
<1>8. CASE next # NoDate
  <2>. DEFINE only == <<dated>>
  <2>1. only \in Seq(Step) /\ only # <<>> /\ only[1] = dated
    BY <1>6, <1>8
  <2>2. Then(c, only) BY <1>5, <1>8
  <2>. HIDE DEF only
  <2>3. call'[c].steps # <<>> /\ Head(call'[c].steps) = dated
    BY <1>1, <2>1, <2>2, FirstFollows
  <2>. QED BY <1>6, <2>3 DEF ToDate, next
<1>. QED BY <1>7, <1>8

\* setDateString too, and it refuses a rule with no day left.
LEMMA RecurDates ==
  ASSUME TypeOK, NEW c \in Callers, Recur(c), NEW step, step = Head(call[c].steps),
         step.id \in Live
  PROVE  /\ step.rule \in Rule
         /\ ToDate(call'[c].steps)
              = Occurrence(step.rule, task[step.id].date, call[c].today, FALSE)
<1>. DEFINE first == Occurrence(step.rule, task[step.id].date, call[c].today, FALSE)
            dated == [do |-> "date", id |-> step.id, date |-> first, rule |-> step.rule]
<1>1. /\ Busy(c) /\ step.do = "recur" /\ call[c] \in Call /\ step \in Step
      /\ call \in [Callers -> Call]
  BY HeadStep DEF Recur, At, TypeOK
<1>2. step.id \in Tasks /\ step.rule \in Rule
  BY <1>1, StepFields
<1>3. task[step.id].date \in Int \cup {NoDate} /\ call[c].today \in Int
  BY <1>1, InStore DEF Row, Call
<1>4. first = NoDate \/ first \in Int
  BY <1>2, <1>3, OccurrenceClears
<1>5. IF first = NoDate THEN Throw(c) ELSE Then(c, <<dated>>)
  BY DEF Recur, FirstOccurrence
<1>6. dated.do = "date" /\ dated.date = first /\ (first # NoDate => dated \in Step)
  BY <1>2, <1>4 DEF Step
<1>. HIDE DEF dated, first
<1>7. CASE first = NoDate
  <2>1. call'[c].steps = <<>> BY <1>1, <1>5, <1>7 DEF Throw, Call
  <2>. QED BY <1>2, <1>7, <2>1 DEF ToDate, first
<1>8. CASE first # NoDate
  <2>1. call'[c].steps # <<>> /\ Head(call'[c].steps) = dated
    BY <1>1, <1>5, <1>6, <1>8, FirstFollows
  <2>. QED BY <1>2, <1>6, <2>1 DEF ToDate, first
<1>. QED BY <1>7, <1>8

\* A call that has been at work goes on with its method, and the others stay.
LEMMA NextKeepsBusyCalls ==
  TasksInv /\ OwedIsDue /\ BusyCalls /\ [Next]_vars => BusyCalls'
<1>. SUFFICES ASSUME TasksInv, OwedIsDue, BusyCalls, [Next]_vars,
                     NEW d \in Callers, call'[d].steps # <<>>
              PROVE  call'[d].op \in Methods
  BY DEF BusyCalls, Busy
<1>1. TypeOK
  BY DEF TasksInv
<1>2. CASE call'[d] = call[d]
  BY <1>2 DEF BusyCalls, Busy
<1>3. ASSUME NEW c \in Callers, Run(c) PROVE call'[d].op \in Methods
  <2>1. Busy(c) /\ call'[c].op = call[c].op /\ (d # c => call'[d] = call[d])
    BY <1>3, RunIsDue
  <2>. QED BY <1>2, <2>1 DEF BusyCalls
<1>4. ASSUME NEW c \in Callers, NEW r \in agenda.requests, Begin(c, r)
      PROVE  call'[d].op \in Methods
  <2>1. d # c => call'[d] = call[d]
    BY <1>1, <1>4, BeginIsAble
  <2>2. call'[c].op = r.op /\ r.op \in Methods
    BY <1>1, <1>4 DEF Begin, TypeOK
  <2>. QED BY <1>2, <2>1, <2>2
<1>5. CASE Restart
  BY <1>5 DEF Restart, Idle
<1>6. (\E r \in agenda.requests : Write(r)) \/ (\E p \in agenda.pulls : Pull(p))
        \/ (\E e \in agenda.days : NewDay(e)) \/ UNCHANGED vars
          \/ (\E t \in agenda.acks : Acknowledge(t)) => UNCHANGED call
  BY DEF Write, Pull, NewDay, Acknowledge, vars
<1>. QED BY <1>2, <1>3, <1>4, <1>5, <1>6 DEF Next

\* NextIsNearest, of one step.
NextNearest ==
  \A c \in Callers : \A given \in BOOLEAN :
    LET step == Head(call[c].steps)
        row == task[step.id]
        rule == IF given THEN step.rule ELSE row.rule
        now == call[c].today
        then == call'[c].steps
        date == IF then # <<>> /\ Head(then).do = "date" THEN Head(then).date ELSE NoDate
    IN  /\ At(c, IF given THEN "recur" ELSE "advance")
        /\ call'[c] # call[c] /\ call'[c].op = call[c].op
        /\ step.id \in Live
        /\ rule # NoRule
        /\ Steady(rule, Origin(rule, row.date, now), given)
        => Nearest(date, rule, row.date, now, given)

\* Of the steps of a store, only the one whose turn it is changes the call, and
\* the engine is asked by two of them.
LEMMA AsksTheEngine ==
  ASSUME TasksInv, OwedIsDue, BusyCalls, [Next]_vars, NEW c \in Callers,
         At(c, "recur") \/ At(c, "advance"),
         call'[c] # call[c], call'[c].op = call[c].op
  PROVE  (At(c, "recur") /\ Recur(c)) \/ (At(c, "advance") /\ Advance(c))
<1>1. TypeOK /\ Busy(c) /\ call[c].op \in Methods
  BY DEF TasksInv, At, BusyCalls
<1>2. ASSUME NEW d \in Callers, Run(d)
      PROVE  (At(c, "recur") /\ Recur(c)) \/ (At(c, "advance") /\ Advance(c))
  <2>1. c = d BY <1>2, RunIsDue
  <2>2. StoreStep(c) BY <1>2, <2>1 DEF Run
  <2>. QED BY <2>2 DEF StoreStep, Complete, Stamp, Children, Reparent, Walk, Link, Advance,
                       Recur, Date, Postpone, Open, Members, Descend, RemoveStep, Finish, At
<1>3. ASSUME NEW d \in Callers, NEW r \in agenda.requests, Begin(d, r) PROVE FALSE
  <2>1. c = d BY <1>1, <1>3, BeginIsAble
  <2>. QED BY <1>1, <1>3, <2>1 DEF Begin
<1>4. CASE Restart
  <2>1. call'[c].op = "none" BY <1>4 DEF Restart, Idle
  <2>. QED BY <1>1, <2>1 DEF Methods
<1>5. (\E r \in agenda.requests : Write(r)) \/ (\E p \in agenda.pulls : Pull(p))
        \/ (\E e \in agenda.days : NewDay(e)) \/ UNCHANGED vars
          \/ (\E t \in agenda.acks : Acknowledge(t)) => UNCHANGED call
  BY DEF Write, Pull, NewDay, Acknowledge, vars
<1>. QED BY <1>2, <1>3, <1>4, <1>5 DEF Next

\* A completion, and a new rule, date a Task with the nearest day there is.
LEMMA NextDatesTheNearest ==
  TasksInv /\ OwedIsDue /\ BusyCalls /\ [Next]_vars => NextNearest
<1>. SUFFICES ASSUME TasksInv, OwedIsDue, BusyCalls, [Next]_vars,
                     NEW c \in Callers, NEW given \in BOOLEAN,
                     NEW step, step = Head(call[c].steps),
                     NEW row, row = task[step.id],
                     NEW rule, rule = IF given THEN step.rule ELSE row.rule,
                     At(c, IF given THEN "recur" ELSE "advance"),
                     call'[c] # call[c], call'[c].op = call[c].op,
                     step.id \in Live, rule # NoRule,
                     Steady(rule, Origin(rule, row.date, call[c].today), given)
              PROVE  Nearest(ToDate(call'[c].steps), rule, row.date, call[c].today, given)
  BY DEF NextNearest, ToDate
<1>1. TypeOK /\ Busy(c)
  BY DEF TasksInv, At
<1>2. call[c] \in Call /\ step \in Step /\ row \in Row
  BY <1>1, HeadStep, InStore
<1>3. row.date \in Int \cup {NoDate} /\ call[c].today \in Int /\ row.rule \in Rule \cup {NoRule}
  BY <1>2 DEF Row, Call
<1>4. CASE given
  <2>1. step.do = "recur" /\ Recur(c)
    BY <1>4, AsksTheEngine DEF At
  <2>2. rule = step.rule BY <1>4
  <2>3. /\ rule \in Rule
        /\ ToDate(call'[c].steps) = Occurrence(rule, row.date, call[c].today, FALSE)
    BY <1>1, <2>1, <2>2, RecurDates
  <2>. QED BY <1>3, <1>4, <2>3, OccurrenceIsNearest
<1>5. CASE ~given
  <2>1. step.do = "advance" /\ Advance(c)
    BY <1>5, AsksTheEngine DEF At
  <2>2. rule = row.rule /\ rule \in Rule BY <1>3, <1>5
  <2>3. ToDate(call'[c].steps) = Occurrence(rule, row.date, call[c].today, TRUE)
    BY <1>1, <2>1, <2>2, AdvanceDates
  <2>. QED BY <1>3, <1>5, <2>2, <2>3, OccurrenceIsNearest
<1>. QED BY <1>4, <1>5

\* A completion and a new rule date the Task with the nearest day the rule
\* names, and end the series, or refuse the rule, only when no day is left.
THEOREM CompletionsSkipNoDay == Spec => NextIsNearest
<1>1. Init => BusyCalls
  BY DEF Init, BusyCalls, Busy, Idle
<1>. QED BY <1>1, NextKeepsBusyCalls, NextDatesTheNearest, TasksInvariant, OwedStaysDue,
            PTL DEF Spec, NextIsNearest, NextNearest

=============================================================================
