--------------------------- MODULE DateTimeProofs ---------------------------
(***************************************************************************)
(* Proofs about DateTime, for every day of the years it assumes: the       *)
(* Julian day arithmetic of SQLite is that of the calendar, and the cutoff *)
(* of the cull is the day before.                                          *)
(***************************************************************************)
EXTENDS DateTime, TLAPS

-----------------------------------------------------------------------------
\* The calendar

Date(y, m, d) == [y |-> y, m |-> m, d |-> d]
IsDate(y, m, d) == y \in 1600 .. 10000 /\ m \in 1 .. 12 /\ d \in 1 .. DaysIn(m, y)

\* The years that today and yesterday may be of.
Shown(y) == y \in 1970 .. 9999
Counted(y) == y \in 1969 .. 9999

\* How many days a month has.
LEMMA DaysInIs ==
    ASSUME NEW m \in 1 .. 12, NEW y \in Int
    PROVE  /\ DaysIn(m, y) \in 28 .. 31
           /\ m \in {1, 3, 5, 7, 8, 10, 12} => DaysIn(m, y) = 31
           /\ m \in {4, 6, 9, 11} => DaysIn(m, y) = 30
           /\ m = 2 => DaysIn(m, y) = IF IsLeap(y) THEN 29 ELSE 28
BY SMT DEF DaysIn

\* The year that begins in March, and its months from 3 to 14, as computeJD has them.
YearOf(y, m) == IF m <= 2 THEN y - 1 ELSE y
MonthOf(m) == IF m <= 2 THEN m + 12 ELSE m

\* The days before a month of that year; the first is the 123rd.
DaysTo(m) == (306001 * (m + 1)) \div 10000

\* The Julian day number of a date
NumberOf(y, m, d) ==
    1720997 + DaysTo(MonthOf(m)) + d + 365 * YearOf(y, m) + Leaps(YearOf(y, m))

\* The days before each month of the year from March, in numbers.
LEMMA DaysToIs ==
    /\ DaysTo(3) = 122 /\ DaysTo(4) = 153 /\ DaysTo(5) = 183 /\ DaysTo(6) = 214
    /\ DaysTo(7) = 244 /\ DaysTo(8) = 275 /\ DaysTo(9) = 306 /\ DaysTo(10) = 336
    /\ DaysTo(11) = 367 /\ DaysTo(12) = 397 /\ DaysTo(13) = 428 /\ DaysTo(14) = 459
BY SMT DEF DaysTo

\* A year has a day more than 365 if it is a leap year.
LEMMA LeapsGrow ==
    ASSUME NEW y \in Int
    PROVE  /\ Leaps(y) \in Int /\ Leaps(y - 1) \in Int
           /\ Leaps(y) = Leaps(y - 1) + (IF IsLeap(y) THEN 1 ELSE 0)
BY SMT DEF Leaps, IsLeap

\* Turning a page goes to the next date and to the next number.
LEMMA NextDay ==
    ASSUME NEW y, NEW m, NEW d, IsDate(y, m, d), Counted(y)
    PROVE  \E k, l, n :
               /\ IsDate(k, l, n) /\ Tomorrow(Date(y, m, d)) = Date(k, l, n)
               /\ NumberOf(k, l, n) = NumberOf(y, m, d) + 1
<1>0. y \in 1600 .. 9999 /\ m \in 1 .. 12 /\ d \in 1 .. DaysIn(m, y)
  BY SMT DEF IsDate, Counted
<1> USE <1>0
<1>1. /\ DaysIn(m, y) \in 28 .. 31 /\ d \in 1 .. 31
      /\ y \in Int /\ m \in Int /\ d \in Int
  BY DaysInIs, SMT
<1>a. YearOf(y, m) \in Int /\ DaysTo(MonthOf(m)) \in Int /\ Leaps(YearOf(y, m)) \in Int
  <2>1. YearOf(y, m) \in Int /\ MonthOf(m) \in Int
    BY <1>1, SMT DEF YearOf, MonthOf
  <2>2. \A k \in Int : DaysTo(k) \in Int /\ Leaps(k) \in Int
    BY SMT DEF DaysTo, Leaps
  <2> QED
    BY <2>1, <2>2, SMT
<1>2. CASE d < DaysIn(m, y)
  <2>1. Tomorrow(Date(y, m, d)) = Date(y, m, d + 1)
    BY <1>1, <1>2, SMT DEF Tomorrow, Date
  <2>2. IsDate(y, m, d + 1)
    BY <1>1, <1>2, SMT DEF IsDate
  <2>3. NumberOf(y, m, d + 1) = NumberOf(y, m, d) + 1
    BY <1>1, <1>a, SMT DEF NumberOf
  <2> WITNESS y, m, d + 1
  <2> QED
    BY <2>1, <2>2, <2>3
<1>3. CASE d = DaysIn(m, y) /\ m < 12
  <2>1. Tomorrow(Date(y, m, d)) = Date(y, m + 1, 1)
    <3>1. ~ (d < DaysIn(m, y))
      BY <1>1, <1>3, SMT
    <3> QED
      BY <1>3, <3>1, SMT DEF Tomorrow, Date
  <2>2. IsDate(y, m + 1, 1) /\ m + 1 \in 1 .. 12
    <3>1. m + 1 \in 1 .. 12
      BY <1>3, SMT
    <3>2. DaysIn(m + 1, y) \in 28 .. 31
      BY <3>1, DaysInIs, SMT
    <3> QED
      BY <3>1, <3>2, SMT DEF IsDate
  <2>3. NumberOf(y, m + 1, 1) = NumberOf(y, m, d) + 1
    <3>1. CASE m = 2
      <4>1. YearOf(y, 3) = y /\ MonthOf(3) = 3 /\ YearOf(y, 2) = y - 1 /\ MonthOf(2) = 14
        BY SMT DEF YearOf, MonthOf
      <4>2. d = IF IsLeap(y) THEN 29 ELSE 28
        BY <1>3, <3>1, DaysInIs, SMT
      <4>3. NumberOf(y, 3, 1) = 1720997 + 122 + 1 + 365 * y + Leaps(y)
        BY <4>1, DaysToIs, SMT DEF NumberOf
      <4>4. NumberOf(y, 2, d) = 1720997 + 459 + d + 365 * (y - 1) + Leaps(y - 1)
        BY <4>1, DaysToIs, SMT DEF NumberOf
      <4>5. m + 1 = 3
        BY <3>1
      <4> QED
        BY <1>1, <3>1, <4>2, <4>3, <4>4, <4>5, LeapsGrow, SMT
    <3>2. CASE m # 2
      <4>1. YearOf(y, m + 1) = YearOf(y, m) /\ MonthOf(m + 1) = MonthOf(m) + 1
        BY <1>3, <3>2, SMT DEF YearOf, MonthOf
      <4>2. DaysTo(MonthOf(m) + 1) = DaysTo(MonthOf(m)) + d
        <5>1. m \in {1, 3, 4, 5, 6, 7, 8, 9, 10, 11}
          BY <1>3, <3>2, SMT
        <5>2. d = IF m \in {4, 6, 9, 11} THEN 30 ELSE 31
          BY <1>3, <5>1, DaysInIs, SMT
        <5> QED
          BY <5>1, <5>2, DaysToIs, SMT DEF MonthOf
      <4> QED
        BY <1>1, <1>a, <4>1, <4>2, SMT DEF NumberOf
    <3> QED
      BY <3>1, <3>2
  <2> WITNESS y, m + 1, 1
  <2> QED
    BY <2>1, <2>2, <2>3
<1>4. CASE d = DaysIn(m, y) /\ m = 12
  <2>1. d = 31
    BY <1>4, DaysInIs, SMT
  <2>2. Tomorrow(Date(y, m, d)) = Date(y + 1, 1, 1)
    BY <1>4, <2>1, SMT DEF Tomorrow, Date
  <2>3. IsDate(y + 1, 1, 1) /\ y + 1 \in 1600 .. 10000
    <3>1. DaysIn(1, y + 1) = 31
      BY DaysInIs, SMT
    <3> QED
      BY <3>1, SMT DEF IsDate
  <2>4. /\ YearOf(y + 1, 1) = y /\ MonthOf(1) = 13
        /\ YearOf(y, 12) = y /\ MonthOf(12) = 12
    BY SMT DEF YearOf, MonthOf
  <2>5. NumberOf(y + 1, 1, 1) = 1720997 + 428 + 1 + 365 * y + Leaps(y)
    BY <2>4, DaysToIs, SMT DEF NumberOf
  <2>6. NumberOf(y, 12, 31) = 1720997 + 397 + 31 + 365 * y + Leaps(y)
    BY <2>4, DaysToIs, SMT DEF NumberOf
  <2>7. NumberOf(y + 1, 1, 1) = NumberOf(y, m, d) + 1
    BY <1>4, <2>1, <2>5, <2>6, LeapsGrow, SMT
  <2> WITNESS y + 1, 1, 1
  <2> QED
    BY <2>2, <2>3, <2>7
<1> QED
  BY <1>1, <1>2, <1>3, <1>4, SMT

-----------------------------------------------------------------------------
\* Julian days

\* What a date's parts are; its number is a day that computeYMD has a date for.
LEMMA PartsOfDate ==
    ASSUME NEW y, NEW m, NEW d, IsDate(y, m, d)
    PROVE  /\ y \in Int /\ m \in Int /\ d \in Int /\ 1 <= d /\ d <= 31
           /\ YearOf(y, m) \in Int /\ 1599 <= YearOf(y, m) /\ YearOf(y, m) <= 10000
           /\ MonthOf(m) \in Int /\ 3 <= MonthOf(m) /\ MonthOf(m) <= 14
           /\ DaysTo(MonthOf(m)) \in Int /\ Leaps(YearOf(y, m)) \in Int
           /\ NumberOf(y, m, d) \in Int
<1>1. y \in Int /\ m \in Int /\ d \in Int /\ 1 <= d /\ d <= 31
  BY DaysInIs, SMT DEF IsDate
<1>2. YearOf(y, m) \in Int /\ 1599 <= YearOf(y, m) /\ YearOf(y, m) <= 10000
  BY SMT DEF IsDate, YearOf
<1>3. MonthOf(m) \in Int /\ 3 <= MonthOf(m) /\ MonthOf(m) <= 14
  BY SMT DEF IsDate, MonthOf
<1>4. \A k \in Int : DaysTo(k) \in Int /\ Leaps(k) \in Int
  BY SMT DEF DaysTo, Leaps
<1>5. DaysTo(MonthOf(m)) \in Int /\ Leaps(YearOf(y, m)) \in Int
  BY <1>2, <1>3, <1>4
<1>6. NumberOf(y, m, d) \in Int
  BY <1>1, <1>2, <1>5, SMT DEF NumberOf
<1> QED
  BY <1>1, <1>2, <1>3, <1>5, <1>6

\* The number of a date is a whole number.
LEMMA NumberIsInt ==
    ASSUME NEW y, NEW m, NEW d, IsDate(y, m, d)
    PROVE  NumberOf(y, m, d) \in Int
BY PartsOfDate, SMT

\* The parts of computeJD, and the midnight that time is counted from.
YearDays(Y) == Quotient(36525 * (Y + 4716), 100)
MonthDays(M) == Quotient(306001 * (M + 1), 10000)
Gregory(Y) == 2 - Quotient(Y, 100) + Quotient(Quotient(Y, 100), 4)
MsOf(time) == 3600000 * time.h + 60000 * time.m + 1000 * time.s + time.ms
FromNoon(time) ==
    MsPerHalfDay + 3600000 * time.h + 60000 * time.m + 1000 * time.s + time.ms

\* The doubles of computeJD add a day for every fourth year.
LEMMA YearDaysAre ==
    ASSUME NEW Y \in Int, 1599 <= Y
    PROVE  YearDays(Y) = 365 * Y + Y \div 4 + 1722519
BY SMT DEF Quotient, YearDays

\* The doubles of computeJD give the days before a month.
LEMMA MonthDaysAre ==
    ASSUME NEW M \in Int, 3 <= M
    PROVE  MonthDays(M) = DaysTo(M)
BY SMT DEF Quotient, MonthDays, DaysTo

\* All centuries but every fourth drop the day they would have.
LEMMA GregoryIs ==
    ASSUME NEW Y \in Int, 1599 <= Y
    PROVE  Gregory(Y) = 2 - Y \div 100 + Y \div 400
BY SMT DEF Quotient, Gregory

\* computeJD: a date begins at the midnight before the noon of its number.
LEMMA JulianDay ==
    ASSUME NEW y, NEW m, NEW d, NEW time, IsDate(y, m, d)
    PROVE  ComputeJD(Date(y, m, d), time) = IJD(NumberOf(y, m, d) - 1, FromNoon(time))
<1> DEFINE Y == YearOf(y, m)
           M == MonthOf(m)
<1>1. ComputeJD(Date(y, m, d), time)
          = IJD(YearDays(Y) + MonthDays(M) + d + Gregory(Y) - 1525, FromNoon(time))
  BY SMT DEF ComputeJD, YearDays, MonthDays, Gregory, FromNoon, YearOf, MonthOf, Date
<1>2. /\ d \in Int /\ Y \in Int /\ 1599 <= Y /\ M \in Int /\ 3 <= M
      /\ DaysTo(M) \in Int /\ Leaps(Y) \in Int
  BY PartsOfDate
<1>3. NumberOf(y, m, d) = 1720997 + DaysTo(M) + d + 365 * Y + Leaps(Y)
  BY SMT DEF NumberOf
<1> HIDE DEF Y, M
<1>4. /\ YearDays(Y) = 365 * Y + Y \div 4 + 1722519
      /\ MonthDays(M) = DaysTo(M)
      /\ Gregory(Y) = 2 - Y \div 100 + Y \div 400
  BY <1>2, YearDaysAre, MonthDaysAre, GregoryIs
<1>5. YearDays(Y) + MonthDays(M) + d + Gregory(Y) - 1525 = NumberOf(y, m, d) - 1
  BY <1>2, <1>3, <1>4, SMT DEF Leaps
<1> QED
  BY <1>1, <1>5

\* The parts of computeYMD, and the date of the day whose noon is Z.
Centuries(Z) == Quotient(4 * Z - 7468865, 146097)
Shifted(Z, a) == Z + 1 + a - Quotient(a, 4) + 1524
YearIn(B) == Quotient(20 * B - 2442, 7305)
DaysOf(C) == Quotient(36525 * (C % 32768), 100)
MonthIn(n) == Quotient(10000 * n, 306001)
FirstOf(E) == Quotient(306001 * E, 10000)
DateIn(C, n, E) ==
    LET M == IF E < 14 THEN E - 1 ELSE E - 13
    IN  Date(IF M > 2 THEN C - 4716 ELSE C - 4715, M, n - FirstOf(E))
DateOf(Z) ==
    LET B == Shifted(Z, Centuries(Z))
        C == YearIn(B)
        n == B - DaysOf(C)
    IN  DateIn(C, n, MonthIn(n))

\* computeYMD takes the date of the day that the time, from midnight, is on.
LEMMA DateOfIs ==
    ASSUME NEW iJD
    PROVE  ComputeYMD(iJD) = DateOf(IJD(iJD[1], iJD[2] + MsPerHalfDay)[1])
BY SMT DEF ComputeYMD, DateOf, DateIn, Shifted, Centuries, YearIn, DaysOf, MonthIn, FirstOf, Date

\* The day of a date in its year from March, from 0; the 366th ends a leap year's
\* February.
LEMMA DayFromMarch ==
    ASSUME NEW y, NEW m, NEW d, IsDate(y, m, d)
    PROVE  LET n == DaysTo(MonthOf(m)) + d - 123
           IN  0 <= n /\ (n <= 364 \/ (n = 365 /\ IsLeap(YearOf(y, m) + 1)))
<1>1. /\ y \in Int /\ m \in {1, 2, 3, 4, 5, 6, 7, 8, 9, 10, 11, 12} /\ d \in Int /\ 1 <= d /\ d <= DaysIn(m, y)
      /\ DaysIn(m, y) \in Int
  <2>1. m \in 1 .. 12 /\ y \in Int
    BY SMT DEF IsDate
  <2>2. DaysIn(m, y) \in 28 .. 31
    BY <2>1, DaysInIs
  <2> QED
    BY <2>1, <2>2, SMT DEF IsDate
<1>2. CASE m = 2
  <2>1. DaysIn(m, y) = (IF IsLeap(y) THEN 29 ELSE 28) /\ YearOf(y, m) + 1 = y /\ MonthOf(m) = 14
    BY <1>1, <1>2, SMT DEF DaysIn, YearOf, MonthOf
  <2> QED
    BY <1>1, <2>1, DaysToIs, SMT
<1>3. CASE m # 2
  <2>1. DaysIn(m, y) = IF m \in {4, 6, 9, 11} THEN 30 ELSE 31
    BY <1>1, <1>3, SMT DEF DaysIn
  <2> QED
    BY <1>1, <1>3, <2>1, DaysToIs, SMT DEF MonthOf
<1> QED
  BY <1>2, <1>3

\* What computeYMD takes the month from.
LEMMA MonthInIs ==
    ASSUME NEW y, NEW m, NEW d, IsDate(y, m, d)
    PROVE  MonthIn(DaysTo(MonthOf(m)) + d) = MonthOf(m) + 1
<1>1. /\ m \in {1, 2, 3, 4, 5, 6, 7, 8, 9, 10, 11, 12} /\ d \in Int /\ 1 <= d
      /\ d <= IF m = 2 THEN 29 ELSE IF m \in {4, 6, 9, 11} THEN 30 ELSE 31
  BY SMT DEF IsDate, DaysIn
<1>2. \A k \in Int : 0 <= k => MonthIn(k) = (10000 * k) \div 306001
  BY SMT DEF MonthIn, Quotient
<1>3. DaysTo(MonthOf(m)) \in Int /\ 122 <= DaysTo(MonthOf(m))
  BY <1>1, DaysToIs, SMT DEF MonthOf
<1>4. MonthIn(DaysTo(MonthOf(m)) + d) = (10000 * (DaysTo(MonthOf(m)) + d)) \div 306001
  BY <1>1, <1>2, <1>3, SMT
<1>5. (10000 * (DaysTo(MonthOf(m)) + d)) \div 306001 = MonthOf(m) + 1
  BY <1>1, DaysToIs, SMT DEF MonthOf
<1> QED
  BY <1>4, <1>5

\* The centuries since 1 March of the year 400, of the n-th day of the year Y from
\* March.
LEMMA CenturiesAre ==
    ASSUME NEW Y \in Int, NEW n \in Int, NEW Z \in Int, 1599 <= Y, Y <= 10000,
           0 <= n, n <= 364 \/ (n = 365 /\ IsLeap(Y + 1)),
           Z = 1721120 + n + 365 * Y + Leaps(Y)
    PROVE  Centuries(Z) = Y \div 100 - 4
<1> DEFINE c == Y \div 100
           r == Y % 100
<1>1. /\ c \in Int /\ r \in Int /\ 15 <= c /\ 0 <= r /\ r <= 99 /\ Y = 100 * c + r
      /\ Y \div 4 = 25 * c + r \div 4 /\ Y \div 400 = c \div 4
  BY SMT
<1>2. n = 365 => r \div 4 <= 24 /\ (r = 99 => c % 4 = 3)
  <2>1. n = 365 /\ r = 99 => c % 4 = 3
    BY SMT DEF IsLeap
  <2> QED
    BY <1>1, <2>1, SMT
<1>3. Z = 1721120 + n + 365 * Y + Y \div 4 - c + Y \div 400
  BY SMT DEF Leaps
<1> HIDE DEF c, r
<1> DEFINE rest == 3 - (c % 4) + 4 * n + 1460 * r + 4 * (r \div 4)
<1>4. 4 * Z - 7468865 = 146097 * (c - 4) + rest
  BY <1>1, <1>3, SMT
<1>5. rest \in Int /\ 0 <= rest /\ rest < 146097
  BY <1>1, <1>2, SMT
<1> HIDE DEF rest
<1>6. 4 * Z - 7468865 >= 0 /\ (4 * Z - 7468865) \div 146097 = c - 4
  BY <1>1, <1>4, <1>5, SMT
<1> QED
  BY <1>6, SMT DEF Centuries, Quotient, c

\* With a day for each century, every fourth year has a day more.
LEMMA ShiftedIs ==
    ASSUME NEW Y \in Int, NEW n \in Int, NEW Z \in Int, 1599 <= Y, Y <= 10000,
           Z = 1721120 + n + 365 * Y + Leaps(Y)
    PROVE  Shifted(Z, Y \div 100 - 4) = 1722642 + n + 365 * Y + Y \div 4
BY SMT DEF Shifted, Quotient, Leaps

\* The year, of the n-th day of the year Y from March.
LEMMA YearInIs ==
    ASSUME NEW Y \in Int, NEW n \in Int, 1599 <= Y, Y <= 10000,
           0 <= n, n <= 364 \/ (n = 365 /\ IsLeap(Y + 1))
    PROVE  YearIn(1722642 + n + 365 * Y + Y \div 4) = Y + 4716
<1> DEFINE s == Y % 4
           q == Y \div 4
<1>1. s \in Int /\ q \in Int /\ 0 <= s /\ s <= 3 /\ 399 <= q /\ Y = 4 * q + s
  BY SMT
<1>2. n = 365 => s = 3
  BY SMT DEF IsLeap
<1> DEFINE k == 20 * (1722642 + n + 365 * Y + Y \div 4) - 2442
           rest == 18 + 20 * n - 5 * s
<1> HIDE DEF s, q
<1>3. k = 7305 * (Y + 4716) + rest
  BY <1>1, SMT DEF q
<1>4. rest \in Int /\ 0 <= rest /\ rest < 7305
  BY <1>1, <1>2, SMT
<1> HIDE DEF rest
<1>5. k >= 0 /\ k \div 7305 = Y + 4716
  BY <1>3, <1>4, SMT
<1> QED
  BY <1>5, SMT DEF YearIn, Quotient

\* The days before that year; the mask of fifteen bits takes nothing away.
LEMMA DaysOfAre ==
    ASSUME NEW Y \in Int, 1599 <= Y, Y <= 10000
    PROVE  DaysOf(Y + 4716) = 365 * Y + Y \div 4 + 1722519
<1>1. (Y + 4716) % 32768 = Y + 4716
  BY SMT
<1> QED
  BY <1>1, SMT DEF DaysOf, Quotient

\* The date from the year and the month that begins in March.
LEMMA DateInIs ==
    ASSUME NEW y, NEW m, NEW d, IsDate(y, m, d)
    PROVE  DateIn(YearOf(y, m) + 4716, DaysTo(MonthOf(m)) + d, MonthOf(m) + 1) = Date(y, m, d)
<1> DEFINE C == YearOf(y, m) + 4716
           E == MonthOf(m) + 1
           n == DaysTo(MonthOf(m)) + d
           M == IF E < 14 THEN E - 1 ELSE E - 13
<1>1. /\ y \in Int /\ m \in Int /\ d \in Int /\ 1 <= m /\ m <= 12
  BY PartsOfDate, SMT DEF IsDate
<1>2. M = m
  BY <1>1, SMT DEF MonthOf
<1>3. (IF m > 2 THEN C - 4716 ELSE C - 4715) = y
  BY <1>1, SMT DEF YearOf
<1>4. FirstOf(E) = DaysTo(MonthOf(m))
  BY <1>1, SMT DEF FirstOf, Quotient, DaysTo, MonthOf
<1>5. n - FirstOf(E) = d
  BY <1>1, <1>4, PartsOfDate, SMT
<1>6. DateIn(C, n, E) = Date(IF M > 2 THEN C - 4716 ELSE C - 4715, M, n - FirstOf(E))
  BY DEF DateIn
<1> HIDE DEF C, E, n, M
<1>7. DateIn(C, n, E) = Date(y, m, d)
  BY <1>2, <1>3, <1>5, <1>6
<1> QED
  BY <1>7 DEF C, E, n

\* computeYMD: the noon of a date's number is on that date.
LEMMA DateOfNumber ==
    ASSUME NEW y, NEW m, NEW d, IsDate(y, m, d)
    PROVE  DateOf(NumberOf(y, m, d)) = Date(y, m, d)
<1> DEFINE Y == YearOf(y, m)
           M == MonthOf(m)
           n == DaysTo(M) + d - 123
           Z == NumberOf(y, m, d)
<1>1. /\ d \in Int /\ Y \in Int /\ 1599 <= Y /\ Y <= 10000 /\ DaysTo(M) \in Int /\ Leaps(Y) \in Int
      /\ Z \in Int
  BY PartsOfDate
<1>2. Z = 1720997 + DaysTo(M) + d + 365 * Y + Leaps(Y)
  BY SMT DEF NumberOf
<1>3. 0 <= n /\ (n <= 364 \/ (n = 365 /\ IsLeap(Y + 1)))
  BY DayFromMarch
<1>4. MonthIn(DaysTo(M) + d) = M + 1 /\ DateIn(Y + 4716, DaysTo(M) + d, M + 1) = Date(y, m, d)
  BY MonthInIs, DateInIs
<1> HIDE DEF Y, M, Z
<1>5. n \in Int /\ Z = 1721120 + n + 365 * Y + Leaps(Y) /\ DaysTo(M) + d = 123 + n
  BY <1>1, <1>2, SMT
<1> HIDE DEF n
<1>6. Shifted(Z, Centuries(Z)) = 1722642 + n + 365 * Y + Y \div 4
  BY <1>1, <1>3, <1>5, CenturiesAre, ShiftedIs
<1>7. YearIn(Shifted(Z, Centuries(Z))) = Y + 4716
  BY <1>1, <1>3, <1>5, <1>6, YearInIs
<1>8. Shifted(Z, Centuries(Z)) - DaysOf(Y + 4716) = DaysTo(M) + d
  <2>1. DaysOf(Y + 4716) = 365 * Y + Y \div 4 + 1722519
    BY <1>1, DaysOfAre
  <2> QED
    BY <1>1, <1>5, <1>6, <2>1, SMT
<1> QED
  BY <1>4, <1>7, <1>8 DEF DateOf, Z

-----------------------------------------------------------------------------
\* Times of the day

IsTime(time) ==
    /\ time.h \in Int /\ 0 <= time.h /\ time.h <= 23
    /\ time.m \in Int /\ 0 <= time.m /\ time.m <= 59
    /\ time.s \in Int /\ 0 <= time.s /\ time.s <= 59
    /\ time.ms \in Int /\ 0 <= time.ms /\ time.ms <= 999

\* A time is less than a day, and computeJD counts it from noon.
LEMMA MsAre ==
    ASSUME NEW time, IsTime(time)
    PROVE  /\ MsOf(time) \in Int /\ 0 <= MsOf(time) /\ MsOf(time) < MsPerDay
           /\ FromNoon(time) = MsPerHalfDay + MsOf(time)
BY SMT DEF IsTime, MsOf, FromNoon, MsPerDay, MsPerHalfDay

\* computeHMS, of the milliseconds since midnight
TimeAt(ms) ==
    LET s == ms \div 1000
    IN  [h |-> s \div 3600, m |-> (s % 3600) \div 60, s |-> s % 60, ms |-> ms % 1000]

\* computeHMS takes the time from midnight.
LEMMA TimeAtIs ==
    ASSUME NEW iJD
    PROVE  ComputeHMS(iJD) = TimeAt(IJD(iJD[1], iJD[2] + MsPerHalfDay)[2])
BY DEF ComputeHMS, TimeAt

\* A time of the day, and one that is read from its text, without milliseconds.
LEMMA TimeAtMs ==
    ASSUME NEW time, IsTime(time), NEW ms \in Int, ms = MsOf(time) - time.ms
    PROVE  TimeAt(ms).h = time.h /\ TimeAt(ms).m = time.m /\ TimeAt(ms).s = time.s
<1> DEFINE s == ms \div 1000
<1>1. ms = 3600000 * time.h + 60000 * time.m + 1000 * time.s
  BY SMT DEF IsTime, MsOf
<1>2. PICK h \in Int, m \in Int, n \in Int : time.h = h /\ time.m = m /\ time.s = n
  BY DEF IsTime
<1>3. /\ 0 <= h /\ h <= 23 /\ 0 <= m /\ m <= 59 /\ 0 <= n /\ n <= 59
      /\ ms = 3600000 * h + 60000 * m + 1000 * n
  BY <1>1, <1>2, SMT DEF IsTime
<1>4. s \div 3600 = h /\ (s % 3600) \div 60 = m /\ s % 60 = n
  BY <1>3, SMT
<1> HIDE DEF s
<1>5. s \div 3600 = time.h /\ (s % 3600) \div 60 = time.m /\ s % 60 = time.s
  BY <1>2, <1>4
<1> QED
  BY <1>5 DEF TimeAt, s

\* A time read from what computeHMS gives is whole seconds of the same day.
LEMMA MsOfTimeAt ==
    ASSUME NEW ms \in Int, 0 <= ms, ms < MsPerDay, NEW time,
           time = [h |-> TimeAt(ms).h, m |-> TimeAt(ms).m, s |-> TimeAt(ms).s, ms |-> 0]
    PROVE  IsTime(time) /\ MsOf(time) = ms - (ms % 1000)
<1> DEFINE s == ms \div 1000
<1>1. /\ time.h = s \div 3600 /\ time.m = (s % 3600) \div 60 /\ time.s = s % 60 /\ time.ms = 0
  BY DEF TimeAt
<1>2. s \in Int /\ 0 <= s /\ s < 86400 /\ 1000 * s = ms - (ms % 1000)
  BY SMT DEF MsPerDay
<1> HIDE DEF s
<1>3. /\ s \div 3600 \in Int /\ 0 <= s \div 3600 /\ s \div 3600 <= 23
      /\ (s % 3600) \div 60 \in Int /\ 0 <= (s % 3600) \div 60 /\ (s % 3600) \div 60 <= 59
      /\ s % 60 \in Int /\ 0 <= s % 60 /\ s % 60 <= 59
      /\ 3600 * (s \div 3600) + 60 * ((s % 3600) \div 60) + (s % 60) = s
  BY <1>2, SMT
<1> QED
  BY <1>1, <1>2, <1>3, SMT DEF IsTime, MsOf

-----------------------------------------------------------------------------
\* DATETIME

\* Milliseconds added to a moment carry over to its days.
LEMMA Added ==
    ASSUME NEW n \in Int, NEW p \in Int, NEW q \in Int
    PROVE  IJD(IJD(n, p)[1], IJD(n, p)[2] + q) = IJD(n, p + q)
<1>1. /\ IJD(n, p)[1] = n + p \div MsPerDay /\ IJD(n, p)[2] = p % MsPerDay
  BY DEF IJD
<1>2. /\ n + p \div MsPerDay + ((p % MsPerDay) + q) \div MsPerDay = n + (p + q) \div MsPerDay
      /\ ((p % MsPerDay) + q) % MsPerDay = (p + q) % MsPerDay
  BY SMT DEF MsPerDay
<1> QED
  BY <1>1, <1>2 DEF IJD

\* A day that DATETIME has a date for, at any of its times.
InRange(day) == 1 <= day /\ day <= LastDay

\* The text of the moment ms milliseconds after the midnight before the noon n; it is
\* in range if its day is.
LEMMA DatetimeIs ==
    ASSUME NEW n \in Int, NEW ms \in Int
    PROVE  LET iJD == IJD(n - 1, MsPerHalfDay + ms)
               day == n + ms \div MsPerDay
               text == Text(DateOf(day), TimeAt(ms % MsPerDay))
           IN  /\ DatetimeOf(iJD) \in {Null, text}
               /\ InRange(day) => DatetimeOf(iJD) = text
<1> DEFINE iJD == IJD(n - 1, MsPerHalfDay + ms)
           day == n + ms \div MsPerDay
           text == Text(DateOf(day), TimeAt(ms % MsPerDay))
           noon == IJD(iJD[1], iJD[2] + MsPerHalfDay)
<1>1. noon = <<day, ms % MsPerDay>>
  <2>1. MsPerHalfDay + ms + MsPerHalfDay = MsPerDay + ms /\ MsPerHalfDay + ms \in Int
        /\ MsPerHalfDay \in Int /\ n - 1 \in Int
    BY SMT DEF MsPerDay, MsPerHalfDay
  <2>2. noon = IJD(n - 1, MsPerHalfDay + ms + MsPerHalfDay)
    BY <2>1, Added
  <2>3. /\ n - 1 + (MsPerDay + ms) \div MsPerDay = day
        /\ (MsPerDay + ms) % MsPerDay = ms % MsPerDay
    BY SMT DEF MsPerDay
  <2> QED
    BY <2>1, <2>2, <2>3 DEF IJD
<1>2. ComputeYMD(iJD) = DateOf(day) /\ ComputeHMS(iJD) = TimeAt(ms % MsPerDay)
  BY <1>1, DateOfIs, TimeAtIs
<1> DEFINE valid == /\ 0 <= iJD[1]
                    /\ iJD[1] < LastDay \/ (iJD[1] = LastDay /\ iJD[2] < MsPerHalfDay)
<1>3. InRange(day) => valid
  <2>1. /\ iJD[1] = n - 1 + (MsPerHalfDay + ms) \div MsPerDay
        /\ iJD[2] = (MsPerHalfDay + ms) % MsPerDay
    BY DEF IJD
  <2> QED
    BY <2>1, SMT DEF InRange, LastDay, MsPerDay, MsPerHalfDay
<1>4. DatetimeOf(iJD) = IF valid THEN text ELSE Null
  BY <1>2, Zenon DEF DatetimeOf
<1> HIDE DEF iJD, day, text, valid
<1>5. /\ DatetimeOf(iJD) \in {Null, text}
      /\ InRange(day) => DatetimeOf(iJD) = text
  BY <1>3, <1>4, Zenon
<1> QED
  BY <1>5, Zenon DEF iJD, day, text

-----------------------------------------------------------------------------
\* The calendar's invariant: today is the day after yesterday, and number counts it.
Turned ==
    \E k, l, n :
        /\ IsDate(k, l, n) /\ Counted(k)
        /\ yesterday = Date(k, l, n)
        /\ today = Tomorrow(Date(k, l, n))
        /\ number = NumberOf(k, l, n) + 1
        /\ Shown(today.y)

\* Yesterday and today as dates
Days(k, l, n, y, m, d) ==
    /\ IsDate(k, l, n) /\ IsDate(y, m, d) /\ Shown(y) /\ Counted(k) /\ Counted(y)
    /\ yesterday = Date(k, l, n) /\ today = Date(y, m, d)
    /\ number = NumberOf(y, m, d) /\ number = NumberOf(k, l, n) + 1
    /\ Date(y, m, d) = Tomorrow(Date(k, l, n))

\* What the invariant says of the two days.
LEMMA TodayIsDate ==
    ASSUME Turned
    PROVE  \E k, l, n, y, m, d : Days(k, l, n, y, m, d)
<1>1. PICK k, l, n :
          /\ IsDate(k, l, n) /\ Counted(k) /\ yesterday = Date(k, l, n)
          /\ today = Tomorrow(Date(k, l, n))
          /\ number = NumberOf(k, l, n) + 1 /\ Shown(today.y)
  BY Zenon DEF Turned
<1>2. PICK y, m, d : /\ IsDate(y, m, d) /\ Tomorrow(Date(k, l, n)) = Date(y, m, d)
                     /\ NumberOf(y, m, d) = NumberOf(k, l, n) + 1
  BY <1>1, NextDay, Zenon
<1>3. Shown(y)
  <2>1. Date(y, m, d).y = y
    BY SMT DEF Date
  <2> QED
    BY <1>1, <1>2, <2>1, Zenon
<1>4. Counted(y)
  BY <1>3, SMT DEF Shown, Counted
<1>5. Days(k, l, n, y, m, d)
  BY <1>1, <1>2, <1>3, <1>4, Zenon DEF Days
<1> QED
  BY <1>5

\* The years of the calendar are those a clock shows.
LEMMA YearsAreShown == \A y \in Years : Shown(y)
BY Calendars, SMT DEF Shown

\* The first day of a year has the number that is given for it.
LEMMA InitTurned ==
    ASSUME Init
    PROVE  Turned
<1>1. PICK f \in FirstDays :
          /\ today = f.date /\ number = f.number
          /\ yesterday = [y |-> f.date.y - 1, m |-> 12, d |-> 31]
  BY Zenon DEF Init
<1>2. PICK y \in Years :
          f = [date |-> [y |-> y, m |-> 1, d |-> 1], number |-> NumberOfYear(y)]
  <2>1. FirstDays \subseteq
            {[date |-> [y |-> y, m |-> 1, d |-> 1], number |-> NumberOfYear(y)] : y \in Years}
    BY Calendars, SMT
  <2> QED
    BY <2>1, SMT
<1>3. /\ today = Date(y, 1, 1) /\ number = NumberOfYear(y)
      /\ yesterday = Date(y - 1, 12, 31) /\ today.y = y
  BY <1>1, <1>2, SMT DEF Date
<1>4. y - 1 \in Int /\ 1969 <= y - 1 /\ y - 1 <= 9998 /\ y \in Int
  <2>1. Shown(y)
    BY YearsAreShown, Zenon
  <2> QED
    BY <2>1, SMT DEF Shown
<1>5. DaysIn(12, y - 1) = 31
  BY SMT DEF DaysIn
<1>6. IsDate(y - 1, 12, 31) /\ Counted(y - 1)
  BY <1>4, <1>5, SMT DEF IsDate, Counted
<1>7. Tomorrow(Date(y - 1, 12, 31)) = Date(y, 1, 1)
  BY <1>4, <1>5, SMT DEF Tomorrow, Date
<1>8. NumberOf(y - 1, 12, 31) + 1 = NumberOfYear(y)
  <2>1. YearOf(y - 1, 12) = y - 1 /\ MonthOf(12) = 12
    BY SMT DEF YearOf, MonthOf
  <2>2. NumberOf(y - 1, 12, 31) = 1720997 + 397 + 31 + 365 * (y - 1) + Leaps(y - 1)
    BY <2>1, DaysToIs, SMT DEF NumberOf
  <2>3. Leaps(1999) = 484
    BY SMT DEF Leaps
  <2>4. \A k \in Int : Leaps(k) \in Int
    BY SMT DEF Leaps
  <2> QED
    BY <1>4, <2>2, <2>3, <2>4, SMT DEF NumberOfYear
<1>9. Shown(today.y)
  BY <1>3, YearsAreShown, Zenon
<1> QED
  BY <1>3, <1>6, <1>7, <1>8, <1>9, SMT DEF Turned

\* Turning a page keeps the invariant.
LEMMA NextTurned ==
    ASSUME Turned, [Next]_vars
    PROVE  Turned'
<1>1. CASE UNCHANGED vars
  BY <1>1, Zenon DEF vars, Turned
<1>2. CASE TurnPage
  <2>1. PICK k, l, n, y, m, d : Days(k, l, n, y, m, d)
    BY TodayIsDate, Zenon
  <2>2. /\ IsDate(y, m, d) /\ Counted(y)
        /\ yesterday' = Date(y, m, d) /\ today' = Tomorrow(Date(y, m, d))
        /\ number' = NumberOf(y, m, d) + 1 /\ Shown(today'.y)
    BY <1>2, <2>1, YearsAreShown, Zenon DEF TurnPage, Days
  <2> QED
    BY <2>2, Zenon DEF Turned
<1> QED
  BY <1>1, <1>2, Zenon DEF Next

\* In every state the calendar shows the day after yesterday and its number.
THEOREM CalendarTurns == Spec => []Turned
<1>1. Init => Turned
  BY InitTurned
<1>2. Turned /\ [Next]_vars => Turned'
  BY NextTurned
<1> QED
  BY <1>1, <1>2, PTL DEF Spec

-----------------------------------------------------------------------------
\* Whole numbers

\* Every date up to the last of the year 9999 is in range.
LEMMA NumbersAreInRange ==
    ASSUME NEW y, NEW m, NEW d, IsDate(y, m, d), Counted(y)
    PROVE  InRange(NumberOf(y, m, d))
<1> DEFINE Y == YearOf(y, m)
           M == MonthOf(m)
           n == DaysTo(M) + d - 123
<1>1. /\ d \in Int /\ y \in Int /\ Y \in Int /\ 1599 <= Y /\ DaysTo(M) \in Int /\ Leaps(Y) \in Int
  BY PartsOfDate
<1>2. NumberOf(y, m, d) = 1720997 + DaysTo(M) + d + 365 * Y + Leaps(Y)
  BY SMT DEF NumberOf
<1>3. 0 <= n /\ n <= 365
  BY DayFromMarch, <1>1, SMT
<1>4. Y <= 9999
  BY <1>1, SMT DEF Counted, YearOf
<1>5. Y = 9999 => DaysTo(M) + d <= 428
  <2>1. SUFFICES ASSUME Y = 9999
                 PROVE  DaysTo(M) + d <= 428
    OBVIOUS
  <2>2. m \in {3, 4, 5, 6, 7, 8, 9, 10, 11, 12}
    <3>1. m \in Int /\ 1 <= m /\ m <= 12 /\ y <= 9999
      BY SMT DEF IsDate, Counted
    <3>2. ~ (m <= 2)
      BY <1>1, <2>1, <3>1, SMT DEF YearOf
    <3> QED
      BY <3>1, <3>2, SMT
  <2>3. d <= DaysIn(m, y) /\ DaysIn(m, y) <= 31 /\ DaysIn(m, y) \in Int
    BY <1>1, <2>2, DaysInIs, SMT DEF IsDate
  <2> QED
    BY <1>1, <2>2, <2>3, DaysToIs, SMT DEF MonthOf
<1>6. Y \div 4 - Y \div 100 + Y \div 400 = Leaps(Y)
  BY SMT DEF Leaps
<1> HIDE DEF Y, M
<1> QED
  BY <1>1, <1>2, <1>3, <1>4, <1>5, <1>6, SMT DEF InRange, LastDay

\* Noon is half a day after midnight.
LEMMA Noon ==
    /\ IJD(0, MsPerHalfDay)[1] = 0 /\ IJD(0, MsPerHalfDay)[2] = MsPerHalfDay
    /\ TimeAt(MsPerHalfDay).h = 12 /\ TimeAt(MsPerHalfDay).m = 0 /\ TimeAt(MsPerHalfDay).s = 0
BY SMT DEF IJD, TimeAt, MsPerHalfDay, MsPerDay

\* A whole number in range is the noon of a day.
LEMMA DatetimeOfNumberIs ==
    ASSUME NEW r \in Int, InRange(r)
    PROVE  DatetimeOfNumber(r) = Text(DateOf(r), [h |-> 12, m |-> 0, s |-> 0, ms |-> 0])
<1>1. DatetimeOfNumber(r) = DatetimeOf(<<r, 0>>)
  <2>1. r \in 0 .. LastDay
    <3>1. LastDay \in Int
      BY SMT DEF LastDay
    <3> QED
      BY <3>1, SMT DEF InRange
  <2> QED
    BY <2>1 DEF DatetimeOfNumber
<1>2. IJD(r - 1, MsPerHalfDay + MsPerHalfDay) = <<r, 0>>
  BY SMT DEF IJD, MsPerHalfDay, MsPerDay
<1>3. /\ MsPerHalfDay \in Int /\ r + MsPerHalfDay \div MsPerDay = r
      /\ MsPerHalfDay % MsPerDay = MsPerHalfDay
  BY SMT DEF MsPerHalfDay, MsPerDay
<1>4. DatetimeOf(<<r, 0>>) = Text(DateOf(r), TimeAt(MsPerHalfDay))
  BY <1>2, <1>3, DatetimeIs
<1> QED
  BY <1>1, <1>4, Noon DEF Text

\* Today's number is in range, and the number of its date.
LEMMA TodayIsCounted ==
    ASSUME Turned
    PROVE  /\ number \in Int /\ InRange(number) /\ DateOf(number) = today
           /\ \E y, m, d : /\ IsDate(y, m, d) /\ today = Date(y, m, d)
                           /\ number = NumberOf(y, m, d)
<1>1. PICK k, l, n, y, m, d : Days(k, l, n, y, m, d)
  BY TodayIsDate, Zenon
<1>2. /\ IsDate(y, m, d) /\ Counted(y) /\ today = Date(y, m, d)
      /\ number = NumberOf(y, m, d)
  BY <1>1, Zenon DEF Days
<1>3. /\ NumberOf(y, m, d) \in Int /\ InRange(NumberOf(y, m, d))
      /\ DateOf(NumberOf(y, m, d)) = Date(y, m, d)
  BY <1>2, NumberIsInt, NumbersAreInRange, DateOfNumber, Zenon
<1> QED
  BY <1>2, <1>3, Zenon

\* The invariant implies the numbers' property.
LEMMA TurnedNumbers ==
    ASSUME Turned
    PROVE  NumbersAreNoons
<1>1. PICK y, m, d : IsDate(y, m, d) /\ today = Date(y, m, d) /\ number = NumberOf(y, m, d)
  BY TodayIsCounted, Zenon
<1>2. DatetimeOfNumber(number) = Text(today, [h |-> 12, m |-> 0, s |-> 0, ms |-> 0])
  BY TodayIsCounted, DatetimeOfNumberIs, Zenon
<1>3. ASSUME today = [y |-> 9999, m |-> 12, d |-> 31]
      PROVE  DatetimeOfNumber(number + 1) = Null
  <2>1. y = 9999 /\ m = 12 /\ d = 31
    BY <1>1, <1>3, SMT DEF Date
  <2>2. YearOf(9999, 12) = 9999 /\ MonthOf(12) = 12 /\ Leaps(9999) = 2424
    BY SMT DEF YearOf, MonthOf, Leaps
  <2>3. NumberOf(9999, 12, 31) = LastDay
    BY <2>2, DaysToIs, SMT DEF NumberOf, LastDay
  <2>4. NumberOf(y, m, d) = LastDay
    BY <2>1, <2>3, SMT
  <2>5. number = LastDay
    BY <1>1, <2>4, Zenon
  <2>6. ~ (number + 1 \in 0 .. LastDay)
    <3>1. LastDay \in Int
      BY SMT DEF LastDay
    <3> QED
      BY <2>5, <3>1, SMT
  <2> QED
    BY <2>6, Zenon DEF DatetimeOfNumber
<1> QED
  BY <1>2, <1>3 DEF NumbersAreNoons

-----------------------------------------------------------------------------
\* Time zones

Zone(tz) == tz \in Int /\ -899 <= tz /\ tz <= 899
Minutes(tz) == 60000 * tz

\* The opposite of a time zone.
LEMMA MinutesAre ==
    ASSUME NEW tz, Zone(tz)
    PROVE  /\ tz \in Int /\ Minutes(tz) \in Int
           /\ Zone(- tz) /\ Minutes(- tz) = - Minutes(tz) /\ (tz # 0 => - tz # 0)
BY SMT DEF Zone, Minutes

\* A text with a time zone is that many minutes earlier in Greenwich.
LEMMA ZonedIs ==
    ASSUME NEW y, NEW m, NEW d, NEW time, NEW tz, IsDate(y, m, d), IsTime(time), Zone(tz), tz # 0
    PROVE  DatetimeOfText(Date(y, m, d), time, tz)
               = DatetimeOf(IJD(NumberOf(y, m, d) - 1, MsPerHalfDay + (MsOf(time) - Minutes(tz))))
<1> DEFINE iJD == ComputeJD(Date(y, m, d), time)
           N == NumberOf(y, m, d)
<1>1. DatetimeOfText(Date(y, m, d), time, tz) = DatetimeOf(IJD(iJD[1], iJD[2] - Minutes(tz)))
  BY SMT DEF DatetimeOfText, Minutes
<1>2. iJD = IJD(N - 1, MsPerHalfDay + MsOf(time))
  BY JulianDay, MsAre, Zenon
<1>3. N \in Int /\ MsOf(time) \in Int /\ Minutes(tz) \in Int /\ MsPerHalfDay \in Int
  <2>1. MsPerHalfDay \in Int
    BY SMT DEF MsPerHalfDay
  <2> QED
    BY <2>1, NumberIsInt, MsAre, MinutesAre, Zenon
<1> HIDE DEF iJD, N
<1>4. IJD(iJD[1], iJD[2] + (- Minutes(tz))) = IJD(N - 1, MsPerHalfDay + MsOf(time) + (- Minutes(tz)))
  <2>1. /\ N - 1 \in Int /\ MsPerHalfDay + MsOf(time) \in Int /\ - Minutes(tz) \in Int
    BY <1>3, SMT
  <2> QED
    BY <1>2, <2>1, Added, Zenon
<1>5. iJD[2] \in Int
  BY <1>2, <1>3, SMT DEF IJD, MsPerDay
<1>6. /\ iJD[2] + (- Minutes(tz)) = iJD[2] - Minutes(tz)
      /\ MsPerHalfDay + MsOf(time) + (- Minutes(tz)) = MsPerHalfDay + (MsOf(time) - Minutes(tz))
  BY <1>3, <1>5, SMT
<1> QED
  BY <1>1, <1>4, <1>6, Zenon DEF N, iJD

\* What a text says is the date and the time, to the second, that it was made of.
ReadDate(text) == [y |-> text[1], m |-> text[2], d |-> text[3]]
ReadTime(text) == [h |-> text[4], m |-> text[5], s |-> text[6], ms |-> 0]

LEMMA TextIsRead ==
    ASSUME NEW y, NEW m, NEW d, NEW time
    PROVE  LET text == Text(Date(y, m, d), time)
           IN  /\ ReadDate(text) = Date(y, m, d)
               /\ ReadTime(text) = [h |-> time.h, m |-> time.m, s |-> time.s, ms |-> 0]
BY SMT DEF Text, Date, ReadDate, ReadTime

\* A time of the day in milliseconds, and the days that a time zone may reach.
OfDay(ms) == ms \in Int /\ 0 <= ms /\ ms < MsPerDay
Whole(ms) == ms - (ms % 1000)
Near(w) == w \in Int /\ -1 <= w /\ w <= 1

\* The days and the milliseconds of there and back.
LEMMA ThereAndBack ==
    ASSUME NEW ms, OfDay(ms), NEW f \in Int, f = ms % 1000,
           NEW tz, Zone(tz), NEW v \in Int, v = ms - Minutes(tz),
           NEW w \in Int, w = Whole(v % MsPerDay) + Minutes(tz)
    PROVE  /\ Near(v \div MsPerDay) /\ OfDay(v % MsPerDay)
           /\ v \div MsPerDay + w \div MsPerDay = 0
           /\ w % MsPerDay = ms - f
<1>1. v = ms - 60000 * tz /\ w = (v % 86400000) - ((v % 86400000) % 1000) + 60000 * tz
  BY SMT DEF MsPerDay, Minutes, Whole
<1>2. ms \in Int /\ tz \in Int /\ -899 <= tz /\ tz <= 899 /\ 0 <= ms /\ ms < 86400000
  BY SMT DEF Zone, OfDay, MsPerDay
<1>3. -1 <= v \div 86400000 /\ v \div 86400000 <= 1
  <2>1. -86400000 <= v /\ v < 2 * 86400000
    BY <1>1, <1>2, SMT
  <2> QED
    BY <2>1, SMT
<1>4. (v % 86400000) % 1000 = f /\ 0 <= f /\ f < 1000
  BY <1>1, <1>2, SMT
<1>5. v = 86400000 * (v \div 86400000) + (v % 86400000)
  BY SMT
<1>6. w = ms - f - 86400000 * (v \div 86400000)
  BY <1>1, <1>2, <1>4, <1>5, SMT
<1>7. 0 <= ms - f
  BY <1>2, SMT
<1>8. w \div 86400000 = - (v \div 86400000) /\ w % 86400000 = ms - f
  BY <1>2, <1>3, <1>4, <1>6, <1>7, SMT
<1>9. OfDay(v % MsPerDay) /\ Near(v \div MsPerDay)
  BY <1>3, SMT DEF MsPerDay, Near, OfDay
<1> QED
  BY <1>8, <1>9, SMT DEF MsPerDay

\* A time that is read from a text has lost its milliseconds.
LEMMA ReadTimeIs ==
    ASSUME NEW date, NEW ms, OfDay(ms)
    PROVE  LET time == ReadTime(Text(date, TimeAt(ms)))
           IN  IsTime(time) /\ MsOf(time) = Whole(ms)
<1> DEFINE time == ReadTime(Text(date, TimeAt(ms)))
<1>1. time = [h |-> TimeAt(ms).h, m |-> TimeAt(ms).m, s |-> TimeAt(ms).s, ms |-> 0]
  BY SMT DEF ReadTime, Text
<1>2. ms \in Int /\ 0 <= ms /\ ms < MsPerDay
  BY DEF OfDay
<1> HIDE DEF time
<1>3. IsTime(time) /\ MsOf(time) = Whole(ms)
  BY <1>1, <1>2, MsOfTimeAt DEF Whole
<1> QED
  BY <1>3 DEF time

\* The milliseconds of a time are what is left of its seconds.
LEMMA MsOfTime ==
    ASSUME NEW time, IsTime(time)
    PROVE  MsOf(time) % 1000 = time.ms /\ time.ms \in Int
<1>1. PICK h \in Int, m \in Int, n \in Int, f \in Int :
          time.h = h /\ time.m = m /\ time.s = n /\ time.ms = f
  BY DEF IsTime
<1>2. 0 <= f /\ f <= 999 /\ MsOf(time) = 3600000 * h + 60000 * m + 1000 * n + f
  BY <1>1, SMT DEF IsTime, MsOf
<1> QED
  BY <1>1, <1>2, SMT

\* A time zone reaches today, the day before or the day after.
LEMMA DayReached ==
    ASSUME Turned, NEW w, Near(w)
    PROVE  \E y, m, d : IsDate(y, m, d) /\ NumberOf(y, m, d) = number + w
<1>1. PICK k, l, n, y, m, d : Days(k, l, n, y, m, d)
  BY TodayIsDate, Zenon
<1>2. PICK a, b, c : IsDate(a, b, c) /\ NumberOf(a, b, c) = NumberOf(y, m, d) + 1
  <2>1. IsDate(y, m, d) /\ Counted(y)
    BY <1>1, Zenon DEF Days
  <2> QED
    BY <2>1, NextDay
<1>3. /\ IsDate(k, l, n) /\ IsDate(y, m, d) /\ number = NumberOf(y, m, d)
      /\ NumberOf(y, m, d) = NumberOf(k, l, n) + 1
  BY <1>1, Zenon DEF Days
<1>4. NumberOf(k, l, n) \in Int
  BY <1>3, NumberIsInt, Zenon
<1>5. CASE w = -1
  <2>1. NumberOf(k, l, n) + 1 + w = NumberOf(k, l, n)
    BY <1>4, <1>5, SMT
  <2> QED
    BY <1>3, <2>1, Zenon
<1>6. CASE w = 0
  <2>1. NumberOf(y, m, d) + w = NumberOf(y, m, d)
    BY <1>3, <1>4, <1>6, SMT
  <2> QED
    BY <1>3, <2>1, Zenon
<1>7. CASE w = 1
  BY <1>2, <1>3, <1>7, Zenon
<1>8. w = -1 \/ w = 0 \/ w = 1
  BY SMT DEF Near
<1> QED
  BY <1>5, <1>6, <1>7, <1>8, Zenon

\* The constants are times and time zones.
LEMMA TimesAndZones ==
    /\ \A t \in Times : IsTime(t)
    /\ \A tz \in Zones : Zone(tz)
<1>1. Times \subseteq [h : 0 .. 23, m : 0 .. 59, s : 0 .. 59, ms : 0 .. 999] /\ Zones \subseteq -899 .. 899
  BY Calendars, SMT
<1>2. ASSUME NEW t \in Times
      PROVE  IsTime(t)
  BY <1>1, SMT DEF IsTime
<1>3. ASSUME NEW tz \in Zones
      PROVE  Zone(tz)
  BY <1>1, SMT DEF Zone
<1> QED
  BY <1>2, <1>3, Zenon

\* A text taken to Greenwich and back is what it was.
LEMMA ZoneCancels ==
    ASSUME Turned, NEW t, IsTime(t), NEW tz, Zone(tz), tz # 0,
           DatetimeOfText(today, t, tz) # Null
    PROVE  LET there == DatetimeOfText(today, t, tz)
               back == DatetimeOfText(ReadDate(there), ReadTime(there), - tz)
           IN  back = Text(today, t)
<1> DEFINE there == DatetimeOfText(today, t, tz)
           back == DatetimeOfText(ReadDate(there), ReadTime(there), - tz)
           v == MsOf(t) - Minutes(tz)
           u == v % MsPerDay
           w == Whole(u) + Minutes(tz)
           days == v \div MsPerDay
<1>1. PICK y, m, d : IsDate(y, m, d) /\ today = Date(y, m, d) /\ number = NumberOf(y, m, d)
  BY TodayIsCounted, Zenon
<1>2. number \in Int /\ InRange(number) /\ DateOf(number) = today
  BY TodayIsCounted, Zenon
<1>3. OfDay(MsOf(t)) /\ MsOf(t) \in Int
  BY MsAre, Zenon DEF OfDay
<1>4. t.ms \in Int /\ t.ms = MsOf(t) % 1000
  BY MsOfTime, SMT
<1>5. Minutes(tz) \in Int
  BY MinutesAre, Zenon
<1>6. v \in Int /\ w \in Int
  BY <1>3, <1>5, SMT DEF MsPerDay, Whole
<1>7. there = DatetimeOf(IJD(number - 1, MsPerHalfDay + v))
  <2>1. DatetimeOfText(Date(y, m, d), t, tz)
            = DatetimeOf(IJD(NumberOf(y, m, d) - 1, MsPerHalfDay + v))
    BY <1>1, ZonedIs
  <2> QED
    BY <1>1, <2>1, Zenon
<1>8. Near(days) /\ OfDay(u) /\ days + w \div MsPerDay = 0 /\ w % MsPerDay = MsOf(t) - t.ms
  <2>1. v = MsOf(t) - Minutes(tz) /\ w = Whole(v % MsPerDay) + Minutes(tz)
    OBVIOUS
  <2> HIDE DEF v, w
  <2> QED
    BY <1>3, <1>4, <1>6, <2>1, ThereAndBack
<1>9. w = Whole(u) + Minutes(tz) /\ there # Null
  OBVIOUS
<1> HIDE DEF v, w, there
<1>10. there \in {Null, Text(DateOf(number + days), TimeAt(u))}
  BY <1>2, <1>6, <1>7, DatetimeIs, Zenon
<1> HIDE DEF u, days
<1>11. PICK a, b, c : IsDate(a, b, c) /\ NumberOf(a, b, c) = number + days
  BY <1>8, DayReached, Zenon
<1>12. there = Text(Date(a, b, c), TimeAt(u))
  <2>1. DateOf(number + days) = Date(a, b, c)
    BY <1>11, DateOfNumber, Zenon
  <2> QED
    BY <1>9, <1>10, <2>1, Zenon
<1>13. ReadDate(there) = Date(a, b, c)
  BY <1>12, TextIsRead, Zenon
<1>14. IsTime(ReadTime(there)) /\ MsOf(ReadTime(there)) = Whole(u)
  <2>1. /\ IsTime(ReadTime(Text(Date(a, b, c), TimeAt(u))))
        /\ MsOf(ReadTime(Text(Date(a, b, c), TimeAt(u)))) = Whole(u)
    BY <1>8, ReadTimeIs, Zenon
  <2> QED
    BY <1>12, <2>1, Zenon
<1>15. back = DatetimeOf(IJD((number + days) - 1, MsPerHalfDay + w))
  <2>1. Zone(- tz) /\ - tz # 0
    BY MinutesAre, Zenon
  <2>2. Whole(u) - Minutes(- tz) = w
    <3>1. Minutes(- tz) = - Minutes(tz)
      BY MinutesAre, Zenon
    <3>2. Whole(u) \in Int
      BY <1>8, SMT DEF OfDay, Whole
    <3> QED
      BY <1>5, <1>9, <3>1, <3>2, SMT
  <2>3. DatetimeOfText(Date(a, b, c), ReadTime(there), - tz)
            = DatetimeOf(IJD(NumberOf(a, b, c) - 1,
                             MsPerHalfDay + (MsOf(ReadTime(there)) - Minutes(- tz))))
    BY <1>11, <1>14, <2>1, ZonedIs
  <2>4. back = DatetimeOfText(Date(a, b, c), ReadTime(there), - tz)
    BY <1>13, Zenon
  <2>5. /\ NumberOf(a, b, c) - 1 = (number + days) - 1
        /\ MsOf(ReadTime(there)) - Minutes(- tz) = w
    BY <1>11, <1>14, <2>2
  <2> HIDE DEF back
  <2> QED
    BY <2>3, <2>4, <2>5, Zenon
<1> HIDE DEF back
<1>16. back = Text(today, TimeAt(MsOf(t) - t.ms))
  <2>1. number + days \in Int /\ number + days + w \div MsPerDay = number
    BY <1>2, <1>6, <1>8, SMT DEF Near, MsPerDay
  <2>2. back = Text(DateOf(number + days + w \div MsPerDay), TimeAt(w % MsPerDay))
    <3> DEFINE N == number + days
    <3>1. InRange(N + w \div MsPerDay)
      BY <1>2, <2>1, Zenon
    <3>2. N \in Int
      BY <2>1
    <3>3. back = DatetimeOf(IJD(N - 1, MsPerHalfDay + w))
      BY <1>15
    <3> HIDE DEF N
    <3>4. back = Text(DateOf(N + w \div MsPerDay), TimeAt(w % MsPerDay))
      BY <1>6, <3>1, <3>2, <3>3, DatetimeIs
    <3> QED
      BY <3>4, Zenon DEF N
  <2> QED
    BY <1>2, <1>8, <2>1, <2>2, Zenon
<1>17. Text(today, TimeAt(MsOf(t) - t.ms)) = Text(today, t)
  <2>1. MsOf(t) - t.ms \in Int
    BY <1>3, <1>4, SMT
  <2>2. /\ TimeAt(MsOf(t) - t.ms).h = t.h /\ TimeAt(MsOf(t) - t.ms).m = t.m
        /\ TimeAt(MsOf(t) - t.ms).s = t.s
    BY <2>1, TimeAtMs, Zenon
  <2> QED
    BY <2>2, Zenon DEF Text
<1> QED
  BY <1>16, <1>17, Zenon DEF back, there

\* The invariant implies the time zones' property.
LEMMA TurnedZones ==
    ASSUME Turned
    PROVE  ZonesCancel
<1> SUFFICES ASSUME NEW t \in Times, NEW tz \in Zones,
                    DatetimeOfText(today, t, tz) # Null
             PROVE  LET there == DatetimeOfText(today, t, tz)
                    IN  DatetimeOfText(ReadDate(there), ReadTime(there), - tz) = Text(today, t)
  BY Zenon DEF ZonesCancel, ReadDate, ReadTime
<1>1. IsTime(t) /\ Zone(tz)
  BY TimesAndZones, Zenon
<1>2. CASE tz # 0
  BY <1>1, <1>2, ZoneCancels, Zenon
<1>3. CASE tz = 0
  <2>2. - tz = 0
    <3>1. 0 <= tz /\ tz <= 0
      BY <1>3, SMT
    <3> QED
      BY <1>1, <3>1, SMT DEF Zone
  <2>3. \A date, time : DatetimeOfText(date, time, 0) = Text(date, time)
    BY SMT DEF DatetimeOfText
  <2>4. Text(ReadDate(Text(today, t)), ReadTime(Text(today, t))) = Text(today, t)
    BY SMT DEF Text, ReadDate, ReadTime
  <2> QED
    BY <1>3, <2>2, <2>3, <2>4, Zenon
<1> QED
  BY <1>2, <1>3

-----------------------------------------------------------------------------
\* The cutoff of the cull

\* The days of a year before a month, and the month that a day of the year is in.
LEMMA DaysBeforeAre ==
    ASSUME NEW y \in Int
    PROVE  LET leap == IF IsLeap(y) THEN 1 ELSE 0
           IN  /\ DaysBefore(1, y) = 0 /\ DaysBefore(2, y) = 31
               /\ DaysBefore(3, y) = 59 + leap /\ DaysBefore(4, y) = 90 + leap
               /\ DaysBefore(5, y) = 120 + leap /\ DaysBefore(6, y) = 151 + leap
               /\ DaysBefore(7, y) = 181 + leap /\ DaysBefore(8, y) = 212 + leap
               /\ DaysBefore(9, y) = 243 + leap /\ DaysBefore(10, y) = 273 + leap
               /\ DaysBefore(11, y) = 304 + leap /\ DaysBefore(12, y) = 334 + leap
BY SMT DEF DaysBefore

Months == {1, 2, 3, 4, 5, 6, 7, 8, 9, 10, 11, 12}

\* The months of a year follow one another without gap or overlap.
LEMMA MonthEnds ==
    ASSUME NEW y \in Int
    PROVE  /\ \A m \in Months : DaysBefore(m, y) \in Int /\ 0 <= DaysBefore(m, y) /\ DaysIn(m, y) \in Int
           /\ \A m \in Months : m < 12 => DaysBefore(m + 1, y) = DaysBefore(m, y) + DaysIn(m, y)
           /\ \A k, m \in Months : k < m => DaysBefore(k, y) + DaysIn(k, y) <= DaysBefore(m, y)
<1>1. \A m \in Months : DaysIn(m, y)
          = IF m = 2 THEN IF IsLeap(y) THEN 29 ELSE 28 ELSE IF m \in {4, 6, 9, 11} THEN 30 ELSE 31
  BY SMT DEF DaysIn
<1>2. \A m \in Months : DaysBefore(m, y) \in Int /\ 0 <= DaysBefore(m, y) /\ DaysIn(m, y) \in Int
  BY <1>1, DaysBeforeAre, SMT DEF Months
<1>3. \A m \in Months : m < 12 => DaysBefore(m + 1, y) = DaysBefore(m, y) + DaysIn(m, y)
  BY <1>1, DaysBeforeAre, SMT DEF Months
<1>4. \A k, m \in Months : k < m => DaysBefore(k, y) + DaysIn(k, y) <= DaysBefore(m, y)
  BY <1>1, DaysBeforeAre, SMT DEF Months
<1> QED
  BY <1>2, <1>3, <1>4

\* OnDay finds the month and the day of a date from its day of the year.
LEMMA OnDayIs ==
    ASSUME NEW y, NEW m, NEW d, IsDate(y, m, d)
    PROVE  /\ OnDay(DaysBefore(m, y) + d, y) = Date(y, m, d)
           /\ DaysBefore(m, y) + d \in Int /\ 1 <= DaysBefore(m, y) + d
<1> DEFINE n == DaysBefore(m, y) + d
           InMonth(k) == DaysBefore(k, y) < n /\ n <= DaysBefore(k, y) + DaysIn(k, y)
<1>1. m \in Months /\ y \in Int /\ d \in Int /\ 1 <= d /\ d <= DaysIn(m, y)
  <2>1. y \in Int /\ m \in 1 .. 12
    BY SMT DEF IsDate
  <2>2. DaysIn(m, y) \in 28 .. 31
    BY <2>1, DaysInIs
  <2> QED
    BY <2>1, <2>2, SMT DEF IsDate, Months
<1>2. /\ \A k \in Months : DaysBefore(k, y) \in Int /\ 0 <= DaysBefore(k, y) /\ DaysIn(k, y) \in Int
      /\ \A k, l \in Months : k < l => DaysBefore(k, y) + DaysIn(k, y) <= DaysBefore(l, y)
  BY <1>1, MonthEnds
<1>3. n \in Int /\ 1 <= n
  BY <1>1, <1>2, SMT
<1>4. InMonth(m)
  BY <1>1, <1>2, SMT
<1>5. ASSUME NEW k \in Months, InMonth(k)
      PROVE  k = m
  <2>1. /\ DaysBefore(k, y) \in Int /\ DaysIn(k, y) \in Int /\ k \in Int /\ m \in Int
        /\ DaysBefore(m, y) \in Int /\ DaysIn(m, y) \in Int
        /\ k < m => DaysBefore(k, y) + DaysIn(k, y) <= DaysBefore(m, y)
        /\ m < k => DaysBefore(m, y) + DaysIn(m, y) <= DaysBefore(k, y)
    BY <1>1, <1>2, SMT DEF Months
  <2> QED
    BY <1>3, <1>4, <1>5, <2>1, SMT
<1> HIDE DEF InMonth
<1>6. (CHOOSE k \in 1 .. 12 : InMonth(k)) = m
  <2>1. Months = 1 .. 12
    BY SMT DEF Months
  <2> QED
    BY <1>1, <1>4, <1>5, <2>1
<1>7. n - DaysBefore(m, y) = d
  BY <1>1, <1>2, SMT
<1>8. OnDay(n, y) = Date(y, m, n - DaysBefore(m, y))
  BY <1>6 DEF OnDay, InMonth, Date
<1> QED
  BY <1>3, <1>7, <1>8

\* The three ways a page is turned: within a month, a year, or into the next year.
LEMMA TomorrowIs ==
    ASSUME NEW y, NEW m, NEW d, IsDate(y, m, d)
    PROVE  \/ d < DaysIn(m, y) /\ Tomorrow(Date(y, m, d)) = Date(y, m, d + 1)
           \/ d = DaysIn(m, y) /\ m < 12 /\ Tomorrow(Date(y, m, d)) = Date(y, m + 1, 1)
           \/ d = 31 /\ m = 12 /\ Tomorrow(Date(y, m, d)) = Date(y + 1, 1, 1)
<1>1. /\ y \in Int /\ m \in Int /\ 1 <= m /\ m <= 12 /\ d \in Int /\ d <= DaysIn(m, y)
      /\ DaysIn(m, y) \in Int /\ (m = 12 => DaysIn(m, y) = 31)
  <2>1. y \in Int /\ m \in 1 .. 12
    BY SMT DEF IsDate
  <2>2. DaysIn(m, y) \in 28 .. 31 /\ (m = 12 => DaysIn(m, y) = 31)
    BY <2>1, DaysInIs, SMT
  <2> QED
    BY <2>1, <2>2, SMT DEF IsDate
<1>2. CASE d < DaysIn(m, y)
  BY <1>1, <1>2, SMT DEF Tomorrow, Date
<1>3. CASE d = DaysIn(m, y) /\ m < 12
  <2>1. ~ (d < DaysIn(m, y))
    BY <1>1, <1>3, SMT
  <2> QED
    BY <1>3, <2>1, SMT DEF Tomorrow, Date
<1>4. CASE d = DaysIn(m, y) /\ m = 12
  BY <1>1, <1>4, SMT DEF Tomorrow, Date
<1> QED
  BY <1>1, <1>2, <1>3, <1>4, SMT

\* A Calendar set back by a day shows the day before, across months and years.
LEMMA DayBefore ==
    ASSUME NEW y, NEW m, NEW d, IsDate(y, m, d), NEW date, date = Tomorrow(Date(y, m, d))
    PROVE  /\ DayOfYear(date) # 0
           /\ SetDayOfYear(date, DayOfYear(date) - 1) = Date(y, m, d)
<1>1. m \in Months /\ y \in Int /\ d \in Int
  <2>1. y \in Int /\ d \in Int
    BY PartsOfDate
  <2> QED
    BY <2>1, SMT DEF IsDate, Months
<1>2. /\ DaysBefore(m, y) \in Int /\ 0 <= DaysBefore(m, y) /\ DaysIn(m, y) \in Int
      /\ m < 12 => DaysBefore(m + 1, y) = DaysBefore(m, y) + DaysIn(m, y)
  BY <1>1, MonthEnds
<1>3. /\ OnDay(DaysBefore(m, y) + d, y) = Date(y, m, d)
      /\ DaysBefore(m, y) + d \in Int /\ 1 <= DaysBefore(m, y) + d
  BY OnDayIs
<1>4. \A a, b, c : Date(a, b, c).y = a /\ DayOfYear(Date(a, b, c)) = DaysBefore(b, a) + c
  BY SMT DEF DayOfYear, Date
<1>5. ASSUME DayOfYear(date) = DaysBefore(m, y) + d + 1, date.y = y
      PROVE  /\ DayOfYear(date) # 0
             /\ SetDayOfYear(date, DayOfYear(date) - 1) = Date(y, m, d)
  <2>1. DayOfYear(date) # 0 /\ DayOfYear(date) - 1 = DaysBefore(m, y) + d
    BY <1>3, <1>5, SMT
  <2>2. DaysBefore(m, y) + d # 0
    BY <1>3, SMT
  <2> QED
    BY <1>3, <1>5, <2>1, <2>2, Zenon DEF SetDayOfYear
<1>6. CASE d < DaysIn(m, y) /\ date = Date(y, m, d + 1)
  <2>1. DaysBefore(m, y) + (d + 1) = DaysBefore(m, y) + d + 1
    BY <1>1, <1>2, SMT
  <2>2. DayOfYear(Date(y, m, d + 1)) = DaysBefore(m, y) + (d + 1) /\ Date(y, m, d + 1).y = y
    BY <1>4
  <2>3. DayOfYear(date) = DaysBefore(m, y) + d + 1 /\ date.y = y
    BY <1>6, <2>1, <2>2
  <2> QED
    BY <1>5, <2>3
<1>7. CASE d = DaysIn(m, y) /\ m < 12 /\ date = Date(y, m + 1, 1)
  <2>1. DaysBefore(m + 1, y) + 1 = DaysBefore(m, y) + d + 1
    BY <1>2, <1>7
  <2>2. DayOfYear(Date(y, m + 1, 1)) = DaysBefore(m + 1, y) + 1 /\ Date(y, m + 1, 1).y = y
    BY <1>4
  <2>3. DayOfYear(date) = DaysBefore(m, y) + d + 1 /\ date.y = y
    BY <1>7, <2>1, <2>2
  <2> QED
    BY <1>5, <2>3
<1>8. CASE d = 31 /\ m = 12 /\ date = Date(y + 1, 1, 1)
  <2>1. y + 1 \in Int /\ (y + 1) - 1 = y
    BY <1>1, SMT
  <2>2. DaysBefore(1, y + 1) = 0
    BY <2>1, DaysBeforeAre
  <2>3. DayOfYear(date) = 1 /\ date.y = y + 1
    <3>1. /\ DayOfYear(Date(y + 1, 1, 1)) = DaysBefore(1, y + 1) + 1
          /\ Date(y + 1, 1, 1).y = y + 1
      BY <1>4
    <3>2. DaysBefore(1, y + 1) + 1 = 1
      BY <2>2, SMT
    <3> QED
      BY <1>8, <3>1, <3>2
  <2>4. DayOfYear(date) # 0 /\ DayOfYear(date) - 1 = 0
    BY <2>3, SMT
  <2>5. YearLength(y) = DaysBefore(m, y) + d
    BY <1>8 DEF YearLength
  <2> QED
    BY <1>3, <2>1, <2>3, <2>4, <2>5, Zenon DEF SetDayOfYear
<1>9. \/ d < DaysIn(m, y) /\ date = Date(y, m, d + 1)
      \/ d = DaysIn(m, y) /\ m < 12 /\ date = Date(y, m + 1, 1)
      \/ d = 31 /\ m = 12 /\ date = Date(y + 1, 1, 1)
  BY TomorrowIs
<1> QED
  BY <1>6, <1>7, <1>8, <1>9, Zenon

\* Two texts compare number by number.
LEMMA BeforeIs ==
    ASSUME NEW s, NEW t
    PROVE  Before(s, t) <=>
               \/ s[1] < t[1]
               \/ s[1] = t[1] /\ s[2] < t[2]
               \/ s[1] = t[1] /\ s[2] = t[2] /\ s[3] < t[3]
               \/ s[1] = t[1] /\ s[2] = t[2] /\ s[3] = t[3] /\ s[4] < t[4]
               \/ s[1] = t[1] /\ s[2] = t[2] /\ s[3] = t[3] /\ s[4] = t[4] /\ s[5] < t[5]
               \/ /\ s[1] = t[1] /\ s[2] = t[2] /\ s[3] = t[3] /\ s[4] = t[4] /\ s[5] = t[5]
                  /\ s[6] < t[6]
BY SMTT(30) DEF Before

\* A text is not after another of the same date if its time is not, and is after every
\* text of the day before.
NotAfter(s, t) == Before(s, t) \/ s = t
Seconds(time) == 3600 * time.h + 60 * time.m + time.s

\* Within a day texts are as their times are.
LEMMA SameDay ==
    ASSUME NEW y \in Int, NEW m \in Int, NEW d \in Int, NEW t, NEW u, IsTime(t), IsTime(u)
    PROVE  NotAfter(Text(Date(y, m, d), t), Text(Date(y, m, d), u)) <=> Seconds(t) <= Seconds(u)
<1> DEFINE r == Text(Date(y, m, d), t)
           c == Text(Date(y, m, d), u)
<1>1. /\ r[1] = y /\ r[2] = m /\ r[3] = d /\ r[4] = t.h /\ r[5] = t.m /\ r[6] = t.s
      /\ c[1] = y /\ c[2] = m /\ c[3] = d /\ c[4] = u.h /\ c[5] = u.m /\ c[6] = u.s
      /\ r = c <=> (t.h = u.h /\ t.m = u.m /\ t.s = u.s)
  BY SMT DEF Text, Date
<1>2. Before(r, c) <=> \/ t.h < u.h
                       \/ t.h = u.h /\ t.m < u.m
                       \/ t.h = u.h /\ t.m = u.m /\ t.s < u.s
  <2> HIDE DEF r, c
  <2> QED
    BY <1>1, BeforeIs, SMT
<1>3. (\/ t.h < u.h
       \/ t.h = u.h /\ t.m < u.m
       \/ t.h = u.h /\ t.m = u.m /\ t.s < u.s
       \/ t.h = u.h /\ t.m = u.m /\ t.s = u.s) <=> Seconds(t) <= Seconds(u)
  <2>1. PICK h \in Int, i \in Int, j \in Int, a \in Int, b \in Int, e \in Int :
            t.h = h /\ t.m = i /\ t.s = j /\ u.h = a /\ u.m = b /\ u.s = e
    BY DEF IsTime
  <2>2. /\ 0 <= h /\ h <= 23 /\ 0 <= i /\ i <= 59 /\ 0 <= j /\ j <= 59
        /\ 0 <= a /\ a <= 23 /\ 0 <= b /\ b <= 59 /\ 0 <= e /\ e <= 59
    BY <2>1, SMT DEF IsTime
  <2>3. Seconds(t) = 3600 * h + 60 * i + j /\ Seconds(u) = 3600 * a + 60 * b + e
    BY <2>1, SMT DEF Seconds
  <2>4. (\/ h < a
         \/ h = a /\ i < b
         \/ h = a /\ i = b /\ j < e
         \/ h = a /\ i = b /\ j = e) <=> 3600 * h + 60 * i + j <= 3600 * a + 60 * b + e
    BY <2>2, SMT
  <2> QED
    BY <2>1, <2>3, <2>4
<1> HIDE DEF r, c
<1>4. NotAfter(r, c) <=> Seconds(t) <= Seconds(u)
  BY <1>1, <1>2, <1>3, Zenon DEF NotAfter
<1> QED
  BY <1>4 DEF r, c

\* A text is after every text of the day before, and no day is its own tomorrow.
LEMMA LaterDay ==
    ASSUME NEW y, NEW m, NEW d, IsDate(y, m, d), NEW t, NEW u
    PROVE  /\ ~ NotAfter(Text(Tomorrow(Date(y, m, d)), t), Text(Date(y, m, d), u))
           /\ Tomorrow(Date(y, m, d)) # Date(y, m, d)
<1>1. y \in Int /\ m \in Int /\ d \in Int
  BY PartsOfDate
<1>2. ASSUME NEW a \in Int, NEW b \in Int, NEW c \in Int,
             \/ a > y
             \/ a = y /\ b > m
             \/ a = y /\ b = m /\ c > d
      PROVE  /\ ~ NotAfter(Text(Date(a, b, c), t), Text(Date(y, m, d), u))
             /\ Date(a, b, c) # Date(y, m, d)
  <2> DEFINE r == Text(Date(a, b, c), t)
             o == Text(Date(y, m, d), u)
  <2>1. /\ r[1] = a /\ r[2] = b /\ r[3] = c /\ o[1] = y /\ o[2] = m /\ o[3] = d
        /\ Date(a, b, c) = Date(y, m, d) => a = y /\ b = m /\ c = d
    BY SMT DEF Text, Date
  <2> HIDE DEF r, o
  <2>2. ~ Before(r, o)
    BY <1>1, <1>2, <2>1, BeforeIs, SMT
  <2>3. r # o /\ Date(a, b, c) # Date(y, m, d)
    BY <1>1, <1>2, <2>1, SMT
  <2> QED
    BY <2>2, <2>3, Zenon DEF NotAfter, r, o
<1>3. CASE Tomorrow(Date(y, m, d)) = Date(y, m, d + 1)
  <2>1. d + 1 \in Int /\ d + 1 > d
    BY <1>1, SMT
  <2> QED
    BY <1>1, <1>2, <1>3, <2>1, Zenon
<1>4. CASE Tomorrow(Date(y, m, d)) = Date(y, m + 1, 1)
  <2>1. m + 1 \in Int /\ m + 1 > m /\ 1 \in Int
    BY <1>1, SMT
  <2> QED
    BY <1>1, <1>2, <1>4, <2>1, Zenon
<1>5. CASE Tomorrow(Date(y, m, d)) = Date(y + 1, 1, 1)
  <2>1. y + 1 \in Int /\ y + 1 > y /\ 1 \in Int
    BY <1>1, SMT
  <2> QED
    BY <1>1, <1>2, <1>5, <2>1, Zenon
<1>6. \/ Tomorrow(Date(y, m, d)) = Date(y, m, d + 1)
      \/ Tomorrow(Date(y, m, d)) = Date(y, m + 1, 1)
      \/ Tomorrow(Date(y, m, d)) = Date(y + 1, 1, 1)
  BY TomorrowIs
<1> QED
  BY <1>3, <1>4, <1>5, <1>6, Zenon

\* The invariant implies the cull's property.
LEMMA TurnedCutoff ==
    ASSUME Turned
    PROVE  DayOldAreSelected
<1>1. PICK k, l, n, y, m, d : Days(k, l, n, y, m, d)
  BY TodayIsDate, Zenon
<1>2. IsDate(k, l, n) /\ yesterday = Date(k, l, n) /\ today = Tomorrow(Date(k, l, n))
  BY <1>1, Zenon DEF Days
<1>3. SUFFICES ASSUME NEW t \in Times, NEW u \in Times, NEW day \in {yesterday, today}
               PROVE  NotAfter(DatetimeOfText(day, t, 0), Cutoff(today, u)) <=>
                          day = yesterday /\ Seconds(t) <= Seconds(u)
  BY DEF DayOldAreSelected, NotAfter, Seconds
<1>4. IsTime(t) /\ IsTime(u)
  BY TimesAndZones, Zenon
<1>5. DatetimeOfText(day, t, 0) = Text(day, t)
  BY SMT DEF DatetimeOfText
<1>6. Cutoff(today, u) = Text(Date(k, l, n), u)
  <2>1. /\ DayOfYear(today) # 0
        /\ SetDayOfYear(today, DayOfYear(today) - 1) = Date(k, l, n)
    BY <1>2, DayBefore
  <2> QED
    BY <2>1, Zenon DEF Cutoff
<1>7. CASE day = yesterday
  <2>1. k \in Int /\ l \in Int /\ n \in Int
    BY <1>2, PartsOfDate
  <2>2. NotAfter(Text(Date(k, l, n), t), Text(Date(k, l, n), u)) <=> Seconds(t) <= Seconds(u)
    BY <1>4, <2>1, SameDay
  <2> QED
    BY <1>2, <1>5, <1>6, <1>7, <2>2, Zenon
<1>8. CASE day = today
  <2>1. /\ ~ NotAfter(Text(Tomorrow(Date(k, l, n)), t), Text(Date(k, l, n), u))
        /\ Tomorrow(Date(k, l, n)) # Date(k, l, n)
    BY <1>2, LaterDay, Zenon
  <2> QED
    BY <1>2, <1>5, <1>6, <1>8, <2>1, Zenon
<1> QED
  BY <1>7, <1>8

-----------------------------------------------------------------------------
\* A text with a time zone is taken to Greenwich and back without loss.
THEOREM ZonesDoCancel == Spec => []ZonesCancel
BY CalendarTurns, TurnedZones, PTL

\* The whole number of a day is its noon, up to the last day of the year 9999.
THEOREM NumbersAreDays == Spec => []NumbersAreNoons
BY CalendarTurns, TurnedNumbers, PTL

\* The cutoff of the cull selects the rows that are a day old and no others.
THEOREM CullSelectsDayOld == Spec => []DayOldAreSelected
BY CalendarTurns, TurnedCutoff, PTL
=============================================================================
