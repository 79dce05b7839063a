------------------------------ MODULE DateTime ------------------------------
(***************************************************************************)
(* The dates of the cull: the cutoff CRUM.cullDatabase takes from a Java   *)
(* Calendar, and SQLite's DATETIME, whose value it is compared with.       *)
(*                                                                         *)
(* The reference is a calendar that is turned one day at a time and counts *)
(* the days; what the code computes for a day must be what it shows.       *)
(* A text is the tuple of its numbers: each is written with a fixed number *)
(* of digits, so two texts compare as their tuples do.  A DateTime.iJD,    *)
(* milliseconds since a noon, is the pair of its whole days and the rest.  *)
(***************************************************************************)
EXTENDS Integers, Sequences

CONSTANTS
    FirstDays,  \* the days the calendar may start from, [date, number]
    Years,      \* bound: the years of the calendar
    Times,      \* times of the day, [h, m, s, ms]
    Zones       \* time zones, in minutes

\* The leap years up to y, and the Julian day number of the first day of y, counted
\* from that of the year 2000.
Leaps(y) == y \div 4 - y \div 100 + y \div 400
NumberOfYear(y) == 2451545 + 365 * (y - 2000) + Leaps(y - 1) - Leaps(1999)

\* Years that a clock shows and that DATETIME has a date for; parseTimezone takes
\* zones of less than fifteen hours.
ASSUME Calendars ==
    /\ Years \subseteq 1970 .. 9999
    /\ FirstDays \subseteq {[date |-> [y |-> y, m |-> 1, d |-> 1], number |-> NumberOfYear(y)]
                                : y \in Years}
    /\ Times \subseteq [h : 0 .. 23, m : 0 .. 59, s : 0 .. 59, ms : 0 .. 999]
    /\ Zones \subseteq -899 .. 899

LastDay == 5373484
MsPerDay == 86400000
MsPerHalfDay == 43200000

\* C's integer division, which rounds towards zero.
Quotient(a, b) == IF a >= 0 THEN a \div b ELSE - ((- a) \div b)

\* A DateTime.iJD of d days and ms milliseconds.
IJD(d, ms) == <<d + ms \div MsPerDay, ms % MsPerDay>>

-----------------------------------------------------------------------------
\* SQLite

\* A faulty variant: January and February count with their own year.
ComputeJDPlain(date, time) ==
    LET A == Quotient(date.y, 100)
        B == 2 - A + Quotient(A, 4)
        X1 == Quotient(36525 * (date.y + 4716), 100)
        X2 == Quotient(306001 * (date.m + 1), 10000)
    IN  IJD(X1 + X2 + date.d + B - 1525,
            MsPerHalfDay + 3600000 * time.h + 60000 * time.m + 1000 * time.s + time.ms)

ComputeJD(date, time) ==
    LET early == date.m <= 2
        Y == IF early THEN date.y - 1 ELSE date.y
        M == IF early THEN date.m + 12 ELSE date.m
        A == Quotient(Y, 100)
        B == 2 - A + Quotient(A, 4)
        X1 == Quotient(36525 * (Y + 4716), 100)
        X2 == Quotient(306001 * (M + 1), 10000)
    IN  IJD(X1 + X2 + date.d + B - 1525,
            MsPerHalfDay + 3600000 * time.h + 60000 * time.m + 1000 * time.s + time.ms)

\* The quotients of doubles, with their operands multiplied up to integers.
ComputeYMD(iJD) ==
    LET Z == IJD(iJD[1], iJD[2] + MsPerHalfDay)[1]
        a == Quotient(4 * Z - 7468865, 146097)
        A == Z + 1 + a - Quotient(a, 4)
        B == A + 1524
        C == Quotient(20 * B - 2442, 7305)
        D == Quotient(36525 * (C % 32768), 100)
        E == Quotient(10000 * (B - D), 306001)
        M == IF E < 14 THEN E - 1 ELSE E - 13
    IN  [y |-> IF M > 2 THEN C - 4716 ELSE C - 4715,
         m |-> M,
         d |-> B - D - Quotient(306001 * E, 10000)]

ComputeHMS(iJD) ==
    LET ms == IJD(iJD[1], iJD[2] + MsPerHalfDay)[2]
        s == ms \div 1000
    IN  [h |-> s \div 3600, m |-> (s % 3600) \div 60, s |-> s % 60, ms |-> ms % 1000]

Text(date, time) == <<date.y, date.m, date.d, time.h, time.m, time.s>>
Null == <<>>

\* Of a Julian day in range; the year 10000 begins in the middle of the last.
DatetimeOf(iJD) ==
    IF 0 <= iJD[1] /\ (iJD[1] < LastDay \/ (iJD[1] = LastDay /\ iJD[2] < MsPerHalfDay))
    THEN Text(ComputeYMD(iJD), ComputeHMS(iJD))
    ELSE Null

\* Of a text with its time zone, in minutes.  Without one the numbers stay valid and
\* are written as they were read.
DatetimeOfText(date, time, tz) ==
    LET iJD == ComputeJD(date, time)
    IN  IF tz = 0 THEN Text(date, time) ELSE DatetimeOf(IJD(iJD[1], iJD[2] - 60000 * tz))

\* A faulty variant: the range of Julian days ends a day late.
DatetimeOfNumberLate(r) ==
    IF r \in 0 .. LastDay + 1
    THEN Text(ComputeYMD(<<r, 0>>), ComputeHMS(<<r, 0>>))
    ELSE Null

\* Of a whole number: below 5373484.5 it is a Julian day, any other leaves rawS set
\* and the number is no date.
DatetimeOfNumber(r) == IF r \in 0 .. LastDay THEN DatetimeOf(<<r, 0>>) ELSE Null

-----------------------------------------------------------------------------
\* CRUM.cullDatabase

IsLeap(y) == y % 4 = 0 /\ (y % 100 # 0 \/ y % 400 = 0)
DaysIn(m, y) ==
    IF m = 2 THEN IF IsLeap(y) THEN 29 ELSE 28
    ELSE IF m \in {4, 6, 9, 11} THEN 30
    ELSE 31

\* The days of a year before its month m, and the date of its n-th day.
DaysBefore(m, y) ==
    <<0, 31, 59, 90, 120, 151, 181, 212, 243, 273, 304, 334>>[m]
        + (IF m > 2 /\ IsLeap(y) THEN 1 ELSE 0)
DayOfYear(date) == DaysBefore(date.m, date.y) + date.d
YearLength(y) == DaysBefore(12, y) + 31

OnDay(n, y) ==
    LET m == CHOOSE k \in 1 .. 12 : DaysBefore(k, y) < n /\ n <= DaysBefore(k, y) + DaysIn(k, y)
    IN  [y |-> y, m |-> m, d |-> n - DaysBefore(m, y)]

\* A Calendar is lenient: day 0 of a year is the last of the year before.
SetDayOfYear(date, n) ==
    IF n = 0 THEN OnDay(YearLength(date.y - 1), date.y - 1) ELSE OnDay(n, date.y)

\* A faulty variant: the year is set back, and the day then counted from its own.
CutoffYearBack(date, time) ==
    Text(IF DayOfYear(date) = 1
         THEN OnDay(DayOfYear(date), date.y - 1)
         ELSE SetDayOfYear(date, DayOfYear(date) - 1), time)

\* The branch for day 0 is never taken: days are counted from 1.
Cutoff(date, time) ==
    Text(IF DayOfYear(date) = 0
         THEN SetDayOfYear([date EXCEPT !.y = @ - 1], YearLength(date.y - 1))
         ELSE SetDayOfYear(date, DayOfYear(date) - 1), time)

-----------------------------------------------------------------------------
\* The reference calendar

VARIABLES
    today,      \* the date
    number,     \* its Julian day number: the days counted so far
    yesterday   \* the date before

vars == <<today, number, yesterday>>

Tomorrow(date) ==
    IF date.d < DaysIn(date.m, date.y) THEN [date EXCEPT !.d = @ + 1]
    ELSE IF date.m < 12 THEN [y |-> date.y, m |-> date.m + 1, d |-> 1]
    ELSE [y |-> date.y + 1, m |-> 1, d |-> 1]

\* Every start is the first day of a year.
Init ==
    \E f \in FirstDays :
        /\ today = f.date
        /\ number = f.number
        /\ yesterday = [y |-> f.date.y - 1, m |-> 12, d |-> 31]

TurnPage ==
    /\ Tomorrow(today).y \in Years
    /\ today' = Tomorrow(today)
    /\ number' = number + 1
    /\ yesterday' = today

Next == TurnPage

Spec == Init /\ [][Next]_vars

-----------------------------------------------------------------------------
\* Properties

\* How two texts compare.
Before(s, t) ==
    \E k \in 1 .. 6 : s[k] < t[k] /\ \A j \in 1 .. k - 1 : s[j] = t[j]

\* A text that DATETIME takes from one time zone to Greenwich and back from the
\* opposite one is what it was, to the second: neither the noon a Julian day begins
\* with nor the end of a month or year gets in between.
ZonesCancel ==
    \A t \in Times, tz \in Zones :
        LET there == DatetimeOfText(today, t, tz)
            back == DatetimeOfText([y |-> there[1], m |-> there[2], d |-> there[3]],
                                   [h |-> there[4], m |-> there[5], s |-> there[6], ms |-> 0],
                                   - tz)
        IN  there # Null => back = Text(today, t)

\* A whole number is the noon of the day that has been counted to it, and beyond the
\* last day of the year 9999 there is none.
NumbersAreNoons ==
    /\ DatetimeOfNumber(number) = Text(today, [h |-> 12, m |-> 0, s |-> 0, ms |-> 0])
    /\ today = [y |-> 9999, m |-> 12, d |-> 31] => DatetimeOfNumber(number + 1) = Null

\* Were the time stamps texts, the cull would delete a row exactly when it is a day
\* old: on the first of January too, where the branch written for it is not the one
\* that is taken.
DayOldAreSelected ==
    \A t, u \in Times, day \in {yesterday, today} :
        LET row == DatetimeOfText(day, t, 0)
            cutoff == Cutoff(today, u)
        IN  (Before(row, cutoff) \/ row = cutoff) <=>
                /\ day = yesterday
                /\ 3600 * t.h + 60 * t.m + t.s <= 3600 * u.h + 60 * u.m + u.s
=============================================================================
