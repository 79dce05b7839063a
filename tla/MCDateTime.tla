----------------------------- MODULE MCDateTime -----------------------------
EXTENDS DateTime, FiniteSets

\* The time CRUM may see, and the last that DATETIME knows: with a century that is a
\* leap year, and two that are not.
MCYears == 1970 .. 2101 \cup 9870 .. 9999

\* 400 years have 146097 days.
MCFirstDays ==
    {[date |-> [y |-> y, m |-> 1, d |-> 1],
      number |-> 2451545 + 146097 * ((y - 2000) \div 400)
                 + 365 * (y % 400) + Cardinality({k \in 0 .. (y % 400) - 1 : IsLeap(k)})]
        : y \in MCYears}

MCTimes ==
    {[h |-> 0, m |-> 0, s |-> 0, ms |-> 0], [h |-> 11, m |-> 59, s |-> 59, ms |-> 999],
     [h |-> 12, m |-> 0, s |-> 0, ms |-> 0], [h |-> 23, m |-> 59, s |-> 59, ms |-> 999]}

MCZones == {-839, -60, 60, 840}
=============================================================================
