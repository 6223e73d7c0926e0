------------------------------ MODULE MCDateWalk ------------------------------
EXTENDS DateWalk

\* Starts in a common, a leap, a non-leap century and a pre-1980 year.
MCStarts == {t \in DatesOf({1900, 1979, 2000, 2023}) :
               t.d = 1 \/ t.d = LastDay(t.y, t.m)}
===============================================================================
