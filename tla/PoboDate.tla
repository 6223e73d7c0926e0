------------------------------- MODULE PoboDate -------------------------------
(***************************************************************************)
(* pobo::Date of CommonTools/PoboDate.h: year, month, day and the cached   *)
(* number of days, moved by += and -=.                                     *)
(***************************************************************************)
EXTENDS Integers

\* The mutant takes the year for one that begins in January.
ToDaysJanuaryYear(year, month, day) ==
    LET m == (month + 9) % 12
        y == year
    IN y * 365 + y \div 4 - y \div 100 + y \div 400 + (m * 306 + 5) \div 10 + (day - 1)

\* Years begin in March here: March is month 0 and February is month 11.
to_days(year, month, day) ==
    LET m == (month + 9) % 12
        y == year - m \div 10
    IN y * 365 + y \div 4 - y \div 100 + y \div 400 + (m * 306 + 5) \div 10 + (day - 1)

\* The constructor Date(year, month, day).
MakeDate(year, month, day) ==
    [m_year |-> year, m_month |-> month, m_day |-> day, m_days |-> to_days(year, month, day)]

\* Days before March of year y.
BeforeYear(y) == y * 365 + y \div 4 - y \div 100 + y \div 400

\* (10000 * days + 14780) / 3652425, which the code computes in 64 bits.  Whole
\* periods of 400 years (146097 days) are taken out first, which changes
\* nothing and keeps the model's numbers small.
YearGuess(days) ==
    400 * (days \div 146097) + (10000 * (days % 146097) + 14780) \div 3652425

\* The mutant does without the correction of a guess one year too late.
FromDaysNoCorrection(days) ==
    LET y   == YearGuess(days)
        ddd == days - BeforeYear(y)
        mi  == (52 + 100 * ddd) \div 3060
    IN [m_year |-> y + (mi + 2) \div 12, m_month |-> ((mi + 2) % 12) + 1,
        m_day |-> ddd - (mi * 306 + 5) \div 10 + 1, m_days |-> days]

\* The mutant numbers the months from 0.
FromDaysMonthFromZero(days) ==
    LET guess == YearGuess(days)
        y   == IF days < BeforeYear(guess) THEN guess - 1 ELSE guess
        ddd == days - BeforeYear(y)
        mi  == (52 + 100 * ddd) \div 3060
    IN [m_year |-> y + (mi + 2) \div 12, m_month |-> (mi + 2) % 12,
        m_day |-> ddd - (mi * 306 + 5) \div 10 + 1, m_days |-> days]

from_days(days) ==
    LET guess == YearGuess(days)
        y   == IF days < BeforeYear(guess) THEN guess - 1 ELSE guess
        ddd == days - BeforeYear(y)
        mi  == (52 + 100 * ddd) \div 3060
    IN [m_year |-> y + (mi + 2) \div 12, m_month |-> ((mi + 2) % 12) + 1,
        m_day |-> ddd - (mi * 306 + 5) \div 10 + 1, m_days |-> days]

Plus(date, days)  == from_days(date.m_days + days)      \* operator+, operator+=
Minus(date, days) == from_days(date.m_days - days)      \* operator-, operator-=

\* The copy by operator= counts the days again.
Assign(date) == MakeDate(date.m_year, date.m_month, date.m_day)

\* Date(const char *) reads the digits YYYYMMDD, and to_string prints them.
ParseDate(digits)  == MakeDate(digits \div 10000, (digits \div 100) % 100, digits % 100)
to_string(date)    == date.m_year * 10000 + date.m_month * 100 + date.m_day

is_leap_year(date) == date.m_year % 4 = 0 /\ (date.m_year % 100 # 0 \/ date.m_year % 400 = 0)
this_year_days(date) == 365 + IF is_leap_year(date) THEN 1 ELSE 0

\* operator- of two dates, operator> and operator==, which compare the cached numbers.
Difference(date, other) == date.m_days - other.m_days
Later(date, other)      == date.m_days > other.m_days
Same(date, other)       == date.m_days = other.m_days
===============================================================================
