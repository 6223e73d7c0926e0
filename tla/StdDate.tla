-------------------------------- MODULE StdDate --------------------------------
(***************************************************************************)
(* The date functions of CommonTools/STD.cc.  A date is the number         *)
(* YYYYMMDD, as in the code.                                               *)
(***************************************************************************)
EXTENDS Integers, FiniteSetsExt

Year(rq)  == rq \div 10000
Month(rq) == (rq \div 100) % 100
Day(rq)   == rq % 100

\* The parameter is called date in the code; every caller passes the year.
IsRunnian(year) ==
    \/ year % 4 = 0 /\ year % 100 # 0
    \/ year % 400 = 0

\* The table each function keeps or rebuilds, month 1 being January.
days_of_mon(year) ==
    <<31, IF IsRunnian(year) THEN 29 ELSE 28, 31, 30, 31, 30, 31, 31, 30, 31, 30, 31>>

-------------------------------------------------------------------------------
getnextdate(rq) ==
    IF Day(rq) < days_of_mon(Year(rq))[Month(rq)] THEN rq + 1
    ELSE IF Month(rq) < 12 THEN Year(rq) * 10000 + 100 * (Month(rq) + 1) + 1
    ELSE (Year(rq) + 1) * 10000 + 101

getpreviousrq(rq) ==
    IF Day(rq) > 1 THEN rq - 1
    ELSE IF Month(rq) > 1
         THEN Year(rq) * 10000 + 100 * (Month(rq) - 1) + days_of_mon(Year(rq))[Month(rq) - 1]
         ELSE (Year(rq) - 1) * 10000 + 1231

-------------------------------------------------------------------------------
\* What a loop has added up after n rounds, of which round k adds term[k].
SumTo(term, n) ==
    LET total[k \in 0..n] == IF k = 0 THEN 0 ELSE total[k - 1] + term[k]
    IN total[n]

days_of_year(year, mon, day) == SumTo(days_of_mon(year), mon - 1) + day

YearLength(year) == IF IsRunnian(year) THEN 366 ELSE 365

DayOfYear(rq) == days_of_year(Year(rq), Month(rq), Day(rq))

\* The days of the whole years between two years.
YearsBetween(first, last) ==
    SumTo([i \in 1 .. last - first - 1 |-> YearLength(first + i)], last - first - 1)

\* Both ends are counted, and the sign is that of startrq <= endrq.
days_num(startrq, endrq) ==
    LET from == IF startrq > endrq THEN endrq ELSE startrq
        to   == IF startrq > endrq THEN startrq ELSE endrq
        sign == IF startrq > endrq THEN -1 ELSE 1
        days == IF Year(from) = Year(to) THEN DayOfYear(to) - DayOfYear(from) + 1
                ELSE DayOfYear(to) + (YearLength(Year(from)) - DayOfYear(from)) + 1
                     + YearsBetween(Year(from), Year(to))
    IN days * sign

\* now is GetDate(time(NULL)), which a second argument of 0 stands for.
DateMinus(date1, date2, now) == days_num(date1, IF date2 = 0 THEN now ELSE date2)

getweek(date) == IF date < 19800101 THEN 2 ELSE days_num(19800101, date) + 1

-------------------------------------------------------------------------------
\* GetOtherDay's loops run over the months from January of the date's year on,
\* or from December of the year before it back.  Month k of year y, counted from
\* 0, may lie in a later or an earlier year.
YearOf(y, k)  == y + k \div 12
Length(y, k)  == days_of_mon(YearOf(y, k))[(k % 12) + 1]
Elapsed(y, k) == SumTo([j \in 1..k |-> Length(y, j - 1)], k)     \* k months forward
Rewound(y, k) == SumTo([j \in 1..k |-> Length(y, -j)], k)        \* k months back

\* A span of less than a year reaches at most this many months away.
Reach == 25

\* nend days after the last day of the year before y: the loop always takes
\* January off before it looks at what is left, and a value below 31 is taken
\* for a day of the December before.
\* The mutant stops a month late when what is left is a whole month.
AheadWholeMonth(y, nend) ==
    IF nend < 31 THEN (y - 1) * 10000 + 1200 + nend
    ELSE LET k == Min({j \in 1 .. Reach : nend - Elapsed(y, j) < Length(y, j)})
         IN YearOf(y, k) * 10000 + ((k % 12) + 1) * 100 + (nend - Elapsed(y, k))

Ahead(y, nend) ==
    IF nend < 31 THEN (y - 1) * 10000 + 1200 + nend
    ELSE LET k == Min({j \in 1 .. Reach : nend - Elapsed(y, j) <= Length(y, j)})
         IN YearOf(y, k) * 10000 + ((k % 12) + 1) * 100 + (nend - Elapsed(y, k))

\* When the loop stops at January its index has already been set back to 12 and
\* the year moved, so the month is printed as 13 of the year before.
Back(y, nend) ==
    LET k == Min({j \in 1 .. Reach : Rewound(y, j) + nend >= 0})
        day == Rewound(y, k) + nend
    IN IF k % 12 = 0 THEN (YearOf(y, -k) - 1) * 10000 + 1300 + day
       ELSE YearOf(y, -k) * 10000 + (((-k) % 12) + 1) * 100 + day

GetOtherDay(date, nSpan) ==
    LET nend == DayOfYear(date) + nSpan
    IN IF nend >= 0 THEN Ahead(Year(date), nend) ELSE Back(Year(date), nend)
===============================================================================
