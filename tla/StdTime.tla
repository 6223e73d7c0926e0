-------------------------------- MODULE StdTime --------------------------------
(***************************************************************************)
(* The functions of CommonTools/STD.cc and STD.h that read the clock and   *)
(* that print and read dates (YYYYMMDD) and times (HHMMSS, HHMMSSmmm).     *)
(*                                                                         *)
(* A time_t is represented by the struct tm that localtime makes of it and *)
(* mktime turns back, with UTC as the local time.  A printed text is a     *)
(* sequence of numbers, each with the character behind it, "" at the end;  *)
(* widths and leading zeros, which atoi does not see, are left out, and    *)
(* buffers are large enough.                                               *)
(***************************************************************************)
EXTENDS Integers, Sequences, FiniteSetsExt

Tm(y, m, d, time) ==
    [tm_year |-> y - 1900, tm_mon |-> m - 1, tm_mday |-> d,
     tm_hour |-> time \div 10000, tm_min |-> (time \div 100) % 100, tm_sec |-> time % 100]

Epoch == Tm(1970, 1, 1, 0)

\* A time value of 0 asks for the current time.
When(timevalue, now) == IF timevalue = Epoch THEN now ELSE timevalue

GetDate(timevalue, now) ==
    LET newtime == When(timevalue, now)
    IN 10000 * (newtime.tm_year + 1900) + 100 * (newtime.tm_mon + 1) + newtime.tm_mday

GetTime(timevalue, now) ==
    LET newtime == When(timevalue, now)
    IN 10000 * newtime.tm_hour + 100 * newtime.tm_min + newtime.tm_sec

\* The same numbers from gmtime.
GetUTCDateTime(now) ==
    <<(now.tm_year + 1900) * 10000 + (now.tm_mon + 1) * 100 + now.tm_mday,
      now.tm_hour * 10000 + now.tm_min * 100 + now.tm_sec>>

GetDateTime(timevalue, now) == <<GetDate(timevalue, now), GetTime(timevalue, now)>>

-------------------------------------------------------------------------------
\* The number at the start of the num-th of the fields that ch separates.
GetValueInt(s, num, ch) ==
    LET starts == {1} \cup {i + 1 : i \in {j \in DOMAIN s : s[j].then = ch}}
        first  == {i \in starts : Cardinality({j \in starts : j < i}) = num - 1}
    IN IF first = {} THEN 0 ELSE s[CHOOSE i \in first : TRUE].n

\* yyyymmdd-hhmmss, no year before 1900.
GetSeconds(times) ==
    LET days == GetValueInt(times, 1, "-")
        tm   == Tm(days \div 10000, (days \div 100) % 100, days % 100, GetValueInt(times, 2, "-"))
    IN [tm EXCEPT !.tm_year = IF @ < 0 THEN 0 ELSE @]

GetDateTimeFromStringByDiv(s, div) ==
    IF \E i \in DOMAIN s : s[i].then = div
    THEN GetValueInt(s, 1, div) * 10000 + GetValueInt(s, 2, div) * 100 + GetValueInt(s, 3, div)
    ELSE 0

\* The separators in the order in which the code looks for them.
Dividers == <<"/", "\\", "-", ":", ".">>

GetDateTimeFromString(s) ==
    LET found == {k \in DOMAIN Dividers : \E i \in DOMAIN s : s[i].then = Dividers[k]}
    IN IF found = {} THEN s[1].n ELSE GetDateTimeFromStringByDiv(s, Dividers[Min(found)])

-------------------------------------------------------------------------------
\* a, b and c with div between them.
Spelled(a, b, c, div) == <<[n |-> a, then |-> div], [n |-> b, then |-> div], [n |-> c, then |-> ""]>>

\* A bug: times with milliseconds are taken for times of a day.
PartsOfSeconds(time) == <<(time \div 10000) % 100, (time \div 100) % 100, time % 100>>

\* Hours, minutes and seconds, from a number whose size tells its unit.
Parts(time) ==
    CASE time > 10000000 -> <<time \div 10000000, (time \div 100000) % 100, (time \div 1000) % 100>>
      [] time > 1000000 /\ time < 10000000 ->
           <<time \div 100000, (time \div 10000) % 100, (time \div 100) % 100>>
      [] time = 10000000 -> <<time \div 100000, (time \div 1000) % 100, (time \div 10) % 100>>
      [] OTHER -> <<(time \div 10000) % 100, (time \div 100) % 100, time % 100>>

FormatTime(time) == LET p == Parts(time) IN Spelled(p[1], p[2], p[3], ":")

\* The same without separators: six digits, more from a hundred hours on.
FormatTimeINT(time) == LET p == Parts(time) IN <<[n |-> p[1] * 10000 + p[2] * 100 + p[3], then |-> ""]>>

FormatDate(date) ==
    IF date = 0 THEN << >> ELSE Spelled(date \div 10000, (date \div 100) % 100, date % 100, "-")

\* The forms that take a text and print it again.
FormatTimeText(s)     == FormatTime(GetDateTimeFromString(s))
FormatTimeToString(s) == FormatTimeINT(GetDateTimeFromString(s))
FormatDateText(s)     == FormatDate(GetDateTimeFromString(s))

FormateDateTime(date, time) ==
    IF date = 0 THEN << >> ELSE [FormatDate(date) EXCEPT ![3].then = " "] \o FormatTime(time)

\* Nothing at the epoch and before it.
GetTimeString(t) ==
    IF t.tm_year < 70 \/ t = Epoch THEN << >>
    ELSE [Spelled(t.tm_year + 1900, t.tm_mon + 1, t.tm_mday, "-") EXCEPT ![3].then = " "]
            \o Spelled(t.tm_hour, t.tm_min, t.tm_sec, ":")
===============================================================================
