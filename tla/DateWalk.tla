------------------------------- MODULE DateWalk -------------------------------
(***************************************************************************)
(* A caller walks day by day through the calendar, forward and back, with  *)
(* STD's YYYYMMDD dates (rq) and with a pobo::Date (obj).  The calendar    *)
(* itself (today) walks along, so that every property compares what the    *)
(* code computed with where the walk really is.                            *)
(***************************************************************************)
EXTENDS Calendar, StdDate, StdTime, PoboDate

CONSTANTS Starts,    \* the dates a walk starts from
          MaxWalk    \* the most days it goes away from the start

\* A YYYYMMDD date has four digits for the year.
MinYear == 1
MaxYear == 9999

ASSUME StartsAssumption == Starts \subseteq DatesOf(MinYear .. MaxYear)
ASSUME MaxWalkAssumption == MaxWalk \in Nat

VARIABLES start,     \* where the walk started
          today,     \* where it is, by the calendar
          walked,    \* how many days away that is
          rq,        \* the program's YYYYMMDD date
          obj        \* the program's pobo::Date

vars == <<start, today, walked, rq, obj>>

Rq(t)  == t.y * 10000 + t.m * 100 + t.d
Obj(t) == MakeDate(t.y, t.m, t.d)

Init ==
    /\ start \in Starts
    /\ today = start
    /\ walked = 0
    /\ rq = Rq(start)
    /\ obj = Obj(start)

Forward ==
    /\ walked < MaxWalk
    /\ Tomorrow(today).y <= MaxYear
    /\ today' = Tomorrow(today)
    /\ walked' = walked + 1
    /\ rq' = getnextdate(rq)
    /\ obj' = Plus(obj, 1)
    /\ UNCHANGED start

Backward ==
    /\ walked > -MaxWalk
    /\ Yesterday(today).y >= MinYear
    /\ today' = Yesterday(today)
    /\ walked' = walked - 1
    /\ rq' = getpreviousrq(rq)
    /\ obj' = Minus(obj, 1)
    /\ UNCHANGED start

Next == Forward \/ Backward

Spec == Init /\ [][Next]_vars

-------------------------------------------------------------------------------
\* Every value is a date; the object's fields are those of a date.
TypeOK ==
    /\ start \in Starts
    /\ today \in DatesOf(MinYear .. MaxYear)
    /\ walked \in -MaxWalk .. MaxWalk
    /\ rq \in Int
    /\ obj \in [m_year : Int, m_month : 1..12, m_day : 1..31, m_days : Int]

\* getnextdate and getpreviousrq go where the calendar goes, through month
\* ends, leap days and year ends, and undo each other.
WalkAgrees == rq = Rq(today)

\* += 1 and -= 1 keep year, month, day and the cached count of days in step
\* with one another and with the calendar.
ObjectAgrees == obj = Obj(today)

\* The program's two calendars and the real one stay together.
CalendarAgrees == WalkAgrees /\ ObjectAgrees

\* One jump of n days lands where n steps of a day do, jumping back returns, and
\* the difference and the order of two dates are those of the walk.  A date that
\* is copied or goes through text and back is the same date.
JumpLands ==
    /\ Plus(Obj(start), walked) = Obj(today)
    /\ Minus(obj, walked) = Obj(start)
    /\ Difference(obj, Obj(start)) = walked
    /\ Later(obj, Obj(start)) <=> walked > 0
    /\ Same(obj, Obj(start)) <=> walked = 0
    /\ Assign(obj) = obj /\ ParseDate(to_string(obj)) = obj

\* What the code of DateMinus and days_num does, which is not what their comments
\* say (DateMinusIsDifference, below): they count the days of the walk, both ends
\* included, with a sign that is positive when the second date is the later one or
\* the same; a second date of 0 stands for the current date.  getweek, which
\* counts from a fixed day with days_num, relies on it: from 1980 on it names the
\* day of the week modulo 7 (Sunday 0).  The object's length of the year is the
\* number of its last day.
DateMinusCounts ==
    LET days == IF walked >= 0 THEN walked + 1 ELSE walked - 1
    IN /\ DateMinus(Rq(start), rq, Rq(today)) = days
       /\ DateMinus(Rq(start), 0, Rq(today)) = days
       /\ rq >= 19800101 => getweek(rq) % 7 = Weekday(today)
       /\ this_year_days(obj) = days_of_year(today.y, 12, 31)

\* Every day of the walk is looked at at another time of the day.
TimeOfDay ==
    LET second == (walked * 3607) % 86400
    IN (second \div 3600) * 10000 + ((second \div 60) % 60) * 100 + (second % 60)

\* The clock at that day and time.
Now == Tm(today.y, today.m, today.d, TimeOfDay)

\* What is read from the clock, and what GetSeconds, which makes 1900 of a year
\* before it, makes of the numbers.
ClockReadsBack ==
    LET digits == <<[n |-> rq, then |-> "-"], [n |-> TimeOfDay, then |-> ""]>>
    IN /\ Now # Epoch => GetDateTime(Now, Epoch) = <<rq, TimeOfDay>>
       /\ GetDateTime(Epoch, Now) = <<rq, TimeOfDay>>
       /\ GetUTCDateTime(Now) = <<rq, TimeOfDay>>
       /\ today.y >= 1900 => GetSeconds(digits) = Now

\* A printed date or time is read back, and printed again in another form.
TextsReadBack ==
    /\ GetDateTimeFromString(FormatTime(TimeOfDay)) = TimeOfDay
    /\ GetDateTimeFromString(FormatTimeINT(TimeOfDay)) = TimeOfDay
    /\ GetDateTimeFromString(FormatDate(rq)) = rq
    /\ GetDateTimeFromString(FormateDateTime(rq, TimeOfDay)) = rq
    /\ FormatDateText(FormatDate(rq)) = FormatDate(rq)
    /\ FormatTimeText(FormatTimeINT(TimeOfDay)) = FormatTime(TimeOfDay)
    /\ FormatTimeToString(FormatTime(TimeOfDay)) = FormatTimeINT(TimeOfDay)

\* GetTimeString, which asks for a time after the epoch, prints what
\* FormateDateTime prints of the clock's numbers.
TimePrintsAlike ==
    today.y >= 1970 /\ Now # Epoch => GetTimeString(Now) = FormateDateTime(rq, TimeOfDay)

\* A time with milliseconds prints like the time without, after 01:00:00.000; one
\* with hundredths, between 1000000 and 10000000, never does, since the hour is
\* taken from other digits than the rest.
LongTimesPrint ==
    /\ \A ms \in {0, 1, 999} :
          TimeOfDay * 1000 + ms > 10000000 => Parts(TimeOfDay * 1000 + ms) = Parts(TimeOfDay)
    /\ \A cs \in {0, 99} :
          LET time == TimeOfDay * 100 + cs
          IN time > 1000000 /\ time <= 10000000 => Parts(time) # Parts(TimeOfDay)

\* The clock, printed and read back, in each of the forms the code has.
TimesReadBack == ClockReadsBack /\ TextsReadBack /\ TimePrintsAlike /\ LongTimesPrint

\* The spans GetOtherDay documents: -364 < nSpan < 365.
SpanAllowed == walked > -364 /\ walked < 365

\* GetOtherDay moves by its span ("由date 经过 nSpan 天 返回计算后的日期YYYYMMDD").
OtherDayMovesBySpan == SpanAllowed => GetOtherDay(Rq(start), walked) = Rq(today)

\* DateMinus is date1 - date2 ("date1-date2，两个日期相减", STD.cc:534), a number of days
\* between two dates ("两个日期之间相差的天数", STD.h:92): nothing for a date and itself.
DateMinusIsDifference == DateMinus(rq, Rq(start), Rq(today)) = walked

\* What the comments of STD say of spans of days: both of the above.  The code does
\* neither; one walk of no day at all, from a day in January, is enough to see it.
SpansAsDocumented == OtherDayMovesBySpan /\ DateMinusIsDifference

\* A target after January of the date's own year, or in the year before but
\* neither in January nor on the last day of a month.
OtherDayInRange ==
    \/ today.y > start.y
    \/ today.y = start.y /\ today.m > 1
    \/ today.y < start.y /\ today.m > 1 /\ today.d < LastDay(today.y, today.m)

\* In that range, over leap days and the year's end, and nowhere else GetOtherDay
\* is the walk.
OtherDayRightInRange ==
    SpanAllowed => (OtherDayInRange <=> GetOtherDay(Rq(start), walked) = Rq(today))

\* What counts days agrees with the walk, and what moves by a span does just where
\* it says above.
SpansCount == DateMinusCounts /\ OtherDayRightInRange
===============================================================================
