------------------------------ MODULE DateProofs ------------------------------
(***************************************************************************)
(* Proofs about DateWalk, for every set of starts in the years 1 to 9999   *)
(* and walks of any length: the stepped YYYYMMDD date and the pobo::Date   *)
(* always agree with the calendar, and a jump lands where steps do.        *)
(*                                                                         *)
(* The arithmetic is in the lemmas: FromToDays says that from_days undoes     *)
(* to_days, Successor that to_days grows by one a day.  Literal intervals  *)
(* with large bounds are avoided, the provers would enumerate them.        *)
(***************************************************************************)
EXTENDS DateWalk, FiniteSetTheorems, SequenceTheorems, WellFoundedInduction, TLAPS

-------------------------------------------------------------------------------
(***************************************************************************)
(* Months.                                                                 *)
(***************************************************************************)

\* No month is shorter than 28 days or longer than 31.
LEMMA LastDayType ==
    ASSUME NEW y \in Int, NEW m \in 1..12
    PROVE  LastDay(y, m) \in 28..31
  BY DEF LastDay

\* The table in the code is the calendar's.
LEMMA Table ==
    ASSUME NEW y \in Int, NEW m \in 1..12
    PROVE  days_of_mon(y)[m] = LastDay(y, m)
  BY DEF days_of_mon, LastDay, IsRunnian, Leap

\* Year, month and day are read back from the digits of YYYYMMDD.
LEMMA Decode ==
    ASSUME NEW t, t.y \in Nat, t.m \in 1..12, t.d \in 1..31
    PROVE  Year(Rq(t)) = t.y /\ Month(Rq(t)) = t.m /\ Day(Rq(t)) = t.d
  <1> DEFINE y == t.y
             m == t.m
             d == t.d
  <1>1. y \in Nat /\ m \in 1..12 /\ d \in 1..31
    OBVIOUS
  <1>2. Rq(t) = y * 10000 + m * 100 + d
    BY DEF Rq
  <1> HIDE DEF y, m, d
  <1>3. (y * 10000 + m * 100 + d) \div 10000 = y
    BY <1>1
  <1>4. (y * 10000 + m * 100 + d) % 100 = d
    BY <1>1
  <1>5. ((y * 10000 + m * 100 + d) \div 100) % 100 = m
    <2>1. (y * 10000 + m * 100 + d) \div 100 = y * 100 + m
      BY <1>1
    <2>2. (y * 100 + m) % 100 = m
      BY <1>1
    <2> QED
      BY <2>1, <2>2
  <1>6. Year(Rq(t)) = y /\ Month(Rq(t)) = m /\ Day(Rq(t)) = d
    BY <1>2, <1>3, <1>4, <1>5 DEF Year, Month, Day
  <1> QED
    BY <1>6 DEF y, m, d

-------------------------------------------------------------------------------
(***************************************************************************)
(* Years that begin in March: day k of year y is found in year y.          *)
(***************************************************************************)

\* Such a year has 366 days when the February at its end has 29.
LEMMA NextYear ==
    ASSUME NEW y \in Nat
    PROVE  BeforeYear(y + 1) = BeforeYear(y) + (IF Leap(y + 1) THEN 366 ELSE 365)
  <1> DEFINE z == y + 1
  <1>1. y \div 4 = IF z % 4 = 0 THEN z \div 4 - 1 ELSE z \div 4
    OBVIOUS
  <1>2. y \div 100 = IF z % 100 = 0 THEN z \div 100 - 1 ELSE z \div 100
    OBVIOUS
  <1>3. y \div 400 = IF z % 400 = 0 THEN z \div 400 - 1 ELSE z \div 400
    OBVIOUS
  <1>4. (z % 400 = 0 => z % 100 = 0) /\ (z % 100 = 0 => z % 4 = 0)
    OBVIOUS
  <1>5. z = y + 1 /\ z \in Int
    OBVIOUS
  <1> HIDE DEF z
  <1> QED
    BY <1>1, <1>2, <1>3, <1>4, <1>5 DEF BeforeYear, Leap

\* A number of days splits in one way into periods of 400 years and a rest.
LEMMA DivMod ==
    ASSUME NEW c \in Int, NEW s \in Nat, s < 146097
    PROVE  (146097 * c + s) \div 146097 = c /\ (146097 * c + s) % 146097 = s
  OBVIOUS

\* The quotient of the guess lies between its bounds.
LEMMA YearInPeriod ==
    ASSUME NEW q \in 0..399, NEW s \in Int,
           10000 * s + 14780 >= 3652425 * q, 10000 * s + 14780 < 3652425 * (q + 2)
    PROVE  (10000 * s + 14780) \div 3652425 \in {q, q + 1}
  OBVIOUS

\* The constants of the guess fit every year q of a period: day k of it is not
\* taken for one of an earlier year, nor of the year after the next.
LEMMA GuessBounds ==
    ASSUME NEW q \in 0..399, NEW k \in 0..365
    PROVE  LET s == 365 * q + q \div 4 - q \div 100 + k
           IN /\ s \in Nat /\ s < 146097
              /\ 10000 * s + 14780 >= 3652425 * q
              /\ 10000 * s + 14780 < 3652425 * (q + 2)
  <1> DEFINE a == q \div 4
             b == q \div 100
  <1>1. a \in Nat /\ 4 * a <= q /\ a <= 99
    OBVIOUS
  <1>2. b \in 0..3 /\ b <= a /\ a <= 25 * b + 24
    OBVIOUS
  <1>3. 10000 * (a - b) + 14780 >= 2425 * q
    OBVIOUS
  <1> HIDE DEF a, b
  <1>4. LET s == 365 * q + a - b + k
        IN /\ s \in Nat /\ s < 146097
           /\ 10000 * s + 14780 >= 3652425 * q
           /\ 10000 * s + 14780 < 3652425 * (q + 2)
    BY <1>1, <1>2, <1>3
  <1> QED
    BY <1>4 DEF a, b

\* The guess is the right year or the one after it.
LEMMA Guess ==
    ASSUME NEW y \in Nat, NEW k \in 0..365
    PROVE  YearGuess(BeforeYear(y) + k) \in {y, y + 1}
  <1> DEFINE c == y \div 400
             q == y % 400
             s == 365 * q + q \div 4 - q \div 100 + k
  <1>1. y = 400 * c + q /\ c \in Nat /\ q \in 0..399
    OBVIOUS
  <1>2. y \div 4 = 100 * c + q \div 4 /\ y \div 100 = 4 * c + q \div 100
    OBVIOUS
  <1>3. BeforeYear(y) + k = 146097 * c + s
    BY <1>1, <1>2 DEF BeforeYear
  <1> HIDE DEF c, q
  <1>4. /\ s \in Nat /\ s < 146097
        /\ 10000 * s + 14780 >= 3652425 * q
        /\ 10000 * s + 14780 < 3652425 * (q + 2)
    BY <1>1, GuessBounds
  <1> HIDE DEF s
  <1>5. (10000 * s + 14780) \div 3652425 \in {q, q + 1}
    BY <1>1, <1>4, YearInPeriod
  <1>6. (146097 * c + s) \div 146097 = c /\ (146097 * c + s) % 146097 = s
    BY <1>1, <1>4, DivMod
  <1> QED
    BY <1>1, <1>3, <1>5, <1>6 DEF YearGuess

\* k is a day of such a year: day 365 needs a leap February at its end.
IsDayOf(y, k) == k \in 0..365 /\ (k = 365 => Leap(y + 1))

\* The correction in from_days makes it the right year.
LEMMA Corrected ==
    ASSUME NEW y \in Nat, NEW k, IsDayOf(y, k)
    PROVE  LET days  == BeforeYear(y) + k
               guess == YearGuess(days)
           IN (IF days < BeforeYear(guess) THEN guess - 1 ELSE guess) = y
  <1> DEFINE days  == BeforeYear(y) + k
  <1>0. k \in 0..365 /\ (k = 365 => Leap(y + 1))
    BY DEF IsDayOf
  <1>1. YearGuess(days) \in {y, y + 1}
    BY <1>0, Guess
  <1>2. BeforeYear(y) \in Int
    BY DEF BeforeYear
  <1>3. ~(days < BeforeYear(y))
    BY <1>0, <1>2
  <1>4. days < BeforeYear(y + 1)
    BY <1>0, <1>2, NextYear
  <1> HIDE DEF days
  <1>5. (IF days < BeforeYear(YearGuess(days)) THEN YearGuess(days) - 1 ELSE YearGuess(days)) = y
    BY <1>1, <1>3, <1>4
  <1> QED
    BY <1>5 DEF days

-------------------------------------------------------------------------------
(***************************************************************************)
(* Dates: from_days undoes to_days, and to_days counts by one.             *)
(***************************************************************************)

\* The March-based month m and year y of a date, and its day k in that year.
MarchMonth(m)   == (m + 9) % 12
MarchYear(y, m) == y - MarchMonth(m) \div 10
MarchDay(m, d)  == (MarchMonth(m) * 306 + 5) \div 10 + (d - 1)

\* A date has its place in a March-based year.
LEMMA MarchPlace ==
    ASSUME NEW y \in Nat \ {0}, NEW m \in 1..12, NEW d \in 1..LastDay(y, m)
    PROVE  /\ MarchYear(y, m) \in Nat
           /\ IsDayOf(MarchYear(y, m), MarchDay(m, d))
           /\ to_days(y, m, d) = BeforeYear(MarchYear(y, m)) + MarchDay(m, d)
  <1>1. d \in 1..31 /\ d <= LastDay(y, m)
    BY LastDayType
  <1>2. CASE m = 1
    BY <1>1, <1>2 DEF MarchYear, MarchMonth, MarchDay, IsDayOf, LastDay, to_days, BeforeYear
  <1>3. CASE m = 2
    BY <1>1, <1>3 DEF MarchYear, MarchMonth, MarchDay, IsDayOf, LastDay, to_days, BeforeYear
  <1>4. CASE m \in 3..12
    BY <1>1, <1>4 DEF MarchYear, MarchMonth, MarchDay, IsDayOf, LastDay, to_days, BeforeYear
  <1> QED
    BY <1>2, <1>3, <1>4

\* Month and day are recovered from the day of the March-based year.
LEMMA MonthOfDay ==
    ASSUME NEW y \in Nat \ {0}, NEW m \in 1..12, NEW d \in 1..LastDay(y, m)
    PROVE  LET mi == (52 + 100 * MarchDay(m, d)) \div 3060
           IN /\ mi = MarchMonth(m)
              /\ MarchYear(y, m) + (mi + 2) \div 12 = y
              /\ ((mi + 2) % 12) + 1 = m
              /\ MarchDay(m, d) - (mi * 306 + 5) \div 10 + 1 = d
  <1> DEFINE mi == (52 + 100 * MarchDay(m, d)) \div 3060
  <1>1. d \in 1..31 /\ d <= LastDay(y, m)
    BY LastDayType
  <1>2. mi = MarchMonth(m)
    <2>1. CASE m \in {1, 2}
      BY <1>1, <2>1 DEF MarchMonth, MarchDay, LastDay
    <2>2. CASE m \in {3, 4, 5, 6, 7}
      BY <1>1, <2>2 DEF MarchMonth, MarchDay, LastDay
    <2>3. CASE m \in {8, 9, 10, 11, 12}
      BY <1>1, <2>3 DEF MarchMonth, MarchDay, LastDay
    <2> QED
      BY <2>1, <2>2, <2>3
  <1> HIDE DEF mi
  <1>3. MarchYear(y, m) + (mi + 2) \div 12 = y
    BY <1>2 DEF MarchYear, MarchMonth
  <1>4. ((mi + 2) % 12) + 1 = m
    BY <1>2 DEF MarchMonth
  <1>5. MarchDay(m, d) - (mi * 306 + 5) \div 10 + 1 = d
    BY <1>1, <1>2 DEF MarchDay, MarchMonth
  <1> QED
    BY <1>2, <1>3, <1>4, <1>5 DEF mi

\* from_days undoes to_days.
LEMMA FromToDays ==
    ASSUME NEW y \in Nat \ {0}, NEW m \in 1..12, NEW d \in 1..LastDay(y, m)
    PROVE  from_days(to_days(y, m, d)) = MakeDate(y, m, d)
  <1> DEFINE k     == MarchDay(m, d)
             my    == MarchYear(y, m)
             days  == to_days(y, m, d)
             guess == YearGuess(days)
             year  == IF days < BeforeYear(guess) THEN guess - 1 ELSE guess
             ddd   == days - BeforeYear(year)
             mi    == (52 + 100 * ddd) \div 3060
  <1>1. my \in Nat /\ IsDayOf(my, k) /\ days = BeforeYear(my) + k
    BY MarchPlace, Zenon
  <1>2. year = my
    <2>1. LET n == BeforeYear(my) + k
              g == YearGuess(n)
          IN (IF n < BeforeYear(g) THEN g - 1 ELSE g) = my
      BY <1>1, Corrected, Zenon
    <2> QED
      BY <1>1, <2>1, Zenon
  <1>3. BeforeYear(my) \in Int
    BY <1>1 DEF BeforeYear
  <1>4. ddd = k
    <2>1. k \in Int
      BY <1>1 DEF IsDayOf
    <2> HIDE DEF my, k
    <2>2. (BeforeYear(my) + k) - BeforeYear(my) = k
      BY <1>3, <2>1
    <2> QED
      BY <1>1, <1>2, <2>2
  <1>5. /\ my + (mi + 2) \div 12 = y
        /\ ((mi + 2) % 12) + 1 = m
        /\ k - (mi * 306 + 5) \div 10 + 1 = d
    BY <1>4, MonthOfDay
  <1>6. from_days(days) = [m_year |-> year + (mi + 2) \div 12, m_month |-> ((mi + 2) % 12) + 1,
                           m_day |-> ddd - (mi * 306 + 5) \div 10 + 1, m_days |-> days]
    BY DEF from_days
  <1> HIDE DEF mi, ddd, year, my, k
  <1>7. from_days(days) = [m_year |-> y, m_month |-> m, m_day |-> d, m_days |-> days]
    BY <1>2, <1>4, <1>5, <1>6
  <1> QED
    BY <1>7 DEF MakeDate

\* A number of days is an integer.
LEMMA ToDaysType ==
    ASSUME NEW y \in Nat \ {0}, NEW m \in 1..12, NEW d \in 1..31
    PROVE  to_days(y, m, d) \in Int
  BY DEF to_days

\* Tomorrow's number of days is today's and one.
LEMMA Successor ==
    ASSUME NEW y \in Nat \ {0}, NEW m \in 1..12, NEW d \in 1..LastDay(y, m)
    PROVE  LET t == Tomorrow(Date(y, m, d))
           IN to_days(t.y, t.m, t.d) = to_days(y, m, d) + 1
  <1>1. d \in 1..31 /\ d <= LastDay(y, m) /\ LastDay(y, m) \in 28..31
    BY LastDayType
  <1>2. CASE d < LastDay(y, m)
    <2>1. Tomorrow(Date(y, m, d)) = Date(y, m, d + 1)
      BY <1>2 DEF Tomorrow, Date
    <2>2. to_days(y, m, d + 1) = to_days(y, m, d) + 1
      BY <1>1 DEF to_days
    <2> QED
      BY <2>1, <2>2 DEF Date
  <1>3. CASE d = LastDay(y, m) /\ m = 2
    <2> DEFINE z == y - 1
    <2>1. Tomorrow(Date(y, m, d)) = Date(y, 3, 1)
      BY <1>3 DEF Tomorrow, Date
    <2>2. to_days(y, 3, 1) = BeforeYear(y)
      BY DEF to_days, BeforeYear
    <2>3. to_days(y, 2, d) = BeforeYear(z) + 337 + (d - 1)
      BY <1>1 DEF to_days, BeforeYear
    <2>4. z \in Nat /\ y = z + 1
      OBVIOUS
    <2> HIDE DEF z
    <2>5. BeforeYear(z) \in Int
      BY <2>4 DEF BeforeYear
    <2>6. d = IF Leap(y) THEN 29 ELSE 28
      BY <1>3 DEF LastDay
    <2>7. BeforeYear(y) = BeforeYear(z) + (IF Leap(y) THEN 366 ELSE 365)
      BY <2>4, NextYear
    <2> QED
      BY <1>3, <2>1, <2>2, <2>3, <2>5, <2>6, <2>7 DEF Date
  <1>4. CASE d = LastDay(y, m) /\ m # 2 /\ m < 12
    <2>1. Tomorrow(Date(y, m, d)) = Date(y, m + 1, 1)
      BY <1>4 DEF Tomorrow, Date
    <2>2. to_days(y, m + 1, 1) = to_days(y, m, d) + 1
      <3>1. CASE m = 1
        BY <1>4, <3>1 DEF to_days, LastDay
      <3>2. CASE m \in 3..11
        BY <1>4, <3>2 DEF to_days, LastDay
      <3> QED
        BY <1>4, <3>1, <3>2
    <2> QED
      BY <2>1, <2>2 DEF Date
  <1>5. CASE d = LastDay(y, m) /\ m = 12
    <2>1. Tomorrow(Date(y, m, d)) = Date(y + 1, 1, 1)
      BY <1>5 DEF Tomorrow, Date
    <2>2. to_days(y + 1, 1, 1) = to_days(y, 12, d) + 1
      BY <1>5 DEF to_days, LastDay
    <2> QED
      BY <1>5, <2>1, <2>2 DEF Date
  <1> QED
    BY <1>1, <1>2, <1>3, <1>4, <1>5

-------------------------------------------------------------------------------
(***************************************************************************)
(* Steps of a day.                                                         *)
(***************************************************************************)

LEMMA YearBounds == MinYear = 1 /\ MaxYear \in Nat
  BY DEF MinYear, MaxYear

\* A date of the calendar is made of its three parts.
LEMMA DateParts ==
    ASSUME NEW t \in DatesOf(MinYear .. MaxYear)
    PROVE  /\ t = Date(t.y, t.m, t.d)
           /\ t.y \in Nat \ {0} /\ t.y \in MinYear .. MaxYear
           /\ t.m \in 1..12 /\ t.d \in 1..31 /\ t.d \in 1..LastDay(t.y, t.m)
           /\ LastDay(t.y, t.m) \in 28..31
  <1>1. t \in [y : MinYear .. MaxYear, m : 1..12, d : 1..31] /\ t.d <= LastDay(t.y, t.m)
    BY DEF DatesOf
  <1>2. t.y \in MinYear .. MaxYear /\ t.m \in 1..12 /\ t.d \in 1..31
    BY <1>1
  <1>3. t.y \in Nat \ {0} /\ t.y \in Int
    BY <1>2, YearBounds
  <1>4. LastDay(t.y, t.m) \in 28..31
    BY <1>2, <1>3, LastDayType, Zenon
  <1>6. t.d \in 1..LastDay(t.y, t.m)
    <2> DEFINE last == LastDay(t.y, t.m)
               day == t.d
    <2>1. day \in 1..31 /\ day <= last /\ last \in 28..31
      BY <1>1, <1>2, <1>4, Zenon
    <2> HIDE DEF last, day
    <2>2. day \in 1..last
      BY <2>1
    <2> QED
      BY <2>2, Zenon DEF last, day
  <1>5. t = Date(t.y, t.m, t.d)
    BY <1>1 DEF Date
  <1> QED
    BY <1>2, <1>3, <1>4, <1>5, <1>6

\* What has the parts of a date is one.
LEMMA MakesDate ==
    ASSUME NEW y \in MinYear .. MaxYear, NEW m \in 1..12, NEW d \in 1..LastDay(y, m)
    PROVE  Date(y, m, d) \in DatesOf(MinYear .. MaxYear)
  <1>1. LastDay(y, m) \in 28..31
    BY YearBounds, LastDayType
  <1>2. d \in 1..31 /\ d <= LastDay(y, m)
    BY <1>1
  <1>3. Date(y, m, d) \in [y : MinYear .. MaxYear, m : 1..12, d : 1..31]
    BY <1>2 DEF Date
  <1>4. Date(y, m, d).y = y /\ Date(y, m, d).m = m /\ Date(y, m, d).d = d
    BY DEF Date
  <1> QED
    BY <1>2, <1>3, <1>4 DEF DatesOf

\* The calendar's steps stay in the calendar and undo each other.
LEMMA CalendarStep ==
    ASSUME NEW t \in DatesOf(MinYear .. MaxYear)
    PROVE  /\ Tomorrow(t).y <= MaxYear => Tomorrow(t) \in DatesOf(MinYear .. MaxYear)
           /\ Yesterday(t).y >= MinYear => /\ Yesterday(t) \in DatesOf(MinYear .. MaxYear)
                                           /\ Tomorrow(Yesterday(t)) = t
  <1> DEFINE y == t.y
             m == t.m
             d == t.d
  <1>1. /\ t = Date(y, m, d) /\ y \in MinYear .. MaxYear /\ y \in Nat \ {0}
        /\ m \in 1..12 /\ d \in 1..31 /\ d \in 1..LastDay(y, m) /\ LastDay(y, m) \in 28..31
    BY DateParts
  <1>2. Tomorrow(t) = IF d < LastDay(y, m) THEN Date(y, m, d + 1)
                      ELSE IF m < 12 THEN Date(y, m + 1, 1) ELSE Date(y + 1, 1, 1)
    BY DEF Tomorrow
  <1>3. Yesterday(t) = IF d > 1 THEN Date(y, m, d - 1)
                       ELSE IF m > 1 THEN Date(y, m - 1, LastDay(y, m - 1)) ELSE Date(y - 1, 12, 31)
    BY DEF Yesterday
  <1> HIDE DEF y, m, d
  <1>4. ASSUME NEW a, NEW b, NEW c
        PROVE  Date(a, b, c).y = a /\ Date(a, b, c).m = b /\ Date(a, b, c).d = c
    BY DEF Date
  <1>5. ASSUME NEW a \in Int, NEW b \in 1..12
        PROVE  LastDay(a, b) \in 28..31
    BY LastDayType
  <1>6. ASSUME Tomorrow(t).y <= MaxYear
        PROVE  Tomorrow(t) \in DatesOf(MinYear .. MaxYear)
    <2>1. CASE d < LastDay(y, m)
      <3>1. Tomorrow(t) = Date(y, m, d + 1)
        BY <1>2, <2>1
      <3>2. d + 1 \in 1..LastDay(y, m)
        BY <1>1, <2>1
      <3> QED
        BY <1>1, <3>1, <3>2, MakesDate
    <2>2. CASE d >= LastDay(y, m) /\ m < 12
      <3>1. m + 1 \in 1..12 /\ 1 \in 1..LastDay(y, m + 1)
        <4>1. m + 1 \in 1..12
          BY <1>1, <2>2
        <4>2. LastDay(y, m + 1) \in 28..31
          BY <1>1, <1>5, <4>1
        <4> QED
          BY <4>1, <4>2
      <3>2. Tomorrow(t) = Date(y, m + 1, 1)
        BY <1>1, <1>2, <2>2
      <3> QED
        BY <1>1, <3>1, <3>2, MakesDate
    <2>3. CASE d >= LastDay(y, m) /\ m = 12
      <3>1. Tomorrow(t) = Date(y + 1, 1, 1)
        BY <1>1, <1>2, <2>3
      <3>2. y + 1 \in MinYear .. MaxYear
        <4>1. Tomorrow(t).y = y + 1
          BY <1>4, <3>1
        <4> QED
          BY <1>1, <1>6, <4>1, YearBounds
      <3>3. 1 \in 1..LastDay(y + 1, 1)
        <4>1. LastDay(y + 1, 1) = 31
          BY DEF LastDay
        <4> QED
          BY <4>1
      <3> QED
        BY <3>1, <3>2, <3>3, MakesDate
    <2> QED
      BY <1>1, <2>1, <2>2, <2>3
  <1>7. ASSUME Yesterday(t).y >= MinYear
        PROVE  /\ Yesterday(t) \in DatesOf(MinYear .. MaxYear)
               /\ Tomorrow(Yesterday(t)) = t
    <2>1. CASE d > 1
      <3>1. Yesterday(t) = Date(y, m, d - 1)
        BY <1>3, <2>1
      <3>2. d - 1 \in 1..LastDay(y, m) /\ d - 1 < LastDay(y, m)
        BY <1>1, <2>1
      <3>3. Tomorrow(Date(y, m, d - 1)) = Date(y, m, d)
        BY <1>1, <1>4, <3>2 DEF Tomorrow
      <3> QED
        BY <1>1, <3>1, <3>2, <3>3, MakesDate
    <2>2. CASE d = 1 /\ m > 1
      <3>1. Yesterday(t) = Date(y, m - 1, LastDay(y, m - 1))
        BY <1>3, <2>2
      <3>2. m - 1 \in 1..12 /\ m - 1 < 12 /\ LastDay(y, m - 1) \in 28..31
        BY <1>1, <1>5, <2>2
      <3>3. Tomorrow(Date(y, m - 1, LastDay(y, m - 1))) = Date(y, m, 1)
        BY <1>1, <1>4, <3>2 DEF Tomorrow
      <3>4. LastDay(y, m - 1) \in 1..LastDay(y, m - 1)
        BY <3>2
      <3>5. Date(y, m - 1, LastDay(y, m - 1)) \in DatesOf(MinYear .. MaxYear)
        BY <1>1, <3>2, <3>4, MakesDate
      <3>6. Date(y, m, 1) = t
        BY <1>1, <2>2
      <3> QED
        BY <3>1, <3>3, <3>5, <3>6
    <2>3. CASE d = 1 /\ m = 1
      <3>1. Yesterday(t) = Date(y - 1, 12, 31)
        BY <1>3, <2>3
      <3>2. y - 1 \in MinYear .. MaxYear
        <4>1. Yesterday(t).y = y - 1
          BY <1>4, <3>1
        <4> QED
          BY <1>1, <1>7, <4>1, YearBounds
      <3>3. LastDay(y - 1, 12) = 31
        BY DEF LastDay
      <3>4. Tomorrow(Date(y - 1, 12, 31)) = Date(y, 1, 1)
        <4>1. Tomorrow(Date(y - 1, 12, 31)) = Date((y - 1) + 1, 1, 1)
          BY <1>4, <3>3 DEF Tomorrow
        <4> QED
          BY <1>1, <4>1
      <3> QED
        BY <1>1, <2>3, <3>1, <3>2, <3>3, <3>4, MakesDate
    <2> QED
      BY <1>1, <2>1, <2>2, <2>3
  <1> QED
    BY <1>6, <1>7

\* getnextdate is the calendar's step forward.
LEMMA NextDate ==
    ASSUME NEW t \in DatesOf(MinYear .. MaxYear)
    PROVE  getnextdate(Rq(t)) = Rq(Tomorrow(t))
  <1> DEFINE y == t.y
             m == t.m
             d == t.d
  <1>1. y \in Nat \ {0} /\ m \in 1..12 /\ d \in 1..31 /\ d <= LastDay(y, m) /\ LastDay(y, m) \in 28..31
    BY DateParts
  <1>2. Year(Rq(t)) = y /\ Month(Rq(t)) = m /\ Day(Rq(t)) = d
    BY <1>1, Decode
  <1>3. days_of_mon(y)[m] = LastDay(y, m)
    BY <1>1, Table
  <1>4. getnextdate(Rq(t)) = IF d < LastDay(y, m) THEN Rq(t) + 1
                             ELSE IF m < 12 THEN y * 10000 + 100 * (m + 1) + 1
                             ELSE (y + 1) * 10000 + 101
    BY <1>2, <1>3 DEF getnextdate
  <1>5. Rq(t) = y * 10000 + m * 100 + d
    BY DEF Rq
  <1>6. Tomorrow(t) = IF d < LastDay(y, m) THEN Date(y, m, d + 1)
                      ELSE IF m < 12 THEN Date(y, m + 1, 1) ELSE Date(y + 1, 1, 1)
    BY DEF Tomorrow
  <1> HIDE DEF y, m, d
  <1>7. ASSUME NEW a, NEW b, NEW c
        PROVE  Rq(Date(a, b, c)) = a * 10000 + b * 100 + c
    BY DEF Rq, Date
  <1>8. CASE d < LastDay(y, m)
    <2>1. getnextdate(Rq(t)) = y * 10000 + m * 100 + d + 1
      BY <1>4, <1>5, <1>8
    <2>2. Rq(Tomorrow(t)) = y * 10000 + m * 100 + (d + 1)
      BY <1>6, <1>7, <1>8
    <2> QED
      BY <1>1, <2>1, <2>2
  <1>9. CASE ~ (d < LastDay(y, m)) /\ m < 12
    <2>1. getnextdate(Rq(t)) = y * 10000 + 100 * (m + 1) + 1
      BY <1>4, <1>9
    <2>2. Rq(Tomorrow(t)) = y * 10000 + (m + 1) * 100 + 1
      BY <1>6, <1>7, <1>9
    <2> QED
      BY <1>1, <2>1, <2>2
  <1>10. CASE ~ (d < LastDay(y, m)) /\ ~ (m < 12)
    <2>1. getnextdate(Rq(t)) = (y + 1) * 10000 + 101
      BY <1>4, <1>10
    <2>2. Rq(Tomorrow(t)) = (y + 1) * 10000 + 1 * 100 + 1
      BY <1>6, <1>7, <1>10
    <2> QED
      BY <1>1, <2>1, <2>2
  <1> QED
    BY <1>8, <1>9, <1>10

\* getpreviousrq is the calendar's step back.
LEMMA PreviousDate ==
    ASSUME NEW t \in DatesOf(MinYear .. MaxYear)
    PROVE  getpreviousrq(Rq(t)) = Rq(Yesterday(t))
  <1> DEFINE y == t.y
             m == t.m
             d == t.d
  <1>1. y \in Nat \ {0} /\ m \in 1..12 /\ d \in 1..31
    BY DateParts
  <1>2. Year(Rq(t)) = y /\ Month(Rq(t)) = m /\ Day(Rq(t)) = d
    BY <1>1, Decode
  <1>3. getpreviousrq(Rq(t)) = IF d > 1 THEN Rq(t) - 1
                               ELSE IF m > 1 THEN y * 10000 + 100 * (m - 1) + days_of_mon(y)[m - 1]
                               ELSE (y - 1) * 10000 + 1231
    BY <1>2 DEF getpreviousrq
  <1>4. Rq(t) = y * 10000 + m * 100 + d
    BY DEF Rq
  <1>5. Yesterday(t) = IF d > 1 THEN Date(y, m, d - 1)
                       ELSE IF m > 1 THEN Date(y, m - 1, LastDay(y, m - 1)) ELSE Date(y - 1, 12, 31)
    BY DEF Yesterday
  <1> HIDE DEF y, m, d
  <1>6. m > 1 => /\ days_of_mon(y)[m - 1] = LastDay(y, m - 1)
                 /\ LastDay(y, m - 1) \in 28..31
    <2> SUFFICES ASSUME m > 1
                 PROVE  /\ days_of_mon(y)[m - 1] = LastDay(y, m - 1)
                        /\ LastDay(y, m - 1) \in 28..31
      OBVIOUS
    <2>1. m - 1 \in 1..12 /\ y \in Int
      BY <1>1
    <2> QED
      BY <2>1, Table, LastDayType
  <1>7. ASSUME NEW a, NEW b, NEW c
        PROVE  Rq(Date(a, b, c)) = a * 10000 + b * 100 + c
    BY DEF Rq, Date
  <1>8. CASE d > 1
    <2>1. getpreviousrq(Rq(t)) = (y * 10000 + m * 100 + d) - 1
      BY <1>3, <1>4, <1>8
    <2>2. Rq(Yesterday(t)) = y * 10000 + m * 100 + (d - 1)
      BY <1>5, <1>7, <1>8
    <2> QED
      BY <1>1, <2>1, <2>2
  <1>9. CASE ~ (d > 1) /\ m > 1
    <2>1. getpreviousrq(Rq(t)) = y * 10000 + 100 * (m - 1) + LastDay(y, m - 1)
      BY <1>3, <1>6, <1>9
    <2>2. Rq(Yesterday(t)) = y * 10000 + (m - 1) * 100 + LastDay(y, m - 1)
      BY <1>5, <1>7, <1>9
    <2> QED
      BY <1>1, <2>1, <2>2
  <1>10. CASE ~ (d > 1) /\ ~ (m > 1)
    <2>1. getpreviousrq(Rq(t)) = (y - 1) * 10000 + 1231
      BY <1>3, <1>10
    <2>2. Rq(Yesterday(t)) = (y - 1) * 10000 + 12 * 100 + 31
      BY <1>5, <1>7, <1>10
    <2> QED
      BY <1>1, <2>1, <2>2
  <1> QED
    BY <1>8, <1>9, <1>10

\* The number of days of a date of the calendar.
DaysOf(t) == to_days(t.y, t.m, t.d)

\* from_days undoes to_days on the calendar's dates, and a step is one day.
LEMMA DayNumber ==
    ASSUME NEW t \in DatesOf(MinYear .. MaxYear)
    PROVE  /\ DaysOf(t) \in Int
           /\ from_days(DaysOf(t)) = Obj(t)
           /\ Obj(t).m_days = DaysOf(t)
           /\ DaysOf(Tomorrow(t)) = DaysOf(t) + 1
  <1>1. /\ t = Date(t.y, t.m, t.d) /\ t.y \in Nat \ {0}
        /\ t.m \in 1..12 /\ t.d \in 1..LastDay(t.y, t.m) /\ t.d \in 1..31
    BY DateParts
  <1>2. from_days(DaysOf(t)) = Obj(t)
    BY <1>1, FromToDays DEF DaysOf, Obj
  <1>3. DaysOf(t) \in Int
    BY <1>1, ToDaysType, Zenon DEF DaysOf
  <1>4. Obj(t).m_days = DaysOf(t)
    BY DEF Obj, MakeDate, DaysOf
  <1>5. DaysOf(Tomorrow(t)) = DaysOf(t) + 1
    <2>1. LET n == Tomorrow(Date(t.y, t.m, t.d))
          IN to_days(n.y, n.m, n.d) = to_days(t.y, t.m, t.d) + 1
      BY <1>1, Successor
    <2> QED
      BY <1>1, <2>1 DEF DaysOf
  <1> QED
    BY <1>2, <1>3, <1>4, <1>5

-------------------------------------------------------------------------------
(***************************************************************************)
(* The walk.  IInv adds to the properties that today's number of days is   *)
(* the start's and the days walked, which only to_days makes true.         *)
(***************************************************************************)
Placed ==
    /\ start \in DatesOf(MinYear .. MaxYear) /\ start \in Starts
    /\ today \in DatesOf(MinYear .. MaxYear)
    /\ walked \in Int /\ -MaxWalk <= walked /\ walked <= MaxWalk

Counted == DaysOf(today) = DaysOf(start) + walked

IInv == Placed /\ WalkAgrees /\ ObjectAgrees /\ Counted

\* Every walk keeps IInv.
THEOREM DateInvariance == Spec => []IInv
  <1>1. Init => IInv
    <2> SUFFICES ASSUME Init PROVE IInv
      OBVIOUS
    <2>1. Placed
      BY StartsAssumption, MaxWalkAssumption DEF Init, Placed
    <2>2. WalkAgrees /\ ObjectAgrees
      BY DEF Init, WalkAgrees, ObjectAgrees
    <2>3. Counted
      BY <2>1, DayNumber DEF Init, Counted, Placed
    <2> QED
      BY <2>1, <2>2, <2>3 DEF IInv
  <1>2. IInv /\ [Next]_vars => IInv'
    <2> SUFFICES ASSUME IInv, [Next]_vars PROVE IInv'
      OBVIOUS
    <2> USE DEF IInv
    <2>1. CASE Forward
      <3>1. Placed'
        <4>1. Tomorrow(today) \in DatesOf(MinYear .. MaxYear)
          BY <2>1, CalendarStep DEF Forward, Placed
        <4> QED
          BY <2>1, <4>1, MaxWalkAssumption DEF Forward, Placed
      <3>2. WalkAgrees'
        BY <2>1, NextDate DEF Forward, Placed, WalkAgrees
      <3>3. DaysOf(today') = DaysOf(today) + 1
        BY <2>1, DayNumber DEF Forward, Placed
      <3>4. ObjectAgrees'
        <4>1. obj.m_days = DaysOf(today)
          BY DayNumber DEF Placed, ObjectAgrees
        <4>2. obj' = from_days(DaysOf(today'))
          BY <2>1, <3>3, <4>1 DEF Forward, Plus
        <4>3. today' \in DatesOf(MinYear .. MaxYear)
          BY <3>1 DEF Placed
        <4>4. from_days(DaysOf(today')) = Obj(today')
          BY <4>3, DayNumber
        <4> QED
          BY <4>2, <4>4 DEF ObjectAgrees, Obj
      <3>5. Counted'
        <4>1. DaysOf(start) \in Int
          BY DayNumber DEF Placed
        <4>2. start' = start /\ walked' = walked + 1
          BY <2>1 DEF Forward
        <4> QED
          BY <3>3, <4>1, <4>2 DEF Counted, Placed, DaysOf
      <3> QED
        BY <3>1, <3>2, <3>4, <3>5
    <2>2. CASE Backward
      <3>1. /\ Placed'
            /\ Tomorrow(today') = today
        <4>1. /\ Yesterday(today) \in DatesOf(MinYear .. MaxYear)
              /\ Tomorrow(Yesterday(today)) = today
          BY <2>2, CalendarStep DEF Backward, Placed
        <4> QED
          BY <2>2, <4>1, MaxWalkAssumption DEF Backward, Placed
      <3>2. WalkAgrees'
        BY <2>2, PreviousDate DEF Backward, Placed, WalkAgrees
      <3>3. DaysOf(today') = DaysOf(today) - 1 /\ DaysOf(today') \in Int
        <4>1. today' \in DatesOf(MinYear .. MaxYear)
          BY <3>1 DEF Placed
        <4>2. DaysOf(Tomorrow(today')) = DaysOf(today') + 1 /\ DaysOf(today') \in Int
          BY <4>1, DayNumber
        <4> QED
          BY <3>1, <4>2
      <3>4. ObjectAgrees'
        <4>1. obj.m_days = DaysOf(today)
          BY DayNumber DEF Placed, ObjectAgrees
        <4>2. obj' = from_days(DaysOf(today'))
          BY <2>2, <3>3, <4>1 DEF Backward, Minus
        <4>3. today' \in DatesOf(MinYear .. MaxYear)
          BY <3>1 DEF Placed
        <4>4. from_days(DaysOf(today')) = Obj(today')
          BY <4>3, DayNumber
        <4> QED
          BY <4>2, <4>4 DEF ObjectAgrees, Obj
      <3>5. Counted'
        <4>1. DaysOf(start) \in Int
          BY DayNumber DEF Placed
        <4>2. start' = start /\ walked' = walked - 1
          BY <2>2 DEF Backward
        <4> QED
          BY <3>3, <4>1, <4>2 DEF Counted, Placed, DaysOf
      <3> QED
        BY <3>1, <3>2, <3>4, <3>5
    <2>3. CASE UNCHANGED vars
      BY <2>3 DEF vars, Placed, WalkAgrees, ObjectAgrees, Counted, DaysOf, Obj, Rq
    <2> QED
      BY <2>1, <2>2, <2>3 DEF Next
  <1> QED
    BY <1>1, <1>2, PTL DEF Spec

\* Type correctness.
THEOREM DateTypeCorrect == Spec => []TypeOK
  <1>1. IInv => TypeOK
    <2> SUFFICES ASSUME IInv PROVE TypeOK
      OBVIOUS
    <2>1. /\ today.y \in Nat \ {0} /\ today.m \in 1..12 /\ today.d \in 1..31
      BY DateParts DEF IInv, Placed
    <2>2. to_days(today.y, today.m, today.d) \in Int
      BY <2>1, ToDaysType, Zenon
    <2>3. obj \in [m_year : Int, m_month : 1..12, m_day : 1..31, m_days : Int]
      BY <2>1, <2>2 DEF IInv, ObjectAgrees, Obj, MakeDate
    <2>4. rq \in Int
      BY <2>1 DEF IInv, WalkAgrees, Rq
    <2>5. walked \in -MaxWalk .. MaxWalk
      BY MaxWalkAssumption DEF IInv, Placed
    <2> QED
      BY <2>3, <2>4, <2>5 DEF TypeOK, IInv, Placed
  <1> QED
    BY <1>1, DateInvariance, PTL

\* getnextdate and getpreviousrq follow the calendar from any start, any length.
THEOREM WalkFollowsCalendar == Spec => []WalkAgrees
  <1>1. IInv => WalkAgrees
    BY DEF IInv
  <1> QED
    BY <1>1, DateInvariance, PTL

\* A pobo::Date follows the calendar from any start, any length.
THEOREM ObjectFollowsCalendar == Spec => []ObjectAgrees
  <1>1. IInv => ObjectAgrees
    BY DEF IInv
  <1> QED
    BY <1>1, DateInvariance, PTL

\* Both calendars of the program follow the real one together.
THEOREM ProgramFollowsCalendar == Spec => []CalendarAgrees
  <1>1. WalkAgrees /\ ObjectAgrees => CalendarAgrees
    BY DEF CalendarAgrees
  <1> QED
    BY <1>1, WalkFollowsCalendar, ObjectFollowsCalendar, PTL

\* A jump of any number of days lands where the steps do; difference, order, copy
\* and text of a date agree with that.
THEOREM JumpsLand == Spec => []JumpLands
  <1>1. IInv => JumpLands
    <2> SUFFICES ASSUME IInv PROVE JumpLands
      OBVIOUS
    <2>1. /\ from_days(DaysOf(today)) = Obj(today) /\ Obj(today).m_days = DaysOf(today)
          /\ from_days(DaysOf(start)) = Obj(start) /\ Obj(start).m_days = DaysOf(start)
          /\ DaysOf(start) \in Int
      BY DayNumber DEF IInv, Placed
    <2>2. DaysOf(today) = DaysOf(start) + walked /\ DaysOf(today) - walked = DaysOf(start)
      BY <2>1 DEF IInv, Counted, Placed
    <2>3. obj = Obj(today)
      BY DEF IInv, ObjectAgrees
    <2>4. /\ Plus(Obj(start), walked) = Obj(today)
          /\ Minus(obj, walked) = Obj(start)
      BY <2>1, <2>2, <2>3 DEF Plus, Minus
    <2>5. /\ Difference(obj, Obj(start)) = walked
          /\ Later(obj, Obj(start)) <=> walked > 0
          /\ Same(obj, Obj(start)) <=> walked = 0
      <3>1. obj.m_days = DaysOf(today) /\ Obj(start).m_days = DaysOf(start)
        BY <2>1, <2>3
      <3>2. walked \in Int
        BY DEF IInv, Placed
      <3> QED
        BY <3>1, <3>2, <2>1, <2>2 DEF Difference, Later, Same
    <2>6. Assign(obj) = obj
      BY <2>3 DEF Assign, Obj, MakeDate
    <2>7. ParseDate(to_string(obj)) = obj
      <3>1. to_string(obj) = Rq(today)
        BY <2>3 DEF to_string, Obj, MakeDate, Rq
      <3>2. today.y \in Nat /\ today.m \in 1..12 /\ today.d \in 1..31
        BY DateParts DEF IInv, Placed
      <3>3. Year(Rq(today)) = today.y /\ Month(Rq(today)) = today.m /\ Day(Rq(today)) = today.d
        BY <3>2, Decode
      <3> QED
        BY <2>3, <3>1, <3>3 DEF ParseDate, Obj, Year, Month, Day
    <2> QED
      BY <2>4, <2>5, <2>6, <2>7 DEF JumpLands
  <1> QED
    BY <1>1, DateInvariance, PTL


-------------------------------------------------------------------------------
(***************************************************************************)
(* Times and texts.                                                        *)
(***************************************************************************)

\* time is the hour, the minute and the second written as HHMMSS.
Shows(time, h, mi, s) ==
    /\ h \in Nat /\ h < 24 /\ mi \in Nat /\ mi < 60 /\ s \in Nat /\ s < 60
    /\ time = h * 10000 + mi * 100 + s

\* They are read back from the digits.
LEMMA ClockDigits ==
    ASSUME NEW h, NEW mi, NEW s, NEW time, Shows(time, h, mi, s)
    PROVE  /\ time \in Nat /\ time < 240000
           /\ time \div 10000 = h /\ (time \div 10000) % 100 = h
           /\ (time \div 100) % 100 = mi /\ time % 100 = s
  <1>0. /\ h \in Nat /\ h < 24 /\ mi \in Nat /\ mi < 60 /\ s \in Nat /\ s < 60
        /\ time = h * 10000 + mi * 100 + s
    BY DEF Shows
  <1>1. time \in Nat /\ time < 240000
    BY <1>0
  <1>2. time \div 10000 = h /\ time \div 100 = h * 100 + mi
    BY <1>0
  <1>3. h % 100 = h /\ (h * 100 + mi) % 100 = mi
    BY <1>0
  <1>4. time % 100 = s
    <2>1. time = (h * 100 + mi) * 100 + s
      BY <1>0
    <2> QED
      BY <1>0, <2>1
  <1> QED
    BY <1>1, <1>2, <1>3, <1>4

\* The hour, the minute and the second at which a day of the walk is looked at.
Second == (walked * 3607) % 86400
Hour   == Second \div 3600
Minute == (Second \div 60) % 60

\* The time of the day has those digits.
LEMMA ClockTime ==
    ASSUME walked \in Int
    PROVE  Shows(TimeOfDay, Hour, Minute, Second % 60)
  <1>1. Second \in Int /\ 0 <= Second /\ Second < 86400
    BY DEF Second
  <1>2. TimeOfDay = Hour * 10000 + Minute * 100 + (Second % 60)
    BY DEF TimeOfDay, Second, Hour, Minute
  <1>3. Hour \in Nat /\ Hour < 24
    BY <1>1 DEF Hour
  <1>4. Minute \in Nat /\ Minute < 60
    BY <1>1 DEF Minute
  <1>5. Second % 60 \in Nat /\ Second % 60 < 60
    BY <1>1
  <1> QED
    BY <1>2, <1>3, <1>4, <1>5 DEF Shows

\* A time of a day is printed as its three parts.
LEMMA DayParts ==
    ASSUME NEW h, NEW mi, NEW s, NEW time, Shows(time, h, mi, s)
    PROVE  Parts(time) = <<h, mi, s>>
  <1>1. /\ time \in Nat /\ time < 240000
        /\ (time \div 10000) % 100 = h /\ (time \div 100) % 100 = mi /\ time % 100 = s
    BY ClockDigits
  <1>2. Parts(time) = <<(time \div 10000) % 100, (time \div 100) % 100, time % 100>>
    BY <1>1 DEF Parts
  <1> QED
    BY <1>1, <1>2

\* A time with milliseconds prints like the time without, after 01:00:00.000.
LEMMA MillisecondParts ==
    ASSUME NEW h, NEW mi, NEW s, NEW time, Shows(time, h, mi, s),
           NEW ms \in Nat, ms < 1000,
           NEW t, t = time * 1000 + ms, t > 10000000
    PROVE  Parts(t) = Parts(time)
  <1>1. /\ h \in Nat /\ h < 24 /\ mi \in Nat /\ mi < 60 /\ s \in Nat /\ s < 60
        /\ t \in Nat /\ t = (h * 10000 + mi * 100 + s) * 1000 + ms
    BY SMT DEF Shows
  <1>2. t \div 10000000 = h /\ t \div 100000 = h * 100 + mi
    BY <1>1, SMT
  <1>3. t \div 1000 = (h * 100 + mi) * 100 + s
    BY <1>1, SMT
  <1>4. (h * 100 + mi) % 100 = mi /\ ((h * 100 + mi) * 100 + s) % 100 = s
    BY <1>1, SMT
  <1>5. Parts(t) = <<t \div 10000000, (t \div 100000) % 100, (t \div 1000) % 100>>
    BY <1>1, SMT DEF Parts
  <1>6. Parts(t) = <<h, mi, s>>
    BY <1>2, <1>3, <1>4, <1>5, SMT
  <1>7. Parts(time) = <<h, mi, s>>
    BY DayParts, SMT
  <1> QED
    BY <1>6, <1>7, SMT

\* One with hundredths, between 1000000 and 10000000, has another hour.
LEMMA HundredthParts ==
    ASSUME NEW h, NEW mi, NEW s, NEW time, Shows(time, h, mi, s),
           NEW cs \in Nat, cs < 100,
           NEW t, t = time * 100 + cs, t > 1000000, t <= 10000000
    PROVE  Parts(t) # Parts(time)
  <1>1. /\ h \in Nat /\ h < 24 /\ mi \in Nat /\ mi < 60 /\ s \in Nat /\ s < 60
        /\ t \in Nat /\ t = (h * 10000 + mi * 100 + s) * 100 + cs
    BY SMT DEF Shows
  <1>2. h >= 1 /\ t \div 100000 >= 10 * h
    BY <1>1, SMT
  <1>3. Parts(t)[1] = t \div 100000
    BY <1>1, SMT DEF Parts
  <1>4. Parts(t)[1] # h
    BY <1>1, <1>2, <1>3, SMT
  <1>5. Parts(time) = <<h, mi, s>>
    BY DayParts, SMT
  <1>6. Parts(time)[1] = h
    BY <1>5, SMT
  <1> QED
    BY <1>4, <1>6, SMT

\* Behind two separators of a kind there are three fields.
LEMMA ThreeFields ==
    ASSUME NEW s, NEW ch, 1 \in DOMAIN s, 2 \in DOMAIN s,
           {j \in DOMAIN s : s[j].then = ch} = {1, 2}
    PROVE  /\ GetValueInt(s, 1, ch) = s[1].n
           /\ GetValueInt(s, 2, ch) = s[2].n
           /\ GetValueInt(s, 3, ch) = s[3].n
  <1> DEFINE starts == {1} \cup {i + 1 : i \in {j \in DOMAIN s : s[j].then = ch}}
             before(i) == {j \in starts : j < i}
             first(num) == {i \in starts : Cardinality(before(i)) = num - 1}
  <1>1. starts = {1, 2, 3}
    <2>1. {i + 1 : i \in {j \in DOMAIN s : s[j].then = ch}} = {i + 1 : i \in {1, 2}}
      OBVIOUS
    <2>2. {i + 1 : i \in {1, 2}} = {2, 3}
      OBVIOUS
    <2> QED
      BY <2>1, <2>2
  <1> HIDE DEF starts
  <1>2. before(1) = {} /\ before(2) = {1} /\ before(3) = {1, 2}
    BY <1>1
  <1>3. /\ Cardinality(before(1)) = 0 /\ Cardinality(before(2)) = 1
        /\ Cardinality(before(3)) = 2
    <2>1. Cardinality({}) = 0 /\ Cardinality({1}) = 1
      BY FS_EmptySet, FS_Singleton
    <2>2. Cardinality({1, 2}) = 2
      <3>1. IsFiniteSet({1}) /\ 2 \notin {1} /\ {1} \cup {2} = {1, 2}
        BY FS_Singleton
      <3>2. Cardinality({1} \cup {2}) = Cardinality({1}) + 1
        BY <3>1, FS_AddElement
      <3>3. Cardinality({1}) + 1 = 2
        BY <2>1
      <3> QED
        BY <3>1, <3>2, <3>3
    <2> QED
      BY <1>2, <2>1, <2>2
  <1> HIDE DEF before
  <1>4. first(1) = {1} /\ first(2) = {2} /\ first(3) = {3}
    BY <1>1, <1>3
  <1> HIDE DEF first
  <1>5. \A num : GetValueInt(s, num, ch) =
                   IF first(num) = {} THEN 0 ELSE s[CHOOSE i \in first(num) : TRUE].n
    BY DEF GetValueInt, first, before, starts
  <1>6. \A i : {i} # {} /\ (CHOOSE j \in {i} : TRUE) = i
    OBVIOUS
  <1> QED
    BY <1>4, <1>5, <1>6

\* Behind one there are two.
LEMMA TwoFields ==
    ASSUME NEW s, NEW ch, 1 \in DOMAIN s,
           {j \in DOMAIN s : s[j].then = ch} = {1}
    PROVE  GetValueInt(s, 1, ch) = s[1].n /\ GetValueInt(s, 2, ch) = s[2].n
  <1> DEFINE starts == {1} \cup {i + 1 : i \in {j \in DOMAIN s : s[j].then = ch}}
             before(i) == {j \in starts : j < i}
             first(num) == {i \in starts : Cardinality(before(i)) = num - 1}
  <1>1. starts = {1, 2}
    <2>1. {i + 1 : i \in {j \in DOMAIN s : s[j].then = ch}} = {i + 1 : i \in {1}}
      OBVIOUS
    <2>2. {i + 1 : i \in {1}} = {2}
      OBVIOUS
    <2> QED
      BY <2>1, <2>2
  <1> HIDE DEF starts
  <1>2. before(1) = {} /\ before(2) = {1}
    BY <1>1
  <1>3. Cardinality(before(1)) = 0 /\ Cardinality(before(2)) = 1
    BY <1>2, FS_EmptySet, FS_Singleton
  <1> HIDE DEF before
  <1>4. first(1) = {1} /\ first(2) = {2}
    BY <1>1, <1>3
  <1> HIDE DEF first
  <1>5. \A num : GetValueInt(s, num, ch) =
                   IF first(num) = {} THEN 0 ELSE s[CHOOSE i \in first(num) : TRUE].n
    BY DEF GetValueInt, first, before, starts
  <1>6. \A i : {i} # {} /\ (CHOOSE j \in {i} : TRUE) = i
    OBVIOUS
  <1> QED
    BY <1>4, <1>5, <1>6

\* A number of a text and the character behind it.
Item(n, then) == [n |-> n, then |-> then]

LEMMA ItemParts ==
    ASSUME NEW n, NEW then
    PROVE  Item(n, then).n = n /\ Item(n, then).then = then
  BY DEF Item

LEMMA ItemEndingIn ==
    ASSUME NEW n, NEW then, NEW c
    PROVE  [Item(n, then) EXCEPT !.then = c] = Item(n, c)
  BY DEF Item

\* The places of sequences of three and of six, and what becomes of the third.
LEMMA ThreePlaces ==
    ASSUME NEW x, NEW y, NEW z
    PROVE  /\ DOMAIN <<x, y, z>> = {1, 2, 3}
           /\ <<x, y, z>>[1] = x /\ <<x, y, z>>[2] = y /\ <<x, y, z>>[3] = z
  OBVIOUS

LEMMA ThreeButTheThird ==
    ASSUME NEW x, NEW y, NEW z, NEW w
    PROVE  [<<x, y, z>> EXCEPT ![3] = w] = <<x, y, w>>
  OBVIOUS

LEMMA SixPlaces ==
    ASSUME NEW S, NEW s \in Seq(S), Len(s) = 6
    PROVE  DOMAIN s = {1, 2, 3, 4, 5, 6}
  OBVIOUS

LEMMA Concatenated ==
    ASSUME NEW S, NEW d \in Seq(S), Len(d) = 3, NEW e \in Seq(S), Len(e) = 3
    PROVE  /\ d \o e \in Seq(S) /\ Len(d \o e) = 6
           /\ \A i \in {1, 2, 3} : (d \o e)[i] = d[i] /\ (d \o e)[i + 3] = e[i]
  <1> DEFINE s == d \o e
  <1>1. /\ s \in Seq(S) /\ Len(s) = Len(d) + Len(e)
        /\ \A i \in 1 .. Len(d) + Len(e) : s[i] = IF i <= Len(d) THEN d[i] ELSE e[i - Len(d)]
    BY ConcatProperties
  <1> HIDE DEF s
  <1>2. \A i \in {1, 2, 3} : s[i] = d[i] /\ s[i + 3] = e[i]
    <2> SUFFICES ASSUME NEW i \in {1, 2, 3} PROVE s[i] = d[i] /\ s[i + 3] = e[i]
      OBVIOUS
    <2>1. i \in 1 .. 6 /\ i + 3 \in 1 .. 6 /\ i <= 3 /\ ~ (i + 3 <= 3) /\ (i + 3) - 3 = i
      OBVIOUS
    <2>2. \A k \in 1 .. 6 : s[k] = IF k <= 3 THEN d[k] ELSE e[k - 3]
      BY <1>1
    <2>3. s[i] = d[i]
      BY <2>1, <2>2
    <2>4. s[i + 3] = e[(i + 3) - 3]
      BY <2>1, <2>2
    <2> QED
      BY <2>1, <2>3, <2>4
  <1> QED
    BY <1>1, <1>2 DEF s

LEMMA ThreeAndThree ==
    ASSUME NEW x1, NEW x2, NEW x3, NEW x4, NEW x5, NEW x6
    PROVE  LET s == <<x1, x2, x3>> \o <<x4, x5, x6>>
           IN /\ DOMAIN s = {1, 2, 3, 4, 5, 6}
              /\ s[1] = x1 /\ s[2] = x2 /\ s[3] = x3 /\ s[4] = x4 /\ s[5] = x5 /\ s[6] = x6
  <1> DEFINE S == {x1, x2, x3, x4, x5, x6}
             d == <<x1, x2, x3>>
             e == <<x4, x5, x6>>
             s == d \o e
  <1>1. d \in Seq(S) /\ Len(d) = 3 /\ d[1] = x1 /\ d[2] = x2 /\ d[3] = x3
    OBVIOUS
  <1>2. e \in Seq(S) /\ Len(e) = 3 /\ e[1] = x4 /\ e[2] = x5 /\ e[3] = x6
    OBVIOUS
  <1> HIDE DEF d, e, S
  <1>4. /\ s \in Seq(S) /\ Len(s) = 6
        /\ \A i \in {1, 2, 3} : s[i] = d[i] /\ s[i + 3] = e[i]
    BY <1>1, <1>2, Concatenated
  <1> HIDE DEF s
  <1>5. DOMAIN s = {1, 2, 3, 4, 5, 6}
    BY <1>4, SixPlaces
  <1>6. /\ s[1] = d[1] /\ s[2] = d[2] /\ s[3] = d[3]
        /\ s[4] = e[1] /\ s[5] = e[2] /\ s[6] = e[3]
    BY <1>4
  <1>7. /\ DOMAIN s = {1, 2, 3, 4, 5, 6}
        /\ s[1] = x1 /\ s[2] = x2 /\ s[3] = x3 /\ s[4] = x4 /\ s[5] = x5 /\ s[6] = x6
    BY <1>1, <1>2, <1>5, <1>6
  <1> QED
    BY <1>7 DEF s, d, e

\* The characters behind numbers, by name.
Dash  == "-"
Colon == ":"
Space == " "
End   == ""

LEMMA Characters ==
    /\ Dash # Colon /\ Dash # Space /\ Dash # End
    /\ Colon # Space /\ Colon # End /\ Space # End
  BY DEF Dash, Colon, Space, End

\* What is printed with separators.
LEMMA SpelledItems ==
    ASSUME NEW a, NEW b, NEW c, NEW div
    PROVE  Spelled(a, b, c, div) = <<Item(a, div), Item(b, div), Item(c, End)>>
  BY DEF Spelled, Item, End

LEMMA SpelledPlaces ==
    ASSUME NEW a, NEW b, NEW c, NEW div
    PROVE  /\ DOMAIN Spelled(a, b, c, div) = {1, 2, 3}
           /\ Spelled(a, b, c, div)[1] = Item(a, div)
           /\ Spelled(a, b, c, div)[2] = Item(b, div)
           /\ Spelled(a, b, c, div)[3] = Item(c, End)
  BY SpelledItems, ThreePlaces

\* A date, a space and a time.
DateText(a, b, c)               == [Spelled(a, b, c, "-") EXCEPT ![3].then = " "]
DateTimeText(a, b, c, h, mi, s) == DateText(a, b, c) \o Spelled(h, mi, s, ":")

LEMMA DateTextItems ==
    ASSUME NEW a, NEW b, NEW c
    PROVE  DateText(a, b, c) = <<Item(a, Dash), Item(b, Dash), Item(c, Space)>>
  <1> DEFINE x == Item(a, Dash)
             y == Item(b, Dash)
             z == Item(c, End)
             w == Item(c, Space)
             s == Spelled(a, b, c, Dash)
  <1>1. s = <<x, y, z>>
    BY SpelledItems, Zenon
  <1>2. [z EXCEPT !.then = Space] = w
    BY ItemEndingIn, Zenon
  <1> HIDE DEF x, y, z, w
  <1>3. s[3] = z
    BY <1>1, ThreePlaces
  <1>4. DateText(a, b, c) = [s EXCEPT ![3] = w]
    BY <1>2, <1>3, Zenon DEF DateText, Dash, Space
  <1>5. [<<x, y, z>> EXCEPT ![3] = w] = <<x, y, w>>
    BY ThreeButTheThird
  <1>6. DateText(a, b, c) = <<x, y, w>>
    BY <1>1, <1>4, <1>5, Zenon
  <1> QED
    BY <1>6, Zenon DEF x, y, w

\* The separators, and none of them is the end of a text or a space.
LEMMA DividersAre ==
    /\ DOMAIN Dividers = {1, 2, 3, 4, 5}
    /\ Dividers[3] = Dash /\ Dividers[4] = Colon
    /\ \A l \in {1, 2, 5} : Dividers[l] \notin {Dash, Colon, Space, End}
  <1>1. /\ Dividers[1] = "/" /\ Dividers[2] = "\\" /\ Dividers[3] = "-"
        /\ Dividers[4] = ":" /\ Dividers[5] = "."
    BY DEF Dividers
  <1>2. DOMAIN Dividers = {1, 2, 3, 4, 5}
    BY DEF Dividers
  <1>3. \A x \in {"/", "\\", "."} : x \notin {Dash, Colon, Space, End}
    BY DEF Dash, Colon, Space, End
  <1> QED
    BY <1>1, <1>2, <1>3 DEF Dash, Colon

\* A text whose first two separators are the only ones of their kind, and in
\* which no other kind comes before it in Dividers, is read as three numbers.
LEMMA ReadThree ==
    ASSUME NEW s, NEW a \in Nat, NEW b \in Nat, NEW c \in Nat, NEW k \in DOMAIN Dividers,
           1 \in DOMAIN s, 2 \in DOMAIN s,
           \A j \in DOMAIN s : s[j].then = Dividers[k] <=> j \in {1, 2},
           \A l \in DOMAIN Dividers, j \in DOMAIN s : s[j].then = Dividers[l] => l >= k,
           s[1].n = a, s[2].n = b, s[3].n = c
    PROVE  GetDateTimeFromString(s) = a * 10000 + b * 100 + c
  <1> DEFINE div == Dividers[k]
             K == {l \in DOMAIN Dividers : \E i \in DOMAIN s : s[i].then = Dividers[l]}
  <1>1. \E i \in DOMAIN s : s[i].then = div
    OBVIOUS
  <1>2. {j \in DOMAIN s : s[j].then = div} = {1, 2}
    OBVIOUS
  <1>3. /\ GetValueInt(s, 1, div) = a /\ GetValueInt(s, 2, div) = b
        /\ GetValueInt(s, 3, div) = c
    BY <1>2, ThreeFields
  <1>4. GetDateTimeFromStringByDiv(s, div) = a * 10000 + b * 100 + c
    BY <1>1, <1>3 DEF GetDateTimeFromStringByDiv
  <1>5. k \in K /\ (\A l \in K : l >= k) /\ K \subseteq {1, 2, 3, 4, 5}
    BY <1>1, DividersAre
  <1>6. GetDateTimeFromString(s) = GetDateTimeFromStringByDiv(s, Dividers[Min(K)])
    BY <1>5 DEF GetDateTimeFromString
  <1> HIDE DEF K
  <1>7. Min(K) = k
    BY <1>5 DEF Min
  <1> QED
    BY <1>4, <1>6, <1>7

\* Three numbers with a separator between them, read back.
LEMMA ReadSpelled ==
    ASSUME NEW a \in Nat, NEW b \in Nat, NEW c \in Nat, NEW div, div = Dash \/ div = Colon
    PROVE  GetDateTimeFromString(Spelled(a, b, c, div)) = a * 10000 + b * 100 + c
  <1> DEFINE s == Spelled(a, b, c, div)
  <1>1. /\ DOMAIN s = {1, 2, 3}
        /\ s[1].n = a /\ s[2].n = b /\ s[3].n = c
        /\ s[1].then = div /\ s[2].then = div /\ s[3].then = End
    <2>1. /\ DOMAIN s = {1, 2, 3}
          /\ s[1] = Item(a, div) /\ s[2] = Item(b, div) /\ s[3] = Item(c, End)
      BY SpelledPlaces
    <2> HIDE DEF s
    <2> QED
      BY <2>1, ItemParts
  <1> HIDE DEF s
  <1>3. PICK k \in {3, 4} : Dividers[k] = div
    BY DividersAre
  <1>4. k \in DOMAIN Dividers
    BY DividersAre
  <1>5. \A j \in DOMAIN s : s[j].then = Dividers[k] <=> j \in {1, 2}
    BY <1>1, <1>3, Characters
  <1>6. \A l \in DOMAIN Dividers, j \in DOMAIN s : s[j].then = Dividers[l] => l >= k
    BY <1>1, <1>3, DividersAre, Characters
  <1>7. GetDateTimeFromString(s) = a * 10000 + b * 100 + c
    BY <1>1, <1>4, <1>5, <1>6, ReadThree
  <1> QED
    BY <1>7 DEF s

\* The date is read back from a date and a time.
LEMMA ReadSix ==
    ASSUME NEW s, NEW a \in Nat, NEW b \in Nat, NEW c \in Nat, NEW h, NEW mi, NEW sec,
           DOMAIN s = {1, 2, 3, 4, 5, 6},
           s[1] = Item(a, Dash), s[2] = Item(b, Dash), s[3] = Item(c, Space),
           s[4] = Item(h, Colon), s[5] = Item(mi, Colon), s[6] = Item(sec, End)
    PROVE  GetDateTimeFromString(s) = a * 10000 + b * 100 + c
  <1>1. /\ s[1].n = a /\ s[2].n = b /\ s[3].n = c
        /\ s[1].then = Dash /\ s[2].then = Dash /\ s[3].then = Space
        /\ s[4].then = Colon /\ s[5].then = Colon /\ s[6].then = End
    BY ItemParts
  <1>2. 3 \in DOMAIN Dividers /\ 1 \in DOMAIN s /\ 2 \in DOMAIN s
    BY DividersAre
  <1>3. \A j \in DOMAIN s : s[j].then = Dividers[3] <=> j \in {1, 2}
    BY <1>1, DividersAre, Characters
  <1>4. \A l \in DOMAIN Dividers, j \in DOMAIN s : s[j].then = Dividers[l] => l >= 3
    BY <1>1, DividersAre
  <1> QED
    BY <1>1, <1>2, <1>3, <1>4, ReadThree

LEMMA ReadDateAndTime ==
    ASSUME NEW a \in Nat, NEW b \in Nat, NEW c \in Nat, NEW h, NEW mi, NEW sec
    PROVE  GetDateTimeFromString(DateTimeText(a, b, c, h, mi, sec)) = a * 10000 + b * 100 + c
  <1> DEFINE x == <<Item(a, Dash), Item(b, Dash), Item(c, Space)>>
             y == <<Item(h, Colon), Item(mi, Colon), Item(sec, End)>>
             s == x \o y
  <1>1. DateText(a, b, c) = x
    BY DateTextItems, Zenon
  <1>2. Spelled(h, mi, sec, Colon) = y
    BY SpelledItems, Zenon
  <1>3. DateTimeText(a, b, c, h, mi, sec) = s
    BY <1>1, <1>2, Zenon DEF DateTimeText, Colon
  <1>4. /\ DOMAIN s = {1, 2, 3, 4, 5, 6}
        /\ s[1] = Item(a, Dash) /\ s[2] = Item(b, Dash) /\ s[3] = Item(c, Space)
        /\ s[4] = Item(h, Colon) /\ s[5] = Item(mi, Colon) /\ s[6] = Item(sec, End)
    BY ThreeAndThree
  <1> HIDE DEF s
  <1>5. GetDateTimeFromString(s) = a * 10000 + b * 100 + c
    BY <1>4, ReadSix
  <1> QED
    BY <1>3, <1>5

\* A number alone is read as it is.
LEMMA ReadNumber ==
    ASSUME NEW n \in Nat
    PROVE  GetDateTimeFromString(<<Item(n, End)>>) = n
  <1> DEFINE x == Item(n, End)
             s == <<x>>
  <1>1. x.n = n /\ x.then = End
    BY ItemParts
  <1> HIDE DEF x
  <1>2. DOMAIN s = {1} /\ s[1] = x
    OBVIOUS
  <1> HIDE DEF s
  <1>3. {l \in DOMAIN Dividers : \E i \in DOMAIN s : s[i].then = Dividers[l]} = {}
    BY <1>1, <1>2, DividersAre, Characters
  <1>4. GetDateTimeFromString(s) = s[1].n
    BY <1>3 DEF GetDateTimeFromString
  <1>5. GetDateTimeFromString(s) = n
    BY <1>1, <1>2, <1>4
  <1> QED
    BY <1>5 DEF s, x

\* Two numbers with a dash between them, read one by one.
LEMMA ReadTwo ==
    ASSUME NEW a, NEW b
    PROVE  LET s == <<Item(a, Dash), Item(b, End)>>
           IN GetValueInt(s, 1, Dash) = a /\ GetValueInt(s, 2, Dash) = b
  <1> DEFINE x == Item(a, Dash)
             y == Item(b, End)
             s == <<x, y>>
  <1>1. x.n = a /\ x.then = Dash /\ y.n = b /\ y.then = End
    BY ItemParts
  <1> HIDE DEF x, y
  <1>2. DOMAIN s = {1, 2} /\ s[1] = x /\ s[2] = y
    OBVIOUS
  <1> HIDE DEF s
  <1>3. {j \in DOMAIN s : s[j].then = Dash} = {1}
    BY <1>1, <1>2, Characters
  <1>4. GetValueInt(s, 1, Dash) = s[1].n /\ GetValueInt(s, 2, Dash) = s[2].n
    BY <1>2, <1>3, TwoFields
  <1>5. GetValueInt(s, 1, Dash) = a /\ GetValueInt(s, 2, Dash) = b
    BY <1>1, <1>2, <1>4
  <1> QED
    BY <1>5 DEF s, x, y

\* The clock's numbers are those of the date and of the time.
LEMMA ClockNumbers ==
    ASSUME NEW y \in Int, NEW m \in Int, NEW d \in Int,
           NEW h, NEW mi, NEW s, NEW time, Shows(time, h, mi, s)
    PROVE  LET now == Tm(y, m, d, time)
           IN /\ now.tm_year + 1900 = y /\ now.tm_mon + 1 = m /\ now.tm_mday = d
              /\ now.tm_hour = h /\ now.tm_min = mi /\ now.tm_sec = s
              /\ now.tm_year = y - 1900
              /\ y >= 1900 => [now EXCEPT !.tm_year = IF @ < 0 THEN 0 ELSE @] = now
  <1>1. time \div 10000 = h /\ (time \div 100) % 100 = mi /\ time % 100 = s
    BY ClockDigits
  <1>2. Tm(y, m, d, time) = [tm_year |-> y - 1900, tm_mon |-> m - 1, tm_mday |-> d,
                             tm_hour |-> h, tm_min |-> mi, tm_sec |-> s]
    BY <1>1 DEF Tm
  <1> DEFINE now == Tm(y, m, d, time)
  <1>3. /\ now.tm_year = y - 1900 /\ now.tm_mon = m - 1 /\ now.tm_mday = d
        /\ now.tm_hour = h /\ now.tm_min = mi /\ now.tm_sec = s
    BY <1>2
  <1>4. y >= 1900 => [now EXCEPT !.tm_year = IF @ < 0 THEN 0 ELSE @] = now
    <2> SUFFICES ASSUME y >= 1900 PROVE [now EXCEPT !.tm_year = IF @ < 0 THEN 0 ELSE @] = now
      OBVIOUS
    <2>1. ~ (now.tm_year < 0)
      BY <1>3
    <2>2. [now EXCEPT !.tm_year = IF @ < 0 THEN 0 ELSE @] = [now EXCEPT !.tm_year = now.tm_year]
      BY <2>1
    <2>3. [now EXCEPT !.tm_year = now.tm_year] = now
      BY <1>2, <1>3
    <2> QED
      BY <2>2, <2>3
  <1>5. now.tm_year + 1900 = y /\ now.tm_mon + 1 = m
    BY <1>3
  <1> QED
    BY <1>3, <1>4, <1>5

\* date is the year, the month and the day written as YYYYMMDD.
Writes(date, y, m, d) ==
    /\ y \in Nat /\ m \in Nat /\ d \in Nat /\ date # 0
    /\ date = y * 10000 + m * 100 + d
    /\ Year(date) = y /\ Month(date) = m /\ Day(date) = d

\* What a date and a time of the day are printed as.
LEMMA Printed ==
    ASSUME NEW y, NEW m, NEW d, NEW date, Writes(date, y, m, d),
           NEW h, NEW mi, NEW s, NEW time, Shows(time, h, mi, s)
    PROVE  /\ FormatDate(date) = Spelled(y, m, d, Dash)
           /\ FormatTime(time) = Spelled(h, mi, s, Colon)
           /\ FormatTimeINT(time) = <<Item(time, End)>>
           /\ FormateDateTime(date, time) = DateTimeText(y, m, d, h, mi, s)
  <1>1. FormatDate(date) = Spelled(y, m, d, Dash)
    BY DEF Writes, FormatDate, Year, Month, Day, Dash
  <1>2. Parts(time)[1] = h /\ Parts(time)[2] = mi /\ Parts(time)[3] = s
    <2>1. Parts(time) = <<h, mi, s>>
      BY DayParts, Zenon
    <2> QED
      BY <2>1
  <1>3. FormatTime(time) = Spelled(h, mi, s, Colon)
    BY <1>2 DEF FormatTime, Colon
  <1>4. FormatTimeINT(time) = <<Item(time, End)>>
    <2> DEFINE n == Parts(time)[1] * 10000 + Parts(time)[2] * 100 + Parts(time)[3]
    <2>1. n = time
      BY <1>2 DEF Shows
    <2>2. FormatTimeINT(time) = <<Item(n, End)>>
      BY DEF FormatTimeINT, Item, End
    <2> HIDE DEF n
    <2> QED
      BY <2>1, <2>2
  <1>5. FormateDateTime(date, time) = DateTimeText(y, m, d, h, mi, s)
    <2> DEFINE e == [FormatDate(date) EXCEPT ![3].then = " "]
               t == Spelled(h, mi, s, ":")
    <2>1. e = DateText(y, m, d)
      BY <1>1, Zenon DEF DateText, Dash
    <2>2. FormateDateTime(date, time) = e \o FormatTime(time)
      <3> DEFINE P == date = 0
                 D == e \o FormatTime(time)
      <3>1. FormateDateTime(date, time) = IF P THEN << >> ELSE D
        BY DEF FormateDateTime
      <3>2. ~ P
        BY DEF Writes
      <3> HIDE DEF P, D, e
      <3>3. FormateDateTime(date, time) = D
        BY <3>1, <3>2
      <3> QED
        BY <3>3 DEF D
    <2>3. FormatTime(time) = t
      BY <1>3, Zenon DEF Colon
    <2>4. DateTimeText(y, m, d, h, mi, s) = DateText(y, m, d) \o t
      BY Zenon DEF DateTimeText
    <2> HIDE DEF e, t
    <2> QED
      BY <2>1, <2>2, <2>3, <2>4
  <1> QED
    BY <1>1, <1>3, <1>4, <1>5, Zenon

\* The text GetSeconds is given.
Digits(date, time) == <<[n |-> date, then |-> "-"], [n |-> time, then |-> ""]>>

LEMMA ReadDigits ==
    ASSUME NEW date, NEW time
    PROVE  /\ GetValueInt(Digits(date, time), 1, "-") = date
           /\ GetValueInt(Digits(date, time), 2, "-") = time
  <1>1. Digits(date, time) = <<Item(date, Dash), Item(time, End)>>
    BY DEF Digits, Item, Dash, End
  <1>2. /\ GetValueInt(<<Item(date, Dash), Item(time, End)>>, 1, Dash) = date
        /\ GetValueInt(<<Item(date, Dash), Item(time, End)>>, 2, Dash) = time
    BY ReadTwo
  <1>3. /\ GetValueInt(Digits(date, time), 1, Dash) = date
        /\ GetValueInt(Digits(date, time), 2, Dash) = time
    BY <1>1, <1>2, Zenon
  <1> QED
    BY <1>3, Zenon DEF Dash

\* The clock read as numbers, and back.
ClockReads(now, y, date, time) ==
    /\ now # Epoch => GetDateTime(now, Epoch) = <<date, time>>
    /\ GetDateTime(Epoch, now) = <<date, time>>
    /\ GetUTCDateTime(now) = <<date, time>>
    /\ y >= 1900 => GetSeconds(Digits(date, time)) = now

LEMMA ClockRead ==
    ASSUME NEW y, NEW m, NEW d, NEW date, Writes(date, y, m, d),
           NEW h, NEW mi, NEW s, NEW time, Shows(time, h, mi, s)
    PROVE  ClockReads(Tm(y, m, d, time), y, date, time)
  <1> DEFINE now == Tm(y, m, d, time)
  <1>1. /\ y \in Int /\ m \in Int /\ d \in Int /\ y \in Nat /\ date = y * 10000 + m * 100 + d
        /\ Year(date) = y /\ Month(date) = m /\ Day(date) = d
    BY DEF Writes
  <1>2. /\ now.tm_year + 1900 = y /\ now.tm_mon + 1 = m /\ now.tm_mday = d
        /\ now.tm_hour = h /\ now.tm_min = mi /\ now.tm_sec = s
        /\ y >= 1900 => [now EXCEPT !.tm_year = IF @ < 0 THEN 0 ELSE @] = now
    BY <1>1, ClockNumbers
  <1>3. h \in Nat /\ mi \in Nat /\ s \in Nat /\ time = h * 10000 + mi * 100 + s
    BY DEF Shows
  <1>4. y >= 1900 => GetSeconds(Digits(date, time)) = now
    <2>1. Tm(Year(date), Month(date), Day(date), time) = now
      BY <1>1
    <2> HIDE DEF now
    <2>2. GetSeconds(Digits(date, time)) = [now EXCEPT !.tm_year = IF @ < 0 THEN 0 ELSE @]
      BY <2>1, ReadDigits DEF GetSeconds, Year, Month, Day
    <2> QED
      BY <1>2, <2>2
  <1> HIDE DEF now
  <1>5. /\ 10000 * (now.tm_year + 1900) + 100 * (now.tm_mon + 1) + now.tm_mday = date
        /\ (now.tm_year + 1900) * 10000 + (now.tm_mon + 1) * 100 + now.tm_mday = date
        /\ 10000 * now.tm_hour + 100 * now.tm_min + now.tm_sec = time
        /\ now.tm_hour * 10000 + now.tm_min * 100 + now.tm_sec = time
    BY <1>1, <1>2, <1>3
  <1>6. GetUTCDateTime(now) = <<date, time>>
    BY <1>5 DEF GetUTCDateTime
  <1>7. When(now, Epoch) = now /\ When(Epoch, now) = now
    BY DEF When
  <1>8. GetDateTime(now, Epoch) = <<date, time>> /\ GetDateTime(Epoch, now) = <<date, time>>
    BY <1>5, <1>7 DEF GetDateTime, GetDate, GetTime
  <1>9. ClockReads(now, y, date, time)
    BY <1>4, <1>6, <1>8 DEF ClockReads
  <1> QED
    BY <1>9 DEF now

\* What GetTimeString prints of a time after the epoch.
LEMMA PrintedClock ==
    ASSUME NEW y \in Int, NEW m \in Int, NEW d \in Int,
           NEW h, NEW mi, NEW s, NEW time, Shows(time, h, mi, s),
           y >= 1970, Tm(y, m, d, time) # Epoch
    PROVE  GetTimeString(Tm(y, m, d, time)) = DateTimeText(y, m, d, h, mi, s)
  <1> DEFINE now == Tm(y, m, d, time)
  <1>1. /\ now.tm_year + 1900 = y /\ now.tm_mon + 1 = m /\ now.tm_mday = d
        /\ now.tm_hour = h /\ now.tm_min = mi /\ now.tm_sec = s /\ now.tm_year = y - 1900
    BY ClockNumbers
  <1>2. now # Epoch
    OBVIOUS
  <1> HIDE DEF now
  <1>3. ~ (now.tm_year < 70)
    BY <1>1
  <1> DEFINE e == [Spelled(now.tm_year + 1900, now.tm_mon + 1, now.tm_mday, "-")
                     EXCEPT ![3].then = " "]
             t == Spelled(now.tm_hour, now.tm_min, now.tm_sec, ":")
  <1>4. GetTimeString(now) = e \o t
    <2> DEFINE P == now.tm_year < 70 \/ now = Epoch
               D == e \o t
    <2>1. GetTimeString(now) = IF P THEN << >> ELSE D
      BY DEF GetTimeString
    <2>2. ~ P
      BY <1>2, <1>3
    <2> HIDE DEF P, D, e, t
    <2>3. GetTimeString(now) = D
      BY <2>1, <2>2
    <2> QED
      BY <2>3 DEF D
  <1>5. e = DateText(now.tm_year + 1900, now.tm_mon + 1, now.tm_mday)
    BY DEF DateText
  <1>6. t = Spelled(h, mi, s, ":")
    BY <1>1
  <1> HIDE DEF e, t
  <1>7. e = DateText(y, m, d)
    BY <1>1, <1>5
  <1>8. DateTimeText(y, m, d, h, mi, s) = DateText(y, m, d) \o Spelled(h, mi, s, ":")
    BY DEF DateTimeText
  <1>9. GetTimeString(now) = DateTimeText(y, m, d, h, mi, s)
    BY <1>4, <1>6, <1>7, <1>8
  <1> QED
    BY <1>9 DEF now

\* A printed date and a printed time, read back and printed again.
TextsComeBack(date, time) ==
    /\ GetDateTimeFromString(FormatTime(time)) = time
    /\ GetDateTimeFromString(FormatTimeINT(time)) = time
    /\ GetDateTimeFromString(FormatDate(date)) = date
    /\ GetDateTimeFromString(FormateDateTime(date, time)) = date
    /\ FormatDateText(FormatDate(date)) = FormatDate(date)
    /\ FormatTimeText(FormatTimeINT(time)) = FormatTime(time)
    /\ FormatTimeToString(FormatTime(time)) = FormatTimeINT(time)

LEMMA TextsRead ==
    ASSUME NEW y, NEW m, NEW d, NEW date, Writes(date, y, m, d),
           NEW h, NEW mi, NEW s, NEW time, Shows(time, h, mi, s)
    PROVE  TextsComeBack(date, time)
  <1>1. /\ FormatDate(date) = Spelled(y, m, d, Dash)
        /\ FormatTime(time) = Spelled(h, mi, s, Colon)
        /\ FormatTimeINT(time) = <<Item(time, End)>>
        /\ FormateDateTime(date, time) = DateTimeText(y, m, d, h, mi, s)
    BY Printed
  <1>2. /\ h \in Nat /\ mi \in Nat /\ s \in Nat /\ time \in Nat
        /\ time = h * 10000 + mi * 100 + s
    BY DEF Shows
  <1>3. y \in Nat /\ m \in Nat /\ d \in Nat /\ date = y * 10000 + m * 100 + d
    BY DEF Writes
  <1>4. GetDateTimeFromString(FormatTime(time)) = time
    BY <1>1, <1>2, ReadSpelled
  <1>5. GetDateTimeFromString(FormatTimeINT(time)) = time
    BY <1>1, <1>2, ReadNumber
  <1>6. GetDateTimeFromString(FormatDate(date)) = date
    BY <1>1, <1>3, ReadSpelled
  <1>7. GetDateTimeFromString(FormateDateTime(date, time)) = date
    BY <1>1, <1>2, <1>3, ReadDateAndTime
  <1>8. /\ FormatDateText(FormatDate(date)) = FormatDate(date)
        /\ FormatTimeText(FormatTimeINT(time)) = FormatTime(time)
        /\ FormatTimeToString(FormatTime(time)) = FormatTimeINT(time)
    BY <1>4, <1>5, <1>6, Zenon DEF FormatDateText, FormatTimeText, FormatTimeToString
  <1> QED
    BY <1>4, <1>5, <1>6, <1>7, <1>8, Zenon DEF TextsComeBack

\* Whatever day the walk is at, the clock and the texts give that day and time
\* back, and times with milliseconds and with hundredths print as stated.
THEOREM TimesComeBack == Spec => []TimesReadBack
  <1>1. IInv => TimesReadBack
    <2> SUFFICES ASSUME IInv PROVE TimesReadBack
      OBVIOUS
    <2> DEFINE y == today.y
               m == today.m
               d == today.d
               time == TimeOfDay
    <2>1. PICK h, mi, s : Shows(time, h, mi, s)
      BY ClockTime DEF IInv, Placed
    <2>2. Writes(rq, y, m, d) /\ y \in Int /\ m \in Int /\ d \in Int
      <3>1. today.y \in Nat \ {0} /\ today.m \in 1..12 /\ today.d \in 1..31
        BY DateParts DEF IInv, Placed
      <3>2. Year(Rq(today)) = y /\ Month(Rq(today)) = m /\ Day(Rq(today)) = d
        BY <3>1, Decode
      <3>3. rq = Rq(today)
        BY DEF IInv, WalkAgrees
      <3>4. rq = y * 10000 + m * 100 + d
        BY <3>3 DEF Rq
      <3>5. y \in Nat \ {0} /\ m \in Nat /\ d \in Nat /\ y \in Int /\ m \in Int /\ d \in Int
        BY <3>1
      <3> HIDE DEF y, m, d
      <3>6. rq # 0
        BY <3>4, <3>5
      <3>7. Year(rq) = y /\ Month(rq) = m /\ Day(rq) = d
        BY <3>2, <3>3
      <3> QED
        BY <3>4, <3>5, <3>6, <3>7 DEF Writes
    <2>3. Now = Tm(y, m, d, time)
      BY DEF Now
    <2> HIDE DEF y, m, d, time
    <2>4. ClockReadsBack
      <3>1. ClockReads(Now, y, rq, time)
        BY <2>1, <2>2, <2>3, ClockRead
      <3> QED
        BY <3>1 DEF ClockReads, ClockReadsBack, Digits, y, time
    <2>5. TextsReadBack
      <3>1. TextsComeBack(rq, time)
        BY <2>1, <2>2, TextsRead
      <3> QED
        BY <3>1, Zenon DEF TextsComeBack, TextsReadBack, time
    <2>6. TimePrintsAlike
      <3>1. FormateDateTime(rq, time) = DateTimeText(y, m, d, h, mi, s)
        BY <2>1, <2>2, Printed
      <3>2. y >= 1970 /\ Now # Epoch => GetTimeString(Now) = DateTimeText(y, m, d, h, mi, s)
        BY <2>1, <2>2, <2>3, PrintedClock
      <3>3. y >= 1970 /\ Now # Epoch => GetTimeString(Now) = FormateDateTime(rq, time)
        BY <3>1, <3>2
      <3> QED
        BY <3>3 DEF TimePrintsAlike, y, time
    <2>7. LongTimesPrint
      <3>1. ASSUME NEW ms \in {0, 1, 999}, TimeOfDay * 1000 + ms > 10000000
            PROVE  Parts(TimeOfDay * 1000 + ms) = Parts(TimeOfDay)
        BY <2>1, <3>1, MillisecondParts, SMT DEF time
      <3>2. ASSUME NEW cs \in {0, 99},
                   TimeOfDay * 100 + cs > 1000000, TimeOfDay * 100 + cs <= 10000000
            PROVE  Parts(TimeOfDay * 100 + cs) # Parts(TimeOfDay)
        BY <2>1, <3>2, HundredthParts, SMT DEF time
      <3> QED
        BY <3>1, <3>2, SMT DEF LongTimesPrint
    <2> QED
      BY <2>4, <2>5, <2>6, <2>7, Zenon DEF TimesReadBack
  <1> QED
    BY <1>1, DateInvariance, PTL


-------------------------------------------------------------------------------
(***************************************************************************)
(* Sums.  SumTo is a recursive function; that it has the value one expects *)
(* is shown with its closed form, which exists and is the only one.        *)
(***************************************************************************)

\* A set of numbers that is not empty has a least element.
LEMMA Least ==
    ASSUME NEW S \in SUBSET Nat, S # {}
    PROVE  \E x \in S : \A y \in S : x <= y
  <1> DEFINE Below(n) == 0 .. n
             T == {Below(n) : n \in S}
  <1>1. \A n \in S : Below(n) \in FiniteSubsetsOf(Nat)
    BY FS_Interval DEF FiniteSubsetsOf
  <1>2. PICK A \in T : \A B \in T : <<B, A>> \notin StrictSubsetOrdering(Nat)
    <2>1. T \subseteq FiniteSubsetsOf(Nat) /\ T # {}
      BY <1>1
    <2> HIDE DEF T
    <2> QED
      BY <2>1, FS_StrictSubsetOrderingWellFounded, WFMin
  <1>3. PICK x \in S : A = Below(x)
    BY <1>2
  <1>4. \A y \in S : x <= y
    <2> SUFFICES ASSUME NEW y \in S, y < x PROVE FALSE
      OBVIOUS
    <2>1. Below(y) \in T /\ Below(y) \subseteq Below(x) /\ Below(x) \subseteq Nat
      OBVIOUS
    <2>2. x \in Below(x) /\ x \notin Below(y)
      OBVIOUS
    <2> HIDE DEF Below, T
    <2> QED
      BY <1>2, <1>3, <2>1, <2>2 DEF StrictSubsetOrdering
  <1> QED
    BY <1>4

\* The sum of the differences of c is what c has grown by.
LEMMA SumIs ==
    ASSUME NEW n \in Nat, NEW term, NEW c,
           \A k \in 0..n : c[k] \in Int,
           \A k \in 1..n : term[k] = c[k] - c[k - 1]
    PROVE  SumTo(term, n) = c[n] - c[0]
  <1> DEFINE Sums(f) == f = [k \in 0..n |-> IF k = 0 THEN 0 ELSE f[k - 1] + term[k]]
             total == CHOOSE f : Sums(f)
             w == [k \in 0..n |-> c[k] - c[0]]
  <1>1. SumTo(term, n) = total[n]
    BY DEF SumTo
  <1>2. Sums(w)
    <2>1. ASSUME NEW k \in 0..n
          PROVE  w[k] = IF k = 0 THEN 0 ELSE w[k - 1] + term[k]
      <3>1. CASE k = 0
        BY <3>1
      <3>2. CASE k # 0
        <4>1. k \in 1..n /\ k - 1 \in 0..n /\ 0 \in 0..n
          BY <3>2
        <4>2. w[k] = c[k] - c[0] /\ w[k - 1] = c[k - 1] - c[0]
          BY <4>1
        <4> QED
          BY <3>2, <4>1, <4>2
      <3> QED
        BY <3>1, <3>2
    <2> QED
      BY <2>1
  <1>3. Sums(total)
    <2> HIDE DEF Sums
    <2> QED
      BY <1>2
  <1>4. total = [k \in 0..n |-> IF k = 0 THEN 0 ELSE total[k - 1] + term[k]]
    BY <1>3
  <1> HIDE DEF Sums, total
  <1>5. \A k \in 0..n : total[k] = IF k = 0 THEN 0 ELSE total[k - 1] + term[k]
    BY <1>4
  <1> DEFINE Wrong == {k \in 0..n : total[k] # c[k] - c[0]}
  <1>6. Wrong = {}
    <2> SUFFICES ASSUME Wrong # {} PROVE FALSE
      OBVIOUS
    <2>1. PICK k \in Wrong : \A j \in Wrong : k <= j
      <3>1. Wrong \in SUBSET Nat
        OBVIOUS
      <3> HIDE DEF Wrong
      <3> QED
        BY <3>1, Least
    <2>2. k \in 0..n /\ total[k] # c[k] - c[0]
      OBVIOUS
    <2>3. CASE k = 0
      BY <1>5, <2>2, <2>3
    <2>4. CASE k # 0
      <3>1. k \in 1..n /\ k - 1 \in 0..n /\ 0 \in 0..n
        BY <2>2, <2>4
      <3>2. k - 1 \notin Wrong
        BY <2>1, <3>1
      <3>3. total[k - 1] = c[k - 1] - c[0]
        BY <3>1, <3>2
      <3>4. total[k] = total[k - 1] + term[k]
        BY <1>5, <2>2, <2>4
      <3> QED
        BY <2>2, <3>1, <3>3, <3>4
    <2> QED
      BY <2>3, <2>4
  <1>7. total[n] = c[n] - c[0]
    BY <1>6
  <1> QED
    BY <1>1, <1>7

-------------------------------------------------------------------------------
(***************************************************************************)
(* Months in a row.  Month n is month (n % 12) + 1 of year n \div 12, and  *)
(* every sum of the code is a difference of the first days of two months.  *)
(***************************************************************************)
MonthLength(n) == LastDay(n \div 12, (n % 12) + 1)
First(n)       == to_days(n \div 12, (n % 12) + 1, 1)
Place(y, m)    == 12 * y + m - 1

LEMMA PlaceParts ==
    ASSUME NEW y \in Int, NEW m \in 1..12
    PROVE  /\ Place(y, m) \in Int
           /\ Place(y, m) \div 12 = y /\ Place(y, m) % 12 = m - 1
           /\ MonthLength(Place(y, m)) = LastDay(y, m)
           /\ First(Place(y, m)) = to_days(y, m, 1)
  <1>1. Place(y, m) \in Int /\ Place(y, m) \div 12 = y /\ Place(y, m) % 12 = m - 1
    BY DEF Place
  <1>2. (m - 1) + 1 = m
    OBVIOUS
  <1> QED
    BY <1>1, <1>2 DEF MonthLength, First

\* The number of a day is that of the first of its month and the days since.
LEMMA DayInMonth ==
    ASSUME NEW y \in Nat \ {0}, NEW m \in 1..12, NEW d \in 1..31
    PROVE  to_days(y, m, d) = First(Place(y, m)) + d - 1
  <1>1. First(Place(y, m)) = to_days(y, m, 1)
    <2>1. y \in Int
      OBVIOUS
    <2> QED
      BY <2>1, PlaceParts, Zenon
  <1>2. to_days(y, m, d) = to_days(y, m, 1) + d - 1
    BY DEF to_days
  <1> QED
    BY <1>1, <1>2

\* A month lasts until the first of the next.
LEMMA NextMonth ==
    ASSUME NEW n \in Nat, 12 <= n
    PROVE  /\ First(n) \in Int /\ MonthLength(n) \in 28..31
           /\ First(n + 1) = First(n) + MonthLength(n)
  <1> DEFINE y == n \div 12
             m == (n % 12) + 1
             last == LastDay(y, m)
  <1>1. y \in Nat \ {0} /\ m \in 1..12 /\ n = Place(y, m)
    BY DEF Place
  <1>2. First(n) = to_days(y, m, 1) /\ MonthLength(n) = last
    BY DEF First, MonthLength
  <1>3. First(n + 1) = IF m < 12 THEN to_days(y, m + 1, 1) ELSE to_days(y + 1, 1, 1)
    <2>1. CASE m < 12
      <3>1. n + 1 = Place(y, m + 1) /\ m + 1 \in 1..12
        BY <1>1, <2>1 DEF Place
      <3>2. y \in Int
        BY <1>1
      <3> HIDE DEF y, m
      <3>3. First(Place(y, m + 1)) = to_days(y, m + 1, 1)
        BY <3>1, <3>2, PlaceParts, Zenon
      <3> QED
        BY <2>1, <3>1, <3>3, Zenon
    <2>2. CASE ~(m < 12)
      <3>1. n + 1 = Place(y + 1, 1) /\ y + 1 \in Int
        BY <1>1, <2>2 DEF Place
      <3>2. 1 \in 1..12
        OBVIOUS
      <3> HIDE DEF y, m
      <3>3. First(Place(y + 1, 1)) = to_days(y + 1, 1, 1)
        BY <3>1, <3>2, PlaceParts, Zenon
      <3> QED
        BY <2>2, <3>1, <3>3, Zenon
    <2> QED
      BY <2>1, <2>2
  <1> HIDE DEF y, m
  <1>4. last \in 28..31 /\ last \in 1..31 /\ last \in 1..LastDay(y, m)
    <2>1. last \in 28..31
      BY <1>1, LastDayType
    <2> QED
      BY <2>1
  <1>5. Tomorrow(Date(y, m, last)) = IF m < 12 THEN Date(y, m + 1, 1) ELSE Date(y + 1, 1, 1)
    BY <1>1, <1>4 DEF Tomorrow, Date
  <1>6. First(n + 1) = to_days(y, m, last) + 1
    <2>1. LET t == Tomorrow(Date(y, m, last))
          IN to_days(t.y, t.m, t.d) = to_days(y, m, last) + 1
      BY <1>1, <1>4, Successor
    <2> QED
      BY <1>3, <1>5, <2>1 DEF Date
  <1> HIDE DEF last
  <1>7. to_days(y, m, last) = First(n) + last - 1
    BY <1>1, <1>4, DayInMonth
  <1>8. First(n) \in Int
    <2>1. 1 \in 1..31
      OBVIOUS
    <2> QED
      BY <1>1, <1>2, <2>1, ToDaysType, Zenon
  <1> QED
    BY <1>2, <1>4, <1>6, <1>7, <1>8

\* Later months begin later, by 28 days for each month at least.
LEMMA MonthsGrow ==
    ASSUME NEW a \in Nat, NEW b \in Nat, 12 <= a, a <= b
    PROVE  First(a) + 28 * (b - a) <= First(b) /\ First(a) <= First(b)
  <1> DEFINE Early == {n \in Nat : a <= n /\ First(n) < First(a) + 28 * (n - a)}
  <1>1. Early = {}
    <2> SUFFICES ASSUME Early # {} PROVE FALSE
      OBVIOUS
    <2>1. PICK n \in Early : \A j \in Early : n <= j
      <3>1. Early \in SUBSET Nat
        OBVIOUS
      <3> HIDE DEF Early
      <3> QED
        BY <3>1, Least
    <2>2. First(a) \in Int
      BY NextMonth
    <2>3. n # a
      BY <2>2
    <2>4. n - 1 \in Nat /\ a <= n - 1 /\ n - 1 \notin Early /\ (n - 1) + 1 = n
      BY <2>1, <2>3
    <2>5. First(n - 1) \in Int /\ First(n - 1) >= First(a) + 28 * ((n - 1) - a)
      BY <2>2, <2>4, NextMonth
    <2>6. First(n) >= First(n - 1) + 28
      <3>1. /\ First((n - 1) + 1) = First(n - 1) + MonthLength(n - 1)
            /\ MonthLength(n - 1) \in 28..31
        BY <2>4, NextMonth
      <3> QED
        BY <2>4, <2>5, <3>1
    <2>7. First(n) \in Int
      BY NextMonth
    <2> QED
      BY <2>2, <2>4, <2>5, <2>6, <2>7
  <1>2. First(a) \in Int /\ First(b) \in Int
    BY NextMonth
  <1>3. b \notin Early
    BY <1>1
  <1> QED
    BY <1>2, <1>3

\* A date lies in its month.
LEMMA DayPlace ==
    ASSUME NEW t \in DatesOf(MinYear .. MaxYear)
    PROVE  LET n == Place(t.y, t.m)
           IN /\ n \in Nat /\ 12 <= n /\ n = 12 * t.y + t.m - 1
              /\ First(n) \in Int /\ First(n + 1) \in Int /\ DaysOf(t) \in Int
              /\ DaysOf(t) = First(n) + t.d - 1
              /\ First(n + 1) = First(n) + LastDay(t.y, t.m)
              /\ First(n) <= DaysOf(t) /\ DaysOf(t) < First(n + 1)
  <1> DEFINE n == Place(t.y, t.m)
             y == t.y
             m == t.m
             d == t.d
             last == LastDay(t.y, t.m)
  <1>1. y \in Nat \ {0} /\ y \in Int /\ m \in 1..12 /\ d \in 1..31 /\ d \in 1..last /\ last \in 28..31
    <2>1. y \in Nat \ {0} /\ m \in 1..12 /\ d \in 1..31 /\ d \in 1..last /\ last \in 28..31
      BY DateParts, Zenon
    <2>2. y \in Nat \ {0} => y \in Int
      OBVIOUS
    <2> QED
      BY <2>1, <2>2, Zenon
  <1>2. to_days(y, m, d) = First(n) + d - 1
    BY <1>1, DayInMonth, Zenon
  <1>3. MonthLength(n) = last
    BY <1>1, PlaceParts, Zenon
  <1>4. n = 12 * y + m - 1
    BY DEF Place
  <1>5. DaysOf(t) = to_days(y, m, d)
    BY DEF DaysOf
  <1> HIDE DEF n, y, m, d, last
  <1>6. n \in Nat /\ 12 <= n
    BY <1>1, <1>4
  <1>7. First(n) \in Int /\ First(n + 1) = First(n) + MonthLength(n)
    BY <1>6, NextMonth
  <1>8. /\ First(n + 1) \in Int /\ DaysOf(t) \in Int /\ DaysOf(t) = First(n) + d - 1
        /\ First(n + 1) = First(n) + last
        /\ First(n) <= DaysOf(t) /\ DaysOf(t) < First(n + 1)
    BY <1>1, <1>2, <1>3, <1>5, <1>7
  <1> QED
    BY <1>4, <1>6, <1>7, <1>8, Zenon DEF n, y, m, d, last

\* The order of two dates' digits, and that of their months in a row.
LEMMA Digitwise ==
    ASSUME NEW a, a.y \in Nat, a.m \in 1..12, a.d \in 1..31,
           NEW b, b.y \in Nat, b.m \in 1..12, b.d \in 1..31
    PROVE  /\ Rq(a) \in Nat /\ Rq(b) \in Nat
           /\ 12 * a.y + a.m < 12 * b.y + b.m => Rq(a) < Rq(b)
           /\ 12 * a.y + a.m = 12 * b.y + b.m => (Rq(a) < Rq(b) <=> a.d < b.d)
  <1> DEFINE y == a.y
             m == a.m
             d == a.d
             z == b.y
             n == b.m
             e == b.d
             rqy == Rq(a)
             rqz == Rq(b)
  <1>1. /\ y \in Nat /\ m \in 1..12 /\ d \in 1..31
        /\ z \in Nat /\ n \in 1..12 /\ e \in 1..31
    OBVIOUS
  <1>2. rqy = y * 10000 + m * 100 + d /\ rqz = z * 10000 + n * 100 + e
    BY DEF Rq
  <1> HIDE DEF y, m, d, z, n, e, rqy, rqz
  <1>3. rqy \in Nat /\ rqz \in Nat
    BY <1>1, <1>2, SMT
  <1>4. CASE y < z
    <2>1. y + 1 <= z
      BY <1>1, <1>4
    <2>2. 12 * y + m < 12 * z + n
      BY <1>1, <2>1
    <2>3. rqy < rqz
      BY <1>1, <1>2, <2>1, SMT
    <2>4. 12 * y + m # 12 * z + n
      BY <1>1, <2>2
    <2> QED
      BY <1>3, <2>2, <2>3, <2>4, Zenon DEF y, m, d, z, n, e, rqy, rqz
  <1>5. CASE y = z
    <2>1. m < n => rqy < rqz
      BY <1>1, <1>2, <1>5, SMT
    <2>2. m = n => (rqy < rqz <=> d < e)
      BY <1>1, <1>2, <1>5, SMT
    <2>3. /\ 12 * y + m < 12 * z + n <=> m < n
          /\ 12 * y + m = 12 * z + n <=> m = n
      BY <1>1, <1>5
    <2> QED
      BY <1>3, <2>1, <2>2, <2>3, Zenon DEF y, m, d, z, n, e, rqy, rqz
  <1>6. CASE z < y
    <2>1. z + 1 <= y
      BY <1>1, <1>6
    <2>2. ~(12 * y + m < 12 * z + n) /\ 12 * y + m # 12 * z + n
      BY <1>1, <2>1
    <2> QED
      BY <1>3, <2>2, Zenon DEF y, m, d, z, n, e, rqy, rqz
  <1> QED
    BY <1>1, <1>4, <1>5, <1>6

\* A date is a number other than 0, which stands for the current date.
LEMMA RqType ==
    ASSUME NEW t \in DatesOf(MinYear .. MaxYear)
    PROVE  Rq(t) \in Nat /\ Rq(t) # 0
  <1> DEFINE y == t.y
             m == t.m
             d == t.d
             n == Rq(t)
  <1>1. y \in Nat /\ m \in 1..12 /\ d \in 1..31
    BY DateParts
  <1>2. n = y * 10000 + m * 100 + d
    BY DEF Rq
  <1> HIDE DEF y, m, d, n
  <1>3. n \in Nat /\ n # 0
    BY <1>1, <1>2, SMT
  <1> QED
    BY <1>3, Zenon DEF n

\* The later of two YYYYMMDD dates is the later day.
LEMMA DayOrder ==
    ASSUME NEW a \in DatesOf(MinYear .. MaxYear), NEW b \in DatesOf(MinYear .. MaxYear)
    PROVE  /\ Rq(a) < Rq(b) => DaysOf(a) < DaysOf(b)
           /\ Rq(a) = Rq(b) => DaysOf(a) = DaysOf(b)
  <1> DEFINE p == Place(a.y, a.m)
             q == Place(b.y, b.m)
             ya == a.y
             ma == a.m
             da == a.d
             yb == b.y
             mb == b.m
             db == b.d
  <1>1. /\ p \in Nat /\ 12 <= p /\ First(p) \in Int /\ First(p + 1) \in Int /\ DaysOf(a) \in Int
        /\ DaysOf(a) = First(p) + da - 1 /\ DaysOf(a) < First(p + 1) /\ p = 12 * ya + ma - 1
    BY DayPlace
  <1>2. /\ q \in Nat /\ 12 <= q /\ First(q) \in Int /\ DaysOf(b) \in Int
        /\ DaysOf(b) = First(q) + db - 1 /\ First(q) <= DaysOf(b) /\ q = 12 * yb + mb - 1
    BY DayPlace
  <1>3. /\ ya \in Nat /\ ma \in 1..12 /\ da \in 1..31
        /\ yb \in Nat /\ mb \in 1..12 /\ db \in 1..31
    BY DateParts
  <1>4. /\ 12 * ya + ma < 12 * yb + mb => Rq(a) < Rq(b)
        /\ 12 * ya + ma = 12 * yb + mb => (Rq(a) < Rq(b) <=> da < db)
        /\ Rq(a) \in Nat /\ Rq(b) \in Nat
    BY <1>3, Digitwise, Zenon
  <1>9. /\ 12 * yb + mb < 12 * ya + ma => Rq(b) < Rq(a)
        /\ 12 * yb + mb = 12 * ya + ma => (Rq(b) < Rq(a) <=> db < da)
    BY <1>3, Digitwise, Zenon
  <1> HIDE DEF p, q, ya, ma, da, yb, mb, db
  <1>8. /\ p < q => Rq(a) < Rq(b)
        /\ q < p => Rq(b) < Rq(a)
        /\ p = q => (Rq(a) < Rq(b) <=> da < db) /\ (Rq(b) < Rq(a) <=> db < da)
        /\ Rq(a) \in Nat /\ Rq(b) \in Nat
    <2>1. /\ p < q <=> 12 * ya + ma < 12 * yb + mb
          /\ q < p <=> 12 * yb + mb < 12 * ya + ma
          /\ p = q <=> 12 * ya + ma = 12 * yb + mb
      BY <1>1, <1>2, <1>3
    <2> QED
      BY <1>4, <1>9, <2>1
  <1>5. CASE p < q
    <2>1. p + 1 \in Nat /\ 12 <= p + 1 /\ p + 1 <= q
      BY <1>1, <1>2, <1>5
    <2>2. First(p + 1) <= First(q)
      BY <1>2, <2>1, MonthsGrow, Zenon
    <2>3. Rq(a) # Rq(b)
      BY <1>4, <1>5, <1>8
    <2> QED
      BY <1>1, <1>2, <2>2, <2>3
  <1>6. CASE p = q
    <2>1. /\ Rq(a) < Rq(b) => da < db
          /\ Rq(a) = Rq(b) => da = db
      BY <1>3, <1>4, <1>6, <1>8
    <2> QED
      BY <1>1, <1>2, <1>3, <1>6, <2>1
  <1>7. CASE q < p
    <2>1. ~(Rq(a) < Rq(b)) /\ Rq(a) # Rq(b)
      BY <1>4, <1>7, <1>8
    <2> QED
      BY <2>1
  <1> QED
    BY <1>1, <1>2, <1>5, <1>6, <1>7

-------------------------------------------------------------------------------
(***************************************************************************)
(* The day of the year, the years between and days_num.                    *)
(***************************************************************************)

\* The first days of years, and how far apart they are.
LEMMA YearIs ==
    ASSUME NEW y \in Nat \ {0}
    PROVE  /\ First(Place(y, 1)) \in Int
           /\ YearLength(y) \in {365, 366}
           /\ First(Place(y + 1, 1)) = First(Place(y, 1)) + YearLength(y)
  <1> DEFINE z == y - 1
             w == y + 1
  <1>1. z \in Nat /\ y = z + 1 /\ y \in Int /\ w \in Int /\ w \in Nat /\ 1 \in 1..12 /\ w = y + 1
    OBVIOUS
  <1>2. First(Place(y, 1)) = to_days(y, 1, 1) /\ First(Place(w, 1)) = to_days(w, 1, 1)
    <2> HIDE DEF w
    <2> QED
      BY <1>1, PlaceParts, Zenon
  <1>3. to_days(y, 1, 1) = BeforeYear(z) + 306 /\ to_days(w, 1, 1) = BeforeYear(y) + 306
    BY DEF to_days, BeforeYear
  <1>4. BeforeYear(y) = BeforeYear(z) + (IF Leap(y) THEN 366 ELSE 365)
    <2> HIDE DEF z
    <2> QED
      BY <1>1, NextYear
  <1>5. YearLength(y) = IF Leap(y) THEN 366 ELSE 365
    BY DEF YearLength, Leap, IsRunnian
  <1>6. BeforeYear(z) \in Int
    BY DEF BeforeYear
  <1> HIDE DEF z
  <1> QED
    BY <1>2, <1>3, <1>4, <1>5, <1>6

\* The months before a date and its day make its number in the year.
LEMMA YearDay ==
    ASSUME NEW y \in Nat \ {0}, NEW m \in 1..12, NEW d \in 1..31
    PROVE  days_of_year(y, m, d) = to_days(y, m, d) - First(Place(y, 1)) + 1
  <1> DEFINE p == Place(y, 1)
             n == m - 1
             term == days_of_mon(y)
             c == [k \in 0..n |-> First(p + k)]
  <1>1. p \in Nat /\ 12 <= p /\ p = 12 * y /\ n \in Nat /\ n <= 11 /\ n \in 0..n /\ 0 \in 0..n
    BY DEF Place
  <1>2. \A k \in 0..n : First(p + k) \in Int
    <2> SUFFICES ASSUME NEW k \in 0..n PROVE First(p + k) \in Int
      OBVIOUS
    <2>1. p + k \in Nat /\ 12 <= p + k
      BY <1>1
    <2> QED
      BY <2>1, NextMonth
  <1>3. \A k \in 1..n : term[k] = First(p + k) - First(p + (k - 1))
    <2> SUFFICES ASSUME NEW k \in 1..n PROVE term[k] = First(p + k) - First(p + (k - 1))
      OBVIOUS
    <2>1. k \in 1..12 /\ y \in Int /\ k \in Int
      BY <1>1
    <2>2. term[k] = LastDay(y, k)
      BY <2>1, Table
    <2> HIDE DEF term
    <2> DEFINE q == p + (k - 1)
    <2>3. q \in Nat /\ 12 <= q /\ q + 1 = p + k /\ q = Place(y, k)
      BY <1>1, <2>1 DEF Place
    <2>4. MonthLength(q) = LastDay(y, k)
      BY <2>1, <2>3, PlaceParts, Zenon
    <2> HIDE DEF q, p
    <2>5. First(q) \in Int /\ MonthLength(q) \in 28..31 /\ First(q + 1) = First(q) + MonthLength(q)
      BY <2>3, NextMonth
    <2>6. term[k] = First(q + 1) - First(q)
      BY <2>2, <2>4, <2>5
    <2> QED
      BY <2>3, <2>6 DEF q
  <1> HIDE DEF p, n, term
  <1>4. SumTo(term, n) = First(p + n) - First(p)
    <2>1. \A k \in 0..n : c[k] = First(p + k)
      OBVIOUS
    <2>2. \A k \in 0..n : c[k] \in Int
      BY <1>2
    <2>3. \A k \in 1..n : term[k] = c[k] - c[k - 1]
      BY <1>1, <1>3
    <2>4. c[n] = First(p + n) /\ c[0] = First(p)
      BY <1>1
    <2> HIDE DEF c
    <2>5. SumTo(term, n) = c[n] - c[0]
      BY <1>1, <2>2, <2>3, SumIs
    <2> QED
      BY <2>4, <2>5
  <1>5. p + n = Place(y, m)
    BY <1>1 DEF Place, n
  <1>6. to_days(y, m, d) = First(p + n) + d - 1
    BY <1>5, DayInMonth
  <1>7. days_of_year(y, m, d) = SumTo(term, n) + d
    BY DEF days_of_year, term, n
  <1>8. First(p + n) \in Int /\ First(p) \in Int
    <2>1. p + 0 = p
      BY <1>1
    <2> QED
      BY <1>1, <1>2, <2>1
  <1> QED
    BY <1>4, <1>6, <1>7, <1>8 DEF p

\* The whole years between two years.
LEMMA WholeYears ==
    ASSUME NEW y \in Nat \ {0}, NEW z \in Nat \ {0}, y < z
    PROVE  YearsBetween(y, z) = First(Place(z, 1)) - First(Place(y + 1, 1))
  <1> DEFINE n == z - y - 1
             jan(k) == First(Place(y + 1 + k, 1))
             term == [i \in 1..n |-> YearLength(y + i)]
             c == [k \in 0..n |-> jan(k)]
  <1>1. n \in Nat /\ n \in 0..n /\ 0 \in 0..n
    OBVIOUS
  <1>2. \A k \in 0..n : jan(k) \in Int
    <2> SUFFICES ASSUME NEW k \in 0..n PROVE jan(k) \in Int
      OBVIOUS
    <2>1. y + 1 + k \in Nat \ {0}
      OBVIOUS
    <2> QED
      BY <2>1, YearIs
  <1>3. \A k \in 1..n : term[k] = jan(k) - jan(k - 1)
    <2> SUFFICES ASSUME NEW k \in 1..n PROVE term[k] = jan(k) - jan(k - 1)
      OBVIOUS
    <2> DEFINE w == y + k
    <2>1. w \in Nat \ {0} /\ y + 1 + k = w + 1 /\ y + 1 + (k - 1) = w
      OBVIOUS
    <2>2. term[k] = YearLength(w)
      OBVIOUS
    <2> HIDE DEF w, term
    <2>3. First(Place(w, 1)) \in Int /\ YearLength(w) \in {365, 366}
          /\ First(Place(w + 1, 1)) = First(Place(w, 1)) + YearLength(w)
      BY <2>1, YearIs
    <2>4. YearLength(w) = First(Place(w + 1, 1)) - First(Place(w, 1))
      BY <2>3
    <2> QED
      BY <2>1, <2>2, <2>4
  <1>4. \A k \in 0..n : c[k] = jan(k)
    OBVIOUS
  <1>5. jan(n) = First(Place(z, 1)) /\ jan(0) = First(Place(y + 1, 1))
    <2>1. y + 1 + n = z /\ y + 1 + 0 = y + 1
      OBVIOUS
    <2> QED
      BY <2>1
  <1>6. YearsBetween(y, z) = SumTo(term, n)
    BY DEF YearsBetween
  <1> HIDE DEF n, jan, term, c
  <1>7. \A k \in 1..n : term[k] = c[k] - c[k - 1]
    BY <1>1, <1>3, <1>4
  <1>8. SumTo(term, n) = c[n] - c[0]
    <2>1. \A k \in 0..n : c[k] \in Int
      BY <1>2, <1>4
    <2> QED
      BY <1>1, <1>7, <2>1, SumIs
  <1> QED
    BY <1>1, <1>4, <1>5, <1>6, <1>8

\* The number in its year of a YYYYMMDD date.
LEMMA DateInYear ==
    ASSUME NEW t \in DatesOf(MinYear .. MaxYear)
    PROVE  /\ Year(Rq(t)) = t.y
           /\ DayOfYear(Rq(t)) = DaysOf(t) - First(Place(t.y, 1)) + 1
           /\ DaysOf(t) \in Int /\ First(Place(t.y, 1)) \in Int
           /\ t.y \in Nat \ {0}
  <1>1. t.y \in Nat \ {0} /\ t.y \in Nat /\ t.m \in 1..12 /\ t.d \in 1..31
    BY DateParts
  <1>2. Year(Rq(t)) = t.y /\ Month(Rq(t)) = t.m /\ Day(Rq(t)) = t.d
    BY <1>1, Decode, Zenon
  <1>3. DayOfYear(Rq(t)) = days_of_year(t.y, t.m, t.d)
    BY <1>2, Zenon DEF DayOfYear
  <1>4. days_of_year(t.y, t.m, t.d) = DaysOf(t) - First(Place(t.y, 1)) + 1
    <2>1. days_of_year(t.y, t.m, t.d) = to_days(t.y, t.m, t.d) - First(Place(t.y, 1)) + 1
      BY <1>1, YearDay
    <2> QED
      BY <2>1, Zenon DEF DaysOf
  <1>5. DaysOf(t) \in Int
    BY DayNumber, Zenon
  <1>6. First(Place(t.y, 1)) \in Int
    <2> DEFINE y == t.y
               n == Place(y, 1)
    <2>1. y \in Nat \ {0}
      BY <1>1
    <2> HIDE DEF y
    <2>2. n \in Nat /\ 12 <= n
      BY <2>1 DEF Place
    <2> HIDE DEF n
    <2>3. First(n) \in Int
      BY <2>2, NextMonth
    <2> QED
      BY <2>3, Zenon DEF n, y
  <1> QED
    BY <1>1, <1>2, <1>3, <1>4, <1>5, <1>6, Zenon

\* What days_num makes of two dates in their order.
DaysBetween(from, to) ==
    IF Year(from) = Year(to) THEN DayOfYear(to) - DayOfYear(from) + 1
    ELSE DayOfYear(to) + (YearLength(Year(from)) - DayOfYear(from)) + 1
         + YearsBetween(Year(from), Year(to))

LEMMA BetweenCounts ==
    ASSUME NEW a \in DatesOf(MinYear .. MaxYear), NEW b \in DatesOf(MinYear .. MaxYear),
           a.y <= b.y
    PROVE  DaysBetween(Rq(a), Rq(b)) = DaysOf(b) - DaysOf(a) + 1
  <1> DEFINE y == a.y
             z == b.y
             jana == First(Place(y, 1))
             janb == First(Place(z, 1))
             from == Rq(a)
             to == Rq(b)
  <1>1. /\ Year(from) = y /\ DayOfYear(from) = DaysOf(a) - jana + 1
        /\ DaysOf(a) \in Int /\ jana \in Int /\ y \in Nat \ {0}
    BY DateInYear, Zenon
  <1>2. /\ Year(to) = z /\ DayOfYear(to) = DaysOf(b) - janb + 1
        /\ DaysOf(b) \in Int /\ janb \in Int /\ z \in Nat \ {0}
    BY DateInYear, Zenon
  <1>3. y <= z
    OBVIOUS
  <1>4. jana = First(Place(y, 1)) /\ janb = First(Place(z, 1))
    OBVIOUS
  <1> HIDE DEF y, z, jana, janb, from, to
  <1>5. CASE y = z
    <2>1. DaysBetween(from, to) = DayOfYear(to) - DayOfYear(from) + 1
      BY <1>1, <1>2, <1>5 DEF DaysBetween
    <2>2. jana = janb
      BY <1>4, <1>5
    <2> QED
      BY <1>1, <1>2, <2>1, <2>2 DEF from, to
  <1>6. CASE y # z
    <2>1. DaysBetween(from, to) =
            DayOfYear(to) + (YearLength(y) - DayOfYear(from)) + 1 + YearsBetween(y, z)
      BY <1>1, <1>2, <1>6 DEF DaysBetween
    <2>2. y < z
      BY <1>1, <1>2, <1>3, <1>6
    <2>3. YearsBetween(y, z) = janb - First(Place(y + 1, 1))
      BY <1>1, <1>2, <1>4, <2>2, WholeYears
    <2>4. YearLength(y) \in {365, 366} /\ First(Place(y + 1, 1)) = jana + YearLength(y)
      BY <1>1, <1>4, YearIs
    <2>5. YearLength(y) \in Int /\ YearsBetween(y, z) = janb - (jana + YearLength(y))
      BY <2>3, <2>4
    <2> DEFINE length == YearLength(y)
               between == YearsBetween(y, z)
               u == DayOfYear(from)
               v == DayOfYear(to)
    <2>6. /\ u = DaysOf(a) - jana + 1 /\ v = DaysOf(b) - janb + 1
          /\ between = janb - (jana + length) /\ length \in Int
      BY <1>1, <1>2, <2>5
    <2> HIDE DEF length, between, u, v
    <2>7. v + (length - u) + 1 + between = DaysOf(b) - DaysOf(a) + 1
      <3>1. /\ DaysOf(a) \in Int /\ DaysOf(b) \in Int /\ jana \in Int /\ janb \in Int
            /\ length \in Int
        BY <1>1, <1>2, <2>6
      <3>2. (DaysOf(b) - janb + 1) + (length - (DaysOf(a) - jana + 1)) + 1
              + (janb - (jana + length)) = DaysOf(b) - DaysOf(a) + 1
        BY <3>1
      <3> QED
        BY <2>6, <3>2, Zenon
    <2> QED
      BY <2>1, <2>7, Zenon DEF from, to, length, between, u, v
  <1> QED
    BY <1>5, <1>6

\* The year of the earlier of two dates is not the later one's.
LEMMA YearOrder ==
    ASSUME NEW a \in DatesOf(MinYear .. MaxYear), NEW b \in DatesOf(MinYear .. MaxYear),
           ~(Rq(b) < Rq(a))
    PROVE  a.y <= b.y
  <1>1. /\ a.y \in Nat /\ a.m \in 1..12 /\ a.d \in 1..31
        /\ b.y \in Nat /\ b.m \in 1..12 /\ b.d \in 1..31
    BY DateParts
  <1>2. 12 * b.y + b.m < 12 * a.y + a.m => Rq(b) < Rq(a)
    BY <1>1, Digitwise, Zenon
  <1> DEFINE y == a.y
             m == a.m
             z == b.y
             n == b.m
  <1>3. y \in Nat /\ z \in Nat /\ m \in 1..12 /\ n \in 1..12 /\ ~(12 * z + n < 12 * y + m)
    BY <1>1, <1>2
  <1> HIDE DEF y, m, z, n
  <1>4. y <= z
    <2> SUFFICES ASSUME z + 1 <= y PROVE FALSE
      BY <1>3
    <2> QED
      BY <1>3
  <1> QED
    BY <1>4 DEF y, z

\* days_num counts both ends, and its sign is that of the order.
LEMMA DaysCounted ==
    ASSUME NEW a \in DatesOf(MinYear .. MaxYear), NEW b \in DatesOf(MinYear .. MaxYear)
    PROVE  /\ DaysOf(a) \in Int /\ DaysOf(b) \in Int
           /\ days_num(Rq(a), Rq(b)) =
                IF DaysOf(a) <= DaysOf(b) THEN DaysOf(b) - DaysOf(a) + 1
                                          ELSE DaysOf(b) - DaysOf(a) - 1
  <1>1. DaysOf(a) \in Int /\ DaysOf(b) \in Int
    BY DayNumber, Zenon
  <1>2. /\ Rq(a) < Rq(b) => DaysOf(a) < DaysOf(b)
        /\ Rq(b) < Rq(a) => DaysOf(b) < DaysOf(a)
        /\ Rq(a) = Rq(b) => DaysOf(a) = DaysOf(b)
    BY DayOrder, Zenon
  <1>3. Rq(a) \in Nat /\ Rq(b) \in Nat
    BY RqType, Zenon
  <1> DEFINE x == Rq(a)
             w == Rq(b)
  <1>4. CASE x > w
    <2>1. days_num(x, w) = DaysBetween(w, x) * (-1)
      BY <1>4 DEF days_num, DaysBetween
    <2>2. Rq(b) < Rq(a) /\ ~(Rq(a) < Rq(b))
      BY <1>3, <1>4
    <2>3. b.y <= a.y
      BY <2>2, YearOrder, Zenon
    <2>4. DaysBetween(Rq(b), Rq(a)) = DaysOf(a) - DaysOf(b) + 1
      BY <2>3, BetweenCounts, Zenon
    <2> HIDE DEF DaysBetween, x, w
    <2> QED
      BY <1>1, <1>2, <2>1, <2>2, <2>4 DEF x, w
  <1>5. CASE ~(x > w)
    <2>1. days_num(x, w) = DaysBetween(x, w) * 1
      BY <1>5 DEF days_num, DaysBetween
    <2>2. ~(Rq(b) < Rq(a)) /\ (Rq(a) < Rq(b) \/ Rq(a) = Rq(b))
      BY <1>3, <1>5
    <2>3. a.y <= b.y
      BY <2>2, YearOrder, Zenon
    <2>4. DaysBetween(Rq(a), Rq(b)) = DaysOf(b) - DaysOf(a) + 1
      BY <2>3, BetweenCounts, Zenon
    <2>5. DaysOf(a) <= DaysOf(b)
      BY <1>1, <1>2, <2>2
    <2> HIDE DEF DaysBetween, x, w
    <2> QED
      BY <1>1, <2>1, <2>4, <2>5 DEF x, w
  <1> QED
    BY <1>1, <1>4, <1>5

-------------------------------------------------------------------------------
(***************************************************************************)
(* What days_num is used for.                                              *)
(***************************************************************************)
WeekShift == <<0, 3, 2, 5, 0, 3, 5, 1, 4, 6, 2, 4>>
MarchDays(m) == (((m + 9) % 12) * 306 + 5) \div 10

\* The rule for the day of the week counts the days of the months but for weeks.
LEMMA ShiftCounts ==
    ASSUME NEW m \in 1..12
    PROVE  /\ MarchDays(m) \in Int /\ WeekShift[m] \in Int
           /\ (MarchDays(m) - WeekShift[m] - 306) % 7 = 0
  <1>1. m = 1 \/ m = 2 \/ m = 3 \/ m = 4 \/ m = 5 \/ m = 6
        \/ m = 7 \/ m = 8 \/ m = 9 \/ m = 10 \/ m = 11 \/ m = 12
    OBVIOUS
  <1> QED
    BY <1>1, SMT DEF MarchDays, WeekShift

\* The first day getweek counts from.
FirstCounted == Date(1980, 1, 1)
FirstRq      == 19800101

LEMMA CountedFrom ==
    /\ FirstCounted \in DatesOf(MinYear .. MaxYear)
    /\ Rq(FirstCounted) = FirstRq
    /\ DaysOf(FirstCounted) = 723120
  <1>1. FirstCounted.y = 1980 /\ FirstCounted.m = 1 /\ FirstCounted.d = 1
    BY SMT DEF FirstCounted, Date
  <1>2. Rq(FirstCounted) = FirstRq
    BY <1>1, SMT DEF Rq, FirstRq
  <1>3. DaysOf(FirstCounted) = 723120
    BY <1>1, SMT DEF DaysOf, to_days
  <1>4. FirstCounted \in DatesOf(MinYear .. MaxYear)
    <2>1. 1980 \in MinYear .. MaxYear /\ 1 \in 1..12
      BY SMT DEF MinYear, MaxYear
    <2>2. LastDay(1980, 1) = 31
      BY SMT DEF LastDay
    <2>3. 1 \in 1..LastDay(1980, 1)
      BY <2>2, SMT
    <2> QED
      BY <2>1, <2>3, MakesDate, SMT DEF FirstCounted
  <1> QED
    BY <1>2, <1>3, <1>4, SMT

\* Weekday goes round with the number of days.
LEMMA WeekdayCounts ==
    ASSUME NEW t \in DatesOf(MinYear .. MaxYear)
    PROVE  (DaysOf(t) - DaysOf(FirstCounted) + 2) % 7 = Weekday(t)
  <1> DEFINE m == t.m
             d == t.d
             y == IF m < 3 THEN t.y - 1 ELSE t.y
             a == y \div 4
             b == y \div 100
             c == y \div 400
             e == MarchDays(m) - WeekShift[m] - 306
             w == y + a - b + c + WeekShift[m] + d
  <1>1. t.y \in Nat /\ m \in 1..12 /\ d \in 1..31
    BY DateParts
  <1>2. y \in Int /\ a \in Int /\ b \in Int /\ c \in Int
    BY <1>1
  <1>3. Weekday(t) = w % 7
    BY DEF Weekday, WeekShift
  <1>4. DaysOf(t) = y * 365 + a - b + c + MarchDays(m) + (d - 1)
    <2>1. t.y - ((m + 9) % 12) \div 10 = y
      <3> DEFINE z == t.y
      <3>1. z \in Int /\ m \in 1..12 /\ y = IF m < 3 THEN z - 1 ELSE z
        BY <1>1
      <3> HIDE DEF z, m, y
      <3>2. ((m + 9) % 12) \div 10 = IF m < 3 THEN 1 ELSE 0
        BY <3>1
      <3>3. z - ((m + 9) % 12) \div 10 = y
        BY <3>1, <3>2
      <3> QED
        BY <3>3 DEF z
    <2> QED
      BY <2>1 DEF DaysOf, to_days, MarchDays
  <1>5. MarchDays(m) \in Int /\ WeekShift[m] \in Int /\ e % 7 = 0
    BY <1>1, ShiftCounts
  <1>6. DaysOf(FirstCounted) = 723120
    BY CountedFrom, SMT
  <1> DEFINE k == MarchDays(m)
             s == WeekShift[m]
             f == e \div 7
  <1> HIDE DEF m, d, y, a, b, c
  <1>7. e \in Int /\ f \in Int /\ e = 7 * f
    BY <1>5
  <1>8. k = e + s + 306 /\ k \in Int /\ s \in Int
    BY <1>5
  <1> HIDE DEF e, f, k, s
  <1>9. DaysOf(t) = y * 365 + a - b + c + k + (d - 1) /\ w = y + a - b + c + s + d
    BY <1>4 DEF k, s
  <1> HIDE DEF w
  <1>10. w \in Int
    BY <1>1, <1>2, <1>8, <1>9
  <1>11. DaysOf(t) - DaysOf(FirstCounted) + 2 = w + 7 * (52 * y + f - 103259)
    BY <1>1, <1>2, <1>6, <1>7, <1>8, <1>9, SMT
  <1> DEFINE q == 52 * y + f - 103259
  <1>12. q \in Int
    BY <1>2, <1>7, SMT
  <1> HIDE DEF q
  <1>13. (w + 7 * q) % 7 = w % 7
    BY <1>10, <1>12
  <1> QED
    BY <1>3, <1>11, <1>13, SMT DEF q

\* The days between two dates, as DateMinus returns them.
LEMMA MinusCounts ==
    ASSUME NEW a \in DatesOf(MinYear .. MaxYear), NEW b \in DatesOf(MinYear .. MaxYear),
           NEW n \in Int, DaysOf(b) = DaysOf(a) + n, NEW now
    PROVE  LET days == IF n >= 0 THEN n + 1 ELSE n - 1
           IN /\ DateMinus(Rq(a), Rq(b), now) = days
              /\ DateMinus(Rq(a), 0, Rq(b)) = days
  <1>1. /\ DaysOf(a) \in Int /\ DaysOf(b) \in Int
        /\ days_num(Rq(a), Rq(b)) = IF DaysOf(a) <= DaysOf(b) THEN DaysOf(b) - DaysOf(a) + 1
                                                            ELSE DaysOf(b) - DaysOf(a) - 1
    BY DaysCounted, Zenon
  <1>2. days_num(Rq(a), Rq(b)) = IF n >= 0 THEN n + 1 ELSE n - 1
    BY <1>1
  <1>3. Rq(b) # 0
    BY RqType, Zenon
  <1>4. DateMinus(Rq(a), Rq(b), now) = days_num(Rq(a), Rq(b))
    BY <1>3, Zenon DEF DateMinus
  <1>5. DateMinus(Rq(a), 0, Rq(b)) = days_num(Rq(a), Rq(b))
    BY Zenon DEF DateMinus
  <1> QED
    BY <1>2, <1>4, <1>5

\* getweek names the day of the week of every date from 1980 on.
LEMMA WeekCounts ==
    ASSUME NEW t \in DatesOf(MinYear .. MaxYear), Rq(t) >= FirstRq
    PROVE  getweek(Rq(t)) % 7 = Weekday(t)
  <1>1. FirstCounted \in DatesOf(MinYear .. MaxYear) /\ Rq(FirstCounted) = FirstRq
    BY CountedFrom, SMT
  <1>2. Rq(t) \in Nat /\ Rq(FirstCounted) \in Nat
    BY <1>1, RqType, Zenon
  <1>3. ~(Rq(t) < Rq(FirstCounted))
    BY <1>1, <1>2, SMT
  <1>4. getweek(Rq(t)) = days_num(Rq(FirstCounted), Rq(t)) + 1
    BY <1>1, <1>2, SMT DEF getweek, FirstRq
  <1>5. /\ DaysOf(FirstCounted) \in Int /\ DaysOf(t) \in Int
        /\ days_num(Rq(FirstCounted), Rq(t)) =
             IF DaysOf(FirstCounted) <= DaysOf(t) THEN DaysOf(t) - DaysOf(FirstCounted) + 1
                                                  ELSE DaysOf(t) - DaysOf(FirstCounted) - 1
    BY <1>1, DaysCounted
  <1>6. DaysOf(FirstCounted) <= DaysOf(t)
    <2>1. /\ Rq(FirstCounted) < Rq(t) => DaysOf(FirstCounted) < DaysOf(t)
          /\ Rq(FirstCounted) = Rq(t) => DaysOf(FirstCounted) = DaysOf(t)
      BY <1>1, DayOrder
    <2>2. Rq(FirstCounted) < Rq(t) \/ Rq(FirstCounted) = Rq(t)
      BY <1>1, <1>2, <1>3, SMT
    <2> QED
      BY <1>5, <2>1, <2>2
  <1>7. getweek(Rq(t)) = DaysOf(t) - DaysOf(FirstCounted) + 2
    BY <1>4, <1>5, <1>6
  <1> QED
    BY <1>7, WeekdayCounts

\* The object's length of the year is the number of its last day.
LEMMA YearDaysAgree ==
    ASSUME NEW t \in DatesOf(MinYear .. MaxYear)
    PROVE  this_year_days(Obj(t)) = days_of_year(t.y, 12, 31)
  <1> DEFINE y == t.y
  <1>1. y \in Nat \ {0}
    BY DateParts
  <1>2. this_year_days(Obj(t)) = YearLength(y)
    <2>1. Obj(t).m_year = y
      BY DEF Obj, MakeDate
    <2> HIDE DEF y
    <2>2. y % 400 = 0 => y % 4 = 0
      BY <1>1
    <2> QED
      BY <2>1, <2>2 DEF this_year_days, is_leap_year, YearLength, IsRunnian
  <1> HIDE DEF y
  <1>3. 12 \in 1..12 /\ 31 \in 1..31
    OBVIOUS
  <1>4. days_of_year(y, 12, 31) = to_days(y, 12, 31) - First(Place(y, 1)) + 1
    BY <1>1, <1>3, YearDay
  <1>5. /\ First(Place(y, 1)) \in Int /\ YearLength(y) \in {365, 366}
        /\ First(Place(y + 1, 1)) = First(Place(y, 1)) + YearLength(y)
    BY <1>1, YearIs
  <1>6. First(Place(y + 1, 1)) = to_days(y, 12, 31) + 1 /\ to_days(y, 12, 31) \in Int
    <2>1. First(Place(y + 1, 1)) = to_days(y + 1, 1, 1)
      <3>1. y + 1 \in Int /\ 1 \in 1..12
        BY <1>1
      <3> QED
        BY <3>1, PlaceParts, Zenon
    <2>2. to_days(y + 1, 1, 1) = to_days(y, 12, 31) + 1 /\ to_days(y, 12, 31) \in Int
      BY <1>1 DEF to_days
    <2> QED
      BY <2>1, <2>2
  <1>7. days_of_year(y, 12, 31) = YearLength(y)
    BY <1>4, <1>5, <1>6
  <1> QED
    BY <1>2, <1>7 DEF y

\* DateMinus counts the days of a walk, getweek names its weekdays and both
\* calendars agree on the length of its years, for every walk.
THEOREM DifferencesCount == Spec => []DateMinusCounts
  <1>1. IInv => DateMinusCounts
    <2> SUFFICES ASSUME IInv PROVE DateMinusCounts
      OBVIOUS
    <2>1. /\ start \in DatesOf(MinYear .. MaxYear) /\ today \in DatesOf(MinYear .. MaxYear)
          /\ walked \in Int
          /\ rq = Rq(today) /\ obj = Obj(today) /\ DaysOf(today) = DaysOf(start) + walked
      BY DEF IInv, Placed, WalkAgrees, ObjectAgrees, Counted
    <2>2. LET days == IF walked >= 0 THEN walked + 1 ELSE walked - 1
          IN /\ DateMinus(Rq(start), Rq(today), Rq(today)) = days
             /\ DateMinus(Rq(start), 0, Rq(today)) = days
      BY <2>1, MinusCounts
    <2>3. rq >= FirstRq => getweek(rq) % 7 = Weekday(today)
      BY <2>1, WeekCounts, Zenon
    <2>4. this_year_days(obj) = days_of_year(today.y, 12, 31)
      BY <2>1, YearDaysAgree, Zenon
    <2> QED
      BY <2>1, <2>2, <2>3, <2>4, SMT DEF DateMinusCounts, FirstRq
  <1> QED
    BY <1>1, DateInvariance, PTL

-------------------------------------------------------------------------------
(***************************************************************************)
(* GetOtherDay.  Its loops stop at the first month that holds what is      *)
(* left; First grows from month to month, so that is the target's.         *)
(***************************************************************************)

\* The least of a set is where nothing is less.
LEMMA MinIs ==
    ASSUME NEW S \in SUBSET Int, NEW k \in S, \A j \in S : k <= j
    PROVE  Min(S) = k
  <1>1. Min(S) \in S /\ \A j \in S : Min(S) <= j
    <2> DEFINE Q(x) == x \in S /\ \A j \in S : x <= j
    <2>1. Q(k)
      OBVIOUS
    <2>2. Min(S) = CHOOSE x \in S : \A j \in S : x <= j
      BY DEF Min
    <2> QED
      BY <2>1, <2>2
  <1>2. Min(S) <= k /\ k <= Min(S)
    BY <1>1
  <1>3. Min(S) \in Int /\ k \in Int
    BY <1>1
  <1> HIDE DEF Min
  <1> QED
    BY <1>2, <1>3

\* The code's months of a date's year, and of years after and before it.
LEMMA LengthIs ==
    ASSUME NEW y \in Nat \ {0}, NEW k \in Int
    PROVE  /\ YearOf(y, k) = (Place(y, 1) + k) \div 12
           /\ (k % 12) + 1 = ((Place(y, 1) + k) % 12) + 1
           /\ Length(y, k) = MonthLength(Place(y, 1) + k)
  <1> DEFINE p == Place(y, 1)
             z == YearOf(y, k)
             m == (k % 12) + 1
  <1>1. p = 12 * y
    BY DEF Place
  <1>2. z = (p + k) \div 12 /\ z \in Int
    BY <1>1 DEF YearOf
  <1>3. m = ((p + k) % 12) + 1 /\ m \in 1..12
    BY <1>1
  <1>4. Length(y, k) = days_of_mon(z)[m]
    BY DEF Length
  <1> HIDE DEF p, z, m
  <1>5. days_of_mon(z)[m] = LastDay(z, m)
    BY <1>2, <1>3, Table, Zenon
  <1>6. MonthLength(p + k) = LastDay(z, m)
    BY <1>2, <1>3, Zenon DEF MonthLength
  <1> QED
    BY <1>2, <1>3, <1>4, <1>5, <1>6, Zenon DEF p, z, m

\* The months from January on.
LEMMA ElapsedIs ==
    ASSUME NEW y \in Nat \ {0}, NEW k \in Nat
    PROVE  Elapsed(y, k) = First(Place(y, 1) + k) - First(Place(y, 1))
  <1> DEFINE p == Place(y, 1)
             term == [j \in 1..k |-> Length(y, j - 1)]
             c == [j \in 0..k |-> First(p + j)]
  <1>1. p \in Nat /\ 12 <= p
    BY DEF Place
  <1>2. Elapsed(y, k) = SumTo(term, k)
    BY DEF Elapsed
  <1>3. \A j \in 0..k : c[j] = First(p + j)
    OBVIOUS
  <1>4. \A j \in 0..k : c[j] \in Int
    <2> SUFFICES ASSUME NEW j \in 0..k PROVE First(p + j) \in Int
      BY <1>3
    <2>1. p + j \in Nat /\ 12 <= p + j
      BY <1>1
    <2> QED
      BY <2>1, NextMonth
  <1>5. \A j \in 1..k : term[j] = c[j] - c[j - 1]
    <2> SUFFICES ASSUME NEW j \in 1..k PROVE term[j] = c[j] - c[j - 1]
      OBVIOUS
    <2> DEFINE q == p + (j - 1)
    <2>1. q \in Nat /\ 12 <= q /\ q + 1 = p + j /\ j - 1 \in Int /\ j \in 0..k /\ j - 1 \in 0..k
      BY <1>1
    <2>2. term[j] = Length(y, j - 1)
      OBVIOUS
    <2>3. Length(y, j - 1) = MonthLength(q)
      BY <2>1, LengthIs, Zenon
    <2>4. c[j] = First(q + 1) /\ c[j - 1] = First(q)
      BY <1>3, <2>1
    <2> HIDE DEF q, term, c, p
    <2>5. First(q) \in Int /\ MonthLength(q) \in 28..31 /\ First(q + 1) = First(q) + MonthLength(q)
      BY <2>1, NextMonth
    <2> QED
      BY <2>2, <2>3, <2>4, <2>5
  <1>6. p + 0 = p /\ k \in 0..k /\ 0 \in 0..k
    BY <1>1
  <1> HIDE DEF p, term, c
  <1>7. SumTo(term, k) = c[k] - c[0]
    BY <1>4, <1>5, SumIs
  <1> QED
    BY <1>2, <1>3, <1>6, <1>7 DEF p

\* The months before January, back to January of the year 1.
LEMMA RewoundIs ==
    ASSUME NEW y \in Nat \ {0}, NEW k \in Nat, 12 <= Place(y, 1) - k
    PROVE  Rewound(y, k) = First(Place(y, 1)) - First(Place(y, 1) - k)
  <1> DEFINE p == Place(y, 1)
             term == [j \in 1..k |-> Length(y, -j)]
             c == [j \in 0..k |-> -First(p - j)]
  <1>1. p \in Nat /\ 12 <= p - k
    BY DEF Place
  <1>2. Rewound(y, k) = SumTo(term, k)
    BY DEF Rewound
  <1>3. \A j \in 0..k : c[j] = -First(p - j)
    OBVIOUS
  <1>8. \A j \in 0..k : First(p - j) \in Int
    <2> SUFFICES ASSUME NEW j \in 0..k PROVE First(p - j) \in Int
      OBVIOUS
    <2>1. p - j \in Nat /\ 12 <= p - j
      BY <1>1
    <2> QED
      BY <2>1, NextMonth
  <1>4. \A j \in 0..k : c[j] \in Int
    BY <1>3, <1>8
  <1>5. \A j \in 1..k : term[j] = c[j] - c[j - 1]
    <2> SUFFICES ASSUME NEW j \in 1..k PROVE term[j] = c[j] - c[j - 1]
      OBVIOUS
    <2> DEFINE q == p - j
    <2>1. q \in Nat /\ 12 <= q /\ q + 1 = p - (j - 1) /\ q = p + (-j) /\ -j \in Int
          /\ j \in 0..k /\ j - 1 \in 0..k
      BY <1>1
    <2>2. term[j] = Length(y, -j)
      OBVIOUS
    <2>3. Length(y, -j) = MonthLength(q)
      BY <2>1, LengthIs, Zenon
    <2>4. c[j] = -First(q) /\ c[j - 1] = -First(q + 1)
      BY <1>3, <2>1
    <2> HIDE DEF q, term, c, p
    <2>5. First(q) \in Int /\ MonthLength(q) \in 28..31 /\ First(q + 1) = First(q) + MonthLength(q)
      BY <2>1, NextMonth
    <2> QED
      BY <2>2, <2>3, <2>4, <2>5
  <1>6. p - 0 = p /\ k \in 0..k /\ 0 \in 0..k
    BY <1>1
  <1>9. First(p - k) \in Int /\ First(p) \in Int
    BY <1>6, <1>8
  <1> HIDE DEF p, term, c
  <1>7. SumTo(term, k) = c[k] - c[0]
    BY <1>4, <1>5, SumIs
  <1> QED
    BY <1>2, <1>3, <1>6, <1>7, <1>9 DEF p

\* Going forward, the loop stops in the month of the target.
LEMMA AheadLands ==
    ASSUME NEW y \in Nat \ {0}, NEW t \in DatesOf(MinYear .. MaxYear),
           Place(t.y, t.m) - Place(y, 1) \in 1..Reach
    PROVE  Ahead(y, DaysOf(t) - First(Place(y, 1)) + 1) = Rq(t)
  <1> DEFINE p == Place(y, 1)
             n == Place(t.y, t.m)
             k == n - p
             jan == First(p)
             nend == DaysOf(t) - jan + 1
             S == {j \in 1..Reach : nend - Elapsed(y, j) <= Length(y, j)}
             day == t.d
  <1>1. /\ n \in Nat /\ 12 <= n /\ DaysOf(t) \in Int
        /\ DaysOf(t) = First(n) + day - 1 /\ First(n) \in Int /\ First(n + 1) \in Int
        /\ First(n) <= DaysOf(t) /\ DaysOf(t) < First(n + 1)
    BY DayPlace
  <1>2. p \in Nat /\ 12 <= p /\ k \in 1..Reach /\ Reach = 25 /\ k \in Nat /\ k \in Int
    <2>1. p = 12 * y
      BY DEF Place
    <2>2. k \in 1..Reach /\ Reach = 25
      BY DEF Reach
    <2> HIDE DEF p, k
    <2>3. k \in Nat /\ k \in Int
      BY <2>2
    <2> QED
      BY <2>1, <2>2, <2>3
  <1>3. n = p + k /\ n + 1 = p + k + 1
    BY <1>1, <1>2
  <1>4. t.y \in Int /\ t.m \in 1..12 /\ day \in 1..31
    BY DateParts
  <1>5. jan \in Int
    BY <1>2, NextMonth
  <1>6. ASSUME NEW j \in 1..Reach
        PROVE  /\ j \in Nat /\ First(p + j) \in Int /\ First(p + j + 1) \in Int
               /\ nend - Elapsed(y, j) = DaysOf(t) + 1 - First(p + j)
               /\ nend - Elapsed(y, j) <= Length(y, j) <=> DaysOf(t) < First(p + j + 1)
    <2>1. j \in Nat /\ j \in Int /\ p + j \in Nat /\ 12 <= p + j /\ p + j + 1 = (p + j) + 1
      BY <1>2
    <2>2. Elapsed(y, j) = First(p + j) - jan
      BY <2>1, ElapsedIs, Zenon
    <2>3. Length(y, j) = MonthLength(p + j)
      BY <2>1, LengthIs, Zenon
    <2> HIDE DEF p, jan
    <2>4. /\ First(p + j) \in Int /\ MonthLength(p + j) \in 28..31
          /\ First((p + j) + 1) = First(p + j) + MonthLength(p + j)
      BY <2>1, NextMonth
    <2> DEFINE days == DaysOf(t)
               f == First(p + j)
               g == First(p + j + 1)
               e == Elapsed(y, j)
               l == Length(y, j)
    <2>5. /\ days \in Int /\ jan \in Int /\ f \in Int /\ l \in 28..31
          /\ e = f - jan /\ g = f + l /\ j \in Nat
      BY <1>1, <1>5, <2>1, <2>2, <2>3, <2>4
    <2> HIDE DEF days, f, g, e, l
    <2>6. g \in Int /\ (days - jan + 1) - e = days + 1 - f
      BY <2>5
    <2>7. days + 1 - f <= l <=> days < g
      BY <2>5
    <2>8. f \in Int /\ j \in Nat
      BY <2>5
    <2> QED
      BY <2>6, <2>7, <2>8, Zenon DEF days, f, g, e, l
  <1> HIDE DEF p, n, jan, nend, S
  <1>7. k \in S
    <2>1. DaysOf(t) < First(p + k + 1)
      BY <1>1, <1>3, Zenon
    <2> HIDE DEF k
    <2>2. nend - Elapsed(y, k) <= Length(y, k)
      BY <1>2, <1>6, <2>1
    <2> QED
      BY <1>2, <2>2 DEF S
  <1>8. \A j \in S : k <= j
    <2> SUFFICES ASSUME NEW j \in S, j < k PROVE FALSE
      BY <1>1, <1>2 DEF S
    <2>1. j \in 1..Reach /\ nend - Elapsed(y, j) <= Length(y, j)
      BY DEF S
    <2>2. j \in Nat /\ First(p + j + 1) \in Int /\ DaysOf(t) < First(p + j + 1)
      BY <1>6, <2>1
    <2>3. p + j + 1 \in Nat /\ 12 <= p + j + 1 /\ p + j + 1 <= n
      BY <1>1, <1>2, <2>2
    <2>4. First(p + j + 1) <= First(n)
      BY <1>1, <2>3, MonthsGrow, Zenon
    <2> QED
      BY <1>1, <2>2, <2>4
  <1>9. Min(S) = k
    <2>1. S \in SUBSET Int
      BY DEF S
    <2> HIDE DEF k
    <2> QED
      BY <1>7, <1>8, <2>1, MinIs
  <1>10. nend >= 31
    <2>1. First(p + 1) >= jan + 28 /\ MonthLength(p) = 31
      <3>1. LastDay(y, 1) = 31 /\ y \in Int /\ 1 \in 1..12
        BY DEF LastDay
      <3>2. MonthLength(p) = 31
        BY <3>1, PlaceParts, Zenon DEF p
      <3>3. First(p + 1) = jan + MonthLength(p)
        BY <1>2, NextMonth DEF jan
      <3> QED
        BY <1>5, <3>2, <3>3
    <2>2. First(p + 1) = jan + 31
      BY <1>2, <2>1, NextMonth DEF jan
    <2>3. p + 1 \in Nat /\ 12 <= p + 1 /\ p + 1 <= n
      BY <1>1, <1>2, <1>3
    <2>4. First(p + 1) <= First(n)
      BY <1>1, <2>3, MonthsGrow, Zenon
    <2> QED
      BY <1>1, <1>5, <2>2, <2>4 DEF nend
  <1>11. /\ YearOf(y, k) = t.y /\ (k % 12) + 1 = t.m
         /\ nend - Elapsed(y, k) = day
    <2>1. YearOf(y, k) = n \div 12 /\ (k % 12) + 1 = (n % 12) + 1
      <3> HIDE DEF k
      <3> QED
        BY <1>2, <1>3, LengthIs, Zenon DEF p
    <2>2. n \div 12 = t.y /\ n % 12 = t.m - 1
      BY <1>4, PlaceParts, Zenon DEF n
    <2> HIDE DEF k
    <2>3. nend - Elapsed(y, k) = DaysOf(t) + 1 - First(p + k)
      BY <1>2, <1>6
    <2>4. (t.m - 1) + 1 = t.m
      BY <1>4
    <2>5. DaysOf(t) + 1 - First(n) = day
      <3> DEFINE days == DaysOf(t)
                 f == First(n)
      <3>1. days = f + day - 1 /\ f \in Int /\ day \in 1..31
        BY <1>1, <1>4, Zenon
      <3> HIDE DEF days, f, day
      <3>2. days + 1 - f = day
        BY <3>1
      <3> QED
        BY <3>2 DEF days, f
    <2>6. First(p + k) = First(n)
      BY <1>3, Zenon
    <2>7. YearOf(y, k) = t.y /\ (k % 12) + 1 = t.m
      BY <2>1, <2>2, <2>4, Zenon
    <2> QED
      BY <2>3, <2>5, <2>6, <2>7, Zenon
  <1>12. Ahead(y, nend) = YearOf(y, k) * 10000 + ((k % 12) + 1) * 100 + (nend - Elapsed(y, k))
    <2>1. ~(nend < 31)
      BY <1>1, <1>5, <1>10 DEF nend
    <2>2. Ahead(y, nend) = YearOf(y, Min(S)) * 10000 + ((Min(S) % 12) + 1) * 100 + (nend - Elapsed(y, Min(S)))
      BY <2>1 DEF Ahead, S
    <2> QED
      BY <1>9, <2>2
  <1>13. Ahead(y, nend) = Rq(t)
    BY <1>11, <1>12 DEF Rq
  <1> QED
    BY <1>13 DEF nend, jan, p

\* What Back makes of day d of month n: a January is printed as month 13.
BackAt(n, d) ==
    IF n % 12 = 0 THEN (n \div 12 - 1) * 10000 + 1300 + d
    ELSE (n \div 12) * 10000 + ((n % 12) + 1) * 100 + d

\* Going back over days days (counted like DaysOf), the loop stops at the month n
\* that holds the day after.
LEMMA BackStops ==
    ASSUME NEW y \in Nat \ {0}, NEW n \in Nat, 12 <= n, NEW days \in Int,
           Place(y, 1) - n \in 1..Reach,
           First(n) <= days + 1, days + 1 < First(n + 1)
    PROVE  Back(y, days - First(Place(y, 1)) + 1) = BackAt(n, days + 1 - First(n))
  <1> DEFINE p == Place(y, 1)
             k == p - n
             jan == First(p)
             nend == days - jan + 1
             S == {j \in 1..Reach : Rewound(y, j) + nend >= 0}
             day == days + 1 - First(n)
  <1>1. First(n) \in Int /\ First(n + 1) \in Int
    <2>1. n + 1 \in Nat /\ 12 <= n + 1
      OBVIOUS
    <2> QED
      BY <2>1, NextMonth
  <1>2. p \in Nat /\ 12 <= p /\ p = 12 * y /\ k \in 1..Reach /\ k \in Int /\ k \in Nat
    <2>1. p = 12 * y
      BY DEF Place
    <2>2. k \in 1..Reach /\ Reach = 25
      BY DEF Reach
    <2> HIDE DEF p, k
    <2>3. k \in Nat /\ k \in Int
      BY <2>2
    <2> QED
      BY <2>1, <2>2, <2>3
  <1>3. n = p - k /\ n = p + (-k) /\ -k \in Int
    BY <1>2
  <1>4. jan \in Int
    BY <1>2, NextMonth
  <1>5. nend = days - jan + 1
    OBVIOUS
  <1> HIDE DEF jan, nend
  <1>6. ASSUME NEW j \in 1..Reach, j <= k
        PROVE  /\ j \in Nat /\ p - j \in Nat /\ 12 <= p - j /\ First(p - j) \in Int
               /\ Rewound(y, j) + nend = days + 1 - First(p - j)
               /\ Rewound(y, j) + nend >= 0 <=> First(p - j) <= days + 1
    <2>1. j \in Nat /\ j \in Int
      BY DEF Reach
    <2>2. p - j \in Nat /\ 12 <= p - j
      <3> HIDE DEF p
      <3> QED
        BY <1>2, <1>6, <2>1
    <2>3. Rewound(y, j) = jan - First(p - j)
      BY <2>1, <2>2, RewoundIs, Zenon DEF jan
    <2> HIDE DEF p
    <2>4. First(p - j) \in Int
      BY <2>2, NextMonth
    <2> DEFINE f == First(p - j)
               e == Rewound(y, j)
    <2>5. f \in Int /\ e = jan - f /\ days \in Int /\ jan \in Int /\ nend = days - jan + 1
      BY <1>4, <1>5, <2>3, <2>4
    <2> HIDE DEF f, e
    <2>6. e + nend = days + 1 - f
      BY <2>5
    <2>7. days + 1 - f >= 0 <=> f <= days + 1
      BY <2>5
    <2> QED
      BY <2>1, <2>2, <2>5, <2>6, <2>7, Zenon DEF f, e
  <1> HIDE DEF p, S, day
  <1>7. k \in S
    <2> HIDE DEF k
    <2>1. First(p - k) <= days + 1
      BY <1>3, Zenon
    <2>2. k <= k
      BY <1>2
    <2>3. Rewound(y, k) + nend >= 0
      BY <1>2, <1>6, <2>1, <2>2
    <2> QED
      BY <1>2, <2>3 DEF S
  <1>8. \A j \in S : k <= j
    <2> SUFFICES ASSUME NEW j \in S, j < k PROVE FALSE
      BY <1>2 DEF S
    <2> HIDE DEF k
    <2>1. j \in 1..Reach /\ Rewound(y, j) + nend >= 0
      BY DEF S
    <2>2. j <= k /\ j \in Int
      BY <1>2, <2>1
    <2>3. /\ j \in Nat /\ p - j \in Nat /\ 12 <= p - j
          /\ First(p - j) \in Int /\ First(p - j) <= days + 1
      BY <1>6, <2>1, <2>2
    <2>4. n + 1 \in Nat /\ 12 <= n + 1 /\ n + 1 <= p - j
      BY <1>2, <1>3, <2>3
    <2>5. First(n + 1) <= First(p - j)
      BY <2>3, <2>4, MonthsGrow, Zenon
    <2> QED
      BY <1>1, <2>3, <2>5
  <1>9. Min(S) = k
    <2>1. S \in SUBSET Int
      BY DEF S
    <2> HIDE DEF k
    <2> QED
      BY <1>7, <1>8, <2>1, MinIs
  <1>10. YearOf(y, -k) = n \div 12 /\ ((-k) % 12) + 1 = (n % 12) + 1
    <2> HIDE DEF k
    <2> QED
      BY <1>3, LengthIs, Zenon DEF p
  <1>11. Rewound(y, k) + nend = day
    <2> HIDE DEF k
    <2>1. k <= k
      BY <1>2
    <2>2. Rewound(y, k) + nend = days + 1 - First(p - k)
      BY <1>2, <1>6, <2>1
    <2>3. First(p - k) = First(n)
      BY <1>3, Zenon
    <2> QED
      BY <2>2, <2>3, Zenon DEF day
  <1>12. k % 12 = 0 <=> n % 12 = 0
    <2> HIDE DEF k
    <2> QED
      BY <1>2, <1>3
  <1>13. Back(y, nend) = BackAt(n, day)
    <2>1. Back(y, nend) =
            IF Min(S) % 12 = 0
            THEN (YearOf(y, -Min(S)) - 1) * 10000 + 1300 + (Rewound(y, Min(S)) + nend)
            ELSE YearOf(y, -Min(S)) * 10000 + (((-Min(S)) % 12) + 1) * 100
                 + (Rewound(y, Min(S)) + nend)
      BY DEF Back, S
    <2> HIDE DEF k
    <2> QED
      BY <1>9, <1>10, <1>11, <1>12, <2>1 DEF BackAt
  <1> QED
    BY <1>13, Zenon DEF nend, jan, p, day

\* A day of January, printed as Back prints it.
MonthThirteen(y, d) == (y - 1) * 10000 + 1300 + d

\* Where Back stops for a date: on the date, but for a January and a last day.
LEMMA BackLands ==
    ASSUME NEW y \in Nat \ {0}, NEW t \in DatesOf(MinYear .. MaxYear),
           Place(y, 1) - Place(t.y, t.m) \in 1..Reach, t.d < LastDay(t.y, t.m)
    PROVE  Back(y, DaysOf(t) - First(Place(y, 1)) + 1) =
             IF t.m = 1 THEN MonthThirteen(t.y, t.d) ELSE Rq(t)
  <1> DEFINE p == Place(y, 1)
             n == Place(t.y, t.m)
             days == DaysOf(t)
             day == t.d
             last == LastDay(t.y, t.m)
             f == First(n)
             g == First(n + 1)
  <1>1. n \in Nat /\ 12 <= n /\ days \in Int /\ days = f + day - 1 /\ f \in Int /\ g = f + last
    BY DayPlace
  <1>2. day \in 1..31 /\ last \in 28..31 /\ day < last
    BY DateParts
  <1>3. t.y \in Int /\ t.m \in 1..12
    BY DateParts
  <1>4. n \div 12 = t.y /\ n % 12 = t.m - 1
    BY <1>3, PlaceParts, Zenon
  <1>5. p - n \in 1..Reach
    OBVIOUS
  <1> HIDE DEF p, n, days, day, last, f, g
  <1>6. f <= days + 1 /\ days + 1 < g /\ days + 1 - f = day
    BY <1>1, <1>2
  <1>7. Back(y, days - First(p) + 1) = BackAt(n, days + 1 - f)
    BY <1>1, <1>5, <1>6, BackStops, Zenon DEF p, f, g
  <1>8. (t.m - 1 = 0 <=> t.m = 1) /\ (t.m - 1) + 1 = t.m
    BY <1>3
  <1>9. Rq(t) = t.y * 10000 + t.m * 100 + day
    BY DEF Rq, day
  <1>10. Back(y, days - First(p) + 1) =
           IF t.m = 1 THEN MonthThirteen(t.y, day) ELSE Rq(t)
    BY <1>4, <1>6, <1>7, <1>8, <1>9 DEF BackAt, MonthThirteen
  <1> QED
    BY <1>10 DEF p, days, day

\* The day after a month's last is the first of the next, and Back gives its
\* number in that month as 0.
LEMMA BackMisses ==
    ASSUME NEW y \in Nat \ {0}, NEW t \in DatesOf(MinYear .. MaxYear),
           t.d = LastDay(t.y, t.m),
           Place(y, 1) - Place(t.y, t.m) \in 1..Reach,
           ~(DaysOf(t) - First(Place(y, 1)) + 1 >= 0)
    PROVE  Back(y, DaysOf(t) - First(Place(y, 1)) + 1) % 100 = 0
  <1> DEFINE p == Place(y, 1)
             n == Place(t.y, t.m) + 1
             days == DaysOf(t)
             b == Back(y, days - First(p) + 1)
  <1>1. n \in Nat /\ 12 <= n /\ days \in Int /\ First(n) \in Int /\ First(n) = days + 1
    <2> DEFINE q == Place(t.y, t.m)
               f == First(q)
               last == LastDay(t.y, t.m)
    <2>1. q \in Nat /\ 12 <= q /\ days \in Int /\ f \in Int /\ days = f + t.d - 1 /\ First(n) = f + last
      BY DayPlace
    <2>2. t.d = last /\ last \in 28..31
      BY DateParts
    <2> HIDE DEF q, f, last, days
    <2>3. days = f + last - 1
      BY <2>1, <2>2
    <2> HIDE DEF n
    <2>4. First(n) \in Int /\ First(n) = days + 1
      BY <2>1, <2>2, <2>3
    <2>5. n \in Nat /\ 12 <= n
      BY <2>1 DEF n, q
    <2> QED
      BY <2>1, <2>4, <2>5
  <1>2. p \in Nat /\ 12 <= p /\ p - n + 1 \in 1..Reach
    <2>1. p \in Nat /\ 12 <= p
      BY DEF Place
    <2> DEFINE q == Place(t.y, t.m)
    <2>2. q \in Nat
      BY DayPlace
    <2>3. p - n + 1 = p - q
      <3> HIDE DEF p, q
      <3> QED
        BY <2>1, <2>2 DEF q
    <2> QED
      BY <2>1, <2>3
  <1>3. ~(days - First(p) + 1 >= 0)
    OBVIOUS
  <1> HIDE DEF p, n, days
  <1>4. First(p) \in Int
    BY <1>2, NextMonth
  <1>5. n < p
    <2> SUFFICES ASSUME p <= n PROVE FALSE
      BY <1>1, <1>2
    <2>1. First(p) <= First(n)
      BY <1>1, <1>2, MonthsGrow, Zenon
    <2> QED
      BY <1>1, <1>3, <1>4, <2>1
  <1>6. p - n \in 1..Reach
    <2>1. Reach = 25
      BY DEF Reach
    <2> QED
      BY <1>1, <1>2, <1>5, <2>1
  <1>7. First(n) <= days + 1 /\ days + 1 < First(n + 1) /\ days + 1 - First(n) = 0
    <2>1. MonthLength(n) \in 28..31 /\ First(n + 1) = First(n) + MonthLength(n)
      BY <1>1, NextMonth
    <2> QED
      BY <1>1, <2>1
  <1>8. b = BackAt(n, days + 1 - First(n))
    BY <1>1, <1>6, <1>7, BackStops, Zenon DEF p
  <1> HIDE DEF b
  <1> DEFINE u == n \div 12
             v == n % 12
  <1>9. u \in Int /\ v \in Int
    BY <1>1
  <1>10. b = (u - 1) * 10000 + 1300 \/ b = u * 10000 + (v + 1) * 100
    BY <1>7, <1>8, <1>9 DEF BackAt
  <1> HIDE DEF u, v
  <1>11. b % 100 = 0
    BY <1>9, <1>10, SMT
  <1> QED
    BY <1>11 DEF b, p, days

\* A span of less than a year reaches no month beyond Reach, and GetOtherDay
\* goes forward or back as the target lies after or before the year's start.
LEMMA TargetInReach ==
    ASSUME NEW s \in DatesOf(MinYear .. MaxYear), NEW t \in DatesOf(MinYear .. MaxYear),
           NEW w \in Int, DaysOf(t) = DaysOf(s) + w, -364 < w, w < 365
    PROVE  LET p == Place(s.y, 1)
               n == Place(t.y, t.m)
               nend == DaysOf(t) - First(p) + 1
           IN /\ p < n => n - p \in 1..Reach /\ nend >= 0
              /\ n < p => p - n \in 1..Reach /\ (nend >= 0 => nend = 0)
              /\ n < p /\ t.d < LastDay(t.y, t.m) => ~(nend >= 0)
  <1> DEFINE p == Place(s.y, 1)
             n == Place(t.y, t.m)
             q == Place(s.y, s.m)
             ds == DaysOf(s)
             dt == DaysOf(t)
             nend == dt - First(p) + 1
  <1>1. /\ n \in Nat /\ 12 <= n /\ dt \in Int /\ First(n) \in Int /\ First(n + 1) \in Int
        /\ First(n) <= dt /\ dt < First(n + 1)
    BY DayPlace
  <1>2. /\ q \in Nat /\ 12 <= q /\ ds \in Int /\ First(q) \in Int /\ First(q + 1) \in Int
        /\ First(q) <= ds /\ ds < First(q + 1)
    BY DayPlace
  <1>3. p \in Nat /\ 12 <= p /\ p <= q /\ q + 1 <= p + 12
    <2> DEFINE y == s.y
               m == s.m
    <2>1. y \in Nat \ {0} /\ m \in 1..12
      BY DateParts
    <2> HIDE DEF y, m
    <2>2. p = 12 * y + 1 - 1 /\ q = 12 * y + m - 1
      BY DEF Place, y, m
    <2> HIDE DEF p, q
    <2> QED
      BY <2>1, <2>2
  <1>4. dt = ds + w
    OBVIOUS
  <1> HIDE DEF p, q, n, ds, dt
  <1>5. First(p) \in Int /\ First(p) <= First(q)
    BY <1>2, <1>3, NextMonth, MonthsGrow
  <1>6. ASSUME p < n
        PROVE  n - p \in 1..Reach /\ nend >= 0
    <2>1. First(p) <= First(n)
      BY <1>1, <1>3, <1>6, MonthsGrow
    <2>2. nend >= 0
      BY <1>1, <1>5, <2>1
    <2>3. n - p <= 25
      <3> SUFFICES ASSUME p + 26 <= n PROVE FALSE
        BY <1>1, <1>3
      <3> DEFINE r == q + 1
      <3>1. r \in Nat /\ 12 <= r /\ r <= n /\ r + 14 <= n
        BY <1>1, <1>2, <1>3
      <3> HIDE DEF r
      <3>2. First(r) + 28 * (n - r) <= First(n)
        BY <1>1, <3>1, MonthsGrow
      <3>3. First(r) \in Int
        BY <3>1, NextMonth
      <3>4. First(r) + 28 * 14 <= First(n)
        BY <1>1, <3>1, <3>2, <3>3
      <3>5. ds < First(r)
        BY <1>2 DEF r
      <3> QED
        BY <1>1, <1>2, <1>4, <3>3, <3>4, <3>5
    <2>4. n - p \in 1..25
      BY <1>1, <1>3, <1>6, <2>3
    <2> QED
      BY <2>2, <2>4 DEF Reach
  <1>7. ASSUME n < p
        PROVE  /\ p - n \in 1..Reach /\ (nend >= 0 => nend = 0)
               /\ t.d < LastDay(t.y, t.m) => ~(nend >= 0)
    <2> DEFINE r == n + 1
    <2>1. r \in Nat /\ 12 <= r /\ r <= p
      BY <1>1, <1>3, <1>7
    <2>2. First(r) \in Int /\ dt < First(r)
      BY <1>1
    <2>3. t.d < LastDay(t.y, t.m) => dt + 1 < First(r)
      <3> SUFFICES ASSUME t.d < LastDay(t.y, t.m) PROVE dt + 1 < First(r)
        OBVIOUS
      <3> DEFINE d == t.d
                 last == LastDay(t.y, t.m)
                 f == First(n)
      <3>1. f \in Int /\ dt = f + d - 1 /\ First(r) = f + last
        BY DayPlace DEF n, dt
      <3>2. d \in 1..31 /\ last \in 28..31 /\ d < last
        BY DateParts
      <3> HIDE DEF d, last, f, r
      <3> QED
        BY <3>1, <3>2
    <2> HIDE DEF r
    <2>4. First(r) <= First(p) /\ First(r) + 28 * (p - r) <= First(p)
      BY <1>3, <2>1, MonthsGrow
    <2>5. /\ nend >= 0 => nend = 0
          /\ t.d < LastDay(t.y, t.m) => ~(nend >= 0)
      BY <1>1, <1>5, <2>2, <2>3, <2>4
    <2>6. p - n <= 25
      <3> SUFFICES ASSUME n + 26 <= p PROVE FALSE
        BY <1>1, <1>3
      <3>1. r + 25 <= p
        BY <1>1 DEF r
      <3>2. First(r) + 28 * 25 <= First(p)
        BY <1>3, <1>5, <2>1, <2>2, <2>4, <3>1
      <3> QED
        BY <1>1, <1>2, <1>4, <1>5, <2>2, <3>2
    <2>7. p - n \in 1..25
      BY <1>1, <1>3, <1>7, <2>6
    <2> QED
      BY <2>5, <2>7 DEF Reach
  <1> QED
    BY <1>6, <1>7 DEF p, n, dt

\* Where a target follows its start, and where it does not, by months in a row.
LEMMA RangeOrders ==
    ASSUME NEW s \in DatesOf(MinYear .. MaxYear), NEW t \in DatesOf(MinYear .. MaxYear)
    PROVE  LET p == Place(s.y, 1)
               n == Place(t.y, t.m)
           IN /\ t.y > s.y \/ (t.y = s.y /\ t.m > 1) => p < n
              /\ t.y < s.y => n < p
  <1> DEFINE y == s.y
             z == t.y
             m == t.m
  <1>1. y \in Nat /\ z \in Nat /\ m \in 1..12
    BY DateParts
  <1> HIDE DEF y, z, m
  <1>2. Place(y, 1) = 12 * y /\ Place(z, m) = 12 * z + m - 1
    BY <1>1 DEF Place
  <1>3. z > y \/ (z = y /\ m > 1) => Place(y, 1) < Place(z, m)
    BY <1>1, <1>2
  <1>4. z < y => Place(z, m) < Place(y, 1)
    <2> SUFFICES ASSUME z + 1 <= y PROVE Place(z, m) < Place(y, 1)
      BY <1>1
    <2> QED
      BY <1>1, <1>2
  <1> QED
    BY <1>3, <1>4 DEF y, z, m

\* A date's digits end in its day, which is not 0.
LEMMA LastDigits ==
    ASSUME NEW t \in DatesOf(MinYear .. MaxYear)
    PROVE  Rq(t) % 100 # 0
  <1>1. t.y \in Nat /\ t.m \in 1..12 /\ t.d \in 1..31
    BY DateParts
  <1>2. Day(Rq(t)) = t.d
    BY <1>1, Decode, Zenon
  <1> DEFINE d == t.d
  <1>3. d \in 1..31
    BY <1>1
  <1> HIDE DEF d
  <1>4. d # 0
    BY <1>3
  <1> QED
    BY <1>2, <1>4, Zenon DEF Day, d

\* What is left after the last day of the year before is taken for a December.
DayOfDecember(y, nend) == (y - 1) * 10000 + 1200 + nend

LEMMA AheadBelow31 ==
    ASSUME NEW y \in Nat \ {0}, NEW nend \in Nat, nend < 31
    PROVE  Ahead(y, nend) = DayOfDecember(y, nend)
  BY DEF Ahead, DayOfDecember

\* Nothing left is day 0.
LEMMA AheadOfNone ==
    ASSUME NEW y \in Nat \ {0}
    PROVE  Ahead(y, 0) % 100 = 0
  <1>1. Ahead(y, 0) = DayOfDecember(y, 0)
    BY AheadBelow31
  <1>2. DayOfDecember(y, 0) % 100 = 0
    BY SMT DEF DayOfDecember
  <1> QED
    BY <1>1, <1>2, Zenon

\* No target in January of the date's own year is found: the first thirty days
\* become days of December, the last one day 0 of February.
LEMMA AheadMisses ==
    ASSUME NEW y \in Nat \ {0}, NEW t \in DatesOf(MinYear .. MaxYear), t.y = y, t.m = 1
    PROVE  LET nend == DaysOf(t) - First(Place(y, 1)) + 1
           IN nend >= 0 /\ Ahead(y, nend) # Rq(t)
  <1> DEFINE p == Place(y, 1)
             jan == First(p)
             nend == DaysOf(t) - jan + 1
             d == t.d
  <1>1. DaysOf(t) = jan + d - 1 /\ jan \in Int /\ p \in Nat /\ 12 <= p
    BY DayPlace
  <1>2. d \in 1..31
    BY DateParts
  <1>3. Rq(t) = y * 10000 + 100 + d
    BY DEF Rq
  <1> HIDE DEF p, jan, d
  <1>4. nend = d /\ nend >= 0
    BY <1>1, <1>2
  <1> HIDE DEF nend
  <1>5. ASSUME d < 31 PROVE Ahead(y, nend) # Rq(t)
    <2>1. d \in Nat
      BY <1>2
    <2>2. Ahead(y, d) = DayOfDecember(y, d)
      BY <1>5, <2>1, AheadBelow31, Zenon
    <2>3. DayOfDecember(y, d) # y * 10000 + 100 + d
      BY <2>1, SMT DEF DayOfDecember
    <2> QED
      BY <1>3, <1>4, <2>2, <2>3
  <1>6. ASSUME d = 31 PROVE Ahead(y, nend) # Rq(t)
    <2> DEFINE S == {j \in 1..Reach : 31 - Elapsed(y, j) <= Length(y, j)}
    <2>1. Elapsed(y, 1) = 31
      <3>1. Elapsed(y, 1) = First(p + 1) - jan
        BY ElapsedIs DEF p, jan
      <3>2. MonthLength(p) = 31
        <4>1. LastDay(y, 1) = 31 /\ y \in Int /\ 1 \in 1..12
          BY DEF LastDay
        <4> QED
          BY <4>1, PlaceParts, Zenon DEF p
      <3>3. First(p + 1) = jan + MonthLength(p)
        BY <1>1, NextMonth DEF jan
      <3> QED
        BY <1>1, <3>1, <3>2, <3>3
    <2>2. Length(y, 1) \in 28..31
      <3>1. Length(y, 1) = MonthLength(p + 1)
        BY LengthIs DEF p
      <3>2. p + 1 \in Nat /\ 12 <= p + 1
        BY <1>1
      <3> QED
        BY <3>1, <3>2, NextMonth
    <2>3. 1 \in S
      BY <2>1, <2>2 DEF Reach
    <2>4. S \in SUBSET Int /\ \A j \in S : 1 <= j
      <3>1. S \subseteq 1..Reach
        OBVIOUS
      <3> HIDE DEF S
      <3>2. \A j \in 1..Reach : j \in Int /\ 1 <= j
        BY DEF Reach
      <3> QED
        BY <3>1, <3>2, Zenon
    <2>5. Ahead(y, 31) = YearOf(y, Min(S)) * 10000 + ((Min(S) % 12) + 1) * 100 + (31 - Elapsed(y, Min(S)))
      BY DEF Ahead
    <2> HIDE DEF S
    <2>6. Min(S) = 1
      BY <2>3, <2>4, MinIs
    <2>7. YearOf(y, 1) = y
      BY DEF YearOf
    <2>8. Ahead(y, 31) = y * 10000 + 200
      BY <2>1, <2>5, <2>6, <2>7
    <2>9. y * 10000 + 200 # y * 10000 + 100 + 31
      BY SMT
    <2> QED
      BY <1>3, <1>4, <1>6, <2>8, <2>9
  <1> QED
    <2>1. d < 31 \/ d = 31
      BY <1>2
    <2>2. nend >= 0 /\ Ahead(y, nend) # Rq(t)
      BY <1>4, <1>5, <1>6, <2>1, Zenon
    <2> QED
      BY <2>2, Zenon DEF nend, jan, p

\* Going back, a January is printed as month 13 of the year before.
LEMMA BackMissesJanuary ==
    ASSUME NEW t \in DatesOf(MinYear .. MaxYear), t.m = 1
    PROVE  MonthThirteen(t.y, t.d) # Rq(t)
  <1> DEFINE y == t.y
             d == t.d
  <1>1. y \in Nat /\ d \in 1..31
    BY DateParts
  <1>2. Rq(t) = y * 10000 + 100 + d
    BY DEF Rq
  <1> HIDE DEF y, d
  <1>3. MonthThirteen(y, d) # y * 10000 + 100 + d
    BY <1>1, SMT DEF MonthThirteen
  <1> QED
    BY <1>2, <1>3 DEF y, d

\* GetOtherDay moves by its span just where the target is neither in the date's
\* own January nor, in the year before, in January or on a month's last day.
THEOREM OtherDayMoves == Spec => []OtherDayRightInRange
  <1>1. IInv => OtherDayRightInRange
    <2> SUFFICES ASSUME IInv, SpanAllowed
                 PROVE  OtherDayInRange <=> GetOtherDay(Rq(start), walked) = Rq(today)
      BY DEF OtherDayRightInRange
    <2> DEFINE y == start.y
               p == Place(y, 1)
               n == Place(today.y, today.m)
               nend == DaysOf(today) - First(p) + 1
               other == GetOtherDay(Rq(start), walked)
               short == today.d < LastDay(today.y, today.m)
    <2>1. /\ start \in DatesOf(MinYear .. MaxYear) /\ today \in DatesOf(MinYear .. MaxYear)
          /\ walked \in Int /\ DaysOf(today) = DaysOf(start) + walked
      BY DEF IInv, Placed, Counted
    <2>2. -364 < walked /\ walked < 365
      BY <2>1 DEF SpanAllowed
    <2>3. /\ p < n => n - p \in 1..Reach /\ nend >= 0
          /\ n < p => p - n \in 1..Reach /\ (nend >= 0 => nend = 0)
          /\ n < p /\ short => ~(nend >= 0)
      BY <2>1, <2>2, TargetInReach
    <2>4. /\ Year(Rq(start)) = y /\ y \in Nat \ {0}
          /\ DayOfYear(Rq(start)) = DaysOf(start) - First(p) + 1
          /\ DaysOf(start) \in Int /\ First(p) \in Int
      BY <2>1, DateInYear, Zenon
    <2>5. DayOfYear(Rq(start)) + walked = nend
      <3> DEFINE ds == DaysOf(start)
                 f == First(p)
      <3>1. ds \in Int /\ f \in Int /\ walked \in Int /\ DaysOf(today) = ds + walked
            /\ DayOfYear(Rq(start)) = ds - f + 1
        BY <2>1, <2>4
      <3> HIDE DEF ds, f
      <3>2. DayOfYear(Rq(start)) + walked = DaysOf(today) - f + 1
        BY <3>1
      <3> QED
        BY <3>2 DEF f
    <2> HIDE DEF nend
    <2>6. other = IF nend >= 0 THEN Ahead(y, nend) ELSE Back(y, nend)
      BY <2>4, <2>5, Zenon DEF GetOtherDay
    <2>7. /\ today.y > y \/ (today.y = y /\ today.m > 1) => p < n
          /\ today.y < y => n < p
      BY <2>1, RangeOrders, Zenon
    <2>8. /\ today.y \in Int /\ y \in Int /\ today.m \in 1..12
          /\ today.d \in Int /\ today.d <= LastDay(today.y, today.m) /\ LastDay(today.y, today.m) \in Int
      BY <2>1, DateParts
    <2>9. CASE today.y > y \/ (today.y = y /\ today.m > 1)
      <3>1. n - p \in 1..Reach /\ nend >= 0
        BY <2>3, <2>7, <2>9, Zenon
      <3>2. Ahead(y, nend) = Rq(today)
        BY <2>1, <2>4, <3>1, AheadLands, Zenon DEF nend
      <3> QED
        BY <2>6, <2>9, <3>1, <3>2, Zenon DEF OtherDayInRange
    <2>10. CASE today.y = y /\ today.m = 1
      <3>1. nend >= 0 /\ Ahead(y, nend) # Rq(today)
        BY <2>1, <2>4, <2>10, AheadMisses, Zenon DEF nend
      <3>2. ~OtherDayInRange
        BY <2>8, <2>10 DEF OtherDayInRange
      <3> QED
        BY <2>6, <3>1, <3>2, Zenon
    <2>11. CASE today.y < y
      <3>1. p - n \in 1..Reach /\ (nend >= 0 => nend = 0) /\ (short => ~(nend >= 0))
        BY <2>3, <2>7, <2>11, Zenon
      <3>2. OtherDayInRange <=> today.m # 1 /\ short
        BY <2>8, <2>11 DEF OtherDayInRange
      <3>3. CASE short
        <4>1. other = IF today.m = 1 THEN MonthThirteen(today.y, today.d) ELSE Rq(today)
          <5>1. Back(y, nend) = IF today.m = 1 THEN MonthThirteen(today.y, today.d) ELSE Rq(today)
            BY <2>1, <2>4, <3>1, <3>3, BackLands, Zenon DEF nend
          <5> QED
            BY <2>6, <3>1, <3>3, <5>1, Zenon
        <4>2. today.m = 1 => MonthThirteen(today.y, today.d) # Rq(today)
          BY <2>1, BackMissesJanuary, Zenon
        <4> HIDE DEF other
        <4>3. today.m # 1 <=> other = Rq(today)
          BY <4>1, <4>2, Zenon
        <4> QED
          BY <3>2, <3>3, <4>3, Zenon DEF other
      <3>4. CASE ~short
        <4>1. today.d = LastDay(today.y, today.m)
          BY <2>8, <3>4
        <4>2. other % 100 = 0
          <5>1. CASE nend >= 0
            <6>1. nend = 0
              BY <3>1, <5>1
            <6>2. Ahead(y, 0) % 100 = 0
              BY <2>4, AheadOfNone, Zenon
            <6> QED
              BY <2>6, <5>1, <6>1, <6>2, Zenon
          <5>2. CASE ~(nend >= 0)
            <6>1. Back(y, nend) % 100 = 0
              BY <2>1, <2>4, <3>1, <4>1, <5>2, BackMisses, Zenon DEF nend
            <6> QED
              BY <2>6, <5>2, <6>1, Zenon
          <5> QED
            BY <5>1, <5>2, Zenon
        <4>3. Rq(today) % 100 # 0
          BY <2>1, LastDigits, Zenon
        <4> HIDE DEF other
        <4>4. other # Rq(today)
          BY <4>2, <4>3, Zenon
        <4> QED
          BY <3>2, <3>4, <4>4, Zenon DEF other
      <3> QED
        BY <3>3, <3>4, Zenon
    <2>12. today.y > y \/ (today.y = y /\ today.m > 1) \/ (today.y = y /\ today.m = 1) \/ today.y < y
      BY <2>8
    <2> QED
      BY <2>9, <2>10, <2>11, <2>12, Zenon
  <1> QED
    BY <1>1, DateInvariance, PTL

\* What counts days counts those of the walk, and GetOtherDay moves by its span
\* just where the range above says.
THEOREM SpansCounted == Spec => []SpansCount
  <1>1. DateMinusCounts /\ OtherDayRightInRange => SpansCount
    BY DEF SpansCount
  <1> QED
    BY <1>1, DifferencesCount, OtherDayMoves, PTL

=============================================================================
