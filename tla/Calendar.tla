------------------------------- MODULE Calendar -------------------------------
(***************************************************************************)
(* The Gregorian calendar itself, as a reference: which years are leap,    *)
(* how long each month is, and which date follows and precedes a date.     *)
(* Nothing here is translated from the code; the code's date functions     *)
(* are compared with it.                                                   *)
(***************************************************************************)
EXTENDS Integers

Leap(y) == y % 400 = 0 \/ (y % 4 = 0 /\ y % 100 # 0)

LastDay(y, m) ==
    CASE m \in {4, 6, 9, 11} -> 30
      [] m = 2 -> IF Leap(y) THEN 29 ELSE 28
      [] OTHER -> 31

Date(y, m, d) == [y |-> y, m |-> m, d |-> d]

\* The dates of the years in the set Years.
DatesOf(Years) ==
    {t \in [y : Years, m : 1..12, d : 1..31] : t.d <= LastDay(t.y, t.m)}

Tomorrow(t) ==
    IF t.d < LastDay(t.y, t.m) THEN Date(t.y, t.m, t.d + 1)
    ELSE IF t.m < 12 THEN Date(t.y, t.m + 1, 1)
    ELSE Date(t.y + 1, 1, 1)

Yesterday(t) ==
    IF t.d > 1 THEN Date(t.y, t.m, t.d - 1)
    ELSE IF t.m > 1 THEN Date(t.y, t.m - 1, LastDay(t.y, t.m - 1))
    ELSE Date(t.y - 1, 12, 31)

\* The day of the week, Sunday being 0, by the rule of Sakamoto.
Weekday(t) ==
    LET y == IF t.m < 3 THEN t.y - 1 ELSE t.y
        shift == <<0, 3, 2, 5, 0, 3, 5, 1, 4, 6, 2, 4>>
    IN (y + y \div 4 - y \div 100 + y \div 400 + shift[t.m] + t.d) % 7
===============================================================================
