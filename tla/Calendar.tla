------------------------------ MODULE Calendar ------------------------------
(***************************************************************************)
(* The dates of date ranges, DATE and the @ functions: days since 1/1/80,  *)
(* dates, days of the year and ISO weeks, as MISC.C computes one from the  *)
(* other.  All divisions of the code are of numbers that are not negative. *)
(***************************************************************************)
EXTENDS Integers, SequencesExt

CONSTANT Days       \* the days to look at

VARIABLE day

Init == day \in Days
Next == day \in Days /\ day' = day + 1
Spec == Init /\ [][Next]_day

-----------------------------------------------------------------------------
\* The days of the months; the second one is set for each year.
aDays(year) == [i \in 1 .. 12 |-> IF i = 2 THEN IF year % 4 = 0 THEN 29 ELSE 28
                                  ELSE IF i \in {4, 6, 9, 11} THEN 30 ELSE 31]

\* Mutant: the loop stops a day too early.
DOYtoDateEarly(year, n) ==
  LET Before(i) == FoldLeft(+, 0, SubSeq(aDays(year), 1, i - 1))
      i == CHOOSE k \in 1 .. 12 : n >= Before(k) /\ (k = 12 \/ n < Before(k + 1))
  IN  [m |-> i, d |-> n - Before(i)]

\* The n-th day of a year.
DOYtoDate(year, n) ==
  LET Before(i) == FoldLeft(+, 0, SubSeq(aDays(year), 1, i - 1))
      i == CHOOSE k \in 1 .. 12 : n > Before(k) /\ (k = 12 \/ n <= Before(k + 1))
  IN  [m |-> i, d |-> n - Before(i)]

\* The years are taken off one by one: here, how many days there are before each.
Years == 80 .. 200
Length(y) == IF y % 4 = 0 THEN 366 ELSE 365
FirstDay == [y \in Years |-> (y - 80) * 365 + (y - 77) \div 4]
MakeDateFromDays(n) ==
  LET y == CHOOSE y \in Years : FirstDay[y] <= n /\ n < FirstDay[y] + Length(y)
  IN  [y |-> y + 1900] @@ DOYtoDate(y, n - FirstDay[y] + 1)

\* The week, its year, the day of the week and the day of the year.
ISOweekDOY(date) ==
  LET a == IF date.m < 3 THEN date.y - 1 ELSE date.y
      b == (a \div 4) - (a \div 100) + (a \div 400)
      c == ((a - 1) \div 4) - ((a - 1) \div 100) + ((a - 1) \div 400)
      s == b - c
      e == IF date.m < 3 THEN 0 ELSE s + 1
      f == IF date.m < 3 THEN date.d - 1 + 31 * (date.m - 1)
           ELSE date.d + ((153 * (date.m - 3) + 2) \div 5) + 58 + s
      g == (a + b) % 7
      d == (f + g - e) % 7
      n == f + 3 - d
  IN  [doy |-> f + 1, weekday |-> d + 1] @@
      (IF n < 0 THEN [year |-> date.y - 1, week |-> 53 - ((g - s) \div 5)]
       ELSE IF n > 364 + s THEN [year |-> date.y + 1, week |-> 1]
       ELSE [year |-> date.y, week |-> (n \div 7) + 1])

MakeDaysFromDate(date) ==
  ISOweekDOY(date).doy - 1 + (date.y - 1980) * 365 + ((date.y - 1977) \div 4)

\* GetStrDate() reads yyyy-Www-d.
FromWeek(year, week, weekday) ==
  LET n == (year - 1980) * 365 + ((year - 1977) \div 4)
  IN  n + week * 7 - ((n + 4) % 7) + weekday - 5

-----------------------------------------------------------------------------
(***************************************************************************)
(* Properties.                                                             *)
(***************************************************************************)
Leap(y) == y % 400 = 0 \/ (y % 4 = 0 /\ y % 100 # 0)
Month(y, m) == IF m = 2 THEN (IF Leap(y) THEN 29 ELSE 28) ELSE IF m \in {4, 6, 9, 11} THEN 30 ELSE 31
Tomorrow(t) == IF t.d < Month(t.y, t.m) THEN [t EXCEPT !.d = @ + 1]
               ELSE IF t.m < 12 THEN [t EXCEPT !.d = 1, !.m = @ + 1] ELSE [y |-> t.y + 1, m |-> 1, d |-> 1]

\* Each day has its own date, the one that follows that of the day before in
\* the calendar; the date gives the day back, and so does its ISO week, whose
\* weekdays go round.
DatesFollow ==
  LET today == MakeDateFromDays(day)
      iso == ISOweekDOY(today)
  IN  /\ MakeDaysFromDate(today) = day
      /\ FromWeek(iso.year, iso.week, iso.weekday) = day
      /\ iso.week \in 1 .. 53 /\ iso.weekday = ((day + 1) % 7) + 1
      /\ day \in Days => MakeDateFromDays(day + 1) = Tomorrow(today)
=============================================================================
