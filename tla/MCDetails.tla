----------------------------- MODULE MCDetails -----------------------------
(***************************************************************************)
(* Instances of Details: six weeks from Monday 27 February 2023, with the  *)
(* change to summer time on Sunday 26 March, in the last week of the month *)
(* (Europe).                                                               *)
(***************************************************************************)
EXTENDS Details

Midnights(change, shift) ==
  [d \in 0 .. 41 |-> 24 * 3600 * d + (IF d > change THEN shift ELSE 0)]

MCMidnight == Midnights(27, -3600)

MCCivil ==
  [d \in 0 .. 41 |->
     [year |-> 123, wday |-> (d + 1) % 7,
      mon |-> IF d < 2 THEN 1 ELSE IF d < 33 THEN 2 ELSE 3,
      mday |-> IF d < 2 THEN 27 + d ELSE IF d < 33 THEN d - 1 ELSE d - 32]]

At(d, second) == MCMidnight[d] + second

MCSpans ==
  {[start |-> At(26, 36000), stop |-> At(26, 36000)],   \* just started
   [start |-> At(26, 36000), stop |-> At(26, 37000)],   \* ... and running
   [start |-> At(26, 86398), stop |-> At(27, 1)],       \* around midnight
   [start |-> At(27, 3000), stop |-> At(27, 3600)]}

MCPicks ==
  {[view |-> "day", day |-> 26], [view |-> "day", day |-> 27], [view |-> "month", day |-> 26],
   [view |-> "week", day |-> 25],   \* the week before the change
   [view |-> "week", day |-> 28]}   \* the week of the change
MCDay == {[view |-> "day", day |-> 26]}
MCWeek == {[view |-> "week", day |-> d] : d \in 26 .. 29}

C(midnight, first) == INSTANCE Calendar WITH Midnight <- midnight, FirstWeekday <- first

\* The days of the week of a day, as the code has them
Week(change, shift, first, d) ==
  LET midnight == Midnights(change, shift)
      week == C(midnight, first)!WeekRange(midnight[d])
  IN  <<C(midnight, first)!DayOf(week.from), C(midnight, first)!DayOf(week.to)>>

\* With weeks that begin on Monday a week is whole wherever the clocks are
\* changed on a Sunday, in spring or in autumn, and whichever day is picked.
ASSUME MondayWeeks ==
  \A change \in {20, 27}, shift \in {-3600, 0, 3600}, d \in 7 .. 34 :
    Week(change, shift, 1, d) = <<d - (d % 7), d - (d % 7) + 6>>

\* With weeks that begin on Sunday (days 20 and 27 are Sundays) the week of
\* the change to summer time is a day early, Saturday to Friday, unless its
\* Sunday is picked, and that of the change to winter time has no Saturday.
ASSUME SundayWeeks ==
  \A shift \in {-3600, 0, 3600}, d \in 20 .. 33 :
    LET sunday == IF d < 27 THEN 20 ELSE 27
    IN  Week(20, shift, 0, d) =
          CASE sunday = 20 /\ shift < 0 /\ d > 20 -> <<19, 25>>
            [] sunday = 20 /\ shift > 0 -> <<20, 25>>
            [] OTHER -> <<sunday, sunday + 6>>

\* days_in_month is right in the years that can be chosen (timestamp_edit.cpp:78)
\* except the first.
ASSUME MonthsAreWhole ==
  \A year \in 2001 .. 2050 :
    DaysInMonth(year - 1900, 1) = IF year % 4 = 0 THEN 29 ELSE 28
=============================================================================
