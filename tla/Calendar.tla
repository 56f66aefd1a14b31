----------------------------- MODULE Calendar ------------------------------
(***************************************************************************)
(* Days, weeks, months and years as lib/src/Misc/utils.cpp computes them   *)
(* from local time, for the summaries and the details.  Times are seconds. *)
(* Local time is what the C library makes of it: a day begins at a time of *)
(* its own, and is an hour shorter or longer when the clocks are changed.  *)
(***************************************************************************)
EXTENDS Integers

CONSTANTS
  Midnight,      \* Midnight[d]: when day d of the years modelled begins
  Civil,         \* Civil[d]: its tm_year, tm_mon, tm_mday and tm_wday
  ClockChange,   \* the clocks are changed so long after midnight
  FirstWeekday   \* first_weekday() - 1: 0 is Sunday

\* The days whose end is known, too
Day == {d \in DOMAIN Midnight : d + 1 \in DOMAIN Midnight}

CivilDay == [year : Int, mon : 0 .. 11, mday : 1 .. 31, wday : 0 .. 6]

Hours24 == 24 * 3600   \* 24h

\* Days are about as long as 24 hours.
ASSUME CalendarAssumption ==
  /\ DOMAIN Midnight \subseteq Int
  /\ Midnight \in [DOMAIN Midnight -> Int] /\ Civil \in [DOMAIN Midnight -> CivilDay]
  /\ \A d \in Day : Midnight[d] < Midnight[d + 1]
  /\ \A d \in Day : Hours24 * d < Midnight[d + 1] /\ Midnight[d] < Hours24 * (d + 1)
  /\ FirstWeekday \in 0 .. 6 /\ ClockChange \in Nat

-----------------------------------------------------------------------------
(* The C library *)

\* localtime
DayOf(t) ==
  LET d == t \div Hours24
  IN  IF t < Midnight[d] THEN d - 1 ELSE IF t < Midnight[d + 1] THEN d ELSE d + 1

\* mktime of 00:00:00 and of 23:59:59, with tm_isdst = -1
Begin(d) == Midnight[d]
End(d) == Midnight[d + 1] - 1

\* mktime of the same day at 23:59:57 with the tm_isdst of t: on the day of
\* a change the clock of the morning is taken for the one of the night.
NearMidnight(t) ==
  IF t < Begin(DayOf(t)) + ClockChange THEN Begin(DayOf(t)) + Hours24 - 3
                                       ELSE End(DayOf(t)) - 2

-----------------------------------------------------------------------------
IsOnDifferentDays(t, u) == DayOf(t) # DayOf(u)

DayRange(t) == [from |-> Begin(DayOf(t)), to |-> End(DayOf(t))]

\* get_day_of_week
DayOfWeek(t) ==
  LET day == Civil[DayOf(t)].wday - FirstWeekday
  IN  IF day < 0 THEN day + 7 ELSE day

\* Steps of 24 hours, which need not be days
BeginningOfWeek(t) == Begin(DayOf(t - Hours24 * DayOfWeek(t)))

EndOfWeek(t) == End(DayOf(BeginningOfWeek(t) + 6 * Hours24))

WeekRange(t) == [from |-> BeginningOfWeek(t), to |-> EndOfWeek(t)]

\* days_in_month.  tm_year counts from 1900: the test for a leap year is
\* that of another year.
DaysInMonth(year, mon) ==
  CASE mon = 1 -> IF (year % 4 = 0 /\ year % 100 # 0) \/ year % 400 = 0 THEN 29 ELSE 28
    [] mon \in {3, 5, 8, 10} -> 30
    [] OTHER -> 31

MonthRange(t) ==
  LET d == DayOf(t)
      last == DaysInMonth(Civil[d].year, Civil[d].mon)
  IN  [from |-> Begin(d - Civil[d].mday + 1), to |-> End(d - Civil[d].mday + last)]

YearRange(t) ==
  LET On(mon, mday) == CHOOSE d \in Day : /\ Civil[d].year = Civil[DayOf(t)].year
                                          /\ Civil[d].mon = mon /\ Civil[d].mday = mday
  IN  [from |-> Begin(On(0, 1)), to |-> End(On(11, 31))]

\* Mutant of TimeSpan: a week is six days on from the day picked.
TimeSpanFromThere(view, d) ==
  CASE view = "day"   -> DayRange(Begin(d))
    [] view = "week"  -> [from |-> BeginningOfWeek(Begin(d)), to |-> End(DayOf(Begin(d) + 6 * Hours24))]
    [] view = "month" -> MonthRange(Begin(d))
    [] view = "year"  -> YearRange(Begin(d))

(***************************************************************************)
(* summary::on_date_changed with the calculate_time_span of the view: the  *)
(* calendar gives a day, to_time its midnight.                             *)
(***************************************************************************)
TimeSpan(view, d) ==
  CASE view = "day"   -> DayRange(Begin(d))
    [] view = "week"  -> WeekRange(Begin(d))
    [] view = "month" -> MonthRange(Begin(d))
    [] view = "year"  -> YearRange(Begin(d))
=============================================================================
