----------------------------- MODULE MCCalendar -----------------------------
(* Small zones, months and schedules, and the calendar by itself. *)
EXTENDS Calendar, TLC

(* Clocks forward in the night; forward, and back in the next year at the      *)
(* same place of it, in the night; forward at midnight; forward from the last  *)
(* hour of a day into the next day. Days of four hours, weeks of three days,   *)
(* years of two months, months of two to five days.                            *)
MCOffset(z, t) ==
  CASE z = "spring" -> IF t >= 60 THEN 2 ELSE 1
    [] z = "autumn" -> IF t \in 33..60 THEN 2 ELSE 1
    [] z = "midnight" -> IF t >= 59 THEN 2 ELSE 1
    [] z = "evening" -> IF t >= 58 THEN 2 ELSE 1

MCMonthStarts == <<0, 3, 7, 9, 14, 17, 21, 25, 29, 33, 37, 41, 45>>

MCSchedules ==
  LET Schedule(c, h, d) == [cadence |-> c, hour |-> h, day |-> d]
  IN { Schedule("daily", 3, 0), Schedule("daily", 0, 0), Schedule("weekly", 3, 0),
       Schedule("weekly", 1, 2), Schedule("monthly", 3, 5), Schedule("monthly", 0, 1) }

CalendarSpec == CalendarInit /\ [][CalendarNext]_calendarVars
=============================================================================
