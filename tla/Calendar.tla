------------------------------ MODULE Calendar ------------------------------
(* Local calendar time: when a schedule fires, the period its stamp names,   *)
(* the completed period it reports, the next report that the status shows,   *)
(* and the windows an analysis compares. An instant is an hour of UTC. A     *)
(* zone gives every instant its offset; clocks move forward and back, so a   *)
(* local hour can be missing or come twice. Days, weeks, months and years    *)
(* have the lengths the constants say.                                       *)
EXTENDS Integers, Sequences, FiniteSets, FiniteSetsExt

CONSTANTS
  Zones,
  Offset(_, _),   \* the offset of a zone at an instant, never negative
  DayHours,       \* 24
  WeekDays,       \* 7
  MonthStarts,    \* the first day of each month, in order
  YearMonths,     \* 12
  Schedules,      \* [cadence, hour, day]: a weekday or a day of the month
  FirstHour,      \* bound: where the clock starts
  LastHour,       \* bound: where it ends
  MaxScheduleEdits,
  Never

ASSUME CalendarAssumption ==
  /\ {DayHours, WeekDays, YearMonths} \subseteq Nat \ {0}
  /\ \A s \in Schedules : s.hour \in 0..(DayHours - 1) /\ s.cadence \in {"daily", "weekly", "monthly"}

VARIABLES
  zone,
  hour,       \* the present instant
  schedule,
  stamped,    \* the period of the last fire
  reported,   \* the window of the last fire of this schedule, while none was missed
  revised     \* edits so far

calendarVars == <<zone, hour, schedule, stamped, reported, revised>>

-----------------------------------------------------------------------------
(* Local time *)

Local(t) == t + Offset(zone, t)
DayOf(t) == Local(t) \div DayHours
HourOf(t) == Local(t) % DayHours
FoldOf(t) == IF \E u \in (t - DayHours)..(t - 1) : Local(u) = Local(t) THEN 1 ELSE 0

(* A local hour as an instant: the fold chooses between two, and a missing    *)
(* hour takes the offset from before the gap, or from after it.               *)
Wall(day, h, fold) ==
  LET local == day * DayHours + h
      near == (local - 2 * DayHours)..local
      hits == { t \in near : Local(t) = local }
      before == Max({ t \in near : Local(t) < local })
  IN IF hits # {} THEN IF fold = 0 THEN Min(hits) ELSE Max(hits)
     ELSE local - Offset(zone, before + fold)

Midnight(day) == Wall(day, 0, 0)

MonthOf(day) == Max({ m \in DOMAIN MonthStarts : MonthStarts[m] <= day })
MonthLength(m) == MonthStarts[m + 1] - MonthStarts[m]
YearOf(m) == (m - 1) \div YearMonths
WeekStart(day) == day - (day % WeekDays)

-----------------------------------------------------------------------------
(* Schedules *)

(* A month shorter than the day fires on its last day. *)
Wanted(s, day) ==
  CASE s.cadence = "daily" -> TRUE
    [] s.cadence = "weekly" -> day % WeekDays = s.day
    [] s.cadence = "monthly" ->
         day - MonthStarts[MonthOf(day)] + 1 = Min({s.day, MonthLength(MonthOf(day))})

Candidate(s, day) == Wall(day, s.hour, 0)

NextFire(s, t) ==
  LET later == { d \in DayOf(t)..(DayOf(t) + 2 * WeekDays) : Wanted(s, d) /\ Candidate(s, d) > t }
  IN Candidate(s, Min(later))

ShouldFire(s, t) == Wanted(s, DayOf(t)) /\ Candidate(s, DayOf(t)) = t

PeriodOf(s, t) ==
  CASE s.cadence = "daily" -> <<"daily", DayOf(t)>>
    [] s.cadence = "weekly" -> <<"weekly", WeekStart(DayOf(t))>>
    [] s.cadence = "monthly" -> <<"monthly", MonthOf(DayOf(t))>>

(* The previous completed day, week or month. *)
CompletedPeriod(s, t) ==
  LET end == CASE s.cadence = "daily" -> DayOf(t)
               [] s.cadence = "weekly" -> WeekStart(DayOf(t))
               [] s.cadence = "monthly" -> MonthStarts[MonthOf(DayOf(t))]
      start == CASE s.cadence = "daily" -> end - 1
                 [] s.cadence = "weekly" -> end - WeekDays
                 [] s.cadence = "monthly" -> MonthStarts[MonthOf(end - 1)]
  IN <<Midnight(start), Midnight(end)>>

NextReport_Mutant(s, t) == NextFire(s, t)

(* What the status shows: the next fire, or the one after it when its period  *)
(* is already consumed.                                                       *)
NextReport(s, t) ==
  LET fire == NextFire(s, t)
  IN IF PeriodOf(s, fire) = stamped THEN NextFire(s, fire) ELSE fire

(* The entries of the report calendar in [a, b). *)
RECURSIVE Occurrences(_, _, _)
Occurrences(s, a, b) ==
  LET fire == NextFire(s, a - 1) IN IF fire >= b THEN {} ELSE {fire} \cup Occurrences(s, fire + 1, b)

CalendarInit ==
  /\ zone \in Zones /\ schedule \in Schedules
  /\ hour = FirstHour /\ stamped = Never /\ reported = Never /\ revised = 0

(* The callback of the next instant: it fires unless its period is stamped. *)
Fires ==
  LET now == hour + 1
  IN /\ hour < LastHour /\ hour' = now
     /\ IF ShouldFire(schedule, now) /\ PeriodOf(schedule, now) # stamped
        THEN /\ stamped' = PeriodOf(schedule, now)
             /\ reported' = CompletedPeriod(schedule, now)
        ELSE UNCHANGED <<stamped, reported>>
     /\ UNCHANGED <<zone, schedule, revised>>

(* Home Assistant was not running. *)
Sleeps ==
  /\ hour < LastHour /\ hour' = hour + 1
  /\ ShouldFire(schedule, hour + 1)
  /\ reported' = Never
  /\ UNCHANGED <<zone, schedule, stamped, revised>>

Edits ==
  /\ revised < MaxScheduleEdits /\ revised' = revised + 1
  /\ schedule' \in Schedules \ {schedule} /\ reported' = Never
  /\ UNCHANGED <<zone, hour, stamped>>

CalendarNext == Fires \/ Sleeps \/ Edits

-----------------------------------------------------------------------------
(* Windows of an analysis *)

Kinds == {"day", "week", "month", "year"}

PeriodStart(kind, day) ==
  CASE kind = "day" -> day
    [] kind = "week" -> WeekStart(day)
    [] kind = "month" -> MonthStarts[MonthOf(day)]
    [] kind = "year" -> MonthStarts[YearOf(MonthOf(day)) * YearMonths + 1]

NextStart(kind, day) ==
  CASE kind = "day" -> day + 1
    [] kind = "week" -> day + WeekDays
    [] kind = "month" -> MonthStarts[MonthOf(day) + 1]
    [] kind = "year" -> MonthStarts[MonthOf(day) + YearMonths]

(* The period of a day as far as it is completed. *)
CurrentWindow(kind, day) ==
  LET first == PeriodStart(kind, day)
      limit == Midnight(NextStart(kind, first))
  IN [day |-> first, start |-> Midnight(first), end |-> Min({hour, limit}), limit |-> limit]

Partial(w) == w.end < w.limit

CutoffDay_Mutant(kind, w, target) == target + (DayOf(w.end) - w.day)

(* The day of a baseline at which the current window ends, or Never when its  *)
(* month is too short.                                                        *)
CutoffDay(kind, w, target) ==
  LET at == DayOf(w.end)
      month == MonthOf(target) + IF kind = "year" THEN MonthOf(at) - MonthOf(w.day) ELSE 0
      ofMonth == at - MonthStarts[MonthOf(at)]
  IN CASE kind \in {"day", "week"} -> target + (at - w.day)
       [] kind = "month" -> IF ofMonth < MonthLength(month) THEN MonthStarts[month] + ofMonth ELSE Never
       [] kind = "year" -> MonthStarts[month] + Min({ofMonth, MonthLength(month) - 1})

CutoffAt(day, w) == Wall(day, HourOf(w.end), FoldOf(w.end))

PreviousDay(kind, w) ==
  CASE kind = "day" -> w.day - 1
    [] kind = "week" -> w.day - WeekDays
    [] kind = "month" -> PeriodStart("month", w.day - 1)
    [] kind = "year" -> PeriodStart("year", w.day - 1)

(* The window before, as the composer aligns it. *)
PreviousWindow(kind, w) ==
  LET target == PreviousDay(kind, w)
      cutoff == CutoffDay(kind, w, target)
  IN [start |-> Midnight(target), limit |-> Midnight(NextStart(kind, target)),
      end |-> IF ~Partial(w) \/ cutoff = Never THEN w.start ELSE CutoffAt(cutoff, w)]

(* A baseline further back, as the analysis aligns it. *)
Baseline(kind, w, target) ==
  LET limit == Midnight(NextStart(kind, target))
      cutoff == CutoffDay(kind, w, target)
  IN [start |-> Midnight(target), limit |-> limit,
      end |-> IF ~Partial(w) \/ cutoff = Never THEN limit ELSE Min({limit, CutoffAt(cutoff, w)})]

YearAgo(w) == MonthStarts[MonthOf(w.day) - YearMonths]

(* The weeks of a year are numbered: a week belongs to the year of its middle  *)
(* day, the first one holds the fourth of January. A year may lack a week of   *)
(* that number.                                                                *)
IsoYear(week) == YearOf(MonthOf(week + WeekDays \div 2))
FirstWeek(year) == WeekStart(MonthStarts[year * YearMonths + 1] + WeekDays \div 2)

WeekAgo(w) ==
  LET year == IsoYear(w.day)
      week == FirstWeek(year - 1) + (w.day - FirstWeek(year))
  IN { d \in {week} : d < FirstWeek(year) }

Targets(kind, w) ==
  CASE kind = "day" -> { w.day - n : n \in 1..WeekDays }
    [] kind = "week" -> WeekAgo(w)
    [] OTHER -> {YearAgo(w)}

(* The report window of a date that somebody selects, unless its period is not  *)
(* over; before every step of the report it is validated as the period that a   *)
(* schedule of this cadence reports at its end.                                *)
KindOf == [daily |-> "day", weekly |-> "week", monthly |-> "month"]

SelectedWindow(cadence, day) ==
  LET w == CurrentWindow(KindOf[cadence], day) IN IF Partial(w) THEN Never ELSE <<w.start, w.end>>

ValidWindow(cadence, bounds) ==
  /\ bounds[1] < bounds[2] /\ bounds[2] <= hour
  /\ bounds = CompletedPeriod([cadence |-> cadence], bounds[2])

-----------------------------------------------------------------------------
(* Properties *)

(* The report that the status announces is the next one the dispatcher sends, *)
(* across clock changes, short months, edits and a consumed period. It reports *)
(* a period that is over and, while none was missed, the very next one; the   *)
(* report calendar shows the fires and nothing else; a date whose period is   *)
(* over can be reported on request. It needs a zone whose clock never jumps    *)
(* from the last hour of a day into the next day: see AnnouncedFires.          *)
NextReportFollows ==
  hour > FirstHour =>
    /\ LET next == NextReport(schedule, hour)
           window == CompletedPeriod(schedule, next)
       IN /\ ShouldFire(schedule, next) /\ PeriodOf(schedule, next) # stamped
          /\ window[1] < window[2] /\ window[2] <= next
          /\ reported # Never => window[1] = reported[2]
          /\ \A t \in (hour + 1)..(next - 1) : ShouldFire(schedule, t) => PeriodOf(schedule, t) = stamped
    /\ Occurrences(schedule, hour, hour + WeekDays * DayHours)
         = { t \in hour..(hour + WeekDays * DayHours - 1) : ShouldFire(schedule, t) }
    /\ \A cadence \in DOMAIN KindOf, day \in (DayOf(hour) - WeekDays)..DayOf(hour) :
         SelectedWindow(cadence, day) # Never => ValidWindow(cadence, SelectedWindow(cadence, day))

(* calculate_next_fire promises the "Strictly next instant; same candidate      *)
(* resolver as actual minute callbacks." (scheduler.py:142): at the instant that *)
(* the status announces, the minute callback matches. In a zone whose clock     *)
(* jumps over midnight the candidate of a missing hour is an instant of the     *)
(* next day, where the callback looks for the next day's candidate.             *)
AnnouncedFires == hour > FirstHour => ShouldFire(schedule, NextReport(schedule, hour))

(* The place of a day in its period: the days before it, in a year the month    *)
(* and the days before it in that month.                                        *)
PlaceIn(kind, day) ==
  [month |-> IF kind = "year" THEN MonthOf(day) % YearMonths ELSE 0,
   before |-> day - PeriodStart(IF kind = "year" THEN "month" ELSE kind, day)]

(* The baseline b of the days from d on is cut where the window w of the present *)
(* period ends: on the day of the same place and at the same local hour, the    *)
(* second of two if w ends there. Only a month that lacks the day is compared   *)
(* whole, and a year's month that lacks it is cut on its last day; a missing    *)
(* hour is cut at the gap, after it, or before it for the second of two hours.  *)
CutAlike(kind, w, d, b) ==
  LET place == PlaceIn(kind, DayOf(w.end))
      days == { x \in d..(NextStart(kind, d) - 1) :
                  PlaceIn(kind, x).month = place.month /\ PlaceIn(kind, x).before <= place.before }
      day == Max(days)
      lacking == PlaceIn(kind, day) # place
      wanted == day * DayHours + HourOf(w.end)
      hits == { t \in b.start..b.limit : Local(t) = wanted }
      second == FoldOf(w.end) = 1
      After(t) == Local(t) > wanted /\ Local(t - 1) < wanted
  IN /\ lacking => kind \in {"month", "year"}
     /\ kind = "month" /\ lacking => b.end = b.limit
     /\ ~(kind = "month" /\ lacking) =>
          \/ hits # {} /\ b.end = IF second THEN Max(hits) ELSE Min(hits)
          \/ hits = {} /\ After(IF second THEN b.end + 1 ELSE b.end)

(* Every window that a current window is compared with lies in its own period, *)
(* ends before the current one starts, is whole if the current one is, and is  *)
(* cut on the same local day and hour otherwise (CutAlike); where the composer *)
(* and the analysis align the same period, they make the same window of it.    *)
BaselinesAlign ==
  hour > FirstHour => \A kind \in Kinds, day \in {DayOf(hour), DayOf(hour) - 1} :
    LET w == CurrentWindow(kind, day)
        previous == PreviousDay(kind, w)
        Aligned(d, b) == /\ b.start = Midnight(d) /\ b.limit = Midnight(NextStart(kind, d))
                         /\ b.start <= b.end /\ b.end <= b.limit /\ b.end <= w.start
                         /\ IF Partial(w) THEN CutAlike(kind, w, d, b) ELSE b.end = b.limit
    IN w.start < w.end =>
         /\ Aligned(previous, PreviousWindow(kind, w))
         /\ \A d \in Targets(kind, w) :
              /\ Aligned(d, Baseline(kind, w, d))
              /\ d = previous => PreviousWindow(kind, w) = Baseline(kind, w, d)
=============================================================================
