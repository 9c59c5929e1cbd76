SPECIFICATION CalendarSpec
CONSTANTS
  Zones = {"evening"}
  Offset <- MCOffset
  DayHours = 4
  WeekDays = 3
  MonthStarts <- MCMonthStarts
  YearMonths = 2
  Schedules <- MCSchedules
  FirstHour = 53
  LastHour = 90
  MaxScheduleEdits = 1
  Never = Never
INVARIANTS AnnouncedFires
CHECK_DEADLOCK FALSE
