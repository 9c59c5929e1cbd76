SPECIFICATION PartsSpec
CONSTANTS
  Editors = {e1, e2}
  Readers = {c1}
  None = None
  MaxStatus = 1
  MaxEdit = 3
  MaxRestart = 1
  MaxCancel = 1
  MaxSends = 2
  Paths = {"schedule", "manual", "press", "digest"}
  Channels <- MCChannels
  StartedAt <- MCStartedAt
  MaxTurns = 1
  MaxKept = 2
  Reports = {1, 2, 3, 4}
  Scheduled = {1, 2, 4}
  MaxReloads = 1
  Persons = {"p1", "p2"}
  Policies <- MCPolicies
  MaxRoleTurns = 1
  Asks = {1, 2}
  Calls <- MCCalls
  MaxContextTurns = 1
  Nobody = Nobody
  Cards = {k1}
  EagerStart = TRUE
  MaxEvents = 3
  MaxGenerations = 3
  MaxChanges = 2
  Calendars <- MCCalendars
  GridSources = {"m1", "m2"}
  GroupKeys = {"room", "unassigned"}
  HourShapes <- MCHourShapes
  Tariffs <- MCTariffs
  Memberships = {"unknown", "all", "some"}
  ChunkHours = 2
  ReadyTenths = 5
  TariffIds = {"home"}
  Profiles <- MCProfiles
  RateOf <- MCRateOf
  Turns <- MCTurns
  Proposals <- MCProposals
  LastDay = 2
  PerDay = 4
  PerMinute = 2
  Horizon = 4
  Blank = Blank
  Zones = {"spring", "autumn", "midnight"}
  Offset <- MCOffset
  DayHours = 4
  WeekDays = 3
  MonthStarts <- MCMonthStarts
  YearMonths = 2
  Schedules <- MCSchedules
  FirstHour = 53
  LastHour = 90
  MaxScheduleEdits = 1
  Never = Never
INVARIANTS AckedIsDurable NoLostUpdate LegacyKept BatchTruthful AnnouncedOnce IssueTells NothingLeft ComparisonIsExact RatesAreExact NextReportFollows BaselinesAlign
PROPERTIES HandoffCurrent IssueClears AnswersHold SavesHold QuietAfterEnd PastIsAcknowledged
SYMMETRY EditorSymmetry
CHECK_DEADLOCK FALSE
