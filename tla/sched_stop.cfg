SPECIFICATION Spec
CONSTANTS
  Sids = {s1}
  None = None
  Cadences <- MCCadences
  PeriodLen <- MCPeriodLen
  Drafts <- OneDraft
  MaxClock = 1
  MaxGen = 3
PROPERTIES SilentWhenStopped
