SPECIFICATION FairSpec
CONSTANTS
  Sids = {s1}
  None = None
  Cadences <- MCCadences
  PeriodLen <- MCPeriodLen
  Drafts <- MCDrafts
  MaxClock = 2
  MaxGen = 3
INVARIANTS OncePerPeriodInv LogIsTruthful ArmedMatchesStore
PROPERTIES ImplementsOncePerPeriod NoEditBehindHandoff EnergySilentWhenStopped FireLockReleased
