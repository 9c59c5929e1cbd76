SPECIFICATION Spec
CONSTANTS
  Runtimes = {r1, r2}
  None = None
  MaxRevision = 2
INVARIANTS ReauthorizationTaken
