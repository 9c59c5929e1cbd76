SPECIFICATION BackgroundSpec
CONSTANTS
  Runtimes = {r1, r2}
  None = None
  MaxRevision = 2
  Tasks = {t1, t2}
  Purged = Purged
INVARIANTS OneTask NeverSilent
PROPERTIES RequestsServed RequestsEnd
