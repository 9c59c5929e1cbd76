SPECIFICATION Spec
CONSTANTS
  Tasks = {t1, t2}
  None = None
  Purged = Purged
  MaxLane = 2
  MaxSnapshots = 2
  MaxPrices = 1
  MaxBooks = 2
  MaxGen = 2
  MaxSource = 1
  MaxCutoff = 1
  MaxRevision = 1
INVARIANTS OneJob NothingStale StoppedIsSilent TicksTell SnapshotInv
SYMMETRY TaskSymmetry
