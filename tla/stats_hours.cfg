SPECIFICATION Spec
CONSTANTS
  Series = {unassigned}
  Always = {unassigned}
  Costs <- MCCosts
  Unknown = Unknown
  Absent = Absent
  Datasets = {d1}
  Authors = {a1}
  None = None
  MaxLag = 2
  MaxHour = 3
  MaxRevision = 2
  MaxEpoch = 1
  MaxQueue = 2
  MaxPub = 1
  MaxRemoved = 0
PROPERTIES ImplementsHourlyUpdates
