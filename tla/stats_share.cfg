SPECIFICATION Spec
CONSTANTS
  Series = {area}
  Always = {}
  Costs <- MCCosts
  Unknown = Unknown
  Absent = Absent
  Datasets = {d1, d2}
  Authors = {a1}
  None = None
  MaxLag = 2
  MaxHour = 1
  MaxRevision = 3
  MaxEpoch = 2
  MaxQueue = 3
  MaxPub = 1
  MaxRemoved = 1
INVARIANTS DurableStateLoads CacheIsDurable IntentCoversRecorder
PROPERTIES OnlyConsentedJobs
