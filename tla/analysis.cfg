SPECIFICATION AnalysisSpec
CONSTANTS
  Requests = {r1, r2, r3}
  Users = {u1}
  None = None
  Kinds = {"patterns", "report", "statistics"}
  Max = 2
  Facts = {"tariff", "registry"}
  Booked = {1}
  Changes = 1
INVARIANT StoppedKeepsNothing
PROPERTIES AnswersAreCurrent
SYMMETRY AnalysisSymmetry
CHECK_DEADLOCK FALSE
