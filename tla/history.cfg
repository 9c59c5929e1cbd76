SPECIFICATION DeliverySpec
CONSTANTS
  MaxSends = 2
  Paths = {"schedule", "press"}
  Channels <- OneMail
  StartedAt <- TwoStarts
  MaxTurns = 0
  MaxKept = 3
PROPERTIES RecordsStay
CHECK_DEADLOCK FALSE
