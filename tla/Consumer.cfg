SPECIFICATION FairConsumerSpec
CONSTANTS
  LogLen = 5
  Invalid <- MCInvalid
  BatchCap = 2
  MaxInsertAttempts = 2
  MaxCrashes = 2
INVARIANTS
  LostOnlyBySignal
PROPERTIES
  EverythingHandled
CHECK_DEADLOCK FALSE
