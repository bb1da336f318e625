SPECIFICATION ConsumerSpec
CONSTANTS
  LogLen = 5
  Invalid <- MCInvalid
  BatchCap = 2
  MaxInsertAttempts = 2
  MaxCrashes = 2
INVARIANTS
  CommittedIsHandled
CHECK_DEADLOCK FALSE
