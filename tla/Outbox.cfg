SPECIFICATION FairSpec
CONSTANTS
  NoEvent = NoEvent
  Events = {e1, e2}
  Corrupt = {e1}
  Gateways = {g1, g2}
  Brokered = {g1, g2}
  MaxAttempts = 2
  ClaimSize = 2
  AuditRetention = TRUE
  MaxFaults = 1
INVARIANTS
  SendsPaidByClaims
PROPERTIES
  ImplementsPromise
  PublishedOrPoison
  DeliveredWhileKafkaUp
CHECK_DEADLOCK FALSE
