SPECIFICATION FairSpec
CONSTANTS
  Callers = {c1, c2, c3, c4}
  MaxFailures = 3
  Concurrency = 2
PROPERTIES
  OpensOnlyOnFailures
  AuditReturns
CHECK_DEADLOCK FALSE
