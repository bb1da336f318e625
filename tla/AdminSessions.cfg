SPECIFICATION FairSpec
CONSTANTS
  None = None
  MaxFailures = 2
  Window = 2
  Limit = 4
  Period = 1
  SignIns = {r1, r2}
  Changes = {c1, c2}
  OtherNames = {n1}
  MaxSessions = 2
  MaxPasswords = 3
INVARIANTS
  OldPasswordEnds
  BoundedGuesses
  SetupsOverlap
PROPERTIES
  LockoutEnds
CHECK_DEADLOCK FALSE
