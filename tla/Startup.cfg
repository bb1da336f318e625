SPECIFICATION FairSpec
CONSTANTS
  g1 = g1
  g2 = g2
  s1 = s1
  s2 = s2
  Processes <- MCProcesses
  Gateways <- MCGateways
  Deployments <- MCDeployments
  Versions <- MCVersions
  Binary <- MCBinary
  Existing <- MCExisting
  Foreign <- MCForeign
  None = None
  Empty = Empty
  MaxFaults = 1
  MaxKeys = 2
INVARIANTS
  HistoryMatchesSchema
  SecretsReadable
  RemovesNoOthersKey
  SeededOnce
PROPERTIES
  StartsOnOwnSchema
  NewestServes
CHECK_DEADLOCK FALSE
