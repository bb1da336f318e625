SPECIFICATION FairSpec
CONSTANTS
  Initial = v1
  Versions = {v1, v2}
  Publishers = {a1, a2}
  Gateways = {g1}
  None = None
  MaxPublishes <- MCMaxPublishes
  MaxOutages = 1
PROPERTIES
  ReplacesWhatItSaw
  Converges
  OutageWithdrawsReadiness
CHECK_DEADLOCK FALSE
