SPECIFICATION FairSpec
CONSTANTS
  Rules <- MCRules
  Channels <- MCChannels
  Alphabet <- MCAlphabet
  Format <- MCFormat
  Lower <- MCLower
  Configs <- MCConfigs
  Requests <- MCRequests
  Bodies <- MCBodies
  Events <- MCEvents
  Blank = "_"
  Window = 3
  ShadowSize = 1
  MaxEvents = 3
  ReaderCloses = TRUE
INVARIANTS
  StopsTheForbidden
  TrailAgrees
  FailedMeansNoBody
PROPERTIES
  ExchangeReturns
CHECK_DEADLOCK FALSE
