SPECIFICATION FairSpec
CONSTANTS
  Tenants = {t1}
  Routes = {r1}
  Global = Global
  AnyRoute = AnyRoute
  None = None
  Admins = {a1}
  Settings <- MCSettings
  Edited <- MCEdited
  Scores <- MCScores
  MatchLists <- MCMatchLists
  MaxChanges = 2
  MaxOutages = 1
INVARIANTS
  WholeSnapshots
  SeverestDecides
PROPERTIES
  Converges
