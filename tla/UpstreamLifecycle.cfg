SPECIFICATION FairUpstreamSpec
CONSTANTS
  Upstreams = {u1, u2}
  Keys = {k1, k2}
  Admins = {a1, a2}
  Finalizers = {f1, f2}
  Requests = {r1}
  NoOne = NoOne
  MaxAborts = 1
INVARIANTS
  DeletingIsSealed
PROPERTIES
  DeletionIsFinal
  DeletionCompletes
CHECK_DEADLOCK FALSE
