\* Three connections at two addresses; both managers.
SPECIFICATION FairSpec
CONSTANTS
  Addresses = {a1, a2}
  Managers = {"map", "vec"}
  MaxConns = 3
  NULL = NULL
INVARIANTS TypeOK TableAgrees HandlerOwnsObject RemovedIsExact DisabledIsListed
PROPERTIES DisabledIsDeleted
