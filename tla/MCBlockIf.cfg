CONSTANTS
  Reqs = {r1, r2, r3}
  Extents <- SmallExtents
SPECIFICATION Spec
INVARIANT BlockedBehind
INVARIANT WaitsOnlyWhenEmpty
INVARIANT CallbackOwned
INVARIANT NeverFails
PROPERTY InOrder
PROPERTY RequestsEnd
PROPERTY CancelReturns
CHECK_DEADLOCK FALSE
