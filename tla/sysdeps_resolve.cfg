SPECIFICATION Spec
CONSTANTS
  Req = {r1, r2}
  Dep = {d1, d2}
  None = None
  Refresh = Refresh
  RETRIES = 2
  Patient = {}
  Cancellable = {r1, r2}
  MayStop = TRUE
SYMMETRY Interchangeable
INVARIANTS
  TypeOK
  QueuedIsPending
  WaitsOnPending
  WatchersAreWaiters
  PendingIsOwed
PROPERTIES
  KeepsPromise
