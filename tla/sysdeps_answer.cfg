SPECIFICATION FairSpec
CONSTANTS
  Req = {r1, r2}
  Dep = {d1, d2}
  None = None
  Refresh = Refresh
  RETRIES = 2
  Patient = {r2}
  Cancellable = {}
  MayStop = FALSE
PROPERTIES
  EveryRequestAnswered
