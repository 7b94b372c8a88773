SPECIFICATION FairSpec
CONSTANTS
  Req = {r1, r2}
  Res = Res
  End = End
  MaxEvents = 2
  Oversize = {r1}
  Impatient = {r2}
INVARIANTS
  InOrderResponseLast
PROPERTIES
  EveryRequestEnds
