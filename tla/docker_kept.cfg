SPECIFICATION FairSpec
CONSTANTS
  r1 = r1
  r2 = r2
  r3 = r3
  Req = {r1, r2}
  Leaving = {r1, r2}
  None = None
  Other = Other
PROPERTIES
  NameComesFree
  StopEnds
