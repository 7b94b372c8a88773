SPECIFICATION Spec
CONSTANTS
  Req = {r1, r2, r3}
  Name = {n1}
  Hash = {h1, h2}
  None = None
  Crashes = 1
SYMMETRY Interchangeable
INVARIANTS
  RefsHaveContent
  NothingLeft
PROPERTIES
  MissedMeansMoved
  IsRegister
