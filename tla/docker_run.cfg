SPECIFICATION Spec
CONSTANTS
  r1 = r1
  r2 = r2
  r3 = r3
  Req = {r1, r2, r3}
  Leaving = {r1, r2, r3}
  None = None
  Other = Other
SYMMETRY ReqSymmetry
INVARIANTS
  NameIsFree
  NothingUnwatched
  FilesWhileRunning
