SPECIFICATION Spec
CONSTANTS
  IR <- MCIR
  Before <- MCBefore
  MaxRuns = 3
  MaxFaults = 1
INVARIANTS
  CreateCompletes
  NothingLeft
  ForeignUntouched
  NothingDangles
  DeleteIsQuiet
