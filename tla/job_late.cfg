SPECIFICATION Spec
CONSTANTS
  Job <- MCJob
  Root = "root"
  Event <- MCEvent
  Trees <- LateTrees
INVARIANTS
  NothingAfterStop
