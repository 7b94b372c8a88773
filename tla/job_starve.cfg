SPECIFICATION Spec
CONSTANTS
  Job <- MCJob
  Root = "root"
  Event <- MCEvent
  Trees <- StarvingTrees
INVARIANTS
  NobodyStarves
