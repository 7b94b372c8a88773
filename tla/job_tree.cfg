SPECIFICATION FairSpec
CONSTANTS
  Job <- MCJob
  Root = "root"
  Event <- MCEvent
  Trees <- MCTrees
INVARIANTS
  TypeOK
  NoEventLost
  NothingSkipped
  StoppedIsQuiet
  TornDown
PROPERTIES
  RunReturns
