SPECIFICATION FairSpec
CONSTANTS
  a1 = a1
  a2 = a2
  a3 = a3
  App = {a1, a2}
  None = None
  Cancellable = {a1}
  Plan <- MCPlan
  ScopeOf <- MCScopeOf
  Foundation <- MCFoundation
  Steps <- MCSteps
  Captures <- MCCaptures
  Uses <- MCUses
INVARIANTS
  OneOwner
  LockHeldByLiving
  FailureIsContained
  RefsAreResolved
  AnswerIsTrue
PROPERTIES
  DoneIsBuilt
  LineMoves
