SPECIFICATION Spec
CONSTANTS
  Cases <- CheckedCases
  Slots = 2
  MaxCalls = 4
  StartDepths = {0, 1}
INVARIANTS
  TypeOK
  ResultsBeforeUse
  NothingPendingAtExit
  OneOwnCallPerLevel
  NeverTwoOwnCallsIfNamed
  BoundsFollowStart
PROPERTIES
  ImplementsCallByValue
CHECK_DEADLOCK TRUE
