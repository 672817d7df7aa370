SPECIFICATION Spec
CONSTANTS
  Cases <- CurriedCases
  Slots = 2
  MaxCalls = 4
  StartDepths = {0, 1}
INVARIANT
  NeverTwoOwnCalls
CHECK_DEADLOCK TRUE
