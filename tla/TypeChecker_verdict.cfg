CONSTANTS
  Programs <- MCPrograms
  Universe <- MCUniverse
SPECIFICATION Spec
INVARIANTS
  CaseVerdicts
  AcceptedIsWellTyped
  
CHECK_DEADLOCK TRUE
