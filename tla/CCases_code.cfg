CONSTANTS
  Calls <- MCCalls
SPECIFICATION CSpec
PROPERTIES
  ImplementsCases
CHECK_DEADLOCK TRUE
