CONSTANTS
  Calls <- MCCalls
SPECIFICATION LlvmSpec
PROPERTIES
  ImplementsCases
CHECK_DEADLOCK TRUE
