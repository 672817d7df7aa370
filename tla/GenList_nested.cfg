SPECIFICATION Spec
CONSTANTS
  Chars = {"a", "b"}
  Argv <- ArgvProgram
  Literals <- SomeStrings
  Sources <- NestedCompares
  CompareTypes = {"lists"}
  MaxElements = 2
  MaxIndex = 2
  NoValue = NoValue
INVARIANT CompareIsEquality
CHECK_DEADLOCK TRUE
