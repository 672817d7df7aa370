SPECIFICATION Spec
CONSTANTS
  Chars = {"a", "b"}
  Argv <- ArgvProgram
  Literals <- SomeStrings
  Sources <- SomeSources
  CompareTypes = {"chars", "strings", "lists"}
  MaxElements = 2
  MaxIndex = 2
  NoValue = NoValue
INVARIANTS
  TypeOK
  ListsWellFormed
  NoUndefinedBehaviour
PROPERTIES
  EveryCallReturns
  ImplementsListValues
CHECK_DEADLOCK TRUE
