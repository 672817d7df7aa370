CONSTANTS
  Commands <- MCCommands
  UnknownOptions <- MCUnknownOptions
  LevelWords <- MCLevelWords
  Lines <- MCLines
  MaxLines <- MCMaxLines
  Printed <- PrintResult
  Text <- TextOf
  HasText <- Printable
SPECIFICATION FSpec
INVARIANTS
  ZeroMeansWholeProgram
  ErrorLeavesNoCode
  LinkedAsCompiled
PROPERTIES
  CompilerExits
  AnswersAsPromised
CHECK_DEADLOCK TRUE
