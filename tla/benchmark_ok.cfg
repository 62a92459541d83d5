SPECIFICATION Spec
CONSTANTS
  Rows = 20
  Repeats = 100
  Unit = 1000
  ShmSize = 21000
  DataSize = 32768
  Word = 4
INVARIANTS TypeOK InLockstep RowSize NeverFails
PROPERTIES Completes CountsDown
CHECK_DEADLOCK FALSE
