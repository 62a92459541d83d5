SPECIFICATION Spec
CONSTANTS
  Commands <- TaCommands
  Layouts <- TaRegistry
  Calls <- MCCalls
  Args <- MCArgs
  Values <- MCValues
  TransportMayFail = TRUE
  TaMayBeShort = TRUE
  HostMayBeShort = TRUE
  Nothing = Nothing
  Garbled = Garbled
INVARIANTS NothingLeft SuccessIsWhole CrashHasCause
PROPERTY ImplementsRemoteCall
CHECK_DEADLOCK FALSE
