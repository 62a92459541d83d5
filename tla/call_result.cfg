SPECIFICATION Spec
CONSTANTS
  Commands <- TaCommands
  Layouts <- TaRegistry
  Calls <- MCCalls
  Args <- MCArgs
  Values <- MCValues
  TransportMayFail = FALSE
  TaMayBeShort = TRUE
  HostMayBeShort = FALSE
  Nothing = Nothing
  Garbled = Garbled
INVARIANT ResultReturned
CHECK_DEADLOCK FALSE
