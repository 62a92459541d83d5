SPECIFICATION ProgramSpec
CONSTANTS
  Commands <- TaCommands
  Layouts <- TaRegistry
  Calls <- MCCalls
  Args <- MCArgs
  Values <- MCValues
  Tests <- MCTests
  Context = Context
  r1 = r1
  r2 = r2
  Regions <- MCRegions
  TransportMayFail = TRUE
  TaMayBeShort = TRUE
  HostMayBeShort = FALSE
  SetupMayFail = TRUE
  Nothing = Nothing
  Garbled = Garbled
INVARIANTS HostFaultHasCause MemoryDuringCalls CleanExit FailureHasCause ReadsOwnReply
PROPERTIES MeetsObligation Ends ImplementsInward
CHECK_DEADLOCK FALSE
