SPECIFICATION Spec
CONSTANTS
  Word = 4
  MaxUint = 2
  a = a
  b = b
  Chars <- MCChars
  Junk = Junk
  ShmSize = 20
  Structs <- FitNames
  SendLayout <- HostRegistry
  RecvLayout <- TaRegistry
  Sources <- FitSources
  Blocks <- MCBlocks
  AllocMayFail = TRUE
  Null = Null
  Uninit = Uninit
  Node = Node
  NoStruct = NoStruct
  Broken = Broken
INVARIANT InStepWithoutMemory
CHECK_DEADLOCK FALSE
