SPECIFICATION Spec
CONSTANTS
  Word = 4
  MaxUint = 2
  a = a
  b = b
  Chars <- MCChars
  Junk = Junk
  ShmSize = 20
  Structs <- TightNames
  SendLayout <- TightHost
  RecvLayout <- TightTa
  Sources <- TightSources
  Blocks <- MCBlocks
  AllocMayFail = TRUE
  Null = Null
  Uninit = Uninit
  Node = Node
  NoStruct = NoStruct
  Broken = Broken
INVARIANT RoundTrip
CHECK_DEADLOCK FALSE
