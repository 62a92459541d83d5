SPECIFICATION Spec
CONSTANTS
  c1 = c1
  c2 = c2
  r1 = r1
  r2 = r2
  r3 = r3
  Contexts <- MCContexts
  Regions <- MCRegions
  None = None
INVARIANT ServedHasMemory
