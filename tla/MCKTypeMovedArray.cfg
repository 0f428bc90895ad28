CONSTANTS
  Names <- MCNames
  Keys <- MCKeys
  Callbacks <- MCCallbacks
  FreeingCallbacks <- MCFreeing
  DescIds <- MCDescIds
  MaxVals = 3
  NULL = NULL
  NoVal = NoVal
  k1 = k1
  k2 = k2
  cbFree = cbFree
  cbPlain = cbPlain
  d1 = d1
  d2 = d2
  d3 = d3
  ReallocMayFail = TRUE
  ReallocMayMove = TRUE
  ShrinkMayFail = FALSE
  ReallocZeroFrees = FALSE
  MallocMayFail = TRUE
SPECIFICATION Spec
INVARIANT RegistryOwnsDescriptors
SYMMETRY MCSymmetry
