CONSTANTS
  Handles <- MCHandles
  Cmds <- MCCmds
  Offsets <- MCFewOffsets
  Bytes <- MCFewBytes
  Sizes <- MCFewSizes
  BufBytes = 2
  RegLen = 3
  CaptureBits <- MCCapture
  ClaimMayFail = TRUE
  CallerMayReopen = FALSE
  CallerIgnoresSetupError = TRUE
SPECIFICATION Spec
INVARIANTS HandlesOwned CacheMatchesLine
