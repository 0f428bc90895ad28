CONSTANTS
  Handles <- MCHandles
  Cmds <- MCCmds
  Offsets <- MCOffsets
  Bytes <- MCBytes
  Sizes <- MCSizes
  BufBytes = 2
  RegLen = 3
  CaptureBits <- MCCapture
  ClaimMayFail = FALSE
  CallerMayReopen = FALSE
  CallerIgnoresSetupError = FALSE
SPECIFICATION Spec
PROPERTY AbstractSpec
