CONSTANTS
  Handles <- MCHandles
  Cmds <- MCCommentCmds
  Offsets <- MCCommentOffsets
  Bytes <- MCFewBytes
  Sizes <- MCFewSizes
  BufBytes = 2
  RegLen = 20
  CaptureBits <- MCEmptyReg20
  ClaimMayFail = FALSE
  CallerMayReopen = FALSE
  CallerIgnoresSetupError = FALSE
SPECIFICATION Spec
PROPERTY CommentExampleSendsOnes
