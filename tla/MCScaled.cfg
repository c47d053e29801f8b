CONSTANTS
  Base = 3
  MaxInt = 15
  MaxLen = 5
  Texts <- MCTexts
  Precisions <- MCPrecisions
SPECIFICATION Spec
INVARIANTS RejectsMalformed ParsesExactly
