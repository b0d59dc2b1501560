SPECIFICATION RTSpec
CONSTANTS
  Strings <- FewStrings
  Latin1 <- AllLatin1
  Asterisk <- Star
  RtidNullText <- Text0
  Ints <- NoInts
  Rtids <- NoRtids
  Blobs <- FewBlobs
  Calls <- StringCalls
  Roots = {"map"}
  MaxValues = 4
  MaxDepth = 3
  MaxLen = 4
  Word = 1000000
  Options = FALSE
INVARIANT DirectIsDirect
CHECK_DEADLOCK FALSE
