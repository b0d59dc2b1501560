SPECIFICATION RTSpec
CONSTANTS
  Strings <- ManyStrings
  Latin1 <- AllLatin1
  Asterisk <- Star
  RtidNullText <- Text0
  Ints <- NoInts
  Rtids <- NoRtids
  Blobs <- FewBlobs
  Calls <- StringCalls
  Roots = {"map"}
  MaxValues = 6
  MaxDepth = 2
  MaxLen = 3
  Word = 1000000
  Options = FALSE
INVARIANTS RefsResolve DefinedOnce TablesAgree
CHECK_DEADLOCK FALSE
