SPECIFICATION RTSpec
CONSTANTS
  Strings <- FewStrings
  Latin1 <- AllLatin1
  Asterisk <- Star
  RtidNullText <- Text0
  Ints <- FewInts
  Rtids <- FewRtids
  Blobs <- FewBlobs
  Calls <- AllCalls
  Roots = {"map"}
  MaxValues = 5
  MaxDepth = 3
  MaxLen = 2
  Word = 1000000
  Options = TRUE
INVARIANTS TypeOK WrapperScope
PROPERTIES RoundTrip Returns
CHECK_DEADLOCK FALSE
