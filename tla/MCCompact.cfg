SPECIFICATION RTSpec
CONSTANTS
  Strings <- MCStrings
  Latin1 <- MCLatin1
  Ints <- MCInts
  Rtids <- MCRtids
  Blobs <- MCBlobs
  Kinds = {"null", "bool", "int", "float", "rtid", "string", "binary", "array", "object"}
  Roots = {"object", "string"}
  Tears = {2}
  MaxValues = 5
  MaxDepth = 3
  MaxLen = 2
  Word = 100
INVARIANTS TypeOK OffsetsResolve WordsFit SlotsTell
PROPERTIES PatchedOnce RoundTrip Returns
CHECK_DEADLOCK FALSE
