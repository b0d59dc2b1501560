SPECIFICATION Spec
CONSTANTS
  Rtids <- MCRtids
  Texts <- MCTexts
INVARIANT DisplayRoundTrips
CHECK_DEADLOCK FALSE
