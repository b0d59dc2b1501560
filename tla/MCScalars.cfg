SPECIFICATION ScalarSpec
CONSTANTS
  Rtids <- MCRtids
  Texts <- MCTexts
INVARIANTS ReadBack SmallestPayload SecondPassIsFixpoint RoundTripIffFaithful BinaryIsDisplay
PROPERTY ParsedIsStable
CHECK_DEADLOCK FALSE
