SPECIFICATION Spec
CONSTANTS
  Values <- OddValues
  Latin1 <- MCLatin1
INVARIANT InconsistentIsRefused
CHECK_DEADLOCK FALSE
