SPECIFICATION Spec
CONSTANTS
  Values <- NullValues
  Latin1 <- MCLatin1
PROPERTY JsonNullIsRefused
