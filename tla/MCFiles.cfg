SPECIFICATION FilesSpec
CONSTANTS
  Values <- MCValues
  Latin1 <- MCLatin1
INVARIANTS OnlyThePasses BlobSurvivesItsText TakesExactlyTheFormat
PROPERTY Decides
CHECK_DEADLOCK FALSE
