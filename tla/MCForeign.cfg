SPECIFICATION FSpec
CONSTANTS
  Options = TRUE
  Word = 60
  Shapes <- MCShapes
PROPERTY EveryBlobTextIsRead
CHECK_DEADLOCK FALSE
