SPECIFICATION IntSpec
INVARIANT TagPreserved
CHECK_DEADLOCK FALSE
