\* Expected violation of StreamIntact (see README).
CONSTANTS
  BufLens <- MCBufLens
  ReadLens <- MCReadLens
  Cap = 2
SPECIFICATION Spec
INVARIANT StreamIntact
CHECK_DEADLOCK FALSE
