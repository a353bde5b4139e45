\* One control connection: frames read in order, across partial reads,
\* and a closed client ends the serve loop. The connection is
\* finite, so a final state is not a deadlock.
CONSTANTS
  Scripts <- MCScripts
  ResStr <- MCResStr
SPECIFICATION Spec
INVARIANT TypeOK
INVARIANT ServerReadsClientFrames
PROPERTY ClientCloseEndsServer
CHECK_DEADLOCK FALSE
