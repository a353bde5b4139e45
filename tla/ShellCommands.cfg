\* Registry and handler threads: the properties that hold. One key, reused
\* by two successive handlers after a stop.
CONSTANTS
  k1 = k1
  k2 = k2
  Keys = {k1}
  NoHandler = NoHandler
  MaxHandlers = 2
  MaxLines = 1
SPECIFICATION Spec
INVARIANT NoLeakedProcess
INVARIANT NoLineForwardedTwice
PROPERTY StoppedHandlerThreadEnds
PROPERTY RegistryRefinement
