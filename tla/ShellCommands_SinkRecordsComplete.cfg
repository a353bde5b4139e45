\* Expected violation of SinkRecordsComplete (see README).
CONSTANTS
  k1 = k1
  k2 = k2
  Keys = {k1}
  NoHandler = NoHandler
  MaxHandlers = 2
  MaxLines = 1
SPECIFICATION Spec
INVARIANT SinkRecordsComplete
