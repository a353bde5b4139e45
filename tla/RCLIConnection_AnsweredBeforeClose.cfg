\* stop_rcli between the dispatch of a command and the end of its result
\* frame: the command was applied and the client gets no whole answer.
CONSTANTS
  Scripts <- MCScripts
  ResStr <- MCResStr
SPECIFICATION Spec
INVARIANT AnsweredBeforeClose
CHECK_DEADLOCK FALSE
