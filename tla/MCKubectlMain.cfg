SPECIFICATION Spec
\* The process ends.
CHECK_DEADLOCK FALSE
INVARIANT
  LogsFlushedAtExit
