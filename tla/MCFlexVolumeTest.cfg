CONSTANTS
  Calls <- MCCalls
SPECIFICATION Spec
\* The test ends after the one driver call.
CHECK_DEADLOCK FALSE
INVARIANTS
  TypeOK
  InstallReportedAndDriverAnswers
