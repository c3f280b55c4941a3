CONSTANTS
  SetupCallers <- MCMainOnly
  Requesters <- MCRequesters
  MaxOSSignals <- MCMaxOSSignals
SPECIFICATION Spec
\* The process may end (exit or kill), and a running one may wait
\* for a signal forever.
CHECK_DEADLOCK FALSE
INVARIANTS
  ExitOnlyOnSecondSignal
  DroppedOnlyWhenExitQueued
PROPERTIES
  SecondSignalExits
