--------------------------- MODULE MCSignalHandler ---------------------------
(* Three goroutines ask for shutdown and the OS sends up to two signals,  *)
(* while main sets the handler up.                                         *)
EXTENDS SignalHandler

MCMainOnly == {"main"}
MCRequesters == {"r1", "r2", "r3"}
MCMaxOSSignals == 2
=============================================================================
