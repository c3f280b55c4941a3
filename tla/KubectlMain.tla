----------------------------- MODULE KubectlMain -----------------------------
(***************************************************************************)
(* main of cmd/kubectl/kubectl.go: set up the command and the logs, defer *)
(* logs.FlushLogs(), run command.Execute(), and os.Exit(1) when it fails. *)
(*                                                                         *)
(* Go semantics that matter here: a deferred call runs when main returns, *)
(* and os.Exit ends the process at once, without running deferred calls.  *)
(* What the command logs is not known to this code: with logging to a     *)
(* file, klog buffers the lines, which its periodic flush (started by     *)
(* logs.InitLogs) or logs.FlushLogs writes out, so Execute may leave      *)
(* unflushed lines, and the periodic flush may run at any time after      *)
(* InitLogs.                                                               *)
(***************************************************************************)
EXTENDS Naturals, Sequences

VARIABLES
  pc,         \* main's next statement, "ended" once the process is gone
  deferred,   \* main's deferred calls, the last one runs first
  unflushed,  \* klog holds log lines not yet written out
  exitCode    \* the process's exit status, set when it ends

vars == <<pc, deferred, unflushed, exitCode>>

Init ==
  /\ pc = "setup" /\ deferred = <<>> /\ unflushed = FALSE /\ exitCode = 0

(* Lines 36-46: seed, NewDefaultKubectlCommand, the flag set, InitLogs,   *)
(* which starts the periodic flush.                                        *)
Setup ==
  /\ pc = "setup" /\ pc' = "defer"
  /\ UNCHANGED <<deferred, unflushed, exitCode>>

(* Line 47: defer logs.FlushLogs(). *)
DeferFlushLogs ==
  /\ pc = "defer" /\ pc' = "execute"
  /\ deferred' = Append(deferred, "FlushLogs")
  /\ UNCHANGED <<unflushed, exitCode>>

(* Line 52: command.Execute(), which may log, and fails or not.           *)
Execute ==
  /\ pc = "execute"
  /\ pc' \in {"exit", "return"}
  /\ unflushed' \in {unflushed, TRUE}
  /\ UNCHANGED <<deferred, exitCode>>

(* Line 53: os.Exit(1); the deferred calls do not run. *)
OsExit ==
  /\ pc = "exit" /\ pc' = "ended" /\ exitCode' = 1
  /\ UNCHANGED <<deferred, unflushed>>

(* main returns: its deferred calls run, the last one deferred first, and  *)
(* the process exits with status 0 after the last of them.                 *)
RunDeferred ==
  /\ pc = "return" /\ deferred # <<>>
  /\ deferred' = SubSeq(deferred, 1, Len(deferred) - 1)
  /\ deferred[Len(deferred)] = "FlushLogs" /\ unflushed' = FALSE
  /\ UNCHANGED <<pc, exitCode>>

Return ==
  /\ pc = "return" /\ deferred = <<>>
  /\ pc' = "ended" /\ exitCode' = 0
  /\ UNCHANGED <<deferred, unflushed>>

(* klog's flush daemon, running from InitLogs until the process ends. *)
PeriodicFlush ==
  /\ pc \notin {"setup", "ended"} /\ unflushed
  /\ unflushed' = FALSE
  /\ UNCHANGED <<pc, deferred, exitCode>>

Next ==
  Setup \/ DeferFlushLogs \/ Execute \/ OsExit \/ RunDeferred \/ Return
    \/ PeriodicFlush

Spec == Init /\ [][Next]_vars

-----------------------------------------------------------------------------
TypeOK ==
  /\ pc \in {"setup", "defer", "execute", "exit", "return", "ended"}
  /\ deferred \in Seq({"FlushLogs"})
  /\ unflushed \in BOOLEAN
  /\ exitCode \in {0, 1}

(* defer logs.FlushLogs() at line 47: whichever way kubectl ends, the log  *)
(* lines the command wrote have been written out by then.                  *)
LogsFlushedAtExit ==
  pc = "ended" => ~unflushed

=============================================================================
