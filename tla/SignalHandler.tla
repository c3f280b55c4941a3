---------------------------- MODULE SignalHandler ----------------------------
(***************************************************************************)
(* apiserver/pkg/server/signal.go: SetupSignalContext, the goroutine it   *)
(* starts, RequestShutdown, and the operating system delivering SIGTERM or *)
(* SIGINT.  Callers of SetupSignalContext run concurrently with callers of *)
(* RequestShutdown (the shutdown tests, kubelet's shutdown manager), and   *)
(* OS signals arrive at any time.                                          *)
(*                                                                         *)
(* Each make(chan os.Signal, 2) creates a new channel, numbered by the    *)
(* order of creation; buf[c] counts the signals queued in channel c.       *)
(* The process ends when it exits, panics or is killed by a signal that   *)
(* nobody has asked to be notified of.                                     *)
(***************************************************************************)
EXTENDS Naturals, FiniteSets

CONSTANTS
  SetupCallers,   \* goroutines calling SetupSignalContext, once each
  Requesters,     \* goroutines calling RequestShutdown, once each
  MaxOSSignals    \* how many SIGTERM/SIGINT the operating system may send

Capacity == 2     \* make(chan os.Signal, 2)

ASSUME SignalAssumption ==
  /\ IsFiniteSet(SetupCallers) /\ SetupCallers # {}
  /\ MaxOSSignals \in Nat

Chans == 1 .. Cardinality(SetupCallers)

VARIABLES
  closedOnce,  \* onlyOneSignalHandler has been closed
  handler,     \* shutdownHandler: 0 for nil, else the channel it holds
  made,        \* how many channels SetupSignalContext has made
  notified,    \* the channel signal.Notify delivers to, 0 for none
  buf,         \* buf[c]: signals queued in channel c
  cancelled,   \* the context SetupSignalContext returned is cancelled
  pc,          \* pc[c]: where setup caller c is
  gs,          \* the handler goroutine: "none", "recv1", "cancel", "recv2", "exit"
  rs,          \* rs[r]: "idle", or what RequestShutdown returned
  accepted,    \* signals a channel has taken, from requests or the OS
  osSent,      \* signals the OS has sent
  status       \* "running", "exited", "panicked", "killed"

vars == <<closedOnce, handler, made, notified, buf, cancelled, pc, gs, rs,
          accepted, osSent, status>>

Running == status = "running"

Init ==
  /\ closedOnce = FALSE /\ handler = 0 /\ made = 0 /\ notified = 0
  /\ buf = [c \in Chans |-> 0]
  /\ cancelled = FALSE
  /\ pc = [c \in SetupCallers |-> "close"]
  /\ gs = "none"
  /\ rs = [r \in Requesters |-> "idle"]
  /\ accepted = 0 /\ osSent = 0
  /\ status = "running"

-----------------------------------------------------------------------------
(* Line 45: close(onlyOneSignalHandler); closing it a second time panics  *)
(* and takes the process down.                                             *)
SetupClose(c) ==
  /\ Running /\ pc[c] = "close"
  /\ IF closedOnce THEN status' = "panicked" /\ UNCHANGED <<closedOnce, pc>>
     ELSE closedOnce' = TRUE /\ pc' = [pc EXCEPT ![c] = "make"]
          /\ UNCHANGED status
  /\ UNCHANGED <<handler, made, notified, buf, cancelled, gs, rs, accepted,
                 osSent>>

(* Line 47: shutdownHandler = make(chan os.Signal, 2). *)
SetupMake(c) ==
  /\ Running /\ pc[c] = "make"
  /\ handler' = made + 1 /\ made' = made + 1
  /\ pc' = [pc EXCEPT ![c] = "notify"]
  /\ UNCHANGED <<closedOnce, notified, buf, cancelled, gs, rs, accepted,
                 osSent, status>>

(* Lines 49-50: context.WithCancel, signal.Notify(shutdownHandler, ...). *)
SetupNotify(c) ==
  /\ Running /\ pc[c] = "notify"
  /\ notified' = handler
  /\ pc' = [pc EXCEPT ![c] = "go"]
  /\ UNCHANGED <<closedOnce, handler, made, buf, cancelled, gs, rs, accepted,
                 osSent, status>>

(* Lines 51 and 58: start the goroutine and return the context. *)
SetupGo(c) ==
  /\ Running /\ pc[c] = "go"
  /\ gs' = "recv1"
  /\ pc' = [pc EXCEPT ![c] = "done"]
  /\ UNCHANGED <<closedOnce, handler, made, notified, buf, cancelled, rs,
                 accepted, osSent, status>>

-----------------------------------------------------------------------------
(* Mutant: the goroutine exits on the first signal. *)
GoroutineRecv1Exits ==
  /\ Running /\ gs = "recv1" /\ buf[handler] > 0
  /\ buf' = [buf EXCEPT ![handler] = @ - 1]
  /\ gs' = "exit"
  /\ UNCHANGED <<closedOnce, handler, made, notified, cancelled, pc, rs,
                 accepted, osSent, status>>

(* Line 52: <-shutdownHandler, which reads the package variable. *)
GoroutineRecv1 ==
  /\ Running /\ gs = "recv1" /\ buf[handler] > 0
  /\ buf' = [buf EXCEPT ![handler] = @ - 1]
  /\ gs' = "cancel"
  /\ UNCHANGED <<closedOnce, handler, made, notified, cancelled, pc, rs,
                 accepted, osSent, status>>

(* Line 53: cancel(). *)
GoroutineCancel ==
  /\ Running /\ gs = "cancel"
  /\ cancelled' = TRUE /\ gs' = "recv2"
  /\ UNCHANGED <<closedOnce, handler, made, notified, buf, pc, rs, accepted,
                 osSent, status>>

(* Mutant: the second signal cancels again instead of exiting. *)
GoroutineRecv2Loops ==
  /\ Running /\ gs = "recv2" /\ buf[handler] > 0
  /\ buf' = [buf EXCEPT ![handler] = @ - 1]
  /\ gs' = "cancel"
  /\ UNCHANGED <<closedOnce, handler, made, notified, cancelled, pc, rs,
                 accepted, osSent, status>>

(* Line 54: the second <-shutdownHandler. *)
GoroutineRecv2 ==
  /\ Running /\ gs = "recv2" /\ buf[handler] > 0
  /\ buf' = [buf EXCEPT ![handler] = @ - 1]
  /\ gs' = "exit"
  /\ UNCHANGED <<closedOnce, handler, made, notified, cancelled, pc, rs,
                 accepted, osSent, status>>

(* Line 55: os.Exit(1). *)
GoroutineExit ==
  /\ Running /\ gs = "exit"
  /\ status' = "exited"
  /\ UNCHANGED <<closedOnce, handler, made, notified, buf, cancelled, pc, gs,
                 rs, accepted, osSent>>

-----------------------------------------------------------------------------
(* Mutant: a channel that holds one signal. *)
RequestShutdownCapacityOne(r) ==
  /\ Running /\ rs[r] = "idle"
  /\ \E seen \in {0, handler} :
       IF seen # 0 /\ buf[seen] < 1
       THEN /\ buf' = [buf EXCEPT ![seen] = @ + 1]
            /\ accepted' = accepted + 1
            /\ rs' = [rs EXCEPT ![r] = "true"]
       ELSE /\ rs' = [rs EXCEPT ![r] = IF seen = 0 THEN "nil" ELSE "full"]
            /\ UNCHANGED <<buf, accepted>>
  /\ UNCHANGED <<closedOnce, handler, made, notified, cancelled, pc, gs,
                 osSent, status>>

(* Lines 63-73: RequestShutdown reads shutdownHandler with no             *)
(* synchronization with its writer, so it may still see nil after the     *)
(* write; a non-nil channel gets a non-blocking send, dropped when full.   *)
RequestShutdown(r) ==
  /\ Running /\ rs[r] = "idle"
  /\ \E seen \in {0, handler} :
       IF seen # 0 /\ buf[seen] < Capacity
       THEN /\ buf' = [buf EXCEPT ![seen] = @ + 1]
            /\ accepted' = accepted + 1
            /\ rs' = [rs EXCEPT ![r] = "true"]
       ELSE /\ rs' = [rs EXCEPT ![r] = IF seen = 0 THEN "nil" ELSE "full"]
            /\ UNCHANGED <<buf, accepted>>
  /\ UNCHANGED <<closedOnce, handler, made, notified, cancelled, pc, gs,
                 osSent, status>>

(* The OS sends SIGTERM or SIGINT: before signal.Notify it kills the      *)
(* process; after, package signal's non-blocking send drops it when the   *)
(* channel is full.                                                        *)
OSSignal ==
  /\ Running /\ osSent < MaxOSSignals
  /\ osSent' = osSent + 1
  /\ IF notified = 0
     THEN status' = "killed" /\ UNCHANGED <<buf, accepted>>
     ELSE /\ IF buf[notified] < Capacity
             THEN buf' = [buf EXCEPT ![notified] = @ + 1]
                  /\ accepted' = accepted + 1
             ELSE UNCHANGED <<buf, accepted>>
          /\ UNCHANGED status
  /\ UNCHANGED <<closedOnce, handler, made, notified, cancelled, pc, gs, rs>>

Setup(c) == SetupClose(c) \/ SetupMake(c) \/ SetupNotify(c) \/ SetupGo(c)
Goroutine == GoroutineRecv1 \/ GoroutineCancel \/ GoroutineRecv2 \/ GoroutineExit

Next ==
  \/ \E c \in SetupCallers : Setup(c)
  \/ Goroutine
  \/ \E r \in Requesters : RequestShutdown(r)
  \/ OSSignal

(* Each setup caller and the handler goroutine keep being scheduled while *)
(* they can run; requesters and the OS may never act.                      *)
Spec == Init /\ [][Next]_vars
          /\ \A c \in SetupCallers : WF_vars(Setup(c))
          /\ WF_vars(Goroutine)

-----------------------------------------------------------------------------
TypeOK ==
  /\ closedOnce \in BOOLEAN /\ cancelled \in BOOLEAN
  /\ handler \in 0 .. Cardinality(Chans) /\ notified \in 0 .. Cardinality(Chans)
  /\ made \in 0 .. Cardinality(Chans)
  /\ buf \in [Chans -> 0 .. Capacity]
  /\ pc \in [SetupCallers -> {"close", "make", "notify", "go", "done"}]
  /\ gs \in {"none", "recv1", "cancel", "recv2", "exit"}
  /\ rs \in [Requesters -> {"idle", "true", "nil", "full"}]
  /\ accepted \in Nat /\ osSent \in 0 .. MaxOSSignals
  /\ status \in {"running", "exited", "panicked", "killed"}

(* The goroutine of lines 51-56: the process exits only after its context *)
(* was cancelled, and only when two signals reached the channel.           *)
ExitOnlyOnSecondSignal ==
  status = "exited" => cancelled /\ accepted >= 2

(* RequestShutdown's non-blocking send (line 66) into a channel of two:   *)
(* a request that found the channel and was still dropped comes after two *)
(* signals were taken, enough for the process to exit.                     *)
DroppedOnlyWhenExitQueued ==
  (\E r \in Requesters : rs[r] = "full") => accepted >= 2

(* Lines 52-55 under a fair scheduler: once two signals were taken, the   *)
(* process ends; a first one is followed by the context's cancellation or  *)
(* the end of the process.                                                 *)
SecondSignalExits ==
  /\ (accepted >= 1) ~> (cancelled \/ ~Running)
  /\ (accepted >= 2) ~> ~Running

=============================================================================
