------------------------- MODULE SignalHandlerProofs -------------------------
(***************************************************************************)
(* Proofs about the model of signal.go: its type invariant, that the      *)
(* handler channel is never replaced, that the process exits only after   *)
(* two signals, and that a dropped RequestShutdown comes after two.        *)
(***************************************************************************)
EXTENDS SignalHandler, FiniteSetTheorems, TLAPS

(* Signals the handler goroutine has taken from the channel so far. *)
Consumed(g) ==
  IF g \in {"none", "recv1"} THEN 0
  ELSE IF g \in {"cancel", "recv2"} THEN 1 ELSE 2

(* Signals waiting in the channel shutdownHandler holds. *)
Queued == IF handler = 0 THEN 0 ELSE buf[handler]

(* Where the one setup caller that got past close(onlyOneSignalHandler)   *)
(* is, and what it has written to the package variables.                  *)
CallerInv(c) ==
  /\ pc[c] = "make" => made = 0
  /\ pc[c] \in {"notify", "go", "done"} => made = 1
  /\ pc[c] \in {"make", "notify"} => notified = 0
  /\ pc[c] \in {"go", "done"} => notified = 1

SetupInv ==
  /\ made \in 0 .. 1 /\ handler = made /\ notified \in {0, made}
  /\ closedOnce <=> \E c \in SetupCallers : pc[c] # "close"
  /\ ~closedOnce => made = 0 /\ notified = 0
  /\ \A c, d \in SetupCallers : pc[c] # "close" /\ pc[d] # "close" => c = d
  /\ \A c \in SetupCallers : CallerInv(c)
  /\ gs # "none" => \E c \in SetupCallers : pc[c] = "done"
  /\ \A c \in Chans : c # handler => buf[c] = 0

(* Every signal taken is queued in the handler's channel or was received  *)
(* by the goroutine, and the goroutine's progress is what it implies.     *)
CountInv ==
  /\ accepted = Queued + Consumed(gs)
  /\ gs \in {"recv2", "exit"} => cancelled
  /\ status = "exited" => gs = "exit"
  /\ \A r \in Requesters : rs[r] = "full" => accepted >= 2

(* The inductive invariant. *)
SInv == TypeOK /\ SetupInv /\ CountInv

(* One channel number exists for each setup caller, the first one at least. *)
LEMMA ChansSize ==
  /\ Cardinality(SetupCallers) \in Nat \ {0}
  /\ Cardinality(Chans) = Cardinality(SetupCallers)
  /\ 1 \in Chans
<1>1. Cardinality(SetupCallers) \in Nat \ {0}
  BY SignalAssumption, FS_CardinalityType, FS_EmptySet
<1>2. Cardinality(Chans) = Cardinality(SetupCallers)
  BY <1>1, FS_Interval DEF Chans
<1>. QED  BY <1>1, <1>2 DEF Chans

LEMMA SInvInit == Init => SInv
<1> SUFFICES ASSUME Init PROVE SInv
  OBVIOUS
<1>1. TypeOK
  <2>1. /\ handler \in 0 .. Cardinality(Chans)
        /\ notified \in 0 .. Cardinality(Chans)
        /\ made \in 0 .. Cardinality(Chans)
    BY ChansSize DEF Init
  <2>2. buf \in [Chans -> 0 .. Capacity]
    BY DEF Init, Capacity
  <2>3. osSent \in 0 .. MaxOSSignals
    BY SignalAssumption DEF Init
  <2>. QED  BY <2>1, <2>2, <2>3 DEF Init, TypeOK
<1>2. SetupInv
  BY DEF Init, SetupInv, CallerInv
<1>3. CountInv
  BY ChansSize DEF Init, CountInv, Queued, Consumed
<1>. QED  BY <1>1, <1>2, <1>3 DEF SInv

LEMMA SInvStep == SInv /\ [Next]_vars => SInv'
<1> SUFFICES ASSUME SInv, [Next]_vars PROVE SInv'
  OBVIOUS
<1>. USE ChansSize DEF SInv, Running, Capacity
<1>1. ASSUME NEW c \in SetupCallers, SetupClose(c) PROVE SInv'
  <2>1. CASE closedOnce
    BY <1>1, <2>1 DEF SetupClose, TypeOK, SetupInv, CallerInv, CountInv,
                      Queued, Consumed
  <2>2. CASE ~closedOnce
    <3>1. \A x \in SetupCallers : pc[x] = "close"
      BY <2>2 DEF SetupInv
    <3>2. made = 0 /\ handler = 0 /\ notified = 0 /\ gs = "none"
      BY <2>2, <3>1 DEF SetupInv
    <3>3. pc' = [pc EXCEPT ![c] = "make"] /\ closedOnce'
      BY <1>1, <2>2 DEF SetupClose
    <3>4. TypeOK'
      BY <1>1, <3>3 DEF SetupClose, TypeOK
    <3>5. SetupInv'
      BY <1>1, <3>1, <3>2, <3>3 DEF SetupClose, TypeOK, SetupInv, CallerInv
    <3>6. CountInv'
      BY <1>1, <3>2 DEF SetupClose, TypeOK, CountInv, Queued, Consumed
    <3>. QED  BY <3>4, <3>5, <3>6
  <2>. QED  BY <2>1, <2>2
<1>2. ASSUME NEW c \in SetupCallers, SetupMake(c) PROVE SInv'
  <2>1. made = 0 /\ handler = 0 /\ notified = 0 /\ gs = "none"
    BY <1>2 DEF SetupMake, SetupInv, CallerInv
  <2>2. buf[1] = 0 /\ handler' = 1 /\ made' = 1
    BY <1>2, <2>1 DEF SetupMake, SetupInv
  <2>3. TypeOK'
    BY <1>2, <2>2 DEF SetupMake, TypeOK
  <2>6. pc' = [pc EXCEPT ![c] = "notify"] /\ pc[c] = "make"
         /\ \A x \in SetupCallers : pc[x] # "close" => x = c
    BY <1>2 DEF SetupMake, SetupInv, TypeOK
  <2>4. SetupInv'
    <3>1. closedOnce' /\ (\E x \in SetupCallers : pc'[x] # "close")
      <4>1. closedOnce' = closedOnce /\ closedOnce
        BY <1>2, <2>6 DEF SetupMake, SetupInv
      <4>2. pc'[c] # "close"
        BY <2>6 DEF TypeOK
      <4>. QED  BY <4>1, <4>2
    <3>2. \A x, d \in SetupCallers : pc'[x] # "close" /\ pc'[d] # "close" => x = d
      BY <1>2, <2>6 DEF SetupMake, TypeOK
    <3>3. \A x \in SetupCallers : CallerInv(x)'
      BY <1>2, <2>1, <2>2, <2>6 DEF SetupMake, CallerInv, TypeOK
    <3>4. \A x \in Chans : x # handler' => buf'[x] = 0
      BY <1>2, <2>1, <2>2 DEF SetupMake, SetupInv, Chans
    <3>. QED  BY <1>2, <2>1, <2>2, <3>1, <3>2, <3>3, <3>4 DEF SetupMake, SetupInv
  <2>5. CountInv'
    BY <1>2, <2>1, <2>2 DEF SetupMake, CountInv, Queued, Consumed
  <2>. QED  BY <2>3, <2>4, <2>5
<1>3. ASSUME NEW c \in SetupCallers, SetupNotify(c) PROVE SInv'
  BY <1>3 DEF SetupNotify, TypeOK, SetupInv, CallerInv, CountInv, Queued, Consumed
<1>4. ASSUME NEW c \in SetupCallers, SetupGo(c) PROVE SInv'
  BY <1>4 DEF SetupGo, TypeOK, SetupInv, CallerInv, CountInv, Queued, Consumed
<1>5. CASE GoroutineRecv1
  BY <1>5 DEF GoroutineRecv1, TypeOK, SetupInv, CallerInv, CountInv, Queued, Consumed
<1>6. CASE GoroutineCancel
  BY <1>6 DEF GoroutineCancel, TypeOK, SetupInv, CallerInv, CountInv, Queued, Consumed
<1>7. CASE GoroutineRecv2
  BY <1>7 DEF GoroutineRecv2, TypeOK, SetupInv, CallerInv, CountInv, Queued, Consumed
<1>8. CASE GoroutineExit
  BY <1>8 DEF GoroutineExit, TypeOK, SetupInv, CallerInv, CountInv, Queued, Consumed
<1>9. ASSUME NEW r \in Requesters, RequestShutdown(r) PROVE SInv'
  BY <1>9 DEF RequestShutdown, TypeOK, SetupInv, CallerInv, CountInv, Queued, Consumed
<1>10. CASE OSSignal
  <2>1. CASE notified = 0
    <3>1. status' = "killed" /\ UNCHANGED <<buf, accepted>>
      BY <1>10, <2>1 DEF OSSignal
    <3>2. TypeOK'
      BY <1>10, <3>1, SignalAssumption DEF OSSignal, TypeOK
    <3>3. SetupInv'
      BY <1>10, <3>1 DEF OSSignal, SetupInv, CallerInv
    <3>4. CountInv'
      BY <1>10, <3>1 DEF OSSignal, CountInv, Queued, Consumed
    <3>. QED  BY <3>2, <3>3, <3>4
  <2>2. CASE notified # 0
    <3>1. notified = handler /\ handler = 1 /\ status' = status
      BY <1>10, <2>2 DEF OSSignal, SetupInv
    <3>2. TypeOK'
      BY <1>10, <3>1, SignalAssumption DEF OSSignal, TypeOK
    <3>3. SetupInv'
      BY <1>10, <3>1 DEF OSSignal, SetupInv, CallerInv, TypeOK
    <3>4. CountInv'
      BY <1>10, <3>1 DEF OSSignal, CountInv, Queued, Consumed, TypeOK
    <3>. QED  BY <3>2, <3>3, <3>4
  <2>. QED  BY <2>1, <2>2
<1>11. CASE UNCHANGED vars
  BY <1>11 DEF vars, TypeOK, SetupInv, CallerInv, CountInv, Queued, Consumed
<1>. QED  BY <1>1, <1>2, <1>3, <1>4, <1>5, <1>6, <1>7, <1>8, <1>9, <1>10, <1>11
          DEF Next, Setup, Goroutine

(* The model's type invariant holds in every behaviour, for every set of  *)
(* setup callers and requesters and every bound on the OS's signals.      *)
THEOREM SignalTypeCorrect == Spec => []TypeOK
<1>1. SInv => TypeOK  BY DEF SInv
<1>. QED  BY <1>1, SInvInit, SInvStep, PTL DEF Spec

(* ExitOnlyOnSecondSignal: os.Exit(1) of line 55 runs only after cancel() *)
(* and after the goroutine took two signals, each one of which a request   *)
(* or the OS put into the channel.                                         *)
THEOREM ExitOnlyOnSecondSignalHolds == Spec => []ExitOnlyOnSecondSignal
<1>1. SInv => ExitOnlyOnSecondSignal
  BY ChansSize DEF SInv, TypeOK, CountInv, Queued, Consumed, Chans, Capacity,
                 ExitOnlyOnSecondSignal
<1>. QED  BY <1>1, SInvInit, SInvStep, PTL DEF Spec

(* DroppedOnlyWhenExitQueued: RequestShutdown's send at line 66 is dropped *)
(* only when the channel already holds two signals, so the count of taken  *)
(* signals, which never falls, is two at least from then on.              *)
THEOREM DroppedOnlyWhenExitQueuedHolds == Spec => []DroppedOnlyWhenExitQueued
<1>1. SInv => DroppedOnlyWhenExitQueued
  BY DEF SInv, CountInv, DroppedOnlyWhenExitQueued
<1>. QED  BY <1>1, SInvInit, SInvStep, PTL DEF Spec

=============================================================================
