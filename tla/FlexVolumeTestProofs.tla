------------------------- MODULE FlexVolumeTestProofs -------------------------
(***************************************************************************)
(* Proofs about the model of flexvolume_test.go's fixture: the helper     *)
(* reports a failure exactly when the driver it leaves cannot run, and a  *)
(* driver that runs answers Success exactly to the calls it supports, for *)
(* every set of driver calls.                                              *)
(***************************************************************************)
EXTENDS FlexVolumeTest, TLAPS

(* What every step of installPluginUnderTest done so far has achieved     *)
(* when none of them failed.                                               *)
StepsSucceeded ==
  /\ ipc # "mkdir" => dir
  /\ ipc \notin {"mkdir", "create"} => created
  /\ ipc \notin {"mkdir", "create", "chmod"} => exec
  /\ ipc \in {"close", "done"} => content = "script"

(* The helper's effects so far: nothing is touched before its step runs, *)
(* and f is nil exactly when os.Create ran and did not create the file.  *)
InstallInv ==
  /\ failed <=> ~StepsSucceeded
  /\ ipc = "mkdir" => ~dir
  /\ ipc \in {"mkdir", "create"} => ~created /\ ~fileNil
  /\ ipc \in {"mkdir", "create", "chmod"} => ~exec /\ content = "empty"
  /\ ipc \notin {"mkdir", "create"} => (fileNil <=> ~created)
  /\ created => dir
  /\ exec => created

(* The calls the script answers Success to, from its init test or its    *)
(* if/elif chain.                                                          *)
SuccessCall(a) == a = <<"init">> \/ <<a[1], Len(a)>> \in Supported

(* The driver runs only after the helper returned and only when it can;   *)
(* the dispatch chain is reached only by a call other than init alone.    *)
DriverInv ==
  /\ spc # "notRun" => ipc = "done"
  /\ spc \in {"init", "dispatch"} => Runnable
  /\ spc # "exited" => status = "none" /\ exitCode = "none"
  /\ spc = "dispatch" => ~(args[1] = "init" /\ Len(args) = 1)
  /\ spc = "exited" /\ exitCode # "execError" =>
       (status = "Success" <=> SuccessCall(args))

(* The inductive invariant. *)
FInv == TypeOK /\ InstallInv /\ DriverInv


(* The init call alone is the one-element sequence <<"init">>. *)
LEMMA InitAlone ==
  ASSUME NEW a \in Calls
  PROVE  (a[1] = "init" /\ Len(a) = 1) <=> a = <<"init">>
BY FlexAssumption

LEMMA FInvInit == Init => FInv
BY FlexAssumption DEF Init, FInv, TypeOK, InstallInv, StepsSucceeded, DriverInv

LEMMA FInvStep == FInv /\ [Next]_vars => FInv'
<1> SUFFICES ASSUME FInv, [Next]_vars PROVE FInv'
  OBVIOUS
<1>. USE DEF FInv, TypeOK, InstallInv, StepsSucceeded, DriverInv, Installer, Runnable,
             Driver
<1>0. ipc # "done" => spc = "notRun" /\ status = "none" /\ exitCode = "none"
  OBVIOUS
<1>1. CASE MkdirAll
  <2>1. CASE dir' = TRUE /\ UNCHANGED failed
    BY <1>0, <1>1, <2>1 DEF MkdirAll
  <2>2. CASE failed' = TRUE /\ UNCHANGED dir
    BY <1>0, <1>1, <2>2 DEF MkdirAll
  <2>. QED  BY <1>1, <2>1, <2>2 DEF MkdirAll
<1>2. CASE Create
  <2>1. CASE dir /\ created' = TRUE /\ UNCHANGED <<failed, fileNil>>
    BY <1>0, <1>2, <2>1 DEF Create
  <2>2. CASE fileNil' = TRUE /\ failed' = TRUE /\ UNCHANGED created
    BY <1>0, <1>2, <2>2 DEF Create
  <2>. QED  BY <1>2, <2>1, <2>2 DEF Create
<1>3. CASE Chmod
  <2>1. CASE ~fileNil /\ exec' = TRUE /\ UNCHANGED failed
    BY <1>0, <1>3, <2>1 DEF Chmod
  <2>2. CASE failed' = TRUE /\ UNCHANGED exec
    BY <1>0, <1>3, <2>2 DEF Chmod
  <2>. QED  BY <1>3, <2>1, <2>2 DEF Chmod
<1>4. CASE WriteScript
  <2>1. CASE ~fileNil /\ content' = "script" /\ UNCHANGED failed
    BY <1>0, <1>4, <2>1 DEF WriteScript
  <2>2. CASE ~fileNil /\ content' = "partial" /\ failed' = TRUE
    BY <1>0, <1>4, <2>2 DEF WriteScript
  <2>3. CASE fileNil /\ failed' = TRUE /\ UNCHANGED content
    BY <1>0, <1>4, <2>3 DEF WriteScript
  <2>. QED  BY <1>4, <2>1, <2>2, <2>3 DEF WriteScript
<1>5. CASE Close      BY <1>5 DEF Close
<1>6. CASE RunDriver  BY <1>6 DEF RunDriver, Runnable
<1>7. CASE ScriptInit
  BY <1>7, InitAlone DEF ScriptInit, Runnable, SuccessCall
<1>8. CASE ScriptDispatch
  BY <1>8, InitAlone DEF ScriptDispatch, Runnable, SuccessCall
<1>9. CASE UNCHANGED vars
  <2>1. TypeOK'  BY <1>9 DEF vars
  <2>2. InstallInv'  BY <1>9 DEF vars
  <2>3. DriverInv'  BY <1>9 DEF vars
  <2>. QED  BY <2>1, <2>2, <2>3
<1>. QED  BY <1>1, <1>2, <1>3, <1>4, <1>5, <1>6, <1>7, <1>8, <1>9 DEF Next

(* InstallReportedAndDriverAnswers for every set of driver calls: each     *)
(* failing step of installPluginUnderTest calls t.Errorf and leaves the    *)
(* driver unrunnable, and the script's init test and if/elif chain answer  *)
(* Success exactly to init alone and the supported commands.               *)
THEOREM InstallReportedAndDriverAnswersHolds ==
  Spec => []InstallReportedAndDriverAnswers
<1>1. FInv => InstallReportedAndDriverAnswers
  BY DEF FInv, InstallInv, StepsSucceeded, DriverInv, Runnable, SuccessCall,
         InstallReportedAndDriverAnswers
<1>. QED  BY <1>1, FInvInit, FInvStep, PTL DEF Spec

(* The fixture model keeps its types in every behaviour, for every set of *)
(* driver calls.                                                           *)
THEOREM FlexTypeCorrect == Spec => []TypeOK
<1>1. FInv => TypeOK  BY DEF FInv
<1>. QED  BY <1>1, FInvInit, FInvStep, PTL DEF Spec

=============================================================================
