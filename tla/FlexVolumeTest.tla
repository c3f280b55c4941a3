--------------------------- MODULE FlexVolumeTest ---------------------------
(***************************************************************************)
(* The test fixture of pkg/volume/flexvolume/flexvolume_test.go: the      *)
(* helper installPluginUnderTest, which writes a fake flex driver script  *)
(* into the plugin directory, and that script (execScriptTempl1) when the *)
(* plugin manager runs it.                                                 *)
(*                                                                         *)
(* Every file operation of the helper may fail; a failure is reported    *)
(* with t.Errorf, which marks the test failed and lets the helper go on,  *)
(* with a nil *os.File if os.Create failed (whose methods then return     *)
(* os.ErrInvalid).  Template execution into a bytes.Buffer with a map of  *)
(* data cannot fail and is folded into the write.  The driver is then    *)
(* called once with one of the argument lists in Calls.                  *)
(***************************************************************************)
EXTENDS Naturals, Sequences

CONSTANTS Calls   \* argument lists the plugin manager may run the driver with

ASSUME FlexAssumption == Calls \subseteq Seq({"init", "attach", "detach",
         "getvolumename", "isattached", "mountdevice", "arg"})

VARIABLES
  ipc,       \* the helper's next statement
  failed,    \* t.Errorf has been called
  dir,       \* the plugin directory exists
  fileNil,   \* f is nil: os.Create failed
  created,   \* the driver file exists
  exec,      \* the driver file has the exec bits
  content,   \* what the driver file holds: "empty", "partial", "script"
  args,      \* the arguments of the driver call
  spc,       \* the script's next statement
  status,    \* the "status" the script printed
  exitCode,  \* its exit code, or "execError" when it could not be run
  recorded   \* the arguments were written to the .out file (line 74)

vars == <<ipc, failed, dir, fileNil, created, exec, content,
          args, spc, status, exitCode, recorded>>

(* What the script answers Success to: the command and $#, the number of   *)
(* arguments, the command among them.                                      *)
Supported == {<<"attach", 2>>, <<"detach", 2>>, <<"getvolumename", 4>>,
              <<"isattached", 2>>}

-----------------------------------------------------------------------------
Init ==
  /\ ipc = "mkdir"
  /\ failed = FALSE
  /\ dir = FALSE /\ fileNil = FALSE /\ created = FALSE /\ exec = FALSE
  /\ content = "empty"
  /\ args \in Calls
  /\ spc = "notRun" /\ status = "none" /\ exitCode = "none"
  /\ recorded = FALSE

Installer == <<ipc, failed, dir, fileNil, created, exec, content>>
Driver == <<args, spc, status, exitCode, recorded>>

(* os.MkdirAll(pluginDir, 0777); t.Errorf on error. *)
MkdirAll ==
  /\ ipc = "mkdir"
  /\ ipc' = "create"
  /\ \/ dir' = TRUE /\ UNCHANGED failed
     \/ failed' = TRUE /\ UNCHANGED dir
  /\ UNCHANGED <<fileNil, created, exec, content>> /\ UNCHANGED Driver

(* os.Create(pluginExec): fails when the directory is missing, or may     *)
(* fail anyway; f is then nil.  A created file is not executable.         *)
Create ==
  /\ ipc = "create"
  /\ ipc' = "chmod"
  /\ \/ dir /\ created' = TRUE /\ UNCHANGED <<failed, fileNil>>
     \/ fileNil' = TRUE /\ failed' = TRUE /\ UNCHANGED created
  /\ UNCHANGED <<dir, exec, content>> /\ UNCHANGED Driver

(* f.Chmod(0777): ErrInvalid on a nil f, or a failure of its own. *)
Chmod ==
  /\ ipc = "chmod"
  /\ ipc' = "write"
  /\ \/ ~fileNil /\ exec' = TRUE /\ UNCHANGED failed
     \/ failed' = TRUE /\ UNCHANGED exec
  /\ UNCHANGED <<dir, fileNil, created, content>> /\ UNCHANGED Driver

(* Mutant: the error of WriteString is not reported. *)
WriteScriptUnreported ==
  /\ ipc = "write"
  /\ ipc' = "close"
  /\ \/ ~fileNil /\ content' = "script"
     \/ ~fileNil /\ content' = "partial"
     \/ fileNil /\ UNCHANGED content
  /\ UNCHANGED <<failed, dir, fileNil, created, exec>> /\ UNCHANGED Driver

(* Template data, template.Execute into a buffer, f.WriteString: the      *)
(* write may fail part way; on a nil f it is ErrInvalid.                  *)
WriteScript ==
  /\ ipc = "write"
  /\ ipc' = "close"
  /\ \/ ~fileNil /\ content' = "script" /\ UNCHANGED failed
     \/ ~fileNil /\ content' = "partial" /\ failed' = TRUE
     \/ fileNil /\ failed' = TRUE /\ UNCHANGED content
  /\ UNCHANGED <<dir, fileNil, created, exec>> /\ UNCHANGED Driver

(* f.Close(), its error unchecked; the helper returns. *)
Close ==
  /\ ipc = "close"
  /\ ipc' = "done"
  /\ UNCHANGED <<failed, dir, fileNil, created, exec, content>>
  /\ UNCHANGED Driver

-----------------------------------------------------------------------------
(* The plugin manager runs the driver: exec fails unless the file exists, *)
(* is executable and holds the whole script.                              *)
Runnable == dir /\ created /\ exec /\ content = "script"

RunDriver ==
  /\ ipc = "done" /\ spc = "notRun"
  /\ IF Runnable THEN spc' = "init" /\ UNCHANGED exitCode
     ELSE spc' = "exited" /\ exitCode' = "execError"
  /\ UNCHANGED <<args, status, recorded>> /\ UNCHANGED Installer

(* Lines 35-40: init with no other argument answers Success. *)
ScriptInit ==
  /\ spc = "init"
  /\ IF args[1] = "init" /\ Len(args) = 1
     THEN spc' = "exited" /\ status' = "Success" /\ exitCode' = "0"
     ELSE spc' = "dispatch" /\ UNCHANGED <<status, exitCode>>
  /\ UNCHANGED <<args, recorded>> /\ UNCHANGED Installer

(* Mutant: the fallback answer misspelled, which the caller no longer     *)
(* recognises as "Not supported".                                          *)
ScriptDispatchMisspelled ==
  /\ spc = "dispatch"
  /\ spc' = "exited"
  /\ IF <<args[1], Len(args)>> \in Supported
     THEN status' = "Success" /\ exitCode' = "0"
     ELSE status' = "Not Supported" /\ exitCode' = "1"
  /\ UNCHANGED <<args, recorded>> /\ UNCHANGED Installer

(* Lines 42-71: PATH=$2 (every later command is a builtin), the if/elif   *)
(* chain answering Success and exiting 0, else "Not supported" and exit   *)
(* 1.  Every branch exits, so line 74 is never reached.                   *)
ScriptDispatch ==
  /\ spc = "dispatch"
  /\ spc' = "exited"
  /\ IF <<args[1], Len(args)>> \in Supported
     THEN status' = "Success" /\ exitCode' = "0"
     ELSE status' = "Not supported" /\ exitCode' = "1"
  /\ UNCHANGED <<args, recorded>> /\ UNCHANGED Installer

Next ==
  \/ MkdirAll \/ Create \/ Chmod \/ WriteScript \/ Close
  \/ RunDriver \/ ScriptInit \/ ScriptDispatch

Spec == Init /\ [][Next]_vars

-----------------------------------------------------------------------------
TypeOK ==
  /\ ipc \in {"mkdir", "create", "chmod", "write", "close", "done"}
  /\ {failed, dir, fileNil, created, exec, recorded} \subseteq BOOLEAN
  /\ content \in {"empty", "partial", "script"}
  /\ args \in Calls
  /\ spc \in {"notRun", "init", "dispatch", "exited"}
  /\ status \in {"none", "Success", "Not supported"}
  /\ exitCode \in {"none", "execError", "0", "1"}

(* installPluginUnderTest and the driver: once the helper has returned,   *)
(* the test was marked failed exactly when the driver it installed cannot *)
(* run, whichever of its steps failed (os.Create leaving a nil file that  *)
(* every later call rejects); and a driver that runs answers Success,     *)
(* exit 0, exactly to init alone and the supported calls with their       *)
(* argument counts.                                                        *)
InstallReportedAndDriverAnswers ==
  /\ ipc = "done" => (failed <=> ~Runnable)
  /\ spc = "exited" /\ exitCode # "execError" =>
       (status = "Success" <=>
          args = <<"init">> \/ <<args[1], Len(args)>> \in Supported)

(* Lines 73-74, "Direct the arguments to a file to be tested against      *)
(* later": a driver call that has run to its end left its arguments in    *)
(* the .out file.                                                          *)
ArgumentsRecorded ==
  spc = "exited" /\ exitCode # "execError" => recorded

=============================================================================
