------------------------------ MODULE CodecMain ------------------------------
(***************************************************************************)
(* main of examples/codec.go: open an etcd client, defer its Close, read  *)
(* one Pod key, build a Protobuf and a JSON codec (newCodec), decode the   *)
(* stored value and encode it again, printing both.  Every error panics.  *)
(*                                                                         *)
(* Go semantics that matter here: a panic that nobody recovers unwinds     *)
(* main, running its deferred calls, and the process then exits with      *)
(* status 2; a return runs them and exits with status 0.  Data are        *)
(* abstracted to what decides the control flow: whether each call fails,  *)
(* and whether the etcd answer holds a key-value (resp.Kvs[0]).           *)
(***************************************************************************)
EXTENDS Naturals, Sequences

CONSTANTS
  SupportedMediaTypes,  \* media types Codecs.SupportedMediaTypes() offers
  InMediaType,          \* inMediaType, Protobuf
  OutMediaType,         \* outMediaType, JSON
  Revisions,            \* the Pod objects other etcd clients may store
  MaxWrites             \* how many writes the other clients make

ASSUME CodecAssumption ==
  /\ 0 \notin Revisions
  /\ MaxWrites \in Nat

VARIABLES
  pc,         \* main's next statement, "unwind" while a panic unwinds it
  deferred,   \* main's deferred calls, the last one runs first
  clientOpen, \* the etcd client holds its connections
  printed,    \* what main printed, in order
  exitCode,   \* the process's exit status, set when it ends
  stored,     \* etcd's value at the Pod key, 0 when the key is absent
  writes,     \* writes the other clients made so far
  kv          \* the value main read, 0 before the read

vars == <<pc, deferred, clientOpen, printed, exitCode, stored, writes, kv>>
mainVars == <<pc, deferred, clientOpen, printed, exitCode, kv>>

Init ==
  /\ pc = "new" /\ deferred = <<>> /\ clientOpen = FALSE
  /\ printed = <<>> /\ exitCode = 0
  /\ stored \in Revisions \cup {0} /\ writes = 0 /\ kv = 0

(* Other clients of the etcd cluster create, update or delete the Pod at   *)
(* any time, up to MaxWrites writes.                                       *)
EtcdWrite ==
  /\ writes < MaxWrites
  /\ stored' \in (Revisions \cup {0}) \ {stored}
  /\ writes' = writes + 1
  /\ UNCHANGED mainVars

(* panic(err): main unwinds, running its deferred calls. *)
Panic == pc' = "unwind"

(* Lines 30-37: clientv3.New; on error cli is nil and main panics. *)
NewClient ==
  /\ pc = "new"
  /\ \/ clientOpen' = TRUE /\ pc' = "defer"
     \/ UNCHANGED clientOpen /\ Panic
  /\ UNCHANGED <<deferred, printed, exitCode, kv, stored, writes>>

(* Mutant: the Close is never deferred. *)
DeferCloseMissing ==
  /\ pc = "defer" /\ pc' = "get"
  /\ UNCHANGED <<deferred, clientOpen, printed, exitCode, kv, stored, writes>>

(* Line 38: defer cli.Close(). *)
DeferClose ==
  /\ pc = "defer" /\ pc' = "get"
  /\ deferred' = Append(deferred, "Close")
  /\ UNCHANGED <<clientOpen, printed, exitCode, kv, stored, writes>>

(* Lines 41-45: cli.Get reads the key's current value; an error panics,    *)
(* and so does resp.Kvs[0] when the key is absent (index out of range).    *)
Get ==
  /\ pc = "get"
  /\ \/ stored # 0 /\ kv' = stored /\ pc' = "codecs"
     \/ stored = 0 /\ UNCHANGED kv /\ Panic
     \/ UNCHANGED kv /\ Panic
  /\ UNCHANGED <<deferred, clientOpen, printed, exitCode, stored, writes>>

(* newCodec (lines 72-87): panics when no serializer is registered for     *)
(* the media type; ParseGroupVersion("v1") cannot fail.                    *)
newCodecOK(mediaType) == mediaType \in SupportedMediaTypes

(* Lines 48-49: inCodec, then outCodec. *)
NewCodecs ==
  /\ pc = "codecs"
  /\ IF newCodecOK(InMediaType) /\ newCodecOK(OutMediaType)
     THEN pc' = "decode" ELSE Panic
  /\ UNCHANGED <<deferred, clientOpen, printed, exitCode, kv, stored, writes>>

(* Lines 52-57: runtime.Decode; an error panics, else the object prints.   *)
Decode ==
  /\ pc = "decode"
  /\ \/ pc' = "encode" /\ printed' = Append(printed, "Decode")
     \/ Panic /\ UNCHANGED printed
  /\ UNCHANGED <<deferred, clientOpen, exitCode, kv, stored, writes>>

(* Lines 60-65: runtime.Encode; an error panics, else the JSON prints.     *)
Encode ==
  /\ pc = "encode"
  /\ \/ pc' = "return" /\ printed' = Append(printed, "Encode")
     \/ Panic /\ UNCHANGED printed
  /\ UNCHANGED <<deferred, clientOpen, exitCode, kv, stored, writes>>

(* Returning or panicking, main runs its deferred calls, last first. *)
RunDeferred ==
  /\ pc \in {"return", "unwind"} /\ deferred # <<>>
  /\ deferred' = SubSeq(deferred, 1, Len(deferred) - 1)
  /\ deferred[Len(deferred)] = "Close" /\ clientOpen' = FALSE
  /\ UNCHANGED <<pc, printed, exitCode, kv, stored, writes>>

(* The process ends: status 0 after a return, 2 after a panic. *)
End ==
  /\ pc \in {"return", "unwind"} /\ deferred = <<>>
  /\ exitCode' = IF pc = "return" THEN 0 ELSE 2
  /\ pc' = "ended"
  /\ UNCHANGED <<deferred, clientOpen, printed, kv, stored, writes>>

Next ==
  NewClient \/ DeferClose \/ Get \/ NewCodecs \/ Decode \/ Encode \/ EtcdWrite
    \/ RunDeferred \/ End

Spec == Init /\ [][Next]_vars

-----------------------------------------------------------------------------
TypeOK ==
  /\ pc \in {"new", "defer", "get", "codecs", "decode", "encode", "return",
             "unwind", "ended"}
  /\ deferred \in Seq({"Close"})
  /\ clientOpen \in BOOLEAN
  /\ printed \in Seq({"Decode", "Encode"})
  /\ exitCode \in {0, 2}
  /\ stored \in Revisions \cup {0} /\ kv \in Revisions \cup {0}
  /\ writes \in 0 .. MaxWrites

(* defer cli.Close() at line 38: however main ends, by a return or by any  *)
(* of its panics after the client was opened, the client is closed when    *)
(* the process ends, and a successful run printed the decoded object and   *)
(* then its encoding.                                                      *)
ClientClosedAtEnd ==
  pc = "ended" =>
    /\ ~clientOpen
    /\ (exitCode = 0 <=> printed = <<"Decode", "Encode">>)

=============================================================================
