--------------------------- MODULE CodecMainProofs ---------------------------
(***************************************************************************)
(* Proofs about CodecMain: the etcd client of examples/codec.go is closed  *)
(* however main ends, for any media types, Pod revisions and number of     *)
(* concurrent writes.                                                      *)
(***************************************************************************)
EXTENDS CodecMain, SequenceTheorems, TLAPS

(* What main has done at each statement: before line 38 nothing is         *)
(* deferred and the client is closed only before line 31; from line 38 on *)
(* the one deferred call is the Close, and it has run exactly when the     *)
(* client is closed; the outputs printed are those of the steps passed.    *)
DeferInv ==
  /\ pc = "new" => ~clientOpen /\ deferred = <<>>
  /\ pc = "defer" => clientOpen /\ deferred = <<>>
  /\ pc \in {"get", "codecs", "decode", "encode"} =>
       clientOpen /\ deferred = <<"Close">>
  /\ pc \in {"return", "unwind"} =>
       /\ deferred = <<>> \/ deferred = <<"Close">>
       /\ clientOpen <=> deferred = <<"Close">>
  /\ pc = "ended" => ~clientOpen /\ deferred = <<>>

PrintInv ==
  /\ pc \in {"new", "defer", "get", "codecs", "decode"} => printed = <<>>
  /\ pc = "encode" => printed = <<"Decode">>
  /\ pc = "return" => printed = <<"Decode", "Encode">>
  /\ pc = "unwind" => printed = <<>> \/ printed = <<"Decode">>
  /\ pc = "ended" => (exitCode = 0 <=> printed = <<"Decode", "Encode">>)

(* The type invariant, one conjunct per variable. *)
TypeParts ==
  /\ pc \in {"new", "defer", "get", "codecs", "decode", "encode", "return",
             "unwind", "ended"}
  /\ deferred = <<>> \/ deferred = <<"Close">>
  /\ clientOpen \in BOOLEAN
  /\ \/ printed = <<>> \/ printed = <<"Decode">>
     \/ printed = <<"Decode", "Encode">>
  /\ exitCode \in {0, 2}
  /\ stored \in Revisions \cup {0}
  /\ kv \in Revisions \cup {0}
  /\ writes \in 0 .. MaxWrites

CInv == TypeParts /\ DeferInv /\ PrintInv

LEMMA TypePartsTypeOK == TypeParts => TypeOK
<1> SUFFICES ASSUME TypeParts PROVE TypeOK
  OBVIOUS
<1>1. deferred \in Seq({"Close"})
  <2>1. CASE deferred = <<>>
    BY <2>1
  <2>2. CASE deferred = <<"Close">>
    BY <2>2
  <2> QED
    BY <2>1, <2>2 DEF TypeParts
<1>2. printed \in Seq({"Decode", "Encode"})
  <2>1. CASE printed = <<>>
    BY <2>1
  <2>2. CASE printed = <<"Decode">>
    BY <2>2
  <2>3. CASE printed = <<"Decode", "Encode">>
    BY <2>3
  <2> QED
    BY <2>1, <2>2, <2>3 DEF TypeParts
<1> QED
  BY <1>1, <1>2 DEF TypeParts, TypeOK

(* What printing the two outputs and popping the deferred Close give. *)
LEMMA SeqFacts ==
  /\ Append(<<>>, "Decode") = <<"Decode">>
  /\ Append(<<"Decode">>, "Encode") = <<"Decode", "Encode">>
  /\ Append(<<>>, "Close") = <<"Close">>
  /\ SubSeq(<<"Close">>, 1, Len(<<"Close">>) - 1) = <<>>
  /\ <<"Close">>[Len(<<"Close">>)] = "Close"
  /\ <<>> # <<"Close">>
  /\ <<>> # <<"Decode", "Encode">> /\ <<"Decode">> # <<"Decode", "Encode">>
<1> DEFINE a == Append(<<"Decode">>, "Encode")
           b == <<"Decode", "Encode">>
<1>1. a \in Seq({"Decode", "Encode"}) /\ Len(a) = 2 /\ a[1] = "Decode" /\ a[2] = "Encode"
  OBVIOUS
<1>2. b \in Seq({"Decode", "Encode"}) /\ Len(b) = 2 /\ b[1] = "Decode" /\ b[2] = "Encode"
  OBVIOUS
<1>3. \A i \in 1 .. Len(a) : a[i] = b[i]
  BY <1>1, <1>2
<1>4. a = b
  BY <1>1, <1>2, <1>3, SeqEqual
<1> QED
  BY <1>4

LEMMA CInvInit == Init => CInv
<1> SUFFICES ASSUME Init PROVE CInv
  OBVIOUS
<1>1. TypeParts
  <2>1. writes \in 0 .. MaxWrites
    BY CodecAssumption DEF Init
  <2>2. stored \in Revisions \cup {0} /\ kv \in Revisions \cup {0}
    BY DEF Init
  <2> QED
    BY <2>1, <2>2 DEF Init, TypeParts
<1>2. DeferInv /\ PrintInv
  BY DEF Init, DeferInv, PrintInv
<1> QED
  BY <1>1, <1>2 DEF CInv

LEMMA CInvStep == CInv /\ [Next]_vars => CInv'
<1> SUFFICES ASSUME CInv, [Next]_vars PROVE CInv'
  OBVIOUS
<1> USE CodecAssumption, SeqFacts DEF CInv
<1>1. CASE NewClient
  <2>1. TypeParts'
    BY <1>1 DEF NewClient, Panic, TypeParts, DeferInv, PrintInv
  <2>2. DeferInv' /\ PrintInv'
    BY <1>1 DEF NewClient, Panic, DeferInv, PrintInv
  <2> QED
    BY <2>1, <2>2
<1>2. CASE DeferClose
  <2>1. TypeParts'
    BY <1>2 DEF DeferClose, TypeParts, DeferInv, PrintInv
  <2>2. DeferInv' /\ PrintInv'
    BY <1>2 DEF DeferClose, DeferInv, PrintInv
  <2> QED
    BY <2>1, <2>2
<1>3. CASE Get
  <2>1. TypeParts'
    BY <1>3 DEF Get, Panic, TypeParts, DeferInv, PrintInv
  <2>2. DeferInv' /\ PrintInv'
    BY <1>3 DEF Get, Panic, DeferInv, PrintInv
  <2> QED
    BY <2>1, <2>2
<1>4. CASE NewCodecs
  <2>1. TypeParts'
    BY <1>4 DEF NewCodecs, Panic, TypeParts, DeferInv, PrintInv
  <2>2. DeferInv' /\ PrintInv'
    BY <1>4 DEF NewCodecs, Panic, DeferInv, PrintInv
  <2> QED
    BY <2>1, <2>2
<1>5. CASE Decode
  <2>1. TypeParts'
    BY <1>5 DEF Decode, Panic, TypeParts, DeferInv, PrintInv
  <2>2. DeferInv' /\ PrintInv'
    BY <1>5 DEF Decode, Panic, DeferInv, PrintInv
  <2> QED
    BY <2>1, <2>2
<1>6. CASE Encode
  <2>1. TypeParts'
    BY <1>6 DEF Encode, Panic, TypeParts, DeferInv, PrintInv
  <2>2. DeferInv' /\ PrintInv'
    BY <1>6 DEF Encode, Panic, DeferInv, PrintInv
  <2> QED
    BY <2>1, <2>2
<1>7. CASE EtcdWrite
  <2>1. TypeParts'
    BY <1>7 DEF EtcdWrite, mainVars, TypeParts, DeferInv, PrintInv
  <2>2. DeferInv' /\ PrintInv'
    BY <1>7 DEF EtcdWrite, mainVars, DeferInv, PrintInv
  <2> QED
    BY <2>1, <2>2
<1>8. CASE RunDeferred
  <2>1. TypeParts'
    BY <1>8 DEF RunDeferred, TypeParts, DeferInv, PrintInv
  <2>2. DeferInv' /\ PrintInv'
    BY <1>8 DEF RunDeferred, DeferInv, PrintInv
  <2> QED
    BY <2>1, <2>2
<1>9. CASE End
  <2>1. TypeParts'
    BY <1>9 DEF End, TypeParts, DeferInv, PrintInv
  <2>2. DeferInv'
    BY <1>9 DEF End, DeferInv
  <2>3. PrintInv'
    <3>1. CASE pc = "return"
      BY <1>9, <3>1 DEF End, PrintInv
    <3>2. CASE pc = "unwind"
      <4>1. exitCode' = 2 /\ pc' = "ended" /\ printed' = printed
        BY <1>9, <3>2 DEF End
      <4>2. printed = <<>> \/ printed = <<"Decode">>
        BY <3>2 DEF PrintInv
      <4> QED
        BY <4>1, <4>2 DEF PrintInv
    <3> QED
      BY <1>9, <3>1, <3>2 DEF End
  <2> QED
    BY <2>1, <2>2, <2>3
<1>10. CASE UNCHANGED vars
  BY <1>10 DEF vars, TypeParts, DeferInv, PrintInv
<1> QED
  BY <1>1, <1>2, <1>3, <1>4, <1>5, <1>6, <1>7, <1>8, <1>9, <1>10 DEF Next

(* defer cli.Close() at codec.go:38: in every behaviour, with any number   *)
(* of concurrent writes, the client is closed when the process ends and    *)
(* exit status 0 means both outputs were printed.                          *)
THEOREM ClientClosedAtEndHolds == Spec => []ClientClosedAtEnd
<1>1. CInv => ClientClosedAtEnd
  BY DEF CInv, DeferInv, PrintInv, ClientClosedAtEnd
<1> QED
  BY <1>1, CInvInit, CInvStep, PTL DEF Spec

(* The type invariant holds in every state. *)
THEOREM CodecTypeCorrect == Spec => []TypeOK
<1>1. CInv => TypeOK
  BY TypePartsTypeOK DEF CInv
<1> QED
  BY <1>1, CInvInit, CInvStep, PTL DEF Spec

=============================================================================
