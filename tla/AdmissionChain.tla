--------------------------- MODULE AdmissionChain ---------------------------
(***************************************************************************)
(* The admission chain of the API server: chainAdmissionHandler in         *)
(* vendor/k8s.io/apiserver/pkg/admission/chain.go.                        *)
(*                                                                         *)
(* A chain is an ordered sequence of plugin instances.  For one request    *)
(* the caller first runs chain.Admit, which walks the chain in order and   *)
(* calls Admit of every plugin that Handles the request's operation and    *)
(* implements MutationInterface, returning the first error; if Admit       *)
(* succeeded it runs chain.Validate, the same walk over the plugins that   *)
(* implement ValidationInterface.  Many requests run through the same      *)
(* read-only chain at once, each in its own goroutine; a step of the model *)
(* is one iteration of a chain loop of one request.                        *)
(*                                                                         *)
(* Plugins are abstracted to their capabilities and their effect on the    *)
(* request's attributes: for operation o, Mutate[p][o][x] is the object    *)
(* after p's Admit on object x, AdmitFails[p][o] the objects its Admit     *)
(* returns an error on, Accepts[p][o] the objects its Validate lets        *)
(* through, and a plugin in Fallible may also fail for reasons outside     *)
(* the attributes (a webhook that is down).  An object stands for          *)
(* everything of the attributes a plugin reads besides the operation: the  *)
(* new object, the old one, the resource and subresource.                  *)
(***************************************************************************)
EXTENDS Naturals, Sequences, FiniteSets

CONSTANTS
  Plugins,      \* plugin instances
  Operations,   \* admission.Operation: Create, Update, Delete, Connect
  Chain,        \* the chainAdmissionHandler: plugins in construction order
  HandledOps,   \* HandledOps[p]: the operations p.Handles
  Mutators,     \* plugins implementing MutationInterface
  Validators,   \* plugins implementing ValidationInterface
  Objects,      \* the request objects the plugins tell apart
  Mutate,       \* Mutate[p][o][x]: the object after p.Admit on x succeeds
  AdmitFails,   \* AdmitFails[p][o]: the objects p.Admit returns an error on
  Accepts,      \* Accepts[p][o]: the objects p.Validate accepts
  Fallible,     \* plugins whose calls may fail whatever the object
  Requests      \* concurrent requests

ASSUME ChainAssumption ==
  /\ Operations # {} /\ Objects # {}
  /\ Chain \in Seq(Plugins)
  /\ HandledOps \in [Plugins -> SUBSET Operations]
  /\ Mutators \subseteq Plugins
  /\ Validators \subseteq Plugins
  /\ Fallible \subseteq Plugins
  /\ Mutate \in [Plugins -> [Operations -> [Objects -> Objects]]]
  /\ AdmitFails \in [Plugins -> [Operations -> SUBSET Objects]]
  /\ Accepts \in [Plugins -> [Operations -> SUBSET Objects]]

VARIABLES
  phase,   \* phase[r]: where request r is in its admission
  idx,     \* idx[r]: the loop index of the chain walk in progress
  op,      \* op[r]: a.GetOperation()
  obj,     \* obj[r]: a.GetObject(), as the plugins have mutated it so far
  orig,    \* orig[r]: the object the request came with (history)
  calls    \* calls[r]: the plugin calls made, <<phase, chain index>> (history)

vars == <<phase, idx, op, obj, orig, calls>>

Phases == {"none", "admit", "validate", "admitted", "rejected"}

Indices == 1 .. Len(Chain)

(* The values op and obj hold before a request arrives.                   *)
NoOp == CHOOSE o \in Operations : TRUE
NoObject == CHOOSE x \in Objects : TRUE

(* Mutant: Validate's loop copied from Admit's checks MutationInterface.  *)
CapableCopied(ph) == Mutators

(* The capability a phase dispatches on: MutationInterface for Admit,      *)
(* ValidationInterface for Validate.                                       *)
Capable(ph) == IF ph = "admit" THEN Mutators ELSE Validators

(* Mutant: the operation filter is left out of the loop.                 *)
RunsUnfiltered(i, ph, o) == Chain[i] \in Capable(ph)

(* The plugin at chain index i is called in phase ph of a request with     *)
(* operation o: it Handles o and has the phase's capability.               *)
Runs(i, ph, o) == o \in HandledOps[Chain[i]] /\ Chain[i] \in Capable(ph)

(* Mutant: the loop returns the first handler's answer.                   *)
HandlesFirstOnly(o) == Len(Chain) > 0 /\ o \in HandledOps[Chain[1]]

(* chainAdmissionHandler.Handles: some member handles the operation.       *)
Handles(o) == \E i \in Indices : o \in HandledOps[Chain[i]]

-----------------------------------------------------------------------------
(* Mutant: the walk starts at 0, as a Go slice index would.              *)
ReceiveZeroBased(r, o, x) ==
  /\ phase[r] = "none"
  /\ phase' = [phase EXCEPT ![r] = "admit"]
  /\ idx' = [idx EXCEPT ![r] = 0]
  /\ op' = [op EXCEPT ![r] = o]
  /\ obj' = [obj EXCEPT ![r] = x]
  /\ orig' = [orig EXCEPT ![r] = x]
  /\ UNCHANGED calls

(* A request arrives with its operation and object; the caller will run   *)
(* Admit then Validate on it.                                              *)
Receive(r, o, x) ==
  /\ phase[r] = "none"
  /\ phase' = [phase EXCEPT ![r] = "admit"]
  /\ idx' = [idx EXCEPT ![r] = 1]
  /\ op' = [op EXCEPT ![r] = o]
  /\ obj' = [obj EXCEPT ![r] = x]
  /\ orig' = [orig EXCEPT ![r] = x]
  /\ UNCHANGED calls

(* One iteration of a chain loop on a handler that is not called: it does *)
(* not Handle the operation, or lacks the phase's capability.             *)
Skip(r) ==
  /\ phase[r] \in {"admit", "validate"}
  /\ idx[r] \in Indices
  /\ ~Runs(idx[r], phase[r], op[r])
  /\ idx' = [idx EXCEPT ![r] = @ + 1]
  /\ UNCHANGED <<phase, op, obj, orig, calls>>

(* Mutant: a successful Admit does not advance the loop.                  *)
AdmitCallNoAdvance(r) ==
  LET p == Chain[idx[r]] IN
  /\ phase[r] = "admit"
  /\ idx[r] \in Indices
  /\ Runs(idx[r], "admit", op[r])
  /\ calls' = [calls EXCEPT ![r] = Append(@, <<"admit", idx[r]>>)]
  /\ obj[r] \notin AdmitFails[p][op[r]]
  /\ obj' = [obj EXCEPT ![r] = Mutate[p][op[r]][@]]
  /\ UNCHANGED <<phase, idx, op, orig>>

(* Mutant: an Admit error is logged and the loop goes on.                 *)
AdmitCallErrorIgnored(r) ==
  LET p == Chain[idx[r]] IN
  /\ phase[r] = "admit"
  /\ idx[r] \in Indices
  /\ Runs(idx[r], "admit", op[r])
  /\ calls' = [calls EXCEPT ![r] = Append(@, <<"admit", idx[r]>>)]
  /\ \/ obj[r] \notin AdmitFails[p][op[r]]
        /\ obj' = [obj EXCEPT ![r] = Mutate[p][op[r]][@]]
     \/ (obj[r] \in AdmitFails[p][op[r]] \/ p \in Fallible) /\ UNCHANGED obj
  /\ idx' = [idx EXCEPT ![r] = @ + 1]
  /\ UNCHANGED <<phase, op, orig>>

(* mutator.Admit(ctx, a, o): on success the object is mutated and the     *)
(* loop goes on; on an error (one the plugin returns on this object, or a *)
(* fallible plugin's) chain.Admit returns it and the request fails,       *)
(* keeping whatever earlier plugins did to the object.                    *)
AdmitCall(r) ==
  LET p == Chain[idx[r]] IN
  /\ phase[r] = "admit"
  /\ idx[r] \in Indices
  /\ Runs(idx[r], "admit", op[r])
  /\ calls' = [calls EXCEPT ![r] = Append(@, <<"admit", idx[r]>>)]
  /\ \/ /\ obj[r] \notin AdmitFails[p][op[r]]
        /\ obj' = [obj EXCEPT ![r] = Mutate[p][op[r]][@]]
        /\ idx' = [idx EXCEPT ![r] = @ + 1]
        /\ UNCHANGED phase
     \/ /\ obj[r] \in AdmitFails[p][op[r]] \/ p \in Fallible
        /\ phase' = [phase EXCEPT ![r] = "rejected"]
        /\ UNCHANGED <<obj, idx>>
  /\ UNCHANGED <<op, orig>>

(* chain.Admit returned nil: the caller runs chain.Validate from the start. *)
AdmitReturn(r) ==
  /\ phase[r] = "admit"
  /\ idx[r] = Len(Chain) + 1
  /\ phase' = [phase EXCEPT ![r] = "validate"]
  /\ idx' = [idx EXCEPT ![r] = 1]
  /\ UNCHANGED <<op, obj, orig, calls>>

(* Mutant: the error of Validate is dropped.                             *)
ValidateCallErrorDropped(r) ==
  /\ phase[r] = "validate"
  /\ idx[r] \in Indices
  /\ Runs(idx[r], "validate", op[r])
  /\ calls' = [calls EXCEPT ![r] = Append(@, <<"validate", idx[r]>>)]
  /\ idx' = [idx EXCEPT ![r] = @ + 1]
  /\ UNCHANGED <<phase, op, obj, orig>>

(* validator.Validate(ctx, a, o): it fails on an object it does not       *)
(* accept, and a fallible plugin may fail on any; the first error ends    *)
(* chain.Validate and the request.                                        *)
ValidateCall(r) ==
  LET p == Chain[idx[r]] IN
  /\ phase[r] = "validate"
  /\ idx[r] \in Indices
  /\ Runs(idx[r], "validate", op[r])
  /\ calls' = [calls EXCEPT ![r] = Append(@, <<"validate", idx[r]>>)]
  /\ \/ /\ obj[r] \in Accepts[p][op[r]]
        /\ idx' = [idx EXCEPT ![r] = @ + 1]
        /\ UNCHANGED phase
     \/ /\ obj[r] \notin Accepts[p][op[r]] \/ p \in Fallible
        /\ phase' = [phase EXCEPT ![r] = "rejected"]
        /\ UNCHANGED idx
  /\ UNCHANGED <<op, obj, orig>>

(* chain.Validate returned nil: the request is admitted with its object.  *)
ValidateReturn(r) ==
  /\ phase[r] = "validate"
  /\ idx[r] = Len(Chain) + 1
  /\ phase' = [phase EXCEPT ![r] = "admitted"]
  /\ UNCHANGED <<idx, op, obj, orig, calls>>

-----------------------------------------------------------------------------
Init ==
  /\ phase = [r \in Requests |-> "none"]
  /\ idx = [r \in Requests |-> 1]
  /\ op = [r \in Requests |-> NoOp]
  /\ obj = [r \in Requests |-> NoObject]
  /\ orig = obj
  /\ calls = [r \in Requests |-> <<>>]

Next ==
  \E r \in Requests :
    \/ \E o \in Operations, x \in Objects : Receive(r, o, x)
    \/ Skip(r)
    \/ AdmitCall(r)
    \/ AdmitReturn(r)
    \/ ValidateCall(r)
    \/ ValidateReturn(r)

Spec == Init /\ [][Next]_vars

-----------------------------------------------------------------------------
(* The variables keep their types.                                        *)
TypeOK ==
  /\ phase \in [Requests -> Phases]
  /\ idx \in [Requests -> 1 .. Len(Chain) + 1]
  /\ op \in [Requests -> Operations]
  /\ obj \in [Requests -> Objects]
  /\ orig \in [Requests -> Objects]
  /\ calls \in [Requests -> Seq({"admit", "validate"} \X Indices)]

(* A call comes before another when it is of an earlier phase, or of the  *)
(* same phase at an earlier chain index.                                  *)
Before(c, d) ==
  \/ c[1] = "admit" /\ d[1] = "validate"
  \/ c[1] = d[1] /\ c[2] < d[2]

(* chain.go Admit and Validate: the plugins of a request are called in    *)
(* chain order, each at most once per phase, and every Admit call comes   *)
(* before every Validate call.                                            *)
CallsInChainOrder ==
  \A r \in Requests :
    \A j, k \in 1 .. Len(calls[r]) : j < k => Before(calls[r][j], calls[r][k])

(* The plugin calls chain.go owes a request with operation o, up to the  *)
(* position <<ph, i>> of the walk, excluded: Admit of each plugin that     *)
(* Handles o and is a MutationInterface, Validate of each that Handles o   *)
(* and is a ValidationInterface.                                           *)
OwedBefore(o, ph, i) ==
  {c \in {"admit", "validate"} \X Indices :
     /\ o \in HandledOps[Chain[c[2]]]
     /\ Chain[c[2]] \in (IF c[1] = "admit" THEN Mutators ELSE Validators)
     /\ Before(c, <<ph, i>>)}

(* chain.go: an admitted request was seen by every plugin that Handles    *)
(* its operation, Admit of each mutator and Validate of each validator,   *)
(* and by no other plugin: the operation filter and the capability check  *)
(* skipped nobody and let nobody through.                                 *)
AdmittedRanEveryHandler ==
  \A r \in Requests :
    phase[r] = "admitted" =>
      {calls[r][j] : j \in 1 .. Len(calls[r])}
        = OwedBefore(op[r], "validate", Len(Chain) + 1)

(* An admitted request's object is accepted by every validator that       *)
(* handles its operation: each Validate saw the object after the last     *)
(* mutation, so no mutator ran after a validator had checked it.          *)
AdmittedObjectValidated ==
  \A r \in Requests :
    phase[r] = "admitted" =>
      \A i \in Indices :
        op[r] \in HandledOps[Chain[i]] /\ Chain[i] \in Validators
          => obj[r] \in Accepts[Chain[i]][op[r]]

(* chainAdmissionHandler.Handles is what a caller asks before it builds   *)
(* the admission attributes, skipping the chain when it answers FALSE;    *)
(* that is sound only if a request whose operation the chain does not     *)
(* Handle would have been admitted by the chain untouched, with no plugin *)
(* called.                                                                *)
UnhandledPassesUntouched ==
  \A r \in Requests :
    phase[r] \in {"admitted", "rejected"} /\ ~Handles(op[r]) =>
      /\ phase[r] = "admitted"
      /\ calls[r] = <<>>
      /\ obj[r] = orig[r]

-----------------------------------------------------------------------------
(* The refinement mapping: a request between arrival and the end of       *)
(* Validate is pending; its abstract object is the one it came with until *)
(* it is admitted, and then the object the chain produced.                *)
Abs == INSTANCE AdmissionChainAbstract WITH
         status <- [r \in Requests |->
                      IF phase[r] \in {"admit", "validate"} THEN "pending"
                      ELSE phase[r]],
         aop <- op,
         aobj <- [r \in Requests |->
                    IF phase[r] = "admitted" THEN obj[r] ELSE orig[r]]

(* The step-by-step chain implements the atomic admission decision of     *)
(* AdmissionChainAbstract: every request ends admitted with the object    *)
(* the handling mutators produce in chain order and every validator       *)
(* accepts, or rejected for a reason the abstract decision allows.        *)
ImplementsAbstractChain == Abs!ASpec

=============================================================================
