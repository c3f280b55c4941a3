----------------------- MODULE AdmissionChainAbstract -----------------------
(***************************************************************************)
(* What the admission chain promises a request, as one atomic decision:   *)
(* a request is admitted with the object every handling mutator's Admit   *)
(* produces, in chain order, from the object it came with, and only when  *)
(* every handling validator accepts that object; it is rejected when some *)
(* validator would not accept it, when some mutator's Admit fails on the  *)
(* object it is handed, or when some plugin it passes through can fail on *)
(* its own.                                                               *)
(***************************************************************************)
EXTENDS Naturals, Sequences

CONSTANTS Plugins, Operations, Chain, HandledOps, Mutators, Validators,
          Objects, Mutate, AdmitFails, Accepts, Fallible, Requests

VARIABLES status, aop, aobj

avars == <<status, aop, aobj>>

Calls(i, o, cap) == o \in HandledOps[Chain[i]] /\ Chain[i] \in cap

(* The runs of Admit over the first n plugins from object x: t[k] is the  *)
(* object plugin k hands on, the result of its Admit when it is a mutator *)
(* handling o, else the object it was handed.  Mutate being a function,   *)
(* there is exactly one such run for every n.                             *)
AdmitRuns(o, x, n) ==
  {t \in [0 .. n -> Objects] :
     /\ t[0] = x
     /\ \A k \in 1 .. n :
          t[k] = IF Calls(k, o, Mutators) THEN Mutate[Chain[k]][o][t[k - 1]]
                 ELSE t[k - 1]}

(* No handling mutator among the first n fails on the object it is handed. *)
AdmitOK(t, n, o) ==
  \A k \in 1 .. n :
    Calls(k, o, Mutators) => t[k - 1] \notin AdmitFails[Chain[k]][o]

AllAccept(o, x) ==
  \A i \in 1 .. Len(Chain) : Calls(i, o, Validators) => x \in Accepts[Chain[i]][o]

MayFail(o) == \E i \in 1 .. Len(Chain) :
                Calls(i, o, Mutators \cup Validators) /\ Chain[i] \in Fallible

AInit ==
  /\ status = [r \in Requests |-> "none"]
  /\ aop = [r \in Requests |-> CHOOSE o \in Operations : TRUE]
  /\ aobj = [r \in Requests |-> CHOOSE x \in Objects : TRUE]

AReceive(r, o, x) ==
  /\ status[r] = "none"
  /\ status' = [status EXCEPT ![r] = "pending"]
  /\ aop' = [aop EXCEPT ![r] = o]
  /\ aobj' = [aobj EXCEPT ![r] = x]

AAdmit(r) ==
  /\ status[r] = "pending"
  /\ \E t \in AdmitRuns(aop[r], aobj[r], Len(Chain)) :
       /\ AdmitOK(t, Len(Chain), aop[r])
       /\ AllAccept(aop[r], t[Len(Chain)])
       /\ aobj' = [aobj EXCEPT ![r] = t[Len(Chain)]]
  /\ status' = [status EXCEPT ![r] = "admitted"]
  /\ UNCHANGED aop

(* Rejected: the n-th plugin is a handling mutator whose Admit fails on    *)
(* the object the first n - 1 hand it, or a handling validator does not    *)
(* accept the mutated object, or a fallible plugin is on the way.          *)
AReject(r) ==
  /\ status[r] = "pending"
  /\ \/ \E n \in 1 .. Len(Chain) : \E t \in AdmitRuns(aop[r], aobj[r], n - 1) :
          Calls(n, aop[r], Mutators) /\ t[n - 1] \in AdmitFails[Chain[n]][aop[r]]
     \/ \E t \in AdmitRuns(aop[r], aobj[r], Len(Chain)) :
          ~AllAccept(aop[r], t[Len(Chain)])
     \/ MayFail(aop[r])
  /\ status' = [status EXCEPT ![r] = "rejected"]
  /\ UNCHANGED <<aop, aobj>>

ANext ==
  \E r \in Requests :
    \/ \E o \in Operations, x \in Objects : AReceive(r, o, x)
    \/ AAdmit(r)
    \/ AReject(r)

ASpec == AInit /\ [][ANext]_avars

=============================================================================
