--------------------- MODULE AdmissionChainRefinement ----------------------
(***************************************************************************)
(* The step-by-step chain of chain.go implements the atomic admission     *)
(* decision of AdmissionChainAbstract under the mapping Abs of            *)
(* AdmissionChain, for every chain and every set of plugins, objects and  *)
(* requests that satisfy ChainAssumption.                                 *)
(***************************************************************************)
EXTENDS AdmissionChainProofs

USE ChainAssumption

(* What a request's walk has computed so far: in Admit, the object is the *)
(* one the first idx - 1 plugins hand on from the original, none of their *)
(* Admits having failed on it; from Validate on, the same for the whole   *)
(* chain.                                                                 *)
RunInv(s) ==
  /\ phase[s] = "admit" =>
       \E t \in Abs!AdmitRuns(op[s], orig[s], idx[s] - 1) :
         t[idx[s] - 1] = obj[s] /\ Abs!AdmitOK(t, idx[s] - 1, op[s])
  /\ phase[s] \in {"validate", "admitted"} =>
       \E t \in Abs!AdmitRuns(op[s], orig[s], Len(Chain)) :
         t[Len(Chain)] = obj[s] /\ Abs!AdmitOK(t, Len(Chain), op[s])

RInv == IInv /\ \A s \in Requests : RunInv(s)


(* The run of Admit over the first m - 1 plugins extends by one plugin:   *)
(* the object plugin m hands on, and when it is a handling mutator whose  *)
(* Admit accepts the object it is handed, no Admit of the longer run has  *)
(* failed either.                                                         *)
LEMMA ExtendRun ==
  ASSUME NEW o \in Operations, NEW x \in Objects, NEW m \in 1 .. Len(Chain),
         NEW t \in Abs!AdmitRuns(o, x, m - 1),
         Abs!AdmitOK(t, m - 1, o),
         Abs!Calls(m, o, Mutators) => t[m - 1] \notin AdmitFails[Chain[m]][o]
  PROVE  \E u \in Abs!AdmitRuns(o, x, m) :
           /\ u[m] = IF Abs!Calls(m, o, Mutators)
                     THEN Mutate[Chain[m]][o][t[m - 1]] ELSE t[m - 1]
           /\ Abs!AdmitOK(u, m, o)
<1> DEFINE y == IF Abs!Calls(m, o, Mutators)
                THEN Mutate[Chain[m]][o][t[m - 1]] ELSE t[m - 1]
           u == [k \in 0 .. m |-> IF k < m THEN t[k] ELSE y]
<1>1. t \in [0 .. m - 1 -> Objects] /\ t[0] = x
      /\ \A k \in 1 .. m - 1 :
           t[k] = IF Abs!Calls(k, o, Mutators) THEN Mutate[Chain[k]][o][t[k - 1]]
                  ELSE t[k - 1]
  BY DEF Abs!AdmitRuns
<1>2. Chain[m] \in Plugins
  OBVIOUS
<1>3. y \in Objects
  BY <1>1, <1>2 DEF y
<1>4. u \in [0 .. m -> Objects] /\ u[0] = x /\ u[m] = y
  BY <1>1, <1>3 DEF u
<1>5. \A k \in 1 .. m :
        u[k] = IF Abs!Calls(k, o, Mutators) THEN Mutate[Chain[k]][o][u[k - 1]]
               ELSE u[k - 1]
  <2> SUFFICES ASSUME NEW k \in 1 .. m
               PROVE  u[k] = IF Abs!Calls(k, o, Mutators)
                             THEN Mutate[Chain[k]][o][u[k - 1]] ELSE u[k - 1]
    OBVIOUS
  <2>1. u[k - 1] = t[k - 1]
    BY DEF u
  <2>2. CASE k < m
    <3>1. u[k] = t[k] /\ k \in 1 .. m - 1
      BY <2>2 DEF u
    <3>. QED  BY <1>1, <2>1, <3>1
  <2>3. CASE k = m
    <3>1. u[k] = y
      BY <2>3 DEF u
    <3>. QED  BY <2>1, <2>3, <3>1 DEF y
  <2>4. k < m \/ k = m
    OBVIOUS
  <2>. QED  BY <2>2, <2>3, <2>4, Zenon
<1>6. u \in Abs!AdmitRuns(o, x, m)
  BY <1>4, <1>5 DEF Abs!AdmitRuns
<1>7. Abs!AdmitOK(u, m, o)
  <2>1. \A k \in 0 .. m - 1 : u[k] = t[k]
    BY DEF u
  <2>. QED
    BY <2>1 DEF Abs!AdmitOK
<1>. QED
  BY <1>4, <1>6, <1>7 DEF y

(* The Admit of the plugin at index i is called exactly when the abstract *)
(* decision counts it as a handling mutator, and likewise for Validate.   *)
LEMMA RunsCalls ==
  ASSUME NEW i, NEW o
  PROVE  /\ Runs(i, "admit", o) <=> Abs!Calls(i, o, Mutators)
         /\ Runs(i, "validate", o) <=> Abs!Calls(i, o, Validators)
BY DEF Runs, Capable, Abs!Calls

LEMMA RInvInit == Init => RInv
<1> SUFFICES ASSUME Init PROVE RInv
  OBVIOUS
<1>1. IInv
  BY IInvInit
<1>. QED
  BY <1>1 DEF Init, RInv, RunInv

(* Each action keeps RunInv of every request: another request's actions   *)
(* leave it alone; a step of Admit's walk extends the run by the plugin   *)
(* it passes, and the other steps do not change the object.               *)
LEMMA RInvStep == RInv /\ [Next]_vars => RInv'
<1> SUFFICES ASSUME RInv, [Next]_vars PROVE RInv'
  OBVIOUS
<1>1. TypeOK /\ IInv'
  BY IInvStep DEF RInv, IInv
<1>2. SUFFICES ASSUME NEW s \in Requests PROVE RunInv(s)'
  BY <1>1 DEF RInv
<1>3. RunInv(s)
  BY DEF RInv
<1>4. ASSUME phase'[s] = phase[s], idx'[s] = idx[s], op'[s] = op[s],
             obj'[s] = obj[s], orig'[s] = orig[s]
      PROVE  RunInv(s)'
  BY <1>3, <1>4 DEF RunInv
(* A step of Admit's walk at index idx[s] that hands on object y.          *)
<1>5. ASSUME phase[s] = "admit", idx[s] \in Indices,
             phase'[s] = "admit", idx'[s] = idx[s] + 1,
             op'[s] = op[s], orig'[s] = orig[s],
             obj'[s] = IF Abs!Calls(idx[s], op[s], Mutators)
                       THEN Mutate[Chain[idx[s]]][op[s]][obj[s]] ELSE obj[s],
             Abs!Calls(idx[s], op[s], Mutators)
               => obj[s] \notin AdmitFails[Chain[idx[s]]][op[s]]
      PROVE  RunInv(s)'
  <2>1. PICK t \in Abs!AdmitRuns(op[s], orig[s], idx[s] - 1) :
               t[idx[s] - 1] = obj[s] /\ Abs!AdmitOK(t, idx[s] - 1, op[s])
    BY <1>3, <1>5 DEF RunInv
  <2>2. op[s] \in Operations /\ orig[s] \in Objects /\ idx[s] \in 1 .. Len(Chain)
    BY <1>1, <1>5 DEF TypeOK, Indices
  <2>3. \E u \in Abs!AdmitRuns(op[s], orig[s], idx[s]) :
          u[idx[s]] = obj'[s] /\ Abs!AdmitOK(u, idx[s], op[s])
    <3>1. Abs!Calls(idx[s], op[s], Mutators)
            => t[idx[s] - 1] \notin AdmitFails[Chain[idx[s]]][op[s]]
      BY <1>5, <2>1
    <3>2. \E u \in Abs!AdmitRuns(op[s], orig[s], idx[s]) :
            /\ u[idx[s]] = IF Abs!Calls(idx[s], op[s], Mutators)
                           THEN Mutate[Chain[idx[s]]][op[s]][t[idx[s] - 1]]
                           ELSE t[idx[s] - 1]
            /\ Abs!AdmitOK(u, idx[s], op[s])
      BY <2>1, <2>2, <3>1, ExtendRun
    <3>3. obj'[s] = IF Abs!Calls(idx[s], op[s], Mutators)
                    THEN Mutate[Chain[idx[s]]][op[s]][t[idx[s] - 1]]
                    ELSE t[idx[s] - 1]
      BY <1>5, <2>1
    <3>. QED
      BY <3>2, <3>3
  <2>4. idx'[s] - 1 = idx[s] /\ phase'[s] = "admit"
        /\ op'[s] = op[s] /\ orig'[s] = orig[s]
    BY <1>5, <2>2
  <2>5. \E u \in Abs!AdmitRuns(op'[s], orig'[s], idx'[s] - 1) :
          u[idx'[s] - 1] = obj'[s] /\ Abs!AdmitOK(u, idx'[s] - 1, op'[s])
    BY <2>3, <2>4, Zenon
  <2>. QED
    BY <2>4, <2>5 DEF RunInv
<1>6. ASSUME NEW r \in Requests, NEW o \in Operations, NEW x \in Objects,
             Receive(r, o, x)
      PROVE  RunInv(s)'
  <2>1. CASE r = s
    <3>1. phase'[s] = "admit" /\ idx'[s] = 1 /\ obj'[s] = x /\ orig'[s] = x
          /\ op'[s] = o
      BY <1>1, <1>6, <2>1 DEF Receive, TypeOK
    <3>2. [k \in 0 .. 0 |-> x] \in Abs!AdmitRuns(o, x, 0)
          /\ Abs!AdmitOK([k \in 0 .. 0 |-> x], 0, o)
      BY DEF Abs!AdmitRuns, Abs!AdmitOK
    <3>. QED
      BY <3>1, <3>2 DEF RunInv
  <2>2. CASE r # s
    BY <1>1, <1>4, <1>6, <2>2 DEF Receive, TypeOK
  <2>. QED
    BY <2>1, <2>2
<1>7. ASSUME NEW r \in Requests, Skip(r) PROVE RunInv(s)'
  <2>1. CASE r = s /\ phase[s] = "admit"
    <3>1. idx[s] \in Indices /\ ~Abs!Calls(idx[s], op[s], Mutators)
      BY <1>7, <2>1, RunsCalls DEF Skip
    <3>2. phase'[s] = "admit" /\ idx'[s] = idx[s] + 1 /\ op'[s] = op[s]
          /\ orig'[s] = orig[s] /\ obj'[s] = obj[s]
      BY <1>1, <1>7, <2>1 DEF Skip, TypeOK
    <3>. QED
      BY <2>1, <3>1, <3>2, <1>5
  <2>2. CASE r = s /\ phase[s] # "admit"
    <3>1. phase'[s] = phase[s] /\ op'[s] = op[s]
          /\ orig'[s] = orig[s] /\ obj'[s] = obj[s]
      BY <1>1, <1>7, <2>2 DEF Skip, TypeOK
    <3>. QED
      BY <1>3, <2>2, <3>1 DEF RunInv
  <2>3. CASE r # s
    BY <1>1, <1>4, <1>7, <2>3 DEF Skip, TypeOK
  <2>. QED
    BY <2>1, <2>2, <2>3
<1>8. ASSUME NEW r \in Requests, AdmitCall(r) PROVE RunInv(s)'
  <2>1. CASE r = s /\ idx' = [idx EXCEPT ![r] = @ + 1] /\ UNCHANGED phase
    <3>1. phase[s] = "admit" /\ idx[s] \in Indices
          /\ Abs!Calls(idx[s], op[s], Mutators)
      BY <1>8, <2>1, RunsCalls DEF AdmitCall
    <3>2. /\ phase'[s] = "admit" /\ idx'[s] = idx[s] + 1
          /\ op'[s] = op[s] /\ orig'[s] = orig[s]
          /\ obj'[s] = Mutate[Chain[idx[s]]][op[s]][obj[s]]
          /\ obj[s] \notin AdmitFails[Chain[idx[s]]][op[s]]
      BY <1>1, <1>8, <2>1 DEF AdmitCall, TypeOK
    <3>. QED
      BY <3>1, <3>2, <1>5
  <2>2. CASE r = s /\ phase' = [phase EXCEPT ![r] = "rejected"]
    BY <1>1, <2>2 DEF RunInv, TypeOK
  <2>3. CASE r # s
    BY <1>1, <1>4, <1>8, <2>3 DEF AdmitCall, TypeOK
  <2>. QED
    BY <1>8, <2>1, <2>2, <2>3 DEF AdmitCall
<1>9. ASSUME NEW r \in Requests, AdmitReturn(r) PROVE RunInv(s)'
  <2>1. CASE r = s
    <3>1. phase[s] = "admit" /\ idx[s] = Len(Chain) + 1 /\ phase'[s] = "validate"
          /\ UNCHANGED <<op, obj, orig>>
      BY <1>1, <1>9, <2>1 DEF AdmitReturn, TypeOK
    <3>. QED
      BY <1>3, <3>1 DEF RunInv
  <2>2. CASE r # s
    BY <1>1, <1>4, <1>9, <2>2 DEF AdmitReturn, TypeOK
  <2>. QED
    BY <2>1, <2>2
<1>10. ASSUME NEW r \in Requests, ValidateCall(r) PROVE RunInv(s)'
  <2>1. CASE r = s
    <3>1. phase[s] = "validate" /\ phase'[s] \in {"validate", "rejected"}
          /\ UNCHANGED <<op, obj, orig>>
      BY <1>1, <1>10, <2>1 DEF ValidateCall, TypeOK
    <3>. QED
      BY <1>3, <3>1 DEF RunInv
  <2>2. CASE r # s
    BY <1>1, <1>4, <1>10, <2>2 DEF ValidateCall, TypeOK
  <2>. QED
    BY <2>1, <2>2
<1>11. ASSUME NEW r \in Requests, ValidateReturn(r) PROVE RunInv(s)'
  <2>1. CASE r = s
    <3>1. phase[s] = "validate" /\ phase'[s] = "admitted"
          /\ UNCHANGED <<op, obj, orig>>
      BY <1>1, <1>11, <2>1 DEF ValidateReturn, TypeOK
    <3>. QED
      BY <1>3, <3>1 DEF RunInv
  <2>2. CASE r # s
    BY <1>1, <1>4, <1>11, <2>2 DEF ValidateReturn, TypeOK
  <2>. QED
    BY <2>1, <2>2
<1>12. CASE UNCHANGED vars
  BY <1>4, <1>12 DEF vars
<1>. QED
  BY <1>6, <1>7, <1>8, <1>9, <1>10, <1>11, <1>12 DEF Next

-----------------------------------------------------------------------------
(* The initial state maps to the abstract initial state: every request    *)
(* none, with the same default operation and object.                      *)
LEMMA AbsInit == Init => Abs!AInit
BY DEF Init, Abs!AInit, NoOp, NoObject

(* A rejection in the middle of the walk at index idx[r] is one the       *)
(* abstract decision allows: the Admit that failed is a handling mutator  *)
(* handed the object of the run so far, the Validate that failed is a    *)
(* handling validator that does not accept the mutated object, or the     *)
(* failing plugin is fallible.                                            *)
LEMMA RejectAllowed ==
  ASSUME RInv, NEW r \in Requests,
         phase[r] \in {"admit", "validate"}, idx[r] \in Indices,
         Runs(idx[r], phase[r], op[r]),
         \/ phase[r] = "admit" /\ obj[r] \in AdmitFails[Chain[idx[r]]][op[r]]
         \/ phase[r] = "validate" /\ obj[r] \notin Accepts[Chain[idx[r]]][op[r]]
         \/ Chain[idx[r]] \in Fallible
  PROVE  \/ \E n \in 1 .. Len(Chain) : \E t \in Abs!AdmitRuns(op[r], orig[r], n - 1) :
              Abs!Calls(n, op[r], Mutators) /\ t[n - 1] \in AdmitFails[Chain[n]][op[r]]
         \/ \E t \in Abs!AdmitRuns(op[r], orig[r], Len(Chain)) :
              ~Abs!AllAccept(op[r], t[Len(Chain)])
         \/ Abs!MayFail(op[r])
<1>1. RunInv(r)
  BY DEF RInv
<1>2. CASE phase[r] = "admit" /\ obj[r] \in AdmitFails[Chain[idx[r]]][op[r]]
  <2>1. PICK t \in Abs!AdmitRuns(op[r], orig[r], idx[r] - 1) : t[idx[r] - 1] = obj[r]
    BY <1>1, <1>2 DEF RunInv
  <2>2. Abs!Calls(idx[r], op[r], Mutators)
    BY <1>2, RunsCalls
  <2>. QED
    BY <1>2, <2>1, <2>2 DEF Indices
<1>3. CASE phase[r] = "validate" /\ obj[r] \notin Accepts[Chain[idx[r]]][op[r]]
  <2>1. PICK t \in Abs!AdmitRuns(op[r], orig[r], Len(Chain)) : t[Len(Chain)] = obj[r]
    BY <1>1, <1>3 DEF RunInv
  <2>2. Abs!Calls(idx[r], op[r], Validators)
    BY <1>3, RunsCalls
  <2>. QED
    BY <1>3, <2>1, <2>2 DEF Abs!AllAccept, Indices
<1>4. CASE Chain[idx[r]] \in Fallible
  <2>1. Abs!Calls(idx[r], op[r], Mutators \cup Validators)
    BY RunsCalls DEF Abs!Calls, Runs, Capable
  <2>. QED
    BY <1>4, <2>1 DEF Abs!MayFail, Indices
<1>. QED
  BY <1>2, <1>3, <1>4

(* Every step of the chain is a step of the abstract decision or leaves   *)
(* the mapped state alone: arrival is AReceive, a rejection AReject, the  *)
(* end of Validate AAdmit, and every other step of the walk a stutter.    *)
LEMMA AbsStep == RInv /\ RInv' /\ [Next]_vars => [Abs!ANext]_Abs!avars
<1> SUFFICES ASSUME RInv, RInv', [Next]_vars PROVE [Abs!ANext]_Abs!avars
  OBVIOUS
<1>1. TypeOK /\ TypeOK'
  BY DEF RInv, IInv
<1>2. ASSUME NEW r \in Requests, NEW o \in Operations, NEW x \in Objects,
             Receive(r, o, x)
      PROVE  Abs!AReceive(r, o, x)
  BY <1>1, <1>2 DEF Receive, Abs!AReceive, TypeOK
<1>3. ASSUME NEW r \in Requests, Skip(r) PROVE UNCHANGED Abs!avars
  BY <1>1, <1>3 DEF Skip, Abs!avars, TypeOK
<1>4. ASSUME NEW r \in Requests, AdmitReturn(r) PROVE UNCHANGED Abs!avars
  BY <1>1, <1>4 DEF AdmitReturn, Abs!avars, TypeOK
(* A step that rejects request r in the middle of its walk.               *)
<1>5. ASSUME NEW r \in Requests, phase[r] \in {"admit", "validate"},
             idx[r] \in Indices, Runs(idx[r], phase[r], op[r]),
             \/ phase[r] = "admit" /\ obj[r] \in AdmitFails[Chain[idx[r]]][op[r]]
             \/ phase[r] = "validate" /\ obj[r] \notin Accepts[Chain[idx[r]]][op[r]]
             \/ Chain[idx[r]] \in Fallible,
             phase' = [phase EXCEPT ![r] = "rejected"],
             UNCHANGED <<op, obj, orig>>
      PROVE  Abs!AReject(r)
  BY <1>1, <1>5, RejectAllowed, Zenon DEF Abs!AReject, TypeOK
<1>6. ASSUME NEW r \in Requests, AdmitCall(r) PROVE [Abs!ANext]_Abs!avars
  <2>1. CASE idx' = [idx EXCEPT ![r] = @ + 1] /\ UNCHANGED phase
    BY <1>1, <1>6, <2>1 DEF AdmitCall, Abs!avars, TypeOK
  <2>2. CASE phase' = [phase EXCEPT ![r] = "rejected"] /\ UNCHANGED <<obj, idx>>
    <3>1. \/ obj[r] \in AdmitFails[Chain[idx[r]]][op[r]]
          \/ Chain[idx[r]] \in Fallible
      BY <1>6, <2>2, <1>1 DEF AdmitCall, TypeOK
    <3>2. Abs!AReject(r)
      BY <1>6, <2>2, <3>1, <1>5 DEF AdmitCall
    <3>. QED
      BY <3>2 DEF Abs!ANext
  <2>. QED
    BY <1>6, <2>1, <2>2 DEF AdmitCall
<1>7. ASSUME NEW r \in Requests, ValidateCall(r) PROVE [Abs!ANext]_Abs!avars
  <2>1. CASE idx' = [idx EXCEPT ![r] = @ + 1] /\ UNCHANGED phase
    BY <1>1, <1>7, <2>1 DEF ValidateCall, Abs!avars, TypeOK
  <2>2. CASE phase' = [phase EXCEPT ![r] = "rejected"] /\ UNCHANGED idx
    <3>1. \/ obj[r] \notin Accepts[Chain[idx[r]]][op[r]]
          \/ Chain[idx[r]] \in Fallible
      BY <1>7, <2>2, <1>1, Zenon DEF ValidateCall, TypeOK
    <3>2. Abs!AReject(r)
      BY <1>7, <2>2, <3>1, <1>5 DEF ValidateCall
    <3>. QED
      BY <3>2 DEF Abs!ANext
  <2>. QED
    BY <1>7, <2>1, <2>2 DEF ValidateCall
<1>8. ASSUME NEW r \in Requests, ValidateReturn(r) PROVE Abs!AAdmit(r)
  <2>1. phase[r] = "validate" /\ idx[r] = Len(Chain) + 1
    BY <1>8 DEF ValidateReturn
  <2>2. PICK t \in Abs!AdmitRuns(op[r], orig[r], Len(Chain)) :
               t[Len(Chain)] = obj[r] /\ Abs!AdmitOK(t, Len(Chain), op[r])
    BY <2>1 DEF RInv, RunInv
  <2>3. Abs!AllAccept(op[r], obj[r])
    <3>1. \A i \in 1 .. idx[r] - 1 : VCheck(r, i)
      BY <2>1 DEF RInv, IInv, ValidInv
    <3>. QED
      BY <2>1, <3>1 DEF VCheck, Abs!AllAccept, Abs!Calls
  <2> DEFINE AObj == [s \in Requests |->
                        IF phase[s] = "admitted" THEN obj[s] ELSE orig[s]]
             AStatus == [s \in Requests |->
                           IF phase[s] \in {"admit", "validate"} THEN "pending"
                           ELSE phase[s]]
  <2>4. AObj' = [AObj EXCEPT ![r] = t[Len(Chain)]]
    BY <1>1, <1>8, <2>1, <2>2 DEF ValidateReturn, TypeOK
  <2>5. AStatus' = [AStatus EXCEPT ![r] = "admitted"] /\ AStatus[r] = "pending"
    BY <1>1, <1>8, <2>1 DEF ValidateReturn, TypeOK
  <2>6. AObj[r] = orig[r] /\ op' = op
    BY <1>8, <2>1 DEF ValidateReturn
  <2>7. \E u \in Abs!AdmitRuns(op[r], AObj[r], Len(Chain)) :
          /\ Abs!AdmitOK(u, Len(Chain), op[r])
          /\ Abs!AllAccept(op[r], u[Len(Chain)])
          /\ AObj' = [AObj EXCEPT ![r] = u[Len(Chain)]]
    BY <2>2, <2>3, <2>4, <2>6
  <2>. QED
    BY <2>5, <2>6, <2>7 DEF Abs!AAdmit
<1>9. CASE UNCHANGED vars
  BY <1>9 DEF vars, Abs!avars
<1>. QED
  BY <1>2, <1>3, <1>4, <1>6, <1>7, <1>8, <1>9 DEF Next, Abs!ANext

(* chain.go as a whole: in every behaviour, for every chain and set of    *)
(* plugins, the step-by-step walks of Admit and Validate implement the    *)
(* atomic decision of AdmissionChainAbstract: a request is admitted with  *)
(* the object its handling mutators produce in chain order and every      *)
(* handling validator accepts, or rejected for a reason that decision     *)
(* allows.                                                                *)
THEOREM ChainRefinesAbstract == Spec => ImplementsAbstractChain
<1>1. Spec => []RInv
  BY RInvInit, RInvStep, PTL DEF Spec
<1>. QED
  BY <1>1, AbsInit, AbsStep, PTL DEF Spec, ImplementsAbstractChain, Abs!ASpec

=============================================================================
