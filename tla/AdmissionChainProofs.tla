------------------------ MODULE AdmissionChainProofs ------------------------
(***************************************************************************)
(* Proofs about the admission chain, for every chain, every set of        *)
(* plugins, objects and requests that satisfy ChainAssumption.            *)
(***************************************************************************)
EXTENDS AdmissionChain, TLAPS

USE ChainAssumption

(* Every action of the chain keeps the variables in their types.          *)
LEMMA TypeInit == Init => TypeOK
BY DEF Init, TypeOK, NoOp, NoObject, Phases

LEMMA TypeStep == TypeOK /\ [Next]_vars => TypeOK'
<1> SUFFICES ASSUME TypeOK, [Next]_vars PROVE TypeOK'
  OBVIOUS
<1>1. ASSUME NEW r \in Requests, NEW o \in Operations, NEW x \in Objects,
             Receive(r, o, x)
      PROVE  TypeOK'
  BY <1>1 DEF Receive, TypeOK, Phases
<1>2. ASSUME NEW r \in Requests, Skip(r) PROVE TypeOK'
  BY <1>2 DEF Skip, TypeOK, Indices
<1>3. ASSUME NEW r \in Requests, AdmitCall(r) PROVE TypeOK'
  <2>1. idx[r] \in Indices /\ Chain[idx[r]] \in Plugins
    BY <1>3 DEF AdmitCall, Indices
  <2>2. calls' \in [Requests -> Seq({"admit", "validate"} \X Indices)]
    BY <1>3, <2>1 DEF AdmitCall, TypeOK
  <2>3. obj' \in [Requests -> Objects] /\ idx' \in [Requests -> 1 .. Len(Chain) + 1]
        /\ phase' \in [Requests -> Phases]
    <3>1. CASE /\ obj' = [obj EXCEPT ![r] = Mutate[Chain[idx[r]]][op[r]][@]]
               /\ idx' = [idx EXCEPT ![r] = @ + 1]
               /\ UNCHANGED phase
      BY <3>1, <2>1 DEF TypeOK, Indices
    <3>2. CASE /\ phase' = [phase EXCEPT ![r] = "rejected"]
               /\ UNCHANGED <<obj, idx>>
      BY <3>2 DEF TypeOK, Phases
    <3>. QED
      BY <1>3, <3>1, <3>2 DEF AdmitCall
  <2>. QED
    BY <1>3, <2>2, <2>3 DEF AdmitCall, TypeOK
<1>4. ASSUME NEW r \in Requests, AdmitReturn(r) PROVE TypeOK'
  BY <1>4 DEF AdmitReturn, TypeOK, Phases
<1>5. ASSUME NEW r \in Requests, ValidateCall(r) PROVE TypeOK'
  <2>1. idx[r] \in Indices
    BY <1>5 DEF ValidateCall
  <2>2. calls' \in [Requests -> Seq({"admit", "validate"} \X Indices)]
    BY <1>5, <2>1 DEF ValidateCall, TypeOK
  <2>3. idx' \in [Requests -> 1 .. Len(Chain) + 1] /\ phase' \in [Requests -> Phases]
    <3>1. CASE idx' = [idx EXCEPT ![r] = @ + 1] /\ UNCHANGED phase
      BY <3>1, <2>1 DEF TypeOK, Indices
    <3>2. CASE phase' = [phase EXCEPT ![r] = "rejected"] /\ UNCHANGED idx
      BY <3>2 DEF TypeOK, Phases
    <3>. QED
      BY <1>5, <3>1, <3>2 DEF ValidateCall
  <2>. QED
    BY <1>5, <2>2, <2>3 DEF ValidateCall, TypeOK
<1>6. ASSUME NEW r \in Requests, ValidateReturn(r) PROVE TypeOK'
  BY <1>6 DEF ValidateReturn, TypeOK, Phases
<1>7. CASE UNCHANGED vars
  BY <1>7 DEF vars, TypeOK
<1>. QED
  BY <1>1, <1>2, <1>3, <1>4, <1>5, <1>6, <1>7 DEF Next

THEOREM TypeCorrect == Spec => []TypeOK
BY TypeInit, TypeStep, PTL DEF Spec

-----------------------------------------------------------------------------
(* The validator at chain index i has no complaint against request s's    *)
(* current object: it does not handle the operation, is no validator, or  *)
(* accepts the object.                                                    *)
VCheck(s, i) ==
  op[s] \in HandledOps[Chain[i]] /\ Chain[i] \in Validators
    => obj[s] \in Accepts[Chain[i]][op[s]]

(* AdmittedObjectValidated is not inductive by itself: while Validate     *)
(* walks the chain, the validators already passed accept the object, and  *)
(* nothing in the validate phase changes it.                               *)
ValidInv(s) ==
  /\ phase[s] = "validate" => \A i \in 1 .. idx[s] - 1 : VCheck(s, i)
  /\ phase[s] = "admitted" => \A i \in Indices : VCheck(s, i)

IInv == TypeOK /\ \A s \in Requests : ValidInv(s)

LEMMA IInvInit == Init => IInv
<1> SUFFICES ASSUME Init PROVE IInv
  OBVIOUS
<1>1. TypeOK
  BY TypeInit
<1>2. \A s \in Requests : phase[s] = "none"
  BY DEF Init
<1>. QED
  BY <1>1, <1>2 DEF IInv, ValidInv

(* Each action keeps ValidInv for every request: the actions of another   *)
(* request leave it alone, and of its own request only the validate steps *)
(* add a checked index, after the validator accepted the object.          *)
LEMMA IInvStep == IInv /\ [Next]_vars => IInv'
<1> SUFFICES ASSUME IInv, [Next]_vars PROVE IInv'
  OBVIOUS
<1>1. TypeOK'
  BY TypeStep DEF IInv
<1>2. SUFFICES ASSUME NEW s \in Requests PROVE ValidInv(s)'
  BY <1>1 DEF IInv
<1>3. TypeOK /\ ValidInv(s)
  BY DEF IInv
<1>4. ASSUME NEW r \in Requests, NEW o \in Operations, NEW x \in Objects,
             Receive(r, o, x)
      PROVE  ValidInv(s)'
  BY <1>3, <1>4 DEF Receive, ValidInv, VCheck, TypeOK
<1>5. ASSUME NEW r \in Requests, Skip(r) PROVE ValidInv(s)'
  <2>1. CASE r = s
    <3>1. phase[s] = "validate" => \A i \in {idx[s]} : VCheck(s, i)
      BY <1>5, <2>1 DEF Skip, Runs, Capable, VCheck
    <3>. QED
      BY <1>3, <1>5, <2>1, <3>1 DEF Skip, ValidInv, VCheck, TypeOK, Indices
  <2>2. CASE r # s
    BY <1>3, <1>5, <2>2 DEF Skip, ValidInv, VCheck, TypeOK
  <2>. QED
    BY <2>1, <2>2
<1>6. ASSUME NEW r \in Requests, AdmitCall(r) PROVE ValidInv(s)'
  <2>1. phase'[r] \in {"admit", "rejected"}
    BY <1>3, <1>6 DEF AdmitCall, TypeOK
  <2>2. CASE r = s
    BY <2>1, <2>2 DEF ValidInv
  <2>3. CASE r # s
    BY <1>3, <1>6, <2>3, Zenon DEF AdmitCall, ValidInv, VCheck, TypeOK
  <2>. QED
    BY <2>2, <2>3
<1>7. ASSUME NEW r \in Requests, AdmitReturn(r) PROVE ValidInv(s)'
  BY <1>3, <1>7 DEF AdmitReturn, ValidInv, VCheck, TypeOK
<1>8. ASSUME NEW r \in Requests, ValidateCall(r) PROVE ValidInv(s)'
  <2>1. CASE r = s /\ idx' = [idx EXCEPT ![r] = @ + 1] /\ UNCHANGED phase
    <3>0. phase'[r] = "validate"
      BY <1>8, <2>1 DEF ValidateCall
    <3>1. obj[r] \in Accepts[Chain[idx[r]]][op[r]]
      <4>1. phase' # [phase EXCEPT ![r] = "rejected"]
        BY <3>0, <1>3 DEF TypeOK
      <4>. QED
        BY <1>8, <4>1, Zenon DEF ValidateCall
    <3>2. \A i \in {idx[s]} : VCheck(s, i)'
      BY <1>8, <2>1, <3>1 DEF ValidateCall, VCheck
    <3>. QED
      BY <1>3, <1>8, <2>1, <3>2 DEF ValidateCall, ValidInv, VCheck, TypeOK, Indices
  <2>2. CASE r = s /\ phase' = [phase EXCEPT ![r] = "rejected"] /\ UNCHANGED idx
    BY <1>3, <2>2 DEF ValidInv, TypeOK
  <2>3. CASE r # s
    BY <1>3, <1>8, <2>3 DEF ValidateCall, ValidInv, VCheck, TypeOK
  <2>. QED
    BY <1>8, <2>1, <2>2, <2>3 DEF ValidateCall
<1>9. ASSUME NEW r \in Requests, ValidateReturn(r) PROVE ValidInv(s)'
  BY <1>3, <1>9 DEF ValidateReturn, ValidInv, VCheck, TypeOK, Indices
<1>10. CASE UNCHANGED vars
  BY <1>3, <1>10 DEF vars, ValidInv, VCheck
<1>. QED
  BY <1>4, <1>5, <1>6, <1>7, <1>8, <1>9, <1>10 DEF Next

(* The object of an admitted request is accepted by every validator that  *)
(* handles its operation, in every behaviour of the chain, whatever the   *)
(* chain, its plugins and the number of requests.                         *)
THEOREM AdmittedObjectValidatedHolds == Spec => []AdmittedObjectValidated
<1>1. IInv => AdmittedObjectValidated
  BY DEF IInv, ValidInv, VCheck, AdmittedObjectValidated
<1>. QED
  BY <1>1, IInvInit, IInvStep, PTL DEF Spec

-----------------------------------------------------------------------------
(* The elements of a sequence of calls, and the calls made for request s, *)
(* as sets.                                                               *)
Called(q) == {q[j] : j \in 1 .. Len(q)}

CallSet(s) == Called(calls[s])

(* The three properties of chain.go's loops rest on one fact: the calls   *)
(* a request has had are exactly those its walk owes it up to where the   *)
(* walk is, and a request the chain does not Handle is never rejected and *)
(* keeps its object.                                                      *)
WalkInv(s) ==
  /\ \A j, k \in 1 .. Len(calls[s]) :
       j < k => Before(calls[s][j], calls[s][k])
  /\ phase[s] = "none" => calls[s] = <<>>
  /\ phase[s] \in {"admit", "validate"} =>
       CallSet(s) = OwedBefore(op[s], phase[s], idx[s])
  /\ phase[s] = "admitted" =>
       CallSet(s) = OwedBefore(op[s], "validate", Len(Chain) + 1)
  /\ phase[s] # "none" /\ ~Handles(op[s]) =>
       phase[s] # "rejected" /\ obj[s] = orig[s]

WInv == TypeOK /\ \A s \in Requests : WalkInv(s)

(* Appending a call adds it to the set of calls.                          *)
LEMMA AppendCallSet ==
  ASSUME NEW q \in Seq({"admit", "validate"} \X Indices),
         NEW e \in {"admit", "validate"} \X Indices
  PROVE  Called(Append(q, e)) = Called(q) \cup {e}
<1>1. \A j \in 1 .. Len(q) : Append(q, e)[j] = q[j]
  OBVIOUS
<1>2. Append(q, e)[Len(q) + 1] = e
  OBVIOUS
<1>. QED
  BY <1>1, <1>2 DEF Called

(* One more iteration of the walk owes the call at the index it passed,   *)
(* if that plugin runs.                                                   *)
LEMMA OwedStep ==
  ASSUME NEW o, NEW ph \in {"admit", "validate"}, NEW i \in Indices
  PROVE  OwedBefore(o, ph, i + 1)
           = OwedBefore(o, ph, i) \cup (IF Runs(i, ph, o) THEN {<<ph, i>>} ELSE {})
BY DEF OwedBefore, Before, Runs, Capable, Indices

(* Where Admit's walk ends, Validate's begins: everything Admit owes and  *)
(* nothing of Validate.                                                   *)
LEMMA OwedSwitch ==
  ASSUME NEW o
  PROVE  OwedBefore(o, "admit", Len(Chain) + 1) = OwedBefore(o, "validate", 1)
BY DEF OwedBefore, Before, Indices

(* Nothing is owed before the first index of Admit.                       *)
LEMMA OwedStart ==
  ASSUME NEW o PROVE OwedBefore(o, "admit", 1) = {}
BY DEF OwedBefore, Before, Indices

(* A request whose operation the chain does not Handle is owed nothing.   *)
LEMMA OwedUnhandled ==
  ASSUME NEW o, ~Handles(o), NEW ph, NEW i
  PROVE  OwedBefore(o, ph, i) = {}
BY DEF OwedBefore, Handles, Indices

LEMMA WInvInit == Init => WInv
<1> SUFFICES ASSUME Init PROVE WInv
  OBVIOUS
<1>1. TypeOK
  BY TypeInit
<1>. QED
  BY <1>1 DEF Init, WInv, WalkInv

(* Each action keeps WalkInv of every request: another request's actions  *)
(* leave it alone; of its own, a step that passes index i adds the call   *)
(* <<phase, i>> exactly when that plugin runs, and it comes after every   *)
(* earlier call, all of them owed before i.                               *)
LEMMA WInvStep == WInv /\ [Next]_vars => WInv'
<1> SUFFICES ASSUME WInv, [Next]_vars PROVE WInv'
  OBVIOUS
<1>1. TypeOK /\ TypeOK'
  BY TypeStep DEF WInv
<1>2. SUFFICES ASSUME NEW s \in Requests PROVE WalkInv(s)'
  BY <1>1 DEF WInv
<1>3. WalkInv(s)
  BY DEF WInv
<1>4. ASSUME phase'[s] = phase[s], idx'[s] = idx[s], op'[s] = op[s],
             obj'[s] = obj[s], orig'[s] = orig[s], calls'[s] = calls[s]
      PROVE  WalkInv(s)'
  BY <1>3, <1>4 DEF WalkInv, CallSet
(* A call appended at the walk's position comes after every earlier one.  *)
<1>5. ASSUME NEW ph \in {"admit", "validate"}, phase[s] = ph,
             calls'[s] = Append(calls[s], <<ph, idx[s]>>)
      PROVE  \A j, k \in 1 .. Len(calls'[s]) :
               j < k => Before(calls'[s][j], calls'[s][k])
  <2>1. calls[s] \in Seq({"admit", "validate"} \X Indices)
    BY <1>1 DEF TypeOK
  <2>2. \A j \in 1 .. Len(calls[s]) : Before(calls[s][j], <<ph, idx[s]>>)
    <3>1. CallSet(s) = OwedBefore(op[s], ph, idx[s])
      BY <1>3, <1>5 DEF WalkInv
    <3>2. \A j \in 1 .. Len(calls[s]) : calls[s][j] \in CallSet(s)
      BY DEF CallSet, Called
    <3>. QED
      BY <3>1, <3>2 DEF OwedBefore
  <2>3. \A j, k \in 1 .. Len(calls[s]) : j < k => Before(calls[s][j], calls[s][k])
    BY <1>3 DEF WalkInv
  <2>4. <<ph, idx[s]>> \in {"admit", "validate"} \X Indices
    BY <1>1, <1>5 DEF TypeOK, Indices
  <2>5. /\ Len(calls'[s]) = Len(calls[s]) + 1
        /\ \A j \in 1 .. Len(calls[s]) : calls'[s][j] = calls[s][j]
        /\ calls'[s][Len(calls[s]) + 1] = <<ph, idx[s]>>
    BY <1>5, <2>1, <2>4
  <2>6. SUFFICES ASSUME NEW j \in 1 .. Len(calls'[s]), NEW k \in 1 .. Len(calls'[s]),
                       j < k
                PROVE  Before(calls'[s][j], calls'[s][k])
    OBVIOUS
  <2>0. Len(calls[s]) \in Nat
    BY <2>1
  <2>7. CASE k <= Len(calls[s])
    <3>1. j \in 1 .. Len(calls[s]) /\ k \in 1 .. Len(calls[s])
      BY <2>0, <2>5, <2>6, <2>7
    <3>2. calls'[s][j] = calls[s][j] /\ calls'[s][k] = calls[s][k]
      BY <2>5, <3>1
    <3>. QED
      BY <2>3, <2>6, <3>1, <3>2
  <2>8. CASE k = Len(calls[s]) + 1
    <3>1. j \in 1 .. Len(calls[s])
      BY <2>0, <2>5, <2>6, <2>8
    <3>2. calls'[s][j] = calls[s][j] /\ calls'[s][k] = <<ph, idx[s]>>
      BY <2>5, <2>8, <3>1
    <3>. QED
      BY <2>2, <3>1, <3>2
  <2>. QED
    BY <2>1, <2>5, <2>6, <2>7, <2>8
<1>6. ASSUME NEW r \in Requests, NEW o \in Operations, NEW x \in Objects,
             Receive(r, o, x)
      PROVE  WalkInv(s)'
  <2>1. CASE r = s
    <3>1. calls'[s] = <<>> /\ phase'[s] = "admit" /\ idx'[s] = 1
          /\ obj'[s] = orig'[s]
      BY <1>1, <1>3, <1>6, <2>1 DEF Receive, WalkInv, TypeOK
    <3>2. OwedBefore(op'[s], "admit", 1) = {}
      BY OwedStart
    <3>. QED
      BY <3>1, <3>2 DEF WalkInv, CallSet, Called
  <2>2. CASE r # s
    BY <1>1, <1>4, <1>6, <2>2 DEF Receive, TypeOK
  <2>. QED
    BY <2>1, <2>2
<1>7. ASSUME NEW r \in Requests, Skip(r) PROVE WalkInv(s)'
  <2>1. CASE r = s
    <3>1. idx[s] \in Indices /\ phase[s] \in {"admit", "validate"}
          /\ ~Runs(idx[s], phase[s], op[s])
      BY <1>7, <2>1 DEF Skip
    <3>2. OwedBefore(op[s], phase[s], idx[s] + 1) = OwedBefore(op[s], phase[s], idx[s])
      <4>1. OwedBefore(op[s], phase[s], idx[s] + 1)
              = OwedBefore(op[s], phase[s], idx[s])
                  \cup (IF Runs(idx[s], phase[s], op[s]) THEN {<<phase[s], idx[s]>>} ELSE {})
        <5>1. phase[s] \in {"admit", "validate"} /\ idx[s] \in Indices
          BY <3>1
        <5>2. \A ph \in {"admit", "validate"}, i \in Indices :
                OwedBefore(op[s], ph, i + 1)
                  = OwedBefore(op[s], ph, i)
                      \cup (IF Runs(i, ph, op[s]) THEN {<<ph, i>>} ELSE {})
          BY OwedStep, Zenon
        <5>. QED
          BY <5>1, <5>2, Zenon
      <4>. QED
        BY <3>1, <4>1
    <3>3. idx'[s] = idx[s] + 1 /\ UNCHANGED <<phase, op, obj, orig, calls>>
      BY <1>1, <1>7, <2>1 DEF Skip, TypeOK
    <3>4. CallSet(s)' = OwedBefore(op'[s], phase'[s], idx'[s])
      BY <1>3, <3>1, <3>2, <3>3 DEF WalkInv, CallSet
    <3>5. /\ \A j, k \in 1 .. Len(calls'[s]) :
               j < k => Before(calls'[s][j], calls'[s][k])
          /\ phase'[s] # "none" /\ ~Handles(op'[s]) =>
               phase'[s] # "rejected" /\ obj'[s] = orig'[s]
      BY <1>3, <3>3 DEF WalkInv
    <3>. QED
      BY <3>1, <3>3, <3>4, <3>5, Zenon DEF WalkInv
  <2>2. CASE r # s
    BY <1>1, <1>4, <1>7, <2>2 DEF Skip, TypeOK
  <2>. QED
    BY <2>1, <2>2
<1>8. ASSUME NEW r \in Requests, AdmitCall(r) PROVE WalkInv(s)'
  <2>1. CASE r = s
    <3>1. idx[s] \in Indices /\ phase[s] = "admit" /\ Runs(idx[s], "admit", op[s])
      BY <1>8, <2>1 DEF AdmitCall
    <3>2. Handles(op[s])
      BY <3>1 DEF Runs, Handles
    <3>3. /\ calls'[s] = Append(calls[s], <<"admit", idx[s]>>)
          /\ op'[s] = op[s] /\ orig'[s] = orig[s]
      BY <1>1, <1>8, <2>1 DEF AdmitCall, TypeOK
    <3>4. CallSet(s)' = CallSet(s) \cup {<<"admit", idx[s]>>}
      <4>1. calls[s] \in Seq({"admit", "validate"} \X Indices)
            /\ <<"admit", idx[s]>> \in {"admit", "validate"} \X Indices
        BY <1>1, <3>1 DEF TypeOK
      <4>2. Called(calls'[s]) = Called(calls[s]) \cup {<<"admit", idx[s]>>}
        <5>1. \A q \in Seq({"admit", "validate"} \X Indices),
                 e \in {"admit", "validate"} \X Indices :
                Called(Append(q, e)) = Called(q) \cup {e}
          BY AppendCallSet, Zenon
        <5>2. Called(Append(calls[s], <<"admit", idx[s]>>))
                = Called(calls[s]) \cup {<<"admit", idx[s]>>}
          BY <4>1, <5>1, Zenon
        <5>. QED
          BY <3>3, <5>2
      <4>. QED
        BY <4>2 DEF CallSet
    <3>5. (\A j, k \in 1 .. Len(calls[s]) :
             j < k => Before(calls[s][j], calls[s][k]))'
      BY <3>1, <3>3, <1>5
    <3>6. CASE idx' = [idx EXCEPT ![r] = @ + 1] /\ UNCHANGED phase
      <4>1. CallSet(s)' = OwedBefore(op'[s], phase'[s], idx'[s])
        <5>1. OwedBefore(op[s], "admit", idx[s] + 1)
                = OwedBefore(op[s], "admit", idx[s]) \cup {<<"admit", idx[s]>>}
          BY <3>1, OwedStep, Zenon
        <5>. QED
          BY <1>1, <1>3, <2>1, <3>1, <3>3, <3>4, <3>6, <5>1 DEF WalkInv, TypeOK
      <4>. QED
        BY <1>1, <2>1, <3>1, <3>2, <3>3, <3>5, <3>6, <4>1 DEF WalkInv, TypeOK
    <3>7. CASE phase' = [phase EXCEPT ![r] = "rejected"]
      BY <1>1, <2>1, <3>2, <3>3, <3>5, <3>7 DEF WalkInv, TypeOK
    <3>. QED
      BY <1>8, <3>6, <3>7 DEF AdmitCall
  <2>2. CASE r # s
    BY <1>1, <1>4, <1>8, <2>2 DEF AdmitCall, TypeOK
  <2>. QED
    BY <2>1, <2>2
<1>9. ASSUME NEW r \in Requests, AdmitReturn(r) PROVE WalkInv(s)'
  <2>1. CASE r = s
    <3>1. phase[s] = "admit" /\ idx[s] = Len(Chain) + 1
          /\ phase'[s] = "validate" /\ idx'[s] = 1
          /\ UNCHANGED <<op, obj, orig, calls>>
      BY <1>1, <1>9, <2>1 DEF AdmitReturn, TypeOK
    <3>2. OwedBefore(op[s], "admit", Len(Chain) + 1) = OwedBefore(op[s], "validate", 1)
      BY OwedSwitch
    <3>. QED
      BY <1>3, <3>1, <3>2 DEF WalkInv, CallSet
  <2>2. CASE r # s
    BY <1>1, <1>4, <1>9, <2>2 DEF AdmitReturn, TypeOK
  <2>. QED
    BY <2>1, <2>2
<1>10. ASSUME NEW r \in Requests, ValidateCall(r) PROVE WalkInv(s)'
  <2>1. CASE r = s
    <3>1. idx[s] \in Indices /\ phase[s] = "validate"
          /\ Runs(idx[s], "validate", op[s])
      BY <1>10, <2>1 DEF ValidateCall
    <3>2. Handles(op[s])
      BY <3>1 DEF Runs, Handles
    <3>3. /\ calls'[s] = Append(calls[s], <<"validate", idx[s]>>)
          /\ op'[s] = op[s] /\ orig'[s] = orig[s] /\ obj'[s] = obj[s]
      BY <1>1, <1>10, <2>1 DEF ValidateCall, TypeOK
    <3>4. CallSet(s)' = CallSet(s) \cup {<<"validate", idx[s]>>}
      <4>1. calls[s] \in Seq({"admit", "validate"} \X Indices)
            /\ <<"validate", idx[s]>> \in {"admit", "validate"} \X Indices
        BY <1>1, <3>1 DEF TypeOK
      <4>2. Called(calls'[s]) = Called(calls[s]) \cup {<<"validate", idx[s]>>}
        <5>1. \A q \in Seq({"admit", "validate"} \X Indices),
                 e \in {"admit", "validate"} \X Indices :
                Called(Append(q, e)) = Called(q) \cup {e}
          BY AppendCallSet, Zenon
        <5>2. Called(Append(calls[s], <<"validate", idx[s]>>))
                = Called(calls[s]) \cup {<<"validate", idx[s]>>}
          BY <4>1, <5>1, Zenon
        <5>. QED
          BY <3>3, <5>2
      <4>. QED
        BY <4>2 DEF CallSet
    <3>5. (\A j, k \in 1 .. Len(calls[s]) :
             j < k => Before(calls[s][j], calls[s][k]))'
      BY <3>1, <3>3, <1>5
    <3>6. CASE idx' = [idx EXCEPT ![r] = @ + 1] /\ UNCHANGED phase
      <4>1. CallSet(s)' = OwedBefore(op'[s], phase'[s], idx'[s])
        <5>1. OwedBefore(op[s], "validate", idx[s] + 1)
                = OwedBefore(op[s], "validate", idx[s]) \cup {<<"validate", idx[s]>>}
          BY <3>1, OwedStep, Zenon
        <5>. QED
          BY <1>1, <1>3, <2>1, <3>1, <3>3, <3>4, <3>6, <5>1 DEF WalkInv, TypeOK
      <4>. QED
        BY <1>1, <2>1, <3>1, <3>2, <3>3, <3>5, <3>6, <4>1 DEF WalkInv, TypeOK
    <3>7. CASE phase' = [phase EXCEPT ![r] = "rejected"]
      BY <1>1, <2>1, <3>2, <3>3, <3>5, <3>7 DEF WalkInv, TypeOK
    <3>. QED
      BY <1>10, <3>6, <3>7 DEF ValidateCall
  <2>2. CASE r # s
    BY <1>1, <1>4, <1>10, <2>2 DEF ValidateCall, TypeOK
  <2>. QED
    BY <2>1, <2>2
<1>11. ASSUME NEW r \in Requests, ValidateReturn(r) PROVE WalkInv(s)'
  <2>1. CASE r = s
    <3>1. phase[s] = "validate" /\ idx[s] = Len(Chain) + 1
          /\ phase'[s] = "admitted"
          /\ UNCHANGED <<idx, op, obj, orig, calls>>
      BY <1>1, <1>11, <2>1 DEF ValidateReturn, TypeOK
    <3>. QED
      BY <1>3, <3>1 DEF WalkInv, CallSet
  <2>2. CASE r # s
    BY <1>1, <1>4, <1>11, <2>2 DEF ValidateReturn, TypeOK
  <2>. QED
    BY <2>1, <2>2
<1>12. CASE UNCHANGED vars
  BY <1>4, <1>12 DEF vars
<1>. QED
  BY <1>6, <1>7, <1>8, <1>9, <1>10, <1>11, <1>12 DEF Next

(* chain.go Admit and Validate: in every behaviour, for every chain, a    *)
(* request's plugins are called in chain order, each at most once per     *)
(* phase, and every Admit call before every Validate call.                *)
THEOREM CallsInChainOrderHolds == Spec => []CallsInChainOrder
<1>1. WInv => CallsInChainOrder
  BY DEF WInv, WalkInv, CallsInChainOrder
<1>. QED
  BY <1>1, WInvInit, WInvStep, PTL DEF Spec

(* chain.go: in every behaviour, an admitted request was seen by exactly  *)
(* the plugins that Handle its operation, Admit of each mutator and       *)
(* Validate of each validator.                                            *)
THEOREM AdmittedRanEveryHandlerHolds == Spec => []AdmittedRanEveryHandler
<1>1. WInv => AdmittedRanEveryHandler
  BY DEF WInv, WalkInv, CallSet, Called, AdmittedRanEveryHandler
<1>. QED
  BY <1>1, WInvInit, WInvStep, PTL DEF Spec

(* chainAdmissionHandler.Handles: in every behaviour, a request whose     *)
(* operation no plugin Handles is admitted untouched, with no plugin      *)
(* called, so a caller may skip the chain when Handles answers FALSE.     *)
THEOREM UnhandledPassesUntouchedHolds == Spec => []UnhandledPassesUntouched
<1>1. WInv => UnhandledPassesUntouched
  <2> SUFFICES ASSUME WInv, NEW r \in Requests,
                      phase[r] \in {"admitted", "rejected"}, ~Handles(op[r])
               PROVE  phase[r] = "admitted" /\ calls[r] = <<>> /\ obj[r] = orig[r]
    BY DEF UnhandledPassesUntouched
  <2>1. phase[r] = "admitted" /\ obj[r] = orig[r]
    BY DEF WInv, WalkInv
  <2>2. CallSet(r) = {}
    BY <2>1, OwedUnhandled DEF WInv, WalkInv
  <2>3. calls[r] \in Seq({"admit", "validate"} \X Indices)
    BY DEF WInv, TypeOK
  <2>4. Len(calls[r]) = 0
    <3>1. ASSUME Len(calls[r]) > 0 PROVE FALSE
      <4>1. 1 \in 1 .. Len(calls[r])
        BY <2>3, <3>1
      <4>2. calls[r][1] \in CallSet(r)
        BY <4>1 DEF CallSet, Called
      <4>. QED
        BY <2>2, <4>2
    <3>. QED
      BY <2>2, <2>3, <3>1
  <2>. QED
    BY <2>1, <2>3, <2>4
<1>. QED
  BY <1>1, WInvInit, WInvStep, PTL DEF Spec

=============================================================================
