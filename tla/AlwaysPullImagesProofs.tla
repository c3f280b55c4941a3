------------------------ MODULE AlwaysPullImagesProofs ------------------------
(***************************************************************************)
(* Proofs about AlwaysPullImages: lemmas about its Admit and Validate for  *)
(* any container slots, images and pull policies, and the two properties   *)
(* of MCAlwaysPullImages for every chain with AlwaysPullImages in front    *)
(* (PullImagesFront), whatever plugins follow it, and any requests.        *)
(***************************************************************************)
EXTENDS MCAlwaysPullImages, AdmissionChainProofs, TLAPS

USE PullImagesAssumption

(* The pod Admit builds for a pod it handles: every visited container      *)
(* pulls always, the other slots stay empty.                               *)
AdmittedPod(pod) ==
  [s \in Slots |-> IF s \in Used(pod)
                   THEN [pod[s] EXCEPT !.policy = PullAlways] ELSE pod[s]]

(* Setting the pull policy keeps the visited containers and their images, *)
(* and they all pull always.                                               *)
LEMMA AdmittedPodShape ==
  ASSUME NEW pod \in Pods
  PROVE  /\ AdmittedPod(pod) \in Pods
         /\ Used(AdmittedPod(pod)) = Used(pod)
         /\ ImagesOf(AdmittedPod(pod)) = ImagesOf(pod)
         /\ \A s \in Used(pod) : AdmittedPod(pod)[s].policy = PullAlways
<1> DEFINE q == AdmittedPod(pod)
<1>1. \A s \in Used(pod) :
        q[s] = [image |-> pod[s].image, policy |-> PullAlways]
        /\ q[s] \in Containers /\ q[s] # NoContainer
        /\ q[s].image = pod[s].image /\ q[s].policy = PullAlways
  <2> SUFFICES ASSUME NEW s \in Used(pod)
               PROVE  q[s] = [image |-> pod[s].image, policy |-> PullAlways]
                      /\ q[s] \in Containers /\ q[s] # NoContainer
                      /\ q[s].image = pod[s].image /\ q[s].policy = PullAlways
    OBVIOUS
  <2>1. pod[s] \in Containers /\ s \in Slots
    BY DEF Used, Pods, NoContainer
  <2>2. pod[s] = [image |-> pod[s].image, policy |-> pod[s].policy]
    BY <2>1 DEF Containers
  <2>3. q[s] = [pod[s] EXCEPT !.policy = PullAlways]
    BY <2>1 DEF AdmittedPod
  <2>4. q[s] = [image |-> pod[s].image, policy |-> PullAlways]
    BY <2>2, <2>3
  <2>5. pod[s].image \in Images
    BY <2>1 DEF Containers
  <2>. QED
    BY <2>4, <2>5 DEF Containers, NoContainer, PullAlways
<1>2. \A s \in Slots \ Used(pod) : q[s] = NoContainer
  BY DEF AdmittedPod, Used
<1>3. q \in Pods
  BY <1>1, <1>2 DEF AdmittedPod, Pods
<1>4. \A s \in Slots : q[s] # NoContainer <=> s \in Used(pod)
  BY <1>1, <1>2
<1>5. Used(q) = Used(pod)
  BY <1>4 DEF Used
<1>6. ImagesOf(q) = ImagesOf(pod)
  <2>1. \A s \in Used(pod) : q[s].image = pod[s].image
    BY <1>1
  <2>. QED
    BY <1>5, <2>1 DEF ImagesOf
<1>7. \A s \in Used(pod) : q[s].policy = PullAlways
  BY <1>1
<1>. QED
  BY <1>3, <1>5, <1>6, <1>7

(* Admit changes nothing of the attributes but the object's pull policies: *)
(* what shouldIgnore reads, the old object and the images, stay.           *)
LEMMA AdmitShape ==
  ASSUME NEW o, NEW a \in Attrs
  PROVE  /\ Admit(o, a) \in Attrs
         /\ Admit(o, a).resource = a.resource
         /\ Admit(o, a).subresource = a.subresource
         /\ Admit(o, a).oldObject = a.oldObject
         /\ Admit(o, a).isPod = a.isPod
         /\ Admit(o, a).oldIsPod = a.oldIsPod
         /\ Used(Admit(o, a).object) = Used(a.object)
         /\ ImagesOf(Admit(o, a).object) = ImagesOf(a.object)
<1>1. CASE shouldIgnore(o, a) \/ ~a.isPod
  BY <1>1 DEF Admit
<1>2. CASE ~(shouldIgnore(o, a) \/ ~a.isPod)
  <2>1. Admit(o, a) = [a EXCEPT !.object = AdmittedPod(a.object)]
    BY <1>2 DEF Admit, AdmittedPod
  <2>2. a.object \in Pods
    BY DEF Attrs
  <2>. QED
    BY <2>1, <2>2, AdmittedPodShape DEF Attrs
<1>. QED
  BY <1>1, <1>2

(* shouldIgnore gives the same answer after Admit as before it.            *)
LEMMA IgnoreStable ==
  ASSUME NEW o, NEW a \in Attrs
  PROVE  shouldIgnore(o, Admit(o, a)) <=> shouldIgnore(o, a)
<1> DEFINE b == Admit(o, a)
<1>1. /\ b.resource = a.resource /\ b.subresource = a.subresource
      /\ b.oldObject = a.oldObject
      /\ b.isPod = a.isPod /\ b.oldIsPod = a.oldIsPod
      /\ ImagesOf(b.object) = ImagesOf(a.object)
  BY AdmitShape
<1>2. isUpdateWithNoNewImages(o, b) <=> isUpdateWithNoNewImages(o, a)
  BY <1>1, Zenon DEF isUpdateWithNoNewImages
<1>. QED
  BY <1>1, <1>2, Zenon DEF shouldIgnore

(* admission.go Admit then Validate: on attributes Admit does not fail on, *)
(* Validate accepts what Admit produced.                                   *)
LEMMA AdmitSatisfiesValidate ==
  ASSUME NEW o, NEW a \in Attrs, ~AdmitError(o, a)
  PROVE  ValidateAccepts(o, Admit(o, a))
<1>1. CASE shouldIgnore(o, a)
  BY <1>1, IgnoreStable DEF ValidateAccepts
<1>2. CASE ~shouldIgnore(o, a)
  <2>1. a.isPod
    BY <1>2 DEF AdmitError
  <2>2. Admit(o, a) = [a EXCEPT !.object = AdmittedPod(a.object)]
    BY <1>2, <2>1 DEF Admit, AdmittedPod
  <2>3. a.object \in Pods
    BY DEF Attrs
  <2>4. Admit(o, a).isPod /\ ~shouldIgnore(o, Admit(o, a))
    BY <1>2, <2>1, AdmitShape, IgnoreStable
  <2>5. ValidateErrors(o, Admit(o, a)) = {}
    BY <2>2, <2>3, <2>4, AdmittedPodShape DEF ValidateErrors
  <2>. QED
    BY <2>4, <2>5 DEF ValidateAccepts
<1>. QED
  BY <1>1, <1>2

(* admission.go Validate: a pod it accepts, not a subresource, has every *)
(* container that brings an image the old pod did not have (any image of  *)
(* a Create) pulling always; an update it ignores brings no such image.    *)
LEMMA ValidatedPullsNewImages ==
  ASSUME NEW o, NEW a \in Attrs, ValidateAccepts(o, a),
         a.resource = "pods", a.subresource = "", a.isPod,
         NEW s \in Used(a.object),
         \/ o = "Create" \/ ~a.oldIsPod
         \/ a.object[s].image \notin ImagesOf(a.oldObject)
  PROVE  a.object[s].policy = PullAlways
<1>1. CASE shouldIgnore(o, a)
  <2>1. o = "Update" /\ a.oldIsPod
        /\ ImagesOf(a.object) \subseteq ImagesOf(a.oldObject)
    BY <1>1 DEF shouldIgnore, isUpdateWithNoNewImages
  <2>2. a.object[s].image \in ImagesOf(a.object)
    BY DEF ImagesOf
  <2>. QED
    BY <2>1, <2>2
<1>2. CASE ~shouldIgnore(o, a)
  <2>1. ValidateErrors(o, a) = {}
    BY <1>2 DEF ValidateAccepts
  <2>. QED
    BY <1>2, <2>1 DEF ValidateErrors
<1>. QED
  BY <1>1, <1>2

(* Request s was rejected by a Validate call: its last call is one.       *)
RejectedInValidate(s) ==
  /\ phase[s] = "rejected" /\ calls[s] # <<>>
  /\ calls[s][Len(calls[s])][1] = "validate"

(* What the chain walk establishes about its first plugin and about a     *)
(* rejection by Validate: before the first Admit the object is the one    *)
(* the request came with; once the walk is past the first plugin, that    *)
(* plugin's Admit, if it ran, did not fail on it; and a rejecting Validate *)
(* ran on the request and did not accept its object (or may fail anyway). *)
FrontInv(s) ==
  /\ phase[s] = "admit" /\ idx[s] = 1 => obj[s] = orig[s]
  /\ \/ phase[s] = "admit" /\ idx[s] > 1
     \/ phase[s] \in {"validate", "admitted"}
     \/ RejectedInValidate(s)
     => (1 \in Indices /\ Runs(1, "admit", op[s])
           => orig[s] \notin AdmitFails[Chain[1]][op[s]])
  /\ RejectedInValidate(s) =>
       LET i == calls[s][Len(calls[s])][2] IN
       /\ i \in Indices /\ Runs(i, "validate", op[s])
       /\ obj[s] \notin Accepts[Chain[i]][op[s]] \/ Chain[i] \in Fallible

FInv == TypeOK /\ \A s \in Requests : FrontInv(s)

LEMMA FInvInit == Init => FInv
<1> SUFFICES ASSUME Init PROVE FInv
  OBVIOUS
<1>1. TypeOK
  BY TypeInit
<1>2. \A s \in Requests : phase[s] = "none"
  BY DEF Init
<1>. QED
  BY <1>1, <1>2 DEF FInv, FrontInv, RejectedInValidate

(* Appending a call makes it the last one. *)
LEMMA LastCall ==
  ASSUME NEW c \in Seq({"admit", "validate"} \X Indices),
         NEW x \in {"admit", "validate"} \X Indices
  PROVE  /\ Append(c, x) # <<>>
         /\ Append(c, x)[Len(Append(c, x))] = x
OBVIOUS

(* Each action keeps FrontInv of every request: the actions of another    *)
(* request leave it alone; of its own, the first Admit call hands on a    *)
(* plugin the object did not fail on, the object being the request's own  *)
(* then, and a rejecting Validate call appends itself as the last call.   *)
LEMMA FInvStep == FInv /\ [Next]_vars => FInv'
<1> SUFFICES ASSUME FInv, [Next]_vars PROVE FInv'
  OBVIOUS
<1>1. TypeOK'
  BY TypeStep DEF FInv
<1>2. SUFFICES ASSUME NEW s \in Requests PROVE FrontInv(s)'
  BY <1>1 DEF FInv
<1>3. TypeOK /\ FrontInv(s)
  BY DEF FInv
<1>4. ASSUME phase'[s] = phase[s], idx'[s] = idx[s], op'[s] = op[s],
             obj'[s] = obj[s], orig'[s] = orig[s], calls'[s] = calls[s]
      PROVE  FrontInv(s)'
  BY <1>3, <1>4 DEF FrontInv, RejectedInValidate
(* Once past the first plugin, in the admit or validate phase, and not    *)
(* rejected: C2 of FrontInv is what the step must keep.                   *)
<1>5. ASSUME phase'[s] \in {"admit", "validate", "admitted"},
             phase'[s] = "admit" => idx'[s] > 1,
             op'[s] = op[s], orig'[s] = orig[s],
             1 \in Indices /\ Runs(1, "admit", op[s])
               => orig[s] \notin AdmitFails[Chain[1]][op[s]]
      PROVE  FrontInv(s)'
  BY <1>5 DEF FrontInv, RejectedInValidate
<1>6. ASSUME NEW r \in Requests, NEW o \in Operations, NEW x \in Objects,
             Receive(r, o, x)
      PROVE  FrontInv(s)'
  <2>1. CASE r = s
    BY <1>3, <1>6, <2>1 DEF Receive, FrontInv, RejectedInValidate, TypeOK
  <2>2. CASE r # s
    BY <1>3, <1>4, <1>6, <2>2 DEF Receive, TypeOK
  <2>. QED
    BY <2>1, <2>2
<1>7. ASSUME NEW r \in Requests, Skip(r) PROVE FrontInv(s)'
  <2>1. CASE r = s
    <3>1. idx[s] \in Indices /\ ~Runs(idx[s], phase[s], op[s])
          /\ phase[s] \in {"admit", "validate"}
      BY <1>7, <2>1 DEF Skip
    <3>2. phase'[s] = phase[s] /\ idx'[s] = idx[s] + 1 /\ op'[s] = op[s]
          /\ orig'[s] = orig[s]
      BY <1>3, <1>7, <2>1 DEF Skip, TypeOK
    <3>3. 1 \in Indices /\ Runs(1, "admit", op[s])
            => orig[s] \notin AdmitFails[Chain[1]][op[s]]
      <4>1. CASE phase[s] = "admit" /\ idx[s] = 1
        BY <3>1, <4>1
      <4>2. CASE ~(phase[s] = "admit" /\ idx[s] = 1)
        BY <1>3, <3>1, <4>2 DEF FrontInv, Indices
      <4>. QED
        BY <4>1, <4>2
    <3>. QED
      BY <3>1, <3>2, <3>3, <1>5 DEF Indices
  <2>2. CASE r # s
    BY <1>3, <1>4, <1>7, <2>2 DEF Skip, TypeOK
  <2>. QED
    BY <2>1, <2>2
<1>8. ASSUME NEW r \in Requests, AdmitCall(r) PROVE FrontInv(s)'
  <2>1. CASE r = s
    <3>1. phase[s] = "admit" /\ idx[s] \in Indices /\ Runs(idx[s], "admit", op[s])
          /\ op'[s] = op[s] /\ orig'[s] = orig[s]
      BY <1>3, <1>8, <2>1 DEF AdmitCall, TypeOK
    <3>2. CASE /\ obj[s] \notin AdmitFails[Chain[idx[s]]][op[s]]
               /\ idx' = [idx EXCEPT ![s] = @ + 1]
               /\ UNCHANGED phase
      <4>1. phase'[s] = "admit" /\ idx'[s] = idx[s] + 1
        BY <1>3, <3>1, <3>2 DEF TypeOK
      <4>2. 1 \in Indices /\ Runs(1, "admit", op[s])
              => orig[s] \notin AdmitFails[Chain[1]][op[s]]
        <5>1. CASE idx[s] = 1
          BY <1>3, <3>1, <3>2, <5>1 DEF FrontInv
        <5>2. CASE idx[s] # 1
          BY <1>3, <3>1, <5>2 DEF FrontInv, Indices
        <5>. QED
          BY <5>1, <5>2
      <4>. QED
        BY <3>1, <4>1, <4>2, <1>5 DEF Indices
    <3>3. CASE /\ phase' = [phase EXCEPT ![s] = "rejected"]
               /\ UNCHANGED <<obj, idx>>
      <4>1. calls'[s] = Append(calls[s], <<"admit", idx[s]>>)
        BY <1>3, <1>8, <2>1 DEF AdmitCall, TypeOK
      <4>2. calls'[s][Len(calls'[s])][1] = "admit"
        BY <1>3, <3>1, <4>1, LastCall DEF TypeOK
      <4>. QED
        BY <1>3, <3>3, <4>2 DEF FrontInv, RejectedInValidate, TypeOK
    <3>. QED
      BY <1>8, <2>1, <3>2, <3>3 DEF AdmitCall
  <2>2. CASE r # s
    BY <1>3, <1>4, <1>8, <2>2 DEF AdmitCall, TypeOK
  <2>. QED
    BY <2>1, <2>2
<1>9. ASSUME NEW r \in Requests, AdmitReturn(r) PROVE FrontInv(s)'
  <2>1. CASE r = s
    <3>1. phase[s] = "admit" /\ idx[s] = Len(Chain) + 1
          /\ phase'[s] = "validate" /\ op'[s] = op[s] /\ orig'[s] = orig[s]
      BY <1>3, <1>9, <2>1 DEF AdmitReturn, TypeOK
    <3>2. 1 \in Indices /\ Runs(1, "admit", op[s])
            => orig[s] \notin AdmitFails[Chain[1]][op[s]]
      BY <1>3, <3>1 DEF FrontInv, Indices
    <3>. QED
      BY <3>1, <3>2, <1>5
  <2>2. CASE r # s
    BY <1>3, <1>4, <1>9, <2>2 DEF AdmitReturn, TypeOK
  <2>. QED
    BY <2>1, <2>2
<1>10. ASSUME NEW r \in Requests, ValidateCall(r) PROVE FrontInv(s)'
  <2>1. CASE r = s
    <3>1. phase[s] = "validate" /\ idx[s] \in Indices
          /\ Runs(idx[s], "validate", op[s])
          /\ op'[s] = op[s] /\ orig'[s] = orig[s] /\ obj'[s] = obj[s]
      BY <1>3, <1>10, <2>1 DEF ValidateCall, TypeOK
    <3>2. 1 \in Indices /\ Runs(1, "admit", op[s])
            => orig[s] \notin AdmitFails[Chain[1]][op[s]]
      BY <1>3, <3>1 DEF FrontInv
    <3>3. CASE idx' = [idx EXCEPT ![s] = @ + 1] /\ UNCHANGED phase
      BY <3>1, <3>2, <3>3, <1>5
    <3>4. CASE /\ obj[s] \notin Accepts[Chain[idx[s]]][op[s]] \/ Chain[idx[s]] \in Fallible
               /\ phase' = [phase EXCEPT ![s] = "rejected"]
               /\ UNCHANGED idx
      <4>1. calls'[s] = Append(calls[s], <<"validate", idx[s]>>)
        BY <1>3, <1>10, <2>1 DEF ValidateCall, TypeOK
      <4>2. calls'[s] # <<>> /\ calls'[s][Len(calls'[s])] = <<"validate", idx[s]>>
        <5>1. calls[s] \in Seq({"admit", "validate"} \X Indices)
              /\ <<"validate", idx[s]>> \in {"admit", "validate"} \X Indices
          BY <1>3, <3>1 DEF TypeOK
        <5>2. /\ Append(calls[s], <<"validate", idx[s]>>) # <<>>
              /\ LET c == Append(calls[s], <<"validate", idx[s]>>)
                 IN  c[Len(c)] = <<"validate", idx[s]>>
          BY <5>1, LastCall
        <5>. QED
          BY <4>1, <5>2
      <4>3. phase'[s] = "rejected"
        BY <1>3, <3>4 DEF TypeOK
      <4>. QED
        BY <3>1, <3>2, <3>4, <4>2, <4>3 DEF FrontInv, RejectedInValidate
    <3>. QED
      BY <1>10, <2>1, <3>3, <3>4 DEF ValidateCall
  <2>2. CASE r # s
    BY <1>3, <1>4, <1>10, <2>2, Zenon DEF ValidateCall, TypeOK
  <2>. QED
    BY <2>1, <2>2
<1>11. ASSUME NEW r \in Requests, ValidateReturn(r) PROVE FrontInv(s)'
  <2>1. CASE r = s
    <3>1. phase[s] = "validate" /\ phase'[s] = "admitted"
          /\ op'[s] = op[s] /\ orig'[s] = orig[s]
      BY <1>3, <1>11, <2>1 DEF ValidateReturn, TypeOK
    <3>. QED
      BY <1>3, <3>1, <1>5 DEF FrontInv
  <2>2. CASE r # s
    BY <1>3, <1>4, <1>11, <2>2 DEF ValidateReturn, TypeOK
  <2>. QED
    BY <2>1, <2>2
<1>12. CASE UNCHANGED vars
  BY <1>4, <1>12 DEF vars
<1>. QED
  BY <1>6, <1>7, <1>8, <1>9, <1>10, <1>11, <1>12 DEF Next

-----------------------------------------------------------------------------
(* AlwaysPullImages in front of any chain: an admitted Create or Update of *)
(* a pod, whatever the plugins after AlwaysPullImages did to it, has every *)
(* container that brings a new image pulling always, because Validate ran *)
(* on the final object (AdmittedObjectValidated).                          *)
THEOREM NewImagesPulledAlwaysHolds == Spec => []NewImagesPulledAlways
<1>1. TypeOK /\ AdmittedObjectValidated => NewImagesPulledAlways
  <2> SUFFICES ASSUME TypeOK, AdmittedObjectValidated,
                      NEW r \in Requests, phase[r] = "admitted",
                      op[r] \in HandledOperations,
                      obj[r].resource = "pods", obj[r].subresource = "",
                      obj[r].isPod,
                      NEW s \in Used(obj[r].object), NewImage(r, s)
               PROVE  obj[r].object[s].policy = PullAlways
    BY DEF NewImagesPulledAlways
  <2>1. PullImagesAt(1) /\ obj[r] \in Attrs
    BY PullImagesFront DEF TypeOK
  <2>2. obj[r] \in Accepts[Chain[1]][op[r]]
    BY <2>1 DEF AdmittedObjectValidated, PullImagesAt
  <2>3. ValidateAccepts(op[r], obj[r])
    BY <2>1, <2>2 DEF PullImagesAt
  <2>. QED
    BY <2>1, <2>3, ValidatedPullsNewImages DEF NewImage
<1>. QED
  BY <1>1, TypeCorrect, AdmittedObjectValidatedHolds, PTL

(* AlwaysPullImages in front of any chain: when its Validate refuses a     *)
(* request, a plugin after it changed the object its Admit produced. By    *)
(* FrontInv the refused request did pass its Admit (AdmitError false on    *)
(* the attributes as sent), and Validate accepts whatever Admit returns    *)
(* (AdmitSatisfiesValidate), so the object Validate saw is another one.    *)
THEOREM PullPolicyRejectionNeedsLaterMutationHolds ==
  Spec => []PullPolicyRejectionNeedsLaterMutation
<1>1. FInv => PullPolicyRejectionNeedsLaterMutation
  <2> SUFFICES ASSUME FInv, NEW r \in Requests,
                      phase[r] = "rejected", calls[r] # <<>>,
                      calls[r][Len(calls[r])] = <<"validate", 1>>
               PROVE  obj[r] # Admit(op[r], orig[r])
    BY DEF PullPolicyRejectionNeedsLaterMutation
  <2>1. TypeOK /\ FrontInv(r) /\ RejectedInValidate(r)
    BY DEF FInv, RejectedInValidate
  <2>2. /\ 1 \in Indices /\ Runs(1, "validate", op[r])
        /\ obj[r] \notin Accepts[Chain[1]][op[r]] \/ Chain[1] \in Fallible
    BY <2>1 DEF FrontInv
  <2>3. /\ PullImagesAt(1)
        /\ Chain[1] \in Plugins /\ op[r] \in Operations
        /\ orig[r] \in Objects /\ obj[r] \in Objects
    BY <2>1, <2>2, ChainAssumption, PullImagesFront DEF TypeOK, Indices
  <2>4. /\ op[r] \in HandledOperations
        /\ obj[r] \notin Accepts[Chain[1]][op[r]]
        /\ Runs(1, "admit", op[r])
    BY <2>2, <2>3 DEF PullImagesAt, Runs, Capable
  <2>5. orig[r] \notin AdmitFails[Chain[1]][op[r]]
    BY <2>1, <2>2, <2>4 DEF FrontInv
  <2>6. ~AdmitError(op[r], orig[r]) /\ orig[r] \in Attrs
    BY <2>3, <2>4, <2>5, PullImagesFront DEF PullImagesAt
  <2>7. ValidateAccepts(op[r], Admit(op[r], orig[r]))
    BY <2>6, AdmitSatisfiesValidate
  <2>8. Admit(op[r], orig[r]) = Mutate[Chain[1]][op[r]][orig[r]]
        /\ Mutate[Chain[1]][op[r]][orig[r]] \in Objects
    BY <2>3, <2>4, ChainAssumption DEF PullImagesAt
  <2>9. Admit(op[r], orig[r]) \in Accepts[Chain[1]][op[r]]
    BY <2>3, <2>4, <2>7, <2>8 DEF PullImagesAt
  <2>. QED
    BY <2>4, <2>9
<1>. QED
  BY <1>1, FInvInit, FInvStep, PTL DEF Spec



=============================================================================
