------------------------- MODULE MCAlwaysPullImages -------------------------
(***************************************************************************)
(* AlwaysPullImages in an admission chain, followed by a mutating webhook *)
(* that injects a sidecar container (image "b", pull policy IfNotPresent)  *)
(* into a pod with a free container slot, on Create and Update: the order  *)
(* of the API server, where the webhook plugins come after the built-in    *)
(* ones.  Pods have a first container and maybe a second one, over two     *)
(* images and two pull policies; the requests also include a subresource,  *)
(* another resource, and objects that do not convert to a pod.            *)
(***************************************************************************)
EXTENDS AdmissionChain, AlwaysPullImages

MCSlots == {1, 2}
MCImages == {"a", "b"}
MCPolicies == {"Always", "IfNotPresent"}

MCOperations == {"Create", "Update", "Delete"}
MCPlugins == {"AlwaysPullImages", "sidecar"}
MCChain == <<"AlwaysPullImages", "sidecar">>
MCHandledOps == [p \in MCPlugins |-> HandledOperations]
MCMutators == MCPlugins
MCValidators == {"AlwaysPullImages"}

PodSpecs == {pod \in Pods : 1 \in Used(pod)}
(* An object that does not convert carries a placeholder pod. *)
Placeholder == [s \in Slots |-> IF s = 1 THEN [image |-> "a", policy |-> "Always"]
                                ELSE NoContainer]
MCObjects ==
  {a \in [resource : {"pods"}, subresource : {""},
          object : PodSpecs, oldObject : PodSpecs,
          isPod : BOOLEAN, oldIsPod : BOOLEAN] :
     /\ a.isPod \/ a.object = Placeholder
     /\ a.oldIsPod \/ a.oldObject = Placeholder}
  \cup [resource : {"pods"}, subresource : {"status"},
        object : {Placeholder}, oldObject : {Placeholder},
        isPod : {FALSE}, oldIsPod : {FALSE}]
  \cup [resource : {"configmaps"}, subresource : {""},
        object : {Placeholder}, oldObject : {Placeholder},
        isPod : {FALSE}, oldIsPod : {FALSE}]

(* The sidecar webhook's Admit. *)
Inject(o, a) ==
  IF a.resource = "pods" /\ a.isPod /\ a.object[2] = NoContainer
  THEN [a EXCEPT !.object[2] = [image |-> "b", policy |-> "IfNotPresent"]]
  ELSE a

MCMutate == [p \in MCPlugins |-> [o \in MCOperations |-> [x \in MCObjects |->
               IF p = "AlwaysPullImages" THEN Admit(o, x) ELSE Inject(o, x)]]]
MCAdmitFails == [p \in MCPlugins |-> [o \in MCOperations |->
                   IF p = "AlwaysPullImages"
                   THEN {x \in MCObjects : AdmitError(o, x)} ELSE {}]]
MCAccepts == [p \in MCPlugins |-> [o \in MCOperations |->
                {x \in MCObjects : ValidateAccepts(o, x)}]]
MCFallible == {}
MCRequests == {"r1"}

(* The plugin at chain index i is AlwaysPullImages: it is built with       *)
(* NewHandler(Create, Update), implements both interfaces, cannot fail     *)
(* for reasons outside the attributes, and its Admit and Validate are the  *)
(* operators of module AlwaysPullImages.                                   *)
PullImagesAt(i) ==
  /\ i \in Indices
  /\ Chain[i] \in (Mutators \cap Validators) \ Fallible
  /\ HandledOps[Chain[i]] = HandledOperations
  /\ \A o \in HandledOperations :
       /\ \A x \in Objects : Mutate[Chain[i]][o][x] = Admit(o, x)
       /\ AdmitFails[Chain[i]][o] = {x \in Objects : AdmitError(o, x)}
       /\ Accepts[Chain[i]][o] = {x \in Objects : ValidateAccepts(o, x)}

(* The chains this module is about: AlwaysPullImages first, as in the     *)
(* API server's default plugin order, and objects that are attributes.    *)
ASSUME PullImagesFront == Objects \subseteq Attrs /\ PullImagesAt(1)

(* A container of the pod the request carries brings an image the old    *)
(* pod did not have: always, for a Create; for an Update, unless the old   *)
(* object is a pod with that image.                                        *)
NewImage(r, s) ==
  \/ op[r] = "Create"
  \/ ~obj[r].oldIsPod
  \/ obj[r].object[s].image \notin ImagesOf(obj[r].oldObject)

(* AlwaysPullImages in the chain: an admitted Create or Update of a pod    *)
(* leaves no container that brings a new image, its own or one a later     *)
(* mutating plugin added, without pull policy Always; an image a node may  *)
(* have cached for another pod is pulled again with this pod's            *)
(* credentials.                                                            *)
NewImagesPulledAlways ==
  \A r \in Requests :
    /\ phase[r] = "admitted"
    /\ op[r] \in HandledOperations
    /\ obj[r].resource = "pods" /\ obj[r].subresource = ""
    /\ obj[r].isPod
    => \A s \in Used(obj[r].object) :
         NewImage(r, s) => obj[r].object[s].policy = PullAlways

(* AlwaysPullImages.Validate refuses a request only when a plugin after it *)
(* changed what its own Admit produced (it is the first plugin here): its  *)
(* shouldIgnore, evaluated again on the same attributes, and its check of  *)
(* every container agree with what Admit did.                              *)
PullPolicyRejectionNeedsLaterMutation ==
  \A r \in Requests :
    phase[r] = "rejected" /\ calls[r] # <<>>
      /\ calls[r][Len(calls[r])] = <<"validate", 1>>
      => obj[r] # Admit(op[r], orig[r])
=============================================================================
