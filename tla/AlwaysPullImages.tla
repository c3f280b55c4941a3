-------------------------- MODULE AlwaysPullImages --------------------------
(***************************************************************************)
(* The AlwaysPullImages admission plugin,                                  *)
(* plugin/pkg/admission/alwayspullimages/admission.go, as the operators    *)
(* the admission chain calls: its Admit sets every container of a new pod  *)
(* to pull its image always, its Validate refuses a pod with a container   *)
(* that does not, and both leave alone what shouldIgnore picks out:        *)
(* subresources, resources other than pods, and updates that bring no     *)
(* image the old pod did not have.                                         *)
(*                                                                         *)
(* A pod is a function from container slots (init and regular containers,  *)
(* which VisitContainersWithPath both visits) to a container or to        *)
(* NoContainer.  The attributes a plugin reads are a record of the        *)
(* resource, the subresource, the object and the old object, and whether  *)
(* each of the two converts to *api.Pod (isPod, oldIsPod).                 *)
(***************************************************************************)
EXTENDS Naturals, FiniteSets

CONSTANTS
  Slots,     \* container positions of a pod spec
  Images,    \* container images
  Policies   \* image pull policies, api.PullAlways among them

PullAlways == "Always"

ASSUME PullImagesAssumption == PullAlways \in Policies

Containers == [image : Images, policy : Policies]
NoContainer == [image |-> "none", policy |-> "none"]
Pods == [Slots -> Containers \cup {NoContainer}]

(* admission.Attributes as far as the plugin reads them. *)
Attrs == [resource : STRING, subresource : STRING, object : Pods,
          oldObject : Pods, isPod : BOOLEAN, oldIsPod : BOOLEAN]

(* The containers VisitContainersWithPath visits in a pod. *)
Used(pod) == {s \in Slots : pod[s] # NoContainer}
ImagesOf(pod) == {pod[s].image : s \in Used(pod)}

(* NewAlwaysPullImages: admission.NewHandler(admission.Create, admission.Update). *)
HandledOperations == {"Create", "Update"}

(* Mutant: each image of the new pod is looked up among the new pod's own. *)
isUpdateWithNoNewImagesSelf(o, a) ==
  /\ o = "Update"
  /\ a.isPod /\ a.oldIsPod
  /\ ImagesOf(a.object) \subseteq ImagesOf(a.object)

(* isUpdateWithNoNewImages: an update whose pod and old pod both convert, *)
(* every image of the pod being one of the old pod's.  A conversion       *)
(* failure only logs a warning and answers false.                         *)
isUpdateWithNoNewImages(o, a) ==
  /\ o = "Update"
  /\ a.isPod /\ a.oldIsPod
  /\ ImagesOf(a.object) \subseteq ImagesOf(a.oldObject)

(* shouldIgnore: a subresource, a resource other than pods, or an update  *)
(* with no new image.                                                     *)
shouldIgnore(o, a) ==
  \/ a.subresource # ""
  \/ a.resource # "pods"
  \/ isUpdateWithNoNewImages(o, a)

(* Admit returns BadRequest when the object it does not ignore is no pod. *)
AdmitError(o, a) == ~shouldIgnore(o, a) /\ ~a.isPod

(* Mutant: only the first container slot is set to pull always. *)
AdmitFirstSlotOnly(o, a) ==
  IF shouldIgnore(o, a) \/ ~a.isPod THEN a
  ELSE LET s1 == CHOOSE s \in Slots : \A t \in Slots : s <= t IN
       [a EXCEPT !.object =
          [s \in Slots |-> IF s = s1 /\ s \in Used(a.object)
                           THEN [a.object[s] EXCEPT !.policy = PullAlways]
                           ELSE a.object[s]]]

(* Admit: the attributes after a successful Admit; every visited container *)
(* of a pod it does not ignore now pulls always.                          *)
Admit(o, a) ==
  IF shouldIgnore(o, a) \/ ~a.isPod THEN a
  ELSE [a EXCEPT !.object =
          [s \in Slots |-> IF s \in Used(a.object)
                           THEN [a.object[s] EXCEPT !.policy = PullAlways]
                           ELSE a.object[s]]]

(* Validate: the containers it reports, all of them aggregated into one   *)
(* error; a pod it does not ignore passes only with none.                 *)
ValidateErrors(o, a) ==
  IF shouldIgnore(o, a) \/ ~a.isPod THEN {}
  ELSE {s \in Used(a.object) : a.object[s].policy # PullAlways}

ValidateAccepts(o, a) ==
  shouldIgnore(o, a) \/ (a.isPod /\ ValidateErrors(o, a) = {})

=============================================================================
