----------------------------- MODULE Authorizers -----------------------------
(***************************************************************************)
(* The three-valued authorization decision of                             *)
(* apiserver/pkg/authorization/authorizer/interfaces.go, the built-in      *)
(* authorizers of authorizerfactory/builtin.go (AlwaysAllow, AlwaysDeny,   *)
(* PrivilegedGroups) with their RuleResolvers, and the caller side that    *)
(* composes them: a union loop that asks each authorizer in turn and stops *)
(* at the first Allow or Deny, and the request filter that serves only an  *)
(* Allow.  The caller side is not in this repository and is modelled from  *)
(* the spec (sections 2 and 4.4).                                          *)
(*                                                                         *)
(* A user is a record: whether the request carries one (GetUser() # nil)   *)
(* and its groups.  An authorizer is a record of its kind and, for         *)
(* PrivilegedGroups, the groups it was built with; "Policy" stands for a  *)
(* real policy engine whose answer per user is the constant PolicyDecision.*)
(***************************************************************************)
EXTENDS Naturals, Sequences

CONSTANTS
  Groups,          \* group names
  Verbs,           \* request verbs
  Targets,         \* resources and non-resource paths
  Chains,          \* the authorizer lists a caller may compose
  PolicyDecision   \* PolicyDecision[u]: the policy engine's answer to u

(* type Decision int, in the order of its iota constants. *)
DecisionDeny == 0
DecisionAllow == 1
DecisionNoOpinion == 2
Decisions == {DecisionDeny, DecisionAllow, DecisionNoOpinion}

Users == {u \in [present : BOOLEAN, groups : SUBSET Groups] :
            ~u.present => u.groups = {}}
Authorizers ==
  [kind : {"AlwaysAllow", "AlwaysDeny", "Policy"}, groups : {{}}]
    \cup [kind : {"PrivilegedGroups"}, groups : SUBSET Groups]
RequestAttrs == [isResource : BOOLEAN, verb : Verbs, target : Targets]

ASSUME AuthorizersAssumption ==
  /\ Chains \subseteq Seq(Authorizers)
  /\ PolicyDecision \in [Users -> Decisions]

(* An Authorize result (decision, reason, err); reason "" is no reason.    *)
Result(d, reason, err) == [d |-> d, reason |-> reason, err |-> err]

-----------------------------------------------------------------------------
(* Mutant: AlwaysAllow abstains on a request without a user. *)
alwaysAllowAuthorizeNeedsUser(u) ==
  IF u.present THEN Result(DecisionAllow, "", FALSE)
  ELSE Result(DecisionNoOpinion, "", FALSE)

(* alwaysAllowAuthorizer.Authorize *)
alwaysAllowAuthorize(u) == Result(DecisionAllow, "", FALSE)

(* alwaysDenyAuthorizer.Authorize: NoOpinion, so that a later authorizer   *)
(* may still allow.                                                        *)
alwaysDenyAuthorize(u) == Result(DecisionNoOpinion, "Everything is forbidden.", FALSE)

(* Mutant: the nil-user check dropped; a missing user has no groups. *)
privilegedGroupAuthorizeNoUserCheck(groups, u) ==
  IF u.groups \cap groups # {} THEN Result(DecisionAllow, "", FALSE)
  ELSE Result(DecisionNoOpinion, "", FALSE)

(* privilegedGroupAuthorizer.Authorize: an error on a request without a    *)
(* user; Allow when one of its groups is one of the privileged groups.     *)
privilegedGroupAuthorize(groups, u) ==
  IF ~u.present THEN Result(DecisionNoOpinion, "Error", TRUE)
  ELSE IF u.groups \cap groups # {} THEN Result(DecisionAllow, "", FALSE)
  ELSE Result(DecisionNoOpinion, "", FALSE)

(* Authorizer.Authorize, dispatched on the authorizer's kind. *)
Authorize(a, u) ==
  CASE a.kind = "AlwaysAllow"      -> alwaysAllowAuthorize(u)
    [] a.kind = "AlwaysDeny"       -> alwaysDenyAuthorize(u)
    [] a.kind = "PrivilegedGroups" -> privilegedGroupAuthorize(a.groups, u)
    [] a.kind = "Policy"           -> Result(PolicyDecision[u], "", FALSE)

(* RulesFor of AlwaysAllow: one wildcard resource rule and one wildcard    *)
(* non-resource rule; of AlwaysDeny: no rule.  Neither is incomplete.      *)
alwaysAllowRulesFor(u) ==
  [resource |-> {[verbs |-> {"*"}, apiGroups |-> {"*"}, resources |-> {"*"}]},
   nonResource |-> {[verbs |-> {"*"}, urls |-> {"*"}]}]

alwaysDenyRulesFor(u) == [resource |-> {}, nonResource |-> {}]

(* Whether a rule list grants a request: a rule whose verbs and targets    *)
(* hold the request's or the wildcard.                                     *)
Grants(rules, r) ==
  LET Match(set, x) == "*" \in set \/ x \in set IN
  IF r.isResource
  THEN \E rule \in rules.resource :
         Match(rule.verbs, r.verb) /\ Match(rule.resources, r.target)
  ELSE \E rule \in rules.nonResource :
         Match(rule.verbs, r.verb) /\ Match(rule.urls, r.target)

-----------------------------------------------------------------------------
VARIABLES
  chain,    \* the union of authorizers the caller asks, in order
  user,     \* the request's user
  req,      \* the request's other attributes
  idx,      \* the next authorizer to ask
  errs,     \* some authorizer asked so far returned an error
  result,   \* the decision the union returned
  retErr,   \* the error the union returned with it
  phase     \* "loop", "returned", then "served", "forbidden", "internalError"

vars == <<chain, user, req, idx, errs, result, retErr, phase>>

Init ==
  /\ chain \in Chains
  /\ user \in Users
  /\ req \in RequestAttrs
  /\ idx = 1
  /\ errs = FALSE
  /\ result = DecisionDeny     \* the zero value of Decision
  /\ retErr = FALSE
  /\ phase = "loop"

(* Union loop: ask the next authorizer; an error is collected; Allow or    *)
(* Deny is returned at once with that authorizer's reason and error;       *)
(* NoOpinion goes on to the next.                                          *)
AskNext ==
  /\ phase = "loop" /\ idx <= Len(chain)
  /\ LET r == Authorize(chain[idx], user) IN
       /\ errs' = (errs \/ r.err)
       /\ IF r.d \in {DecisionAllow, DecisionDeny}
          THEN result' = r.d /\ retErr' = r.err /\ phase' = "returned"
               /\ UNCHANGED idx
          ELSE idx' = idx + 1 /\ UNCHANGED <<result, retErr, phase>>
  /\ UNCHANGED <<chain, user, req>>

(* Union loop end: every authorizer abstained; NoOpinion with the          *)
(* aggregate of the errors collected.                                      *)
LoopEnd ==
  /\ phase = "loop" /\ idx > Len(chain)
  /\ result' = DecisionNoOpinion /\ retErr' = errs /\ phase' = "returned"
  /\ UNCHANGED <<chain, user, req, idx, errs>>

(* The request filter: Allow is served; otherwise an error is an internal *)
(* error and anything else is forbidden (the caller's default deny).       *)
Filter ==
  /\ phase = "returned"
  /\ phase' = IF result = DecisionAllow THEN "served"
              ELSE IF retErr THEN "internalError" ELSE "forbidden"
  /\ UNCHANGED <<chain, user, req, idx, errs, result, retErr>>

Next == AskNext \/ LoopEnd \/ Filter

Spec == Init /\ [][Next]_vars

-----------------------------------------------------------------------------
TypeOK ==
  /\ chain \in Chains
  /\ user \in Users
  /\ req \in RequestAttrs
  /\ idx \in 1 .. Len(chain) + 1
  /\ errs \in BOOLEAN /\ retErr \in BOOLEAN
  /\ result \in Decisions
  /\ phase \in {"loop", "returned", "served", "forbidden", "internalError"}

(* RulesFor against Authorize: for AlwaysAllow and AlwaysDeny in the chain *)
(* the rules reported to introspection grant the request exactly when the  *)
(* authorizer allows it, for any user, a missing one included.             *)
RulesAgreeWithDecision ==
  \A j \in 1 .. Len(chain) :
    /\ chain[j].kind = "AlwaysAllow" =>
         (Grants(alwaysAllowRulesFor(user), req)
            <=> Authorize(chain[j], user).d = DecisionAllow)
    /\ chain[j].kind = "AlwaysDeny" =>
         (Grants(alwaysDenyRulesFor(user), req)
            <=> Authorize(chain[j], user).d = DecisionAllow)

(* PrivilegedGroups on a request with no user (builtin.go:82): when no     *)
(* authorizer decides, its error reaches the filter, which answers an      *)
(* internal error instead of a plain forbidden.                            *)
NoUserErrorSurfaced ==
  (/\ phase \in {"served", "forbidden", "internalError"}
   /\ ~user.present
   /\ result = DecisionNoOpinion
   /\ \E j \in 1 .. Len(chain) : chain[j].kind = "PrivilegedGroups")
  => phase = "internalError"

=============================================================================
