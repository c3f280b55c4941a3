---------------------------- MODULE MCAuthorizers ----------------------------
(* Unions of up to three authorizers over two groups, every user, resource *)
(* and non-resource requests.                                              *)
EXTENDS Authorizers

MCGroups == {"admins", "devs"}
MCVerbs == {"get", "create"}
MCTargets == {"pods", "/healthz"}

(* AlwaysAllow, AlwaysDeny, PrivilegedGroups("admins") and a policy engine *)
MCAuthorizerSet ==
  {[kind |-> "AlwaysAllow", groups |-> {}], [kind |-> "AlwaysDeny", groups |-> {}],
   [kind |-> "PrivilegedGroups", groups |-> {"admins"}],
   [kind |-> "Policy", groups |-> {}]}

MCChains ==
  UNION {[1 .. n -> MCAuthorizerSet] : n \in 0 .. 3}

(* The policy engine denies requests without a user, allows devs and has  *)
(* no opinion on everyone else.                                            *)
MCPolicyDecision ==
  [u \in Users |-> IF ~u.present THEN DecisionDeny
                   ELSE IF "devs" \in u.groups THEN DecisionAllow
                   ELSE DecisionNoOpinion]
=============================================================================
