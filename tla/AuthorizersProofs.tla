------------------------- MODULE AuthorizersProofs -------------------------
(***************************************************************************)
(* Proofs about the authorizer union, for every set of groups, every list *)
(* of authorizers and every policy engine that satisfy                    *)
(* AuthorizersAssumption.                                                  *)
(***************************************************************************)
EXTENDS Authorizers, TLAPS

USE AuthorizersAssumption

(* Every authorizer, built-in or policy engine, answers one of the three  *)
(* decisions for every user.                                               *)
LEMMA AuthorizeDecision ==
  ASSUME NEW a \in Authorizers, NEW u \in Users
  PROVE  Authorize(a, u).d \in Decisions
<1>1. CASE a.kind = "PrivilegedGroups"
  BY <1>1 DEF Authorize, privilegedGroupAuthorize, Result, Decisions
<1>2. CASE a.kind = "Policy"
  BY <1>2 DEF Authorize, Result
<1>3. CASE a.kind \in {"AlwaysAllow", "AlwaysDeny"}
  BY <1>3 DEF Authorize, alwaysAllowAuthorize, alwaysDenyAuthorize, Result,
              Decisions
<1>. QED
  BY <1>1, <1>2, <1>3 DEF Authorizers

-----------------------------------------------------------------------------
(* The answer the request filter gives for the union's result.            *)
FilterAnswer == IF result = DecisionAllow THEN "served"
                ELSE IF retErr THEN "internalError" ELSE "forbidden"

(* The union's errors: without a user, an error has been collected        *)
(* exactly when a PrivilegedGroups authorizer has been asked; a NoOpinion  *)
(* result comes from the end of the loop, with the errors collected; and  *)
(* the filter answers according to the union's result.                    *)
ErrInv ==
  /\ TypeOK
  /\ ~user.present =>
       (errs <=> \E j \in 1 .. idx - 1 : chain[j].kind = "PrivilegedGroups")
  /\ phase # "loop" /\ result = DecisionNoOpinion =>
       idx = Len(chain) + 1 /\ retErr = errs
  /\ phase \in {"served", "forbidden", "internalError"} => phase = FilterAnswer

(* Without a user, exactly PrivilegedGroups answers with an error         *)
(* (builtin.go:82); every authorizer's error is a Boolean.                 *)
LEMMA AuthorizeError ==
  ASSUME NEW a \in Authorizers, NEW u \in Users
  PROVE  /\ Authorize(a, u).err \in BOOLEAN
         /\ ~u.present => (Authorize(a, u).err <=> a.kind = "PrivilegedGroups")
<1>1. CASE a.kind = "PrivilegedGroups"
  BY <1>1 DEF Authorize, privilegedGroupAuthorize, Result
<1>2. CASE a.kind = "Policy"
  BY <1>2 DEF Authorize, Result
<1>3. CASE a.kind \in {"AlwaysAllow", "AlwaysDeny"}
  BY <1>3 DEF Authorize, alwaysAllowAuthorize, alwaysDenyAuthorize, Result
<1>. QED
  BY <1>1, <1>2, <1>3 DEF Authorizers

LEMMA ErrInvInit == Init => ErrInv
<1> SUFFICES ASSUME Init PROVE ErrInv
  OBVIOUS
<1>1. chain \in Seq(Authorizers) /\ idx = 1
  BY DEF Init
<1>2. idx \in 1 .. Len(chain) + 1
  BY <1>1
<1>3. TypeOK
  BY <1>2 DEF Init, TypeOK, Decisions
<1>. QED
  BY <1>3 DEF Init, ErrInv

LEMMA ErrInvStep == ErrInv /\ [Next]_vars => ErrInv'
<1> SUFFICES ASSUME ErrInv, [Next]_vars PROVE ErrInv'
  OBVIOUS
<1>0. TypeOK /\ chain \in Seq(Authorizers) /\ idx \in 1 .. Len(chain) + 1
  BY DEF ErrInv, TypeOK
<1>1. CASE AskNext
  <2> DEFINE r == Authorize(chain[idx], user)
  <2>1. idx \in 1 .. Len(chain) /\ chain[idx] \in Authorizers /\ user \in Users
    BY <1>0, <1>1 DEF AskNext, TypeOK
  <2>2. /\ r.d \in Decisions /\ r.err \in BOOLEAN
        /\ ~user.present => (r.err <=> chain[idx].kind = "PrivilegedGroups")
    BY <2>1, AuthorizeDecision, AuthorizeError
  <2>3. TypeOK'
    <3>1. CASE r.d \in {DecisionAllow, DecisionDeny}
      BY <1>0, <1>1, <2>1, <2>2, <3>1 DEF AskNext, TypeOK
    <3>2. CASE r.d \notin {DecisionAllow, DecisionDeny}
      BY <1>0, <1>1, <2>1, <2>2, <3>2 DEF AskNext, TypeOK
    <3>. QED
      BY <3>1, <3>2
  <2>4. (~user.present =>
          (errs <=> \E j \in 1 .. idx - 1 : chain[j].kind = "PrivilegedGroups"))'
    <3>1. errs' = (errs \/ r.err) /\ UNCHANGED <<chain, user>>
      BY <1>1 DEF AskNext
    <3>2. CASE r.d \notin {DecisionAllow, DecisionDeny}
      <4>1. idx' = idx + 1
        BY <1>1, <3>2 DEF AskNext
      <4>2. (\E j \in 1 .. idx' - 1 : chain[j].kind = "PrivilegedGroups")
              <=> \/ \E j \in 1 .. idx - 1 : chain[j].kind = "PrivilegedGroups"
                  \/ chain[idx].kind = "PrivilegedGroups"
        BY <2>1, <4>1
      <4>3. errs \in BOOLEAN
        BY <1>0 DEF TypeOK
      <4>. QED
        BY <2>2, <3>1, <4>2, <4>3 DEF ErrInv
    <3>3. CASE r.d \in {DecisionAllow, DecisionDeny}
      <4>1. idx' = idx
        BY <1>1, <3>3 DEF AskNext
      <4>2. ~user.present => chain[idx].kind # "PrivilegedGroups"
        BY <2>1, <3>3 DEF Authorize, privilegedGroupAuthorize, Result,
                          DecisionAllow, DecisionDeny, DecisionNoOpinion
      <4>. QED
        BY <2>2, <3>1, <4>1, <4>2 DEF ErrInv
    <3>. QED
      BY <3>2, <3>3
  <2>. QED
    BY <1>1, <2>3, <2>4 DEF AskNext, ErrInv, DecisionAllow, DecisionDeny,
                              DecisionNoOpinion, FilterAnswer
<1>2. CASE LoopEnd
  <2>1. idx = Len(chain) + 1
    BY <1>0, <1>2 DEF LoopEnd
  <2>2. TypeOK'
    BY <1>0, <1>2 DEF LoopEnd, TypeOK, Decisions
  <2>. QED
    BY <1>2, <2>1, <2>2 DEF LoopEnd, ErrInv, FilterAnswer
<1>3. CASE Filter
  BY <1>3 DEF Filter, ErrInv, TypeOK, FilterAnswer
<1>4. CASE UNCHANGED vars
  BY <1>4 DEF vars, ErrInv, TypeOK, FilterAnswer
<1>. QED
  BY <1>1, <1>2, <1>3, <1>4 DEF Next

(* PrivilegedGroups on a request with no user (builtin.go:82): in every    *)
(* behaviour, for every list of authorizers, when no authorizer decides    *)
(* and the union holds a PrivilegedGroups authorizer, its error reaches    *)
(* the filter, which answers an internal error, not a plain forbidden.     *)
THEOREM NoUserErrorSurfacedHolds == Spec => []NoUserErrorSurfaced
<1>1. ErrInv => NoUserErrorSurfaced
  BY DEF ErrInv, NoUserErrorSurfaced, FilterAnswer, DecisionAllow,
         DecisionNoOpinion
<1>. QED
  BY <1>1, ErrInvInit, ErrInvStep, PTL DEF Spec

(* RulesFor against Authorize (builtin.go): in every behaviour, the rules  *)
(* AlwaysAllow and AlwaysDeny report to introspection grant the request    *)
(* exactly when the authorizer itself allows it.                           *)
THEOREM RulesAgreeWithDecisionHolds == Spec => []RulesAgreeWithDecision
<1>1. TypeOK => RulesAgreeWithDecision
  <2> SUFFICES ASSUME TypeOK, NEW j \in 1 .. Len(chain)
               PROVE  /\ chain[j].kind = "AlwaysAllow" =>
                           (Grants(alwaysAllowRulesFor(user), req)
                              <=> Authorize(chain[j], user).d = DecisionAllow)
                      /\ chain[j].kind = "AlwaysDeny" =>
                           (Grants(alwaysDenyRulesFor(user), req)
                              <=> Authorize(chain[j], user).d = DecisionAllow)
    BY DEF RulesAgreeWithDecision
  <2>1. req \in RequestAttrs
    BY DEF TypeOK
  <2>2. Grants(alwaysAllowRulesFor(user), req)
    BY <2>1 DEF Grants, alwaysAllowRulesFor, RequestAttrs
  <2>3. ~Grants(alwaysDenyRulesFor(user), req)
    BY DEF Grants, alwaysDenyRulesFor
  <2>. QED
    BY <2>2, <2>3 DEF Authorize, alwaysAllowAuthorize, alwaysDenyAuthorize,
                      Result, DecisionAllow, DecisionNoOpinion
<1>2. ErrInv => RulesAgreeWithDecision
  BY <1>1 DEF ErrInv
<1>. QED
  BY <1>2, ErrInvInit, ErrInvStep, PTL DEF Spec

=============================================================================
