CONSTANTS
  Groups <- MCGroups
  Verbs <- MCVerbs
  Targets <- MCTargets
  Chains <- MCChains
  PolicyDecision <- MCPolicyDecision
SPECIFICATION Spec
\* A request is answered once: the final states have no successor.
CHECK_DEADLOCK FALSE
INVARIANTS
  RulesAgreeWithDecision
  NoUserErrorSurfaced
