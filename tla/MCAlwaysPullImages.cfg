CONSTANTS
  Slots <- MCSlots
  Images <- MCImages
  Policies <- MCPolicies
  Operations <- MCOperations
  Plugins <- MCPlugins
  Chain <- MCChain
  HandledOps <- MCHandledOps
  Mutators <- MCMutators
  Validators <- MCValidators
  Objects <- MCObjects
  Mutate <- MCMutate
  AdmitFails <- MCAdmitFails
  Accepts <- MCAccepts
  Fallible <- MCFallible
  Requests <- MCRequests
SPECIFICATION Spec
\* A run ends when the request has been decided.
CHECK_DEADLOCK FALSE
INVARIANTS
  NewImagesPulledAlways
  PullPolicyRejectionNeedsLaterMutation
