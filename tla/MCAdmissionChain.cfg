CONSTANTS
  Operations <- MCOperations
  Plugins <- MCPlugins
  Chain <- MCChain
  HandledOps <- MCHandledOps
  Mutators <- MCMutators
  Validators <- MCValidators
  Objects <- MCObjects
  Mutate <- MCMutate
  Accepts <- MCAccepts
  AdmitFails <- MCAdmitFails
  Fallible <- MCFallible
  Requests <- MCRequests
SPECIFICATION Spec
\* A run ends when both requests have been decided.
CHECK_DEADLOCK FALSE
INVARIANTS
  TypeOK
  CallsInChainOrder
  AdmittedRanEveryHandler
  AdmittedObjectValidated
  UnhandledPassesUntouched
PROPERTIES
  ImplementsAbstractChain
