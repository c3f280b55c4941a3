CONSTANTS
  Names <- MCNames
  EmptyName = ""
  Factories <- MCFactories
  NoFactory = NoFactory
  Registrations <- MCRegistrations
  Builders <- MCBuilders
  PluginNames <- MCPluginNames
SPECIFICATION Spec
\* klog.Fatalf ends the process, and builders stop once built or failed.
CHECK_DEADLOCK FALSE
INVARIANTS
  TypeOK
  BuiltChainFaithful
