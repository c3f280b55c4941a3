-------------------------- MODULE AdmissionPlugins --------------------------
(***************************************************************************)
(* The admission plugin registry and the construction of a chain from it: *)
(* Plugins, Register, getPlugin, InitPlugin and NewFromPlugins in          *)
(* vendor/k8s.io/apiserver/pkg/admission/plugins.go.                       *)
(*                                                                         *)
(* Registrars are the goroutines that call Register(name, factory), each   *)
(* once; builders are the goroutines that call NewFromPlugins on a list of *)
(* names, one loop iteration per step.  Every Register and every getPlugin *)
(* runs whole under ps.lock, so each is one step; the rest of an iteration *)
(* does not touch the registry.  Registration and construction may         *)
(* interleave: nothing in the code orders them.                            *)
(*                                                                         *)
(* A factory is a model value; a built plugin is the factory that made it  *)
(* together with the index of its name in the list.  What the config       *)
(* provider, the config reader, PluginEnabledFn, the factory and the       *)
(* plugin's ValidateInitialization answer is not known to this code, so    *)
(* each step may take any of their outcomes.                               *)
(***************************************************************************)
EXTENDS Naturals, Sequences

CONSTANTS
  Names,          \* plugin names
  EmptyName,      \* the name "", which InitPlugin treats as no plugin
  Factories,      \* admission.Factory values
  NoFactory,      \* ps.registry has no entry for the name
  Registrations,  \* <<name, factory>>: the Register calls made at startup
  Builders,       \* goroutines calling NewFromPlugins
  PluginNames     \* PluginNames[b]: the list builder b is given

ASSUME PluginsAssumption ==
  /\ EmptyName \notin Names
  /\ NoFactory \notin Factories
  /\ Registrations \subseteq Names \X Factories
  /\ PluginNames \in [Builders -> Seq(Names \cup {EmptyName})]

VARIABLES
  registry,   \* registry[n]: the factory registered under n, or NoFactory
  pending,    \* the Register calls not yet made
  fatal,      \* klog.Fatalf has ended the process
  bpc,        \* bpc[b]: "building", "built" or "failed"
  bi,         \* bi[b]: the loop index of NewFromPlugins
  handlers    \* handlers[b]: the plugins built so far, <<index, factory>>

vars == <<registry, pending, fatal, bpc, bi, handlers>>

Failures == {"configError", "unknown", "splitError", "factoryError", "initError"}

-----------------------------------------------------------------------------
(* Register(name, plugin): under the lock, a name already in the registry *)
(* is fatal to the process; otherwise the factory is stored under it.     *)
Register(reg) ==
  LET n == reg[1]
      f == reg[2]
  IN
  /\ ~fatal
  /\ reg \in pending
  /\ pending' = pending \ {reg}
  /\ IF registry[n] # NoFactory
       THEN /\ fatal' = TRUE
            /\ UNCHANGED registry
       ELSE /\ registry' = [registry EXCEPT ![n] = f]
            /\ UNCHANGED fatal
  /\ UNCHANGED <<bpc, bi, handlers>>

(* getPlugin(name, config), under the lock: no factory is "not found";   *)
(* otherwise splitStream may fail reading the config, PluginEnabledFn may *)
(* say no (a nil plugin, found), and the factory returns an error, a nil  *)
(* plugin or a plugin.                                                    *)
GetPlugin(n) ==
  IF registry[n] = NoFactory THEN {"unknown"}
  ELSE {"splitError", "disabled", "factoryError", "nilPlugin", "plugin"}

(* InitPlugin(name, config, initializer): "" is no plugin and no error;   *)
(* a plugin that getPlugin returned is initialized and then               *)
(* ValidateInitialization may fail; a nil one goes through the same calls *)
(* and comes back nil.                                                    *)
InitPlugin(n) ==
  IF n = EmptyName THEN {"empty"}
  ELSE UNION {IF g = "plugin" THEN {"initError", "ok"} ELSE {g} : g \in GetPlugin(n)}

(* The outcomes of one iteration of NewFromPlugins on name n: ConfigFor   *)
(* is asked first and may fail, then InitPlugin runs.                     *)
StepOutcomes(n) == {"configError"} \cup InitPlugin(n)

(* Mutant: a built plugin is put in front of the ones built before it.   *)
BuildStepPrepends(b) ==
  LET i == bi[b]
      n == PluginNames[b][i]
  IN
  /\ ~fatal
  /\ bpc[b] = "building"
  /\ i \in 1 .. Len(PluginNames[b])
  /\ \E out \in StepOutcomes(n) :
       IF out \in Failures
         THEN /\ bpc' = [bpc EXCEPT ![b] = "failed"]
              /\ UNCHANGED <<bi, handlers>>
         ELSE /\ bi' = [bi EXCEPT ![b] = i + 1]
              /\ handlers' = IF out = "ok"
                               THEN [handlers EXCEPT ![b] = <<<<i, registry[n]>>>> \o @]
                               ELSE handlers
              /\ UNCHANGED bpc
  /\ UNCHANGED <<registry, pending, fatal>>

(* One iteration of the loop of NewFromPlugins on its bi-th name.  A      *)
(* failure returns (nil, err) and abandons the plugins built so far; a    *)
(* plugin that is nil (disabled, or a factory returning nil) is skipped;  *)
(* any other is appended, decorated or not.                               *)
BuildStep(b) ==
  LET i == bi[b]
      n == PluginNames[b][i]
  IN
  /\ ~fatal
  /\ bpc[b] = "building"
  /\ i \in 1 .. Len(PluginNames[b])
  /\ \E out \in StepOutcomes(n) :
       IF out \in Failures
         THEN /\ bpc' = [bpc EXCEPT ![b] = "failed"]
              /\ UNCHANGED <<bi, handlers>>
         ELSE /\ bi' = [bi EXCEPT ![b] = i + 1]
              /\ handlers' = IF out = "ok"
                               THEN [handlers EXCEPT ![b] = Append(@, <<i, registry[n]>>)]
                               ELSE handlers
              /\ UNCHANGED bpc
  /\ UNCHANGED <<registry, pending, fatal>>

(* Mutant: the loop index moves once more as the loop exits.             *)
BuildReturnOverrun(b) ==
  /\ ~fatal
  /\ bpc[b] = "building"
  /\ bi[b] = Len(PluginNames[b]) + 1
  /\ bpc' = [bpc EXCEPT ![b] = "built"]
  /\ bi' = [bi EXCEPT ![b] = @ + 1]
  /\ UNCHANGED <<registry, pending, fatal, handlers>>

(* The loop is done: NewFromPlugins returns                               *)
(* newReinvocationHandler(chainAdmissionHandler(handlers)).               *)
BuildReturn(b) ==
  /\ ~fatal
  /\ bpc[b] = "building"
  /\ bi[b] = Len(PluginNames[b]) + 1
  /\ bpc' = [bpc EXCEPT ![b] = "built"]
  /\ UNCHANGED <<registry, pending, fatal, bi, handlers>>

-----------------------------------------------------------------------------
Init ==
  /\ registry = [n \in Names |-> NoFactory]
  /\ pending = Registrations
  /\ fatal = FALSE
  /\ bpc = [b \in Builders |-> "building"]
  /\ bi = [b \in Builders |-> 1]
  /\ handlers = [b \in Builders |-> <<>>]

Next ==
  \/ \E reg \in Registrations : Register(reg)
  \/ \E b \in Builders : BuildStep(b) \/ BuildReturn(b)

Spec == Init /\ [][Next]_vars

-----------------------------------------------------------------------------
(* The variables keep their types.                                        *)
TypeOK ==
  /\ registry \in [Names -> Factories \cup {NoFactory}]
  /\ pending \subseteq Registrations
  /\ fatal \in BOOLEAN
  /\ bpc \in [Builders -> {"building", "built", "failed"}]
  /\ bi \in [Builders -> Nat] /\ handlers \in [Builders -> Seq(Nat \X Factories)]
  /\ \A b \in Builders :
       /\ bi[b] \in 1 .. Len(PluginNames[b]) + 1
       /\ handlers[b] \in Seq((1 .. Len(PluginNames[b])) \X Factories)

(* NewFromPlugins: a chain that was built holds its plugins in the order  *)
(* of the names it was given, each made by the factory registered under   *)
(* its name (still the registered one, whatever Register calls ran since  *)
(* the lookup), and every non-empty name of the list is registered.       *)
BuiltChainFaithful ==
  \A b \in Builders : bpc[b] = "built" =>
    LET h == handlers[b] IN
    /\ \A j, k \in 1 .. Len(h) : j < k => h[j][1] < h[k][1]
    /\ \A j \in 1 .. Len(h) : registry[PluginNames[b][h[j][1]]] = h[j][2]
    /\ \A i \in 1 .. Len(PluginNames[b]) :
         PluginNames[b][i] # EmptyName => registry[PluginNames[b][i]] # NoFactory

=============================================================================
