# TLA+ verification of the admission and authorization pipeline

This directory holds TLA+ models of the request decision pipeline in this
repository: admission plugins and the chain that runs them, the plugin
registry that builds the chain, the built-in authorizers, and the signal
handler that stops the server. It also holds TLC configurations that check the
models on small instances and TLAPS proofs of their main invariants.

## 1. Inventory

### Components, their state and operations

| Component | Source | State | Operations |
|---|---|---|---|
| Admission chain | `vendor/k8s.io/apiserver/pkg/admission/chain.go` | none of its own: an immutable slice of plugins | `Admit`, `Validate` (walk the chain in order, filter by `Handles(op)` and by capability, stop at the first error), `Handles` |
| Plugin registry and construction | `vendor/k8s.io/apiserver/pkg/admission/plugins.go` | `registry map[string]Factory` under `lock` | `Register` (fatal on a duplicate name), `Registered`, `getPlugin` (under the lock: lookup, `splitStream`, `PluginEnabledFn`, factory), `InitPlugin` (`""` means no plugin; unknown names and errors; `Initialize`; `ValidateInitialization`), `NewFromPlugins` (all or nothing, keeps the order, skips nil plugins, wraps the result in the reinvocation handler) |
| Reinvocation wrapper | called at `plugins.go:171`, code not in this repository | the plugins that asked to be reinvoked | re-run `Admit` of mutators after a later mutation |
| AlwaysPullImages plugin | `plugin/pkg/admission/alwayspullimages/admission.go` | none | `Admit` (sets every container to `Always`), `Validate` (collects one error per container that is not `Always`), `shouldIgnore`, `isUpdateWithNoNewImages` |
| Authorizers | `vendor/k8s.io/apiserver/pkg/authorization/authorizer/interfaces.go`, `.../authorizerfactory/builtin.go` | `privilegedGroupAuthorizer.groups` | `Authorize` of AlwaysAllow (Allow), AlwaysDeny (NoOpinion with a reason), PrivilegedGroups (Allow on a shared group, NoOpinion otherwise, NoOpinion plus an error with no user); `RulesFor`; `Decision` with Deny as its zero value |
| Signal handler | `vendor/k8s.io/apiserver/pkg/server/signal.go` | `onlyOneSignalHandler`, `shutdownHandler` (a channel of capacity 2), a goroutine | `SetupSignalContext` (panics on a second call), the goroutine (first signal cancels, second exits), `RequestShutdown` (a send that does not block) |
| Authenticators | `.../request/anonymous/anonymous.go`, `.../tokentest/tokentest.go` | token map | one lookup each |
| Visitor example | `examples/visitor.go` | none: nested values and closures | `VisitorList.Visitor`, `Visitorl.Visit`, `Visitor2.Visit`, `Visitor3.Visit`, `main` |
| Flex volume test fixture | `pkg/volume/flexvolume/flexvolume_test.go` | the plugin directory and driver file | `installPluginUnderTest` (`MkdirAll`, `Create`, `Chmod`, template, `WriteString`, `Close`, each reported with `t.Errorf`), the driver script `execScriptTempl1` |
| kubectl entry point | `cmd/kubectl/kubectl.go` | the deferred calls of `main`, the log buffer | setup and `logs.InitLogs`, `defer logs.FlushLogs()`, `command.Execute`, `os.Exit(1)` on an error |
| Codec example | `examples/codec.go` | the etcd client, the deferred calls of `main` | `clientv3.New`, `defer cli.Close()`, `cli.Get` and `Kvs[0]`, `newCodec` twice, `runtime.Decode`, `runtime.Encode`; every error panics |
| Glue | `pkg/api/legacyscheme`, `pkg/apis/core/install`, `kube-aggregator/.../storage_apiservice.go`, the other `examples/*` | | type registration, storage wiring, library demonstrations |

### How they interact

At startup every plugin package calls `Register` on the shared `Plugins`.
`NewFromPlugins` then turns the configured list of names into plugin
instances through `InitPlugin`. It returns a `chainAdmissionHandler` wrapped
in the reinvocation handler. The server shares that chain among all its
request goroutines. For each request the caller runs `Admit`, and then
`Validate` if `Admit` succeeded. Before admission, the caller's loop over the
authorizers asks each one for a `Decision`. It stops at the first Allow or
Deny. The signal handler cancels the server's context on the first SIGTERM or
SIGINT and exits the process on the second.

### What is hard

- Many requests go through one chain at once. The chain is read-only, so a
  request's correctness depends only on the order of its own plugin calls, the
  object each call sees, and where the walk stops.
- Partial failure. An `Admit` error leaves the object mutated by earlier
  plugins. A build error discards the plugins already initialized.
- Ordering. A mutator may undo what an earlier mutating and validating plugin
  set, which is why validation runs only after all mutation.
- Registration is not ordered against construction. A duplicate name ends the
  process.
- `getPlugin` holds the registry lock across the calls to the plugin's
  factory and `PluginEnabledFn`.
- The signal channel is bounded at 2, `RequestShutdown` reads a global
  without synchronization, and the second signal exits the process.
- Three-valued decisions. NoOpinion is not Deny, and the zero value of a
  Decision is Deny.

### Properties that make each component correct

- **Chain.** Plugins are called in chain order, at most once per phase, and
  every Admit call comes before every Validate call. An admitted request was
  seen by exactly the plugins that handle its operation and have the phase's
  capability. Its object satisfies every handling validator. A request whose
  operation no plugin handles passes untouched. The stepwise chain implements
  an atomic admit-or-reject decision.
- **Registry.** A registered factory is never replaced. A built chain keeps the
  order of the names it was given, holds the factories registered under those
  names, and only exists if every non-empty name was registered. Construction
  is all or nothing.
- **AlwaysPullImages.** Every admitted pod pulls every image that is new to
  it always. Its Validate refuses only what a later mutator changed after its
  Admit. Updates with no new image are left alone.
- **Authorizers.** AlwaysDeny never answers Deny. PrivilegedGroups allows
  exactly the principals that share a group with it. A caller loop stops at
  the first Allow or Deny, and its default applies only when every authorizer
  has no opinion.
- **Signal handler.** Setup happens once, and a second setup panics before it
  can replace the channel. The process exits only after cancelling and after
  two signals. After two signals it eventually exits. A shutdown request is
  dropped only when two signals are already queued.
- **Visitor example.** The output nests every before/after pair around the
  closure it wraps, in the order of the visitors, and the program returns.
- **Flex fixture.** A failure of any installation step marks the test
  failed, and only then does the driver fail to run. The driver answers
  Success exactly to the calls it supports.

The hazards are listed, each at its source line, in `PROJECT.json` under
`"hazards"`.

## 2. Plan and status

The plan goes in order of importance. Modules marked (done) exist now.

1. `AdmissionChain`, `AdmissionChainAbstract` and `MCAdmissionChain` (done):
   the chain with concurrent requests, its atomic contract, and the
   refinement check.
2. `AdmissionPlugins` (done): the registry and `NewFromPlugins`, with
   registrations racing builds.
3. `AdmissionChainProofs` and `AdmissionChainRefinement` (done): every
   safety invariant of `chain_mc`, and the refinement of the abstract chain.
4. `AlwaysPullImages` and `MCAlwaysPullImages` (done): the plugin, composed
   with the chain ahead of a mutating sidecar. There is a violation run for
   the update-without-new-image path.
5. `Authorizers` and `AuthorizersProofs` (done): the decision model, the
   three built-in authorizers, the caller's union loop and filter, and a
   proof that the first opinion decides.
6. `SignalHandler` (done): setup, the goroutine, OS signals and
   `RequestShutdown`, with the liveness of exit on the second signal.
   `SignalHandlerProofs` (done) proves its safety invariants.
7. `Visitor` (done) and `FlexVolumeTest` (done): the visitor example and
   the flexvolume test fixture.
8. Still to do:
   - `AdmissionServer`: composes `AdmissionPlugins` and `AdmissionChain`,
     with the lock held across the factory call, for the re-entrancy
     deadlock.
   - `Reinvocation`: a spec-modelled wrapper that re-runs the mutators a
     bounded number of times.

## 3. Modules and how they map to the code

### `AdmissionChain`

Its constants are the plugins, the operations, `Chain` (a sequence of
plugins), `HandledOps`, `Mutators`, `Validators` (the capability sets),
`Objects`, and three tables indexed by plugin and operation:

- `Mutate[p][o][x]`: what `Admit` makes of object `x`;
- `AdmitFails[p][o]`: the objects on which `Admit` returns an error;
- `Accepts[p][o]`: the objects that `Validate` accepts.

The remaining constants are `Fallible` (plugins that may fail whatever the
object) and `Requests`. Each request has the following state:

- `phase`: none, admit, validate, admitted or rejected;
- `idx`: the loop index;
- `op` and `obj`: the attributes' operation and object;
- `orig` and `calls`: history variables holding the original object and the
  plugin calls made.

Actions:

- `Receive` is the caller starting admission. It is spec-modelled, because the
  request handler is not in this repository.
- `Skip` is a loop iteration that `continue`s.
- `AdmitCall` is a call of `mutator.Admit`. It mutates the object, or it fails
  on an object in `AdmitFails` or for a fallible plugin.
- `AdmitReturn` is the loop ending. The caller then starts `Validate`.
- `ValidateCall` is a call of `validator.Validate`. It fails on an object the
  plugin does not accept, and a fallible plugin may fail anyway.
- `ValidateReturn` ends admission with the request admitted.

One step is one iteration of one request's loop. Requests interleave freely.

### `AdmissionChainAbstract`

This is the contract. A pending request is admitted in one step, with the
object the handling mutators produce in chain order. That happens only if
every handling validator accepts the object. Otherwise, or when a handling
plugin is fallible, the request is rejected. The object a request is
admitted with is given by `AdmitRuns(o, x, n)`: the functions `t` on
`0..n` with `t[0] = x` whose every `t[k]` is plugin `k`'s `Mutate` of
`t[k-1]` when it is a mutator handling `o`, and `t[k-1]` otherwise. There
is exactly one such run, so the set states what a recursive definition
would, with no recursion for the provers to unfold. The instance `Abs` at
the end of `AdmissionChain` maps the concrete state onto it:

- admit and validate are pending;
- the abstract object is the original one until the request is admitted.

### `AdmissionPlugins`

- `registry` maps names to factories, or to `NoFactory`.
- `pending` holds the `Register` calls still to be made.
- `fatal` records that `klog.Fatalf` ended the process.
- Each builder has `bpc`, `bi` and `handlers`. A built plugin is the pair of
  its index in the name list and its factory.
- `Register` is atomic under the lock.
- `GetPlugin` and `InitPlugin` give the outcomes of `getPlugin`/`splitStream`
  and of `InitPlugin`/`ValidateInitialization` for a name, given the registry
  as it is.
- `StepOutcomes` adds the `ConfigFor` error.
- `BuildStep` is one loop iteration of `NewFromPlugins`: it fails, skips, or
  appends a plugin.
- `BuildReturn` returns the chain.

The config provider, the reader, `PluginEnabledFn`, the factories and
`ValidateInitialization` are outside this code, so every outcome they allow is
explored. The decorator is transparent and left out. `Registered()` changes
nothing and only sorts names for display, so it is left out too.

### `AlwaysPullImages` and its composition with the chain

`AlwaysPullImages` translates the plugin into operators of an operation and
an attributes record. The record holds the resource, the subresource, the
object, the old object, and whether each converts to `*api.Pod`. A pod maps
container slots to a container (image, pull policy) or to no container.

- `isUpdateWithNoNewImages` and `shouldIgnore` follow the code branch by
  branch. A failed conversion answers false.
- `AdmitError` is the BadRequest of `Admit`.
- `Admit` sets every visited container to `Always`.
- `ValidateErrors` is the aggregated list of containers that are not
  `Always`, and `ValidateAccepts` says whether `Validate` returns nil.

`MCAlwaysPullImages` EXTENDS both `AdmissionChain` and `AlwaysPullImages`. It
defines the chain's `Mutate`, `AdmitFails` and `Accepts` from the plugin's
operators. Its chain is `<<"AlwaysPullImages", "sidecar">>`, where the
sidecar is a mutating plugin that puts a container with a new image into a
free slot. This is how a mutating webhook behaves.

`MCAlwaysPullImages` also states, as the ASSUME `PullImagesFront`, what the
proofs use of this instance. The chain's objects are attributes records
(`Attrs`), and the plugin at index 1 is AlwaysPullImages (`PullImagesAt(1)`):
a mutating and validating plugin that never fails, handles Create and
Update, and whose `Mutate`, `AdmitFails` and `Accepts` are `Admit`,
`AdmitError` and `ValidateAccepts`. TLC evaluates the assumption on every
run of the module, and the proofs hold for every chain that satisfies it,
whatever the plugins after the first one do.

### `Authorizers`

- `DecisionDeny`, `DecisionAllow` and `DecisionNoOpinion` keep the values
  of their `iota` constants.
- `alwaysAllowAuthorize`, `alwaysDenyAuthorize` and
  `privilegedGroupAuthorize` translate the three built-in `Authorize`
  methods.
- `alwaysAllowRulesFor` and `alwaysDenyRulesFor` translate the `RulesFor`
  methods.
- A user is a record of whether one is present and its groups.
- `"Policy"` stands for a real policy engine. Its answer per user is the
  constant `PolicyDecision`.

The caller side, with one request per behaviour, is not in this repository
and is spec-modelled. `AskNext` is one iteration of the union loop: it
collects an error, returns at once on Allow or Deny, and goes on on
NoOpinion. `LoopEnd` returns NoOpinion with the aggregate of the errors.
`Filter` serves an Allow, answers an internal error when there is an error,
and answers forbidden otherwise.

### `SignalHandler`

Each `make(chan os.Signal, 2)` is a channel numbered by creation, and
`buf[c]` counts the signals queued in it. The actions are:

- setup, one action per statement: `SetupClose` (line 45, which panics on a
  closed channel), `SetupMake`, `SetupNotify` and `SetupGo`;
- the goroutine, one action per statement: `GoroutineRecv1`,
  `GoroutineCancel`, `GoroutineRecv2` and `GoroutineExit`;
- `RequestShutdown`, whose read of `shutdownHandler` has no synchronization
  with the write. It may therefore see nil even after setup; that is the
  data race, resolved as a nondeterministic choice.
- `OSSignal`. Before `signal.Notify`, SIGTERM kills the process. After it,
  package signal's send does not block, and a full channel drops the signal.

### `Visitor`

The sequential program's call stack is a stack of continuations:

- a Visit of a visitor with a closure;
- a VisitorList loop at an index;
- a closure call;
- a `Println`.

A closure is the list of wrapper labels around main's `visitFunc`. There is
one action per function body. The constants `Kind`, `Elems` and `Inner` give
any nesting of visitors. `MCVisitor` builds main's
`Visitor3{Visitor2{VisitorList{Visitorl}}}` and six others.

### `FlexVolumeTest`

The helper's statements are actions in order: `MkdirAll`, `Create`, `Chmod`,
`WriteScript` and `Close`. Each may fail and call `t.Errorf`, which does not
stop the helper. After a failed `Create`, `f` is nil, and its methods return
`ErrInvalid`. Template execution into a buffer cannot fail and is part of
`WriteScript`. `RunDriver` executes the file if it exists, is executable and
holds the whole script. `ScriptInit` and `ScriptDispatch` are the script's
`init` check and its `if`/`elif` chain.

### `KubectlMain` and `CodecMain`

Both model a Go `main` with its deferred calls. `deferred` is the stack of
calls `defer` pushed. A return (and in `CodecMain` a panic, after which `pc`
is `"unwind"`) runs them last first in `RunDeferred`, then the process ends.
`os.Exit` in `OsExit` ends it at once and runs none of them.

In `KubectlMain`, `Execute` stands for whatever command runs: it may log,
which leaves `unflushed` set, and it fails or not. Logging to a file, the
logging library buffers lines. Its flush daemon, started by `InitLogs`, is
the environment action `PeriodicFlush`, which may run at any time until the
process ends.

In `CodecMain`, data are reduced to what decides the control flow. `stored`
is the Pod key's value in etcd, 0 when the key is absent. Other etcd clients
change it in `EtcdWrite`, up to `MaxWrites` times. `Get` reads it into `kv`.
It panics on an error, and it also panics when the key is absent: `Kvs[0]`
is then out of range. `newCodecOK` is `newCodec`'s lookup of a serializer.
`ParseGroupVersion("v1")` cannot fail and is left out. `printed` records
which of the two outputs was printed.

## 4. Runs

| Run | What it checks | Instance |
|---|---|---|
| `chain_mc` (`MCAdmissionChain.cfg`) | `TypeOK`, `CallsInChainOrder`, `AdmittedRanEveryHandler`, `AdmittedObjectValidated`, `UnhandledPassesUntouched`, and the refinement `ImplementsAbstractChain` | 2 requests and 4 plugins: a defaulting mutator, an AlwaysPullImages-like mutating and validating plugin, a fallible webhook mutator, and a validating quota plugin. There are 4 operations, one of which (Connect) nobody handles, and 3 objects standing for pull policies. |
| `plugins_mc` (`MCAdmissionPlugins.cfg`) | `TypeOK`, `BuiltChainFaithful` | 2 names, one of them registered twice with different factories, and 2 builders whose lists differ in order, one holding `""` |
| `apis_chain_mc` (`MCAlwaysPullImages.cfg`) | `NewImagesPulledAlways`, `PullPolicyRejectionNeedsLaterMutation` | one request (Create, Update or Delete) of pods with two slots and two images, pod subresources and configmaps, including objects that do not convert; AlwaysPullImages before an image-injecting sidecar |
| `authz_mc` (`MCAuthorizers.cfg`) | `RulesAgreeWithDecision`, `NoUserErrorSurfaced` | every union of 0 to 3 authorizers out of 4, every user over 2 groups (a missing user among them), and resource and non-resource requests |
| `signal_mc` (`MCSignalHandler.cfg`) | `ExitOnlyOnSecondSignal`, `DroppedOnlyWhenExitQueued`, and the liveness `SecondSignalExits` | main's setup, 3 `RequestShutdown` callers, and up to 2 OS signals |
| `visitor_mc` (`MCVisitor.cfg`) | `TypeOK`, `MainOutputDocumented` | 7 visitors: main's three, a list of three holding an empty list, and Visitor3 chains over it; each visitor is a possible root |
| `flex_mc` (`MCFlexVolumeTest.cfg`) | `TypeOK`, `InstallReportedAndDriverAnswers` | every failure pattern of the helper, and 9 argument lists (init, each supported call, wrong counts, an unsupported call) |
| `flex_args_recorded` (`MCFlexVolumeTestArgs.cfg`, expected violation) | `ArgumentsRecorded` | the same |
| `codec_mc` (`MCCodecMain.cfg`) | `ClientClosedAtEnd` | the serializers a core/v1 scheme offers, 2 Pod revisions, the key absent or present at start, and up to 3 concurrent writes |
| `kubectl_logs_lost` (`MCKubectlMain.cfg`, expected violation) | `LogsFlushedAtExit` | one run of `main` |

**Bounds.** The bounds are small, but each one reaches every case:

- In `chain_mc`, each operation meets a different subset of the chain. The
  object values make requests end admitted, rejected in Admit, or rejected in
  Validate. The chain shares no mutable state, so a third request adds
  nothing to two.
- In `plugins_mc`, the duplicate name reaches the fatal path both before and
  after a build has looked the name up.
- In `apis_chain_mc`, two slots are enough for a pod with a free slot, and
  two images for an update that brings a new one. The non-converting objects
  reach both BadRequest paths and both warnings of `isUpdateWithNoNewImages`.
- Three authorizers are enough for AlwaysDeny to sit both before and after a
  deciding authorizer.
- With 3 requesters and 2 OS signals, requests are dropped on a full channel
  and signals arrive both before and after `signal.Notify`.
- In `codec_mc`, three writes let the key be deleted or recreated before
  `Get`, so every panic point of `main` is reached, and so is the return.
- The visitor instance nests lists inside lists, has an empty list, and has
  a Visitor3 of a Visitor3.

The runs set `CHECK_DEADLOCK FALSE` where the system really stops:

- a request is decided;
- a build has finished;
- the process has exited, panicked or been killed;
- the visitor program has returned;
- the driver has answered.

**Mutants.** Every property of a passing run has a mutant in `PROJECT.json`,
and TLC finds the property violated under it. Examples are a dropped guard, a
missing wrapper, a channel of capacity 1, and a goroutine that exits on the
first signal.

The signal and codec runs do not check their type invariants. No plausible
change to `signal.go` or `codec.go` can take a variable out of its type, so
no mutant of the code could violate them. Both type invariants are still
proved (`SignalTypeCorrect`, `CodecTypeCorrect`) and used by the other
proofs.

**Findings.**

- `flex_args_recorded`. The comment at `flexvolume_test.go:73` says the
  script records its arguments for later checks. But every branch of the
  script exits before line 74, so the `.out` file is never written.
- `kubectl_logs_lost`. `kubectl.go` defers `logs.FlushLogs()` at line 47 so
  that buffered log lines reach their file. But a failed command ends in
  `os.Exit(1)` at line 53, and `os.Exit` runs no deferred calls. The lines
  logged since the last periodic flush are lost, and these are the lines
  that explain the failure.

## 5. Fairness

- `SignalHandler` assumes weak fairness of each setup caller's steps and of
  the handler goroutine. Once runnable, each stays runnable until it moves:
  only the goroutine takes from the channel. The Go scheduler runs runnable
  goroutines.
- Requesters and the OS get no fairness, because they may never send.
- In `signal_mc` main is the only setup caller. With a second caller, weak
  fairness would drive every behaviour into the panic, and the liveness
  property would hold vacuously.
- The chain, the registry, the authorizers and the fixture have no liveness
  property. Their loops are bounded by the length of their lists.

## 6. Proofs

`AdmissionChainProofs` proves the following under `ChainAssumption`
(nonempty operations and objects, a chain of plugins, and well-typed
capability sets and tables):

- **`TypeCorrect`**: `Spec => []TypeOK`. The proof uses the lemmas
  `TypeInit` and `TypeStep`, with one step per action.
- **`AdmittedObjectValidatedHolds`**: `Spec => []AdmittedObjectValidated`.
  The invariant is not inductive as it stands, because during Validate the
  object must already satisfy the validators passed so far. The
  strengthening is `IInv == TypeOK /\ \A s : ValidInv(s)`:
  - in the validate phase, every validator before `idx` that handles the
    operation accepts the object;
  - once the request is admitted, every validator accepts it.

  `IInvInit` and `IInvStep` prove `IInv` inductive, with one step per action
  and a case split on whether the acting request is the one considered. The
  argument is that no action of the validate phase changes the object.
- **`CallsInChainOrderHolds`**, **`AdmittedRanEveryHandlerHolds`** and
  **`UnhandledPassesUntouchedHolds`** rest on `WInv == TypeOK /\ \A s :
  WalkInv(s)`. `WalkInv(s)` ties the set of handlers request `s` has called
  to its place in the walk:
  - the calls are in chain order;
  - in the admit or validate phase they are exactly `OwedBefore(op, phase,
    idx)`, the handlers before the loop position;
  - once admitted, they are every handler of the operation;
  - an unhandled request is not rejected and keeps its object.

  The lemmas `AppendCallSet`, `OwedStep`, `OwedSwitch`, `OwedStart` and
  `OwedUnhandled` say how that set grows at each kind of step.

`AdmissionChainRefinement` proves **`ChainRefinesAbstract`**: `Spec =>
ImplementsAbstractChain`, the refinement of `AdmissionChainAbstract` under
the mapping `Abs`. It needs the invariant `RInv == IInv /\ \A s :
RunInv(s)`. `RunInv(s)` says that the object of a request part way through
admit is the end of a run of `AdmitRuns` up to `idx - 1` in which no mutator
failed, and that in validate or once admitted it is the end of the whole
run. The lemma `ExtendRun` extends a run by one plugin, and `RunsCalls`
relates the concrete and abstract "plugin handles the operation". The
argument has three parts:
- `AbsInit`: an initial state maps to the abstract initial state;
- `AbsStep`: every step maps to an abstract step or a stutter. The last
  validate step is `AAdmit`, with the run `RunInv` provides. A rejection is
  `AReject`, by the lemma `RejectAllowed`. Every other step stutters;
- the temporal conclusion is by PTL.

`AuthorizersProofs` proves the following under `AuthorizersAssumption`
(chains of authorizers, and a policy engine answering one of the three
decisions):

- **`NoUserErrorSurfacedHolds`**: the strengthening `ErrInv` says:
  - without a user, the collected error is set exactly when a
    `PrivilegedGroups` authorizer was asked;
  - an abstaining union returns that error;
  - the filter's answer is a function of the union's result.

  The lemma `AuthorizeError` gives when an authorizer returns an error.
- **`RulesAgreeWithDecisionHolds`** follows from the type invariant.

`SignalHandlerProofs` proves **`SignalTypeCorrect`**,
**`ExitOnlyOnSecondSignalHolds`** and
**`DroppedOnlyWhenExitQueuedHolds`** under `SignalAssumption`, for any
number of setup callers and requesters. The inductive invariant is `SInv ==
TypeOK /\ SetupInv /\ CountInv`:
- `SetupInv`: at most one setup caller has passed
  `close(onlyOneSignalHandler)`, and `CallerInv` says what it has written so
  far to `shutdownHandler` and to `signal.Notify`. A channel other than the
  handler's is empty;
- `CountInv`: every signal taken is queued in the handler's channel or
  received by the goroutine (`Queued + Consumed(gs)`). The goroutine's
  state implies the cancellation and the exit.

The lemma `ChansSize` gives one channel number per setup caller.

`AdmissionPluginsProofs` proves **`PluginsTypeCorrect`** and
**`BuiltChainFaithfulHolds`** under `PluginsAssumption`.
- `RegisterKeeps` says a `Register` step never changes a registered name,
  so a loop iteration's lookup stays valid.
- The invariant `PInv == TypeOK /\ \A b : LoopInv(b)` records what the
  loop of `NewFromPlugins` has established up to `bi[b]`:
  - the built plugins are in increasing list order, before `bi[b]`;
  - each matches the registry under a real name;
  - every non-empty name looked at is registered.
- `OutcomeFound` says an iteration that does not fail found its name.

`FlexVolumeTestProofs` proves **`FlexTypeCorrect`** and
**`InstallReportedAndDriverAnswersHolds`** under `FlexAssumption`. The
invariant `FInv` has three parts:
- `InstallInv`: `failed` is set exactly when some step done so far did not
  succeed (`StepsSucceeded`), and f is nil exactly when `os.Create` failed;
- `DriverInv`: the script's state implies its answer, through
  `SuccessCall`;
- the type invariant.

`CodecMainProofs` proves **`CodecTypeCorrect`** and
**`ClientClosedAtEndHolds`** under `CodecAssumption`, for any serializers,
Pod revisions and number of concurrent writes. The invariant is `CInv ==
TypeParts /\ DeferInv /\ PrintInv`:
- `DeferInv`: the deferred Close is on the stack from line 38 on, and it has
  run exactly when the client is closed;
- `PrintInv`: the outputs printed are those of the steps passed;
- `TypeParts` gives each sequence as one of its few possible values. This
  form avoids membership in a set of tuples, on which the SMT backend
  times out.

The lemma `SeqFacts` gives the sequences that an `Append` or a pop produces
(through `SeqEqual`).

`AlwaysPullImagesProofs` proves the two properties of `apis_chain_mc`
under `PullImagesFront`, so for any chain behind AlwaysPullImages and any
pods:

- **`NewImagesPulledAlwaysHolds`**: `Spec => []NewImagesPulledAlways`. It
  follows from `AdmittedObjectValidated` (already proved for every chain)
  and the lemma `ValidatedPullsNewImages`: an object that
  `ValidateAccepts` has every used container pulling always.
- **`PullPolicyRejectionNeedsLaterMutationHolds`**: when AlwaysPullImages'
  Validate refuses a request, its object is not what the plugin's Admit
  made of the request as sent. The invariant `FInv == TypeOK /\ \A s :
  FrontInv(s)` is needed because the property speaks of the original
  object, while the chain only remembers the current one. `FrontInv(s)`
  says:
  - before the first Admit, the object is the original;
  - once the walk is past the first Admit (later in admit, in validate,
    admitted, or rejected by a validator), that Admit did not fail on the
    original object;
  - a request rejected in validate was rejected by a validator that handles
    its operation and either is fallible or did not accept the object.

  Under it the argument is the lemma `AdmitSatisfiesValidate`: when
  `AdmitError` is false, `ValidateAccepts` holds of `Admit`'s result. Its
  proof rests on `IgnoreStable` (`Admit` changes nothing `shouldIgnore`
  reads) and `AdmittedPodShape` (the admitted pod uses the same slots and
  images, all with policy `Always`).

Every strengthened invariant was checked with TLC on the runs' instances
before it was proved. TLC checks, and TLAPS does not prove:

- `LogsFlushedAtExit`, which fails: TLC gives the counterexample;
- the liveness property `SecondSignalExits`, since
  TLAPS handles neither liveness under fairness nor ENABLED;
- `MainOutputDocumented` of `Visitor`, which is about one fixed nesting
  of visitors and has no proof.

## 7. Not modelled

These parts are not modelled, for the reasons given:

- The reinvocation handler's code is not in this repository. It is planned as
  a spec-modelled module.
- The re-entrant-factory deadlock at `plugins.go:116`. No factory in this
  repository calls back into the registry.
- The admission `Attributes` and object codecs are data only.
- The authenticators are single lookups. They enter the authorizer model as
  its set of users.
- `examples/converter.go`, `runtime_object.go`, `scheme.go`,
  `rbac.go`, `cobra.go` and `go_restful.go` each build library objects
  (schemes, codecs, converters, cobra commands, go-restful routes, an RBAC
  client) and print them once. They have no state or control flow of their
  own beyond the library calls, so a model would restate the libraries.
- `pkg/api/legacyscheme/scheme.go` and `pkg/apis/core/install/install.go`
  are type registration: one call each into library code. The command tree
  that kubectl's `command.Execute` runs is out of scope; `KubectlMain` treats
  it as one step.
- The aggregator storage wiring puts storage objects into a map at startup.
- The bodies of `TestCanSupport` and `TestGetAccessModes` drive the volume
  plugin manager, which is not in this repository. Only the helper and the
  script they install are modelled.
- Log messages and the sorting in `Registered()` are formatting, and are left
  out.
