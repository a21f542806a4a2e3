# TLA+ specifications of the Lambda MicroVM sandbox provider and shim

The repository backs Kubernetes `Sandbox` objects with AWS Lambda MicroVMs. A
*provider* reconciles each `Sandbox` with a MicroVM and keeps a pool of
pre-launched ones. A *shim* inside the MicroVM answers the lifecycle hooks of the
service and guards the REST port. A *Go SDK* and a *transport client* reach the
MicroVM with short-lived tokens. These modules specify the parts of that
system that have state and concurrency; TLC checks them on small instances, and
TLAPS proves the main invariants for every value of the constants.

Paths in this file are relative to the repository (`provider/main.go` is
`src/provider/main.go` in `PROJECT.json`).

## 1. The system

| component | state | operations | talks to |
|---|---|---|---|
| **Reconcile loop** (`provider/main.go:189-395`, `925-1007`) | informer cache, rate-limited work queue, workers | event handler, `enqueue`, `runWorker`, `reconcileKey`, `reconcile`, `writeStatus`, `writeCondition`, `patchFinalizers`, `patchAnnotations` | API server (watch, patches), the `aws` command |
| **client-go work queue** (external) | queue, dirty set, processing set, delayed keys | Add, Get, Done, AddAfter, AddRateLimited | called by the event handler and the workers |
| **lambda-microvms service** (external) | a state per MicroVM | run, get, suspend, resume, terminate; idle policy, maximum duration | called through `aws` |
| **Warm pool** (`provider/main.go:627-731`) | `warmFree` under `warmMu`; a ConfigMap with a copy | `ensureWarmPool`, `popWarm`, `saveWarmPool`, `loadWarmPool`, `drainWarmPool` | service, API server, `provision` |
| **PodSpec mapping** (`provider/main.go:421-606`) | none of its own; reads Secrets and ConfigMaps | `mapSandbox`, `snapBaseline`, `warmEligible` | API server |
| **Session secret** (`provider/main.go:294-298`, `350-360`, `893-911`) | one secret per Sandbox in Secrets Manager | create or replace, delete | Secrets Manager, the shim |
| **Execution role** (`provider/main.go:840-891`) | none | `execRole`, `podIdentityRole` | API server, EKS |
| **Leader election, process life** (`provider/main.go:115-222`) | lease, contexts | start, lose the lease, SIGTERM, die | everything above |
| **Shim** (`shim/main.go`) | session environment, workspace, REST gate, startup command, sandboxd | hooks `/ready /validate /run /resume /suspend /terminate`, reverse proxy | service, Secrets Manager, sandboxd |
| **Go SDK** (`sdk-fork/microvm.go`) | cached token, exec stream | token refresh, run, exec, files | the MicroVM's endpoint |
| **Transport client** (`client/microvm_transport.go`) | cached token | `CachingToken`, round trip | the MicroVM's endpoint |
| **Extensions manager** (external fork, `FORK.md`) | claims, pools of Sandboxes | adopts a pooled `Sandbox` for a claim | API server |
| **Images, manifests, examples** | none | build files, IAM policies, sample clients | - |

What is hard in it, and what makes each part correct:

* **Reconcile loop.** A worker decides on a *cached* object and then makes up to
  seven calls, without UID or resource version. Anything may happen between two
  calls: a user deletes or recreates the object, the idle policy suspends the
  MicroVM, a patch fails, the provider dies. Correct means: one MicroVM per
  Sandbox, none left running when the Sandbox is gone, no session secret left
  over, the finalizer released only after the MicroVM has ended, but always
  released in the end; and the published status settles on the truth.
* **Warm pool.** Fillers, workers, the load and the drain share one list, but
  save it in two steps (copy under the lock, patch after). Correct means: no
  MicroVM is given to two Sandboxes, none is forgotten, the pool is filled and
  does not overshoot without bound.
* **From PodSpec to session.** Objects are read one by one while they are edited; the
  values take two routes, the payload and Secrets Manager, and are joined by
  the hook. Correct means: no secret value in the payload, each variable has the
  value the PodSpec declares, and the MicroVM lives as long as asked for.
* **Shim.** Hooks are HTTP handlers that may overlap, since the service does not
  wait for ever and calls again. Correct means: when `/run` has been answered the
  environment, the workspace and the startup command are those of this session, what
  clients store stays, the gate is shut after `/terminate`, and the shim ends when told to.
* **SDK and client.** Goroutines share one cached token with an expiry; exec
  streams end in an exit event or break, and the input goes out piece by piece. Correct
  means: no token is handed out past its expiry margin or minted twice, a
  broken stream is not a success, input arrives whole and in order, `Exec` returns.

The hazards, each with its line and the properties that would catch it, are the
list `hazards` of `PROJECT.json`.

## 2. Modules

| module | what it is |
|---|---|
| `MicrovmService` | external: the states of a MicroVM, and what the service does to it (operators only) |
| `WorkQueue` | external: Add, Get, Done as operators on a record |
| `Reconciler` | the reconcile loop with informer, users, service, failures and restarts; its properties and its inductive invariant |
| `MCReconciler` | instances of it |
| `SandboxLife` | abstract: the life of a Sandbox without cache, queue, workers and calls; `Reconciler` has the refinement mapping |
| `WorkQueueProofs`, `ReconcilerProofs`, `FinalizerProofs` | lemmas about the queue; theorems about the loop; theorems about finalizer, secret, status and the refinement |
| `WarmPool`, `MCWarmPool` | the pool, the goroutines that share it, load and drain; instances |
| `PoolPromise` | abstract: a pool that offers a MicroVM once and takes it out as it gives it, without goroutines, lock or saved list; `WarmPool` has the refinement mapping |
| `Session`, `MCSession` | one Sandbox's spec, through `mapSandbox`, mirror, role, launch, to the environment the hook builds; instances |
| `SessionProofs` | theorems about it |
| `TokenProvider` | abstract: what the callers of a `TokenProvider` rely on |
| `TokenCache` | `RefreshingToken`, `CachingToken` with mutex, clock and requests; a refinement mapping to `TokenProvider` |
| `Exec`, `MCExec` | `Exec`, `pumpStdin`, sandboxd's side of a stream, all of which call `TokenCache`; an instance |
| `Shim`, `MCShim` | the hooks, the gate, the startup command, sandboxd's supervision and the shutdown; an instance |
| `WarmPoolProofs`, `TokenCacheProofs`, `ExecProofs`, `ShimProofs` | theorems about these modules |

`Reconciler` and `WarmPool` both extend `MicrovmService`; `Reconciler` extends
`WorkQueue`. The three big modules meet at `provision`: `Reconciler.WarmAdopt`
takes a MicroVM of the pool in one of the states `WarmStates`, which
`WarmPool` explains; `Session` is the data that `Reconciler`'s
`MapSandbox`, `PutSecret` and `ColdRun` carry but do not look at. Where
`Session` ends, with the /run hook, `Shim` goes on: what `Session` fetches and
joins is there one environment, known by the call that built it. `Exec` extends
`TokenCache` and composes its actions with `Call` and `Finish`: each RPC and each
request takes a token, as `proxyPerRPC` and `proxyRoundTripper` do.

`PROJECT.json` maps every definition to its lines. In short:

### Reconciler

| state | code |
|---|---|
| `api`, `watch`, `cache` | the object on the API server, the versions on their way, the informer's indexer. `watch` is a sequence: Kubernetes delivers the versions of one object in order |
| `wq`, `timers` | the queue; keys with an `AddAfter`, an `AddRateLimited` or a list event to come |
| `pc`, `job` | per `runWorker` goroutine, its next call, and the key, object (`u`) and identifier it holds |
| `vm`, `asm` | MicroVMs of the service, session secrets in Secrets Manager |
| `owner`, `blame` | history: for whom a MicroVM was obtained; which irregularities have occurred |
| `left` | what is left of the bounds on user operations and mishaps |

Each call to another process is one action, and everything the code does between
two calls belongs to the action of the call before. `ReadNothing`,
`ReadDeletion`, `ReadLive` are `reconcileKey` up to its first call; `Terminate`,
`DeleteSecret`, `Release` the deletion branch; `AddFinalizer`, `GetMicrovm`,
`Suspend`, `Resume`, `AnnotateStatus`, `PatchStatus` the provisioned branch;
`MapSandbox`, `AnnotatePorts`, `PutSecret`, `AnnotateSecret`, `ColdRun` /
`WarmAdopt`, `PatchId`, `CondProvisioning`, `CondError` the other one. `awsPutSecret` is
two calls: `CreateSecret`, and after any error of it (`CreateLost`: the secret is there, but the
command failed) `UpdateSecret`, whose own error becomes a condition while the secret stays. A call
that makes no sense is refused (`Rejected`), one that makes sense may fail
(`CallFails`) or take effect and lose its answer (`RunLost`); `OnError` is the
error path of each call: logged and ignored, turned into a condition that
requeues nothing, or returned. `End` is the rest of `runWorker`: `AddAfter`
or `AddRateLimited`, then `Done`.

A write to the API server that changes nothing makes no version, as in
Kubernetes, but a status patch may or may not fall into a new second and
carry a new `lastTransitionTime`; `WriteStatus` allows both. A patch is by name: it
applies to whatever object has the name. `patchFinalizers` sends the whole list
it computed from the object it has read; the API server refuses to *add* a
finalizer to an object that is being deleted.

### WarmPool

`main` is the goroutine of `run` (load, serve, drain, exit), `fill` the
goroutines of `ensureWarmPool`, `take` the workers in `provision`. Steps under
`warmMu` are single actions: `PopWarm`, `AppendFree`, `Check`, `Drain`, and the
copy that starts a save (`FillerCopies`, `TakerCopies`, `Killed`). What a worker has popped it
records in its Sandbox (`Adopt`); when that patch fails (`AdoptFails`), the next pass takes or runs
another one. The patch
that follows is an action of its own (`Patch`), so an older copy can overwrite a
newer one. The first filler shares the context of `run` and fails once that is
cancelled; the ones that adoptions start have their own.

### Session

`pass` is the reconcile under way: `Begin` (guards, options, `MaxDuration`), one
action per entry of `envFrom` and `env` (`ReadObject`, `ReadLiteral`,
`Reject`), `Mapped` (memory), `PutSecret`, `ResolveRole`, `WarmAdopt` or
`ColdRun`, `RecordId`. `SnapBaseline` is the loop over `ValidBaselinesMiB`, as a recursive
function. `vm` holds each launched MicroVM with its /run hook:
`FetchSecret`, `FetchFails`, `Apply`. A value is modelled by where it comes from and the
version of the object it was read from, which is all the properties compare.
Time is a counter of ticks, `Second` ticks long each, so that truncation to
whole seconds is visible.

### TokenCache and Exec

`lock` is `mu`, `cached` the expiry of `cached` (a token is known by when it
expires), `call` where each goroutine is: waiting for the mutex, in `Mint`,
with a request under way, or refused. `UseCached` and `StartMint` are `Token` up to the
call of `Mint`, under the mutex; `Minted`, `MintFails` what follows. The edge
looks at a token when the request arrives (`Accepted`), up to `Delay` ticks after
it was given. `CachingToken` of the transport client is the same code.

In `Exec`, `Begin`, `Start`, `StartFails` are `Microvm.Exec` up to its
loop; `RecvInit` ... `RecvError` one turn of the loop each, by message; `PumpReads`,
`PumpEnds`, `PumpSends`, `PumpFails` the calls of `Read` and `WriteStdin`
in `pumpStdin`. `wire` is the Start stream: gRPC keeps its order. A call that
fails may have taken effect. A pump is started with its command, reads on when `Exec` has
returned, and shares the reader with the next one.

### Shim

`hook` has the handler of each call of a hook: `at` is its next step, `cancelled`
whether the service has closed the connection, `overlaps` (history) whether another
handler was at work when it was called. A call of `/run` goes through `ReadWorkspace`, `RemoveEntries`
(`resetWorkspace`), `FetchEnv` (`fetchSecretEnv`, `session.set`), `OpenEnvFile`,
`WriteEnvFile` (`writeSessionEnvFile`; opening truncates, so these are two
steps), `Prepare`, `Spawn` (`startStartupCommand`, between whose two steps the
waiter may run) and `OpenGate`. The other hooks are one step: `CheckHealth`, `OpenGate`,
`Suspend`, `Terminate`. `running`, `session`, `envFile`, `files` are the gate, the
environment in memory, the environments in `session.env`, the workspace (what
the image left, what clients stored). The log in the workspace is known by the commands that write to it
(`writers`): the reset removes it with the rest, and who writes to it then writes to a file that is gone;
`os.Create` empties it if it is there, and its writers go on. `cmd` has each
startup command with its log and waiter. `Admit`, `Store`, `BadGateway` are a request through the REST proxy,
`BoxUp`, `BoxDies` sandboxd, `Signal`, `Drained`, `Exit` the end of `main`.

The service (external) is assumed to call one hook at a time, in the order that
`DESIGN.md` names, but to give up on one and to call again or to end the
MicroVM; SIGTERM comes after the MicroVM is ended. Calls before the snapshot leave no trace in the
state, so that the image build may call `/ready` and `/validate` any number of times.

## 3. Runs

Bounds are chosen so that each hazard's sequence fits: the comments say what is
the shortest one.

| run | checks | result |
|---|---|---|
| `safety` | `TypeOK`, `IInv`, `FinsInv`, `SecretsInv`, `LeakCauses`, `OneVmCauses`, `FinalizerGuardsVM`, `StatusHasVm`, `SecretLeakCauses`, `TerminatedBeforeRelease`, `ImplementsLife` | pass, 1.2 million states |
| `liveness` | `IInv`, `FinsInv`, `DeletionCompletes`, `Converges` | pass, 450 000 states |
| `pool_safety` | `TypeOK`, `SharedCauses`, `ForgottenCauses`, `ImplementsPromise` | pass, 350 000 states |
| `pool_liveness` | `OvershootBounded`, `PoolRefills` | pass |
| `session` | `TypeOK`, `SecretsOutOfPayload`, `SessionInv`, `EnvAsDeclared`, `LifetimeMapped` | pass, 790 000 states |
| `exec` | `TypeOK`, `TokenOutlivesRequest`, `StdinIntact`, `ExecResult`, `ImplementsProvider`, `ExecReturns` | pass, 410 000 states |
| `shim` | `TypeOK`, `EnvApplied`, `WorkspaceOwned`, `GateCauses`, `StartupCauses`, `LogCauses`, `CommandReaped`, `ShutdownEnds` | pass, 1.1 million states |
| `one_vm`, `gone`, `adopted`, `pool_forgets`, `startup_log` | one sentence of the documentation or of a comment each | violated, see section 5 |

**safety**: one Sandbox with ports and a session secret, two workers, two
MicroVMs; three user operations (create, delete, create again; or a mode change or
a foreign finalizer in place of one), two mishaps (a failed or lost call, a
restart, a change by the service), one watch event in flight. Two mishaps are what it
takes to store a secret that nothing names: a create whose answer is lost, and then an
update that fails. Two workers and one key are enough for the queue to be tested (the second
worker must never get the key). The object a worker works on may be any number of writes
old, because the bound is on the events that have not reached the cache, not on what
happens while the worker makes its calls. What two Sandboxes could do to each other is nothing but
exhaust the quota; all the properties of this run are proved for any
number of Sandboxes, workers, MicroVMs and events in flight. `IInv`, `FinsInv` and
`SecretsInv` are the inductive invariants of section 4; that TLC finds them true on
reachable states is how they were found.

**liveness**: one worker, one MicroVM, the warm pool on, a Sandbox with
the warm-pool label, three operations, one mishap, two watch events in flight, so
that a worker may read an object two writes old; the two invariants that quantify over the
versions still to be seen are checked here too. The one MicroVM matters: the
quota can run out, and a launch can fail for that reason.

**pool_safety**: two fillers, two Sandboxes, two MicroVMs, `--warm-size` 1 and two
mishaps: the shortest way to a shared MicroVM needs a failed or overtaken patch
and a death, which is also what excuses the provider from `PoolPromise`. **pool_liveness**: three MicroVMs, so that the pool can overshoot and
be refilled after an adoption.

**session**: 80 specs: all combinations of four `envFrom` lists, six `env` lists
and a user's secret (collisions in both directions), eleven specs about roles,
images, guards and adoption, twenty-one about durations below, between and above the
bounds. One edit of an object, one mishap, one tick (half a second), two MicroVMs (a launch
whose answer was lost, and the one that follows).

**exec**: two commands that share a reader of two pieces (the second command can get
the piece that the first one's pump would have), one piece of output, one REST request
beside the RPCs, one mishap. Tokens live for two ticks, the margin and the
longest journey are one tick and the clock makes one: a token minted at 0 is refreshed at
1 because of the margin, while a request that got it before is still on its way. So two
goroutines can want to mint at once, and the mutex has work to do. What more commands, goroutines and
longer lifetimes do is proved, not checked.

**shim**: four calls after the snapshot, one of which may be given up: `/run`, abandoned, `/run` again,
`/terminate`, and one more for suspend or resume; one mishap, one client, and three
payloads: one with secrets, one with a command that keeps the workspace, and one with a command
and the default reset, with which two handlers can remove, empty and write to each other's log. One abandoned call is what every exception in the
properties needs; for several of them the properties are proved.

`SYMMETRY` is used only where no liveness property is checked. Deadlock is not
checked: the users may stop, the budgets of operations and mishaps end, and a
system in which everything has settled, or a Sandbox whose spec is
rejected, has nothing more to do.

### Fairness

`Reconciler.Fairness`: each worker keeps running, since it is a goroutine and
its calls return or time out (`WF(Work)`); the API server delivers watch
events; timers of the work queue fire; the informer resyncs (a resync period is
given to the informer factory), which is what brings back a key whose
failure became a condition only; the service completes what it has
accepted (`PENDING` to `RUNNING`, and so on). `WarmPool.Fairness`: the `run`
goroutine, the fillers, and a worker that has popped a MicroVM keep running;
launches complete. `Exec.FairSpec` and `Shim.FairSpec` have one condition,
`WF(Steps)`: while some goroutine of the program can go on, some of them does.
Both modules' behaviours are finite but for stuttering (calls, messages and
requests are bounded; only before the snapshot may `/ready` be called for ever, and there
nothing has been started that has to end), so that this gives each of them its turn; Go's scheduler and `sync.Mutex`
starve nobody. It leaves out what may never happen: a fetch from Secrets
Manager (`FetchEnv`) and the calls of the service in `Shim`, the end of a startup command, the death of
sandboxd before the signal; in `Exec` a process that does not end by itself
after its input. `ShutdownEnds` thus holds although a handler may hang in its fetch:
the fifteen seconds of `Shutdown` see to it. Nothing is assumed of users, failures, drift, restarts or stops, nor
that a Sandbox ever comes to take a MicroVM: the properties must hold however
often, within the bounds, or however seldom these occur. Failures are bounded by
the budget, which stands for "the service answers in the end".

## 4. Proofs

All proofs are checked by TLAPS from the named assumptions on the constants
only: `None` is no identifier, flags are Boolean, the sets of Sandboxes, workers and
MicroVMs are arbitrary (also infinite), bounds are natural numbers. `WarmPool` has
finitely many fillers, at least one, and a pool size of at least one; in `Exec` each command has a pump of its own,
which is not the goroutine that calls `Exec`; minted tokens have some life left. In `Session` the
least maximum duration is positive (it is 60 seconds), `None` is no value and no environment, a prefix gives different
keys different names, and objects, ids of Secrets Manager and the marks `"literal"` and `"session"` are different.

| theorem | says |
|---|---|
| `ReconcilerProofs!TypeCorrect` | `Spec => []TypeOK` |
| `ReconcilerProofs!Invariance` | `Spec => []IInv` |
| `ReconcilerProofs!LeaksHaveCauses` | a live MicroVM is recorded or about to be, unless a stale read or a lost identifier has occurred |
| `ReconcilerProofs!OneVmHasCauses` | with the same two exceptions, at most one live MicroVM per Sandbox |
| `FinalizerProofs!FinalizerSurvives`, `FinalizerGuards` | `FinsInv` and `FinalizerGuardsVM`, without any exception |
| `FinalizerProofs!ReleaseIsLast` | `TerminatedBeforeRelease`: the finalizer goes after the MicroVM has ended, unless an old object was read |
| `FinalizerProofs!StatusIsOfVm` | `StatusHasVm`: what is published is about a MicroVM that the object records, with the same exception |
| `FinalizerProofs!SecretsHaveCauses` | `SecretLeakCauses`: a session secret is named by its object or about to be, unless an old object was read, put-secret-value failed after a create-secret whose answer was lost, or the annotation or the deletion failed |
| `FinalizerProofs!SecretsAreNamed` | `SecretsInv`, the invariant behind it |
| `FinalizerProofs!LifeIsImplemented` | `Reconciler` implements `SandboxLife` until a stale read or a lost identifier |
| `FinalizerProofs!LifeGuardsOneVm`, `ProviderGuardsOneVm` | in `SandboxLife`, and so in the provider, a Sandbox runs one MicroVM at most, shared with no other and guarded by the finalizer |
| `SessionProofs!TypeCorrect` | `Spec => []TypeOK` |
| `SessionProofs!SessionCorrect`, `EnvIsAsDeclared` | `SessionInv`; each variable has the value the PodSpec declares, but for the named exceptions |
| `SessionProofs!LifetimeIsMapped` | `LifetimeMapped`: the mapped maximum duration is in its range and ends the MicroVM when asked |
| `SessionProofs!PayloadHasNoSecret` | no payload has a value from a Secret |
| `SessionProofs!SnapBaselineFits` | the loop of `snapBaseline` returns the least valid baseline that covers the request, or the largest |
| `WarmPoolProofs!TypeCorrect`, `OvershootIsBounded`, `SharingHasCause`, `ForgettingHasCause` | `TypeOK`, `OvershootBounded`, `SharedCauses`, `ForgottenCauses`, however many fillers, Sandboxes and failures |
| `WarmPoolProofs!PromiseIsImplemented`, `PromiseGivesOnce` | `WarmPool` implements `PoolPromise` until a provider dies that leaves a stale list; `PoolPromise` gives no MicroVM to two Sandboxes |
| `TokenCacheProofs!Invariance`, `TokensOutliveRequests` | whoever mints holds the mutex, alone; no request travels with a token that was about to expire |
| `TokenCacheProofs!Implementation` | `TokenCache` implements `TokenProvider` |
| `ExecProofs!UsesTokenCache` | `Spec => TokenSpec`: `Exec`, `pumpStdin` and the rest are callers as `TokenCache` has them |
| `ExecProofs!RequestsHaveTokens`, `ProvidesTokens` | so the two results above hold of the composition |
| `ExecProofs!ExecTypeCorrect`, `StdinArrivesIntact`, `ResultsAreTrue` | `TypeOK`, `StdinIntact`, `ExecResult` |
| `ShimProofs!ShimTypeCorrect`, `EnvIsApplied`, `WorkspaceIsOwned`, `GateHasCause`, `StartupHasCause`, `LogHasCause` | `TypeOK`, `EnvApplied`, `WorkspaceOwned`, `GateCauses`, `StartupCauses`, `LogCauses`, however many calls and abandoned handlers |

**The invariant of the loop.** `LeakCauses` is not inductive: that `PatchId` may
overwrite `microvm-id` is harmless only because the annotation is empty, which
holds only because the worker saw it empty, the object has not changed since, and no other
worker has the key. `IInv` says so:

* `ObjectsOK`: the last version on its way is the current one; if none is, the cache
  is current. So a read either sees the real object or is marked `staleRead`.
* `HoldersOK`: the queue's invariant (`WqOK`), and busy workers hold different keys that are in
  `processing`. Its lemmas about Add, Get and Done are in `WorkQueueProofs`.
* `IdsOK`: recorded identifiers and identifiers in hand were issued, to that Sandbox.
* `GuardOK`, `KnownOK`, `TrackedOK`, unless `staleRead` or `lostId` is in
  `blame`: the finalizer is there while the MicroVM lives (so the object cannot
  vanish or be recreated under the worker); what a worker knows of its
  object is still true; and every live MicroVM is recorded or in hand.

The step lemma goes by classes of actions: steps that write nothing to the
object (`Sound*` and `Known*` lemmas), steps that write something other than
identifier and finalizers (`Gentle`), and one lemma each for those that matter
(`SoundRelease`, `SoundPatchId`, `SoundObtain`, `KnownRead`, `KnownTerminate`, `KnownAddFinalizer`). `LeakCauses`
is then `TrackedOK` with its exceptions, and `OneVmCauses` follows as one
object records one identifier, and a worker with an identifier in hand sees none recorded.

**The finalizer.** `FinalizerGuardsVM` has no exception for stale reads, so `IInv` is of no use:
a worker may hold an object of any age, and `patchFinalizers` sends a list computed from it. `FinsInv` looks at
all versions of an object from the one in the cache to the newest (`Nth`), since any of them is what a worker
may read. Within them the finalizer comes or goes but not both, it goes from a deleted object only, and a guarded and
deleted one stays deleted (`VersionsOK`). A worker that adds the finalizer or relies on it has no version behind it from
which it was dropped; one that removes it has none in which it was added, nor a guarded one that is not deleted
(`HoldsFins`, `Doomed`). So the write of an old list cannot strip a finalizer that is
still needed. The proof goes by what a step does to the versions: nothing, one delivered, a relist, or a new one
that is no more than an edit of the last (`Calm`, for which `NarrowsOK` and `FollowsCalm` do the work), and
only `AddFinalizer` and `Release` need lemmas of their own.

**Status and secrets.** `ReleaseIsLast` and `StatusIsOfVm` need nothing but `IInv`: what a worker that has not
read an old object knows (`KnownOK`) covers the moment of the write. For the secret it does not: `SecretsInv`
adds that a stored secret belongs to an object with the finalizer that names it, or is about to, and that a worker that
deletes an object knows whether it names a secret and has none left in store when it releases the object. It is proved
by itself (`SecretsAreNamed`), and `SecretLeakCauses` is a consequence.

**The life of a Sandbox.** `SandboxLife` has one step where the provider has up to eight calls: `AddFinalizer` is
`Hold`, `ColdRun` and `WarmAdopt` are `Obtain`, `PatchId` is `Record`, `Release` is `Release`, `Terminate` and
what the service does by itself are `End`; users' edits are `Create`, `Delete`, `Vanish`, or, like
everything else, invisible. The guards are what has to be proved: from `TrackedOK`, `IdsOK` and
`GuardOK` nothing runs for an object without the finalizer (`UnheldQuiet`), from `HoldersOK`
nothing for the object of a worker but what this worker knows (`OnlyMine`), and from `FinsInv` an object that is
released is being deleted. Once a reconcile has worked on an old object, or an identifier is lost, `SandboxLife` promises
nothing (`excused`): the runs `one_vm` and `gone` show what happens then. That the life is worth implementing is a
theorem about `SandboxLife` alone: `LifeGuardsOneVm` derives from its guards, one step of the life at a time, that what
runs for a Sandbox is one MicroVM, the one it names if it names one, for nobody else, while the object is there and held
(`LifeOf`, which says more than `OneGuardedVm` of the identifier, to be inductive). `ProviderGuardsOneVm` joins the two.

**Session.** `TypeInv` strengthens `TypeOK` by what the hook needs: it fetches
a session secret only when one was put, and a put secret stays. `PayloadInv` adds that the plain part of a pass
in progress is free of secret values, and that what is launched is what the
pass holds. `SessionInv` is behind `EnvAsDeclared` and `LifetimeMapped`. What a pass has collected so far reflects
the entries behind it (`PassOK`, `Collected`): each variable has the value of the last of them that
sets it, of a version not older than the pass. This is the invariant of a fold written for one step of it, so
that no induction over the list of entries is needed; that a nonempty set of entries has a last one
comes with the value. A MicroVM keeps what its pass collected, and the session secret it has still to fetch is not older
than that pass, however many passes follow (`VmOK`): passes replace the secret, but with values of newer versions.
`EnvIsAsDeclared` then joins the two routes as the hook does (`LastOfTwo`). `DurationsOK` keeps the time at which the spec was mapped with
the duration mapped from it, and the lemmas about division by `Second` (`DurationBounds`) do the rest.

**The pool.** `PoolInv` says of each list (in memory, saved, and every copy under way)
that it names issued MicroVMs, none twice, and not too many (`Lists`); that whoever
waits for a launch has an identifier of its own (`Holding`, `Distinct`); that nothing but
the load happens before the pool is loaded (`Quiet`); and, for the two `...Causes`, where each
MicroVM is: what is offered, in the pool or in a saved list that a provider is about to
load, has not been given away unless `staleSave` is in `blame` (`Apart`), and
what lives is on some list unless something named has lost it (`Remember`). `Apart` needs the
saved list only while no provider is up, which is why a stale list does no harm before a death.

**The promise of the pool.** `PoolPromise` has the MicroVMs ever launched for the pool, those of them that this provider
has still to offer (`fresh`, what the fillers hold), those on offer, and those given. What is on offer (`OnOffer`) is the
list in memory while a provider serves, the saved list before one has read it, and, while one loads it, what it
has read and not yet found dead. `Launch`, `AppendFree` and `PopWarm` are `Launch`, `Offer` and `Take`; the load and the drain
drop a part of the offer; saves and their late patches are invisible while a provider serves, however stale; a death (`Die`) is
where the saved list becomes the offer, and where `Apart` is needed: it must name nothing that was given, or `staleSave`
excuses it. That each launch is a new one needs `Issued`, beside `PoolInv`: the MicroVMs that have been used are those launched
for the pool. Both `ImplementsPromise` and `SharedCauses` speak of double adoption, but `PoolPromise` also
says how a MicroVM gets to be offered: once by the provider that launched it, and again only after a death and if not given.
`PromiseGivesOnce` is about `PoolPromise` alone.

**Tokens.** `TokenInv` says that `call[c].at = "mint"` exactly for the holder of the mutex, and that the cached
token is then still the one found wanting. With it each step of `TokenCache` is a step of
`TokenProvider` or a stutter (`Call` is `Ask`, `UseCached` is `AnswerOld`, `Minted` is `AnswerNew`,
`MintFails` is `Refuse`, and `StartMint` is invisible): without the mutex the second mint would answer
while the token at hand is fresh, which `TokenProvider` does not allow.

**Exec.** Composition first: every step of `Exec` is a step of `TokenCache` or leaves it
alone (`TokenStep`). `FeedInv` is about the input: what a process has is what its
pump has read, but for the last piece when that is being sent or its sending has failed (`Feed`), the init
event that starts a pump comes once (`Inits`), and the pieces of different pumps are
different (`Separate`), as the reader yields each once. `ResultInv` relates the messages under way
to the process: an exit event is preceded by as many outputs as the process wrote and `Exec` has
not, and an end without one is there only if the stream was cut.

**The shim.** `Control` is about the service and the handlers: it waits for the one handler it has not given up
(`Calling`), at most one call of `/run` is not given up, and after its 200 any other that is still at work was
there before it (`RunOrder`), and nothing is called after `/terminate` (`EndOrder`). It is
proved by kinds of steps (a handler moves, returns, is called, is left, or none of these).
`Solo` follows: a `/run` that found nobody at work is the only one to touch environment and
file, which makes `EnvInv`, `CmdInv`, `OldFiles`, `DataFiles` and `LogInv` inductive, one step of the handler at a time.
`LogInv` follows the log through such a `/run`: what it finds it reads and removes, and from `Prepare` on its own command
is among the writers, since no other handler can remove or empty the log any more.

**Only model-checked.** `DeletionCompletes`, `Converges`, `PoolRefills`, `ExecReturns`,
`CommandReaped` and `ShutdownEnds` are
liveness, which depends on fairness and `ENABLED` and is out of the prover's reach; so is what a
function recursive over data of any length computes. `SnapBaseline` is recursive over a list of five, which the
proof of `SnapBaselineFits` unrolls. All invariants and all action
properties of the passing runs in section 3 are proved, and so are the three refinements.

## 5. Findings

Each is a sentence of the documentation that a run refutes; the
`...Causes` properties say how far the sentence does hold.

* `one_vm`: a reconcile that reads the cache before the `microvm-id` patch has
  reached it provisions the same Sandbox again (`provider/main.go:313`), without any failure.
* `gone`: deletion that reads such an object releases the finalizer and leaves
  the MicroVM running (`provider/main.go:288`).
* `adopted`: a claim removes the warm-pool label, by which the provider knew
  that it owns the Sandbox; its finalizer is then never released
  (`provider/main.go:230`), unless `--back-all-sandboxes` or the annotation is set.
* `pool_forgets`: a provider that dies between a launch and the patch that lists
  it leaves a MicroVM that the next one does not know (`provider/main.go:653`).
* `startup_log`: the goroutine that waits for the startup command is started before `cmd.Start`
  (`shim/main.go:333-339`). It may find no process, close the log and be gone: the command starts with a closed
  file as its output, which is lost (`StartupLogged`), and the process is never reaped (the exception in `CommandReaped`).

Seen while modelling, without a run: `warmEligible` does not look at connectors, idle policy, maximum duration or role
(`provider/main.go:421`), so a Sandbox that asks for others adopts a MicroVM without them, where its
comment at `provider/main.go:419-420` promises one that "can be adopted as-is"; a literal of the PodSpec that overrides a
key of a Secret loses, since the hook puts the secrets over the payload (`shim/main.go:269`, the exception
`Shadowed` in `EnvAsDeclared`), and a failed lookup of the role is taken for no role (`provider/main.go:849`,
`SecretsMissed`); the memory baseline that `mapSandbox`
computes is logged and never sent by `awsRun`, though the documentation maps the
memory request to it; `serviceFQDN` is published with every state, also while the
MicroVM is `PENDING`, unlike the comment at `provider/main.go:953-955`; the pool may hold MicroVMs that
are not `RUNNING`, after thirty polls or by the idle policy, unlike the
comment at `provider/main.go:641`.

In the shim and the SDK, also without a run, since the properties name these as
exceptions or the documentation says little:

* `/run` returns 200 when the fetch of the secrets, the write of `session.env` or the start of
  the command has failed (`shim/main.go:264-294`): these are the exceptions in `EnvApplied` and `StartupCauses`.
* The handlers of abandoned calls go on. A `/run` that the service calls again has two handlers, of which
  the older can write its poorer environment last, start the command twice, empty or remove the log of the other's
  command (the exceptions of `LogCauses`), or remove what clients have stored since. One that goes on after `/terminate`
  can open the gate again (`GateCauses`).
* SIGTERM cancels the context under which sandboxd was started, which kills it at once: requests in flight
  fail while `Shutdown` waits for them, unlike the graceful shutdown of `DESIGN.md`.
* `/suspend` only logs, `/validate` does what `/ready` does, and `/terminate` only shuts the gate,
  where `DESIGN.md:113-118` has the shim drain, execute something, and shut sandboxd down.
* Neither `/resume` nor the gate looks at sandboxd's health; when it has died, nothing restarts it.
* A `WriteStdin` that fails ends `pumpStdin` without an end of input: the process, and with it
  `Exec`, may wait for ever (`sdk-fork/microvm.go:337`, the exception in `ExecReturns`).
* `DESIGN.md:145-146` says that `RefreshingToken` mints a fresh token per connection or RPC; the code, like its own
  comment, caches one until shortly before its expiry (`sdk-fork/microvm.go:90-102`), which is what `TokenCache` has.
* `Exec` returns 0 when the stream ends in order without an exit event (`sdk-fork/microvm.go:299`).
* With `--leader-elect`, `main` returns when the lease is lost without waiting for the drain (`WarmPool.Quit`).

## 6. Not modelled, and abstractions

* Wording of conditions and log lines, names of secrets, URL and token formats.
* `Reconciler`: contents of specs (in `Session`); a failing list or watch of the
  informer (a lag that ends); the delay of a rate-limited retry (it fires at any time).
  The annotation and the status that one `writeStatus` makes are two actions, as in the code.
* A patch that fails is taken not to have had an effect; the launch and the creation of the session secret may have
  had theirs (`RunLost`, `CreateLost`).
* `WarmPool`: the thirty polls are one wait that may end before or after `RUNNING`;
  two providers at the same time.
* `Session`: one Sandbox whose spec does not change; deletion and stale reads (in
  `Reconciler`); the startup command, working directory and ports only as set or
  not. Specs that the guards reject never begin a pass.
* Images, manifests, IAM policies, examples: no state. The extensions manager's
  source is not here; what it does to a Sandbox is `ClaimAdopt`.
* `Shim`: the content of environments (in `Session`), ports and headers of the proxy, log lines, the exec gRPC
  port (which does not pass the gate). The startup command's directory is the workspace, as it is by
  default; in another one its log is out of the reach of the reset. A fetch that fails part of the way counts as not whole.
* `TokenCache`: what a token says; one token per MicroVM.
* `Exec`: signals and the size of outputs; a `Start` that fails in any way, also before the RPC, is `StartFails`.
* `NewMicrovm`, `Run`, `Write`, `Read`, `List`, `Close` of the SDK: checks of options and calls of
  the upstream SDK, which is not in this repository; `StaticToken`: no state.
* Leader election itself (client-go's) and two providers that overlap.

## 7. Plan

In order of importance:

1. *done*: `MicrovmService`, `WorkQueue`, `Reconciler`, its runs and the proofs of
   `TypeOK`, `IInv`, `LeakCauses`, `OneVmCauses`.
2. *done*: `WarmPool`, `Session` and their runs; the invariants of `WarmPool` and
   `SecretsOutOfPayload` proved.
3. *done*: `Shim`, its run and the proofs of its invariants.
4. *done*: `TokenProvider`, `TokenCache`, `Exec`, one run that composes them, the
   refinement and the invariants proved.
5. *partly*: leader handover. `WarmPool.Quit` is a provider that leaves; two providers that
   overlap in `Reconciler` and `WarmPool` are not modelled.
6. *done*: `SandboxLife`, an abstract specification of a Sandbox's life, refined by `Reconciler` while
   nothing is blamed; proved.
7. *done*: proofs of `FinalizerGuardsVM`, `StatusHasVm`, `SecretLeakCauses`,
   `TerminatedBeforeRelease` from extensions of `IInv`; of `LifetimeMapped` and
   `EnvAsDeclared` of `Session`.
8. *done*: `PoolPromise`, what a pool promises to the Sandboxes that take from it, refined by `WarmPool` until a
   provider dies that leaves a stale list; proved.
