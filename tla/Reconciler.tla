----------------------------- MODULE Reconciler -----------------------------
(***************************************************************************)
(* The reconciler of src/provider/main.go: the informer that feeds a       *)
(* rate-limited work queue, the workers that drive one Sandbox object      *)
(* each, and everything they call: the Kubernetes API server, the          *)
(* lambda-microvms service and Secrets Manager.                            *)
(*                                                                         *)
(* A worker reads a Sandbox from the informer's cache, which may lag       *)
(* behind the API server, and then makes a series of calls; each call is   *)
(* one action, so that users, other workers, the informer, the service     *)
(* and a restart of the provider can act between any two of them.          *)
(***************************************************************************)
EXTENDS Naturals, FiniteSets, Sequences, MicrovmService, WorkQueue

CONSTANTS
  Sandboxes,   \* names (keys) of Sandbox objects
  Workers,     \* the goroutines of runWorker
  VMs,         \* identifiers the service can issue
  None,        \* no Sandbox, no MicroVM
  BackAll,     \* the flag --back-all-sandboxes
  Annotated,   \* Sandboxes created with the backend annotation
  Labelled,    \* Sandboxes created with the warm-pool label
  Mappable,    \* Sandboxes whose PodSpec mapSandbox accepts
  HasPorts,    \* Sandboxes that declare ports
  HasSecret,   \* Sandboxes with an env value from a Kubernetes Secret
  WarmStates,  \* the states of the MicroVMs in the warm pool, {} for no pool
  MaxLag,      \* bound on the watch events in flight for a Sandbox
  Budget       \* bounds on user operations and on mishaps: failed calls,
               \* spontaneous changes of a MicroVM, restarts

BudgetKinds == {"ops", "mishaps"}

ASSUME NoneAssumption == None \notin VMs /\ None \notin Sandboxes
ASSUME FlagAssumption == BackAll \in BOOLEAN
ASSUME SubsetAssumption ==
  /\ WarmStates \subseteq Live
  /\ HasSecret \subseteq Sandboxes
ASSUME BudgetAssumption == Budget \in [BudgetKinds -> Nat]
ASSUME LagAssumption == MaxLag \in Nat \ {0}

VARIABLES
  api,      \* Sandbox objects on the API server
  watch,    \* per Sandbox, the versions the informer has not received yet
  cache,    \* the informer's indexer
  wq,       \* the work queue
  timers,   \* keys with an AddAfter, an AddRateLimited or a list event to come
  pc,       \* per worker, the call it makes next
  job,      \* per worker, the key and the object it works on
  vm,       \* state of every MicroVM identifier
  asm,      \* Sandboxes with a session secret in Secrets Manager
  owner,    \* history: the Sandbox a MicroVM was obtained for
  blame,    \* history: the irregularities met so far
  left      \* what is left of Budget

k8sVars == <<api, watch>>
ctlVars == <<cache, wq, timers>>
jobVars == <<pc, job>>
awsVars == <<vm, asm, owner>>
envVars == <<blame, left>>
vars == <<api, watch, cache, wq, timers, pc, job, vm, asm, owner, blame, left>>

-----------------------------------------------------------------------------
(* Sandbox objects. *)

\* The finalizer of the provider, and one of somebody else.
Ours == "provider"
Other == "foreign"

\* What the provider reads and writes of a Sandbox: its finalizers, deletion
\* timestamp, warm-pool label, spec.operatingMode, the annotations for the
\* MicroVM id, session secret, ports and state, and of its status the Ready
\* condition and serviceFQDN.  An object that does not exist is Absent.
Sandbox ==
  [exists : BOOLEAN, fins : SUBSET {Ours, Other}, del : BOOLEAN,
   warm : BOOLEAN, mode : {"Running", "Suspended"},
   id : VMs \cup {None}, sec : BOOLEAN, ports : BOOLEAN, st : VmStates,
   ready : BOOLEAN, fqdn : BOOLEAN]

Absent ==
  [exists |-> FALSE, fins |-> {}, del |-> FALSE, warm |-> FALSE,
   mode |-> "Running", id |-> None, sec |-> FALSE, ports |-> FALSE,
   st |-> "UNUSED", ready |-> FALSE, fqdn |-> FALSE]

\* A Sandbox as its creator leaves it, with or without the warm-pool label.
Fresh(label) == [Absent EXCEPT !.exists = TRUE, !.warm = label]

\* owns(): opted in by flag, annotation or warm-pool label.
Owns(s, u) == BackAll \/ s \in Annotated \/ u.warm

\* The API server removes a deleted object when its last finalizer goes.
Stored(o) == IF o.del /\ o.fins = {} THEN Absent ELSE o

CanWrite(s) == Len(watch[s]) < MaxLag

\* A write to the API server; the informer will see the version it makes.  A
\* write that changes nothing makes no version, except a status write in a
\* new second, which carries a new lastTransitionTime.
Version(s, o, tick) ==
  /\ CanWrite(s)
  /\ api' = [api EXCEPT ![s] = Stored(o)]
  /\ watch' = IF Stored(o) = api[s] /\ ~tick
                THEN watch
                ELSE [watch EXCEPT ![s] = Append(@, Stored(o))]

Write(s, o) == Version(s, o, FALSE)
WriteStatus(s, o) == \E tick \in BOOLEAN : Version(s, o, tick)

-----------------------------------------------------------------------------
(* Workers. *)

NoJob == [key |-> None, u |-> Absent, id |-> None, st |-> "UNUSED"]

\* The calls that patch the Sandbox object.
ApiCalls == {"release", "addFin", "annStatus", "status", "ports", "annSecret",
             "patchId", "condRun", "condErr"}

\* The calls that run the aws command.
AwsCalls == {"terminate", "delSecret", "getVm", "suspend", "resume",
             "createSecret", "updateSecret", "provision"}

\* All the places at which a worker can be; "map" is mapSandbox, which reads
\* ConfigMaps and Secrets.
Places == {"idle", "read", "map"} \cup ApiCalls \cup AwsCalls

Busy(w) == pc[w] # "idle"
Key(w) == job[w].key
Seen(w) == job[w].u           \* the object the worker took from the cache
Real(w) == api[job[w].key]    \* the same object as the API server has it

Goto(w, place) == pc' = [pc EXCEPT ![w] = place] /\ UNCHANGED job

\* The rest of runWorker once reconcile has returned: an error or a requeue
\* delay leaves a timer for the key, then the key is done.
End(w, result) ==
  /\ timers' = IF result = "ok" THEN timers ELSE timers \cup {Key(w)}
  /\ wq' = WqDone(wq, Key(w))
  /\ pc' = [pc EXCEPT ![w] = "idle"]
  /\ job' = [job EXCEPT ![w] = NoJob]
  /\ UNCHANGED cache

\* The finalizer list a worker sends is computed from the object it has read
\* and replaces the whole list.
AddedFins(w) == Seen(w).fins \cup {Ours}
\* Mutant: the finalizer is compared with the wrong string.
RemovedFinsMismatch(w) == Seen(w).fins

RemovedFins(w) == Seen(w).fins \ {Ours}

\* Mutant: an object that has its MicroVM is provisioned again.
AfterFinalizerAlways(u) == "map"

\* Where reconcile goes once the finalizer is in place.
AfterFinalizer(u) == IF u.id # None THEN "getVm" ELSE "map"
AfterPorts(s) == IF s \in HasSecret THEN "createSecret" ELSE "provision"
AfterMap(s) == IF s \in HasPorts THEN "ports" ELSE AfterPorts(s)

\* The API server and the service refuse calls that make no sense: a patch of
\* an object that is gone, a new finalizer on one that is being deleted, a
\* suspend or resume in the wrong state, a secret created twice or updated
\* before it exists, a run beyond the quota.
Accepted(w) ==
  CASE pc[w] = "addFin" ->
         Real(w).exists /\ (Real(w).del => AddedFins(w) \subseteq Real(w).fins)
    [] pc[w] = "release" ->
         Real(w).exists /\ (Real(w).del => RemovedFins(w) \subseteq Real(w).fins)
    [] pc[w] \in ApiCalls \ {"addFin", "release"} -> Real(w).exists
    [] pc[w] = "suspend" -> vm[Seen(w).id] = "RUNNING"
    [] pc[w] = "resume"  -> vm[Seen(w).id] = "SUSPENDED"
    [] pc[w] = "createSecret" -> Key(w) \notin asm
    [] pc[w] = "updateSecret" -> Key(w) \in asm
    [] pc[w] = "provision" -> \E v \in VMs : vm[v] = "UNUSED"
    [] pc[w] = "map" -> Key(w) \in Mappable
    [] OTHER -> TRUE

\* Mutant: a failed terminate is only logged, like a failed delete-secret.
OnErrorTerminateLogged(w) ==
  CASE pc[w] \in {"terminate", "delSecret"} ->
         Goto(w, "release") /\ UNCHANGED ctlVars
    [] pc[w] = "ports" -> Goto(w, AfterPorts(Key(w))) /\ UNCHANGED ctlVars
    [] pc[w] = "createSecret" -> Goto(w, "updateSecret") /\ UNCHANGED ctlVars
    [] pc[w] \in {"map", "updateSecret", "provision"} ->
         Goto(w, "condErr") /\ UNCHANGED ctlVars
    [] OTHER -> End(w, "error")

\* The error path of the call a worker makes: the deletion of the session
\* secret and the ports annotation are only logged or ignored, a secret that
\* cannot be created is updated, three errors become a Ready=False condition,
\* the others end the reconcile.
OnError(w) ==
  CASE pc[w] = "delSecret" -> Goto(w, "release") /\ UNCHANGED ctlVars
    [] pc[w] = "ports" -> Goto(w, AfterPorts(Key(w))) /\ UNCHANGED ctlVars
    [] pc[w] = "createSecret" -> Goto(w, "updateSecret") /\ UNCHANGED ctlVars
    [] pc[w] \in {"map", "updateSecret", "provision"} ->
         Goto(w, "condErr") /\ UNCHANGED ctlVars
    [] OTHER -> End(w, "error")

\* What a call that fails makes the provider forget.
Loss(w) ==
  CASE pc[w] = "patchId"   -> {"lostId"}
    [] pc[w] = "annSecret" -> {"lostSecret"}
    [] pc[w] = "updateSecret" -> IF Key(w) \in asm THEN {"lostSecret"} ELSE {}
    [] pc[w] = "delSecret" -> {"asmDelete"}
    [] OTHER -> {}

Spend(kind) ==
  /\ left[kind] > 0
  /\ left' = [left EXCEPT ![kind] = @ - 1]

-----------------------------------------------------------------------------
(* runWorker and reconcileKey: take a key, read the object, decide. *)

Get(w) ==
  /\ pc[w] = "idle" /\ wq.queue # <<>>
  /\ wq' = WqGet(wq)
  /\ job' = [job EXCEPT ![w].key = Head(wq.queue)]
  /\ pc' = [pc EXCEPT ![w] = "read"]
  /\ UNCHANGED <<k8sVars, cache, timers, awsVars, envVars>>

\* The object is gone, not owned, or deleted and already released.
ReadNothing(w) ==
  /\ pc[w] = "read"
  /\ LET u == cache[Key(w)] IN
       ~u.exists \/ ~Owns(Key(w), u) \/ (u.del /\ Ours \notin u.fins)
  /\ End(w, "ok")
  /\ UNCHANGED <<k8sVars, awsVars, envVars>>

\* The worker keeps a copy of the cached object and goes on with it.
Take(w, place) ==
  /\ job' = [job EXCEPT ![w].u = cache[Key(w)]]
  /\ pc' = [pc EXCEPT ![w] = place]
  /\ blame' = IF watch[Key(w)] = <<>> THEN blame ELSE blame \cup {"staleRead"}
  /\ UNCHANGED <<k8sVars, ctlVars, awsVars, left>>

\* Mutant: the MicroVM is left running.
ReadDeletionNoTerminate(w) ==
  /\ pc[w] = "read"
  /\ LET u == cache[Key(w)] IN
       /\ u.exists /\ Owns(Key(w), u) /\ u.del /\ Ours \in u.fins
       /\ Take(w, IF u.sec THEN "delSecret" ELSE "release")

ReadDeletion(w) ==
  /\ pc[w] = "read"
  /\ LET u == cache[Key(w)] IN
       /\ u.exists /\ Owns(Key(w), u) /\ u.del /\ Ours \in u.fins
       /\ Take(w, IF u.id # None THEN "terminate"
                  ELSE IF u.sec THEN "delSecret" ELSE "release")

\* Mutant: no finalizer is added before the MicroVM is launched.
ReadLiveNoFinalizer(w) ==
  /\ pc[w] = "read"
  /\ LET u == cache[Key(w)] IN
       /\ u.exists /\ Owns(Key(w), u) /\ ~u.del
       /\ Take(w, AfterFinalizer(u))

ReadLive(w) ==
  /\ pc[w] = "read"
  /\ LET u == cache[Key(w)] IN
       /\ u.exists /\ Owns(Key(w), u) /\ ~u.del
       /\ Take(w, IF Ours \in u.fins THEN AfterFinalizer(u) ELSE "addFin")

-----------------------------------------------------------------------------
(* reconcile, deletion: terminate, drop the secret, release the finalizer. *)

\* Mutant: a Sandbox with a MicroVM keeps its session secret.
TerminateKeepSecret(w) ==
  /\ pc[w] = "terminate"
  /\ vm' = [vm EXCEPT ![Seen(w).id] = Terminated(@)]
  /\ Goto(w, "release")
  /\ UNCHANGED <<k8sVars, ctlVars, asm, owner, envVars>>

Terminate(w) ==
  /\ pc[w] = "terminate"
  /\ vm' = [vm EXCEPT ![Seen(w).id] = Terminated(@)]
  /\ Goto(w, IF Seen(w).sec THEN "delSecret" ELSE "release")
  /\ UNCHANGED <<k8sVars, ctlVars, asm, owner, envVars>>

DeleteSecret(w) ==
  /\ pc[w] = "delSecret"
  /\ asm' = asm \ {Key(w)}
  /\ Goto(w, "release")
  /\ UNCHANGED <<k8sVars, ctlVars, vm, owner, envVars>>

Release(w) ==
  /\ pc[w] = "release" /\ Accepted(w)
  /\ Write(Key(w), [Real(w) EXCEPT !.fins = RemovedFins(w)])
  /\ End(w, "ok")
  /\ UNCHANGED <<awsVars, envVars>>

-----------------------------------------------------------------------------
(* reconcile, provisioned: drive the MicroVM to spec.operatingMode, report. *)

AddFinalizer(w) ==
  /\ pc[w] = "addFin" /\ Accepted(w)
  /\ Write(Key(w), [Real(w) EXCEPT !.fins = AddedFins(w)])
  /\ Goto(w, AfterFinalizer(Seen(w)))
  /\ UNCHANGED <<ctlVars, awsVars, envVars>>

\* Mutant: a suspended MicroVM is never resumed.
GetMicrovmNoResume(w) ==
  /\ pc[w] = "getVm"
  /\ LET u == Seen(w)
         st == vm[u.id] IN
       /\ job' = [job EXCEPT ![w].st = st]
       /\ pc' = [pc EXCEPT ![w] =
            IF u.mode = "Suspended" /\ st = "RUNNING" THEN "suspend"
            ELSE "annStatus"]
  /\ UNCHANGED <<k8sVars, ctlVars, awsVars, envVars>>

GetMicrovm(w) ==
  /\ pc[w] = "getVm"
  /\ LET u == Seen(w)
         st == vm[u.id] IN
       /\ job' = [job EXCEPT ![w].st = st]
       /\ pc' = [pc EXCEPT ![w] =
            IF u.mode = "Suspended" /\ st = "RUNNING" THEN "suspend"
            ELSE IF u.mode = "Running" /\ st = "SUSPENDED" THEN "resume"
            ELSE "annStatus"]
  /\ UNCHANGED <<k8sVars, ctlVars, awsVars, envVars>>

\* An accepted suspend or resume; the state reported is the one it leads to.
Switch(w, place, st) ==
  /\ pc[w] = place /\ Accepted(w)
  /\ vm' = [vm EXCEPT ![Seen(w).id] = st]
  /\ job' = [job EXCEPT ![w].st = st]
  /\ pc' = [pc EXCEPT ![w] = "annStatus"]
  /\ UNCHANGED <<k8sVars, ctlVars, asm, owner, envVars>>

\* Mutant: the operating mode is reported in place of the service's state.
SuspendModeName(w) == Switch(w, "suspend", "Suspended")

Suspend(w) == Switch(w, "suspend", "SUSPENDING")
Resume(w) == Switch(w, "resume", "RESUMING")

\* writeStatus patches the annotations first, the status after.
AnnotateStatus(w) ==
  /\ pc[w] = "annStatus" /\ Accepted(w)
  /\ Write(Key(w), [Real(w) EXCEPT !.st = job[w].st])
  /\ Goto(w, "status")
  /\ UNCHANGED <<ctlVars, awsVars, envVars>>

PatchStatus(w) ==
  /\ pc[w] = "status" /\ Accepted(w)
  /\ WriteStatus(Key(w), [Real(w) EXCEPT !.ready = job[w].st = "RUNNING",
                                         !.fqdn = TRUE])
  /\ End(w, IF job[w].st \in Settled THEN "ok" ELSE "requeue")
  /\ UNCHANGED <<awsVars, envVars>>

-----------------------------------------------------------------------------
(* reconcile, not provisioned: map, mirror the secrets, obtain a MicroVM. *)

MapSandbox(w) ==
  /\ pc[w] = "map" /\ Accepted(w)
  /\ Goto(w, AfterMap(Key(w)))
  /\ UNCHANGED <<k8sVars, ctlVars, awsVars, envVars>>

AnnotatePorts(w) ==
  /\ pc[w] = "ports" /\ Accepted(w)
  /\ Write(Key(w), [Real(w) EXCEPT !.ports = TRUE])
  /\ Goto(w, AfterPorts(Key(w)))
  /\ UNCHANGED <<ctlVars, awsVars, envVars>>

\* awsPutSecret runs create-secret and, if that fails, put-secret-value.
CreateSecret(w) ==
  /\ pc[w] = "createSecret" /\ Accepted(w)
  /\ asm' = asm \cup {Key(w)}
  /\ Goto(w, "annSecret")
  /\ UNCHANGED <<k8sVars, ctlVars, vm, owner, envVars>>

\* create-secret took effect, but the command fails: put-secret-value mends it.
CreateLost(w) ==
  /\ pc[w] = "createSecret" /\ Accepted(w)
  /\ asm' = asm \cup {Key(w)}
  /\ Goto(w, "updateSecret")
  /\ UNCHANGED <<k8sVars, ctlVars, vm, owner, envVars>>

UpdateSecret(w) ==
  /\ pc[w] = "updateSecret" /\ Accepted(w)
  /\ Goto(w, "annSecret")
  /\ UNCHANGED <<k8sVars, ctlVars, awsVars, envVars>>

PutSecret(w) == CreateSecret(w) \/ CreateLost(w) \/ UpdateSecret(w)

AnnotateSecret(w) ==
  /\ pc[w] = "annSecret" /\ Accepted(w)
  /\ Write(Key(w), [Real(w) EXCEPT !.sec = TRUE])
  /\ Goto(w, "provision")
  /\ UNCHANGED <<ctlVars, awsVars, envVars>>

\* The service hands out an identifier for the worker's Sandbox.
Issue(w, v, st) ==
  /\ pc[w] = "provision" /\ vm[v] = "UNUSED"
  /\ vm' = [vm EXCEPT ![v] = st]
  /\ owner' = [owner EXCEPT ![v] = Key(w)]

Obtain(w, v, st) ==
  /\ Issue(w, v, st)
  /\ job' = [job EXCEPT ![w].id = v]
  /\ pc' = [pc EXCEPT ![w] = "patchId"]
  /\ UNCHANGED <<k8sVars, ctlVars, asm, envVars>>

ColdRun(w) == \E v \in VMs : Obtain(w, v, "PENDING")

\* popWarm, for a Sandbox that warmEligible accepts; the pool may be empty.
WarmAdopt(w) ==
  /\ Key(w) \notin HasSecret
  /\ \E v \in VMs, st \in WarmStates : Obtain(w, v, st)

\* run-microvm took effect, but the command fails or its output is lost.
RunLost(w) ==
  /\ \E v \in VMs : Issue(w, v, "PENDING")
  /\ Spend("mishaps")
  /\ blame' = blame \cup {"lostId"}
  /\ Goto(w, "condErr")
  /\ UNCHANGED <<k8sVars, ctlVars, asm>>

\* Mutant: the identifier is missing from the annotations patched.
PatchIdStateOnly(w) ==
  /\ pc[w] = "patchId" /\ Accepted(w)
  /\ Write(Key(w), [Real(w) EXCEPT !.st = "PENDING"])
  /\ Goto(w, "condRun")
  /\ UNCHANGED <<ctlVars, awsVars, envVars>>

PatchId(w) ==
  /\ pc[w] = "patchId" /\ Accepted(w)
  /\ Write(Key(w), [Real(w) EXCEPT !.id = job[w].id, !.st = "PENDING"])
  /\ Goto(w, "condRun")
  /\ UNCHANGED <<ctlVars, awsVars, envVars>>

\* writeCondition: Ready=False, serviceFQDN is left as it is.
PatchCondition(w, place, result) ==
  /\ pc[w] = place /\ Accepted(w)
  /\ WriteStatus(Key(w), [Real(w) EXCEPT !.ready = FALSE])
  /\ End(w, result)
  /\ UNCHANGED <<awsVars, envVars>>

CondProvisioning(w) == PatchCondition(w, "condRun", "requeue")
CondError(w) == PatchCondition(w, "condErr", "ok")

-----------------------------------------------------------------------------
(* Calls that fail. *)

\* The callee refuses: the error path is not a fault, it is taken whenever
\* the call makes no sense.
Rejected(w) ==
  /\ Busy(w) /\ ~Accepted(w)
  /\ OnError(w)
  /\ blame' = blame \cup Loss(w)
  /\ UNCHANGED <<k8sVars, awsVars, left>>

\* The call fails without effect: network, throttling, credentials.
CallFails(w) ==
  /\ pc[w] \in ApiCalls \cup AwsCalls \cup {"map"} /\ Accepted(w)
  /\ Spend("mishaps")
  /\ OnError(w)
  /\ blame' = blame \cup Loss(w)
  /\ UNCHANGED <<k8sVars, awsVars>>

-----------------------------------------------------------------------------
(* The informer and the queue's timers. *)

\* The next version arrives: the indexer is updated, the handler enqueues.
Deliver(s) ==
  /\ watch[s] # <<>>
  /\ cache' = [cache EXCEPT ![s] = Head(watch[s])]
  /\ watch' = [watch EXCEPT ![s] = Tail(@)]
  /\ wq' = WqAdd(wq, s)
  /\ UNCHANGED <<api, timers, jobVars, awsVars, envVars>>

Fire(s) ==
  /\ s \in timers
  /\ timers' = timers \ {s}
  /\ wq' = WqAdd(wq, s)
  /\ UNCHANGED <<k8sVars, cache, jobVars, awsVars, envVars>>

\* The informer's resync hands every cached object to the handler again.
Resync(s) ==
  /\ cache[s].exists
  /\ wq' = WqAdd(wq, s)
  /\ UNCHANGED <<k8sVars, cache, timers, jobVars, awsVars, envVars>>

\* The provider dies and another one starts: workers, queue and cache are
\* lost; the new one lists the objects, and their Add events are to come.
Restart ==
  /\ Spend("mishaps")
  /\ cache' = api
  /\ watch' = [s \in Sandboxes |-> <<>>]
  /\ wq' = WqEmpty
  /\ timers' = {s \in Sandboxes : api[s].exists}
  /\ pc' = [w \in Workers |-> "idle"]
  /\ job' = [w \in Workers |-> NoJob]
  /\ blame' = blame \cup UNION {Loss(w) : w \in {x \in Workers :
                         pc[x] \in {"patchId", "annSecret", "updateSecret"}}}
  /\ UNCHANGED <<api, awsVars>>

-----------------------------------------------------------------------------
(* Users, other controllers and the service. *)

Edit(s, o) ==
  /\ Spend("ops")
  /\ Write(s, o)
  /\ UNCHANGED <<ctlVars, jobVars, awsVars, blame>>

Create(s) ==
  /\ ~api[s].exists
  /\ \E label \in BOOLEAN :
       (label <=> s \in Labelled) /\ Edit(s, Fresh(label))

Delete(s) ==
  /\ api[s].exists /\ ~api[s].del
  /\ Edit(s, [api[s] EXCEPT !.del = TRUE])

SetMode(s) ==
  /\ api[s].exists /\ ~api[s].del
  /\ \E m \in {"Running", "Suspended"} \ {api[s].mode} :
       Edit(s, [api[s] EXCEPT !.mode = m])

\* A SandboxClaim adopts a pooled Sandbox: it loses the warm-pool label.
ClaimAdopt(s) ==
  /\ api[s].exists /\ api[s].warm
  /\ Edit(s, [api[s] EXCEPT !.warm = FALSE])

AddOther(s) ==
  /\ api[s].exists /\ ~api[s].del /\ Other \notin api[s].fins
  /\ Edit(s, [api[s] EXCEPT !.fins = @ \cup {Other}])

RemoveOther(s) ==
  /\ Other \in api[s].fins
  /\ Write(s, [api[s] EXCEPT !.fins = @ \ {Other}])
  /\ UNCHANGED <<ctlVars, jobVars, awsVars, envVars>>

VmProgress(v) ==
  /\ Progress(vm[v]) # vm[v]
  /\ vm' = [vm EXCEPT ![v] = Progress(@)]
  /\ UNCHANGED <<k8sVars, ctlVars, jobVars, asm, owner, envVars>>

VmDrift(v) ==
  /\ Spend("mishaps")
  /\ \E st \in Drift(vm[v]) : vm' = [vm EXCEPT ![v] = st]
  /\ UNCHANGED <<k8sVars, ctlVars, jobVars, asm, owner, blame>>

-----------------------------------------------------------------------------
Init ==
  /\ api = [s \in Sandboxes |-> Absent]
  /\ watch = [s \in Sandboxes |-> <<>>]
  /\ cache = [s \in Sandboxes |-> Absent]
  /\ wq = WqEmpty
  /\ timers = {}
  /\ pc = [w \in Workers |-> "idle"]
  /\ job = [w \in Workers |-> NoJob]
  /\ vm = [v \in VMs |-> "UNUSED"]
  /\ asm = {}
  /\ owner = [v \in VMs |-> None]
  /\ blame = {}
  /\ left = Budget

\* What a worker does when nothing fails but what must, or what it mends.
Work(w) ==
  \/ Get(w) \/ ReadNothing(w) \/ ReadDeletion(w) \/ ReadLive(w)
  \/ Terminate(w) \/ DeleteSecret(w) \/ Release(w)
  \/ AddFinalizer(w) \/ GetMicrovm(w) \/ Suspend(w) \/ Resume(w)
  \/ AnnotateStatus(w) \/ PatchStatus(w)
  \/ MapSandbox(w) \/ AnnotatePorts(w) \/ PutSecret(w) \/ AnnotateSecret(w)
  \/ ColdRun(w) \/ WarmAdopt(w) \/ PatchId(w)
  \/ CondProvisioning(w) \/ CondError(w) \/ Rejected(w)

Fault(w) == RunLost(w) \/ CallFails(w)

Informer(s) == Deliver(s) \/ Fire(s) \/ Resync(s)

User(s) ==
  \/ Create(s) \/ Delete(s) \/ SetMode(s) \/ ClaimAdopt(s)
  \/ AddOther(s) \/ RemoveOther(s)

Service(v) == VmProgress(v) \/ VmDrift(v)

Next ==
  \/ \E w \in Workers : Work(w) \/ Fault(w)
  \/ \E s \in Sandboxes : Informer(s) \/ User(s)
  \/ \E v \in VMs : Service(v)
  \/ Restart

Spec == Init /\ [][Next]_vars

\* The goroutines are scheduled, the API server delivers its watch events,
\* timers fire, the informer resyncs, and the service completes what it has
\* accepted.  Nothing is assumed of users, faults, drift and restarts.
Fairness ==
  /\ \A w \in Workers : WF_vars(Work(w))
  /\ \A s \in Sandboxes : WF_vars(Deliver(s)) /\ WF_vars(Fire(s))
                            /\ WF_vars(Resync(s))
  /\ \A v \in VMs : WF_vars(VmProgress(v))

FairSpec == Spec /\ Fairness

-----------------------------------------------------------------------------
(* Properties. *)

\* What a worker holds at each place: a key, and the identifiers it uses.
JobOK(w) ==
  /\ Busy(w) => Key(w) \in Sandboxes
  /\ pc[w] \in {"terminate", "getVm", "suspend", "resume"} => Seen(w).id \in VMs
  /\ pc[w] = "patchId" => job[w].id \in VMs

\* The types of the variables, and that no call is made without its arguments.
TypeOK ==
  /\ \A w \in Workers : JobOK(w)
  /\ api \in [Sandboxes -> Sandbox]
  /\ watch \in [Sandboxes -> Seq(Sandbox)]
  /\ cache \in [Sandboxes -> Sandbox]
  /\ wq \in WqType(Sandboxes)
  /\ timers \in SUBSET Sandboxes
  /\ pc \in [Workers -> Places]
  /\ job \in [Workers -> [key : Sandboxes \cup {None}, u : Sandbox,
                          id : VMs \cup {None}, st : VmStates]]
  /\ vm \in [VMs -> VmStates]
  /\ asm \in SUBSET Sandboxes
  /\ owner \in [VMs -> Sandboxes \cup {None}]
  /\ blame \in SUBSET {"staleRead", "lostId", "lostSecret", "asmDelete"}
  /\ left \in [BudgetKinds -> Nat]

Blamed(causes) == blame \cap causes # {}

\* A worker has obtained the MicroVM and is about to record it.
InHand(v) == \E w \in Workers : pc[w] = "patchId" /\ job[w].id = v

\* A MicroVM obtained for a Sandbox is recorded in that Sandbox, or about to
\* be, for as long as it lives: whatever users, workers and restarts do, the
\* provider loses track of one only if some reconcile worked on an object
\* older than the API server's, or a call lost the identifier.
LeakCauses ==
  \A v \in VMs :
    vm[v] \in Live /\ owner[v] # None =>
      api[owner[v]].id = v \/ InHand(v) \/ Blamed({"staleRead", "lostId"})

\* A Sandbox has at most one live MicroVM, with the same two exceptions.
OneVmCauses ==
  \A v1, v2 \in VMs :
    /\ v1 # v2 /\ owner[v1] = owner[v2] /\ owner[v1] # None
    /\ vm[v1] \in Live /\ vm[v2] \in Live
    => Blamed({"staleRead", "lostId"})

\* An object that records a MicroVM and is not being deleted carries the
\* finalizer that will terminate it: no list of finalizers computed from an
\* old object (patchFinalizers) strips it, not even on a recreated object.
FinalizerGuardsVM ==
  \A s \in Sandboxes :
    api[s].exists /\ api[s].id # None /\ ~api[s].del => Ours \in api[s].fins

\* A worker is about to name the secret, or to find that it is there.
Naming(w) == pc[w] \in {"updateSecret", "annSecret"}

\* A session secret belongs to an object that names it, so that deletion will
\* remove it, unless a stale read, a failure after it was created (of its
\* update or of the annotation) or a failed (and only logged) delete-secret
\* came in between: the two calls of awsPutSecret leave no other way out.
SecretLeakCauses ==
  \A s \in asm :
    \/ api[s].exists /\ api[s].sec
    \/ \E w \in Workers : Key(w) = s /\ Naming(w)
    \/ Blamed({"staleRead", "lostSecret", "asmDelete"})

\* A state, a Ready condition or a serviceFQDN is published only on an object
\* that records its MicroVM: a reconcile of a deleted Sandbox does not report
\* on the one created under the same name, except through a stale read.
StatusHasVm ==
  \A s \in Sandboxes :
    api[s].st # "UNUSED" \/ api[s].ready \/ api[s].fqdn =>
      api[s].id # None \/ Blamed({"staleRead"})

\* The finalizer is taken off an object only when the MicroVM it records has
\* ended, except by a reconcile that did not see the MicroVM.
TerminatedBeforeRelease ==
  [][\A s \in Sandboxes :
       Ours \in api[s].fins /\ Ours \notin api'[s].fins =>
         \/ api[s].id = None \/ vm[api[s].id] \in Dead
         \/ Blamed({"staleRead"})]_vars

\* Every Sandbox that is deleted loses the provider's finalizer in the end,
\* whatever faults, restarts and mode changes come in between.
DeletionCompletes ==
  \A s \in Sandboxes :
    api[s].exists /\ api[s].del ~> Ours \notin api[s].fins

\* What the provider owes an object it owns: a MicroVM, unless the quota is
\* used up, in the operating mode the user asked for, unless it has ended,
\* with its state, readiness and address published.
Reported(s) ==
  LET o == api[s] IN
    IF o.id = None
      THEN s \notin Mappable \/ \A v \in VMs : vm[v] # "UNUSED"
      ELSE /\ vm[o.id] \in Dead
              \/ vm[o.id] = IF o.mode = "Running" THEN "RUNNING" ELSE "SUSPENDED"
           /\ o.st = vm[o.id]
           /\ o.ready <=> vm[o.id] = "RUNNING"
           /\ o.fqdn

\* Once users and faults leave the system alone, every live object an
\* informed provider owns gets what it is owed, and keeps it.
Converges ==
  \A s \in Sandboxes :
    <>[](api[s].exists /\ Owns(s, api[s]) /\ ~api[s].del => Reported(s))

-----------------------------------------------------------------------------
(* The life of a Sandbox without cache, queue, workers and calls. *)

Phase(s) ==
  IF ~api[s].exists THEN "none" ELSE IF api[s].del THEN "deleting" ELSE "live"

RunningFor(s) == {v \in VMs : vm[v] \in Live /\ owner[v] = s}

Life ==
  INSTANCE SandboxLife WITH
    object <- [s \in Sandboxes |-> Phase(s)],
    held <- [s \in Sandboxes |-> Ours \in api[s].fins],
    recorded <- [s \in Sandboxes |-> api[s].id],
    runs <- [s \in Sandboxes |-> RunningFor(s)],
    excused <- Blamed({"staleRead", "lostId"})

\* The provider implements SandboxLife until a reconcile works on an old object
\* or a call loses an identifier: the finalizer is on the object before a
\* MicroVM is obtained for it and until that has ended, an object obtains no
\* second MicroVM while one runs, and a name is free again only when nothing
\* runs for it.
ImplementsLife == Life!Spec

-----------------------------------------------------------------------------
(* The inductive invariants behind the safety properties. *)

\* Objects: an Absent one is all absent, and the newest version is the last
\* one on its way to the cache, or is in it.
ObjectsOK ==
  \A s \in Sandboxes :
    /\ api[s].exists \/ api[s] = Absent
    /\ IF watch[s] = <<>> THEN cache[s] = api[s]
                          ELSE watch[s][Len(watch[s])] = api[s]

\* Workers hold different keys, those the queue has handed out.
HoldersOK ==
  /\ WqOK(wq)
  /\ \A w \in Workers : Busy(w) => Key(w) \in wq.processing
  /\ \A x, y \in Workers : Busy(x) /\ Busy(y) /\ Key(x) = Key(y) => x = y

\* Identifiers: what is recorded or in hand was issued, for that Sandbox.
IdsOK ==
  /\ \A s \in Sandboxes : api[s].id # None => vm[api[s].id] # "UNUSED"
  /\ \A w \in Workers : pc[w] = "patchId" =>
       vm[job[w].id] # "UNUSED" /\ owner[job[w].id] = Key(w)

\* The finalizer stays until the MicroVM has ended.
GuardOK ==
  \A s \in Sandboxes :
    api[s].id # None /\ (api[s].del => vm[api[s].id] \in Live)
      => Ours \in api[s].fins

\* What a worker that has not read an old object knows of the real one.
Deleting == {"terminate", "delSecret", "release"}
Provisioning == {"map", "ports", "createSecret", "updateSecret", "annSecret",
                 "provision", "patchId"}
Reporting == {"getVm", "suspend", "resume", "annStatus", "status"}

KnownOK(w) ==
  /\ pc[w] \in Deleting =>
       /\ Seen(w).id = Real(w).id /\ Ours \in Real(w).fins
       /\ Real(w).id # None => Real(w).del
  /\ pc[w] \in Deleting \ {"terminate"} /\ Seen(w).id # None =>
       vm[Seen(w).id] \notin Live
  /\ pc[w] = "addFin" => Seen(w).id = None /\ Real(w).id = None
  /\ pc[w] \in Provisioning => Real(w).id = None /\ Ours \in Real(w).fins
  /\ pc[w] \in Reporting => Real(w).id # None /\ Ours \in Real(w).fins

\* Every live MicroVM is recorded or in the hand of a worker on its owner.
TrackedOK ==
  \A v \in VMs :
    vm[v] \in Live /\ owner[v] # None =>
      api[owner[v]].id = v \/ InHand(v)

IInv ==
  /\ TypeOK /\ ObjectsOK /\ HoldersOK /\ IdsOK
  /\ Blamed({"staleRead"}) \/ (GuardOK /\ \A w \in Workers : KnownOK(w))
  /\ Blamed({"staleRead", "lostId"}) \/ TrackedOK

\* The versions of an object from the one in the cache, the 0th, to the
\* newest, and those that carry the finalizer.
Last(s) == Len(watch[s])
Nth(s, i) == IF i = 0 THEN cache[s] ELSE watch[s][i]
Guarded(o) == Ours \in o.fins

Drops(s) ==
  \E i, j \in 0..Last(s) : i < j /\ Guarded(Nth(s, i)) /\ ~Guarded(Nth(s, j))
Rises(s) ==
  \E i, j \in 0..Last(s) : i < j /\ ~Guarded(Nth(s, i)) /\ Guarded(Nth(s, j))

\* Nobody will miss the finalizer of a version that carries it.
Doomed(s) == \A i \in 0..Last(s) : Guarded(Nth(s, i)) => Nth(s, i).del

\* The finalizer comes or goes within what the cache has still to see, never
\* both; it goes from a deleted object only, and comes back to none.
VersionsOK(s) ==
  /\ ~(Drops(s) /\ Rises(s))
  /\ \A i, j \in 0..Last(s) : i < j /\ Guarded(Nth(s, i)) =>
       /\ ~Guarded(Nth(s, j)) => Nth(s, i).del
       /\ Guarded(Nth(s, j)) /\ Nth(s, i).del => Nth(s, j).del

\* However old the object a worker has read, while it adds or relies on the
\* finalizer nobody has dropped it, and while it removes it nobody has added
\* it to an object that is to stay.
HoldsFins(w) ==
  /\ pc[w] \in Deleting =>
       ~Rises(Key(w)) /\ Doomed(Key(w))
  /\ pc[w] \notin Deleting \cup {"idle", "read"} =>
       ~Drops(Key(w)) /\ (pc[w] = "addFin" \/ Guarded(Real(w)))

FinsInv ==
  /\ \A s \in Sandboxes : VersionsOK(s)
  /\ \A w \in Workers : HoldsFins(w)
  /\ FinalizerGuardsVM

\* A stored secret is named by an object that keeps its finalizer, or is
\* about to be, and the worker that releases the object has deleted it.
SecretsOK ==
  /\ \A s \in asm :
       /\ Guarded(api[s])
       /\ api[s].sec \/ \E w \in Workers : Key(w) = s /\ Naming(w)
  /\ \A w \in Workers :
       /\ pc[w] \in Deleting => (Seen(w).sec <=> Real(w).sec)
       /\ pc[w] = "release" => Key(w) \notin asm

SecretsInv == Blamed({"staleRead", "lostSecret", "asmDelete"}) \/ SecretsOK

-----------------------------------------------------------------------------
(* What the documentation says, and the code does not always do. *)

\* A Sandbox is one MicroVM (USAGE.md, "A single MicroVM-backed Sandbox"): no
\* two live MicroVMs were obtained for one Sandbox.
OneVmPerSandbox ==
  \A x, y \in VMs :
    vm[x] \in Live /\ vm[y] \in Live /\ owner[x] = owner[y] /\ owner[x] # None
    => x = y

\* The finalizer terminates the MicroVM (USAGE.md, kubectl delete sandbox):
\* once the object is gone, no MicroVM obtained for it is alive.
GoneMeansTerminated ==
  \A v \in VMs :
    vm[v] \in Live /\ owner[v] # None => api[owner[v]].exists

\* The warm-pool label is enough to be backed (warmPoolLabel), also when a
\* claim has adopted the Sandbox and taken the label off: its deletion ends.
AdoptedDeletionCompletes ==
  \A s \in Sandboxes :
    api[s].exists /\ api[s].del /\ s \in Labelled ~> Ours \notin api[s].fins
=============================================================================
