-------------------------- MODULE ReconcilerProofs --------------------------
(***************************************************************************)
(* Proofs about Reconciler for every number of Sandboxes, workers, MicroVM *)
(* identifiers and watch events, and every budget.                         *)
(***************************************************************************)
EXTENDS Reconciler, WorkQueueProofs

-----------------------------------------------------------------------------
(* Types. *)

Job == [key : Sandboxes \cup {None}, u : Sandbox, id : VMs \cup {None},
        st : VmStates]

LEMMA AbsentType ==
  /\ Absent \in Sandbox /\ NoJob \in Job
  /\ ~Absent.exists /\ Absent.id = None /\ Absent.fins = {} /\ ~Absent.del
BY DEF Absent, Sandbox, NoJob, Job, VmStates

LEMMA FreshType ==
  ASSUME NEW label \in BOOLEAN
  PROVE  /\ Fresh(label) \in Sandbox
         /\ Fresh(label).exists /\ Fresh(label).id = None
BY AbsentType DEF Fresh, Sandbox

LEMMA StoredType == ASSUME NEW o \in Sandbox PROVE Stored(o) \in Sandbox
BY AbsentType DEF Stored

\* What the informer and the API server hold after a write.
LEMMA VersionType ==
  ASSUME NEW s \in Sandboxes, NEW o \in Sandbox, NEW tick \in BOOLEAN,
         api \in [Sandboxes -> Sandbox], watch \in [Sandboxes -> Seq(Sandbox)],
         Version(s, o, tick)
  PROVE  /\ api' \in [Sandboxes -> Sandbox]
         /\ watch' \in [Sandboxes -> Seq(Sandbox)]
BY StoredType DEF Version

LEMMA EndType ==
  ASSUME TypeOK, NEW w \in Workers, NEW r, pc[w] # "idle", End(w, r)
  PROVE  /\ wq' \in WqType(Sandboxes) /\ timers' \in SUBSET Sandboxes
         /\ pc' \in [Workers -> Places] /\ job' \in [Workers -> Job]
         /\ \A x \in Workers : JobOK(x)'
<1>1. Key(w) \in Sandboxes
  BY DEF TypeOK, JobOK, Busy
<1>2. wq' \in WqType(Sandboxes)
  BY <1>1, WqDoneOK DEF TypeOK, End
<1>3. timers' \in SUBSET Sandboxes
  BY <1>1 DEF TypeOK, End
<1>4. pc' \in [Workers -> Places] /\ job' \in [Workers -> Job]
  BY AbsentType DEF TypeOK, End, Places, Job
<1>5. \A x \in Workers : JobOK(x)'
  BY <1>1 DEF TypeOK, JobOK, End, Busy, Key, Seen
<1> QED BY <1>2, <1>3, <1>4, <1>5

\* The jobs of the workers that did not move are as good as they were.
LEMMA GotoType ==
  ASSUME TypeOK, NEW w \in Workers, NEW p \in Places, NEW j \in Job,
         pc' = [pc EXCEPT ![w] = p], job' = [job EXCEPT ![w] = j],
         p # "idle" => j.key \in Sandboxes,
         p \in {"terminate", "getVm", "suspend", "resume"} => j.u.id \in VMs,
         p = "patchId" => j.id \in VMs
  PROVE  /\ pc' \in [Workers -> Places] /\ job' \in [Workers -> Job]
         /\ \A x \in Workers : JobOK(x)'
<1>1. pc' \in [Workers -> Places] /\ job' \in [Workers -> Job]
  BY DEF TypeOK, Job
<1>2. pc \in [Workers -> Places] /\ job \in [Workers -> Job]
  BY DEF TypeOK, Job
<1>3. JobOK(w)'
  BY <1>2 DEF JobOK, Busy, Key, Seen
<1>4. ASSUME NEW x \in Workers, x # w PROVE JobOK(x)'
  BY <1>2, <1>4 DEF TypeOK, JobOK, Busy, Key, Seen
<1> QED BY <1>1, <1>3, <1>4

\* The places that a worker's next call depends on.
LEMMA PlaceTypes ==
  /\ \A u : AfterFinalizer(u) \in {"getVm", "map"}
  /\ \A s : AfterPorts(s) \in {"createSecret", "provision"}
  /\ \A s : AfterMap(s) \in {"ports", "createSecret", "provision"}
  /\ {"read", "getVm", "map", "createSecret", "updateSecret", "provision", "ports", "terminate",
      "delSecret", "release", "addFin", "suspend", "resume", "annStatus",
      "status", "annSecret", "patchId", "condRun", "condErr"} \subseteq Places
BY DEF AfterFinalizer, AfterPorts, AfterMap, Places, ApiCalls, AwsCalls

\* A worker that goes to a place where it needs no identifier.
LEMMA GotoPlain ==
  ASSUME TypeOK, NEW w \in Workers, pc[w] # "idle", NEW p, Goto(w, p),
         p \in {"map", "createSecret", "updateSecret", "provision", "ports", "delSecret",
                "release", "annStatus", "status", "annSecret", "condRun",
                "condErr"}
  PROVE  /\ pc' \in [Workers -> Places] /\ job' \in [Workers -> Job]
         /\ \A x \in Workers : JobOK(x)'
<1>1. job[w] \in Job /\ job' = [job EXCEPT ![w] = job[w]]
  BY DEF TypeOK, Job, Goto
<1>2. job[w].key \in Sandboxes
  BY DEF TypeOK, JobOK, Busy, Key
<1>3. p \in Places /\ pc' = [pc EXCEPT ![w] = p]
  BY PlaceTypes DEF Goto
<1> QED BY <1>1, <1>2, <1>3, GotoType

LEMMA GetType ==
  ASSUME TypeOK, NEW w \in Workers, Get(w) PROVE TypeOK'
<1> DEFINE j == [job[w] EXCEPT !.key = Head(wq.queue)]
<1>1. /\ wq' \in WqType(Sandboxes) /\ Head(wq.queue) \in Sandboxes
  BY WqGetOK DEF TypeOK, Get
<1>2. j \in Job /\ j.key \in Sandboxes
  BY <1>1 DEF TypeOK, Job
<1>3. /\ pc' \in [Workers -> Places] /\ job' \in [Workers -> Job]
      /\ \A x \in Workers : JobOK(x)'
  BY <1>2, PlaceTypes, GotoType DEF Get
<1> QED BY <1>1, <1>3 DEF TypeOK, Get, Job, k8sVars, awsVars, envVars

LEMMA ReadType ==
  ASSUME TypeOK, NEW w \in Workers,
         ReadNothing(w) \/ ReadDeletion(w) \/ ReadLive(w)
  PROVE  TypeOK'
<1>1. CASE ReadNothing(w)
  BY <1>1, EndType DEF TypeOK, ReadNothing, End, Job, k8sVars, awsVars, envVars
<1>2. ASSUME NEW p, Take(w, p), pc[w] = "read", p \in Places \ {"idle", "patchId"},
             p \in {"terminate", "getVm", "suspend", "resume"} =>
               cache[Key(w)].id # None
      PROVE  TypeOK'
  <2> DEFINE j == [job[w] EXCEPT !.u = cache[Key(w)]]
  <2>1. Key(w) \in Sandboxes
    BY <1>2 DEF TypeOK, JobOK, Busy
  <2>2. /\ cache[Key(w)] \in Sandbox
        /\ cache[Key(w)].id \in VMs \cup {None}
    BY <2>1 DEF TypeOK, Sandbox
  <2>3. j \in Job /\ j.key \in Sandboxes /\ j.u = cache[Key(w)]
    BY <2>1, <2>2 DEF TypeOK, Job, Key
  <2>4. /\ pc' \in [Workers -> Places] /\ job' \in [Workers -> Job]
        /\ \A x \in Workers : JobOK(x)'
    <3>1. job' = [job EXCEPT ![w] = j] /\ pc' = [pc EXCEPT ![w] = p]
      BY <1>2 DEF Take
    <3>2. p \in {"terminate", "getVm", "suspend", "resume"} => j.u.id \in VMs
      BY <1>2, <2>2, <2>3
    <3> HIDE DEF j
    <3> QED BY <1>2, <2>3, <3>1, <3>2, GotoType
  <2>5. blame' \in SUBSET {"staleRead", "lostId", "lostSecret", "asmDelete"}
    BY <1>2 DEF Take, TypeOK
  <2> QED BY <1>2, <2>4, <2>5 DEF TypeOK, Take, Job, k8sVars, ctlVars, awsVars
<1>3. CASE ReadDeletion(w)
  BY <1>2, <1>3, PlaceTypes DEF ReadDeletion
<1>4. CASE ReadLive(w)
  BY <1>2, <1>4, PlaceTypes DEF ReadLive, AfterFinalizer
<1> QED BY <1>1, <1>3, <1>4

LEMMA WriteType ==
  ASSUME TypeOK, NEW s \in Sandboxes, NEW o \in Sandbox,
         Write(s, o) \/ WriteStatus(s, o)
  PROVE  /\ api' \in [Sandboxes -> Sandbox]
         /\ watch' \in [Sandboxes -> Seq(Sandbox)]
BY VersionType DEF TypeOK, Write, WriteStatus

\* What a worker that is busy works with.
LEMMA BusyTypes ==
  ASSUME TypeOK, NEW w \in Workers, pc[w] # "idle"
  PROVE  /\ Key(w) \in Sandboxes /\ Real(w) \in Sandbox /\ Seen(w) \in Sandbox
         /\ Real(w) = api[Key(w)]
         /\ job[w] \in Job /\ job[w].st \in VmStates
         /\ job[w].id \in VMs \cup {None}
         /\ AddedFins(w) \in SUBSET {Ours, Other}
         /\ RemovedFins(w) \in SUBSET {Ours, Other}
<1>1. Key(w) \in Sandboxes
  BY DEF TypeOK, JobOK, Busy
<1>2. job[w] \in Job /\ job[w].u \in Sandbox
  BY DEF TypeOK, Job
<1>3. Real(w) \in Sandbox /\ Real(w) = api[Key(w)]
  BY <1>1 DEF TypeOK, Key, Real
<1>4. Seen(w).fins \in SUBSET {Ours, Other}
  BY <1>2 DEF Seen, Sandbox
<1> QED BY <1>1, <1>2, <1>3, <1>4 DEF Seen, AddedFins, RemovedFins, Job

\* The edits a worker makes to an object.
LEMMA EditTypes ==
  ASSUME NEW o \in Sandbox
  PROVE  /\ \A f \in SUBSET {Ours, Other} : [o EXCEPT !.fins = f] \in Sandbox
         /\ \A st \in VmStates : [o EXCEPT !.st = st] \in Sandbox
         /\ \A r \in BOOLEAN : [o EXCEPT !.ready = r, !.fqdn = TRUE] \in Sandbox
         /\ [o EXCEPT !.ready = FALSE] \in Sandbox
         /\ [o EXCEPT !.ports = TRUE] \in Sandbox
         /\ [o EXCEPT !.sec = TRUE] \in Sandbox
         /\ \A v \in VMs : [o EXCEPT !.id = v, !.st = "PENDING"] \in Sandbox
         /\ [o EXCEPT !.del = TRUE] \in Sandbox
         /\ [o EXCEPT !.warm = FALSE] \in Sandbox
         /\ \A m \in {"Running", "Suspended"} : [o EXCEPT !.mode = m] \in Sandbox
BY DEF Sandbox, VmStates

LEMMA DeletionType ==
  ASSUME TypeOK, NEW w \in Workers,
         Terminate(w) \/ DeleteSecret(w) \/ Release(w)
  PROVE  TypeOK'
<1>1. CASE Terminate(w)
  <2>1. vm' \in [VMs -> VmStates]
    BY <1>1 DEF TypeOK, Terminate, Terminated, Live, VmStates
  <2>2. /\ pc' \in [Workers -> Places] /\ job' \in [Workers -> Job]
        /\ \A x \in Workers : JobOK(x)'
    BY <1>1, GotoPlain DEF Terminate
  <2> QED BY <1>1, <2>1, <2>2 DEF TypeOK, Terminate, Job, k8sVars, ctlVars, envVars
<1>2. CASE DeleteSecret(w)
  <2>1. /\ pc' \in [Workers -> Places] /\ job' \in [Workers -> Job]
        /\ \A x \in Workers : JobOK(x)'
    BY <1>2, GotoPlain DEF DeleteSecret
  <2> QED BY <1>2, <2>1 DEF TypeOK, DeleteSecret, Job, k8sVars, ctlVars, envVars
<1>3. CASE Release(w)
  <2>1. pc[w] # "idle"
    BY <1>3 DEF Release
  <2>2. api' \in [Sandboxes -> Sandbox] /\ watch' \in [Sandboxes -> Seq(Sandbox)]
    BY <1>3, <2>1, BusyTypes, EditTypes, WriteType DEF Release
  <2> QED BY <1>3, <2>1, <2>2, EndType
          DEF TypeOK, Release, End, Job, awsVars, envVars
<1> QED BY <1>1, <1>2, <1>3

LEMMA ProvisionedType ==
  ASSUME TypeOK, NEW w \in Workers,
         \/ AddFinalizer(w) \/ GetMicrovm(w) \/ Suspend(w) \/ Resume(w)
         \/ AnnotateStatus(w) \/ PatchStatus(w)
  PROVE  TypeOK'
<1>1. pc[w] # "idle"
  BY DEF AddFinalizer, GetMicrovm, Suspend, Resume, Switch, AnnotateStatus,
         PatchStatus
<1>2. CASE AddFinalizer(w)
  <2>1. api' \in [Sandboxes -> Sandbox] /\ watch' \in [Sandboxes -> Seq(Sandbox)]
    BY <1>1, <1>2, BusyTypes, EditTypes, WriteType DEF AddFinalizer
  <2>2. /\ pc' \in [Workers -> Places] /\ job' \in [Workers -> Job]
        /\ \A x \in Workers : JobOK(x)'
    <3>1. job[w] \in Job /\ job' = [job EXCEPT ![w] = job[w]]
      BY <1>2 DEF TypeOK, Job, AddFinalizer, Goto
    <3>2. AfterFinalizer(Seen(w)) = "getVm" => job[w].u.id \in VMs
      BY <1>1, BusyTypes DEF AfterFinalizer, Seen, Sandbox
    <3>3. job[w].key \in Sandboxes
      BY <1>1, BusyTypes DEF Key
    <3>4. pc' = [pc EXCEPT ![w] = AfterFinalizer(Seen(w))]
      BY <1>2 DEF AddFinalizer, Goto
    <3> QED BY <3>1, <3>2, <3>3, <3>4, PlaceTypes, GotoType
  <2> QED BY <1>2, <2>1, <2>2
          DEF TypeOK, AddFinalizer, Job, ctlVars, awsVars, envVars
<1>3. CASE GetMicrovm(w)
  <2> DEFINE j == [job[w] EXCEPT !.st = vm[Seen(w).id]]
  <2>1. Seen(w).id \in VMs /\ vm[Seen(w).id] \in VmStates
    BY <1>3 DEF TypeOK, JobOK, GetMicrovm
  <2>2. j \in Job /\ j.u = job[w].u /\ j.key = job[w].key
    BY <1>1, <2>1, BusyTypes DEF Job
  <2>3. PICK p \in {"suspend", "resume", "annStatus"} :
          pc' = [pc EXCEPT ![w] = p]
    BY <1>3 DEF GetMicrovm
  <2>4. job' = [job EXCEPT ![w] = j]
    BY <1>3 DEF GetMicrovm
  <2>5. j.u.id \in VMs /\ j.key \in Sandboxes
    BY <1>1, <2>1, <2>2, BusyTypes DEF Seen, Key
  <2>6. /\ pc' \in [Workers -> Places] /\ job' \in [Workers -> Job]
        /\ \A x \in Workers : JobOK(x)'
    <3> HIDE DEF j
    <3> QED BY <2>2, <2>3, <2>4, <2>5, PlaceTypes, GotoType
  <2> QED BY <1>3, <2>6
          DEF TypeOK, GetMicrovm, Job, k8sVars, ctlVars, awsVars, envVars
<1>4. ASSUME NEW place, NEW st \in VmStates, Switch(w, place, st) PROVE TypeOK'
  <2> DEFINE j == [job[w] EXCEPT !.st = st]
  <2>1. j \in Job /\ j.key \in Sandboxes
    BY <1>1, BusyTypes DEF Job, Key
  <2>2. /\ pc' \in [Workers -> Places] /\ job' \in [Workers -> Job]
        /\ \A x \in Workers : JobOK(x)'
    <3>1. job' = [job EXCEPT ![w] = j] /\ pc' = [pc EXCEPT ![w] = "annStatus"]
      BY <1>4 DEF Switch
    <3> HIDE DEF j
    <3> QED BY <2>1, <3>1, PlaceTypes, GotoType
  <2>3. vm' \in [VMs -> VmStates]
    BY <1>4 DEF TypeOK, Switch
  <2> QED BY <1>4, <2>2, <2>3 DEF TypeOK, Switch, Job, k8sVars, ctlVars, envVars
<1>5. CASE Suspend(w) \/ Resume(w)
  BY <1>4, <1>5 DEF Suspend, Resume, VmStates
<1>6. CASE AnnotateStatus(w)
  <2>1. api' \in [Sandboxes -> Sandbox] /\ watch' \in [Sandboxes -> Seq(Sandbox)]
    BY <1>1, <1>6, BusyTypes, EditTypes, WriteType DEF AnnotateStatus
  <2>2. /\ pc' \in [Workers -> Places] /\ job' \in [Workers -> Job]
        /\ \A x \in Workers : JobOK(x)'
    BY <1>1, <1>6, GotoPlain DEF AnnotateStatus
  <2> QED BY <1>6, <2>1, <2>2
          DEF TypeOK, AnnotateStatus, Job, ctlVars, awsVars, envVars
<1>7. CASE PatchStatus(w)
  <2>1. api' \in [Sandboxes -> Sandbox] /\ watch' \in [Sandboxes -> Seq(Sandbox)]
    BY <1>1, <1>7, BusyTypes, EditTypes, WriteType DEF PatchStatus
  <2> QED BY <1>1, <1>7, <2>1, EndType
          DEF TypeOK, PatchStatus, End, Job, awsVars, envVars
<1> QED BY <1>2, <1>3, <1>5, <1>6, <1>7

LEMMA ProvisionType ==
  ASSUME TypeOK, NEW w \in Workers,
         \/ MapSandbox(w) \/ AnnotatePorts(w) \/ PutSecret(w)
         \/ AnnotateSecret(w) \/ ColdRun(w) \/ WarmAdopt(w) \/ PatchId(w)
         \/ CondProvisioning(w) \/ CondError(w)
  PROVE  TypeOK'
<1>1. pc[w] # "idle"
  BY DEF MapSandbox, AnnotatePorts, PutSecret, CreateSecret, CreateLost, UpdateSecret, AnnotateSecret, ColdRun,
         WarmAdopt, Obtain, Issue, PatchId, CondProvisioning, CondError,
         PatchCondition
<1>2. CASE MapSandbox(w)
  <2>1. /\ pc' \in [Workers -> Places] /\ job' \in [Workers -> Job]
        /\ \A x \in Workers : JobOK(x)'
    BY <1>1, <1>2, PlaceTypes, GotoPlain DEF MapSandbox
  <2> QED BY <1>2, <2>1
          DEF TypeOK, MapSandbox, Job, k8sVars, ctlVars, awsVars, envVars
<1>3. CASE AnnotatePorts(w)
  <2>1. api' \in [Sandboxes -> Sandbox] /\ watch' \in [Sandboxes -> Seq(Sandbox)]
    BY <1>1, <1>3, BusyTypes, EditTypes, WriteType DEF AnnotatePorts
  <2>2. /\ pc' \in [Workers -> Places] /\ job' \in [Workers -> Job]
        /\ \A x \in Workers : JobOK(x)'
    BY <1>1, <1>3, PlaceTypes, GotoPlain DEF AnnotatePorts
  <2> QED BY <1>3, <2>1, <2>2
          DEF TypeOK, AnnotatePorts, Job, ctlVars, awsVars, envVars
<1>4. CASE PutSecret(w)
  <2>1. /\ pc' \in [Workers -> Places] /\ job' \in [Workers -> Job]
        /\ \A x \in Workers : JobOK(x)'
    BY <1>1, <1>4, GotoPlain DEF PutSecret, CreateSecret, CreateLost, UpdateSecret
  <2>2. asm' \in SUBSET Sandboxes
    BY <1>1, <1>4, BusyTypes
    DEF TypeOK, PutSecret, CreateSecret, CreateLost, UpdateSecret, awsVars
  <2> QED BY <1>4, <2>1, <2>2
          DEF TypeOK, PutSecret, CreateSecret, CreateLost, UpdateSecret, Job,
              k8sVars, ctlVars, awsVars, envVars
<1>5. CASE AnnotateSecret(w)
  <2>1. api' \in [Sandboxes -> Sandbox] /\ watch' \in [Sandboxes -> Seq(Sandbox)]
    BY <1>1, <1>5, BusyTypes, EditTypes, WriteType DEF AnnotateSecret
  <2>2. /\ pc' \in [Workers -> Places] /\ job' \in [Workers -> Job]
        /\ \A x \in Workers : JobOK(x)'
    BY <1>1, <1>5, GotoPlain DEF AnnotateSecret
  <2> QED BY <1>5, <2>1, <2>2
          DEF TypeOK, AnnotateSecret, Job, ctlVars, awsVars, envVars
<1>6. ASSUME NEW v \in VMs, NEW st \in VmStates, Obtain(w, v, st) PROVE TypeOK'
  <2> DEFINE j == [job[w] EXCEPT !.id = v]
  <2>1. j \in Job /\ j.key \in Sandboxes /\ j.id \in VMs
    BY <1>1, BusyTypes DEF Job, Key
  <2>2. /\ pc' \in [Workers -> Places] /\ job' \in [Workers -> Job]
        /\ \A x \in Workers : JobOK(x)'
    <3>1. job' = [job EXCEPT ![w] = j] /\ pc' = [pc EXCEPT ![w] = "patchId"]
      BY <1>6 DEF Obtain
    <3> HIDE DEF j
    <3> QED BY <2>1, <3>1, PlaceTypes, GotoType
  <2>3. /\ vm' \in [VMs -> VmStates]
        /\ owner' \in [VMs -> Sandboxes \cup {None}]
    BY <1>1, <1>6, BusyTypes DEF TypeOK, Obtain, Issue
  <2> QED BY <1>6, <2>2, <2>3 DEF TypeOK, Obtain, Job, k8sVars, ctlVars, envVars
<1>7. CASE ColdRun(w) \/ WarmAdopt(w)
  BY <1>6, <1>7, SubsetAssumption DEF ColdRun, WarmAdopt, VmStates, Live
<1>8. CASE PatchId(w)
  <2>1. job[w].id \in VMs
    BY <1>8 DEF TypeOK, JobOK, PatchId
  <2>2. api' \in [Sandboxes -> Sandbox] /\ watch' \in [Sandboxes -> Seq(Sandbox)]
    BY <1>1, <1>8, <2>1, BusyTypes, EditTypes, WriteType DEF PatchId
  <2>3. /\ pc' \in [Workers -> Places] /\ job' \in [Workers -> Job]
        /\ \A x \in Workers : JobOK(x)'
    BY <1>1, <1>8, GotoPlain DEF PatchId
  <2> QED BY <1>8, <2>2, <2>3 DEF TypeOK, PatchId, Job, ctlVars, awsVars, envVars
<1>9. ASSUME NEW p, NEW r, PatchCondition(w, p, r) PROVE TypeOK'
  <2>1. api' \in [Sandboxes -> Sandbox] /\ watch' \in [Sandboxes -> Seq(Sandbox)]
    BY <1>1, <1>9, BusyTypes, EditTypes, WriteType DEF PatchCondition
  <2> QED BY <1>1, <1>9, <2>1, EndType
          DEF TypeOK, PatchCondition, End, Job, awsVars, envVars
<1>10. CASE CondProvisioning(w) \/ CondError(w)
  BY <1>9, <1>10 DEF CondProvisioning, CondError
<1> QED BY <1>2, <1>3, <1>4, <1>5, <1>7, <1>8, <1>10

\* Every error path leaves the workers and the queue well typed.
LEMMA OnErrorType ==
  ASSUME TypeOK, NEW w \in Workers, pc[w] # "idle", OnError(w)
  PROVE  /\ wq' \in WqType(Sandboxes) /\ timers' \in SUBSET Sandboxes
         /\ pc' \in [Workers -> Places] /\ job' \in [Workers -> Job]
         /\ cache' = cache
         /\ \A x \in Workers : JobOK(x)'
<1>1. CASE pc[w] = "delSecret"
  <2>1. Goto(w, "release") /\ UNCHANGED ctlVars
    BY <1>1 DEF OnError
  <2> QED BY <2>1, GotoPlain DEF TypeOK, ctlVars
<1>2. CASE pc[w] = "ports"
  <2>1. Goto(w, AfterPorts(Key(w))) /\ UNCHANGED ctlVars
    BY <1>2 DEF OnError
  <2> QED BY <2>1, PlaceTypes, GotoPlain DEF TypeOK, ctlVars
<1>3. CASE pc[w] \in {"map", "updateSecret", "provision"}
  <2>1. Goto(w, "condErr") /\ UNCHANGED ctlVars
    BY <1>3 DEF OnError
  <2> QED BY <2>1, GotoPlain DEF TypeOK, ctlVars
<1>5. CASE pc[w] = "createSecret"
  <2>1. Goto(w, "updateSecret") /\ UNCHANGED ctlVars
    BY <1>5 DEF OnError
  <2> QED BY <2>1, GotoPlain DEF TypeOK, ctlVars
<1>4. CASE pc[w] \notin {"delSecret", "ports", "map", "createSecret",
                        "updateSecret", "provision"}
  <2>1. End(w, "error")
    BY <1>4 DEF OnError
  <2> QED BY <2>1, EndType DEF End
<1> QED BY <1>1, <1>2, <1>3, <1>4, <1>5

LEMMA SpendType ==
  ASSUME TypeOK, NEW k \in BudgetKinds, Spend(k)
  PROVE  left' \in [BudgetKinds -> Nat]
BY DEF TypeOK, Spend

LEMMA LossType ==
  ASSUME NEW w
  PROVE  Loss(w) \subseteq {"staleRead", "lostId", "lostSecret", "asmDelete"}
BY DEF Loss

LEMMA FailureType ==
  ASSUME TypeOK, NEW w \in Workers,
         Rejected(w) \/ CallFails(w) \/ RunLost(w)
  PROVE  TypeOK'
<1>1. pc[w] # "idle"
  BY DEF Rejected, CallFails, RunLost, Issue, Busy, ApiCalls, AwsCalls
<1>2. CASE Rejected(w)
  <2>1. blame' \in SUBSET {"staleRead", "lostId", "lostSecret", "asmDelete"}
    BY <1>2, LossType DEF TypeOK, Rejected
  <2>2. OnError(w)
    BY <1>2 DEF Rejected
  <2> QED BY <1>1, <1>2, <2>1, <2>2, OnErrorType
          DEF TypeOK, Rejected, Job, k8sVars, awsVars
<1>3. CASE CallFails(w)
  <2>1. blame' \in SUBSET {"staleRead", "lostId", "lostSecret", "asmDelete"}
    BY <1>3, LossType DEF TypeOK, CallFails
  <2>2. left' \in [BudgetKinds -> Nat]
    BY <1>3, SpendType DEF CallFails, BudgetKinds
  <2>3. OnError(w)
    BY <1>3 DEF CallFails
  <2> QED BY <1>1, <1>3, <2>1, <2>2, <2>3, OnErrorType
          DEF TypeOK, CallFails, Job, k8sVars, awsVars
<1>4. CASE RunLost(w)
  <2>1. PICK v \in VMs : Issue(w, v, "PENDING")
    BY <1>4 DEF RunLost
  <2>2. /\ vm' \in [VMs -> VmStates]
        /\ owner' \in [VMs -> Sandboxes \cup {None}]
    BY <1>1, <2>1, BusyTypes DEF TypeOK, Issue, VmStates
  <2>3. /\ pc' \in [Workers -> Places] /\ job' \in [Workers -> Job]
        /\ \A x \in Workers : JobOK(x)'
    BY <1>1, <1>4, GotoPlain DEF RunLost
  <2>4. left' \in [BudgetKinds -> Nat]
    BY <1>4, SpendType DEF RunLost, BudgetKinds
  <2> QED BY <1>4, <2>2, <2>3, <2>4 DEF TypeOK, RunLost, Job, k8sVars, ctlVars
<1> QED BY <1>2, <1>3, <1>4

\* Steps that leave the workers alone leave their jobs well typed.
LEMMA JobsFrame ==
  ASSUME TypeOK, UNCHANGED jobVars PROVE \A x \in Workers : JobOK(x)'
BY DEF TypeOK, jobVars, JobOK, Busy, Key, Seen

LEMMA InformerType ==
  ASSUME TypeOK, NEW s \in Sandboxes, Informer(s) PROVE TypeOK'
<1>1. WqAdd(wq, s) \in WqType(Sandboxes)
  BY WqAddOK DEF TypeOK
<1>2. CASE Deliver(s)
  <2>1. /\ watch[s] \in Seq(Sandbox) /\ watch[s] # <<>>
        /\ Head(watch[s]) \in Sandbox /\ Tail(watch[s]) \in Seq(Sandbox)
    BY <1>2 DEF TypeOK, Deliver
  <2>2. cache' \in [Sandboxes -> Sandbox] /\ watch' \in [Sandboxes -> Seq(Sandbox)]
    BY <1>2, <2>1 DEF TypeOK, Deliver
  <2> QED BY <1>1, <1>2, <2>2, JobsFrame
          DEF TypeOK, Deliver, jobVars, awsVars, envVars
<1>3. CASE Fire(s)
  BY <1>1, <1>3, JobsFrame DEF TypeOK, Fire, k8sVars, jobVars, awsVars, envVars
<1>4. CASE Resync(s)
  BY <1>1, <1>4, JobsFrame DEF TypeOK, Resync, k8sVars, jobVars, awsVars, envVars
<1> QED BY <1>2, <1>3, <1>4 DEF Informer

LEMMA UserType ==
  ASSUME TypeOK, NEW s \in Sandboxes, User(s) PROVE TypeOK'
<1>1. api[s] \in Sandbox
  BY DEF TypeOK
<1>2. ASSUME NEW o \in Sandbox, Edit(s, o) PROVE TypeOK'
  <2>1. left' \in [BudgetKinds -> Nat]
    BY <1>2, SpendType DEF Edit, BudgetKinds
  <2> QED BY <1>2, <2>1, WriteType, JobsFrame
          DEF TypeOK, Edit, ctlVars, jobVars, awsVars
<1>3. CASE Create(s)
  BY <1>2, <1>3, FreshType DEF Create
<1>4. CASE Delete(s) \/ SetMode(s) \/ ClaimAdopt(s)
  BY <1>1, <1>2, <1>4, EditTypes DEF Delete, SetMode, ClaimAdopt
<1>5. api[s].fins \cup {Other} \in SUBSET {Ours, Other}
      /\ api[s].fins \ {Other} \in SUBSET {Ours, Other}
  BY <1>1 DEF Sandbox
<1>6. CASE AddOther(s)
  BY <1>1, <1>2, <1>5, <1>6, EditTypes DEF AddOther
<1>7. CASE RemoveOther(s)
  <2>1. [api[s] EXCEPT !.fins = @ \ {Other}] \in Sandbox
    BY <1>1, <1>5, EditTypes
  <2> QED BY <1>7, <2>1, WriteType, JobsFrame
          DEF TypeOK, RemoveOther, ctlVars, jobVars, awsVars, envVars
<1> QED BY <1>3, <1>4, <1>6, <1>7 DEF User

LEMMA ServiceType ==
  ASSUME TypeOK, NEW v \in VMs, Service(v) PROVE TypeOK'
<1>1. CASE VmProgress(v)
  <2>1. vm' \in [VMs -> VmStates]
    BY <1>1 DEF TypeOK, VmProgress, Progress, VmStates
  <2> QED BY <1>1, <2>1, JobsFrame
          DEF TypeOK, VmProgress, k8sVars, ctlVars, jobVars, envVars
<1>2. CASE VmDrift(v)
  <2>1. Drift(vm[v]) \subseteq VmStates
    BY DEF Drift, VmStates
  <2>2. vm' \in [VMs -> VmStates]
    BY <1>2, <2>1 DEF TypeOK, VmDrift
  <2>3. left' \in [BudgetKinds -> Nat]
    BY <1>2, SpendType DEF VmDrift, BudgetKinds
  <2> QED BY <1>2, <2>2, <2>3, JobsFrame
          DEF TypeOK, VmDrift, k8sVars, ctlVars, jobVars
<1> QED BY <1>1, <1>2 DEF Service

LEMMA RestartType ==
  ASSUME TypeOK, Restart PROVE TypeOK'
<1>1. left' \in [BudgetKinds -> Nat]
  BY SpendType DEF Restart, BudgetKinds
<1>2. blame' \in SUBSET {"staleRead", "lostId", "lostSecret", "asmDelete"}
  BY LossType DEF TypeOK, Restart
<1>3. pc' \in [Workers -> Places] /\ job' \in [Workers -> Job]
  BY AbsentType DEF Restart, Places
<1>4. \A x \in Workers : JobOK(x)'
  BY DEF Restart, JobOK, Busy
<1>5. watch' \in [Sandboxes -> Seq(Sandbox)]
  BY DEF Restart
<1> QED BY <1>1, <1>2, <1>3, <1>4, <1>5, WqEmptyOK
        DEF TypeOK, Restart, Job, awsVars

LEMMA TypeInit == Init => TypeOK
<1> SUFFICES ASSUME Init PROVE TypeOK
  OBVIOUS
<1>1. pc \in [Workers -> Places] /\ job \in [Workers -> Job]
  BY AbsentType DEF Init, Places
<1>2. \A x \in Workers : JobOK(x)
  BY DEF Init, JobOK, Busy
<1>3. /\ api \in [Sandboxes -> Sandbox] /\ cache \in [Sandboxes -> Sandbox]
      /\ watch \in [Sandboxes -> Seq(Sandbox)]
  BY AbsentType DEF Init
<1>4. left \in [BudgetKinds -> Nat]
  BY BudgetAssumption DEF Init
<1> QED BY <1>1, <1>2, <1>3, <1>4, WqEmptyOK DEF Init, TypeOK, Job, VmStates

LEMMA TypeNext == TypeOK /\ [Next]_vars => TypeOK'
<1> SUFFICES ASSUME TypeOK, [Next]_vars PROVE TypeOK'
  OBVIOUS
<1>1. ASSUME NEW w \in Workers, Work(w) \/ Fault(w) PROVE TypeOK'
  BY <1>1, GetType, ReadType, DeletionType, ProvisionedType, ProvisionType,
     FailureType DEF Work, Fault
<1>2. ASSUME NEW s \in Sandboxes, Informer(s) \/ User(s) PROVE TypeOK'
  BY <1>2, InformerType, UserType
<1>3. CASE UNCHANGED vars
  BY <1>3 DEF vars, TypeOK, JobOK, Busy, Key, Seen
<1> QED BY <1>1, <1>2, <1>3, ServiceType, RestartType DEF Next

\* No reconcile makes a call without its arguments: a worker that terminates,
\* queries, suspends or resumes has an identifier, one that records a MicroVM
\* has one, and everything stored is of its type.
THEOREM TypeCorrect == Spec => []TypeOK
BY TypeInit, TypeNext, PTL DEF Spec

-----------------------------------------------------------------------------
(* Objects and writes. *)

\* Somebody stores an existing object under s.
Stores(s, o) == o \in Sandbox /\ o.exists /\ (Write(s, o) \/ WriteStatus(s, o))

\* A write that keeps the MicroVM, the deletion timestamp and the finalizer.
Gentle(s) ==
  \E o \in Sandbox :
    /\ Stores(s, o)
    /\ o.id = api[s].id
    /\ api[s].del => o.del
    /\ Ours \in api[s].fins => Ours \in o.fins

\* What such a write, or none, means for what is recorded.
Keeps(s) ==
  /\ api'[s].id \in {api[s].id, None}
  /\ Ours \in api[s].fins => Ours \in api'[s].fins /\ api'[s].id = api[s].id
  /\ api'[s].id # None /\ api[s].del => api'[s].del

LEMMA AcceptedExists ==
  ASSUME NEW w, pc[w] \in ApiCalls, Accepted(w) PROVE Real(w).exists
<1>1. CASE pc[w] = "addFin"
  BY <1>1 DEF Accepted
<1>2. CASE pc[w] = "release"
  BY <1>2 DEF Accepted
<1>3. CASE pc[w] \in ApiCalls \ {"addFin", "release"}
  BY <1>3 DEF Accepted, ApiCalls
<1> QED BY <1>1, <1>2, <1>3

\* The edits of EditTypes, as far as the MicroVM and its finalizer go.
LEMMA EditFacts ==
  ASSUME NEW o \in Sandbox
  PROVE  /\ \A f \in SUBSET {Ours, Other} :
              LET p == [o EXCEPT !.fins = f] IN
              p.exists = o.exists /\ p.id = o.id /\ p.del = o.del /\ p.fins = f
         /\ \A st \in VmStates : LET p == [o EXCEPT !.st = st] IN
              p.exists = o.exists /\ p.id = o.id /\ p.del = o.del /\ p.fins = o.fins
         /\ \A r \in BOOLEAN : LET p == [o EXCEPT !.ready = r, !.fqdn = TRUE] IN
              p.exists = o.exists /\ p.id = o.id /\ p.del = o.del /\ p.fins = o.fins
         /\ LET p == [o EXCEPT !.ready = FALSE] IN
              p.exists = o.exists /\ p.id = o.id /\ p.del = o.del /\ p.fins = o.fins
         /\ LET p == [o EXCEPT !.ports = TRUE] IN
              p.exists = o.exists /\ p.id = o.id /\ p.del = o.del /\ p.fins = o.fins
         /\ LET p == [o EXCEPT !.sec = TRUE] IN
              p.exists = o.exists /\ p.id = o.id /\ p.del = o.del /\ p.fins = o.fins
         /\ \A v \in VMs : LET p == [o EXCEPT !.id = v, !.st = "PENDING"] IN
              p.exists = o.exists /\ p.id = v /\ p.del = o.del /\ p.fins = o.fins
         /\ LET p == [o EXCEPT !.del = TRUE] IN
              p.exists = o.exists /\ p.id = o.id /\ p.del = TRUE /\ p.fins = o.fins
         /\ LET p == [o EXCEPT !.warm = FALSE] IN
              p.exists = o.exists /\ p.id = o.id /\ p.del = o.del /\ p.fins = o.fins
         /\ \A m \in {"Running", "Suspended"} : LET p == [o EXCEPT !.mode = m] IN
              p.exists = o.exists /\ p.id = o.id /\ p.del = o.del /\ p.fins = o.fins
BY DEF Sandbox

LEMMA GentleWitness ==
  ASSUME NEW w, Real(w) = api[Key(w)], Real(w).exists, NEW o \in Sandbox,
         o.exists = Real(w).exists, o.id = Real(w).id, o.del = Real(w).del,
         Ours \in Real(w).fins => Ours \in o.fins,
         Write(Key(w), o) \/ WriteStatus(Key(w), o)
  PROVE  Gentle(Key(w))
BY DEF Gentle, Stores

\* The writes of a worker that are gentle.
LEMMA WorkGentle ==
  ASSUME TypeOK, NEW w \in Workers,
         \/ AddFinalizer(w) \/ AnnotateStatus(w) \/ PatchStatus(w)
         \/ AnnotatePorts(w) \/ AnnotateSecret(w)
         \/ CondProvisioning(w) \/ CondError(w)
  PROVE  Gentle(Key(w)) /\ cache' = cache
<1>1. /\ pc[w] \in ApiCalls /\ pc[w] # "idle" /\ Accepted(w)
      /\ Real(w) = api[Key(w)] /\ cache' = cache
  BY DEF AddFinalizer, AnnotateStatus, PatchStatus, AnnotatePorts,
         AnnotateSecret, CondProvisioning, CondError, PatchCondition, ApiCalls,
         Real, Key, ctlVars, End
<1>2. Real(w).exists /\ Real(w) \in Sandbox
  BY <1>1, AcceptedExists, BusyTypes
<1>3. CASE AddFinalizer(w)
  <2>3. AddedFins(w) \in SUBSET {Ours, Other} /\ Ours \in AddedFins(w)
    BY <1>1, BusyTypes DEF AddedFins
  <2> DEFINE o == [Real(w) EXCEPT !.fins = AddedFins(w)]
  <2>1. /\ o \in Sandbox /\ o.exists = Real(w).exists /\ o.id = Real(w).id
        /\ o.del = Real(w).del /\ (Ours \in Real(w).fins => Ours \in o.fins)
    BY <1>2, <2>3, EditTypes, EditFacts
  <2>2. Write(Key(w), o)
    BY <1>3 DEF AddFinalizer
  <2> HIDE DEF o
  <2> QED BY <1>1, <1>2, <2>1, <2>2, GentleWitness
<1>4. CASE AnnotateStatus(w)
  <2>3. PICK st \in VmStates : st = job[w].st
    BY <1>1, BusyTypes
  <2> DEFINE o == [Real(w) EXCEPT !.st = st]
  <2>1. /\ o \in Sandbox /\ o.exists = Real(w).exists /\ o.id = Real(w).id
        /\ o.del = Real(w).del /\ (Ours \in Real(w).fins => Ours \in o.fins)
    BY <1>2, EditTypes, EditFacts
  <2>2. Write(Key(w), o)
    BY <1>4, <2>3 DEF AnnotateStatus
  <2> HIDE DEF o
  <2> QED BY <1>1, <1>2, <2>1, <2>2, GentleWitness
<1>5. CASE PatchStatus(w)
  <2>3. PICK r \in BOOLEAN : r = (job[w].st = "RUNNING")
    OBVIOUS
  <2> DEFINE o == [Real(w) EXCEPT !.ready = r, !.fqdn = TRUE]
  <2>1. /\ o \in Sandbox /\ o.exists = Real(w).exists /\ o.id = Real(w).id
        /\ o.del = Real(w).del /\ (Ours \in Real(w).fins => Ours \in o.fins)
    BY <1>2, EditTypes, EditFacts
  <2>2. WriteStatus(Key(w), o)
    BY <1>5, <2>3 DEF PatchStatus
  <2> HIDE DEF o
  <2> QED BY <1>1, <1>2, <2>1, <2>2, GentleWitness
<1>6. CASE AnnotatePorts(w)
  <2> DEFINE o == [Real(w) EXCEPT !.ports = TRUE]
  <2>1. /\ o \in Sandbox /\ o.exists = Real(w).exists /\ o.id = Real(w).id
        /\ o.del = Real(w).del /\ (Ours \in Real(w).fins => Ours \in o.fins)
    BY <1>2, EditTypes, EditFacts
  <2>2. Write(Key(w), o)
    BY <1>6 DEF AnnotatePorts
  <2> HIDE DEF o
  <2> QED BY <1>1, <1>2, <2>1, <2>2, GentleWitness
<1>7. CASE AnnotateSecret(w)
  <2> DEFINE o == [Real(w) EXCEPT !.sec = TRUE]
  <2>1. /\ o \in Sandbox /\ o.exists = Real(w).exists /\ o.id = Real(w).id
        /\ o.del = Real(w).del /\ (Ours \in Real(w).fins => Ours \in o.fins)
    BY <1>2, EditTypes, EditFacts
  <2>2. Write(Key(w), o)
    BY <1>7 DEF AnnotateSecret
  <2> HIDE DEF o
  <2> QED BY <1>1, <1>2, <2>1, <2>2, GentleWitness
<1>8. CASE CondProvisioning(w) \/ CondError(w)
  <2> DEFINE o == [Real(w) EXCEPT !.ready = FALSE]
  <2>1. /\ o \in Sandbox /\ o.exists = Real(w).exists /\ o.id = Real(w).id
        /\ o.del = Real(w).del /\ (Ours \in Real(w).fins => Ours \in o.fins)
    BY <1>2, EditTypes, EditFacts
  <2>2. WriteStatus(Key(w), o)
    BY <1>8 DEF CondProvisioning, CondError, PatchCondition
  <2> HIDE DEF o
  <2> QED BY <1>1, <1>2, <2>1, <2>2, GentleWitness
<1> QED BY <1>1, <1>3, <1>4, <1>5, <1>6, <1>7, <1>8

LEMMA StoresFacts ==
  ASSUME TypeOK, NEW s \in Sandboxes, NEW o, Stores(s, o)
  PROVE  /\ api'[s] = Stored(o)
         /\ \A r \in Sandboxes \ {s} : api'[r] = api[r] /\ watch'[r] = watch[r]
         /\ \/ watch'[s] = watch[s] /\ api'[s] = api[s]
            \/ watch'[s] = Append(watch[s], Stored(o))
<1>1. PICK tick \in BOOLEAN : Version(s, o, tick)
  BY DEF Stores, Write, WriteStatus
<1> QED BY <1>1 DEF TypeOK, Version

LEMMA StoresObjects ==
  ASSUME TypeOK, ObjectsOK, NEW s \in Sandboxes, NEW o, Stores(s, o),
         cache' = cache
  PROVE  ObjectsOK'
<1>1. \A r \in Sandboxes \ {s} :
        /\ api'[r].exists \/ api'[r] = Absent
        /\ IF watch'[r] = <<>> THEN cache'[r] = api'[r]
                               ELSE watch'[r][Len(watch'[r])] = api'[r]
  BY StoresFacts DEF ObjectsOK
<1>2. api'[s].exists \/ api'[s] = Absent
  BY StoresFacts DEF Stores, Stored
<1>3. CASE watch'[s] = watch[s] /\ api'[s] = api[s]
  BY <1>1, <1>2, <1>3 DEF ObjectsOK
<1>4. CASE watch'[s] = Append(watch[s], Stored(o))
  <2>1. watch[s] \in Seq(Sandbox) /\ Stored(o) \in Sandbox
    BY StoredType DEF TypeOK, Stores
  <2>2. watch'[s] # <<>> /\ watch'[s][Len(watch'[s])] = Stored(o)
    BY <1>4, <2>1
  <2> QED BY <1>1, <1>2, <2>2, StoresFacts DEF ObjectsOK
<1> QED BY <1>3, <1>4, StoresFacts

LEMMA GentleKeeps ==
  ASSUME TypeOK, NEW s \in Sandboxes, Gentle(s)
  PROVE  \A r \in Sandboxes : Keeps(r)
<1>1. PICK o \in Sandbox :
        /\ Stores(s, o)
        /\ o.id = api[s].id
        /\ api[s].del => o.del
        /\ Ours \in api[s].fins => Ours \in o.fins
  BY DEF Gentle
<1>2. Keeps(s)
  <2>1. CASE o.del /\ o.fins = {}
    <3>1. api'[s] = Absent
      BY <1>1, <2>1, StoresFacts DEF Stored
    <3> QED BY <1>1, <2>1, <3>1, AbsentType DEF Keeps
  <2>2. CASE ~(o.del /\ o.fins = {})
    <3>1. api'[s] = o
      BY <1>1, <2>2, StoresFacts, Zenon DEF Stored
    <3> QED BY <1>1, <3>1 DEF Keeps
  <2> QED BY <2>1, <2>2
<1>3. \A r \in Sandboxes \ {s} : Keeps(r)
  BY <1>1, StoresFacts DEF Keeps
<1> QED BY <1>2, <1>3

\* Every edit by a user or another controller is gentle.
LEMMA UserGentle ==
  ASSUME TypeOK, ObjectsOK, NEW s \in Sandboxes, User(s)
  PROVE  Gentle(s) /\ cache' = cache
<1>1. /\ api[s] \in Sandbox /\ (api[s].exists \/ api[s] = Absent)
  BY DEF TypeOK, ObjectsOK
<1>2. ASSUME NEW o \in Sandbox, Edit(s, o), o.exists, o.id = api[s].id,
             api[s].del => o.del, Ours \in api[s].fins => Ours \in o.fins
      PROVE  Gentle(s) /\ cache' = cache
  BY <1>2 DEF Edit, Gentle, Stores, ctlVars
<1>3. CASE Create(s)
  <2>1. PICK label \in BOOLEAN : Edit(s, Fresh(label))
    BY <1>3 DEF Create
  <2>2. api[s] = Absent
    BY <1>1, <1>3 DEF Create
  <2> HIDE DEF Fresh
  <2> QED BY <1>2, <2>1, <2>2, FreshType, AbsentType
<1>4. CASE Delete(s)
  <2> DEFINE o == [api[s] EXCEPT !.del = TRUE]
  <2>1. /\ o \in Sandbox /\ o.exists = api[s].exists /\ o.id = api[s].id
        /\ o.del /\ o.fins = api[s].fins
    BY <1>1, EditTypes, EditFacts
  <2>2. Edit(s, o) /\ api[s].exists
    BY <1>4 DEF Delete
  <2> HIDE DEF o
  <2> QED BY <1>2, <2>1, <2>2
<1>5. CASE SetMode(s)
  <2>1. PICK m \in {"Running", "Suspended"} : Edit(s, [api[s] EXCEPT !.mode = m])
    BY <1>5 DEF SetMode
  <2> DEFINE o == [api[s] EXCEPT !.mode = m]
  <2>2. /\ o \in Sandbox /\ o.exists = api[s].exists /\ o.id = api[s].id
        /\ o.del = api[s].del /\ o.fins = api[s].fins
    BY <1>1, EditTypes, EditFacts
  <2>3. Edit(s, o) /\ api[s].exists
    BY <1>5, <2>1 DEF SetMode
  <2> HIDE DEF o
  <2> QED BY <1>2, <2>2, <2>3
<1>6. CASE ClaimAdopt(s)
  <2> DEFINE o == [api[s] EXCEPT !.warm = FALSE]
  <2>1. /\ o \in Sandbox /\ o.exists = api[s].exists /\ o.id = api[s].id
        /\ o.del = api[s].del /\ o.fins = api[s].fins
    BY <1>1, EditTypes, EditFacts
  <2>2. Edit(s, o) /\ api[s].exists
    BY <1>6 DEF ClaimAdopt
  <2> HIDE DEF o
  <2> QED BY <1>2, <2>1, <2>2
<1>7. CASE AddOther(s)
  <2>1. PICK f \in SUBSET {Ours, Other} : f = api[s].fins \cup {Other}
    BY <1>1 DEF Sandbox
  <2> DEFINE o == [api[s] EXCEPT !.fins = f]
  <2>2. Edit(s, o) /\ api[s].exists
    BY <1>7, <2>1 DEF AddOther
  <2>3. /\ o \in Sandbox /\ o.exists = api[s].exists /\ o.id = api[s].id
        /\ o.del = api[s].del /\ o.fins = f
    BY <1>1, EditTypes, EditFacts
  <2> HIDE DEF o
  <2> QED BY <1>2, <2>1, <2>2, <2>3
<1>8. CASE RemoveOther(s)
  <2>1. PICK f \in SUBSET {Ours, Other} : f = api[s].fins \ {Other}
    BY <1>1 DEF Sandbox
  <2> DEFINE o == [api[s] EXCEPT !.fins = f]
  <2>2. Write(s, o) /\ cache' = cache
    BY <1>8, <2>1 DEF RemoveOther, ctlVars
  <2>3. api[s].exists
    BY <1>1, <1>8, AbsentType DEF RemoveOther
  <2>4. /\ o \in Sandbox /\ o.exists = api[s].exists /\ o.id = api[s].id
        /\ o.del = api[s].del /\ o.fins = f
    BY <1>1, EditTypes, EditFacts
  <2>5. Ours \in api[s].fins => Ours \in f
    BY <2>1 DEF Ours, Other
  <2> HIDE DEF o
  <2> QED BY <2>2, <2>3, <2>4, <2>5 DEF Gentle, Stores
<1> QED BY <1>3, <1>4, <1>5, <1>6, <1>7, <1>8 DEF User

\* The two writes that are not gentle.
LEMMA ReleaseStores ==
  ASSUME TypeOK, NEW w \in Workers, Release(w)
  PROVE  /\ cache' = cache /\ Key(w) \in Sandboxes
         /\ \E o \in Sandbox : /\ Stores(Key(w), o) /\ Ours \notin o.fins
                               /\ o.id = api[Key(w)].id
                               /\ o.del = api[Key(w)].del
<1>1. /\ pc[w] = "release" /\ pc[w] # "idle" /\ Accepted(w) /\ cache' = cache
  BY DEF Release, End
<1>2. /\ Real(w) \in Sandbox /\ Real(w) = api[Key(w)] /\ Key(w) \in Sandboxes
      /\ RemovedFins(w) \in SUBSET {Ours, Other}
  BY <1>1, BusyTypes
<1>3. Real(w).exists
  BY <1>1, AcceptedExists DEF ApiCalls
<1> DEFINE o == [Real(w) EXCEPT !.fins = RemovedFins(w)]
<1>4. /\ o \in Sandbox /\ o.exists = Real(w).exists /\ o.id = Real(w).id
      /\ o.del = Real(w).del /\ o.fins = RemovedFins(w)
  BY <1>2, EditTypes, EditFacts
<1>5. Ours \notin RemovedFins(w)
  BY DEF RemovedFins
<1>6. Write(Key(w), o)
  BY DEF Release
<1> HIDE DEF o
<1> QED BY <1>1, <1>2, <1>3, <1>4, <1>5, <1>6 DEF Stores

LEMMA PatchIdStores ==
  ASSUME TypeOK, NEW w \in Workers, PatchId(w)
  PROVE  /\ cache' = cache /\ Key(w) \in Sandboxes
         /\ \E o \in Sandbox : /\ Stores(Key(w), o)
                               /\ o.fins = api[Key(w)].fins
                               /\ o.id = job[w].id
                               /\ o.del = api[Key(w)].del
<1>1. /\ pc[w] = "patchId" /\ pc[w] # "idle" /\ Accepted(w) /\ cache' = cache
      /\ job[w].id \in VMs
  BY DEF PatchId, ctlVars, TypeOK, JobOK
<1>2. Real(w) \in Sandbox /\ Real(w) = api[Key(w)] /\ Key(w) \in Sandboxes
  BY <1>1, BusyTypes
<1>3. Real(w).exists
  BY <1>1, AcceptedExists DEF ApiCalls
<1>4. PICK v \in VMs : v = job[w].id
  BY <1>1
<1> DEFINE o == [Real(w) EXCEPT !.id = v, !.st = "PENDING"]
<1>5. /\ o \in Sandbox /\ o.exists = Real(w).exists /\ o.id = v
      /\ o.del = Real(w).del /\ o.fins = Real(w).fins
  BY <1>2, EditTypes, EditFacts
<1>6. Write(Key(w), o)
  BY <1>4 DEF PatchId
<1> HIDE DEF o
<1> QED BY <1>1, <1>2, <1>3, <1>4, <1>5, <1>6 DEF Stores

\* What the moves of a worker do to the objects and the cache.
LEMMA WorkStores ==
  ASSUME TypeOK, NEW w \in Workers, Work(w) \/ Fault(w)
  PROVE  \/ UNCHANGED <<api, watch, cache>>
         \/ /\ Key(w) \in Sandboxes /\ cache' = cache
            /\ \E o : Stores(Key(w), o)
<1>1. CASE \/ Get(w) \/ ReadNothing(w) \/ ReadDeletion(w) \/ ReadLive(w)
           \/ Terminate(w) \/ DeleteSecret(w) \/ GetMicrovm(w)
           \/ Suspend(w) \/ Resume(w) \/ MapSandbox(w) \/ PutSecret(w)
           \/ ColdRun(w) \/ WarmAdopt(w) \/ RunLost(w)
  BY <1>1 DEF Get, ReadNothing, ReadDeletion, ReadLive, Take, Terminate,
     DeleteSecret, GetMicrovm, Suspend, Resume, Switch, MapSandbox, PutSecret, CreateSecret, CreateLost, UpdateSecret,
     ColdRun, WarmAdopt, Obtain, RunLost, End, k8sVars, ctlVars
<1>2. CASE Rejected(w) \/ CallFails(w)
  <2>1. pc[w] # "idle" /\ OnError(w)
    BY <1>2 DEF Rejected, CallFails, Busy, ApiCalls, AwsCalls
  <2> QED BY <1>2, <2>1, OnErrorType DEF Rejected, CallFails, k8sVars
<1>3. CASE \/ AddFinalizer(w) \/ AnnotateStatus(w) \/ PatchStatus(w)
           \/ AnnotatePorts(w) \/ AnnotateSecret(w)
           \/ CondProvisioning(w) \/ CondError(w)
  <2>1. pc[w] # "idle"
    BY <1>3 DEF AddFinalizer, AnnotateStatus, PatchStatus, AnnotatePorts,
       AnnotateSecret, CondProvisioning, CondError, PatchCondition
  <2>2. Key(w) \in Sandboxes
    BY <2>1, BusyTypes
  <2> QED BY <1>3, <2>2, WorkGentle DEF Gentle
<1>4. CASE Release(w) \/ PatchId(w)
  BY <1>4, ReleaseStores, PatchIdStores
<1> QED BY <1>1, <1>2, <1>3, <1>4 DEF Work, Fault

\* The newest version is still the last one when the oldest is delivered.
LEMMA TailLast ==
  ASSUME NEW T, NEW q \in Seq(T), q # <<>>
  PROVE  IF Tail(q) = <<>> THEN Head(q) = q[Len(q)]
                           ELSE Tail(q)[Len(Tail(q))] = q[Len(q)]
<1>1. /\ Len(q) \in Nat /\ Len(q) > 0 /\ Tail(q) \in Seq(T)
      /\ Len(Tail(q)) = Len(q) - 1 /\ Head(q) = q[1]
      /\ \A i \in 1..(Len(q) - 1) : Tail(q)[i] = q[i + 1]
  OBVIOUS
<1>2. CASE Tail(q) = <<>>
  <2>1. Len(<<>>) = 0
    OBVIOUS
  <2>2. Len(q) = 1
    BY <1>1, <1>2, <2>1
  <2> QED BY <1>1, <1>2, <2>2
<1>3. CASE Tail(q) # <<>>
  <2>1. Len(Tail(q)) # 0
    BY <1>1, <1>3
  <2>2. Len(q) - 1 \in 1..(Len(q) - 1)
    BY <1>1, <2>1
  <2>3. Tail(q)[Len(q) - 1] = q[(Len(q) - 1) + 1]
    BY <1>1, <2>2
  <2> QED BY <1>1, <1>3, <2>3
<1> QED BY <1>2, <1>3

LEMMA ObjectsNext ==
  ASSUME TypeOK, ObjectsOK, [Next]_vars PROVE ObjectsOK'
<1>1. CASE UNCHANGED <<api, watch, cache>>
  BY <1>1 DEF ObjectsOK
<1>2. ASSUME NEW w \in Workers, Work(w) \/ Fault(w) PROVE ObjectsOK'
  BY <1>1, <1>2, WorkStores, StoresObjects
<1>3. ASSUME NEW s \in Sandboxes, User(s) PROVE ObjectsOK'
  BY <1>3, UserGentle, StoresObjects DEF Gentle
<1>4. ASSUME NEW s \in Sandboxes, Deliver(s) PROVE ObjectsOK'
  <2>1. watch[s] \in Seq(Sandbox) /\ watch[s] # <<>>
    BY <1>4 DEF Deliver, TypeOK
  <2>2. IF Tail(watch[s]) = <<>>
          THEN Head(watch[s]) = watch[s][Len(watch[s])]
          ELSE Tail(watch[s])[Len(Tail(watch[s]))] = watch[s][Len(watch[s])]
    BY <2>1, TailLast
  <2>3. /\ api' = api
        /\ watch'[s] = Tail(watch[s]) /\ cache'[s] = Head(watch[s])
        /\ \A r \in Sandboxes \ {s} : watch'[r] = watch[r] /\ cache'[r] = cache[r]
    BY <1>4 DEF Deliver, TypeOK
  <2> QED BY <2>1, <2>2, <2>3 DEF ObjectsOK
<1>5. ASSUME NEW s \in Sandboxes, Fire(s) \/ Resync(s) PROVE ObjectsOK'
  BY <1>1, <1>5 DEF Fire, Resync, k8sVars
<1>6. ASSUME NEW v \in VMs, Service(v) PROVE ObjectsOK'
  BY <1>1, <1>6 DEF Service, VmProgress, VmDrift, k8sVars, ctlVars
<1>7. CASE Restart
  BY <1>7 DEF Restart, ObjectsOK
<1>8. CASE UNCHANGED vars
  BY <1>1, <1>8 DEF vars
<1> QED BY <1>2, <1>3, <1>4, <1>5, <1>6, <1>7, <1>8 DEF Next, Informer

-----------------------------------------------------------------------------
(* Keys and workers. *)

\* A step in which every busy worker goes on with its key.
Goes == wq' = wq /\ \A x \in Workers : Busy(x)' => Busy(x) /\ Key(x)' = Key(x)

LEMMA ErrorGoes ==
  ASSUME TypeOK, NEW w \in Workers, pc[w] # "idle", OnError(w)
  PROVE  Goes \/ \E r : End(w, r)
<1>1. CASE pc[w] = "delSecret"
  BY <1>1 DEF OnError, Goto, Goes, Busy, Key, ctlVars, TypeOK
<1>2. CASE pc[w] = "ports"
  BY <1>2 DEF OnError, Goto, Goes, Busy, Key, ctlVars, TypeOK
<1>3. CASE pc[w] \in {"map", "createSecret", "updateSecret", "provision"}
  BY <1>3 DEF OnError, Goto, Goes, Busy, Key, ctlVars, TypeOK
<1>4. CASE pc[w] \notin {"delSecret", "ports", "map", "createSecret",
                        "updateSecret", "provision"}
  BY <1>4 DEF OnError
<1> QED BY <1>1, <1>2, <1>3, <1>4

LEMMA MoveGoes ==
  ASSUME TypeOK, NEW w \in Workers, pc[w] # "idle", NEW p, NEW j,
         pc' = [pc EXCEPT ![w] = p], job' = [job EXCEPT ![w] = j],
         j.key = job[w].key, wq' = wq
  PROVE  Goes
BY DEF Goes, Busy, Key, TypeOK

\* A worker takes a key, ends, or goes on.
LEMMA WorkGoes ==
  ASSUME TypeOK, NEW w \in Workers, Work(w) \/ Fault(w)
  PROVE  Get(w) \/ Goes \/ (pc[w] # "idle" /\ \E r : End(w, r))
<1>1. CASE \/ Terminate(w) \/ DeleteSecret(w) \/ AddFinalizer(w)
           \/ AnnotateStatus(w) \/ MapSandbox(w) \/ AnnotatePorts(w)
           \/ PutSecret(w) \/ AnnotateSecret(w) \/ PatchId(w) \/ RunLost(w)
  <2>1. /\ pc[w] # "idle" /\ wq' = wq
        /\ \E p : Goto(w, p)
    BY <1>1 DEF Terminate, DeleteSecret, AddFinalizer, AnnotateStatus,
       MapSandbox, AnnotatePorts, PutSecret, CreateSecret, CreateLost, UpdateSecret, AnnotateSecret, PatchId, RunLost,
       Issue, ctlVars
  <2> QED BY <2>1 DEF Goto, Goes, Busy, Key, TypeOK
<1>2. CASE ReadDeletion(w) \/ ReadLive(w)
  <2> DEFINE j == [job[w] EXCEPT !.u = cache[Key(w)]]
  <2>1. PICK p : Take(w, p)
    BY <1>2 DEF ReadDeletion, ReadLive
  <2>2. /\ pc[w] # "idle" /\ wq' = wq
        /\ job' = [job EXCEPT ![w] = j] /\ pc' = [pc EXCEPT ![w] = p]
    BY <1>2, <2>1 DEF ReadDeletion, ReadLive, Take, ctlVars
  <2>3. j.key = job[w].key
    BY DEF TypeOK
  <2> HIDE DEF j
  <2> QED BY <2>2, <2>3, MoveGoes
<1>3. CASE GetMicrovm(w) \/ Suspend(w) \/ Resume(w)
  <2>1. PICK st, p : /\ job' = [job EXCEPT ![w].st = st]
                     /\ pc' = [pc EXCEPT ![w] = p]
    BY <1>3 DEF GetMicrovm, Suspend, Resume, Switch
  <2> DEFINE j == [job[w] EXCEPT !.st = st]
  <2>2. pc[w] # "idle" /\ wq' = wq
    BY <1>3 DEF GetMicrovm, Suspend, Resume, Switch, ctlVars
  <2>3. j.key = job[w].key /\ job' = [job EXCEPT ![w] = j]
    BY <2>1 DEF TypeOK
  <2> HIDE DEF j
  <2> QED BY <2>1, <2>2, <2>3, MoveGoes
<1>6. CASE ColdRun(w) \/ WarmAdopt(w)
  <2>1. PICK v, st : Obtain(w, v, st)
    BY <1>6 DEF ColdRun, WarmAdopt
  <2> DEFINE j == [job[w] EXCEPT !.id = v]
  <2>2. /\ pc[w] # "idle" /\ wq' = wq
        /\ job' = [job EXCEPT ![w] = j] /\ pc' = [pc EXCEPT ![w] = "patchId"]
    BY <2>1 DEF Obtain, Issue, ctlVars
  <2>3. j.key = job[w].key
    BY DEF TypeOK
  <2> HIDE DEF j
  <2> QED BY <2>2, <2>3, MoveGoes
<1>4. CASE \/ ReadNothing(w) \/ Release(w) \/ PatchStatus(w)
           \/ CondProvisioning(w) \/ CondError(w)
  BY <1>4 DEF ReadNothing, Release, PatchStatus, CondProvisioning, CondError,
     PatchCondition
<1>5. CASE Rejected(w) \/ CallFails(w)
  <2>1. pc[w] # "idle" /\ OnError(w)
    BY <1>5 DEF Rejected, CallFails, Busy, ApiCalls, AwsCalls
  <2> QED BY <2>1, ErrorGoes
<1> QED BY <1>1, <1>2, <1>3, <1>4, <1>5, <1>6 DEF Work, Fault

LEMMA HoldersWork ==
  ASSUME TypeOK, HoldersOK, NEW w \in Workers, Work(w) \/ Fault(w)
  PROVE  HoldersOK'
<1>1. CASE Get(w)
  <2>1. /\ WqOK(wq)' /\ Head(wq.queue) \notin wq.processing
        /\ wq'.processing = wq.processing \cup {Head(wq.queue)}
    BY <1>1, WqGetOK DEF Get, TypeOK, HoldersOK
  <2>2. /\ Key(w)' = Head(wq.queue) /\ ~Busy(w)
        /\ \A x \in Workers \ {w} :
             (Busy(x)' <=> Busy(x)) /\ Key(x)' = Key(x)
    BY <1>1 DEF Get, TypeOK, Busy, Key
  <2>3. \A x \in Workers \ {w} : Busy(x) => Key(x)' # Key(w)'
    BY <2>1, <2>2 DEF HoldersOK
  <2>4. \A x \in Workers : Busy(x)' => Key(x)' \in wq'.processing
    BY <2>1, <2>2 DEF HoldersOK
  <2>5. ASSUME NEW x \in Workers, NEW y \in Workers, Busy(x)', Busy(y)',
               Key(x)' = Key(y)'
        PROVE  x = y
    BY <2>2, <2>3, <2>5 DEF HoldersOK
  <2> QED BY <2>1, <2>4, <2>5 DEF HoldersOK
<1>2. CASE Goes
  BY <1>2 DEF Goes, HoldersOK
<1>3. ASSUME pc[w] # "idle", NEW r, End(w, r) PROVE HoldersOK'
  <2>1. Key(w) \in Sandboxes /\ Key(w) \in wq.processing
    BY <1>3 DEF TypeOK, JobOK, HoldersOK, Busy
  <2>2. WqOK(wq)' /\ wq'.processing = wq.processing \ {Key(w)}
    BY <1>3, <2>1, WqDoneOK DEF End, TypeOK, HoldersOK
  <2>3. /\ ~Busy(w)'
        /\ \A x \in Workers \ {w} :
             (Busy(x)' <=> Busy(x)) /\ Key(x)' = Key(x)
    BY <1>3 DEF End, TypeOK, Busy, Key
  <2>4. \A x \in Workers \ {w} : Busy(x) => Key(x) # Key(w)
    BY <1>3 DEF HoldersOK, Busy
  <2>5. \A x \in Workers : Busy(x)' => Key(x)' \in wq'.processing
    BY <2>2, <2>3, <2>4 DEF HoldersOK
  <2>6. ASSUME NEW x \in Workers, NEW y \in Workers, Busy(x)', Busy(y)',
               Key(x)' = Key(y)'
        PROVE  x = y
    BY <2>3, <2>6 DEF HoldersOK
  <2> QED BY <2>2, <2>5, <2>6 DEF HoldersOK
<1> QED BY <1>1, <1>2, <1>3, WorkGoes

LEMMA HoldersNext ==
  ASSUME TypeOK, HoldersOK, [Next]_vars PROVE HoldersOK'
<1>1. CASE UNCHANGED <<wq, pc, job>>
  BY <1>1 DEF HoldersOK, Busy, Key
<1>2. ASSUME NEW s \in Sandboxes, Informer(s) PROVE HoldersOK'
  <2>1. wq' = WqAdd(wq, s) /\ UNCHANGED jobVars
    BY <1>2 DEF Informer, Deliver, Fire, Resync
  <2>2. WqOK(wq)' /\ wq'.processing = wq.processing
    BY <2>1, WqAddOK DEF TypeOK, HoldersOK
  <2> QED BY <2>1, <2>2 DEF HoldersOK, Busy, Key, jobVars
<1>3. ASSUME NEW s \in Sandboxes, User(s) PROVE HoldersOK'
  BY <1>1, <1>3 DEF User, Create, Delete, SetMode, ClaimAdopt, AddOther,
     RemoveOther, Edit, ctlVars, jobVars
<1>4. ASSUME NEW v \in VMs, Service(v) PROVE HoldersOK'
  BY <1>1, <1>4 DEF Service, VmProgress, VmDrift, ctlVars, jobVars
<1>5. CASE Restart
  BY <1>5, WqEmptyOK DEF Restart, HoldersOK, Busy
<1>6. CASE UNCHANGED vars
  BY <1>1, <1>6 DEF vars
<1> QED BY <1>2, <1>3, <1>4, <1>5, <1>6, HoldersWork DEF Next

-----------------------------------------------------------------------------
(* MicroVMs and identifiers. *)

\* An identifier in use stays in use, with its owner; what has ended stays so.
VmKeeps(v) ==
  vm[v] # "UNUSED" =>
    /\ vm'[v] # "UNUSED" /\ owner'[v] = owner[v]
    /\ vm'[v] \in Live => vm[v] \in Live

LEMMA VmKeepsNext ==
  ASSUME TypeOK, [Next]_vars PROVE \A v \in VMs : VmKeeps(v)
<1>1. CASE UNCHANGED <<vm, owner>>
  BY <1>1 DEF VmKeeps
<1>2. ASSUME NEW w \in Workers, Terminate(w) PROVE \A v \in VMs : VmKeeps(v)
  BY <1>2 DEF Terminate, Terminated, TypeOK, VmKeeps, Live, Dead, VmStates
<1>3. ASSUME NEW w \in Workers, Suspend(w) \/ Resume(w)
      PROVE  \A v \in VMs : VmKeeps(v)
  <2>1. PICK st \in {"SUSPENDING", "RESUMING"} :
          vm' = [vm EXCEPT ![Seen(w).id] = st] /\ owner' = owner
    BY <1>3 DEF Suspend, Resume, Switch
  <2>2. vm[Seen(w).id] \in {"RUNNING", "SUSPENDED"}
    BY <1>3 DEF Suspend, Resume, Switch, Accepted, ApiCalls
  <2>3. {"RUNNING", "SUSPENDED", "SUSPENDING", "RESUMING"} \subseteq Live
    BY DEF Live, Dead, VmStates
  <2> QED BY <2>1, <2>2, <2>3 DEF TypeOK, VmKeeps
<1>4. ASSUME NEW w \in Workers, NEW v \in VMs, NEW st, Issue(w, v, st)
      PROVE  \A x \in VMs : VmKeeps(x)
  BY <1>4 DEF Issue, TypeOK, VmKeeps
<1>5. ASSUME NEW w \in Workers, Work(w) \/ Fault(w)
      PROVE  \A v \in VMs : VmKeeps(v)
  <2>1. CASE ColdRun(w) \/ WarmAdopt(w) \/ RunLost(w)
    BY <1>4, <2>1 DEF ColdRun, WarmAdopt, RunLost, Obtain
  <2>2. CASE Terminate(w) \/ Suspend(w) \/ Resume(w)
    BY <1>2, <1>3, <2>2
  <2>3. CASE \/ Get(w) \/ ReadNothing(w) \/ ReadDeletion(w) \/ ReadLive(w)
             \/ DeleteSecret(w) \/ Release(w) \/ AddFinalizer(w)
             \/ GetMicrovm(w) \/ AnnotateStatus(w) \/ PatchStatus(w)
             \/ MapSandbox(w) \/ AnnotatePorts(w) \/ PutSecret(w)
             \/ AnnotateSecret(w) \/ PatchId(w) \/ CondProvisioning(w)
             \/ CondError(w) \/ Rejected(w) \/ CallFails(w)
    BY <1>1, <2>3 DEF Get, ReadNothing, ReadDeletion, ReadLive, Take,
       DeleteSecret, Release, AddFinalizer, GetMicrovm, AnnotateStatus,
       PatchStatus, MapSandbox, AnnotatePorts, PutSecret, CreateSecret, CreateLost, UpdateSecret, AnnotateSecret,
       PatchId, CondProvisioning, CondError, PatchCondition, Rejected,
       CallFails, awsVars
  <2> QED BY <1>5, <2>1, <2>2, <2>3 DEF Work, Fault
<1>6. ASSUME NEW v \in VMs, Service(v) PROVE \A x \in VMs : VmKeeps(x)
  <2>1. /\ vm[v] \in VmStates /\ owner' = owner
        /\ \A x \in VMs \ {v} : vm'[x] = vm[x]
    BY <1>6 DEF Service, VmProgress, VmDrift, TypeOK
  <2>2. /\ vm'[v] \in {Progress(vm[v])} \cup Drift(vm[v])
        /\ Progress(vm[v]) # vm[v] \/ Drift(vm[v]) # {}
    BY <1>6 DEF Service, VmProgress, VmDrift, TypeOK
  <2>3. vm[v] \in Live /\ vm'[v] # "UNUSED"
    BY <2>1, <2>2 DEF Progress, Drift, Live, Dead, VmStates
  <2> QED BY <2>1, <2>3 DEF VmKeeps
<1>7. ASSUME NEW s \in Sandboxes, Informer(s) \/ User(s)
      PROVE  \A v \in VMs : VmKeeps(v)
  BY <1>1, <1>7 DEF Informer, Deliver, Fire, Resync, User, Create, Delete,
     SetMode, ClaimAdopt, AddOther, RemoveOther, Edit, awsVars
<1>8. CASE Restart \/ UNCHANGED vars
  BY <1>1, <1>8 DEF Restart, awsVars, vars
<1> QED BY <1>5, <1>6, <1>7, <1>8 DEF Next

\* Steps that record no new identifier and take none in hand.
LEMMA IdsFrame ==
  ASSUME TypeOK, IdsOK, \A v \in VMs : VmKeeps(v),
         \A s \in Sandboxes : api'[s].id \in {api[s].id, None},
         \A w \in Workers : pc'[w] = "patchId" =>
           /\ pc[w] = "patchId"
           /\ job'[w].id = job[w].id /\ job'[w].key = job[w].key
  PROVE  IdsOK'
<1>1. ASSUME NEW s \in Sandboxes, api'[s].id # None
      PROVE  vm'[api'[s].id] # "UNUSED"
  <2>1. api'[s].id = api[s].id /\ api[s].id \in VMs
    BY <1>1 DEF TypeOK, Sandbox
  <2> QED BY <1>1, <2>1 DEF IdsOK, VmKeeps
<1>2. ASSUME NEW w \in Workers, pc'[w] = "patchId"
      PROVE  vm'[job'[w].id] # "UNUSED" /\ owner'[job'[w].id] = job'[w].key
  <2>1. job'[w].id \in VMs /\ job'[w].id = job[w].id
    BY <1>2 DEF TypeOK, JobOK
  <2> QED BY <1>2, <2>1 DEF IdsOK, VmKeeps, Key
<1> QED BY <1>1, <1>2 DEF IdsOK, Key

LEMMA OnErrorMoves ==
  ASSUME TypeOK, NEW w \in Workers, OnError(w), pc[w] # "idle"
  PROVE  /\ \A x \in Workers \ {w} : pc'[x] = pc[x] /\ job'[x] = job[x]
         /\ \/ /\ pc'[w] = "idle"
               /\ pc[w] \notin {"delSecret", "ports", "map", "createSecret",
                               "updateSecret", "provision"}
            \/ pc'[w] = "condErr" /\ job' = job
            \/ pc[w] = "delSecret" /\ pc'[w] = "release" /\ job' = job
            \/ /\ pc[w] = "ports" /\ pc'[w] \in {"createSecret", "provision"}
               /\ job' = job
            \/ /\ pc[w] = "createSecret" /\ pc'[w] = "updateSecret"
               /\ job' = job
<1>1. CASE pc[w] = "delSecret"
  BY <1>1 DEF OnError, Goto, TypeOK
<1>2. CASE pc[w] = "ports"
  BY <1>2, PlaceTypes DEF OnError, Goto, TypeOK
<1>3. CASE pc[w] \in {"map", "createSecret", "updateSecret", "provision"}
  BY <1>3 DEF OnError, Goto, TypeOK
<1>4. CASE pc[w] \notin {"delSecret", "ports", "map", "createSecret",
                        "updateSecret", "provision"}
  BY <1>4 DEF OnError, End, TypeOK
<1> QED BY <1>1, <1>2, <1>3, <1>4

\* A step of one worker does not move another.
LEMMA OthersStay ==
  ASSUME TypeOK, NEW w \in Workers, Work(w) \/ Fault(w)
  PROVE  \A x \in Workers \ {w} : pc'[x] = pc[x] /\ job'[x] = job[x]
<1>1. CASE Rejected(w) \/ CallFails(w)
  <2>1. pc[w] # "idle" /\ OnError(w)
    BY <1>1 DEF Rejected, CallFails, Busy, ApiCalls, AwsCalls
  <2> QED BY <2>1, OnErrorMoves
<1>2. ASSUME \/ \E p : Goto(w, p)
             \/ \E p : Take(w, p)
             \/ \E r : End(w, r)
             \/ \E p, st : Switch(w, p, st)
             \/ \E v, st : Obtain(w, v, st)
             \/ Get(w) \/ GetMicrovm(w)
      PROVE  \A x \in Workers \ {w} : pc'[x] = pc[x] /\ job'[x] = job[x]
  BY <1>2 DEF Goto, Take, End, Switch, Obtain, Get, GetMicrovm, TypeOK
<1>3. CASE \/ Get(w) \/ ReadNothing(w) \/ ReadDeletion(w) \/ ReadLive(w)
           \/ Terminate(w) \/ DeleteSecret(w) \/ Release(w)
           \/ AddFinalizer(w) \/ GetMicrovm(w) \/ Suspend(w) \/ Resume(w)
           \/ AnnotateStatus(w) \/ PatchStatus(w)
  BY <1>2, <1>3 DEF ReadNothing, ReadDeletion, ReadLive, Terminate,
     DeleteSecret, Release, AddFinalizer, Suspend, Resume, AnnotateStatus,
     PatchStatus
<1>4. CASE \/ MapSandbox(w) \/ AnnotatePorts(w) \/ PutSecret(w)
           \/ AnnotateSecret(w) \/ ColdRun(w) \/ WarmAdopt(w) \/ PatchId(w)
           \/ CondProvisioning(w) \/ CondError(w) \/ RunLost(w)
  BY <1>2, <1>4 DEF MapSandbox, AnnotatePorts, PutSecret, CreateSecret, CreateLost, UpdateSecret, AnnotateSecret,
     ColdRun, WarmAdopt, PatchId, CondProvisioning, CondError, PatchCondition,
     RunLost
<1> QED BY <1>1, <1>3, <1>4 DEF Work, Fault

\* Only ColdRun and WarmAdopt bring a worker to the place where it records.
LEMMA NoNewHand ==
  ASSUME TypeOK, NEW w \in Workers, Work(w) \/ Fault(w),
         ~ColdRun(w), ~WarmAdopt(w)
  PROVE  pc'[w] # "patchId"
<1>1. CASE Rejected(w) \/ CallFails(w)
  <2>1. pc[w] # "idle" /\ OnError(w)
    BY <1>1 DEF Rejected, CallFails, Busy, ApiCalls, AwsCalls
  <2> QED BY <2>1, OnErrorMoves
<1>2. CASE \/ Get(w) \/ ReadNothing(w) \/ ReadDeletion(w) \/ ReadLive(w)
           \/ Terminate(w) \/ DeleteSecret(w) \/ Release(w)
           \/ AddFinalizer(w) \/ GetMicrovm(w) \/ Suspend(w) \/ Resume(w)
           \/ AnnotateStatus(w) \/ PatchStatus(w)
  BY <1>2 DEF Get, ReadNothing, ReadDeletion, ReadLive, Take, Terminate,
     DeleteSecret, Release, AddFinalizer, AfterFinalizer, GetMicrovm, Suspend,
     Resume, Switch, AnnotateStatus, PatchStatus, Goto, End, TypeOK
<1>3. CASE \/ MapSandbox(w) \/ AnnotatePorts(w) \/ PutSecret(w)
           \/ AnnotateSecret(w) \/ PatchId(w)
           \/ CondProvisioning(w) \/ CondError(w) \/ RunLost(w)
  BY <1>3, PlaceTypes DEF MapSandbox, AnnotatePorts, PutSecret, CreateSecret, CreateLost, UpdateSecret, AnnotateSecret,
     PatchId, CondProvisioning, CondError, PatchCondition, RunLost, Goto, End,
     TypeOK
<1> QED BY <1>1, <1>2, <1>3 DEF Work, Fault

\* Only Release and PatchId are not gentle.
LEMMA WorkKeeps ==
  ASSUME TypeOK, NEW w \in Workers, Work(w) \/ Fault(w), ~Release(w), ~PatchId(w)
  PROVE  \A s \in Sandboxes : Keeps(s)
<1>1. CASE UNCHANGED api
  BY <1>1 DEF Keeps
<1>2. CASE \/ Get(w) \/ ReadNothing(w) \/ ReadDeletion(w) \/ ReadLive(w)
           \/ Terminate(w) \/ DeleteSecret(w) \/ GetMicrovm(w)
           \/ Suspend(w) \/ Resume(w) \/ MapSandbox(w) \/ PutSecret(w)
           \/ ColdRun(w) \/ WarmAdopt(w) \/ RunLost(w)
           \/ Rejected(w) \/ CallFails(w)
  BY <1>1, <1>2 DEF Get, ReadNothing, ReadDeletion, ReadLive, Take, Terminate,
     DeleteSecret, GetMicrovm, Suspend, Resume, Switch, MapSandbox, PutSecret, CreateSecret, CreateLost, UpdateSecret,
     ColdRun, WarmAdopt, Obtain, RunLost, Rejected, CallFails, k8sVars
<1>3. CASE \/ AddFinalizer(w) \/ AnnotateStatus(w) \/ PatchStatus(w)
           \/ AnnotatePorts(w) \/ AnnotateSecret(w)
           \/ CondProvisioning(w) \/ CondError(w)
  <2>1. pc[w] # "idle"
    BY <1>3 DEF AddFinalizer, AnnotateStatus, PatchStatus, AnnotatePorts,
       AnnotateSecret, CondProvisioning, CondError, PatchCondition
  <2> QED BY <1>3, <2>1, BusyTypes, WorkGentle, GentleKeeps
<1> QED BY <1>2, <1>3 DEF Work, Fault

\* Release and PatchId leave the other objects alone.
LEMMA OtherObjects ==
  ASSUME TypeOK, NEW w \in Workers, Release(w) \/ PatchId(w)
  PROVE  /\ Key(w) \in Sandboxes
         /\ \A s \in Sandboxes \ {Key(w)} : api'[s] = api[s]
         /\ Release(w) => api'[Key(w)].id \in {api[Key(w)].id, None}
         /\ PatchId(w) => api'[Key(w)].id \in {job[w].id, None}
<1>1. Key(w) \in Sandboxes
  BY ReleaseStores, PatchIdStores
<1>2. PICK o : /\ Stores(Key(w), o)
               /\ Release(w) => o.id = api[Key(w)].id
               /\ PatchId(w) => o.id = job[w].id
  <2>1. ~(Release(w) /\ PatchId(w))
    BY DEF Release, PatchId
  <2> QED BY <2>1, ReleaseStores, PatchIdStores
<1>3. api'[Key(w)] \in {o, Absent} /\ \A s \in Sandboxes \ {Key(w)} : api'[s] = api[s]
  BY <1>1, <1>2, StoresFacts DEF Stored
<1> QED BY <1>1, <1>2, <1>3, AbsentType

LEMMA IdsNext ==
  ASSUME TypeOK, ObjectsOK, IdsOK, [Next]_vars PROVE IdsOK'
<1>1. \A v \in VMs : VmKeeps(v)
  BY VmKeepsNext
<1>2. CASE UNCHANGED <<api, pc, job>>
  BY <1>1, <1>2, IdsFrame
<1>3. ASSUME NEW w \in Workers, Work(w) \/ Fault(w), ~Release(w), ~PatchId(w),
             ~ColdRun(w), ~WarmAdopt(w)
      PROVE  IdsOK'
  <2>1. pc'[w] # "patchId" /\ \A s \in Sandboxes : Keeps(s)
    BY <1>3, NoNewHand, WorkKeeps
  <2>2. \A x \in Workers \ {w} : pc'[x] = pc[x] /\ job'[x] = job[x]
    BY <1>3, OthersStay
  <2> QED BY <1>1, <2>1, <2>2, IdsFrame DEF Keeps
<1>4. ASSUME NEW w \in Workers, Release(w) PROVE IdsOK'
  <2>1. ~ColdRun(w) /\ ~WarmAdopt(w)
    BY <1>4 DEF Release, ColdRun, WarmAdopt, Obtain, Issue
  <2>2. pc'[w] # "patchId"
    BY <1>4, <2>1, NoNewHand DEF Work
  <2>3. \A x \in Workers \ {w} : pc'[x] = pc[x] /\ job'[x] = job[x]
    BY <1>4, OthersStay DEF Work
  <2>4. \A s \in Sandboxes : api'[s].id \in {api[s].id, None}
    BY <1>4, OtherObjects
  <2> QED BY <1>1, <2>2, <2>3, <2>4, IdsFrame
<1>5. ASSUME NEW w \in Workers, PatchId(w) PROVE IdsOK'
  <2>1. ~ColdRun(w) /\ ~WarmAdopt(w)
    BY <1>5 DEF PatchId, ColdRun, WarmAdopt, Obtain, Issue
  <2>2. pc'[w] # "patchId"
    BY <1>5, <2>1, NoNewHand DEF Work
  <2>3. \A x \in Workers \ {w} : pc'[x] = pc[x] /\ job'[x] = job[x]
    BY <1>5, OthersStay DEF Work
  <2>4. /\ Key(w) \in Sandboxes
        /\ \A s \in Sandboxes \ {Key(w)} : api'[s] = api[s]
        /\ api'[Key(w)].id \in {job[w].id, None}
    BY <1>5, OtherObjects
  <2>5. job[w].id \in VMs /\ vm[job[w].id] # "UNUSED"
    BY <1>5 DEF PatchId, TypeOK, JobOK, IdsOK
  <2>6. ASSUME NEW s \in Sandboxes, api'[s].id # None
        PROVE  vm'[api'[s].id] # "UNUSED"
    <3>1. CASE s = Key(w)
      BY <1>1, <2>4, <2>5, <2>6, <3>1 DEF VmKeeps
    <3>2. CASE s # Key(w)
      <4>1. api'[s].id = api[s].id /\ api[s].id \in VMs
        BY <2>4, <2>6, <3>2 DEF TypeOK, Sandbox
      <4> QED BY <1>1, <2>6, <4>1 DEF IdsOK, VmKeeps
    <3> QED BY <3>1, <3>2
  <2>7. ASSUME NEW x \in Workers, pc'[x] = "patchId"
        PROVE  vm'[job'[x].id] # "UNUSED" /\ owner'[job'[x].id] = job'[x].key
    <3>1. pc[x] = "patchId" /\ job'[x] = job[x] /\ job[x].id \in VMs
      BY <2>2, <2>3, <2>7 DEF TypeOK, JobOK
    <3> QED BY <1>1, <3>1 DEF IdsOK, VmKeeps, Key
  <2> QED BY <2>6, <2>7 DEF IdsOK, Key
<1>6. ASSUME NEW w \in Workers, NEW v \in VMs, NEW st \in VmStates \ {"UNUSED"},
             Obtain(w, v, st)
      PROVE  IdsOK'
  <2>1. /\ vm'[v] = st /\ owner'[v] = Key(w) /\ api' = api
        /\ job'[w].id = v /\ job'[w].key = Key(w)
        /\ \A x \in Workers \ {w} : pc'[x] = pc[x] /\ job'[x] = job[x]
    BY <1>6 DEF Obtain, Issue, TypeOK, Key, k8sVars
  <2>2. ASSUME NEW s \in Sandboxes, api'[s].id # None
        PROVE  vm'[api'[s].id] # "UNUSED"
    <3>1. api'[s].id = api[s].id /\ api[s].id \in VMs
      BY <2>1, <2>2 DEF TypeOK, Sandbox
    <3> QED BY <1>1, <2>2, <3>1 DEF IdsOK, VmKeeps
  <2>3. ASSUME NEW x \in Workers, pc'[x] = "patchId"
        PROVE  vm'[job'[x].id] # "UNUSED" /\ owner'[job'[x].id] = job'[x].key
    <3>1. CASE x = w
      BY <2>1, <3>1
    <3>2. CASE x # w
      <4>1. pc[x] = "patchId" /\ job'[x] = job[x] /\ job[x].id \in VMs
        BY <2>1, <2>3, <3>2 DEF TypeOK, JobOK
      <4> QED BY <1>1, <4>1 DEF IdsOK, VmKeeps, Key
    <3> QED BY <3>1, <3>2
  <2> QED BY <2>2, <2>3 DEF IdsOK, Key
<1>7. ASSUME NEW w \in Workers, ColdRun(w) \/ WarmAdopt(w) PROVE IdsOK'
  <2>1. PICK v \in VMs, st \in {"PENDING"} \cup WarmStates : Obtain(w, v, st)
    BY <1>7 DEF ColdRun, WarmAdopt
  <2>2. st \in VmStates \ {"UNUSED"}
    BY SubsetAssumption DEF Live, VmStates
  <2> QED BY <1>6, <2>1, <2>2
<1>8. ASSUME NEW s \in Sandboxes, User(s) PROVE IdsOK'
  <2>1. UNCHANGED jobVars
    BY <1>8 DEF User, Create, Delete, SetMode, ClaimAdopt, AddOther,
       RemoveOther, Edit
  <2>2. \A r \in Sandboxes : Keeps(r)
    BY <1>8, UserGentle, GentleKeeps
  <2> QED BY <1>1, <2>1, <2>2, IdsFrame DEF Keeps, jobVars
<1>9. ASSUME NEW s \in Sandboxes, Informer(s) PROVE IdsOK'
  BY <1>2, <1>9 DEF Informer, Deliver, Fire, Resync, k8sVars, jobVars
<1>10. ASSUME NEW v \in VMs, Service(v) PROVE IdsOK'
  BY <1>2, <1>10 DEF Service, VmProgress, VmDrift, k8sVars, jobVars
<1>11. CASE Restart
  BY <1>1, <1>11, IdsFrame DEF Restart
<1>12. CASE UNCHANGED vars
  BY <1>2, <1>12 DEF vars
<1> QED
  BY <1>3, <1>4, <1>5, <1>7, <1>8, <1>9, <1>10, <1>11, <1>12 DEF Next

-----------------------------------------------------------------------------
(* What holds as long as no reconcile has worked on an old object: the       *)
(* finalizer guards every MicroVM, and each worker's view is still true.     *)

Aware == GuardOK /\ \A w \in Workers : KnownOK(w)

\* The places at which KnownOK asks nothing of a worker.
Carefree == Places \ (Deleting \cup Provisioning \cup Reporting \cup {"addFin"})

\* Two places at which KnownOK asks for the same.
Alike(p, q) ==
  \/ p = q
  \/ p \in Deleting \ {"terminate"} /\ q \in Deleting \ {"terminate"}
  \/ p \in Provisioning /\ q \in Provisioning
  \/ p \in Reporting /\ q \in Reporting

LEMMA GuardFrame ==
  ASSUME TypeOK, IdsOK, GuardOK, \A v \in VMs : VmKeeps(v),
         NEW s \in Sandboxes, Keeps(s), api'[s].id # None,
         api'[s].del => vm'[api'[s].id] \in Live
  PROVE  Ours \in api'[s].fins
<1>1. api'[s].id = api[s].id /\ api[s].id \in VMs
  BY DEF Keeps, TypeOK, Sandbox
<1>2. vm[api[s].id] # "UNUSED"
  BY <1>1 DEF IdsOK
<1>3. api[s].del => vm[api[s].id] \in Live
  BY <1>1, <1>2 DEF Keeps, VmKeeps
<1> QED BY <1>1, <1>3 DEF GuardOK, Keeps

LEMMA KnownFrame ==
  ASSUME TypeOK, IdsOK, \A v \in VMs : VmKeeps(v), NEW w \in Workers,
         KnownOK(w), Key(w) \in Sandboxes => Keeps(Key(w)),
         job'[w].key = job[w].key, job'[w].u = job[w].u, Alike(pc[w], pc'[w])
  PROVE  KnownOK(w)'
<1> USE DEF Deleting, Provisioning, Reporting
<1>1. pc[w] # "idle" => Key(w) \in Sandboxes /\ Seen(w) \in Sandbox
  BY BusyTypes
<1>2. Seen(w)' = Seen(w) /\ Real(w)' = api'[Key(w)] /\ Real(w) = api[Key(w)]
  BY DEF Seen, Real, Key
<1>3. CASE pc'[w] \in Deleting
  <2>1. pc[w] \in Deleting /\ Keeps(Key(w))
    BY <1>1, <1>3 DEF Alike
  <2>2. /\ Seen(w)'.id = Real(w)'.id /\ Ours \in Real(w)'.fins
        /\ Real(w)'.id # None => Real(w)'.del
    BY <1>2, <2>1 DEF KnownOK, Keeps
  <2>3. ASSUME pc'[w] # "terminate", Seen(w).id # None
        PROVE  vm'[Seen(w).id] \notin Live
    <3>1. vm[Seen(w).id] \notin Live
      BY <1>3, <2>1, <2>3 DEF KnownOK, Alike
    <3>2. Seen(w).id \in VMs /\ vm[Seen(w).id] # "UNUSED"
      BY <1>1, <1>2, <2>1, <2>3 DEF KnownOK, IdsOK, Sandbox
    <3> QED BY <3>1, <3>2 DEF VmKeeps
  <2> QED BY <1>2, <1>3, <2>2, <2>3 DEF KnownOK
<1>4. CASE pc'[w] = "addFin"
  <2>1. pc[w] = "addFin" /\ Keeps(Key(w))
    BY <1>1, <1>4 DEF Alike
  <2> QED BY <1>2, <1>4, <2>1 DEF KnownOK, Keeps
<1>5. CASE pc'[w] \in Provisioning
  <2>1. pc[w] \in Provisioning /\ Keeps(Key(w))
    BY <1>1, <1>5 DEF Alike
  <2> QED BY <1>2, <1>5, <2>1 DEF KnownOK, Keeps
<1>6. CASE pc'[w] \in Reporting
  <2>1. pc[w] \in Reporting /\ Keeps(Key(w))
    BY <1>1, <1>6 DEF Alike
  <2> QED BY <1>2, <1>6, <2>1 DEF KnownOK, Keeps
<1> QED BY <1>3, <1>4, <1>5, <1>6 DEF KnownOK

\* A step that is gentle to the objects and the MicroVMs, and after which
\* every worker knows what it has to know.
LEMMA AwareFrame ==
  ASSUME TypeOK, IdsOK, Aware, \A v \in VMs : VmKeeps(v),
         \A s \in Sandboxes : Keeps(s), \A w \in Workers : KnownOK(w)'
  PROVE  Aware'
BY GuardFrame DEF GuardOK, Aware

\* Nobody moves.
LEMMA AwareStill ==
  ASSUME TypeOK, IdsOK, Aware, \A v \in VMs : VmKeeps(v),
         \A s \in Sandboxes : Keeps(s), UNCHANGED jobVars
  PROVE  Aware'
<1>1. \A w \in Workers : pc'[w] = pc[w] /\ job'[w] = job[w]
  BY DEF jobVars
<1>2. \A w \in Workers : KnownOK(w)'
  BY <1>1, KnownFrame DEF Aware, Alike
<1> QED BY <1>2, AwareFrame

\* One worker moves, gently.
LEMMA AwareMove ==
  ASSUME TypeOK, IdsOK, Aware, \A v \in VMs : VmKeeps(v),
         \A s \in Sandboxes : Keeps(s), NEW w \in Workers,
         \A x \in Workers \ {w} : pc'[x] = pc[x] /\ job'[x] = job[x],
         KnownOK(w)'
  PROVE  Aware'
<1>1. \A x \in Workers \ {w} : KnownOK(x)'
  BY KnownFrame DEF Aware, Alike
<1> QED BY <1>1, AwareFrame

\* A moved worker goes to a place that asks nothing, or one like its own.
LEMMA KnownPlain ==
  ASSUME TypeOK, NEW w \in Workers,
         \/ Get(w) \/ ReadNothing(w) \/ Release(w) \/ PatchStatus(w)
         \/ PatchId(w) \/ CondProvisioning(w) \/ CondError(w) \/ RunLost(w)
  PROVE  KnownOK(w)'
<1>1. pc'[w] \in Carefree
  BY DEF Get, ReadNothing, Release, PatchStatus, PatchId, CondProvisioning,
     CondError, PatchCondition, RunLost, Goto, End, TypeOK, Carefree, Places,
     Deleting, Provisioning, Reporting, ApiCalls, AwsCalls
<1> QED BY <1>1 DEF KnownOK, Carefree, Deleting, Reporting

LEMMA KnownAlike ==
  ASSUME TypeOK, IdsOK, Aware, \A v \in VMs : VmKeeps(v),
         \A s \in Sandboxes : Keeps(s), NEW w \in Workers,
         \/ DeleteSecret(w) \/ MapSandbox(w) \/ AnnotatePorts(w)
         \/ PutSecret(w) \/ AnnotateSecret(w) \/ AnnotateStatus(w)
         \/ GetMicrovm(w) \/ Suspend(w) \/ Resume(w)
  PROVE  KnownOK(w)'
<1>1. CASE \/ DeleteSecret(w) \/ MapSandbox(w) \/ AnnotatePorts(w)
           \/ PutSecret(w) \/ AnnotateSecret(w) \/ AnnotateStatus(w)
  <2>1. job'[w] = job[w] /\ Alike(pc[w], pc'[w])
    BY <1>1, PlaceTypes DEF DeleteSecret, MapSandbox, AnnotatePorts, PutSecret, CreateSecret, CreateLost, UpdateSecret,
       AnnotateSecret, AnnotateStatus, Goto, TypeOK, Alike, Deleting,
       Provisioning, Reporting, AfterMap, AfterPorts
  <2> QED BY <2>1, KnownFrame DEF Aware
<1>2. CASE GetMicrovm(w) \/ Suspend(w) \/ Resume(w)
  <2>1. /\ pc[w] \in Reporting /\ pc'[w] \in Reporting
        /\ \E st : job' = [job EXCEPT ![w].st = st]
    BY <1>2 DEF GetMicrovm, Suspend, Resume, Switch, TypeOK, Reporting
  <2>2. job'[w].key = job[w].key /\ job'[w].u = job[w].u
    BY <2>1 DEF TypeOK
  <2> QED BY <2>1, <2>2, KnownFrame DEF Aware, Alike
<1> QED BY <1>1, <1>2

LEMMA KnownError ==
  ASSUME TypeOK, IdsOK, Aware, \A v \in VMs : VmKeeps(v),
         \A s \in Sandboxes : Keeps(s), NEW w \in Workers, OnError(w),
         pc[w] # "idle"
  PROVE  KnownOK(w)'
<1>1. CASE pc'[w] \in {"idle", "condErr"}
  BY <1>1 DEF KnownOK, Deleting, Provisioning, Reporting
<1>2. CASE pc'[w] \notin {"idle", "condErr"}
  <2>1. job'[w] = job[w] /\ Alike(pc[w], pc'[w])
    BY <1>2, OnErrorMoves DEF Alike, Deleting, Provisioning
  <2> QED BY <2>1, KnownFrame DEF Aware
<1> QED BY <1>1, <1>2

LEMMA KnownTerminate ==
  ASSUME TypeOK, IdsOK, Aware, NEW w \in Workers, Terminate(w)
  PROVE  KnownOK(w)'
<1>1. /\ pc[w] = "terminate" /\ Seen(w)' = Seen(w)
      /\ pc'[w] \in {"delSecret", "release"} /\ Real(w)' = Real(w)
      /\ vm' = [vm EXCEPT ![Seen(w).id] = Terminated(@)]
  BY DEF Terminate, Goto, k8sVars, Seen, Real, TypeOK
<1>2. Seen(w).id \in VMs
  BY <1>1 DEF TypeOK, JobOK
<1>3. vm'[Seen(w).id] \notin Live
  BY <1>1, <1>2 DEF TypeOK, Terminated, Live, Dead
<1> QED BY <1>1, <1>3 DEF Aware, KnownOK, Deleting, Provisioning, Reporting

LEMMA KnownAddFinalizer ==
  ASSUME TypeOK, IdsOK, Aware, NEW w \in Workers, AddFinalizer(w)
  PROVE  KnownOK(w)'
<1>1. /\ pc[w] = "addFin" /\ pc[w] # "idle" /\ Accepted(w)
      /\ job' = job /\ pc'[w] = AfterFinalizer(Seen(w))
  BY DEF AddFinalizer, Goto, TypeOK
<1>2. Real(w).id = None /\ Seen(w).id = None
  BY <1>1 DEF Aware, KnownOK
<1>3. pc'[w] = "map"
  BY <1>1, <1>2 DEF AfterFinalizer
<1>4. /\ Key(w) \in Sandboxes /\ Real(w) \in Sandbox
      /\ AddedFins(w) \in SUBSET {Ours, Other} /\ Ours \in AddedFins(w)
  BY <1>1, BusyTypes DEF AddedFins
<1> DEFINE o == [Real(w) EXCEPT !.fins = AddedFins(w)]
<1>5. o \in Sandbox /\ o.id = None /\ Ours \in o.fins
  BY <1>2, <1>4, EditTypes, EditFacts
<1>6. Write(Key(w), o)
  BY DEF AddFinalizer
<1> HIDE DEF o
<1>7. api'[Key(w)] = o
  <2>1. api'[Key(w)] = Stored(o)
    BY <1>4, <1>6 DEF Write, Version, TypeOK
  <2>2. o.fins # {}
    BY <1>5
  <2> QED BY <2>1, <2>2, Zenon DEF Stored
<1>8. Real(w)' = o
  BY <1>1, <1>7 DEF Real, Key
<1> QED BY <1>3, <1>5, <1>8 DEF KnownOK, Deleting, Reporting

\* A worker that reads the newest version learns the truth.
LEMMA KnownRead ==
  ASSUME TypeOK, ObjectsOK, Aware, NEW w \in Workers,
         ReadDeletion(w) \/ ReadLive(w), ~Blamed({"staleRead"})'
  PROVE  KnownOK(w)'
<1>1. /\ pc[w] = "read" /\ pc[w] # "idle"
      /\ \E p : Take(w, p)
  BY DEF ReadDeletion, ReadLive
<1>2. /\ job' = [job EXCEPT ![w].u = cache[Key(w)]] /\ api' = api
      /\ watch[Key(w)] = <<>>
  BY <1>1 DEF Take, Blamed, k8sVars
<1>3. Key(w) \in Sandboxes /\ cache[Key(w)] = api[Key(w)]
  BY <1>1, <1>2, BusyTypes DEF ObjectsOK
<1>4. /\ Seen(w)' = api[Key(w)] /\ Real(w)' = api[Key(w)] /\ Key(w)' = Key(w)
      /\ vm' = vm
  BY <1>1, <1>2, <1>3 DEF TypeOK, Seen, Real, Key, Take, awsVars
<1>5. CASE ReadDeletion(w)
  <2>1. Ours \in api[Key(w)].fins /\ api[Key(w)].del
    BY <1>3, <1>5 DEF ReadDeletion
  <2>2. /\ pc'[w] \in Deleting
        /\ api[Key(w)].id # None => pc'[w] = "terminate"
    BY <1>3, <1>5 DEF ReadDeletion, Take, TypeOK, Deleting
  <2> QED BY <1>4, <2>1, <2>2 DEF KnownOK, Deleting, Provisioning, Reporting
<1>6. CASE ReadLive(w)
  <2>1. ~api[Key(w)].del
    BY <1>3, <1>6 DEF ReadLive
  <2>2. api[Key(w)].id # None => Ours \in api[Key(w)].fins
    BY <1>3, <2>1 DEF Aware, GuardOK
  <2>3. pc'[w] = IF Ours \in api[Key(w)].fins
                   THEN AfterFinalizer(api[Key(w)]) ELSE "addFin"
    BY <1>3, <1>6 DEF ReadLive, Take, TypeOK
  <2>4. \/ /\ pc'[w] = "getVm" /\ api[Key(w)].id # None
           /\ Ours \in api[Key(w)].fins
        \/ pc'[w] = "map" /\ api[Key(w)].id = None /\ Ours \in api[Key(w)].fins
        \/ pc'[w] = "addFin" /\ api[Key(w)].id = None
    BY <2>2, <2>3 DEF AfterFinalizer
  <2> QED BY <1>4, <2>4 DEF KnownOK, Deleting, Provisioning, Reporting
<1> QED BY <1>5, <1>6

LEMMA AwareObtain ==
  ASSUME TypeOK, IdsOK, Aware, \A x \in VMs : VmKeeps(x), NEW w \in Workers,
         NEW v \in VMs, NEW st, Obtain(w, v, st)
  PROVE  Aware'
<1>1. /\ pc[w] = "provision" /\ pc'[w] = "patchId" /\ api' = api
      /\ job'[w].u = job[w].u /\ job'[w].key = job[w].key
      /\ \A x \in Workers \ {w} : pc'[x] = pc[x] /\ job'[x] = job[x]
  BY DEF Obtain, Issue, TypeOK, k8sVars
<1>2. \A s \in Sandboxes : Keeps(s)
  BY <1>1 DEF Keeps
<1>3. Alike(pc[w], pc'[w])
  BY <1>1 DEF Alike, Provisioning
<1>4. KnownOK(w)'
  BY <1>1, <1>2, <1>3, KnownFrame DEF Aware
<1> QED BY <1>1, <1>2, <1>4, AwareMove

\* What a worker that releases an object knows of it, and does to it.
LEMMA ReleaseFacts ==
  ASSUME TypeOK, Aware, NEW w \in Workers, Release(w)
  PROVE  /\ pc[w] = "release" /\ pc'[w] = "idle" /\ UNCHANGED <<vm, owner>>
         /\ Key(w) \in Sandboxes
         /\ \A s \in Sandboxes \ {Key(w)} : api'[s] = api[s]
         /\ api'[Key(w)].id \in {api[Key(w)].id, None}
         /\ \A x \in Workers \ {w} : pc'[x] = pc[x] /\ job'[x] = job[x]
         /\ api[Key(w)].id # None =>
              api[Key(w)].del /\ vm[api[Key(w)].id] \notin Live
<1>1. /\ pc[w] = "release" /\ pc'[w] = "idle" /\ UNCHANGED <<vm, owner>>
  BY DEF Release, End, TypeOK, awsVars
<1>2. /\ Key(w) \in Sandboxes
      /\ \A s \in Sandboxes \ {Key(w)} : api'[s] = api[s]
      /\ api'[Key(w)].id \in {api[Key(w)].id, None}
  BY OtherObjects
<1>3. \A x \in Workers \ {w} : pc'[x] = pc[x] /\ job'[x] = job[x]
  BY OthersStay DEF Work
<1>4. Real(w) = api[Key(w)] /\ Seen(w).id = Real(w).id
  BY <1>1 DEF Aware, KnownOK, Deleting, Real, Key
<1>5. api[Key(w)].id # None => api[Key(w)].del /\ vm[api[Key(w)].id] \notin Live
  BY <1>1, <1>4 DEF Aware, KnownOK, Deleting
<1> QED BY <1>1, <1>2, <1>3, <1>5

\* Another worker holds another object, which stays as it is.
LEMMA KnownOthers ==
  ASSUME TypeOK, HoldersOK, IdsOK, Aware, \A v \in VMs : VmKeeps(v),
         NEW w \in Workers, pc[w] # "idle",
         \A s \in Sandboxes \ {Key(w)} : api'[s] = api[s],
         NEW x \in Workers \ {w}, pc'[x] = pc[x], job'[x] = job[x]
  PROVE  KnownOK(x)'
<1>1. pc[x] # "idle" => Keeps(Key(x))
  BY BusyTypes DEF Keeps, HoldersOK, Busy
<1>2. CASE pc[x] = "idle"
  BY <1>2 DEF KnownOK, Deleting, Provisioning, Reporting
<1> QED BY <1>1, <1>2, KnownFrame DEF Aware, Alike

LEMMA AwareRelease ==
  ASSUME TypeOK, HoldersOK, IdsOK, Aware, \A v \in VMs : VmKeeps(v),
         NEW w \in Workers, Release(w)
  PROVE  Aware'
<1>1. PICK o \in Sandbox : /\ Stores(Key(w), o) /\ o.id = api[Key(w)].id
                           /\ o.del = api[Key(w)].del
  BY ReleaseStores
<1>2. api'[Key(w)] \in {o, Absent}
  BY <1>1, ReleaseFacts, StoresFacts DEF Stored
<1>3. KnownOK(w)'
  BY ReleaseFacts DEF KnownOK, Deleting, Provisioning, Reporting
<1>4. \A x \in Workers \ {w} : KnownOK(x)'
  BY ReleaseFacts, KnownOthers
<1>5. ASSUME NEW s \in Sandboxes, api'[s].id # None,
             api'[s].del => vm'[api'[s].id] \in Live
      PROVE  Ours \in api'[s].fins
  <2>1. CASE s = Key(w)
    BY <1>1, <1>2, <1>5, <2>1, ReleaseFacts, AbsentType
  <2>2. CASE s # Key(w)
    BY <1>5, <2>2, ReleaseFacts DEF Aware, GuardOK
  <2> QED BY <2>1, <2>2
<1> QED BY <1>3, <1>4, <1>5 DEF Aware, GuardOK

\* What a worker that records a MicroVM knows of its object, and does to it.
LEMMA PatchIdFacts ==
  ASSUME TypeOK, Aware, NEW w \in Workers, PatchId(w)
  PROVE  /\ pc[w] = "patchId" /\ pc'[w] = "condRun" /\ UNCHANGED <<vm, owner>>
         /\ Key(w) \in Sandboxes
         /\ \A s \in Sandboxes \ {Key(w)} : api'[s] = api[s]
         /\ \A x \in Workers \ {w} : pc'[x] = pc[x] /\ job'[x] = job[x]
         /\ api[Key(w)].id = None
         /\ api'[Key(w)].id = job[w].id /\ Ours \in api'[Key(w)].fins
<1>1. /\ pc[w] = "patchId" /\ pc'[w] = "condRun" /\ UNCHANGED <<vm, owner>>
  BY DEF PatchId, Goto, TypeOK, awsVars
<1>2. /\ Key(w) \in Sandboxes
      /\ \A s \in Sandboxes \ {Key(w)} : api'[s] = api[s]
  BY OtherObjects
<1>3. \A x \in Workers \ {w} : pc'[x] = pc[x] /\ job'[x] = job[x]
  BY OthersStay DEF Work
<1>5. api[Key(w)].id = None /\ Ours \in api[Key(w)].fins
  BY <1>1 DEF Aware, KnownOK, Provisioning, Real, Key
<1>6. PICK o \in Sandbox : /\ Stores(Key(w), o) /\ o.id = job[w].id
                           /\ o.fins = api[Key(w)].fins
  BY PatchIdStores
<1>7. api'[Key(w)] = o
  <2>1. api'[Key(w)] = Stored(o) /\ o.fins # {}
    BY <1>2, <1>5, <1>6, StoresFacts
  <2> QED BY <2>1, Zenon DEF Stored
<1> QED BY <1>1, <1>2, <1>3, <1>5, <1>6, <1>7

LEMMA AwarePatchId ==
  ASSUME TypeOK, HoldersOK, IdsOK, Aware, \A v \in VMs : VmKeeps(v),
         NEW w \in Workers, PatchId(w)
  PROVE  Aware'
<1>1. KnownOK(w)'
  BY KnownPlain
<1>2. \A x \in Workers \ {w} : KnownOK(x)'
  BY PatchIdFacts, KnownOthers
<1>3. ASSUME NEW s \in Sandboxes, api'[s].id # None,
             api'[s].del => vm'[api'[s].id] \in Live
      PROVE  Ours \in api'[s].fins
  <2>1. CASE s = Key(w)
    BY <2>1, PatchIdFacts
  <2>2. CASE s # Key(w)
    BY <1>3, <2>2, PatchIdFacts DEF Aware, GuardOK
  <2> QED BY <2>1, <2>2
<1> QED BY <1>1, <1>2, <1>3 DEF Aware, GuardOK

LEMMA AwareWork ==
  ASSUME TypeOK, ObjectsOK, HoldersOK, IdsOK, Aware,
         \A v \in VMs : VmKeeps(v), NEW w \in Workers, Work(w) \/ Fault(w),
         ~Blamed({"staleRead"})'
  PROVE  Aware'
<1>1. CASE ColdRun(w) \/ WarmAdopt(w)
  BY <1>1, AwareObtain DEF ColdRun, WarmAdopt
<1>2. CASE Release(w)
  BY <1>2, AwareRelease
<1>3. CASE PatchId(w)
  BY <1>3, AwarePatchId
<1>4. CASE ~ColdRun(w) /\ ~WarmAdopt(w) /\ ~Release(w) /\ ~PatchId(w)
  <2>1. /\ \A s \in Sandboxes : Keeps(s)
        /\ \A x \in Workers \ {w} : pc'[x] = pc[x] /\ job'[x] = job[x]
    BY <1>4, WorkKeeps, OthersStay
  <2>2. CASE \/ Get(w) \/ ReadNothing(w) \/ PatchStatus(w)
             \/ CondProvisioning(w) \/ CondError(w) \/ RunLost(w)
    BY <2>1, <2>2, KnownPlain, AwareMove
  <2>3. CASE \/ DeleteSecret(w) \/ MapSandbox(w) \/ AnnotatePorts(w)
             \/ PutSecret(w) \/ AnnotateSecret(w) \/ AnnotateStatus(w)
             \/ GetMicrovm(w) \/ Suspend(w) \/ Resume(w)
    BY <2>1, <2>3, KnownAlike, AwareMove
  <2>4. CASE Terminate(w) \/ AddFinalizer(w)
    BY <2>1, <2>4, KnownTerminate, KnownAddFinalizer, AwareMove
  <2>5. CASE ReadDeletion(w) \/ ReadLive(w)
    BY <2>1, <2>5, KnownRead, AwareMove
  <2>6. CASE Rejected(w) \/ CallFails(w)
    <3>1. pc[w] # "idle" /\ OnError(w)
      BY <2>6 DEF Rejected, CallFails, Busy, ApiCalls, AwsCalls
    <3> QED BY <2>1, <3>1, KnownError, AwareMove
  <2> QED BY <1>4, <2>2, <2>3, <2>4, <2>5, <2>6 DEF Work, Fault
<1> QED BY <1>1, <1>2, <1>3, <1>4

LEMMA AwareNext ==
  ASSUME TypeOK, ObjectsOK, HoldersOK, IdsOK, Aware, [Next]_vars,
         ~Blamed({"staleRead"})'
  PROVE  Aware'
<1>1. \A v \in VMs : VmKeeps(v)
  BY VmKeepsNext
<1>2. ASSUME NEW w \in Workers, Work(w) \/ Fault(w) PROVE Aware'
  BY <1>1, <1>2, AwareWork
<1>3. ASSUME NEW s \in Sandboxes, User(s) PROVE Aware'
  <2>1. UNCHANGED jobVars
    BY <1>3 DEF User, Create, Delete, SetMode, ClaimAdopt, AddOther,
       RemoveOther, Edit
  <2>2. \A r \in Sandboxes : Keeps(r)
    BY <1>3, UserGentle, GentleKeeps
  <2> QED BY <1>1, <2>1, <2>2, AwareStill
<1>4. CASE UNCHANGED <<api, jobVars>>
  <2>1. \A r \in Sandboxes : Keeps(r)
    BY <1>4 DEF Keeps
  <2> QED BY <1>1, <1>4, <2>1, AwareStill
<1>5. ASSUME NEW s \in Sandboxes, Informer(s) PROVE Aware'
  BY <1>4, <1>5 DEF Informer, Deliver, Fire, Resync, k8sVars
<1>6. ASSUME NEW v \in VMs, Service(v) PROVE Aware'
  BY <1>4, <1>6 DEF Service, VmProgress, VmDrift, k8sVars
<1>7. CASE Restart
  <2>1. \A w \in Workers : KnownOK(w)'
    BY <1>7 DEF Restart, KnownOK, Deleting, Provisioning, Reporting
  <2>2. \A r \in Sandboxes : Keeps(r)
    BY <1>7 DEF Restart, Keeps
  <2> QED BY <1>1, <2>1, <2>2, AwareFrame
<1>8. CASE UNCHANGED vars
  BY <1>4, <1>8 DEF vars, jobVars
<1> QED BY <1>2, <1>3, <1>5, <1>6, <1>7, <1>8 DEF Next

-----------------------------------------------------------------------------
(* As long as, besides, no identifier was lost, every live MicroVM is       *)
(* recorded or in a worker's hand.                                          *)

\* Only the steps that obtain a MicroVM put an identifier in use.
LEMMA UnusedStays ==
  ASSUME TypeOK, NEW w \in Workers, Work(w) \/ Fault(w),
         ~ColdRun(w), ~WarmAdopt(w), ~RunLost(w)
  PROVE  \A v \in VMs : vm[v] = "UNUSED" => vm'[v] = "UNUSED"
<1>1. CASE Terminate(w)
  BY <1>1 DEF Terminate, Terminated, Live, TypeOK
<1>2. CASE Suspend(w) \/ Resume(w)
  <2>1. vm[Seen(w).id] \in {"RUNNING", "SUSPENDED"}
    BY <1>2 DEF Suspend, Resume, Switch, Accepted, ApiCalls
  <2>2. PICK st : vm' = [vm EXCEPT ![Seen(w).id] = st]
    BY <1>2 DEF Suspend, Resume, Switch
  <2> QED BY <2>1, <2>2 DEF TypeOK
<1>3. CASE \/ Get(w) \/ ReadNothing(w) \/ ReadDeletion(w) \/ ReadLive(w)
           \/ DeleteSecret(w) \/ Release(w) \/ AddFinalizer(w)
           \/ GetMicrovm(w) \/ AnnotateStatus(w) \/ PatchStatus(w)
           \/ MapSandbox(w) \/ AnnotatePorts(w) \/ PutSecret(w)
           \/ AnnotateSecret(w) \/ PatchId(w) \/ CondProvisioning(w)
           \/ CondError(w) \/ Rejected(w) \/ CallFails(w)
  BY <1>3 DEF Get, ReadNothing, ReadDeletion, ReadLive, Take, DeleteSecret,
     Release, AddFinalizer, GetMicrovm, AnnotateStatus, PatchStatus,
     MapSandbox, AnnotatePorts, PutSecret, CreateSecret, CreateLost, UpdateSecret, AnnotateSecret, PatchId,
     CondProvisioning, CondError, PatchCondition, Rejected, CallFails, awsVars
<1> QED BY <1>1, <1>2, <1>3 DEF Work, Fault

LEMMA TrackedFrame ==
  ASSUME TypeOK, GuardOK, TrackedOK, \A x \in VMs : VmKeeps(x),
         \A s \in Sandboxes : Keeps(s), NEW v \in VMs,
         vm[v] # "UNUSED", InHand(v) => InHand(v)',
         vm'[v] \in Live, owner'[v] # None
  PROVE  api'[owner'[v]].id = v \/ InHand(v)'
<1>1. /\ vm[v] \in Live /\ owner'[v] = owner[v] /\ owner[v] # None
      /\ owner[v] \in Sandboxes
  BY DEF VmKeeps, TypeOK
<1>2. CASE InHand(v)
  BY <1>2
<1>3. CASE api[owner[v]].id = v
  <2>1. Ours \in api[owner[v]].fins
    BY <1>1, <1>3, NoneAssumption DEF GuardOK
  <2> QED BY <1>1, <1>3, <2>1 DEF Keeps
<1> QED BY <1>1, <1>2, <1>3 DEF TrackedOK

LEMMA TrackedRelease ==
  ASSUME TypeOK, Aware, TrackedOK, NEW w \in Workers, Release(w)
  PROVE  TrackedOK'
<1>1. ASSUME NEW v \in VMs, vm[v] \in Live, owner[v] # None
      PROVE  api'[owner[v]].id = v \/ InHand(v)'
  <2>1. owner[v] \in Sandboxes /\ (api[owner[v]].id = v \/ InHand(v))
    BY <1>1 DEF TrackedOK, TypeOK
  <2>2. CASE InHand(v)
    BY <2>2, ReleaseFacts DEF InHand
  <2>3. CASE api[owner[v]].id = v
    <3>1. owner[v] # Key(w)
      BY <1>1, <2>3, NoneAssumption, ReleaseFacts
    <3> QED BY <2>1, <2>3, <3>1, ReleaseFacts
  <2> QED BY <2>1, <2>2, <2>3
<1> QED BY <1>1, ReleaseFacts DEF TrackedOK

LEMMA TrackedPatchId ==
  ASSUME TypeOK, IdsOK, Aware, TrackedOK, NEW w \in Workers, PatchId(w)
  PROVE  TrackedOK'
<1>1. ASSUME NEW v \in VMs, vm[v] \in Live, owner[v] # None
      PROVE  api'[owner[v]].id = v \/ InHand(v)'
  <2>1. owner[v] \in Sandboxes /\ (api[owner[v]].id = v \/ InHand(v))
    BY <1>1 DEF TrackedOK, TypeOK
  <2>2. CASE InHand(v) /\ job[w].id = v
    <3>1. owner[v] = Key(w)
      BY <2>2, PatchIdFacts DEF IdsOK
    <3> QED BY <2>2, <3>1, PatchIdFacts
  <2>3. CASE InHand(v) /\ job[w].id # v
    BY <2>3, PatchIdFacts DEF InHand
  <2>4. CASE api[owner[v]].id = v
    <3>1. owner[v] # Key(w)
      BY <2>4, NoneAssumption, PatchIdFacts
    <3> QED BY <2>1, <2>4, <3>1, PatchIdFacts
  <2> QED BY <2>1, <2>2, <2>3, <2>4
<1> QED BY <1>1, PatchIdFacts DEF TrackedOK

LEMMA TrackedWork ==
  ASSUME TypeOK, IdsOK, Aware, TrackedOK, \A v \in VMs : VmKeeps(v),
         NEW w \in Workers, Work(w) \/ Fault(w), ~Blamed({"staleRead", "lostId"})'
  PROVE  TrackedOK'
<1>1. CASE Release(w)
  BY <1>1, TrackedRelease
<1>2. CASE PatchId(w)
  BY <1>2, TrackedPatchId
<1>3. ASSUME NEW v \in VMs, NEW st, Obtain(w, v, st) PROVE TrackedOK'
  <2>1. /\ pc[w] = "provision" /\ pc'[w] = "patchId" /\ api' = api
        /\ job'[w].id = v
        /\ \A x \in Workers \ {w} : pc'[x] = pc[x] /\ job'[x] = job[x]
        /\ \A x \in VMs \ {v} : vm'[x] = vm[x]
    BY <1>3 DEF Obtain, Issue, TypeOK, k8sVars
  <2>2. /\ InHand(v)' /\ \A x \in VMs : InHand(x) => InHand(x)'
        /\ \A s \in Sandboxes : Keeps(s)
    BY <2>1 DEF InHand, Keeps
  <2>3. ASSUME NEW x \in VMs \ {v}, vm'[x] \in Live, owner'[x] # None
        PROVE  api'[owner'[x]].id = x \/ InHand(x)'
    <3>1. vm[x] # "UNUSED"
      BY <2>1, <2>3 DEF Live
    <3> QED BY <2>2, <2>3, <3>1, TrackedFrame DEF Aware
  <2> QED BY <2>2, <2>3 DEF TrackedOK
<1>4. ~RunLost(w)
  BY DEF RunLost, Blamed
<1>5. CASE ~ColdRun(w) /\ ~WarmAdopt(w) /\ ~Release(w) /\ ~PatchId(w)
  <2>1. /\ \A s \in Sandboxes : Keeps(s)
        /\ \A x \in Workers \ {w} : pc'[x] = pc[x] /\ job'[x] = job[x]
        /\ \A v \in VMs : vm[v] = "UNUSED" => vm'[v] = "UNUSED"
    BY <1>4, <1>5, WorkKeeps, OthersStay, UnusedStays
  <2>2. pc[w] # "patchId"
    <3>1. CASE Rejected(w) \/ CallFails(w)
      BY <3>1 DEF Rejected, CallFails, Loss, Blamed
    <3>2. CASE \/ Get(w) \/ ReadNothing(w) \/ ReadDeletion(w) \/ ReadLive(w)
               \/ Terminate(w) \/ DeleteSecret(w) \/ AddFinalizer(w)
               \/ GetMicrovm(w) \/ Suspend(w) \/ Resume(w)
               \/ AnnotateStatus(w) \/ PatchStatus(w) \/ MapSandbox(w)
               \/ AnnotatePorts(w) \/ PutSecret(w) \/ AnnotateSecret(w)
               \/ CondProvisioning(w) \/ CondError(w)
      BY <3>2 DEF Get, ReadNothing, ReadDeletion, ReadLive, Terminate,
         DeleteSecret, AddFinalizer, GetMicrovm, Suspend, Resume, Switch,
         AnnotateStatus, PatchStatus, MapSandbox, AnnotatePorts, PutSecret, CreateSecret, CreateLost, UpdateSecret,
         AnnotateSecret, CondProvisioning, CondError, PatchCondition
    <3> QED BY <1>4, <1>5, <3>1, <3>2 DEF Work, Fault
  <2>3. \A v \in VMs : InHand(v) => InHand(v)'
    BY <2>1, <2>2 DEF InHand
  <2>4. \A v \in VMs : vm'[v] \in Live => vm[v] # "UNUSED"
    BY <2>1 DEF Live
  <2> QED BY <2>1, <2>3, <2>4, TrackedFrame DEF TrackedOK, Aware
<1> QED BY <1>1, <1>2, <1>3, <1>5 DEF ColdRun, WarmAdopt

\* A step of somebody else, gentle, that issues no MicroVM.
LEMMA TrackedStill ==
  ASSUME TypeOK, Aware, TrackedOK, \A v \in VMs : VmKeeps(v),
         \A s \in Sandboxes : Keeps(s), \A v \in VMs : InHand(v) => InHand(v)',
         \A v \in VMs : vm[v] = "UNUSED" => vm'[v] = "UNUSED"
  PROVE  TrackedOK'
<1>1. \A v \in VMs : vm'[v] \in Live => vm[v] # "UNUSED"
  BY DEF Live
<1> QED BY <1>1, TrackedFrame DEF TrackedOK, Aware

LEMMA TrackedNext ==
  ASSUME TypeOK, ObjectsOK, IdsOK, Aware, TrackedOK, [Next]_vars,
         ~Blamed({"staleRead", "lostId"})'
  PROVE  TrackedOK'
<1>1. \A v \in VMs : VmKeeps(v)
  BY VmKeepsNext
<1>2. ASSUME NEW w \in Workers, Work(w) \/ Fault(w) PROVE TrackedOK'
  BY <1>1, <1>2, TrackedWork
<1>3. CASE UNCHANGED <<jobVars, vm>> /\ \A r \in Sandboxes : Keeps(r)
  <2>1. \A v \in VMs : InHand(v) => InHand(v)'
    BY <1>3 DEF InHand, jobVars
  <2> QED BY <1>1, <1>3, <2>1, TrackedStill
<1>4. ASSUME NEW s \in Sandboxes, User(s) PROVE TrackedOK'
  <2>1. UNCHANGED <<jobVars, vm>>
    BY <1>4 DEF User, Create, Delete, SetMode, ClaimAdopt, AddOther,
       RemoveOther, Edit, awsVars
  <2>2. \A r \in Sandboxes : Keeps(r)
    BY <1>4, UserGentle, GentleKeeps
  <2> QED BY <1>3, <2>1, <2>2
<1>5. ASSUME NEW s \in Sandboxes, Informer(s) PROVE TrackedOK'
  BY <1>3, <1>5 DEF Informer, Deliver, Fire, Resync, k8sVars, awsVars, Keeps
<1>6. ASSUME NEW v \in VMs, Service(v) PROVE TrackedOK'
  <2>1. UNCHANGED <<api, jobVars>>
    BY <1>6 DEF Service, VmProgress, VmDrift, k8sVars
  <2>2. /\ \A r \in Sandboxes : Keeps(r)
        /\ \A x \in VMs : InHand(x) => InHand(x)'
    BY <2>1 DEF Keeps, InHand, jobVars
  <2>3. \A x \in VMs : vm[x] = "UNUSED" => vm'[x] = "UNUSED"
    BY <1>6 DEF Service, VmProgress, VmDrift, Progress, Drift, TypeOK
  <2> QED BY <1>1, <2>2, <2>3, TrackedStill
<1>7. CASE Restart
  <2>1. \A w \in Workers : pc[w] # "patchId"
    <3>1. ASSUME NEW w \in Workers, pc[w] = "patchId" PROVE FALSE
      <4>1. Loss(w) = {"lostId"}
        BY <3>1 DEF Loss
      <4>2. "lostId" \in blame'
        BY <1>7, <3>1, <4>1 DEF Restart
      <4> QED BY <4>2 DEF Blamed
    <3> QED BY <3>1
  <2>2. \A r \in Sandboxes : Keeps(r)
    BY <1>7 DEF Restart, Keeps
  <2>3. \A v \in VMs : (InHand(v) => InHand(v)') /\ vm'[v] = vm[v]
    BY <1>7, <2>1 DEF InHand, Restart, awsVars
  <2> QED BY <1>1, <2>2, <2>3, TrackedStill
<1>8. CASE UNCHANGED vars
  BY <1>3, <1>8 DEF vars, jobVars, Keeps
<1> QED BY <1>2, <1>4, <1>5, <1>6, <1>7, <1>8 DEF Next

\* What has been met is not forgotten.
LEMMA BlameGrows ==
  ASSUME [Next]_vars PROVE blame \subseteq blame'
<1>1. ASSUME NEW w \in Workers, Work(w) PROVE blame \subseteq blame'
  BY <1>1 DEF Work, Get, ReadNothing, ReadDeletion, ReadLive, Take, Terminate,
     DeleteSecret, Release, AddFinalizer, GetMicrovm, Suspend, Resume, Switch,
     AnnotateStatus, PatchStatus, MapSandbox, AnnotatePorts, PutSecret, CreateSecret, CreateLost, UpdateSecret,
     AnnotateSecret, ColdRun, WarmAdopt, Obtain, PatchId, CondProvisioning,
     CondError, PatchCondition, Rejected, envVars
<1>2. ASSUME NEW w \in Workers, Fault(w) PROVE blame \subseteq blame'
  BY <1>2 DEF Fault, RunLost, CallFails
<1>3. ASSUME NEW s \in Sandboxes, Informer(s) \/ User(s)
      PROVE  blame \subseteq blame'
  BY <1>3 DEF Informer, Deliver, Fire, Resync, User, Create, Delete, SetMode,
     ClaimAdopt, AddOther, RemoveOther, Edit, envVars
<1>4. ASSUME NEW v \in VMs, Service(v) PROVE blame \subseteq blame'
  BY <1>4 DEF Service, VmProgress, VmDrift, envVars
<1>5. CASE Restart \/ UNCHANGED vars
  BY <1>5 DEF Restart, vars
<1> QED BY <1>1, <1>2, <1>3, <1>4, <1>5 DEF Next

-----------------------------------------------------------------------------
(* The inductive invariant, and what follows from it. *)

LEMMA IInvInit == Init => IInv
<1> SUFFICES ASSUME Init PROVE IInv
  OBVIOUS
<1>1. TypeOK
  BY TypeInit
<1>2. ObjectsOK /\ IdsOK
  BY AbsentType DEF Init, ObjectsOK, IdsOK
<1>3. HoldersOK
  BY WqEmptyOK DEF Init, HoldersOK, Busy
<1>4. GuardOK /\ \A w \in Workers : KnownOK(w)
  BY AbsentType DEF Init, GuardOK, KnownOK, Deleting, Provisioning, Reporting
<1>5. TrackedOK
  BY DEF Init, TrackedOK, Live
<1> QED BY <1>1, <1>2, <1>3, <1>4, <1>5 DEF IInv

LEMMA IInvNext == IInv /\ [Next]_vars => IInv'
<1> SUFFICES ASSUME IInv, [Next]_vars PROVE IInv'
  OBVIOUS
<1>1. TypeOK /\ ObjectsOK /\ HoldersOK /\ IdsOK
  BY DEF IInv
<1>2. TypeOK' /\ ObjectsOK' /\ HoldersOK' /\ IdsOK'
  BY <1>1, TypeNext, ObjectsNext, HoldersNext, IdsNext
<1>3. ASSUME ~Blamed({"staleRead"})' PROVE Aware /\ Aware'
  <2>1. ~Blamed({"staleRead"})
    BY <1>3, BlameGrows DEF Blamed
  <2>2. Aware
    BY <2>1 DEF IInv, Aware
  <2> QED BY <1>1, <1>3, <2>2, AwareNext
<1>4. ASSUME ~Blamed({"staleRead", "lostId"})' PROVE TrackedOK'
  <2>1. ~Blamed({"staleRead", "lostId"}) /\ ~Blamed({"staleRead"})'
    BY <1>4, BlameGrows DEF Blamed
  <2>2. TrackedOK
    BY <2>1 DEF IInv
  <2> QED BY <1>1, <1>3, <1>4, <2>1, <2>2, TrackedNext
<1> QED BY <1>2, <1>3, <1>4 DEF IInv, Aware

\* The inductive invariant holds in every reachable state: the cache, the
\* queue and the identifiers are consistent, and unless a reconcile read an
\* old object or an identifier was lost, each worker's view is still true.
THEOREM Invariance == Spec => []IInv
BY IInvInit, IInvNext, PTL DEF Spec

\* The provider loses track of a live MicroVM only through a stale read of
\* its cache or a call that lost the identifier.
THEOREM LeaksHaveCauses == Spec => []LeakCauses
<1>1. IInv => LeakCauses
  BY DEF IInv, TrackedOK, LeakCauses
<1> QED BY <1>1, Invariance, PTL

\* With the same two exceptions a Sandbox has at most one live MicroVM, for
\* any number of workers, restarts, users and lagging watches.
THEOREM OneVmHasCauses == Spec => []OneVmCauses
<1>1. ASSUME IInv PROVE OneVmCauses
  <2>1. SUFFICES ASSUME NEW v1 \in VMs, NEW v2 \in VMs,
                        v1 # v2, owner[v1] = owner[v2], owner[v1] # None,
                        vm[v1] \in Live, vm[v2] \in Live,
                        ~Blamed({"staleRead", "lostId"})
                 PROVE  FALSE
    BY DEF OneVmCauses
  <2>2. /\ TypeOK /\ HoldersOK /\ IdsOK /\ TrackedOK
        /\ \A w \in Workers : KnownOK(w)
    BY <1>1, <2>1 DEF IInv, Blamed
  <2>3. /\ api[owner[v1]].id = v1 \/ InHand(v1)
        /\ api[owner[v1]].id = v2 \/ InHand(v2)
    BY <2>1, <2>2 DEF TrackedOK
  <2>4. ASSUME NEW v \in VMs, InHand(v), owner[v] = owner[v1]
        PROVE  \E w \in Workers : /\ pc[w] = "patchId" /\ job[w].id = v
                                  /\ Key(w) = owner[v1]
                                  /\ api[owner[v1]].id = None
    BY <2>2, <2>4 DEF InHand, IdsOK, KnownOK, Provisioning, Real, Key
  <2>5. CASE InHand(v1) /\ InHand(v2)
    <3>1. PICK x \in Workers, y \in Workers :
            /\ pc[x] = "patchId" /\ job[x].id = v1 /\ Key(x) = owner[v1]
            /\ pc[y] = "patchId" /\ job[y].id = v2 /\ Key(y) = owner[v1]
      BY <2>1, <2>4, <2>5
    <3> QED BY <2>1, <2>2, <3>1 DEF HoldersOK, Busy
  <2> QED BY <2>1, <2>3, <2>4, <2>5, NoneAssumption
<1> QED BY <1>1, Invariance, PTL
=============================================================================
