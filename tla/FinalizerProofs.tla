-------------------------- MODULE FinalizerProofs --------------------------
(***************************************************************************)
(* Proofs about what the provider writes on a Sandbox: its finalizer,      *)
(* whatever version of the object a worker has read; the session secret    *)
(* and the status, as long as no worker has read an old version.           *)
(***************************************************************************)
EXTENDS ReconcilerProofs

-----------------------------------------------------------------------------
(* Edits, field by field. *)

\* Something of the MicroVM is published on the object.
Reports(o) == o.st # "UNUSED" \/ o.ready \/ o.fqdn

\* What a user's or a worker's edit may change, besides the field it names.
Alters(o, p) == p.id = o.id /\ p.del = o.del /\ p.fins = o.fins /\ p.sec = o.sec

LEMMA EditFields ==
  ASSUME NEW o \in Sandbox
  PROVE  /\ \A f \in SUBSET {Ours, Other} : LET p == [o EXCEPT !.fins = f] IN
              /\ p.id = o.id /\ p.del = o.del /\ p.fins = f /\ p.sec = o.sec
              /\ Reports(p) <=> Reports(o)
         /\ \A st \in VmStates : Alters(o, [o EXCEPT !.st = st])
         /\ \A r \in BOOLEAN : Alters(o, [o EXCEPT !.ready = r, !.fqdn = TRUE])
         /\ LET p == [o EXCEPT !.ready = FALSE] IN
              Alters(o, p) /\ (Reports(p) => Reports(o))
         /\ LET p == [o EXCEPT !.ports = TRUE] IN
              Alters(o, p) /\ (Reports(p) <=> Reports(o))
         /\ LET p == [o EXCEPT !.sec = TRUE] IN
              /\ p.id = o.id /\ p.del = o.del /\ p.fins = o.fins /\ p.sec
              /\ Reports(p) <=> Reports(o)
         /\ \A v \in VMs : LET p == [o EXCEPT !.id = v, !.st = "PENDING"] IN
              p.id = v /\ p.del = o.del /\ p.fins = o.fins /\ p.sec = o.sec
         /\ LET p == [o EXCEPT !.del = TRUE] IN
              /\ p.id = o.id /\ p.del /\ p.fins = o.fins /\ p.sec = o.sec
              /\ Reports(p) <=> Reports(o)
         /\ LET p == [o EXCEPT !.warm = FALSE] IN
              Alters(o, p) /\ (Reports(p) <=> Reports(o))
         /\ \A m \in {"Running", "Suspended"} : LET p == [o EXCEPT !.mode = m] IN
              Alters(o, p) /\ (Reports(p) <=> Reports(o))
BY DEF Sandbox, Reports, Alters

LEMMA AbsentFields ==
  /\ Absent.id = None /\ ~Absent.del /\ Absent.fins = {} /\ ~Absent.sec
  /\ ~Reports(Absent) /\ ~Guarded(Absent)
BY DEF Absent, Reports, Guarded

LEMMA FreshFields ==
  ASSUME NEW label \in BOOLEAN
  PROVE  /\ Alters(Absent, Fresh(label)) /\ ~Reports(Fresh(label))
BY DEF Absent, Fresh, Reports, Alters

\* What the patch of a worker makes of an object.
WorkEdit(w, o) ==
  /\ pc[w] = "addFin" => o.fins = AddedFins(w)
  /\ pc[w] = "release" => o.fins = RemovedFins(w)
  /\ pc[w] \notin {"addFin", "release"} => o.fins = Real(w).fins
  /\ pc[w] = "patchId" => o.id = job[w].id
  /\ pc[w] # "patchId" => o.id = Real(w).id
  /\ o.del = Real(w).del
  /\ o.sec <=> Real(w).sec \/ pc[w] = "annSecret"
  /\ Reports(o) => Reports(Real(w)) \/ pc[w] \in {"annStatus", "status", "patchId"}

\* The worker's call is accepted, and the object it names is patched.
Patches(w) ==
  /\ pc[w] \in ApiCalls /\ Accepted(w) /\ Real(w).exists
  /\ cache' = cache
  /\ \E o : Stores(Key(w), o) /\ WorkEdit(w, o)

LEMMA PatchesWitness ==
  ASSUME NEW w \in Workers, pc[w] \in ApiCalls, Accepted(w), cache' = cache,
         NEW o \in Sandbox, o.exists, WorkEdit(w, o),
         Write(Key(w), o) \/ WriteStatus(Key(w), o)
  PROVE  Patches(w)
BY AcceptedExists DEF Patches, Stores

LEMMA WorkPatches ==
  ASSUME TypeOK, NEW w \in Workers,
         \/ AddFinalizer(w) \/ AnnotateStatus(w) \/ PatchStatus(w)
         \/ AnnotatePorts(w) \/ AnnotateSecret(w) \/ Release(w) \/ PatchId(w)
         \/ CondProvisioning(w) \/ CondError(w)
  PROVE  Patches(w)
<1>1. /\ pc[w] \in ApiCalls /\ pc[w] # "idle" /\ Accepted(w) /\ cache' = cache
  BY DEF AddFinalizer, AnnotateStatus, PatchStatus, AnnotatePorts,
         AnnotateSecret, Release, PatchId, CondProvisioning, CondError,
         PatchCondition, ApiCalls, ctlVars, End
<1>2. Real(w) \in Sandbox /\ Real(w).exists /\ Real(w).sec \in BOOLEAN
  BY <1>1, AcceptedExists, BusyTypes DEF Sandbox
<1>3. CASE AddFinalizer(w)
  <2> DEFINE o == [Real(w) EXCEPT !.fins = AddedFins(w)]
  <2>1. pc[w] = "addFin" /\ Write(Key(w), o)
    BY <1>3 DEF AddFinalizer
  <2>4. AddedFins(w) \in SUBSET {Ours, Other}
    BY <1>1, BusyTypes
  <2>2. o \in Sandbox /\ o.exists = Real(w).exists
    BY <1>2, <2>4, EditTypes, EditFacts
  <2>3. /\ o.id = Real(w).id /\ o.del = Real(w).del /\ o.fins = AddedFins(w)
        /\ o.sec = Real(w).sec /\ (Reports(o) <=> Reports(Real(w)))
    BY <1>2, <2>4, EditFields
  <2> HIDE DEF o
  <2> QED BY <1>1, <1>2, <2>1, <2>2, <2>3, PatchesWitness DEF WorkEdit
<1>4. CASE Release(w)
  <2> DEFINE o == [Real(w) EXCEPT !.fins = RemovedFins(w)]
  <2>1. pc[w] = "release" /\ Write(Key(w), o)
    BY <1>4 DEF Release
  <2>4. RemovedFins(w) \in SUBSET {Ours, Other}
    BY <1>1, BusyTypes
  <2>2. o \in Sandbox /\ o.exists = Real(w).exists
    BY <1>2, <2>4, EditTypes, EditFacts
  <2>3. /\ o.id = Real(w).id /\ o.del = Real(w).del /\ o.fins = RemovedFins(w)
        /\ o.sec = Real(w).sec /\ (Reports(o) <=> Reports(Real(w)))
    BY <1>2, <2>4, EditFields
  <2> HIDE DEF o
  <2> QED BY <1>1, <1>2, <2>1, <2>2, <2>3, PatchesWitness DEF WorkEdit
<1>5. CASE AnnotateStatus(w)
  <2>1. PICK st \in VmStates : st = job[w].st
    BY <1>1, BusyTypes
  <2> DEFINE o == [Real(w) EXCEPT !.st = st]
  <2>2. pc[w] = "annStatus" /\ Write(Key(w), o)
    BY <1>5, <2>1 DEF AnnotateStatus
  <2>3. o \in Sandbox /\ o.exists = Real(w).exists /\ Alters(Real(w), o)
    BY <1>2, EditTypes, EditFacts, EditFields
  <2> HIDE DEF o
  <2> QED BY <1>1, <1>2, <2>2, <2>3, PatchesWitness DEF WorkEdit, Alters
<1>6. CASE PatchStatus(w)
  <2>1. PICK r \in BOOLEAN : r = (job[w].st = "RUNNING")
    OBVIOUS
  <2> DEFINE o == [Real(w) EXCEPT !.ready = r, !.fqdn = TRUE]
  <2>2. pc[w] = "status" /\ WriteStatus(Key(w), o)
    BY <1>6, <2>1 DEF PatchStatus
  <2>3. o \in Sandbox /\ o.exists = Real(w).exists /\ Alters(Real(w), o)
    BY <1>2, EditTypes, EditFacts, EditFields
  <2> HIDE DEF o
  <2> QED BY <1>1, <1>2, <2>2, <2>3, PatchesWitness DEF WorkEdit, Alters
<1>7. CASE AnnotatePorts(w)
  <2> DEFINE o == [Real(w) EXCEPT !.ports = TRUE]
  <2>1. pc[w] = "ports" /\ Write(Key(w), o)
    BY <1>7 DEF AnnotatePorts
  <2>2. /\ o \in Sandbox /\ o.exists = Real(w).exists /\ Alters(Real(w), o)
        /\ Reports(o) <=> Reports(Real(w))
    BY <1>2, EditTypes, EditFacts, EditFields
  <2> HIDE DEF o
  <2> QED BY <1>1, <1>2, <2>1, <2>2, PatchesWitness DEF WorkEdit, Alters
<1>8. CASE AnnotateSecret(w)
  <2> DEFINE o == [Real(w) EXCEPT !.sec = TRUE]
  <2>1. pc[w] = "annSecret" /\ Write(Key(w), o)
    BY <1>8 DEF AnnotateSecret
  <2>2. o \in Sandbox /\ o.exists = Real(w).exists
    BY <1>2, EditTypes, EditFacts
  <2>3. /\ o.id = Real(w).id /\ o.del = Real(w).del /\ o.fins = Real(w).fins
        /\ o.sec /\ (Reports(o) <=> Reports(Real(w)))
    BY <1>2, EditFields
  <2> HIDE DEF o
  <2> QED BY <1>1, <1>2, <2>1, <2>2, <2>3, PatchesWitness DEF WorkEdit
<1>9. CASE PatchId(w)
  <2>1. PICK v \in VMs : v = job[w].id
    BY <1>9 DEF PatchId, TypeOK, JobOK
  <2> DEFINE o == [Real(w) EXCEPT !.id = v, !.st = "PENDING"]
  <2>2. pc[w] = "patchId" /\ Write(Key(w), o)
    BY <1>9, <2>1 DEF PatchId
  <2>3. o \in Sandbox /\ o.exists = Real(w).exists
    BY <1>2, EditTypes, EditFacts
  <2>4. /\ o.id = v /\ o.del = Real(w).del /\ o.fins = Real(w).fins
        /\ o.sec = Real(w).sec
    BY <1>2, EditFields
  <2> HIDE DEF o
  <2> QED BY <1>1, <1>2, <2>1, <2>2, <2>3, <2>4, PatchesWitness DEF WorkEdit
<1>10. CASE CondProvisioning(w) \/ CondError(w)
  <2> DEFINE o == [Real(w) EXCEPT !.ready = FALSE]
  <2>1. pc[w] \in {"condRun", "condErr"} /\ WriteStatus(Key(w), o)
    BY <1>10 DEF CondProvisioning, CondError, PatchCondition
  <2>2. /\ o \in Sandbox /\ o.exists = Real(w).exists /\ Alters(Real(w), o)
        /\ Reports(o) => Reports(Real(w))
    BY <1>2, EditTypes, EditFacts, EditFields
  <2> HIDE DEF o
  <2> QED BY <1>1, <1>2, <2>1, <2>2, PatchesWitness DEF WorkEdit, Alters
<1> QED BY <1>3, <1>4, <1>5, <1>6, <1>7, <1>8, <1>9, <1>10

\* The other moves of a worker write no object.
Writing(w) ==
  \/ AddFinalizer(w) \/ AnnotateStatus(w) \/ PatchStatus(w)
  \/ AnnotatePorts(w) \/ AnnotateSecret(w) \/ Release(w) \/ PatchId(w)
  \/ CondProvisioning(w) \/ CondError(w)

LEMMA WorkWrites ==
  ASSUME TypeOK, NEW w \in Workers, Work(w) \/ Fault(w)
  PROVE  \/ UNCHANGED <<api, watch, cache>> /\ ~Writing(w)
         \/ Writing(w) /\ Patches(w)
<1>1. CASE Writing(w)
  BY <1>1, WorkPatches DEF Writing
<1>2. CASE ~Writing(w)
  <2>1. CASE \/ Get(w) \/ ReadNothing(w) \/ ReadDeletion(w) \/ ReadLive(w)
             \/ Terminate(w) \/ DeleteSecret(w) \/ GetMicrovm(w)
             \/ Suspend(w) \/ Resume(w) \/ MapSandbox(w) \/ PutSecret(w)
             \/ ColdRun(w) \/ WarmAdopt(w) \/ RunLost(w)
    BY <1>2, <2>1 DEF Get, ReadNothing, ReadDeletion, ReadLive, Take,
       Terminate, DeleteSecret, GetMicrovm, Suspend, Resume, Switch,
       MapSandbox, PutSecret, CreateSecret, CreateLost, UpdateSecret, ColdRun, WarmAdopt, Obtain, RunLost, End,
       k8sVars, ctlVars
  <2>2. CASE Rejected(w) \/ CallFails(w)
    <3>1. pc[w] # "idle" /\ OnError(w)
      BY <2>2 DEF Rejected, CallFails, Busy, ApiCalls, AwsCalls
    <3> QED BY <1>2, <2>2, <3>1, OnErrorType DEF Rejected, CallFails, k8sVars
  <2> QED BY <1>2, <2>1, <2>2 DEF Work, Fault, Writing
<1> QED BY <1>1, <1>2

\* The places of a worker that has read an object that is to stay.
Staying == Places \ (Deleting \cup {"idle", "read"})

\* Where a worker goes: to no object, to an object it has just read, or on
\* with the object it has, deleting it or not.
Leaves(w) == pc'[w] \in {"idle", "read"}
Reads(w) == ReadDeletion(w) \/ ReadLive(w)
GoesOn(w, places) ==
  /\ pc[w] \in places /\ pc'[w] \in places /\ pc'[w] # "addFin"
  /\ job'[w].key = job[w].key /\ job'[w].u = job[w].u

LEMMA ErrorPlaces ==
  ASSUME TypeOK, NEW w \in Workers, pc[w] # "idle", OnError(w)
  PROVE  Leaves(w) \/ GoesOn(w, Deleting) \/ GoesOn(w, Staying)
<1>1. pc[w] \in Places
  BY DEF TypeOK
<1>2. CASE pc'[w] = "idle"
  BY <1>2 DEF Leaves
<1>3. CASE pc[w] = "delSecret" /\ pc'[w] = "release" /\ job' = job
  BY <1>3 DEF GoesOn, Deleting
<1>4. CASE /\ pc[w] = "ports" /\ pc'[w] \in {"createSecret", "provision"}
           /\ job' = job
  BY <1>4, PlaceTypes DEF GoesOn, Staying, Deleting
<1>5. CASE /\ pc[w] \in {"map", "createSecret", "updateSecret", "provision"}
           /\ pc'[w] \in {"updateSecret", "condErr"} /\ job' = job
  BY <1>5, PlaceTypes DEF GoesOn, Staying, Deleting
<1>6. CASE pc[w] \in {"map", "createSecret", "updateSecret", "provision"}
  BY <1>5, <1>6 DEF OnError, Goto, TypeOK
<1>7. CASE pc[w] \notin {"map", "createSecret", "updateSecret", "provision",
                        "ports", "delSecret"}
  BY <1>2, <1>7 DEF OnError, End, TypeOK
<1>8. CASE pc[w] \in {"ports", "delSecret"}
  BY <1>3, <1>4, <1>8, PlaceTypes DEF OnError, Goto, TypeOK
<1> QED BY <1>6, <1>7, <1>8

LEMMA WorkPlaces ==
  ASSUME TypeOK, NEW w \in Workers, Work(w) \/ Fault(w)
  PROVE  Leaves(w) \/ Reads(w) \/ GoesOn(w, Deleting) \/ GoesOn(w, Staying)
<1>1. CASE \/ Get(w) \/ ReadNothing(w) \/ Release(w) \/ PatchStatus(w)
           \/ CondProvisioning(w) \/ CondError(w)
  BY <1>1 DEF Get, ReadNothing, Release, PatchStatus, CondProvisioning,
     CondError, PatchCondition, End, TypeOK, Leaves
<1>2. CASE ReadDeletion(w) \/ ReadLive(w)
  BY <1>2 DEF Reads
<1>3. CASE Terminate(w) \/ DeleteSecret(w)
  BY <1>3 DEF Terminate, DeleteSecret, Goto, TypeOK, GoesOn, Deleting
<1>4. CASE \/ AddFinalizer(w) \/ AnnotateStatus(w) \/ MapSandbox(w)
           \/ AnnotatePorts(w) \/ PutSecret(w) \/ AnnotateSecret(w)
           \/ PatchId(w) \/ RunLost(w)
  <2>1. /\ pc[w] \in {"addFin", "annStatus", "map", "ports", "createSecret", "updateSecret",
                      "annSecret", "patchId", "provision"}
        /\ pc'[w] \in {"getVm", "map", "status", "ports", "createSecret", "updateSecret",
                       "provision", "annSecret", "condRun", "condErr"}
        /\ job' = job
    BY <1>4, PlaceTypes DEF AddFinalizer, AnnotateStatus, MapSandbox,
       AnnotatePorts, PutSecret, CreateSecret, CreateLost, UpdateSecret, AnnotateSecret, PatchId, RunLost, Issue,
       Goto, TypeOK
  <2> QED BY <2>1, PlaceTypes DEF GoesOn, Staying, Deleting
<1>5. CASE GetMicrovm(w) \/ Suspend(w) \/ Resume(w)
  <2>1. /\ pc[w] \in {"getVm", "suspend", "resume"}
        /\ pc'[w] \in {"suspend", "resume", "annStatus"}
        /\ \E st : job' = [job EXCEPT ![w].st = st]
    BY <1>5 DEF GetMicrovm, Suspend, Resume, Switch, TypeOK
  <2>2. job'[w].key = job[w].key /\ job'[w].u = job[w].u
    BY <2>1 DEF TypeOK
  <2> QED BY <2>1, <2>2, PlaceTypes DEF GoesOn, Staying, Deleting
<1>6. CASE ColdRun(w) \/ WarmAdopt(w)
  <2>1. /\ pc[w] = "provision" /\ pc'[w] = "patchId"
        /\ \E v : job' = [job EXCEPT ![w].id = v]
    BY <1>6 DEF ColdRun, WarmAdopt, Obtain, Issue, TypeOK
  <2>2. job'[w].key = job[w].key /\ job'[w].u = job[w].u
    BY <2>1 DEF TypeOK
  <2> QED BY <2>1, <2>2, PlaceTypes DEF GoesOn, Staying, Deleting
<1>7. CASE Rejected(w) \/ CallFails(w)
  <2>1. pc[w] # "idle" /\ OnError(w)
    BY <1>7 DEF Rejected, CallFails, Busy, ApiCalls, AwsCalls
  <2> QED BY <2>1, ErrorPlaces
<1> QED BY <1>1, <1>2, <1>3, <1>4, <1>5, <1>6, <1>7 DEF Work, Fault

\* What a user or another controller makes of an object.
UserEdit(s, o) ==
  /\ o.id = api[s].id /\ (o.sec <=> api[s].sec)
  /\ api[s].del => o.del
  /\ Guarded(o) <=> Guarded(api[s])
  /\ Reports(o) => Reports(api[s])

LEMMA UserEdits ==
  ASSUME TypeOK, ObjectsOK, NEW s \in Sandboxes, User(s)
  PROVE  /\ UNCHANGED <<cache, wq, pc, job, vm, asm, owner, blame>>
         /\ \E o : Stores(s, o) /\ UserEdit(s, o)
<1>1. /\ api[s] \in Sandbox /\ (api[s].exists \/ api[s] = Absent)
  BY DEF TypeOK, ObjectsOK
<1>2. UNCHANGED <<cache, wq, pc, job, vm, asm, owner, blame>>
  BY DEF User, Create, Delete, SetMode, ClaimAdopt, AddOther, RemoveOther,
     Edit, ctlVars, jobVars, awsVars, envVars
<1>3. ASSUME NEW o \in Sandbox, o.exists, Write(s, o), UserEdit(s, o)
      PROVE  \E p : Stores(s, p) /\ UserEdit(s, p)
  BY <1>3 DEF Stores
<1>4. CASE Create(s)
  <2>1. PICK label \in BOOLEAN : Edit(s, Fresh(label))
    BY <1>4 DEF Create
  <2>2. api[s] = Absent
    BY <1>1, <1>4 DEF Create
  <2>3. UserEdit(s, Fresh(label))
    BY <2>2, FreshFields, AbsentFields DEF UserEdit, Alters, Guarded
  <2>4. Write(s, Fresh(label))
    BY <2>1 DEF Edit
  <2> HIDE DEF Fresh
  <2> QED BY <1>2, <1>3, <2>3, <2>4, FreshType
<1>5. CASE Delete(s)
  <2> DEFINE o == [api[s] EXCEPT !.del = TRUE]
  <2>1. o \in Sandbox /\ o.exists = api[s].exists
    BY <1>1, EditTypes, EditFacts
  <2>2. /\ o.id = api[s].id /\ o.del /\ o.fins = api[s].fins /\ o.sec = api[s].sec
        /\ Reports(o) <=> Reports(api[s])
    BY <1>1, EditFields
  <2>3. Write(s, o) /\ api[s].exists
    BY <1>5 DEF Delete, Edit
  <2> HIDE DEF o
  <2>9. UserEdit(s, o)
    BY <2>1, <2>2, <2>3 DEF UserEdit, Guarded
  <2> QED BY <1>2, <1>3, <2>1, <2>2, <2>3, <2>9
<1>6. CASE SetMode(s)
  <2>1. PICK m \in {"Running", "Suspended"} : Edit(s, [api[s] EXCEPT !.mode = m])
    BY <1>6 DEF SetMode
  <2> DEFINE o == [api[s] EXCEPT !.mode = m]
  <2>2. /\ o \in Sandbox /\ o.exists = api[s].exists /\ Alters(api[s], o)
        /\ Reports(o) <=> Reports(api[s])
    BY <1>1, EditTypes, EditFacts, EditFields
  <2>3. Write(s, o) /\ api[s].exists
    BY <1>6, <2>1 DEF SetMode, Edit
  <2> HIDE DEF o
  <2>9. UserEdit(s, o)
    BY <2>2, <2>3 DEF UserEdit, Guarded, Alters
  <2> QED BY <1>2, <1>3, <2>2, <2>3, <2>9
<1>7. CASE ClaimAdopt(s)
  <2> DEFINE o == [api[s] EXCEPT !.warm = FALSE]
  <2>1. /\ o \in Sandbox /\ o.exists = api[s].exists /\ Alters(api[s], o)
        /\ Reports(o) <=> Reports(api[s])
    BY <1>1, EditTypes, EditFacts, EditFields
  <2>2. Write(s, o) /\ api[s].exists
    BY <1>7 DEF ClaimAdopt, Edit
  <2> HIDE DEF o
  <2>9. UserEdit(s, o)
    BY <2>1, <2>2 DEF UserEdit, Guarded, Alters
  <2> QED BY <1>2, <1>3, <2>1, <2>2, <2>9
<1>8. CASE AddOther(s) \/ RemoveOther(s)
  <2>1. PICK f \in SUBSET {Ours, Other} :
          /\ f = api[s].fins \cup {Other} \/ f = api[s].fins \ {Other}
          /\ Write(s, [api[s] EXCEPT !.fins = f])
    <3>1. api[s].fins \in SUBSET {Ours, Other}
      BY <1>1 DEF Sandbox
    <3> QED BY <1>8, <3>1 DEF AddOther, RemoveOther, Edit
  <2>2. api[s].exists
    BY <1>1, <1>8, AbsentType DEF AddOther, RemoveOther
  <2>3. Ours \in f <=> Ours \in api[s].fins
    BY <2>1 DEF Ours, Other
  <2> DEFINE o == [api[s] EXCEPT !.fins = f]
  <2>4. Write(s, o)
    BY <2>1
  <2>5. o \in Sandbox /\ o.exists = api[s].exists
    BY <1>1, EditTypes, EditFacts
  <2>6. /\ o.id = api[s].id /\ o.del = api[s].del /\ o.fins = f
        /\ o.sec = api[s].sec /\ (Reports(o) <=> Reports(api[s]))
    BY <1>1, EditFields
  <2> HIDE DEF o
  <2>9. UserEdit(s, o)
    BY <2>2, <2>3, <2>4, <2>5, <2>6 DEF UserEdit, Guarded
  <2> QED BY <1>2, <1>3, <2>2, <2>3, <2>4, <2>5, <2>6, <2>9
<1> QED BY <1>2, <1>4, <1>5, <1>6, <1>7, <1>8 DEF User

-----------------------------------------------------------------------------
(* The versions of an object between the cache and the API server. *)

\* What a step may do to them: nothing, a new version, a delivery, a new list.
Same(s) == UNCHANGED <<api[s], watch[s], cache[s]>>
Adds(s, o) ==
  /\ watch'[s] = Append(watch[s], o) /\ api'[s] = o /\ cache'[s] = cache[s]
Delivers(s) ==
  /\ watch[s] # <<>>
  /\ watch'[s] = Tail(watch[s]) /\ cache'[s] = Head(watch[s]) /\ api'[s] = api[s]
Relists(s) == watch'[s] = <<>> /\ cache'[s] = api[s] /\ api'[s] = api[s]

\* Of a newest version and the one it follows: no more than an edit.
Follows(p, o) ==
  /\ Guarded(o) <=> Guarded(p)
  /\ Guarded(p) /\ p.del => o.del

LEMMA SameVersions ==
  ASSUME NEW s \in Sandboxes, Same(s)
  PROVE  Last(s)' = Last(s) /\ \A i : Nth(s, i)' = Nth(s, i)
BY DEF Same, Last, Nth

LEMMA AddsVersions ==
  ASSUME TypeOK, NEW s \in Sandboxes, NEW o, Adds(s, o)
  PROVE  \E n \in Nat : /\ Last(s) = n /\ Last(s)' = n + 1
                       /\ \A i \in 0..n : Nth(s, i)' = Nth(s, i)
                       /\ Nth(s, n + 1)' = o
<1>1. watch[s] \in Seq(Sandbox)
  BY DEF TypeOK
<1>2. PICK n \in Nat : n = Len(watch[s])
  BY <1>1
<1>3. Len(Append(watch[s], o)) = n + 1
  BY <1>1, <1>2
<1>4. \A i \in 1..n : Append(watch[s], o)[i] = watch[s][i]
  BY <1>1, <1>2
<1>5. Append(watch[s], o)[n + 1] = o
  BY <1>1, <1>2
<1>6. Last(s) = n /\ Last(s)' = n + 1
  BY <1>2, <1>3 DEF Adds, Last
<1>7. ASSUME NEW i \in 0..n PROVE Nth(s, i)' = Nth(s, i)
  <2>1. CASE i = 0
    BY <2>1 DEF Adds, Nth
  <2>2. CASE i # 0
    <3>1. i \in 1..n
      BY <2>2
    <3> QED BY <1>4, <2>2, <3>1 DEF Adds, Nth
  <2> QED BY <2>1, <2>2
<1>8. Nth(s, n + 1)' = o
  <2>1. n + 1 # 0
    OBVIOUS
  <2> QED BY <1>5, <2>1 DEF Adds, Nth
<1> QED BY <1>6, <1>7, <1>8

LEMMA DeliversVersions ==
  ASSUME TypeOK, NEW s \in Sandboxes, Delivers(s)
  PROVE  /\ Last(s) \in Nat \ {0} /\ Last(s)' = Last(s) - 1
         /\ \A i \in 0..(Last(s) - 1) : Nth(s, i)' = Nth(s, i + 1)
<1>1. watch[s] \in Seq(Sandbox) /\ watch[s] # <<>>
  BY DEF TypeOK, Delivers
<1>2. PICK n \in Nat : n = Len(watch[s])
  BY <1>1
<1>3. n # 0 /\ Len(Tail(watch[s])) = n - 1
  BY <1>1, <1>2
<1>4. \A i \in 1..(n - 1) : Tail(watch[s])[i] = watch[s][i + 1]
  BY <1>1, <1>2
<1>5. Last(s) = n /\ Last(s)' = n - 1
  BY <1>2, <1>3 DEF Delivers, Last
<1>6. ASSUME NEW i \in 0..(n - 1) PROVE Nth(s, i)' = Nth(s, i + 1)
  <2>1. CASE i = 0
    <3>1. Head(watch[s]) = watch[s][1]
      BY <1>1
    <3> QED BY <2>1, <3>1 DEF Delivers, Nth
  <2>2. CASE i # 0
    <3>1. i \in 1..(n - 1) /\ i + 1 # 0
      BY <2>2
    <3> QED BY <1>4, <2>2, <3>1 DEF Delivers, Nth
  <2> QED BY <2>1, <2>2
<1> QED BY <1>3, <1>5, <1>6

LEMMA NewestVersion ==
  ASSUME TypeOK, ObjectsOK, NEW s \in Sandboxes
  PROVE  Last(s) \in Nat /\ Nth(s, Last(s)) = api[s]
<1>1. watch[s] \in Seq(Sandbox)
  BY DEF TypeOK
<1>2. PICK n \in Nat : n = Len(watch[s])
  BY <1>1
<1>3. n = 0 <=> watch[s] = <<>>
  BY <1>1, <1>2
<1> QED BY <1>2, <1>3 DEF ObjectsOK, Last, Nth

\* No version has news of the finalizer: each stands for one there was, in the
\* order there was, and only the newest may have been deleted meanwhile.
Narrows(s) ==
  \E f \in [0..Last(s)' -> 0..Last(s)] :
    \A i, j \in 0..Last(s)' :
      /\ Guarded(Nth(s, i)') <=> Guarded(Nth(s, f[i]))
      /\ Nth(s, f[i]).del /\ Guarded(Nth(s, f[i])) => Nth(s, i)'.del
      /\ i < j => f[i] <= f[j] /\ (Nth(s, i)'.del => Nth(s, f[i]).del)

LEMMA NarrowsOK ==
  ASSUME TypeOK, NEW s \in Sandboxes, Narrows(s)
  PROVE  /\ Drops(s)' => Drops(s)
         /\ Rises(s)' => Rises(s)
         /\ VersionsOK(s) => VersionsOK(s)'
<1>1. PICK f \in [0..Last(s)' -> 0..Last(s)] :
        \A i, j \in 0..Last(s)' :
          /\ Guarded(Nth(s, i)') <=> Guarded(Nth(s, f[i]))
          /\ Nth(s, f[i]).del /\ Guarded(Nth(s, f[i])) => Nth(s, i)'.del
          /\ i < j => f[i] <= f[j] /\ (Nth(s, i)'.del => Nth(s, f[i]).del)
  BY DEF Narrows
<1>2. \A i \in 0..Last(s)' : f[i] \in 0..Last(s)
  BY <1>1
<1>3. ASSUME NEW i \in 0..Last(s)', NEW j \in 0..Last(s)', i < j,
             ~(Guarded(Nth(s, i)') <=> Guarded(Nth(s, j)'))
      PROVE  f[i] < f[j]
  <2>1. f[i] <= f[j]
    BY <1>1, <1>3
  <2>2. f[i] # f[j]
    BY <1>1, <1>3
  <2> QED BY <1>2, <2>1, <2>2
<1>4. ASSUME Drops(s)' PROVE Drops(s)
  <2>1. PICK i \in 0..Last(s)', j \in 0..Last(s)' :
          i < j /\ Guarded(Nth(s, i)') /\ ~Guarded(Nth(s, j)')
    BY <1>4 DEF Drops, Guarded
  <2>2. f[i] < f[j] /\ Guarded(Nth(s, f[i])) /\ ~Guarded(Nth(s, f[j]))
    BY <1>1, <1>3, <2>1
  <2> QED BY <1>2, <2>2 DEF Drops
<1>5. ASSUME Rises(s)' PROVE Rises(s)
  <2>1. PICK i \in 0..Last(s)', j \in 0..Last(s)' :
          i < j /\ ~Guarded(Nth(s, i)') /\ Guarded(Nth(s, j)')
    BY <1>5 DEF Rises, Guarded
  <2>2. f[i] < f[j] /\ ~Guarded(Nth(s, f[i])) /\ Guarded(Nth(s, f[j]))
    BY <1>1, <1>3, <2>1
  <2> QED BY <1>2, <2>2 DEF Rises
<1>6. ASSUME VersionsOK(s), NEW i \in 0..Last(s)', NEW j \in 0..Last(s)',
             i < j, Guarded(Nth(s, i)')
      PROVE  /\ ~Guarded(Nth(s, j)') => Nth(s, i)'.del
             /\ Guarded(Nth(s, j)') /\ Nth(s, i)'.del => Nth(s, j)'.del
  <2>1. /\ Guarded(Nth(s, f[i]))
        /\ Guarded(Nth(s, j)') <=> Guarded(Nth(s, f[j]))
    BY <1>1, <1>6
  <2>2. ASSUME ~Guarded(Nth(s, j)') PROVE Nth(s, i)'.del
    <3>1. f[i] < f[j] /\ ~Guarded(Nth(s, f[j]))
      BY <1>3, <1>6, <2>1, <2>2
    <3>2. Nth(s, f[i]).del
      BY <1>2, <1>6, <2>1, <3>1 DEF VersionsOK
    <3> QED BY <1>1, <2>1, <3>2
  <2>3. ASSUME Guarded(Nth(s, j)'), Nth(s, i)'.del PROVE Nth(s, j)'.del
    <3>1. Guarded(Nth(s, f[j])) /\ Nth(s, f[i]).del /\ f[i] <= f[j]
      BY <1>1, <1>6, <2>1, <2>3
    <3>2. CASE f[i] = f[j]
      BY <1>1, <3>1, <3>2
    <3>3. CASE f[i] # f[j]
      <4>1. f[i] < f[j]
        BY <1>2, <3>1, <3>3
      <4>2. Nth(s, f[j]).del
        BY <1>2, <1>6, <2>1, <3>1, <4>1 DEF VersionsOK
      <4> QED BY <1>1, <3>1, <4>2
    <3> QED BY <3>2, <3>3
  <2> QED BY <2>2, <2>3
<1>7. ASSUME VersionsOK(s) PROVE VersionsOK(s)'
  <2>1. ~(Drops(s) /\ Rises(s))
    BY <1>7 DEF VersionsOK
  <2>2. ~(Drops(s)' /\ Rises(s)')
    BY <1>4, <1>5, <2>1
  <2>3. \A i, j \in 0..Last(s)' : i < j /\ Guarded(Nth(s, i)') =>
          /\ ~Guarded(Nth(s, j)') => Nth(s, i)'.del
          /\ Guarded(Nth(s, j)') /\ Nth(s, i)'.del => Nth(s, j)'.del
    BY <1>6, <1>7
  <2> QED BY <2>2, <2>3 DEF VersionsOK, Guarded
<1> QED BY <1>4, <1>5, <1>7

LEMMA NarrowsDoomed ==
  ASSUME NEW s, Narrows(s), Doomed(s) PROVE Doomed(s)'
<1>1. ASSUME NEW i \in 0..Last(s)', Guarded(Nth(s, i)') PROVE Nth(s, i)'.del
  BY <1>1 DEF Narrows, Doomed
<1> QED BY <1>1 DEF Doomed, Guarded

\* The steps that bring no news.
Calm(s) == Narrows(s) /\ (Guarded(api'[s]) <=> Guarded(api[s]))

LEMMA SameCalm ==
  ASSUME TypeOK, NEW s \in Sandboxes, Same(s) PROVE Calm(s)
<1>1. Last(s)' = Last(s) /\ \A i : Nth(s, i)' = Nth(s, i)
  BY SameVersions
<1>2. Last(s) \in Nat
  BY DEF TypeOK, Last
<1> DEFINE f == [i \in 0..Last(s) |-> i]
<1>3. f \in [0..Last(s) -> 0..Last(s)] /\ \A i \in 0..Last(s) : f[i] = i
  OBVIOUS
<1> HIDE DEF f
<1>4. Narrows(s)
  BY <1>1, <1>2, <1>3 DEF Narrows
<1> QED BY <1>4 DEF Calm, Same

LEMMA FollowsCalm ==
  ASSUME TypeOK, ObjectsOK, NEW s \in Sandboxes, NEW o, Adds(s, o),
         Follows(api[s], o)
  PROVE  Calm(s)
<1>1. PICK n \in Nat : /\ Last(s) = n /\ Last(s)' = n + 1
                       /\ \A i \in 0..n : Nth(s, i)' = Nth(s, i)
                       /\ Nth(s, n + 1)' = o
  BY AddsVersions
<1>2. Nth(s, n) = api[s]
  BY <1>1, NewestVersion
<1> DEFINE f == [i \in 0..(n + 1) |-> IF i = n + 1 THEN n ELSE i]
<1>3. f \in [0..(n + 1) -> 0..n] /\ f[n + 1] = n /\ \A i \in 0..n : f[i] = i
  OBVIOUS
<1> HIDE DEF f
<1>4. Nth(s, n + 1)' = o /\ Nth(s, n) = api[s] /\ n \in 0..n
  BY <1>1, <1>2
<1>5. ASSUME NEW i \in 0..(n + 1)
      PROVE  /\ Guarded(Nth(s, i)') <=> Guarded(Nth(s, f[i]))
             /\ Nth(s, f[i]).del /\ Guarded(Nth(s, f[i])) => Nth(s, i)'.del
             /\ i < n + 1 => (Nth(s, i)'.del => Nth(s, f[i]).del)
  <2>1. CASE i = n + 1
    <3>1. Nth(s, i)' = o /\ Nth(s, f[i]) = api[s] /\ ~(i < n + 1)
      BY <1>3, <1>4, <2>1
    <3> QED BY <3>1 DEF Follows
  <2>2. CASE i # n + 1
    <3>1. i \in 0..n
      BY <2>2
    <3>2. Nth(s, i)' = Nth(s, i) /\ f[i] = i
      BY <1>1, <1>2, <1>3, <3>1
    <3> QED BY <3>2
  <2> QED BY <2>1, <2>2
<1>6. ASSUME NEW i \in 0..(n + 1), NEW j \in 0..(n + 1), i < j
      PROVE  f[i] <= f[j] /\ i < n + 1
  <2>1. i \in 0..n /\ f[i] = i
    BY <1>3, <1>6
  <2>2. CASE j = n + 1
    BY <1>3, <2>1, <2>2
  <2>3. CASE j # n + 1
    BY <1>3, <1>6, <2>1, <2>3
  <2> QED BY <2>2, <2>3, <1>6
<1>7. Last(s)' = n + 1 /\ Last(s) = n
  BY <1>1, <1>2
<1>8. \A i, j \in 0..(n + 1) :
        /\ Guarded(Nth(s, i)') <=> Guarded(Nth(s, f[i]))
        /\ Nth(s, f[i]).del /\ Guarded(Nth(s, f[i])) => Nth(s, i)'.del
        /\ i < j => f[i] <= f[j] /\ (Nth(s, i)'.del => Nth(s, f[i]).del)
  BY <1>5, <1>6
<1>9. Narrows(s)
  BY <1>3, <1>7, <1>8 DEF Narrows
<1> QED BY <1>9 DEF Calm, Adds, Follows

LEMMA DeliversCalm ==
  ASSUME TypeOK, NEW s \in Sandboxes, Delivers(s)
  PROVE  Calm(s)
<1>1. PICK n \in Nat \ {0} : n = Last(s)
  BY DeliversVersions
<1>2. Last(s)' = n - 1 /\ \A i \in 0..(n - 1) : Nth(s, i)' = Nth(s, i + 1)
  BY <1>1, DeliversVersions
<1> DEFINE f == [i \in 0..(n - 1) |-> i + 1]
<1>3. f \in [0..(n - 1) -> 0..n] /\ \A i \in 0..(n - 1) : f[i] = i + 1
  OBVIOUS
<1> HIDE DEF f
<1>4. \A i, j \in 0..(n - 1) :
        /\ Guarded(Nth(s, i)') <=> Guarded(Nth(s, f[i]))
        /\ Nth(s, f[i]).del /\ Guarded(Nth(s, f[i])) => Nth(s, i)'.del
        /\ i < j => f[i] <= f[j] /\ (Nth(s, i)'.del => Nth(s, f[i]).del)
  BY <1>2, <1>3
<1>5. Narrows(s)
  BY <1>1, <1>2, <1>3, <1>4 DEF Narrows
<1> QED BY <1>5 DEF Calm, Delivers

LEMMA RelistsCalm ==
  ASSUME TypeOK, ObjectsOK, NEW s \in Sandboxes, Relists(s)
  PROVE  Calm(s)
<1>1. PICK n \in Nat : n = Last(s) /\ Nth(s, n) = api[s]
  BY NewestVersion
<1>2. Last(s)' = 0 /\ Nth(s, 0)' = Nth(s, n)
  BY <1>1 DEF Relists, Last, Nth
<1> DEFINE f == [i \in 0..0 |-> n]
<1>3. f \in [0..0 -> 0..n] /\ f[0] = n /\ \A i \in 0..0 : i = 0
  OBVIOUS
<1> HIDE DEF f
<1>4. \A i, j \in 0..0 :
        /\ Guarded(Nth(s, i)') <=> Guarded(Nth(s, f[i]))
        /\ Nth(s, f[i]).del /\ Guarded(Nth(s, f[i])) => Nth(s, i)'.del
        /\ i < j => f[i] <= f[j] /\ (Nth(s, i)'.del => Nth(s, f[i]).del)
  BY <1>2, <1>3
<1>5. Narrows(s)
  BY <1>1, <1>2, <1>3, <1>4 DEF Narrows
<1> QED BY <1>5 DEF Calm, Relists

-----------------------------------------------------------------------------
(* The finalizer: versions and workers. *)

\* HoldsFins, by the object and the place.
HoldsAt(s, p) ==
  /\ p \in Deleting => ~Rises(s) /\ Doomed(s)
  /\ p \notin Deleting \cup {"idle", "read"} =>
       ~Drops(s) /\ (p = "addFin" \/ Guarded(api[s]))

LEMMA HoldsFact ==
  ASSUME NEW w PROVE HoldsFins(w) <=> HoldsAt(Key(w), pc[w])
BY DEF HoldsFins, HoldsAt, Real, Key

LEMMA HoldsPrimed ==
  ASSUME NEW w, NEW s, NEW p, Key(w)' = s, pc'[w] = p, HoldsAt(s, p)'
  PROVE  HoldsFins(w)'
<1>1. Real(w)' = api'[s]
  BY DEF Real, Key
<1>2. ASSUME p \in Deleting PROVE ~Rises(Key(w))' /\ Doomed(Key(w))'
  <2>1. ~Rises(s)' /\ Doomed(s)'
    BY <1>2 DEF HoldsAt
  <2> QED BY <2>1 DEF Rises, Doomed, Nth, Last, Guarded
<1>3. ASSUME p \notin Deleting \cup {"idle", "read"}
      PROVE  ~Drops(Key(w))' /\ (p = "addFin" \/ Guarded(Real(w))')
  <2>1. ~Drops(s)' /\ (p = "addFin" \/ Guarded(api[s])')
    BY <1>3 DEF HoldsAt
  <2> QED BY <1>1, <2>1 DEF Drops, Nth, Last, Guarded
<1> QED BY <1>2, <1>3 DEF HoldsFins

\* Calm steps take nothing from a worker that stays or goes on.
LEMMA CalmHolds ==
  ASSUME TypeOK, NEW s \in Sandboxes, Calm(s), NEW p, NEW q, HoldsAt(s, p),
         \/ q = p
         \/ p \in Deleting /\ q \in Deleting
         \/ p \in Staying \ {"addFin"} /\ q \in Staying
         \/ q \in {"idle", "read"}
  PROVE  HoldsAt(s, q)'
<1>1. /\ Drops(s)' => Drops(s)
      /\ Rises(s)' => Rises(s)
      /\ Doomed(s) => Doomed(s)'
      /\ Guarded(api'[s]) <=> Guarded(api[s])
  BY NarrowsOK, NarrowsDoomed DEF Calm
<1>2. ASSUME q \in Deleting PROVE ~Rises(s)' /\ Doomed(s)'
  <2>1. p \in Deleting
    BY <1>2 DEF Deleting, Staying
  <2> QED BY <1>1, <2>1 DEF HoldsAt
<1>3. ASSUME q \notin Deleting \cup {"idle", "read"}
      PROVE  ~Drops(s)' /\ (q = "addFin" \/ Guarded(api'[s]))
  <2>1. /\ p \notin Deleting \cup {"idle", "read"}
        /\ q # "addFin" => p # "addFin"
    BY <1>3 DEF Staying
  <2> QED BY <1>1, <2>1 DEF HoldsAt
<1>4. Guarded(api'[s]) <=> Guarded(api[s])'
  BY DEF Guarded
<1> QED BY <1>2, <1>3, <1>4 DEF HoldsAt

\* A worker that reads finds in the oldest version what it needs to know of
\* the ones that follow.
LEMMA ReadVersions ==
  ASSUME TypeOK, ObjectsOK, NEW s \in Sandboxes, VersionsOK(s)
  PROVE  /\ Guarded(cache[s]) /\ cache[s].del => ~Rises(s) /\ Doomed(s)
         /\ ~cache[s].del => ~Drops(s)
         /\ ~cache[s].del /\ Guarded(cache[s]) => Guarded(api[s])
<1>1. PICK n \in Nat : n = Last(s) /\ Nth(s, n) = api[s]
  BY NewestVersion
<1>2. Nth(s, 0) = cache[s] /\ 0 \in 0..n /\ n \in 0..n
  BY <1>1 DEF Nth
<1>3. \A i \in 0..n : i = 0 \/ 0 < i
  OBVIOUS
<1>4. ASSUME Guarded(cache[s]), cache[s].del PROVE ~Rises(s) /\ Doomed(s)
  <2>1. ASSUME Rises(s) PROVE FALSE
    <3>1. PICK i \in 0..n : ~Guarded(Nth(s, i))
      BY <1>1, <2>1 DEF Rises
    <3>2. 0 < i
      BY <1>2, <1>3, <1>4, <3>1
    <3>3. Drops(s)
      BY <1>1, <1>2, <1>4, <3>1, <3>2 DEF Drops
    <3> QED BY <2>1, <3>3 DEF VersionsOK
  <2>2. ASSUME NEW i \in 0..n, Guarded(Nth(s, i)) PROVE Nth(s, i).del
    <3>1. CASE i = 0
      BY <1>2, <1>4, <3>1
    <3>2. CASE 0 < i
      BY <1>1, <1>2, <1>4, <2>2, <3>2 DEF VersionsOK
    <3> QED BY <1>3, <3>1, <3>2
  <2> QED BY <1>1, <2>1, <2>2 DEF Doomed
<1>5. ASSUME ~cache[s].del, Guarded(cache[s]), NEW j \in 0..n
      PROVE  Guarded(Nth(s, j))
  <2>1. CASE j = 0
    BY <1>2, <1>5, <2>1
  <2>2. CASE 0 < j
    BY <1>1, <1>2, <1>5, <2>2 DEF VersionsOK
  <2> QED BY <1>3, <2>1, <2>2
<1>6. ASSUME ~cache[s].del, Drops(s) PROVE FALSE
  <2>1. PICK i \in 0..n, j \in 0..n :
          i < j /\ Guarded(Nth(s, i)) /\ ~Guarded(Nth(s, j))
    BY <1>1, <1>6 DEF Drops
  <2>2. ~Guarded(cache[s])
    BY <1>5, <1>6, <2>1
  <2>3. 0 < i
    BY <1>2, <1>3, <2>1, <2>2
  <2>4. Rises(s)
    BY <1>1, <1>2, <2>1, <2>2, <2>3 DEF Rises
  <2> QED BY <1>6, <2>4 DEF VersionsOK
<1> QED BY <1>1, <1>2, <1>4, <1>5, <1>6

LEMMA ReadHolds ==
  ASSUME TypeOK, ObjectsOK, NEW w \in Workers, Reads(w),
         \A s \in Sandboxes : VersionsOK(s)
  PROVE  HoldsFins(w)'
<1>1. PICK s \in Sandboxes : s = Key(w)
  BY DEF TypeOK, JobOK, Busy, Reads, ReadDeletion, ReadLive
<1>2. /\ UNCHANGED <<api, watch, cache>> /\ Key(w)' = s
      /\ \/ /\ pc'[w] \in Deleting /\ Guarded(cache[s]) /\ cache[s].del
         \/ /\ ~cache[s].del
            /\ \/ pc'[w] = "addFin"
               \/ pc'[w] \in {"getVm", "map"} /\ Guarded(cache[s])
  <2>1. CASE ReadDeletion(w)
    BY <1>1, <2>1 DEF ReadDeletion, Take, TypeOK, Key, Guarded, Deleting,
       k8sVars, ctlVars
  <2>2. CASE ReadLive(w)
    <3>1. \A u : AfterFinalizer(u) \in {"getVm", "map"}
      BY PlaceTypes
    <3> HIDE DEF AfterFinalizer
    <3> QED BY <1>1, <2>2, <3>1 DEF ReadLive, Take, TypeOK, Key, Guarded,
               k8sVars, ctlVars
  <2> QED BY <2>1, <2>2 DEF Reads
<1>3. PICK p : p = pc'[w]
  OBVIOUS
<1>4. HoldsAt(s, p)
  <2>1. /\ Guarded(cache[s]) /\ cache[s].del => ~Rises(s) /\ Doomed(s)
        /\ ~cache[s].del => ~Drops(s)
        /\ ~cache[s].del /\ Guarded(cache[s]) => Guarded(api[s])
    BY ReadVersions
  <2> QED BY <1>2, <1>3, <2>1 DEF HoldsAt, Deleting
<1>5. Same(s)
  BY <1>2 DEF Same
<1>6. HoldsAt(s, p)'
  BY <1>4, <1>5, SameCalm, CalmHolds
<1> QED BY <1>2, <1>3, <1>6, HoldsPrimed

-----------------------------------------------------------------------------
(* The finalizer: the steps of workers. *)

LEMMA StoresOne ==
  ASSUME TypeOK, NEW s \in Sandboxes, NEW o, Stores(s, o), cache' = cache
  PROVE  /\ \A r \in Sandboxes \ {s} : Same(r)
         /\ api'[s] = Stored(o)
         /\ Same(s) \/ Adds(s, Stored(o))
BY StoresFacts DEF Same, Adds

LEMMA StoredFields ==
  ASSUME NEW o
  PROVE  \/ Stored(o) = o
         \/ /\ Stored(o) = Absent /\ o.fins = {}
            /\ ~Guarded(Stored(o)) /\ Stored(o).id = None
            /\ ~Stored(o).exists /\ ~Stored(o).sec /\ ~Reports(Stored(o))
BY AbsentFields, AbsentType DEF Stored

LEMMA StoredCalm ==
  ASSUME TypeOK, ObjectsOK, NEW s \in Sandboxes, NEW o, Stores(s, o),
         cache' = cache, Guarded(o) <=> Guarded(api[s]), api[s].del => o.del
  PROVE  \A r \in Sandboxes : Calm(r)
<1>1. Follows(api[s], Stored(o))
  <2>1. CASE Stored(o) = o
    BY <2>1 DEF Follows
  <2>2. CASE ~Guarded(Stored(o)) /\ o.fins = {}
    BY <2>2 DEF Follows, Guarded
  <2> QED BY <2>1, <2>2, StoredFields
<1>2. /\ \A r \in Sandboxes \ {s} : Same(r)
      /\ Same(s) \/ Adds(s, Stored(o))
  BY StoresOne
<1>3. Calm(s)
  BY <1>1, <1>2, SameCalm, FollowsCalm
<1>4. \A r \in Sandboxes \ {s} : Calm(r)
  BY <1>2, SameCalm
<1> QED BY <1>3, <1>4

LEMMA GuardsFrame ==
  ASSUME FinalizerGuardsVM, NEW s \in Sandboxes,
         \A r \in Sandboxes \ {s} : api'[r] = api[r],
         api'[s].exists /\ api'[s].id # None /\ ~api'[s].del => Guarded(api'[s])
  PROVE  FinalizerGuardsVM'
BY DEF FinalizerGuardsVM, Guarded

\* What a step of a worker must see to: the object it writes and itself.
LEMMA FinsOthers ==
  ASSUME TypeOK, HoldersOK, FinsInv, NEW w \in Workers,
         \A x \in Workers \ {w} : pc'[x] = pc[x] /\ job'[x] = job[x],
         \A r \in Sandboxes :
           Calm(r) \/ (pc[w] # "idle" /\ r = Key(w) /\ VersionsOK(r)'),
         HoldsFins(w)', FinalizerGuardsVM'
  PROVE  FinsInv'
<1>1. ASSUME NEW r \in Sandboxes PROVE VersionsOK(r)'
  BY NarrowsOK DEF Calm, FinsInv
<1>2. ASSUME NEW x \in Workers \ {w} PROVE HoldsFins(x)'
  <2>1. CASE pc[x] = "idle"
    BY <1>2, <2>1 DEF HoldsFins, Deleting
  <2>2. CASE pc[x] # "idle"
    <3>1. PICK s \in Sandboxes : s = Key(x)
      BY <2>2 DEF TypeOK, JobOK, Busy
    <3>2. pc[w] # "idle" => s # Key(w)
      BY <1>2, <2>2, <3>1 DEF HoldersOK, Busy
    <3>3. Calm(s)
      BY <3>2
    <3>4. PICK p : p = pc[x]
      OBVIOUS
    <3>5. HoldsAt(s, p)
      BY <3>1, <3>4, HoldsFact DEF FinsInv
    <3>6. HoldsAt(s, p)'
      BY <3>3, <3>5, CalmHolds
    <3>7. Key(x)' = s /\ pc'[x] = p
      BY <1>2, <3>1, <3>4 DEF Key
    <3> QED BY <3>6, <3>7, HoldsPrimed
  <2> QED BY <2>1, <2>2
<1> QED BY <1>1, <1>2 DEF FinsInv

\* A worker that is about to add the finalizer adds it or gives up.
LEMMA AddFinMoves ==
  ASSUME TypeOK, NEW w \in Workers, Work(w) \/ Fault(w), pc[w] = "addFin"
  PROVE  AddFinalizer(w) \/ Leaves(w)
<1>1. CASE Rejected(w) \/ CallFails(w)
  <2>1. OnError(w)
    BY <1>1 DEF Rejected, CallFails
  <2> QED BY <2>1 DEF OnError, End, TypeOK, Leaves
<1>2. CASE ~(Rejected(w) \/ CallFails(w) \/ AddFinalizer(w))
  BY <1>2 DEF Work, Fault, Get, ReadNothing, ReadDeletion, ReadLive,
     Terminate, DeleteSecret, Release, GetMicrovm, Suspend, Resume, Switch,
     AnnotateStatus, PatchStatus, MapSandbox, AnnotatePorts, PutSecret, CreateSecret, CreateLost, UpdateSecret,
     AnnotateSecret, ColdRun, WarmAdopt, Obtain, Issue, RunLost, PatchId,
     CondProvisioning, CondError, PatchCondition
<1> QED BY <1>1, <1>2

LEMMA LeavesHolds ==
  ASSUME NEW w, Leaves(w) PROVE HoldsFins(w)'
BY DEF Leaves, HoldsFins, Deleting

LEMMA OwnHolds ==
  ASSUME TypeOK, ObjectsOK, FinsInv, NEW w \in Workers, Work(w) \/ Fault(w),
         \A s \in Sandboxes : Calm(s), ~AddFinalizer(w)
  PROVE  HoldsFins(w)'
<1>1. CASE Leaves(w)
  BY <1>1, LeavesHolds
<1>2. CASE Reads(w)
  BY <1>2, ReadHolds DEF FinsInv
<1>3. CASE (GoesOn(w, Deleting) \/ GoesOn(w, Staying)) /\ ~Leaves(w)
  <2>1. pc[w] # "idle" /\ pc[w] # "addFin" /\ Key(w)' = Key(w)
    BY <1>3, AddFinMoves DEF GoesOn, Deleting, Staying, Key
  <2>2. PICK s \in Sandboxes : s = Key(w)
    BY <2>1 DEF TypeOK, JobOK, Busy
  <2>3. PICK p, q : p = pc[w] /\ q = pc'[w]
    OBVIOUS
  <2>4. HoldsAt(s, p)
    BY <2>2, <2>3, HoldsFact DEF FinsInv
  <2>5. \/ p \in Deleting /\ q \in Deleting
        \/ p \in Staying \ {"addFin"} /\ q \in Staying
    BY <1>3, <2>1, <2>3 DEF GoesOn
  <2>6. HoldsAt(s, q)'
    BY <2>4, <2>5, CalmHolds
  <2> QED BY <2>1, <2>2, <2>3, <2>6, HoldsPrimed
<1> QED BY <1>1, <1>2, <1>3, WorkPlaces

\* Adding the finalizer: no version before had it dropped.
LEMMA AddsFins ==
  ASSUME TypeOK, ObjectsOK, NEW s \in Sandboxes, VersionsOK(s), ~Drops(s),
         NEW o, Adds(s, o), Guarded(o), ~Guarded(api[s])
  PROVE  VersionsOK(s)' /\ ~Drops(s)'
<1>1. PICK n \in Nat : /\ Last(s) = n /\ Last(s)' = n + 1
                       /\ \A i \in 0..n : Nth(s, i)' = Nth(s, i)
                       /\ Nth(s, n + 1)' = o
  BY AddsVersions
<1>2. Nth(s, n) = api[s] /\ n \in 0..n
  BY <1>1, NewestVersion
<1>3. ASSUME NEW i \in 0..n PROVE ~Guarded(Nth(s, i)')
  <2>1. Nth(s, i)' = Nth(s, i)
    BY <1>1
  <2>2. i # n => i < n
    OBVIOUS
  <2>3. ~Guarded(Nth(s, i))
    BY <1>1, <1>2, <2>2 DEF Drops
  <2> QED BY <2>1, <2>3
<1>4. \A i, j \in 0..(n + 1) : i < j => i \in 0..n
  OBVIOUS
<1>5. \A i, j \in 0..(n + 1) : i < j => ~Guarded(Nth(s, i)')
  BY <1>3, <1>4
<1>6. ~Drops(s)'
  BY <1>1, <1>5 DEF Drops, Guarded
<1> QED BY <1>1, <1>5, <1>6 DEF VersionsOK, Guarded

\* Removing it: every version that had it is a deleted one.
LEMMA RemovesFins ==
  ASSUME TypeOK, ObjectsOK, NEW s \in Sandboxes, VersionsOK(s), ~Rises(s),
         Doomed(s), NEW o, Adds(s, o), ~Guarded(o)
  PROVE  VersionsOK(s)'
<1>1. PICK n \in Nat : /\ Last(s) = n /\ Last(s)' = n + 1
                       /\ \A i \in 0..n : Nth(s, i)' = Nth(s, i)
                       /\ Nth(s, n + 1)' = o
  BY AddsVersions
<1>2. ASSUME NEW i \in 0..(n + 1), Guarded(Nth(s, i)')
      PROVE  i \in 0..n /\ Nth(s, i)' = Nth(s, i)
  <2>1. i # n + 1
    BY <1>1, <1>2
  <2> QED BY <1>1, <2>1
<1>3. ~Rises(s)'
  <2>1. ASSUME NEW i \in 0..(n + 1), NEW j \in 0..(n + 1), i < j,
               ~Guarded(Nth(s, i)'), Guarded(Nth(s, j)')
        PROVE  FALSE
    <3>1. j \in 0..n /\ i \in 0..n /\ Guarded(Nth(s, j))
      BY <1>2, <2>1
    <3>2. ~Guarded(Nth(s, i))
      BY <1>1, <2>1, <3>1
    <3> QED BY <1>1, <2>1, <3>1, <3>2 DEF Rises
  <2> QED BY <1>1, <2>1 DEF Rises, Guarded
<1>4. ASSUME NEW i \in 0..(n + 1), NEW j \in 0..(n + 1), i < j,
             Guarded(Nth(s, i)')
      PROVE  /\ ~Guarded(Nth(s, j)') => Nth(s, i)'.del
             /\ Guarded(Nth(s, j)') /\ Nth(s, i)'.del => Nth(s, j)'.del
  <2>1. i \in 0..n /\ Nth(s, i)' = Nth(s, i) /\ Nth(s, i).del
    BY <1>1, <1>2, <1>4 DEF Doomed
  <2>2. ASSUME Guarded(Nth(s, j)') PROVE Nth(s, j)'.del
    BY <1>1, <1>2, <2>2 DEF Doomed
  <2> QED BY <2>1, <2>2
<1> QED BY <1>1, <1>3, <1>4 DEF VersionsOK, Guarded

LEMMA AddFinalizerFins ==
  ASSUME TypeOK, ObjectsOK, HoldersOK, FinsInv, NEW w \in Workers,
         AddFinalizer(w)
  PROVE  FinsInv'
<1>1. /\ pc[w] = "addFin" /\ Patches(w) /\ Key(w)' = Key(w)
      /\ pc'[w] \in {"getVm", "map"}
  <2>1. Patches(w)
    BY WorkPatches
  <2> QED BY <2>1, PlaceTypes DEF AddFinalizer, Goto, TypeOK, Key
<1>2. PICK s \in Sandboxes : s = Key(w)
  BY <1>1 DEF TypeOK, JobOK, Busy
<1>3. PICK o : Stores(s, o) /\ WorkEdit(w, o)
  BY <1>1, <1>2 DEF Patches
<1>4. Guarded(o) /\ Stored(o) = o
  BY <1>1, <1>3 DEF WorkEdit, AddedFins, Guarded, Stored
<1>5. /\ \A r \in Sandboxes \ {s} : Same(r)
      /\ Guarded(api'[s])
      /\ Same(s) \/ Adds(s, o)
  BY <1>1, <1>3, <1>4, StoresOne DEF Patches
<1>6. VersionsOK(s) /\ ~Drops(s)
  BY <1>1, <1>2 DEF FinsInv, HoldsFins, Deleting
<1>7. VersionsOK(s)' /\ ~Drops(s)'
  <2>1. CASE Same(s)
    BY <1>6, <2>1, SameCalm, NarrowsOK DEF Calm
  <2>2. CASE Adds(s, o) /\ ~Guarded(api[s])
    BY <1>4, <1>6, <2>2, AddsFins
  <2>3. CASE Adds(s, o) /\ Guarded(api[s])
    <3>1. o.del = api[s].del
      BY <1>2, <1>3 DEF WorkEdit, Real, Key
    <3>2. Calm(s)
      BY <1>4, <2>3, <3>1, FollowsCalm DEF Follows
    <3> QED BY <1>6, <3>2, NarrowsOK DEF Calm
  <2> QED BY <1>5, <2>1, <2>2, <2>3
<1>8. HoldsFins(w)'
  <2>1. PICK p \in {"getVm", "map"} : p = pc'[w]
    BY <1>1
  <2>2. HoldsAt(s, p)'
    BY <1>5, <1>7 DEF HoldsAt, Deleting, Guarded
  <2> QED BY <1>1, <1>2, <2>1, <2>2, HoldsPrimed
<1>9. FinalizerGuardsVM'
  BY <1>5, GuardsFrame DEF FinsInv, Same
<1>10. \A r \in Sandboxes : Calm(r) \/ (r = s /\ VersionsOK(r)')
  BY <1>5, <1>7, SameCalm
<1> QED BY <1>1, <1>2, <1>8, <1>9, <1>10, FinsOthers, OthersStay DEF Work

LEMMA ReleaseFins ==
  ASSUME TypeOK, ObjectsOK, HoldersOK, FinsInv, NEW w \in Workers, Release(w)
  PROVE  FinsInv'
<1>1. pc[w] = "release" /\ Patches(w) /\ pc'[w] = "idle"
  <2>1. Patches(w)
    BY WorkPatches
  <2> QED BY <2>1 DEF Release, End, TypeOK
<1>2. PICK s \in Sandboxes : s = Key(w)
  BY <1>1 DEF TypeOK, JobOK, Busy
<1>3. PICK o : Stores(s, o) /\ WorkEdit(w, o)
  BY <1>1, <1>2 DEF Patches
<1>4. ~Guarded(o)
  BY <1>1, <1>3 DEF WorkEdit, RemovedFins, Guarded
<1>5. ~Guarded(Stored(o))
  BY <1>4, StoredFields
<1>6. /\ \A r \in Sandboxes \ {s} : Same(r)
      /\ api'[s] = Stored(o)
      /\ Same(s) \/ Adds(s, Stored(o))
  BY <1>1, <1>3, StoresOne DEF Patches
<1>7. VersionsOK(s) /\ ~Rises(s) /\ Doomed(s)
  BY <1>1, <1>2 DEF FinsInv, HoldsFins, Deleting
<1>8. VersionsOK(s)'
  <2>1. CASE Same(s)
    BY <1>7, <2>1, SameCalm, NarrowsOK DEF Calm
  <2>2. CASE Adds(s, Stored(o))
    BY <1>5, <1>7, <2>2, RemovesFins
  <2> QED BY <1>6, <2>1, <2>2
<1>9. ASSUME api'[s].exists, api'[s].id # None, ~api'[s].del PROVE FALSE
  <2>1. Stored(o) = o
    BY <1>6, <1>9, StoredFields
  <2>2. /\ api[s].exists /\ api[s].id # None /\ ~api[s].del
    BY <1>1, <1>2, <1>3, <1>6, <1>9, <2>1 DEF WorkEdit, Real, Key, Patches
  <2>3. Guarded(api[s])
    BY <2>2 DEF FinsInv, FinalizerGuardsVM, Guarded
  <2>4. PICK n \in Nat : n = Last(s) /\ Nth(s, n) = api[s] /\ n \in 0..n
    BY NewestVersion
  <2> QED BY <1>7, <2>2, <2>3, <2>4 DEF Doomed
<1>10. FinalizerGuardsVM'
  BY <1>6, <1>9, GuardsFrame DEF FinsInv, Same
<1>11. HoldsFins(w)'
  BY <1>1, LeavesHolds DEF Leaves
<1>12. \A r \in Sandboxes : Calm(r) \/ (r = s /\ VersionsOK(r)')
  BY <1>6, <1>8, SameCalm
<1> QED BY <1>1, <1>2, <1>10, <1>11, <1>12, FinsOthers, OthersStay DEF Work

LEMMA WorkFins ==
  ASSUME TypeOK, ObjectsOK, HoldersOK, FinsInv, NEW w \in Workers,
         Work(w) \/ Fault(w)
  PROVE  FinsInv'
<1>1. CASE AddFinalizer(w)
  BY <1>1, AddFinalizerFins
<1>2. CASE Release(w)
  BY <1>2, ReleaseFins
<1>3. ASSUME \A s \in Sandboxes : Calm(s), FinalizerGuardsVM', ~AddFinalizer(w)
      PROVE  FinsInv'
  BY <1>3, OwnHolds, FinsOthers, OthersStay
<1>4. CASE UNCHANGED <<api, watch, cache>> /\ ~Writing(w)
  <2>1. \A s \in Sandboxes : Calm(s)
    BY <1>4, SameCalm DEF Same
  <2>2. FinalizerGuardsVM'
    BY <1>4 DEF FinsInv, FinalizerGuardsVM
  <2> QED BY <1>3, <1>4, <2>1, <2>2 DEF Writing
<1>5. CASE Writing(w) /\ Patches(w) /\ ~AddFinalizer(w) /\ ~Release(w)
  <2>1. pc[w] \in ApiCalls \ {"addFin", "release"}
    BY <1>5 DEF Writing, AnnotateStatus, PatchStatus, AnnotatePorts,
       AnnotateSecret, PatchId, CondProvisioning, CondError, PatchCondition,
       ApiCalls
  <2>2. PICK s \in Sandboxes : s = Key(w)
    BY <2>1 DEF TypeOK, JobOK, Busy, ApiCalls
  <2>3. PICK o : Stores(s, o) /\ WorkEdit(w, o)
    BY <1>5, <2>2 DEF Patches
  <2>4. /\ o.fins = api[s].fins /\ o.del = api[s].del
        /\ pc[w] # "patchId" => o.id = api[s].id
    BY <2>1, <2>2, <2>3 DEF WorkEdit, Real, Key
  <2>5. \A r \in Sandboxes : Calm(r)
    BY <1>5, <2>3, <2>4, StoredCalm DEF Patches, Guarded
  <2>6. /\ \A r \in Sandboxes \ {s} : api'[r] = api[r]
        /\ api'[s] = Stored(o)
    BY <1>5, <2>3, StoresOne DEF Patches, Same
  <2>7. ASSUME api'[s].exists, api'[s].id # None, ~api'[s].del
        PROVE  Guarded(api'[s])
    <3>1. Stored(o) = o
      BY <2>6, <2>7, StoredFields
    <3>2. CASE pc[w] = "patchId"
      <4>1. Guarded(api[s])
        BY <2>2, <3>2 DEF FinsInv, HoldsFins, Deleting, Real, Key
      <4> QED BY <2>4, <2>6, <3>1, <4>1 DEF Guarded
    <3>3. CASE pc[w] # "patchId"
      <4>1. api[s].exists /\ api[s].id # None /\ ~api[s].del
        BY <1>5, <2>2, <2>4, <2>6, <2>7, <3>1, <3>3 DEF Patches, Real, Key
      <4> QED BY <2>4, <2>6, <3>1, <4>1 DEF FinsInv, FinalizerGuardsVM, Guarded
    <3> QED BY <3>2, <3>3
  <2>8. FinalizerGuardsVM'
    BY <2>6, <2>7, GuardsFrame DEF FinsInv
  <2> QED BY <1>3, <1>5, <2>5, <2>8
<1> QED BY <1>1, <1>2, <1>4, <1>5, WorkWrites

-----------------------------------------------------------------------------
(* The finalizer: the other steps. *)

LEMMA FinsStill ==
  ASSUME TypeOK, HoldersOK, FinsInv, \A s \in Sandboxes : Calm(s),
         UNCHANGED jobVars, FinalizerGuardsVM'
  PROVE  FinsInv'
<1>1. ASSUME NEW w \in Workers PROVE FinsInv'
  <2>1. HoldsFins(w)'
    <3>1. CASE pc[w] = "idle"
      BY <3>1 DEF HoldsFins, Deleting, jobVars
    <3>2. CASE pc[w] # "idle"
      <4>1. PICK s \in Sandboxes : s = Key(w)
        BY <3>2 DEF TypeOK, JobOK, Busy
      <4>2. PICK p : p = pc[w]
        OBVIOUS
      <4>3. HoldsAt(s, p)
        BY <4>1, <4>2, HoldsFact DEF FinsInv
      <4>4. HoldsAt(s, p)'
        BY <4>3, CalmHolds
      <4>5. Key(w)' = s /\ pc'[w] = p
        BY <4>1, <4>2 DEF Key, jobVars
      <4> QED BY <4>4, <4>5, HoldsPrimed
    <3> QED BY <3>1, <3>2
  <2>2. \A x \in Workers \ {w} : pc'[x] = pc[x] /\ job'[x] = job[x]
    BY DEF jobVars
  <2> QED BY <2>1, <2>2, FinsOthers
<1>2. \A s \in Sandboxes : VersionsOK(s)'
  BY NarrowsOK DEF Calm, FinsInv
<1> QED BY <1>1, <1>2 DEF FinsInv

LEMMA UserFins ==
  ASSUME TypeOK, ObjectsOK, HoldersOK, FinsInv, NEW s \in Sandboxes, User(s)
  PROVE  FinsInv'
<1>1. /\ UNCHANGED <<cache, wq, pc, job, vm, asm, owner, blame>>
      /\ \E o : Stores(s, o) /\ UserEdit(s, o)
  BY UserEdits
<1>2. PICK o : Stores(s, o) /\ UserEdit(s, o)
  BY <1>1
<1>3. \A r \in Sandboxes : Calm(r)
  BY <1>1, <1>2, StoredCalm DEF UserEdit
<1>4. /\ \A r \in Sandboxes \ {s} : api'[r] = api[r]
      /\ api'[s] = Stored(o)
  BY <1>1, <1>2, StoresOne DEF Same
<1>5. ASSUME api'[s].exists, api'[s].id # None, ~api'[s].del
      PROVE  Guarded(api'[s])
  <2>1. Stored(o) = o
    BY <1>4, <1>5, StoredFields
  <2>2. api[s].id # None /\ ~api[s].del
    BY <1>2, <1>4, <1>5, <2>1 DEF UserEdit
  <2>3. api[s].exists
    BY <2>2, AbsentType DEF ObjectsOK
  <2>4. Guarded(api[s])
    BY <2>2, <2>3 DEF FinsInv, FinalizerGuardsVM, Guarded
  <2> QED BY <1>2, <1>4, <2>1, <2>4 DEF UserEdit
<1>6. FinalizerGuardsVM'
  BY <1>4, <1>5, GuardsFrame DEF FinsInv
<1> QED BY <1>1, <1>3, <1>6, FinsStill DEF jobVars

LEMMA InformerFins ==
  ASSUME TypeOK, ObjectsOK, HoldersOK, FinsInv, NEW s \in Sandboxes, Informer(s)
  PROVE  FinsInv'
<1>1. UNCHANGED api /\ UNCHANGED jobVars
  BY DEF Informer, Deliver, Fire, Resync, k8sVars
<1>2. \A r \in Sandboxes : Same(r) \/ Delivers(r)
  <2>1. CASE Deliver(s)
    BY <2>1 DEF Deliver, Delivers, Same, TypeOK
  <2>2. CASE Fire(s) \/ Resync(s)
    BY <2>2 DEF Fire, Resync, Same, k8sVars
  <2> QED BY <2>1, <2>2 DEF Informer
<1>3. \A r \in Sandboxes : Calm(r)
  BY <1>2, SameCalm, DeliversCalm
<1>4. FinalizerGuardsVM'
  BY <1>1 DEF FinsInv, FinalizerGuardsVM
<1> QED BY <1>1, <1>3, <1>4, FinsStill

LEMMA RestartFins ==
  ASSUME TypeOK, ObjectsOK, FinsInv, Restart PROVE FinsInv'
<1>1. \A s \in Sandboxes : Relists(s)
  BY DEF Restart, Relists
<1>2. \A s \in Sandboxes : VersionsOK(s)'
  BY <1>1, RelistsCalm, NarrowsOK DEF Calm, FinsInv
<1>3. \A w \in Workers : HoldsFins(w)'
  BY LeavesHolds DEF Leaves, Restart
<1>4. FinalizerGuardsVM'
  BY DEF FinsInv, FinalizerGuardsVM, Restart
<1> QED BY <1>2, <1>3, <1>4 DEF FinsInv

LEMMA UnchangedFins ==
  ASSUME TypeOK, HoldersOK, FinsInv, UNCHANGED <<k8sVars, cache, jobVars>>
  PROVE  FinsInv'
<1>1. \A s \in Sandboxes : Calm(s)
  BY SameCalm DEF Same, k8sVars
<1>2. FinalizerGuardsVM'
  BY DEF FinsInv, FinalizerGuardsVM, k8sVars
<1> QED BY <1>1, <1>2, FinsStill

LEMMA FinsInit == Init => FinsInv
<1> SUFFICES ASSUME Init PROVE FinsInv
  OBVIOUS
<1>1. ASSUME NEW s \in Sandboxes PROVE VersionsOK(s)
  <2>1. Last(s) = 0 /\ \A i, j \in 0..0 : ~(i < j)
    BY DEF Init, Last
  <2> QED BY <2>1 DEF VersionsOK, Drops
<1>2. ASSUME NEW w \in Workers PROVE HoldsFins(w)
  BY DEF Init, HoldsFins, Deleting
<1>3. FinalizerGuardsVM
  BY AbsentType DEF Init, FinalizerGuardsVM
<1> QED BY <1>1, <1>2, <1>3 DEF FinsInv

LEMMA FinsNext ==
  TypeOK /\ ObjectsOK /\ HoldersOK /\ FinsInv /\ [Next]_vars => FinsInv'
<1> SUFFICES ASSUME TypeOK, ObjectsOK, HoldersOK, FinsInv, [Next]_vars
             PROVE  FinsInv'
  OBVIOUS
<1>1. CASE \E w \in Workers : Work(w) \/ Fault(w)
  BY <1>1, WorkFins
<1>2. CASE \E s \in Sandboxes : Informer(s) \/ User(s)
  BY <1>2, InformerFins, UserFins
<1>3. CASE (\E v \in VMs : Service(v)) \/ UNCHANGED vars
  <2>1. UNCHANGED <<k8sVars, cache, jobVars>>
    BY <1>3 DEF Service, VmProgress, VmDrift, vars, k8sVars, jobVars, ctlVars
  <2> QED BY <2>1, UnchangedFins
<1>4. CASE Restart
  BY <1>4, RestartFins
<1> QED BY <1>1, <1>2, <1>3, <1>4 DEF Next

\* Nothing that is still on its way to the cache, and no object a worker has
\* in its hands, can cost an object the finalizer it still needs.
THEOREM FinalizerSurvives == Spec => []FinsInv
<1>1. IInv => TypeOK /\ ObjectsOK /\ HoldersOK
  BY DEF IInv
<1> QED BY <1>1, Invariance, FinsInit, FinsNext, PTL DEF Spec

\* An object that records a MicroVM and is not being deleted carries the
\* finalizer: patchFinalizers replaces the whole list with one computed from
\* an object that may be old, and yet never strips it.
THEOREM FinalizerGuards == Spec => []FinalizerGuardsVM
BY FinalizerSurvives, PTL DEF FinsInv

-----------------------------------------------------------------------------
(* What a step does to the objects as the API server has them. *)

\* A patch of a worker on the object it holds, an edit of somebody else, or
\* nothing.
LEMMA StepEdits ==
  ASSUME TypeOK, ObjectsOK, [Next]_vars
  PROVE  \/ api' = api
         \/ \E w \in Workers, s \in Sandboxes : \E o :
              /\ (Work(w) \/ Fault(w)) /\ Writing(w) /\ Patches(w)
              /\ s = Key(w) /\ WorkEdit(w, o)
              /\ api'[s] = Stored(o) /\ \A r \in Sandboxes \ {s} : api'[r] = api[r]
         \/ \E s \in Sandboxes : \E o :
              /\ UserEdit(s, o)
              /\ api'[s] = Stored(o) /\ \A r \in Sandboxes \ {s} : api'[r] = api[r]
<1>1. ASSUME NEW w \in Workers, Work(w) \/ Fault(w), api' # api
      PROVE  \E s \in Sandboxes : \E o :
               /\ Writing(w) /\ Patches(w) /\ s = Key(w) /\ WorkEdit(w, o)
               /\ api'[s] = Stored(o) /\ \A r \in Sandboxes \ {s} : api'[r] = api[r]
  <2>1. Writing(w) /\ Patches(w)
    BY <1>1, WorkWrites
  <2>2. PICK s \in Sandboxes : s = Key(w)
    BY <2>1 DEF Patches, TypeOK, JobOK, Busy, ApiCalls
  <2>3. PICK o : Stores(s, o) /\ WorkEdit(w, o)
    BY <2>1, <2>2 DEF Patches
  <2>4. api'[s] = Stored(o) /\ \A r \in Sandboxes \ {s} : api'[r] = api[r]
    BY <2>1, <2>3, StoresOne DEF Patches, Same
  <2> QED BY <2>1, <2>2, <2>3, <2>4
<1>2. ASSUME NEW s \in Sandboxes, User(s)
      PROVE  \E o : /\ UserEdit(s, o) /\ api'[s] = Stored(o)
                    /\ \A r \in Sandboxes \ {s} : api'[r] = api[r]
  <2>1. PICK o : Stores(s, o) /\ UserEdit(s, o)
    BY <1>2, UserEdits
  <2>2. cache' = cache
    BY <1>2, UserEdits
  <2> QED BY <2>1, <2>2, StoresOne DEF Same
<1>3. CASE \E w \in Workers : Work(w) \/ Fault(w)
  BY <1>1, <1>3
<1>4. CASE \E s \in Sandboxes : User(s)
  BY <1>2, <1>4
<1>5. CASE (\E s \in Sandboxes : Informer(s)) \/ (\E v \in VMs : Service(v))
           \/ Restart \/ UNCHANGED vars
  BY <1>5 DEF Informer, Deliver, Fire, Resync, Service, VmProgress, VmDrift,
     Restart, vars, k8sVars
<1> QED BY <1>3, <1>4, <1>5 DEF Next

-----------------------------------------------------------------------------
(* The finalizer goes when the MicroVM has ended. *)

LEMMA ReleaseAfterEnd ==
  ASSUME IInv, [Next]_vars, NEW s \in Sandboxes,
         Guarded(api[s]), ~Guarded(api'[s])
  PROVE  api[s].id = None \/ vm[api[s].id] \in Dead \/ Blamed({"staleRead"})
<1>1. /\ TypeOK /\ ObjectsOK /\ IdsOK
      /\ Blamed({"staleRead"}) \/ \A w \in Workers : KnownOK(w)
  BY DEF IInv
<1>2. ASSUME NEW o, api'[s] = Stored(o) PROVE ~Guarded(o)
  BY <1>2, StoredFields DEF Guarded
<1>3. PICK w \in Workers : Writing(w) /\ s = Key(w) /\ \E o : WorkEdit(w, o) /\ ~Guarded(o)
  BY <1>1, <1>2, StepEdits DEF UserEdit
<1>4. pc[w] = "release"
  <2>1. PICK o : WorkEdit(w, o) /\ ~Guarded(o)
    BY <1>3
  <2> QED BY <1>3, <2>1 DEF WorkEdit, Real, Key, AddedFins, Guarded
<1>5. ASSUME KnownOK(w), api[s].id # None PROVE vm[api[s].id] \in Dead
  <2>1. vm[api[s].id] \notin Live
    BY <1>3, <1>4, <1>5 DEF KnownOK, Deleting, Real, Key
  <2>2. vm[api[s].id] # "UNUSED" /\ vm[api[s].id] \in VmStates
    BY <1>1, <1>5 DEF IdsOK, TypeOK, Sandbox
  <2> QED BY <2>1, <2>2 DEF Live
<1> QED BY <1>1, <1>5

\* The finalizer is taken off an object only when the MicroVM it records has
\* ended (terminateMicrovm comes before patchFinalizers), except by a
\* reconcile of an old object.
THEOREM ReleaseIsLast == Spec => TerminatedBeforeRelease
<1>1. IInv /\ [Next]_vars =>
        [\A s \in Sandboxes :
           Ours \in api[s].fins /\ Ours \notin api'[s].fins =>
             \/ api[s].id = None \/ vm[api[s].id] \in Dead
             \/ Blamed({"staleRead"})]_vars
  BY ReleaseAfterEnd DEF Guarded
<1> QED BY <1>1, Invariance, PTL DEF Spec, TerminatedBeforeRelease

-----------------------------------------------------------------------------
(* What is published has a MicroVM. *)

LEMMA StatusNext ==
  IInv /\ StatusHasVm /\ [Next]_vars => StatusHasVm'
<1> SUFFICES ASSUME IInv, StatusHasVm, [Next]_vars, ~Blamed({"staleRead"})',
                    NEW s \in Sandboxes, Reports(api'[s])
             PROVE  api'[s].id # None
  BY DEF StatusHasVm, Reports
<1>1. ~Blamed({"staleRead"})
  BY BlameGrows DEF Blamed
<1>2. TypeOK /\ ObjectsOK /\ \A w \in Workers : KnownOK(w)
  BY <1>1 DEF IInv
<1>3. Reports(api[s]) => api[s].id # None
  BY <1>1 DEF StatusHasVm, Reports
<1>4. CASE api'[s] = api[s]
  BY <1>3, <1>4
<1>5. ASSUME NEW w \in Workers, NEW o, Writing(w), Patches(w), s = Key(w),
             WorkEdit(w, o), api'[s] = Stored(o)
      PROVE  api'[s].id # None
  <2>1. Stored(o) = o
    BY <1>5, StoredFields
  <2>2. Reports(o)
    BY <1>5, <2>1
  <2>3. CASE pc[w] = "patchId"
    <3>1. o.id = job[w].id /\ job[w].id \in VMs
      BY <1>2, <1>5, <2>3 DEF WorkEdit, TypeOK, JobOK
    <3> QED BY <1>5, <2>1, <3>1, NoneAssumption
  <2>4. CASE pc[w] \in {"annStatus", "status"}
    <3>1. Real(w).id # None
      BY <1>2, <2>4 DEF KnownOK, Reporting
    <3> QED BY <1>5, <2>1, <2>4, <3>1 DEF WorkEdit
  <2>5. CASE Reports(Real(w)) /\ pc[w] # "patchId"
    BY <1>3, <1>5, <2>1, <2>5 DEF WorkEdit, Real, Key
  <2> QED BY <1>5, <2>2, <2>3, <2>4, <2>5 DEF WorkEdit
<1>6. ASSUME NEW o, UserEdit(s, o), api'[s] = Stored(o)
      PROVE  api'[s].id # None
  <2>1. Stored(o) = o
    BY <1>6, StoredFields
  <2> QED BY <1>3, <1>6, <2>1 DEF UserEdit
<1> QED BY <1>2, <1>4, <1>5, <1>6, StepEdits

\* What writeStatus publishes, it publishes of a MicroVM the object records,
\* however Sandboxes of the same name come and go: only a reconcile of an old
\* object can do otherwise.
THEOREM StatusIsOfVm == Spec => []StatusHasVm
<1>1. Init => StatusHasVm
  BY AbsentFields DEF Init, StatusHasVm, Reports
<1> QED BY <1>1, StatusNext, Invariance, PTL DEF Spec

-----------------------------------------------------------------------------
(* The session secret. *)

SecretCauses == {"staleRead", "lostSecret", "asmDelete"}

\* A worker that is about to name the secret of its object.
Claimed(s) == \E w \in Workers : Key(w) = s /\ Naming(w)

\* No secret is stored for an object that names none and is in the hands of a
\* worker that is not about to name it.
LEMMA NoSecret ==
  ASSUME HoldersOK, SecretsOK, NEW w \in Workers,
         pc[w] # "idle", ~Naming(w), ~Real(w).sec
  PROVE  Key(w) \notin asm
<1> SUFFICES ASSUME Key(w) \in asm PROVE FALSE
  OBVIOUS
<1>1. PICK x \in Workers : Key(x) = Key(w) /\ Naming(x)
  BY DEF SecretsOK, Real, Key
<1>2. x = w
  BY <1>1 DEF HoldersOK, Busy, Naming
<1> QED BY <1>1, <1>2

\* The parts of SecretsOK, one Sandbox and one worker at a time.
Named(s) == s \in asm => Guarded(api[s]) /\ (api[s].sec \/ Claimed(s))
Mindful(w) ==
  /\ pc[w] \in Deleting => (Seen(w).sec <=> Real(w).sec)
  /\ pc[w] = "release" => Key(w) \notin asm

LEMMA SecretParts ==
  ASSUME TypeOK
  PROVE  SecretsOK <=> (\A s \in Sandboxes : Named(s)) /\ \A w \in Workers : Mindful(w)
BY DEF TypeOK, SecretsOK, Named, Mindful, Claimed

LEMMA SecretsWhole ==
  ASSUME TypeOK', \A s \in Sandboxes : Named(s)', \A w \in Workers : Mindful(w)'
  PROVE  SecretsOK'
<1>1. asm' \subseteq Sandboxes
  BY DEF TypeOK
<1> QED BY <1>1 DEF SecretsOK, Named, Mindful, Claimed

\* What a step does to the stored secrets.
LEMMA StoredSecrets ==
  ASSUME TypeOK, NEW w \in Workers, Work(w) \/ Fault(w)
  PROVE  \/ asm' = asm /\ ~PutSecret(w) /\ ~DeleteSecret(w)
         \/ /\ PutSecret(w) /\ asm' \in {asm, asm \cup {Key(w)}}
            /\ pc'[w] \in {"updateSecret", "annSecret"}
         \/ DeleteSecret(w) /\ asm' = asm \ {Key(w)}
<1>1. CASE PutSecret(w) \/ DeleteSecret(w)
  BY <1>1 DEF PutSecret, CreateSecret, CreateLost, UpdateSecret, DeleteSecret,
     Goto, TypeOK, awsVars
<1>2. CASE ~PutSecret(w) /\ ~DeleteSecret(w)
  BY <1>2 DEF Work, Fault, Get, ReadNothing, ReadDeletion, ReadLive, Take,
     Terminate, Release, AddFinalizer, GetMicrovm, Suspend, Resume, Switch,
     AnnotateStatus, PatchStatus, MapSandbox, AnnotatePorts, AnnotateSecret,
     ColdRun, WarmAdopt, Obtain, PatchId, CondProvisioning, CondError,
     PatchCondition, Rejected, RunLost, CallFails, awsVars
<1> QED BY <1>1, <1>2

\* A worker that was about to name the secret has, or the loss is on record.
LEMMA NamingEnds ==
  ASSUME TypeOK, NEW w \in Workers, Work(w) \/ Fault(w), Naming(w),
         Key(w) \in asm
  PROVE  \/ AnnotateSecret(w)
         \/ Naming(w)' /\ Key(w)' = Key(w)
         \/ Blamed(SecretCauses)'
<1>1. CASE CallFails(w) \/ (Rejected(w) /\ pc[w] = "annSecret")
  <2>1. "lostSecret" \in blame'
    BY <1>1 DEF Rejected, CallFails, Loss, Naming
  <2> QED BY <2>1 DEF Blamed, SecretCauses
<1>2. CASE Rejected(w) /\ pc[w] = "updateSecret"
  BY <1>2 DEF Rejected, Accepted
<1>3. CASE UpdateSecret(w)
  BY <1>3 DEF UpdateSecret, Goto, Naming, Key, TypeOK
<1>4. CASE ~(\/ Rejected(w) \/ CallFails(w) \/ AnnotateSecret(w)
             \/ UpdateSecret(w))
  BY <1>4 DEF Naming, Work, Fault, Get, ReadNothing, ReadDeletion, ReadLive,
     Terminate, DeleteSecret, Release, AddFinalizer, GetMicrovm, Suspend,
     Resume, Switch, AnnotateStatus, PatchStatus, MapSandbox, AnnotatePorts,
     PutSecret, CreateSecret, CreateLost, ColdRun, WarmAdopt, Obtain, Issue,
     RunLost, PatchId, CondProvisioning, CondError, PatchCondition
<1>5. CASE Rejected(w)
  BY <1>1, <1>2, <1>5 DEF Naming
<1>6. CASE AnnotateSecret(w)
  BY <1>6
<1>7. CASE CallFails(w)
  BY <1>1, <1>7
<1> QED BY <1>3, <1>4, <1>5, <1>6, <1>7

\* A worker that has just patched its object is not deleting it.
LEMMA WritingMoves ==
  ASSUME TypeOK, NEW w \in Workers, Writing(w)
  PROVE  pc'[w] \notin Deleting /\ ~PutSecret(w) /\ ~DeleteSecret(w)
<1>1. CASE \/ Release(w) \/ PatchStatus(w) \/ CondProvisioning(w) \/ CondError(w)
  BY <1>1 DEF Release, PatchStatus, CondProvisioning, CondError,
     PatchCondition, End, TypeOK, Deleting, PutSecret, CreateSecret, CreateLost, UpdateSecret, DeleteSecret
<1>2. CASE AddFinalizer(w)
  <2>1. pc[w] = "addFin" /\ pc'[w] = AfterFinalizer(Seen(w))
    BY <1>2 DEF AddFinalizer, Goto, TypeOK
  <2> QED BY <2>1, PlaceTypes DEF Deleting, PutSecret, CreateSecret, CreateLost, UpdateSecret, DeleteSecret
<1>3. CASE AnnotatePorts(w)
  <2>1. pc[w] = "ports" /\ pc'[w] = AfterPorts(Key(w))
    BY <1>3 DEF AnnotatePorts, Goto, TypeOK
  <2> QED BY <2>1, PlaceTypes DEF Deleting, PutSecret, CreateSecret, CreateLost, UpdateSecret, DeleteSecret
<1>4. CASE AnnotateStatus(w) \/ AnnotateSecret(w) \/ PatchId(w)
  BY <1>4 DEF AnnotateStatus, AnnotateSecret, PatchId, Goto, TypeOK, Deleting,
     PutSecret, CreateSecret, CreateLost, UpdateSecret, DeleteSecret
<1> QED BY <1>1, <1>2, <1>3, <1>4 DEF Writing

\* Where a deletion goes on, by the place it comes from.
LEMMA DeletingMoves ==
  ASSUME TypeOK, NEW w \in Workers, Work(w) \/ Fault(w), pc'[w] \in Deleting
  PROVE  \/ ReadDeletion(w) \/ Terminate(w) \/ DeleteSecret(w)
         \/ Blamed(SecretCauses)'
<1>1. CASE Rejected(w) \/ CallFails(w)
  <2>1. pc[w] # "idle" /\ OnError(w)
    BY <1>1 DEF Rejected, CallFails, Busy, ApiCalls, AwsCalls
  <2>2. pc[w] = "delSecret"
    BY <2>1, OnErrorMoves DEF Deleting
  <2>3. "asmDelete" \in blame'
    BY <1>1, <2>2 DEF Rejected, CallFails, Loss
  <2> QED BY <2>3 DEF Blamed, SecretCauses
<1>2. CASE ReadLive(w)
  <2>1. pc'[w] = IF Ours \in cache[Key(w)].fins
                   THEN AfterFinalizer(cache[Key(w)]) ELSE "addFin"
    BY <1>2 DEF ReadLive, Take, TypeOK
  <2> QED BY <2>1, PlaceTypes DEF Deleting
<1>3. CASE \/ Get(w) \/ ReadNothing(w) \/ Writing(w)
           \/ GetMicrovm(w) \/ Suspend(w) \/ Resume(w)
  <2>1. CASE Writing(w)
    BY <2>1, WritingMoves
  <2>2. CASE GetMicrovm(w) \/ Suspend(w) \/ Resume(w)
    BY <2>2 DEF GetMicrovm, Suspend, Resume, Switch, Deleting, TypeOK
  <2>3. CASE Get(w) \/ ReadNothing(w)
    BY <2>3 DEF Get, ReadNothing, End, Deleting, TypeOK
  <2> QED BY <1>3, <2>1, <2>2, <2>3
<1>4. CASE \/ MapSandbox(w) \/ PutSecret(w)
           \/ ColdRun(w) \/ WarmAdopt(w) \/ RunLost(w)
  <2>1. CASE MapSandbox(w) \/ PutSecret(w) \/ RunLost(w)
    BY <2>1, PlaceTypes DEF MapSandbox, PutSecret, CreateSecret, CreateLost, UpdateSecret, RunLost, Goto, Deleting, TypeOK
  <2>2. CASE ColdRun(w) \/ WarmAdopt(w)
    BY <2>2 DEF ColdRun, WarmAdopt, Obtain, Deleting, TypeOK
  <2> QED BY <1>4, <2>1, <2>2
<1>5. CASE ReadDeletion(w) \/ Terminate(w) \/ DeleteSecret(w)
  BY <1>5
<1> QED BY <1>1, <1>2, <1>3, <1>4, <1>5 DEF Work, Fault, Writing

\* A worker that deletes knows whether there is a secret, and has deleted it
\* before it lets go of the object.
LEMMA MindfulOwn ==
  ASSUME TypeOK, ObjectsOK, HoldersOK, SecretsOK, NEW w \in Workers,
         Work(w) \/ Fault(w), ~Blamed(SecretCauses)'
  PROVE  Mindful(w)'
<1>1. CASE pc'[w] \notin Deleting
  BY <1>1 DEF Mindful, Deleting
<1>2. CASE ReadDeletion(w)
  <2>1. watch[Key(w)] = <<>>
    BY <1>2 DEF ReadDeletion, Take, Blamed, SecretCauses
  <2>2. Key(w) \in Sandboxes
    BY <1>2 DEF ReadDeletion, TypeOK, JobOK, Busy
  <2>3. cache[Key(w)] = Real(w)
    BY <2>1, <2>2 DEF ObjectsOK, Real, Key
  <2>4. /\ Key(w)' = Key(w) /\ Seen(w)' = cache[Key(w)] /\ Real(w)' = Real(w)
        /\ asm' = asm /\ pc[w] = "read"
        /\ pc'[w] = "release" => ~cache[Key(w)].sec
    BY <1>2 DEF ReadDeletion, Take, TypeOK, Key, Seen, Real, k8sVars, awsVars
  <2>5. pc'[w] = "release" => Key(w) \notin asm
    BY <2>3, <2>4, NoSecret DEF Naming
  <2> QED BY <2>3, <2>4, <2>5 DEF Mindful
<1>3. CASE Terminate(w)
  <2>1. /\ Key(w)' = Key(w) /\ Seen(w)' = Seen(w) /\ Real(w)' = Real(w)
        /\ asm' = asm /\ pc[w] = "terminate"
        /\ pc'[w] = "release" => ~Seen(w).sec
    BY <1>3 DEF Terminate, Goto, TypeOK, Key, Seen, Real, k8sVars
  <2>2. Seen(w).sec <=> Real(w).sec
    BY <2>1 DEF SecretsOK, Deleting
  <2>3. pc'[w] = "release" => Key(w) \notin asm
    BY <2>1, <2>2, NoSecret DEF Naming
  <2> QED BY <2>1, <2>2, <2>3 DEF Mindful
<1>4. CASE DeleteSecret(w)
  <2>1. /\ Key(w)' = Key(w) /\ Seen(w)' = Seen(w) /\ Real(w)' = Real(w)
        /\ asm' = asm \ {Key(w)} /\ pc[w] = "delSecret"
    BY <1>4 DEF DeleteSecret, Goto, Key, Seen, Real, k8sVars
  <2>2. Seen(w).sec <=> Real(w).sec
    BY <2>1 DEF SecretsOK, Deleting
  <2> QED BY <2>1, <2>2 DEF Mindful
<1> QED BY <1>1, <1>2, <1>3, <1>4, DeletingMoves

LEMMA MindfulOthers ==
  ASSUME TypeOK, HoldersOK, SecretsOK, NEW w \in Workers, Work(w) \/ Fault(w),
         \A r \in Sandboxes : r # Key(w) => api'[r] = api[r],
         pc[w] = "idle" => api' = api /\ asm' = asm,
         NEW x \in Workers \ {w}
  PROVE  Mindful(x)'
<1>1. /\ pc'[x] = pc[x] /\ Key(x)' = Key(x) /\ Seen(x)' = Seen(x)
      /\ Real(x)' = api'[Key(x)] /\ Real(x) = api[Key(x)]
  BY OthersStay DEF Key, Seen, Real
<1>2. CASE pc[x] = "idle"
  BY <1>1, <1>2 DEF Mindful, Deleting
<1>3. CASE pc[x] # "idle"
  <2>1. Key(x) \in Sandboxes
    BY <1>3 DEF TypeOK, JobOK, Busy
  <2>2. pc[w] # "idle" => Key(x) # Key(w)
    BY <1>3 DEF HoldersOK, Busy
  <2>3. Real(x)' = Real(x)
    BY <1>1, <2>1, <2>2
  <2>4. Key(x) \in asm' => Key(x) \in asm
    BY <2>2, StoredSecrets
  <2>5. Mindful(x)
    BY SecretParts
  <2> QED BY <1>1, <2>3, <2>4, <2>5 DEF Mindful
<1> QED BY <1>2, <1>3

\* A worker's step leaves every stored secret named.
LEMMA NamedWork ==
  ASSUME TypeOK, HoldersOK, Aware, SecretsOK, NEW w \in Workers,
         Work(w) \/ Fault(w), ~Blamed(SecretCauses)', NEW s \in Sandboxes,
         \/ api'[s] = api[s] /\ ~(Writing(w) /\ s = Key(w))
         \/ /\ Writing(w) /\ s = Key(w)
            /\ \E o : WorkEdit(w, o) /\ api'[s] = Stored(o)
  PROVE  Named(s)'
<1> SUFFICES ASSUME s \in asm'
             PROVE  Guarded(api'[s]) /\ (api'[s].sec \/ Claimed(s)')
  BY DEF Named, Guarded
<1>1. CASE s \notin asm
  <2>1. PutSecret(w) /\ s = Key(w) /\ Naming(w)'
    BY <1>1, StoredSecrets DEF Naming
  <2>2. Key(w)' = Key(w) /\ pc[w] \in {"createSecret", "updateSecret"}
    BY <2>1 DEF PutSecret, CreateSecret, CreateLost, UpdateSecret, Goto, Key
  <2>3. Guarded(api[s])
    BY <2>1, <2>2 DEF Aware, KnownOK, Provisioning, Guarded, Real, Key
  <2>4. api'[s] = api[s]
    BY <2>1, WritingMoves
  <2> QED BY <2>1, <2>2, <2>3, <2>4 DEF Claimed
<1>2. CASE s \in asm
  <2>1. Guarded(api[s]) /\ (api[s].sec \/ Claimed(s))
    BY <1>2 DEF SecretsOK, Claimed
  <2>2. ASSUME Claimed(s), ~Claimed(s)' PROVE AnnotateSecret(w) /\ s = Key(w)
    <3>1. PICK x \in Workers : Key(x) = s /\ Naming(x)
      BY <2>2 DEF Claimed
    <3>2. x = w
      BY <2>2, <3>1, OthersStay DEF Claimed, Naming, Key
    <3>3. ~(Naming(w)' /\ Key(w)' = Key(w))
      BY <2>2, <3>1, <3>2 DEF Claimed
    <3> QED BY <1>2, <3>1, <3>2, <3>3, NamingEnds
  <2>3. CASE api'[s] = api[s] /\ ~(Writing(w) /\ s = Key(w))
    BY <2>1, <2>2, <2>3 DEF Writing
  <2>4. CASE Writing(w) /\ s = Key(w)
    <3>1. PICK o : WorkEdit(w, o) /\ api'[s] = Stored(o)
      BY <2>4
    <3>2. pc[w] # "release"
      BY <1>2, <2>4 DEF SecretsOK
    <3>3. Guarded(o)
      BY <2>1, <2>4, <3>1, <3>2 DEF WorkEdit, AddedFins, Guarded, Real, Key
    <3>4. Stored(o) = o
      BY <3>3 DEF Stored, Guarded
    <3>5. o.sec <=> api[s].sec \/ pc[w] = "annSecret"
      BY <2>4, <3>1 DEF WorkEdit, Real, Key
    <3>6. AnnotateSecret(w) => pc[w] = "annSecret"
      BY DEF AnnotateSecret
    <3> QED BY <2>1, <2>2, <3>1, <3>3, <3>4, <3>5, <3>6
  <2> QED BY <2>3, <2>4
<1> QED BY <1>1, <1>2

LEMMA SecretsWork ==
  ASSUME TypeOK, ObjectsOK, HoldersOK, Aware, SecretsOK, NEW w \in Workers,
         Work(w) \/ Fault(w), ~Blamed(SecretCauses)', TypeOK'
  PROVE  SecretsOK'
<1>1. CASE UNCHANGED <<api, watch, cache>> /\ ~Writing(w)
  <2>1. \A s \in Sandboxes : Named(s)'
    BY <1>1, NamedWork
  <2>2. pc[w] = "idle" => asm' = asm
    BY StoredSecrets DEF PutSecret, CreateSecret, CreateLost, UpdateSecret, DeleteSecret
  <2>3. \A x \in Workers : Mindful(x)'
    BY <1>1, <2>2, MindfulOthers, MindfulOwn
  <2> QED BY <2>1, <2>3, SecretsWhole
<1>2. CASE Writing(w) /\ Patches(w)
  <2>1. pc[w] # "idle"
    BY <1>2 DEF Patches, ApiCalls
  <2>2. PICK k \in Sandboxes : k = Key(w)
    BY <2>1 DEF TypeOK, JobOK, Busy
  <2>3. PICK o : Stores(k, o) /\ WorkEdit(w, o)
    BY <1>2, <2>2 DEF Patches
  <2>4. /\ api'[k] = Stored(o)
        /\ \A r \in Sandboxes \ {k} : api'[r] = api[r]
    BY <1>2, <2>3, StoresOne DEF Patches, Same
  <2>5. \A s \in Sandboxes : Named(s)'
    BY <1>2, <2>2, <2>3, <2>4, NamedWork
  <2>6. \A x \in Workers : Mindful(x)'
    BY <2>1, <2>2, <2>4, MindfulOthers, MindfulOwn
  <2> QED BY <2>5, <2>6, SecretsWhole
<1> QED BY <1>1, <1>2, WorkWrites

LEMMA SecretsUser ==
  ASSUME TypeOK, ObjectsOK, Aware, SecretsOK, NEW k \in Sandboxes, User(k)
  PROVE  SecretsOK'
<1>1. UNCHANGED <<pc, job, asm, cache>>
  BY UserEdits
<1>2. PICK o : Stores(k, o) /\ UserEdit(k, o)
  BY UserEdits
<1>3. api'[k] = Stored(o) /\ \A r \in Sandboxes \ {k} : api'[r] = api[r]
  BY <1>1, <1>2, StoresOne DEF Same
<1>4. ASSUME NEW r \in Sandboxes, Guarded(api[r])
      PROVE  Guarded(api'[r]) /\ (api'[r].sec <=> api[r].sec)
  <2>1. CASE r = k
    <3>1. Guarded(o)
      BY <1>2, <1>4, <2>1 DEF UserEdit
    <3>2. Stored(o) = o
      BY <3>1 DEF Stored, Guarded
    <3> QED BY <1>2, <1>3, <2>1, <3>1, <3>2 DEF UserEdit
  <2>2. CASE r # k
    BY <1>3, <1>4, <2>2
  <2> QED BY <2>1, <2>2
<1>5. ASSUME NEW s \in asm'
      PROVE  /\ Guarded(api'[s])
             /\ api'[s].sec \/ \E w \in Workers : Key(w)' = s /\ Naming(w)'
  <2>1. /\ s \in Sandboxes /\ Guarded(api[s])
        /\ api[s].sec \/ \E w \in Workers : Key(w) = s /\ Naming(w)
    BY <1>1, <1>5 DEF TypeOK, SecretsOK
  <2> QED BY <1>1, <1>4, <2>1 DEF Key, Naming
<1>6. ASSUME NEW w \in Workers PROVE Mindful(w)'
  <2>1. /\ pc'[w] = pc[w] /\ Key(w)' = Key(w) /\ Seen(w)' = Seen(w)
        /\ Real(w)' = api'[Key(w)] /\ Real(w) = api[Key(w)]
    BY <1>1 DEF Key, Seen, Real
  <2>2. Mindful(w)
    BY SecretParts
  <2>3. CASE pc[w] \in Deleting
    <3>1. Key(w) \in Sandboxes /\ Guarded(Real(w))
      BY <2>3 DEF Aware, KnownOK, TypeOK, JobOK, Busy, Deleting, Guarded
    <3>2. Real(w)'.sec <=> Real(w).sec
      BY <1>4, <2>1, <3>1
    <3> QED BY <1>1, <2>1, <2>2, <3>2 DEF Mindful
  <2>4. CASE pc[w] \notin Deleting
    BY <2>1, <2>4 DEF Mindful, Deleting
  <2> QED BY <2>3, <2>4
<1> QED BY <1>5, <1>6 DEF SecretsOK, Mindful, Guarded

LEMMA SecretsNext ==
  IInv /\ SecretsInv /\ [Next]_vars => SecretsInv'
<1> SUFFICES ASSUME IInv, SecretsInv, [Next]_vars, ~Blamed(SecretCauses)'
             PROVE  SecretsOK'
  BY DEF SecretsInv, SecretCauses
<1>1. ~Blamed(SecretCauses) /\ ~Blamed({"staleRead"})
  BY BlameGrows DEF Blamed, SecretCauses
<1>2. TypeOK /\ ObjectsOK /\ HoldersOK /\ Aware /\ SecretsOK /\ TypeOK'
  BY <1>1, TypeNext DEF IInv, Aware, SecretsInv, SecretCauses
<1>3. CASE \E w \in Workers : Work(w) \/ Fault(w)
  BY <1>2, <1>3, SecretsWork
<1>4. CASE \E s \in Sandboxes : User(s)
  BY <1>2, <1>4, SecretsUser
<1>5. CASE (\E s \in Sandboxes : Informer(s)) \/ (\E v \in VMs : Service(v))
           \/ UNCHANGED vars
  <2>1. UNCHANGED <<api, pc, job, asm>>
    BY <1>5 DEF Informer, Deliver, Fire, Resync, Service, VmProgress, VmDrift,
       vars, k8sVars, jobVars, awsVars
  <2> QED BY <1>2, <2>1 DEF SecretsOK, Key, Seen, Real, Guarded, Naming
<1>6. CASE Restart
  <2>1. UNCHANGED <<api, asm>> /\ \A w \in Workers : pc'[w] = "idle"
    BY <1>6 DEF Restart, awsVars
  <2>2. ASSUME NEW w \in Workers, Naming(w), Key(w) \in asm PROVE FALSE
    <3>1. "lostSecret" \in Loss(w)
      BY <2>2 DEF Loss, Naming
    <3>2. Loss(w) \subseteq blame'
      BY <1>6, <2>2 DEF Restart, Naming
    <3> QED BY <3>1, <3>2 DEF Blamed, SecretCauses
  <2> QED BY <1>2, <2>1, <2>2 DEF SecretsOK, Guarded, Deleting
<1> QED BY <1>3, <1>4, <1>5, <1>6 DEF Next

\* However passes, deletions and restarts interleave, a stored secret has an
\* object that carries the finalizer and names it, or is about to, and the
\* pass that deletes the object knows whether there is one: the inductive
\* invariant of the mirrored secrets, under the same three exceptions.
THEOREM SecretsAreNamed == Spec => []SecretsInv
<1>1. Init => SecretsInv
  BY DEF Init, SecretsInv, SecretsOK, Deleting
<1> QED BY <1>1, SecretsNext, Invariance, PTL DEF Spec

\* A session secret belongs to an object that names it and keeps the
\* finalizer, so that its deletion will remove the secret: only a reconcile
\* of an old object, a failure between its creation and its annotation, or a
\* failed delete-secret leaves one behind.
THEOREM SecretsHaveCauses == Spec => []SecretLeakCauses
<1>1. IInv /\ SecretsInv => SecretLeakCauses
  <2> SUFFICES ASSUME IInv, SecretsInv, NEW s \in asm,
                      ~Blamed(SecretCauses)
               PROVE  \/ api[s].exists /\ api[s].sec
                      \/ \E w \in Workers : Key(w) = s /\ Naming(w)
    BY DEF SecretLeakCauses, SecretCauses
  <2>1. s \in Sandboxes /\ Guarded(api[s])
    BY DEF IInv, TypeOK, SecretsInv, SecretsOK, SecretCauses
  <2>2. api[s].exists
    BY <2>1, AbsentFields DEF IInv, ObjectsOK
  <2> QED BY <2>2 DEF SecretsInv, SecretsOK, SecretCauses
<1> QED BY <1>1, SecretsAreNamed, Invariance, PTL


-----------------------------------------------------------------------------
(* The provider implements the life of a Sandbox. *)

\* What is known when nothing has been blamed.
Unblamed ==
  /\ TypeOK /\ ObjectsOK /\ HoldersOK /\ IdsOK
  /\ GuardOK /\ TrackedOK /\ \A w \in Workers : KnownOK(w)

LEMMA NotBlamed ==
  ASSUME IInv, [Next]_vars, ~Blamed({"staleRead", "lostId"})'
  PROVE  Unblamed /\ ~Blamed({"staleRead", "lostId"})
<1>1. ~Blamed({"staleRead", "lostId"}) /\ ~Blamed({"staleRead"})
  BY BlameGrows DEF Blamed
<1> QED BY <1>1 DEF IInv, Unblamed

\* What runs for a Sandbox is recorded, or in the hand of the worker on it.
LEMMA WhatRuns ==
  ASSUME Unblamed, NEW s \in Sandboxes, NEW v \in RunningFor(s)
  PROVE  /\ v \in VMs /\ v # None /\ vm[v] \in Live /\ owner[v] = s
         /\ \/ api[s].id = v
            \/ \E w \in Workers : pc[w] = "patchId" /\ job[w].id = v /\ Key(w) = s
<1>1. v \in VMs /\ v # None /\ vm[v] \in Live /\ owner[v] = s /\ s # None
  BY NoneAssumption DEF RunningFor
<1>2. api[s].id = v \/ InHand(v)
  BY <1>1 DEF Unblamed, TrackedOK
<1> QED BY <1>1, <1>2 DEF InHand, Unblamed, IdsOK

\* Nothing runs for an object without the finalizer.
LEMMA UnheldQuiet ==
  ASSUME Unblamed, NEW s \in Sandboxes, ~Guarded(api[s])
  PROVE  RunningFor(s) = {}
<1> SUFFICES ASSUME NEW v \in RunningFor(s) PROVE FALSE
  OBVIOUS
<1>1. CASE api[s].id = v
  BY <1>1, WhatRuns DEF Unblamed, GuardOK, Guarded
<1>2. ASSUME NEW w \in Workers, pc[w] = "patchId", Key(w) = s PROVE FALSE
  BY <1>2 DEF Unblamed, KnownOK, Provisioning, Real, Key, Guarded
<1> QED BY <1>1, <1>2, WhatRuns

\* For the object of a busy worker nothing runs but what the object records
\* and what this worker has in hand.
LEMMA OnlyMine ==
  ASSUME Unblamed, NEW w \in Workers, Busy(w), NEW s \in Sandboxes, s = Key(w),
         NEW v \in RunningFor(s)
  PROVE  api[s].id = v \/ (pc[w] = "patchId" /\ job[w].id = v)
<1>1. ASSUME NEW x \in Workers, pc[x] = "patchId", job[x].id = v, Key(x) = s
      PROVE  x = w
  BY <1>1 DEF Unblamed, HoldersOK, Busy
<1> QED BY <1>1, WhatRuns

\* A write to one object, as SandboxLife sees it.
LEMMA WriteBecomes ==
  ASSUME NEW s \in Sandboxes, \A r \in Sandboxes \ {s} : api'[r] = api[r],
         UNCHANGED <<vm, owner>>,
         NEW phase, phase = Phase(s)',
         NEW hold \in BOOLEAN, hold <=> Ours \in api'[s].fins, NEW id, id = api'[s].id
  PROVE  Life!Becomes(s, phase, hold, id)
<1>1. \A r \in Sandboxes \ {s} : Phase(r)' = Phase(r)
  BY DEF Phase
<1>2. \A r \in Sandboxes : RunningFor(r)' = RunningFor(r)
  BY DEF RunningFor
<1> QED BY <1>1, <1>2 DEF Life!Becomes

LEMMA WriteStutters ==
  ASSUME NEW s \in Sandboxes, \A r \in Sandboxes \ {s} : api'[r] = api[r],
         UNCHANGED <<vm, owner>>, Phase(s)' = Phase(s),
         Ours \in api'[s].fins <=> Ours \in api[s].fins,
         api'[s].id = api[s].id, UNCHANGED Blamed({"staleRead", "lostId"})
  PROVE  UNCHANGED Life!life
<1>1. \A r \in Sandboxes : Phase(r)' = Phase(r)
  BY DEF Phase
<1>2. \A r \in Sandboxes : RunningFor(r)' = RunningFor(r)
  BY DEF RunningFor
<1> QED BY <1>1, <1>2 DEF Life!life

\* A write that changes neither identifier nor finalizer.
LEMMA GentleLife ==
  ASSUME Unblamed, NEW s \in Sandboxes, \A r \in Sandboxes \ {s} : api'[r] = api[r],
         UNCHANGED <<vm, owner>>, UNCHANGED Blamed({"staleRead", "lostId"}),
         NEW o, api'[s] = Stored(o), o.exists, api[s].exists,
         o.id = api[s].id, Guarded(o) <=> Guarded(api[s]),
         api[s].del \in BOOLEAN, o.del \in BOOLEAN, api[s].del => o.del
  PROVE  UNCHANGED Life!life \/ Life!Step(s)
<1>1. CASE Stored(o) = Absent /\ o.fins = {}
  <2>1. RunningFor(s) = {} /\ ~Guarded(api[s])
    BY <1>1, UnheldQuiet DEF Guarded
  <2>2. Phase(s) # "none"
    BY DEF Phase
  <2>3. Phase(s)' = "none" /\ Ours \notin api'[s].fins /\ api'[s].id = None
    BY <1>1, AbsentFields, AbsentType DEF Phase
  <2>4. Life!Becomes(s, "none", FALSE, None)
    BY <2>3, WriteBecomes
  <2> QED BY <2>1, <2>2, <2>4
          DEF Life!Step, Life!Vanish, Life!Vanishes, Life!Quiet, Guarded
<1>2. CASE Stored(o) = o
  <2>1. CASE o.del <=> api[s].del
    <3>1. Phase(s)' = Phase(s)
      BY <1>2, <2>1 DEF Phase
    <3> QED BY <1>2, <3>1, WriteStutters DEF Guarded
  <2>2. CASE o.del /\ ~api[s].del
    <3>1. Phase(s) = "live" /\ Phase(s)' = "deleting"
      BY <1>2, <2>2 DEF Phase
    <3>2. PICK hold \in BOOLEAN : hold <=> Ours \in api[s].fins
      OBVIOUS
    <3>3. PICK id : id = api[s].id
      OBVIOUS
    <3>4. Life!Becomes(s, "deleting", hold, id)
      BY <1>2, <3>1, <3>2, <3>3, WriteBecomes DEF Guarded
    <3>5. Life!Delete(s)
      BY <3>1, <3>2, <3>3, <3>4 DEF Life!Delete, Life!Becomes
    <3> QED BY <3>5 DEF Life!Step
  <2> QED BY <2>1, <2>2
<1> QED BY <1>1, <1>2, StoredFields DEF Stored


\* The patch of a worker: it holds, releases or records, or is gentle.
LEMMA PatchLife ==
  ASSUME Unblamed, FinsInv, NEW w \in Workers, Patches(w),
         NEW s \in Sandboxes, s = Key(w), NEW o \in Sandbox, WorkEdit(w, o), o.exists,
         api'[s] = Stored(o), \A r \in Sandboxes \ {s} : api'[r] = api[r],
         UNCHANGED <<vm, owner>>, UNCHANGED Blamed({"staleRead", "lostId"})
  PROVE  UNCHANGED Life!life \/ Life!Step(s)
<1>1. /\ Real(w) = api[s] /\ api[s].exists /\ Accepted(w) /\ Busy(w)
      /\ KnownOK(w) /\ HoldsFins(w) /\ pc[w] \in ApiCalls
  BY DEF Patches, Real, Key, Unblamed, FinsInv, ApiCalls, Busy
<1>2. /\ api[s].del \in BOOLEAN /\ o.del \in BOOLEAN /\ o.del = api[s].del
      /\ api[s].id \in VMs \cup {None}
  BY <1>1 DEF Unblamed, TypeOK, Sandbox, WorkEdit
<1>3. Guarded(o) => Stored(o) = o
  BY StoredFields DEF Guarded
<1>4. ASSUME o.id = api[s].id, Guarded(o) <=> Guarded(api[s])
      PROVE  UNCHANGED Life!life \/ Life!Step(s)
  BY <1>1, <1>2, <1>4, GentleLife
<1>5. CASE pc[w] = "addFin"
  <2>1. Guarded(o) /\ o.id = api[s].id /\ Stored(o) = o /\ api[s].id = None
    BY <1>1, <1>3, <1>5 DEF WorkEdit, AddedFins, Guarded, KnownOK, Real, Key
  <2>2. CASE ~Guarded(api[s])
    <3>1. ~api[s].del
      BY <1>1, <1>5, <2>2 DEF Accepted, AddedFins, Guarded
    <3>2. Phase(s) = "live" /\ Phase(s)' = "live"
      BY <1>1, <1>2, <2>1, <3>1 DEF Phase
    <3>3. Life!Becomes(s, "live", TRUE, None)
      BY <2>1, <3>2, WriteBecomes DEF Guarded
    <3> QED BY <2>1, <2>2, <3>2, <3>3 DEF Life!Step, Life!Hold, Guarded
  <2> QED BY <1>4, <2>1, <2>2
<1>6. CASE pc[w] = "release"
  <2>1. ~Guarded(o) /\ o.id = api[s].id /\ Guarded(api[s])
    BY <1>1, <1>6 DEF WorkEdit, RemovedFins, Guarded, KnownOK, Deleting, Real, Key
  <2>2. api[s].del
    <3>1. PICK n \in Nat : n = Last(s) /\ Nth(s, n) = api[s] /\ n \in 0..n
      BY NewestVersion DEF Unblamed
    <3> QED BY <1>1, <1>6, <2>1, <3>1 DEF HoldsFins, Deleting, Doomed
  <2>3. Phase(s) = "deleting"
    BY <1>1, <2>2 DEF Phase
  <2>4. RunningFor(s) = {}
    <3> SUFFICES ASSUME NEW v \in RunningFor(s) PROVE FALSE
      OBVIOUS
    <3>1. api[s].id = v /\ v # None /\ vm[v] \in Live
      BY <1>1, <1>6, OnlyMine, WhatRuns
    <3> QED BY <1>1, <1>6, <3>1 DEF KnownOK, Deleting, Real, Key
  <2>5. CASE Stored(o) = o
    <3>1. Phase(s)' = "deleting"
      BY <1>2, <2>2, <2>5 DEF Phase
    <3>2. PICK id : id = api[s].id
      OBVIOUS
    <3>3. Life!Becomes(s, "deleting", FALSE, id)
      BY <2>1, <2>5, <3>1, <3>2, WriteBecomes DEF Guarded
    <3>4. Life!Release(s)
      BY <2>1, <2>3, <2>4, <3>2, <3>3
      DEF Life!Release, Life!Quiet, Life!Becomes, Guarded
    <3> QED BY <3>4 DEF Life!Step
  <2>6. CASE Stored(o) = Absent
    <3>1. Phase(s)' = "none" /\ Ours \notin api'[s].fins /\ api'[s].id = None
      BY <2>6, AbsentFields, AbsentType DEF Phase
    <3>2. Life!Becomes(s, "none", FALSE, None)
      BY <3>1, WriteBecomes
    <3> QED BY <2>1, <2>3, <2>4, <3>2
            DEF Life!Step, Life!Release, Life!Vanishes, Life!Quiet, Guarded
  <2> QED BY <2>5, <2>6 DEF Stored
<1>7. CASE pc[w] = "patchId"
  <2>1. PICK v \in VMs : v = job[w].id
    BY <1>7 DEF Unblamed, TypeOK, JobOK
  <2>2. api[s].id = None /\ Guarded(api[s])
    BY <1>1, <1>7 DEF KnownOK, Provisioning, Real, Key, Guarded
  <2>3. Guarded(o) /\ Stored(o) = o /\ o.id = v
    BY <1>1, <1>3, <1>7, <2>1, <2>2 DEF WorkEdit, Guarded
  <2>4. RunningFor(s) \subseteq {v}
    BY <1>1, <2>1, <2>2, OnlyMine, WhatRuns
  <2>5. \A r \in Sandboxes \ {s} : v \notin RunningFor(r)
    BY <1>7, <2>1 DEF RunningFor, Unblamed, IdsOK
  <2>6. PICK phase : phase = Phase(s)
    OBVIOUS
  <2>7. phase = Phase(s)' /\ phase # "none"
    BY <1>1, <1>2, <2>3, <2>6 DEF Phase
  <2>8. Life!Becomes(s, phase, TRUE, v)
    BY <2>3, <2>7, WriteBecomes DEF Guarded
  <2>9. Life!Record(s, v)
    BY <2>2, <2>4, <2>5, <2>6, <2>7, <2>8 DEF Life!Record, Life!Free, Guarded
  <2> QED BY <2>1, <2>9 DEF Life!Step
<1>8. CASE pc[w] \notin {"addFin", "release", "patchId"}
  BY <1>1, <1>4, <1>8 DEF WorkEdit, Guarded
<1> QED BY <1>5, <1>6, <1>7, <1>8

\* The edit of a user: Create is a creation, the others are gentle.
LEMMA UserLife ==
  ASSUME Unblamed, NEW s \in Sandboxes, User(s)
  PROVE  UNCHANGED Life!life \/ Life!Step(s)
<1>1. /\ UNCHANGED <<cache, vm, owner, blame>>
      /\ TypeOK /\ ObjectsOK
  BY UserEdits DEF Unblamed
<1>2. PICK o : Stores(s, o) /\ UserEdit(s, o)
  BY <1>1, UserEdits
<1>3. /\ api'[s] = Stored(o) /\ \A r \in Sandboxes \ {s} : api'[r] = api[r]
      /\ o \in Sandbox /\ o.exists /\ o.del \in BOOLEAN /\ api[s].del \in BOOLEAN
  <2>1. api'[s] = Stored(o) /\ \A r \in Sandboxes \ {s} : api'[r] = api[r]
    BY <1>1, <1>2, StoresOne DEF Same
  <2>2. o \in Sandbox /\ o.exists /\ api[s] \in Sandbox
    BY <1>1, <1>2 DEF Stores, TypeOK
  <2>3. o.del \in BOOLEAN /\ api[s].del \in BOOLEAN
    BY <2>2 DEF Sandbox
  <2> QED BY <2>1, <2>2, <2>3
<1>4. CASE api[s].exists
  BY <1>1, <1>2, <1>3, <1>4, GentleLife DEF UserEdit, Blamed
<1>5. CASE ~api[s].exists
  <2>1. api[s] = Absent
    BY <1>1, <1>5 DEF ObjectsOK
  <2>2. Create(s)
    BY <1>5, <2>1, AbsentFields DEF User, Delete, SetMode, ClaimAdopt, AddOther,
       RemoveOther, Absent
  <2>3. PICK label \in BOOLEAN : api'[s] = Stored(Fresh(label))
    BY <1>1, <2>2 DEF Create, Edit, Write, Version, TypeOK
  <2>4. api'[s] = Fresh(label) /\ api'[s].exists /\ ~api'[s].del
    BY <2>3 DEF Stored, Fresh, Absent
  <2>5. api'[s].id = None /\ Ours \notin api'[s].fins
    BY <2>4, FreshFields, AbsentFields DEF Alters
  <2>6. Phase(s) = "none" /\ Phase(s)' = "live"
    BY <1>5, <2>4 DEF Phase
  <2>7. Life!Becomes(s, "live", FALSE, None)
    BY <1>1, <1>3, <2>5, <2>6, WriteBecomes
  <2>8. RunningFor(s) = {}
    BY <2>1, AbsentFields, UnheldQuiet
  <2> QED BY <2>6, <2>7, <2>8 DEF Life!Step, Life!Create, Life!Quiet
<1> QED BY <1>4, <1>5


\* Steps that write to no object change one MicroVM at most.
Touches(v) ==
  /\ vm[v] # "UNUSED" /\ UNCHANGED <<api, owner>>
  /\ \A x \in VMs \ {v} : vm'[x] = vm[x]

LEMMA StepVms ==
  ASSUME TypeOK, [Next]_vars
  PROVE  \/ \E w \in Workers : Writing(w) /\ (Work(w) \/ Fault(w))
         \/ \E s \in Sandboxes : User(s)
         \/ UNCHANGED <<api, vm, owner>>
         \/ \E v \in VMs : Touches(v)
         \/ \E w \in Workers, v \in VMs, st \in Live : Obtain(w, v, st)
         \/ "lostId" \in blame'
<1>1. ASSUME NEW w \in Workers, Work(w) \/ Fault(w), ~Writing(w)
      PROVE  \/ UNCHANGED <<api, vm, owner>>
             \/ \E v \in VMs : Touches(v)
             \/ \E v \in VMs, st \in Live : Obtain(w, v, st)
             \/ "lostId" \in blame'
  <2>1. CASE ColdRun(w) \/ WarmAdopt(w)
    <3>1. WarmStates \subseteq Live /\ "PENDING" \in Live
      BY SubsetAssumption DEF Live, Dead, VmStates
    <3> QED BY <2>1, <3>1 DEF ColdRun, WarmAdopt
  <2>2. CASE RunLost(w)
    BY <2>2 DEF RunLost
  <2>3. CASE Terminate(w) \/ Suspend(w) \/ Resume(w)
    <3>1. PICK v \in VMs : v = Seen(w).id
      BY <2>3 DEF Terminate, Suspend, Resume, Switch, TypeOK, JobOK
    <3>2. /\ UNCHANGED <<api, owner>>
          /\ \A x \in VMs \ {v} : vm'[x] = vm[x]
      BY <2>3, <3>1 DEF Terminate, Suspend, Resume, Switch, k8sVars, TypeOK
    <3>3. vm[v] = "UNUSED" => vm' = vm
      BY <2>3, <3>1 DEF Terminate, Terminated, Live, Suspend, Resume, Switch,
         Accepted, ApiCalls, TypeOK
    <3> QED BY <3>2, <3>3 DEF Touches
  <2>4. CASE ~ColdRun(w) /\ ~WarmAdopt(w) /\ ~RunLost(w) /\ ~Terminate(w)
             /\ ~Suspend(w) /\ ~Resume(w)
    <3>1. api' = api
      BY <1>1, WorkWrites
    <3>2. UNCHANGED <<vm, owner>>
      BY <1>1, <2>4 DEF Work, Fault, Writing, Get, ReadNothing, ReadDeletion,
         ReadLive, Take, DeleteSecret, GetMicrovm, MapSandbox, PutSecret, CreateSecret, CreateLost, UpdateSecret,
         Rejected, CallFails, awsVars
    <3> QED BY <3>1, <3>2
  <2> QED BY <2>1, <2>2, <2>3, <2>4
<1>2. ASSUME NEW v \in VMs, Service(v)
      PROVE  Touches(v)
  <2>1. UNCHANGED <<api, owner>> /\ \A x \in VMs \ {v} : vm'[x] = vm[x]
    BY <1>2 DEF Service, VmProgress, VmDrift, k8sVars, TypeOK
  <2>2. vm[v] # "UNUSED"
    BY <1>2 DEF Service, VmProgress, VmDrift, Progress, Drift
  <2> QED BY <2>1, <2>2 DEF Touches
<1>3. CASE (\E s \in Sandboxes : Informer(s)) \/ Restart \/ UNCHANGED vars
  BY <1>3 DEF Informer, Deliver, Fire, Resync, Restart, vars, k8sVars, awsVars
<1> QED BY <1>1, <1>2, <1>3 DEF Next

\* The MicroVM that changes ends, or is as alive as it was.
LEMMA TouchLife ==
  ASSUME TypeOK, NEW v \in VMs, Touches(v), VmKeeps(v),
         UNCHANGED Blamed({"staleRead", "lostId"})
  PROVE  UNCHANGED Life!life \/ \E s \in Sandboxes : Life!Step(s)
<1>1. \A r \in Sandboxes : Phase(r)' = Phase(r) /\ api'[r] = api[r]
  BY DEF Phase, Touches
<1>2. CASE (vm'[v] \in Live <=> vm[v] \in Live) \/ owner[v] \notin Sandboxes
  <2>1. \A r \in Sandboxes : RunningFor(r)' = RunningFor(r)
    BY <1>2 DEF RunningFor, Touches
  <2> QED BY <1>1, <2>1 DEF Life!life
<1>3. CASE vm[v] \in Live /\ vm'[v] \notin Live /\ owner[v] \in Sandboxes
  <2>1. PICK s \in Sandboxes : s = owner[v]
    BY <1>3
  <2>2. v \in RunningFor(s) /\ RunningFor(s)' = RunningFor(s) \ {v}
    BY <1>3, <2>1 DEF RunningFor, Touches
  <2>3. \A r \in Sandboxes \ {s} : RunningFor(r)' = RunningFor(r)
    BY <2>1 DEF RunningFor, Touches
  <2>4. Life!End(s, v)
    BY <1>1, <2>2, <2>3 DEF Life!End, Life!Runs
  <2> QED BY <2>4 DEF Life!Step
<1> QED BY <1>2, <1>3 DEF VmKeeps, Touches

\* A worker obtains a MicroVM for an object for which nothing runs.
LEMMA ObtainLife ==
  ASSUME Unblamed, NEW w \in Workers, NEW v \in VMs, NEW st \in Live,
         Obtain(w, v, st)
  PROVE  \E s \in Sandboxes : Life!Step(s)
<1>1. /\ pc[w] = "provision" /\ vm[v] = "UNUSED" /\ api' = api
      /\ vm' = [vm EXCEPT ![v] = st] /\ owner' = [owner EXCEPT ![v] = Key(w)]
      /\ TypeOK /\ KnownOK(w) /\ Busy(w)
  BY DEF Obtain, Issue, k8sVars, Unblamed, Busy
<1>2. PICK s \in Sandboxes : s = Key(w)
  BY <1>1 DEF TypeOK, JobOK
<1>3. api[s].id = None /\ Ours \in api[s].fins
  BY <1>1, <1>2 DEF KnownOK, Provisioning, Real, Key
<1>4. Phase(s) # "none"
  <2>1. api[s].exists
    BY <1>2, <1>3, AbsentFields DEF Unblamed, ObjectsOK, Guarded
  <2> QED BY <2>1 DEF Phase
<1>5. RunningFor(s) = {}
  <2>1. ASSUME NEW x \in RunningFor(s) PROVE FALSE
    BY <1>1, <1>2, <1>3, <2>1, OnlyMine, WhatRuns
  <2> QED BY <2>1
<1>6. \A r \in Sandboxes : v \notin RunningFor(r)
  BY <1>1 DEF RunningFor, Live
<1>7. /\ vm'[v] \in Live /\ owner'[v] = s
      /\ \A x \in VMs \ {v} : vm'[x] = vm[x] /\ owner'[x] = owner[x]
  BY <1>1, <1>2 DEF TypeOK
<1>8. RunningFor(s)' = {v}
  BY <1>5, <1>7 DEF RunningFor
<1>9. \A r \in Sandboxes \ {s} : RunningFor(r)' = RunningFor(r)
  BY <1>6, <1>7 DEF RunningFor
<1>10. \A r \in Sandboxes : Phase(r)' = Phase(r) /\ api'[r] = api[r]
  BY <1>1 DEF Phase
<1>11. Life!Runs(s, {v})
  BY <1>8, <1>9, <1>10 DEF Life!Runs
<1>12. Life!Obtain(s, v)
  BY <1>3, <1>4, <1>5, <1>6, <1>11 DEF Life!Obtain, Life!Quiet, Life!Free
<1> QED BY <1>12 DEF Life!Step

LEMMA LifeInit == Init => Life!Init
<1> SUFFICES ASSUME Init PROVE Life!Init
  OBVIOUS
<1>1. \A s \in Sandboxes : Phase(s) = "none" /\ api[s].id = None /\ Ours \notin api[s].fins
  BY AbsentFields, AbsentType DEF Init, Phase, Guarded
<1>2. \A s \in Sandboxes : RunningFor(s) = {}
  BY DEF Init, RunningFor, Live
<1>3. Blamed({"staleRead", "lostId"}) = FALSE
  BY DEF Init, Blamed
<1>4. [s \in Sandboxes |-> Ours \in api[s].fins] = [s \in Sandboxes |-> FALSE]
  <2>1. \A s \in Sandboxes : (Ours \in api[s].fins) = FALSE
    BY <1>1
  <2> QED BY <2>1, Zenon
<1>5. [s \in Sandboxes |-> RunningFor(s)] = [s \in Sandboxes |-> {}]
  BY <1>2
<1>6. [s \in Sandboxes |-> Phase(s)] = [s \in Sandboxes |-> "none"]
  BY <1>1
<1>7. [s \in Sandboxes |-> api[s].id] = [s \in Sandboxes |-> None]
  BY <1>1
<1> QED BY <1>3, <1>4, <1>5, <1>6, <1>7 DEF Life!Init

LEMMA LifeNext == IInv /\ FinsInv /\ [Next]_vars => [Life!Next]_Life!life
<1> SUFFICES ASSUME IInv, FinsInv, [Next]_vars, ~Blamed({"staleRead", "lostId"})'
             PROVE  UNCHANGED Life!life \/ Life!Next
  BY DEF Life!Next
<1>1. Unblamed /\ UNCHANGED Blamed({"staleRead", "lostId"}) /\ TypeOK /\ ObjectsOK
  <2>1. Unblamed /\ ~Blamed({"staleRead", "lostId"})
    BY NotBlamed
  <2>2. UNCHANGED Blamed({"staleRead", "lostId"})
    BY <2>1 DEF Blamed
  <2> QED BY <2>1, <2>2 DEF Unblamed
<1>2. ASSUME \E s \in Sandboxes : Life!Step(s) PROVE Life!Next
  BY <1>1, <1>2 DEF Life!Next
<1>3. ASSUME NEW w \in Workers, Writing(w), Work(w) \/ Fault(w)
      PROVE  UNCHANGED Life!life \/ \E s \in Sandboxes : Life!Step(s)
  <2>1. Patches(w)
    BY <1>1, <1>3, WorkPatches DEF Writing
  <2>2. PICK s \in Sandboxes : s = Key(w)
    BY <1>1, <2>1 DEF Patches, TypeOK, JobOK, Busy, ApiCalls
  <2>3. PICK o : Stores(s, o) /\ WorkEdit(w, o)
    BY <2>1, <2>2 DEF Patches
  <2>4. /\ api'[s] = Stored(o) /\ \A r \in Sandboxes \ {s} : api'[r] = api[r]
        /\ o \in Sandbox /\ o.exists
    BY <1>1, <2>1, <2>3, StoresOne DEF Patches, Same, Stores
  <2>5. UNCHANGED <<vm, owner>>
    BY <1>3 DEF Writing, AddFinalizer, AnnotateStatus, PatchStatus,
       AnnotatePorts, AnnotateSecret, Release, PatchId, CondProvisioning,
       CondError, PatchCondition, awsVars
  <2> QED BY <1>1, <2>1, <2>2, <2>3, <2>4, <2>5, PatchLife
<1>4. ASSUME NEW s \in Sandboxes, User(s)
      PROVE  UNCHANGED Life!life \/ Life!Step(s)
  BY <1>1, <1>4, UserLife
<1>5. CASE UNCHANGED <<api, vm, owner>>
  <2>1. \A r \in Sandboxes : Phase(r)' = Phase(r) /\ RunningFor(r)' = RunningFor(r)
    BY <1>5 DEF Phase, RunningFor
  <2> QED BY <1>1, <1>5, <2>1 DEF Life!life
<1>6. ASSUME NEW v \in VMs, Touches(v)
      PROVE  UNCHANGED Life!life \/ \E s \in Sandboxes : Life!Step(s)
  BY <1>1, <1>6, VmKeepsNext, TouchLife
<1>7. ASSUME NEW w \in Workers, NEW v \in VMs, NEW st \in Live, Obtain(w, v, st)
      PROVE  \E s \in Sandboxes : Life!Step(s)
  BY <1>1, <1>7, ObtainLife
<1>8. "lostId" \notin blame'
  BY DEF Blamed
<1> QED BY <1>1, <1>2, <1>3, <1>4, <1>5, <1>6, <1>7, <1>8, StepVms

\* As long as no reconcile has worked on an old object and no call has lost
\* an identifier, every step of the provider, its users and the service is a
\* step in the life of one Sandbox, or invisible, for any number of
\* Sandboxes, workers and MicroVMs.
THEOREM LifeIsImplemented == Spec => ImplementsLife
BY LifeInit, LifeNext, Invariance, FinalizerSurvives, PTL
DEF Spec, ImplementsLife, Life!Spec

(* What the life itself comes to. *)

LifeOf(s) ==
  /\ RunningFor(s) # {} => Phase(s) # "none" /\ Ours \in api[s].fins
  /\ \A v, u \in RunningFor(s) : v = u
  /\ api[s].id # None => RunningFor(s) \subseteq {api[s].id}
  /\ \A t \in Sandboxes \ {s} : RunningFor(s) \cap RunningFor(t) = {}

LifeInv == Blamed({"staleRead", "lostId"}) \/ \A s \in Sandboxes : LifeOf(s)

\* A write to the object of a Sandbox changes no other and no MicroVM.
LEMMA BecomesMeans ==
  ASSUME NEW s \in Sandboxes, NEW phase, NEW hold \in BOOLEAN, NEW id,
         Life!Becomes(s, phase, hold, id)
  PROVE  /\ Phase(s)' = phase /\ (Ours \in api'[s].fins <=> hold) /\ api'[s].id = id
         /\ \A r \in Sandboxes \ {s} : /\ Phase(r)' = Phase(r)
                                       /\ Ours \in api'[r].fins <=> Ours \in api[r].fins
                                       /\ api'[r].id = api[r].id
         /\ \A r \in Sandboxes : RunningFor(r)' = RunningFor(r)
<1>1. Phase(s)' = phase /\ \A r \in Sandboxes \ {s} : Phase(r)' = Phase(r)
  BY DEF Life!Becomes
<1>2. /\ (Ours \in api'[s].fins <=> hold)
      /\ \A r \in Sandboxes \ {s} : Ours \in api'[r].fins <=> Ours \in api[r].fins
  BY DEF Life!Becomes
<1>3. api'[s].id = id /\ \A r \in Sandboxes \ {s} : api'[r].id = api[r].id
  BY DEF Life!Becomes
<1>4. \A r \in Sandboxes : RunningFor(r)' = RunningFor(r)
  BY DEF Life!Becomes
<1> QED BY <1>1, <1>2, <1>3, <1>4

LEMMA RunsMeans ==
  ASSUME NEW s \in Sandboxes, NEW ids, Life!Runs(s, ids)
  PROVE  /\ RunningFor(s)' = ids
         /\ \A r \in Sandboxes \ {s} : RunningFor(r)' = RunningFor(r)
         /\ \A r \in Sandboxes : /\ Phase(r)' = Phase(r) /\ api'[r].id = api[r].id
                                 /\ Ours \in api'[r].fins <=> Ours \in api[r].fins
<1>1. RunningFor(s)' = ids /\ \A r \in Sandboxes \ {s} : RunningFor(r)' = RunningFor(r)
  BY DEF Life!Runs
<1>2. \A r \in Sandboxes : Phase(r)' = Phase(r)
  BY DEF Life!Runs
<1>3. \A r \in Sandboxes : api'[r].id = api[r].id
  BY DEF Life!Runs
<1>4. \A r \in Sandboxes : Ours \in api'[r].fins <=> Ours \in api[r].fins
  BY DEF Life!Runs
<1> QED BY <1>1, <1>2, <1>3, <1>4

\* A write that keeps a MicroVM's object and finalizer, and its identifier.
LEMMA WriteGuards ==
  ASSUME \A r \in Sandboxes : LifeOf(r), NEW s \in Sandboxes,
         NEW phase, NEW hold \in BOOLEAN, NEW id, Life!Becomes(s, phase, hold, id),
         RunningFor(s) # {} => phase # "none" /\ hold,
         id # None => RunningFor(s) \subseteq {id}
  PROVE  \A r \in Sandboxes : LifeOf(r)'
<1>1. /\ Phase(s)' = phase /\ (Ours \in api'[s].fins <=> hold) /\ api'[s].id = id
      /\ \A r \in Sandboxes \ {s} : /\ Phase(r)' = Phase(r)
                                    /\ Ours \in api'[r].fins <=> Ours \in api[r].fins
                                    /\ api'[r].id = api[r].id
      /\ \A r \in Sandboxes : RunningFor(r)' = RunningFor(r)
  BY BecomesMeans
<1> SUFFICES ASSUME NEW r \in Sandboxes PROVE LifeOf(r)'
  OBVIOUS
<1>2. LifeOf(r)
  OBVIOUS
<1>3. CASE r = s
  BY <1>1, <1>2, <1>3 DEF LifeOf
<1>4. CASE r # s
  BY <1>1, <1>2, <1>4 DEF LifeOf
<1> QED BY <1>3, <1>4

\* A change of what runs for one Sandbox.
LEMMA RunGuards ==
  ASSUME \A r \in Sandboxes : LifeOf(r), NEW s \in Sandboxes, NEW ids, Life!Runs(s, ids),
         ids # {} => Phase(s) # "none" /\ Ours \in api[s].fins,
         \A v, u \in ids : v = u,
         api[s].id # None => ids \subseteq {api[s].id},
         \A t \in Sandboxes \ {s} : ids \cap RunningFor(t) = {}
  PROVE  \A r \in Sandboxes : LifeOf(r)'
<1>1. /\ RunningFor(s)' = ids
      /\ \A r \in Sandboxes \ {s} : RunningFor(r)' = RunningFor(r)
      /\ \A r \in Sandboxes : /\ Phase(r)' = Phase(r) /\ api'[r].id = api[r].id
                              /\ Ours \in api'[r].fins <=> Ours \in api[r].fins
  BY RunsMeans
<1> SUFFICES ASSUME NEW r \in Sandboxes PROVE LifeOf(r)'
  OBVIOUS
<1>2. LifeOf(r) /\ LifeOf(s)
  OBVIOUS
<1>3. CASE r = s
  BY <1>1, <1>2, <1>3 DEF LifeOf
<1>4. CASE r # s
  BY <1>1, <1>2, <1>4 DEF LifeOf
<1> QED BY <1>3, <1>4

\* The abstract life is strong enough on its own: until it is excused, a
\* Sandbox runs one MicroVM at most, the one it names, shared with nobody,
\* and while that runs the object is there and held by the finalizer.
THEOREM LifeGuardsOneVm == Life!Spec => []Life!OneGuardedVm
<1>1. Life!Init => LifeInv
  BY DEF Life!Init, LifeInv, LifeOf
<1>2. LifeInv /\ [Life!Next]_Life!life => LifeInv'
  <2> SUFFICES ASSUME LifeInv, [Life!Next]_Life!life, ~Blamed({"staleRead", "lostId"})'
               PROVE  \A r \in Sandboxes : LifeOf(r)'
    BY DEF LifeInv
  <2>1. CASE UNCHANGED Life!life
    <3>1. \A r \in Sandboxes : /\ Phase(r)' = Phase(r) /\ RunningFor(r)' = RunningFor(r)
                               /\ api'[r].id = api[r].id
      BY <2>1 DEF Life!life
    <3>2. \A r \in Sandboxes : Ours \in api'[r].fins <=> Ours \in api[r].fins
      BY <2>1 DEF Life!life
    <3>3. ~Blamed({"staleRead", "lostId"})
      BY <2>1 DEF Life!life
    <3> QED BY <3>1, <3>2, <3>3 DEF LifeInv, LifeOf
  <2>2. CASE Life!Next
    <3>1. ~Blamed({"staleRead", "lostId"}) /\ \E s \in Sandboxes : Life!Step(s)
      BY <2>2 DEF Life!Next
    <3>2. \A r \in Sandboxes : LifeOf(r)
      BY <3>1 DEF LifeInv
    <3>3. PICK s \in Sandboxes : Life!Step(s)
      BY <3>1
    <3>4. PICK hold \in BOOLEAN : hold <=> Ours \in api[s].fins
      OBVIOUS
    <3>5. PICK phase, id : phase = Phase(s) /\ id = api[s].id
      OBVIOUS
    <3>6. LifeOf(s)
      BY <3>2
    <3>7. CASE Life!Create(s)
      <4>1. Life!Becomes(s, "live", FALSE, None) /\ RunningFor(s) = {}
        BY <3>7 DEF Life!Create, Life!Quiet
      <4> QED BY <3>2, <4>1, WriteGuards
    <3>8. CASE Life!Hold(s)
      <4>1. Life!Becomes(s, "live", TRUE, None)
        BY <3>8 DEF Life!Hold
      <4> QED BY <3>2, <4>1, WriteGuards
    <3>9. CASE Life!Delete(s)
      <4>1. Life!Becomes(s, "deleting", hold, id)
        BY <3>4, <3>5, <3>9 DEF Life!Delete, Life!Becomes
      <4>2. /\ RunningFor(s) # {} => "deleting" # "none" /\ hold
            /\ id # None => RunningFor(s) \subseteq {id}
        BY <3>4, <3>5, <3>6 DEF LifeOf
      <4> QED BY <3>2, <4>1, <4>2, WriteGuards
    <3>10. CASE Life!Release(s)
      <4>1. RunningFor(s) = {}
        BY <3>10 DEF Life!Release, Life!Quiet
      <4>2. Life!Becomes(s, "deleting", FALSE, id) \/ Life!Becomes(s, "none", FALSE, None)
        BY <3>5, <3>10 DEF Life!Release, Life!Vanishes, Life!Becomes
      <4> QED BY <3>2, <4>1, <4>2, WriteGuards
    <3>11. CASE Life!Vanish(s)
      <4>1. Life!Becomes(s, "none", FALSE, None) /\ RunningFor(s) = {}
        BY <3>11 DEF Life!Vanish, Life!Vanishes, Life!Quiet
      <4> QED BY <3>2, <4>1, WriteGuards
    <3>12. ASSUME NEW v \in VMs, Life!Obtain(s, v) PROVE \A r \in Sandboxes : LifeOf(r)'
      <4>1. /\ Phase(s) # "none" /\ Ours \in api[s].fins /\ api[s].id = None
            /\ \A t \in Sandboxes \ {s} : v \notin RunningFor(t)
            /\ Life!Runs(s, {v})
        BY <3>12 DEF Life!Obtain, Life!Free
      <4> QED BY <3>2, <4>1, RunGuards
    <3>13. ASSUME NEW v \in VMs, Life!Record(s, v) PROVE \A r \in Sandboxes : LifeOf(r)'
      <4>1. /\ Phase(s) # "none" /\ RunningFor(s) \subseteq {v}
            /\ Life!Becomes(s, phase, TRUE, v)
        BY <3>5, <3>13 DEF Life!Record
      <4> QED BY <3>2, <3>5, <4>1, WriteGuards
    <3>14. ASSUME NEW v \in VMs, Life!End(s, v) PROVE \A r \in Sandboxes : LifeOf(r)'
      <4>1. PICK ids : ids = RunningFor(s) \ {v}
        OBVIOUS
      <4>2. Life!Runs(s, ids)
        BY <3>14, <4>1 DEF Life!End
      <4>3. /\ ids # {} => Phase(s) # "none" /\ Ours \in api[s].fins
            /\ \A x, u \in ids : x = u
            /\ api[s].id # None => ids \subseteq {api[s].id}
            /\ \A t \in Sandboxes \ {s} : ids \cap RunningFor(t) = {}
        BY <3>6, <4>1 DEF LifeOf
      <4> QED BY <3>2, <4>2, <4>3, RunGuards
    <3> QED BY <3>3, <3>7, <3>8, <3>9, <3>10, <3>11, <3>12, <3>13, <3>14 DEF Life!Step
  <2> QED BY <2>1, <2>2
<1>3. LifeInv => Life!OneGuardedVm
  <2> SUFFICES ASSUME NEW s \in Sandboxes, LifeOf(s)
               PROVE  /\ RunningFor(s) # {} => Phase(s) # "none" /\ Ours \in api[s].fins
                      /\ \A v, u \in RunningFor(s) : v = u /\ api[s].id \in {None, v}
                      /\ \A t \in Sandboxes \ {s} : RunningFor(s) \cap RunningFor(t) = {}
    BY DEF LifeInv, Life!OneGuardedVm
  <2>1. \A v \in RunningFor(s) : api[s].id \in {None, v}
    BY DEF LifeOf
  <2> QED BY <2>1 DEF LifeOf
<1> QED BY <1>1, <1>2, <1>3, PTL DEF Life!Spec

\* So the provider, too, guards one MicroVM for each Sandbox until a
\* reconcile works on an old object or a call loses an identifier.
COROLLARY ProviderGuardsOneVm == Spec => []Life!OneGuardedVm
BY LifeIsImplemented, LifeGuardsOneVm DEF ImplementsLife
=============================================================================
