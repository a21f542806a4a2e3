--------------------------- MODULE SessionProofs ---------------------------
(***************************************************************************)
(* Proofs about Session: the types of its state, the baseline that         *)
(* snapBaseline picks, that no value of a Kubernetes Secret is in the      *)
(* payload of a MicroVM, what a mapped shutdownTime makes of the life of   *)
(* a MicroVM, and that a session has the environment its PodSpec declares. *)
(***************************************************************************)
EXTENDS Session, SequenceTheorems, TLAPS

-----------------------------------------------------------------------------
(* snapBaseline. *)

LEMMA Baselines == ValidBaselines = {512, 1024, 2048, 4096, 8192}
BY DEF ValidBaselines, ValidBaselinesMiB

\* For every request in MiB, the loop of snapBaseline returns a valid baseline: the
\* smallest that covers it, or the largest there is when none does.
THEOREM SnapBaselineFits ==
  ASSUME NEW mib \in Nat
  PROVE  /\ SnapBaseline(mib) \in ValidBaselines
         /\ mib <= SnapBaseline(mib) \/ SnapBaseline(mib) = 8192
         /\ \A c \in ValidBaselines : mib <= c => SnapBaseline(mib) <= c
<1> DEFINE List == ValidBaselinesMiB
           Turn(f) == [b \in 1..6 |->
                         IF b > 5 THEN List[5]
                         ELSE IF mib <= List[b] THEN List[b] ELSE f[b + 1]]
           loop == CHOOSE f : f = Turn(f)
           five == IF mib <= List[5] THEN List[5] ELSE List[5]
           four == IF mib <= List[4] THEN List[4] ELSE five
           three == IF mib <= List[3] THEN List[3] ELSE four
           two == IF mib <= List[2] THEN List[2] ELSE three
           one == IF mib <= List[1] THEN List[1] ELSE two
           known == [b \in 1..6 |->
                       CASE b = 1 -> one [] b = 2 -> two [] b = 3 -> three
                         [] b = 4 -> four [] b = 5 -> five [] OTHER -> List[5]]
<1>1. /\ Len(List) = 5
      /\ List[1] = 512 /\ List[2] = 1024 /\ List[3] = 2048
      /\ List[4] = 4096 /\ List[5] = 8192
  BY DEF ValidBaselinesMiB
<1>2. SnapBaseline(mib) = loop[1]
  BY <1>1 DEF SnapBaseline
<1>3. loop = Turn(loop)
  <2>1. \A b \in 1..6 : known[b] = Turn(known)[b]
    BY <1>1
  <2>2. known = Turn(known)
    BY <2>1
  <2> HIDE DEF known, Turn
  <2> QED BY <2>2
<1> HIDE DEF loop
<1>4. /\ loop[5] = five /\ loop[4] = four /\ loop[3] = three
      /\ loop[2] = two /\ loop[1] = one
  BY <1>3
<1> QED BY <1>1, <1>2, <1>4, Baselines

-----------------------------------------------------------------------------
(* Environments. *)

LEMMA EmptyType == Empty \in Env
BY DEF Empty, Env, Optional

LEMMA OverlayType ==
  ASSUME NEW under \in Env, NEW over \in Env
  PROVE  Overlay(under, over) \in Env
BY DEF Overlay, Env

LEMMA OverlayNoSecret ==
  ASSUME NEW under \in Env, NEW over \in Env, NoSecret(under), NoSecret(over)
  PROVE  NoSecret(Overlay(under, over))
BY DEF Overlay, Env, NoSecret

LEMMA EmptyNoSecret == NoSecret(Empty)
BY DEF NoSecret, Empty

LEMMA PlainType == Plain \in Values /\ Plain.from \notin Secrets
BY ObjectAssumption DEF Plain, Value, Values, Objects, Optional

\* An entry of envFrom or env is of the shape its type says.
LEMMA EntryShape ==
  ASSUME NEW d \in EnvFromEntries \cup EnvEntries
  PROVE  /\ d.type \in {"all", "key", "literal", "other"}
         /\ d.type = "all" => d.object \in Objects /\ d.prefix \in Prefixes
         /\ d.type = "key" => d.object \in Objects /\ d.name \in Names /\ d.key \in Keys
         /\ d.type = "literal" => d.name \in Names
BY DEF EnvFromEntries, EnvEntries, AllOf, KeyRef, Literal, Unsupported, Entry

\* The declarations of a spec are a sequence of such entries.
LEMMA DeclShape ==
  ASSUME NEW s \in Specs, NEW i \in 1..Len(Decls(s))
  PROVE  Decls(s)[i] \in EnvFromEntries \cup EnvEntries
<1>1. s.envFrom \in Seq(EnvFromEntries) /\ s.env \in Seq(EnvEntries)
  BY SpecsAssumption DEF SpecType
<1>2. /\ s.envFrom \in Seq(EnvFromEntries \cup EnvEntries)
      /\ s.env \in Seq(EnvFromEntries \cup EnvEntries)
  BY <1>1
<1>3. Decls(s) \in Seq(EnvFromEntries \cup EnvEntries)
  BY <1>2, ConcatProperties DEF Decls
<1> QED BY <1>3, ElementOfSeq

\* What an entry contributes comes from its object.
LEMMA ContentsType ==
  ASSUME NEW d \in EnvFromEntries \cup EnvEntries, d.type \in {"all", "key"},
         objs \in [Objects -> Nat]
  PROVE  /\ Contents(d) \in Env
         /\ d.object \notin Secrets => NoSecret(Contents(d))
<1>1. d.object \in Objects /\ objs[d.object] \in Nat
  BY EntryShape
<1>2. KeysOf[d.object] \subseteq Keys
  BY <1>1, DataAssumption
<1>3. \A k \in Optional(Keys) : /\ Value(d.object, k, objs[d.object]) \in Values
                                /\ Value(d.object, k, objs[d.object]).from = d.object
  BY <1>1 DEF Value, Values
<1>4. ASSUME NEW n \in Names
      PROVE  \/ Contents(d)[n] = None
             \/ \E k \in Optional(Keys) :
                  Contents(d)[n] = Value(d.object, k, objs[d.object])
  <2>1. CASE d.type = "all" /\ \E k \in KeysOf[d.object] : Prefixed[<<d.prefix, k>>] = n
    <3> DEFINE key == CHOOSE k \in KeysOf[d.object] : Prefixed[<<d.prefix, k>>] = n
    <3>1. key \in Optional(Keys)
      BY <2>1, <1>2 DEF Optional
    <3>2. Contents(d)[n] = Value(d.object, key, objs[d.object])
      BY <2>1 DEF Contents
    <3> HIDE DEF key
    <3> QED BY <3>1, <3>2
  <2>2. CASE d.type = "key" /\ d.name = n
    <3> DEFINE key == IF d.key \in KeysOf[d.object] THEN d.key ELSE None
    <3>1. key \in Optional(Keys)
      BY <1>2 DEF Optional
    <3>2. Contents(d)[n] = Value(d.object, key, objs[d.object])
      BY <2>2 DEF Contents
    <3> HIDE DEF key
    <3> QED BY <3>1, <3>2
  <2>3. CASE /\ ~(d.type = "all" /\ \E k \in KeysOf[d.object] : Prefixed[<<d.prefix, k>>] = n)
             /\ ~(d.type = "key" /\ d.name = n)
    BY <2>3 DEF Contents
  <2> QED BY <2>1, <2>2, <2>3
<1>5. Contents(d) = [n \in Names |-> Contents(d)[n]]
  BY DEF Contents
<1>6. \A n \in Names : Contents(d)[n] \in Optional(Values)
  BY <1>3, <1>4 DEF Optional
<1>7. Contents(d) \in Env
  BY <1>5, <1>6 DEF Env
<1>8. d.object \notin Secrets => NoSecret(Contents(d))
  BY <1>3, <1>4 DEF NoSecret
<1> QED BY <1>7, <1>8

-----------------------------------------------------------------------------
(* Types. *)

\* A list of secrets names the session secret only once that exists.
SessionPut ==
  asm = None => /\ pass.ids \in Seq(Ids)
                /\ \A v \in VMs : vm[v].ids \in Seq(Ids)

PassType ==
  [at : PassPlaces, i : Nat \ {0}, plain : Env, secret : Env,
   ids : Seq(Ids \cup {Session}), maxDur : Nat, memory : ValidBaselines,
   mapped : Nat, since : [Objects -> Nat], role : Optional(Roles),
   vm : Optional(VMs)]

VmType ==
  [at : {"unused", "fetch", "ready"}, launch : {"none", "cold", "warm"},
   image : Optional(Images), opts : Options, maxDur : Nat,
   role : Optional(Roles), plain : Env, ids : Seq(Ids \cup {Session}),
   fetched : Env, env : Env, born : Nat, mapped : Nat, since : [Objects -> Nat]]

TypeInv == TypeOK /\ SessionPut

LEMMA NoPassType == NoPass \in PassType /\ NoPass.ids \in Seq(Ids) /\ NoPass.vm = None
BY EmptyType, Baselines DEF NoPass, PassType, PassPlaces, Never, Optional

LEMMA NoVmType == NoVM \in VmType /\ NoVM.ids \in Seq(Ids)
<1>1. Defaults \in Options
  BY DEF Defaults, Options
<1> QED BY <1>1, EmptyType DEF NoVM, VmType, Never, Optional

LEMMA MaxDurationType ==
  ASSUME NEW s \in Specs, NEW now \in Nat
  PROVE  MaxDuration(s, now) \in Nat
<1>1. s.maxDur \in Optional(Nat) /\ s.shutdown \in Optional(Nat)
  BY SpecsAssumption DEF SpecType
<1>2. CASE s.maxDur # None
  BY <1>1, <1>2 DEF MaxDuration, Optional
<1>3. CASE s.maxDur = None /\ s.shutdown # None /\ s.shutdown >= now + Second
  <2>1. s.shutdown \in Nat /\ s.shutdown - now \in Nat
    BY <1>1, <1>3, ClockAssumption DEF Optional
  <2>2. (s.shutdown - now) \div Second \in Nat
    BY <2>1, ClockAssumption
  <2>3. \A secs \in Nat : Clamp(secs) \in Nat
    BY ClockAssumption DEF Clamp
  <2>4. MaxDuration(s, now) = Clamp((s.shutdown - now) \div Second)
    BY <1>3 DEF MaxDuration
  <2> QED BY <2>2, <2>3, <2>4
<1>4. CASE s.maxDur = None /\ ~(s.shutdown # None /\ s.shutdown >= now + Second)
  BY <1>4 DEF MaxDuration
<1> QED BY <1>2, <1>3, <1>4

LEMMA SpecFacts ==
  ASSUME NEW s \in Specs
  PROVE  /\ s.ids \in Seq(Ids) /\ s.opts \in Options
         /\ Image(s) \in Images
         /\ Role(s) \in Optional(Roles)
         /\ s.irsa \in Optional(Roles) /\ s.assoc \in Optional(Roles)
         /\ Memory(s) \in ValidBaselines
<1>1. s \in SpecType
  BY SpecsAssumption
<1>2. Image(s) \in Images
  BY <1>1, FlagAssumption DEF Image, SpecType, Optional
<1>3. Role(s) \in Optional(Roles)
  BY <1>1 DEF Role, SpecType, Optional
<1>4. Memory(s) \in ValidBaselines
  <2>1. CASE s.memory = None
    BY <2>1, Baselines DEF Memory
  <2>2. CASE s.memory # None
    <3>1. s.memory \in Nat
      BY <1>1, <2>2 DEF SpecType, Optional
    <3>2. s.memory \div 1024 \in Nat
      BY <3>1
    <3> QED BY <2>2, <3>2, SnapBaselineFits DEF Memory
  <2> QED BY <2>1, <2>2
<1> QED BY <1>1, <1>2, <1>3, <1>4 DEF SpecType

LEMMA LaunchedType ==
  ASSUME TypeOK
  PROVE  /\ Launched \in VmType
         /\ Launched.ids = pass.ids /\ Launched.plain = pass.plain
<1>1. NoVM \in VmType /\ pass \in PassType /\ clock \in Nat /\ spec \in Specs
  BY NoVmType, ClockAssumption DEF TypeOK, PassType
<1>2. Image(spec) \in Optional(Images) /\ spec.opts \in Options
  BY <1>1, SpecFacts DEF Optional
<1> QED BY <1>1, <1>2 DEF Launched, VmType, PassType, NoVM

LEMMA SeqIds == Seq(Ids) \subseteq Seq(Ids \cup {Session})
OBVIOUS

\* The two steps that change the pass and nothing else of what TypeInv reads.
LEMMA PassStepType ==
  ASSUME TypeInv, pass' \in PassType, pass'.ids \in Seq(Ids) \/ pass'.ids = pass.ids,
         UNCHANGED <<spec, objs, asm, clock, vm, id, blame>>,
         left' \in [edits : Nat, mishaps : Nat]
  PROVE  TypeInv'
BY DEF TypeInv, TypeOK, SessionPut, PassType

LEMMA VmStepType ==
  ASSUME TypeInv, NEW v \in VMs, NEW m \in VmType, vm' = [vm EXCEPT ![v] = m],
         m.ids \in Seq(Ids) \/ asm # None,
         UNCHANGED <<spec, objs, asm, clock, pass, id>>,
         blame' \subseteq {"lookup", "fetch"},
         left' \in [edits : Nat, mishaps : Nat]
  PROVE  TypeInv'
BY DEF TypeInv, TypeOK, SessionPut, VmType

LEMMA MishapType ==
  ASSUME TypeOK, Mishap \/ UNCHANGED left
  PROVE  left' \in [edits : Nat, mishaps : Nat]
BY DEF TypeOK, Mishap

\* mapSandbox.
LEMMA MappingType ==
  ASSUME TypeInv, Begin \/ ReadObject \/ ReadLiteral \/ Reject \/ Mapped
  PROVE  TypeInv'
<1>1. /\ pass \in PassType /\ spec \in Specs /\ clock \in Nat
      /\ objs \in [Objects -> Nat] /\ left \in [edits : Nat, mishaps : Nat]
  BY ClockAssumption DEF TypeInv, TypeOK, PassType
<1>2. CASE Begin
  <2>1. pass' \in PassType /\ pass'.ids \in Seq(Ids)
    <3>1. spec.ids \in Seq(Ids) /\ spec.ids \in Seq(Ids \cup {Session})
      BY <1>1, SpecFacts, SeqIds
    <3>2. MaxDuration(spec, clock) \in Nat
      BY <1>1, MaxDurationType
    <3>3. pass' = [NoPass EXCEPT !.at = "map", !.ids = spec.ids,
                     !.maxDur = MaxDuration(spec, clock), !.mapped = clock, !.since = objs]
      BY <1>2 DEF Begin
    <3>4. NoPass \in PassType
      BY NoPassType
    <3> QED BY <1>1, <3>1, <3>2, <3>3, <3>4 DEF PassType, PassPlaces
  <2> QED BY <1>1, <1>2, <2>1, PassStepType DEF Begin
<1>3. ASSUME Reading PROVE Decl \in EnvFromEntries \cup EnvEntries
  <2>1. pass.i \in 1..Len(Decls(spec))
    BY <1>1, <1>3 DEF Reading, PassType
  <2> QED BY <1>1, <2>1, DeclShape DEF Decl
<1>4. CASE ReadObject
  <2>1. Contents(Decl) \in Env
    BY <1>1, <1>3, <1>4, ContentsType DEF ReadObject
  <2>2. Overlay(pass.secret, Contents(Decl)) \in Env /\ Overlay(pass.plain, Contents(Decl)) \in Env
    BY <1>1, <2>1, OverlayType DEF PassType
  <2>3. pass' \in PassType /\ pass'.ids = pass.ids
    <3> DEFINE s == Overlay(pass.secret, Contents(Decl))
               p == Overlay(pass.plain, Contents(Decl))
    <3>1. \/ pass' = [pass EXCEPT !.i = @ + 1, !.secret = s]
          \/ pass' = [pass EXCEPT !.i = @ + 1, !.plain = p]
      BY <1>4 DEF ReadObject
    <3>2. s \in Env /\ p \in Env
      BY <2>2
    <3>3. pass.i + 1 \in Nat \ {0}
      BY <1>1 DEF PassType
    <3> HIDE DEF s, p
    <3> QED BY <1>1, <3>1, <3>2, <3>3 DEF PassType
  <2> QED BY <1>1, <1>4, <2>3, PassStepType DEF ReadObject
<1>5. CASE ReadLiteral
  <2>1. Decl.name \in Names
    BY <1>3, <1>5, EntryShape DEF ReadLiteral
  <2>2. [pass.plain EXCEPT ![Decl.name] = Plain] \in Env
    BY <1>1, <2>1, PlainType DEF PassType, Env, Optional
  <2>3. pass' \in PassType /\ pass'.ids = pass.ids
    <3> DEFINE p == [pass.plain EXCEPT ![Decl.name] = Plain]
    <3>1. pass' = [pass EXCEPT !.i = @ + 1, !.plain = p]
      BY <1>5 DEF ReadLiteral
    <3>2. pass.i + 1 \in Nat \ {0}
      BY <1>1 DEF PassType
    <3> HIDE DEF p
    <3> QED BY <1>1, <2>2, <3>1, <3>2 DEF PassType, p
  <2> QED BY <1>1, <1>5, <2>3, PassStepType DEF ReadLiteral
<1>6. CASE Reject
  <2>1. left' \in [edits : Nat, mishaps : Nat]
    BY <1>6, MishapType DEF Reject, TypeInv
  <2>2. pass' \in PassType /\ pass'.ids \in Seq(Ids)
    BY <1>6, NoPassType DEF Reject, GiveUp
  <2> QED BY <1>6, <2>1, <2>2, PassStepType DEF Reject
<1>7. CASE Mapped
  <2>1. pass' \in PassType /\ pass'.ids = pass.ids
    BY <1>1, <1>7, SpecFacts DEF Mapped, PassType, PassPlaces
  <2> QED BY <1>1, <1>7, <2>1, PassStepType DEF Mapped
<1> QED BY <1>2, <1>4, <1>5, <1>6, <1>7

\* The secret and the role.
LEMMA PreparingType ==
  ASSUME TypeInv, PutSecret \/ PutSecretFails \/ ResolveRole \/ RoleLookupFails
  PROVE  TypeInv'
<1>1. /\ pass \in PassType /\ spec \in Specs /\ left \in [edits : Nat, mishaps : Nat]
      /\ pass.secret \in Env
  BY DEF TypeInv, TypeOK, PassType
<1>2. \A e \in Env : e # None
  BY NoneIsNoEnv
<1>3. CASE PutSecret
  <2>1. pass' \in PassType
    BY <1>1, <1>3, AppendProperties DEF PutSecret, PassType, PassPlaces
  <2> QED BY <1>1, <1>2, <1>3, <2>1 DEF PutSecret, TypeInv, TypeOK, SessionPut, PassType
<1>4. CASE PutSecretFails
  <2>1. left' \in [edits : Nat, mishaps : Nat]
    BY <1>4, MishapType DEF PutSecretFails, TypeInv
  <2>2. pass' \in PassType /\ pass'.ids \in Seq(Ids)
    BY <1>4, NoPassType DEF PutSecretFails, GiveUp
  <2> QED BY <1>1, <1>2, <1>4, <2>1, <2>2
          DEF PutSecretFails, TypeInv, TypeOK, SessionPut, PassType
<1>5. CASE ResolveRole
  <2>1. pass' \in PassType /\ pass'.ids = pass.ids
    BY <1>1, <1>5, SpecFacts DEF ResolveRole, PassType, PassPlaces
  <2> QED BY <1>1, <1>5, <2>1, PassStepType DEF ResolveRole
<1>6. CASE RoleLookupFails
  <2>1. left' \in [edits : Nat, mishaps : Nat]
    BY <1>6, MishapType DEF RoleLookupFails, TypeInv
  <2>2. pass' \in PassType /\ pass'.ids = pass.ids
    BY <1>1, <1>6, SpecFacts DEF RoleLookupFails, PassType, PassPlaces, Optional
  <2> QED BY <1>6, <2>1, <2>2 DEF RoleLookupFails, TypeInv, TypeOK, SessionPut, PassType
<1> QED BY <1>3, <1>4, <1>5, <1>6

\* The MicroVM.
LEMMA ProvisionType ==
  ASSUME TypeInv, WarmAdopt \/ ColdRun \/ ColdRunFails \/ RecordId
  PROVE  TypeInv'
<1>1. /\ pass \in PassType /\ spec \in Specs /\ left \in [edits : Nat, mishaps : Nat]
      /\ vm \in [VMs -> VmType] /\ clock \in Nat
  BY ClockAssumption DEF TypeInv, TypeOK, PassType, VmType
<1>2. Launched \in VmType /\ Launched.ids = pass.ids
  BY LaunchedType DEF TypeInv
<1>3. CASE WarmAdopt
  <2> DEFINE m == [NoVM EXCEPT !.at = "ready", !.launch = "warm",
                     !.image = WarmImage, !.role = WarmRole, !.born = clock]
  <2>1. PICK v \in VMs : /\ vm' = [vm EXCEPT ![v] = m]
                         /\ pass' = [pass EXCEPT !.at = "record", !.vm = v]
    BY <1>3 DEF WarmAdopt
  <2>2. m \in VmType /\ m.ids \in Seq(Ids)
    BY <1>1, NoVmType, FlagAssumption DEF VmType, NoVM, Optional
  <2>3. pass' \in PassType /\ pass'.ids = pass.ids
    BY <1>1, <2>1 DEF PassType, PassPlaces, Optional
  <2>4. vm' \in [VMs -> VmType] /\ \A u \in VMs : vm'[u].ids = vm[u].ids \/ vm'[u].ids \in Seq(Ids)
    BY <1>1, <2>1, <2>2
  <2> HIDE DEF m
  <2> QED BY <1>3, <2>3, <2>4
          DEF WarmAdopt, TypeInv, TypeOK, SessionPut, PassType, VmType
<1>4. ASSUME NEW v \in VMs, vm' = [vm EXCEPT ![v] = Launched]
      PROVE  /\ vm' \in [VMs -> VmType]
             /\ \A u \in VMs : vm'[u].ids \in {vm[u].ids, pass.ids}
  BY <1>1, <1>2, <1>4
<1>5. CASE ColdRun
  <2>1. PICK v \in VMs : /\ vm' = [vm EXCEPT ![v] = Launched]
                         /\ pass' = [pass EXCEPT !.at = "record", !.vm = v]
    BY <1>5 DEF ColdRun
  <2>2. pass' \in PassType /\ pass'.ids = pass.ids
    BY <1>1, <2>1 DEF PassType, PassPlaces, Optional
  <2>3. vm' \in [VMs -> VmType] /\ \A u \in VMs : vm'[u].ids \in {vm[u].ids, pass.ids}
    BY <1>4, <2>1
  <2> QED BY <1>5, <2>2, <2>3
          DEF ColdRun, TypeInv, TypeOK, SessionPut, PassType, VmType
<1>6. CASE ColdRunFails
  <2>1. left' \in [edits : Nat, mishaps : Nat]
    BY <1>6, MishapType DEF ColdRunFails, TypeInv
  <2>2. pass' \in PassType /\ pass'.ids \in Seq(Ids)
    BY <1>6, NoPassType DEF ColdRunFails, GiveUp
  <2>3. vm' \in [VMs -> VmType] /\ \A u \in VMs : vm'[u].ids \in {vm[u].ids, pass.ids}
    BY <1>1, <1>4, <1>6 DEF ColdRunFails
  <2> QED BY <1>6, <2>1, <2>2, <2>3
          DEF ColdRunFails, TypeInv, TypeOK, SessionPut, PassType, VmType
<1>7. CASE RecordId
  <2>1. left' \in [edits : Nat, mishaps : Nat]
    BY <1>7, MishapType DEF RecordId, TypeInv
  <2>2. pass' \in PassType /\ pass'.ids \in Seq(Ids)
    BY <1>7, NoPassType DEF RecordId, GiveUp
  <2>3. id' \in Optional(VMs)
    BY <1>1, <1>7 DEF RecordId, PassType, TypeInv, TypeOK
  <2> QED BY <1>7, <2>1, <2>2, <2>3 DEF RecordId, TypeInv, TypeOK, SessionPut, PassType
<1> QED BY <1>3, <1>5, <1>6, <1>7

\* The hook of a MicroVM.
LEMMA HookType ==
  ASSUME TypeInv, NEW v \in VMs, FetchSecret(v) \/ FetchFails(v) \/ Apply(v)
  PROVE  TypeInv'
<1>1. vm[v] \in VmType /\ left \in [edits : Nat, mishaps : Nat] /\ blame \subseteq {"lookup", "fetch"}
  BY DEF TypeInv, TypeOK, VmType
<1>2. vm[v].ids \in Seq(Ids) \/ asm # None
  BY DEF TypeInv, SessionPut
<1>3. CASE FetchSecret(v)
  <2> DEFINE i == Head(vm[v].ids)
             m == [vm[v] EXCEPT !.ids = Tail(@), !.fetched = Overlay(@, Fetched(i))]
  <2>1. vm[v].ids # <<>> /\ vm[v].ids \in Seq(Ids \cup {Session})
    BY <1>1, <1>3 DEF FetchSecret, Fetching, VmType
  <2>2. i \in Ids \cup {Session} /\ Tail(vm[v].ids) \in Seq(Ids \cup {Session})
    BY <2>1, HeadTailProperties
  <2>3. vm[v].ids \in Seq(Ids) => i \in Ids /\ Tail(vm[v].ids) \in Seq(Ids)
    BY <2>1, HeadTailProperties
  <2>4. Fetched(i) \in Env
    <3>1. CASE i = Session
      <4>1. asm # None
        BY <1>2, <2>3, <3>1, ObjectAssumption DEF Session
      <4> QED BY <3>1, <4>1 DEF Fetched, TypeInv, TypeOK
    <3>2. CASE i # Session
      <4>1. i \in Ids
        BY <2>2, <3>2
      <4>2. Value(i, None, 0) \in Values
        BY <4>1 DEF Value, Values, Optional
      <4> HIDE DEF i
      <4> QED BY <3>2, <4>2 DEF Fetched, Env, Optional
    <3> QED BY <3>1, <3>2
  <2>5. Overlay(vm[v].fetched, Fetched(i)) \in Env
    BY <1>1, <2>4, OverlayType DEF VmType
  <2> HIDE DEF i
  <2>6. m \in VmType /\ m.ids = Tail(vm[v].ids)
    BY <1>1, <2>2, <2>5 DEF VmType
  <2>7. vm' = [vm EXCEPT ![v] = m]
    BY <1>3 DEF FetchSecret, i
  <2> HIDE DEF m
  <2> QED BY <1>1, <1>2, <1>3, <2>3, <2>6, <2>7, VmStepType DEF FetchSecret
<1>4. CASE FetchFails(v)
  <2> DEFINE m == [vm[v] EXCEPT !.ids = <<>>]
  <2>1. m \in VmType /\ m.ids \in Seq(Ids)
    <3>1. <<>> \in Seq(Ids) /\ <<>> \in Seq(Ids \cup {Session})
      BY EmptySeq
    <3> QED BY <1>1, <3>1 DEF VmType
  <2>2. vm' = [vm EXCEPT ![v] = m]
    BY <1>4 DEF FetchFails
  <2>3. left' \in [edits : Nat, mishaps : Nat] /\ blame' \subseteq {"lookup", "fetch"}
    BY <1>1, <1>4, MishapType DEF FetchFails, TypeInv
  <2> HIDE DEF m
  <2> QED BY <1>4, <2>1, <2>2, <2>3, VmStepType DEF FetchFails
<1>5. CASE Apply(v)
  <2> DEFINE m == [vm[v] EXCEPT !.at = "ready", !.env = Overlay(vm[v].plain, vm[v].fetched)]
  <2>1. Overlay(vm[v].plain, vm[v].fetched) \in Env
    BY <1>1, OverlayType DEF VmType
  <2>2. m \in VmType /\ m.ids = vm[v].ids
    BY <1>1, <2>1 DEF VmType
  <2>3. vm' = [vm EXCEPT ![v] = m]
    BY <1>5 DEF Apply
  <2> HIDE DEF m
  <2> QED BY <1>1, <1>2, <1>5, <2>2, <2>3, VmStepType DEF Apply
<1> QED BY <1>3, <1>4, <1>5

\* TypeInv is inductive.
LEMMA TypeInductive == TypeInv /\ [Next]_vars => TypeInv'
<1> SUFFICES ASSUME TypeInv, [Next]_vars PROVE TypeInv'
  OBVIOUS
<1>1. CASE \E o \in Objects : Edit(o)
  <2>1. PICK o \in Objects : Edit(o)
    BY <1>1
  <2>2. objs' \in [Objects -> Nat]
    BY <2>1 DEF Edit, TypeInv, TypeOK
  <2>3. left' \in [edits : Nat, mishaps : Nat]
    <3>1. left \in [edits : Nat, mishaps : Nat] /\ left.edits > 0
      BY <2>1 DEF Edit, TypeInv, TypeOK
    <3>2. left.edits - 1 \in Nat
      BY <3>1
    <3> QED BY <2>1, <3>1, <3>2 DEF Edit
  <2> QED BY <2>1, <2>2, <2>3 DEF Edit, TypeInv, TypeOK, SessionPut
<1>2. CASE Tick
  BY <1>2, ClockAssumption DEF Tick, TypeInv, TypeOK, SessionPut
<1>3. CASE UNCHANGED vars
  BY <1>3 DEF vars, TypeInv, TypeOK, SessionPut
<1> QED BY <1>1, <1>2, <1>3, MappingType, PreparingType, ProvisionType, HookType DEF Next

LEMMA TypeInitially == Init => TypeInv
<1> SUFFICES ASSUME Init PROVE TypeInv
  OBVIOUS
<1>1. pass \in PassType /\ vm \in [VMs -> VmType]
  BY NoPassType, NoVmType DEF Init
<1>2. SessionPut
  BY NoPassType, NoVmType DEF Init, SessionPut
<1>3. objs \in [Objects -> Nat] /\ left \in [edits : Nat, mishaps : Nat]
  BY BoundAssumption DEF Init
<1>4. TypeOK
  <2>1. asm \in Env \cup {None} /\ id \in Optional(VMs) /\ blame = {}
    BY DEF Init, Optional
  <2>2. spec \in Specs /\ clock \in 0..MaxTime
    BY ClockAssumption DEF Init
  <2> QED BY <1>1, <1>3, <2>1, <2>2 DEF TypeOK, PassType, VmType
<1> QED BY <1>2, <1>4 DEF TypeInv

\* The types of the state for every set of Sandbox specs, objects and bounds:
\* no maximum duration is negative, and no hook reads a session secret that
\* was never put.
THEOREM TypeCorrect == Spec => []TypeOK
<1>1. Init => TypeInv
  BY TypeInitially
<1>2. TypeInv => TypeOK
  BY DEF TypeInv
<1> QED BY <1>1, <1>2, TypeInductive, PTL DEF Spec

-----------------------------------------------------------------------------
(* Secret values stay out of payloads. *)

\* The map of a pass that goes into the payload has none, nor has a payload
\* that a MicroVM was given: inductive relative to the types.
PayloadInv == NoSecret(pass.plain) /\ SecretsOutOfPayload

LEMMA PayloadReading ==
  ASSUME TypeInv, PayloadInv, ReadObject \/ ReadLiteral
  PROVE  NoSecret(pass.plain)'
<1>1. /\ pass \in PassType /\ pass.plain \in Env /\ spec \in Specs
      /\ objs \in [Objects -> Nat] /\ NoSecret(pass.plain)
  BY DEF TypeInv, TypeOK, PassType, PayloadInv
<1>2. Decl \in EnvFromEntries \cup EnvEntries
  <2>1. pass.i \in 1..Len(Decls(spec))
    BY <1>1 DEF ReadObject, ReadLiteral, Reading, PassType
  <2> QED BY <1>1, <2>1, DeclShape DEF Decl
<1>3. CASE ReadObject
  <2> DEFINE p == Overlay(pass.plain, Contents(Decl))
  <2>1. CASE Decl.object \in Secrets
    <3>1. pass'.plain = pass.plain
      BY <1>1, <1>3, <2>1 DEF ReadObject, PassType
    <3> QED BY <1>1, <3>1 DEF NoSecret
  <2>2. CASE Decl.object \notin Secrets
    <3>1. Contents(Decl) \in Env /\ NoSecret(Contents(Decl))
      BY <1>1, <1>2, <1>3, <2>2, ContentsType DEF ReadObject
    <3>2. NoSecret(p)
      BY <1>1, <3>1, OverlayNoSecret
    <3>3. pass'.plain = p
      BY <1>1, <1>3, <2>2 DEF ReadObject, PassType
    <3> HIDE DEF p
    <3> QED BY <3>2, <3>3 DEF NoSecret
  <2> QED BY <2>1, <2>2
<1>4. CASE ReadLiteral
  <2> DEFINE p == [pass.plain EXCEPT ![Decl.name] = Plain]
  <2>1. NoSecret(p)
    BY <1>1, PlainType DEF NoSecret, Env
  <2>2. pass'.plain = p
    BY <1>1, <1>4 DEF ReadLiteral, PassType
  <2> HIDE DEF p
  <2> QED BY <2>1, <2>2 DEF NoSecret
<1> QED BY <1>3, <1>4

\* The other steps of a pass keep its map, or begin with an empty one.
LEMMA PayloadKept ==
  ASSUME TypeInv, PayloadInv, pass'.plain = pass.plain \/ pass'.plain = Empty
  PROVE  NoSecret(pass.plain)'
BY EmptyNoSecret DEF PayloadInv, NoSecret, Empty

\* A MicroVM keeps its payload, or gets that of the pass, or none.
LEMMA PayloadGiven ==
  ASSUME PayloadInv,
         \A v \in VMs : vm'[v].plain \in {vm[v].plain, pass.plain, Empty}
  PROVE  SecretsOutOfPayload'
BY EmptyNoSecret DEF PayloadInv, SecretsOutOfPayload, NoSecret

LEMMA PayloadInductive == TypeInv /\ PayloadInv /\ [Next]_vars => PayloadInv'
<1> SUFFICES ASSUME TypeInv, PayloadInv, [Next]_vars PROVE PayloadInv'
  OBVIOUS
<1>1. pass \in PassType /\ vm \in [VMs -> VmType]
  BY DEF TypeInv, TypeOK, PassType, VmType
<1>2. NoPass.plain = Empty /\ NoVM.plain = Empty
  BY DEF NoPass, NoVM
<1>3. Launched.plain = pass.plain
  BY LaunchedType DEF TypeInv
<1>4. CASE UNCHANGED vm
  <2>1. SecretsOutOfPayload'
    BY <1>4 DEF PayloadInv, SecretsOutOfPayload, NoSecret
  <2>2. CASE ReadObject \/ ReadLiteral
    BY <2>1, <2>2, PayloadReading DEF PayloadInv
  <2>3. ASSUME ~(ReadObject \/ ReadLiteral)
        PROVE  pass'.plain = pass.plain \/ pass'.plain = Empty
    <3>1. CASE Begin \/ Reject \/ Mapped
      <4>1. CASE Begin
        BY <1>2, <4>1, NoPassType DEF Begin, PassType
      <4>2. CASE Reject \/ Mapped
        BY <1>1, <1>2, <4>2 DEF Reject, Mapped, GiveUp, PassType
      <4> QED BY <3>1, <4>1, <4>2
    <3>2. CASE PutSecret \/ PutSecretFails \/ ResolveRole \/ RoleLookupFails
      BY <1>1, <1>2, <3>2
      DEF PutSecret, PutSecretFails, ResolveRole, RoleLookupFails, GiveUp, PassType
    <3>3. CASE WarmAdopt \/ ColdRun \/ ColdRunFails \/ RecordId
      BY <1>1, <1>2, <3>3 DEF WarmAdopt, ColdRun, ColdRunFails, RecordId, GiveUp, PassType
    <3>4. CASE \E v \in VMs : FetchSecret(v) \/ FetchFails(v) \/ Apply(v)
      BY <3>4 DEF FetchSecret, FetchFails, Apply
    <3>5. CASE (\E o \in Objects : Edit(o)) \/ Tick \/ UNCHANGED vars
      BY <3>5 DEF Edit, Tick, vars
    <3> QED BY <2>3, <3>1, <3>2, <3>3, <3>4, <3>5 DEF Next
  <2> QED BY <2>1, <2>2, <2>3, PayloadKept DEF PayloadInv
<1>5. CASE WarmAdopt
  <2> DEFINE m == [NoVM EXCEPT !.at = "ready", !.launch = "warm",
                     !.image = WarmImage, !.role = WarmRole, !.born = clock]
  <2>1. PICK v \in VMs : /\ vm' = [vm EXCEPT ![v] = m]
                         /\ pass' = [pass EXCEPT !.at = "record", !.vm = v]
    BY <1>5 DEF WarmAdopt
  <2>2. m.plain = Empty
    BY DEF NoVM
  <2> HIDE DEF m
  <2>3. \A u \in VMs : vm'[u].plain \in {vm[u].plain, pass.plain, Empty}
    BY <1>1, <2>1, <2>2
  <2>4. pass'.plain = pass.plain
    BY <1>1, <2>1 DEF PassType
  <2> QED BY <2>3, <2>4, PayloadGiven, PayloadKept DEF PayloadInv
<1>6. CASE ColdRun \/ ColdRunFails
  <2>1. \A u \in VMs : vm'[u].plain \in {vm[u].plain, pass.plain, Empty}
    BY <1>1, <1>3, <1>6 DEF ColdRun, ColdRunFails
  <2>2. pass'.plain = pass.plain \/ pass'.plain = Empty
    BY <1>1, <1>2, <1>6 DEF ColdRun, ColdRunFails, GiveUp, PassType
  <2> QED BY <2>1, <2>2, PayloadGiven, PayloadKept DEF PayloadInv
<1>7. ASSUME NEW v \in VMs, FetchSecret(v) \/ FetchFails(v) \/ Apply(v)
      PROVE  PayloadInv'
  <2>1. vm'[v].plain = vm[v].plain /\ \A u \in VMs \ {v} : vm'[u] = vm[u]
    BY <1>1, <1>7 DEF FetchSecret, FetchFails, Apply, VmType
  <2>2. pass' = pass
    BY <1>7 DEF FetchSecret, FetchFails, Apply
  <2> QED BY <2>1, <2>2, PayloadGiven, PayloadKept DEF PayloadInv
<1>8. \/ UNCHANGED vm \/ WarmAdopt \/ ColdRun \/ ColdRunFails
      \/ \E v \in VMs : FetchSecret(v) \/ FetchFails(v) \/ Apply(v)
  <2>1. Begin \/ ReadObject \/ ReadLiteral \/ Reject \/ Mapped => UNCHANGED vm
    BY DEF Begin, ReadObject, ReadLiteral, Reject, Mapped
  <2>2. PutSecret \/ PutSecretFails \/ ResolveRole \/ RoleLookupFails \/ RecordId => UNCHANGED vm
    BY DEF PutSecret, PutSecretFails, ResolveRole, RoleLookupFails, RecordId
  <2>3. (\E o \in Objects : Edit(o)) \/ Tick \/ UNCHANGED vars => UNCHANGED vm
    BY DEF Edit, Tick, vars
  <2> QED BY <2>1, <2>2, <2>3 DEF Next
<1> QED BY <1>4, <1>5, <1>6, <1>7, <1>8

\* For every PodSpec, every collision of names between Secrets, ConfigMaps and
\* literals, and every interleaving of passes and edits, no run-hook payload
\* holds a value that was read from a Kubernetes Secret.
THEOREM PayloadHasNoSecret == Spec => []SecretsOutOfPayload
<1>1. Init => TypeInv
  BY TypeInitially
<1>2. Init => PayloadInv
  BY EmptyNoSecret DEF Init, PayloadInv, SecretsOutOfPayload, NoPass, NoVM
<1>3. PayloadInv => SecretsOutOfPayload
  BY DEF PayloadInv
<1> QED BY <1>1, <1>2, <1>3, TypeInductive, PayloadInductive, PTL DEF Spec

-----------------------------------------------------------------------------
(* The maximum duration. *)

LEMMA DivFacts ==
  ASSUME NEW a \in Nat, NEW d \in Nat \ {0}
  PROVE  /\ a \div d \in Nat
         /\ (a \div d) * d <= a
         /\ a < (a \div d) * d + d
OBVIOUS

LEMMA TimesGrows ==
  ASSUME NEW x \in Nat, NEW y \in Nat, NEW d \in Nat, x <= y
  PROVE  x * d <= y * d
OBVIOUS

LEMMA PositiveDiv ==
  ASSUME NEW a \in Nat, NEW d \in Nat \ {0}, a >= d
  PROVE  a \div d >= 1
<1>1. a \div d \in Nat /\ a < (a \div d) * d + d
  BY DivFacts
<1>2. a \div d # 0
  <2> SUFFICES ASSUME a \div d = 0 PROVE FALSE
    OBVIOUS
  <2>1. (a \div d) * d = 0
    OBVIOUS
  <2> QED BY <1>1, <2>1
<1> QED BY <1>1, <1>2

\* Mapped from a shutdownTime, the duration ends neither too early nor too
\* late, however long the pass takes from there.
LEMMA DurationBounds ==
  ASSUME NEW s \in Specs, s.maxDur = None, s.shutdown # None,
         NEW mapped \in Nat, NEW born \in Nat, mapped <= born
  PROVE  LET d == MaxDuration(s, mapped) IN
           IF d = 0 THEN s.shutdown < mapped + Second
           ELSE /\ d \in Minimum..Maximum
                /\ d = Maximum \/ born + d * Second > s.shutdown - Second
                /\ d = Minimum \/ mapped + d * Second <= s.shutdown
<1>1. s.shutdown \in Nat /\ Second \in Nat \ {0}
  BY SpecsAssumption, ClockAssumption DEF SpecType, Optional
<1>2. CASE ~(s.shutdown >= mapped + Second)
  <2>1. MaxDuration(s, mapped) = 0
    BY <1>2 DEF MaxDuration
  <2> QED BY <1>1, <1>2, <2>1
<1>3. CASE s.shutdown >= mapped + Second
  <2>1. PICK a \in Nat : a = s.shutdown - mapped /\ a >= Second
    BY <1>1, <1>3
  <2>2. PICK q \in Nat : q = a \div Second
    BY <1>1, DivFacts
  <2>3. q >= 1 /\ q * Second <= a /\ a < q * Second + Second
    BY <1>1, <2>1, <2>2, DivFacts, PositiveDiv
  <2>4. MaxDuration(s, mapped) = Clamp(q)
    BY <1>3, <2>1, <2>2 DEF MaxDuration
  <2>5. PICK d \in Nat : d = Clamp(q)
    BY ClockAssumption DEF Clamp
  <2>6. d \in Minimum..Maximum /\ d # 0
    BY <2>5, ClockAssumption DEF Clamp
  <2>7. d = Maximum \/ q <= d
    BY <2>5, ClockAssumption DEF Clamp
  <2>8. d = Minimum \/ d <= q
    BY <2>5, ClockAssumption DEF Clamp
  <2>9. PICK x \in Nat : x = d * Second
    BY <1>1
  <2>10. PICK y \in Nat : y = q * Second
    BY <1>1
  <2>11. q <= d => y <= x
    BY <1>1, <2>9, <2>10, TimesGrows
  <2>12. d <= q => x <= y
    BY <1>1, <2>9, <2>10, TimesGrows
  <2>13. q <= d => born + x > s.shutdown - Second
    BY <1>1, <2>1, <2>3, <2>10, <2>11
  <2>14. d <= q => mapped + x <= s.shutdown
    BY <1>1, <2>1, <2>3, <2>10, <2>12
  <2> QED BY <2>4, <2>5, <2>6, <2>7, <2>8, <2>9, <2>13, <2>14
<1> QED BY <1>2, <1>3

LEMMA DurationsInitially == Init => DurationsOK
BY DEF Init, DurationsOK, NoPass, NoVM

\* A pass keeps what it mapped, and a MicroVM what it was launched with.
LEMMA DurationsKept ==
  ASSUME DurationsOK, spec' = spec, clock' \in Nat, clock \in Nat, clock <= clock',
         pass \in PassType, pass' \in PassType,
         \/ pass'.at = "idle"
         \/ /\ pass.at # "idle"
            /\ pass'.maxDur = pass.maxDur /\ pass'.mapped = pass.mapped,
         \A v \in VMs :
           \/ vm'[v].launch # "cold"
           \/ /\ vm'[v].launch = vm[v].launch /\ vm'[v].maxDur = vm[v].maxDur
              /\ vm'[v].mapped = vm[v].mapped /\ vm'[v].born = vm[v].born
  PROVE  DurationsOK'
<1>1. pass'.at # "idle" => pass'.maxDur = MaxDuration(spec', pass'.mapped) /\ pass'.mapped <= clock'
  <2> SUFFICES ASSUME pass'.at # "idle"
               PROVE  pass'.maxDur = MaxDuration(spec, pass'.mapped) /\ pass'.mapped <= clock'
    OBVIOUS
  <2>1. /\ pass.at # "idle"
        /\ pass'.maxDur = pass.maxDur /\ pass'.mapped = pass.mapped
    OBVIOUS
  <2>2. pass.maxDur = MaxDuration(spec, pass.mapped) /\ pass.mapped <= clock
    BY <2>1 DEF DurationsOK
  <2>3. pass.mapped \in Nat
    BY DEF PassType
  <2> QED BY <2>1, <2>2, <2>3
<1>2. ASSUME NEW v \in VMs, vm'[v].launch = "cold"
      PROVE  vm'[v].maxDur = MaxDuration(spec', vm'[v].mapped) /\ vm'[v].mapped <= vm'[v].born
  BY <1>2 DEF DurationsOK
<1> QED BY <1>1, <1>2 DEF DurationsOK

\* The types at both ends of a step.
LEMMA StepTypes ==
  ASSUME TypeInv, [Next]_vars
  PROVE  /\ spec \in Specs /\ objs \in [Objects -> Nat] /\ asm \in Env \cup {None}
         /\ pass \in PassType /\ vm \in [VMs -> VmType] /\ clock \in Nat
         /\ spec' \in Specs /\ objs' \in [Objects -> Nat] /\ asm' \in Env \cup {None}
         /\ pass' \in PassType /\ vm' \in [VMs -> VmType] /\ clock' \in Nat
<1>1. TypeOK /\ TypeOK'
  BY TypeInductive DEF TypeInv
<1>2. /\ spec \in Specs /\ objs \in [Objects -> Nat] /\ asm \in Env \cup {None}
      /\ clock \in 0..MaxTime
      /\ spec' \in Specs /\ objs' \in [Objects -> Nat] /\ asm' \in Env \cup {None}
      /\ clock' \in 0..MaxTime
  BY <1>1 DEF TypeOK
<1>3. pass \in PassType /\ pass' \in PassType
  BY <1>1 DEF TypeOK, PassType
<1>4. vm \in [VMs -> VmType] /\ vm' \in [VMs -> VmType]
  BY <1>1 DEF TypeOK, VmType
<1> QED BY <1>2, <1>3, <1>4, ClockAssumption

LEMMA DurationsInductive == TypeInv /\ DurationsOK /\ [Next]_vars => DurationsOK'
<1> SUFFICES ASSUME TypeInv, DurationsOK, [Next]_vars PROVE DurationsOK'
  OBVIOUS
<1>1. /\ pass \in PassType /\ vm \in [VMs -> VmType] /\ clock \in Nat
      /\ pass' \in PassType /\ vm' \in [VMs -> VmType] /\ clock' \in Nat
  BY StepTypes
<1>2. NoPass.at = "idle"
  BY DEF NoPass
<1>3. CASE Begin
  <2>1. pass'.maxDur = MaxDuration(spec, clock) /\ pass'.mapped = clock
    BY <1>3 DEF Begin, NoPass
  <2>2. spec' = spec /\ clock' = clock /\ vm' = vm
    BY <1>3 DEF Begin
  <2>3. pass'.maxDur = MaxDuration(spec', pass'.mapped) /\ pass'.mapped <= clock'
    BY <1>1, <2>1, <2>2
  <2>4. \A v \in VMs : vm'[v].launch = "cold" =>
          vm'[v].maxDur = MaxDuration(spec', vm'[v].mapped) /\ vm'[v].mapped <= vm'[v].born
    BY <2>2 DEF DurationsOK
  <2> QED BY <2>3, <2>4 DEF DurationsOK
<1>4. CASE ReadObject \/ ReadLiteral \/ Mapped \/ PutSecret \/ ResolveRole \/ RoleLookupFails
  <2>1. /\ pass.at # "idle" /\ pass'.maxDur = pass.maxDur /\ pass'.mapped = pass.mapped
        /\ spec' = spec /\ clock' = clock /\ vm' = vm
    <3>1. CASE ReadObject
      BY <1>1, <3>1 DEF ReadObject, Reading, PassType
    <3>2. CASE ReadLiteral \/ Mapped
      BY <1>1, <3>2 DEF ReadLiteral, Mapped, Reading, PassType
    <3>3. CASE PutSecret \/ ResolveRole \/ RoleLookupFails
      BY <1>1, <3>3 DEF PutSecret, ResolveRole, RoleLookupFails, PassType
    <3> QED BY <1>4, <3>1, <3>2, <3>3
  <2> QED BY <1>1, <2>1, DurationsKept
<1>5. CASE Reject \/ PutSecretFails \/ RecordId
  <2>1. pass'.at = "idle" /\ spec' = spec /\ clock' = clock /\ vm' = vm
    BY <1>2, <1>5 DEF Reject, PutSecretFails, RecordId, GiveUp
  <2> QED BY <1>1, <2>1, DurationsKept
<1>6. CASE WarmAdopt
  <2> DEFINE m == [NoVM EXCEPT !.at = "ready", !.launch = "warm",
                     !.image = WarmImage, !.role = WarmRole, !.born = clock]
  <2>1. PICK v \in VMs : /\ vm' = [vm EXCEPT ![v] = m]
                         /\ pass' = [pass EXCEPT !.at = "record", !.vm = v]
    BY <1>6 DEF WarmAdopt
  <2>2. m.launch = "warm"
    BY DEF NoVM
  <2> HIDE DEF m
  <2>3. pass.at # "idle" /\ pass'.maxDur = pass.maxDur /\ pass'.mapped = pass.mapped
    BY <1>1, <1>6, <2>1 DEF WarmAdopt, PassType
  <2>4. \A u \in VMs : vm'[u].launch # "cold" \/ vm'[u] = vm[u]
    BY <1>1, <2>1, <2>2
  <2>5. spec' = spec /\ clock' = clock
    BY <1>6 DEF WarmAdopt
  <2> QED BY <1>1, <2>3, <2>4, <2>5, DurationsKept
<1>7. CASE ColdRun \/ ColdRunFails
  <2>1. /\ pass.at # "idle" /\ spec' = spec /\ clock' = clock
        /\ \/ pass'.at = "idle"
           \/ pass'.maxDur = pass.maxDur /\ pass'.mapped = pass.mapped
    BY <1>1, <1>2, <1>7 DEF ColdRun, ColdRunFails, GiveUp, PassType
  <2>2. Launched.maxDur = pass.maxDur /\ Launched.mapped = pass.mapped /\ Launched.born = clock
    BY DEF Launched, NoVM
  <2>3. pass.maxDur = MaxDuration(spec, pass.mapped) /\ pass.mapped <= clock
    BY <2>1 DEF DurationsOK
  <2>4. \A u \in VMs : vm'[u] \in {vm[u], Launched}
    BY <1>1, <1>7 DEF ColdRun, ColdRunFails
  <2>5. ASSUME NEW u \in VMs, vm'[u].launch = "cold"
        PROVE  vm'[u].maxDur = MaxDuration(spec', vm'[u].mapped) /\ vm'[u].mapped <= vm'[u].born
    <3>1. CASE vm'[u] = vm[u]
      BY <2>1, <2>5, <3>1 DEF DurationsOK
    <3>2. CASE vm'[u] = Launched
      BY <2>1, <2>2, <2>3, <3>2
    <3> QED BY <2>4, <3>1, <3>2
  <2>6. pass'.at # "idle" => pass'.maxDur = MaxDuration(spec', pass'.mapped) /\ pass'.mapped <= clock'
    BY <2>1, <2>3
  <2> QED BY <2>5, <2>6 DEF DurationsOK
<1>8. ASSUME NEW v \in VMs, FetchSecret(v) \/ FetchFails(v) \/ Apply(v)
      PROVE  DurationsOK'
  <2>1. pass' = pass /\ spec' = spec /\ clock' = clock
    BY <1>8 DEF FetchSecret, FetchFails, Apply
  <2>2. /\ \A u \in VMs \ {v} : vm'[u] = vm[u]
        /\ vm'[v].launch = vm[v].launch /\ vm'[v].maxDur = vm[v].maxDur
        /\ vm'[v].mapped = vm[v].mapped /\ vm'[v].born = vm[v].born
    BY <1>1, <1>8 DEF FetchSecret, FetchFails, Apply, VmType
  <2>3. \A u \in VMs : /\ vm'[u].launch = vm[u].launch /\ vm'[u].maxDur = vm[u].maxDur
                       /\ vm'[u].mapped = vm[u].mapped /\ vm'[u].born = vm[u].born
    BY <2>2
  <2> QED BY <1>1, <2>1, <2>3, DurationsKept
<1>9. CASE (\E o \in Objects : Edit(o)) \/ Tick \/ UNCHANGED vars
  <2>1. pass' = pass /\ spec' = spec /\ vm' = vm
    BY <1>9 DEF Edit, Tick, vars
  <2>2. clock <= clock'
    BY <1>1, <1>9 DEF Edit, Tick, vars
  <2> QED BY <1>1, <2>1, <2>2, DurationsKept
<1> QED BY <1>3, <1>4, <1>5, <1>6, <1>7, <1>8, <1>9 DEF Next

\* A MicroVM run for a Sandbox with a shutdownTime lives at least until that
\* time and, but for the pass that ran it, no longer: for every spec, every
\* clock and however often the pass is made again.
THEOREM LifetimeIsMapped == Spec => []LifetimeMapped
<1>1. Init => TypeInv /\ DurationsOK
  BY TypeInitially, DurationsInitially
<1>2. TypeInv /\ DurationsOK => LifetimeMapped
  <2> SUFFICES ASSUME TypeInv, DurationsOK, NEW v \in VMs, vm[v].launch = "cold",
                      spec.maxDur = None, spec.shutdown # None
               PROVE  IF vm[v].maxDur = 0 THEN spec.shutdown < vm[v].mapped + Second
                      ELSE /\ vm[v].maxDur \in Minimum..Maximum
                           /\ \/ vm[v].maxDur = Maximum
                              \/ vm[v].born + vm[v].maxDur * Second > spec.shutdown - Second
                           /\ \/ vm[v].maxDur = Minimum
                              \/ vm[v].mapped + vm[v].maxDur * Second <= spec.shutdown
    BY DEF LifetimeMapped
  <2>1. vm[v].mapped \in Nat /\ vm[v].born \in Nat /\ spec \in Specs
    BY DEF TypeInv, TypeOK
  <2>2. vm[v].maxDur = MaxDuration(spec, vm[v].mapped) /\ vm[v].mapped <= vm[v].born
    BY DEF DurationsOK
  <2> QED BY <2>1, <2>2, DurationBounds
<1> QED BY <1>1, <1>2, TypeInductive, DurationsInductive, PTL DEF Spec

-----------------------------------------------------------------------------
(* Entries, and what they set.                                              *)

LEMMA DeclsLength ==
  ASSUME NEW s \in Specs
  PROVE  Len(Decls(s)) \in Nat /\ End(s) \in Nat \ {0}
<1>1. s.envFrom \in Seq(EnvFromEntries) /\ s.env \in Seq(EnvEntries)
  BY SpecsAssumption DEF SpecType
<1>2. /\ s.envFrom \in Seq(EnvFromEntries \cup EnvEntries)
      /\ s.env \in Seq(EnvFromEntries \cup EnvEntries)
  BY <1>1
<1>3. Decls(s) \in Seq(EnvFromEntries \cup EnvEntries)
  BY <1>2, ConcatProperties DEF Decls
<1> QED BY <1>3, LenProperties DEF End

LEMMA SettingRange ==
  ASSUME NEW s \in Specs, NEW n \in Names
  PROVE  /\ Setting(s, n) \subseteq Nat \ {0}
         /\ \A j \in Setting(s, n) : j < End(s) /\ Sets(Decls(s)[j], n)
BY DeclsLength DEF Setting, End

\* The entries before a place, of the ones that refer to a Secret or of the
\* others: none at first, all of them at the end, and one more at each step.
LEMMA BeforeNone ==
  ASSUME NEW s \in Specs, NEW n \in Names, NEW secret \in BOOLEAN
  PROVE  Before(s, n, 1, secret) = {}
BY SettingRange DEF Before

LEMMA BeforeEnd ==
  ASSUME NEW s \in Specs, NEW n \in Names
  PROVE  /\ Before(s, n, End(s), TRUE) = {j \in Setting(s, n) : Decls(s)[j].object \in Secrets}
         /\ Before(s, n, End(s), FALSE) = {j \in Setting(s, n) : Decls(s)[j].object \notin Secrets}
         /\ Setting(s, n) = Before(s, n, End(s), TRUE) \cup Before(s, n, End(s), FALSE)
<1>1. \A j \in Setting(s, n) : j < End(s)
  BY SettingRange
<1>2. Before(s, n, End(s), TRUE) = {j \in Setting(s, n) : Decls(s)[j].object \in Secrets}
  BY <1>1 DEF Before
<1>3. Before(s, n, End(s), FALSE) = {j \in Setting(s, n) : Decls(s)[j].object \notin Secrets}
  BY <1>1 DEF Before
<1> QED BY <1>2, <1>3

LEMMA BeforeNext ==
  ASSUME NEW s \in Specs, NEW n \in Names, NEW secret \in BOOLEAN,
         NEW i \in 1..Len(Decls(s))
  PROVE  /\ Sets(Decls(s)[i], n) /\ (Decls(s)[i].object \in Secrets <=> secret) =>
              Before(s, n, i + 1, secret) = Before(s, n, i, secret) \cup {i}
         /\ ~(Sets(Decls(s)[i], n) /\ (Decls(s)[i].object \in Secrets <=> secret)) =>
              Before(s, n, i + 1, secret) = Before(s, n, i, secret)
         /\ \A j \in Before(s, n, i, secret) : j < i
<1>1. Setting(s, n) \subseteq Nat /\ i \in Nat
  BY SettingRange, DeclsLength
<1>2. i \in Setting(s, n) <=> Sets(Decls(s)[i], n)
  BY DEF Setting
<1>3. \A j \in Setting(s, n) : j < i + 1 <=> j < i \/ j = i
  BY <1>1
<1>4. \A j : j \in Before(s, n, i, secret) <=>
               /\ j \in Setting(s, n) /\ j < i
               /\ (Decls(s)[j].object \in Secrets <=> secret)
  BY DEF Before
<1>5. \A j : j \in Before(s, n, i + 1, secret) <=>
               /\ j \in Setting(s, n) /\ j < i + 1
               /\ (Decls(s)[j].object \in Secrets <=> secret)
  BY DEF Before
<1>6. CASE Sets(Decls(s)[i], n) /\ (Decls(s)[i].object \in Secrets <=> secret)
  <2>1. \A j : j \in Before(s, n, i + 1, secret) <=> j \in Before(s, n, i, secret) \cup {i}
    BY <1>2, <1>3, <1>4, <1>5, <1>6
  <2> QED BY <1>4, <1>6, <2>1
<1>7. CASE ~(Sets(Decls(s)[i], n) /\ (Decls(s)[i].object \in Secrets <=> secret))
  <2>1. \A j : j \in Before(s, n, i + 1, secret) <=> j \in Before(s, n, i, secret)
    BY <1>2, <1>3, <1>4, <1>5, <1>7
  <2> QED BY <1>4, <1>7, <2>1
<1> QED BY <1>6, <1>7

\* A value that is new enough is new enough for an earlier pass too.
LEMMA ReflectsEarlier ==
  ASSUME NEW s, NEW value \in Optional(Values), NEW entries,
         NEW since \in [Objects -> Nat], NEW before \in [Objects -> Nat],
         NotAfter(before, since), Reflects(s, value, entries, since)
  PROVE  Reflects(s, value, entries, before)
<1>1. CASE entries = {}
  BY <1>1 DEF Reflects
<1>2. CASE entries # {}
  <2>1. PICK j \in entries :
          /\ \A h \in entries : h <= j
          /\ value # None /\ value.from = Source(Decls(s)[j])
          /\ value.from \in Objects => value.version >= since[value.from]
    BY <1>2 DEF Reflects
  <2>2. value \in Values
    BY <2>1 DEF Optional
  <2>3. value.version \in Nat
    BY <2>2 DEF Values
  <2>4. value.from \in Objects => value.version >= before[value.from]
    <3> SUFFICES ASSUME value.from \in Objects PROVE value.version >= before[value.from]
      OBVIOUS
    <3>1. before[value.from] <= since[value.from]
      BY DEF NotAfter
    <3>2. before[value.from] \in Nat /\ since[value.from] \in Nat
      OBVIOUS
    <3> QED BY <2>1, <2>3, <3>1, <3>2
  <2> QED BY <1>2, <2>1, <2>4 DEF Reflects
<1> QED BY <1>1, <1>2

LEMMA CollectedEarlier ==
  ASSUME NEW s, NEW env \in Env, NEW k, NEW secret,
         NEW since \in [Objects -> Nat], NEW before \in [Objects -> Nat],
         NotAfter(before, since), Collected(s, env, k, secret, since)
  PROVE  Collected(s, env, k, secret, before)
<1> SUFFICES ASSUME NEW n \in Names
             PROVE  Reflects(s, env[n], Before(s, n, k, secret), before)
  BY DEF Collected
<1>1. env[n] \in Optional(Values)
  BY DEF Env
<1>2. Reflects(s, env[n], Before(s, n, k, secret), since)
  BY DEF Collected
<1> QED BY <1>1, <1>2, ReflectsEarlier

LEMMA CollectedNone ==
  ASSUME NEW s \in Specs, NEW secret \in BOOLEAN, NEW since
  PROVE  Collected(s, Empty, 1, secret, since)
BY BeforeNone DEF Collected, Reflects, Empty

\* The step of the fold: an entry of the kind that is collected sets its names
\* to values of its own, any other leaves them alone.
LEMMA CollectedNext ==
  ASSUME NEW s \in Specs, NEW i \in 1..Len(Decls(s)), NEW secret \in BOOLEAN,
         NEW since, NEW env \in Env, NEW after \in Env,
         Collected(s, env, i, secret, since),
         \A n \in Names :
           IF Sets(Decls(s)[i], n) /\ (Decls(s)[i].object \in Secrets <=> secret)
             THEN /\ after[n] # None /\ after[n].from = Source(Decls(s)[i])
                  /\ after[n].from \in Objects => after[n].version >= since[after[n].from]
             ELSE after[n] = env[n]
  PROVE  Collected(s, after, i + 1, secret, since)
<1> SUFFICES ASSUME NEW n \in Names
             PROVE  Reflects(s, after[n], Before(s, n, i + 1, secret), since)
  BY DEF Collected
<1>1. CASE Sets(Decls(s)[i], n) /\ (Decls(s)[i].object \in Secrets <=> secret)
  <2>1. PICK B : B = Before(s, n, i + 1, secret)
    OBVIOUS
  <2>2. i \in B /\ \A h \in B : h <= i
    <3>1. /\ Before(s, n, i + 1, secret) = Before(s, n, i, secret) \cup {i}
          /\ \A j \in Before(s, n, i, secret) : j < i
      BY <1>1, BeforeNext
    <3>2. Before(s, n, i, secret) \subseteq Nat /\ i \in Nat
      BY SettingRange, DeclsLength DEF Before
    <3> QED BY <2>1, <3>1, <3>2
  <2>3. /\ after[n] # None /\ after[n].from = Source(Decls(s)[i])
        /\ after[n].from \in Objects => after[n].version >= since[after[n].from]
    BY <1>1
  <2>4. Reflects(s, after[n], B, since)
    BY <2>2, <2>3 DEF Reflects
  <2> QED BY <2>1, <2>4
<1>2. CASE ~(Sets(Decls(s)[i], n) /\ (Decls(s)[i].object \in Secrets <=> secret))
  <2>1. after[n] = env[n] /\ Before(s, n, i + 1, secret) = Before(s, n, i, secret)
    BY <1>2, BeforeNext
  <2> QED BY <2>1 DEF Collected
<1> QED BY <1>1, <1>2

\* What mapSandbox takes from an object, it takes under the names that the
\* entry sets, at the version that the object has.
LEMMA ContentsSets ==
  ASSUME NEW d \in EnvFromEntries \cup EnvEntries, d.type \in {"all", "key"},
         objs \in [Objects -> Nat], NEW n \in Names
  PROVE  /\ Contents(d)[n] # None <=> Sets(d, n)
         /\ Contents(d)[n] # None =>
              Contents(d)[n].from = d.object /\ Contents(d)[n].version = objs[d.object]
<1>1. d.object \in Objects /\ objs[d.object] \in Nat
  BY EntryShape
<1>2. KeysOf[d.object] \subseteq Keys
  BY <1>1, DataAssumption
<1>3. \A k \in Optional(Keys) : /\ Value(d.object, k, objs[d.object]) # None
                                /\ Value(d.object, k, objs[d.object]).from = d.object
                                /\ Value(d.object, k, objs[d.object]).version = objs[d.object]
  <2>1. \A k \in Optional(Keys) : Value(d.object, k, objs[d.object]) \in Values
    BY <1>1 DEF Value, Values
  <2> QED BY <2>1, NoneIsNoEnv DEF Value
<1>4. CASE d.type = "all" /\ \E k \in KeysOf[d.object] : Prefixed[<<d.prefix, k>>] = n
  <2> DEFINE key == CHOOSE k \in KeysOf[d.object] : Prefixed[<<d.prefix, k>>] = n
  <2>1. key \in Optional(Keys)
    BY <1>4, <1>2 DEF Optional
  <2>2. Contents(d)[n] = Value(d.object, key, objs[d.object])
    BY <1>4 DEF Contents
  <2>3. Sets(d, n)
    BY <1>4 DEF Sets
  <2> HIDE DEF key
  <2> QED BY <1>3, <2>1, <2>2, <2>3
<1>5. CASE d.type = "key" /\ d.name = n
  <2> DEFINE key == IF d.key \in KeysOf[d.object] THEN d.key ELSE None
  <2>1. key \in Optional(Keys)
    BY <1>2 DEF Optional
  <2>2. Contents(d)[n] = Value(d.object, key, objs[d.object])
    BY <1>5 DEF Contents
  <2>3. Sets(d, n)
    BY <1>5 DEF Sets
  <2> HIDE DEF key
  <2> QED BY <1>3, <2>1, <2>2, <2>3
<1>6. CASE /\ ~(d.type = "all" /\ \E k \in KeysOf[d.object] : Prefixed[<<d.prefix, k>>] = n)
           /\ ~(d.type = "key" /\ d.name = n)
  <2>1. Contents(d)[n] = None
    BY <1>6 DEF Contents
  <2>2. ~Sets(d, n)
    BY <1>6 DEF Sets
  <2> QED BY <2>1, <2>2
<1> QED BY <1>4, <1>5, <1>6

-----------------------------------------------------------------------------
(* A pass collects what its entries say.                                    *)

LEMMA LiteralShape ==
  ASSUME NEW d \in EnvFromEntries \cup EnvEntries, d.type = "literal"
  PROVE  d.object \notin Secrets /\ Source(d) = "literal"
<1>1. d.object = None
  BY DEF EnvFromEntries, EnvEntries, AllOf, KeyRef, Literal, Unsupported, Entry
<1>2. None \notin Secrets
  BY ObjectAssumption DEF Objects
<1> QED BY <1>1, <1>2 DEF Source

LEMMA ObjectCollected ==
  ASSUME NEW s \in Specs, NEW i \in 1..Len(Decls(s)), NEW secret \in BOOLEAN,
         NEW since \in [Objects -> Nat], NEW env \in Env,
         Decls(s)[i].type \in {"all", "key"},
         Decls(s)[i].object \in Secrets <=> secret,
         objs \in [Objects -> Nat], NotAfter(since, objs),
         Collected(s, env, i, secret, since)
  PROVE  Collected(s, Overlay(env, Contents(Decls(s)[i])), i + 1, secret, since)
<1> DEFINE d == Decls(s)[i]
           after == Overlay(env, Contents(d))
<1>1. d \in EnvFromEntries \cup EnvEntries
  BY DeclShape
<1>2. Contents(d) \in Env /\ after \in Env /\ d.object \in Objects /\ Source(d) = d.object
  BY <1>1, ContentsType, OverlayType, EntryShape DEF Source
<1>3. since[d.object] <= objs[d.object] /\ since[d.object] \in Nat /\ objs[d.object] \in Nat
  BY <1>2 DEF NotAfter
<1>4. ASSUME NEW n \in Names
      PROVE  IF Sets(d, n) /\ (d.object \in Secrets <=> secret)
               THEN /\ after[n] # None /\ after[n].from = Source(d)
                    /\ after[n].from \in Objects => after[n].version >= since[after[n].from]
               ELSE after[n] = env[n]
  <2>1. /\ Contents(d)[n] # None <=> Sets(d, n)
        /\ Contents(d)[n] # None =>
             Contents(d)[n].from = d.object /\ Contents(d)[n].version = objs[d.object]
    BY <1>1, ContentsSets
  <2>2. after[n] = IF Contents(d)[n] # None THEN Contents(d)[n] ELSE env[n]
    BY DEF Overlay
  <2>3. d.object \in Secrets <=> secret
    OBVIOUS
  <2> HIDE DEF after, d
  <2>4. CASE Sets(d, n)
    <3>1. after[n] = Contents(d)[n] /\ after[n] # None /\ after[n].from = d.object
          /\ after[n].version = objs[d.object]
      BY <2>1, <2>2, <2>4
    <3> QED BY <1>2, <1>3, <2>3, <2>4, <3>1
  <2>5. CASE ~Sets(d, n)
    BY <2>1, <2>2, <2>5
  <2> QED BY <2>4, <2>5
<1> HIDE DEF after
<1>5. Collected(s, after, i + 1, secret, since)
  BY <1>2, <1>4, CollectedNext
<1> QED BY <1>5 DEF after

LEMMA LiteralCollected ==
  ASSUME NEW s \in Specs, NEW i \in 1..Len(Decls(s)),
         NEW since, NEW env \in Env,
         Decls(s)[i].type = "literal",
         Collected(s, env, i, FALSE, since)
  PROVE  Collected(s, [env EXCEPT ![Decls(s)[i].name] = Plain], i + 1, FALSE, since)
<1> DEFINE d == Decls(s)[i]
           after == [env EXCEPT ![d.name] = Plain]
<1>1. d \in EnvFromEntries \cup EnvEntries
  BY DeclShape
<1>2. d.name \in Names /\ d.object \notin Secrets /\ Source(d) = "literal"
  BY <1>1, EntryShape, LiteralShape
<1>3. Plain \in Values /\ Plain # None /\ Plain.from = "literal" /\ "literal" \notin Objects
  BY PlainType, NoneIsNoEnv, ObjectAssumption DEF Plain, Value
<1>4. after \in Env
  BY <1>2, <1>3 DEF Env, Optional
<1>5. \A n \in Names : Sets(d, n) <=> d.name = n
  BY DEF Sets
<1>6. \A n \in Names : after[n] = IF n = d.name THEN Plain ELSE env[n]
  BY DEF Env
<1> HIDE DEF after, d
<1>7. \A n \in Names :
        IF Sets(d, n) /\ (d.object \in Secrets <=> FALSE)
          THEN /\ after[n] # None /\ after[n].from = Source(d)
               /\ after[n].from \in Objects => after[n].version >= since[after[n].from]
          ELSE after[n] = env[n]
  BY <1>2, <1>3, <1>5, <1>6
<1>8. Collected(s, after, i + 1, FALSE, since)
  BY <1>4, <1>7, CollectedNext DEF d
<1> QED BY <1>8 DEF after, d

\* An entry of the other kind changes nothing.
LEMMA OtherCollected ==
  ASSUME NEW s \in Specs, NEW i \in 1..Len(Decls(s)), NEW secret \in BOOLEAN,
         NEW since, NEW env \in Env,
         ~(Decls(s)[i].object \in Secrets <=> secret),
         Collected(s, env, i, secret, since)
  PROVE  Collected(s, env, i + 1, secret, since)
BY CollectedNext

LEMMA ReadingCollects ==
  ASSUME TypeInv, [Next]_vars, PassOK, ReadObject \/ ReadLiteral
  PROVE  /\ pass.at = "map" /\ pass'.at = "map" /\ pass'.i = pass.i + 1
         /\ pass'.i \in Nat /\ pass'.i <= End(spec)
         /\ pass'.ids = pass.ids /\ pass'.since = pass.since
         /\ Collected(spec, pass'.plain, pass'.i, FALSE, pass.since)
         /\ Collected(spec, pass'.secret, pass'.i, TRUE, pass.since)
<1>1. /\ pass \in PassType /\ pass.plain \in Env /\ pass.secret \in Env /\ spec \in Specs
      /\ objs \in [Objects -> Nat] /\ pass.since \in [Objects -> Nat]
  BY StepTypes DEF PassType
<1>2. pass.at = "map" /\ pass.i \in 1..Len(Decls(spec)) /\ Decl = Decls(spec)[pass.i]
  BY <1>1 DEF ReadObject, ReadLiteral, Reading, PassType, Decl
<1>3. pass.i + 1 \in Nat /\ pass.i + 1 <= End(spec)
  BY <1>1, <1>2, DeclsLength DEF End
<1>4. /\ NotAfter(pass.since, objs)
      /\ Collected(spec, pass.plain, pass.i, FALSE, pass.since)
      /\ Collected(spec, pass.secret, pass.i, TRUE, pass.since)
  BY DEF PassOK
<1>5. CASE ReadObject
  <2>1. Decl.type \in {"all", "key"}
    BY <1>5 DEF ReadObject
  <2>2. CASE Decl.object \in Secrets
    <3> DEFINE p == Overlay(pass.secret, Contents(Decl))
    <3>1. Collected(spec, p, pass.i + 1, TRUE, pass.since)
      BY <1>1, <1>2, <1>4, <2>1, <2>2, ObjectCollected
    <3>2. Collected(spec, pass.plain, pass.i + 1, FALSE, pass.since)
      BY <1>1, <1>2, <1>4, <2>2, OtherCollected
    <3>3. pass' = [pass EXCEPT !.i = @ + 1, !.secret = p]
      BY <1>5, <2>2 DEF ReadObject
    <3> HIDE DEF p
    <3> QED BY <1>1, <1>2, <1>3, <3>1, <3>2, <3>3 DEF PassType
  <2>3. CASE Decl.object \notin Secrets
    <3> DEFINE p == Overlay(pass.plain, Contents(Decl))
    <3>1. Collected(spec, p, pass.i + 1, FALSE, pass.since)
      BY <1>1, <1>2, <1>4, <2>1, <2>3, ObjectCollected
    <3>2. Collected(spec, pass.secret, pass.i + 1, TRUE, pass.since)
      BY <1>1, <1>2, <1>4, <2>3, OtherCollected
    <3>3. pass' = [pass EXCEPT !.i = @ + 1, !.plain = p]
      BY <1>5, <2>3 DEF ReadObject
    <3> HIDE DEF p
    <3> QED BY <1>1, <1>2, <1>3, <3>1, <3>2, <3>3 DEF PassType
  <2> QED BY <2>2, <2>3
<1>6. CASE ReadLiteral
  <2> DEFINE p == [pass.plain EXCEPT ![Decl.name] = Plain]
  <2>1. Decl.type = "literal" /\ Decl.object \notin Secrets
    BY <1>1, <1>2, <1>6, DeclShape, LiteralShape DEF ReadLiteral
  <2>2. Collected(spec, p, pass.i + 1, FALSE, pass.since)
    BY <1>1, <1>2, <1>4, <2>1, LiteralCollected
  <2>3. Collected(spec, pass.secret, pass.i + 1, TRUE, pass.since)
    BY <1>1, <1>2, <1>4, <2>1, OtherCollected
  <2>4. pass' = [pass EXCEPT !.i = @ + 1, !.plain = p]
    BY <1>6 DEF ReadLiteral
  <2> HIDE DEF p
  <2> QED BY <1>1, <1>2, <1>3, <2>2, <2>3, <2>4 DEF PassType
<1> QED BY <1>5, <1>6

\* All entries read, the map of secret values is empty when no entry needs one.
LEMMA EmptyWhenNone ==
  ASSUME NEW s \in Specs, NEW env \in Env, NEW secret \in BOOLEAN, NEW since,
         Collected(s, env, End(s), secret, since)
  PROVE  env = Empty <=> \A n \in Names : Before(s, n, End(s), secret) = {}
<1>1. env = Empty <=> \A n \in Names : env[n] = None
  BY DEF Env, Empty
<1>2. \A n \in Names : env[n] = None <=> Before(s, n, End(s), secret) = {}
  BY DEF Collected, Reflects
<1> QED BY <1>1, <1>2

LEMMA PassIdle ==
  ASSUME spec \in Specs, NotAfter(pass'.since, objs'), spec' = spec,
         pass'.at = "idle", pass'.i = 1, pass'.plain = Empty, pass'.secret = Empty
  PROVE  PassOK'
<1>1. 1 <= End(spec)
  BY DeclsLength
<1>2. /\ Collected(spec, Empty, 1, FALSE, pass'.since)
      /\ Collected(spec, Empty, 1, TRUE, pass'.since)
  BY CollectedNone
<1> QED BY <1>1, <1>2 DEF PassOK

LEMMA NeverBefore ==
  ASSUME NEW o \in [Objects -> Nat]
  PROVE  NotAfter(NoPass.since, o)
<1>1. NoPass.since = [x \in Objects |-> 0]
  BY DEF NoPass, Never
<1>2. \A x \in Objects : o[x] \in Nat
  OBVIOUS
<1> QED BY <1>1, <1>2 DEF NotAfter

\* The steps that keep all the pass has collected, and the session secret
\* once that is in place.
LEMMA PassKept ==
  ASSUME PassOK, spec' = spec, NotAfter(pass.since, objs'), blame \subseteq blame',
         pass'.i = pass.i, pass'.plain = pass.plain, pass'.secret = pass.secret,
         pass'.since = pass.since, pass'.i = End(spec) \/ pass'.at = pass.at,
         pass'.at \in {"map", "put"} => pass'.ids = spec.ids,
         pass'.at = "put" => pass'.secret # Empty,
         pass'.at \in {"role", "provision", "record"} =>
           IF pass.secret = Empty THEN pass'.ids = spec.ids
           ELSE pass'.ids = Append(spec.ids, Session) /\ asm' = pass.secret,
         pass'.at \in {"provision", "record"} => pass'.role = Role(spec) \/ blame' # {}
  PROVE  PassOK'
<1>1. /\ pass.i <= End(spec) /\ (pass.at \notin {"idle", "map"} => pass.i = End(spec))
      /\ Collected(spec, pass.plain, pass.i, FALSE, pass.since)
      /\ Collected(spec, pass.secret, pass.i, TRUE, pass.since)
  BY DEF PassOK
<1>2. /\ pass'.i <= End(spec') /\ (pass'.at \notin {"idle", "map"} => pass'.i = End(spec'))
      /\ NotAfter(pass'.since, objs')
      /\ Collected(spec', pass'.plain, pass'.i, FALSE, pass'.since)
      /\ Collected(spec', pass'.secret, pass'.i, TRUE, pass'.since)
  BY <1>1
<1> QED BY <1>2 DEF PassOK

LEMMA PassNext == TypeInv /\ PassOK /\ [Next]_vars => PassOK'
<1> SUFFICES ASSUME TypeInv, PassOK, [Next]_vars PROVE PassOK'
  OBVIOUS
<1>1. /\ pass \in PassType /\ vm \in [VMs -> VmType] /\ spec \in Specs
      /\ objs \in [Objects -> Nat] /\ objs' \in [Objects -> Nat]
      /\ pass.since \in [Objects -> Nat]
  BY StepTypes DEF PassType
<1>2. /\ NoPass.at = "idle" /\ NoPass.i = 1 /\ NoPass.plain = Empty /\ NoPass.secret = Empty
      /\ NotAfter(NoPass.since, objs')
  BY <1>1, NeverBefore DEF NoPass
<1>3. NotAfter(pass.since, objs)
  BY DEF PassOK
<1>4. CASE pass' = NoPass /\ spec' = spec
  BY <1>1, <1>2, <1>4, PassIdle
<1>5. CASE Begin
  <2>1. /\ pass'.at = "map" /\ pass'.i = 1 /\ pass'.plain = Empty /\ pass'.secret = Empty
        /\ pass'.ids = spec.ids /\ pass'.since = objs /\ spec' = spec /\ objs' = objs
    BY <1>5 DEF Begin, NoPass
  <2>2. NotAfter(objs, objs)
    BY <1>1 DEF NotAfter
  <2>3. 1 <= End(spec)
    BY <1>1, DeclsLength
  <2>4. /\ Collected(spec, Empty, 1, FALSE, objs)
        /\ Collected(spec, Empty, 1, TRUE, objs)
    BY <1>1, CollectedNone
  <2> QED BY <2>1, <2>2, <2>3, <2>4 DEF PassOK
<1>6. CASE ReadObject \/ ReadLiteral
  <2>1. spec' = spec /\ objs' = objs
    BY <1>6 DEF ReadObject, ReadLiteral
  <2>2. pass.ids = spec.ids
    BY <1>6, ReadingCollects DEF PassOK
  <2> QED BY <1>3, <1>6, <2>1, <2>2, ReadingCollects DEF PassOK
<1>7. CASE Mapped
  <2>1. /\ pass.at = "map" /\ pass.i > Len(Decls(spec))
        /\ pass'.i = pass.i /\ pass'.plain = pass.plain /\ pass'.secret = pass.secret
        /\ pass'.ids = pass.ids /\ pass'.since = pass.since
        /\ pass'.at = IF pass.secret = Empty THEN "role" ELSE "put"
        /\ spec' = spec /\ objs' = objs /\ blame' = blame
    BY <1>1, <1>7 DEF Mapped, PassType
  <2>2. pass.i = End(spec)
    <3>1. pass.i <= End(spec) /\ pass.i \in Nat /\ Len(Decls(spec)) \in Nat
      BY <1>1, DeclsLength DEF PassOK, PassType
    <3> QED BY <2>1, <3>1 DEF End
  <2>3. pass.ids = spec.ids
    BY <2>1 DEF PassOK
  <2> QED BY <1>3, <2>1, <2>2, <2>3, PassKept
<1>8. CASE PutSecret
  <2>1. /\ pass.at = "put" /\ asm' = pass.secret
        /\ pass'.i = pass.i /\ pass'.plain = pass.plain /\ pass'.secret = pass.secret
        /\ pass'.ids = Append(pass.ids, Session) /\ pass'.since = pass.since
        /\ pass'.at = "role" /\ spec' = spec /\ objs' = objs /\ blame' = blame
    BY <1>1, <1>8 DEF PutSecret, PassType
  <2>2. pass.ids = spec.ids /\ pass.secret # Empty /\ pass.i = End(spec)
    BY <2>1 DEF PassOK
  <2> QED BY <1>3, <2>1, <2>2, PassKept
<1>9. CASE ResolveRole \/ RoleLookupFails
  <2>1. /\ pass.at = "role" /\ asm' = asm
        /\ pass'.i = pass.i /\ pass'.plain = pass.plain /\ pass'.secret = pass.secret
        /\ pass'.ids = pass.ids /\ pass'.since = pass.since
        /\ pass'.at = "provision" /\ spec' = spec /\ objs' = objs /\ blame \subseteq blame'
        /\ pass'.role = Role(spec) \/ blame' # {}
    <3>1. CASE ResolveRole
      BY <1>1, <3>1 DEF ResolveRole, PassType
    <3>2. CASE RoleLookupFails
      BY <1>1, <3>2 DEF RoleLookupFails, PassType
    <3> QED BY <1>9, <3>1, <3>2
  <2>2. /\ pass.i = End(spec)
        /\ IF pass.secret = Empty THEN pass.ids = spec.ids
           ELSE pass.ids = Append(spec.ids, Session) /\ asm = pass.secret
    BY <2>1 DEF PassOK
  <2> QED BY <1>3, <2>1, <2>2, PassKept
<1>10. CASE WarmAdopt \/ ColdRun
  <2>1. /\ pass.at = "provision" /\ asm' = asm
        /\ pass'.i = pass.i /\ pass'.plain = pass.plain /\ pass'.secret = pass.secret
        /\ pass'.ids = pass.ids /\ pass'.since = pass.since /\ pass'.role = pass.role
        /\ pass'.at = "record" /\ spec' = spec /\ objs' = objs /\ blame' = blame
    BY <1>1, <1>10 DEF WarmAdopt, ColdRun, PassType
  <2>2. /\ pass.i = End(spec)
        /\ IF pass.secret = Empty THEN pass.ids = spec.ids
           ELSE pass.ids = Append(spec.ids, Session) /\ asm = pass.secret
        /\ pass.role = Role(spec) \/ blame # {}
    BY <2>1 DEF PassOK
  <2> QED BY <1>3, <2>1, <2>2, PassKept
<1>11. ASSUME pass' = pass, spec' = spec, asm' = asm, blame \subseteq blame',
              NotAfter(pass.since, objs')
       PROVE  PassOK'
  BY <1>11 DEF PassOK
<1>12. CASE Reject \/ PutSecretFails \/ ColdRunFails \/ RecordId
  <2>1. pass' = NoPass /\ spec' = spec
    BY <1>12 DEF Reject, PutSecretFails, ColdRunFails, RecordId, GiveUp
  <2> QED BY <1>4, <2>1
<1>13. CASE \E v \in VMs : FetchSecret(v) \/ FetchFails(v) \/ Apply(v)
  <2>1. pass' = pass /\ spec' = spec /\ asm' = asm /\ blame \subseteq blame' /\ objs' = objs
    BY <1>13 DEF FetchSecret, FetchFails, Apply
  <2> QED BY <1>3, <1>11, <2>1
<1>14. CASE \E o \in Objects : Edit(o)
  <2>1. PICK o \in Objects : Edit(o)
    BY <1>14
  <2>2. \A x \in Objects : objs[x] <= objs'[x]
    BY <1>1, <2>1 DEF Edit
  <2>3. \A x \in Objects : pass.since[x] \in Nat /\ objs[x] \in Nat /\ objs'[x] \in Nat
    BY <1>1
  <2>4. NotAfter(pass.since, objs')
    BY <1>3, <2>2, <2>3 DEF NotAfter
  <2>5. pass' = pass /\ spec' = spec /\ asm' = asm /\ blame' = blame
    BY <2>1 DEF Edit
  <2> QED BY <1>11, <2>4, <2>5
<1>15. CASE Tick \/ UNCHANGED vars
  <2>1. pass' = pass /\ spec' = spec /\ asm' = asm /\ blame' = blame /\ objs' = objs
    BY <1>15 DEF Tick, vars
  <2> QED BY <1>3, <1>11, <2>1
<1> QED BY <1>5, <1>6, <1>7, <1>8, <1>9, <1>10, <1>12, <1>13, <1>14, <1>15 DEF Next

-----------------------------------------------------------------------------
(* A MicroVM has what its pass collected, and its hook fetches it.          *)

LEMMA UserIdsAreIds ==
  ASSUME NEW s \in Specs
  PROVE  /\ UserIds(s) \subseteq Ids /\ Session \notin UserIds(s)
         /\ Session \notin Ids /\ s.ids \in Seq(Ids)
<1>1. s.ids \in Seq(Ids)
  BY SpecFacts
<1>2. \A i \in 1..Len(s.ids) : s.ids[i] \in Ids
  BY <1>1, ElementOfSeq
<1>3. Session \notin Ids
  BY ObjectAssumption DEF Session
<1> QED BY <1>1, <1>2, <1>3 DEF UserIds

\* The secret is needed when, and only when, the pass has some.
LEMMA NeedsSecretWhen ==
  ASSUME NEW s \in Specs, NEW env \in Env, NEW since,
         Collected(s, env, End(s), TRUE, since)
  PROVE  NeedsSecret(s) <=> env # Empty
BY EmptyWhenNone DEF NeedsSecret

LEMMA NotAfterTransitive ==
  ASSUME NEW a \in [Objects -> Nat], NEW b \in [Objects -> Nat], NEW c \in [Objects -> Nat],
         NotAfter(a, b), NotAfter(b, c)
  PROVE  NotAfter(a, c)
<1>1. \A o \in Objects : a[o] \in Nat /\ b[o] \in Nat /\ c[o] \in Nat /\ a[o] <= b[o] /\ b[o] <= c[o]
  BY DEF NotAfter
<1> QED BY <1>1 DEF NotAfter

\* What else happens leaves a MicroVM as it should be: objects get newer, the
\* passes that follow are newer than the one that launched it, and so is the
\* session secret that one of them puts.
LEMMA VmKept ==
  ASSUME TypeInv, [Next]_vars, NEW v \in VMs, VmOK(v), PassOK,
         vm'[v] = vm[v], spec' = spec, blame \subseteq blame', NotAfter(objs, objs'),
         pass'.at # "idle" =>
           (pass.at # "idle" /\ pass'.since = pass.since) \/ pass'.since = objs,
         asm' = asm \/ (pass.at = "put" /\ asm' = pass.secret)
  PROVE  VmOK(v)'
<1> DEFINE m == vm[v]
<1>1. /\ m \in VmType /\ m.since \in [Objects -> Nat] /\ spec \in Specs
      /\ pass \in PassType /\ pass.since \in [Objects -> Nat] /\ pass.secret \in Env
      /\ objs \in [Objects -> Nat] /\ objs' \in [Objects -> Nat]
      /\ asm \in Env \cup {None}
  BY StepTypes DEF PassType, VmType
<1>2. CASE m.launch # "cold"
  BY <1>2 DEF VmOK
<1>3. CASE m.launch = "cold"
  <2>1. /\ NotAfter(m.since, objs) /\ (pass.at # "idle" => NotAfter(m.since, pass.since))
        /\ m.role = Role(spec) \/ blame # {}
        /\ Collected(spec, m.plain, End(spec), FALSE, m.since)
        /\ NeedsSecret(spec) => asm # None /\ Collected(spec, asm, End(spec), TRUE, m.since)
        /\ IdsOK(spec, m.ids) /\ FetchedOK(spec, m.fetched, m.since)
        /\ m.ids = <<>> => SecretsMissed \/ Complete(spec, m.fetched, m.since)
    BY <1>3 DEF VmOK
  <2>2. NotAfter(m.since, objs')
    BY <1>1, <2>1, NotAfterTransitive
  <2>3. pass'.at # "idle" => NotAfter(m.since, pass'.since)
    BY <2>1
  <2>4. NeedsSecret(spec) => asm' # None /\ Collected(spec, asm', End(spec), TRUE, m.since)
    <3>1. CASE asm' = asm
      BY <2>1, <3>1
    <3>2. CASE pass.at = "put" /\ asm' = pass.secret
      <4>1. pass.i = End(spec) /\ Collected(spec, pass.secret, End(spec), TRUE, pass.since)
        BY <3>2 DEF PassOK
      <4>2. Collected(spec, pass.secret, End(spec), TRUE, m.since)
        BY <1>1, <2>1, <3>2, <4>1, CollectedEarlier
      <4>3. pass.secret # None
        BY <1>1, NoneIsNoEnv
      <4> QED BY <3>2, <4>2, <4>3
    <3> QED BY <3>1, <3>2
  <2>5. SecretsMissed => SecretsMissed'
    BY DEF SecretsMissed
  <2>6. m.role = Role(spec) \/ blame' # {}
    BY <2>1
  <2>7. vm'[v] = m
    OBVIOUS
  <2>8. /\ m.at = "fetch" => m.launch = "cold"
        /\ m.at = "ready" => m.launch \in {"cold", "warm"}
        /\ m.launch = "warm" => m.env = Empty /\ \A n \in Names : Setting(spec, n) = {}
        /\ m.at = "ready" => m.ids = <<>> /\ m.env = Overlay(m.plain, m.fetched)
    BY <1>3 DEF VmOK
  <2> HIDE DEF m
  <2> QED BY <2>1, <2>2, <2>3, <2>4, <2>5, <2>6, <2>7, <2>8 DEF VmOK
<1> QED BY <1>2, <1>3

\* The list of secrets of a pass: those of the user, and the session secret
\* after them when there is one.
LEMMA LaunchedIds ==
  ASSUME TypeInv, PassOK, pass.at = "provision"
  PROVE  /\ IdsOK(spec, pass.ids)
         /\ pass.ids = <<>> => ~NeedsSecret(spec)
         /\ NeedsSecret(spec) => asm = pass.secret
<1>1. pass.secret \in Env /\ spec \in Specs
  BY DEF TypeInv, TypeOK
<1>2. /\ pass.i = End(spec) /\ Collected(spec, pass.secret, End(spec), TRUE, pass.since)
      /\ IF pass.secret = Empty THEN pass.ids = spec.ids
         ELSE pass.ids = Append(spec.ids, Session) /\ asm = pass.secret
  BY DEF PassOK
<1>3. NeedsSecret(spec) <=> pass.secret # Empty
  BY <1>1, <1>2, NeedsSecretWhen
<1>4. spec.ids \in Seq(Ids) /\ Len(spec.ids) \in Nat
  BY <1>1, UserIdsAreIds, LenProperties
<1>5. \A i \in 1..Len(spec.ids) : spec.ids[i] \in UserIds(spec)
  BY DEF UserIds
<1>6. CASE pass.secret = Empty
  BY <1>2, <1>3, <1>5, <1>6 DEF IdsOK
<1>7. CASE pass.secret # Empty
  <2>1. PICK ids : ids = pass.ids
    OBVIOUS
  <2>2. /\ ids = Append(spec.ids, Session)
        /\ Len(ids) = Len(spec.ids) + 1
        /\ \A i \in 1..Len(spec.ids) : ids[i] = spec.ids[i]
        /\ ids[Len(spec.ids) + 1] = Session
    BY <1>2, <1>4, <1>7, <2>1, AppendProperties
  <2>3. \A i \in 1..Len(ids) : ids[i] \in UserIds(spec) \/ (ids[i] = Session /\ NeedsSecret(spec))
    BY <1>3, <1>4, <1>5, <1>7, <2>2
  <2>4. ids[Len(ids)] = Session /\ ids # <<>>
    BY <1>4, <2>2
  <2> QED BY <1>2, <1>3, <1>7, <2>1, <2>3, <2>4 DEF IdsOK
<1> QED BY <1>6, <1>7

LEMMA EmptyFetched ==
  ASSUME NEW s, NEW since
  PROVE  FetchedOK(s, Empty, since)
BY DEF FetchedOK, Empty

LEMMA LaunchedOK ==
  ASSUME TypeInv, [Next]_vars, PassOK, pass.at = "provision",
         NEW v \in VMs, vm'[v] = Launched,
         spec' = spec, objs' = objs, asm' = asm, blame' = blame,
         pass'.at = "idle" \/ pass'.since = pass.since
  PROVE  VmOK(v)'
<1>1. /\ pass \in PassType /\ pass.since \in [Objects -> Nat] /\ pass.secret \in Env
      /\ spec \in Specs
  BY StepTypes DEF PassType
<1>2. PICK m : m = Launched
  OBVIOUS
<1>3. /\ m.at = "fetch" /\ m.launch = "cold" /\ m.role = pass.role /\ m.plain = pass.plain
      /\ m.ids = pass.ids /\ m.fetched = Empty /\ m.since = pass.since
  BY <1>2 DEF Launched, NoVM
<1>4. /\ pass.i = End(spec) /\ NotAfter(pass.since, objs)
      /\ Collected(spec, pass.plain, End(spec), FALSE, pass.since)
      /\ Collected(spec, pass.secret, End(spec), TRUE, pass.since)
      /\ pass.role = Role(spec) \/ blame # {}
  BY DEF PassOK
<1>5. pass'.at # "idle" => NotAfter(m.since, pass'.since)
  BY <1>1, <1>3 DEF NotAfter
<1>6. NeedsSecret(spec) => asm # None /\ Collected(spec, asm, End(spec), TRUE, m.since)
  BY <1>1, <1>3, <1>4, LaunchedIds, NoneIsNoEnv
<1>7. IdsOK(spec, m.ids) /\ FetchedOK(spec, m.fetched, m.since)
  BY <1>3, LaunchedIds, EmptyFetched
<1>8. m.ids = <<>> => Complete(spec, m.fetched, m.since)
  BY <1>3, LaunchedIds DEF Complete, NeedsSecret
<1>9. vm'[v] = m
  BY <1>2
<1>10. /\ vm'[v].at = "fetch" /\ vm'[v].launch = "cold"
       /\ NotAfter(vm'[v].since, objs') /\ (pass'.at # "idle" => NotAfter(vm'[v].since, pass'.since))
       /\ vm'[v].role = Role(spec') \/ blame' # {}
       /\ Collected(spec', vm'[v].plain, End(spec'), FALSE, vm'[v].since)
       /\ NeedsSecret(spec') => asm' # None /\ Collected(spec', asm', End(spec'), TRUE, vm'[v].since)
       /\ IdsOK(spec', vm'[v].ids) /\ FetchedOK(spec', vm'[v].fetched, vm'[v].since)
       /\ vm'[v].ids = <<>> => Complete(spec', vm'[v].fetched, vm'[v].since)
  BY <1>3, <1>4, <1>5, <1>6, <1>7, <1>8, <1>9
<1> QED BY <1>10 DEF VmOK

\* A MicroVM of the pool goes to a Sandbox that sets nothing.
LEMMA WarmSetsNothing ==
  ASSUME TypeInv, PassOK, WarmAdopt, NEW n \in Names
  PROVE  Setting(spec, n) = {}
<1>1. /\ pass.plain \in Env /\ pass.secret \in Env /\ spec \in Specs
      /\ pass.plain = Empty /\ pass.secret = Empty /\ pass.at = "provision"
  BY DEF TypeInv, TypeOK, WarmAdopt, WarmEligible
<1>2. /\ pass.i = End(spec)
      /\ Collected(spec, pass.plain, End(spec), FALSE, pass.since)
      /\ Collected(spec, pass.secret, End(spec), TRUE, pass.since)
  BY <1>1 DEF PassOK
<1>3. Before(spec, n, End(spec), FALSE) = {} /\ Before(spec, n, End(spec), TRUE) = {}
  BY <1>1, <1>2, EmptyWhenNone
<1>4. Setting(spec, n) = Before(spec, n, End(spec), TRUE) \cup Before(spec, n, End(spec), FALSE)
  BY <1>1, BeforeEnd
<1> QED BY <1>3, <1>4

\* Of a list of secrets, the rest of it is still as it should be; the last to
\* be fetched is the session secret.
LEMMA RestOfIds ==
  ASSUME NEW s \in Specs, NEW ids \in Seq(Ids \cup {Session}), ids # <<>>, IdsOK(s, ids)
  PROVE  /\ IdsOK(s, Tail(ids))
         /\ Head(ids) \in UserIds(s) \/ (Head(ids) = Session /\ NeedsSecret(s))
         /\ Tail(ids) = <<>> /\ NeedsSecret(s) => Head(ids) = Session
<1>1. PICK t, k : t = Tail(ids) /\ k = Len(ids)
  OBVIOUS
<1>2. /\ k \in Nat /\ k >= 1 /\ Head(ids) = ids[1] /\ Len(t) = k - 1
      /\ t \in Seq(Ids \cup {Session})
  BY <1>1, HeadTailProperties, LenProperties, EmptySeq
<1>3. \A i \in 1..Len(t) : t[i] = ids[i + 1]
  BY <1>1, <1>2, HeadTailProperties
<1>4. /\ \A i \in 1..k : ids[i] \in UserIds(s) \/ (ids[i] = Session /\ NeedsSecret(s))
      /\ NeedsSecret(s) => ids[k] = Session
  BY <1>1 DEF IdsOK
<1>5. \A i \in 1..Len(t) : t[i] \in UserIds(s) \/ (t[i] = Session /\ NeedsSecret(s))
  BY <1>2, <1>3, <1>4
<1>6. t # <<>> => Len(t) \in 1..Len(t) /\ Len(t) + 1 = k
  BY <1>2, EmptySeq
<1>7. NeedsSecret(s) /\ t # <<>> => t[Len(t)] = Session
  BY <1>3, <1>4, <1>6
<1>8. t = <<>> => k = 1
  BY <1>2, EmptySeq
<1>9. IdsOK(s, t)
  BY <1>5, <1>7 DEF IdsOK
<1> QED BY <1>1, <1>2, <1>4, <1>8, <1>9

LEMMA FetchedSession ==
  ASSUME NEW s \in Specs, NEW since, NEW fetched \in Env, NEW secret \in Env,
         FetchedOK(s, fetched, since), Collected(s, secret, End(s), TRUE, since)
  PROVE  /\ FetchedOK(s, Overlay(fetched, secret), since)
         /\ Complete(s, Overlay(fetched, secret), since)
<1>1. PICK all : all = Overlay(fetched, secret)
  OBVIOUS
<1>2. \A n \in Names : all[n] = IF secret[n] # None THEN secret[n] ELSE fetched[n]
  BY <1>1 DEF Overlay
<1>3. \A n \in Names : /\ Reflects(s, secret[n], Before(s, n, End(s), TRUE), since)
                       /\ secret[n] # None <=> Before(s, n, End(s), TRUE) # {}
  BY DEF Collected, Reflects
<1>4. FetchedOK(s, all, since)
  <2> SUFFICES ASSUME NEW n \in Names
               PROVE  \/ all[n] = None
                      \/ all[n].from \in UserIds(s) /\ SetByUser(s, n)
                      \/ /\ Before(s, n, End(s), TRUE) # {}
                         /\ Reflects(s, all[n], Before(s, n, End(s), TRUE), since)
    BY DEF FetchedOK
  <2>1. CASE secret[n] # None
    <3>1. all[n] = secret[n]
      BY <1>2, <2>1
    <3> QED BY <1>3, <2>1, <3>1
  <2>2. CASE secret[n] = None
    <3>1. all[n] = fetched[n]
      BY <1>2, <2>2
    <3> QED BY <3>1 DEF FetchedOK
  <2> QED BY <2>1, <2>2
<1>5. Complete(s, all, since)
  <2> SUFFICES ASSUME NEW n \in Names, Before(s, n, End(s), TRUE) # {}
               PROVE  Reflects(s, all[n], Before(s, n, End(s), TRUE), since)
    BY DEF Complete
  <2>1. all[n] = secret[n]
    BY <1>2, <1>3
  <2> QED BY <1>3, <2>1
<1> QED BY <1>1, <1>4, <1>5

LEMMA FetchedUser ==
  ASSUME NEW s \in Specs, NEW since, NEW fetched \in Env,
         NEW i \in UserIds(s), Content[i] # None, FetchedOK(s, fetched, since)
  PROVE  FetchedOK(s, Overlay(fetched, Fetched(i)), since)
<1>1. i # Session /\ i \in Ids
  BY UserIdsAreIds
<1>2. PICK f : f = Fetched(i)
  OBVIOUS
<1>3. PICK all : all = Overlay(fetched, f)
  OBVIOUS
<1>4. \A n \in Names : f[n] = IF n \in Content[i] THEN Value(i, None, 0) ELSE None
  BY <1>1, <1>2 DEF Fetched
<1>5. Value(i, None, 0).from = i
  BY DEF Value
<1>6. \A n \in Names : all[n] = IF f[n] # None THEN f[n] ELSE fetched[n]
  BY <1>3 DEF Overlay
<1> SUFFICES ASSUME NEW n \in Names
             PROVE  \/ all[n] = None
                    \/ all[n].from \in UserIds(s) /\ SetByUser(s, n)
                    \/ /\ Before(s, n, End(s), TRUE) # {}
                       /\ Reflects(s, all[n], Before(s, n, End(s), TRUE), since)
  BY <1>2, <1>3 DEF FetchedOK
<1>7. CASE f[n] # None
  <2>1. all[n] = f[n] /\ f[n].from = i /\ n \in Content[i]
    BY <1>4, <1>5, <1>6, <1>7
  <2>2. SetByUser(s, n)
    BY <2>1 DEF SetByUser
  <2> QED BY <2>1, <2>2
<1>8. CASE f[n] = None
  <2>1. all[n] = fetched[n]
    BY <1>6, <1>8
  <2> QED BY <2>1 DEF FetchedOK
<1> QED BY <1>7, <1>8

\* The steps of a hook.
LEMMA HookOK ==
  ASSUME TypeInv, [Next]_vars, NEW v \in VMs, VmOK(v),
         FetchSecret(v) \/ FetchFails(v) \/ Apply(v)
  PROVE  VmOK(v)'
<1>1. PICK m, w : m = vm[v] /\ w = vm'[v]
  OBVIOUS
<1>2. /\ m \in VmType /\ m.fetched \in Env /\ m.ids \in Seq(Ids \cup {Session})
      /\ vm \in [VMs -> VmType] /\ spec \in Specs /\ asm \in Env \cup {None}
  BY <1>1, StepTypes DEF VmType
<1>3. m.at = "fetch"
  BY <1>1 DEF FetchSecret, FetchFails, Apply, Fetching
<1>4. /\ m.launch = "cold" /\ NotAfter(m.since, objs)
      /\ pass.at # "idle" => NotAfter(m.since, pass.since)
      /\ m.role = Role(spec) \/ blame # {}
      /\ Collected(spec, m.plain, End(spec), FALSE, m.since)
      /\ NeedsSecret(spec) => asm # None /\ Collected(spec, asm, End(spec), TRUE, m.since)
      /\ IdsOK(spec, m.ids) /\ FetchedOK(spec, m.fetched, m.since)
      /\ m.ids = <<>> => SecretsMissed \/ Complete(spec, m.fetched, m.since)
  BY <1>1, <1>3 DEF VmOK
<1>5. spec' = spec /\ objs' = objs /\ asm' = asm /\ pass' = pass /\ blame \subseteq blame'
  BY DEF FetchSecret, FetchFails, Apply
<1>6. SecretsMissed => SecretsMissed'
  BY <1>5 DEF SecretsMissed
<1>7. /\ w.launch = m.launch /\ w.role = m.role /\ w.plain = m.plain /\ w.since = m.since
      /\ w.at \in {"fetch", "ready"}
      /\ w.at = "ready" => w.ids = <<>> /\ w.env = Overlay(w.plain, w.fetched)
  <2>1. CASE FetchSecret(v) \/ FetchFails(v)
    BY <1>1, <1>2, <1>3, <2>1 DEF FetchSecret, FetchFails, VmType
  <2>2. CASE Apply(v)
    <3>1. PICK e : e = Overlay(m.plain, m.fetched)
      OBVIOUS
    <3>2. w = [m EXCEPT !.at = "ready", !.env = e] /\ m.ids = <<>>
      BY <1>1, <1>2, <2>2, <3>1 DEF Apply
    <3> QED BY <1>2, <3>1, <3>2 DEF VmType
  <2> QED BY <2>1, <2>2
<1>8. SUFFICES /\ IdsOK(spec, w.ids) /\ FetchedOK(spec, w.fetched, m.since)
               /\ w.ids = <<>> => SecretsMissed' \/ Complete(spec, w.fetched, m.since)
  <2>1. /\ w.at = "fetch" => w.launch = "cold"
        /\ w.at = "ready" => w.launch \in {"cold", "warm"}
        /\ w.launch # "warm"
        /\ NotAfter(w.since, objs') /\ (pass'.at # "idle" => NotAfter(w.since, pass'.since))
        /\ w.role = Role(spec') \/ blame' # {}
        /\ Collected(spec', w.plain, End(spec'), FALSE, w.since)
        /\ NeedsSecret(spec') => asm' # None /\ Collected(spec', asm', End(spec'), TRUE, w.since)
    BY <1>4, <1>5, <1>7
  <2>2. /\ IdsOK(spec', w.ids) /\ FetchedOK(spec', w.fetched, w.since)
        /\ w.ids = <<>> => SecretsMissed' \/ Complete(spec', w.fetched, w.since)
    BY <1>5, <1>7, <1>8
  <2> QED BY <1>1, <1>7, <2>1, <2>2 DEF VmOK
<1>9. CASE FetchSecret(v)
  <2>1. PICK i : i = Head(m.ids)
    OBVIOUS
  <2>2. /\ m.ids # <<>> /\ Readable(i) /\ m.role # None
        /\ w.ids = Tail(m.ids) /\ w.fetched = Overlay(m.fetched, Fetched(i))
    BY <1>1, <1>2, <1>9, <2>1 DEF FetchSecret, Fetching, VmType
  <2>3. /\ IdsOK(spec, w.ids)
        /\ i \in UserIds(spec) \/ (i = Session /\ NeedsSecret(spec))
        /\ w.ids = <<>> /\ NeedsSecret(spec) => i = Session
    BY <1>2, <1>4, <2>1, <2>2, RestOfIds
  <2>4. CASE i = Session
    <3>1. NeedsSecret(spec)
      BY <1>2, <2>3, <2>4, UserIdsAreIds
    <3>2. asm \in Env /\ Collected(spec, asm, End(spec), TRUE, m.since)
      BY <1>2, <1>4, <3>1
    <3>3. Fetched(i) = asm
      BY <2>4 DEF Fetched
    <3>4. FetchedOK(spec, w.fetched, m.since) /\ Complete(spec, w.fetched, m.since)
      BY <1>2, <1>4, <2>2, <3>2, <3>3, FetchedSession
    <3> QED BY <2>3, <3>4
  <2>5. CASE i # Session
    <3>1. i \in UserIds(spec) /\ Content[i] # None
      BY <2>2, <2>3, <2>5 DEF Readable
    <3>2. FetchedOK(spec, w.fetched, m.since)
      BY <1>2, <1>4, <2>2, <3>1, FetchedUser
    <3>3. w.ids = <<>> => ~NeedsSecret(spec)
      BY <2>3, <2>5
    <3>4. w.ids = <<>> => Complete(spec, w.fetched, m.since)
      BY <3>3 DEF Complete, NeedsSecret
    <3> QED BY <2>3, <3>2, <3>4
  <2> QED BY <2>4, <2>5
<1>10. CASE FetchFails(v)
  <2>1. PICK i : i = Head(m.ids)
    OBVIOUS
  <2>2. /\ m.ids # <<>> /\ w.ids = <<>> /\ w.fetched = m.fetched
        /\ m.role = None \/ ~Readable(i) \/ blame' = blame \cup {"fetch"}
    BY <1>1, <1>2, <1>10, <2>1 DEF FetchFails, Fetching, VmType
  <2>3. IdsOK(spec, w.ids)
    BY <2>2 DEF IdsOK
  <2>4. SecretsMissed'
    <3>1. CASE m.role = None
      <4>1. Role(spec) = None \/ blame # {}
        BY <1>4, <3>1
      <4> QED BY <1>5, <4>1 DEF SecretsMissed
    <3>2. CASE ~Readable(i)
      <4>1. i # Session /\ Content[i] = None
        BY <3>2 DEF Readable
      <4>2. i \in UserIds(spec)
        BY <1>2, <1>4, <2>1, <2>2, <4>1, RestOfIds
      <4> QED BY <1>5, <4>1, <4>2 DEF SecretsMissed
    <3>3. CASE blame' = blame \cup {"fetch"}
      BY <3>3 DEF SecretsMissed
    <3> QED BY <2>2, <3>1, <3>2, <3>3
  <2> QED BY <1>4, <2>2, <2>3, <2>4
<1>11. CASE Apply(v)
  <2>1. w.ids = m.ids /\ w.fetched = m.fetched
    BY <1>1, <1>2, <1>11 DEF Apply, VmType
  <2> QED BY <1>4, <1>6, <2>1
<1> QED BY <1>9, <1>10, <1>11

\* What a step may do to the time of a pass, to the session secret and to the
\* objects.
LEMMA StepSince ==
  ASSUME TypeInv, [Next]_vars
  PROVE  /\ pass'.at # "idle" =>
              (pass.at # "idle" /\ pass'.since = pass.since) \/ pass'.since = objs
         /\ asm' = asm \/ (pass.at = "put" /\ asm' = pass.secret)
         /\ spec' = spec /\ blame \subseteq blame' /\ NotAfter(objs, objs')
<1>1. /\ pass \in PassType /\ vm \in [VMs -> VmType]
      /\ objs \in [Objects -> Nat] /\ objs' \in [Objects -> Nat]
  BY StepTypes
<1>2. NotAfter(objs, objs)
  BY <1>1 DEF NotAfter
<1>3. NoPass.at = "idle"
  BY DEF NoPass
<1>4. CASE Begin \/ ReadLiteral \/ Mapped \/ Reject
  <2>1. CASE Begin
    BY <1>2, <2>1 DEF Begin, NoPass
  <2>2. CASE ReadLiteral \/ Mapped
    BY <1>1, <1>2, <2>2 DEF ReadLiteral, Reading, Mapped, PassType
  <2>3. CASE Reject
    BY <1>2, <1>3, <2>3 DEF Reject, GiveUp
  <2> QED BY <1>4, <2>1, <2>2, <2>3
<1>5. CASE ReadObject
  BY <1>1, <1>2, <1>5 DEF ReadObject, Reading, PassType
<1>6. CASE PutSecret \/ PutSecretFails \/ ResolveRole
  BY <1>1, <1>2, <1>3, <1>6 DEF PutSecret, PutSecretFails, ResolveRole, GiveUp, PassType
<1>7. CASE RoleLookupFails
  BY <1>1, <1>2, <1>7 DEF RoleLookupFails, PassType
<1>8. CASE WarmAdopt \/ ColdRun \/ ColdRunFails \/ RecordId
  BY <1>1, <1>2, <1>3, <1>8 DEF WarmAdopt, ColdRun, ColdRunFails, RecordId, GiveUp, PassType
<1>9. CASE \E v \in VMs : FetchSecret(v) \/ FetchFails(v) \/ Apply(v)
  <2>1. pass' = pass /\ spec' = spec /\ asm' = asm /\ blame \subseteq blame' /\ objs' = objs
    BY <1>9 DEF FetchSecret, FetchFails, Apply
  <2> QED BY <1>2, <2>1
<1>10. CASE \E o \in Objects : Edit(o)
  <2>1. PICK o \in Objects : Edit(o)
    BY <1>10
  <2>2. \A x \in Objects : objs[x] <= objs'[x]
    BY <1>1, <2>1 DEF Edit
  <2>3. pass' = pass /\ spec' = spec /\ asm' = asm /\ blame' = blame
    BY <2>1 DEF Edit
  <2> QED BY <2>2, <2>3 DEF NotAfter
<1>11. CASE Tick \/ UNCHANGED vars
  <2>1. pass' = pass /\ spec' = spec /\ asm' = asm /\ blame' = blame /\ objs' = objs
    BY <1>11 DEF Tick, vars
  <2> QED BY <1>2, <2>1
<1> QED BY <1>4, <1>5, <1>6, <1>7, <1>8, <1>9, <1>10, <1>11 DEF Next

LEMMA VmsNext ==
  ASSUME TypeInv, PassOK, \A v \in VMs : VmOK(v), [Next]_vars
  PROVE  (\A v \in VMs : VmOK(v))'
<1> SUFFICES ASSUME NEW u \in VMs PROVE VmOK(u)'
  OBVIOUS
<1>1. vm \in [VMs -> VmType] /\ pass \in PassType /\ VmOK(u)
  BY StepTypes
<1>2. CASE vm'[u] = vm[u]
  BY <1>1, <1>2, StepSince, VmKept
<1>3. ASSUME WarmAdopt, vm'[u] # vm[u] PROVE VmOK(u)'
  <2> DEFINE m == [NoVM EXCEPT !.at = "ready", !.launch = "warm",
                     !.image = WarmImage, !.role = WarmRole, !.born = clock]
  <2>1. PICK v \in VMs : vm' = [vm EXCEPT ![v] = m]
    BY <1>3 DEF WarmAdopt
  <2>2. m.at = "ready" /\ m.launch = "warm" /\ m.env = Empty
    BY DEF NoVM
  <2> HIDE DEF m
  <2>3. vm'[u] = m
    BY <1>1, <1>3, <2>1
  <2>4. spec' = spec /\ \A n \in Names : Setting(spec, n) = {}
    BY <1>3, WarmSetsNothing DEF WarmAdopt
  <2>5. \A n \in Names : Setting(spec', n) = {}
    BY <2>4
  <2> QED BY <2>2, <2>3, <2>5 DEF VmOK
<1>4. ASSUME ColdRun \/ ColdRunFails, vm'[u] # vm[u] PROVE VmOK(u)'
  <2>1. vm'[u] = Launched
    BY <1>1, <1>4 DEF ColdRun, ColdRunFails
  <2>2. NoPass.at = "idle"
    BY DEF NoPass
  <2>3. /\ pass.at = "provision"
        /\ spec' = spec /\ objs' = objs /\ asm' = asm /\ blame' = blame
        /\ pass'.at = "idle" \/ pass'.since = pass.since
    BY <1>1, <1>4, <2>2 DEF ColdRun, ColdRunFails, GiveUp, PassType
  <2> QED BY <2>1, <2>3, LaunchedOK
<1>5. ASSUME NEW v \in VMs, FetchSecret(v) \/ FetchFails(v) \/ Apply(v), vm'[u] # vm[u]
      PROVE  VmOK(u)'
  <2>1. v = u
    BY <1>1, <1>5 DEF FetchSecret, FetchFails, Apply
  <2> QED BY <1>1, <1>5, <2>1, HookOK
<1>6. ASSUME vm'[u] # vm[u]
      PROVE  \/ WarmAdopt \/ ColdRun \/ ColdRunFails
             \/ \E v \in VMs : FetchSecret(v) \/ FetchFails(v) \/ Apply(v)
  <2>1. Begin \/ ReadObject \/ ReadLiteral \/ Reject \/ Mapped => UNCHANGED vm
    BY DEF Begin, ReadObject, ReadLiteral, Reject, Mapped
  <2>2. PutSecret \/ PutSecretFails \/ ResolveRole \/ RoleLookupFails \/ RecordId => UNCHANGED vm
    BY DEF PutSecret, PutSecretFails, ResolveRole, RoleLookupFails, RecordId
  <2>3. (\E o \in Objects : Edit(o)) \/ Tick \/ UNCHANGED vars => UNCHANGED vm
    BY DEF Edit, Tick, vars
  <2> QED BY <1>6, <2>1, <2>2, <2>3 DEF Next
<1> QED BY <1>2, <1>3, <1>4, <1>5, <1>6

LEMMA SessionInitially == Init => SessionInv
<1> SUFFICES ASSUME Init PROVE SessionInv
  OBVIOUS
<1>1. spec \in Specs /\ objs \in [Objects -> Nat] /\ pass = NoPass
  BY DEF Init
<1>2. PassOK
  <2>1. /\ NoPass.at = "idle" /\ NoPass.i = 1 /\ NoPass.plain = Empty /\ NoPass.secret = Empty
        /\ NotAfter(NoPass.since, objs)
    BY <1>1, NeverBefore DEF NoPass
  <2>2. /\ Collected(spec, Empty, 1, FALSE, NoPass.since)
        /\ Collected(spec, Empty, 1, TRUE, NoPass.since)
    BY <1>1, CollectedNone
  <2>3. 1 <= End(spec)
    BY <1>1, DeclsLength
  <2> QED BY <1>1, <2>1, <2>2, <2>3 DEF PassOK
<1>3. \A v \in VMs : VmOK(v)
  BY DEF Init, VmOK, NoVM
<1> QED BY <1>2, <1>3, DurationsInitially DEF SessionInv

LEMMA SessionInductive == TypeInv /\ SessionInv /\ [Next]_vars => SessionInv'
<1> SUFFICES ASSUME TypeInv, SessionInv, [Next]_vars PROVE SessionInv'
  OBVIOUS
<1>1. PassOK /\ (\A v \in VMs : VmOK(v)) /\ DurationsOK
  BY DEF SessionInv
<1>2. PassOK'
  BY <1>1, PassNext
<1>3. (\A v \in VMs : VmOK(v))'
  BY <1>1, VmsNext
<1>4. DurationsOK'
  BY <1>1, DurationsInductive
<1> QED BY <1>2, <1>3, <1>4 DEF SessionInv

\* At every moment a pass holds what the entries behind it say, the session
\* secret is that of the pass that goes on with its name, and a MicroVM has,
\* or has yet to fetch, what the pass that ran it collected or a later one put.
THEOREM SessionCorrect == Spec => []SessionInv
BY TypeInitially, TypeInductive, SessionInitially, SessionInductive, PTL DEF Spec

-----------------------------------------------------------------------------
(* The environment of a session. *)

\* The last of the entries that set a name, found without induction: it is the
\* last of those that refer to a Secret or the last of the others.
LEMMA LastOfTwo ==
  ASSUME NEW s \in Specs, NEW n \in Names,
         NEW plain, NEW secret, NEW since, NEW start,
         Reflects(s, plain, Before(s, n, End(s), FALSE), since),
         Before(s, n, End(s), TRUE) # {} =>
           Reflects(s, secret, Before(s, n, End(s), TRUE), start),
         Setting(s, n) # {}
  PROVE  \E l \in Setting(s, n) :
           (\A j \in Setting(s, n) : j <= l) /\ Last(s, n) = Decls(s)[l]
<1>1. PICK P, S, A : /\ P = Before(s, n, End(s), FALSE) /\ S = Before(s, n, End(s), TRUE)
                     /\ A = Setting(s, n)
  OBVIOUS
<1>2. A = S \cup P
  BY <1>1, BeforeEnd
<1>3. A \subseteq Nat
  BY <1>1, SettingRange
<1>4. P # {} => \E p \in P : \A h \in P : h <= p
  BY <1>1 DEF Reflects
<1>5. S # {} => \E p \in S : \A h \in S : h <= p
  BY <1>1 DEF Reflects
<1>6. PICK l \in A : \A j \in A : j <= l
  <2>1. CASE P = {} \/ S = {}
    BY <1>1, <1>2, <1>4, <1>5, <2>1
  <2>2. CASE P # {} /\ S # {}
    <3>1. PICK p \in P : \A h \in P : h <= p
      BY <1>4, <2>2
    <3>2. PICK q \in S : \A h \in S : h <= q
      BY <1>5, <2>2
    <3>3. p \in Nat /\ q \in Nat /\ p \in A /\ q \in A
      BY <1>2, <1>3
    <3>4. CASE p <= q
      <4>1. \A j \in A : j <= q
        BY <1>2, <1>3, <3>1, <3>2, <3>3, <3>4
      <4> QED BY <3>3, <4>1
    <3>5. CASE q <= p
      <4>1. \A j \in A : j <= p
        BY <1>2, <1>3, <3>1, <3>2, <3>3, <3>5
      <4> QED BY <3>3, <4>1
    <3> QED BY <3>3, <3>4, <3>5
  <2> QED BY <2>1, <2>2
<1>7. \A i \in A : (\A j \in A : j <= i) => i = l
  BY <1>3, <1>6
<1>8. (CHOOSE i \in A : \A j \in A : j <= i) = l
  BY <1>6, <1>7
<1>9. Last(s, n) = Decls(s)[l]
  BY <1>1, <1>8 DEF Last
<1> QED BY <1>1, <1>6, <1>9

\* A value that reflects entries with the last one among them agrees with it.
LEMMA AgreesWithLast ==
  ASSUME NEW s \in Specs, NEW n \in Names, NEW value, NEW since, NEW entries,
         entries \subseteq Setting(s, n), NEW l \in entries,
         \A j \in Setting(s, n) : j <= l, Last(s, n) = Decls(s)[l],
         Reflects(s, value, entries, since)
  PROVE  Agrees(s, value, n, since)
<1>1. PICK j \in entries :
        /\ \A h \in entries : h <= j
        /\ value # None /\ value.from = Source(Decls(s)[j])
        /\ value.from \in Objects => value.version >= since[value.from]
  BY DEF Reflects
<1>2. j = l
  <2>1. j \in Nat /\ l \in Nat
    BY SettingRange
  <2> QED BY <1>1, <2>1
<1>3. Setting(s, n) # {}
  OBVIOUS
<1> QED BY <1>1, <1>2, <1>3 DEF Agrees

LEMMA EnvFollows == TypeInv /\ SessionInv => EnvAsDeclared
<1> SUFFICES ASSUME TypeInv, SessionInv, NEW v \in VMs, vm[v].at = "ready", NEW n \in Names
             PROVE  \/ Agrees(spec, vm[v].env[n], n, vm[v].since)
                    \/ Setting(spec, n) # {} /\ Shadowed(spec, n)
                    \/ Setting(spec, n) # {} /\ SecretsMissed /\ Last(spec, n).object \in Secrets
  BY DEF EnvAsDeclared
<1>1. PICK m : m = vm[v]
  OBVIOUS
<1>2. spec \in Specs /\ m \in VmType
  BY <1>1 DEF TypeInv, TypeOK, VmType
<1>3. VmOK(v)
  BY DEF SessionInv
<1>4. CASE m.launch = "warm"
  <2>1. m.env = Empty /\ Setting(spec, n) = {}
    BY <1>1, <1>3, <1>4 DEF VmOK
  <2>2. m.env[n] = None
    BY <2>1 DEF Empty
  <2> QED BY <1>1, <2>1, <2>2 DEF Agrees
<1>5. CASE m.launch = "cold"
  <2>1. /\ Collected(spec, m.plain, End(spec), FALSE, m.since)
        /\ NeedsSecret(spec) => Collected(spec, asm, End(spec), TRUE, m.since)
        /\ FetchedOK(spec, m.fetched, m.since)
        /\ SecretsMissed \/ Complete(spec, m.fetched, m.since)
        /\ m.env = Overlay(m.plain, m.fetched)
    BY <1>1, <1>3, <1>5 DEF VmOK
  <2>2. PICK P, S : /\ P = Before(spec, n, End(spec), FALSE)
                    /\ S = Before(spec, n, End(spec), TRUE)
    OBVIOUS
  <2>3. /\ P = {j \in Setting(spec, n) : Decls(spec)[j].object \notin Secrets}
        /\ S = {j \in Setting(spec, n) : Decls(spec)[j].object \in Secrets}
        /\ Setting(spec, n) = S \cup P
    BY <1>2, <2>2, BeforeEnd
  <2>4. PICK p, f : p = m.plain[n] /\ f = m.fetched[n]
    OBVIOUS
  <2>5. m.env[n] = IF f # None THEN f ELSE p
    BY <2>1, <2>4 DEF Overlay
  <2>6. Reflects(spec, p, P, m.since)
    BY <2>1, <2>2, <2>4 DEF Collected
  <2>7. S # {} => Reflects(spec, asm[n], S, m.since)
    BY <2>1, <2>2 DEF Collected, NeedsSecret
  <2>8. \/ f = None
        \/ f.from \in UserIds(spec) /\ SetByUser(spec, n)
        \/ S # {} /\ Reflects(spec, f, S, m.since)
    BY <2>1, <2>2, <2>4 DEF FetchedOK
  <2>9. SecretsMissed \/ (S # {} => Reflects(spec, f, S, m.since))
    BY <2>1, <2>2, <2>4 DEF Complete
  <2>10. CASE Setting(spec, n) = {}
    <3>1. P = {} /\ S = {}
      BY <2>3, <2>10
    <3>2. p = None
      BY <2>6, <3>1 DEF Reflects
    <3>3. m.env[n] = None \/ m.env[n].from \in UserIds(spec)
      BY <2>5, <2>8, <3>1, <3>2
    <3> QED BY <1>1, <2>10, <3>3 DEF Agrees
  <2>11. CASE Setting(spec, n) # {}
    <3>1. PICK l \in Setting(spec, n) :
            (\A j \in Setting(spec, n) : j <= l) /\ Last(spec, n) = Decls(spec)[l]
      BY <1>2, <2>2, <2>6, <2>7, <2>11, LastOfTwo
    <3>2. CASE l \in S
      <4>1. Last(spec, n).object \in Secrets
        BY <2>3, <3>1, <3>2
      <4>2. CASE SecretsMissed
        BY <2>11, <4>1, <4>2
      <4>3. CASE Reflects(spec, f, S, m.since)
        <5>1. f # None
          BY <3>2, <4>3 DEF Reflects
        <5>2. Agrees(spec, f, n, m.since)
          BY <1>2, <2>3, <3>1, <3>2, <4>3, AgreesWithLast
        <5> QED BY <1>1, <2>5, <5>1, <5>2
      <4> QED BY <2>9, <3>2, <4>2, <4>3
    <3>3. CASE l \notin S
      <4>1. l \in P /\ Last(spec, n).object \notin Secrets
        BY <2>3, <3>1, <3>3
      <4>2. CASE SetByUser(spec, n) \/ S # {}
        <5>1. SetByUser(spec, n) \/ \E i \in Setting(spec, n) : Decls(spec)[i].object \in Secrets
          BY <2>3, <4>2
        <5> QED BY <2>11, <4>1, <5>1 DEF Shadowed
      <4>3. CASE ~SetByUser(spec, n) /\ S = {}
        <5>1. m.env[n] = p
          BY <2>5, <2>8, <4>3
        <5>2. Agrees(spec, p, n, m.since)
          BY <1>2, <2>3, <2>6, <3>1, <4>1, AgreesWithLast
        <5> QED BY <1>1, <5>1, <5>2
      <4> QED BY <4>2, <4>3
    <3> QED BY <3>2, <3>3
  <2> QED BY <2>10, <2>11
<1> QED BY <1>1, <1>3, <1>4, <1>5 DEF VmOK

\* For every PodSpec, a session has the environment that it declares: each
\* name has the value of its last entry, at least as new as the pass that
\* launched the MicroVM, but for a plain entry under a secret of the same name
\* and for secrets that the hook could not fetch.
THEOREM EnvIsAsDeclared == Spec => []EnvAsDeclared
BY TypeInitially, TypeInductive, SessionInitially, SessionInductive, EnvFollows, PTL DEF Spec
=============================================================================
