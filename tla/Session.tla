------------------------------ MODULE Session ------------------------------
(***************************************************************************)
(* From the spec of one Sandbox to the session of its MicroVM: mapSandbox  *)
(* turns the PodSpec into a microvmSpec, reading Secrets and ConfigMaps    *)
(* one by one; reconcile mirrors the secret values into Secrets Manager,   *)
(* resolves the execution role and adopts or runs a MicroVM                *)
(* (src/provider/main.go); the /run hook of the MicroVM builds the session *)
(* environment from its payload and from Secrets Manager                   *)
(* (src/shim/main.go).  A pass that fails is made again, and the hook of   *)
(* an earlier launch may still run while the next pass goes on.            *)
(***************************************************************************)
EXTENDS Naturals, Sequences, FiniteSets

CONSTANTS
  Specs,        \* the specs the Sandbox may have
  Secrets, ConfigMaps,   \* Kubernetes objects
  Keys,         \* keys of their data
  KeysOf,       \* the keys that each object has
  Prefixes,     \* prefixes of envFrom
  Names,        \* names of environment variables
  Prefixed,     \* the name that a prefix and a key make
  Ids,          \* secrets of the user in Secrets Manager
  Content,      \* per secret the names it sets; None if it is not a JSON map
  Roles, Images,
  DefaultImage, WarmImage,   \* --default-image, --warm-image
  WarmRole,     \* --warm-role, None by default
  WarmPool,     \* whether there is a warm pool, --warm-size > 0
  VMs, None,
  Minimum, Maximum,   \* 60 and 28800: the range of a mapped shutdownTime
  Second,       \* ticks of the clock in a second
  MaxTime,      \* bound on the clock
  Edits,        \* bound on edits of Kubernetes objects
  Mishaps       \* bound on failed calls

Objects == Secrets \cup ConfigMaps
Optional(S) == S \cup {None}

ASSUME ObjectAssumption ==
  /\ Secrets \cap ConfigMaps = {}
  /\ None \notin Objects \cup Names \cup Keys \cup Ids \cup Roles
  /\ Objects \cap Ids = {}
  /\ {"literal", "session"} \cap (Objects \cup Ids) = {}
ASSUME DataAssumption ==
  /\ KeysOf \in [Objects -> SUBSET Keys]
  /\ Prefixed \in [Prefixes \X Keys -> Names]
  /\ \A p \in Prefixes : \A k, l \in Keys :
       Prefixed[<<p, k>>] = Prefixed[<<p, l>>] => k = l
  /\ \A i \in Ids : Content[i] \in Optional(SUBSET Names)
ASSUME FlagAssumption ==
  /\ WarmPool \in BOOLEAN /\ WarmRole \in Optional(Roles)
  /\ {DefaultImage, WarmImage} \subseteq Images
ASSUME ClockAssumption ==
  /\ Minimum \in Nat \ {0} /\ Maximum \in Nat /\ Minimum <= Maximum
  /\ Second \in Nat \ {0} /\ MaxTime \in Nat
ASSUME BoundAssumption == Edits \in Nat /\ Mishaps \in Nat

-----------------------------------------------------------------------------
(* The Sandbox's spec, as far as mapSandbox and execRole read it.           *)

\* An entry of envFrom takes a whole object; one of env a literal, a key of
\* an object, or anything else a PodSpec may have there.
Entry(type, name, object, key, prefix) ==
  [type |-> type, name |-> name, object |-> object, key |-> key, prefix |-> prefix]
AllOf(object, prefix) == Entry("all", None, object, None, prefix)
KeyRef(name, object, key) == Entry("key", name, object, key, None)
Literal(name) == Entry("literal", name, None, None, None)
Unsupported(name) == Entry("other", name, None, None, None)

EnvFromEntries == {AllOf(o, p) : o \in Objects, p \in Prefixes}
EnvEntries ==
  {KeyRef(n, o, k) : n \in Names, o \in Objects, k \in Keys}
    \cup {Literal(n) : n \in Names} \cup {Unsupported(n) : n \in Names}

\* The connectors and the idle policy: those of the provider or the
\* Sandbox's own.
Options == [{"ingress", "egress", "idle"} -> {"default", "own"}]
Defaults == [o \in {"ingress", "egress", "idle"} |-> "default"]

SpecType ==
  [arch : {"none", "arm64", "other"}, containers : Nat,
   annImage : Optional(Images), image : Optional(Images), opts : Options,
   ids : Seq(Ids), envFrom : Seq(EnvFromEntries), env : Seq(EnvEntries),
   command : BOOLEAN, cwd : BOOLEAN,
   role : Optional(Roles), irsa : Optional(Roles), assoc : Optional(Roles),
   maxDur : Optional(Nat), shutdown : Optional(Nat), memory : Optional(Nat)]

ASSUME NoneIsNoNumber == None \notin Nat /\ None \notin Images
ASSUME SpecsAssumption == Specs \subseteq SpecType

\* envFrom first, then env: a later entry for a name replaces an earlier one.
Decls(s) == s.envFrom \o s.env

-----------------------------------------------------------------------------
(* Environments.  A value is known by where it comes from: an object with   *)
(* its version, a literal, or a secret of the user.                         *)

Value(from, key, version) == [from |-> from, key |-> key, version |-> version]
Plain == Value("literal", None, 0)
Values == [from : Objects \cup Ids \cup {"literal"}, key : Optional(Keys), version : Nat]
Env == [Names -> Optional(Values)]
Empty == [n \in Names |-> None]

ASSUME NoneIsNoEnv == None \notin Env /\ None \notin Values

Overlay(under, over) == [n \in Names |-> IF over[n] # None THEN over[n] ELSE under[n]]

VARIABLES
  spec,     \* the Sandbox's spec
  objs,     \* versions of the Kubernetes objects, 0 for one that is not there
  asm,      \* the session secret in Secrets Manager, None before its creation
  clock,    \* time, in ticks
  pass,     \* the reconcile under way
  vm,       \* the MicroVMs and their /run hooks
  id,       \* the annotation microvm-id
  blame,    \* history: the irregularities met so far
  left      \* what is left of Edits and Mishaps

vars == <<spec, objs, asm, clock, pass, vm, id, blame, left>>

Mishap == left.mishaps > 0 /\ left' = [left EXCEPT !.mishaps = @ - 1]

-----------------------------------------------------------------------------
(* mapSandbox. *)

ValidBaselinesMiB == <<512, 1024, 2048, 4096, 8192>>
ValidBaselines == {ValidBaselinesMiB[b] : b \in 1..Len(ValidBaselinesMiB)}

\* snapBaseline goes through the list to the first baseline that is enough.
SnapBaseline(mib) ==
  LET max == Len(ValidBaselinesMiB)
      loop[b \in 1..(max + 1)] ==
        IF b > max THEN ValidBaselinesMiB[max]
        ELSE IF mib <= ValidBaselinesMiB[b] THEN ValidBaselinesMiB[b]
        ELSE loop[b + 1]
  IN  loop[1]

\* Mutant: the request is taken as it is.
MemoryNotSnapped(s) == IF s.memory = None THEN 2048 ELSE s.memory \div 1024

Memory(s) == IF s.memory = None THEN 2048 ELSE SnapBaseline(s.memory \div 1024)

Clamp(secs) ==
  CASE secs < Minimum -> Minimum [] secs > Maximum -> Maximum [] OTHER -> secs

\* Mutant: the time left is not measured from now.
MaxDurationAbsolute(s, now) ==
  CASE s.maxDur # None -> s.maxDur
    [] s.maxDur = None /\ s.shutdown # None /\ s.shutdown >= now + Second ->
         Clamp(s.shutdown \div Second)
    [] OTHER -> 0

\* The annotation counts as it is; a shutdownTime is the time left until it,
\* in whole seconds and within bounds, unless it has come.  0 is no maximum.
MaxDuration(s, now) ==
  CASE s.maxDur # None -> s.maxDur
    [] s.maxDur = None /\ s.shutdown # None /\ s.shutdown >= now + Second ->
         Clamp((s.shutdown - now) \div Second)
    [] OTHER -> 0

\* A MicroVM image in the container goes before the annotation.
Image(s) ==
  CASE s.image # None -> s.image
    [] s.image = None /\ s.annImage # None -> s.annImage
    [] OTHER -> DefaultImage

\* The guards: Lambda MicroVMs are arm64, and run one container.
Supported(s) == s.arch # "other" /\ s.containers = 1

\* What a pass knows: its place in mapSandbox and reconcile, the microvmSpec,
\* and for the properties the time and the versions at its beginning.
Never == [o \in Objects |-> 0]
NoPass ==
  [at |-> "idle", i |-> 1, plain |-> Empty, secret |-> Empty, ids |-> <<>>,
   maxDur |-> 0, memory |-> 2048, mapped |-> 0, since |-> Never,
   role |-> None, vm |-> None]

\* The pass ends in a condition, or an error; the key comes back later.
GiveUp == pass' = NoPass

Begin ==
  /\ pass.at = "idle" /\ id = None
  /\ Supported(spec)
  /\ pass' = [NoPass EXCEPT !.at = "map", !.ids = spec.ids,
                !.maxDur = MaxDuration(spec, clock), !.mapped = clock, !.since = objs]
  /\ UNCHANGED <<spec, objs, asm, clock, vm, id, blame, left>>

Decl == Decls(spec)[pass.i]
Reading == pass.at = "map" /\ pass.i <= Len(Decls(spec))

\* What an entry sets, all of an object's keys or one; a key that is not
\* there reads as an empty string.
Contents(d) ==
  [n \in Names |->
     CASE d.type = "all" /\ \E k \in KeysOf[d.object] : Prefixed[<<d.prefix, k>>] = n ->
            Value(d.object,
                  CHOOSE k \in KeysOf[d.object] : Prefixed[<<d.prefix, k>>] = n,
                  objs[d.object])
       [] d.type = "key" /\ d.name = n ->
            Value(d.object, IF d.key \in KeysOf[d.object] THEN d.key ELSE None,
                  objs[d.object])
       [] OTHER -> None]

\* Mutant: the value of a secretKeyRef goes where that of a configMapKeyRef goes.
ReadObjectPlain ==
  /\ Reading /\ Decl.type \in {"all", "key"}
  /\ objs[Decl.object] # 0
  /\ IF Decl.object \in Secrets /\ Decl.type = "all"
       THEN pass' = [pass EXCEPT !.i = @ + 1, !.secret = Overlay(@, Contents(Decl))]
       ELSE pass' = [pass EXCEPT !.i = @ + 1, !.plain = Overlay(@, Contents(Decl))]
  /\ UNCHANGED <<spec, objs, asm, clock, vm, id, blame, left>>

ReadObject ==
  /\ Reading /\ Decl.type \in {"all", "key"}
  /\ objs[Decl.object] # 0
  /\ IF Decl.object \in Secrets
       THEN pass' = [pass EXCEPT !.i = @ + 1, !.secret = Overlay(@, Contents(Decl))]
       ELSE pass' = [pass EXCEPT !.i = @ + 1, !.plain = Overlay(@, Contents(Decl))]
  /\ UNCHANGED <<spec, objs, asm, clock, vm, id, blame, left>>

ReadLiteral ==
  /\ Reading /\ Decl.type = "literal"
  /\ pass' = [pass EXCEPT !.i = @ + 1, !.plain[Decl.name] = Plain]
  /\ UNCHANGED <<spec, objs, asm, clock, vm, id, blame, left>>

\* A MappingError: an entry of no known type, or an object that cannot be read.
Reject ==
  /\ Reading
  /\ \/ Decl.type = "other" /\ UNCHANGED left
     \/ /\ Decl.type \in {"all", "key"}
        /\ \/ objs[Decl.object] = 0 /\ UNCHANGED left
           \/ Mishap
  /\ GiveUp
  /\ UNCHANGED <<spec, objs, asm, clock, vm, id, blame>>

Mapped ==
  /\ pass.at = "map" /\ pass.i > Len(Decls(spec))
  /\ pass' = [pass EXCEPT !.memory = Memory(spec),
                !.at = IF pass.secret = Empty THEN "role" ELSE "put"]
  /\ UNCHANGED <<spec, objs, asm, clock, vm, id, blame, left>>

-----------------------------------------------------------------------------
(* reconcile: the session secret, the role and the MicroVM. *)

Session == "session"

\* Mutant: a secret that exists already is not updated.
PutSecretOnce ==
  /\ pass.at = "put"
  /\ asm' = IF asm = None THEN pass.secret ELSE asm
  /\ pass' = [pass EXCEPT !.at = "role", !.ids = Append(@, Session)]
  /\ UNCHANGED <<spec, objs, clock, vm, id, blame, left>>

\* awsPutSecret creates the secret or replaces its value; its name is recorded.
PutSecret ==
  /\ pass.at = "put"
  /\ asm' = pass.secret
  /\ pass' = [pass EXCEPT !.at = "role", !.ids = Append(@, Session)]
  /\ UNCHANGED <<spec, objs, clock, vm, id, blame, left>>

\* The put, or the patch of the annotation after it, fails.
PutSecretFails ==
  /\ pass.at = "put" /\ Mishap
  /\ asm' \in {asm, pass.secret}
  /\ GiveUp
  /\ UNCHANGED <<spec, objs, clock, vm, id, blame>>

\* execRole: the annotation, the role of the service account, or its Pod
\* Identity association.
Role(s) ==
  CASE s.role # None -> s.role
    [] s.role = None /\ s.irsa # None -> s.irsa
    [] OTHER -> s.assoc

ResolveRole ==
  /\ pass.at = "role"
  /\ pass' = [pass EXCEPT !.at = "provision", !.role = Role(spec)]
  /\ UNCHANGED <<spec, objs, asm, clock, vm, id, blame, left>>

\* A lookup that fails is one that finds nothing.
RoleLookupFails ==
  /\ pass.at = "role" /\ spec.role = None /\ Mishap
  /\ \E role \in {None, IF spec.irsa # None THEN spec.assoc ELSE None} :
       pass' = [pass EXCEPT !.at = "provision", !.role = role]
  /\ blame' = blame \cup {"lookup"}
  /\ UNCHANGED <<spec, objs, asm, clock, vm, id>>

NoVM ==
  [at |-> "unused", launch |-> "none", image |-> None, opts |-> Defaults,
   maxDur |-> 0, role |-> None, plain |-> Empty, ids |-> <<>>, fetched |-> Empty,
   env |-> Empty, born |-> 0, mapped |-> 0, since |-> Never]

\* Mutant: secret values from Kubernetes are forgotten.
WarmEligibleButSecrets ==
  /\ Image(spec) = WarmImage
  /\ pass.plain = Empty /\ spec.ids = <<>>
  /\ ~spec.command /\ ~spec.cwd

\* The image of the pool, and nothing of its own to run or to set.
WarmEligible ==
  /\ Image(spec) = WarmImage
  /\ pass.plain = Empty /\ pass.ids = <<>> /\ pass.secret = Empty
  /\ ~spec.command /\ ~spec.cwd

\* The pool's MicroVM was run without any of the Sandbox's options.
WarmAdopt ==
  /\ pass.at = "provision" /\ WarmPool /\ WarmEligible
  /\ \E v \in VMs :
       /\ vm[v].at = "unused"
       /\ vm' = [vm EXCEPT ![v] = [NoVM EXCEPT !.at = "ready", !.launch = "warm",
                   !.image = WarmImage, !.role = WarmRole, !.born = clock]]
       /\ pass' = [pass EXCEPT !.at = "record", !.vm = v]
  /\ UNCHANGED <<spec, objs, asm, clock, id, blame, left>>

\* awsRun, for want of a MicroVM to adopt; the MicroVM resumes from its snapshot and /run begins.
Launched ==
  [NoVM EXCEPT !.at = "fetch", !.launch = "cold", !.image = Image(spec),
     !.opts = spec.opts, !.maxDur = pass.maxDur, !.role = pass.role,
     !.plain = pass.plain, !.ids = pass.ids, !.born = clock,
     !.mapped = pass.mapped, !.since = pass.since]

ColdRun ==
  /\ pass.at = "provision"
  /\ \E v \in VMs :
       /\ vm[v].at = "unused"
       /\ vm' = [vm EXCEPT ![v] = Launched]
       /\ pass' = [pass EXCEPT !.at = "record", !.vm = v]
  /\ UNCHANGED <<spec, objs, asm, clock, id, blame, left>>

\* run-microvm fails, or takes effect and its answer is lost.
ColdRunFails ==
  /\ pass.at = "provision" /\ Mishap
  /\ \/ UNCHANGED vm
     \/ \E v \in VMs : vm[v].at = "unused" /\ vm' = [vm EXCEPT ![v] = Launched]
  /\ GiveUp
  /\ UNCHANGED <<spec, objs, asm, clock, id, blame>>

RecordId ==
  /\ pass.at = "record"
  /\ \/ id' = pass.vm /\ UNCHANGED left
     \/ UNCHANGED id /\ Mishap
  /\ GiveUp
  /\ UNCHANGED <<spec, objs, asm, clock, vm, blame>>

-----------------------------------------------------------------------------
(* hookRun and fetchSecretEnv, in the MicroVM. *)

Fetching(v) == vm[v].at = "fetch" /\ vm[v].ids # <<>>

\* A secret of the user sets its names; one that is binary sets none.
Fetched(i) ==
  IF i = Session THEN asm
  ELSE [n \in Names |-> IF n \in Content[i] THEN Value(i, None, 0) ELSE None]

Readable(i) == i # Session => Content[i] # None

FetchSecret(v) ==
  /\ Fetching(v) /\ vm[v].role # None
  /\ Readable(Head(vm[v].ids))
  /\ vm' = [vm EXCEPT ![v].ids = Tail(@),
                      ![v].fetched = Overlay(@, Fetched(Head(vm[v].ids)))]
  /\ UNCHANGED <<spec, objs, asm, clock, pass, id, blame, left>>

\* The first secret that cannot be fetched ends the loop; /run goes on.
FetchFails(v) ==
  /\ Fetching(v)
  /\ \/ /\ vm[v].role = None \/ ~Readable(Head(vm[v].ids))
        /\ UNCHANGED <<blame, left>>
     \/ Mishap /\ blame' = blame \cup {"fetch"}
  /\ vm' = [vm EXCEPT ![v].ids = <<>>]
  /\ UNCHANGED <<spec, objs, asm, clock, pass, id>>

\* session.set and writeSessionEnvFile: secrets go over the payload.
Apply(v) ==
  /\ vm[v].at = "fetch" /\ vm[v].ids = <<>>
  /\ vm' = [vm EXCEPT ![v].at = "ready", ![v].env = Overlay(vm[v].plain, vm[v].fetched)]
  /\ UNCHANGED <<spec, objs, asm, clock, pass, id, blame, left>>

-----------------------------------------------------------------------------
(* The user and the clock. *)

Edit(o) ==
  /\ left.edits > 0
  /\ left' = [left EXCEPT !.edits = @ - 1]
  /\ objs' = [objs EXCEPT ![o] = @ + 1]
  /\ UNCHANGED <<spec, asm, clock, pass, vm, id, blame>>

Tick ==
  /\ clock < MaxTime
  /\ clock' = clock + 1
  /\ UNCHANGED <<spec, objs, asm, pass, vm, id, blame, left>>

Init ==
  /\ spec \in Specs
  /\ objs \in [Objects -> {0, 1}]
  /\ asm = None
  /\ clock = 0
  /\ pass = NoPass
  /\ vm = [v \in VMs |-> NoVM]
  /\ id = None
  /\ blame = {}
  /\ left = [edits |-> Edits, mishaps |-> Mishaps]

Next ==
  \/ Begin \/ ReadObject \/ ReadLiteral \/ Reject \/ Mapped
  \/ PutSecret \/ PutSecretFails \/ ResolveRole \/ RoleLookupFails
  \/ WarmAdopt \/ ColdRun \/ ColdRunFails \/ RecordId
  \/ \E v \in VMs : FetchSecret(v) \/ FetchFails(v) \/ Apply(v)
  \/ \E o \in Objects : Edit(o)
  \/ Tick

Spec == Init /\ [][Next]_vars

-----------------------------------------------------------------------------
(* Properties. *)

PassPlaces == {"idle", "map", "put", "role", "provision", "record"}

\* The types of the variables; in particular a maximum duration is never
\* negative, and the memory of a MicroVM is one of the valid baselines.
TypeOK ==
  /\ spec \in Specs
  /\ objs \in [Objects -> Nat]
  /\ asm \in Env \cup {None}
  /\ clock \in 0..MaxTime
  /\ pass \in [at : PassPlaces, i : Nat \ {0}, plain : Env, secret : Env,
               ids : Seq(Ids \cup {Session}), maxDur : Nat, memory : ValidBaselines,
               mapped : Nat, since : [Objects -> Nat], role : Optional(Roles),
               vm : Optional(VMs)]
  /\ vm \in [VMs -> [at : {"unused", "fetch", "ready"}, launch : {"none", "cold", "warm"},
                     image : Optional(Images), opts : Options, maxDur : Nat,
                     role : Optional(Roles), plain : Env, ids : Seq(Ids \cup {Session}),
                     fetched : Env, env : Env, born : Nat, mapped : Nat,
                     since : [Objects -> Nat]]]
  /\ id \in Optional(VMs)
  /\ blame \subseteq {"lookup", "fetch"}
  /\ left \in [edits : Nat, mishaps : Nat]

NoSecret(env) == \A n \in Names : env[n] # None => env[n].from \notin Secrets

\* "the values never travel in the (plaintext, CloudTrail-logged)
\* runHookPayload": no payload has a value from a Kubernetes Secret.
SecretsOutOfPayload == \A v \in VMs : NoSecret(vm[v].plain)

\* The entries that set a name; Kubernetes lets the last of them win.
Sets(d, n) ==
  \/ d.type \in {"key", "literal"} /\ d.name = n
  \/ d.type = "all" /\ \E k \in KeysOf[d.object] : Prefixed[<<d.prefix, k>>] = n
Setting(s, n) == {i \in 1..Len(Decls(s)) : Sets(Decls(s)[i], n)}
Last(s, n) == Decls(s)[CHOOSE i \in Setting(s, n) : \A j \in Setting(s, n) : j <= i]

\* Where an entry takes its value from.
Source(d) == IF d.type = "literal" THEN "literal" ELSE d.object

UserIds(s) == {s.ids[i] : i \in 1..Len(s.ids)}
SetByUser(s, n) == \E i \in UserIds(s) : Content[i] # None /\ n \in Content[i]

\* A value that comes from where the last entry says, and is not older than
\* the pass that launched the MicroVM.
Agrees(s, value, n, since) ==
  IF Setting(s, n) = {}
    THEN value = None \/ value.from \in UserIds(s)
    ELSE /\ value # None
         /\ value.from = Source(Last(s, n))
         /\ value.from \in Objects => value.version >= since[value.from]

\* The hook puts every secret over the payload: a plain entry loses to an
\* earlier one for the same name that refers to a Secret, and to a secret
\* that the user names in an annotation.
Shadowed(s, n) ==
  /\ Last(s, n).object \notin Secrets
  /\ SetByUser(s, n) \/ \E i \in Setting(s, n) : Decls(s)[i].object \in Secrets

\* What it takes for the hook to miss a secret: a fetch or the lookup of the
\* role failed, there is no role, or one of the user's secrets cannot be read.
SecretsMissed ==
  blame # {} \/ Role(spec) = None \/ \E i \in UserIds(spec) : Content[i] = None

\* The environment of a session is the one the PodSpec declares: each name
\* has the value of its last entry, through retries, edits of the objects and
\* hooks that overlap later passes, except for the two cases above.
EnvAsDeclared ==
  \A v \in VMs : vm[v].at = "ready" =>
    \A n \in Names :
      \/ Agrees(spec, vm[v].env[n], n, vm[v].since)
      \/ Setting(spec, n) # {} /\ Shadowed(spec, n)
      \/ Setting(spec, n) # {} /\ SecretsMissed /\ Last(spec, n).object \in Secrets

\* A shutdownTime that lies ahead when the spec is mapped bounds the life of
\* the MicroVM: it does not end before that time, unless at the maximum, nor
\* after it by more than the pass took, unless at the minimum.
LifetimeMapped ==
  \A v \in VMs :
    LET m == vm[v] IN
      m.launch = "cold" /\ spec.maxDur = None /\ spec.shutdown # None =>
        IF m.maxDur = 0 THEN spec.shutdown < m.mapped + Second
        ELSE /\ m.maxDur \in Minimum..Maximum
             /\ m.maxDur = Maximum \/ m.born + m.maxDur * Second > spec.shutdown - Second
             /\ m.maxDur = Minimum \/ m.mapped + m.maxDur * Second <= spec.shutdown

-----------------------------------------------------------------------------
(* The inductive invariant behind the last two.                             *)

\* The place after the last entry, and the entries before a place that set a
\* name, of those that refer to a Secret or of the others.
End(s) == Len(Decls(s)) + 1
Before(s, n, k, secret) ==
  {j \in Setting(s, n) : j < k /\ (Decls(s)[j].object \in Secrets <=> secret)}

\* The value is the one of the last of some entries, and not older than since.
Reflects(s, value, entries, since) ==
  IF entries = {} THEN value = None
  ELSE \E j \in entries :
         /\ \A h \in entries : h <= j
         /\ value # None /\ value.from = Source(Decls(s)[j])
         /\ value.from \in Objects => value.version >= since[value.from]

Collected(s, env, k, secret, since) ==
  \A n \in Names : Reflects(s, env[n], Before(s, n, k, secret), since)

NeedsSecret(s) == \E n \in Names : Before(s, n, End(s), TRUE) # {}

NotAfter(before, after) == \A o \in Objects : before[o] <= after[o]

\* A pass has collected what the entries behind it say, and has the session
\* secret in place before it goes on with its name.
PassOK ==
  /\ pass.i <= End(spec) /\ (pass.at \notin {"idle", "map"} => pass.i = End(spec))
  /\ NotAfter(pass.since, objs)
  /\ Collected(spec, pass.plain, pass.i, FALSE, pass.since)
  /\ Collected(spec, pass.secret, pass.i, TRUE, pass.since)
  /\ pass.at \in {"map", "put"} => pass.ids = spec.ids
  /\ pass.at = "put" => pass.secret # Empty
  /\ pass.at \in {"role", "provision", "record"} =>
       IF pass.secret = Empty THEN pass.ids = spec.ids
       ELSE pass.ids = Append(spec.ids, Session) /\ asm = pass.secret
  /\ pass.at \in {"provision", "record"} => pass.role = Role(spec) \/ blame # {}

\* What a hook has still to fetch, with the session secret at the end, and
\* what it has fetched.
IdsOK(s, ids) ==
  /\ \A i \in 1..Len(ids) : ids[i] \in UserIds(s) \/ (ids[i] = Session /\ NeedsSecret(s))
  /\ NeedsSecret(s) /\ ids # <<>> => ids[Len(ids)] = Session

FetchedOK(s, fetched, since) ==
  \A n \in Names :
    \/ fetched[n] = None
    \/ fetched[n].from \in UserIds(s) /\ SetByUser(s, n)
    \/ /\ Before(s, n, End(s), TRUE) # {}
       /\ Reflects(s, fetched[n], Before(s, n, End(s), TRUE), since)

Complete(s, fetched, since) ==
  \A n \in Names : Before(s, n, End(s), TRUE) # {} =>
    Reflects(s, fetched[n], Before(s, n, End(s), TRUE), since)

\* A MicroVM has what the pass that ran it collected, and finds no older
\* session secret than that pass put, however many passes come after it.
VmOK(v) ==
  LET m == vm[v] IN
    /\ m.at = "fetch" => m.launch = "cold"
    /\ m.at = "ready" => m.launch \in {"cold", "warm"}
    /\ m.launch = "warm" => m.env = Empty /\ \A n \in Names : Setting(spec, n) = {}
    /\ m.launch = "cold" =>
         /\ NotAfter(m.since, objs) /\ (pass.at # "idle" => NotAfter(m.since, pass.since))
         /\ m.role = Role(spec) \/ blame # {}
         /\ Collected(spec, m.plain, End(spec), FALSE, m.since)
         /\ NeedsSecret(spec) => asm # None /\ Collected(spec, asm, End(spec), TRUE, m.since)
         /\ IdsOK(spec, m.ids) /\ FetchedOK(spec, m.fetched, m.since)
         /\ m.ids = <<>> => SecretsMissed \/ Complete(spec, m.fetched, m.since)
         /\ m.at = "ready" => m.ids = <<>> /\ m.env = Overlay(m.plain, m.fetched)

\* A maximum duration is the one of the time at which the spec was mapped.
DurationsOK ==
  /\ pass.at # "idle" =>
       pass.maxDur = MaxDuration(spec, pass.mapped) /\ pass.mapped <= clock
  /\ \A v \in VMs : vm[v].launch = "cold" =>
       vm[v].maxDur = MaxDuration(spec, vm[v].mapped) /\ vm[v].mapped <= vm[v].born

SessionInv == PassOK /\ (\A v \in VMs : VmOK(v)) /\ DurationsOK
=============================================================================
