------------------------------ MODULE WarmPool ------------------------------
(***************************************************************************)
(* The warm pool of src/provider/main.go: MicroVMs launched ahead of time  *)
(* and kept in a list that a ConfigMap backs up.  The goroutines of        *)
(* ensureWarmPool fill it, the workers take from it in provision, and run  *)
(* loads it at the start and drains it at the end.  All of them change the *)
(* list under warmMu, but save it in two steps: a copy taken under the     *)
(* lock, and a patch of the ConfigMap made after.  The provider may die    *)
(* at any time and start again.                                            *)
(***************************************************************************)
EXTENDS Naturals, FiniteSets, Sequences, Functions, MicrovmService

CONSTANTS
  VMs,        \* identifiers the service can issue
  None,       \* no MicroVM
  Takers,     \* Sandboxes that are warmEligible and have no MicroVM yet
  Fillers,    \* bound on the goroutines of ensureWarmPool at one time
  WarmSize,   \* the flag --warm-size
  LeaderElect,   \* the flag --leader-elect
  Mishaps     \* bound on failed calls, deaths and changes nobody asked for

ASSUME NoneAssumption == None \notin VMs
ASSUME FillersAssumption == IsFiniteSet(Fillers) /\ Fillers # {}
ASSUME SizeAssumption == WarmSize \in Nat \ {0}
ASSUME MishapsAssumption == Mishaps \in Nat /\ LeaderElect \in BOOLEAN

VARIABLES
  warmFree,  \* the pool, in memory
  cm,        \* data.free of the ConfigMap
  main,      \* the goroutine of run
  fill,      \* the goroutines of ensureWarmPool
  take,      \* the workers, each on one Sandbox
  vm,        \* state of every MicroVM identifier
  pool,      \* history: the identifiers launched for the pool
  got,       \* history: per Sandbox, the MicroVMs it has been given
  blame,     \* history: the irregularities met so far
  left       \* mishaps left

poolVars == <<warmFree, cm>>
awsVars == <<vm, pool>>
histVars == <<got, blame, left>>
vars == <<warmFree, cm, main, fill, take, vm, pool, got, blame, left>>

-----------------------------------------------------------------------------
(* A goroutine is at a place, holds an identifier and the copy of the list  *)
(* it is about to save.                                                     *)

At(place) == [at |-> place, id |-> None, copy |-> <<>>]

Filling == {f \in Fillers : fill[f].at # "none"}

\* The run goroutine has been told to stop: its context is cancelled, which
\* the filler it started shares, and the calls of that one fail.
Stopping == main.at \in {"drain", "kill", "patch"}
Cancelled(f) == Stopping /\ fill[f].first

NoFiller == [at |-> "none", id |-> None, copy |-> <<>>, first |-> FALSE]
NewFiller(first) == [NoFiller EXCEPT !.at = "check", !.first = first]

\* The workers go on until the process ends.
Serving == main.at = "serve" \/ Stopping

Mishap == left > 0 /\ left' = left - 1

\* saveWarmPool sends the copy: the patch replaces the list, whoever else has
\* patched in the meantime, or it fails and the failure is only logged.
Patch(copy) ==
  \/ cm' = copy /\ UNCHANGED left
  \/ UNCHANGED cm /\ Mishap

-----------------------------------------------------------------------------
(* run: load the pool, serve, drain the pool. *)

Start ==
  /\ main.at = "down"
  /\ main' = At("load")
  /\ UNCHANGED <<poolVars, fill, take, awsVars, histVars>>

Serve == \E f \in Fillers : fill' = [fill EXCEPT ![f] = NewFiller(TRUE)]

\* loadWarmPool reads the ConfigMap; one that cannot be read is taken for one
\* that is not there.
LoadRead ==
  /\ main.at = "load"
  /\ main' = [main EXCEPT !.at = "recover", !.copy = cm]
  /\ UNCHANGED <<poolVars, fill, take, awsVars, histVars>>

LoadFails ==
  /\ main.at = "load"
  /\ Mishap
  /\ blame' = blame \cup {"load"}
  /\ main' = At("serve")
  /\ Serve
  /\ UNCHANGED <<poolVars, take, awsVars, got>>

\* Each saved MicroVM is kept if the service reports it RUNNING.
Recover ==
  /\ main.at = "recover" /\ main.copy # <<>>
  /\ LET v == Head(main.copy) IN
       \/ /\ vm[v] = "RUNNING"
          /\ warmFree' = Append(warmFree, v)
          /\ UNCHANGED <<blame, left>>
       \/ /\ vm[v] # "RUNNING"
          /\ blame' = IF vm[v] \in Live THEN blame \cup {"load"} ELSE blame
          /\ UNCHANGED <<warmFree, left>>
       \/ /\ Mishap
          /\ blame' = blame \cup {"load"}
          /\ UNCHANGED warmFree
  /\ main' = [main EXCEPT !.copy = Tail(@)]
  /\ UNCHANGED <<cm, fill, take, awsVars, got>>

Recovered ==
  /\ main.at = "recover" /\ main.copy = <<>>
  /\ main' = At("serve")
  /\ Serve
  /\ UNCHANGED <<poolVars, take, awsVars, histVars>>

\* SIGTERM, or the lease is lost.
Stop ==
  /\ main.at = "serve"
  /\ Mishap
  /\ main' = At("drain")
  /\ UNCHANGED <<poolVars, fill, take, awsVars, got, blame>>

\* drainWarmPool empties the list, then terminates what it held and saves.
Drain ==
  /\ main.at = "drain"
  /\ main' = [main EXCEPT !.at = "kill", !.copy = warmFree]
  /\ warmFree' = <<>>
  /\ UNCHANGED <<cm, fill, take, awsVars, histVars>>

\* An error of terminate-microvm is ignored.
Kill ==
  /\ main.at = "kill" /\ main.copy # <<>>
  /\ LET v == Head(main.copy) IN
       \/ vm' = [vm EXCEPT ![v] = Terminated(@)] /\ UNCHANGED <<blame, left>>
       \/ UNCHANGED vm /\ Mishap /\ blame' = blame \cup {"kill"}
  /\ main' = [main EXCEPT !.copy = Tail(@)]
  /\ UNCHANGED <<poolVars, fill, take, pool, got>>

Killed ==
  /\ main.at = "kill" /\ main.copy = <<>>
  /\ main' = [main EXCEPT !.at = "patch", !.copy = warmFree]
  /\ UNCHANGED <<poolVars, fill, take, awsVars, histVars>>

\* The MicroVMs the process knows of, and those that Sandboxes have been given.
InMemory ==
  Range(warmFree)
    \cup (IF main.at \in {"recover", "kill"} THEN Range(main.copy) ELSE {})
    \cup {fill[f].id : f \in Fillers}
    \cup {take[s].id : s \in {t \in Takers : take[t].at # "have"}}
Given == UNION {got[s] : s \in Takers}
Adopted == {take[s].id : s \in {t \in Takers : take[t].at = "have"}}

\* The end of the process; an unfinished reconcile will be tried again.
Death ==
  /\ warmFree' = <<>>
  /\ main' = At("down")
  /\ fill' = [f \in Fillers |-> NoFiller]
  /\ take' = [s \in Takers |-> IF take[s].at = "have" THEN take[s] ELSE At("want")]
  /\ UNCHANGED <<awsVars, got>>

\* What is irregular about a death that leaves the list saved: it names a
\* MicroVM that was given away, or lacks one that only the process knew of.
Fatal(saved) ==
  (IF Range(saved) \cap Given # {} THEN {"staleSave"} ELSE {}) \cup
  (IF \E v \in InMemory \ (Range(saved) \cup {None}) : vm[v] \in Live
     THEN {"unsaved"} ELSE {})

Exit ==
  /\ main.at = "patch"
  /\ Patch(main.copy)
  /\ blame' = blame \cup Fatal(cm')
  /\ Death

\* With --leader-elect run is a goroutine of the elector, and main returns
\* without waiting for it when the lease is lost or given up.
Quit ==
  /\ LeaderElect /\ Stopping
  /\ blame' = blame \cup Fatal(cm)
  /\ UNCHANGED <<cm, left>>
  /\ Death

Crash ==
  /\ main.at # "down"
  /\ Mishap
  /\ blame' = blame \cup Fatal(cm)
  /\ UNCHANGED cm
  /\ Death

-----------------------------------------------------------------------------
(* ensureWarmPool. *)

Move(f, place) == fill' = [fill EXCEPT ![f].at = place]

\* Mutant: one more than --warm-size.
CheckMore(f) ==
  /\ fill[f].at = "check"
  /\ Move(f, IF Len(warmFree) > WarmSize THEN "none" ELSE "run")
  /\ UNCHANGED <<poolVars, main, take, awsVars, histVars>>

\* The length is read under the lock, and used after it is released.
Check(f) ==
  /\ fill[f].at = "check"
  /\ Move(f, IF Len(warmFree) >= WarmSize THEN "none" ELSE "run")
  /\ UNCHANGED <<poolVars, main, take, awsVars, histVars>>

\* Mutant: the identifier is not found in the answer.
LaunchNoId(f) ==
  /\ fill[f].at = "run" /\ ~Cancelled(f)
  /\ \E v \in VMs :
       /\ vm[v] = "UNUSED"
       /\ vm' = [vm EXCEPT ![v] = "PENDING"]
       /\ pool' = pool \cup {v}
       /\ fill' = [fill EXCEPT ![f].at = "wait"]
  /\ UNCHANGED <<poolVars, main, take, histVars>>

Launch(f) ==
  /\ fill[f].at = "run" /\ ~Cancelled(f)
  /\ \E v \in VMs :
       /\ vm[v] = "UNUSED"
       /\ vm' = [vm EXCEPT ![v] = "PENDING"]
       /\ pool' = pool \cup {v}
       /\ fill' = [fill EXCEPT ![f].at = "wait", ![f].id = v]
  /\ UNCHANGED <<poolVars, main, take, histVars>>

\* The goroutine gives up; the next one starts when a MicroVM is taken.
LaunchRefused(f) ==
  /\ fill[f].at = "run"
  /\ Cancelled(f) \/ \A v \in VMs : vm[v] # "UNUSED"
  /\ fill' = [fill EXCEPT ![f] = NoFiller]
  /\ UNCHANGED <<poolVars, main, take, awsVars, histVars>>

\* The launch fails, or takes effect and its answer is lost.
LaunchFails(f) ==
  /\ fill[f].at = "run" /\ Mishap
  /\ \/ UNCHANGED awsVars /\ blame' = blame \cup {"launch"}
     \/ \E v \in VMs :
          /\ vm[v] = "UNUSED" /\ vm' = [vm EXCEPT ![v] = "PENDING"]
          /\ pool' = pool \cup {v}
          /\ blame' = blame \cup {"launch", "lostId"}
  /\ fill' = [fill EXCEPT ![f] = NoFiller]
  /\ UNCHANGED <<poolVars, main, take, got>>

\* Mutant: a MicroVM that is slow to start is given up.
AppendReadyOnly(f) ==
  /\ fill[f].at = "wait"
  /\ IF vm[fill[f].id] = "RUNNING"
       THEN /\ warmFree' = Append(warmFree, fill[f].id)
            /\ fill' = [fill EXCEPT ![f].at = "save", ![f].id = None]
       ELSE /\ fill' = [fill EXCEPT ![f].at = "check", ![f].id = None]
            /\ UNCHANGED warmFree
  /\ UNCHANGED <<cm, main, take, awsVars, histVars>>

\* After RUNNING is seen, or thirty polls that did not see it.
AppendFree(f) ==
  /\ fill[f].at = "wait"
  /\ warmFree' = Append(warmFree, fill[f].id)
  /\ fill' = [fill EXCEPT ![f].at = "save", ![f].id = None]
  /\ UNCHANGED <<cm, main, take, awsVars, histVars>>

FillerCopies(f) ==
  /\ fill[f].at = "save"
  /\ fill' = [fill EXCEPT ![f].at = "patch", ![f].copy = warmFree]
  /\ UNCHANGED <<poolVars, main, take, awsVars, histVars>>

FillerPatches(f) ==
  /\ fill[f].at = "patch"
  /\ IF Cancelled(f) THEN UNCHANGED <<cm, left>> ELSE Patch(fill[f].copy)
  /\ fill' = [fill EXCEPT ![f].at = "check", ![f].copy = <<>>]
  /\ UNCHANGED <<warmFree, main, take, awsVars, got, blame>>

-----------------------------------------------------------------------------
(* provision, for a Sandbox that may adopt from the pool. *)

\* Mutant: the list keeps the MicroVM handed out.
PopWarmKeeps(s) ==
  /\ Serving /\ take[s].at = "want" /\ warmFree # <<>>
  /\ LET v == warmFree[Len(warmFree)] IN
       /\ take' = [take EXCEPT ![s] = [At("save") EXCEPT !.id = v]]
       /\ got' = [got EXCEPT ![s] = @ \cup {v}]
  /\ UNCHANGED <<poolVars, main, fill, awsVars, blame, left>>

PopWarm(s) ==
  /\ Serving /\ take[s].at = "want" /\ warmFree # <<>>
  /\ LET v == warmFree[Len(warmFree)] IN
       /\ take' = [take EXCEPT ![s] = [At("save") EXCEPT !.id = v]]
       /\ got' = [got EXCEPT ![s] = @ \cup {v}]
  /\ warmFree' = SubSeq(warmFree, 1, Len(warmFree) - 1)
  /\ UNCHANGED <<cm, main, fill, awsVars, blame, left>>

TakerCopies(s) ==
  /\ take[s].at = "save"
  /\ take' = [take EXCEPT ![s].at = "patch", ![s].copy = warmFree]
  /\ UNCHANGED <<poolVars, main, fill, awsVars, histVars>>

\* Mutant: the pool is not replenished.
TakerPatchesOnly(s) ==
  /\ take[s].at = "patch"
  /\ Patch(take[s].copy)
  /\ take' = [take EXCEPT ![s].at = "record", ![s].copy = <<>>]
  /\ UNCHANGED <<warmFree, main, fill, awsVars, got, blame>>

\* The patch done, a goroutine replenishes the pool.
TakerPatches(s) ==
  /\ take[s].at = "patch"
  /\ Patch(take[s].copy)
  /\ take' = [take EXCEPT ![s].at = "record", ![s].copy = <<>>]
  /\ \E f \in Fillers \ Filling : fill' = [fill EXCEPT ![f] = NewFiller(FALSE)]
  /\ UNCHANGED <<warmFree, main, awsVars, got, blame>>

\* reconcile records the identifier in the Sandbox.
Adopt(s) ==
  /\ take[s].at = "record"
  /\ take' = [take EXCEPT ![s].at = "have"]
  /\ UNCHANGED <<poolVars, main, fill, awsVars, histVars>>

\* The annotation is refused: the reconcile ends with the error, and the next
\* one finds a Sandbox without a MicroVM.
AdoptFails(s) ==
  /\ take[s].at = "record"
  /\ Mishap
  /\ take' = [take EXCEPT ![s] = At("want")]
  /\ blame' = blame \cup {"adopt"}
  /\ UNCHANGED <<poolVars, main, fill, awsVars, got>>

-----------------------------------------------------------------------------
(* The service. *)

VmProgress(v) ==
  /\ Progress(vm[v]) # vm[v]
  /\ vm' = [vm EXCEPT ![v] = Progress(@)]
  /\ UNCHANGED <<poolVars, main, fill, take, pool, histVars>>

VmDrift(v) ==
  /\ Mishap
  /\ \E st \in Drift(vm[v]) : vm' = [vm EXCEPT ![v] = st]
  /\ UNCHANGED <<poolVars, main, fill, take, pool, got, blame>>

-----------------------------------------------------------------------------
Init ==
  /\ warmFree = <<>> /\ cm = <<>>
  /\ main = At("down")
  /\ fill = [f \in Fillers |-> NoFiller]
  /\ take = [s \in Takers |-> At("want")]
  /\ vm = [v \in VMs |-> "UNUSED"]
  /\ pool = {}
  /\ got = [s \in Takers |-> {}]
  /\ blame = {}
  /\ left = Mishaps

Boot == Start \/ LoadRead \/ Recover \/ Recovered \/ Drain \/ Kill \/ Killed \/ Exit

Fill(f) ==
  \/ Check(f) \/ Launch(f) \/ LaunchRefused(f) \/ AppendFree(f)
  \/ FillerCopies(f) \/ FillerPatches(f)

Taking(s) == PopWarm(s) \/ TakerCopies(s) \/ TakerPatches(s) \/ Adopt(s)

Next ==
  \/ Boot \/ LoadFails \/ Stop \/ Quit \/ Crash
  \/ \E f \in Fillers : Fill(f) \/ LaunchFails(f)
  \/ \E s \in Takers : Taking(s) \/ AdoptFails(s)
  \/ \E v \in VMs : VmProgress(v) \/ VmDrift(v)

Spec == Init /\ [][Next]_vars

\* The goroutines are scheduled and the service completes its launches.
\* Nothing is assumed of mishaps, nor of Sandboxes coming to take a MicroVM.
Fairness ==
  /\ WF_vars(Boot)
  /\ \A f \in Fillers : WF_vars(Fill(f))
  /\ \A s \in Takers : WF_vars(TakerCopies(s) \/ TakerPatches(s) \/ Adopt(s))
  /\ \A v \in VMs : WF_vars(VmProgress(v))

FairSpec == Spec /\ Fairness

-----------------------------------------------------------------------------
(* Properties. *)

Places == {"none", "check", "run", "wait", "save", "patch"}

\* The types of the variables; a goroutine past its launch or pop holds an
\* identifier, and the pool holds none twice.
TypeOK ==
  /\ \A f \in Fillers : fill[f].at = "wait" => fill[f].id \in VMs
  /\ \A s \in Takers : take[s].at # "want" => take[s].id \in VMs
  /\ \A i, j \in 1..Len(warmFree) : warmFree[i] = warmFree[j] => i = j
  /\ warmFree \in Seq(VMs) /\ cm \in Seq(VMs)
  /\ main \in [at : {"down", "load", "recover", "serve", "drain", "kill", "patch"},
               id : {None}, copy : Seq(VMs)]
  /\ fill \in [Fillers -> [at : Places, id : VMs \cup {None}, copy : Seq(VMs),
                           first : BOOLEAN]]
  /\ take \in [Takers -> [at : {"want", "save", "patch", "record", "have"},
                          id : VMs \cup {None}, copy : Seq(VMs)]]
  /\ vm \in [VMs -> VmStates]
  /\ pool \in SUBSET VMs
  /\ got \in [Takers -> SUBSET VMs]
  /\ blame \in SUBSET {"load", "kill", "staleSave", "unsaved", "launch",
                       "lostId", "adopt"}
  /\ left \in 0..Mishaps

\* The goroutines that have found the pool short, and not added to it yet.
Launching == {f \in Fillers : fill[f].at \in {"run", "wait"}}

\* The length is checked before a launch that takes a minute: the pool may
\* grow past --warm-size, but by no more than the other goroutines that were
\* launching at the same time.
OvershootBounded ==
  Len(warmFree) + Cardinality(Launching) <= WarmSize + Cardinality(Fillers) - 1

\* Two Sandboxes are given the same MicroVM only after the provider died while
\* the ConfigMap listed a MicroVM that had left the pool (its pop not saved
\* yet, the patch failed, or was overtaken by that of an older copy).
SharedCauses ==
  \A s, t \in Takers :
    s # t /\ got[s] \cap got[t] # {} => "staleSave" \in blame

\* A live MicroVM launched for the pool is in the pool, on its way in or out,
\* in the saved list of a provider that is not up yet, or with a Sandbox; it
\* is forgotten only if a provider died that had not saved it, the load or
\* the drain failed for it, the answer to its launch was lost, or the patch
\* that records it in its Sandbox failed.
ForgottenCauses ==
  \A v \in pool :
    vm[v] \in Live =>
      \/ v \in InMemory \cup Adopted
      \/ main.at \in {"down", "load"} /\ v \in Range(cm)
      \/ blame \cap {"load", "kill", "unsaved", "lostId", "adopt"} # {}

\* A provider that stays up has a full pool in the end, unless a launch fails
\* (the goroutine gives up) or the quota is used up.
PoolRefills ==
  <>[](\/ Len(warmFree) >= WarmSize
       \/ "launch" \in blame
       \/ \A v \in VMs : vm[v] # "UNUSED")

-----------------------------------------------------------------------------
(* The pool without goroutines, lock, saved list and copies of it. *)

\* What the next Sandbox can be given, by this provider or, when none has
\* loaded the pool yet, by the one that will.
OnOffer ==
  IF main.at \in {"down", "load"} THEN Range(cm)
  ELSE Range(warmFree) \cup (IF main.at = "recover" THEN Range(main.copy) ELSE {})

Promise ==
  INSTANCE PoolPromise WITH
    Sandboxes <- Takers,
    up <- Serving,
    launched <- pool,
    fresh <- {fill[f].id : f \in Fillers} \ {None},
    offered <- OnOffer,
    given <- got,
    excused <- "staleSave" \in blame

\* The warm pool implements PoolPromise until a provider dies that leaves a
\* stale list: no MicroVM is offered again once it has been given, nor while
\* it is in the pool, whatever the goroutines, patches, deaths and loads do.
ImplementsPromise == Promise!Spec

-----------------------------------------------------------------------------
(* What the code's comments say, and the code does not always do. *)

\* A restart does not leak, or forget, pre-run VMs (saveWarmPool): a provider
\* that has just recovered its pool knows of every RUNNING one that no
\* Sandbox has been given.
RestartForgetsNothing ==
  main.at = "serve" /\ "lostId" \notin blame =>
    \A v \in pool : vm[v] = "RUNNING" => v \in InMemory \cup Given
=============================================================================
