---------------------------- MODULE SandboxLife ----------------------------
(***************************************************************************)
(* The life of a Sandbox as its users see it (src/examples/USAGE.md,       *)
(* src/DESIGN.md): an object comes and goes, is held by the provider's     *)
(* finalizer, obtains one MicroVM at a time while it is held, records its  *)
(* identifier, and is released only when nothing runs for it any more.     *)
(*                                                                         *)
(* There is no cache, no queue, no worker and no call here; the objects    *)
(* and the MicroVMs change in one step.  Once something has happened that  *)
(* excuses the provider, nothing is promised.                              *)
(***************************************************************************)
CONSTANTS
  Sandboxes,   \* names of Sandboxes
  VMs,         \* identifiers of MicroVMs
  None         \* no MicroVM

VARIABLES
  object,      \* per Sandbox, its object: "none", "live" or "deleting"
  held,        \* whether it carries the provider's finalizer
  recorded,    \* the MicroVM that it names, or None
  runs,        \* the MicroVMs obtained for it that have not ended
  excused      \* whether the provider need not keep its promises any more

life == <<object, held, recorded, runs, excused>>

Becomes(s, phase, hold, v) ==
  /\ object' = [object EXCEPT ![s] = phase]
  /\ held' = [held EXCEPT ![s] = hold]
  /\ recorded' = [recorded EXCEPT ![s] = v]
  /\ UNCHANGED runs

Vanishes(s) == Becomes(s, "none", FALSE, None)

Runs(s, ids) ==
  /\ runs' = [runs EXCEPT ![s] = ids]
  /\ UNCHANGED <<object, held, recorded>>

Quiet(s) == runs[s] = {}
Free(s, v) == \A x \in Sandboxes \ {s} : v \notin runs[x]

\* A name is used again only when nothing runs for it.
Create(s) ==
  /\ object[s] = "none" /\ Quiet(s)
  /\ Becomes(s, "live", FALSE, None)

\* The finalizer comes before the MicroVM, and only on a live object.
Hold(s) ==
  /\ object[s] = "live" /\ ~held[s] /\ recorded[s] = None
  /\ Becomes(s, "live", TRUE, None)

Obtain(s, v) ==
  /\ object[s] # "none" /\ held[s] /\ recorded[s] = None
  /\ Quiet(s) /\ Free(s, v)
  /\ Runs(s, {v})

\* The MicroVM may have ended by now, but no other one runs.
Record(s, v) ==
  /\ object[s] # "none" /\ held[s] /\ recorded[s] = None
  /\ runs[s] \subseteq {v} /\ Free(s, v)
  /\ Becomes(s, object[s], TRUE, v)

\* A MicroVM ends: by itself, by the service, by the deletion of the Sandbox.
End(s, v) == v \in runs[s] /\ Runs(s, runs[s] \ {v})

\* A deleted object stays for as long as somebody's finalizer is on it.
Delete(s) ==
  /\ object[s] = "live"
  /\ Becomes(s, "deleting", held[s], recorded[s])

Release(s) ==
  /\ object[s] = "deleting" /\ held[s] /\ Quiet(s)
  /\ Becomes(s, "deleting", FALSE, recorded[s]) \/ Vanishes(s)

Vanish(s) ==
  /\ object[s] # "none" /\ ~held[s] /\ Quiet(s)
  /\ Vanishes(s)

Init ==
  /\ object = [s \in Sandboxes |-> "none"]
  /\ held = [s \in Sandboxes |-> FALSE]
  /\ recorded = [s \in Sandboxes |-> None]
  /\ runs = [s \in Sandboxes |-> {}]
  /\ excused = FALSE

Step(s) ==
  \/ Create(s) \/ Hold(s) \/ Delete(s) \/ Release(s) \/ Vanish(s)
  \/ \E v \in VMs : Obtain(s, v) \/ Record(s, v) \/ End(s, v)

Next ==
  \/ excused'
  \/ UNCHANGED excused /\ \E s \in Sandboxes : Step(s)

Spec == Init /\ [][Next]_life

\* What this life comes to: a Sandbox has one MicroVM at most, the one it
\* names if it names one, shared with nobody, and while that runs the object
\* is there and held.
OneGuardedVm ==
  excused \/ \A s \in Sandboxes :
    /\ runs[s] # {} => object[s] # "none" /\ held[s]
    /\ \A v, u \in runs[s] : v = u /\ recorded[s] \in {None, v}
    /\ \A t \in Sandboxes \ {s} : runs[s] \cap runs[t] = {}
=============================================================================
