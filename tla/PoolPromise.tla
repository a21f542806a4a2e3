---------------------------- MODULE PoolPromise ----------------------------
(***************************************************************************)
(* What a warm pool promises the Sandboxes that take from it               *)
(* (src/provider/main.go, "warm pool"): each MicroVM launched for the pool *)
(* is given at most once, whatever dies and starts again in between.       *)
(*                                                                         *)
(* There is no saved list here and no copy of it on its way, no goroutine  *)
(* and no lock.  Once something has happened that excuses the provider,    *)
(* nothing is promised.                                                    *)
(***************************************************************************)
CONSTANTS
  Sandboxes,   \* those that take from the pool
  VMs          \* identifiers of MicroVMs

VARIABLES
  up,          \* whether a provider hands out MicroVMs
  launched,    \* the MicroVMs ever launched for the pool
  fresh,       \* those launched by this provider that it has not offered yet
  offered,     \* those in the pool
  given,       \* per Sandbox, those it has been given
  excused      \* whether the provider need not keep its promise any more

promise == <<up, launched, fresh, offered, given, excused>>

GivenToAny == UNION {given[s] : s \in Sandboxes}

\* The answer to a launch may be lost; the provider tries to fill its pool
\* with the ones it knows of, each offered once.
Launch(v) ==
  /\ up /\ v \notin launched
  /\ launched' = launched \cup {v}
  /\ fresh' \in {fresh, fresh \cup {v}}
  /\ UNCHANGED <<up, offered, given>>

Offer(v) ==
  /\ up /\ v \in fresh
  /\ fresh' = fresh \ {v} /\ offered' = offered \cup {v}
  /\ UNCHANGED <<up, launched, given>>

\* What is given is in the pool no more.
Take(s, v) ==
  /\ up /\ v \in offered
  /\ offered' = offered \ {v}
  /\ given' = [given EXCEPT ![s] = @ \cup {v}]
  /\ UNCHANGED <<up, launched, fresh>>

\* A provider starts, or stops, with a part of what is offered.
Drop ==
  /\ up => up'
  /\ offered' \subseteq offered
  /\ UNCHANGED <<launched, fresh, given>>

\* The next provider offers what has not been given, as far as it is known.
Die ==
  /\ ~up' /\ fresh' = {}
  /\ offered' \subseteq launched \ GivenToAny
  /\ UNCHANGED <<launched, given>>

Init ==
  /\ ~up /\ ~excused
  /\ launched = {} /\ fresh = {} /\ offered = {}
  /\ given = [s \in Sandboxes |-> {}]

Step ==
  \/ \E v \in VMs : Launch(v) \/ Offer(v) \/ \E s \in Sandboxes : Take(s, v)
  \/ Drop \/ Die

Next == excused' \/ (UNCHANGED excused /\ Step)

Spec == Init /\ [][Next]_promise

\* What the promise comes to: no MicroVM for two Sandboxes.
GivenOnce ==
  excused \/ \A s, t \in Sandboxes : s # t => given[s] \cap given[t] = {}
=============================================================================
