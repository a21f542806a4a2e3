--------------------------- MODULE TokenProvider ---------------------------
(***************************************************************************)
(* What the callers of a TokenProvider rely on: "Token returns a valid JWE *)
(* auth token for the MicroVM endpoint, refreshing as needed"              *)
(* (src/sdk-fork/microvm.go, src/client/microvm_transport.go).  A token is *)
(* known by the time at which it expires.  Each call is answered in one    *)
(* step with the token at hand or with a new one; a new one is obtained,   *)
(* and a call can be refused, only when the one at hand has no more than   *)
(* the margin left.                                                        *)
(***************************************************************************)
EXTENDS Naturals

CONSTANTS
  Callers,
  Margin,       \* RefreshBefore, in ticks of the clock
  Lifetimes,    \* what a new token may have left when it arrives
  MaxTime       \* bound on the clock

VARIABLES
  now,      \* time, in ticks
  atHand,   \* expiry of the newest token, 0 before the first
  asked     \* per caller its call, and the expiry of the token it was given

provider == <<now, atHand, asked>>

Idle == [at |-> "idle", exp |-> 0]
Waiting == [at |-> "waiting", exp |-> 0]
Refused == [at |-> "refused", exp |-> 0]
Given(exp) == [at |-> "given", exp |-> exp]

Fresh(exp) == exp > now + Margin

Ask(c) ==
  /\ asked[c] = Idle
  /\ asked' = [asked EXCEPT ![c] = Waiting]
  /\ UNCHANGED <<now, atHand>>

AnswerOld(c) ==
  /\ asked[c] = Waiting /\ Fresh(atHand)
  /\ asked' = [asked EXCEPT ![c] = Given(atHand)]
  /\ UNCHANGED <<now, atHand>>

AnswerNew(c) ==
  /\ asked[c] = Waiting /\ ~Fresh(atHand)
  /\ \E left \in Lifetimes :
       /\ atHand' = now + left
       /\ asked' = [asked EXCEPT ![c] = Given(now + left)]
  /\ UNCHANGED now

Refuse(c) ==
  /\ asked[c] = Waiting /\ ~Fresh(atHand)
  /\ asked' = [asked EXCEPT ![c] = Refused]
  /\ UNCHANGED <<now, atHand>>

\* The caller's request, with its token, reaches the edge; or the caller
\* takes note of the error.
Finish(c) ==
  /\ asked[c].at \in {"given", "refused"}
  /\ asked' = [asked EXCEPT ![c] = Idle]
  /\ UNCHANGED <<now, atHand>>

Tick ==
  /\ now < MaxTime
  /\ now' = now + 1
  /\ UNCHANGED <<atHand, asked>>

Init ==
  /\ now = 0
  /\ atHand = 0
  /\ asked = [c \in Callers |-> Idle]

Next ==
  \/ \E c \in Callers :
       Ask(c) \/ AnswerOld(c) \/ AnswerNew(c) \/ Refuse(c) \/ Finish(c)
  \/ Tick

Spec == Init /\ [][Next]_provider
=============================================================================
