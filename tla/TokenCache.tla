----------------------------- MODULE TokenCache -----------------------------
(***************************************************************************)
(* RefreshingToken of the SDK (src/sdk-fork/microvm.go) and CachingToken   *)
(* of the transport client (src/client/microvm_transport.go): goroutines   *)
(* that share one cached token under a mutex, which its holder keeps while *)
(* it mints a new one.  The requests that carry the tokens travel to the   *)
(* edge, which looks at the token when the request arrives, and the clock  *)
(* goes on in all of this.                                                 *)
(***************************************************************************)
EXTENDS Naturals

CONSTANTS
  Callers,      \* goroutines
  Nobody,       \* the mutex is free
  Margin,       \* RefreshBefore, in ticks of the clock
  Lifetimes,    \* what a minted token may have left when Mint returns it
  Delay,        \* the longest that a request travels
  MaxTime       \* bound on the clock

ASSUME CallerAssumption == Nobody \notin Callers
ASSUME ClockAssumption ==
  /\ Margin \in Nat /\ Delay \in Nat /\ MaxTime \in Nat
  /\ Lifetimes \subseteq Nat \ {0}

VARIABLES
  now,      \* time, in ticks
  lock,     \* who holds the mutex
  cached,   \* expiry of the cached token, 0 for none
  call      \* per goroutine: where it is, its token's expiry, when it was given

tokenVars == <<now, lock, cached, call>>

At(place) == [at |-> place, exp |-> 0, since |-> 0]
Idle == At("idle")
Holding(exp) == [at |-> "sent", exp |-> exp, since |-> now]

\* Mutant: a token is used until it expires.
UsableToTheEnd(exp) == exp > now

Usable(exp) == exp > now + Margin

\* proxyRoundTripper and proxyPerRPC: a request, or an RPC, wants a token.
Call(c) ==
  /\ call[c] = Idle
  /\ call' = [call EXCEPT ![c] = At("lock")]
  /\ UNCHANGED <<now, lock, cached>>

\* The mutex is taken; a token that is usable is given out, and the mutex let go.
UseCached(c) ==
  /\ call[c] = At("lock") /\ lock = Nobody
  /\ Usable(cached)
  /\ call' = [call EXCEPT ![c] = Holding(cached)]
  /\ UNCHANGED <<now, lock, cached>>

\* Mutant: the mutex is not held during the call of Mint.
StartMintUnlocked(c) ==
  /\ call[c] = At("lock") /\ lock = Nobody
  /\ ~Usable(cached)
  /\ call' = [call EXCEPT ![c] = At("mint")]
  /\ UNCHANGED <<now, lock, cached>>

StartMint(c) ==
  /\ call[c] = At("lock") /\ lock = Nobody
  /\ ~Usable(cached)
  /\ lock' = c
  /\ call' = [call EXCEPT ![c] = At("mint")]
  /\ UNCHANGED <<now, cached>>

\* Mint returns a token with some life left, or an error; the cache keeps
\* what it had when it is an error.
Minted(c) ==
  /\ call[c] = At("mint")
  /\ lock' = Nobody
  /\ \E left \in Lifetimes :
       /\ cached' = now + left
       /\ call' = [call EXCEPT ![c] = Holding(now + left)]
  /\ UNCHANGED now

MintFails(c) ==
  /\ call[c] = At("mint")
  /\ lock' = Nobody
  /\ call' = [call EXCEPT ![c] = At("refused")]
  /\ UNCHANGED <<now, cached>>

Token(c) == UseCached(c) \/ StartMint(c) \/ Minted(c) \/ MintFails(c)

\* The request reaches the edge with its token, or is not made.
Sent(c) == call[c].at = "sent"
Denied(c) == call[c].at = "refused"
Accepted(c) == Sent(c) /\ now < call[c].exp

Finish(c) ==
  /\ Sent(c) \/ Denied(c)
  /\ call' = [call EXCEPT ![c] = Idle]
  /\ UNCHANGED <<now, lock, cached>>

\* No request travels for longer than Delay.
Tick ==
  /\ now < MaxTime
  /\ \A c \in Callers : Sent(c) => now < call[c].since + Delay
  /\ now' = now + 1
  /\ UNCHANGED <<lock, cached, call>>

TokenInit ==
  /\ now = 0
  /\ lock = Nobody
  /\ cached = 0
  /\ call = [c \in Callers |-> Idle]

TokenNext ==
  \/ \E c \in Callers : Call(c) \/ Token(c) \/ Finish(c)
  \/ Tick

TokenSpec == TokenInit /\ [][TokenNext]_tokenVars

-----------------------------------------------------------------------------
(* Properties. *)

TokenTypeOK ==
  /\ now \in 0..MaxTime
  /\ lock \in Callers \cup {Nobody}
  /\ cached \in Nat
  /\ call \in [Callers -> [at : {"idle", "lock", "mint", "sent", "refused"},
                           exp : Nat, since : Nat]]

\* The inductive invariant: whoever mints holds the mutex, alone, and the
\* cached token is still the one that it found wanting; a call that has no
\* token yet has no trace of one.
TokenInv ==
  /\ TokenTypeOK
  /\ \A c \in Callers :
       /\ call[c].at = "mint" <=> lock = c
       /\ call[c].at = "mint" => ~Usable(cached)
       /\ ~Sent(c) => call[c] = At(call[c].at)

\* A token in use has more than the margin left of the time it was given, or
\* all that a minted token had: when no request travels for longer than the
\* margin, the edge refuses none but those whose token was minted with no
\* more than the margin to live.
TokenOutlivesRequest ==
  \A c \in Callers :
    Sent(c) =>
      /\ now <= call[c].since + Delay
      /\ \/ call[c].exp > call[c].since + Margin
         \/ \E left \in Lifetimes : left <= Margin /\ call[c].exp = call[c].since + left

AskedOf(c) ==
  CASE call[c].at \in {"lock", "mint"} -> [at |-> "waiting", exp |-> 0]
    [] call[c].at = "sent" -> [at |-> "given", exp |-> call[c].exp]
    [] OTHER -> [at |-> call[c].at, exp |-> 0]

Provider ==
  INSTANCE TokenProvider WITH
    atHand <- cached, asked <- [c \in Callers |-> AskedOf(c)]

\* The cache implements TokenProvider, the mutex and the call of Mint hidden:
\* a caller is served as if in one step, never with a second token while the
\* first is fresh, and refused only when there is none that is.
ImplementsProvider == Provider!Spec
=============================================================================
