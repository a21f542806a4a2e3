-------------------------- MODULE TokenCacheProofs --------------------------
(* Proofs about TokenCache: its invariants, and that it implements          *)
(* TokenProvider.                                                           *)
EXTENDS TokenCache, TLAPS

-----------------------------------------------------------------------------
(* Types. *)

LEMMA InitType == TokenInit => TokenTypeOK
BY ClockAssumption DEF TokenInit, TokenTypeOK, Idle, At

\* A type for what is written into call.
CallType ==
  [at : {"idle", "lock", "mint", "sent", "refused"}, exp : Nat, since : Nat]

LEMMA StepType == TokenTypeOK /\ [TokenNext]_tokenVars => TokenTypeOK'
<1> SUFFICES ASSUME TokenTypeOK, [TokenNext]_tokenVars PROVE TokenTypeOK'
  OBVIOUS
<1> USE DEF TokenTypeOK
<1>1. Idle \in CallType /\ At("lock") \in CallType /\ At("mint") \in CallType
      /\ At("refused") \in CallType
  BY DEF Idle, At, CallType
<1>2. \A e \in Nat : Holding(e) \in CallType
  BY DEF Holding, CallType
<1>3. \A left \in Lifetimes : now + left \in Nat
  BY ClockAssumption
<1>a. CASE \E c \in Callers : Call(c)
  BY <1>a, <1>1 DEF Call, CallType
<1>b. CASE \E c \in Callers : UseCached(c)
  BY <1>b, <1>2 DEF UseCached, CallType
<1>c. CASE \E c \in Callers : StartMint(c)
  BY <1>c, <1>1 DEF StartMint, CallType
<1>d. CASE \E c \in Callers : Minted(c)
  BY <1>d, <1>2, <1>3 DEF Minted, CallType
<1>e. CASE \E c \in Callers : MintFails(c)
  BY <1>e, <1>1 DEF MintFails, CallType
<1>f. CASE \E c \in Callers : Finish(c)
  BY <1>f, <1>1 DEF Finish, CallType
<1>g. CASE Tick
  BY <1>g, ClockAssumption DEF Tick
<1>h. CASE UNCHANGED tokenVars
  BY <1>h DEF tokenVars
<1> QED
  BY <1>a, <1>b, <1>c, <1>d, <1>e, <1>f, <1>g, <1>h DEF TokenNext, Token

-----------------------------------------------------------------------------
(* The inductive invariant. *)

LEMMA InitInv == TokenInit => TokenInv
BY InitType, CallerAssumption DEF TokenInit, TokenInv, Idle, At, Sent

LEMMA StepInv == TokenInv /\ [TokenNext]_tokenVars => TokenInv'
<1> SUFFICES ASSUME TokenInv, [TokenNext]_tokenVars PROVE TokenInv'
  OBVIOUS
<1>t. TokenTypeOK /\ TokenTypeOK'
  BY StepType DEF TokenInv
<1> DEFINE Local(c) ==
      /\ call[c].at = "mint" <=> lock = c
      /\ call[c].at = "mint" => ~Usable(cached)
      /\ ~Sent(c) => call[c] = At(call[c].at)
<1> SUFFICES ASSUME NEW d \in Callers PROVE Local(d)'
  BY <1>t DEF TokenInv
<1>i. \A c \in Callers : Local(c)
  BY DEF TokenInv
<1> USE <1>t, <1>i, CallerAssumption, ClockAssumption
      DEF TokenTypeOK, Idle, At, Holding, Sent, Usable
<1>a. CASE \E c \in Callers : Call(c)
  BY <1>a DEF Call
<1>b. CASE \E c \in Callers : UseCached(c)
  BY <1>b DEF UseCached
<1>c. CASE \E c \in Callers : StartMint(c)
  BY <1>c DEF StartMint
<1>d. CASE \E c \in Callers : Minted(c)
  BY <1>d DEF Minted
<1>e. CASE \E c \in Callers : MintFails(c)
  BY <1>e DEF MintFails
<1>f. CASE \E c \in Callers : Finish(c)
  BY <1>f DEF Finish, Denied
<1>g. CASE Tick
  BY <1>g DEF Tick
<1>h. CASE UNCHANGED tokenVars
  BY <1>h DEF tokenVars
<1> QED
  BY <1>a, <1>b, <1>c, <1>d, <1>e, <1>f, <1>g, <1>h DEF TokenNext, Token

\* Whoever mints holds the mutex, alone, for any number of goroutines.
THEOREM Invariance == TokenSpec => []TokenInv
BY InitInv, StepInv, PTL DEF TokenSpec

\* No request travels with a token that had the margin or less when it was
\* given, unless it was minted so, for any margin, delay and lifetimes.
THEOREM TokensOutliveRequests == TokenSpec => []TokenOutlivesRequest
<1>1. TokenInit => TokenOutlivesRequest
  BY DEF TokenInit, TokenOutlivesRequest, Sent, Idle, At
<1>2. TokenInv /\ TokenOutlivesRequest /\ [TokenNext]_tokenVars => TokenOutlivesRequest'
  <2> SUFFICES ASSUME TokenInv, TokenOutlivesRequest, [TokenNext]_tokenVars
               PROVE  TokenOutlivesRequest'
    OBVIOUS
  <2> USE ClockAssumption DEF TokenInv, TokenTypeOK, TokenOutlivesRequest, Sent
  <2>a. CASE \E c \in Callers : Call(c)
    BY <2>a DEF Call, Idle, At
  <2>b. CASE \E c \in Callers : UseCached(c)
    BY <2>b DEF UseCached, Usable, Holding
  <2>c. CASE \E c \in Callers : StartMint(c)
    BY <2>c DEF StartMint, Idle, At
  <2>d. CASE \E c \in Callers : Minted(c)
    BY <2>d DEF Minted, Holding
  <2>e. CASE \E c \in Callers : MintFails(c)
    BY <2>e DEF MintFails, Idle, At
  <2>f. CASE \E c \in Callers : Finish(c)
    BY <2>f DEF Finish, Idle, At
  <2>g. CASE Tick
    BY <2>g DEF Tick
  <2>h. CASE UNCHANGED tokenVars
    BY <2>h DEF tokenVars
  <2> QED
    BY <2>a, <2>b, <2>c, <2>d, <2>e, <2>f, <2>g, <2>h DEF TokenNext, Token
<1> QED
  BY <1>1, <1>2, Invariance, PTL DEF TokenSpec

-----------------------------------------------------------------------------
(* The refinement. *)

LEMMA InitRefines == TokenInit => Provider!Init
BY DEF TokenInit, Provider!Init, Provider!Idle, AskedOf, Idle, At

\* A step that changes the call of one goroutine changes what it has asked
\* for, and nothing that another one has.
LEMMA AskedOfOne ==
  ASSUME call \in [Callers -> CallType], NEW c \in Callers, NEW r,
         call' = [call EXCEPT ![c] = r]
  PROVE  [d \in Callers |-> AskedOf(d)]' =
           [[d \in Callers |-> AskedOf(d)] EXCEPT ![c] = AskedOf(c)']
BY DEF AskedOf

\* The mutex and the call of Mint are hidden: a token from the cache and a
\* minted one are answers, a failed mint is a refusal, and the rest is the
\* clock, a question, an end, or nothing.
LEMMA StepRefines ==
  TokenInv /\ [TokenNext]_tokenVars => [Provider!Next]_(Provider!provider)
<1> SUFFICES ASSUME TokenInv, [TokenNext]_tokenVars
             PROVE  [Provider!Next]_(Provider!provider)
  OBVIOUS
<1>t. TokenTypeOK /\ call \in [Callers -> CallType]
  BY DEF TokenInv, TokenTypeOK, CallType
<1>i. \A c \in Callers : ~Sent(c) => call[c] = At(call[c].at)
  BY DEF TokenInv
<1> DEFINE Asked == [d \in Callers |-> AskedOf(d)]
<1>a. ASSUME NEW c \in Callers, Call(c) PROVE Provider!Ask(c)
  <2>1. Asked[c] = Provider!Idle /\ AskedOf(c)' = Provider!Waiting
    BY <1>t, <1>a DEF Call, Idle, At, AskedOf, Provider!Idle, Provider!Waiting, CallType
  <2>2. Asked' = [Asked EXCEPT ![c] = AskedOf(c)']
    BY <1>t, <1>a, AskedOfOne DEF Call
  <2> QED
    BY <1>a, <2>1, <2>2 DEF Call, Provider!Ask
<1>b. ASSUME NEW c \in Callers, UseCached(c) PROVE Provider!AnswerOld(c)
  <2>1. Asked[c] = Provider!Waiting /\ AskedOf(c)' = Provider!Given(cached)
    BY <1>t, <1>b DEF UseCached, Holding, At, AskedOf, Provider!Waiting, Provider!Given, CallType
  <2>2. Asked' = [Asked EXCEPT ![c] = AskedOf(c)']
    BY <1>t, <1>b, AskedOfOne DEF UseCached
  <2> QED
    BY <1>b, <2>1, <2>2 DEF UseCached, Usable, Provider!AnswerOld, Provider!Fresh
<1>c. ASSUME NEW c \in Callers, StartMint(c) PROVE UNCHANGED Provider!provider
  <2>1. AskedOf(c)' = Asked[c]
    BY <1>t, <1>c DEF StartMint, At, AskedOf, CallType
  <2>2. Asked' = [Asked EXCEPT ![c] = AskedOf(c)']
    BY <1>t, <1>c, AskedOfOne DEF StartMint
  <2> QED
    BY <1>c, <2>1, <2>2 DEF StartMint, Provider!provider
<1>d. ASSUME NEW c \in Callers, Minted(c) PROVE Provider!AnswerNew(c)
  <2>1. PICK left \in Lifetimes :
          /\ cached' = now + left
          /\ call' = [call EXCEPT ![c] = Holding(now + left)]
    BY <1>d DEF Minted
  <2>2. Asked[c] = Provider!Waiting /\ AskedOf(c)' = Provider!Given(now + left)
    BY <1>t, <1>d, <2>1 DEF Minted, Holding, At, AskedOf, Provider!Waiting, Provider!Given, CallType
  <2>3. Asked' = [Asked EXCEPT ![c] = AskedOf(c)']
    BY <1>t, <2>1, AskedOfOne
  <2>4. ~Provider!Fresh(cached)
    BY <1>d DEF Minted, At, TokenInv, Usable, Provider!Fresh
  <2> QED
    BY <1>d, <2>1, <2>2, <2>3, <2>4 DEF Minted, Provider!AnswerNew
<1>e. ASSUME NEW c \in Callers, MintFails(c) PROVE Provider!Refuse(c)
  <2>1. Asked[c] = Provider!Waiting /\ AskedOf(c)' = Provider!Refused
    BY <1>t, <1>e DEF MintFails, At, AskedOf, Provider!Waiting, Provider!Refused, CallType
  <2>2. Asked' = [Asked EXCEPT ![c] = AskedOf(c)']
    BY <1>t, <1>e, AskedOfOne DEF MintFails
  <2>3. ~Provider!Fresh(cached)
    BY <1>e DEF MintFails, At, TokenInv, Usable, Provider!Fresh
  <2> QED
    BY <1>e, <2>1, <2>2, <2>3 DEF MintFails, Provider!Refuse
<1>f. ASSUME NEW c \in Callers, Finish(c) PROVE Provider!Finish(c)
  <2>1. Asked[c].at \in {"given", "refused"} /\ AskedOf(c)' = Provider!Idle
    BY <1>t, <1>f DEF Finish, Sent, Denied, Idle, At, AskedOf, Provider!Idle, CallType
  <2>2. Asked' = [Asked EXCEPT ![c] = AskedOf(c)']
    BY <1>t, <1>f, AskedOfOne DEF Finish
  <2> QED
    BY <1>f, <2>1, <2>2 DEF Finish, Provider!Finish
<1>g. ASSUME Tick PROVE Provider!Tick
  BY <1>g DEF Tick, Provider!Tick, AskedOf
<1>h. ASSUME UNCHANGED tokenVars PROVE UNCHANGED Provider!provider
  BY <1>h DEF tokenVars, Provider!provider, AskedOf
<1> QED
  BY <1>a, <1>b, <1>c, <1>d, <1>e, <1>f, <1>g, <1>h
  DEF TokenNext, Token, Provider!Next

\* The cache implements the abstract provider, for any number of goroutines,
\* any margin and any lifetimes of the tokens.
THEOREM Implementation == TokenSpec => ImplementsProvider
BY InitRefines, StepRefines, Invariance, PTL
DEF TokenSpec, ImplementsProvider, Provider!Spec
=============================================================================
