----------------------------- MODULE ShimProofs -----------------------------
(***************************************************************************)
(* Proofs about Shim, for any number of calls, requests, abandoned hooks   *)
(* and mishaps: what a session finds when its traffic flows, and what it   *)
(* takes to open the gate after /terminate.                                *)
(***************************************************************************)
EXTENDS Shim, TLAPS

-----------------------------------------------------------------------------
(* The invariant. *)

HookType == [kind : Kinds, at : Places, cancelled : BOOLEAN, overlaps : BOOLEAN,
             env : Envs, entries : SUBSET {"old", "log", "data"}]
CmdType == [at : {"none", "prepared", "running", "failed", "exited", "reaped"},
            env : Envs, log : {"none", "open", "lost", "closed"},
            waiter : {"none", "waits", "gone"}]

\* The service waits for the one handler that it has called and not given up.
Calling ==
  /\ \A i \in Calls : svc.call = i <=> Active(i) /\ ~hook[i].cancelled
  /\ \A i \in Calls : hook[i].at = "none" <=> hook[i].kind = "none"
  /\ \A i \in Calls : hook[i].kind \in {"ready", "validate"} =>
       svc.at = "build" /\ svc.call = i
  /\ svc.at = "build" =>
       \A i \in Calls : hook[i].kind \in {"none", "ready", "validate"}
  /\ svc.at = "ended" => svc.call = 0

\* One call of /run at most is not given up; after its 200 there is no other,
\* and one that was given up and goes on was there before it.
RunOrder ==
  \A i \in Calls : hook[i].kind = "run" /\ ~hook[i].cancelled =>
    /\ Active(i) => svc.at = "held"
    /\ hook[i].at = "done" => svc.at \notin {"build", "held"}
    /\ \A j \in Calls \ {i} : hook[j].kind = "run" =>
         hook[j].cancelled /\ (Active(j) => hook[i].overlaps)

\* Nothing is called after /terminate.
EndOrder ==
  \A i \in Calls : hook[i].kind = "terminate" =>
    /\ (Active(i) /\ ~hook[i].cancelled) \/ svc.at = "ended"
    /\ hook[i].overlaps \/ \A j \in Calls \ {i} : ~Active(j)

Control == Calling /\ RunOrder /\ EndOrder

\* The call of /run that nothing disturbs.
Alone(i) == hook[i].kind = "run" /\ ~hook[i].cancelled /\ ~hook[i].overlaps

Written == {"start", "spawn", "open", "done"}
Fetched == Written \cup {"truncate", "write"}

\* What it has built so far is in the shim's memory and in the file.
EnvInv ==
  \A i \in Calls : Alone(i) =>
    /\ hook[i].at \in Fetched \ {"done"} => hook[i].env = session
    /\ hook[i].at \in Fetched =>
         session = Env(i, TRUE) \/ (session = Env(i, FALSE) /\ "fetch" \in blame)
    /\ hook[i].at = "write" => envFile = {}
    /\ hook[i].at \in Written => envFile = {session} \/ "write" \in blame

\* The startup command of a call, and the goroutine that has its log.
CmdInv ==
  \A i \in Calls :
    /\ cmd[i].at # "none" => hook[i].kind = "run"
    /\ hook[i].kind = "run" /\ payload.command /\ hook[i].at \in {"spawn", "open", "done"} =>
         cmd[i].at # "none" /\ (Alone(i) => cmd[i].env = session)
    /\ cmd[i].at = "failed" => "spawn" \in blame

Removed == {"fetch", "truncate", "write", "start", "spawn", "open", "done"}

\* What was in the image is read, and what was read is removed.
OldFiles ==
  \A i \in Calls : hook[i].kind = "run" /\ payload.reset # "false" =>
    /\ hook[i].at = "remove" => "old" \notin files \/ "old" \in hook[i].entries
    /\ hook[i].at \in Removed => "old" \notin files \/ "remove" \in blame

\* The log that a call of /run finds is read and removed with the rest, and
\* that of its own command is there from then on.
LogInv ==
  /\ \A j \in writers : hook[j].kind = "run"
  /\ \A i \in Calls : Alone(i) =>
       /\ payload.command /\ hook[i].at \in {"spawn", "open", "done"} =>
            i \in writers \/ cmd[i].log = "none"
       /\ payload.reset # "false" =>
            /\ hook[i].at = "remove" => writers = {} \/ "log" \in hook[i].entries
            /\ hook[i].at \in Removed => writers \subseteq {i} \/ "remove" \in blame

\* Only a call that was given up can remove what clients have stored.
DataFiles ==
  /\ svc.at \in {"build", "held"} => \A c \in Clients : req[c] = "none"
  /\ \A c \in Clients :
       req[c] = "stored" /\ "data" \notin files =>
         \E i \in Calls : hook[i].kind = "run" /\ hook[i].cancelled
                           /\ \A j \in Calls : Began(j) => hook[j].overlaps

ShimInv ==
  /\ TypeOK /\ Control /\ EnvInv /\ GateCauses /\ CmdInv /\ OldFiles /\ DataFiles
  /\ LogInv

-----------------------------------------------------------------------------
(* The kinds of steps, as the hooks and the service see them. *)

Typed == svc \in [at : {"build", "held", "serving", "suspended", "resumed", "ended"},
                  call : 0..MaxCalls]
         /\ hook \in [Calls -> HookType]

\* Neither takes part.
Still == UNCHANGED <<svc, hook>>

Others(i) == \A j \in Calls \ {i} : hook'[j] = hook[j]

\* The handler of a call goes on.
Moves(i) ==
  /\ UNCHANGED svc /\ Others(i)
  /\ hook'[i].kind = hook[i].kind
  /\ hook'[i].cancelled = hook[i].cancelled
  /\ hook'[i].overlaps = hook[i].overlaps
  /\ Active(i) /\ hook'[i].at \notin {"none", "done"}

\* It returns.
Returns(i) ==
  /\ Active(i) /\ Others(i)
  /\ \/ svc.at = "build" /\ hook'[i] = NoHook
     \/ /\ svc.at # "build"
        /\ hook'[i].kind = hook[i].kind
        /\ hook'[i].cancelled = hook[i].cancelled
        /\ hook'[i].overlaps = hook[i].overlaps
        /\ hook'[i].at = "done"
  /\ \/ svc.call # i /\ svc' = svc
     \/ svc.call = i /\ svc'.at = Answered(i) /\ svc'.call = 0
     \/ /\ svc.call = i /\ svc'.at = svc.at /\ svc'.call = 0
        /\ hook[i].kind \in {"ready", "validate"}

\* The service calls the hook.
Called(i, kind) ==
  /\ svc.call = 0 /\ kind \in NextHooks /\ Others(i)
  /\ hook[i].kind = "none" /\ hook[i].at = "none"
  /\ hook'[i].kind = kind /\ hook'[i].at = "called" /\ hook'[i].cancelled = FALSE
  /\ hook'[i].overlaps = \E j \in Calls : Active(j)
  /\ svc'.call = i
  /\ svc'.at = IF svc.at = "suspended" THEN "resumed" ELSE svc.at

\* It waits no longer.
Leaves(i) ==
  /\ svc.call = i /\ svc.at # "build" /\ Others(i)
  /\ hook'[i].kind = hook[i].kind /\ hook'[i].at = hook[i].at
  /\ hook'[i].overlaps = hook[i].overlaps /\ hook'[i].entries = hook[i].entries
  /\ hook'[i].cancelled = TRUE
  /\ svc'.call = 0
  /\ svc'.at = IF hook[i].kind = "terminate" THEN "ended" ELSE svc.at

\* A step that leaves a field alone, written with EXCEPT, leaves it alone.
LEMMA MoveIsMove ==
  ASSUME Typed, NEW i \in Calls, NEW r, UNCHANGED svc, hook' = [hook EXCEPT ![i] = r],
         r.kind = hook[i].kind, r.cancelled = hook[i].cancelled,
         r.overlaps = hook[i].overlaps, Active(i), r.at \notin {"none", "done"}
  PROVE  Moves(i) /\ hook'[i] = r
BY DEF Typed, Moves, Others

LEMMA ReplyReturns ==
  ASSUME Typed, NEW i \in Calls, NEW ok \in BOOLEAN, Reply(i, ok), Active(i),
         ok \/ hook[i].kind \in {"ready", "validate"}
  PROVE  Returns(i)
<1>1. Others(i)
  BY DEF Typed, Reply, Others
<1>2. svc.at = "build" => hook'[i] = NoHook
  BY DEF Typed, Reply
<1>3. svc.at # "build" => hook'[i] = [hook[i] EXCEPT !.at = "done", !.env = NoEnv]
  BY DEF Typed, Reply
<1>4. hook[i] \in HookType
  BY DEF Typed
<1>5. svc.at # "build" =>
        /\ hook'[i].kind = hook[i].kind /\ hook'[i].cancelled = hook[i].cancelled
        /\ hook'[i].overlaps = hook[i].overlaps /\ hook'[i].at = "done"
  BY <1>3, <1>4 DEF HookType
<1>6. CASE svc.call # i
  <2>1. svc' = svc
    BY <1>6 DEF Reply
  <2> QED
    BY <1>1, <1>2, <1>5, <1>6, <2>1 DEF Returns
<1>7. CASE svc.call = i /\ ok
  <2>1. svc' = [at |-> Answered(i), call |-> 0]
    BY <1>7 DEF Reply
  <2>2. svc'.at = Answered(i) /\ svc'.call = 0
    BY <2>1
  <2> QED
    BY <1>1, <1>2, <1>5, <1>7, <2>2 DEF Returns
<1>8. CASE svc.call = i /\ ~ok
  <2>1. svc' = [svc EXCEPT !.call = 0]
    BY <1>8 DEF Reply
  <2>2. svc'.at = svc.at /\ svc'.call = 0
    BY <2>1 DEF Typed
  <2> QED
    BY <1>1, <1>2, <1>5, <1>8, <2>2 DEF Returns
<1> QED
  BY <1>6, <1>7, <1>8

LEMMA CallCalls ==
  ASSUME Typed, NEW i \in Calls, NEW kind \in NextHooks, CallHook(i, kind)
  PROVE  Called(i, kind)
<1>1. Others(i) /\ svc.call = 0 /\ hook[i] = NoHook
  BY DEF Typed, CallHook, Others
<1> DEFINE o == \E j \in Calls : Active(j)
<1>2. hook' = [hook EXCEPT ![i] = [NoHook EXCEPT !.kind = kind, !.at = "called", !.overlaps = o]]
  BY DEF CallHook
<1>3. hook'[i] = [NoHook EXCEPT !.kind = kind, !.at = "called", !.overlaps = o]
  BY <1>2 DEF Typed
<1>a. /\ hook'[i].kind = kind /\ hook'[i].at = "called" /\ hook'[i].cancelled = FALSE
      /\ hook'[i].overlaps = o
  <2> HIDE DEF o
  <2> QED
    BY <1>3 DEF NoHook
<1>4. svc' = [svc EXCEPT !.call = i, !.at = IF svc.at = "suspended" THEN "resumed" ELSE svc.at]
  BY DEF CallHook, Typed
<1>5. svc'.call = i /\ svc'.at = IF svc.at = "suspended" THEN "resumed" ELSE svc.at
  BY <1>4 DEF Typed
<1>6. hook[i].kind = "none" /\ hook[i].at = "none"
  BY <1>1 DEF NoHook
<1> QED
  BY <1>1, <1>a, <1>5, <1>6 DEF Called

LEMMA GiveUpLeaves ==
  ASSUME Typed, GiveUp
  PROVE  svc.call \in Calls /\ Leaves(svc.call)
<1>1. svc.call \in Calls
  BY ShimAssumption DEF Typed, GiveUp, Calls
<1>2. hook' = [hook EXCEPT ![svc.call] = [hook[svc.call] EXCEPT !.cancelled = TRUE]]
  BY DEF GiveUp
<1>3. Others(svc.call) /\ hook'[svc.call] = [hook[svc.call] EXCEPT !.cancelled = TRUE]
  BY <1>1, <1>2 DEF Typed, Others
<1>4. svc' = [call |-> 0, at |-> IF hook[svc.call].kind = "terminate" THEN "ended" ELSE svc.at]
  BY DEF GiveUp
<1>5. svc'.call = 0 /\ svc'.at = IF hook[svc.call].kind = "terminate" THEN "ended" ELSE svc.at
  BY <1>4
<1>6. /\ hook'[svc.call].kind = hook[svc.call].kind /\ hook'[svc.call].at = hook[svc.call].at
      /\ hook'[svc.call].overlaps = hook[svc.call].overlaps
      /\ hook'[svc.call].entries = hook[svc.call].entries
      /\ hook'[svc.call].cancelled = TRUE
  BY <1>1, <1>3 DEF Typed, HookType
<1> QED
  BY <1>1, <1>3, <1>5, <1>6 DEF Leaves, GiveUp

-----------------------------------------------------------------------------
(* Every kind of step keeps the order of the calls. *)

LEMMA StillControl ==
  ASSUME Control, Still
  PROVE  Control'
BY DEF Control, Calling, RunOrder, EndOrder, Active, Still

LEMMA MoveControl ==
  ASSUME Typed, Control, NEW i \in Calls, Moves(i)
  PROVE  Control'
<1>1. /\ svc' = svc
      /\ \A j \in Calls : /\ hook'[j].kind = hook[j].kind
                          /\ hook'[j].cancelled = hook[j].cancelled
                          /\ hook'[j].overlaps = hook[j].overlaps
                          /\ hook'[j].at = "none" <=> hook[j].at = "none"
                          /\ hook'[j].at = "done" <=> hook[j].at = "done"
  BY DEF Moves, Others, Active
<1>2. Calling'
  BY <1>1 DEF Control, Calling, Active
<1>3. RunOrder'
  BY <1>1 DEF Control, RunOrder, Active
<1>4. EndOrder'
  BY <1>1 DEF Control, EndOrder, Active
<1> QED
  BY <1>2, <1>3, <1>4 DEF Control

LEMMA ReturnControl ==
  ASSUME Typed, Control, NEW i \in Calls, Returns(i)
  PROVE  Control'
<1>0. \A j \in Calls : j # 0
  BY ShimAssumption DEF Calls
<1>1. \A j \in Calls \ {i} : hook'[j] = hook[j]
  BY DEF Returns, Others
<1>2. hook[i].kind # "none" /\ hook[i].at # "none" /\ hook[i].at # "done"
  BY DEF Control, Calling, Returns, Active
<1>3. hook'[i].kind # "none" => 
        /\ hook'[i].kind = hook[i].kind /\ hook'[i].cancelled = hook[i].cancelled
        /\ hook'[i].overlaps = hook[i].overlaps /\ hook'[i].at = "done"
        /\ svc.at # "build"
  BY DEF Returns, NoHook
<1>4. hook'[i].kind = "none" => hook'[i].at = "none" /\ svc.at = "build"
  BY <1>2 DEF Returns, NoHook
<1>a. hook[i] \in HookType
  BY DEF Typed
<1>5. \/ svc.call # i /\ svc' = svc
      \/ svc.call = i /\ svc'.at = Answered(i) /\ svc'.call = 0
      \/ /\ svc.call = i /\ svc'.at = svc.at /\ svc'.call = 0
         /\ hook[i].kind \in {"ready", "validate"}
  BY DEF Returns
<1>b. /\ hook[i].kind \in {"ready", "validate"} => Answered(i) = "held"
      /\ hook[i].kind \in {"run", "resume"} => Answered(i) = "serving"
      /\ hook[i].kind = "suspend" => Answered(i) = "suspended"
      /\ hook[i].kind = "terminate" => Answered(i) = "ended"
      /\ hook[i].kind \in {"ready", "validate", "run", "resume", "suspend", "terminate"}
  BY <1>a, <1>2 DEF Answered, HookType, Kinds
<1>6. Calling'
  <2>1. (\A j \in Calls : svc.call = j <=> Active(j) /\ ~hook[j].cancelled)'
    BY <1>0, <1>1, <1>2, <1>3, <1>4, <1>5 DEF Control, Calling, Active
  <2>2. (\A j \in Calls : hook[j].at = "none" <=> hook[j].kind = "none")'
    BY <1>1, <1>3, <1>4 DEF Control, Calling
  <2>3. (\A j \in Calls : hook[j].kind \in {"ready", "validate"} =>
           svc.at = "build" /\ svc.call = j)'
    <3> SUFFICES ASSUME NEW j \in Calls, hook'[j].kind \in {"ready", "validate"}
                 PROVE  svc'.at = "build" /\ svc'.call = j
      OBVIOUS
    <3>1. j # i
      BY <1>3 DEF Control, Calling
    <3>2. svc.at = "build" /\ svc.call = j
      BY <3>1, <1>1 DEF Control, Calling
    <3> QED
      BY <3>1, <3>2, <1>5
  <2>4. (svc.at = "build" =>
           \A j \in Calls : hook[j].kind \in {"none", "ready", "validate"})'
    BY <1>1, <1>3, <1>4, <1>5, <1>b DEF Control, Calling
  <2>5. (svc.at = "ended" => svc.call = 0)'
    BY <1>5 DEF Control, Calling
  <2> QED
    BY <2>1, <2>2, <2>3, <2>4, <2>5 DEF Calling
<1>7. RunOrder'
  <2> SUFFICES ASSUME NEW k \in Calls, hook'[k].kind = "run", ~hook'[k].cancelled
               PROVE  /\ Active(k)' => svc'.at = "held"
                      /\ hook'[k].at = "done" => svc'.at \notin {"build", "held"}
                      /\ \A j \in Calls \ {k} : hook'[j].kind = "run" =>
                           hook'[j].cancelled /\ (Active(j)' => hook'[k].overlaps)
    BY DEF RunOrder
  <2>1. hook[k].kind = "run" /\ ~hook[k].cancelled /\ hook'[k].overlaps = hook[k].overlaps
    BY <1>1, <1>3
  <2>2. /\ Active(k) => svc.at = "held"
        /\ hook[k].at = "done" => svc.at \notin {"build", "held"}
        /\ \A j \in Calls \ {k} : hook[j].kind = "run" =>
             hook[j].cancelled /\ (Active(j) => hook[k].overlaps)
    BY <2>1 DEF Control, RunOrder
  <2>3. \A j \in Calls \ {k} : hook'[j].kind = "run" =>
          hook'[j].cancelled /\ (Active(j)' => hook'[k].overlaps)
    BY <2>1, <2>2, <1>1, <1>3 DEF Active
  <2>4. CASE k = i
    <3>1. svc.call = i
      BY <2>1, <2>4 DEF Control, Calling, Returns
    <3>2. svc'.at = "serving"
      BY <3>1, <2>1, <2>4, <1>5, <1>b
    <3> QED
      BY <2>3, <2>4, <3>2, <1>3 DEF Active
  <2>5. CASE k # i
    <3>1. hook'[k] = hook[k]
      BY <2>5, <1>1
    <3>2. CASE Active(k)
      <4>1. svc.call = k
        BY <2>1, <3>2 DEF Control, Calling
      <4> QED
        BY <4>1, <2>5, <2>2, <2>3, <3>1, <3>2, <1>5 DEF Active
    <3>3. CASE ~Active(k)
      <4>1. ~Active(k)'
        BY <3>1, <3>3 DEF Active
      <4>2. svc.at # "build"
        BY <2>1 DEF Control, Calling
      <4>3. hook[i].kind \notin {"ready", "validate"}
        BY <4>2 DEF Control, Calling
      <4>4. hook'[k].at = "done" => svc'.at \notin {"build", "held"}
        BY <4>3, <3>1, <2>2, <1>5, <1>b
      <4> QED
        BY <4>1, <4>4, <2>3
    <3> QED
      BY <3>2, <3>3
  <2> QED
    BY <2>4, <2>5
<1>8. EndOrder'
  <2> SUFFICES ASSUME NEW k \in Calls, hook'[k].kind = "terminate"
               PROVE  /\ (Active(k)' /\ ~hook'[k].cancelled) \/ svc'.at = "ended"
                      /\ hook'[k].overlaps \/ \A j \in Calls \ {k} : ~Active(j)'
    BY DEF EndOrder
  <2>1. /\ hook[k].kind = "terminate" /\ hook'[k].overlaps = hook[k].overlaps
        /\ hook'[k].cancelled = hook[k].cancelled
    BY <1>1, <1>3
  <2>2. /\ (Active(k) /\ ~hook[k].cancelled) \/ svc.at = "ended"
        /\ hook[k].overlaps \/ \A j \in Calls \ {k} : ~Active(j)
    BY <2>1 DEF Control, EndOrder
  <2>3. hook'[k].overlaps \/ \A j \in Calls \ {k} : ~Active(j)'
    BY <2>1, <2>2, <1>1, <1>3, <1>4 DEF Active
  <2>4. (Active(k)' /\ ~hook'[k].cancelled) \/ svc'.at = "ended"
    <3>1. CASE svc.at = "ended"
      <4>1. svc.call = 0
        BY <3>1 DEF Control, Calling
      <4> QED
        BY <4>1, <3>1, <1>0, <1>5
    <3>2. CASE Active(k) /\ ~hook[k].cancelled
      <4>1. svc.call = k
        BY <3>2 DEF Control, Calling
      <4>2. CASE k = i
        BY <4>1, <4>2, <2>1, <1>5, <1>b
      <4>3. CASE k # i
        BY <4>3, <3>2, <1>1 DEF Active
      <4> QED
        BY <4>2, <4>3
    <3> QED
      BY <3>1, <3>2, <2>2
  <2> QED
    BY <2>3, <2>4
<1> QED
  BY <1>6, <1>7, <1>8 DEF Control

LEMMA CallControl ==
  ASSUME Typed, Control, NEW i \in Calls, NEW kind, Called(i, kind)
  PROVE  Control'
<1>0. \A j \in Calls : j # 0
  BY ShimAssumption DEF Calls
<1>1. \A j \in Calls \ {i} : hook'[j] = hook[j]
  BY DEF Called, Others
<1>2. /\ hook[i].kind = "none" /\ hook[i].at = "none"
      /\ hook'[i].kind = kind /\ hook'[i].at = "called" /\ hook'[i].cancelled = FALSE
      /\ hook'[i].overlaps = \E j \in Calls : Active(j)
  BY DEF Called
<1>3. /\ svc.call = 0 /\ svc'.call = i
      /\ svc'.at = IF svc.at = "suspended" THEN "resumed" ELSE svc.at
  BY DEF Called
<1>4. /\ kind \in {"ready", "validate", "run", "resume", "suspend", "terminate"}
      /\ kind \in {"ready", "validate"} <=> svc.at = "build"
      /\ kind = "run" => svc.at = "held"
      /\ svc.at # "ended"
  <2>1. kind \in NextHooks
    BY DEF Called
  <2>2. svc.at \in {"build", "held", "serving", "suspended", "resumed", "ended"}
    BY DEF Typed
  <2> QED
    BY <2>1, <2>2 DEF NextHooks
<1>5. \A j \in Calls : Active(j) => hook[j].cancelled
  BY <1>0, <1>3 DEF Control, Calling
<1>6. Active(i)' /\ \A j \in Calls \ {i} : Active(j)' <=> Active(j)
  BY <1>1, <1>2 DEF Active
<1>7. Calling'
  <2>1. (\A j \in Calls : svc.call = j <=> Active(j) /\ ~hook[j].cancelled)'
    BY <1>1, <1>2, <1>3, <1>5, <1>6
  <2>2. (\A j \in Calls : hook[j].at = "none" <=> hook[j].kind = "none")'
    BY <1>1, <1>2, <1>4 DEF Control, Calling
  <2>3. (\A j \in Calls : hook[j].kind \in {"ready", "validate"} =>
           svc.at = "build" /\ svc.call = j)'
    BY <1>0, <1>1, <1>2, <1>3, <1>4 DEF Control, Calling
  <2>4. (svc.at = "build" =>
           \A j \in Calls : hook[j].kind \in {"none", "ready", "validate"})'
    BY <1>1, <1>2, <1>3, <1>4 DEF Control, Calling
  <2>5. (svc.at = "ended" => svc.call = 0)'
    BY <1>3, <1>4
  <2> QED
    BY <2>1, <2>2, <2>3, <2>4, <2>5 DEF Calling
<1>8. RunOrder'
  <2> SUFFICES ASSUME NEW k \in Calls, hook'[k].kind = "run", ~hook'[k].cancelled
               PROVE  /\ Active(k)' => svc'.at = "held"
                      /\ hook'[k].at = "done" => svc'.at \notin {"build", "held"}
                      /\ \A j \in Calls \ {k} : hook'[j].kind = "run" =>
                           hook'[j].cancelled /\ (Active(j)' => hook'[k].overlaps)
    BY DEF RunOrder
  <2>1. CASE k = i
    <3>1. svc.at = "held" /\ svc'.at = "held"
      BY <2>1, <1>2, <1>3, <1>4
    <3>2. \A j \in Calls : hook[j].kind = "run" => hook[j].cancelled
      <4> SUFFICES ASSUME NEW j \in Calls, hook[j].kind = "run", ~hook[j].cancelled
                   PROVE  FALSE
        OBVIOUS
      <4>1. ~Active(j) /\ hook[j].at # "none"
        BY <1>5 DEF Control, Calling
      <4>2. hook[j].at = "done"
        BY <4>1 DEF Active
      <4> QED
        BY <4>2, <3>1 DEF Control, RunOrder
    <3> QED
      BY <2>1, <3>1, <3>2, <1>1, <1>2, <1>6
  <2>2. CASE k # i
    <3>1. hook'[k] = hook[k] /\ ~Active(k) /\ ~Active(k)'
      BY <2>2, <1>1, <1>5, <1>6
    <3>2. /\ hook[k].at = "done" => svc.at \notin {"build", "held"}
          /\ \A j \in Calls \ {k} : hook[j].kind = "run" =>
               hook[j].cancelled /\ (Active(j) => hook[k].overlaps)
      BY <3>1 DEF Control, RunOrder
    <3>3. hook[k].at = "done"
      BY <3>1 DEF Control, Calling, Active
    <3>4. kind # "run"
      BY <3>2, <3>3, <1>4
    <3> QED
      BY <3>1, <3>2, <3>4, <1>1, <1>2, <1>3, <1>6
  <2> QED
    BY <2>1, <2>2
<1>9. EndOrder'
  <2> SUFFICES ASSUME NEW k \in Calls, hook'[k].kind = "terminate"
               PROVE  /\ (Active(k)' /\ ~hook'[k].cancelled) \/ svc'.at = "ended"
                      /\ hook'[k].overlaps \/ \A j \in Calls \ {k} : ~Active(j)'
    BY DEF EndOrder
  <2>1. k = i
    BY <1>1, <1>4, <1>5 DEF Control, EndOrder
  <2> QED
    BY <2>1, <1>2, <1>6
<1> QED
  BY <1>7, <1>8, <1>9 DEF Control

LEMMA LeaveControl ==
  ASSUME Typed, Control, NEW i \in Calls, Leaves(i)
  PROVE  Control'
<1>0. \A j \in Calls : j # 0
  BY ShimAssumption DEF Calls
<1>1. \A j \in Calls : /\ hook'[j].kind = hook[j].kind /\ hook'[j].at = hook[j].at
                       /\ hook'[j].overlaps = hook[j].overlaps
                       /\ j # i => hook'[j].cancelled = hook[j].cancelled
  BY DEF Leaves, Others
<1>2. hook'[i].cancelled /\ svc'.call = 0 /\ svc.call = i
  BY DEF Leaves
<1>3. \/ hook[i].kind = "terminate" /\ svc'.at = "ended"
      \/ hook[i].kind # "terminate" /\ svc'.at = svc.at
  BY DEF Leaves
<1>4. svc.at # "build" /\ Active(i)
  BY <1>2 DEF Leaves, Control, Calling
<1>5. \A j \in Calls : Active(j)' <=> Active(j)
  BY <1>1 DEF Active
<1>6. \A j \in Calls \ {i} : Active(j) => hook[j].cancelled
  BY <1>2 DEF Control, Calling
<1>7. Calling'
  <2>1. (\A j \in Calls : svc.call = j <=> Active(j) /\ ~hook[j].cancelled)'
    BY <1>0, <1>1, <1>2, <1>5, <1>6
  <2>2. (\A j \in Calls : hook[j].at = "none" <=> hook[j].kind = "none")'
    BY <1>1 DEF Control, Calling
  <2>3. (\A j \in Calls : hook[j].kind \in {"ready", "validate"} =>
           svc.at = "build" /\ svc.call = j)'
    BY <1>1, <1>4 DEF Control, Calling
  <2>4. (svc.at = "build" =>
           \A j \in Calls : hook[j].kind \in {"none", "ready", "validate"})'
    BY <1>1, <1>3, <1>4
  <2>5. (svc.at = "ended" => svc.call = 0)'
    BY <1>2
  <2> QED
    BY <2>1, <2>2, <2>3, <2>4, <2>5 DEF Calling
<1>8. RunOrder'
  <2> SUFFICES ASSUME NEW k \in Calls, hook'[k].kind = "run", ~hook'[k].cancelled
               PROVE  /\ Active(k)' => svc'.at = "held"
                      /\ hook'[k].at = "done" => svc'.at \notin {"build", "held"}
                      /\ \A j \in Calls \ {k} : hook'[j].kind = "run" =>
                           hook'[j].cancelled /\ (Active(j)' => hook'[k].overlaps)
    BY DEF RunOrder
  <2>1. k # i /\ hook[k].kind = "run" /\ ~hook[k].cancelled /\ ~Active(k)
    BY <1>1, <1>2, <1>6
  <2>2. /\ hook[k].at = "done" => svc.at \notin {"build", "held"}
        /\ \A j \in Calls \ {k} : hook[j].kind = "run" =>
             hook[j].cancelled /\ (Active(j) => hook[k].overlaps)
    BY <2>1 DEF Control, RunOrder
  <2>3. hook'[k].at = "done" => svc'.at \notin {"build", "held"}
    BY <2>2, <1>1, <1>3
  <2>4. \A j \in Calls \ {k} : hook'[j].kind = "run" =>
           hook'[j].cancelled /\ (Active(j)' => hook'[k].overlaps)
    BY <2>2, <1>1, <1>2, <1>5
  <2> QED
    BY <2>1, <2>3, <2>4, <1>5
<1>9. EndOrder'
  <2> SUFFICES ASSUME NEW k \in Calls, hook'[k].kind = "terminate"
               PROVE  /\ (Active(k)' /\ ~hook'[k].cancelled) \/ svc'.at = "ended"
                      /\ hook'[k].overlaps \/ \A j \in Calls \ {k} : ~Active(j)'
    BY DEF EndOrder
  <2>1. /\ (Active(k) /\ ~hook[k].cancelled) \/ svc.at = "ended"
        /\ hook[k].overlaps \/ \A j \in Calls \ {k} : ~Active(j)
    BY <1>1 DEF Control, EndOrder
  <2>2. k = i => svc'.at = "ended"
    BY <1>1, <1>3
  <2>3. svc.at = "ended" => svc'.at = "ended"
    BY <1>3
  <2>4. hook'[k].overlaps \/ \A j \in Calls \ {k} : ~Active(j)'
    BY <2>1, <1>1, <1>5
  <2> QED
    BY <2>1, <2>2, <2>3, <2>4, <1>1, <1>5
<1> QED
  BY <1>7, <1>8, <1>9 DEF Control

-----------------------------------------------------------------------------
(* The steps of a handler, field by field. *)

Causes == {"remove", "fetch", "write", "log", "spawn", "death"}
LeftType == [giveUps : 0..GiveUps, mishaps : 0..Mishaps]

LEMMA TypesAreTyped ==
  ASSUME TypeOK
  PROVE  Typed /\ left \in LeftType /\ blame \subseteq Causes
BY DEF TypeOK, Typed, HookType, LeftType, Causes

LEMMA MishapIsNoted ==
  ASSUME left \in LeftType, blame \subseteq Causes, NEW what \in Causes, Mishap(what)
  PROVE  /\ left' \in LeftType /\ blame' \subseteq Causes
         /\ blame \subseteq blame' /\ what \in blame'
BY ShimAssumption DEF Mishap, LeftType

LEMMA FineIsFine ==
  ASSUME left \in LeftType, blame \subseteq Causes, Fine
  PROVE  left' \in LeftType /\ blame' \subseteq Causes /\ blame \subseteq blame'
BY DEF Fine

\* The handler of /run goes on from one place to another.
GoesFrom(i, from, to) ==
  /\ Moves(i) /\ hook[i].kind = "run" /\ hook[i].at = from /\ hook'[i].at = to
  /\ hook' \in [Calls -> HookType]

LEMMA RunMoves ==
  ASSUME Typed, NEW i \in Calls, NEW from, NEW to \in Places \ {"none", "done"},
         NEW env \in Envs, NEW entries \in SUBSET {"old", "log", "data"},
         from \notin {"none", "done"}, At(i, "run", from), svc' = svc,
         hook' = [hook EXCEPT ![i] =
                    [hook[i] EXCEPT !.at = to, !.env = env, !.entries = entries]]
  PROVE  GoesFrom(i, from, to) /\ hook'[i].env = env /\ hook'[i].entries = entries
<1> DEFINE r == [hook[i] EXCEPT !.at = to, !.env = env, !.entries = entries]
<1>1. hook[i] \in HookType
  BY DEF Typed
<1>2. /\ r \in HookType /\ r.at = to /\ r.env = env /\ r.entries = entries
      /\ r.kind = hook[i].kind /\ r.cancelled = hook[i].cancelled
      /\ r.overlaps = hook[i].overlaps
  BY <1>1 DEF HookType
<1>3. hook' = [hook EXCEPT ![i] = r]
  OBVIOUS
<1>4. Active(i) /\ hook[i].kind = "run" /\ hook[i].at = from
  BY DEF At, Active
<1> HIDE DEF r
<1>5. Moves(i) /\ hook'[i] = r
  BY <1>2, <1>3, <1>4, MoveIsMove
<1>6. hook' \in [Calls -> HookType]
  BY <1>2, <1>3 DEF Typed
<1> QED
  BY <1>2, <1>4, <1>5, <1>6 DEF GoesFrom

LEMMA KeepsFields ==
  ASSUME Typed, NEW i \in Calls
  PROVE  /\ hook[i].env \in Envs /\ hook[i].entries \in SUBSET {"old", "log", "data"}
         /\ \A to \in Places :
              /\ [hook EXCEPT ![i].at = to] =
                   [hook EXCEPT ![i] = [hook[i] EXCEPT !.at = to, !.env = hook[i].env,
                                                       !.entries = hook[i].entries]]
              /\ \A entries \in SUBSET {"old", "log", "data"} :
                   [hook EXCEPT ![i].at = to, ![i].entries = entries] =
                   [hook EXCEPT ![i] = [hook[i] EXCEPT !.at = to, !.env = hook[i].env,
                                                       !.entries = entries]]
              /\ \A env \in Envs :
                   [hook EXCEPT ![i].at = to, ![i].env = env] =
                   [hook EXCEPT ![i] = [hook[i] EXCEPT !.at = to, !.env = env,
                                                       !.entries = hook[i].entries]]
<1>1. hook[i] \in HookType
  BY DEF Typed
<1>2. hook[i].env \in Envs /\ hook[i].entries \in SUBSET {"old", "log", "data"}
  BY <1>1 DEF HookType
<1> SUFFICES ASSUME NEW to \in Places
             PROVE
              /\ [hook EXCEPT ![i].at = to] =
                   [hook EXCEPT ![i] = [hook[i] EXCEPT !.at = to, !.env = hook[i].env,
                                                       !.entries = hook[i].entries]]
              /\ \A entries \in SUBSET {"old", "log", "data"} :
                   [hook EXCEPT ![i].at = to, ![i].entries = entries] =
                   [hook EXCEPT ![i] = [hook[i] EXCEPT !.at = to, !.env = hook[i].env,
                                                       !.entries = entries]]
              /\ \A env \in Envs :
                   [hook EXCEPT ![i].at = to, ![i].env = env] =
                   [hook EXCEPT ![i] = [hook[i] EXCEPT !.at = to, !.env = env,
                                                       !.entries = hook[i].entries]]
  BY <1>2
<1>3. [hook[i] EXCEPT !.at = to] =
        [hook[i] EXCEPT !.at = to, !.env = hook[i].env, !.entries = hook[i].entries]
  BY <1>1 DEF HookType
<1>4. \A entries \in SUBSET {"old", "log", "data"} :
        [hook[i] EXCEPT !.at = to, !.entries = entries] =
        [hook[i] EXCEPT !.at = to, !.env = hook[i].env, !.entries = entries]
  BY <1>1 DEF HookType
<1>5. \A env \in Envs :
        [hook[i] EXCEPT !.at = to, !.env = env] =
        [hook[i] EXCEPT !.at = to, !.env = env, !.entries = hook[i].entries]
  BY <1>1 DEF HookType
<1>6. [hook EXCEPT ![i].at = to] =
        [hook EXCEPT ![i] = [hook[i] EXCEPT !.at = to, !.env = hook[i].env,
                                            !.entries = hook[i].entries]]
  BY <1>3
<1>7. ASSUME NEW entries \in SUBSET {"old", "log", "data"}
      PROVE  [hook EXCEPT ![i].at = to, ![i].entries = entries] =
             [hook EXCEPT ![i] = [hook[i] EXCEPT !.at = to, !.env = hook[i].env,
                                                 !.entries = entries]]
  <2>1. [hook[i] EXCEPT !.at = to, !.entries = entries] =
        [hook[i] EXCEPT !.at = to, !.env = hook[i].env, !.entries = entries]
    BY <1>4, <1>7
  <2>2. [hook EXCEPT ![i].at = to, ![i].entries = entries] =
        [hook EXCEPT ![i] = [hook[i] EXCEPT !.at = to, !.entries = entries]]
    BY DEF Typed
  <2> QED
    BY <2>1, <2>2
<1>8. ASSUME NEW env \in Envs
      PROVE  [hook EXCEPT ![i].at = to, ![i].env = env] =
             [hook EXCEPT ![i] = [hook[i] EXCEPT !.at = to, !.env = env,
                                                 !.entries = hook[i].entries]]
  <2>1. [hook[i] EXCEPT !.at = to, !.env = env] =
        [hook[i] EXCEPT !.at = to, !.env = env, !.entries = hook[i].entries]
    BY <1>5, <1>8
  <2>2. [hook EXCEPT ![i].at = to, ![i].env = env] =
        [hook EXCEPT ![i] = [hook[i] EXCEPT !.at = to, !.env = env]]
    BY DEF Typed
  <2> QED
    BY <2>1, <2>2
<1> QED
  BY <1>6, <1>7, <1>8

LEMMA ReadWorkspaceMoves ==
  ASSUME TypeOK, NEW i \in Calls, ReadWorkspace(i)
  PROVE  /\ GoesFrom(i, "called", "remove") /\ hook'[i].env = hook[i].env
         /\ hook'[i].entries = IF Resets THEN Workspace ELSE {}
<1> DEFINE e == IF Resets THEN Workspace ELSE {}
<1>1. e \in SUBSET {"old", "log", "data"} /\ "remove" \in Places
  BY DEF TypeOK, Places, Workspace
<1>2. Typed
  BY TypesAreTyped
<1>3. hook' = [hook EXCEPT ![i].at = "remove", ![i].entries = e]
  BY DEF ReadWorkspace
<1> HIDE DEF e
<1>4. hook' = [hook EXCEPT ![i] = [hook[i] EXCEPT !.at = "remove", !.env = hook[i].env,
                                                  !.entries = e]]
  BY <1>1, <1>2, <1>3, KeepsFields
<1>f. hook[i].env \in Envs /\ hook[i].entries \in SUBSET {"old", "log", "data"}
  BY <1>2, KeepsFields
<1>g. At(i, "run", "called") /\ svc' = svc /\ "remove" \in Places \ {"none", "done"}
  BY <1>1 DEF ReadWorkspace
<1>5. GoesFrom(i, "called", "remove") /\ hook'[i].env = hook[i].env /\ hook'[i].entries = e
  BY <1>1, <1>2, <1>4, <1>f, <1>g, RunMoves
<1> QED
  BY <1>5 DEF e

LEMMA RemoveEntriesMoves ==
  ASSUME TypeOK, NEW i \in Calls, RemoveEntries(i)
  PROVE  /\ GoesFrom(i, "remove", "fetch") /\ hook'[i].env = hook[i].env
         /\ hook'[i].entries = {}
<1>1. "fetch" \in Places /\ {} \in SUBSET {"old", "log", "data"}
  BY DEF Places
<1>2. Typed
  BY TypesAreTyped
<1>3. hook' = [hook EXCEPT ![i].at = "fetch", ![i].entries = {}]
  BY DEF RemoveEntries
<1>4. hook' = [hook EXCEPT ![i] = [hook[i] EXCEPT !.at = "fetch", !.env = hook[i].env,
                                                  !.entries = {}]]
  BY <1>1, <1>2, <1>3, KeepsFields
<1>f. hook[i].env \in Envs /\ hook[i].entries \in SUBSET {"old", "log", "data"}
  BY <1>2, KeepsFields
<1>g. At(i, "run", "remove") /\ svc' = svc /\ "fetch" \in Places \ {"none", "done"}
  BY <1>1 DEF RemoveEntries
<1> QED
  BY <1>1, <1>2, <1>4, <1>f, <1>g, RunMoves

LEMMA FetchEnvMoves ==
  ASSUME TypeOK, NEW i \in Calls, FetchEnv(i)
  PROVE  /\ GoesFrom(i, "fetch", "truncate") /\ hook'[i].env = session'
         /\ session' \in Envs
         /\ \/ session' = Env(i, TRUE)
            \/ /\ session' = Env(i, FALSE)
               /\ hook[i].cancelled \/ Mishap("fetch")
         /\ Fine \/ Mishap("fetch")
<1>1. "truncate" \in Places
  BY DEF Places
<1>2. Typed
  BY TypesAreTyped
<1>3. Env(i, TRUE) \in Envs /\ Env(i, FALSE) \in Envs
  BY ShimAssumption DEF Env, Envs, Calls
<1>4. /\ \/ session' = Env(i, TRUE)
         \/ /\ session' = Env(i, FALSE)
            /\ hook[i].cancelled \/ Mishap("fetch")
      /\ Fine \/ Mishap("fetch")
  BY DEF FetchEnv
<1>5. session' \in Envs
  BY <1>3, <1>4
<1>6. PICK s : s = session'
  OBVIOUS
<1>7. hook' = [hook EXCEPT ![i].at = "truncate", ![i].env = s]
  BY <1>6 DEF FetchEnv
<1>8. hook' = [hook EXCEPT ![i] = [hook[i] EXCEPT !.at = "truncate", !.env = s,
                                                  !.entries = hook[i].entries]]
  BY <1>1, <1>2, <1>5, <1>6, <1>7, KeepsFields
<1>f. hook[i].env \in Envs /\ hook[i].entries \in SUBSET {"old", "log", "data"}
  BY <1>2, KeepsFields
<1>g. At(i, "run", "fetch") /\ svc' = svc /\ "truncate" \in Places \ {"none", "done"}
  BY <1>1 DEF FetchEnv
<1>h. s \in Envs
  BY <1>5, <1>6
<1>9. GoesFrom(i, "fetch", "truncate") /\ hook'[i].env = s
  BY <1>2, <1>8, <1>f, <1>g, <1>h, RunMoves
<1> QED
  BY <1>4, <1>5, <1>6, <1>9

LEMMA PlaceMoves ==
  ASSUME TypeOK, NEW i \in Calls, NEW from, NEW to \in Places \ {"none", "done"},
         from \notin {"none", "done"}, At(i, "run", from), svc' = svc,
         hook' = [hook EXCEPT ![i].at = to]
  PROVE  GoesFrom(i, from, to) /\ hook'[i].env = hook[i].env
<1>1. Typed
  BY TypesAreTyped
<1>2. hook' = [hook EXCEPT ![i] = [hook[i] EXCEPT !.at = to, !.env = hook[i].env,
                                                  !.entries = hook[i].entries]]
  BY <1>1, KeepsFields
<1>3. hook[i].env \in Envs /\ hook[i].entries \in SUBSET {"old", "log", "data"}
  BY <1>1, KeepsFields
<1>4. GoesFrom(i, from, to) /\ hook'[i].env = hook[i].env /\ hook'[i].entries = hook[i].entries
  <2>1. PICK e : e = hook[i].env
    OBVIOUS
  <2>2. PICK n : n = hook[i].entries
    OBVIOUS
  <2>3. hook' = [hook EXCEPT ![i] = [hook[i] EXCEPT !.at = to, !.env = e, !.entries = n]]
    BY <1>2, <2>1, <2>2
  <2>4. e \in Envs /\ n \in SUBSET {"old", "log", "data"}
    BY <1>3, <2>1, <2>2
  <2>5. GoesFrom(i, from, to) /\ hook'[i].env = e /\ hook'[i].entries = n
    BY <1>1, <2>3, <2>4, RunMoves
  <2> QED
    BY <2>1, <2>2, <2>5
<1> QED
  BY <1>4

LEMMA OpenEnvFileMoves ==
  ASSUME TypeOK, NEW i \in Calls, OpenEnvFile(i)
  PROVE  /\ hook'[i].env = hook[i].env
         /\ \/ GoesFrom(i, "truncate", "write") /\ envFile' = {} /\ Fine
            \/ GoesFrom(i, "truncate", "start") /\ envFile' = envFile /\ Mishap("write")
<1>1. CASE hook' = [hook EXCEPT ![i].at = "write"] /\ envFile' = {} /\ Fine
  BY <1>1, PlaceMoves DEF OpenEnvFile, Places
<1>2. CASE hook' = [hook EXCEPT ![i].at = "start"] /\ envFile' = envFile /\ Mishap("write")
  BY <1>2, PlaceMoves DEF OpenEnvFile, Places
<1> QED
  BY <1>1, <1>2 DEF OpenEnvFile

LEMMA WriteEnvFileMoves ==
  ASSUME TypeOK, NEW i \in Calls, WriteEnvFile(i)
  PROVE  GoesFrom(i, "write", "start") /\ hook'[i].env = hook[i].env
BY PlaceMoves DEF WriteEnvFile, Places

LEMMA PrepareMoves ==
  ASSUME TypeOK, NEW i \in Calls, Prepare(i)
  PROVE  GoesFrom(i, "start", "spawn") /\ hook'[i].env = hook[i].env
BY PlaceMoves DEF Prepare, Places

LEMMA SpawnMoves ==
  ASSUME TypeOK, NEW i \in Calls, Spawn(i)
  PROVE  GoesFrom(i, "spawn", "open") /\ hook'[i].env = hook[i].env
BY PlaceMoves DEF Spawn, Places

\* The handlers that return.
Done(i) == CheckHealth(i) \/ OpenGate(i) \/ Suspend(i) \/ Terminate(i)

LEMMA DoneReturns ==
  ASSUME TypeOK, NEW i \in Calls, Done(i)
  PROVE  Returns(i)
<1>1. Typed
  BY TypesAreTyped
<1>2. Active(i)
  BY DEF Done, CheckHealth, OpenGate, Suspend, Terminate, At, Active
<1>3. CASE CheckHealth(i)
  <2>1. Reply(i, box = "up") /\ hook[i].kind \in {"ready", "validate"}
    BY <1>3 DEF CheckHealth
  <2>2. (box = "up") \in BOOLEAN
    OBVIOUS
  <2> QED
    BY <1>1, <1>2, <2>1, <2>2, ReplyReturns
<1>4. CASE Reply(i, TRUE)
  BY <1>1, <1>2, <1>4, ReplyReturns
<1> QED
  BY <1>3, <1>4 DEF Done, OpenGate, Suspend, Terminate

-----------------------------------------------------------------------------
(* The types. *)

SvcType == [at : {"build", "held", "serving", "suspended", "resumed", "ended"},
            call : 0..MaxCalls]

\* What TypeOK says of the variables other than svc and hook.
RestTyped ==
  /\ payload \in Payloads
  /\ running \in BOOLEAN
  /\ session \in Envs
  /\ envFile \subseteq Envs
  /\ files \subseteq {"old", "data"} /\ writers \subseteq Calls
  /\ cmd \in [Calls -> CmdType]
  /\ req \in [Clients -> {"none", "admitted", "stored", "failed"}]
  /\ box \in {"starting", "up", "dead"}
  /\ shim \in {"up", "draining", "drained", "exited"}
  /\ blame \subseteq Causes
  /\ left \in LeftType

LEMMA TypeParts == TypeOK <=> svc \in SvcType /\ hook \in [Calls -> HookType] /\ RestTyped
BY DEF TypeOK, SvcType, HookType, RestTyped, CmdType, Causes, LeftType

LEMMA TypeParts2 ==
  TypeOK' <=> svc' \in SvcType /\ (hook' \in [Calls -> HookType]) /\ RestTyped'
BY DEF TypeOK, SvcType, HookType, RestTyped, CmdType, Causes, LeftType

\* The fields of the service and of the handler, when the handler returns.
LEMMA ReplyTyped ==
  ASSUME TypeOK, Control, NEW i \in Calls, NEW ok \in BOOLEAN, Reply(i, ok), Active(i)
  PROVE  svc' \in SvcType /\ hook' \in [Calls -> HookType]
<1>1. svc \in SvcType /\ hook \in [Calls -> HookType]
  BY TypeParts
<1>2. NoHook \in HookType /\ NoEnv \in Envs
  BY ShimAssumption DEF NoHook, HookType, Kinds, Places, Envs, NoEnv, Env
<1>3. [hook[i] EXCEPT !.at = "done", !.env = NoEnv] \in HookType
  BY <1>1, <1>2 DEF HookType, Places
<1>4. hook' \in [Calls -> HookType]
  BY <1>1, <1>2, <1>3 DEF Reply
<1>5. hook[i].kind \in {"ready", "validate", "run", "resume", "suspend", "terminate"}
  BY <1>1 DEF Control, Calling, Active, HookType, Kinds
<1>6. Answered(i) \in {"held", "serving", "suspended", "ended"}
  BY <1>5 DEF Answered
<1>7. 0 \in 0..MaxCalls
  BY ShimAssumption
<1>8. [at |-> Answered(i), call |-> 0] \in SvcType
  BY <1>6, <1>7 DEF SvcType
<1>9. [svc EXCEPT !.call = 0] \in SvcType
  BY <1>1, <1>7 DEF SvcType
<1>10. svc' \in SvcType
  BY <1>1, <1>8, <1>9 DEF Reply
<1> QED
  BY <1>4, <1>10

LEMMA DoneTyped ==
  ASSUME TypeOK, Control, NEW i \in Calls, Done(i)
  PROVE  TypeOK'
<1>1. Active(i)
  BY DEF Done, CheckHealth, OpenGate, Suspend, Terminate, At, Active
<1>2. \E ok \in BOOLEAN : Reply(i, ok)
  <2>1. (box = "up") \in BOOLEAN
    OBVIOUS
  <2> QED
    BY <2>1 DEF Done, CheckHealth, OpenGate, Suspend, Terminate
<1>3. svc' \in SvcType /\ hook' \in [Calls -> HookType]
  BY <1>1, <1>2, ReplyTyped
<1>4. RestTyped'
  BY TypeParts DEF RestTyped, Done, CheckHealth, OpenGate, Suspend, Terminate
<1> QED
  BY <1>3, <1>4, TypeParts2

LEMMA CallTyped ==
  ASSUME TypeOK, NEW i \in Calls, NEW kind \in NextHooks, CallHook(i, kind)
  PROVE  TypeOK'
<1>1. svc \in SvcType /\ hook \in [Calls -> HookType] /\ RestTyped
  BY TypeParts
<1> DEFINE o == \E j \in Calls : Active(j)
           r == [NoHook EXCEPT !.kind = kind, !.at = "called", !.overlaps = o]
           a == IF svc.at = "suspended" THEN "resumed" ELSE svc.at
<1>2. kind \in Kinds /\ "called" \in Places
  BY DEF NextHooks, Kinds, Places
<1>3. NoHook \in HookType
  BY ShimAssumption DEF NoHook, HookType, Kinds, Places, Envs, NoEnv, Env
<1>4. o \in BOOLEAN
  OBVIOUS
<1>5. hook' = [hook EXCEPT ![i] = r]
  BY DEF CallHook
<1>6. svc' = [svc EXCEPT !.call = i, !.at = a]
  BY DEF CallHook
<1>7. a \in {"build", "held", "serving", "suspended", "resumed", "ended"} /\ i \in 0..MaxCalls
  BY <1>1, ShimAssumption DEF SvcType, Calls
<1>8. r \in HookType
  <2> HIDE DEF o
  <2> QED
    BY <1>2, <1>3, <1>4 DEF HookType
<1> HIDE DEF r, a
<1>9. hook' \in [Calls -> HookType]
  BY <1>1, <1>5, <1>8
<1>10. svc' \in SvcType
  BY <1>1, <1>6, <1>7 DEF SvcType
<1>11. RestTyped'
  BY <1>1 DEF RestTyped, CallHook
<1> QED
  BY <1>9, <1>10, <1>11, TypeParts2

LEMMA GiveUpTyped ==
  ASSUME TypeOK, GiveUp
  PROVE  TypeOK'
<1>1. svc \in SvcType /\ hook \in [Calls -> HookType] /\ RestTyped
  BY TypeParts
<1>2. svc.call \in Calls
  BY <1>1, ShimAssumption DEF SvcType, GiveUp, Calls
<1>3. [hook[svc.call] EXCEPT !.cancelled = TRUE] \in HookType
  BY <1>1, <1>2 DEF HookType
<1>4. hook' = [hook EXCEPT ![svc.call] = [hook[svc.call] EXCEPT !.cancelled = TRUE]]
  BY DEF GiveUp
<1>5. hook' \in [Calls -> HookType]
  BY <1>1, <1>3, <1>4
<1> DEFINE a == IF hook[svc.call].kind = "terminate" THEN "ended" ELSE svc.at
<1>6. svc' = [call |-> 0, at |-> a]
  BY DEF GiveUp
<1>7. a \in {"build", "held", "serving", "suspended", "resumed", "ended"} /\ 0 \in 0..MaxCalls
  BY <1>1, ShimAssumption DEF SvcType
<1>8. svc' \in SvcType
  BY <1>6, <1>7 DEF SvcType
<1>9. left' \in LeftType
  BY <1>1, ShimAssumption DEF GiveUp, RestTyped, LeftType
<1>10. RestTyped'
  BY <1>1, <1>9 DEF RestTyped, GiveUp
<1> QED
  BY <1>5, <1>8, <1>10, TypeParts2

LEMMA RunTyped ==
  ASSUME TypeOK, NEW i \in Calls
  PROVE  /\ ReadWorkspace(i) => TypeOK'
         /\ RemoveEntries(i) => TypeOK'
         /\ FetchEnv(i) => TypeOK'
         /\ OpenEnvFile(i) => TypeOK'
         /\ WriteEnvFile(i) => TypeOK'
         /\ Prepare(i) => TypeOK'
         /\ Spawn(i) => TypeOK'
<1>1. svc \in SvcType /\ hook \in [Calls -> HookType] /\ RestTyped
  BY TypeParts
<1>2. ASSUME svc' = svc, hook' \in [Calls -> HookType], RestTyped'
      PROVE  TypeOK'
  BY <1>1, <1>2, TypeParts2
<1>3. \A what \in Causes : Mishap(what) => left' \in LeftType /\ blame' \subseteq Causes
  BY <1>1, MishapIsNoted DEF RestTyped
<1>4. Fine => left' \in LeftType /\ blame' \subseteq Causes
  BY <1>1, FineIsFine DEF RestTyped
<1>5. ASSUME ReadWorkspace(i)
      PROVE  TypeOK'
  <2>1. RestTyped'
    BY <1>1, <1>5 DEF RestTyped, ReadWorkspace
  <2>2. svc' = svc /\ hook' \in [Calls -> HookType]
    BY <1>5, ReadWorkspaceMoves DEF GoesFrom, Moves
  <2> QED
    BY <2>1, <2>2, <1>2
<1>6. ASSUME RemoveEntries(i)
      PROVE  TypeOK'
  <2>1. left' \in LeftType /\ blame' \subseteq Causes
    BY <1>3, <1>4, <1>6 DEF RemoveEntries, Causes
  <2>2. files' \subseteq files /\ writers' \subseteq writers
    BY <1>6 DEF RemoveEntries, Remove
  <2>3. RestTyped'
    BY <1>1, <1>6, <2>1, <2>2 DEF RestTyped, RemoveEntries
  <2>4. svc' = svc /\ hook' \in [Calls -> HookType]
    BY <1>6, RemoveEntriesMoves DEF GoesFrom, Moves
  <2> QED
    BY <2>3, <2>4, <1>2
<1>7. ASSUME FetchEnv(i)
      PROVE  TypeOK'
  <2>1. left' \in LeftType /\ blame' \subseteq Causes
    BY <1>3, <1>4, <1>7 DEF FetchEnv, Causes
  <2>2. session' \in Envs /\ svc' = svc /\ hook' \in [Calls -> HookType]
    BY <1>7, FetchEnvMoves DEF GoesFrom, Moves
  <2>3. RestTyped'
    BY <1>1, <1>7, <2>1, <2>2 DEF RestTyped, FetchEnv
  <2> QED
    BY <2>2, <2>3, <1>2
<1>8. ASSUME OpenEnvFile(i)
      PROVE  TypeOK'
  <2>1. left' \in LeftType /\ blame' \subseteq Causes
    BY <1>3, <1>4, <1>8 DEF OpenEnvFile, Causes
  <2>2. svc' = svc /\ hook' \in [Calls -> HookType]
    BY <1>8, OpenEnvFileMoves DEF GoesFrom, Moves
  <2>3. envFile' \subseteq Envs
    BY <1>1, <1>8 DEF OpenEnvFile, RestTyped
  <2>4. RestTyped'
    BY <1>1, <1>8, <2>1, <2>3 DEF RestTyped, OpenEnvFile
  <2> QED
    BY <2>2, <2>4, <1>2
<1>9. ASSUME WriteEnvFile(i)
      PROVE  TypeOK'
  <2>1. left' \in LeftType /\ blame' \subseteq Causes
    BY <1>3, <1>4, <1>9 DEF WriteEnvFile, Causes
  <2>2. svc' = svc /\ hook' \in [Calls -> HookType]
    BY <1>9, WriteEnvFileMoves DEF GoesFrom, Moves
  <2>3. hook[i].env \in Envs
    BY <1>1 DEF HookType
  <2>4. envFile' \subseteq Envs
    BY <1>1, <1>9, <2>3 DEF WriteEnvFile, RestTyped
  <2>5. RestTyped'
    BY <1>1, <1>9, <2>1, <2>4 DEF RestTyped, WriteEnvFile
  <2> QED
    BY <2>2, <2>5, <1>2
<1>10. ASSUME Prepare(i)
       PROVE  TypeOK'
  <2>1. left' \in LeftType /\ blame' \subseteq Causes
    BY <1>3, <1>4, <1>10 DEF Prepare, Causes
  <2>2. svc' = svc /\ hook' \in [Calls -> HookType]
    BY <1>10, PrepareMoves DEF GoesFrom, Moves
  <2>3. Prepared("open") \in CmdType /\ Prepared("none") \in CmdType
    BY <1>1 DEF Prepared, CmdType, RestTyped
  <2>4. cmd' \in [Calls -> CmdType] /\ writers' \subseteq Calls
    BY <1>1, <1>10, <2>3 DEF Prepare, RestTyped
  <2>5. RestTyped'
    BY <1>1, <1>10, <2>1, <2>4 DEF RestTyped, Prepare
  <2> QED
    BY <2>2, <2>5, <1>2
<1>11. ASSUME Spawn(i)
       PROVE  TypeOK'
  <2>1. left' \in LeftType /\ blame' \subseteq Causes
    BY <1>3, <1>4, <1>11 DEF Spawn, Causes
  <2>2. svc' = svc /\ hook' \in [Calls -> HookType]
    BY <1>11, SpawnMoves DEF GoesFrom, Moves
  <2>3. cmd[i] \in CmdType
    BY <1>1 DEF RestTyped
  <2>4. [cmd[i] EXCEPT !.at = "running"] \in CmdType /\ [cmd[i] EXCEPT !.at = "failed"] \in CmdType
    BY <2>3 DEF CmdType
  <2>5. cmd' \in [Calls -> CmdType]
    BY <1>1, <1>11, <2>4 DEF Spawn, RestTyped
  <2>6. RestTyped'
    BY <1>1, <1>11, <2>1, <2>5 DEF RestTyped, Spawn
  <2> QED
    BY <2>2, <2>6, <1>2
<1> QED
  BY <1>5, <1>6, <1>7, <1>8, <1>9, <1>10, <1>11

\* The steps outside the handlers.
Outside ==
  \/ \E i \in Calls : CmdExits(i) \/ Wait(i)
  \/ \E c \in Clients : Admit(c) \/ Store(c) \/ BadGateway(c)
  \/ BoxUp \/ BoxDies \/ Signal \/ Drained \/ Exit

LEMMA OutsideTyped ==
  ASSUME TypeOK, Outside
  PROVE  TypeOK' /\ Still
<1>1. svc \in SvcType /\ hook \in [Calls -> HookType] /\ RestTyped
  BY TypeParts
<1>2. Still
  BY DEF Outside, CmdExits, Wait, Admit, Store, BadGateway, BoxUp, BoxDies, Signal,
         Drained, Exit, Still
<1>3. RestTyped'
  <2>1. ASSUME NEW i \in Calls, CmdExits(i)
        PROVE  RestTyped'
    <3>1. cmd' \in [Calls -> CmdType]
      BY <1>1, <2>1 DEF RestTyped, CmdExits, CmdType
    <3> QED
      BY <1>1, <2>1, <3>1 DEF RestTyped, CmdExits
  <2>2. ASSUME NEW i \in Calls, Wait(i)
        PROVE  RestTyped'
    <3>1. PICK log \in {"closed", "lost"} :
            cmd' = [cmd EXCEPT ![i].at = IF @ = "exited" THEN "reaped" ELSE @,
                      ![i].log = IF @ = "open" THEN log ELSE @, ![i].waiter = "gone"]
      BY <2>2 DEF Wait
    <3>2. cmd \in [Calls -> CmdType]
      BY <1>1 DEF RestTyped
    <3> DEFINE a == IF cmd[i].at = "exited" THEN "reaped" ELSE cmd[i].at
               g == IF cmd[i].log = "open" THEN log ELSE cmd[i].log
               r == [cmd[i] EXCEPT !.at = a, !.log = g, !.waiter = "gone"]
    <3>3. cmd' = [cmd EXCEPT ![i] = r]
      BY <3>1, <3>2
    <3>4. cmd[i] \in CmdType
      BY <3>2
    <3>5. /\ a \in {"none", "prepared", "running", "failed", "exited", "reaped"}
          /\ g \in {"none", "open", "lost", "closed"}
      BY <3>4 DEF CmdType
    <3>6. r \in CmdType
      <4> HIDE DEF a, g
      <4> QED
        BY <3>4, <3>5 DEF CmdType
    <3> HIDE DEF r
    <3>7. cmd' \in [Calls -> CmdType]
      BY <3>2, <3>3, <3>6
    <3> QED
      BY <1>1, <2>2, <3>7 DEF RestTyped, Wait
  <2>3. ASSUME NEW c \in Clients, Admit(c) \/ Store(c) \/ BadGateway(c)
        PROVE  RestTyped'
    BY <1>1, <2>3 DEF RestTyped, Admit, Store, BadGateway
  <2>4. ASSUME BoxUp \/ Signal \/ Drained \/ Exit
        PROVE  RestTyped'
    BY <1>1, <2>4 DEF RestTyped, BoxUp, Signal, Drained, Exit
  <2>5. ASSUME BoxDies
        PROVE  RestTyped'
    <3>1. left' \in LeftType /\ blame' \subseteq Causes
      BY <1>1, <2>5, MishapIsNoted, FineIsFine DEF RestTyped, BoxDies, Causes
    <3> QED
      BY <1>1, <2>5, <3>1 DEF RestTyped, BoxDies
  <2> QED
    BY <2>1, <2>2, <2>3, <2>4, <2>5 DEF Outside
<1> QED
  BY <1>1, <1>2, <1>3, TypeParts2 DEF Still

-----------------------------------------------------------------------------
(* What a session finds. *)

\* The handler of an uncancelled call of /run that found no other at work is
\* the only one of /run that is at work.
LEMMA Solo ==
  ASSUME Control, NEW k \in Calls, Alone(k), NEW i \in Calls, hook[i].kind = "run", Active(i)
  PROVE  k = i
BY DEF Control, RunOrder, Alone

\* What a step of another kind than those of /run's handler may do to it.
Fate(k) ==
  \/ hook'[k] = hook[k]
  \/ hook[k].kind = "none" /\ hook'[k].at = "called" /\ hook'[k].cancelled = FALSE
  \/ /\ hook[k].kind = "run" /\ hook'[k].cancelled = TRUE
     /\ hook'[k].at = hook[k].at /\ hook'[k].entries = hook[k].entries
     /\ hook'[k].overlaps = hook[k].overlaps
  \/ /\ hook[k].kind = "run" /\ hook'[k].at = "done"
     /\ hook[k].at = "open" \/ (hook[k].at = "start" /\ ~payload.command)
     /\ hook'[k].cancelled = hook[k].cancelled
     /\ hook'[k].overlaps = hook[k].overlaps

Fates ==
  \A k \in Calls :
    /\ hook'[k].kind = "run" => Fate(k)
    /\ hook[k].kind = "run" =>
         hook'[k].kind = "run" /\ (hook[k].cancelled => hook'[k].cancelled)

LEMMA StillFates ==
  ASSUME Still
  PROVE  Fates
BY DEF Still, Fates, Fate

LEMMA CallFates ==
  ASSUME Typed, Control, NEW i \in Calls, NEW kind, Called(i, kind)
  PROVE  Fates
BY DEF Called, Others, Fates, Fate

LEMMA LeaveFates ==
  ASSUME Typed, Control, NEW i \in Calls, Leaves(i)
  PROVE  Fates
BY DEF Leaves, Others, Fates, Fate

LEMMA DoneFates ==
  ASSUME TypeOK, Control, NEW i \in Calls, Done(i)
  PROVE  Fates
<1>1. Returns(i)
  BY DoneReturns
<1>2. \A k \in Calls \ {i} : hook'[k] = hook[k]
  BY <1>1 DEF Returns, Others
<1>3. hook[i].kind = "run" =>
        /\ hook[i].at = "open" \/ (hook[i].at = "start" /\ ~payload.command)
        /\ svc.at # "build"
  BY DEF Done, CheckHealth, OpenGate, Suspend, Terminate, At, Control, Calling
<1>4. hook[i].kind = "run" => Fate(i) /\ hook'[i].kind = "run" /\ (hook[i].cancelled => hook'[i].cancelled)
  BY <1>1, <1>3 DEF Returns, Fate
<1>5. hook'[i].kind = "run" => hook[i].kind = "run"
  BY <1>1 DEF Returns, NoHook
<1> QED
  BY <1>2, <1>4, <1>5 DEF Fates, Fate

LEMMA QuietEnv ==
  ASSUME EnvInv, Fates, session' = session, envFile' = envFile, blame \subseteq blame'
  PROVE  EnvInv'
<1> SUFFICES ASSUME NEW k \in Calls, Alone(k)'
             PROVE
               /\ hook'[k].at \in Fetched \ {"done"} => hook'[k].env = session
               /\ hook'[k].at \in Fetched =>
                    session = Env(k, TRUE) \/ (session = Env(k, FALSE) /\ "fetch" \in blame)
               /\ hook'[k].at = "write" => envFile = {}
               /\ hook'[k].at \in Written => envFile = {session} \/ "write" \in blame
  BY DEF EnvInv, Env
<1>1. Fate(k)
  BY DEF Alone, Fates
<1>2. CASE hook'[k] = hook[k]
  BY <1>2 DEF EnvInv, Alone
<1>3. CASE hook'[k].at = "called"
  BY <1>3 DEF Written, Fetched
<1>4. CASE hook'[k].cancelled = TRUE
  BY <1>4 DEF Alone
<1>5. CASE /\ hook[k].kind = "run" /\ hook'[k].at = "done"
           /\ hook[k].at = "open" \/ (hook[k].at = "start" /\ ~payload.command)
           /\ hook'[k].cancelled = hook[k].cancelled
           /\ hook'[k].overlaps = hook[k].overlaps
  <2>1. Alone(k) /\ hook[k].at \in Written
    BY <1>5 DEF Alone, Written
  <2> QED
    BY <2>1, <1>5 DEF EnvInv, Written, Fetched
<1> QED
  BY <1>1, <1>2, <1>3, <1>4, <1>5 DEF Fate

LEMMA QuietCmd ==
  ASSUME CmdInv, Fates, session' = session, cmd' = cmd, payload' = payload, blame \subseteq blame'
  PROVE  CmdInv'
<1> SUFFICES ASSUME NEW k \in Calls
             PROVE
               /\ cmd[k].at # "none" => hook'[k].kind = "run"
               /\ hook'[k].kind = "run" /\ payload.command
                    /\ hook'[k].at \in {"spawn", "open", "done"} =>
                    cmd[k].at # "none" /\ (Alone(k)' => cmd[k].env = session)
               /\ cmd[k].at = "failed" => "spawn" \in blame
  BY DEF CmdInv
<1>1. cmd[k].at # "none" => hook'[k].kind = "run"
  BY DEF CmdInv, Fates
<1>2. ASSUME hook'[k].kind = "run", payload.command, hook'[k].at \in {"spawn", "open", "done"}
      PROVE  cmd[k].at # "none" /\ (Alone(k)' => cmd[k].env = session)
  BY <1>2 DEF CmdInv, Fates, Fate, Alone
<1> QED
  BY <1>1, <1>2 DEF CmdInv

LEMMA QuietOld ==
  ASSUME OldFiles, Fates, "old" \in files' => "old" \in files, payload' = payload,
         blame \subseteq blame'
  PROVE  OldFiles'
<1> SUFFICES ASSUME NEW k \in Calls, hook'[k].kind = "run", payload.reset # "false"
             PROVE
               /\ hook'[k].at = "remove" => "old" \notin files \/ "old" \in hook'[k].entries
               /\ hook'[k].at \in Removed => "old" \notin files \/ "remove" \in blame
  BY DEF OldFiles
<1> QED
  BY DEF OldFiles, Fates, Fate, Removed

LEMMA QuietLog ==
  ASSUME LogInv, Fates, writers \subseteq Calls, writers' = writers, payload' = payload,
         \A k \in Calls : cmd[k].log = "none" => cmd'[k].log = "none",
         blame \subseteq blame'
  PROVE  LogInv'
<1>1. \A j \in writers' : hook'[j].kind = "run"
  BY DEF LogInv, Fates
<1> SUFFICES ASSUME NEW k \in Calls, Alone(k)'
             PROVE
               /\ payload.command /\ hook'[k].at \in {"spawn", "open", "done"} =>
                    k \in writers \/ cmd'[k].log = "none"
               /\ payload.reset # "false" =>
                    /\ hook'[k].at = "remove" => writers = {} \/ "log" \in hook'[k].entries
                    /\ hook'[k].at \in Removed => writers \subseteq {k} \/ "remove" \in blame'
  BY <1>1 DEF LogInv
<1>2. Fate(k)
  BY DEF Alone, Fates
<1>3. CASE hook'[k] = hook[k]
  BY <1>3 DEF LogInv, Alone
<1>4. CASE hook'[k].at = "called"
  BY <1>4 DEF Removed
<1>5. CASE hook'[k].cancelled = TRUE
  BY <1>5 DEF Alone
<1>6. CASE /\ hook[k].kind = "run" /\ hook'[k].at = "done"
           /\ hook[k].at = "open" \/ (hook[k].at = "start" /\ ~payload.command)
           /\ hook'[k].cancelled = hook[k].cancelled
           /\ hook'[k].overlaps = hook[k].overlaps
  <2>1. Alone(k) /\ hook[k].at \in Removed
    BY <1>6 DEF Alone, Removed
  <2> QED
    BY <2>1, <1>6 DEF LogInv
<1> QED
  BY <1>2, <1>3, <1>4, <1>5, <1>6 DEF Fate

\* While a handler of /run goes on, no other call of it is undisturbed.
LEMMA MovesSolo ==
  ASSUME Control, NEW i \in Calls, hook[i].kind = "run", Moves(i)
  PROVE  /\ \A k \in Calls : hook'[k].kind = hook[k].kind /\ (Alone(k)' => k = i)
         /\ Alone(i)' => Alone(i)
<1>1. \A k \in Calls : /\ hook'[k].kind = hook[k].kind
                       /\ Alone(k)' <=> Alone(k)
  BY DEF Moves, Others, Alone
<1> QED
  BY <1>1, Solo DEF Moves

LEMMA MoveEnv ==
  ASSUME EnvInv, NEW i \in Calls, NEW from, NEW to, GoesFrom(i, from, to),
         hook'[i].env = hook[i].env,
         \/ to \in {"remove", "fetch"}
         \/ from \in {"start", "spawn"} /\ to \in {"spawn", "open"},
         session' = session, envFile' = envFile, blame \subseteq blame'
  PROVE  EnvInv'
<1> SUFFICES ASSUME NEW k \in Calls, Alone(k)'
             PROVE
               /\ hook'[k].at \in Fetched \ {"done"} => hook'[k].env = session
               /\ hook'[k].at \in Fetched =>
                    session = Env(k, TRUE) \/ (session = Env(k, FALSE) /\ "fetch" \in blame)
               /\ hook'[k].at = "write" => envFile = {}
               /\ hook'[k].at \in Written => envFile = {session} \/ "write" \in blame
  BY DEF EnvInv, Env
<1>1. CASE k # i
  BY <1>1 DEF EnvInv, Alone, GoesFrom, Moves, Others
<1>2. CASE k = i
  <2>1. Alone(i) /\ hook[i].at = from /\ hook'[i].at = to
    BY <1>2 DEF Alone, GoesFrom, Moves
  <2>2. CASE to \in {"remove", "fetch"}
    BY <1>2, <2>1, <2>2 DEF Written, Fetched
  <2>3. CASE from \in {"start", "spawn"} /\ to \in {"spawn", "open"}
    BY <1>2, <2>1, <2>3 DEF EnvInv, Written, Fetched
  <2> QED
    BY <2>2, <2>3
<1> QED
  BY <1>1, <1>2

LEMMA MoveCmd ==
  ASSUME CmdInv, NEW i \in Calls, NEW from, NEW to, GoesFrom(i, from, to),
         to \notin {"spawn", "open", "done"},
         session' = session, cmd' = cmd, payload' = payload, blame \subseteq blame'
  PROVE  CmdInv'
<1>1. \A k \in Calls : /\ hook'[k].kind = hook[k].kind
                       /\ Alone(k)' => Alone(k)
                       /\ hook'[k].at \in {"spawn", "open", "done"} => hook'[k].at = hook[k].at
  BY DEF GoesFrom, Moves, Others, Alone
<1> QED
  BY <1>1 DEF CmdInv

LEMMA MoveOld ==
  ASSUME OldFiles, NEW i \in Calls, NEW from \in Removed, NEW to \in Removed,
         GoesFrom(i, from, to),
         "old" \in files' => "old" \in files, payload' = payload, blame \subseteq blame'
  PROVE  OldFiles'
<1>1. \A k \in Calls : /\ hook'[k].kind = hook[k].kind
                       /\ k # i => hook'[k] = hook[k]
  BY DEF GoesFrom, Moves, Others
<1>2. hook[i].at = from /\ hook'[i].at = to
  BY DEF GoesFrom
<1> SUFFICES ASSUME NEW k \in Calls, hook'[k].kind = "run", payload.reset # "false"
             PROVE
               /\ hook'[k].at = "remove" => "old" \notin files \/ "old" \in hook'[k].entries
               /\ hook'[k].at \in Removed => "old" \notin files \/ "remove" \in blame
  BY DEF OldFiles
<1> QED
  BY <1>1, <1>2 DEF OldFiles, Removed

-----------------------------------------------------------------------------
(* Every step keeps each part of the invariant. *)

\* Nothing is forgotten of what has gone wrong.
LEMMA BlameStays ==
  ASSUME TypeOK, Next
  PROVE  blame \subseteq blame'
<1>1. \A what \in Causes : Mishap(what) => blame \subseteq blame'
  BY DEF Mishap
<1>2. Fine => blame \subseteq blame'
  BY DEF Fine
<1>3. ASSUME NEW i \in Calls, NEW kind \in NextHooks, CallHook(i, kind)
      PROVE  blame \subseteq blame'
  BY <1>3 DEF CallHook
<1>4. ASSUME NEW i \in Calls, Handler(i) \/ FetchEnv(i)
      PROVE  blame \subseteq blame'
  BY <1>1, <1>2, <1>4 DEF Causes, Handler, CheckHealth, ReadWorkspace, RemoveEntries, FetchEnv,
     OpenEnvFile, WriteEnvFile, Prepare, Spawn, OpenGate, Suspend, Terminate
<1>5. GiveUp => blame \subseteq blame'
  BY DEF GiveUp
<1>6. Outside => blame \subseteq blame'
  BY <1>1, <1>2 DEF Causes, Outside, CmdExits, Wait, Admit, Store, BadGateway, BoxUp, BoxDies,
     Signal, Drained, Exit
<1> QED
  BY <1>3, <1>4, <1>5, <1>6 DEF Next, Fetches, Outside

\* The steps by kind.
LEMMA StepKinds ==
  ASSUME Next
  PROVE  \/ \E i \in Calls : \E kind \in NextHooks : CallHook(i, kind)
         \/ GiveUp
         \/ Outside
         \/ \E i \in Calls : \/ Done(i) \/ ReadWorkspace(i) \/ RemoveEntries(i)
                             \/ FetchEnv(i) \/ OpenEnvFile(i) \/ WriteEnvFile(i)
                             \/ Prepare(i) \/ Spawn(i)
BY DEF Next, Handler, Fetches, Done, Outside

LEMMA PayloadStays ==
  ASSUME Next
  PROVE  payload' = payload
<1>1. ASSUME NEW i \in Calls,
             \/ Done(i) \/ ReadWorkspace(i) \/ RemoveEntries(i) \/ FetchEnv(i)
             \/ OpenEnvFile(i) \/ WriteEnvFile(i) \/ Prepare(i) \/ Spawn(i)
      PROVE  payload' = payload
  BY <1>1 DEF Done, CheckHealth, OpenGate, Suspend, Terminate, ReadWorkspace,
              RemoveEntries, FetchEnv, OpenEnvFile, WriteEnvFile, Prepare, Spawn
<1>2. Outside => payload' = payload
  BY DEF Outside, CmdExits, Wait, Admit, Store, BadGateway, BoxUp, BoxDies, Signal,
         Drained, Exit
<1>3. ASSUME NEW i \in Calls, NEW kind \in NextHooks, CallHook(i, kind)
      PROVE  payload' = payload
  BY <1>3 DEF CallHook
<1>4. GiveUp => payload' = payload
  BY DEF GiveUp
<1> QED
  BY <1>1, <1>2, <1>3, <1>4, StepKinds

LEMMA StepControl ==
  ASSUME TypeOK, Control, Next
  PROVE  TypeOK' /\ Control'
<1>0. Typed
  BY TypesAreTyped
<1>1. ASSUME NEW i \in Calls, NEW kind \in NextHooks, CallHook(i, kind)
      PROVE  TypeOK' /\ Control'
  BY <1>0, <1>1, CallTyped, CallCalls, CallControl
<1>2. ASSUME GiveUp
      PROVE  TypeOK' /\ Control'
  <2>1. TypeOK'
    BY <1>2, GiveUpTyped
  <2>2. PICK i \in Calls : Leaves(i)
    BY <1>0, <1>2, GiveUpLeaves
  <2> QED
    BY <1>0, <2>1, <2>2, LeaveControl
<1>3. ASSUME Outside
      PROVE  TypeOK' /\ Control'
  BY <1>3, OutsideTyped, StillControl
<1>4. ASSUME NEW i \in Calls, Done(i)
      PROVE  TypeOK' /\ Control'
  BY <1>0, <1>4, DoneTyped, DoneReturns, ReturnControl
<1>5. ASSUME NEW i \in Calls, Moves(i)
      PROVE  Control'
  BY <1>0, <1>5, MoveControl
<1>6. ASSUME NEW i \in Calls,
             \/ ReadWorkspace(i) \/ RemoveEntries(i) \/ FetchEnv(i) \/ OpenEnvFile(i)
             \/ WriteEnvFile(i) \/ Prepare(i) \/ Spawn(i)
      PROVE  TypeOK' /\ Control'
  <2>1. TypeOK'
    BY <1>6, RunTyped
  <2>2. Moves(i)
    BY <1>6, ReadWorkspaceMoves, RemoveEntriesMoves, FetchEnvMoves, OpenEnvFileMoves,
       WriteEnvFileMoves, PrepareMoves, SpawnMoves DEF GoesFrom
  <2> QED
    BY <1>5, <2>1, <2>2
<1> QED
  BY <1>1, <1>2, <1>3, <1>4, <1>6, StepKinds

\* Steps that are not of /run's handler, and what they leave alone.
LEMMA QuietSteps ==
  ASSUME TypeOK, Control,
         \/ \E i \in Calls : \E kind \in NextHooks : CallHook(i, kind)
         \/ GiveUp \/ Outside
         \/ \E i \in Calls : Done(i)
  PROVE  /\ Fates
         /\ session' = session /\ envFile' = envFile /\ payload' = payload
         /\ "old" \in files' => "old" \in files
<1>0. Typed
  BY TypesAreTyped
<1>1. Fates
  BY <1>0, CallCalls, CallFates, GiveUpLeaves, LeaveFates, OutsideTyped, StillFates, DoneFates
<1>2. /\ session' = session /\ envFile' = envFile /\ payload' = payload
      /\ "old" \in files' => "old" \in files
  BY DEF CallHook, GiveUp, Outside, CmdExits, Wait, Admit, Store, BadGateway, BoxUp, BoxDies,
     Signal, Drained, Exit, Done, CheckHealth, OpenGate, Suspend, Terminate
<1> QED
  BY <1>1, <1>2

LEMMA StepEnv ==
  ASSUME TypeOK, Control, EnvInv, Next
  PROVE  EnvInv'
<1>0. blame \subseteq blame'
  BY BlameStays
<1>1. CASE \/ \E i \in Calls : \E kind \in NextHooks : CallHook(i, kind)
           \/ GiveUp \/ Outside
           \/ \E i \in Calls : Done(i)
  BY <1>0, <1>1, QuietSteps, QuietEnv
<1>2. ASSUME NEW i \in Calls, ReadWorkspace(i)
      PROVE  EnvInv'
  <2>1. session' = session /\ envFile' = envFile
    BY <1>2 DEF ReadWorkspace
  <2>2. GoesFrom(i, "called", "remove") /\ hook'[i].env = hook[i].env
    BY <1>2, ReadWorkspaceMoves
  <2> QED
    BY <1>0, <2>1, <2>2, MoveEnv
<1>3. ASSUME NEW i \in Calls, RemoveEntries(i)
      PROVE  EnvInv'
  <2>1. session' = session /\ envFile' = envFile
    BY <1>3 DEF RemoveEntries
  <2>2. GoesFrom(i, "remove", "fetch") /\ hook'[i].env = hook[i].env
    BY <1>3, RemoveEntriesMoves
  <2> QED
    BY <1>0, <2>1, <2>2, MoveEnv
<1>4. ASSUME NEW i \in Calls, Prepare(i)
      PROVE  EnvInv'
  <2>1. session' = session /\ envFile' = envFile
    BY <1>4 DEF Prepare
  <2>2. GoesFrom(i, "start", "spawn") /\ hook'[i].env = hook[i].env
    BY <1>4, PrepareMoves
  <2> QED
    BY <1>0, <2>1, <2>2, MoveEnv
<1>5. ASSUME NEW i \in Calls, Spawn(i)
      PROVE  EnvInv'
  <2>1. session' = session /\ envFile' = envFile
    BY <1>5 DEF Spawn
  <2>2. GoesFrom(i, "spawn", "open") /\ hook'[i].env = hook[i].env
    BY <1>5, SpawnMoves
  <2> QED
    BY <1>0, <2>1, <2>2, MoveEnv
<1>a. \A what \in Causes : Mishap(what) => what \in blame'
  BY DEF Mishap
\* The last three touch what the call of another handler has built only if
\* that one is not alone.
<1>6. ASSUME NEW i \in Calls, NEW k \in Calls, NEW from, NEW to, GoesFrom(i, from, to), Alone(k)'
      PROVE  k = i
  <2>1. Alone(k)
    BY <1>6 DEF GoesFrom, Moves, Others, Alone
  <2>2. hook[i].kind = "run" /\ Active(i)
    BY <1>6 DEF GoesFrom, Moves
  <2> QED
    BY <2>1, <2>2, Solo
<1>7. ASSUME NEW i \in Calls, FetchEnv(i)
      PROVE  EnvInv'
  <2>1. /\ GoesFrom(i, "fetch", "truncate") /\ hook'[i].env = session'
        /\ \/ session' = Env(i, TRUE)
           \/ /\ session' = Env(i, FALSE)
              /\ hook[i].cancelled \/ Mishap("fetch")
    BY <1>7, FetchEnvMoves
  <2>2. hook'[i].at = "truncate" /\ hook'[i].cancelled = hook[i].cancelled
    BY <2>1 DEF GoesFrom, Moves
  <2>3. Alone(i)' => ~hook[i].cancelled
    BY <2>2 DEF Alone
  <2>4. Alone(i)' => session' = Env(i, TRUE) \/ (session' = Env(i, FALSE) /\ "fetch" \in blame')
    BY <2>1, <2>3, <1>a DEF Causes
  <2>5. \A k \in Calls : Alone(k)' => k = i
    BY <1>6, <2>1
  <2> SUFFICES ASSUME NEW k \in Calls, Alone(k)'
               PROVE
                 /\ hook'[k].at \in Fetched \ {"done"} => hook'[k].env = session'
                 /\ hook'[k].at \in Fetched =>
                      session' = Env(k, TRUE) \/ (session' = Env(k, FALSE) /\ "fetch" \in blame')
                 /\ hook'[k].at = "write" => envFile' = {}
                 /\ hook'[k].at \in Written => envFile' = {session'} \/ "write" \in blame'
    BY DEF EnvInv, Env
  <2> QED
    BY <2>1, <2>2, <2>4, <2>5 DEF Written
<1>8. ASSUME NEW i \in Calls, OpenEnvFile(i) \/ WriteEnvFile(i)
      PROVE  EnvInv'
  <2>1. /\ hook'[i].env = hook[i].env /\ session' = session
        /\ \/ GoesFrom(i, "truncate", "write") /\ envFile' = {}
           \/ GoesFrom(i, "truncate", "start") /\ "write" \in blame'
           \/ /\ GoesFrom(i, "write", "start")
              /\ envFile' = envFile \cup {hook[i].env} \/ "write" \in blame'
    BY <1>8, <1>a, OpenEnvFileMoves, WriteEnvFileMoves DEF OpenEnvFile, WriteEnvFile, Causes
  <2>2. \A k \in Calls : Alone(k)' => k = i
    BY <1>6, <2>1
  <2> SUFFICES ASSUME NEW k \in Calls, Alone(k)'
               PROVE
                 /\ hook'[k].at \in Fetched \ {"done"} => hook'[k].env = session'
                 /\ hook'[k].at \in Fetched =>
                      session' = Env(k, TRUE) \/ (session' = Env(k, FALSE) /\ "fetch" \in blame')
                 /\ hook'[k].at = "write" => envFile' = {}
                 /\ hook'[k].at \in Written => envFile' = {session'} \/ "write" \in blame'
    BY DEF EnvInv, Env
  <2>3. k = i
    BY <2>2
  <2>4. Alone(i) /\ hook[i].at \in {"truncate", "write"}
    BY <2>1, <2>3 DEF Alone, GoesFrom, Moves
  <2>5. /\ hook[i].env = session
        /\ session = Env(i, TRUE) \/ (session = Env(i, FALSE) /\ "fetch" \in blame)
        /\ hook[i].at = "write" => envFile = {}
    BY <2>4 DEF EnvInv, Written, Fetched
  <2>6. CASE GoesFrom(i, "truncate", "write") /\ envFile' = {}
    <3>1. hook'[i].at = "write"
      BY <2>6 DEF GoesFrom
    <3> QED
      BY <1>0, <2>1, <2>3, <2>5, <2>6, <3>1 DEF Written
  <2>7. CASE GoesFrom(i, "truncate", "start") /\ "write" \in blame'
    <3>1. hook'[i].at = "start"
      BY <2>7 DEF GoesFrom
    <3> QED
      BY <1>0, <2>1, <2>3, <2>5, <2>7, <3>1
  <2>8. CASE /\ GoesFrom(i, "write", "start")
             /\ envFile' = envFile \cup {hook[i].env} \/ "write" \in blame'
    <3>1. hook'[i].at = "start" /\ hook[i].at = "write"
      BY <2>8 DEF GoesFrom
    <3>2. envFile' = {session} \/ "write" \in blame'
      BY <2>5, <2>8, <3>1
    <3> QED
      BY <1>0, <2>1, <2>3, <2>5, <3>1, <3>2
  <2> QED
    BY <2>1, <2>6, <2>7, <2>8
<1> QED
  BY <1>1, <1>2, <1>3, <1>4, <1>5, <1>7, <1>8, StepKinds

LEMMA StepGate ==
  ASSUME TypeOK, Control, GateCauses, Next
  PROVE  GateCauses'
<1>0. Typed
  BY TypesAreTyped
<1>1. ASSUME running' = running,
             \A k \in Calls : hook'[k].kind = "terminate" /\ hook'[k].at = "done" =>
               /\ hook[k].kind = "terminate" /\ hook[k].at = "done"
               /\ hook'[k].overlaps = hook[k].overlaps
      PROVE  GateCauses'
  BY <1>1 DEF GateCauses
<1>2. ASSUME NEW i \in Calls, NEW kind \in NextHooks, CallHook(i, kind)
      PROVE  GateCauses'
  <2>1. Called(i, kind) /\ running' = running
    BY <1>0, <1>2, CallCalls DEF CallHook
  <2> QED
    BY <2>1, <1>1 DEF Called, Others
<1>3. ASSUME GiveUp
      PROVE  GateCauses'
  <2>1. PICK i \in Calls : Leaves(i) /\ running' = running
    BY <1>0, <1>3, GiveUpLeaves DEF GiveUp
  <2> QED
    BY <2>1, <1>1 DEF Leaves, Others
<1>4. ASSUME Outside
      PROVE  GateCauses'
  <2>1. running' = running
    BY <1>4 DEF Outside, CmdExits, Wait, Admit, Store, BadGateway, BoxUp, BoxDies, Signal,
       Drained, Exit
  <2>2. Still
    BY <1>4, OutsideTyped
  <2> QED
    BY <2>1, <2>2, <1>1 DEF Still
<1>5. ASSUME NEW i \in Calls, CheckHealth(i) \/ Suspend(i)
      PROVE  GateCauses'
  <2>1. Returns(i)
    BY <1>5, DoneReturns DEF Done
  <2>2. running' = running /\ hook[i].kind # "terminate"
    BY <1>5 DEF CheckHealth, Suspend, At
  <2> QED
    BY <2>1, <2>2, <1>1 DEF Returns, Others, NoHook
<1>6. ASSUME NEW i \in Calls, Terminate(i)
      PROVE  GateCauses'
  BY <1>6 DEF Terminate, GateCauses
<1>7. ASSUME NEW i \in Calls, OpenGate(i)
      PROVE  GateCauses'
  <2>1. Returns(i)
    BY <1>7, DoneReturns DEF Done
  <2>2. Active(i) /\ hook[i].kind # "terminate"
    BY <1>7 DEF OpenGate, At, Active
  <2> SUFFICES ASSUME NEW k \in Calls, hook'[k].kind = "terminate"
               PROVE  hook'[k].overlaps
    BY DEF GateCauses
  <2>3. k # i /\ hook'[k] = hook[k]
    BY <2>1, <2>2 DEF Returns, Others, NoHook
  <2> QED
    BY <2>2, <2>3 DEF Control, EndOrder
<1>8. ASSUME NEW i \in Calls,
             \/ ReadWorkspace(i) \/ RemoveEntries(i) \/ FetchEnv(i) \/ OpenEnvFile(i)
             \/ WriteEnvFile(i) \/ Prepare(i) \/ Spawn(i)
      PROVE  GateCauses'
  <2>1. Moves(i)
    BY <1>8, ReadWorkspaceMoves, RemoveEntriesMoves, FetchEnvMoves, OpenEnvFileMoves,
       WriteEnvFileMoves, PrepareMoves, SpawnMoves DEF GoesFrom
  <2>2. running' = running
    BY <1>8 DEF ReadWorkspace, RemoveEntries, FetchEnv, OpenEnvFile, WriteEnvFile, Prepare, Spawn
  <2> QED
    BY <2>1, <2>2, <1>1 DEF Moves, Others
<1> QED
  BY <1>2, <1>3, <1>4, <1>5, <1>6, <1>7, <1>8, StepKinds DEF Done

LEMMA StepCmd ==
  ASSUME TypeOK, Control, CmdInv, Next
  PROVE  CmdInv'
<1>0. blame \subseteq blame' /\ cmd \in [Calls -> CmdType]
  BY BlameStays, TypeParts DEF RestTyped
<1>m. \A what \in Causes : Mishap(what) => what \in blame'
  BY DEF Mishap
<1>1. CASE \/ \E i \in Calls : \E kind \in NextHooks : CallHook(i, kind)
           \/ GiveUp \/ (Outside /\ cmd' = cmd)
           \/ \E i \in Calls : Done(i)
  <2>1. cmd' = cmd
    BY <1>1 DEF CallHook, GiveUp, Done, CheckHealth, OpenGate, Suspend, Terminate
  <2> QED
    BY <1>0, <1>1, <2>1, QuietSteps, QuietCmd
<1>2. ASSUME NEW i \in Calls, CmdExits(i) \/ Wait(i)
      PROVE  CmdInv'
  <2>1. \A k \in Calls : hook'[k] = hook[k]
    BY <1>2 DEF CmdExits, Wait
  <2>2. session' = session /\ payload' = payload /\ blame' = blame
    BY <1>2 DEF CmdExits, Wait
  <2>3. \A k \in Calls \ {i} : cmd'[k] = cmd[k]
    BY <1>0, <1>2 DEF CmdExits, Wait
  <2>4. cmd[i] \in CmdType
    BY <1>0
  <2>5. /\ cmd'[i].env = cmd[i].env /\ cmd[i].at # "none" /\ cmd'[i].at # "none"
        /\ cmd'[i].at = "failed" => cmd[i].at = "failed"
    <3>1. CASE CmdExits(i)
      <4>1. cmd'[i] = [cmd[i] EXCEPT !.at = "exited"] /\ cmd[i].at = "running"
        BY <3>1, <1>0 DEF CmdExits
      <4> QED
        BY <4>1, <2>4 DEF CmdType
    <3>2. CASE Wait(i)
      <4>1. PICK log \in {"closed", "lost"} :
              cmd' = [cmd EXCEPT ![i].at = IF @ = "exited" THEN "reaped" ELSE @,
                        ![i].log = IF @ = "open" THEN log ELSE @, ![i].waiter = "gone"]
        BY <3>2 DEF Wait
      <4> DEFINE a == IF cmd[i].at = "exited" THEN "reaped" ELSE cmd[i].at
                 g == IF cmd[i].log = "open" THEN log ELSE cmd[i].log
      <4>2. cmd'[i] = [cmd[i] EXCEPT !.at = a, !.log = g, !.waiter = "gone"]
        BY <4>1, <1>0
      <4>3. cmd'[i].env = cmd[i].env /\ cmd'[i].at = a
        <5> HIDE DEF a, g
        <5> QED
          BY <4>2, <2>4 DEF CmdType
      <4>4. cmd[i].at \in {"prepared", "failed", "exited"}
        BY <3>2 DEF Wait
      <4> QED
        BY <4>3, <4>4
    <3> QED
      BY <1>2, <3>1, <3>2
  <2>6. \A k \in Calls : Alone(k)' <=> Alone(k)
    BY <2>1 DEF Alone
  <2> SUFFICES ASSUME NEW k \in Calls
               PROVE
                 /\ cmd'[k].at # "none" => hook[k].kind = "run"
                 /\ hook[k].kind = "run" /\ payload.command
                      /\ hook[k].at \in {"spawn", "open", "done"} =>
                      cmd'[k].at # "none" /\ (Alone(k) => cmd'[k].env = session)
                 /\ cmd'[k].at = "failed" => "spawn" \in blame
    BY <2>1, <2>2, <2>6 DEF CmdInv
  <2>7. CASE k # i
    BY <2>3, <2>7 DEF CmdInv
  <2>8. CASE k = i
    BY <2>5, <2>8 DEF CmdInv
  <2> QED
    BY <2>7, <2>8
<1>3. ASSUME NEW i \in Calls, ReadWorkspace(i) \/ RemoveEntries(i)
      PROVE  CmdInv'
  <2>1. session' = session /\ cmd' = cmd /\ payload' = payload
    BY <1>3 DEF ReadWorkspace, RemoveEntries
  <2>2. \/ GoesFrom(i, "called", "remove") \/ GoesFrom(i, "remove", "fetch")
    BY <1>3, ReadWorkspaceMoves, RemoveEntriesMoves
  <2> QED
    BY <1>0, <2>1, <2>2, MoveCmd
<1>4. ASSUME NEW i \in Calls, OpenEnvFile(i) \/ WriteEnvFile(i)
      PROVE  CmdInv'
  <2>1. session' = session /\ cmd' = cmd /\ payload' = payload
    BY <1>4 DEF OpenEnvFile, WriteEnvFile
  <2>2. \/ GoesFrom(i, "truncate", "write") \/ GoesFrom(i, "truncate", "start")
        \/ GoesFrom(i, "write", "start")
    BY <1>4, OpenEnvFileMoves, WriteEnvFileMoves
  <2> QED
    BY <1>0, <2>1, <2>2, MoveCmd
<1>5. ASSUME NEW i \in Calls, FetchEnv(i)
      PROVE  CmdInv'
  <2>1. GoesFrom(i, "fetch", "truncate")
    BY <1>5, FetchEnvMoves
  <2>2. cmd' = cmd /\ payload' = payload
    BY <1>5 DEF FetchEnv
  <2>3. \A k \in Calls : /\ hook'[k].kind = hook[k].kind
                         /\ Alone(k)' => Alone(k)
                         /\ hook'[k].at \in {"spawn", "open", "done"} =>
                              k # i /\ hook'[k].at = hook[k].at
    BY <2>1 DEF GoesFrom, Moves, Others, Alone
  <2>4. \A k \in Calls : Alone(k) => k = i
    BY <2>1, Solo DEF GoesFrom, Moves
  <2> QED
    BY <1>0, <2>2, <2>3, <2>4 DEF CmdInv
<1>6. ASSUME NEW i \in Calls, Prepare(i) \/ Spawn(i)
      PROVE  CmdInv'
  <2>1. \/ Prepare(i) /\ GoesFrom(i, "start", "spawn")
        \/ Spawn(i) /\ GoesFrom(i, "spawn", "open")
    BY <1>6, PrepareMoves, SpawnMoves
  <2>2. session' = session /\ payload' = payload
    BY <1>6 DEF Prepare, Spawn
  <2>3. /\ \A k \in Calls \ {i} : hook'[k] = hook[k] /\ cmd'[k] = cmd[k]
        /\ hook[i].kind = "run" /\ hook'[i].kind = "run"
        /\ \A k \in Calls : Alone(k)' <=> Alone(k)
    BY <1>0, <2>1 DEF Prepare, Spawn, GoesFrom, Moves, Others, Alone
  <2>4. cmd[i] \in CmdType
    BY <1>0
  <2>5. /\ cmd'[i].at # "none" /\ (Alone(i) /\ payload.command => cmd'[i].env = session)
        /\ cmd'[i].at = "failed" => "spawn" \in blame'
    <3>1. CASE Prepare(i)
      <4>1. cmd'[i] = Prepared("open") \/ cmd'[i] = Prepared("none")
        BY <3>1, <1>0 DEF Prepare
      <4> QED
        BY <4>1 DEF Prepared
    <3>2. CASE Spawn(i) /\ GoesFrom(i, "spawn", "open")
      <4>1. \/ cmd'[i] = [cmd[i] EXCEPT !.at = "running"]
            \/ cmd'[i] = [cmd[i] EXCEPT !.at = "failed"] /\ "spawn" \in blame'
        BY <3>2, <1>0, <1>m DEF Spawn, Causes
      <4>2. /\ cmd'[i].env = cmd[i].env
            /\ cmd'[i].at = "running" \/ (cmd'[i].at = "failed" /\ "spawn" \in blame')
        BY <4>1, <2>4 DEF CmdType
      <4>3. hook[i].at = "spawn" /\ hook[i].kind = "run"
        BY <3>2 DEF GoesFrom
      <4> QED
        BY <1>0, <4>2, <4>3 DEF CmdInv
    <3> QED
      BY <2>1, <3>1, <3>2
  <2> SUFFICES ASSUME NEW k \in Calls
               PROVE
                 /\ cmd'[k].at # "none" => hook'[k].kind = "run"
                 /\ hook'[k].kind = "run" /\ payload.command
                      /\ hook'[k].at \in {"spawn", "open", "done"} =>
                      cmd'[k].at # "none" /\ (Alone(k)' => cmd'[k].env = session)
                 /\ cmd'[k].at = "failed" => "spawn" \in blame'
    BY <2>2 DEF CmdInv
  <2>6. CASE k # i
    BY <1>0, <2>3, <2>6 DEF CmdInv
  <2>7. CASE k = i
    BY <2>3, <2>5, <2>7
  <2> QED
    BY <2>6, <2>7
<1>7. Outside => cmd' = cmd \/ \E i \in Calls : CmdExits(i) \/ Wait(i)
  BY DEF Outside, Admit, Store, BadGateway, BoxUp, BoxDies, Signal, Drained, Exit
<1> QED
  BY <1>1, <1>2, <1>3, <1>4, <1>5, <1>6, <1>7, StepKinds

LEMMA StepOld ==
  ASSUME TypeOK, Control, OldFiles, Next
  PROVE  OldFiles'
<1>0. blame \subseteq blame'
  BY BlameStays
<1>1. CASE \/ \E i \in Calls : \E kind \in NextHooks : CallHook(i, kind)
           \/ GiveUp \/ Outside
           \/ \E i \in Calls : Done(i)
  BY <1>0, <1>1, QuietSteps, QuietOld
<1>2. ASSUME NEW i \in Calls, ReadWorkspace(i)
      PROVE  OldFiles'
  <2>1. /\ GoesFrom(i, "called", "remove")
        /\ hook'[i].entries = IF Resets THEN Workspace ELSE {}
        /\ files' = files /\ payload' = payload
    BY <1>2, ReadWorkspaceMoves DEF ReadWorkspace
  <2>2. /\ \A k \in Calls \ {i} : hook'[k] = hook[k]
        /\ hook'[i].at = "remove"
    BY <2>1 DEF GoesFrom, Moves, Others
  <2>3. payload.reset # "false" => files \subseteq hook'[i].entries
    BY <2>1 DEF Resets, Workspace
  <2> QED
    BY <1>0, <2>1, <2>2, <2>3 DEF OldFiles, Removed
<1>3. ASSUME NEW i \in Calls, RemoveEntries(i)
      PROVE  OldFiles'
  <2>1. GoesFrom(i, "remove", "fetch") /\ payload' = payload
    BY <1>3, RemoveEntriesMoves DEF RemoveEntries
  <2>2. /\ \A k \in Calls \ {i} : hook'[k] = hook[k]
        /\ hook[i].kind = "run" /\ hook[i].at = "remove" /\ hook'[i].at = "fetch"
    BY <2>1 DEF GoesFrom, Moves, Others
  <2>3. files' \subseteq files
    BY <1>3 DEF RemoveEntries, Remove
  <2>4. \/ files' = files \ hook[i].entries
        \/ "remove" \in blame'
    BY <1>3 DEF RemoveEntries, Remove, Mishap
  <2>5. payload.reset # "false" => "old" \notin files' \/ "remove" \in blame'
    BY <2>2, <2>3, <2>4 DEF OldFiles
  <2> QED
    BY <1>0, <2>1, <2>2, <2>3, <2>5 DEF OldFiles, Removed
<1>4. ASSUME NEW i \in Calls,
             FetchEnv(i) \/ OpenEnvFile(i) \/ WriteEnvFile(i) \/ Prepare(i) \/ Spawn(i)
      PROVE  OldFiles'
  <2>1. payload' = payload /\ ("old" \in files' => "old" \in files)
    BY <1>4 DEF FetchEnv, OpenEnvFile, WriteEnvFile, Prepare, Spawn
  <2>2. \E from \in Removed : \E to \in Removed : GoesFrom(i, from, to)
    BY <1>4, FetchEnvMoves, OpenEnvFileMoves, WriteEnvFileMoves, PrepareMoves, SpawnMoves
       DEF Removed
  <2> QED
    BY <1>0, <2>1, <2>2, MoveOld
<1> QED
  BY <1>1, <1>2, <1>3, <1>4, StepKinds

LEMMA StepLog ==
  ASSUME TypeOK, Control, LogInv, Next
  PROVE  LogInv'
<1>0. /\ blame \subseteq blame' /\ payload' = payload /\ writers \subseteq Calls
      /\ cmd \in [Calls -> CmdType]
  BY BlameStays, PayloadStays, TypeParts DEF RestTyped
<1>1. CASE \/ \E i \in Calls : \E kind \in NextHooks : CallHook(i, kind)
           \/ GiveUp \/ Outside
           \/ \E i \in Calls : Done(i)
  <2>1. writers' = writers
    BY <1>1 DEF CallHook, GiveUp, Outside, CmdExits, Wait, Admit, Store, BadGateway,
                BoxUp, BoxDies, Signal, Drained, Exit, Done, CheckHealth, OpenGate,
                Suspend, Terminate
  <2>2. \A k \in Calls : cmd[k].log = "none" => cmd'[k].log = "none"
    <3>1. CASE cmd' = cmd
      BY <3>1
    <3>2. ASSUME NEW i \in Calls, CmdExits(i)
          PROVE  \A k \in Calls : cmd[k].log = "none" => cmd'[k].log = "none"
      BY <1>0, <3>2 DEF CmdExits, CmdType
    <3>3. ASSUME NEW i \in Calls, Wait(i), NEW k \in Calls, cmd[k].log = "none"
          PROVE  cmd'[k].log = "none"
      <4>1. PICK log \in {"closed", "lost"} :
              cmd' = [cmd EXCEPT ![i].at = IF @ = "exited" THEN "reaped" ELSE @,
                        ![i].log = IF @ = "open" THEN log ELSE @, ![i].waiter = "gone"]
        BY <3>3 DEF Wait
      <4>2. CASE k # i
        BY <1>0, <3>3, <4>1, <4>2
      <4>3. CASE k = i
        <5> DEFINE a == IF cmd[i].at = "exited" THEN "reaped" ELSE cmd[i].at
        <5>1. cmd'[i] = [cmd[i] EXCEPT !.at = a, !.log = "none", !.waiter = "gone"]
          BY <1>0, <3>3, <4>1, <4>3
        <5>2. cmd[i] \in CmdType
          BY <1>0
        <5> HIDE DEF a
        <5> QED
          BY <5>1, <5>2, <4>3 DEF CmdType
      <4> QED
        BY <4>2, <4>3
    <3>4. cmd' = cmd \/ \E i \in Calls : CmdExits(i) \/ Wait(i)
      BY <1>1 DEF CallHook, GiveUp, Outside, Admit, Store, BadGateway, BoxUp, BoxDies,
                  Signal, Drained, Exit, Done, CheckHealth, OpenGate, Suspend, Terminate
    <3> QED
      BY <3>1, <3>2, <3>3, <3>4
  <2> QED
    BY <1>0, <1>1, <2>1, <2>2, QuietSteps, QuietLog
<1>2. ASSUME NEW i \in Calls, ReadWorkspace(i)
      PROVE  LogInv'
  <2>1. /\ GoesFrom(i, "called", "remove")
        /\ hook'[i].entries = IF Resets THEN Workspace ELSE {}
        /\ writers' = writers
    BY <1>2, ReadWorkspaceMoves DEF ReadWorkspace
  <2>2. /\ \A k \in Calls : hook'[k].kind = hook[k].kind /\ (Alone(k)' => k = i)
        /\ hook'[i].at = "remove"
    BY <2>1, MovesSolo DEF GoesFrom
  <2>3. payload.reset # "false" => writers = {} \/ "log" \in hook'[i].entries
    BY <2>1 DEF Resets, Workspace
  <2> QED
    BY <1>0, <2>1, <2>2, <2>3 DEF LogInv, Removed
<1>3. ASSUME NEW i \in Calls, RemoveEntries(i)
      PROVE  LogInv'
  <2>1. GoesFrom(i, "remove", "fetch")
    BY <1>3, RemoveEntriesMoves
  <2>2. /\ \A k \in Calls : hook'[k].kind = hook[k].kind /\ (Alone(k)' => k = i)
        /\ Alone(i)' => Alone(i)
        /\ hook[i].at = "remove" /\ hook'[i].at = "fetch"
    BY <2>1, MovesSolo DEF GoesFrom
  <2>3. writers' \subseteq writers
    BY <1>3 DEF RemoveEntries, Remove
  <2>4. \/ writers' = IF "log" \in hook[i].entries THEN {} ELSE writers
        \/ "remove" \in blame'
    BY <1>3 DEF RemoveEntries, Remove, Mishap
  <2>5. Alone(i) /\ payload.reset # "false" => writers' = {} \/ "remove" \in blame'
    BY <2>2, <2>4 DEF LogInv
  <2> QED
    BY <1>0, <2>2, <2>3, <2>5 DEF LogInv
<1>4. ASSUME NEW i \in Calls,
             FetchEnv(i) \/ OpenEnvFile(i) \/ WriteEnvFile(i) \/ Spawn(i)
      PROVE  LogInv'
  <2>1. writers' = writers
    BY <1>4 DEF FetchEnv, OpenEnvFile, WriteEnvFile, Spawn
  <2>2. \E from \in Removed : \E to \in Removed :
          /\ GoesFrom(i, from, to)
          /\ to \in {"spawn", "open", "done"} => from \in {"spawn", "open", "done"}
    BY <1>4, FetchEnvMoves, OpenEnvFileMoves, WriteEnvFileMoves, SpawnMoves DEF Removed
  <2>3. /\ \A k \in Calls : hook'[k].kind = hook[k].kind /\ (Alone(k)' => k = i)
        /\ Alone(i)' => Alone(i)
        /\ hook[i].at \in Removed /\ hook'[i].at \in Removed
        /\ hook'[i].at \in {"spawn", "open", "done"} =>
             hook[i].at \in {"spawn", "open", "done"}
    BY <2>2, MovesSolo DEF GoesFrom
  <2>4. cmd[i].log = "none" => cmd'[i].log = "none"
    BY <1>0, <1>4 DEF FetchEnv, OpenEnvFile, WriteEnvFile, Spawn, CmdType
  <2>5. hook'[i].at # "remove"
    BY <2>3 DEF Removed
  <2> QED
    BY <1>0, <2>1, <2>3, <2>4, <2>5 DEF LogInv
<1>5. ASSUME NEW i \in Calls, Prepare(i)
      PROVE  LogInv'
  <2>1. GoesFrom(i, "start", "spawn")
    BY <1>5, PrepareMoves
  <2>2. /\ \A k \in Calls : hook'[k].kind = hook[k].kind /\ (Alone(k)' => k = i)
        /\ Alone(i)' => Alone(i)
        /\ hook[i].at = "start" /\ hook'[i].at = "spawn" /\ hook[i].kind = "run"
    BY <2>1, MovesSolo DEF GoesFrom
  <2>3. /\ writers' \subseteq writers \cup {i}
        /\ i \in writers' \/ cmd'[i].log = "none"
    BY <1>0, <1>5 DEF Prepare, Prepared
  <2> QED
    BY <1>0, <2>2, <2>3 DEF LogInv, Removed
<1> QED
  BY <1>1, <1>2, <1>3, <1>4, <1>5, StepKinds

\* As long as what clients have stored stays, and no session begins.
LEMMA KeepData ==
  ASSUME DataFiles,
         svc'.at \in {"build", "held"} => svc.at \in {"build", "held"},
         req' = req,
         "data" \in files => "data" \in files',
         \A k \in Calls :
           /\ hook[k].kind = "run" => hook'[k].kind = "run" /\ (hook[k].cancelled => hook'[k].cancelled)
           /\ Began(k)' /\ svc.at \notin {"build", "held"} =>
                Began(k) /\ hook'[k].overlaps = hook[k].overlaps
  PROVE  DataFiles'
BY DEF DataFiles

LEMMA StepData ==
  ASSUME TypeOK, Control, DataFiles, Next
  PROVE  DataFiles'
<1>0. Typed
  BY TypesAreTyped
<1>1. ASSUME NEW i \in Calls, NEW kind \in NextHooks, CallHook(i, kind)
      PROVE  DataFiles'
  <2>1. Called(i, kind) /\ req' = req /\ files' = files
    BY <1>0, <1>1, CallCalls DEF CallHook
  <2>2. svc'.at \in {"build", "held"} => svc.at \in {"build", "held"}
    BY <2>1 DEF Called
  <2>3. \A k \in Calls :
           /\ hook[k].kind = "run" => hook'[k].kind = "run" /\ (hook[k].cancelled => hook'[k].cancelled)
           /\ Began(k)' => Began(k) /\ hook'[k].overlaps = hook[k].overlaps
    BY <2>1 DEF Called, Others, Began
  <2> QED
    BY <2>1, <2>2, <2>3, KeepData
<1>2. ASSUME GiveUp
      PROVE  DataFiles'
  <2>1. PICK i \in Calls : Leaves(i) /\ req' = req /\ files' = files
    BY <1>0, <1>2, GiveUpLeaves DEF GiveUp
  <2>2. svc'.at \in {"build", "held"} => svc.at \in {"build", "held"}
    BY <2>1 DEF Leaves
  <2>3. \A k \in Calls :
           /\ hook[k].kind = "run" => hook'[k].kind = "run" /\ (hook[k].cancelled => hook'[k].cancelled)
           /\ Began(k)' => Began(k) /\ hook'[k].overlaps = hook[k].overlaps
    BY <2>1 DEF Leaves, Others, Began
  <2> QED
    BY <2>1, <2>2, <2>3, KeepData
<1>3. ASSUME Outside
      PROVE  DataFiles'
  <2>1. svc' = svc /\ hook' = hook
    BY <1>3, OutsideTyped DEF Still
  <2>2. CASE req' = req /\ files' = files
    BY <2>1, <2>2, KeepData DEF Began
  <2>3. ASSUME NEW c \in Clients, Admit(c) \/ Store(c) \/ BadGateway(c)
        PROVE  DataFiles'
    <3>1. svc.at \notin {"build", "held"}
      BY <2>3 DEF Admit, Store, BadGateway, DataFiles
    <3>2. req \in [Clients -> {"none", "admitted", "stored", "failed"}]
      BY DEF TypeOK
    <3>3. /\ files \subseteq files'
          /\ \A d \in Clients : req'[d] = "stored" => req[d] = "stored" \/ "data" \in files'
      BY <2>3, <3>2 DEF Admit, Store, BadGateway
    <3> QED
      BY <2>1, <3>1, <3>3 DEF DataFiles, Began
  <2>4. (req' = req /\ files' = files) \/ \E c \in Clients : Admit(c) \/ Store(c) \/ BadGateway(c)
    BY <1>3 DEF Outside, CmdExits, Wait, BoxUp, BoxDies, Signal, Drained, Exit
  <2> QED
    BY <2>2, <2>3, <2>4
<1>4. ASSUME NEW i \in Calls, Done(i)
      PROVE  DataFiles'
  <2>1. Returns(i) /\ Fates
    BY <1>4, DoneReturns, DoneFates
  <2>2. req' = req /\ files' = files
    BY <1>4 DEF Done, CheckHealth, OpenGate, Suspend, Terminate
  <2>3. hook[i] \in HookType
    BY <1>0 DEF Typed
  <2>4. svc'.at \in {"build", "held"} => svc.at \in {"build", "held"}
    <3>1. hook[i].kind \in {"ready", "validate", "run", "resume", "suspend", "terminate"}
      BY <2>1, <2>3 DEF Returns, Control, Calling, Active, HookType, Kinds
    <3>2. hook[i].kind \in {"ready", "validate"} => svc.at = "build"
      BY DEF Control, Calling
    <3>3. hook[i].kind \notin {"ready", "validate"} =>
            Answered(i) \in {"serving", "suspended", "ended"}
      BY <3>1 DEF Answered
    <3> QED
      BY <2>1, <3>2, <3>3 DEF Returns
  <2>5. \A k \in Calls : Began(k)' /\ svc.at \notin {"build", "held"} =>
          Began(k) /\ hook'[k].overlaps = hook[k].overlaps
    <3> SUFFICES ASSUME NEW k \in Calls, Began(k)', svc.at \notin {"build", "held"}
                 PROVE  Began(k) /\ hook'[k].overlaps = hook[k].overlaps
      OBVIOUS
    <3>1. CASE k # i
      BY <2>1, <3>1 DEF Returns, Others, Began
    <3>2. CASE k = i
      <4>1. hook[i].kind = "run" /\ ~hook[i].cancelled /\ Active(i)
        BY <2>1, <3>2 DEF Returns, Began, NoHook
      <4> QED
        BY <4>1 DEF Control, RunOrder
    <3> QED
      BY <3>1, <3>2
  <2> QED
    BY <2>1, <2>2, <2>4, <2>5, KeepData DEF Fates
<1>5. ASSUME NEW i \in Calls, RemoveEntries(i)
      PROVE  DataFiles'
  <2>1. GoesFrom(i, "remove", "fetch") /\ req' = req
    BY <1>5, RemoveEntriesMoves DEF RemoveEntries
  <2>2. svc' = svc /\ hook[i].kind = "run" /\ Active(i)
    BY <2>1 DEF GoesFrom, Moves
  <2>3. \A k \in Calls : /\ hook'[k].kind = hook[k].kind
                         /\ hook'[k].cancelled = hook[k].cancelled
                         /\ hook'[k].overlaps = hook[k].overlaps
                         /\ Began(k)' <=> Began(k)
    BY <2>1 DEF GoesFrom, Moves, Others, Began
  <2>4. CASE svc.at \in {"build", "held"}
    BY <2>1, <2>2, <2>4 DEF DataFiles
  <2>5. CASE svc.at \notin {"build", "held"}
    <3>1. hook[i].cancelled
      BY <2>2, <2>5 DEF Control, RunOrder
    <3>2. \A j \in Calls : Began(j) => hook[j].overlaps
      BY <2>2, <3>1 DEF Control, RunOrder, Began
    <3> QED
      BY <2>2, <2>3, <2>5, <3>1, <3>2 DEF DataFiles
  <2> QED
    BY <2>4, <2>5
<1>6. ASSUME NEW i \in Calls,
             \/ ReadWorkspace(i) \/ FetchEnv(i) \/ OpenEnvFile(i)
             \/ WriteEnvFile(i) \/ Prepare(i) \/ Spawn(i)
      PROVE  DataFiles'
  <2>2. Moves(i)
    BY <1>6, ReadWorkspaceMoves, FetchEnvMoves, OpenEnvFileMoves, WriteEnvFileMoves,
       PrepareMoves, SpawnMoves DEF GoesFrom
  <2>3. req' = req /\ ("data" \in files => "data" \in files')
    BY <1>6 DEF ReadWorkspace, FetchEnv, OpenEnvFile, WriteEnvFile, Prepare, Spawn
  <2>4. \A k \in Calls :
          /\ hook'[k].kind = hook[k].kind /\ hook'[k].cancelled = hook[k].cancelled
          /\ hook'[k].overlaps = hook[k].overlaps
          /\ Began(k)' => Began(k)
    BY <2>2 DEF Moves, Others, Began
  <2>5. svc' = svc
    BY <2>2 DEF Moves
  <2> QED
    BY <2>3, <2>4, <2>5, KeepData
<1> QED
  BY <1>1, <1>2, <1>3, <1>4, <1>5, <1>6, StepKinds

-----------------------------------------------------------------------------
(* The invariant holds. *)

LEMMA InitInv ==
  ASSUME Init
  PROVE  ShimInv
<1>1. \A i \in Calls : /\ hook[i].kind = "none" /\ hook[i].at = "none"
                       /\ cmd[i].at = "none"
  BY DEF Init, NoHook, NoCmd
<1>2. svc.at = "build" /\ svc.call = 0
  BY DEF Init
<1>3. \A i \in Calls : i # 0
  BY ShimAssumption DEF Calls
<1>4. TypeOK
  <2>1. NoEnv \in Envs
    BY ShimAssumption DEF Envs, NoEnv, Env
  <2>2. NoHook \in HookType /\ NoCmd \in CmdType
    BY <2>1 DEF NoHook, HookType, Kinds, Places, NoCmd, CmdType
  <2>3. svc \in SvcType /\ left \in LeftType
    BY ShimAssumption DEF Init, SvcType, LeftType
  <2>4. hook \in [Calls -> HookType] /\ cmd \in [Calls -> CmdType]
    BY <2>2 DEF Init
  <2>5. RestTyped
    BY <2>1, <2>3, <2>4 DEF Init, RestTyped
  <2> QED
    BY <2>3, <2>4, <2>5, TypeParts
<1>5. Calling /\ RunOrder /\ EndOrder
  BY <1>1, <1>2, <1>3 DEF Calling, RunOrder, EndOrder, Active
<1>6. EnvInv /\ GateCauses /\ CmdInv /\ OldFiles
  BY <1>1 DEF EnvInv, GateCauses, CmdInv, OldFiles, Alone
<1>7. DataFiles /\ LogInv
  BY <1>1 DEF Init, DataFiles, LogInv, Alone
<1> QED
  BY <1>4, <1>5, <1>6, <1>7 DEF ShimInv, Control

\* The invariant holds of every behaviour.
LEMMA ShimHolds == Spec => []ShimInv
<1>1. Init => ShimInv
  BY InitInv
<1>2. ShimInv /\ [Next]_vars => ShimInv'
  <2> SUFFICES ASSUME ShimInv, [Next]_vars
               PROVE  ShimInv'
    OBVIOUS
  <2>1. CASE Next
    BY <2>1, StepControl, StepEnv, StepGate, StepCmd, StepOld, StepData, StepLog DEF ShimInv
  <2>2. CASE UNCHANGED vars
    <3>1. TypeOK'
      BY <2>2 DEF ShimInv, TypeOK, vars
    <3>2. Control'
      BY <2>2, StillControl DEF ShimInv, Still, vars
    <3>3. EnvInv' /\ GateCauses' /\ CmdInv' /\ OldFiles' /\ DataFiles' /\ LogInv'
      BY <2>2 DEF ShimInv, EnvInv, GateCauses, CmdInv, OldFiles, DataFiles, LogInv, Alone,
                  Began, vars
    <3> QED
      BY <3>1, <3>2, <3>3 DEF ShimInv
  <2> QED
    BY <2>1, <2>2
<1> QED
  BY <1>1, <1>2, PTL DEF Spec

\* Every variable keeps its type.
THEOREM ShimTypeCorrect == Spec => []TypeOK
<1>1. ShimInv => TypeOK
  BY DEF ShimInv
<1> QED
  BY <1>1, ShimHolds, PTL

\* After /terminate has been handled the gate is open only if a handler that
\* was at work when it was called has opened it again (hookTerminate).
THEOREM GateHasCause == Spec => []GateCauses
<1>1. ShimInv => GateCauses
  BY DEF ShimInv
<1> QED
  BY <1>1, ShimHolds, PTL

\* When traffic flows after a /run that overlapped no other handler, the
\* environment that it built, whole unless the fetch failed, is in memory and,
\* unless the write failed, alone in session.env (hookRun, sessionState).
THEOREM EnvIsApplied == Spec => []EnvApplied
<1>1. ShimInv => EnvApplied
  BY DEF ShimInv, EnvInv, EnvApplied, Began, Alone, Written, Fetched
<1> QED
  BY <1>1, ShimHolds, PTL

\* A session finds nothing of the image unless a removal failed, and keeps what
\* its clients store unless an abandoned /run removes it (resetWorkspace).
THEOREM WorkspaceIsOwned == Spec => []WorkspaceOwned
<1>1. ShimInv => WorkspaceOwned
  BY DEF ShimInv, OldFiles, DataFiles, WorkspaceOwned, Began, Removed
<1> QED
  BY <1>1, ShimHolds, PTL

\* The startup command has been started by then, unless its start failed, with
\* the environment of the session unless another handler overlaps, and by no
\* other call that was not abandoned (startStartupCommand).
THEOREM StartupHasCause == Spec => []StartupCauses
<1>1. ShimInv => StartupCauses
  <2> SUFFICES ASSUME ShimInv, NEW i \in Calls, Began(i), payload.command
               PROVE
        /\ cmd[i].at # "none" /\ (cmd[i].at = "failed" => "spawn" \in blame)
        /\ cmd[i].env = session \/ hook[i].overlaps
        /\ \A j \in Calls \ {i} : cmd[j].at # "none" => hook[j].cancelled
    BY DEF StartupCauses
  <2>1. /\ cmd[i].at # "none" /\ (cmd[i].at = "failed" => "spawn" \in blame)
        /\ cmd[i].env = session \/ hook[i].overlaps
    BY DEF ShimInv, CmdInv, Began, Alone
  <2>2. ASSUME NEW j \in Calls \ {i}, cmd[j].at # "none"
        PROVE  hook[j].cancelled
    BY <2>2 DEF ShimInv, CmdInv, Control, RunOrder, Began
  <2> QED
    BY <2>1, <2>2
<1> QED
  BY <1>1, ShimHolds, PTL

\* The log in the workspace is by then the one that the session's command has
\* opened, if it has one, and only the command of an abandoned /run may write to
\* it too, where the workspace was kept or its reset failed (resetWorkspace,
\* startStartupCommand).
THEOREM LogHasCause == Spec => []LogCauses
<1>1. ShimInv => LogCauses
  <2> SUFFICES ASSUME ShimInv, NEW i \in Calls, Began(i), payload.command,
                      ~hook[i].overlaps
               PROVE
        /\ i \in writers \/ cmd[i].log = "none"
        /\ \A j \in writers \ {i} :
             hook[j].cancelled /\ (payload.reset = "false" \/ "remove" \in blame)
    BY DEF LogCauses
  <2>1. Alone(i) /\ hook[i].at = "done"
    BY DEF Began, Alone
  <2>2. ASSUME NEW j \in writers \ {i}
        PROVE  hook[j].cancelled
    BY <2>1, <2>2 DEF ShimInv, LogInv, Control, RunOrder, TypeOK, Alone
  <2> QED
    BY <2>1, <2>2 DEF ShimInv, LogInv, Removed
<1> QED
  BY <1>1, ShimHolds, PTL
=============================================================================
