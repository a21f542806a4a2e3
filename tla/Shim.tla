-------------------------------- MODULE Shim --------------------------------
(***************************************************************************)
(* The entrypoint of the MicroVM (src/shim/main.go): the handlers of the   *)
(* lifecycle hooks, which net/http runs side by side, the gate in front of *)
(* the REST proxy, the startup command with the goroutine that waits for   *)
(* it, the supervision of sandboxd and the shutdown.  The service calls    *)
(* one hook after the other, but does not wait for ever: a handler whose   *)
(* caller has given up goes on, with a cancelled context, beside those of  *)
(* later calls.                                                            *)
(***************************************************************************)
EXTENDS Naturals, FiniteSets

CONSTANTS
  MaxCalls,     \* bound on the calls of hooks
  Clients,      \* requests for sandboxd's REST API
  Payloads,     \* the payloads that /run may get
  GiveUps,      \* bound on hooks the service does not wait for
  Mishaps       \* bound on failed calls, and on deaths of sandboxd

Calls == 1..MaxCalls

\* runPayload, as far as hookRun decides on it.
PayloadType ==
  [reset : {"unset", "true", "false"}, secrets : BOOLEAN, command : BOOLEAN]

ASSUME ShimAssumption ==
  /\ MaxCalls \in Nat /\ GiveUps \in Nat /\ Mishaps \in Nat
  /\ Payloads \subseteq PayloadType

VARIABLES
  svc,      \* the service: the phase of the MicroVM, the call it waits for
  payload,  \* what every call of /run brings
  hook,     \* per call its handler
  running,  \* the gate
  session,  \* the environment in sessionState
  envFile,  \* the environments that are in session.env, {} when it is empty
  files,    \* what is in the workspace, but for the log
  writers,  \* the commands whose output is in the workspace's log, if there is one
  cmd,      \* per call of /run the startup command
  req,      \* the requests
  box,      \* sandboxd
  shim,     \* main
  blame,    \* history: what has gone wrong
  left      \* what is left of GiveUps and Mishaps

vars == <<svc, payload, hook, running, session, envFile, files, writers, cmd, req, box,
          shim, blame, left>>

\* An environment is known by the call that built it, and whether it is whole.
Env(i, whole) == [by |-> i, whole |-> whole]
NoEnv == Env(0, FALSE)

NoHook ==
  [kind |-> "none", at |-> "none", cancelled |-> FALSE, overlaps |-> FALSE,
   env |-> NoEnv, entries |-> {}]
NoCmd == [at |-> "none", env |-> NoEnv, log |-> "none", waiter |-> "none"]

Mishap(what) ==
  /\ left.mishaps > 0
  /\ left' = [left EXCEPT !.mishaps = @ - 1]
  /\ blame' = blame \cup {what}
Fine == UNCHANGED <<left, blame>>

\* A suspended MicroVM stands still; the shim's end ends it.
Runs == svc.at # "suspended" /\ shim # "exited"

Active(i) == hook[i].at \notin {"none", "done"}

-----------------------------------------------------------------------------
(* The service. *)

NextHooks ==
  CASE svc.at = "build" -> {"ready", "validate"}
    [] svc.at = "held" -> {"run", "terminate"}
    [] svc.at = "serving" -> {"suspend", "terminate"}
    [] svc.at = "suspended" -> {"resume"}
    [] svc.at = "resumed" -> {"resume", "terminate"}
    [] OTHER -> {}

CallHook(i, kind) ==
  /\ svc.call = 0
  /\ hook[i] = NoHook /\ (i > 1 => hook[i - 1] # NoHook)
  /\ kind \in NextHooks
  /\ hook' = [hook EXCEPT ![i] = [NoHook EXCEPT !.kind = kind, !.at = "called",
                            !.overlaps = \E j \in Calls : Active(j)]]
  /\ svc' = [svc EXCEPT !.call = i, !.at = IF @ = "suspended" THEN "resumed" ELSE @]
  /\ UNCHANGED <<payload, running, session, envFile, files, writers, cmd, req, box, shim, blame, left>>

Answered(i) ==
  CASE hook[i].kind \in {"ready", "validate"} -> "held"
    [] hook[i].kind \in {"run", "resume"} -> "serving"
    [] hook[i].kind = "suspend" -> "suspended"
    [] hook[i].kind = "terminate" -> "ended"

\* The handler returns; its 200 counts if the service still waits for it.
\* Calls before the snapshot leave no trace.
Reply(i, ok) ==
  /\ hook' = [hook EXCEPT ![i] =
       IF svc.at = "build" THEN NoHook ELSE [@ EXCEPT !.at = "done", !.env = NoEnv]]
  /\ svc' = CASE svc.call # i -> svc
              [] svc.call = i /\ ok -> [at |-> Answered(i), call |-> 0]
              [] OTHER -> [svc EXCEPT !.call = 0]

\* The connection is closed, and with it the context of the request; the
\* service calls again, or ends the MicroVM.
GiveUp ==
  /\ svc.call # 0 /\ svc.at # "build" /\ left.giveUps > 0
  /\ left' = [left EXCEPT !.giveUps = @ - 1]
  /\ hook' = [hook EXCEPT ![svc.call].cancelled = TRUE]
  /\ svc' = [call |-> 0, at |-> IF hook[svc.call].kind = "terminate" THEN "ended" ELSE svc.at]
  /\ UNCHANGED <<payload, running, session, envFile, files, writers, cmd, req, box, shim, blame>>

-----------------------------------------------------------------------------
(* The hooks. *)

At(i, kind, place) == Runs /\ hook[i].kind = kind /\ hook[i].at = place

\* hookReady and hookValidate: 200 when sandboxd answers its health check.
CheckHealth(i) ==
  /\ Runs /\ hook[i].kind \in {"ready", "validate"} /\ hook[i].at = "called"
  /\ Reply(i, box = "up")
  /\ UNCHANGED <<payload, running, session, envFile, files, writers, cmd, req, box, shim, blame, left>>

\* Mutant: only an explicit true resets the workspace.
ResetsIfTold == payload.reset = "true"

Resets == payload.reset # "false"

Workspace == files \cup (IF writers # {} THEN {"log"} ELSE {})

\* resetWorkspace: ReadDir, then RemoveAll of what was read.
ReadWorkspace(i) ==
  /\ At(i, "run", "called")
  /\ hook' = [hook EXCEPT ![i].at = "remove",
                          ![i].entries = IF Resets THEN Workspace ELSE {}]
  /\ UNCHANGED <<svc, payload, running, session, envFile, files, writers, cmd, req, box, shim, blame, left>>

Remove(names) ==
  /\ files' = files \ names
  /\ writers' = IF "log" \in names THEN {} ELSE writers

RemoveEntries(i) ==
  /\ At(i, "run", "remove")
  /\ \/ Remove(hook[i].entries) /\ Fine
     \/ \E e \in hook[i].entries : Remove(hook[i].entries \ {e}) /\ Mishap("remove")
  /\ hook' = [hook EXCEPT ![i].at = "fetch", ![i].entries = {}]
  /\ UNCHANGED <<svc, payload, running, session, envFile, cmd, req, box, shim>>

\* fetchSecretEnv runs under the request's context: without it, or when it
\* fails, the environment has what was fetched before.  session.set.
FetchEnv(i) ==
  /\ At(i, "run", "fetch")
  /\ \/ /\ ~payload.secrets \/ ~hook[i].cancelled
        /\ session' = Env(i, TRUE)
        /\ Fine
     \/ /\ payload.secrets
        /\ session' = Env(i, FALSE)
        /\ IF hook[i].cancelled THEN Fine ELSE Mishap("fetch")
  /\ hook' = [hook EXCEPT ![i].at = "truncate", ![i].env = session']
  /\ UNCHANGED <<svc, payload, running, envFile, files, writers, cmd, req, box, shim>>

\* Mutant: the file is opened without O_TRUNC.
OpenEnvFileAppend(i) ==
  /\ At(i, "run", "truncate")
  /\ UNCHANGED envFile
  /\ \/ hook' = [hook EXCEPT ![i].at = "write"] /\ Fine
     \/ hook' = [hook EXCEPT ![i].at = "start"] /\ Mishap("write")
  /\ UNCHANGED <<svc, payload, running, session, files, writers, cmd, req, box, shim>>

\* writeSessionEnvFile opens the file, which empties it, and writes; an error
\* is logged.
OpenEnvFile(i) ==
  /\ At(i, "run", "truncate")
  /\ \/ envFile' = {} /\ hook' = [hook EXCEPT ![i].at = "write"] /\ Fine
     \/ UNCHANGED envFile /\ hook' = [hook EXCEPT ![i].at = "start"] /\ Mishap("write")
  /\ UNCHANGED <<svc, payload, running, session, files, writers, cmd, req, box, shim>>

WriteEnvFile(i) ==
  /\ At(i, "run", "write")
  /\ \/ envFile' = envFile \cup {hook[i].env} /\ Fine
     \/ UNCHANGED envFile /\ Mishap("write")
  /\ hook' = [hook EXCEPT ![i].at = "start"]
  /\ UNCHANGED <<svc, payload, running, session, files, writers, cmd, req, box, shim>>

\* Mutant: the environment of the boot instead of that of the session.
PreparedBare(log) == [at |-> "prepared", env |-> NoEnv, log |-> log, waiter |-> "waits"]

Prepared(log) == [at |-> "prepared", env |-> session, log |-> log, waiter |-> "waits"]

\* startStartupCommand, with the environment that the session has by now:
\* os.Create makes the log, or empties the one there is, to which its writers
\* go on writing, and the goroutine that waits for the command is started.
Prepare(i) ==
  /\ At(i, "run", "start") /\ payload.command
  /\ \/ cmd' = [cmd EXCEPT ![i] = Prepared("open")] /\ writers' = writers \cup {i} /\ Fine
     \/ cmd' = [cmd EXCEPT ![i] = Prepared("none")] /\ UNCHANGED writers /\ Mishap("log")
  /\ hook' = [hook EXCEPT ![i].at = "spawn"]
  /\ UNCHANGED <<svc, payload, running, session, envFile, files, req, box, shim>>

\* Mutant: a command that did not start is left as a process that exited.
SpawnAlways(i) ==
  /\ At(i, "run", "spawn")
  /\ \/ cmd' = [cmd EXCEPT ![i].at = "running"] /\ Fine
     \/ cmd' = [cmd EXCEPT ![i].at = "zombie"] /\ Mishap("spawn")
  /\ hook' = [hook EXCEPT ![i].at = "open"]
  /\ UNCHANGED <<svc, payload, running, session, envFile, files, writers, req, box, shim>>

\* cmd.Start; its output goes to the log, if that is still open.
Spawn(i) ==
  /\ At(i, "run", "spawn")
  /\ \/ cmd' = [cmd EXCEPT ![i].at = "running"] /\ Fine
     \/ cmd' = [cmd EXCEPT ![i].at = "failed"] /\ Mishap("spawn")
  /\ hook' = [hook EXCEPT ![i].at = "open"]
  /\ UNCHANGED <<svc, payload, running, session, envFile, files, writers, req, box, shim>>

\* The gate opens, and the service hears of it.
OpenGate(i) ==
  /\ \/ At(i, "run", "open")
     \/ At(i, "run", "start") /\ ~payload.command
     \/ At(i, "resume", "called")
  /\ running' = TRUE
  /\ Reply(i, TRUE)
  /\ UNCHANGED <<payload, session, envFile, files, writers, cmd, req, box, shim, blame, left>>

\* hookSuspend only logs.
Suspend(i) ==
  /\ At(i, "suspend", "called")
  /\ Reply(i, TRUE)
  /\ UNCHANGED <<payload, running, session, envFile, files, writers, cmd, req, box, shim, blame, left>>

\* Mutant: the handler only logs, as that of /suspend does.
TerminateOpen(i) ==
  /\ At(i, "terminate", "called")
  /\ Reply(i, TRUE)
  /\ UNCHANGED <<payload, running, session, envFile, files, writers, cmd, req, box, shim, blame, left>>

Terminate(i) ==
  /\ At(i, "terminate", "called")
  /\ running' = FALSE
  /\ Reply(i, TRUE)
  /\ UNCHANGED <<payload, session, envFile, files, writers, cmd, req, box, shim, blame, left>>

-----------------------------------------------------------------------------
(* The startup command and the goroutine of cmd.Wait. *)

CmdExits(i) ==
  /\ Runs /\ cmd[i].at = "running"
  /\ cmd' = [cmd EXCEPT ![i].at = "exited"]
  /\ UNCHANGED <<svc, payload, hook, running, session, envFile, files, writers, req, box, shim, blame, left>>

\* Mutant: nobody waits for the command.
WaitNever(i) ==
  /\ Runs /\ cmd[i].waiter = "waits" /\ cmd[i].at = "failed"
  /\ cmd' = [cmd EXCEPT ![i].log = "closed", ![i].waiter = "gone"]
  /\ UNCHANGED <<svc, payload, hook, running, session, envFile, files, writers, req, box, shim, blame, left>>

\* Wait returns when the command has exited, and at once if cmd.Start has
\* failed or not been called or has not set cmd.Process yet; then the log is
\* closed, before the command has got it or after.
Wait(i) ==
  /\ Runs /\ cmd[i].waiter = "waits" /\ cmd[i].at \in {"prepared", "failed", "exited"}
  /\ \E log \in IF cmd[i].at = "prepared" THEN {"closed", "lost"} ELSE {"closed"} :
       cmd' = [cmd EXCEPT ![i].at = IF @ = "exited" THEN "reaped" ELSE @,
                 ![i].log = IF @ = "open" THEN log ELSE @, ![i].waiter = "gone"]
  /\ UNCHANGED <<svc, payload, hook, running, session, envFile, files, writers, req, box, shim, blame, left>>

-----------------------------------------------------------------------------
(* The REST proxy, sandboxd and the end of the shim. *)

\* A request finds the gate open.
Admit(c) ==
  /\ Runs /\ shim = "up" /\ svc.at \in {"serving", "ended"}
  /\ req[c] = "none" /\ running
  /\ req' = [req EXCEPT ![c] = "admitted"]
  /\ UNCHANGED <<svc, payload, hook, running, session, envFile, files, writers, cmd, box, shim, blame, left>>

\* sandboxd stores a file for it.
Store(c) ==
  /\ Runs /\ req[c] = "admitted" /\ box = "up"
  /\ req' = [req EXCEPT ![c] = "stored"]
  /\ files' = files \cup {"data"}
  /\ UNCHANGED <<svc, payload, hook, running, session, envFile, writers, cmd, box, shim, blame, left>>

BadGateway(c) ==
  /\ Runs /\ req[c] = "admitted" /\ box # "up"
  /\ req' = [req EXCEPT ![c] = "failed"]
  /\ UNCHANGED <<svc, payload, hook, running, session, envFile, files, writers, cmd, box, shim, blame, left>>

BoxUp ==
  /\ Runs /\ box = "starting"
  /\ box' = "up"
  /\ UNCHANGED <<svc, payload, hook, running, session, envFile, files, writers, cmd, req, shim, blame, left>>

\* sandboxd dies, or is killed with the context of exec.CommandContext, which
\* ends with the first signal.
BoxDies ==
  /\ Runs /\ box # "dead"
  /\ IF shim = "up" THEN Mishap("death") ELSE Fine
  /\ box' = "dead"
  /\ UNCHANGED <<svc, payload, hook, running, session, envFile, files, writers, cmd, req, shim>>

\* The MicroVM is stopped after /terminate, or for want of an answer to it.
Signal ==
  /\ Runs /\ shim = "up" /\ svc.at = "ended"
  /\ shim' = "draining"
  /\ UNCHANGED <<svc, payload, hook, running, session, envFile, files, writers, cmd, req, box, blame, left>>

\* Mutant: the shutdown has no time limit.
DrainedOnly ==
  /\ Runs /\ shim = "draining"
  /\ \A i \in Calls : ~Active(i)
  /\ \A c \in Clients : req[c] # "admitted"
  /\ shim' = "drained"
  /\ UNCHANGED <<svc, payload, hook, running, session, envFile, files, writers, cmd, req, box, blame, left>>

\* Shutdown returns when no handler is left, or after fifteen seconds.
Drained ==
  /\ Runs /\ shim = "draining"
  /\ shim' = "drained"
  /\ UNCHANGED <<svc, payload, hook, running, session, envFile, files, writers, cmd, req, box, blame, left>>

\* sbx.Wait: main returns, and with it every handler.
Exit ==
  /\ Runs /\ shim = "drained" /\ box = "dead"
  /\ shim' = "exited"
  /\ UNCHANGED <<svc, payload, hook, running, session, envFile, files, writers, cmd, req, box, blame, left>>

-----------------------------------------------------------------------------
(* The specification. *)

Init ==
  /\ svc = [at |-> "build", call |-> 0]
  /\ payload \in Payloads
  /\ hook = [i \in Calls |-> NoHook]
  /\ running = TRUE
  /\ session = NoEnv
  /\ envFile = {}
  /\ files = {"old"} /\ writers = {}
  /\ cmd = [i \in Calls |-> NoCmd]
  /\ req = [c \in Clients |-> "none"]
  /\ box = "starting"
  /\ shim = "up"
  /\ blame = {}
  /\ left = [giveUps |-> GiveUps, mishaps |-> Mishaps]

Fetches == \E i \in Calls : FetchEnv(i)

Handler(i) ==
  \/ CheckHealth(i) \/ ReadWorkspace(i) \/ RemoveEntries(i)
  \/ OpenEnvFile(i) \/ WriteEnvFile(i) \/ Prepare(i) \/ Spawn(i) \/ OpenGate(i)
  \/ Suspend(i) \/ Terminate(i)

Next ==
  \/ \E i \in Calls :
       \/ \E kind \in NextHooks : CallHook(i, kind)
       \/ Handler(i) \/ CmdExits(i) \/ Wait(i)
  \/ GiveUp \/ Fetches
  \/ \E c \in Clients : Admit(c) \/ Store(c) \/ BadGateway(c)
  \/ BoxUp \/ BoxDies \/ Signal \/ Drained \/ Exit

Spec == Init /\ [][Next]_vars

\* What goes on by itself; a fetch from Secrets Manager may never return, and
\* a command never exit.
Steps ==
  \/ Drained \/ Exit
  \/ BoxDies /\ shim # "up"
  \/ \E i \in Calls : Handler(i) \/ Wait(i)

\* After the snapshot every behaviour is finite, so that it is enough that
\* some goroutine goes on while any can.
FairSpec == Spec /\ WF_vars(Steps)

-----------------------------------------------------------------------------
(* Properties. *)

Kinds == {"none", "ready", "validate", "run", "resume", "suspend", "terminate"}
Places == {"none", "called", "remove", "fetch", "truncate", "write", "start",
           "spawn", "open", "done"}
Envs == [by : 0..MaxCalls, whole : BOOLEAN]

TypeOK ==
  /\ svc \in [at : {"build", "held", "serving", "suspended", "resumed", "ended"},
              call : 0..MaxCalls]
  /\ payload \in Payloads
  /\ hook \in [Calls -> [kind : Kinds, at : Places, cancelled : BOOLEAN,
                         overlaps : BOOLEAN, env : Envs,
                         entries : SUBSET {"old", "log", "data"}]]
  /\ running \in BOOLEAN
  /\ session \in Envs
  /\ envFile \subseteq Envs
  /\ files \subseteq {"old", "data"} /\ writers \subseteq Calls
  /\ cmd \in [Calls -> [at : {"none", "prepared", "running", "failed", "exited", "reaped"},
                        env : Envs, log : {"none", "open", "lost", "closed"},
                        waiter : {"none", "waits", "gone"}]]
  /\ req \in [Clients -> {"none", "admitted", "stored", "failed"}]
  /\ box \in {"starting", "up", "dead"}
  /\ shim \in {"up", "draining", "drained", "exited"}
  /\ blame \subseteq {"remove", "fetch", "write", "log", "spawn", "death"}
  /\ left \in [giveUps : 0..GiveUps, mishaps : 0..Mishaps]

\* The call of /run after whose 200 "traffic flows".
Began(i) == hook[i].kind = "run" /\ hook[i].at = "done" /\ ~hook[i].cancelled

\* "Lambda holds external traffic until /run returns 200": by then commands
\* find in session.env, and the shim in its memory, the environment that this
\* call has built, all of it and nothing else, and they keep finding it; but
\* /run returns 200 also after a failed fetch or write, and a handler that the
\* service gave up on, and that still went on when it called again, writes too.
EnvApplied ==
  \A i \in Calls : Began(i) /\ ~hook[i].overlaps =>
    /\ session = Env(i, TRUE) \/ (session = Env(i, FALSE) /\ "fetch" \in blame)
    /\ envFile = {session} \/ "write" \in blame

\* "/run scrubs /workspace": a session that asks for it, or does not say, finds
\* nothing of the image there, and what sandboxd has stored for its clients
\* stays, unless a removal fails or an abandoned /run is still removing.
WorkspaceOwned ==
  /\ \A i \in Calls :
       Began(i) /\ payload.reset # "false" => "old" \notin files \/ "remove" \in blame
  /\ \A c \in Clients :
       req[c] = "stored" /\ "data" \notin files =>
         \E i \in Calls : hook[i].kind = "run" /\ hook[i].cancelled
                           /\ \A j \in Calls : Began(j) => hook[j].overlaps

\* "It gates that proxy on /run//terminate": once /terminate has been handled
\* the gate is open only if a handler that was still going on when it was
\* called has opened it again.
GateCauses ==
  \A i \in Calls :
    hook[i].kind = "terminate" /\ hook[i].at = "done" /\ running => hook[i].overlaps

\* "runs the PodSpec command/args once at session start, in the background":
\* by the time traffic flows the command has been started with the session's
\* environment, that of an overlapping /run at most, unless its start failed;
\* it is started a second time only by a /run that the service has given up on.
StartupCauses ==
  \A i \in Calls :
    Began(i) /\ payload.command =>
      /\ cmd[i].at # "none" /\ (cmd[i].at = "failed" => "spawn" \in blame)
      /\ cmd[i].env = session \/ hook[i].overlaps
      /\ \A j \in Calls \ {i} : cmd[j].at # "none" => hook[j].cancelled

\* "logging to a file": once traffic flows, the log that the session's command
\* has opened is the one in the workspace, unless a handler that was still
\* going on when /run was called has removed it; a command of an abandoned
\* /run writes to the same log where the workspace was kept, or its reset
\* failed, and nowhere else.
LogCauses ==
  \A i \in Calls :
    Began(i) /\ payload.command /\ ~hook[i].overlaps =>
      /\ i \in writers \/ cmd[i].log = "none"
      /\ \A j \in writers \ {i} :
           hook[j].cancelled /\ (payload.reset = "false" \/ "remove" \in blame)

\* A startup command that ends is waited for, unless the goroutine gave up
\* before the start.
CommandReaped ==
  []<>(\A i \in Calls : cmd[i].at = "exited" => cmd[i].waiter = "gone" \/ ~Runs)

\* Told to stop, the shim ends, whatever its handlers and sandboxd do.
ShutdownEnds == []<>(shim \in {"up", "exited"})

-----------------------------------------------------------------------------
(* What a comment says, and the code does not always do. *)

\* "in the background, logging to a file" (startStartupCommand): the output of
\* the session's command goes to its log, unless there is no log.
StartupLogged ==
  \A i \in Calls : Began(i) /\ cmd[i].at = "running" => cmd[i].log # "lost"
=============================================================================
