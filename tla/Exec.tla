-------------------------------- MODULE Exec --------------------------------
(***************************************************************************)
(* Microvm.Exec of the SDK (src/sdk-fork/microvm.go): one command after    *)
(* another, each with its Start stream and, when it is given an input, the *)
(* goroutine pumpStdin, which reads it and sends it with WriteStdin.  The  *)
(* commands share the reader, as those of a terminal do.  Every RPC takes  *)
(* a token from the TokenCache, as do the requests of other goroutines;    *)
(* sandboxd, which runs the processes, is modelled as Exec uses it.        *)
(***************************************************************************)
EXTENDS TokenCache, Sequences, Functions

CONSTANTS
  Execs,        \* the number of commands
  Interactive,  \* those that are given the reader
  Starter,      \* the goroutine that calls Exec
  PumpOf,       \* per command its pumpStdin
  Chunks,       \* what the reader yields before it ends
  Outputs,      \* bound on what the processes write
  Requests,     \* bound on the requests of other goroutines
  Mishaps       \* bound on failed calls

Commands == 1..Execs
Others == Callers \ ({Starter} \cup Range(PumpOf))

ASSUME ExecAssumption ==
  /\ Execs \in Nat /\ Chunks \in Nat /\ Outputs \in Nat
  /\ Requests \in Nat /\ Mishaps \in Nat
  /\ Interactive \subseteq Commands
  /\ Starter \in Callers
  /\ PumpOf \in [Commands -> Callers \ {Starter}]
  /\ \A m, n \in Commands : PumpOf[m] = PumpOf[n] => m = n

VARIABLES
  exec,     \* per command: where Exec is, its result, what it has written
  pump,     \* per command: where pumpStdin is, and the chunks it has read
  proc,     \* per command: the process, what it has read and written
  wire,     \* per command: messages of the Start stream under way
  read,     \* how many chunks the reader has yielded
  left      \* what is left of Outputs, Requests and Mishaps

execVars == <<exec, pump, proc, wire, read, left>>
vars == <<tokenVars, execVars>>

Mishap == left.mishaps > 0 /\ left' = [left EXCEPT !.mishaps = @ - 1]

Returned(n, result) == [exec EXCEPT ![n].at = "done", ![n].result = result]

-----------------------------------------------------------------------------
(* Exec. *)

Begin(n) ==
  /\ exec[n].at = "new" /\ (n > 1 => exec[n - 1].at = "done")
  /\ Call(Starter)
  /\ exec' = [exec EXCEPT ![n].at = "start"]
  /\ UNCHANGED <<pump, proc, wire, read, left>>

\* The Start RPC reaches sandboxd, which runs the process.
Start(n) ==
  /\ exec[n].at = "start" /\ Accepted(Starter)
  /\ Finish(Starter)
  /\ exec' = [exec EXCEPT ![n].at = "recv"]
  /\ proc' = [proc EXCEPT ![n].at = "running"]
  /\ wire' = [wire EXCEPT ![n] = <<"init">>]
  /\ UNCHANGED <<pump, read, left>>

\* There is no token, the edge refuses it, or the call fails.
StartFails(n) ==
  /\ exec[n].at = "start"
  /\ Finish(Starter)
  /\ IF Accepted(Starter) THEN Mishap ELSE UNCHANGED left
  /\ exec' = Returned(n, "error")
  /\ UNCHANGED <<pump, proc, wire, read>>

Next1(n, message) ==
  /\ exec[n].at = "recv" /\ wire[n] # <<>> /\ Head(wire[n]) = message
  /\ wire' = [wire EXCEPT ![n] = Tail(@)]
  /\ UNCHANGED <<tokenVars, proc, read>>

RecvInit(n) ==
  /\ Next1(n, "init")
  /\ pump' = IF n \in Interactive THEN [pump EXCEPT ![n].at = "read"] ELSE pump
  /\ UNCHANGED <<exec, left>>

\* The output goes to the caller's writer, whose error ends Exec.
RecvOutput(n) ==
  /\ Next1(n, "output")
  /\ \/ exec' = [exec EXCEPT ![n].written = @ + 1] /\ UNCHANGED left
     \/ exec' = Returned(n, "error") /\ Mishap
  /\ UNCHANGED pump

RecvExit(n) ==
  /\ Next1(n, "exit")
  /\ exec' = Returned(n, "code")
  /\ UNCHANGED <<pump, left>>

\* The end of the stream without an exit event counts as exit code 0.
RecvEnd(n) ==
  /\ Next1(n, "end")
  /\ exec' = Returned(n, "zero")
  /\ UNCHANGED <<pump, left>>

\* Mutant: any error of Recv counts as the end of the stream.
RecvErrorAsEnd(n) ==
  /\ Next1(n, "broken")
  /\ exec' = Returned(n, "zero")
  /\ UNCHANGED <<pump, left>>

RecvError(n) ==
  /\ Next1(n, "broken")
  /\ exec' = Returned(n, "error")
  /\ UNCHANGED <<pump, left>>

-----------------------------------------------------------------------------
(* pumpStdin. *)

\* Mutant: Read is called again after its error.
PumpReadsOn(n) ==
  /\ pump[n].at = "read" /\ read <= Chunks
  /\ Call(PumpOf[n])
  /\ read' = read + 1
  /\ pump' = [pump EXCEPT ![n].at = "send", ![n].took = Append(@, read + 1)]
  /\ UNCHANGED <<exec, proc, wire, left>>

\* Read returns a chunk, whether or not Exec has returned in the meantime.
PumpReads(n) ==
  /\ pump[n].at = "read" /\ read < Chunks
  /\ Call(PumpOf[n])
  /\ read' = read + 1
  /\ pump' = [pump EXCEPT ![n].at = "send", ![n].took = Append(@, read + 1)]
  /\ UNCHANGED <<exec, proc, wire, left>>

\* Mutant: the goroutine returns at the end of the input.
PumpEndsSilently(n) ==
  /\ pump[n].at = "read" /\ read = Chunks
  /\ pump' = [pump EXCEPT ![n].at = "gone"]
  /\ UNCHANGED <<tokenVars, exec, proc, wire, read, left>>

\* Read returns an error, io.EOF at the end.
PumpEnds(n) ==
  /\ pump[n].at = "read" /\ read = Chunks
  /\ Call(PumpOf[n])
  /\ pump' = [pump EXCEPT ![n].at = "eof"]
  /\ UNCHANGED <<exec, proc, wire, read, left>>

Newest(s) == s[Len(s)]

Arrived(n) ==
  CASE pump[n].at = "send" -> [proc EXCEPT ![n].in = Append(@, Newest(pump[n].took))]
    [] pump[n].at = "eof" -> [proc EXCEPT ![n].eof = TRUE]

\* WriteStdin reaches the process.
PumpSends(n) ==
  /\ pump[n].at \in {"send", "eof"}
  /\ Accepted(PumpOf[n]) /\ proc[n].at = "running"
  /\ Finish(PumpOf[n])
  /\ proc' = Arrived(n)
  /\ pump' = [pump EXCEPT ![n].at = IF @ = "send" THEN "read" ELSE "gone"]
  /\ UNCHANGED <<exec, wire, read, left>>

\* Mutant: after an error of WriteStdin the loop goes on.
PumpFailsGoesOn(n) ==
  /\ pump[n].at \in {"send", "eof"}
  /\ Finish(PumpOf[n])
  /\ IF Accepted(PumpOf[n]) /\ proc[n].at = "running"
       THEN Mishap /\ proc' \in {proc, Arrived(n)}
       ELSE UNCHANGED <<left, proc>>
  /\ pump' = [pump EXCEPT ![n].at = IF @ = "send" THEN "read" ELSE "failed"]
  /\ UNCHANGED <<exec, wire, read>>

\* WriteStdin returns an error: no token, one the edge refuses, no process
\* any more, or a call that fails before or after it took effect.
PumpFails(n) ==
  /\ pump[n].at \in {"send", "eof"}
  /\ Finish(PumpOf[n])
  /\ IF Accepted(PumpOf[n]) /\ proc[n].at = "running"
       THEN Mishap /\ proc' \in {proc, Arrived(n)}
       ELSE UNCHANGED <<left, proc>>
  /\ pump' = [pump EXCEPT ![n].at = "failed"]
  /\ UNCHANGED <<exec, wire, read>>

-----------------------------------------------------------------------------
(* sandboxd and the stream. *)

Ended(n) == exec[n].at = "done" \/ {"end", "broken"} \cap Range(wire[n]) # {}

Send(n, messages) ==
  wire' = IF Ended(n) THEN wire ELSE [wire EXCEPT ![n] = @ \o messages]

ProcWrites(n) ==
  /\ proc[n].at = "running" /\ left.outputs > 0
  /\ proc' = [proc EXCEPT ![n].wrote = @ + 1]
  /\ Send(n, <<"output">>)
  /\ left' = [left EXCEPT !.outputs = @ - 1]
  /\ UNCHANGED <<tokenVars, exec, pump, read>>

ProcExits(n) ==
  /\ proc[n].at = "running"
  /\ proc' = [proc EXCEPT ![n].at = "exited"]
  /\ Send(n, <<"exit", "end">>)
  /\ UNCHANGED <<tokenVars, exec, pump, read, left>>

\* The stream ends early, or breaks, and takes the process with it or not.
StreamEnds(n) ==
  /\ exec[n].at = "recv" /\ proc[n].at = "running" /\ ~Ended(n) /\ Mishap
  /\ \E last \in {"end", "broken"} :
       /\ Send(n, <<last>>)
       /\ proc' \in {[proc EXCEPT ![n].cut = last, ![n].at = at] : at \in {"running", "exited"}}
  /\ UNCHANGED <<tokenVars, exec, pump, read>>

-----------------------------------------------------------------------------
(* The specification. *)

\* A goroutine takes its token.
Serve(c) ==
  \/ (UseCached(c) \/ StartMint(c) \/ Minted(c)) /\ UNCHANGED execVars
  \/ MintFails(c) /\ Mishap /\ UNCHANGED <<exec, pump, proc, wire, read>>

\* A request of another goroutine.
Request(c) ==
  /\ left.requests > 0
  /\ Call(c)
  /\ left' = [left EXCEPT !.requests = @ - 1]
  /\ UNCHANGED <<exec, pump, proc, wire, read>>

Init ==
  /\ TokenInit
  /\ exec = [n \in Commands |-> [at |-> "new", result |-> "none", written |-> 0]]
  /\ pump = [n \in Commands |-> [at |-> "none", took |-> <<>>]]
  /\ proc = [n \in Commands |-> [at |-> "none", in |-> <<>>, eof |-> FALSE, wrote |-> 0,
                              cut |-> "no"]]
  /\ wire = [n \in Commands |-> <<>>]
  /\ read = 0
  /\ left = [outputs |-> Outputs, requests |-> Requests, mishaps |-> Mishaps]

Recv(n) == RecvInit(n) \/ RecvOutput(n) \/ RecvExit(n) \/ RecvEnd(n) \/ RecvError(n)

Next ==
  \/ \E n \in Commands :
       \/ Begin(n) \/ Start(n) \/ StartFails(n) \/ Recv(n)
       \/ PumpReads(n) \/ PumpEnds(n) \/ PumpSends(n) \/ PumpFails(n)
       \/ ProcWrites(n) \/ ProcExits(n) \/ StreamEnds(n)
  \/ \E c \in Callers : Serve(c)
  \/ \E c \in Others : Request(c) \/ (Finish(c) /\ UNCHANGED execVars)
  \/ Tick /\ UNCHANGED execVars

Spec == Init /\ [][Next]_vars

\* A process whose input has ended, or that has none, ends.
ProcEnds(n) == (n \in Interactive => proc[n].eof) /\ ProcExits(n)

\* The goroutines and calls that somebody waits for: some of them goes on.
Steps ==
  \/ \E c \in Callers : Serve(c)
  \/ \E c \in Others : Finish(c) /\ UNCHANGED execVars
  \/ \E n \in Commands :
       \/ Start(n) \/ StartFails(n) \/ Recv(n)
       \/ PumpReads(n) \/ PumpEnds(n) \/ PumpSends(n) \/ PumpFails(n)
       \/ ProcEnds(n)

\* Whoever wants a token calls a bounded number of times, so that this is
\* enough: sync.Mutex starves nobody.
FairSpec == Spec /\ WF_vars(Steps)

-----------------------------------------------------------------------------
(* Properties. *)

\* The types of the variables, those of the token cache included.
TypeOK ==
  /\ TokenTypeOK
  /\ exec \in [Commands -> [at : {"new", "start", "recv", "done"},
                           result : {"none", "code", "zero", "error"}, written : Nat]]
  /\ pump \in [Commands -> [at : {"none", "read", "send", "eof", "gone", "failed"},
                           took : Seq(1..Chunks)]]
  /\ proc \in [Commands -> [at : {"none", "running", "exited"}, in : Seq(1..Chunks),
                           eof : BOOLEAN, wrote : 0..Outputs, cut : {"no", "end", "broken"}]]
  /\ wire \in [Commands -> Seq({"init", "output", "exit", "end", "broken"})]
  /\ read \in 0..Chunks
  /\ left \in [outputs : 0..Outputs, requests : 0..Requests, mishaps : 0..Mishaps]

\* A process reads what its pump has read, in order and without a gap, with
\* the end of the input after all of it, though every piece is a call of its
\* own that can fail; and no piece goes to two of the processes that share a
\* reader.
StdinIntact ==
  /\ \A n \in Commands :
       LET took == pump[n].took IN
         /\ \/ proc[n].in = took
            \/ pump[n].at \in {"send", "failed"} /\ proc[n].in = SubSeq(took, 1, Len(took) - 1)
         /\ proc[n].eof => read = Chunks /\ proc[n].in = took
  /\ \A m, n \in Commands : m # n => Range(proc[m].in) \cap Range(proc[n].in) = {}

\* An exit code is that of the process, which has ended, with all of its
\* output written before; the 0 for a stream without an exit event is given
\* only if the stream ended early, and orderly.
ExecResult ==
  \A n \in Commands :
    /\ exec[n].result = "code" =>
         proc[n].at = "exited" /\ proc[n].cut = "no" /\ exec[n].written = proc[n].wrote
    /\ exec[n].result = "zero" => proc[n].cut = "end"

\* Exec returns once the process has had its input, unless a WriteStdin fails:
\* then pumpStdin is gone, and the process waits for an end that nobody sends.
ExecReturns ==
  \A n \in Commands :
    exec[n].at = "start" ~> exec[n].at = "done" \/ pump[n].at = "failed"
=============================================================================
