----------------------------- MODULE ExecProofs -----------------------------
(* Proofs about Exec: its goroutines use the token cache as TokenCache says, *)
(* so that what is proved of the cache holds here, and what reaches the      *)
(* processes and the callers of Exec is right.                               *)
EXTENDS Exec, TokenCacheProofs, SequenceTheorems

-----------------------------------------------------------------------------
(* The goroutines of Exec as callers of the token cache. *)

LEMMA CallersOfExec == Starter \in Callers /\ \A n \in Commands : PumpOf[n] \in Callers
BY ExecAssumption

LEMMA TokenStep == [Next]_vars => [TokenNext]_tokenVars
<1> SUFFICES ASSUME [Next]_vars PROVE [TokenNext]_tokenVars
  OBVIOUS
<1> USE CallersOfExec DEF TokenNext
<1>a. CASE \E n \in Commands : Begin(n)
  BY <1>a DEF Begin
<1>b. CASE \E n \in Commands : Start(n) \/ StartFails(n)
  BY <1>b DEF Start, StartFails
<1>c. CASE \E n \in Commands : Recv(n)
  BY <1>c DEF Recv, RecvInit, RecvOutput, RecvExit, RecvEnd, RecvError, Next1
<1>d. CASE \E n \in Commands : PumpReads(n) \/ PumpEnds(n)
  BY <1>d DEF PumpReads, PumpEnds
<1>e. CASE \E n \in Commands : PumpSends(n) \/ PumpFails(n)
  BY <1>e DEF PumpSends, PumpFails
<1>f. CASE \E n \in Commands : ProcWrites(n) \/ ProcExits(n) \/ StreamEnds(n)
  BY <1>f DEF ProcWrites, ProcExits, StreamEnds
<1>g. CASE \E c \in Callers : Serve(c)
  BY <1>g DEF Serve, Token
<1>h. CASE \E c \in Others : Request(c) \/ (Finish(c) /\ UNCHANGED execVars)
  BY <1>h DEF Request, Others
<1>i. CASE Tick /\ UNCHANGED execVars
  BY <1>i
<1>j. CASE UNCHANGED vars
  BY <1>j DEF vars
<1> QED
  BY <1>a, <1>b, <1>c, <1>d, <1>e, <1>f, <1>g, <1>h, <1>i, <1>j DEF Next

\* However many commands and requests share the cache, it behaves as specified.
THEOREM UsesTokenCache == Spec => TokenSpec
<1>1. Init => TokenInit
  BY DEF Init
<1> QED
  BY <1>1, TokenStep, PTL DEF Spec, TokenSpec

\* Every RPC and request of the composition has a token that outlives it.
THEOREM RequestsHaveTokens == Spec => []TokenOutlivesRequest
BY UsesTokenCache, TokensOutliveRequests, PTL

\* The composition implements TokenProvider for all its callers.
THEOREM ProvidesTokens == Spec => ImplementsProvider
BY UsesTokenCache, Implementation, PTL

-----------------------------------------------------------------------------
(* Types. *)

ExecType == [at : {"new", "start", "recv", "done"},
             result : {"none", "code", "zero", "error"}, written : Nat]
PumpType == [at : {"none", "read", "send", "eof", "gone", "failed"}, took : Seq(1..Chunks)]
ProcType == [at : {"none", "running", "exited"}, in : Seq(1..Chunks),
             eof : BOOLEAN, wrote : 0..Outputs, cut : {"no", "end", "broken"}]
Messages == {"init", "output", "exit", "end", "broken"}
LeftType == [outputs : 0..Outputs, requests : 0..Requests, mishaps : 0..Mishaps]

\* TypeOK without the token cache, and what it needs: a pump that sends has
\* read something, and what the processes write is within the bound.
ExecTypes ==
  /\ exec \in [Commands -> ExecType]
  /\ pump \in [Commands -> PumpType]
  /\ proc \in [Commands -> ProcType]
  /\ wire \in [Commands -> Seq(Messages)]
  /\ read \in 0..Chunks
  /\ left \in LeftType
  /\ \A n \in Commands : pump[n].at = "send" => pump[n].took # <<>>
  /\ \A n \in Commands : proc[n].wrote + left.outputs <= Outputs

LEMMA AppendNotEmpty ==
  ASSUME NEW S, NEW s \in Seq(S), NEW e \in S
  PROVE  Append(s, e) \in Seq(S) /\ Append(s, e) # <<>>
BY AppendProperties, Zenon

LEMMA MishapType ==
  ASSUME left \in LeftType, Mishap
  PROVE  left' \in LeftType /\ left'.outputs = left.outputs
BY ExecAssumption DEF Mishap, LeftType

LEMMA ArrivedType ==
  ASSUME ExecTypes, NEW n \in Commands, pump[n].at \in {"send", "eof"}
  PROVE  Arrived(n) \in [Commands -> ProcType]
         /\ \A m \in Commands : Arrived(n)[m].wrote = proc[m].wrote
<1> USE DEF ExecTypes
<1>1. CASE pump[n].at = "send"
  <2>1. pump[n].took \in Seq(1..Chunks) /\ pump[n].took # <<>>
    BY <1>1 DEF PumpType
  <2>2. Newest(pump[n].took) \in 1..Chunks
    <3> DEFINE s == pump[n].took
    <3>1. Len(s) \in 1..Len(s)
      BY <2>1, EmptySeq, LenProperties
    <3> QED
      BY <2>1, <3>1, ElementOfSeq DEF Newest
  <2>3. proc[n].in \in Seq(1..Chunks)
    BY DEF ProcType
  <2>4. Append(proc[n].in, Newest(pump[n].took)) \in Seq(1..Chunks)
    BY <2>2, <2>3
  <2>5. Arrived(n) = [proc EXCEPT ![n].in = Append(@, Newest(pump[n].took))]
    BY <1>1 DEF Arrived
  <2>6. [proc[n] EXCEPT !.in = Append(proc[n].in, Newest(pump[n].took))] \in ProcType
        /\ [proc[n] EXCEPT !.in = Append(proc[n].in, Newest(pump[n].took))].wrote
             = proc[n].wrote
    BY <2>4 DEF ProcType
  <2> QED
    BY <2>5, <2>6
<1>2. CASE pump[n].at = "eof"
  <2>1. Arrived(n) = [proc EXCEPT ![n].eof = TRUE]
    BY <1>2 DEF Arrived
  <2>2. [proc[n] EXCEPT !.eof = TRUE] \in ProcType
        /\ [proc[n] EXCEPT !.eof = TRUE].wrote = proc[n].wrote
    BY DEF ProcType
  <2> QED
    BY <2>1, <2>2
<1> QED
  BY <1>1, <1>2

LEMMA InitTypes == Init => ExecTypes
<1> SUFFICES ASSUME Init PROVE ExecTypes
  OBVIOUS
<1>1. <<>> \in Seq(1..Chunks) /\ <<>> \in Seq(Messages)
  OBVIOUS
<1> QED
  BY <1>1, ExecAssumption
  DEF Init, ExecTypes, ExecType, PumpType, ProcType, LeftType

\* What a message taken off the stream leaves behind.
LEMMA RecvTypes ==
  ASSUME ExecTypes, NEW n \in Commands, NEW message, Next1(n, message)
  PROVE  /\ wire' \in [Commands -> Seq(Messages)]
         /\ proc' \in [Commands -> ProcType] /\ read' \in 0..Chunks
         /\ proc' = proc
<1>1. wire[n] \in Seq(Messages) /\ wire[n] # <<>>
  BY DEF ExecTypes, Next1
<1>2. Tail(wire[n]) \in Seq(Messages)
  BY <1>1, HeadTailProperties
<1> QED
  BY <1>2 DEF ExecTypes, Next1

LEMMA SendTypes ==
  ASSUME ExecTypes, NEW n \in Commands, NEW messages \in Seq(Messages), Send(n, messages)
  PROVE  wire' \in [Commands -> Seq(Messages)]
<1>1. wire[n] \o messages \in Seq(Messages)
  BY ConcatProperties DEF ExecTypes
<1> QED
  BY <1>1 DEF ExecTypes, Send

LEMMA RecordTypes ==
  /\ \A e \in ExecType : \A at \in {"start", "recv"} : [e EXCEPT !.at = at] \in ExecType
  /\ \A e \in ExecType : \A result \in {"code", "zero", "error"} :
       [e EXCEPT !.at = "done", !.result = result] \in ExecType
  /\ \A e \in ExecType : [e EXCEPT !.written = e.written + 1] \in ExecType
  /\ \A p \in PumpType : \A at \in {"read", "eof", "gone", "failed"} :
       [p EXCEPT !.at = at] \in PumpType /\ [p EXCEPT !.at = at].at = at
  /\ \A p \in ProcType : \A at \in {"running", "exited"} :
       [p EXCEPT !.at = at] \in ProcType /\ [p EXCEPT !.at = at].wrote = p.wrote
<1>1. \A e \in ExecType : \A at \in {"start", "recv"} : [e EXCEPT !.at = at] \in ExecType
  BY DEF ExecType
<1>2. \A e \in ExecType : \A result \in {"code", "zero", "error"} :
        [e EXCEPT !.at = "done", !.result = result] \in ExecType
  BY DEF ExecType
<1>3. \A e \in ExecType : [e EXCEPT !.written = e.written + 1] \in ExecType
  BY DEF ExecType
<1>4. \A p \in PumpType : \A at \in {"read", "eof", "gone", "failed"} :
        [p EXCEPT !.at = at] \in PumpType /\ [p EXCEPT !.at = at].at = at
  BY DEF PumpType
<1>5. \A p \in ProcType : \A at \in {"running", "exited"} :
        [p EXCEPT !.at = at] \in ProcType /\ [p EXCEPT !.at = at].wrote = p.wrote
  BY DEF ProcType
<1> QED
  BY <1>1, <1>2, <1>3, <1>4, <1>5

LEMMA ReturnedType ==
  ASSUME ExecTypes, NEW n \in Commands, NEW result \in {"code", "zero", "error"}
  PROVE  Returned(n, result) \in [Commands -> ExecType]
<1>1. [exec[n] EXCEPT !.at = "done", !.result = result] \in ExecType
  BY RecordTypes DEF ExecTypes
<1>2. Returned(n, result) = [exec EXCEPT ![n] = [exec[n] EXCEPT !.at = "done", !.result = result]]
  BY DEF ExecTypes, Returned
<1> QED
  BY <1>1, <1>2 DEF ExecTypes

LEMMA StepTypes == ExecTypes /\ [Next]_vars => ExecTypes'
<1> SUFFICES ASSUME ExecTypes, [Next]_vars PROVE ExecTypes'
  OBVIOUS
<1>t. /\ exec \in [Commands -> ExecType] /\ pump \in [Commands -> PumpType]
      /\ proc \in [Commands -> ProcType] /\ wire \in [Commands -> Seq(Messages)]
      /\ read \in 0..Chunks /\ left \in LeftType
  BY DEF ExecTypes
<1>m. Mishap => left' \in LeftType /\ left'.outputs = left.outputs
  BY <1>t, MishapType
<1> USE DEF ExecTypes
<1>a. ASSUME NEW n \in Commands, Begin(n) PROVE ExecTypes'
  BY <1>t, <1>a, RecordTypes DEF Begin
<1>b. ASSUME NEW n \in Commands, Start(n) PROVE ExecTypes'
  <2>1. <<"init">> \in Seq(Messages)
    BY DEF Messages
  <2> QED
    BY <1>t, <1>b, <2>1, RecordTypes DEF Start
<1>c. ASSUME NEW n \in Commands, StartFails(n) PROVE ExecTypes'
  <2>1. exec' \in [Commands -> ExecType]
    BY <1>c, ReturnedType DEF StartFails
  <2>2. left' \in LeftType /\ left'.outputs = left.outputs
    BY <1>t, <1>c, <1>m DEF StartFails
  <2> QED
    BY <1>t, <1>c, <2>1, <2>2 DEF StartFails
<1>d. ASSUME NEW n \in Commands, RecvInit(n) PROVE ExecTypes'
  <2>1. wire' \in [Commands -> Seq(Messages)] /\ proc' = proc /\ read' \in 0..Chunks
    BY <1>d, RecvTypes DEF RecvInit
  <2>2. pump' \in [Commands -> PumpType]
        /\ \A k \in Commands : pump'[k].at = "send" => pump'[k].took # <<>>
    <3>1. CASE n \in Interactive
      <4>1. pump' = [pump EXCEPT ![n] = [pump[n] EXCEPT !.at = "read"]]
        BY <1>d, <3>1 DEF RecvInit
      <4> QED
        BY <1>t, <4>1, RecordTypes
    <3>2. CASE n \notin Interactive
      BY <1>t, <1>d, <3>2 DEF RecvInit
    <3> QED
      BY <3>1, <3>2
  <2> QED
    BY <1>t, <1>d, <2>1, <2>2 DEF RecvInit
<1>e. ASSUME NEW n \in Commands, RecvOutput(n) PROVE ExecTypes'
  <2>1. wire' \in [Commands -> Seq(Messages)] /\ proc' = proc /\ read' \in 0..Chunks
    BY <1>e, RecvTypes DEF RecvOutput
  <2>2. exec' \in [Commands -> ExecType]
    <3>1. CASE exec' = Returned(n, "error")
      BY <3>1, ReturnedType
    <3>2. CASE exec' = [exec EXCEPT ![n] = [exec[n] EXCEPT !.written = exec[n].written + 1]]
      BY <1>t, <3>2, RecordTypes
    <3> QED
      BY <1>e, <3>1, <3>2 DEF RecvOutput
  <2>3. left' \in LeftType /\ left'.outputs = left.outputs
    BY <1>t, <1>e, <1>m DEF RecvOutput
  <2> QED
    BY <1>t, <1>e, <2>1, <2>2, <2>3 DEF RecvOutput
<1>f. ASSUME NEW n \in Commands, RecvExit(n) \/ RecvEnd(n) \/ RecvError(n) PROVE ExecTypes'
  <2>1. wire' \in [Commands -> Seq(Messages)] /\ proc' = proc /\ read' \in 0..Chunks
    BY <1>f, RecvTypes DEF RecvExit, RecvEnd, RecvError
  <2>2. exec' \in [Commands -> ExecType]
    BY <1>f, ReturnedType DEF RecvExit, RecvEnd, RecvError
  <2> QED
    BY <1>t, <1>f, <2>1, <2>2 DEF RecvExit, RecvEnd, RecvError
<1>g. ASSUME NEW n \in Commands, PumpReads(n) PROVE ExecTypes'
  <2>1. read + 1 \in 1..Chunks
    BY <1>t, <1>g, ExecAssumption DEF PumpReads
  <2> DEFINE took == Append(pump[n].took, read + 1)
  <2>2. pump[n].took \in Seq(1..Chunks)
    BY <1>t DEF PumpType
  <2>3. took \in Seq(1..Chunks) /\ took # <<>>
    BY <2>1, <2>2, AppendNotEmpty
  <2> HIDE DEF took
  <2>4. pump' = [pump EXCEPT ![n] = [pump[n] EXCEPT !.at = "send", !.took = took]]
    BY <1>g DEF PumpReads, took
  <2>5. [pump[n] EXCEPT !.at = "send", !.took = took] \in PumpType
        /\ [pump[n] EXCEPT !.at = "send", !.took = took].took = took
    BY <1>t, <2>3 DEF PumpType
  <2>6. pump' \in [Commands -> PumpType]
        /\ \A k \in Commands : pump'[k].at = "send" => pump'[k].took # <<>>
    BY <1>t, <2>3, <2>4, <2>5
  <2>7. read' \in 0..Chunks
    BY <1>g, <2>1 DEF PumpReads
  <2> QED
    BY <1>t, <1>g, <2>6, <2>7 DEF PumpReads
<1>h. ASSUME NEW n \in Commands, PumpEnds(n) PROVE ExecTypes'
  BY <1>t, <1>h, RecordTypes DEF PumpEnds
<1>i. ASSUME NEW n \in Commands, PumpSends(n) PROVE ExecTypes'
  <2>1. proc' \in [Commands -> ProcType] /\ \A k \in Commands : proc'[k].wrote = proc[k].wrote
    BY <1>i, ArrivedType DEF PumpSends
  <2>2. \E at \in {"read", "gone"} : pump' = [pump EXCEPT ![n] = [pump[n] EXCEPT !.at = at]]
    BY <1>i DEF PumpSends
  <2>3. PICK at \in {"read", "gone"} : pump' = [pump EXCEPT ![n] = [pump[n] EXCEPT !.at = at]]
    BY <2>2
  <2>4. [pump[n] EXCEPT !.at = at] \in PumpType /\ [pump[n] EXCEPT !.at = at].at # "send"
    BY <1>t, RecordTypes
  <2>5. pump' \in [Commands -> PumpType]
        /\ \A k \in Commands : pump'[k].at = "send" => pump'[k].took # <<>>
    BY <1>t, <2>3, <2>4
  <2> QED
    BY <1>t, <1>i, <2>1, <2>5 DEF PumpSends
<1>j. ASSUME NEW n \in Commands, PumpFails(n) PROVE ExecTypes'
  <2>1. proc' \in [Commands -> ProcType] /\ \A k \in Commands : proc'[k].wrote = proc[k].wrote
    BY <1>t, <1>j, ArrivedType DEF PumpFails
  <2>2. pump' \in [Commands -> PumpType]
        /\ \A k \in Commands : pump'[k].at = "send" => pump'[k].took # <<>>
    BY <1>t, <1>j, RecordTypes DEF PumpFails
  <2>3. left' \in LeftType /\ left'.outputs = left.outputs
    BY <1>t, <1>j, <1>m DEF PumpFails
  <2> QED
    BY <1>t, <1>j, <2>1, <2>2, <2>3 DEF PumpFails
<1>k. ASSUME NEW n \in Commands, ProcWrites(n) PROVE ExecTypes'
  <2>1. <<"output">> \in Seq(Messages)
    BY DEF Messages
  <2>2. wire' \in [Commands -> Seq(Messages)]
    BY <1>k, <2>1, SendTypes DEF ProcWrites
  <2>3. left' \in LeftType /\ left'.outputs = left.outputs - 1 /\ left.outputs \in Nat
    <3>1. left' = [left EXCEPT !.outputs = left.outputs - 1] /\ left.outputs > 0
      BY <1>k DEF ProcWrites
    <3>2. left.outputs \in 0..Outputs /\ left.outputs - 1 \in 0..Outputs
      BY <1>t, <3>1, ExecAssumption DEF LeftType
    <3>3. left' \in LeftType
      BY <1>t, <3>1, <3>2 DEF LeftType
    <3>4. left'.outputs = left.outputs - 1
      BY <1>t, <3>1 DEF LeftType
    <3> QED
      BY <3>2, <3>3, <3>4, ExecAssumption
  <2>4. \A k \in Commands : proc[k].wrote \in Nat
    BY <1>t DEF ProcType
  <2>5. proc[n].wrote + 1 \in 0..Outputs
    BY <1>k, <2>3, <2>4, ExecAssumption DEF ProcWrites
  <2>6. [proc[n] EXCEPT !.wrote = @ + 1] \in ProcType
        /\ [proc[n] EXCEPT !.wrote = @ + 1].wrote = proc[n].wrote + 1
    BY <1>t, <2>5 DEF ProcType
  <2>7. proc' = [proc EXCEPT ![n] = [proc[n] EXCEPT !.wrote = @ + 1]]
    BY <1>k DEF ProcWrites
  <2>8. proc' \in [Commands -> ProcType]
    BY <1>t, <2>6, <2>7
  <2>9. \A k \in Commands : proc'[k].wrote + left'.outputs <= Outputs
    <3> SUFFICES ASSUME NEW k \in Commands
                 PROVE  proc'[k].wrote + left'.outputs <= Outputs
      OBVIOUS
    <3>1. proc[k].wrote + left.outputs <= Outputs
      BY <1>t
    <3>2. \A w, a, l, b \in Nat :
            w + l <= Outputs /\ (a = w \/ a = w + 1) /\ b = l - 1 => a + b <= Outputs
      BY ExecAssumption
    <3>3. proc \in [Commands -> ProcType]
      BY <1>t
    <3>4. CASE k = n
      <4>1. proc'[k] = [proc[n] EXCEPT !.wrote = @ + 1]
        BY <2>7, <3>3, <3>4
      <4>2. proc'[k].wrote = proc[k].wrote + 1
        BY <2>6, <3>4, <4>1
      <4>3. proc'[k].wrote \in Nat /\ left'.outputs \in Nat
        BY <2>3, <2>4, <4>2, ExecAssumption DEF LeftType
      <4> QED
        BY <2>3, <2>4, <3>1, <3>2, <4>2, <4>3
    <3>5. CASE k # n
      <4>1. proc'[k] = proc[k]
        BY <2>7, <3>3, <3>5
      <4>2. proc'[k].wrote = proc[k].wrote /\ left'.outputs \in Nat
        BY <2>3, <4>1, ExecAssumption DEF LeftType
      <4> QED
        BY <2>3, <2>4, <3>1, <3>2, <4>2
    <3> QED
      BY <3>4, <3>5
  <2> QED
    BY <1>t, <1>k, <2>2, <2>3, <2>8, <2>9 DEF ProcWrites
<1>l. ASSUME NEW n \in Commands, ProcExits(n) PROVE ExecTypes'
  <2>1. <<"exit", "end">> \in Seq(Messages)
    BY DEF Messages
  <2>2. wire' \in [Commands -> Seq(Messages)]
    BY <1>l, <2>1, SendTypes DEF ProcExits
  <2>3. proc' = [proc EXCEPT ![n] = [proc[n] EXCEPT !.at = "exited"]]
    BY <1>l DEF ProcExits
  <2>4. proc' \in [Commands -> ProcType] /\ \A k \in Commands : proc'[k].wrote = proc[k].wrote
    BY <1>t, <2>3, RecordTypes
  <2> QED
    BY <1>t, <1>l, <2>2, <2>4 DEF ProcExits
<1>m1. ASSUME NEW n \in Commands, StreamEnds(n) PROVE ExecTypes'
  <2>1. PICK last \in {"end", "broken"}, at \in {"running", "exited"} :
          /\ Send(n, <<last>>)
          /\ proc' = [proc EXCEPT ![n].cut = last, ![n].at = at]
    BY <1>m1 DEF StreamEnds
  <2>2. <<last>> \in Seq(Messages)
    BY DEF Messages
  <2>3. wire' \in [Commands -> Seq(Messages)]
    BY <2>1, <2>2, SendTypes
  <2>4. proc' = [proc EXCEPT ![n] = [proc[n] EXCEPT !.cut = last, !.at = at]]
    BY <1>t, <2>1
  <2>5. [proc[n] EXCEPT !.cut = last, !.at = at] \in ProcType
        /\ [proc[n] EXCEPT !.cut = last, !.at = at].wrote = proc[n].wrote
    BY <1>t DEF ProcType
  <2>6. proc' \in [Commands -> ProcType] /\ \A k \in Commands : proc'[k].wrote = proc[k].wrote
    BY <1>t, <2>4, <2>5
  <2>7. left' \in LeftType /\ left'.outputs = left.outputs
    BY <1>m1, <1>m DEF StreamEnds
  <2> QED
    BY <1>t, <1>m1, <2>3, <2>6, <2>7 DEF StreamEnds
<1>n. ASSUME NEW c \in Callers, Serve(c) PROVE ExecTypes'
  BY <1>t, <1>n, <1>m DEF Serve, execVars
<1>o. ASSUME NEW c \in Others, Request(c) PROVE ExecTypes'
  <2>1. left' \in LeftType /\ left'.outputs = left.outputs
    <3>1. left' = [left EXCEPT !.requests = left.requests - 1] /\ left.requests > 0
      BY <1>o DEF Request
    <3>2. left.requests - 1 \in 0..Requests
      BY <1>t, <3>1, ExecAssumption DEF LeftType
    <3> QED
      BY <1>t, <3>1, <3>2 DEF LeftType
  <2> QED
    BY <1>t, <1>o, <2>1 DEF Request
<1>p. CASE UNCHANGED execVars
  BY <1>t, <1>p DEF execVars
<1>q. CASE UNCHANGED vars
  BY <1>t, <1>q DEF vars, execVars
<1> QED
  BY <1>a, <1>b, <1>c, <1>d, <1>e, <1>f, <1>g, <1>h, <1>i, <1>j, <1>k, <1>l, <1>m1,
     <1>n, <1>o, <1>p, <1>q
  DEF Next, Recv

LEMMA ExecTypesHold == Spec => []ExecTypes
BY InitTypes, StepTypes, PTL DEF Spec

\* Types, for any number of commands, pieces of input and requests.
THEOREM ExecTypeCorrect == Spec => []TypeOK
<1>1. TokenInv /\ ExecTypes => TypeOK
  BY DEF TokenInv, ExecTypes, TypeOK, ExecType, PumpType, ProcType, LeftType, Messages
<1> QED
  BY <1>1, UsesTokenCache, Invariance, ExecTypesHold, PTL

-----------------------------------------------------------------------------
(* The input of the processes. *)

Front(s) == SubSeq(s, 1, Len(s) - 1)

LEMMA FrontNewest ==
  ASSUME NEW S, NEW s \in Seq(S), s # <<>>
  PROVE  Append(Front(s), Newest(s)) = s
<1>1. Len(s) \in Nat /\ Len(s) # 0
  BY EmptySeq, LenProperties
<1>2. Len(s) \in 1..Len(s) /\ 1 \in 1..Len(s)
  BY <1>1
<1>3. SubSeq(s, 1, Len(s)) = SubSeq(s, 1, Len(s) - 1) \o <<s[Len(s)]>>
  BY <1>2, SubSeqRecursiveSecond
<1>4. \A i \in 1..(Len(s) - 1) : s[i] \in S
  BY <1>1, ElementOfSeq
<1>5. Front(s) \in Seq(S) /\ Newest(s) \in S
  BY <1>1, <1>2, <1>4, SubSeqProperties, ElementOfSeq DEF Front, Newest
<1> QED
  BY <1>3, <1>5, SubSeqFull, AppendIsConcat DEF Front, Newest

LEMMA FrontOfAppend ==
  ASSUME NEW S, NEW s \in Seq(S), NEW e \in S
  PROVE  Front(Append(s, e)) = s
<1> DEFINE t == Append(s, e)
<1>1. /\ Len(s) \in Nat /\ Len(t) = Len(s) + 1
      /\ \A i \in 1..Len(s) : t[i] = s[i] /\ s[i] \in S
  OBVIOUS
<1>2. /\ SubSeq(t, 1, Len(s)) \in Seq(S)
      /\ Len(SubSeq(t, 1, Len(s))) = Len(s)
      /\ \A i \in 1..Len(s) : SubSeq(t, 1, Len(s))[i] = t[i]
  BY <1>1
<1>3. SubSeq(t, 1, Len(s)) = s
  BY <1>1, <1>2, SeqEqual
<1> QED
  BY <1>1, <1>3 DEF Front

\* What the process has of the input depends on where its pump is.
Feed(n) ==
  LET took == pump[n].took
      in == proc[n].in
  IN
  /\ pump[n].at = "send" => in = Front(took)
  /\ pump[n].at \in {"none", "read", "eof", "gone"} => in = took
  /\ pump[n].at = "failed" => in = took \/ (took # <<>> /\ in = Front(took))
  /\ pump[n].at = "eof" => read = Chunks
  /\ proc[n].eof => pump[n].at \in {"gone", "failed"} /\ read = Chunks /\ in = took
  /\ \A i \in 1..Len(took) : took[i] <= read

\* A pump is started once: by the first message of the stream, if at all.
Inits(n) ==
  /\ exec[n].at \in {"new", "start"} => pump[n].at = "none"
  /\ \A i \in 1..Len(wire[n]) : wire[n][i] = "init" => i = 1 /\ pump[n].at = "none"

\* No piece of the input is read twice.
Separate ==
  \A m, n \in Commands : m # n =>
    \A i \in 1..Len(pump[m].took), j \in 1..Len(pump[n].took) :
      pump[m].took[i] # pump[n].took[j]

FeedInv == Separate /\ \A n \in Commands : Feed(n) /\ Inits(n)

\* What the stream still has to bring, as long as Exec listens: the output
\* that is missing, and the end that fits the process.
Ends(n) == IF proc[n].cut # "no" THEN 1 ELSE IF proc[n].at = "exited" THEN 2 ELSE 0
FirstInit(w) == IF w # <<>> /\ w[1] = "init" THEN 1 ELSE 0

Pending(n) ==
  LET w == wire[n] IN
  /\ Len(w) >= Ends(n)
  /\ \A i \in 1..(Len(w) - Ends(n)) : w[i] \in {"init", "output"}
  /\ proc[n].cut # "no" => w[Len(w)] = proc[n].cut
  /\ proc[n].cut = "no" =>
       /\ proc[n].at = "exited" => w[Len(w) - 1] = "exit" /\ w[Len(w)] = "end"
       /\ proc[n].wrote = exec[n].written + Len(w) - Ends(n) - FirstInit(w)

Result(n) ==
  /\ exec[n].at \in {"new", "start"} =>
       proc[n].at = "none" /\ proc[n].wrote = 0 /\ proc[n].cut = "no" /\ exec[n].written = 0
  /\ exec[n].at = "recv" => proc[n].at # "none" /\ Pending(n)
  /\ exec[n].at # "done" => exec[n].result = "none"
  /\ exec[n].result = "code" =>
       proc[n].at = "exited" /\ proc[n].cut = "no" /\ exec[n].written = proc[n].wrote
  /\ exec[n].result = "zero" => proc[n].cut = "end"

ResultInv == \A n \in Commands : Result(n)

LEMMA InitFeed == Init => FeedInv
BY EmptySeq, ExecAssumption DEF Init, FeedInv, Separate, Feed, Inits

\* The input is as it was when neither pumps nor processes read.
LEMMA FeedSame ==
  ASSUME FeedInv, read' = read,
         \A k \in Commands : /\ pump'[k] = pump[k]
                             /\ proc'[k].in = proc[k].in /\ proc'[k].eof = proc[k].eof
  PROVE  Separate' /\ \A k \in Commands : Feed(k)'
BY DEF FeedInv, Separate, Feed

LEMMA TailElements ==
  ASSUME NEW s \in Seq(Messages), s # <<>>
  PROVE  /\ Len(s) \in Nat /\ Len(s) > 0 /\ Head(s) = s[1]
         /\ Tail(s) \in Seq(Messages) /\ Len(Tail(s)) = Len(s) - 1
         /\ \A i \in 1..(Len(s) - 1) : Tail(s)[i] = s[i + 1]
BY EmptySeq, LenProperties, HeadTailProperties

\* Once a message has been taken off a stream no "init" is left in it.
LEMMA NextInits ==
  ASSUME ExecTypes, FeedInv, NEW n \in Commands, NEW message, Next1(n, message)
  PROVE  /\ \A i \in 1..Len(wire'[n]) : wire'[n][i] # "init"
         /\ \A k \in Commands \ {n} : wire'[k] = wire[k]
         /\ read' = read /\ proc' = proc
         /\ exec[n].at = "recv"
<1>1. wire[n] \in Seq(Messages) /\ wire[n] # <<>>
  BY DEF ExecTypes, Next1
<1>2. wire' = [wire EXCEPT ![n] = Tail(wire[n])]
  BY DEF Next1
<1>3. wire'[n] = Tail(wire[n]) /\ \A k \in Commands \ {n} : wire'[k] = wire[k]
  BY <1>2 DEF ExecTypes
<1>4. \A i \in 1..Len(wire[n]) : wire[n][i] = "init" => i = 1
  BY DEF FeedInv, Inits
<1>5. \A i \in 1..(Len(wire[n]) - 1) : i + 1 \in 1..Len(wire[n]) /\ i + 1 # 1
  BY <1>1, TailElements
<1>6. \A i \in 1..Len(wire'[n]) : wire'[n][i] # "init"
  BY <1>1, <1>3, <1>4, <1>5, TailElements
<1> QED
  BY <1>3, <1>6 DEF Next1

\* What is sent after the first message brings no "init".
LEMMA SendInits ==
  ASSUME ExecTypes, NEW n \in Commands, NEW messages \in Seq(Messages), Send(n, messages),
         \A i \in 1..Len(messages) : messages[i] # "init"
  PROVE  \A k \in Commands : \A i \in 1..Len(wire'[k]) :
           wire'[k][i] = "init" => i \in 1..Len(wire[k]) /\ wire[k][i] = "init"
<1>1. CASE wire' = wire
  BY <1>1
<1>2. CASE wire' = [wire EXCEPT ![n] = wire[n] \o messages]
  <2>1. wire[n] \in Seq(Messages) /\ Len(wire[n]) \in Nat /\ Len(messages) \in Nat
    BY DEF ExecTypes
  <2>2. wire'[n] = wire[n] \o messages /\ \A k \in Commands \ {n} : wire'[k] = wire[k]
    BY <1>2 DEF ExecTypes
  <2>3. SUFFICES ASSUME NEW i \in 1..Len(wire'[n]), wire'[n][i] = "init"
                 PROVE  i \in 1..Len(wire[n]) /\ wire[n][i] = "init"
    BY <2>2
  <2>4. Len(wire'[n]) = Len(wire[n]) + Len(messages)
        /\ wire'[n][i] = IF i <= Len(wire[n]) THEN wire[n][i] ELSE messages[i - Len(wire[n])]
    BY <2>1, <2>2, ConcatProperties
  <2>5. CASE i <= Len(wire[n])
    BY <2>1, <2>3, <2>4, <2>5
  <2>6. CASE ~(i <= Len(wire[n]))
    <3>1. i - Len(wire[n]) \in 1..Len(messages)
      BY <2>1, <2>4, <2>6
    <3> QED
      BY <2>3, <2>4, <2>6, <3>1
  <2> QED
    BY <2>5, <2>6
<1> QED
  BY <1>1, <1>2 DEF Send

\* The records that pumpStdin leaves behind.
LEMMA ArrivedInput ==
  ASSUME ExecTypes, FeedInv, NEW n \in Commands, pump[n].at \in {"send", "eof"}
  PROVE  /\ Arrived(n)[n].in = pump[n].took
         /\ Arrived(n)[n].eof = (IF pump[n].at = "eof" THEN TRUE ELSE proc[n].eof)
         /\ \A k \in Commands \ {n} : Arrived(n)[k] = proc[k]
<1> USE DEF ExecTypes
<1>1. CASE pump[n].at = "send"
  <2>1. Append(proc[n].in, Newest(pump[n].took)) = pump[n].took
    <3>1. proc[n].in = Front(pump[n].took)
      BY <1>1 DEF FeedInv, Feed
    <3>2. pump[n].took \in Seq(1..Chunks) /\ pump[n].took # <<>>
      BY <1>1 DEF PumpType
    <3> QED
      BY <3>1, <3>2, FrontNewest
  <2>2. Arrived(n) = [proc EXCEPT ![n] = [proc[n] EXCEPT !.in = pump[n].took]]
    BY <1>1, <2>1 DEF Arrived
  <2> QED
    BY <1>1, <2>2 DEF ProcType
<1>2. CASE pump[n].at = "eof"
  <2>1. Arrived(n) = [proc EXCEPT ![n] = [proc[n] EXCEPT !.eof = TRUE]]
    BY <1>2 DEF Arrived
  <2>2. proc[n].in = pump[n].took
    BY <1>2 DEF FeedInv, Feed
  <2> QED
    BY <1>2, <2>1, <2>2 DEF ProcType
<1> QED
  BY <1>1, <1>2

LEMMA StepFeed == ExecTypes /\ FeedInv /\ [Next]_vars => FeedInv'
<1> SUFFICES ASSUME ExecTypes, FeedInv, [Next]_vars PROVE FeedInv'
  OBVIOUS
<1>t. /\ exec \in [Commands -> ExecType] /\ pump \in [Commands -> PumpType]
      /\ proc \in [Commands -> ProcType] /\ wire \in [Commands -> Seq(Messages)]
      /\ read \in 0..Chunks
  BY DEF ExecTypes
<1>f. Separate /\ \A k \in Commands : Feed(k) /\ Inits(k)
  BY DEF FeedInv
<1>a. ASSUME NEW n \in Commands, Begin(n) PROVE FeedInv'
  <2>1. Separate' /\ \A k \in Commands : Feed(k)'
    BY <1>a, FeedSame DEF Begin
  <2> QED
    BY <1>t, <1>a, <1>f, <2>1 DEF Begin, FeedInv, Inits, ExecType
<1>b. ASSUME NEW n \in Commands, Start(n) PROVE FeedInv'
  <2>1. Separate' /\ \A k \in Commands : Feed(k)'
    BY <1>t, <1>b, FeedSame DEF Start, ProcType
  <2>2. \A k \in Commands : Inits(k)'
    BY <1>t, <1>b, <1>f DEF Start, Inits, ExecType
  <2> QED
    BY <2>1, <2>2 DEF FeedInv
<1>c. ASSUME NEW n \in Commands, StartFails(n) PROVE FeedInv'
  <2>1. Separate' /\ \A k \in Commands : Feed(k)'
    BY <1>c, FeedSame DEF StartFails
  <2>2. \A k \in Commands : exec'[k].at \in {"new", "start"} => exec'[k] = exec[k]
    BY <1>t, <1>c DEF StartFails, Returned, ExecType
  <2> QED
    BY <1>c, <1>f, <2>1, <2>2 DEF StartFails, FeedInv, Inits
<1>d. ASSUME NEW n \in Commands, RecvInit(n) PROVE FeedInv'
  <2>1. /\ \A i \in 1..Len(wire'[n]) : wire'[n][i] # "init"
        /\ \A k \in Commands \ {n} : wire'[k] = wire[k]
        /\ read' = read /\ proc' = proc /\ exec' = exec /\ exec[n].at = "recv"
    BY <1>d, NextInits DEF RecvInit
  <2>2. pump[n].at = "none"
    <3>1. 1 \in 1..Len(wire[n]) /\ wire[n][1] = "init"
      BY <1>t, <1>d, TailElements DEF RecvInit, Next1
    <3> QED
      BY <1>f, <3>1 DEF Inits
  <2>3. /\ \A k \in Commands \ {n} : pump'[k] = pump[k]
        /\ pump'[n].took = pump[n].took /\ pump'[n].at \in {"none", "read"}
    <3>1. CASE pump' = pump
      BY <2>2, <3>1
    <3>2. CASE pump' = [pump EXCEPT ![n] = [pump[n] EXCEPT !.at = "read"]]
      BY <1>t, <3>2 DEF PumpType
    <3> QED
      BY <1>d, <3>1, <3>2 DEF RecvInit
  <2>4. Separate'
    <3>1. \A k \in Commands : pump'[k].took = pump[k].took
      BY <2>3
    <3> QED
      BY <1>f, <3>1 DEF Separate
  <2>5. \A k \in Commands : Feed(k)'
    BY <1>f, <2>1, <2>2, <2>3 DEF Feed
  <2>6. \A k \in Commands : Inits(k)'
    BY <1>f, <2>1, <2>3 DEF Inits
  <2> QED
    BY <2>4, <2>5, <2>6 DEF FeedInv
<1>e. ASSUME NEW n \in Commands, RecvOutput(n) \/ RecvExit(n) \/ RecvEnd(n) \/ RecvError(n)
      PROVE  FeedInv'
  <2>1. PICK message : Next1(n, message)
    BY <1>e DEF RecvOutput, RecvExit, RecvEnd, RecvError
  <2>2. /\ \A i \in 1..Len(wire'[n]) : wire'[n][i] # "init"
        /\ \A k \in Commands \ {n} : wire'[k] = wire[k]
        /\ read' = read /\ proc' = proc /\ exec[n].at = "recv"
    BY <2>1, NextInits
  <2>3. pump' = pump
    BY <1>e DEF RecvOutput, RecvExit, RecvEnd, RecvError
  <2>4. Separate' /\ \A k \in Commands : Feed(k)'
    BY <2>2, <2>3, FeedSame
  <2>5. \A k \in Commands : exec'[k].at \in {"new", "start"} => exec'[k].at = exec[k].at
    BY <1>t, <1>e, <2>2
    DEF RecvOutput, RecvExit, RecvEnd, RecvError, Returned, ExecType
  <2>6. \A k \in Commands : Inits(k)'
    BY <1>f, <2>2, <2>3, <2>5 DEF Inits
  <2> QED
    BY <2>4, <2>6 DEF FeedInv
<1>g. ASSUME NEW n \in Commands, PumpReads(n) PROVE FeedInv'
  <2> DEFINE took == Append(pump[n].took, read + 1)
  <2>1. pump[n].took \in Seq(1..Chunks) /\ read + 1 \in 1..Chunks
    BY <1>t, <1>g, ExecAssumption DEF PumpReads, PumpType
  <2>2. /\ Len(took) = Len(pump[n].took) + 1 /\ Len(pump[n].took) \in Nat
        /\ \A i \in 1..Len(pump[n].took) : took[i] = pump[n].took[i]
        /\ took[Len(took)] = read + 1
    BY <2>1
  <2>3. Front(took) = pump[n].took
    BY <2>1, FrontOfAppend
  <2>4. \A i \in 1..Len(took) :
          took[i] <= read' /\ (i \in 1..Len(pump[n].took) \/ took[i] = read + 1)
    <3> SUFFICES ASSUME NEW i \in 1..Len(took)
                 PROVE  took[i] <= read' /\ (i \in 1..Len(pump[n].took) \/ took[i] = read + 1)
      OBVIOUS
    <3>1. read' = read + 1 /\ read \in Nat
      BY <1>t, <1>g DEF PumpReads
    <3>2. CASE i \in 1..Len(pump[n].took)
      <4>1. pump[n].took[i] \in 1..Chunks
        BY <2>1, <3>2, ElementOfSeq
      <4>2. pump[n].took[i] <= read
        BY <1>f, <3>2 DEF Feed
      <4> QED
        BY <2>2, <3>1, <3>2, <4>1, <4>2, ExecAssumption
    <3>3. CASE i \notin 1..Len(pump[n].took)
      <4>1. i = Len(took)
        BY <2>2, <3>3
      <4> QED
        BY <2>2, <3>1, <4>1
    <3> QED
      BY <3>2, <3>3
  <2> HIDE DEF took
  <2>5. /\ pump' = [pump EXCEPT ![n] = [pump[n] EXCEPT !.at = "send", !.took = took]]
        /\ pump[n].at = "read" /\ proc' = proc /\ exec' = exec /\ wire' = wire
        /\ read' = read + 1
    BY <1>g DEF PumpReads, took
  <2>6. pump'[n].at = "send" /\ pump'[n].took = took
        /\ \A k \in Commands \ {n} : pump'[k] = pump[k]
    BY <1>t, <2>5 DEF PumpType
  <2>7. Feed(n)'
    BY <1>f, <2>3, <2>4, <2>5, <2>6 DEF Feed
  <2>8. ASSUME NEW k \in Commands \ {n} PROVE Feed(k)'
    <3>1. pump[k].at # "eof" /\ ~proc[k].eof
      BY <1>f, <1>g, <1>t DEF Feed, PumpReads
    <3>2. \A i \in 1..Len(pump[k].took) : pump[k].took[i] <= read'
      <4>1. \A i \in 1..Len(pump[k].took) : pump[k].took[i] \in 1..Chunks
        BY <1>t, ElementOfSeq DEF PumpType
      <4>2. \A i \in 1..Len(pump[k].took) : pump[k].took[i] <= read
        BY <1>f DEF Feed
      <4> QED
        BY <1>t, <2>5, <4>1, <4>2, ExecAssumption
    <3> QED
      BY <1>f, <2>5, <2>6, <3>1, <3>2 DEF Feed
  <2>9. Separate'
    <3> SUFFICES ASSUME NEW k \in Commands \ {n}, NEW i \in 1..Len(took),
                        NEW j \in 1..Len(pump[k].took)
                 PROVE  took[i] # pump[k].took[j]
      BY <1>f, <2>6 DEF Separate
    <3>1. pump[k].took[j] <= read /\ pump[k].took[j] \in 1..Chunks
      BY <1>f, <1>t, ElementOfSeq DEF Feed, PumpType
    <3>2. CASE i \in 1..Len(pump[n].took)
      BY <1>f, <2>2, <3>2 DEF Separate, took
    <3>3. CASE took[i] = read + 1
      BY <1>t, <3>1, <3>3, ExecAssumption
    <3> QED
      BY <2>4, <3>2, <3>3
  <2>10. \A k \in Commands : Inits(k)'
    <3>1. Inits(n)'
      BY <1>f, <2>5, <2>6 DEF Inits
    <3> QED
      BY <1>f, <2>5, <2>6, <3>1 DEF Inits
  <2> QED
    BY <2>7, <2>8, <2>9, <2>10 DEF FeedInv
<1>h. ASSUME NEW n \in Commands, PumpEnds(n) PROVE FeedInv'
  <2>1. /\ pump' = [pump EXCEPT ![n] = [pump[n] EXCEPT !.at = "eof"]]
        /\ pump[n].at = "read" /\ read = Chunks
        /\ proc' = proc /\ exec' = exec /\ wire' = wire /\ read' = read
    BY <1>h DEF PumpEnds
  <2>2. pump'[n].at = "eof" /\ pump'[n].took = pump[n].took
        /\ \A k \in Commands \ {n} : pump'[k] = pump[k]
    BY <1>t, <2>1 DEF PumpType
  <2> QED
    BY <1>f, <2>1, <2>2 DEF FeedInv, Separate, Feed, Inits
<1>i. ASSUME NEW n \in Commands, PumpSends(n) PROVE FeedInv'
  <2>1. /\ pump' = [pump EXCEPT ![n] = [pump[n] EXCEPT
                                  !.at = IF @ = "send" THEN "read" ELSE "gone"]]
        /\ pump[n].at \in {"send", "eof"} /\ proc' = Arrived(n)
        /\ exec' = exec /\ wire' = wire /\ read' = read
    BY <1>i DEF PumpSends
  <2>2. /\ pump'[n].at = IF pump[n].at = "send" THEN "read" ELSE "gone"
        /\ pump'[n].took = pump[n].took
        /\ \A k \in Commands \ {n} : pump'[k] = pump[k]
    BY <1>t, <2>1 DEF PumpType
  <2>3. /\ proc'[n].in = pump[n].took
        /\ proc'[n].eof = (IF pump[n].at = "eof" THEN TRUE ELSE proc[n].eof)
        /\ \A k \in Commands \ {n} : proc'[k] = proc[k]
    BY <2>1, ArrivedInput
  <2>4. Feed(n)'
    BY <1>f, <2>1, <2>2, <2>3 DEF Feed
  <2>5. \A k \in Commands \ {n} : Feed(k)'
    BY <1>f, <2>1, <2>2, <2>3 DEF Feed
  <2>6. Separate' /\ \A k \in Commands : Inits(k)'
    BY <1>f, <2>1, <2>2 DEF Separate, Inits
  <2> QED
    BY <2>4, <2>5, <2>6 DEF FeedInv
<1>j. ASSUME NEW n \in Commands, PumpFails(n) PROVE FeedInv'
  <2>1. /\ pump' = [pump EXCEPT ![n] = [pump[n] EXCEPT !.at = "failed"]]
        /\ pump[n].at \in {"send", "eof"} /\ proc' \in {proc, Arrived(n)}
        /\ exec' = exec /\ wire' = wire /\ read' = read
    BY <1>j DEF PumpFails
  <2>2. /\ pump'[n].at = "failed" /\ pump'[n].took = pump[n].took
        /\ \A k \in Commands \ {n} : pump'[k] = pump[k]
    BY <1>t, <2>1 DEF PumpType
  <2>3. /\ \A k \in Commands \ {n} : proc'[k] = proc[k]
        /\ \/ proc'[n] = proc[n]
           \/ /\ proc'[n].in = pump[n].took
              /\ proc'[n].eof = (IF pump[n].at = "eof" THEN TRUE ELSE proc[n].eof)
    BY <2>1, ArrivedInput
  <2>4. Feed(n)'
    <3>1. pump[n].at = "send" => pump[n].took # <<>>
      BY DEF ExecTypes
    <3> QED
      BY <1>f, <2>1, <2>2, <2>3, <3>1 DEF Feed
  <2>5. \A k \in Commands \ {n} : Feed(k)'
    BY <1>f, <2>1, <2>2, <2>3 DEF Feed
  <2>6. Separate' /\ \A k \in Commands : Inits(k)'
    BY <1>f, <2>1, <2>2 DEF Separate, Inits
  <2> QED
    BY <2>4, <2>5, <2>6 DEF FeedInv
<1>k. ASSUME NEW n \in Commands, ProcWrites(n) \/ ProcExits(n) \/ StreamEnds(n) PROVE FeedInv'
  <2>1. /\ pump' = pump /\ exec' = exec /\ read' = read
        /\ \A k \in Commands : proc'[k].in = proc[k].in /\ proc'[k].eof = proc[k].eof
    <3>1. CASE ProcWrites(n)
      BY <1>t, <3>1 DEF ProcWrites, ProcType
    <3>2. CASE ProcExits(n)
      BY <1>t, <3>2 DEF ProcExits, ProcType
    <3>3. CASE StreamEnds(n)
      <4>1. PICK last \in {"end", "broken"}, at \in {"running", "exited"} :
              proc' = [proc EXCEPT ![n].cut = last, ![n].at = at]
        BY <3>3 DEF StreamEnds
      <4>2. proc' = [proc EXCEPT ![n] = [proc[n] EXCEPT !.cut = last, !.at = at]]
        BY <1>t, <4>1
      <4> QED
        BY <1>t, <3>3, <4>2 DEF StreamEnds, ProcType
    <3> QED
      BY <1>k, <3>1, <3>2, <3>3
  <2>2. \E messages \in {<<"output">>, <<"exit", "end">>, <<"end">>, <<"broken">>} :
          Send(n, messages)
    BY <1>k DEF ProcWrites, ProcExits, StreamEnds
  <2>3. PICK messages \in Seq(Messages) :
          Send(n, messages) /\ \A i \in 1..Len(messages) : messages[i] # "init"
    <3>1. \A message \in Messages \ {"init"} :
            <<message>> \in Seq(Messages) /\ \A i \in 1..Len(<<message>>) : <<message>>[i] # "init"
      OBVIOUS
    <3>2. <<"exit", "end">> \in Seq(Messages)
          /\ \A i \in 1..Len(<<"exit", "end">>) : <<"exit", "end">>[i] # "init"
      BY DEF Messages
    <3>3. {"output", "end", "broken"} \subseteq Messages \ {"init"}
      BY DEF Messages
    <3> QED
      BY <2>2, <3>1, <3>2, <3>3
  <2>4. \A k \in Commands : \A i \in 1..Len(wire'[k]) :
          wire'[k][i] = "init" => i \in 1..Len(wire[k]) /\ wire[k][i] = "init"
    BY <2>3, SendInits
  <2>5. \A k \in Commands : Inits(k)'
    BY <1>f, <2>1, <2>4 DEF Inits
  <2> QED
    BY <2>1, <2>5, FeedSame DEF FeedInv
<1>l. CASE UNCHANGED <<exec, pump, proc, wire, read>>
  BY <1>f, <1>l DEF FeedInv, Separate, Feed, Inits
<1>m. CASE UNCHANGED execVars \/ UNCHANGED vars
  BY <1>l, <1>m DEF execVars, vars
<1>n. ASSUME NEW c \in Callers, Serve(c) PROVE FeedInv'
  BY <1>l, <1>n DEF Serve, execVars
<1>o. ASSUME NEW c \in Others, Request(c) PROVE FeedInv'
  BY <1>l, <1>o DEF Request
<1> QED
  BY <1>a, <1>b, <1>c, <1>d, <1>e, <1>g, <1>h, <1>i, <1>j, <1>k, <1>m, <1>n, <1>o
  DEF Next, Recv

LEMMA FeedHolds == Spec => []FeedInv
BY InitFeed, StepFeed, ExecTypesHold, PTL DEF Spec

\* No piece of the input is lost, doubled, out of order or given to two
\* processes, for any number of commands that share a reader.
THEOREM StdinArrivesIntact == Spec => []StdinIntact
<1>1. ExecTypes /\ FeedInv => StdinIntact
  <2> SUFFICES ASSUME ExecTypes, FeedInv PROVE StdinIntact
    OBVIOUS
  <2>t. pump \in [Commands -> PumpType] /\ proc \in [Commands -> ProcType]
    BY DEF ExecTypes
  <2>f. Separate /\ \A k \in Commands : Feed(k)
    BY DEF FeedInv
  <2>1. \A n \in Commands :
          /\ \/ proc[n].in = pump[n].took
             \/ pump[n].at \in {"send", "failed"} /\ proc[n].in = Front(pump[n].took)
          /\ proc[n].eof => read = Chunks /\ proc[n].in = pump[n].took
    BY <2>t, <2>f DEF Feed, PumpType
  <2>2. \A n \in Commands : \A i \in 1..Len(proc[n].in) :
          i \in 1..Len(pump[n].took) /\ proc[n].in[i] = pump[n].took[i]
    <3> SUFFICES ASSUME NEW n \in Commands, NEW i \in 1..Len(proc[n].in)
                 PROVE  i \in 1..Len(pump[n].took) /\ proc[n].in[i] = pump[n].took[i]
      OBVIOUS
    <3>1. pump[n].took \in Seq(1..Chunks)
      BY <2>t DEF PumpType
    <3>2. CASE proc[n].in = pump[n].took
      BY <3>2
    <3>3. CASE proc[n].in = Front(pump[n].took)
      BY <3>1, <3>3 DEF Front
    <3> QED
      BY <2>1, <3>2, <3>3
  <2>3. ASSUME NEW m \in Commands, NEW n \in Commands, m # n
        PROVE  Range(proc[m].in) \cap Range(proc[n].in) = {}
    <3>1. \A k \in Commands : DOMAIN proc[k].in = 1..Len(proc[k].in)
      BY <2>t DEF ProcType
    <3> SUFFICES ASSUME NEW i \in 1..Len(proc[m].in), NEW j \in 1..Len(proc[n].in)
                 PROVE  proc[m].in[i] # proc[n].in[j]
      BY <3>1 DEF Range
    <3> QED
      BY <2>2, <2>3, <2>f DEF Separate
  <2> QED
    BY <2>1, <2>3 DEF StdinIntact, Front
<1> QED
  BY <1>1, FeedHolds, ExecTypesHold, PTL

-----------------------------------------------------------------------------
(* The results of Exec. *)

LEMMA InitResult == Init => ResultInv
BY ExecAssumption DEF Init, ResultInv, Result

LEMMA ResultSame ==
  ASSUME NEW k \in Commands, Result(k),
         exec'[k] = exec[k], wire'[k] = wire[k],
         proc'[k].at = proc[k].at, proc'[k].wrote = proc[k].wrote, proc'[k].cut = proc[k].cut
  PROVE  Result(k)'
BY DEF Result, Pending, Ends

LEMMA EndsType == \A n : Ends(n) \in {0, 1, 2}
BY DEF Ends

LEMMA FirstIsAtEnd ==
  \A l \in Nat :
    /\ l > 0 /\ 1 \notin 1..(l - 1) => l = 1
    /\ l >= 2 /\ 1 \notin 1..(l - 2) => l = 2
OBVIOUS

\* What Exec finds at the head of its stream.
LEMMA HeadOfStream ==
  ASSUME ExecTypes, FeedInv, ResultInv, NEW n \in Commands, NEW message, Next1(n, message)
  PROVE  /\ exec[n].at = "recv" /\ exec[n].result = "none"
         /\ wire[n] # <<>> /\ wire[n][1] = message /\ wire' = [wire EXCEPT ![n] = Tail(@)]
         /\ message = "exit" =>
              proc[n].at = "exited" /\ proc[n].cut = "no" /\ exec[n].written = proc[n].wrote
         /\ message = "end" => proc[n].cut = "end"
<1>1. /\ exec[n].at = "recv" /\ wire[n] # <<>> /\ Head(wire[n]) = message
      /\ wire' = [wire EXCEPT ![n] = Tail(@)]
  BY DEF Next1
<1>2. Pending(n) /\ exec[n].result = "none"
  BY <1>1 DEF ResultInv, Result
<1>3. /\ wire[n] \in Seq(Messages) /\ Len(wire[n]) \in Nat /\ Len(wire[n]) > 0
      /\ wire[n][1] = message
  BY <1>1, TailElements DEF ExecTypes
<1>4. /\ proc[n].wrote \in Nat /\ exec[n].written \in Nat
      /\ proc[n].cut \in {"no", "end", "broken"}
  BY DEF ExecTypes, ExecType, ProcType
<1>5. ASSUME message \in {"exit", "end"}, proc[n].cut # "no"
      PROVE  proc[n].cut = message
  <2>1. Ends(n) = 1
    BY <1>5 DEF Ends
  <2>2. 1 \notin 1..(Len(wire[n]) - 1)
    BY <1>2, <1>3, <1>5, <2>1 DEF Pending
  <2>3. Len(wire[n]) = 1
    BY <1>3, <2>2, FirstIsAtEnd
  <2> QED
    BY <1>2, <1>3, <1>5, <2>3 DEF Pending
<1>6. ASSUME message \in {"exit", "end"}, proc[n].cut = "no"
      PROVE  message = "exit" /\ proc[n].at = "exited" /\ exec[n].written = proc[n].wrote
  <2>1. 1 \notin 1..(Len(wire[n]) - Ends(n))
    BY <1>2, <1>3, <1>6 DEF Pending
  <2>2. Ends(n) = 2 /\ proc[n].at = "exited"
    BY <1>3, <1>6, <2>1 DEF Ends
  <2>3. Len(wire[n]) = 2
    <3>1. Len(wire[n]) >= 2 /\ 1 \notin 1..(Len(wire[n]) - 2)
      BY <1>2, <2>1, <2>2 DEF Pending
    <3> QED
      BY <1>3, <3>1, FirstIsAtEnd
  <2>4. message = "exit"
    BY <1>2, <1>3, <1>6, <2>2, <2>3 DEF Pending
  <2>5. proc[n].wrote = exec[n].written + Len(wire[n]) - 2 - 0
    BY <1>2, <1>3, <1>6, <2>2, <2>4 DEF Pending, FirstInit
  <2> QED
    BY <1>4, <2>2, <2>3, <2>4, <2>5
<1> QED
  BY <1>1, <1>2, <1>3, <1>4, <1>5, <1>6

\* The message that Exec has dealt with is no longer pending.
LEMMA PendingTail ==
  ASSUME ExecTypes, FeedInv, ResultInv, NEW n \in Commands,
         NEW message \in {"init", "output"}, Next1(n, message),
         exec'[n].at = "recv",
         exec'[n].written = exec[n].written + (IF message = "output" THEN 1 ELSE 0)
  PROVE  Pending(n)'
<1> DEFINE w == wire[n]
           ends == Ends(n)
<1>1. Pending(n)
  BY HeadOfStream DEF ResultInv, Result
<1>2. /\ w \in Seq(Messages) /\ w # <<>> /\ w[1] = message
      /\ wire' = [wire EXCEPT ![n] = Tail(w)] /\ proc' = proc
  BY HeadOfStream DEF ExecTypes, Next1
<1>3. /\ Len(w) \in Nat /\ Len(w) > 0 /\ wire'[n] = Tail(w)
      /\ Len(wire'[n]) = Len(w) - 1
      /\ \A i \in 1..(Len(w) - 1) : wire'[n][i] = w[i + 1]
  BY <1>2, TailElements DEF ExecTypes
<1>4. \A i \in 1..Len(wire'[n]) : wire'[n][i] # "init"
  BY NextInits
<1>5. /\ proc[n].wrote \in Nat /\ exec[n].written \in Nat /\ ends \in {0, 1, 2}
      /\ proc[n].cut \in {"no", "end", "broken"}
  BY EndsType DEF ExecTypes, ExecType, ProcType
<1>6. Len(w) > ends
  <2>1. Len(w) >= ends
    BY <1>1 DEF Pending
  <2>2. ASSUME Len(w) = ends PROVE FALSE
    <3>1. CASE ends = 1
      <4>1. proc[n].cut # "no" /\ Len(w) = 1
        BY <2>2, <3>1 DEF Ends
      <4>2. w[1] = proc[n].cut
        BY <1>1, <4>1 DEF Pending
      <4> QED
        BY <1>2, <1>5, <4>1, <4>2
    <3>2. CASE ends = 2
      BY <1>1, <1>2, <2>2, <3>2 DEF Pending, Ends
    <3> QED
      BY <1>3, <1>5, <2>2, <3>1, <3>2
  <2> QED
    BY <1>3, <1>5, <2>1, <2>2
<1>7. ~(wire'[n] # <<>> /\ wire'[n][1] = "init")
  <2>1. wire'[n] \in Seq(Messages)
    BY <1>2, <1>3, TailElements
  <2>2. wire'[n] # <<>> => 1 \in 1..Len(wire'[n])
    BY <2>1, TailElements
  <2> QED
    BY <1>4, <2>2
<1>8. proc[n].cut = "no" => proc[n].wrote = exec'[n].written + Len(wire'[n]) - ends
  <2>1. proc[n].cut = "no" => proc[n].wrote = exec[n].written + Len(w) - ends - FirstInit(w)
    BY <1>1 DEF Pending
  <2>2. \A l, x, y, e \in Nat :
          x = y + l - e - 1 => x = y + (l - 1) - e
    OBVIOUS
  <2>3. \A l, x, y, e \in Nat :
          x = y + l - e - 0 => x = (y + 1) + (l - 1) - e
    OBVIOUS
  <2>4. CASE message = "init"
    <3>1. FirstInit(w) = 1 /\ exec'[n].written = exec[n].written + 0
      BY <1>2, <2>4 DEF FirstInit
    <3> QED
      BY <1>3, <1>5, <2>1, <2>2, <3>1
  <2>5. CASE message = "output"
    <3>1. FirstInit(w) = 0 /\ exec'[n].written = exec[n].written + 1
      BY <1>2, <2>5 DEF FirstInit
    <3>2. proc[n].cut = "no" => proc[n].wrote = exec[n].written + Len(w) - ends - 0
      BY <2>1, <3>1
    <3>3. ends \in Nat
      BY <1>5
    <3>4. proc[n].cut = "no" => proc[n].wrote = (exec[n].written + 1) + (Len(w) - 1) - ends
      BY <1>3, <1>5, <2>3, <3>2, <3>3
    <3> QED
      BY <1>3, <3>1, <3>4
  <2> QED
    BY <2>4, <2>5
<1>9. \A i \in 1..(Len(wire'[n]) - ends) : wire'[n][i] \in {"init", "output"}
  <2>1. \A i \in 1..(Len(wire'[n]) - ends) : i + 1 \in 1..(Len(w) - ends) /\ i \in 1..(Len(w) - 1)
    BY <1>3, <1>5
  <2>2. \A i \in 1..(Len(w) - ends) : w[i] \in {"init", "output"}
    BY <1>1 DEF Pending
  <2> QED
    BY <1>3, <2>1, <2>2
<1>10. proc[n].cut # "no" => wire'[n][Len(wire'[n])] = proc[n].cut
  BY <1>1, <1>3, <1>5, <1>6 DEF Pending, Ends
<1>11. proc[n].cut = "no" /\ proc[n].at = "exited" =>
         wire'[n][Len(wire'[n]) - 1] = "exit" /\ wire'[n][Len(wire'[n])] = "end"
  BY <1>1, <1>3, <1>5, <1>6 DEF Pending, Ends
<1>12. Len(wire'[n]) >= ends /\ proc'[n] = proc[n] /\ Ends(n)' = ends
  BY <1>2, <1>3, <1>5, <1>6 DEF Ends
<1>13. FirstInit(wire[n])' = 0
  BY <1>7 DEF FirstInit
<1>14. proc[n].cut = "no" =>
         proc[n].wrote = exec'[n].written + Len(wire'[n]) - ends - 0
  BY <1>3, <1>5, <1>8
<1> HIDE DEF ends, w
<1> QED
  BY <1>9, <1>10, <1>11, <1>12, <1>13, <1>14 DEF Pending

\* A stream that has not ended has no end in it, and the process is running.
LEMMA NotEnded ==
  ASSUME ExecTypes, NEW n \in Commands, Pending(n), proc[n].at # "none", ~Ended(n)
  PROVE  Ends(n) = 0 /\ proc[n].cut = "no" /\ proc[n].at = "running"
<1>1. /\ wire[n] \in Seq(Messages) /\ Len(wire[n]) \in Nat /\ DOMAIN wire[n] = 1..Len(wire[n])
      /\ proc[n].cut \in {"no", "end", "broken"} /\ proc[n].at \in {"none", "running", "exited"}
  BY DEF ExecTypes, ProcType
<1>2. \A i \in 1..Len(wire[n]) : wire[n][i] \notin {"end", "broken"}
  BY <1>1 DEF Ended, Range
<1>3. Ends(n) > 0 => Len(wire[n]) \in 1..Len(wire[n])
  BY <1>1, EndsType DEF Pending
<1>4. proc[n].cut = "no"
  BY <1>1, <1>2, <1>3 DEF Pending, Ends
<1>5. proc[n].at # "exited"
  BY <1>2, <1>3, <1>4 DEF Pending, Ends
<1> QED
  BY <1>1, <1>4, <1>5 DEF Ends

\* A stream that has ended while the process runs was cut.
LEMMA EndedRunning ==
  ASSUME ExecTypes, NEW n \in Commands, Pending(n), proc[n].at = "running",
         exec[n].at = "recv", Ended(n)
  PROVE  proc[n].cut # "no"
<1>1. wire[n] \in Seq(Messages) /\ DOMAIN wire[n] = 1..Len(wire[n]) /\ Len(wire[n]) \in Nat
  BY DEF ExecTypes
<1>2. PICK i \in 1..Len(wire[n]) : wire[n][i] \in {"end", "broken"}
  BY <1>1 DEF Ended, Range
<1> QED
  BY <1>1, <1>2 DEF Pending, Ends

\* What the stream holds when messages are added to it.
LEMMA Extended ==
  ASSUME NEW w \in Seq(Messages),
         NEW messages \in {<<"output">>, <<"exit", "end">>, <<"end">>, <<"broken">>}
  PROVE  LET x == w \o messages IN
           /\ Len(x) = Len(w) + Len(messages) /\ Len(w) \in Nat
           /\ \A i \in 1..Len(w) : x[i] = w[i]
           /\ \A i \in 1..Len(messages) : x[Len(w) + i] = messages[i]
           /\ FirstInit(x) = FirstInit(w)
<1> DEFINE x == w \o messages
<1>1. messages \in Seq(Messages) /\ Len(messages) \in {1, 2} /\ messages[1] # "init"
  <2>1. CASE messages = <<"exit", "end">>
    <3>1. /\ <<"exit", "end">> \in Seq(Messages)
          /\ Len(<<"exit", "end">>) = 2 /\ <<"exit", "end">>[1] = "exit"
      BY DEF Messages
    <3> QED
      BY <2>1, <3>1
  <2>2. CASE messages \in {<<"output">>, <<"end">>, <<"broken">>}
    <3>1. \A message \in Messages \ {"init"} :
            /\ <<message>> \in Seq(Messages) /\ Len(<<message>>) = 1
            /\ <<message>>[1] # "init"
      OBVIOUS
    <3>2. {"output", "end", "broken"} \subseteq Messages \ {"init"}
      BY DEF Messages
    <3> QED
      BY <2>2, <3>1, <3>2
  <2> QED
    BY <2>1, <2>2
<1>2. /\ x \in Seq(Messages) /\ Len(x) = Len(w) + Len(messages) /\ Len(w) \in Nat
      /\ \A i \in 1..Len(x) :
           x[i] = IF i <= Len(w) THEN w[i] ELSE messages[i - Len(w)]
  BY <1>1, ConcatProperties
<1>3. /\ \A i \in 1..Len(w) : i \in 1..Len(x) /\ i <= Len(w)
      /\ \A i \in 1..Len(messages) :
           Len(w) + i \in 1..Len(x) /\ ~(Len(w) + i <= Len(w)) /\ (Len(w) + i) - Len(w) = i
  BY <1>1, <1>2
<1>4. /\ \A i \in 1..Len(w) : x[i] = w[i]
      /\ \A i \in 1..Len(messages) : x[Len(w) + i] = messages[i]
  BY <1>2, <1>3
<1>5. FirstInit(x) = FirstInit(w)
  <2>1. CASE w = <<>>
    <3>1. x = messages
      BY <1>1, <2>1
    <3> QED
      BY <1>1, <2>1, <3>1 DEF FirstInit
  <2>2. CASE w # <<>>
    <3>1. 1 \in 1..Len(w)
      BY <2>2, TailElements
    <3>2. Len(x) # 0
      BY <1>1, <1>2
    <3>3. x # <<>> /\ x[1] = w[1]
      BY <1>2, <1>4, <3>1, <3>2, EmptySeq
    <3> HIDE DEF x
    <3> QED
      BY <2>2, <3>3 DEF FirstInit
  <2> QED
    BY <2>1, <2>2
<1> QED
  BY <1>2, <1>4, <1>5

\* What sandboxd adds to the stream keeps it in step with the process.
LEMMA PendingSent ==
  ASSUME ExecTypes, NEW n \in Commands, Pending(n), proc[n].at = "running", ~Ended(n),
         NEW messages \in {<<"output">>, <<"exit", "end">>, <<"end">>, <<"broken">>},
         wire'[n] = wire[n] \o messages, exec'[n] = exec[n],
         \/ /\ messages = <<"output">> /\ proc'[n].wrote = proc[n].wrote + 1
            /\ proc'[n].at = "running" /\ proc'[n].cut = "no"
         \/ /\ messages = <<"exit", "end">> /\ proc'[n].wrote = proc[n].wrote
            /\ proc'[n].at = "exited" /\ proc'[n].cut = "no"
         \/ messages = <<proc'[n].cut>> /\ proc'[n].cut \in {"end", "broken"}
  PROVE  Pending(n)'
<1> DEFINE w == wire[n]
           x == wire'[n]
<1>1. Ends(n) = 0 /\ proc[n].cut = "no"
  BY NotEnded
<1>2. /\ w \in Seq(Messages) /\ Len(x) = Len(w) + Len(messages) /\ Len(w) \in Nat
      /\ \A i \in 1..Len(w) : x[i] = w[i]
      /\ \A i \in 1..Len(messages) : x[Len(w) + i] = messages[i]
      /\ FirstInit(x) = FirstInit(w)
  <2>1. w \in Seq(Messages)
    BY DEF ExecTypes
  <2>2. x = w \o messages
    OBVIOUS
  <2> HIDE DEF w, x
  <2> QED
    BY <2>1, <2>2, Extended
<1>3. /\ \A i \in 1..Len(w) : x[i] \in {"init", "output"}
      /\ proc[n].wrote = exec[n].written + Len(w) - 0 - FirstInit(w)
  <2>1. \A l \in Nat : 1..(l - 0) = 1..l
    OBVIOUS
  <2>2. /\ \A i \in 1..(Len(w) - 0) : w[i] \in {"init", "output"}
        /\ proc[n].wrote = exec[n].written + Len(w) - 0 - FirstInit(w)
    BY <1>1 DEF Pending
  <2> HIDE DEF w
  <2> QED
    BY <1>2, <2>1, <2>2
<1>4. FirstInit(w)' = FirstInit(w) /\ FirstInit(w) \in {0, 1}
  BY <1>2 DEF FirstInit
<1>5. exec[n].written \in Nat /\ proc[n].wrote \in Nat
  BY DEF ExecTypes, ExecType, ProcType
<1> HIDE DEF w, x
<1>6. CASE messages = <<"output">>
  <2>1. Len(x) = Len(w) + 1 /\ x[Len(w) + 1] = "output" /\ Ends(n)' = 0
    BY <1>1, <1>2, <1>6 DEF Ends
  <2>2. \A i \in 1..(Len(x) - 0) : i \in 1..Len(w) \/ i = Len(w) + 1
    BY <1>2, <2>1
  <2>3. proc'[n].wrote = exec[n].written + Len(x) - 0 - FirstInit(w)
    <3>1. \A l, a, b, f \in Nat : b = a + l - 0 - f => b + 1 = a + (l + 1) - 0 - f
      OBVIOUS
    <3>2. proc[n].wrote + 1 = exec[n].written + (Len(w) + 1) - 0 - FirstInit(w)
      <4>1. Len(w) \in Nat /\ FirstInit(w) \in Nat
        BY <1>2, <1>4
      <4> QED
        BY <1>3, <1>5, <3>1, <4>1
    <3>3. proc'[n].wrote = proc[n].wrote + 1
      BY <1>6
    <3> QED
      BY <2>1, <3>2, <3>3
  <2>4. Len(x) >= 0 /\ proc'[n].cut = "no" /\ proc'[n].at # "exited"
    BY <1>2, <1>6, <2>1
  <2> QED
    BY <1>2, <1>3, <1>4, <2>1, <2>2, <2>3, <2>4 DEF Pending, w, x
<1>7. CASE messages = <<"exit", "end">>
  <2>1. /\ Len(x) = Len(w) + 2 /\ x[Len(w) + 1] = "exit" /\ x[Len(w) + 2] = "end"
        /\ proc'[n].at = "exited" /\ proc'[n].cut = "no" /\ proc'[n].wrote = proc[n].wrote
        /\ Ends(n)' = 2
    BY <1>1, <1>2, <1>7 DEF Ends
  <2>2. Len(x) - 2 = Len(w) /\ Len(x) - 1 = Len(w) + 1 /\ Len(x) >= 2
    BY <1>2, <2>1
  <2>3. proc'[n].wrote = exec[n].written + Len(x) - 2 - FirstInit(w)
    <3>1. \A l, a, b, f \in Nat : b = a + l - 0 - f => b = a + (l + 2) - 2 - f
      OBVIOUS
    <3> QED
      BY <1>2, <1>3, <1>4, <1>5, <2>1, <3>1
  <2> QED
    BY <1>2, <1>3, <1>4, <2>1, <2>2, <2>3 DEF Pending, w, x
<1>8. CASE messages = <<proc'[n].cut>> /\ proc'[n].cut \in {"end", "broken"}
  <2>1. Len(x) = Len(w) + 1 /\ x[Len(w) + 1] = proc'[n].cut /\ Ends(n)' = 1
    BY <1>2, <1>8 DEF Ends
  <2>2. Len(x) - 1 = Len(w) /\ Len(x) >= 1
    BY <1>2, <2>1
  <2> QED
    BY <1>2, <1>3, <1>8, <2>1, <2>2 DEF Pending, w, x
<1> QED
  BY <1>6, <1>7, <1>8

\* Exec has returned: nothing is pending, and the result stands.
LEMMA ResultReturned ==
  ASSUME ExecTypes, NEW n \in Commands, NEW result \in {"code", "zero", "error"},
         exec' = Returned(n, result), proc' = proc,
         result = "code" =>
           proc[n].at = "exited" /\ proc[n].cut = "no" /\ exec[n].written = proc[n].wrote,
         result = "zero" => proc[n].cut = "end"
  PROVE  Result(n)' /\ \A k \in Commands \ {n} : exec'[k] = exec[k]
<1>1. exec' = [exec EXCEPT ![n] = [exec[n] EXCEPT !.at = "done", !.result = result]]
  BY DEF Returned
<1>2. /\ exec'[n].at = "done" /\ exec'[n].result = result
      /\ exec'[n].written = exec[n].written
      /\ \A k \in Commands \ {n} : exec'[k] = exec[k]
  BY <1>1 DEF ExecTypes, ExecType
<1> QED
  BY <1>2 DEF Result

\* What sandboxd sends, or does not send any more, leaves the result right.
LEMMA ResultSent ==
  ASSUME ExecTypes, NEW n \in Commands, Result(n), proc[n].at = "running", exec' = exec,
         NEW messages \in {<<"output">>, <<"exit", "end">>, <<"end">>, <<"broken">>},
         Send(n, messages),
         \/ /\ messages = <<"output">> /\ proc'[n].wrote = proc[n].wrote + 1
            /\ proc'[n].at = "running" /\ proc'[n].cut = proc[n].cut
         \/ /\ messages = <<"exit", "end">> /\ proc'[n].wrote = proc[n].wrote
            /\ proc'[n].at = "exited" /\ proc'[n].cut = proc[n].cut
         \/ /\ messages = <<proc'[n].cut>> /\ proc'[n].cut \in {"end", "broken"}
            /\ proc'[n].at # "none" /\ ~Ended(n)
  PROVE  Result(n)' /\ \A k \in Commands \ {n} : wire'[k] = wire[k]
<1>1. \A k \in Commands \ {n} : wire'[k] = wire[k]
  BY DEF Send, ExecTypes
<1>2. exec[n].at \in {"recv", "done"} /\ proc'[n].at # "none"
  BY DEF Result, ExecTypes, ExecType
<1>3. CASE exec[n].at = "done"
  BY <1>1, <1>3 DEF Result, Ended
<1>4. CASE exec[n].at = "recv" /\ ~Ended(n)
  <2>1. wire'[n] = wire[n] \o messages
    BY <1>4 DEF Send, ExecTypes
  <2>2. Pending(n) /\ exec[n].result = "none"
    BY <1>4 DEF Result
  <2>3. proc[n].cut = "no"
    BY <1>4, <2>2, NotEnded
  <2>4. Pending(n)'
    BY <1>4, <2>1, <2>2, <2>3, PendingSent
  <2> QED
    BY <1>1, <1>2, <1>4, <2>2, <2>4 DEF Result
<1>5. CASE exec[n].at = "recv" /\ Ended(n)
  <2>1. wire' = wire /\ proc'[n].cut = proc[n].cut
    BY <1>5 DEF Send
  <2>2. Pending(n) /\ exec[n].result = "none"
    BY <1>5 DEF Result
  <2>3. proc[n].cut # "no"
    BY <1>5, <2>2, EndedRunning
  <2>4. Pending(n)'
    BY <2>1, <2>2, <2>3 DEF Pending, Ends
  <2> QED
    BY <1>1, <1>2, <1>5, <2>2, <2>4 DEF Result
<1> QED
  BY <1>2, <1>3, <1>4, <1>5

LEMMA StepResult == ExecTypes /\ FeedInv /\ ResultInv /\ [Next]_vars => ResultInv'
<1> SUFFICES ASSUME ExecTypes, FeedInv, ResultInv, [Next]_vars PROVE ResultInv'
  OBVIOUS
<1>t. /\ exec \in [Commands -> ExecType] /\ pump \in [Commands -> PumpType]
      /\ proc \in [Commands -> ProcType] /\ wire \in [Commands -> Seq(Messages)]
  BY DEF ExecTypes
<1>r. \A k \in Commands : Result(k)
  BY DEF ResultInv
<1>a. ASSUME NEW n \in Commands, Begin(n) PROVE ResultInv'
  <2>1. /\ exec' = [exec EXCEPT ![n] = [exec[n] EXCEPT !.at = "start"]] /\ exec[n].at = "new"
        /\ proc' = proc /\ wire' = wire
    BY <1>a DEF Begin
  <2>2. /\ exec'[n].at = "start" /\ exec'[n].result = exec[n].result
        /\ exec'[n].written = exec[n].written
        /\ \A k \in Commands \ {n} : exec'[k] = exec[k]
    BY <1>t, <2>1 DEF ExecType
  <2>3. Result(n)'
    BY <1>r, <2>1, <2>2 DEF Result
  <2> QED
    BY <1>r, <2>1, <2>2, <2>3, ResultSame DEF ResultInv
<1>b. ASSUME NEW n \in Commands, Start(n) PROVE ResultInv'
  <2>1. /\ exec' = [exec EXCEPT ![n] = [exec[n] EXCEPT !.at = "recv"]] /\ exec[n].at = "start"
        /\ proc' = [proc EXCEPT ![n] = [proc[n] EXCEPT !.at = "running"]]
        /\ wire' = [wire EXCEPT ![n] = <<"init">>]
    BY <1>b DEF Start
  <2>2. /\ exec'[n].at = "recv" /\ exec'[n].result = exec[n].result
        /\ exec'[n].written = exec[n].written
        /\ proc'[n].at = "running" /\ proc'[n].wrote = proc[n].wrote
        /\ proc'[n].cut = proc[n].cut /\ wire'[n] = <<"init">>
        /\ \A k \in Commands \ {n} :
             exec'[k] = exec[k] /\ proc'[k] = proc[k] /\ wire'[k] = wire[k]
    BY <1>t, <2>1 DEF ExecType, ProcType
  <2>3. /\ proc[n].wrote = 0 /\ proc[n].cut = "no" /\ exec[n].written = 0
        /\ exec[n].result = "none"
    BY <1>r, <2>1 DEF Result
  <2>4. Pending(n)'
    <3>1. Ends(n)' = 0 /\ FirstInit(wire[n])' = 1
      BY <2>2, <2>3 DEF Ends, FirstInit
    <3>2. Len(<<"init">>) = 1 /\ <<"init">>[1] = "init"
      OBVIOUS
    <3> QED
      BY <2>2, <2>3, <3>1, <3>2 DEF Pending
  <2>5. Result(n)'
    BY <2>2, <2>3, <2>4 DEF Result
  <2> QED
    BY <1>r, <2>2, <2>5, ResultSame DEF ResultInv
<1>c. ASSUME NEW n \in Commands, StartFails(n) PROVE ResultInv'
  <2>1. exec' = Returned(n, "error") /\ proc' = proc /\ wire' = wire
    BY <1>c DEF StartFails
  <2>2. Result(n)' /\ \A k \in Commands \ {n} : exec'[k] = exec[k]
    BY <2>1, ResultReturned
  <2> QED
    BY <1>r, <2>1, <2>2, ResultSame DEF ResultInv
<1>d. ASSUME NEW n \in Commands, Recv(n) PROVE ResultInv'
  <2>1. PICK message \in Messages : Next1(n, message)
    BY <1>d DEF Recv, RecvInit, RecvOutput, RecvExit, RecvEnd, RecvError, Messages
  <2>2. /\ exec[n].at = "recv" /\ exec[n].result = "none" /\ proc[n].at # "none"
        /\ wire' = [wire EXCEPT ![n] = Tail(wire[n])] /\ proc' = proc
    BY <1>r, <2>1, HeadOfStream DEF Result, Next1
  <2>3. \A k \in Commands \ {n} : exec'[k] = exec[k] => Result(k)'
    BY <1>r, <1>t, <2>2, ResultSame
  <2>4. ASSUME NEW m \in {"init", "output"}, Next1(n, m), exec'[n].at = "recv",
               exec'[n].result = "none",
               exec'[n].written = exec[n].written + (IF m = "output" THEN 1 ELSE 0)
        PROVE  Result(n)'
    BY <2>2, <2>4, PendingTail DEF Result
  <2>5. CASE RecvInit(n)
    <3>1. exec' = exec /\ Next1(n, "init") /\ exec[n].written \in Nat
      BY <1>t, <2>5 DEF RecvInit, ExecType
    <3>2. Result(n)'
      BY <2>2, <2>4, <3>1
    <3> QED
      BY <2>3, <3>1, <3>2 DEF ResultInv
  <2>6. CASE RecvOutput(n) /\ exec' = [exec EXCEPT ![n].written = @ + 1]
    <3>1. exec' = [exec EXCEPT ![n] = [exec[n] EXCEPT !.written = exec[n].written + 1]]
          /\ Next1(n, "output")
      BY <2>6 DEF RecvOutput
    <3>2. /\ exec'[n].at = "recv" /\ exec'[n].result = "none"
          /\ exec'[n].written = exec[n].written + 1
          /\ \A k \in Commands \ {n} : exec'[k] = exec[k]
      BY <1>t, <2>2, <3>1 DEF ExecType
    <3>3. Result(n)'
      BY <2>4, <3>1, <3>2
    <3> QED
      BY <2>3, <3>2, <3>3 DEF ResultInv
  <2>7. ASSUME NEW result \in {"code", "zero", "error"}, exec' = Returned(n, result),
               result = "code" => Next1(n, "exit"), result = "zero" => Next1(n, "end")
        PROVE  ResultInv'
    <3>1. /\ result = "code" =>
               proc[n].at = "exited" /\ proc[n].cut = "no" /\ exec[n].written = proc[n].wrote
          /\ result = "zero" => proc[n].cut = "end"
      BY <2>7, HeadOfStream
    <3>2. Result(n)' /\ \A k \in Commands \ {n} : exec'[k] = exec[k]
      BY <2>2, <2>7, <3>1, ResultReturned
    <3> QED
      BY <2>3, <3>2 DEF ResultInv
  <2>8. CASE RecvOutput(n) /\ exec' = Returned(n, "error")
    BY <2>7, <2>8
  <2>9. CASE RecvExit(n) \/ RecvEnd(n) \/ RecvError(n)
    BY <2>7, <2>9 DEF RecvExit, RecvEnd, RecvError
  <2> QED
    BY <1>d, <2>5, <2>6, <2>8, <2>9 DEF Recv, RecvOutput
<1>e. ASSUME NEW n \in Commands, PumpSends(n) \/ PumpFails(n) PROVE ResultInv'
  <2>1. /\ exec' = exec /\ wire' = wire /\ proc' \in {proc, Arrived(n)}
        /\ pump[n].at \in {"send", "eof"}
    BY <1>e DEF PumpSends, PumpFails
  <2>2. \A k \in Commands :
          /\ proc'[k].at = proc[k].at /\ proc'[k].wrote = proc[k].wrote
          /\ proc'[k].cut = proc[k].cut
    <3>1. CASE proc' = proc
      BY <3>1
    <3>2. CASE proc' = [proc EXCEPT ![n] =
                          [proc[n] EXCEPT !.in = Append(proc[n].in, Newest(pump[n].took))]]
      BY <1>t, <3>2 DEF ProcType
    <3>3. CASE proc' = [proc EXCEPT ![n] = [proc[n] EXCEPT !.eof = TRUE]]
      BY <1>t, <3>3 DEF ProcType
    <3> QED
      BY <2>1, <3>1, <3>2, <3>3 DEF Arrived
  <2> QED
    BY <1>r, <2>1, <2>2, ResultSame DEF ResultInv
<1>g. ASSUME NEW n \in Commands, ProcWrites(n) PROVE ResultInv'
  <2>1. /\ proc' = [proc EXCEPT ![n] = [proc[n] EXCEPT !.wrote = proc[n].wrote + 1]]
        /\ proc[n].at = "running" /\ exec' = exec /\ Send(n, <<"output">>)
    BY <1>g DEF ProcWrites
  <2>2. /\ proc'[n].at = "running" /\ proc'[n].wrote = proc[n].wrote + 1
        /\ proc'[n].cut = proc[n].cut
        /\ \A k \in Commands \ {n} : proc'[k] = proc[k] /\ wire'[k] = wire[k]
    BY <1>t, <2>1 DEF ProcType, Send
  <2>3. Result(n)'
    BY <1>r, <2>1, <2>2, ResultSent
  <2> QED
    BY <1>r, <2>1, <2>2, <2>3, ResultSame DEF ResultInv
<1>h. ASSUME NEW n \in Commands, ProcExits(n) PROVE ResultInv'
  <2>1. /\ proc' = [proc EXCEPT ![n] = [proc[n] EXCEPT !.at = "exited"]]
        /\ proc[n].at = "running" /\ exec' = exec /\ Send(n, <<"exit", "end">>)
    BY <1>h DEF ProcExits
  <2>2. /\ proc'[n].at = "exited" /\ proc'[n].wrote = proc[n].wrote
        /\ proc'[n].cut = proc[n].cut
        /\ \A k \in Commands \ {n} : proc'[k] = proc[k]
    BY <1>t, <2>1 DEF ProcType
  <2>3. Result(n)' /\ \A k \in Commands \ {n} : wire'[k] = wire[k]
    BY <1>r, <2>1, <2>2, ResultSent
  <2> QED
    BY <1>r, <2>1, <2>2, <2>3, ResultSame DEF ResultInv
<1>i. ASSUME NEW n \in Commands, StreamEnds(n) PROVE ResultInv'
  <2>1. PICK last \in {"end", "broken"}, at \in {"running", "exited"} :
          Send(n, <<last>>) /\ proc' = [proc EXCEPT ![n].cut = last, ![n].at = at]
    BY <1>i DEF StreamEnds
  <2>2. proc' = [proc EXCEPT ![n] = [proc[n] EXCEPT !.cut = last, !.at = at]]
    BY <1>t, <2>1
  <2>3. /\ proc'[n].at = at /\ proc'[n].cut = last
        /\ \A k \in Commands \ {n} : proc'[k] = proc[k]
    BY <1>t, <2>2 DEF ProcType
  <2>4. proc[n].at = "running" /\ ~Ended(n) /\ exec' = exec
    BY <1>i DEF StreamEnds
  <2>5. Result(n)' /\ \A k \in Commands \ {n} : wire'[k] = wire[k]
    BY <1>r, <2>1, <2>3, <2>4, ResultSent
  <2> QED
    BY <1>r, <2>3, <2>4, <2>5, ResultSame DEF ResultInv
<1>j. CASE UNCHANGED <<exec, proc, wire>>
  BY <1>r, <1>j, ResultSame DEF ResultInv
<1>k. ASSUME NEW n \in Commands, PumpReads(n) \/ PumpEnds(n) PROVE ResultInv'
  BY <1>j, <1>k DEF PumpReads, PumpEnds
<1>l. CASE UNCHANGED execVars \/ UNCHANGED vars
  BY <1>j, <1>l DEF execVars, vars
<1>m. ASSUME NEW c \in Callers, Serve(c) PROVE ResultInv'
  BY <1>j, <1>m DEF Serve, execVars
<1>n. ASSUME NEW c \in Others, Request(c) PROVE ResultInv'
  BY <1>j, <1>n DEF Request
<1> QED
  BY <1>a, <1>b, <1>c, <1>d, <1>e, <1>g, <1>h, <1>i, <1>k, <1>l, <1>m, <1>n DEF Next

\* The exit code that Exec returns is that of a process that has ended, after
\* all of its output; the 0 for a stream without one follows an orderly end.
THEOREM ResultsAreTrue == Spec => []ExecResult
<1>1. ResultInv => ExecResult
  BY DEF ResultInv, Result, ExecResult
<1>2. Spec => []ResultInv
  BY InitResult, StepResult, ExecTypesHold, FeedHolds, PTL DEF Spec
<1> QED
  BY <1>1, <1>2, PTL

=============================================================================
