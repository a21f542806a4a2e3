----------------------------- MODULE WorkQueue -----------------------------
(***************************************************************************)
(* The client-go work queue that runWorker and enqueue of                  *)
(* src/provider/main.go call.  It is external code: the record below is    *)
(* what its documentation promises them, one pending entry per key and     *)
(* no key handed to two workers at a time.                                 *)
(***************************************************************************)
EXTENDS Sequences, Naturals

\* An empty queue, as NewTypedRateLimitingQueue returns it.
WqEmpty == [queue |-> <<>>, dirty |-> {}, processing |-> {}]

\* Add: a key that waits is not added again; one that a worker holds is only
\* marked, to be queued when the worker is done with it.
WqAdd(q, k) ==
  [queue      |-> IF k \in q.dirty \cup q.processing
                    THEN q.queue ELSE Append(q.queue, k),
   dirty      |-> q.dirty \cup {k},
   processing |-> q.processing]

\* Get: the first key of a non-empty queue goes to the caller.
WqGet(q) ==
  [queue      |-> Tail(q.queue),
   dirty      |-> q.dirty \ {Head(q.queue)},
   processing |-> q.processing \cup {Head(q.queue)}]

\* Done: a key that was added while it was held is queued again.
WqDone(q, k) ==
  [queue      |-> IF k \in q.dirty THEN Append(q.queue, k) ELSE q.queue,
   dirty      |-> q.dirty,
   processing |-> q.processing \ {k}]

\* The queues over a set of keys.
WqType(K) == [queue : Seq(K), dirty : SUBSET K, processing : SUBSET K]

\* The keys that wait in the queue.
WqWaiting(q) == {q.queue[i] : i \in 1..Len(q.queue)}

\* What Add, Get and Done keep: the queue holds, once each, the dirty keys
\* that no worker holds.
WqOK(q) ==
  /\ \A i, j \in 1..Len(q.queue) : q.queue[i] = q.queue[j] => i = j
  /\ \A i \in 1..Len(q.queue) : q.queue[i] \in q.dirty
  /\ \A i \in 1..Len(q.queue) : q.queue[i] \notin q.processing
  /\ q.dirty \ q.processing \subseteq WqWaiting(q)
=============================================================================
