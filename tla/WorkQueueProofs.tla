-------------------------- MODULE WorkQueueProofs --------------------------
(***************************************************************************)
(* What Add, Get and Done of the work queue keep, for every set of keys.   *)
(***************************************************************************)
EXTENDS WorkQueue, TLAPS

\* The queue of a new provider is well formed.
LEMMA WqEmptyOK == ASSUME NEW K PROVE WqEmpty \in WqType(K) /\ WqOK(WqEmpty)
BY DEF WqEmpty, WqType, WqOK, WqWaiting

\* Appending a key that is not there keeps a sequence free of duplicates.
LEMMA AppendFresh ==
  ASSUME NEW K, NEW q \in Seq(K), NEW k \in K, NEW r, r = Append(q, k),
         \A i, j \in 1..Len(q) : q[i] = q[j] => i = j,
         \A i \in 1..Len(q) : q[i] # k
  PROVE  /\ \A i, j \in 1..Len(r) : r[i] = r[j] => i = j
         /\ {r[i] : i \in 1..Len(r)} = {q[i] : i \in 1..Len(q)} \cup {k}
<1>1. /\ Len(q) \in Nat
      /\ Len(r) = Len(q) + 1
      /\ r[Len(q) + 1] = k
      /\ \A i \in 1..Len(q) : r[i] = q[i]
  OBVIOUS
<1>2. \A i \in 1..Len(r) : i \in 1..Len(q) \/ i = Len(q) + 1
  BY <1>1
<1>3. ASSUME NEW i \in 1..Len(r), NEW j \in 1..Len(r), r[i] = r[j]
      PROVE  i = j
  BY <1>1, <1>2, <1>3
<1>4. \A x \in {r[i] : i \in 1..Len(r)} :
        x \in {q[i] : i \in 1..Len(q)} \cup {k}
  BY <1>1, <1>2
<1>5. \A x \in {q[i] : i \in 1..Len(q)} \cup {k} :
        x \in {r[i] : i \in 1..Len(r)}
  <2>1. \A i \in 1..Len(q) : i \in 1..Len(r) /\ q[i] = r[i]
    BY <1>1
  <2>2. Len(q) + 1 \in 1..Len(r)
    BY <1>1
  <2> QED BY <1>1, <2>1, <2>2
<1> QED BY <1>3, <1>4, <1>5

\* Add keeps the queue free of duplicates and of keys that a worker holds.
LEMMA WqAddOK ==
  ASSUME NEW K, NEW q \in WqType(K), NEW k \in K
  PROVE  /\ WqAdd(q, k) \in WqType(K)
         /\ WqOK(q) => WqOK(WqAdd(q, k))
         /\ WqAdd(q, k).processing = q.processing
<1> DEFINE r == WqAdd(q, k)
<1>1. /\ q.queue \in Seq(K) /\ Len(q.queue) \in Nat
      /\ q.dirty \subseteq K /\ q.processing \subseteq K
  BY DEF WqType
<1>2. /\ r.queue = IF k \in q.dirty \cup q.processing
                     THEN q.queue ELSE Append(q.queue, k)
      /\ r.dirty = q.dirty \cup {k}
      /\ r.processing = q.processing
  BY DEF WqAdd
<1>3. r \in WqType(K)
  BY <1>1 DEF WqAdd, WqType
<1>4. ASSUME WqOK(q) PROVE WqOK(r)
  <2> HIDE DEF r
  <2>1. CASE k \in q.dirty \cup q.processing
    BY <1>1, <1>2, <1>4, <2>1 DEF WqOK, WqWaiting
  <2>2. CASE k \notin q.dirty \cup q.processing
    BY <1>1, <1>2, <1>4, <2>2, AppendFresh DEF WqOK, WqWaiting
  <2> QED BY <2>1, <2>2
<1> QED BY <1>2, <1>3, <1>4

\* Get hands out a key that no other worker holds.
LEMMA WqGetOK ==
  ASSUME NEW K, NEW q \in WqType(K), q.queue # <<>>
  PROVE  /\ WqGet(q) \in WqType(K)
         /\ Head(q.queue) \in K
         /\ WqGet(q).processing = q.processing \cup {Head(q.queue)}
         /\ WqOK(q) => WqOK(WqGet(q)) /\ Head(q.queue) \notin q.processing
<1> DEFINE r == WqGet(q)
           h == Head(q.queue)
<1>1. /\ q.queue \in Seq(K) /\ Len(q.queue) \in Nat /\ Len(q.queue) > 0
      /\ h = q.queue[1] /\ h \in K
  BY DEF WqType
<1>2. /\ r.queue = Tail(q.queue)
      /\ r.dirty = q.dirty \ {h}
      /\ r.processing = q.processing \cup {h}
      /\ r \in WqType(K)
  BY <1>1 DEF WqGet, WqType
<1>3. /\ Len(r.queue) = Len(q.queue) - 1
      /\ \A i \in 1..Len(r.queue) : r.queue[i] = q.queue[i + 1]
  BY <1>1, <1>2
<1>4. ASSUME WqOK(q) PROVE WqOK(r) /\ h \notin q.processing
  <2> HIDE DEF r, h
  <2>1. h \notin q.processing
    BY <1>1, <1>4 DEF WqOK
  <2>2. \A i, j \in 1..Len(r.queue) : r.queue[i] = r.queue[j] => i = j
    BY <1>1, <1>3, <1>4 DEF WqOK
  <2>3. \A i \in 1..Len(r.queue) : r.queue[i] # h
    BY <1>1, <1>3, <1>4 DEF WqOK
  <2>4. \A i \in 1..Len(r.queue) :
           r.queue[i] \in r.dirty /\ r.queue[i] \notin r.processing
    BY <1>1, <1>2, <1>3, <1>4, <2>3 DEF WqOK
  <2>5. ASSUME NEW k \in r.dirty \ r.processing
        PROVE  k \in WqWaiting(r)
    <3>1. PICK i \in 1..Len(q.queue) : q.queue[i] = k
      BY <1>2, <1>4, <2>5 DEF WqOK, WqWaiting
    <3>2. i # 1 /\ i - 1 \in 1..Len(r.queue)
      BY <1>1, <1>2, <1>3, <2>5, <3>1
    <3>3. r.queue[i - 1] = k
      BY <1>3, <3>1, <3>2
    <3> QED BY <3>2, <3>3 DEF WqWaiting
  <2> QED BY <2>1, <2>2, <2>4, <2>5 DEF WqOK
<1> QED BY <1>1, <1>2, <1>4

\* Done returns a key, and queues it again if it was added meanwhile.
LEMMA WqDoneOK ==
  ASSUME NEW K, NEW q \in WqType(K), NEW k \in K
  PROVE  /\ WqDone(q, k) \in WqType(K)
         /\ WqDone(q, k).processing = q.processing \ {k}
         /\ WqOK(q) /\ k \in q.processing => WqOK(WqDone(q, k))
<1> DEFINE r == WqDone(q, k)
<1>1. /\ r.dirty = q.dirty
      /\ r.processing = q.processing \ {k}
      /\ r.queue = IF k \in q.dirty THEN Append(q.queue, k) ELSE q.queue
      /\ r \in WqType(K)
      /\ q.queue \in Seq(K) /\ Len(q.queue) \in Nat
  BY DEF WqDone, WqType
<1>2. ASSUME WqOK(q), k \in q.processing PROVE WqOK(r)
  <2> HIDE DEF r
  <2>1. \A i \in 1..Len(q.queue) : q.queue[i] # k
    BY <1>2 DEF WqOK
  <2>2. CASE k \notin q.dirty
    BY <1>1, <1>2, <2>2 DEF WqOK, WqWaiting
  <2>3. CASE k \in q.dirty
    <3>1. /\ Len(r.queue) = Len(q.queue) + 1
          /\ r.queue[Len(q.queue) + 1] = k
          /\ \A i \in 1..Len(q.queue) : r.queue[i] = q.queue[i]
      BY <1>1, <2>3
    <3>2. \A i, j \in 1..Len(r.queue) : r.queue[i] = r.queue[j] => i = j
      BY <1>1, <1>2, <2>1, <3>1 DEF WqOK
    <3>3. \A i \in 1..Len(r.queue) :
             r.queue[i] \in r.dirty /\ r.queue[i] \notin r.processing
      BY <1>1, <1>2, <2>1, <2>3, <3>1 DEF WqOK
    <3>4. r.dirty \ r.processing \subseteq WqWaiting(r)
      BY <1>1, <1>2, <3>1 DEF WqOK, WqWaiting
    <3> QED BY <3>2, <3>3, <3>4 DEF WqOK
  <2> QED BY <2>2, <2>3
<1> QED BY <1>1, <1>2
=============================================================================
