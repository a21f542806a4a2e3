--------------------------- MODULE WarmPoolProofs ---------------------------
(***************************************************************************)
(* Proofs about WarmPool, for any number of MicroVMs, Sandboxes, filler    *)
(* goroutines and mishaps: the types of its state, the size of the pool,   *)
(* and what it takes to share or to forget a MicroVM.                      *)
(***************************************************************************)
EXTENDS WarmPool, FiniteSetTheorems, SequenceTheorems, TLAPS

-----------------------------------------------------------------------------
(* The invariant. *)

\* The size that the pool never exceeds.
Bound == WarmSize + Cardinality(Fillers) - 1

\* A list of the pool, saved or not: no MicroVM twice, each of them issued,
\* and not too many.
Fit(q, states) ==
  /\ q \in Seq(VMs)
  /\ \A i, j \in 1..Len(q) : q[i] = q[j] => i = j
  /\ Len(q) <= Bound
  /\ \A v \in Range(q) : states[v] # "UNUSED"

Lists ==
  /\ Fit(warmFree, vm) /\ Fit(cm, vm) /\ Fit(main.copy, vm)
  /\ \A f \in Fillers : Fit(fill[f].copy, vm)
  /\ \A s \in Takers : Fit(take[s].copy, vm)

MainType == [at : {"down", "load", "recover", "serve", "drain", "kill", "patch"},
             id : {None}, copy : Seq(VMs)]
FillType == [at : Places, id : VMs \cup {None}, copy : Seq(VMs), first : BOOLEAN]
TakeType == [at : {"want", "save", "patch", "record", "have"},
             id : VMs \cup {None}, copy : Seq(VMs)]
Causes == {"load", "kill", "staleSave", "unsaved", "launch", "lostId", "adopt"}

Types ==
  /\ main \in MainType
  /\ fill \in [Fillers -> FillType]
  /\ take \in [Takers -> TakeType]
  /\ vm \in [VMs -> VmStates]
  /\ pool \in SUBSET VMs
  /\ got \in [Takers -> SUBSET VMs]
  /\ blame \in SUBSET Causes
  /\ left \in 0..Mishaps

\* Who holds an identifier, and that it has been issued.
Holding ==
  /\ \A f \in Fillers : fill[f].at = "wait" <=> fill[f].id # None
  /\ \A f \in Fillers : fill[f].id # None => vm[fill[f].id] # "UNUSED"
  /\ \A s \in Takers : take[s].at = "want" <=> take[s].id = None
  /\ \A s \in Takers : \A v \in got[s] : vm[v] # "UNUSED"

\* Nobody works before the pool is loaded.
Quiet ==
  /\ main.at \in {"down", "load", "recover"} =>
       /\ \A f \in Fillers : fill[f] = NoFiller
       /\ \A s \in Takers : take[s].at \in {"want", "have"}
  /\ main.at \in {"down", "load"} => warmFree = <<>>

\* A MicroVM enters the pool once.
Distinct ==
  /\ \A f, g \in Fillers : f # g /\ fill[f].id = fill[g].id => fill[f].id = None
  /\ \A f \in Fillers : fill[f].id \notin Range(warmFree)
  /\ main.at = "recover" => /\ Range(warmFree) \cap Range(main.copy) = {}
                            /\ Len(warmFree) + Len(main.copy) <= Bound

\* What the pool, or the saved list of a provider that is not up, offers.
Offered(v) ==
  \/ v \in Range(warmFree)
  \/ \E f \in Fillers : fill[f].id = v
  \/ main.at = "recover" /\ v \in Range(main.copy)
  \/ main.at \in {"down", "load"} /\ v \in Range(cm)

\* Unless a death left a stale list, what is offered has not been given, and
\* what was given was given once.
Apart ==
  "staleSave" \notin blame =>
    /\ \A s \in Takers : \A v \in got[s] : ~Offered(v)
    /\ \A s, t \in Takers : s # t => got[s] \cap got[t] = {}

\* Where a live MicroVM of the pool is, or what it was forgotten for.
Remembered(v) ==
  \/ v \in Range(warmFree)
  \/ main.at \in {"recover", "kill"} /\ v \in Range(main.copy)
  \/ \E f \in Fillers : fill[f].id = v
  \/ \E s \in Takers : take[s].id = v
  \/ main.at \in {"down", "load"} /\ v \in Range(cm)
  \/ blame \cap {"load", "kill", "unsaved", "lostId", "adopt"} # {}

Remember == \A v \in pool : vm[v] \in Live => Remembered(v)

PoolInv ==
  /\ Types /\ Lists /\ Holding /\ Quiet /\ Distinct /\ Apart
  /\ OvershootBounded /\ Remember

-----------------------------------------------------------------------------
(* Lists. *)

LEMMA BoundType == Bound \in Nat /\ Cardinality(Fillers) \in Nat \ {0}
<1>1. Cardinality(Fillers) \in Nat /\ Cardinality(Fillers) # 0
  BY FillersAssumption, FS_CardinalityType, FS_EmptySet
<1> QED
  BY <1>1, SizeAssumption DEF Bound

LEMMA RangeOfList ==
  ASSUME NEW q \in Seq(VMs)
  PROVE  /\ Range(q) = {q[i] : i \in 1..Len(q)} /\ Range(q) \subseteq VMs
         /\ Len(q) \in Nat
BY DEF Range

LEMMA EmptyFits ==
  ASSUME NEW states
  PROVE  Fit(<<>>, states) /\ Range(<<>>) = {} /\ Len(<<>>) = 0
<1>1. <<>> \in Seq(VMs) /\ Len(<<>>) = 0
  OBVIOUS
<1>2. 1..0 = {}
  OBVIOUS
<1>3. Range(<<>>) = {}
  BY <1>1, <1>2, RangeOfList
<1> QED
  BY <1>1, <1>2, <1>3, BoundType DEF Fit

\* A list stays fit while no identifier goes back to the service.
LEMMA FitStays ==
  ASSUME NEW q, NEW old, NEW new, Fit(q, old),
         \A v \in VMs : old[v] # "UNUSED" => new[v] # "UNUSED"
  PROVE  Fit(q, new)
BY RangeOfList DEF Fit

LEMMA FitAppend ==
  ASSUME NEW q, NEW states, Fit(q, states), NEW v \in VMs, v \notin Range(q),
         states[v] # "UNUSED", Len(q) + 1 <= Bound
  PROVE  /\ Fit(Append(q, v), states) /\ Range(Append(q, v)) = Range(q) \cup {v}
         /\ Len(Append(q, v)) = Len(q) + 1 /\ Len(q) \in Nat
<1> DEFINE x == Append(q, v)
<1>1. q \in Seq(VMs)
  BY DEF Fit
<1>2. /\ x \in Seq(VMs) /\ Len(x) = Len(q) + 1 /\ Len(q) \in Nat
      /\ \A i \in 1..Len(q) : x[i] = q[i]
      /\ x[Len(q) + 1] = v
  BY <1>1, AppendProperties
<1>3. 1..Len(x) = (1..Len(q)) \cup {Len(q) + 1}
  BY <1>2
<1>4. \A i \in 1..Len(q) : q[i] # v
  BY <1>1, RangeOfList
<1> HIDE DEF x
<1>5. Range(x) = Range(q) \cup {v}
  BY <1>1, <1>2, <1>3, RangeOfList
<1>6. ASSUME NEW i \in 1..Len(x), NEW j \in 1..Len(x), x[i] = x[j] PROVE i = j
  BY <1>2, <1>3, <1>4, <1>6 DEF Fit
<1>7. Fit(x, states)
  BY <1>2, <1>5, <1>6 DEF Fit
<1> QED
  BY <1>2, <1>5, <1>7 DEF x

LEMMA FitTail ==
  ASSUME NEW q, NEW states, Fit(q, states), q # <<>>
  PROVE  /\ Fit(Tail(q), states) /\ Range(q) = {Head(q)} \cup Range(Tail(q))
         /\ Head(q) \in VMs /\ Head(q) \notin Range(Tail(q)) /\ states[Head(q)] # "UNUSED"
         /\ Len(Tail(q)) = Len(q) - 1 /\ Len(q) \in Nat \ {0}
<1> DEFINE x == Tail(q)
<1>1. q \in Seq(VMs)
  BY DEF Fit
<1>2. /\ x \in Seq(VMs) /\ Len(x) = Len(q) - 1 /\ Len(q) \in Nat /\ Len(q) > 0
      /\ Head(q) = q[1] /\ Head(q) \in VMs
      /\ \A i \in 1..Len(x) : x[i] = q[i + 1]
  BY <1>1, EmptySeq, LenProperties, HeadTailProperties
<1>3. /\ \A i \in 1..Len(x) : i + 1 \in 1..Len(q) /\ i + 1 # 1
      /\ \A i \in 1..Len(q) : i = 1 \/ (i - 1 \in 1..Len(x) /\ (i - 1) + 1 = i)
      /\ 1 \in 1..Len(q)
  BY <1>2
<1> HIDE DEF x
<1>4. Range(q) = {Head(q)} \cup Range(x)
  <2>1. Range(q) \subseteq {Head(q)} \cup Range(x)
    <3>1. ASSUME NEW i \in 1..Len(q) PROVE q[i] = Head(q) \/ \E j \in 1..Len(x) : q[i] = x[j]
      BY <1>2, <1>3
    <3>2. \A j \in 1..Len(x) : x[j] \in Range(x)
      BY <1>2, RangeOfList
    <3> QED
      BY <1>1, <3>1, <3>2, RangeOfList
  <2>2. {Head(q)} \cup Range(x) \subseteq Range(q)
    BY <1>1, <1>2, <1>3, RangeOfList
  <2> QED
    BY <2>1, <2>2
<1>5. Head(q) \notin Range(x)
  BY <1>1, <1>2, <1>3, RangeOfList DEF Fit
<1>6. ASSUME NEW i \in 1..Len(x), NEW j \in 1..Len(x), x[i] = x[j] PROVE i = j
  <2>1. i + 1 = j + 1
    BY <1>2, <1>3, <1>6 DEF Fit
  <2> QED
    BY <1>2, <2>1
<1>7. Len(x) <= Bound
  <2>1. Len(q) <= Bound
    BY DEF Fit
  <2> QED
    BY <1>2, <2>1, BoundType
<1>8. Fit(x, states) /\ states[Head(q)] # "UNUSED"
  BY <1>2, <1>4, <1>6, <1>7 DEF Fit
<1> QED
  BY <1>2, <1>4, <1>5, <1>8 DEF x

LEMMA FitFront ==
  ASSUME NEW q, NEW states, Fit(q, states), q # <<>>
  PROVE  LET x == SubSeq(q, 1, Len(q) - 1)
             v == q[Len(q)] IN
         /\ Fit(x, states) /\ Range(q) = {v} \cup Range(x)
         /\ v \in VMs /\ v \notin Range(x) /\ states[v] # "UNUSED"
         /\ Len(x) = Len(q) - 1 /\ Len(q) \in Nat \ {0}
<1> DEFINE x == SubSeq(q, 1, Len(q) - 1)
           v == q[Len(q)]
<1>1. q \in Seq(VMs)
  BY DEF Fit
<1>2. Len(q) \in Nat /\ Len(q) > 0
  BY <1>1, EmptySeq, LenProperties
<1>3. /\ x \in Seq(VMs) /\ Len(x) = Len(q) - 1
      /\ \A i \in 1..Len(x) : x[i] = q[i]
  <2> DEFINE l == Len(q) - 1
  <2>1. l \in Nat /\ \A i \in 1..l : i \in 1..Len(q)
    BY <1>2
  <2> HIDE DEF l
  <2>2. l - 1 + 1 = l /\ (1 <= l \/ l = 0) /\ \A i \in 1..l : 1 + i - 1 = i
    BY <2>1
  <2>3. \A i \in 1..l : q[i] \in VMs
    BY <1>1, <2>1, ElementOfSeq
  <2>4. /\ SubSeq(q, 1, l) \in Seq(VMs)
        /\ Len(SubSeq(q, 1, l)) = IF 1 <= l THEN l - 1 + 1 ELSE 0
        /\ \A i \in 1..(l - 1 + 1) : SubSeq(q, 1, l)[i] = q[1 + i - 1]
    BY <2>1, <2>3, SubSeqProperties
  <2>5. /\ Len(SubSeq(q, 1, l)) = l
        /\ \A i \in 1..l : SubSeq(q, 1, l)[i] = q[i]
    BY <2>1, <2>4, <2>2
  <2> QED
    BY <2>4, <2>5 DEF l
<1>4. /\ \A i \in 1..Len(x) : i \in 1..Len(q) /\ i # Len(q)
      /\ \A i \in 1..Len(q) : i = Len(q) \/ i \in 1..Len(x)
      /\ Len(q) \in 1..Len(q)
  BY <1>2, <1>3
<1>5. v \in VMs
  BY <1>1, <1>4
<1> HIDE DEF x, v
<1>6. Range(q) = {v} \cup Range(x)
  <2>1. Range(q) \subseteq {v} \cup Range(x)
    <3>1. ASSUME NEW i \in 1..Len(q) PROVE q[i] = v \/ \E j \in 1..Len(x) : q[i] = x[j]
      BY <1>3, <1>4 DEF v
    <3>2. \A j \in 1..Len(x) : x[j] \in Range(x)
      BY <1>3, RangeOfList
    <3> QED
      BY <1>1, <3>1, <3>2, RangeOfList
  <2>2. {v} \cup Range(x) \subseteq Range(q)
    <3>1. \A j \in 1..Len(x) : j \in 1..Len(q) /\ x[j] = q[j]
      BY <1>3, <1>4
    <3>2. \A j \in 1..Len(q) : q[j] \in Range(q)
      BY <1>1, RangeOfList
    <3>3. Range(x) = {x[j] : j \in 1..Len(x)}
      BY <1>3, RangeOfList
    <3> QED
      BY <1>4, <3>1, <3>2, <3>3 DEF v
  <2> QED
    BY <2>1, <2>2
<1>7. v \notin Range(x)
  BY <1>3, <1>4, RangeOfList DEF Fit, v
<1>8. ASSUME NEW i \in 1..Len(x), NEW j \in 1..Len(x), x[i] = x[j] PROVE i = j
  BY <1>3, <1>4, <1>8 DEF Fit
<1>9. Len(x) <= Bound
  <2>1. Len(q) <= Bound
    BY DEF Fit
  <2> QED
    BY <1>2, <1>3, <2>1, BoundType
<1>10. Fit(x, states) /\ states[v] # "UNUSED"
  BY <1>3, <1>6, <1>8, <1>9 DEF Fit
<1> QED
  BY <1>2, <1>3, <1>5, <1>6, <1>7, <1>10 DEF x, v

-----------------------------------------------------------------------------
(* Goroutines that launch. *)

LEMMA LaunchingCount ==
  ASSUME NEW f \in Fillers, NEW r, fill \in [Fillers -> FillType],
         fill' = [fill EXCEPT ![f] = r]
  PROVE  /\ Cardinality(Launching) \in Nat /\ Cardinality(Launching)' \in Nat
         /\ f \in Launching \/ r.at \notin {"run", "wait"} =>
              Cardinality(Launching)' <= Cardinality(Launching)
         /\ f \in Launching /\ r.at \notin {"run", "wait"} =>
              Cardinality(Launching)' = Cardinality(Launching) - 1
         /\ Cardinality(Launching)' <= Cardinality(Fillers)
<1>1. Launching \subseteq Fillers /\ Launching' \subseteq Fillers
  BY DEF Launching
<1>2. IsFiniteSet(Launching) /\ Cardinality(Launching) \in Nat
  BY <1>1, FillersAssumption, FS_Subset, FS_CardinalityType
<1>3. Cardinality(Launching') <= Cardinality(Fillers)
  BY <1>1, FillersAssumption, FS_Subset
<1>4. /\ \A g \in Fillers \ {f} : fill'[g] = fill[g]
      /\ fill'[f] = r
  OBVIOUS
<1>5. Launching' = IF r.at \in {"run", "wait"} THEN Launching \cup {f} ELSE Launching \ {f}
  BY <1>4 DEF Launching
<1>6. /\ Cardinality(Launching \cup {f}) =
           IF f \in Launching THEN Cardinality(Launching) ELSE Cardinality(Launching) + 1
      /\ Cardinality(Launching \ {f}) =
           IF f \in Launching THEN Cardinality(Launching) - 1 ELSE Cardinality(Launching)
  BY <1>2, FS_AddElement, FS_RemoveElement
<1>7. Cardinality(Launching)' = Cardinality(Launching')
  OBVIOUS
<1>8. \A c \in Nat : c - 1 <= c /\ c <= c
  OBVIOUS
<1>9. Cardinality(Launching') \in Nat
  BY <1>1, FillersAssumption, FS_Subset, FS_CardinalityType
<1> QED
  BY <1>2, <1>3, <1>5, <1>6, <1>7, <1>8, <1>9

LEMMA NobodyLaunches ==
  ASSUME \A f \in Fillers : fill[f].at \notin {"run", "wait"}
  PROVE  Cardinality(Launching) = 0
BY FS_EmptySet DEF Launching

LEMMA OvershootFrom ==
  /\ \A l, m, c, d \in Nat :
       l + c <= WarmSize + Cardinality(Fillers) - 1 /\ d <= c /\ m <= l =>
         m + d <= WarmSize + Cardinality(Fillers) - 1
  /\ \A l, m, c, d \in Nat :
       l + c <= WarmSize + Cardinality(Fillers) - 1 /\ d = c - 1 /\ m = l + 1 =>
         m + d <= WarmSize + Cardinality(Fillers) - 1
  /\ \A l, d \in Nat :
       l < WarmSize /\ d <= Cardinality(Fillers) =>
         l + d <= WarmSize + Cardinality(Fillers) - 1
BY BoundType, SizeAssumption

LEMMA OvershootSame ==
  ASSUME OvershootBounded, fill' = fill, Len(warmFree') = Len(warmFree)
  PROVE  OvershootBounded'
BY DEF OvershootBounded, Launching

\* The lists stay fit when identifiers are issued.
LEMMA ListsStay ==
  ASSUME Lists, \A v \in VMs : vm[v] # "UNUSED" => vm'[v] # "UNUSED"
  PROVE  /\ Fit(warmFree, vm') /\ Fit(cm, vm') /\ Fit(main.copy, vm')
         /\ \A f \in Fillers : Fit(fill[f].copy, vm')
         /\ \A s \in Takers : Fit(take[s].copy, vm')
BY FitStays DEF Lists

LEMMA MishapLeft ==
  ASSUME left \in 0..Mishaps, Mishap
  PROVE  left' \in 0..Mishaps
BY MishapsAssumption DEF Mishap

LEMMA FitIsList == \A q, states : Fit(q, states) => q \in Seq(VMs)
BY DEF Fit

-----------------------------------------------------------------------------
(* The service. *)

LEMMA ServiceStep ==
  ASSUME PoolInv, UNCHANGED <<warmFree, cm, main, fill, take, pool, got, blame>>,
         left' \in 0..Mishaps, vm' \in [VMs -> VmStates],
         \A v \in VMs : /\ vm[v] # "UNUSED" => vm'[v] # "UNUSED"
                        /\ vm'[v] \in Live => vm[v] \in Live
  PROVE  PoolInv'
<1> USE DEF PoolInv
<1>1. Types'
  BY DEF Types
<1>2. Lists'
  BY ListsStay DEF Lists
<1>3. Holding'
  BY DEF Holding, Types, FillType
<1>4. Quiet' /\ Distinct' /\ Apart'
  BY DEF Quiet, Distinct, Apart, Offered
<1>5. OvershootBounded'
  BY DEF OvershootBounded, Launching
<1>6. Remember'
  BY DEF Remember, Remembered, Types
<1> QED
  BY <1>1, <1>2, <1>3, <1>4, <1>5, <1>6

LEMMA VmSteps ==
  ASSUME PoolInv, NEW v \in VMs, VmProgress(v) \/ VmDrift(v)
  PROVE  PoolInv'
<1>t. vm \in [VMs -> VmStates] /\ left \in 0..Mishaps
  BY DEF PoolInv, Types
<1>1. CASE VmProgress(v)
  <2>1. vm' = [vm EXCEPT ![v] = Progress(vm[v])] /\ Progress(vm[v]) # vm[v]
    BY <1>1 DEF VmProgress
  <2>2. /\ vm[v] # "UNUSED" /\ vm[v] \in Live
        /\ Progress(vm[v]) \in VmStates \ {"UNUSED"}
    BY <1>t, <2>1 DEF Progress, VmStates, Live, Dead
  <2>3. /\ vm' \in [VMs -> VmStates]
        /\ \A u \in VMs : /\ vm[u] # "UNUSED" => vm'[u] # "UNUSED"
                          /\ vm'[u] \in Live => vm[u] \in Live
    BY <1>t, <2>1, <2>2
  <2> QED
    BY <1>1, <1>t, <2>3, ServiceStep DEF VmProgress, poolVars, histVars
<1>2. CASE VmDrift(v)
  <2>1. PICK st \in Drift(vm[v]) : vm' = [vm EXCEPT ![v] = st]
    BY <1>2 DEF VmDrift
  <2>2. /\ vm[v] # "UNUSED" /\ vm[v] \in Live /\ st \in VmStates \ {"UNUSED"}
    BY <1>t, <2>1 DEF Drift, VmStates, Live, Dead
  <2>3. /\ vm' \in [VMs -> VmStates]
        /\ \A u \in VMs : /\ vm[u] # "UNUSED" => vm'[u] # "UNUSED"
                          /\ vm'[u] \in Live => vm[u] \in Live
    BY <1>t, <2>1, <2>2
  <2>4. left' \in 0..Mishaps
    BY <1>2, <1>t, MishapLeft DEF VmDrift
  <2> QED
    BY <1>2, <2>3, <2>4, ServiceStep DEF VmDrift, poolVars
<1> QED
  BY <1>1, <1>2

-----------------------------------------------------------------------------
(* ensureWarmPool. *)

LEMMA FillerWorks ==
  ASSUME PoolInv, NEW f \in Fillers, fill[f].at # "none"
  PROVE  main.at \notin {"down", "load", "recover"}
BY DEF PoolInv, Quiet, NoFiller

\* A goroutine moves on and holds no identifier before or after.
LEMMA FillMoves ==
  ASSUME PoolInv, NEW f \in Fillers, NEW r \in FillType, fill[f].at # "none",
         fill' = [fill EXCEPT ![f] = r], fill[f].id = None, r.id = None, r.at # "wait",
         Fit(r.copy, vm), Fit(cm', vm), UNCHANGED <<warmFree, main, take, vm, pool, got>>,
         blame' \in {blame, blame \cup {"launch"}}, left' \in 0..Mishaps,
         r.at = "run" => f \in Launching \/ Len(warmFree) < WarmSize
  PROVE  PoolInv'
<1> USE DEF PoolInv
<1>0. /\ main.at \notin {"down", "load", "recover"}
      /\ fill \in [Fillers -> FillType] /\ blame \in SUBSET Causes
  BY FillerWorks DEF Types
<1>1. /\ fill'[f] = r /\ \A g \in Fillers \ {f} : fill'[g] = fill[g]
      /\ \A g \in Fillers : fill'[g].id = fill[g].id
      /\ fill' \in [Fillers -> FillType]
  BY <1>0
<1>2. Types'
  BY <1>0, <1>1 DEF Types, Causes
<1>3. Lists'
  BY <1>1 DEF Lists
<1>4. Holding'
  BY <1>1 DEF Holding
<1>5. Quiet'
  BY <1>0 DEF Quiet
<1>6. Distinct'
  BY <1>0, <1>1 DEF Distinct
<1>7. Apart'
  <2>1. \A v : Offered(v)' => Offered(v)
    BY <1>0, <1>1 DEF Offered
  <2>2. "staleSave" \in blame => "staleSave" \in blame'
    OBVIOUS
  <2> QED
    BY <2>1, <2>2 DEF Apart
<1>8. OvershootBounded'
  <2>1. Len(warmFree) \in Nat
    BY DEF Lists, Fit
  <2>2. CASE f \in Launching \/ r.at # "run"
    <3>1. /\ Cardinality(Launching)' \in Nat /\ Cardinality(Launching) \in Nat
          /\ Cardinality(Launching)' <= Cardinality(Launching)
      BY <1>0, <2>2, LaunchingCount
    <3> QED
      BY <2>1, <3>1, OvershootFrom DEF OvershootBounded
  <2>3. CASE f \notin Launching /\ r.at = "run"
    <3>1. /\ Cardinality(Launching)' \in Nat
          /\ Cardinality(Launching)' <= Cardinality(Fillers)
      BY <1>0, LaunchingCount
    <3> QED
      BY <2>1, <2>3, <3>1, OvershootFrom DEF OvershootBounded
  <2> QED
    BY <2>2, <2>3
<1>9. Remember'
  <2>1. \A v \in VMs : Remembered(v) => Remembered(v)'
    BY <1>0, <1>1 DEF Remembered
  <2> QED
    BY <2>1 DEF Remember, Types
<1> QED
  BY <1>2, <1>3, <1>4, <1>5, <1>6, <1>7, <1>8, <1>9

\* A new MicroVM, whose identifier the goroutine gets, or does not.
LEMMA Launches ==
  ASSUME PoolInv, NEW f \in Fillers, NEW v \in VMs, vm[v] = "UNUSED", fill[f].at = "run",
         vm' = [vm EXCEPT ![v] = "PENDING"], pool' = pool \cup {v},
         UNCHANGED <<warmFree, cm, main, take, got>>, left' \in 0..Mishaps,
         NEW r \in FillType, fill' = [fill EXCEPT ![f] = r],
         \/ r.at = "wait" /\ r.id = v /\ r.copy = fill[f].copy /\ blame' = blame
         \/ r = NoFiller /\ blame' = blame \cup {"launch", "lostId"}
  PROVE  PoolInv'
<1> USE DEF PoolInv
<1>0. /\ main.at \notin {"down", "load", "recover"}
      /\ fill \in [Fillers -> FillType] /\ blame \in SUBSET Causes
      /\ vm \in [VMs -> VmStates] /\ v # None
  BY FillerWorks, NoneAssumption DEF Types
<1>1. \/ r.at = "wait" /\ r.id = v /\ r.copy = fill[f].copy
      \/ r = NoFiller /\ "lostId" \in blame'
  OBVIOUS
<1>2. fill'[f] = r /\ (\A g \in Fillers \ {f} : fill'[g] = fill[g]) /\ fill[f].id = None
      /\ fill' \in [Fillers -> FillType]
  BY <1>0, <1>1 DEF Holding
<1>3. /\ vm'[v] = "PENDING" /\ \A u \in VMs \ {v} : vm'[u] = vm[u]
      /\ \A u \in VMs : vm[u] # "UNUSED" => vm'[u] # "UNUSED"
  BY <1>0
<1>4. r.copy = fill[f].copy \/ r.copy = <<>>
  BY <1>1 DEF NoFiller
<1>5. v \notin Range(warmFree) /\ (\A g \in Fillers : fill[g].id # v)
      /\ (\A s \in Takers : v \notin got[s])
  BY <1>0 DEF Lists, Fit, Holding
<1>6. Types'
  BY <1>0, <1>2, <1>3 DEF Types, Causes, VmStates
<1>7. Lists'
  BY <1>2, <1>3, <1>4, ListsStay, EmptyFits DEF Lists
<1>8. Holding'
  BY <1>0, <1>1, <1>2, <1>3 DEF Holding, Types, FillType, NoFiller
<1>9. Quiet'
  BY <1>0 DEF Quiet
<1>10. Distinct'
  BY <1>0, <1>1, <1>2, <1>5 DEF Distinct, NoFiller
<1>11. Apart'
  <2>1. \A u : Offered(u)' => Offered(u) \/ u = v \/ u = None
    BY <1>0, <1>1, <1>2 DEF Offered, NoFiller
  <2>2. \A s \in Takers : None \notin got[s]
    BY NoneAssumption DEF Types
  <2> QED
    BY <1>5, <2>1, <2>2 DEF Apart
<1>12. OvershootBounded'
  <2>1. Len(warmFree) \in Nat
    BY DEF Lists, Fit
  <2>3. f \in Launching
    BY DEF Launching
  <2>2. /\ Cardinality(Launching)' \in Nat /\ Cardinality(Launching) \in Nat
        /\ Cardinality(Launching)' <= Cardinality(Launching)
    BY <1>0, <2>3, LaunchingCount
  <2>4. Len(warmFree) + Cardinality(Launching) <= WarmSize + Cardinality(Fillers) - 1
    BY DEF OvershootBounded
  <2>5. PICK d \in Nat : d = Cardinality(Launching)'
    BY <2>2
  <2> HIDE DEF PoolInv
  <2>6. Len(warmFree) + d <= WarmSize + Cardinality(Fillers) - 1
    BY <2>1, <2>2, <2>4, <2>5, OvershootFrom
  <2> QED
    BY <2>5, <2>6 DEF OvershootBounded
<1>13. Remember'
  <2>1. Remembered(v)'
    BY <1>1, <1>2 DEF Remembered
  <2>2. \A u \in VMs : Remembered(u) => Remembered(u)'
    BY <1>0, <1>2, NoneAssumption DEF Remembered
  <2> QED
    BY <1>3, <2>1, <2>2 DEF Remember, Types
<1> QED
  BY <1>6, <1>7, <1>8, <1>9, <1>10, <1>11, <1>12, <1>13

LEMMA Appends ==
  ASSUME PoolInv, NEW f \in Fillers, AppendFree(f)
  PROVE  PoolInv'
<1> USE DEF PoolInv
<1> DEFINE v == fill[f].id
           r == [fill[f] EXCEPT !.at = "save", !.id = None]
<1>0. /\ fill[f].at = "wait" /\ warmFree' = Append(warmFree, v)
      /\ UNCHANGED <<cm, main, take, vm, pool, got, blame, left>>
      /\ fill' = [fill EXCEPT ![f].at = "save", ![f].id = None]
  BY DEF AppendFree, awsVars, histVars
<1>1. /\ main.at \notin {"down", "load", "recover"}
      /\ fill \in [Fillers -> FillType]
  BY <1>0, FillerWorks DEF Types
<1>2. /\ r \in FillType /\ r.at = "save" /\ r.id = None /\ r.copy = fill[f].copy
      /\ fill' = [fill EXCEPT ![f] = r]
  BY <1>0, <1>1 DEF FillType, Places
<1>3. v \in VMs /\ v # None /\ vm[v] # "UNUSED" /\ v \notin Range(warmFree)
  BY <1>0, <1>1 DEF Holding, Distinct, FillType
<1> HIDE DEF r, v
<1>4. fill'[f] = r /\ (\A g \in Fillers \ {f} : fill'[g] = fill[g] /\ fill[g].id # v)
      /\ fill' \in [Fillers -> FillType] /\ fill[f].id = v
  BY <1>1, <1>2, <1>3 DEF Distinct, v
<1>5. Len(warmFree) + 1 <= Bound /\ OvershootBounded'
  <2>1. Len(warmFree) \in Nat
    BY DEF Lists, Fit
  <2>2. f \in Launching
    BY <1>0 DEF Launching
  <2>3. /\ Cardinality(Launching)' \in Nat /\ Cardinality(Launching) \in Nat
        /\ Cardinality(Launching)' = Cardinality(Launching) - 1
    BY <1>1, <1>2, <2>2, LaunchingCount
  <2>4. Len(warmFree) + Cardinality(Launching) <= Bound
    BY DEF OvershootBounded, Bound
  <2>5. \A l, c, d, b \in Nat : l + c <= b /\ d = c - 1 => l + 1 <= b /\ (l + 1) + d <= b
    OBVIOUS
  <2>6. Len(warmFree) + 1 <= Bound /\ (Len(warmFree) + 1) + Cardinality(Launching)' <= Bound
    BY <2>1, <2>3, <2>4, <2>5, BoundType
  <2>7. Len(warmFree') = Len(warmFree) + 1
    BY <1>0, <1>3, <2>6, FitAppend DEF Lists
  <2>8. OvershootBounded' = (Len(warmFree') + Cardinality(Launching)' <= Bound)
    BY DEF OvershootBounded, Bound
  <2> QED
    BY <2>6, <2>7, <2>8
<1>6. Fit(warmFree', vm) /\ Range(warmFree') = Range(warmFree) \cup {v}
  BY <1>0, <1>3, <1>5, FitAppend DEF Lists
<1>7. Types'
  BY <1>0, <1>4 DEF Types
<1>8. Lists'
  BY <1>0, <1>2, <1>4, <1>6 DEF Lists
<1>9. Holding'
  BY <1>0, <1>2, <1>4 DEF Holding
<1>10. Quiet'
  BY <1>0, <1>1 DEF Quiet
<1>11. Distinct'
  <2>1. None \notin Range(warmFree')
    BY <1>6, <1>3, NoneAssumption, RangeOfList, FitIsList DEF Lists
  <2>2. \A g \in Fillers : fill'[g].id \notin Range(warmFree')
    BY <1>2, <1>4, <1>6, <2>1 DEF Distinct
  <2>3. \A g, h \in Fillers : g # h /\ fill'[g].id = fill'[h].id => fill'[g].id = None
    BY <1>2, <1>4 DEF Distinct
  <2>4. main'.at # "recover"
    BY <1>0, <1>1
  <2> QED
    BY <2>2, <2>3, <2>4 DEF Distinct
<1>12. Apart'
  <2>1. \A u : Offered(u)' => Offered(u) \/ u = None
    BY <1>0, <1>1, <1>2, <1>4, <1>6 DEF Offered
  <2>2. \A s \in Takers : None \notin got[s]
    BY NoneAssumption DEF Types
  <2> QED
    BY <1>0, <2>1, <2>2 DEF Apart
<1>13. Remember'
  <2>1. \A u \in VMs : Remembered(u) => Remembered(u)'
    BY <1>0, <1>4, <1>6 DEF Remembered
  <2> QED
    BY <1>0, <2>1 DEF Remember, Types
<1> QED
  BY <1>5, <1>7, <1>8, <1>9, <1>10, <1>11, <1>12, <1>13

LEMMA FillerFits ==
  ASSUME PoolInv
  PROVE  /\ NoFiller \in FillType /\ NoFiller.id = None /\ NoFiller.at = "none"
         /\ \A first \in BOOLEAN :
              /\ NewFiller(first) \in FillType /\ NewFiller(first).id = None
              /\ NewFiller(first).at = "check" /\ NewFiller(first).copy = <<>>
         /\ NoFiller.copy = <<>>
BY EmptyFits, FitIsList DEF NoFiller, NewFiller, FillType, Places

LEMMA PatchFits ==
  ASSUME PoolInv, NEW copy, Fit(copy, vm), Patch(copy)
  PROVE  Fit(cm', vm) /\ left' \in 0..Mishaps
BY MishapLeft DEF Patch, PoolInv, Lists, Types

LEMMA FillSteps ==
  ASSUME PoolInv, NEW f \in Fillers, Fill(f) \/ LaunchFails(f)
  PROVE  PoolInv'
<1> USE FillerFits
<1>t. /\ fill[f] \in FillType /\ fill \in [Fillers -> FillType] /\ left \in 0..Mishaps
      /\ Fit(fill[f].copy, vm) /\ Fit(warmFree, vm) /\ Fit(cm, vm)
      /\ (fill[f].at # "wait" => fill[f].id = None)
  BY DEF PoolInv, Types, Lists, Holding
<1>1. CASE Check(f)
  <2>1. PICK place \in {"none", "run"} :
          /\ Move(f, place) /\ (place = "run" => ~(Len(warmFree) >= WarmSize))
    BY <1>1 DEF Check
  <2> DEFINE r == [fill[f] EXCEPT !.at = place]
  <2>2. /\ fill' = [fill EXCEPT ![f] = r] /\ r \in FillType /\ r.copy = fill[f].copy
        /\ r.id = fill[f].id /\ r.at = place
    BY <1>t, <2>1 DEF Move, FillType, Places
  <2>3. r.at = "run" => Len(warmFree) < WarmSize
    <3>1. Len(warmFree) \in Nat
      BY <1>t DEF Fit
    <3> QED
      BY <2>1, <2>2, <3>1, SizeAssumption
  <2> HIDE DEF r
  <2> QED
    BY <1>t, <1>1, <2>2, <2>3, FillMoves DEF Check, poolVars, awsVars, histVars
<1>2. CASE Launch(f)
  <2>1. PICK v \in VMs :
          /\ vm[v] = "UNUSED" /\ vm' = [vm EXCEPT ![v] = "PENDING"] /\ pool' = pool \cup {v}
          /\ fill' = [fill EXCEPT ![f].at = "wait", ![f].id = v]
    BY <1>2 DEF Launch
  <2> DEFINE r == [fill[f] EXCEPT !.at = "wait", !.id = v]
  <2>2. /\ fill' = [fill EXCEPT ![f] = r] /\ r \in FillType /\ r.copy = fill[f].copy
        /\ r.id = v /\ r.at = "wait"
    BY <1>t, <2>1 DEF FillType, Places
  <2> HIDE DEF r
  <2>3. /\ fill[f].at = "run" /\ UNCHANGED <<warmFree, cm, main, take, got>>
        /\ left' \in 0..Mishaps /\ blame' = blame
    BY <1>t, <1>2 DEF Launch, poolVars, histVars
  <2> QED
    BY <2>1, <2>2, <2>3, Launches
<1>3. CASE LaunchRefused(f)
  BY <1>t, <1>3, FillMoves, EmptyFits DEF LaunchRefused, poolVars, awsVars, histVars
<1>4. CASE LaunchFails(f)
  <2>1. left' \in 0..Mishaps /\ fill[f].at = "run" /\ fill' = [fill EXCEPT ![f] = NoFiller]
        /\ UNCHANGED <<warmFree, cm, main, take, got>>
    BY <1>t, <1>4, MishapLeft DEF LaunchFails, poolVars
  <2>2. CASE UNCHANGED awsVars /\ blame' = blame \cup {"launch"}
    BY <1>t, <2>1, <2>2, FillMoves, EmptyFits DEF awsVars
  <2>3. CASE \E v \in VMs :
               /\ vm[v] = "UNUSED" /\ vm' = [vm EXCEPT ![v] = "PENDING"]
               /\ pool' = pool \cup {v} /\ blame' = blame \cup {"launch", "lostId"}
    BY <2>1, <2>3, Launches
  <2> QED
    BY <1>4, <2>2, <2>3 DEF LaunchFails
<1>5. CASE AppendFree(f)
  BY <1>5, Appends
<1>6. CASE FillerCopies(f)
  <2> DEFINE r == [fill[f] EXCEPT !.at = "patch", !.copy = warmFree]
  <2>1. /\ fill' = [fill EXCEPT ![f] = r] /\ r \in FillType /\ r.copy = warmFree
        /\ r.id = fill[f].id /\ r.at = "patch"
    BY <1>t, <1>6, FitIsList DEF FillerCopies, FillType, Places
  <2> HIDE DEF r
  <2> QED
    BY <1>t, <1>6, <2>1, FillMoves DEF FillerCopies, poolVars, awsVars, histVars
<1>7. CASE FillerPatches(f)
  <2> DEFINE r == [fill[f] EXCEPT !.at = "check", !.copy = <<>>]
  <2>1. /\ fill' = [fill EXCEPT ![f] = r] /\ r \in FillType /\ r.copy = <<>>
        /\ r.id = fill[f].id /\ r.at = "check"
    BY <1>t, <1>7, EmptyFits, FitIsList DEF FillerPatches, FillType, Places
  <2>2. Fit(cm', vm) /\ left' \in 0..Mishaps
    BY <1>t, <1>7, PatchFits DEF FillerPatches
  <2> HIDE DEF r
  <2>3. /\ fill[f].at = "patch" /\ UNCHANGED <<warmFree, main, take, vm, pool, got, blame>>
    BY <1>7 DEF FillerPatches, awsVars
  <2>4. Fit(<<>>, vm)
    BY EmptyFits
  <2> QED
    BY <1>t, <2>1, <2>2, <2>3, <2>4, FillMoves
<1> QED
  BY <1>1, <1>2, <1>3, <1>4, <1>5, <1>6, <1>7 DEF Fill

-----------------------------------------------------------------------------
(* provision. *)

\* A worker that has its MicroVM moves on; a filler may be started.
LEMMA TakeMoves ==
  ASSUME PoolInv, NEW s \in Takers, take[s].at \in {"save", "patch", "record"},
         NEW r \in TakeType, take' = [take EXCEPT ![s] = r], r.at # "want",
         r.id = take[s].id, Fit(r.copy, vm), Fit(cm', vm), left' \in 0..Mishaps,
         UNCHANGED <<warmFree, main, vm, pool, got, blame>>,
         \/ fill' = fill
         \/ \E g \in Fillers : fill[g].at = "none" /\ fill' = [fill EXCEPT ![g] = NewFiller(FALSE)]
  PROVE  PoolInv'
<1> USE DEF PoolInv
<1>0. /\ main.at \notin {"down", "load", "recover"}
      /\ take \in [Takers -> TakeType] /\ fill \in [Fillers -> FillType]
  BY DEF Types, Quiet
<1>1. /\ take'[s] = r /\ \A t \in Takers \ {s} : take'[t] = take[t]
      /\ \A t \in Takers : take'[t].id = take[t].id
      /\ take' \in [Takers -> TakeType]
  BY <1>0
<1> DEFINE Alike ==
      /\ fill' \in [Fillers -> FillType]
      /\ \A f \in Fillers : /\ fill'[f].id = fill[f].id
                            /\ fill'[f].copy \in {fill[f].copy, <<>>}
                            /\ fill'[f].at = "wait" <=> fill[f].at = "wait"
<1>2. Alike
  <2>1. CASE fill' = fill
    BY <1>0, <2>1
  <2>2. ASSUME NEW g \in Fillers, fill[g].at = "none",
               fill' = [fill EXCEPT ![g] = NewFiller(FALSE)]
        PROVE  Alike
    <3>1. fill[g].id = None
      BY <2>2 DEF Holding
    <3>2. /\ NewFiller(FALSE) \in FillType /\ NewFiller(FALSE).id = None
          /\ NewFiller(FALSE).at = "check" /\ NewFiller(FALSE).copy = <<>>
      BY FillerFits
    <3>3. fill'[g] = NewFiller(FALSE) /\ \A f \in Fillers \ {g} : fill'[f] = fill[f]
      BY <1>0, <2>2
    <3> QED
      BY <1>0, <2>2, <3>1, <3>2, <3>3
  <2> QED
    BY <2>1, <2>2
<1>3. Types'
  BY <1>1, <1>2 DEF Types
<1>4. Lists'
  <2>1. \A f \in Fillers : Fit(fill'[f].copy, vm)
    BY <1>2, EmptyFits DEF Lists
  <2> QED
    BY <1>1, <2>1 DEF Lists
<1>5. Holding'
  BY <1>1, <1>2 DEF Holding
<1>6. Quiet' /\ Distinct' /\ Apart'
  BY <1>0, <1>2 DEF Quiet, Distinct, Apart, Offered
<1>7. OvershootBounded'
  <2>1. CASE fill' = fill
    BY <2>1, OvershootSame
  <2>2. ASSUME NEW g \in Fillers, fill[g].at = "none",
               fill' = [fill EXCEPT ![g] = NewFiller(FALSE)]
        PROVE  OvershootBounded'
    <3>1. NewFiller(FALSE).at \notin {"run", "wait"}
      BY FillerFits
    <3>2. /\ Cardinality(Launching)' \in Nat /\ Cardinality(Launching) \in Nat
          /\ Cardinality(Launching)' <= Cardinality(Launching)
      BY <1>0, <2>2, <3>1, LaunchingCount
    <3>3. Len(warmFree) \in Nat
      BY DEF Lists, Fit
    <3> QED
      BY <3>2, <3>3, OvershootFrom DEF OvershootBounded
  <2> QED
    BY <2>1, <2>2
<1>8. Remember'
  <2>1. \A v \in VMs : Remembered(v) => Remembered(v)'
    BY <1>0, <1>1, <1>2 DEF Remembered
  <2> QED
    BY <2>1 DEF Remember, Types
<1> QED
  BY <1>3, <1>4, <1>5, <1>6, <1>7, <1>8

LEMMA Pops ==
  ASSUME PoolInv, NEW s \in Takers, PopWarm(s)
  PROVE  PoolInv'
<1> USE DEF PoolInv
<1> DEFINE v == warmFree[Len(warmFree)]
           x == SubSeq(warmFree, 1, Len(warmFree) - 1)
           r == [At("save") EXCEPT !.id = v]
<1>0. /\ take[s].at = "want" /\ warmFree # <<>> /\ main.at \notin {"down", "load", "recover"}
      /\ UNCHANGED <<cm, main, fill, vm, pool, blame, left>>
      /\ take' = [take EXCEPT ![s] = r] /\ got' = [got EXCEPT ![s] = got[s] \cup {v}]
      /\ warmFree' = x
  BY DEF PopWarm, Serving, Stopping, awsVars
<1>1. /\ Fit(x, vm) /\ Range(warmFree) = {v} \cup Range(x) /\ v \in VMs /\ v \notin Range(x)
      /\ vm[v] # "UNUSED" /\ Len(x) = Len(warmFree) - 1 /\ Len(warmFree) \in Nat
  BY <1>0, FitFront DEF Lists
<1> HIDE DEF x, v
<1>2. r \in TakeType /\ r.at = "save" /\ r.id = v /\ r.copy = <<>>
  BY <1>1, EmptyFits, FitIsList DEF At, TakeType
<1> HIDE DEF r
<1>3. /\ take'[s] = r /\ \A t \in Takers \ {s} : take'[t] = take[t]
      /\ take' \in [Takers -> TakeType] /\ take[s].id = None
  BY <1>0, <1>2 DEF Types, Holding
<1>4. /\ got'[s] = got[s] \cup {v} /\ \A t \in Takers \ {s} : got'[t] = got[t]
      /\ got' \in [Takers -> SUBSET VMs] /\ v # None
  BY <1>0, <1>1, NoneAssumption DEF Types
<1>5. Types'
  BY <1>0, <1>3, <1>4 DEF Types
<1>6. Lists'
  BY <1>0, <1>1, <1>2, <1>3, EmptyFits DEF Lists
<1>7. Holding'
  BY <1>0, <1>1, <1>2, <1>3, <1>4 DEF Holding
<1>8. Quiet'
  BY <1>0 DEF Quiet
<1>9. Distinct'
  BY <1>0, <1>1 DEF Distinct
<1>10. Apart'
  <2>1. \A u : Offered(u)' => Offered(u) /\ u # v
    BY <1>0, <1>1 DEF Offered, Distinct
  <2>2. Offered(v)
    BY <1>1 DEF Offered
  <2> QED
    BY <1>0, <1>4, <2>1, <2>2 DEF Apart
<1>11. OvershootBounded'
  <2>1. /\ Len(warmFree') \in Nat /\ Len(warmFree') <= Len(warmFree)
    <3>1. \A l \in Nat : l - 1 <= l
      OBVIOUS
    <3>2. Len(x) \in Nat
      BY <1>1 DEF Fit
    <3> QED
      BY <1>0, <1>1, <3>1, <3>2
  <2>2. Cardinality(Launching)' = Cardinality(Launching) /\ Cardinality(Launching) \in Nat
    <3>1. Launching' = Launching /\ Launching \subseteq Fillers
      BY <1>0 DEF Launching
    <3>2. Cardinality(Launching) \in Nat
      BY <3>1, FillersAssumption, FS_Subset, FS_CardinalityType
    <3> QED
      BY <3>1, <3>2
  <2> QED
    BY <1>1, <2>1, <2>2, OvershootFrom DEF OvershootBounded
<1>12. Remember'
  <2>1. \A u : u = v => Remembered(u)'
    BY <1>2, <1>3 DEF Remembered
  <2>2. \A u \in VMs \ {v} : Remembered(u) => Remembered(u)'
    BY <1>0, <1>1, <1>3, NoneAssumption DEF Remembered
  <2> QED
    BY <1>0, <2>1, <2>2 DEF Remember, Types
<1> QED
  BY <1>5, <1>6, <1>7, <1>8, <1>9, <1>10, <1>11, <1>12

LEMMA TakeSteps ==
  ASSUME PoolInv, NEW s \in Takers, Taking(s)
  PROVE  PoolInv'
<1>t. /\ take[s] \in TakeType /\ take \in [Takers -> TakeType] /\ left \in 0..Mishaps
      /\ Fit(take[s].copy, vm) /\ Fit(warmFree, vm) /\ Fit(cm, vm)
  BY DEF PoolInv, Types, Lists
<1>1. CASE PopWarm(s)
  BY <1>1, Pops
<1>2. CASE TakerCopies(s)
  <2> DEFINE r == [take[s] EXCEPT !.at = "patch", !.copy = warmFree]
  <2>1. /\ take' = [take EXCEPT ![s] = r] /\ r \in TakeType /\ r.copy = warmFree
        /\ r.id = take[s].id /\ r.at = "patch"
    BY <1>t, <1>2, FitIsList DEF TakerCopies, TakeType
  <2> HIDE DEF r
  <2>2. take[s].at = "save" /\ UNCHANGED <<warmFree, cm, main, fill, vm, pool, got, blame, left>>
    BY <1>2 DEF TakerCopies, poolVars, awsVars, histVars
  <2> QED
    BY <1>t, <2>1, <2>2, TakeMoves
<1>3. CASE TakerPatches(s)
  <2> DEFINE r == [take[s] EXCEPT !.at = "record", !.copy = <<>>]
  <2>1. /\ take' = [take EXCEPT ![s] = r] /\ r \in TakeType /\ r.copy = <<>>
        /\ r.id = take[s].id /\ r.at = "record"
    BY <1>t, <1>3, EmptyFits, FitIsList DEF TakerPatches, TakeType
  <2> HIDE DEF r
  <2>2. take[s].at = "patch" /\ UNCHANGED <<warmFree, main, vm, pool, got, blame>>
    BY <1>3 DEF TakerPatches, awsVars
  <2>3. \E g \in Fillers : fill[g].at = "none" /\ fill' = [fill EXCEPT ![g] = NewFiller(FALSE)]
    BY <1>3 DEF TakerPatches, Filling
  <2>4. Fit(cm', vm) /\ left' \in 0..Mishaps
    BY <1>t, <1>3, PatchFits DEF TakerPatches
  <2>5. Fit(<<>>, vm)
    BY EmptyFits
  <2> QED
    BY <1>t, <2>1, <2>2, <2>3, <2>4, <2>5, TakeMoves
<1>4. CASE Adopt(s)
  <2> DEFINE r == [take[s] EXCEPT !.at = "have"]
  <2>1. /\ take' = [take EXCEPT ![s] = r] /\ r \in TakeType /\ r.copy = take[s].copy
        /\ r.id = take[s].id /\ r.at = "have"
    BY <1>t, <1>4 DEF Adopt, TakeType
  <2> HIDE DEF r
  <2>2. take[s].at = "record" /\ UNCHANGED <<warmFree, cm, main, fill, vm, pool, got, blame, left>>
    BY <1>4 DEF Adopt, poolVars, awsVars, histVars
  <2> QED
    BY <1>t, <2>1, <2>2, TakeMoves
<1> QED
  BY <1>1, <1>2, <1>3, <1>4 DEF Taking

\* A worker whose annotation fails lets go of its MicroVM, on record.
LEMMA AdoptFailsStep ==
  ASSUME PoolInv, NEW s \in Takers, AdoptFails(s)
  PROVE  PoolInv'
<1> USE DEF PoolInv
<1> DEFINE r == At("want")
<1>0. /\ take' = [take EXCEPT ![s] = r] /\ blame' = blame \cup {"adopt"}
      /\ take[s].at = "record" /\ left' \in 0..Mishaps
      /\ UNCHANGED <<warmFree, cm, main, fill, vm, pool, got>>
  BY MishapsAssumption DEF AdoptFails, Mishap, Types, poolVars, awsVars
<1>1. /\ r \in TakeType /\ r.at = "want" /\ r.id = None /\ Fit(r.copy, vm)
  BY EmptyFits, FitIsList DEF At, TakeType
<1> HIDE DEF r
<1>2. /\ take'[s] = r /\ \A t \in Takers \ {s} : take'[t] = take[t]
      /\ take' \in [Takers -> TakeType]
  BY <1>0, <1>1 DEF Types
<1>3. Types'
  BY <1>0, <1>2 DEF Types, Causes
<1>4. Lists' /\ Holding'
  BY <1>0, <1>1, <1>2 DEF Lists, Holding
<1>5. Quiet' /\ Distinct'
  BY <1>0, <1>1, <1>2 DEF Quiet, Distinct
<1>6. Apart'
  BY <1>0 DEF Apart, Offered
<1>7. OvershootBounded'
  BY <1>0, OvershootSame
<1>8. Remember'
  BY <1>0 DEF Remember, Remembered
<1> QED
  BY <1>3, <1>4, <1>5, <1>6, <1>7, <1>8

-----------------------------------------------------------------------------
(* run. *)

LEMMA AtType ==
  \A place \in {"down", "load", "recover", "serve", "drain", "kill", "patch"} :
    At(place) \in MainType /\ At(place).at = place /\ At(place).copy = <<>>
BY EmptyFits, FitIsList DEF At, MainType

\* The goroutine moves on and takes nothing with it but a list.
LEMMA MainMoves ==
  ASSUME PoolInv, NEW r \in MainType, main' = r, Fit(r.copy, vm), left' \in 0..Mishaps,
         UNCHANGED <<warmFree, cm, fill, take, vm, pool, got, blame>>,
         \/ main.at = "down" /\ r.at = "load"
         \/ main.at = "load" /\ r.at = "recover" /\ r.copy = cm
         \/ main.at = "serve" /\ r.at = "drain"
         \/ main.at = "kill" /\ main.copy = <<>> /\ r.at = "patch"
  PROVE  PoolInv'
<1> USE DEF PoolInv
<1>1. Types'
  BY DEF Types
<1>2. Lists' /\ Holding'
  BY DEF Lists, Holding
<1>3. Quiet'
  BY DEF Quiet
<1>4. Distinct'
  <2>1. ASSUME main.at = "load", r.at = "recover", r.copy = cm
        PROVE  Range(warmFree) \cap Range(r.copy) = {} /\ Len(warmFree) + Len(r.copy) <= Bound
    <3>1. Range(warmFree) = {} /\ Len(warmFree) = 0
      BY <2>1, EmptyFits DEF Quiet
    <3>2. Len(r.copy) \in Nat /\ Len(r.copy) <= Bound
      BY DEF Fit
    <3> QED
      BY <3>1, <3>2
  <2> QED
    BY <2>1 DEF Distinct
<1>5. Apart'
  BY DEF Apart, Offered
<1>6. OvershootBounded'
  BY OvershootSame
<1>7. Remember'
  BY EmptyFits DEF Remember, Remembered
<1> QED
  BY <1>1, <1>2, <1>3, <1>4, <1>5, <1>6, <1>7

\* The pool, loaded or not, is served.
LEMMA Serves ==
  ASSUME PoolInv, Serve, main' = At("serve"), left' \in 0..Mishaps,
         UNCHANGED <<warmFree, cm, take, vm, pool, got>>,
         \/ main.at = "load" /\ blame' = blame \cup {"load"}
         \/ main.at = "recover" /\ main.copy = <<>> /\ blame' = blame
  PROVE  PoolInv'
<1> USE DEF PoolInv
<1>0. /\ fill \in [Fillers -> FillType] /\ blame \in SUBSET Causes
      /\ \A f \in Fillers : fill[f] = NoFiller
      /\ main' \in MainType /\ main'.at = "serve" /\ main'.copy = <<>>
  BY AtType DEF Types, Quiet
<1>1. PICK g \in Fillers : fill' = [fill EXCEPT ![g] = NewFiller(TRUE)]
  BY DEF Serve
<1>2. /\ NewFiller(TRUE) \in FillType /\ NewFiller(TRUE).id = None
      /\ NewFiller(TRUE).at = "check" /\ NewFiller(TRUE).copy = <<>>
      /\ NoFiller.id = None /\ NoFiller.copy = <<>> /\ NoFiller.at = "none"
  BY FillerFits
<1>3. /\ fill' \in [Fillers -> FillType]
      /\ \A f \in Fillers : /\ fill'[f].id = None /\ fill[f].id = None
                            /\ fill'[f].copy = <<>> /\ fill'[f].at \notin {"run", "wait"}
  BY <1>0, <1>1, <1>2
<1>4. Types'
  BY <1>0, <1>3 DEF Types, Causes
<1>5. Lists'
  BY <1>0, <1>3, EmptyFits DEF Lists
<1>6. Holding'
  BY <1>3 DEF Holding
<1>7. Quiet'
  BY <1>0 DEF Quiet
<1>8. Distinct'
  BY <1>0, <1>3 DEF Distinct
<1>9. Apart'
  BY <1>0, <1>3 DEF Apart, Offered
<1>10. OvershootBounded'
  <2>1. NewFiller(TRUE).at \notin {"run", "wait"}
    BY <1>2
  <2>2. /\ Cardinality(Launching)' \in Nat /\ Cardinality(Launching) \in Nat
        /\ Cardinality(Launching)' <= Cardinality(Launching)
    BY <1>0, <1>1, <2>1, LaunchingCount
  <2>3. Len(warmFree) \in Nat
    BY DEF Lists, Fit
  <2> QED
    BY <2>2, <2>3, OvershootFrom DEF OvershootBounded
<1>11. Remember'
  <2>1. \A u \in VMs : Remembered(u) => Remembered(u)'
    <3>1. CASE main.at = "load"
      BY <3>1 DEF Remembered
    <3>2. CASE main.at = "recover" /\ main.copy = <<>> /\ blame' = blame
      BY <1>3, <3>2, EmptyFits, NoneAssumption DEF Remembered
    <3> QED
      BY <3>1, <3>2
  <2> QED
    BY <2>1 DEF Remember, Types
<1> QED
  BY <1>4, <1>5, <1>6, <1>7, <1>8, <1>9, <1>10, <1>11

LEMMA Recovers ==
  ASSUME PoolInv, Recover
  PROVE  PoolInv'
<1> USE DEF PoolInv
<1> DEFINE v == Head(main.copy)
           r == [main EXCEPT !.copy = Tail(main.copy)]
<1>0. /\ main.at = "recover" /\ main.copy # <<>> /\ main' = r
      /\ UNCHANGED <<cm, fill, take, vm, pool, got>>
      /\ main \in MainType /\ blame \in SUBSET Causes /\ left \in 0..Mishaps
  BY DEF Recover, awsVars, Types
<1>1. /\ Fit(Tail(main.copy), vm) /\ Range(main.copy) = {v} \cup Range(Tail(main.copy))
      /\ v \in VMs /\ v \notin Range(Tail(main.copy)) /\ vm[v] # "UNUSED"
      /\ Len(Tail(main.copy)) = Len(main.copy) - 1 /\ Len(main.copy) \in Nat \ {0}
  BY <1>0, FitTail DEF Lists
<1>2. r \in MainType /\ r.at = "recover" /\ r.copy = Tail(main.copy)
  BY <1>0, <1>1, FitIsList DEF MainType
<1> HIDE DEF r
<1>3. \/ /\ warmFree' = Append(warmFree, v) /\ blame' = blame /\ left' = left
      \/ /\ warmFree' = warmFree /\ left' \in 0..Mishaps
         /\ \/ blame' = blame \cup {"load"}
            \/ blame' = blame /\ vm[v] \notin Live
  <2>1. \/ warmFree' = Append(warmFree, v) /\ UNCHANGED <<blame, left>>
        \/ /\ UNCHANGED <<warmFree, left>>
           /\ blame' = IF vm[v] \in Live THEN blame \cup {"load"} ELSE blame
        \/ Mishap /\ blame' = blame \cup {"load"} /\ UNCHANGED warmFree
    BY DEF Recover
  <2> QED
    BY <1>0, <2>1, MishapLeft
<1> HIDE DEF v
<1>4. /\ Len(warmFree) \in Nat
      /\ Len(warmFree) + 1 <= Bound
      /\ (Len(warmFree) + 1) + Len(Tail(main.copy)) <= Bound
      /\ Len(warmFree) + Len(Tail(main.copy)) <= Bound
  <2>1. Len(warmFree) + Len(main.copy) <= Bound
    BY <1>0 DEF Distinct
  <2>2. Len(warmFree) \in Nat /\ Len(Tail(main.copy)) \in Nat
    BY <1>1 DEF Lists, Fit
  <2>3. \A l, m, n, b \in Nat :
          l + m <= b /\ m # 0 /\ n = m - 1 => l + 1 <= b /\ (l + 1) + n <= b /\ l + n <= b
    OBVIOUS
  <2> QED
    BY <1>1, <2>1, <2>2, <2>3, BoundType
<1>5. /\ Fit(warmFree', vm)
      /\ \/ Range(warmFree') = Range(warmFree) \cup {v} /\ Len(warmFree') = Len(warmFree) + 1
         \/ /\ Range(warmFree') = Range(warmFree) /\ Len(warmFree') = Len(warmFree)
            /\ (vm[v] \in Live => "load" \in blame')
  <2>1. v \notin Range(warmFree) /\ Fit(warmFree, vm)
    BY <1>0, <1>1 DEF Distinct, Lists
  <2>2. CASE warmFree' = Append(warmFree, v)
    BY <1>1, <1>4, <2>1, <2>2, FitAppend
  <2>3. CASE warmFree' = warmFree /\ (vm[v] \in Live => "load" \in blame')
    BY <2>1, <2>3
  <2> QED
    BY <1>3, <2>2, <2>3
<1>6. Types'
  BY <1>0, <1>2, <1>3 DEF Types, Causes
<1>7. Lists'
  BY <1>0, <1>1, <1>2, <1>5 DEF Lists
<1>8. Holding'
  BY <1>0 DEF Holding
<1>9. Quiet'
  BY <1>0, <1>2 DEF Quiet
<1>10. Distinct'
  <2>1. \A f \in Fillers : fill[f].id = None
    BY <1>0, FillerFits DEF Quiet
  <2>2. None \notin Range(warmFree')
    BY <1>5, RangeOfList, FitIsList, NoneAssumption
  <2> QED
    BY <1>0, <1>1, <1>2, <1>4, <1>5, <2>1, <2>2 DEF Distinct
<1>11. Apart'
  <2>1. \A u : Offered(u)' => Offered(u)
    BY <1>0, <1>1, <1>2, <1>5 DEF Offered
  <2>2. "staleSave" \in blame => "staleSave" \in blame'
    BY <1>3
  <2> QED
    BY <1>0, <2>1, <2>2 DEF Apart
<1>12. OvershootBounded'
  <2>1. \A f \in Fillers : fill'[f].at \notin {"run", "wait"}
    BY <1>0, FillerFits DEF Quiet
  <2>2. Cardinality(Launching') = 0
    BY <2>1, FS_EmptySet DEF Launching
  <2>3. Len(warmFree') \in Nat /\ Len(warmFree') <= Bound
    BY <1>5 DEF Fit
  <2>4. \A l, b \in Nat : l <= b => l + 0 <= b
    OBVIOUS
  <2>5. Len(warmFree') + 0 <= Bound
    BY <2>3, <2>4, BoundType
  <2>6. OvershootBounded' = (Len(warmFree') + Cardinality(Launching') <= Bound)
    BY DEF OvershootBounded, Bound
  <2> QED
    BY <2>2, <2>5, <2>6
<1>13. Remember'
  <2>1. \A u : u = v /\ vm[u] \in Live => Remembered(u)'
    BY <1>5 DEF Remembered
  <2>2. \A u \in VMs : u # v /\ Remembered(u) => Remembered(u)'
    BY <1>0, <1>1, <1>2, <1>3, <1>5 DEF Remembered
  <2> QED
    BY <1>0, <2>1, <2>2 DEF Remember, Types
<1> QED
  BY <1>6, <1>7, <1>8, <1>9, <1>10, <1>11, <1>12, <1>13

LEMMA Drains ==
  ASSUME PoolInv, Drain
  PROVE  PoolInv'
<1> USE DEF PoolInv
<1> DEFINE r == [main EXCEPT !.at = "kill", !.copy = warmFree]
<1>0. /\ main.at = "drain" /\ main' = r /\ warmFree' = <<>>
      /\ UNCHANGED <<cm, fill, take, vm, pool, got, blame, left>>
      /\ main \in MainType /\ Fit(warmFree, vm)
  BY DEF Drain, awsVars, histVars, Types, Lists
<1>1. r \in MainType /\ r.at = "kill" /\ r.copy = warmFree
  BY <1>0, FitIsList DEF MainType
<1>2. Fit(<<>>, vm) /\ Range(<<>>) = {} /\ Len(<<>>) = 0
  BY EmptyFits
<1> HIDE DEF r
<1>3. Types' /\ Lists' /\ Holding' /\ Quiet'
  BY <1>0, <1>1, <1>2 DEF Types, Lists, Holding, Quiet
<1>4. Distinct' /\ Apart'
  BY <1>0, <1>1, <1>2 DEF Distinct, Apart, Offered
<1>5. OvershootBounded'
  <2>1. Cardinality(Launching)' = Cardinality(Launching) /\ Cardinality(Launching) \in Nat
    <3>1. Launching' = Launching /\ Launching \subseteq Fillers
      BY <1>0 DEF Launching
    <3>2. Cardinality(Launching) \in Nat
      BY <3>1, FillersAssumption, FS_Subset, FS_CardinalityType
    <3> QED
      BY <3>1, <3>2
  <2>2. Len(warmFree) \in Nat /\ Len(warmFree') \in Nat /\ Len(warmFree') <= Len(warmFree)
    BY <1>0, <1>2 DEF Fit
  <2> QED
    BY <2>1, <2>2, OvershootFrom DEF OvershootBounded
<1>6. Remember'
  <2>1. \A u \in VMs : Remembered(u) => Remembered(u)'
    BY <1>0, <1>1 DEF Remembered
  <2> QED
    BY <1>0, <2>1 DEF Remember, Types
<1> QED
  BY <1>3, <1>4, <1>5, <1>6

LEMMA Kills ==
  ASSUME PoolInv, Kill
  PROVE  PoolInv'
<1> USE DEF PoolInv
<1> DEFINE v == Head(main.copy)
           r == [main EXCEPT !.copy = Tail(main.copy)]
<1>0. /\ main.at = "kill" /\ main.copy # <<>> /\ main' = r
      /\ UNCHANGED <<warmFree, cm, fill, take, pool, got>>
      /\ main \in MainType /\ vm \in [VMs -> VmStates] /\ left \in 0..Mishaps
      /\ blame \in SUBSET Causes
  BY DEF Kill, poolVars, Types
<1>1. /\ Fit(Tail(main.copy), vm) /\ Range(main.copy) = {v} \cup Range(Tail(main.copy))
      /\ v \in VMs
  BY <1>0, FitTail DEF Lists
<1>2. r \in MainType /\ r.at = "kill" /\ r.copy = Tail(main.copy)
  BY <1>0, <1>1, FitIsList DEF MainType
<1> HIDE DEF r
<1>3. /\ vm' \in [VMs -> VmStates] /\ left' \in 0..Mishaps
      /\ \A u \in VMs : /\ vm[u] # "UNUSED" => vm'[u] # "UNUSED"
                        /\ vm'[u] \in Live => vm[u] \in Live /\ (u # v \/ "kill" \in blame')
      /\ blame' \in {blame, blame \cup {"kill"}}
  <2>1. CASE /\ vm' = [vm EXCEPT ![v] = Terminated(vm[v])] /\ UNCHANGED <<blame, left>>
    <3>1. /\ Terminated(vm[v]) \in VmStates /\ Terminated(vm[v]) \notin Live
          /\ (vm[v] # "UNUSED" => Terminated(vm[v]) # "UNUSED")
      BY <1>0, <1>1 DEF Terminated, VmStates, Live, Dead
    <3> QED
      BY <1>0, <1>1, <2>1, <3>1
  <2>2. CASE UNCHANGED vm /\ Mishap /\ blame' = blame \cup {"kill"}
    BY <1>0, <2>2, MishapLeft
  <2> QED
    BY <2>1, <2>2 DEF Kill
<1> HIDE DEF v
<1>4. Types'
  BY <1>0, <1>2, <1>3 DEF Types, Causes
<1>5. Lists'
  <2>1. Fit(Tail(main.copy), vm')
    BY <1>1, <1>3, FitStays
  <2> QED
    BY <1>0, <1>2, <1>3, <2>1, ListsStay DEF Lists
<1>6. Holding'
  BY <1>0, <1>3 DEF Holding, Types, FillType
<1>7. Quiet' /\ Distinct' /\ Apart'
  BY <1>0, <1>2, <1>3 DEF Quiet, Distinct, Apart, Offered
<1>8. OvershootBounded'
  BY <1>0, OvershootSame
<1>9. Remember'
  <2>1. \A u \in VMs : Remembered(u) /\ (u # v \/ "kill" \in blame') => Remembered(u)'
    BY <1>0, <1>1, <1>2, <1>3 DEF Remembered
  <2> QED
    BY <1>0, <1>3, <2>1 DEF Remember, Types
<1> QED
  BY <1>4, <1>5, <1>6, <1>7, <1>8, <1>9

\* The end of the process, with what the ConfigMap lists then.
LEMMA Deaths ==
  ASSUME PoolInv, Death, Fit(cm', vm), blame' = blame \cup Fatal(cm'), left' \in 0..Mishaps,
         cm' = cm \/ main.at = "patch"
  PROVE  PoolInv'
<1> USE DEF PoolInv
<1>0. /\ warmFree' = <<>> /\ main' = At("down")
      /\ fill' = [f \in Fillers |-> NoFiller]
      /\ take' = [s \in Takers |-> IF take[s].at = "have" THEN take[s] ELSE At("want")]
      /\ UNCHANGED <<vm, pool, got>>
      /\ fill \in [Fillers -> FillType] /\ take \in [Takers -> TakeType]
  BY DEF Death, awsVars, Types
<1>1. /\ main' \in MainType /\ main'.at = "down" /\ main'.copy = <<>>
      /\ NoFiller \in FillType /\ NoFiller.id = None /\ NoFiller.copy = <<>>
      /\ NoFiller.at = "none"
      /\ At("want") \in TakeType /\ At("want").at = "want" /\ At("want").id = None
      /\ At("want").copy = <<>>
  BY <1>0, AtType, FillerFits, EmptyFits, FitIsList DEF At, TakeType
<1>2. Fit(<<>>, vm) /\ Range(<<>>) = {} /\ Len(<<>>) = 0
  BY EmptyFits
<1>3. blame' \in SUBSET Causes
  BY DEF Types, Fatal, Causes
<1>4. Types'
  BY <1>0, <1>1, <1>3 DEF Types
<1>5. Lists'
  BY <1>0, <1>1, <1>2 DEF Lists
<1>6. Holding'
  BY <1>0, <1>1 DEF Holding
<1>7. Quiet'
  BY <1>0, <1>1 DEF Quiet
<1>8. Distinct'
  BY <1>0, <1>1, <1>2 DEF Distinct
<1>9. Apart'
  <2>1. "staleSave" \in blame => "staleSave" \in blame'
    OBVIOUS
  <2>2. "staleSave" \notin blame' => \A s \in Takers : got[s] \cap Range(cm') = {}
    <3>1. "staleSave" \notin blame' => Range(cm') \cap Given = {}
      BY DEF Fatal
    <3> QED
      BY <3>1 DEF Given
  <2>3. \A u : Offered(u)' => u = None \/ u \in Range(cm')
    BY <1>0, <1>1, <1>2 DEF Offered
  <2>4. \A s \in Takers : None \notin got[s]
    BY NoneAssumption DEF Types
  <2> QED
    BY <1>0, <2>1, <2>2, <2>3, <2>4 DEF Apart
<1>10. OvershootBounded'
  <2>1. \A f \in Fillers : fill'[f].at \notin {"run", "wait"}
    BY <1>0, <1>1
  <2>2. Cardinality(Launching') = 0
    BY <2>1, FS_EmptySet DEF Launching
  <2>3. OvershootBounded' = (Len(warmFree') + Cardinality(Launching') <= Bound)
    BY DEF OvershootBounded, Bound
  <2>4. \A b \in Nat : 0 + 0 <= b
    OBVIOUS
  <2> QED
    BY <1>0, <1>2, <2>2, <2>3, <2>4, BoundType
<1>11. Remember'
  <2>1. ASSUME NEW u \in VMs, vm[u] \in Live, Remembered(u), u \notin Range(cm'),
               \A s \in Takers : take'[s].id # u, main.at \notin {"down", "load"} \/ u \notin Range(cm),
               blame \cap {"load", "kill", "unsaved", "lostId", "adopt"} = {}
        PROVE  "unsaved" \in blame'
    <3>1. u \in InMemory
      <4>1. \A s \in Takers : take[s].id = u => s \in {t \in Takers : take[t].at # "have"}
        BY <1>0, <2>1
      <4> QED
        BY <2>1, <4>1 DEF Remembered, InMemory
    <3>2. u # None
      BY NoneAssumption
    <3> QED
      BY <2>1, <3>1, <3>2 DEF Fatal
  <2>2. \A u \in VMs : vm[u] \in Live /\ Remembered(u) => Remembered(u)'
    <3> SUFFICES ASSUME NEW u \in VMs, vm[u] \in Live, Remembered(u) PROVE Remembered(u)'
      OBVIOUS
    <3>1. CASE u \in Range(cm') \/ \E s \in Takers : take'[s].id = u
      BY <1>0, <1>1, <3>1 DEF Remembered
    <3>2. CASE blame \cap {"load", "kill", "unsaved", "lostId", "adopt"} # {}
      BY <3>2 DEF Remembered
    <3>3. CASE main.at \in {"down", "load"} /\ u \in Range(cm)
      BY <1>0, <1>1, <3>3 DEF Remembered
    <3>4. CASE "unsaved" \in blame'
      BY <3>4 DEF Remembered
    <3> QED
      BY <2>1, <3>1, <3>2, <3>3, <3>4
  <2> QED
    BY <1>0, <2>2 DEF Remember, Types
<1> QED
  BY <1>4, <1>5, <1>6, <1>7, <1>8, <1>9, <1>10, <1>11

LEMMA MainSteps ==
  ASSUME PoolInv, Boot \/ LoadFails \/ Stop \/ Quit \/ Crash
  PROVE  PoolInv'
<1>t. /\ main \in MainType /\ left \in 0..Mishaps
      /\ Fit(main.copy, vm) /\ Fit(warmFree, vm) /\ Fit(cm, vm) /\ Fit(<<>>, vm)
  BY EmptyFits DEF PoolInv, Types, Lists
<1>1. CASE Start
  <2>1. At("load") \in MainType /\ At("load").at = "load" /\ At("load").copy = <<>>
    BY AtType
  <2> QED
    BY <1>t, <1>1, <2>1, MainMoves DEF Start, poolVars, awsVars, histVars
<1>2. CASE LoadRead
  <2> DEFINE r == [main EXCEPT !.at = "recover", !.copy = cm]
  <2>1. r \in MainType /\ r.at = "recover" /\ r.copy = cm
    BY <1>t, FitIsList DEF MainType
  <2>2. /\ main.at = "load" /\ main' = r
        /\ UNCHANGED <<warmFree, cm, fill, take, vm, pool, got, blame, left>>
    BY <1>2 DEF LoadRead, poolVars, awsVars, histVars
  <2> HIDE DEF r
  <2> QED
    BY <1>t, <2>1, <2>2, MainMoves
<1>3. CASE LoadFails
  BY <1>t, <1>3, MishapLeft, Serves DEF LoadFails, poolVars, awsVars
<1>4. CASE Recover
  BY <1>4, Recovers
<1>5. CASE Recovered
  BY <1>t, <1>5, Serves DEF Recovered, poolVars, awsVars, histVars
<1>6. CASE Stop
  <2>1. At("drain") \in MainType /\ At("drain").at = "drain" /\ At("drain").copy = <<>>
    BY AtType
  <2>2. left' \in 0..Mishaps
    BY <1>t, <1>6, MishapLeft DEF Stop
  <2> QED
    BY <1>t, <1>6, <2>1, <2>2, MainMoves DEF Stop, poolVars, awsVars
<1>7. CASE Drain
  BY <1>7, Drains
<1>8. CASE Kill
  BY <1>8, Kills
<1>9. CASE Killed
  <2> DEFINE r == [main EXCEPT !.at = "patch", !.copy = warmFree]
  <2>1. r \in MainType /\ r.at = "patch" /\ r.copy = warmFree
    BY <1>t, FitIsList DEF MainType
  <2>2. /\ main.at = "kill" /\ main.copy = <<>> /\ main' = r
        /\ UNCHANGED <<warmFree, cm, fill, take, vm, pool, got, blame, left>>
    BY <1>9 DEF Killed, poolVars, awsVars, histVars
  <2> HIDE DEF r
  <2> QED
    BY <1>t, <2>1, <2>2, MainMoves
<1>10. CASE Exit
  <2>1. Fit(cm', vm) /\ left' \in 0..Mishaps
    BY <1>t, <1>10, PatchFits DEF Exit
  <2> QED
    BY <1>10, <2>1, Deaths DEF Exit
<1>11. CASE Quit
  BY <1>t, <1>11, Deaths DEF Quit
<1>12. CASE Crash
  BY <1>t, <1>12, MishapLeft, Deaths DEF Crash
<1> QED
  BY <1>1, <1>2, <1>3, <1>4, <1>5, <1>6, <1>7, <1>8, <1>9, <1>10, <1>11, <1>12 DEF Boot

-----------------------------------------------------------------------------
(* The theorems. *)

LEMMA InitPool == Init => PoolInv
<1> SUFFICES ASSUME Init PROVE PoolInv
  OBVIOUS
<1>1. Fit(<<>>, vm) /\ Range(<<>>) = {} /\ Len(<<>>) = 0
  BY EmptyFits
<1>2. /\ At("down") \in MainType /\ At("down").at = "down" /\ At("down").copy = <<>>
      /\ NoFiller \in FillType /\ NoFiller.id = None /\ NoFiller.copy = <<>>
      /\ NoFiller.at = "none"
      /\ At("want") \in TakeType /\ At("want").at = "want" /\ At("want").id = None
      /\ At("want").copy = <<>>
  BY AtType, EmptyFits, FitIsList DEF At, TakeType, NoFiller, FillType, Places
<1>3. Types
  BY <1>2, MishapsAssumption DEF Init, Types, Causes, VmStates
<1>4. Lists /\ Holding /\ Quiet
  BY <1>1, <1>2 DEF Init, Lists, Holding, Quiet
<1>5. Distinct /\ Apart /\ Remember
  BY <1>1, <1>2 DEF Init, Distinct, Apart, Remember
<1>6. OvershootBounded
  <2>1. \A f \in Fillers : fill[f].at \notin {"run", "wait"}
    BY <1>2 DEF Init
  <2>2. Cardinality(Launching) = 0
    BY <2>1, NobodyLaunches
  <2>3. \A b \in Nat : 0 + 0 <= b
    OBVIOUS
  <2>4. OvershootBounded = (Len(warmFree) + Cardinality(Launching) <= Bound)
    BY DEF OvershootBounded, Bound
  <2> QED
    BY <1>1, <2>2, <2>3, <2>4, BoundType DEF Init
<1> QED
  BY <1>3, <1>4, <1>5, <1>6 DEF PoolInv

LEMMA StepPool == PoolInv /\ [Next]_vars => PoolInv'
<1> SUFFICES ASSUME PoolInv, [Next]_vars PROVE PoolInv'
  OBVIOUS
<1>1. CASE Boot \/ LoadFails \/ Stop \/ Quit \/ Crash
  BY <1>1, MainSteps
<1>2. CASE \E f \in Fillers : Fill(f) \/ LaunchFails(f)
  BY <1>2, FillSteps
<1>3. CASE \E s \in Takers : Taking(s) \/ AdoptFails(s)
  BY <1>3, TakeSteps, AdoptFailsStep
<1>4. CASE \E v \in VMs : VmProgress(v) \/ VmDrift(v)
  BY <1>4, VmSteps
<1>5. CASE UNCHANGED vars
  BY <1>5, ServiceStep DEF vars, PoolInv, Types
<1> QED
  BY <1>1, <1>2, <1>3, <1>4, <1>5 DEF Next

LEMMA PoolHolds == Spec => []PoolInv
BY InitPool, StepPool, PTL DEF Spec

\* The types of the variables, a pool without a MicroVM that is in it twice.
THEOREM TypeCorrect == Spec => []TypeOK
<1>1. PoolInv => TypeOK
  BY DEF PoolInv, Types, Lists, Holding, Fit, TypeOK, MainType, FillType, TakeType, Causes
<1> QED
  BY <1>1, PoolHolds, PTL

\* The pool outgrows --warm-size by less than the number of its fillers.
THEOREM OvershootIsBounded == Spec => []OvershootBounded
<1>1. PoolInv => OvershootBounded
  BY DEF PoolInv
<1> QED
  BY <1>1, PoolHolds, PTL

\* Two Sandboxes share a MicroVM only after a death that left a stale list.
THEOREM SharingHasCause == Spec => []SharedCauses
<1>1. PoolInv => SharedCauses
  BY DEF PoolInv, Apart, SharedCauses
<1> QED
  BY <1>1, PoolHolds, PTL

\* A MicroVM launched for the pool is forgotten only for one of the causes.
THEOREM ForgettingHasCause == Spec => []ForgottenCauses
<1>1. PoolInv => ForgottenCauses
  <2> SUFFICES ASSUME PoolInv, NEW v \in pool, vm[v] \in Live
               PROVE  \/ v \in InMemory \cup Adopted
                      \/ main.at \in {"down", "load"} /\ v \in Range(cm)
                      \/ blame \cap {"load", "kill", "unsaved", "lostId", "adopt"} # {}
    BY DEF ForgottenCauses
  <2>1. Remembered(v)
    BY DEF PoolInv, Remember
  <2>2. \A s \in Takers : take[s].id = v => v \in InMemory \cup Adopted
    BY DEF InMemory, Adopted
  <2> QED
    BY <2>1, <2>2 DEF Remembered, InMemory
<1> QED
  BY <1>1, PoolHolds, PTL

-----------------------------------------------------------------------------
(* The pool keeps its promise. *)

\* The MicroVMs launched for the pool are those the service has issued.
Issued == \A v \in VMs : v \in pool <=> vm[v] # "UNUSED"

LEMMA IssuedNext == PoolInv /\ Issued /\ [Next]_vars => Issued'
<1> SUFFICES ASSUME PoolInv, Issued, [Next]_vars PROVE Issued'
  OBVIOUS
<1>t. vm \in [VMs -> VmStates] /\ pool \in SUBSET VMs
  BY DEF PoolInv, Types
<1>1. ASSUME NEW v \in VMs, vm' = [vm EXCEPT ![v] = "PENDING"], pool' = pool \cup {v}
      PROVE  Issued'
  BY <1>t, <1>1 DEF Issued
<1>2. ASSUME NEW v \in VMs, NEW st \in VmStates, vm' = [vm EXCEPT ![v] = st],
             st = "UNUSED" <=> vm[v] = "UNUSED", pool' = pool
      PROVE  Issued'
  BY <1>t, <1>2 DEF Issued
<1>3. CASE UNCHANGED <<vm, pool>>
  BY <1>3 DEF Issued
<1>4. ASSUME NEW f \in Fillers, Fill(f) \/ LaunchFails(f) PROVE Issued'
  BY <1>1, <1>3, <1>4
  DEF Fill, Check, Launch, LaunchRefused, LaunchFails, AppendFree, FillerCopies,
      FillerPatches, awsVars
<1>5. ASSUME NEW s \in Takers, Taking(s) \/ AdoptFails(s) PROVE Issued'
  BY <1>3, <1>5 DEF Taking, PopWarm, TakerCopies, TakerPatches, Adopt, AdoptFails, awsVars
<1>6. ASSUME NEW v \in VMs, VmProgress(v) \/ VmDrift(v) PROVE Issued'
  <2>1. CASE VmProgress(v)
    <3>1. /\ Progress(vm[v]) \in VmStates
          /\ Progress(vm[v]) = "UNUSED" <=> vm[v] = "UNUSED"
      BY <1>t DEF Progress, VmStates
    <3> QED
      BY <1>2, <2>1, <3>1 DEF VmProgress
  <2>2. CASE VmDrift(v)
    <3>1. PICK st \in Drift(vm[v]) : vm' = [vm EXCEPT ![v] = st]
      BY <2>2 DEF VmDrift
    <3>2. st \in VmStates /\ st # "UNUSED" /\ vm[v] # "UNUSED"
      BY <1>t, <3>1 DEF Drift, VmStates
    <3> QED
      BY <1>2, <2>2, <3>1, <3>2 DEF VmDrift
  <2> QED
    BY <1>6, <2>1, <2>2
<1>7. CASE Kill
  <2>1. PICK v : v = Head(main.copy)
    OBVIOUS
  <2>2. v \in VMs
    BY <1>7, <2>1, FitTail DEF Kill, PoolInv, Lists
  <2>3. /\ Terminated(vm[v]) \in VmStates
        /\ Terminated(vm[v]) = "UNUSED" <=> vm[v] = "UNUSED"
    BY <1>t, <2>2 DEF Terminated, VmStates, Live, Dead
  <2>4. pool' = pool /\ (vm' = vm \/ vm' = [vm EXCEPT ![v] = Terminated(vm[v])])
    BY <1>7, <2>1 DEF Kill
  <2> QED
    BY <1>2, <1>3, <2>2, <2>3, <2>4
<1>8. CASE (Boot /\ ~Kill) \/ LoadFails \/ Stop \/ Quit \/ Crash \/ UNCHANGED vars
  <2>1. UNCHANGED <<vm, pool>>
    BY <1>8
    DEF Boot, Start, LoadRead, Recover, Recovered, Drain, Killed, Exit, LoadFails,
        Stop, Quit, Crash, Death, vars, awsVars
  <2> QED
    BY <1>3, <2>1
<1> QED
  BY <1>4, <1>5, <1>6, <1>7, <1>8 DEF Next

LEMMA IssuedHolds == Spec => []Issued
<1>1. Init => Issued
  BY DEF Init, Issued
<1> QED
  BY <1>1, IssuedNext, PoolHolds, PTL DEF Spec

\* The identifiers in the hands of the fillers.
Fresh == {fill[f].id : f \in Fillers} \ {None}

\* A step without effect on what is promised, or one of the promise.
Kept ==
  \/ main' = main /\ UNCHANGED <<pool, Fresh, OnOffer, got>>
  \/ Promise!Step

LEMMA RangeAppend ==
  ASSUME NEW q \in Seq(VMs), NEW v \in VMs
  PROVE  Range(Append(q, v)) = Range(q) \cup {v}
<1> DEFINE x == Append(q, v)
<1>1. /\ x \in Seq(VMs) /\ Len(x) = Len(q) + 1 /\ Len(q) \in Nat
      /\ \A i \in 1..Len(q) : x[i] = q[i]
      /\ x[Len(q) + 1] = v
  BY AppendProperties
<1>2. 1..Len(x) = (1..Len(q)) \cup {Len(q) + 1}
  BY <1>1
<1> HIDE DEF x
<1>3. Range(x) = Range(q) \cup {v}
  BY <1>1, <1>2, RangeOfList
<1> QED
  BY <1>3 DEF x

LEMMA FreshOf ==
  ASSUME PoolInv, NEW f \in Fillers, NEW v \in VMs, fill[f].id = v
  PROVE  v \in Fresh /\ Fresh \ {v} = {fill[g].id : g \in Fillers \ {f}} \ {None}
BY NoneAssumption DEF PoolInv, Distinct, Fresh

LEMMA FillKeeps ==
  ASSUME PoolInv, Issued, PoolInv', NEW f \in Fillers, Fill(f) \/ LaunchFails(f)
  PROVE  Kept
<1>1. /\ fill[f].at # "none" /\ fill \in [Fillers -> FillType] /\ main' = main
      /\ main.at \notin {"down", "load", "recover"} /\ got' = got
  <2>1. fill[f].at # "none" /\ UNCHANGED <<main, got>>
    BY DEF Fill, Check, Launch, LaunchRefused, LaunchFails, AppendFree, FillerCopies,
           FillerPatches, awsVars, histVars
  <2> QED
    BY <2>1, FillerWorks DEF PoolInv, Types
<1>2. Serving /\ Serving' /\ OnOffer = Range(warmFree) /\ OnOffer' = Range(warmFree')
  <2>1. main.at \in {"down", "load", "recover", "serve", "drain", "kill", "patch"}
    BY DEF PoolInv, Types, MainType
  <2> QED
    BY <1>1, <2>1 DEF Serving, Stopping, OnOffer
<1>3. ASSUME warmFree' = warmFree, pool' = pool,
             \A g \in Fillers : fill'[g].id = fill[g].id
      PROVE  Kept
  <2>1. Fresh' = Fresh
    BY <1>3 DEF Fresh
  <2> QED
    BY <1>1, <1>2, <1>3, <2>1 DEF Kept
<1>4. ASSUME NEW v \in VMs, vm[v] = "UNUSED", pool' = pool \cup {v}, warmFree' = warmFree,
             Fresh' \in {Fresh, Fresh \cup {v}}
      PROVE  Kept
  <2>1. v \notin pool
    BY <1>4 DEF Issued
  <2> QED
    BY <1>1, <1>2, <1>4, <2>1 DEF Kept, Promise!Step, Promise!Launch, Fresh
<1>5. fill[f].at # "wait" => fill[f].id = None
  BY DEF PoolInv, Holding
<1>6. NoFiller.id = None
  BY DEF NoFiller
<1>7. CASE Check(f) \/ LaunchRefused(f) \/ FillerCopies(f) \/ FillerPatches(f)
  <2>1. warmFree' = warmFree /\ pool' = pool
    BY <1>7 DEF Check, LaunchRefused, FillerCopies, FillerPatches, poolVars, awsVars
  <2>2. \A g \in Fillers : fill'[g].id = fill[g].id
    BY <1>1, <1>5, <1>6, <1>7
    DEF Check, LaunchRefused, FillerCopies, FillerPatches, Move, FillType
  <2> QED
    BY <1>3, <2>1, <2>2
<1>8. CASE Launch(f)
  <2>1. PICK v \in VMs :
          /\ vm[v] = "UNUSED" /\ pool' = pool \cup {v}
          /\ fill' = [fill EXCEPT ![f].at = "wait", ![f].id = v]
    BY <1>8 DEF Launch
  <2>2. fill[f].id = None /\ v # None
    BY <1>5, <1>8, NoneAssumption DEF Launch
  <2>3. fill'[f].id = v /\ \A g \in Fillers \ {f} : fill'[g].id = fill[g].id
    BY <1>1, <2>1 DEF FillType
  <2>4. Fresh' = Fresh \cup {v}
    BY <2>2, <2>3 DEF Fresh
  <2> QED
    BY <1>4, <1>8, <2>1, <2>4 DEF Launch, poolVars
<1>9. CASE LaunchFails(f)
  <2>1. /\ warmFree' = warmFree /\ fill' = [fill EXCEPT ![f] = NoFiller]
        /\ fill[f].id = None
        /\ \/ pool' = pool
           \/ \E v \in VMs : vm[v] = "UNUSED" /\ pool' = pool \cup {v}
    BY <1>5, <1>9 DEF LaunchFails, poolVars, awsVars
  <2>2. \A g \in Fillers : fill'[g].id = fill[g].id
    BY <1>1, <1>6, <2>1
  <2>3. Fresh' = Fresh
    BY <2>2 DEF Fresh
  <2> QED
    BY <1>3, <1>4, <2>1, <2>2, <2>3
<1>10. CASE AppendFree(f)
  <2>1. PICK v : v = fill[f].id
    OBVIOUS
  <2>2. /\ warmFree' = Append(warmFree, v) /\ fill[f].at = "wait" /\ pool' = pool
        /\ fill' = [fill EXCEPT ![f].at = "save", ![f].id = None]
    BY <1>10, <2>1 DEF AppendFree, awsVars
  <2>3. v \in VMs /\ v # None
    BY <1>1, <2>1, <2>2 DEF PoolInv, Holding, FillType
  <2>4. fill'[f].id = None /\ \A g \in Fillers \ {f} : fill'[g].id = fill[g].id
    BY <1>1, <2>2 DEF FillType
  <2>5. v \in Fresh /\ Fresh' = Fresh \ {v}
    <3>1. Fresh' = {fill[g].id : g \in Fillers \ {f}} \ {None}
      BY <2>4 DEF Fresh
    <3> QED
      BY <2>1, <3>1, <2>3, FreshOf
  <2>6. warmFree \in Seq(VMs)
    BY FitIsList DEF PoolInv, Lists
  <2>7. Range(warmFree') = Range(warmFree) \cup {v}
    BY <2>2, <2>3, <2>6, RangeAppend
  <2> QED
    BY <1>1, <1>2, <2>2, <2>3, <2>5, <2>7
    DEF Kept, Promise!Step, Promise!Offer, Fresh
<1> QED
  BY <1>7, <1>8, <1>9, <1>10 DEF Fill

LEMMA TakeKeeps ==
  ASSUME PoolInv, PoolInv', NEW s \in Takers, Taking(s)
  PROVE  Kept
<1>1. /\ main' = main /\ pool' = pool /\ fill \in [Fillers -> FillType]
      /\ main.at \in {"down", "load", "recover", "serve", "drain", "kill", "patch"}
  BY DEF Taking, PopWarm, TakerCopies, TakerPatches, Adopt, awsVars, PoolInv, Types, MainType
<1>2. CASE PopWarm(s)
  <2>1. PICK v : v = warmFree[Len(warmFree)]
    OBVIOUS
  <2>2. /\ warmFree # <<>> /\ warmFree' = SubSeq(warmFree, 1, Len(warmFree) - 1)
        /\ got' = [got EXCEPT ![s] = got[s] \cup {v}] /\ fill' = fill
    BY <1>2, <2>1 DEF PopWarm
  <2>3. Serving /\ Serving' /\ main.at \notin {"down", "load", "recover"}
    BY <1>1, <1>2 DEF PopWarm, Serving, Stopping
  <2>4. /\ Range(warmFree) = {v} \cup Range(warmFree') /\ v \in VMs
        /\ v \notin Range(warmFree')
    BY <2>1, <2>2, FitFront DEF PoolInv, Lists
  <2>5. OnOffer = Range(warmFree) /\ OnOffer' = Range(warmFree')
    BY <1>1, <2>3 DEF OnOffer
  <2>6. v \in OnOffer /\ OnOffer' = OnOffer \ {v}
    BY <2>4, <2>5
  <2>7. Promise!Take(s, v)
    BY <1>1, <2>2, <2>3, <2>6 DEF Promise!Take
  <2> QED
    BY <2>4, <2>7 DEF Kept, Promise!Step
<1>3. CASE TakerCopies(s) \/ TakerPatches(s) \/ Adopt(s)
  <2>1. /\ UNCHANGED <<warmFree, got>>
        /\ fill' = fill \/ \E f \in Filling' : fill[f].at = "none" /\
                                               fill' = [fill EXCEPT ![f] = NewFiller(FALSE)]
        /\ cm' = cm \/ take[s].at = "patch"
    <3>1. CASE TakerPatches(s)
      <4>1. PICK f \in Fillers \ Filling : fill' = [fill EXCEPT ![f] = NewFiller(FALSE)]
        BY <3>1 DEF TakerPatches
      <4>2. f \in Filling' /\ fill[f].at = "none"
        BY <1>1, <4>1, FillerFits DEF Filling
      <4> QED
        BY <3>1, <4>1, <4>2 DEF TakerPatches
    <3> QED
      BY <1>3, <3>1 DEF TakerCopies, Adopt, poolVars, histVars
  <2>2. \A f \in Fillers : fill'[f].id = fill[f].id
    BY <1>1, <2>1, FillerFits DEF PoolInv, Holding, Filling
  <2>3. Fresh' = Fresh
    BY <2>2 DEF Fresh
  <2>4. OnOffer' = OnOffer
    <3>1. take[s].at = "patch" => main.at \notin {"down", "load"}
      BY DEF PoolInv, Quiet
    <3> QED
      BY <1>1, <2>1, <3>1 DEF OnOffer
  <2> QED
    BY <1>1, <2>1, <2>3, <2>4 DEF Kept
<1> QED
  BY <1>2, <1>3 DEF Taking

LEMMA DeathKeeps ==
  ASSUME PoolInv, Issued, PoolInv', Issued', Death, blame' = blame \cup Fatal(cm'),
         "staleSave" \notin blame'
  PROVE  Kept
<1>1. /\ main' = At("down") /\ fill' = [f \in Fillers |-> NoFiller]
      /\ pool' = pool /\ got' = got
  BY DEF Death, awsVars
<1>2. main'.at = "down"
  BY <1>1, AtType
<1>3. ~Serving'
  BY <1>2 DEF Serving, Stopping
<1>4. Fresh' = {}
  BY <1>1 DEF Fresh, NoFiller
<1>5. OnOffer' = Range(cm')
  BY <1>2 DEF OnOffer
<1>6. Range(cm') \subseteq pool
  BY <1>1, RangeOfList DEF PoolInv, Lists, Fit, Issued
<1>7. Range(cm') \cap Given = {}
  BY DEF Fatal
<1>8. Promise!GivenToAny = Given
  BY DEF Promise!GivenToAny, Given
<1> QED
  BY <1>1, <1>3, <1>4, <1>5, <1>6, <1>7, <1>8
  DEF Kept, Promise!Step, Promise!Die, Fresh

LEMMA MainKeeps ==
  ASSUME PoolInv, Issued, PoolInv', Issued', "staleSave" \notin blame',
         Boot \/ LoadFails \/ Stop \/ Quit \/ Crash
  PROVE  Kept
<1>1. CASE Exit \/ Quit \/ Crash
  BY <1>1, DeathKeeps DEF Exit, Quit, Crash
<1>2. ASSUME pool' = pool, got' = got, Fresh' = Fresh, OnOffer' \subseteq OnOffer,
             Serving => Serving'
      PROVE  Kept
  BY <1>2 DEF Kept, Promise!Step, Promise!Drop, Fresh
<1>3. /\ main \in MainType /\ main' \in MainType /\ Range(<<>>) = {}
      /\ main.at \in {"down", "load"} => warmFree = <<>>
      /\ main.at \in {"load", "recover"} => \A f \in Fillers : fill[f].id = None
  <2>1. main \in MainType /\ main' \in MainType
    BY DEF PoolInv, Types
  <2>2. main.at \in {"load", "recover"} => \A f \in Fillers : fill[f] = NoFiller
    BY DEF PoolInv, Quiet
  <2> QED
    BY <2>1, <2>2, EmptyFits, FillerFits DEF PoolInv, Quiet
<1>4. CASE Start \/ LoadRead \/ Recover \/ Drain \/ Kill \/ Killed \/ Stop
  <2>1. /\ pool' = pool /\ got' = got /\ cm' = cm /\ fill' = fill
    BY <1>4 DEF Start, LoadRead, Recover, Drain, Kill, Killed, Stop, poolVars, awsVars, histVars
  <2>2. Fresh' = Fresh
    BY <2>1 DEF Fresh
  <2>3. Serving => Serving'
    BY <1>3, <1>4, AtType
    DEF Start, LoadRead, Recover, Drain, Kill, Killed, Stop, Serving, Stopping, MainType
  <2>4. OnOffer' \subseteq OnOffer
    <3>1. CASE Start
      BY <1>3, <2>1, <3>1, AtType DEF Start, OnOffer
    <3>2. CASE LoadRead
      BY <1>3, <2>1, <3>2 DEF LoadRead, OnOffer, MainType, poolVars
    <3>3. CASE Recover
      <4>1. PICK v : v = Head(main.copy)
        OBVIOUS
      <4>2. /\ main.at = "recover" /\ main' = [main EXCEPT !.copy = Tail(main.copy)]
            /\ main.copy # <<>>
            /\ warmFree' = warmFree \/ warmFree' = Append(warmFree, v)
        BY <3>3, <4>1 DEF Recover
      <4>3. /\ v \in VMs /\ Range(main.copy) = {v} \cup Range(Tail(main.copy))
            /\ warmFree \in Seq(VMs)
        BY <4>1, <4>2, FitTail, FitIsList DEF PoolInv, Lists
      <4>4. Range(warmFree') \subseteq Range(warmFree) \cup {v}
        BY <4>2, <4>3, RangeAppend
      <4>5. main'.at = "recover" /\ main'.copy = Tail(main.copy)
        BY <1>3, <4>2 DEF MainType
      <4> QED
        BY <4>2, <4>3, <4>4, <4>5 DEF OnOffer
    <3>4. CASE Drain \/ Kill \/ Killed \/ Stop
      <4>1. /\ main.at \notin {"down", "load", "recover"}
            /\ main'.at \notin {"down", "load", "recover"}
        BY <1>3, <3>4, AtType DEF Drain, Kill, Killed, Stop, MainType
      <4>2. warmFree' = warmFree \/ warmFree' = <<>>
        BY <3>4 DEF Drain, Kill, Killed, Stop, poolVars
      <4> QED
        BY <1>3, <4>1, <4>2 DEF OnOffer
    <3> QED
      BY <1>4, <3>1, <3>2, <3>3, <3>4
  <2> QED
    BY <1>2, <2>1, <2>2, <2>3, <2>4
<1>5. CASE LoadFails \/ Recovered
  <2>1. /\ pool' = pool /\ got' = got /\ warmFree' = warmFree /\ Serve
        /\ main' = At("serve") /\ main.at \in {"load", "recover"}
        /\ main.at = "recover" => main.copy = <<>>
    BY <1>5 DEF LoadFails, Recovered, poolVars, awsVars, histVars
  <2>2. main'.at = "serve" /\ Serving'
    BY <2>1, AtType DEF Serving
  <2>3. \A f \in Fillers : fill'[f].id = None
    BY <1>3, <2>1, FillerFits DEF Serve, PoolInv, Types
  <2>4. Fresh' = Fresh
    BY <1>3, <2>1, <2>3 DEF Fresh
  <2>5. OnOffer' \subseteq OnOffer
    BY <1>3, <2>1, <2>2 DEF OnOffer
  <2> QED
    BY <1>2, <2>1, <2>2, <2>4, <2>5
<1> QED
  BY <1>1, <1>4, <1>5 DEF Boot

LEMMA PromiseInit == Init => Promise!Init
<1> SUFFICES ASSUME Init PROVE Promise!Init
  OBVIOUS
<1>1. main.at = "down" /\ ~Serving
  BY AtType DEF Init, Serving, Stopping
<1>2. OnOffer = {}
  BY <1>1, EmptyFits DEF Init, OnOffer
<1>3. {fill[f].id : f \in Fillers} \ {None} = {}
  BY DEF Init, NoFiller
<1> QED
  BY <1>1, <1>2, <1>3 DEF Init, Promise!Init

LEMMA PromiseNext ==
  PoolInv /\ Issued /\ PoolInv' /\ Issued' /\ [Next]_vars
    => [Promise!Next]_Promise!promise
<1> SUFFICES ASSUME PoolInv, Issued, PoolInv', Issued', [Next]_vars,
                    "staleSave" \notin blame'
             PROVE  UNCHANGED Promise!promise \/ Promise!Next
  BY DEF Promise!Next
<1>1. "staleSave" \notin blame
  BY DEF Next, Boot, Fill, Taking, Start, LoadRead, LoadFails, Recover, Recovered, Stop,
         Drain, Kill, Killed, Exit, Quit, Crash, Check, Launch, LaunchRefused, LaunchFails,
         AppendFree, FillerCopies, FillerPatches, PopWarm, TakerCopies, TakerPatches,
         Adopt, AdoptFails, VmProgress, VmDrift, vars, histVars
<1>2. ASSUME Promise!Step PROVE Promise!Next
  BY <1>1, <1>2 DEF Promise!Next
<1>3. ASSUME main' = main, UNCHANGED <<pool, Fresh, OnOffer, got>>
      PROVE  UNCHANGED Promise!promise
  BY <1>1, <1>3 DEF Promise!promise, Fresh, Serving, Stopping
<1>4. CASE Boot \/ LoadFails \/ Stop \/ Quit \/ Crash
  BY <1>2, <1>3, <1>4, MainKeeps DEF Kept
<1>5. CASE \E f \in Fillers : Fill(f) \/ LaunchFails(f)
  BY <1>2, <1>3, <1>5, FillKeeps DEF Kept
<1>6. CASE \E s \in Takers : Taking(s)
  BY <1>2, <1>3, <1>6, TakeKeeps DEF Kept
<1>7. CASE \/ \E s \in Takers : AdoptFails(s)
           \/ \E v \in VMs : VmProgress(v) \/ VmDrift(v)
           \/ UNCHANGED vars
  <2>1. UNCHANGED <<warmFree, cm, main, fill, pool, got>>
    BY <1>7 DEF AdoptFails, VmProgress, VmDrift, vars, poolVars, awsVars, histVars
  <2>2. UNCHANGED <<Fresh, OnOffer>>
    BY <2>1 DEF Fresh, OnOffer
  <2> QED
    BY <1>3, <2>1, <2>2
<1> QED
  BY <1>4, <1>5, <1>6, <1>7 DEF Next

\* As long as no provider has died that left a stale list, every step of the
\* goroutines, the ConfigMap, the service and the deaths is one of the promise
\* or invisible, for any number of MicroVMs, Sandboxes and fillers.
THEOREM PromiseIsImplemented == Spec => ImplementsPromise
BY PromiseInit, PromiseNext, PoolHolds, IssuedHolds, PTL
DEF Spec, ImplementsPromise, Promise!Spec

\* What the promise keeps apart, unless it is excused.
PromiseInv ==
  "staleSave" \in blame \/
    /\ got \in [Takers -> SUBSET pool]
    /\ Fresh \subseteq pool /\ OnOffer \subseteq pool /\ Fresh \cap OnOffer = {}
    /\ \A s \in Takers : got[s] \cap (Fresh \cup OnOffer) = {}
    /\ \A s, t \in Takers : s # t => got[s] \cap got[t] = {}

\* The abstract specification is strong enough on its own: in none of its
\* behaviours is a MicroVM given to two Sandboxes before it is excused.
THEOREM PromiseGivesOnce == Promise!Spec => []Promise!GivenOnce
<1>1. Promise!Init => PromiseInv
  BY DEF Promise!Init, PromiseInv, Fresh
<1>2. PromiseInv /\ [Promise!Next]_Promise!promise => PromiseInv'
  <2> SUFFICES ASSUME PromiseInv, [Promise!Next]_Promise!promise, "staleSave" \notin blame'
               PROVE  PromiseInv'
    BY DEF PromiseInv
  <2>1. CASE UNCHANGED Promise!promise
    BY <2>1 DEF Promise!promise, PromiseInv, Fresh
  <2>2. CASE Promise!Next
    <3>1. "staleSave" \notin blame /\ Promise!Step
      BY <2>2 DEF Promise!Next
    <3>2. ASSUME NEW v \in VMs, Promise!Launch(v) PROVE PromiseInv'
      <4>1. /\ v \notin pool /\ pool' = pool \cup {v} /\ OnOffer' = OnOffer /\ got' = got
            /\ Fresh' \in {Fresh, Fresh \cup {v}}
        BY <3>2 DEF Promise!Launch, Fresh
      <4>2. got \in [Takers -> SUBSET pool] /\ \A s \in Takers : v \notin got[s]
        BY <3>1, <4>1 DEF PromiseInv
      <4>3. got' \in [Takers -> SUBSET pool']
        BY <4>1, <4>2
      <4> QED
        BY <3>1, <4>1, <4>2, <4>3 DEF PromiseInv
    <3>3. ASSUME NEW v \in VMs, Promise!Offer(v) PROVE PromiseInv'
      BY <3>1, <3>3 DEF PromiseInv, Promise!Offer, Fresh
    <3>4. ASSUME NEW s \in Takers, NEW v \in VMs, Promise!Take(s, v) PROVE PromiseInv'
      <4>1. /\ v \in OnOffer /\ OnOffer' = OnOffer \ {v} /\ pool' = pool
            /\ got' = [got EXCEPT ![s] = got[s] \cup {v}] /\ Fresh' = Fresh
        BY <3>4 DEF Promise!Take, Fresh
      <4>2. /\ got'[s] = got[s] \cup {v} /\ \A t \in Takers \ {s} : got'[t] = got[t]
            /\ got' \in [Takers -> SUBSET pool] /\ v \notin Fresh
            /\ \A t \in Takers : v \notin got[t]
        BY <3>1, <4>1 DEF PromiseInv
      <4>3. \A t \in Takers : got'[t] \cap (Fresh \cup OnOffer') = {}
        BY <3>1, <4>1, <4>2 DEF PromiseInv
      <4>4. \A t, u \in Takers : t # u => got'[t] \cap got'[u] = {}
        <5> SUFFICES ASSUME NEW t \in Takers, NEW u \in Takers, t # u
                     PROVE  got'[t] \cap got'[u] = {}
          OBVIOUS
        <5>1. got[t] \cap got[u] = {}
          BY <3>1 DEF PromiseInv
        <5> QED
          BY <4>2, <5>1
      <4> QED
        BY <3>1, <4>1, <4>2, <4>3, <4>4 DEF PromiseInv
    <3>5. CASE Promise!Drop
      BY <3>1, <3>5 DEF PromiseInv, Promise!Drop, Fresh
    <3>6. CASE Promise!Die
      <4>1. /\ pool' = pool /\ got' = got /\ Fresh' = {}
            /\ OnOffer' \subseteq pool \ UNION {got[s] : s \in Takers}
        BY <3>6 DEF Promise!Die, Promise!GivenToAny, Fresh
      <4>2. \A s \in Takers : got[s] \cap OnOffer' = {}
        BY <4>1
      <4> QED
        BY <3>1, <4>1, <4>2 DEF PromiseInv
    <3> QED
      BY <3>1, <3>2, <3>3, <3>4, <3>5, <3>6 DEF Promise!Step
  <2> QED
    BY <2>1, <2>2
<1>3. PromiseInv => Promise!GivenOnce
  BY DEF PromiseInv, Promise!GivenOnce
<1> QED
  BY <1>1, <1>2, <1>3, PTL DEF Promise!Spec
=============================================================================
