---------------------------- MODULE MCReconciler ----------------------------
(* Small instances of Reconciler for TLC. *)
EXTENDS Reconciler, TLC

CONSTANTS a, v1, v2, w1, w2

One == {a}
Nobody == {}
OneVM == {v1}
TwoVMs == {v1, v2}
OneWorker == {w1}
TwoWorkers == {w1, w2}
PoolStates == {"RUNNING"}

\* VMs and workers are interchangeable.
Symmetry == Permutations(VMs) \cup Permutations(Workers)

\* Bounds of the runs: user operations and mishaps.
Bound(ops, mishaps) == [ops |-> ops, mishaps |-> mishaps]

BudgetSafety == Bound(3, 2)
BudgetLiveness == Bound(3, 1)
BudgetCreate == Bound(1, 0)
BudgetDelete == Bound(2, 0)
BudgetAdopt == Bound(3, 0)
=============================================================================
