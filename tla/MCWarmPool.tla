----------------------------- MODULE MCWarmPool -----------------------------
(* Small instances of WarmPool for TLC. *)
EXTENDS WarmPool, TLC

CONSTANTS v1, v2, v3, s1, s2, f1, f2

TwoVMs == {v1, v2}
ThreeVMs == {v1, v2, v3}
TwoTakers == {s1, s2}
OneTaker == {s1}
TwoFillers == {f1, f2}

\* MicroVMs, Sandboxes and goroutines are interchangeable.
Symmetry == Permutations(VMs) \cup Permutations(Takers) \cup Permutations(Fillers)
=============================================================================
