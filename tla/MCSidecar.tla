------------------------------ MODULE MCSidecar ------------------------------
(* Instances of Sidecar for TLC: workers and requests are interchangeable. *)
EXTENDS Sidecar, TLC

PoolSymmetry == Permutations(Workers) \cup Permutations(Requests)
=============================================================================
