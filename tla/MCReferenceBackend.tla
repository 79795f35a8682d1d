------------------------- MODULE MCReferenceBackend -------------------------
(* Model checking of ReferenceBackend on a small instance. *)
EXTENDS ReferenceBackend, TLC

JobSymmetry == Permutations(Jobs)
=============================================================================
