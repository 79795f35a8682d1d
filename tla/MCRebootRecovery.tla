-------------------------- MODULE MCRebootRecovery --------------------------
(* Model checking of RebootRecovery on a small instance.  No symmetry: the *)
(* run checks a liveness property.                                         *)
EXTENDS RebootRecovery
=============================================================================
