---------------------------- MODULE MCWarmWorker ----------------------------
(* An instance of WarmWorker for TLC: two calls and a close, which is enough *)
(* for one call to meet the remains of another while the slot closes.  The   *)
(* safety properties are proved for every set of calls (WarmWorkerProofs).   *)
EXTENDS WarmWorkerSlot
=============================================================================
