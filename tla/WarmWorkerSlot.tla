---------------------------- MODULE WarmWorkerSlot ----------------------------
(* WarmWorker implements the contract of ModelSlot. *)
EXTENDS WarmWorkerInv

\* The slot is in use while a task holds its lock; close() is no use of it.
SlotView == IF lock \in Calls THEN "busy" ELSE IF process = None THEN "cold" ELSE "warm"

Won == {c \in Calls : pc[c] = "succeeded"}

Slot == INSTANCE ModelSlot WITH slot <- SlotView, won <- Won

\* A slot that a task works with for a result is open: close(), and every
\* reap that was not confirmed, has stopped that work.
OpenAtWork ==
  \A c \in Calls : pc[c] \in Waiting \cup {"creating"} => ~closed

\* Every step of the transport is a move of the slot's contract: a call
\* succeeds only by leaving an open slot with its child, every failure leaves
\* no child or a closed slot, and a closed slot serves nobody again, however
\* calls, cancellations, failing reaps and close() interleave.
Contract == Slot!Spec
=============================================================================
