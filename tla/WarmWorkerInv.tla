---------------------------- MODULE WarmWorkerInv ----------------------------
(* The inductive invariant of WarmWorker: what the proofs rest on, checked by *)
(* TLC together with the safety properties it implies.                        *)
EXTENDS WarmWorker

\* The slot's lock is held by exactly the actor between its await points.
LockHeld ==
  /\ \A a \in Actors : pc[a] \in Holding => lock = a
  /\ lock # None => pc[lock] \in Holding

\* What the place of an actor says of the attached child.
ChildAttached ==
  /\ \A c \in Calls : pc[c] \in Creating => process = None
  /\ \A a \in Actors : pc[a] \in Waiting \cup Reaping => process # None
  /\ process # None => os[process] # "unborn"
  /\ \A c \in Calls : pc[c] \in {"new", "queued"} => os[c] = "unborn"
  /\ \A g \in Calls : os[g] \in Alive => process = g \/ pc[g] \in Creating

\* The stages of close().
CloseStages ==
  /\ pc[Closer] \in {"new", "draining", "reaping"} \cup Ended
  /\ \A c \in Calls : pc[c] # "draining"
  /\ pc[Closer] # "new" => closed
  /\ pc[Closer] \in {"reaping"} \cup Ended => \A c \in Calls : pc[c] \in {"new"} \cup Ended
  /\ pc[Closer] = "succeeded" => process = None

\* The scratch is empty whenever a launch may follow.
ScratchReady ==
  /\ process = None /\ lock = None /\ ~closed => scratch = "clean"
  /\ \A c \in Calls : pc[c] \in Creating /\ os[c] = "unborn" => scratch = "clean"

\* How far a call has come, and what a successful translate has read.
CallProgress ==
  /\ \A c \in Calls : call[c] = "none" => pc[c] = "new"
  /\ \A c \in Calls : call[c] = "returned" => pc[c] = "succeeded"
  /\ \A c \in Calls : pc[c] = "response" => kind[c] = "translate"
  /\ \A c \in Calls : pc[c] = "succeeded" /\ kind[c] = "translate" => answer[c] = c

BoundFrame == {f \in Frame : f.text = f.nonce}
UnreadyFrame == {f \in Frame : f.type # "ready"}

\* What the frames on the pipes, and a warm slot, say of the child's revision.
PipesHonest ==
  /\ \A g \in Calls : outbox[g] \in Seq(BoundFrame)
  /\ \A g \in Calls : os[g] \in {"unborn", "loading"} => outbox[g] = <<>>
  /\ \A g \in Calls : os[g] = "impostor" => outbox[g] \in Seq(UnreadyFrame)
  /\ \A g \in Calls : os[g] \in {"unborn", "loading", "impostor"} => inbox[g] = <<>>
  /\ process # None /\ lock = None /\ ~closed => os[process] \notin {"loading", "impostor"}
  /\ \A c \in Calls : pc[c] = "response" => os[process] \notin {"loading", "impostor"}

\* The conjunction the proofs use: each part is needed to carry the others
\* over a step, and together they give every safety property above.
IInv ==
  /\ TypeOK
  /\ LockHeld
  /\ ChildAttached
  /\ CloseStages
  /\ ScratchReady
  /\ CallProgress
  /\ PipesHonest
=============================================================================
