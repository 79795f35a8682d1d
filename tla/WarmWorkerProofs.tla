-------------------------- MODULE WarmWorkerProofs --------------------------
(***************************************************************************)
(* For every set of calls: the inductive invariant IInv of WarmWorker, and *)
(* from it the slot's safety properties.  One lemma per action carries     *)
(* IInv over the action, one step per conjunct; the lemmas before them say *)
(* what the operators shared by several actions do.  At the end, that      *)
(* WarmWorker implements ModelSlot: each of its steps is a move of the     *)
(* slot or leaves the slot's view alone.                                   *)
(***************************************************************************)
EXTENDS WarmWorkerSlot, TLAPS

USE ActorsDistinct

-----------------------------------------------------------------------------
(* Pipes and frames *)

\* A pipe whose content is replaced keeps its type, on standard input ...
LEMMA InboxUpdate ==
  ASSUME TypeOK, NEW g \in Calls, NEW s \in Seq(Calls),
         inbox' = inbox \/ inbox' = [inbox EXCEPT ![g] = s]
  PROVE  inbox' \in [Calls -> Seq(Calls)]
BY DEF TypeOK

\* ... and on standard output.
LEMMA OutboxUpdate ==
  ASSUME TypeOK, NEW g \in Calls, NEW s \in Seq(Frame),
         outbox' = outbox \/ outbox' = [outbox EXCEPT ![g] = s]
  PROVE  outbox' \in [Calls -> Seq(Frame)]
BY DEF TypeOK

\* Sequences: what appending, concatenating and reading one element keep.
LEMMA SeqStep ==
  ASSUME NEW S, NEW s \in Seq(S), NEW x \in S
  PROVE  /\ <<>> \in Seq(S)
         /\ Append(s, x) \in Seq(S)
         /\ s \o <<x>> \in Seq(S)
         /\ s \o <<x, x>> \in Seq(S)
         /\ s # <<>> => Head(s) \in S /\ Tail(s) \in Seq(S)
<1>1. <<x>> \in Seq(S) /\ <<x, x>> \in Seq(S)
  OBVIOUS
<1>2. \A t \in Seq(S) : s \o t \in Seq(S)
  OBVIOUS
<1>3. <<>> \in Seq(S) /\ Append(s, x) \in Seq(S)
  OBVIOUS
<1>4. s # <<>> => Head(s) \in S /\ Tail(s) \in Seq(S)
  OBVIOUS
<1> QED BY <1>1, <1>2, <1>3, <1>4

\* Every frame a child writes binds its text to the nonce it echoes, and only
\* a child of this release writes "ready".
LEMMA Frames ==
  /\ Ready("ready") \in BoundFrame
  /\ Ready("otherRevision") \in BoundFrame \cap UnreadyFrame
  /\ \A n \in Calls \cup {None} : Response(n, n) \in BoundFrame \cap UnreadyFrame
  /\ BoundFrame \subseteq Frame /\ UnreadyFrame \subseteq Frame
BY DEF Ready, Response, BoundFrame, UnreadyFrame, Frame

-----------------------------------------------------------------------------
(* Places and the lock *)

\* A cancelled task is at a place of its own, and takes or gives no lock.
LEMMA CancelledPlace ==
  ASSUME NEW p \in Places
  PROVE  /\ Cancelled(p) \in Places
         /\ Cancelled(p) \in Holding <=> p \in Holding
         /\ Cancelled(p) \in Creating <=> p \in Creating
         /\ Cancelled(p) \in Ended => p \in Ended \cup {"queued"}
         /\ Cancelled(p) \in Reaping => p \in Reaping \cup Waiting
         /\ \A q \in {"new", "draining", "succeeded"} : Cancelled(p) = q <=> p = q
         /\ Cancelled(p) \notin Waiting \cup {"queued"}
         /\ p \in Ended => Cancelled(p) = p
BY DEF Cancelled, Places, Holding, Reaping, Waiting, Creating, Ended

\* An actor that has the lock, or takes it free, moves and keeps it exactly
\* when its new place is one that holds it.
LEMMA LockPasses ==
  ASSUME TypeOK, LockHeld, NEW a \in Actors, lock \in {a, None},
         NEW p \in Places, pc' = [pc EXCEPT ![a] = p],
         lock' = IF p \in Holding THEN a ELSE None
  PROVE  LockHeld'
BY DEF TypeOK, LockHeld, Actors

\* A call that has not ended changes place: the stages of close() stand.
LEMMA TaskMoves ==
  ASSUME IInv, NEW c \in Calls, pc[c] \notin {"new"} \cup Ended,
         NEW p \in Places \ {"draining"}, pc' = [pc EXCEPT ![c] = p],
         closed => closed'
  PROVE  CloseStages'
BY DEF IInv, TypeOK, CloseStages, Actors

\* Abandoning an attempt leaves the call failed, or reaping its child under the
\* lock: what the slot and the pipes held stands.
LEMMA AbandonEffect ==
  ASSUME IInv, NEW c \in Calls, lock \in {c, None}, Abandon(c)
  PROVE  /\ pc' \in [Actors -> Places]
         /\ lock' \in {c, None}
         /\ LockHeld'
         /\ \E p \in {"failed", "reaping"} : pc' = [pc EXCEPT ![c] = p]
<1> DEFINE p == IF process = None THEN "failed" ELSE "reaping"
<1>1. /\ p \in Places
      /\ pc' = [pc EXCEPT ![c] = p]
      /\ lock' = IF p \in Holding THEN c ELSE None
  BY DEF Abandon, Leave, Places, Holding, Reaping, Waiting, Creating, Ended
<1>2. LockHeld'
  BY <1>1, LockPasses DEF IInv, Actors
<1> QED BY <1>1, <1>2 DEF IInv, TypeOK, Actors

\* Proceeding with a warm child either ends a startup in success or writes the
\* request of a translate to the attached child's standard input.
LEMMA ProceedEffect ==
  ASSUME IInv, NEW c \in Calls, NEW child \in Calls, lock \in {c, None},
         Proceed(c, child)
  PROVE  /\ pc' \in [Actors -> Places]
         /\ lock' \in {c, None}
         /\ LockHeld'
         /\ inbox' \in [Calls -> Seq(Calls)]
         /\ \E p \in {"succeeded", "response"} : pc' = [pc EXCEPT ![c] = p]
<1> DEFINE p == IF kind[c] = "startup" THEN "succeeded" ELSE "response"
<1>1. /\ p \in Places
      /\ pc' = [pc EXCEPT ![c] = p]
      /\ lock' = IF p \in Holding THEN c ELSE None
  BY DEF Proceed, Leave, Places, Holding, Reaping, Waiting, Creating, Ended
<1>2. LockHeld'
  BY <1>1, LockPasses DEF IInv, Actors
<1>3. inbox' = inbox \/ inbox' = [inbox EXCEPT ![child] = Append(inbox[child], c)]
  BY DEF Proceed
<1>4. Append(inbox[child], c) \in Seq(Calls)
  BY SeqStep DEF IInv, TypeOK
<1>5. inbox' \in [Calls -> Seq(Calls)]
  BY <1>3, <1>4, InboxUpdate DEF IInv
<1> QED BY <1>1, <1>2, <1>5 DEF IInv, TypeOK, Actors

-----------------------------------------------------------------------------
(* One lemma per action *)

\* A public call that starts its task, or is refused at once, keeps IInv.
LEMMA RunStep ==
  ASSUME IInv, NEW c \in Calls, Run(c)
  PROVE  IInv'
<1> USE DEF IInv, Actors, Places, Holding, Reaping, Waiting, Creating, Ended,
            Running, Alive
<1>a. UNCHANGED <<closed, process, lock, answer, os, inbox, outbox, scratch>>
  BY DEF Run, slotVars, childVars
<1>b. \/ closed /\ pc' = pc /\ call' = [call EXCEPT ![c] = "raised"]
      \/ ~closed /\ pc' = [pc EXCEPT ![c] = "queued"] /\ call' = [call EXCEPT ![c] = "running"]
  BY DEF Run
<1>c. pc[c] = "new" /\ \A d \in Calls \ {c} : kind'[d] = kind[d]
  BY DEF Run, TypeOK, CallProgress
<1>1. TypeOK'
  <2>1. \E k \in {"startup", "translate"} : kind' = [kind EXCEPT ![c] = k]
    BY DEF Run
  <2>2. \E q \in SUBSET Calls : ahead' = ahead \/ ahead' = [ahead EXCEPT ![c] = q]
    BY DEF Run
  <2>3. kind' \in [Calls -> {"startup", "translate"}]
    BY <2>1 DEF TypeOK
  <2>4. ahead' \in [Calls -> SUBSET Calls]
    BY <2>2 DEF TypeOK
  <2>5. pc' \in [Actors -> Places]
    BY <1>b DEF TypeOK
  <2>6. call' \in [Calls -> {"none", "running", "returned", "raised"}]
    BY <1>b DEF TypeOK
  <2> QED BY <1>a, <2>3, <2>4, <2>5, <2>6 DEF TypeOK
<1>2. LockHeld'
  BY <1>a, <1>b, <1>c DEF TypeOK, LockHeld
<1>3. ChildAttached'
  <2>1. pc'[c] \in {"new", "queued"} /\ \A a \in Actors \ {c} : pc'[a] = pc[a]
    BY <1>b, <1>c DEF TypeOK
  <2> QED BY <1>a, <1>c, <2>1 DEF ChildAttached
<1>4. CloseStages'
  BY <1>a, <1>b, <1>c DEF TypeOK, CloseStages
<1>5. ScratchReady'
  BY <1>a, <1>b, <1>c DEF TypeOK, ScratchReady
<1>6. CallProgress'
  <2>1. \A d \in Calls \ {c} : pc'[d] = pc[d] /\ call'[d] = call[d]
    BY <1>b DEF TypeOK
  <2>2. call'[c] \in {"raised", "running"} /\ pc'[c] \in {"new", "queued"}
    BY <1>b, <1>c DEF TypeOK
  <2> QED BY <1>a, <1>c, <2>1, <2>2 DEF CallProgress
<1>7. PipesHonest'
  BY <1>a, <1>b, <1>c DEF TypeOK, PipesHonest
<1> QED BY <1>1, <1>2, <1>3, <1>4, <1>5, <1>6, <1>7

\* So does a cancellation or the deadline, wherever it meets the task,
LEMMA InterruptStep ==
  ASSUME IInv, NEW c \in Calls, Interrupt(c)
  PROVE  IInv'
<1> USE DEF IInv, Actors, Places, Holding, Reaping, Waiting, Creating, Ended,
            Running, Alive
<1>a. UNCHANGED <<closed, process, lock, kind, ahead, answer, os, inbox, outbox, scratch>>
  BY DEF Interrupt, slotVars, childVars
<1>b. \/ /\ pc[c] \notin Ended
         /\ pc' = [pc EXCEPT ![c] = Cancelled(pc[c])]
         /\ call' = call
      \/ /\ pc' = pc
         /\ call' = [call EXCEPT ![c] = "raised"]
  BY DEF Interrupt
<1>c. pc[c] \in Places /\ pc'[c] \in {pc[c], Cancelled(pc[c])} /\ \A a \in Actors \ {c} : pc'[a] = pc[a]
  BY <1>b DEF TypeOK
<1>1. TypeOK'
  <2>1. Cancelled(pc[c]) \in Places
    BY <1>c, CancelledPlace
  <2>2. pc' \in [Actors -> Places]
    BY <1>b, <2>1 DEF TypeOK
  <2>3. call' \in [Calls -> {"none", "running", "returned", "raised"}]
    BY <1>b DEF TypeOK
  <2> QED BY <1>a, <2>2, <2>3 DEF TypeOK
<1>2. LockHeld'
  BY DEF TypeOK, LockHeld, CloseStages, Interrupt, Cancelled, slotVars, taskVars, childVars
<1>3. ChildAttached'
  <2>1. CASE pc'[c] = pc[c]
    BY <1>a, <1>c, <2>1 DEF ChildAttached
  <2>2. CASE pc'[c] = Cancelled(pc[c])
    <3>1. /\ Cancelled(pc[c]) \in Creating <=> pc[c] \in Creating
          /\ Cancelled(pc[c]) \in Reaping => pc[c] \in Reaping \cup Waiting
          /\ Cancelled(pc[c]) = "new" => pc[c] = "new"
          /\ Cancelled(pc[c]) \notin Waiting \cup {"queued"}
      BY <1>c, CancelledPlace
    <3> QED BY <1>a, <1>c, <2>2, <3>1 DEF ChildAttached
  <2> QED BY <1>c, <2>1, <2>2
<1>4. CloseStages'
  BY DEF TypeOK, LockHeld, ChildAttached, CloseStages, Interrupt, Cancelled, slotVars, taskVars, childVars
<1>5. ScratchReady'
  BY DEF TypeOK, LockHeld, ChildAttached, CloseStages, ScratchReady, Interrupt, Cancelled, slotVars, taskVars, childVars
<1>6. CallProgress'
  BY DEF TypeOK, CallProgress, CloseStages, Interrupt, Cancelled, slotVars, taskVars, childVars
<1>7. PipesHonest'
  BY DEF TypeOK, LockHeld, ChildAttached, PipesHonest, Interrupt, Cancelled, slotVars, taskVars, childVars
<1> QED BY <1>1, <1>2, <1>3, <1>4, <1>5, <1>6, <1>7

\* and the caller's return with what the task left.
LEMMA ReturnStep ==
  ASSUME IInv, NEW c \in Calls, Return(c)
  PROVE  IInv'
<1> USE DEF IInv, Actors, Places, Holding, Reaping, Waiting, Creating, Ended,
            Running, Alive
<1>1. TypeOK'
  BY DEF TypeOK, ChildAttached, Return, slotVars, taskVars, childVars
<1>2. LockHeld'
  BY DEF TypeOK, LockHeld, CloseStages, Return, slotVars, taskVars, childVars
<1>3. ChildAttached'
  BY DEF TypeOK, LockHeld, ChildAttached, CloseStages, Return, slotVars, taskVars, childVars
<1>4. CloseStages'
  BY DEF TypeOK, LockHeld, ChildAttached, CloseStages, Return, slotVars, taskVars, childVars
<1>5. ScratchReady'
  BY DEF TypeOK, LockHeld, ChildAttached, CloseStages, ScratchReady, Return, slotVars, taskVars, childVars
<1>6. CallProgress'
  BY DEF TypeOK, CallProgress, CloseStages, Return, slotVars, taskVars, childVars
<1>7. PipesHonest'
  BY DEF TypeOK, LockHeld, ChildAttached, PipesHonest, Return, slotVars, taskVars, childVars
<1> QED BY <1>1, <1>2, <1>3, <1>4, <1>5, <1>6, <1>7

\* Taking the lock: the checks of _operate, and the decision to launch, keep IInv.
LEMMA AcquireStep ==
  ASSUME IInv, NEW c \in Calls, Acquire(c)
  PROVE  IInv'
<1> USE DEF IInv, Actors, Places, Holding, Reaping, Waiting, Creating, Ended,
            Running, Alive
<1> DEFINE Begin == /\ process = None
                    /\ pc' = [pc EXCEPT ![c] = "creating"]
                    /\ lock' = c
                    /\ UNCHANGED inbox
<1>a. /\ lock = None
      /\ \/ Abandon(c) /\ UNCHANGED inbox
         \/ process \in Calls /\ Proceed(c, process)
         \/ Begin
      /\ UNCHANGED <<closed, process, kind, ahead, call, answer, os, outbox, scratch>>
  BY DEF Acquire, TypeOK
<1>1. TypeOK'
  <2>1. CASE Abandon(c) /\ UNCHANGED inbox
    BY <1>a, <2>1, AbandonEffect DEF TypeOK
  <2>2. CASE process \in Calls /\ Proceed(c, process)
    BY <1>a, <2>2, ProceedEffect DEF TypeOK
  <2>3. CASE Begin
    BY <1>a, <2>3 DEF TypeOK
  <2> QED BY <1>a, <2>1, <2>2, <2>3
<1>2. LockHeld'
  BY DEF TypeOK, LockHeld, CloseStages, Acquire, Abandon, Proceed, Leave, slotVars, taskVars, childVars
<1>3. ChildAttached'
  BY DEF TypeOK, LockHeld, ChildAttached, CloseStages, Acquire, Abandon, Proceed, Leave, slotVars, taskVars, childVars
<1>4. CloseStages'
  <2>1. \E p \in Places \ {"draining"} : pc' = [pc EXCEPT ![c] = p]
    BY <1>a, AbandonEffect, ProceedEffect
  <2> QED BY <2>1, TaskMoves DEF Acquire
<1>5. ScratchReady'
  BY DEF TypeOK, LockHeld, ChildAttached, CloseStages, ScratchReady, Acquire, Abandon, Proceed, Leave, slotVars, taskVars, childVars
<1>6. CallProgress'
  BY DEF TypeOK, CallProgress, CloseStages, Acquire, Abandon, Proceed, Leave, slotVars, taskVars, childVars
<1>7. PipesHonest'
  BY DEF TypeOK, LockHeld, ChildAttached, PipesHonest, Acquire, Abandon, Proceed, Leave, slotVars, taskVars, childVars
<1> QED BY <1>1, <1>2, <1>3, <1>4, <1>5, <1>6, <1>7

\* The launch itself, into a scratch that the lock's holder found empty, keeps IInv,
LEMMA SpawnStep ==
  ASSUME IInv, NEW c \in Calls, Spawn(c)
  PROVE  IInv'
<1> USE DEF IInv, Actors, Places, Holding, Reaping, Waiting, Creating, Ended,
            Running, Alive
<1>1. TypeOK'
  BY DEF TypeOK, ChildAttached, Spawn, slotVars, taskVars, childVars
<1>2. LockHeld'
  BY DEF TypeOK, LockHeld, CloseStages, Spawn, slotVars, taskVars, childVars
<1>3. ChildAttached'
  BY DEF TypeOK, LockHeld, ChildAttached, CloseStages, Spawn, slotVars, taskVars, childVars
<1>4. CloseStages'
  BY DEF TypeOK, LockHeld, ChildAttached, CloseStages, Spawn, slotVars, taskVars, childVars
<1>5. ScratchReady'
  BY DEF TypeOK, LockHeld, ChildAttached, CloseStages, ScratchReady, Spawn, slotVars, taskVars, childVars
<1>6. CallProgress'
  BY DEF TypeOK, CallProgress, CloseStages, Spawn, slotVars, taskVars, childVars
<1>7. PipesHonest'
  BY DEF TypeOK, LockHeld, ChildAttached, PipesHonest, Spawn, slotVars, taskVars, childVars
<1> QED BY <1>1, <1>2, <1>3, <1>4, <1>5, <1>6, <1>7

\* as does a launch that fails,
LEMMA SpawnFailsStep ==
  ASSUME IInv, NEW c \in Calls, SpawnFails(c)
  PROVE  IInv'
<1> USE DEF IInv, Actors, Places, Holding, Reaping, Waiting, Creating, Ended,
            Running, Alive
<1>1. TypeOK'
  BY AbandonEffect DEF TypeOK, LockHeld, SpawnFails, childVars
<1>2. LockHeld'
  BY AbandonEffect DEF LockHeld, SpawnFails
<1>3. ChildAttached'
  <2>1. \E p \in {"failed", "reaping"} : pc' = [pc EXCEPT ![c] = p]
    BY AbandonEffect DEF LockHeld, SpawnFails
  <2>2. process = None /\ process' = None /\ os' = os /\ pc'[c] = "failed" /\ os[c] = "unborn"
    BY DEF SpawnFails, Abandon, Leave, TypeOK, ChildAttached, childVars
  <2> QED BY <2>1, <2>2 DEF TypeOK, ChildAttached
<1>4. CloseStages'
  BY DEF TypeOK, LockHeld, ChildAttached, CloseStages, SpawnFails, Abandon, Leave, slotVars, taskVars, childVars
<1>5. ScratchReady'
  BY DEF TypeOK, LockHeld, ChildAttached, CloseStages, ScratchReady, SpawnFails, Abandon, Leave, slotVars, taskVars, childVars
<1>6. CallProgress'
  BY DEF TypeOK, CallProgress, CloseStages, SpawnFails, Abandon, Leave, slotVars, taskVars, childVars
<1>7. PipesHonest'
  BY DEF TypeOK, LockHeld, ChildAttached, PipesHonest, SpawnFails, Abandon, Leave, slotVars, taskVars, childVars
<1> QED BY <1>1, <1>2, <1>3, <1>4, <1>5, <1>6, <1>7

\* and the return of the launch, which attaches the child or reaps it.
LEMMA CreatedStep ==
  ASSUME IInv, NEW c \in Calls, Created(c)
  PROVE  IInv'
<1> USE DEF IInv, Actors, Places, Holding, Reaping, Waiting, Creating, Ended,
            Running, Alive
<1>1. TypeOK'
  BY DEF TypeOK, ChildAttached, Created, slotVars, taskVars, childVars
<1>2. LockHeld'
  BY DEF TypeOK, LockHeld, CloseStages, Created, slotVars, taskVars, childVars
<1>3. ChildAttached'
  BY DEF TypeOK, LockHeld, ChildAttached, CloseStages, Created, slotVars, taskVars, childVars
<1>4. CloseStages'
  BY DEF TypeOK, LockHeld, ChildAttached, CloseStages, Created, slotVars, taskVars, childVars
<1>5. ScratchReady'
  BY DEF TypeOK, LockHeld, ChildAttached, CloseStages, ScratchReady, Created, slotVars, taskVars, childVars
<1>6. CallProgress'
  BY DEF TypeOK, CallProgress, CloseStages, Created, slotVars, taskVars, childVars
<1>7. PipesHonest'
  BY DEF TypeOK, LockHeld, ChildAttached, PipesHonest, Created, slotVars, taskVars, childVars
<1> QED BY <1>1, <1>2, <1>3, <1>4, <1>5, <1>6, <1>7

\* A readiness frame moves the call on only if it is of this release; keeps IInv.
LEMMA ReadReadinessStep ==
  ASSUME IInv, NEW c \in Calls, ReadReadiness(c)
  PROVE  IInv'
<1> USE DEF IInv, Actors, Places, Holding, Reaping, Waiting, Creating, Ended,
            Running, Alive
<1>a. /\ process \in Calls
      /\ lock = c
      /\ Tail(outbox[process]) \in Seq(Frame)
      /\ Tail(outbox[process]) \in Seq(BoundFrame)
      /\ Head(outbox[process]) \in Frame
  BY SeqStep DEF TypeOK, ChildAttached, LockHeld, PipesHonest, ReadReadiness
<1>1. TypeOK'
  <2>1. pc' \in [Actors -> Places] /\ lock' \in Actors \cup {None} /\ inbox' \in [Calls -> Seq(Calls)]
    BY <1>a, AbandonEffect, ProceedEffect DEF TypeOK, ReadReadiness
  <2>2. outbox' \in [Calls -> Seq(Frame)]
    BY <1>a, OutboxUpdate DEF ReadReadiness
  <2> QED BY <2>1, <2>2 DEF TypeOK, ReadReadiness
<1>2. LockHeld'
  BY <1>a, AbandonEffect, ProceedEffect DEF ReadReadiness
<1>3. ChildAttached'
  BY DEF TypeOK, LockHeld, ChildAttached, CloseStages, ReadReadiness, Abandon, Proceed, Leave, slotVars, taskVars, childVars
<1>4. CloseStages'
  <2>1. \E p \in Places \ {"draining"} : pc' = [pc EXCEPT ![c] = p]
    BY <1>a, AbandonEffect, ProceedEffect DEF ReadReadiness
  <2> QED BY <2>1, TaskMoves DEF ReadReadiness
<1>5. ScratchReady'
  BY DEF TypeOK, LockHeld, ChildAttached, CloseStages, ScratchReady, ReadReadiness, Abandon, Proceed, Leave, slotVars, taskVars, childVars
<1>6. CallProgress'
  BY DEF TypeOK, CallProgress, CloseStages, ReadReadiness, Abandon, Proceed, Leave, slotVars, taskVars, childVars
<1>7. PipesHonest'
  <2>1. outbox' = [outbox EXCEPT ![process] = Tail(outbox[process])]
    BY DEF ReadReadiness
  <2>2. Head(outbox[process]).type = "ready" => os[process] \notin {"unborn", "loading", "impostor"}
    <3>1. ASSUME os[process] = "impostor" PROVE Head(outbox[process]) \in UnreadyFrame
      BY <1>a, <3>1, SeqStep DEF PipesHonest, ReadReadiness
    <3> QED BY <1>a, <3>1 DEF PipesHonest, ReadReadiness, UnreadyFrame
  <2>3. \A g \in Calls : os[g] = "impostor" => outbox'[g] \in Seq(UnreadyFrame)
    BY <1>a, <2>1, SeqStep DEF TypeOK, PipesHonest, ReadReadiness
  <2>4. CASE Head(outbox[process]).type = "ready"
    <3>1. Proceed(c, process) /\ UNCHANGED <<closed, process, os>>
      BY <2>4 DEF ReadReadiness
    <3>2. \A g \in Calls : os[g] \in {"unborn", "loading", "impostor"} => inbox'[g] = <<>>
      BY <1>a, <2>2, <2>4, <3>1 DEF Proceed, TypeOK, PipesHonest
    <3> QED BY <1>a, <2>1, <2>2, <2>3, <2>4, <3>1, <3>2 DEF TypeOK, PipesHonest
  <2>5. CASE Head(outbox[process]).type # "ready"
    <3>1. Abandon(c) /\ UNCHANGED <<closed, process, os, inbox>>
      BY <2>5 DEF ReadReadiness
    <3> QED BY <1>a, <2>1, <2>3, <3>1 DEF Abandon, TypeOK, LockHeld, PipesHonest
  <2> QED BY <2>4, <2>5
<1> QED BY <1>1, <1>2, <1>3, <1>4, <1>5, <1>6, <1>7

\* A response frame ends the call only if it echoes its nonce; keeps IInv.
LEMMA ReadResponseStep ==
  ASSUME IInv, NEW c \in Calls, ReadResponse(c)
  PROVE  IInv'
<1> USE DEF IInv, Actors, Places, Holding, Reaping, Waiting, Creating, Ended,
            Running, Alive
<1>a. /\ process \in Calls
      /\ lock = c
      /\ Tail(outbox[process]) \in Seq(Frame)
      /\ Tail(outbox[process]) \in Seq(BoundFrame)
      /\ Head(outbox[process]) \in BoundFrame
  BY SeqStep DEF TypeOK, ChildAttached, LockHeld, PipesHonest, ReadResponse, Leave
<1>b. \/ /\ pc' = [pc EXCEPT ![c] = "succeeded"]
         /\ lock' = None
         /\ answer' = [answer EXCEPT ![c] = c]
      \/ Abandon(c) /\ UNCHANGED answer
  BY <1>a DEF ReadResponse, BoundFrame, Leave

<1>c. \E p \in {"succeeded", "failed", "reaping"} : pc' = [pc EXCEPT ![c] = p]
  BY <1>a, <1>b, AbandonEffect
<1>1. TypeOK'
  <2>1. pc' \in [Actors -> Places]
    BY <1>c DEF TypeOK
  <2>2. lock' \in Actors \cup {None}
    BY <1>a, <1>b, AbandonEffect
  <2>3. answer' \in [Calls -> Calls \cup {None}]
    BY <1>b DEF TypeOK
  <2>4. outbox' \in [Calls -> Seq(Frame)]
    BY <1>a, OutboxUpdate DEF ReadResponse, Leave
  <2> QED BY <2>1, <2>2, <2>3, <2>4 DEF TypeOK, ReadResponse, Leave
<1>2. LockHeld'
  <2>1. ASSUME pc' = [pc EXCEPT ![c] = "succeeded"], lock' = None PROVE LockHeld'
    BY <1>a, <2>1, LockPasses
  <2> QED BY <1>a, <1>b, <2>1, AbandonEffect
<1>3. ChildAttached'
  BY DEF TypeOK, LockHeld, ChildAttached, CloseStages, ReadResponse, Abandon, Leave, slotVars, taskVars, childVars
<1>4. CloseStages'
  BY <1>c, TaskMoves DEF ReadResponse, Leave
<1>5. ScratchReady'
  BY DEF TypeOK, LockHeld, ChildAttached, CloseStages, ScratchReady, ReadResponse, Abandon, Leave, slotVars, taskVars, childVars
<1>6. CallProgress'
  <2>1. UNCHANGED <<kind, call>> /\ pc[c] = "response"
    BY DEF ReadResponse, Leave
  <2>2. \A d \in Calls \ {c} : pc'[d] = pc[d] /\ answer'[d] = answer[d]
    BY <1>b, <1>c DEF TypeOK
  <2>3. pc'[c] \in {"succeeded", "failed", "reaping"} /\ (pc'[c] = "succeeded" => answer'[c] = c)
    BY <1>b, <1>c DEF TypeOK, Abandon, Leave
  <2> QED BY <2>1, <2>2, <2>3 DEF CallProgress
<1>7. PipesHonest'
  <2>1. outbox' = [outbox EXCEPT ![process] = Tail(outbox[process])] /\ UNCHANGED <<closed, process, os, inbox>>
    BY DEF ReadResponse, Leave
  <2>2. /\ \A g \in Calls : os[g] = "impostor" => outbox'[g] \in Seq(UnreadyFrame)
        /\ \A g \in Calls : outbox'[g] \in Seq(BoundFrame)
        /\ \A g \in Calls : os[g] \in {"unborn", "loading"} => outbox'[g] = <<>>
    BY <1>a, <2>1, SeqStep DEF TypeOK, PipesHonest, ReadResponse, Leave
  <2>3. os[process] \notin {"loading", "impostor"}
    BY DEF PipesHonest, ReadResponse, Leave
  <2>4. \A d \in Calls : pc'[d] = "response" => pc[d] = "response"
    BY <1>b DEF TypeOK, Abandon, Leave
  <2> QED BY <2>1, <2>2, <2>3, <2>4 DEF PipesHonest
<1> QED BY <1>1, <1>2, <1>3, <1>4, <1>5, <1>6, <1>7

\* The end of the child's output, in place of a frame, keeps IInv.
LEMMA ReadEndsStep ==
  ASSUME IInv, NEW c \in Calls, ReadEnds(c)
  PROVE  IInv'
<1> USE DEF IInv, Actors, Places, Holding, Reaping, Waiting, Creating, Ended,
            Running, Alive
<1>1. TypeOK'
  BY AbandonEffect DEF TypeOK, LockHeld, ReadEnds, childVars
<1>2. LockHeld'
  BY AbandonEffect DEF LockHeld, ReadEnds
<1>3. ChildAttached'
  BY DEF TypeOK, LockHeld, ChildAttached, CloseStages, ReadEnds, Abandon, Leave, slotVars, taskVars, childVars
<1>4. CloseStages'
  <2>1. \E p \in {"failed", "reaping"} : pc' = [pc EXCEPT ![c] = p]
    BY AbandonEffect DEF LockHeld, ReadEnds
  <2> QED BY <2>1, TaskMoves DEF ReadEnds
<1>5. ScratchReady'
  BY DEF TypeOK, LockHeld, ChildAttached, CloseStages, ScratchReady, ReadEnds, Abandon, Leave, slotVars, taskVars, childVars
<1>6. CallProgress'
  BY DEF TypeOK, CallProgress, CloseStages, ReadEnds, Abandon, Leave, slotVars, taskVars, childVars
<1>7. PipesHonest'
  BY DEF TypeOK, LockHeld, ChildAttached, PipesHonest, ReadEnds, Abandon, Leave, slotVars, taskVars, childVars
<1> QED BY <1>1, <1>2, <1>3, <1>4, <1>5, <1>6, <1>7

\* The signal of _discard to the process group keeps IInv,
LEMMA KillStep ==
  ASSUME IInv, NEW a \in Actors, Kill(a)
  PROVE  IInv'
<1> USE DEF IInv, Actors, Places, Holding, Reaping, Waiting, Creating, Ended,
            Running, Alive
<1>1. TypeOK'
  BY DEF TypeOK, ChildAttached, Kill, slotVars, taskVars, childVars
<1>2. LockHeld'
  BY DEF TypeOK, LockHeld, CloseStages, Kill, slotVars, taskVars, childVars
<1>3. ChildAttached'
  BY DEF TypeOK, LockHeld, ChildAttached, CloseStages, Kill, slotVars, taskVars, childVars
<1>4. CloseStages'
  BY DEF TypeOK, LockHeld, ChildAttached, CloseStages, Kill, slotVars, taskVars, childVars
<1>5. ScratchReady'
  BY DEF TypeOK, LockHeld, ChildAttached, CloseStages, ScratchReady, Kill, slotVars, taskVars, childVars
<1>6. CallProgress'
  BY DEF TypeOK, CallProgress, CloseStages, Kill, slotVars, taskVars, childVars
<1>7. PipesHonest'
  BY DEF TypeOK, LockHeld, ChildAttached, PipesHonest, Kill, slotVars, taskVars, childVars
<1> QED BY <1>1, <1>2, <1>3, <1>4, <1>5, <1>6, <1>7

\* so does a confirmed reap, which detaches the child and clears its scratch,
LEMMA ReapedStep ==
  ASSUME IInv, NEW a \in Actors, Reaped(a)
  PROVE  IInv'
<1> USE DEF IInv, Actors, Places, Holding, Reaping, Waiting, Creating, Ended,
            Running, Alive
<1>a. process \in Calls /\ lock = a
  BY DEF TypeOK, ChildAttached, LockHeld, Reaped, Detach, Leave
<1>1. TypeOK'
  <2>1. <<>> \in Seq(Frame) /\ <<>> \in Seq(Calls)
    OBVIOUS
  <2>2. outbox' \in [Calls -> Seq(Frame)]
    BY <1>a, <2>1, OutboxUpdate DEF Reaped, Detach, Leave
  <2>3. inbox' \in [Calls -> Seq(Calls)]
    BY <1>a, <2>1, InboxUpdate DEF Reaped, Detach, Leave
  <2> QED BY <2>2, <2>3 DEF TypeOK, Reaped, Detach, Leave
<1>2. LockHeld'
  BY DEF TypeOK, LockHeld, CloseStages, Reaped, Detach, Leave, slotVars, taskVars, childVars
<1>3. ChildAttached'
  BY DEF TypeOK, LockHeld, ChildAttached, CloseStages, Reaped, Detach, Leave, slotVars, taskVars, childVars
<1>4. CloseStages'
  BY DEF TypeOK, LockHeld, ChildAttached, CloseStages, Reaped, Detach, Leave, slotVars, taskVars, childVars
<1>5. ScratchReady'
  BY DEF TypeOK, LockHeld, ChildAttached, CloseStages, ScratchReady, Reaped, Detach, Leave, slotVars, taskVars, childVars
<1>6. CallProgress'
  BY DEF TypeOK, CallProgress, CloseStages, Reaped, Detach, Leave, slotVars, taskVars, childVars
<1>7. PipesHonest'
  <2>0. <<>> \in Seq(BoundFrame) /\ <<>> \in Seq(UnreadyFrame)
    OBVIOUS
  <2>1. \A g \in Calls : /\ inbox'[g] \in {inbox[g], <<>>}
                         /\ outbox'[g] \in {outbox[g], <<>>}
    BY <1>a DEF TypeOK, Reaped, Detach, Leave
  <2>2. UNCHANGED os
    BY DEF Reaped, Detach, Leave
  <2>3. /\ \A g \in Calls : outbox'[g] \in Seq(BoundFrame)
        /\ \A g \in Calls : os[g] = "impostor" => outbox'[g] \in Seq(UnreadyFrame)
        /\ \A g \in Calls : os[g] \in {"unborn", "loading"} => outbox'[g] = <<>>
        /\ \A g \in Calls : os[g] \in {"unborn", "loading", "impostor"} => inbox'[g] = <<>>
    BY <2>1, <2>2, <2>0 DEF PipesHonest
  <2>4. \A d \in Calls : pc'[d] # "response"
    BY <1>a DEF TypeOK, LockHeld, Reaped, Detach, Leave
  <2> QED BY <2>2, <2>3, <2>4 DEF PipesHonest, Reaped, Detach, Leave
<1> QED BY <1>1, <1>2, <1>3, <1>4, <1>5, <1>6, <1>7

\* and a reap that is not confirmed, which closes the slot.
LEMMA ReapFailsStep ==
  ASSUME IInv, NEW a \in Actors, ReapFails(a)
  PROVE  IInv'
<1> USE DEF IInv, Actors, Places, Holding, Reaping, Waiting, Creating, Ended,
            Running, Alive
<1>a. process \in Calls /\ lock = a
  BY DEF TypeOK, ChildAttached, LockHeld, ReapFails, Detach, Leave
<1>b. /\ inbox' = inbox \/ inbox' = [inbox EXCEPT ![process] = <<>>]
      /\ outbox' = outbox \/ outbox' = [outbox EXCEPT ![process] = <<>>]
  BY DEF ReapFails, Detach, Leave
<1>c. \E p \in {"failed", "reaping"} :
         /\ pc' = [pc EXCEPT ![a] = p]
         /\ lock' = IF p \in Holding THEN a ELSE None
         /\ p = "reaping" => process' = process
  BY <1>a DEF ReapFails, Detach, Leave
<1>1. TypeOK'
  <2>1. <<>> \in Seq(Frame) /\ <<>> \in Seq(Calls)
    OBVIOUS
  <2>2. outbox' \in [Calls -> Seq(Frame)]
    BY <1>a, <1>b, <2>1, OutboxUpdate
  <2>3. inbox' \in [Calls -> Seq(Calls)]
    BY <1>a, <1>b, <2>1, InboxUpdate
  <2>4. pc' \in [Actors -> Places] /\ lock' \in Actors \cup {None}
    BY <1>c DEF TypeOK
  <2> QED BY <2>2, <2>3, <2>4 DEF TypeOK, ReapFails, Detach, Leave
<1>2. LockHeld'
  <2>1. \E p \in Places : /\ pc' = [pc EXCEPT ![a] = p]
                          /\ lock' = IF p \in Holding THEN a ELSE None
    BY <1>c
  <2> QED BY <1>a, <2>1, LockPasses
<1>3. ChildAttached'
  <2>1. \A b \in Actors \ {a} : pc'[b] = pc[b] /\ pc[b] \notin Holding
    BY <1>a, <1>c DEF TypeOK, LockHeld
  <2>2. pc'[a] \in {"failed", "reaping"} /\ (pc'[a] = "reaping" => process' = process)
    BY <1>c DEF TypeOK
  <2>3. process' = process \/ (process' = None /\ os[process] = "dead")
    BY DEF ReapFails, Detach, Leave
  <2>4. UNCHANGED os
    BY DEF ReapFails, Detach, Leave
  <2> QED BY <1>a, <2>1, <2>2, <2>3, <2>4 DEF TypeOK, ChildAttached
<1>4. CloseStages'
  <2>1. \A b \in Actors \ {a} : pc'[b] = pc[b] /\ pc[b] \notin Holding
    BY <1>a, <1>c DEF TypeOK, LockHeld
  <2>2. pc'[a] \in {"failed", "reaping"} /\ (pc'[a] = "reaping" => pc[a] = "reapingSalvaged")
    BY DEF TypeOK, ReapFails, Detach, Leave
  <2>3. closed' = TRUE /\ process' \in {process, None}
    BY DEF ReapFails, Detach, Leave
  <2>4. pc[a] \in Reaping
    BY DEF ReapFails, Detach, Leave
  <2> QED BY <1>a, <2>1, <2>2, <2>3, <2>4 DEF TypeOK, CloseStages
<1>5. ScratchReady'
  BY DEF TypeOK, LockHeld, ChildAttached, CloseStages, ScratchReady, ReapFails, Detach, Leave, slotVars, taskVars, childVars
<1>6. CallProgress'
  BY DEF TypeOK, CallProgress, CloseStages, ReapFails, Detach, Leave, slotVars, taskVars, childVars
<1>7. PipesHonest'
  <2>0. <<>> \in Seq(BoundFrame) /\ <<>> \in Seq(UnreadyFrame)
    OBVIOUS
  <2>1. \A g \in Calls : /\ inbox'[g] \in {inbox[g], <<>>}
                         /\ outbox'[g] \in {outbox[g], <<>>}
    BY <1>a, <1>b DEF TypeOK
  <2>2. UNCHANGED os
    BY DEF ReapFails
  <2>3. /\ \A g \in Calls : outbox'[g] \in Seq(BoundFrame)
        /\ \A g \in Calls : os[g] = "impostor" => outbox'[g] \in Seq(UnreadyFrame)
        /\ \A g \in Calls : os[g] \in {"unborn", "loading"} => outbox'[g] = <<>>
        /\ \A g \in Calls : os[g] \in {"unborn", "loading", "impostor"} => inbox'[g] = <<>>
    BY <2>1, <2>2, <2>0 DEF PipesHonest
  <2>4. \A d \in Calls : pc'[d] # "response"
    BY <1>a, <1>c DEF TypeOK, LockHeld
  <2> QED BY <2>2, <2>3, <2>4 DEF PipesHonest, ReapFails
<1> QED BY <1>1, <1>2, <1>3, <1>4, <1>5, <1>6, <1>7

\* close() as it begins and cancels every task keeps IInv,
LEMMA CloseStep ==
  ASSUME IInv, Close
  PROVE  IInv'
<1> USE DEF IInv, Actors, Places, Holding, Reaping, Waiting, Creating, Ended,
            Running, Alive
<1>1. TypeOK'
  BY DEF TypeOK, ChildAttached, Close, Cancelled, slotVars, taskVars, childVars
<1>2. LockHeld'
  BY DEF TypeOK, LockHeld, CloseStages, Close, Cancelled, slotVars, taskVars, childVars
<1>3. ChildAttached'
  BY DEF TypeOK, LockHeld, ChildAttached, CloseStages, Close, Cancelled, slotVars, taskVars, childVars
<1>4. CloseStages'
  BY DEF TypeOK, LockHeld, ChildAttached, CloseStages, Close, Cancelled, slotVars, taskVars, childVars
<1>5. ScratchReady'
  BY DEF TypeOK, LockHeld, ChildAttached, CloseStages, ScratchReady, Close, Cancelled, slotVars, taskVars, childVars
<1>6. CallProgress'
  BY DEF TypeOK, CallProgress, CloseStages, Close, Cancelled, slotVars, taskVars, childVars
<1>7. PipesHonest'
  BY DEF TypeOK, LockHeld, ChildAttached, PipesHonest, Close, Cancelled, slotVars, taskVars, childVars
<1> QED BY <1>1, <1>2, <1>3, <1>4, <1>5, <1>6, <1>7

\* and as it goes on to the reap once every task has ended.
LEMMA CloseDrainedStep ==
  ASSUME IInv, CloseDrained
  PROVE  IInv'
<1> USE DEF IInv, Actors, Places, Holding, Reaping, Waiting, Creating, Ended,
            Running, Alive
<1>1. TypeOK'
  BY DEF TypeOK, ChildAttached, CloseDrained, slotVars, taskVars, childVars
<1>2. LockHeld'
  BY DEF TypeOK, LockHeld, CloseStages, CloseDrained, slotVars, taskVars, childVars
<1>3. ChildAttached'
  BY DEF TypeOK, LockHeld, ChildAttached, CloseStages, CloseDrained, slotVars, taskVars, childVars
<1>4. CloseStages'
  <2>1. \A c \in Calls : pc'[c] = pc[c] /\ pc[c] \in {"new"} \cup Ended
    BY DEF TypeOK, CloseDrained
  <2>2. pc'[Closer] = IF process = None THEN "succeeded" ELSE "reaping"
    BY DEF TypeOK, CloseDrained
  <2> QED BY <2>1, <2>2 DEF CloseStages, CloseDrained
<1>5. ScratchReady'
  BY DEF TypeOK, LockHeld, ChildAttached, CloseStages, ScratchReady, CloseDrained, slotVars, taskVars, childVars
<1>6. CallProgress'
  BY DEF TypeOK, CallProgress, CloseStages, CloseDrained, slotVars, taskVars, childVars
<1>7. PipesHonest'
  BY DEF TypeOK, LockHeld, ChildAttached, PipesHonest, CloseDrained, slotVars, taskVars, childVars
<1> QED BY <1>1, <1>2, <1>3, <1>4, <1>5, <1>6, <1>7

\* The child that has loaded, or announces another revision, keeps IInv.
LEMMA LoadStep ==
  ASSUME IInv, NEW g \in Calls, Load(g)
  PROVE  IInv'
<1> USE DEF IInv, Actors, Places, Holding, Reaping, Waiting, Creating, Ended,
            Running, Alive
<1>a. \E f \in BoundFrame : /\ outbox' = [outbox EXCEPT ![g] = Append(outbox[g], f)]
                            /\ os'[g] = "impostor" => f \in UnreadyFrame
  BY Frames DEF TypeOK, Load
<1>b. \E s \in {"serving", "impostor"} : os' = [os EXCEPT ![g] = s]
  BY DEF Load
<1>c. UNCHANGED <<closed, process, lock, pc, kind, ahead, answer, call, inbox, scratch>>
  BY DEF Load, slotVars, taskVars
<1>1. TypeOK'
  <2>1. outbox' \in [Calls -> Seq(Frame)]
    BY <1>a, Frames, SeqStep, OutboxUpdate DEF TypeOK
  <2>2. os' \in [Calls -> {"unborn", "dead"} \cup Alive]
    BY <1>b DEF TypeOK
  <2> QED BY <1>c, <2>1, <2>2 DEF TypeOK
<1>2. LockHeld'
  BY DEF TypeOK, LockHeld, CloseStages, Load, Ready, slotVars, taskVars, childVars
<1>3. ChildAttached'
  BY DEF TypeOK, LockHeld, ChildAttached, CloseStages, Load, Ready, slotVars, taskVars, childVars
<1>4. CloseStages'
  BY DEF TypeOK, LockHeld, ChildAttached, CloseStages, Load, Ready, slotVars, taskVars, childVars
<1>5. ScratchReady'
  BY DEF TypeOK, LockHeld, ChildAttached, CloseStages, ScratchReady, Load, Ready, slotVars, taskVars, childVars
<1>6. CallProgress'
  BY DEF TypeOK, CallProgress, CloseStages, Load, Ready, slotVars, taskVars, childVars
<1>7. PipesHonest'
  <2>1. PICK f \in BoundFrame : /\ outbox' = [outbox EXCEPT ![g] = Append(outbox[g], f)]
                                /\ os'[g] = "impostor" => f \in UnreadyFrame
    BY <1>a
  <2>2. os[g] = "loading" /\ outbox[g] = <<>> /\ os'[g] \in {"serving", "impostor"}
    BY <1>b DEF TypeOK, PipesHonest, Load
  <2>3. \A h \in Calls \ {g} : os'[h] = os[h] /\ outbox'[h] = outbox[h]
    BY <1>b, <2>1 DEF TypeOK
  <2>4. outbox'[g] = <<f>>
    BY <2>1, <2>2 DEF TypeOK
  <2>5. /\ outbox'[g] \in Seq(BoundFrame)
        /\ os'[g] = "impostor" => outbox'[g] \in Seq(UnreadyFrame)
    <3>1. \A S : f \in S => <<f>> \in Seq(S)
      OBVIOUS
    <3> QED BY <2>1, <2>4, <3>1
  <2>6. inbox[g] = <<>>
    BY <2>2 DEF PipesHonest
  <2>7. /\ process # None /\ lock = None /\ ~closed => process # g
        /\ \A c \in Calls : pc[c] = "response" => process # g
    BY <2>2 DEF PipesHonest
  <2>8. \A c \in Calls : pc[c] = "response" => process \in Calls
    BY DEF TypeOK, ChildAttached
  <2> QED BY <1>c, <2>2, <2>3, <2>4, <2>5, <2>6, <2>7, <2>8 DEF TypeOK, PipesHonest
<1> QED BY <1>1, <1>2, <1>3, <1>4, <1>5, <1>6, <1>7

\* The child that answers the request it has read, rightly or not, keeps IInv.
LEMMA ServeStep ==
  ASSUME IInv, NEW g \in Calls, Serve(g)
  PROVE  IInv'
<1> USE DEF IInv, Actors, Places, Holding, Reaping, Waiting, Creating, Ended,
            Running, Alive
<1>a. Head(inbox[g]) \in Calls /\ Tail(inbox[g]) \in Seq(Calls)
  BY SeqStep DEF TypeOK, Serve
<1>b. \E f \in BoundFrame \cap UnreadyFrame : \E reply \in {<<f>>, <<f, f>>} :
         outbox' = [outbox EXCEPT ![g] = outbox[g] \o reply]
  BY <1>a, Frames DEF Serve
<1>c. inbox' = [inbox EXCEPT ![g] = Tail(inbox[g])]
  BY DEF Serve
<1>d. UNCHANGED <<closed, process, lock, pc, kind, ahead, answer, call, os, scratch>>
  BY DEF Serve, slotVars, taskVars
<1>1. TypeOK'
  <2>1. outbox' \in [Calls -> Seq(Frame)]
    BY <1>b, Frames, SeqStep, OutboxUpdate DEF TypeOK
  <2>2. inbox' \in [Calls -> Seq(Calls)]
    BY <1>a, <1>c, InboxUpdate
  <2> QED BY <1>d, <2>1, <2>2 DEF TypeOK
<1>2. LockHeld'
  BY DEF TypeOK, LockHeld, CloseStages, Serve, Response, slotVars, taskVars, childVars
<1>3. ChildAttached'
  BY DEF TypeOK, LockHeld, ChildAttached, CloseStages, Serve, Response, slotVars, taskVars, childVars
<1>4. CloseStages'
  BY DEF TypeOK, LockHeld, ChildAttached, CloseStages, Serve, Response, slotVars, taskVars, childVars
<1>5. ScratchReady'
  BY DEF TypeOK, LockHeld, ChildAttached, CloseStages, ScratchReady, Serve, Response, slotVars, taskVars, childVars
<1>6. CallProgress'
  BY DEF TypeOK, CallProgress, CloseStages, Serve, Response, slotVars, taskVars, childVars
<1>7. PipesHonest'
  <2>1. PICK f \in BoundFrame \cap UnreadyFrame : \E reply \in {<<f>>, <<f, f>>} :
           outbox' = [outbox EXCEPT ![g] = outbox[g] \o reply]
    BY <1>b
  <2>2. PICK reply \in {<<f>>, <<f, f>>} : outbox' = [outbox EXCEPT ![g] = outbox[g] \o reply]
    BY <2>1
  <2>3. outbox[g] \o reply \in Seq(BoundFrame)
    BY SeqStep DEF PipesHonest
  <2>4. os[g] = "impostor" => outbox[g] \o reply \in Seq(UnreadyFrame)
    BY SeqStep DEF PipesHonest
  <2>5. os[g] \in {"serving", "impostor"} /\ inbox[g] # <<>>
    BY DEF Serve
  <2>6. \A h \in Calls \ {g} : inbox'[h] = inbox[h] /\ outbox'[h] = outbox[h]
    BY <1>c, <2>2 DEF TypeOK
  <2>7. outbox'[g] = outbox[g] \o reply
    BY <2>2 DEF TypeOK
  <2>8. os[g] = "serving"
    BY <2>5 DEF PipesHonest
  <2> QED BY <1>d, <2>3, <2>4, <2>6, <2>7, <2>8 DEF PipesHonest
<1> QED BY <1>1, <1>2, <1>3, <1>4, <1>5, <1>6, <1>7

\* A child that writes to its scratch keeps IInv: it is attached or being reaped.
LEMMA UseScratchStep ==
  ASSUME IInv, NEW g \in Calls, UseScratch(g)
  PROVE  IInv'
<1> USE DEF IInv, Actors, Places, Holding, Reaping, Waiting, Creating, Ended,
            Running, Alive
<1>1. TypeOK'
  BY DEF TypeOK, ChildAttached, UseScratch, slotVars, taskVars, childVars
<1>2. LockHeld'
  BY DEF TypeOK, LockHeld, CloseStages, UseScratch, slotVars, taskVars, childVars
<1>3. ChildAttached'
  BY DEF TypeOK, LockHeld, ChildAttached, CloseStages, UseScratch, slotVars, taskVars, childVars
<1>4. CloseStages'
  BY DEF TypeOK, LockHeld, ChildAttached, CloseStages, UseScratch, slotVars, taskVars, childVars
<1>5. ScratchReady'
  BY DEF TypeOK, LockHeld, ChildAttached, CloseStages, ScratchReady, UseScratch, slotVars, taskVars, childVars
<1>6. CallProgress'
  BY DEF TypeOK, CallProgress, CloseStages, UseScratch, slotVars, taskVars, childVars
<1>7. PipesHonest'
  BY DEF TypeOK, LockHeld, ChildAttached, PipesHonest, UseScratch, slotVars, taskVars, childVars
<1> QED BY <1>1, <1>2, <1>3, <1>4, <1>5, <1>6, <1>7

\* A child that dies, or leaves a descendant behind, keeps IInv,
LEMMA CrashStep ==
  ASSUME IInv, NEW g \in Calls, Crash(g)
  PROVE  IInv'
<1> USE DEF IInv, Actors, Places, Holding, Reaping, Waiting, Creating, Ended,
            Running, Alive
<1>1. TypeOK'
  BY DEF TypeOK, ChildAttached, Crash, slotVars, taskVars, childVars
<1>2. LockHeld'
  BY DEF TypeOK, LockHeld, CloseStages, Crash, slotVars, taskVars, childVars
<1>3. ChildAttached'
  BY DEF TypeOK, LockHeld, ChildAttached, CloseStages, Crash, slotVars, taskVars, childVars
<1>4. CloseStages'
  BY DEF TypeOK, LockHeld, ChildAttached, CloseStages, Crash, slotVars, taskVars, childVars
<1>5. ScratchReady'
  BY DEF TypeOK, LockHeld, ChildAttached, CloseStages, ScratchReady, Crash, slotVars, taskVars, childVars
<1>6. CallProgress'
  BY DEF TypeOK, CallProgress, CloseStages, Crash, slotVars, taskVars, childVars
<1>7. PipesHonest'
  BY DEF TypeOK, LockHeld, ChildAttached, PipesHonest, Crash, slotVars, taskVars, childVars
<1> QED BY <1>1, <1>2, <1>3, <1>4, <1>5, <1>6, <1>7

\* and so does the end of a killed process group.
LEMMA ExitStep ==
  ASSUME IInv, NEW g \in Calls, Exit(g)
  PROVE  IInv'
<1> USE DEF IInv, Actors, Places, Holding, Reaping, Waiting, Creating, Ended,
            Running, Alive
<1>1. TypeOK'
  BY DEF TypeOK, ChildAttached, Exit, slotVars, taskVars, childVars
<1>2. LockHeld'
  BY DEF TypeOK, LockHeld, CloseStages, Exit, slotVars, taskVars, childVars
<1>3. ChildAttached'
  BY DEF TypeOK, LockHeld, ChildAttached, CloseStages, Exit, slotVars, taskVars, childVars
<1>4. CloseStages'
  BY DEF TypeOK, LockHeld, ChildAttached, CloseStages, Exit, slotVars, taskVars, childVars
<1>5. ScratchReady'
  BY DEF TypeOK, LockHeld, ChildAttached, CloseStages, ScratchReady, Exit, slotVars, taskVars, childVars
<1>6. CallProgress'
  BY DEF TypeOK, CallProgress, CloseStages, Exit, slotVars, taskVars, childVars
<1>7. PipesHonest'
  BY DEF TypeOK, LockHeld, ChildAttached, PipesHonest, Exit, slotVars, taskVars, childVars
<1> QED BY <1>1, <1>2, <1>3, <1>4, <1>5, <1>6, <1>7

-----------------------------------------------------------------------------
(* The theorems *)

\* The first of the three facts: the slot is created with IInv.
LEMMA InitIInv == Init => IInv
<1> SUFFICES ASSUME Init PROVE IInv
  OBVIOUS
<1> USE DEF Init, Actors, Places, Holding, Reaping, Waiting, Creating, Ended, Running, Alive
<1>1. TypeOK
  <2>1. <<>> \in Seq(Calls) /\ <<>> \in Seq(Frame)
    OBVIOUS
  <2> QED BY <2>1 DEF TypeOK
<1>2. LockHeld /\ ChildAttached /\ CloseStages /\ ScratchReady /\ CallProgress
  BY DEF LockHeld, ChildAttached, CloseStages, ScratchReady, CallProgress
<1>3. PipesHonest
  BY DEF PipesHonest
<1> QED BY <1>1, <1>2, <1>3 DEF IInv

\* IInv reads no state but that of the slot: it stands when nothing changes.
LEMMA StutterIInv == ASSUME IInv, UNCHANGED vars PROVE IInv'
<1> USE DEF IInv, vars
<1>1. TypeOK' /\ LockHeld' /\ ChildAttached'
  BY DEF TypeOK, LockHeld, ChildAttached
<1>2. CloseStages' /\ ScratchReady' /\ CallProgress'
  BY DEF CloseStages, ScratchReady, CallProgress
<1>3. PipesHonest'
  BY DEF PipesHonest
<1> QED BY <1>1, <1>2, <1>3

\* The second fact: every step of the slot keeps IInv, by the lemma of its action.
LEMMA NextIInv == IInv /\ [Next]_vars => IInv'
<1> SUFFICES ASSUME IInv, [Next]_vars PROVE IInv'
  OBVIOUS
<1>1. ASSUME NEW c \in Calls, CallStep(c) PROVE IInv'
  BY <1>1, RunStep, InterruptStep, ReturnStep DEF CallStep
<1>2. ASSUME NEW c \in Calls, TaskStep(c) PROVE IInv'
  BY <1>2, AcquireStep, SpawnStep, SpawnFailsStep, CreatedStep, ReadReadinessStep,
     ReadResponseStep, ReadEndsStep DEF TaskStep, Create, Read
<1>3. ASSUME NEW g \in Calls, ChildStep(g) PROVE IInv'
  BY <1>3, LoadStep, ServeStep, UseScratchStep, CrashStep, ExitStep DEF ChildStep
<1>4. ASSUME NEW a \in Actors, Kill(a) \/ Discard(a) PROVE IInv'
  BY <1>4, KillStep, ReapedStep, ReapFailsStep DEF Discard
<1>5. CASE Close
  BY <1>5, CloseStep
<1>6. CASE CloseDrained
  BY <1>6, CloseDrainedStep
<1>7. CASE UNCHANGED vars
  BY <1>7, StutterIInv
<1> QED BY <1>1, <1>2, <1>3, <1>4, <1>5, <1>6, <1>7 DEF Next

\* The strengthened invariant holds in every reachable state of the slot.
THEOREM Inductive == Spec => []IInv
BY InitIInv, NextIInv, PTL DEF Spec

\* Every variable of the slot keeps its type.
THEOREM TypeCorrect == Spec => []TypeOK
<1>1. IInv => TypeOK
  BY DEF IInv
<1> QED BY <1>1, Inductive, PTL

\* Two children are never alive together: a living child is the attached one
\* or the one the lock's only holder is creating, and a creation begins only
\* with nothing attached.
THEOREM OneChildHolds == Spec => []OneChild
<1>1. IInv => OneChild
  <2> SUFFICES ASSUME IInv, NEW g \in Calls, NEW h \in Calls, os[g] \in Alive, os[h] \in Alive
               PROVE  g = h
    BY DEF OneChild
  <2>1. /\ process = g \/ pc[g] \in Creating
        /\ process = h \/ pc[h] \in Creating
    BY DEF IInv, ChildAttached
  <2>2. \A c \in Calls : pc[c] \in Creating => process = None /\ lock = c
    BY DEF IInv, ChildAttached, LockHeld, Holding, Actors
  <2> QED BY <2>1, <2>2
<1> QED BY <1>1, Inductive, PTL

\* A transcript that is returned was made from the caller's own video.
THEOREM OwnTranscriptHolds == Spec => []OwnTranscript
<1>1. IInv => OwnTranscript
  BY DEF IInv, OwnTranscript, CallProgress
<1> QED BY <1>1, Inductive, PTL

\* A video is only ever sent to a child that announced the release.
THEOREM VerifiedBeforeAskedHolds == Spec => []VerifiedBeforeAsked
<1>1. IInv => VerifiedBeforeAsked
  BY DEF IInv, VerifiedBeforeAsked, PipesHonest
<1> QED BY <1>1, Inductive, PTL

\* A returned close() leaves no child alive and none to come.
THEOREM CloseMeansDeadHolds == Spec => []CloseMeansDead
<1>1. IInv => CloseMeansDead
  BY DEF IInv, CloseMeansDead, CloseStages, ChildAttached, Creating, Ended
<1> QED BY <1>1, Inductive, PTL

\* Every child is launched into an empty scratch directory.
THEOREM CleanLaunchHolds == Spec => CleanLaunch
<1> DEFINE Launch == \A g \in Calls : os[g] = "unborn" /\ os'[g] # "unborn" => scratch = "clean"
<1>1. IInv /\ [Next]_vars => [Launch]_vars
  <2> SUFFICES ASSUME IInv, Next PROVE Launch
    BY DEF vars
  <2> USE DEF IInv, TypeOK, Launch, slotVars, taskVars, childVars
  <2>1. ASSUME NEW c \in Calls, CallStep(c) PROVE Launch
    BY <2>1 DEF CallStep, Run, Interrupt, Return
  <2>2. ASSUME NEW c \in Calls, Spawn(c) PROVE Launch
    BY <2>2 DEF Spawn, ScratchReady
  <2>3. ASSUME NEW c \in Calls, TaskStep(c), ~Spawn(c) PROVE Launch
    <3>1. UNCHANGED os
      BY <2>3 DEF TaskStep, Acquire, Create, SpawnFails, Created, Read, ReadReadiness, ReadResponse, ReadEnds
    <3> QED BY <3>1
  <2>4. ASSUME NEW h \in Calls, ChildStep(h) PROVE Launch
    BY <2>4 DEF ChildStep, Load, Serve, UseScratch, Crash, Exit, Running
  <2>5. ASSUME NEW a \in Actors, Kill(a) \/ Discard(a) PROVE Launch
    BY <2>5 DEF Kill, Discard, Reaped, Detach, Leave, ReapFails, Running
  <2>6. ASSUME Close \/ CloseDrained PROVE Launch
    BY <2>6 DEF Close, CloseDrained
  <2> QED BY <2>1, <2>2, <2>3, <2>4, <2>5, <2>6 DEF Next
<1> QED BY <1>1, Inductive, PTL DEF Spec, CleanLaunch

-----------------------------------------------------------------------------
(* The contract *)

View == <<SlotView, closed, Won>>

-----------------------------------------------------------------------------
(* The slot is open at work *)

\* One lock holder at a time is at work, and what closes the slot moves it on:
\* close() by cancelling it, an unconfirmed reap by being the holder itself.
LEMMA OpenStep == IInv /\ OpenAtWork /\ [Next]_vars => OpenAtWork'
<1> SUFFICES ASSUME IInv, OpenAtWork, [Next]_vars PROVE OpenAtWork'
  OBVIOUS
<1> USE DEF IInv, TypeOK, OpenAtWork, Waiting, slotVars, taskVars, childVars
<1>1. ASSUME NEW c \in Calls, CallStep(c) PROVE OpenAtWork'
  <2>1. UNCHANGED closed
    BY <1>1 DEF CallStep, Run, Interrupt, Return
  <2>2. \A d \in Calls : pc'[d] \in {pc[d], "queued", Cancelled(pc[d])}
    BY <1>1 DEF CallStep, Run, Interrupt, Return, Actors
  <2>3. \A d \in Calls : Cancelled(pc[d]) \in Waiting \cup {"creating"} => Cancelled(pc[d]) = pc[d]
    BY DEF Cancelled
  <2> QED BY <2>1, <2>2, <2>3
<1>2. ASSUME NEW c \in Calls, TaskStep(c) PROVE OpenAtWork'
  <2>1. UNCHANGED closed
    BY <1>2 DEF TaskStep, Acquire, Create, Spawn, SpawnFails, Created, Read, ReadReadiness, ReadResponse, ReadEnds
  <2>2. \A d \in Calls \ {c} : pc'[d] = pc[d]
    BY <1>2 DEF TaskStep, Acquire, Create, Spawn, SpawnFails, Created, Read, ReadReadiness,
                ReadResponse, ReadEnds, Proceed, Abandon, Leave, Actors
  <2>3. pc'[c] \in Waiting \cup {"creating"} => pc[c] \in Waiting \cup {"creating"} \/ ~closed
    BY <1>2 DEF TaskStep, Acquire, Create, Spawn, SpawnFails, Created, Read, ReadReadiness,
                ReadResponse, ReadEnds, Proceed, Abandon, Leave, Actors, Creating
  <2> QED BY <2>1, <2>2, <2>3
<1>3. ASSUME NEW g \in Calls, ChildStep(g) PROVE OpenAtWork'
  BY <1>3 DEF ChildStep, Load, Serve, UseScratch, Crash, Exit
<1>4. ASSUME NEW a \in Actors, Kill(a) \/ Discard(a) PROVE OpenAtWork'
  <2>1. \A d \in Calls \ {a} : pc[d] \notin Waiting \cup {"creating"}
    BY <1>4 DEF LockHeld, Kill, Discard, Reaped, ReapFails, Actors, Holding, Reaping, Creating
  <2>2. \A d \in Calls : pc'[d] \in {pc[d], "failed", "reaping", "succeeded"}
    BY <1>4 DEF Kill, Discard, Reaped, ReapFails, Leave, Actors
  <2>3. pc[a] \notin Waiting \cup {"creating"}
    BY <1>4 DEF Kill, Discard, Reaped, ReapFails, Reaping
  <2> QED BY <2>1, <2>2, <2>3
<1>5. CASE Close
  <2>1. \A d \in Calls : pc'[d] = Cancelled(pc[d])
    BY <1>5 DEF Close, Actors
  <2>2. \A d \in Calls : Cancelled(pc[d]) \notin Waiting \cup {"creating"}
    BY DEF Cancelled
  <2> QED BY <2>1, <2>2
<1>6. CASE CloseDrained
  BY <1>6 DEF CloseDrained, Actors
<1>7. CASE UNCHANGED vars
  BY <1>7 DEF vars
<1> QED BY <1>1, <1>2, <1>3, <1>4, <1>5, <1>6, <1>7 DEF Next

-----------------------------------------------------------------------------
(* What a step does to the view of the slot *)

\* The calls that have won change only by the one whose task succeeds.
LEMMA WonMoves ==
  ASSUME TypeOK, NEW a \in Actors, NEW p, pc' = [pc EXCEPT ![a] = p], pc[a] # "succeeded"
  PROVE  /\ p = "succeeded" /\ a \in Calls => a \notin Won /\ Won' = Won \cup {a}
         /\ p # "succeeded" \/ a \notin Calls => Won' = Won
BY DEF TypeOK, Won, Actors

\* A step of a caller is none of the slot.
LEMMA CallView ==
  ASSUME IInv, NEW c \in Calls, CallStep(c)
  PROVE  UNCHANGED View
<1>1. UNCHANGED <<closed, process, lock>>
  BY DEF CallStep, Run, Interrupt, Return, slotVars
<1>2. \A d \in Calls : Cancelled(pc[d]) = "succeeded" <=> pc[d] = "succeeded"
  BY DEF Cancelled, Waiting
<1>3. CallProgress /\ TypeOK
  BY DEF IInv
<1>4. \A d \in Calls : pc'[d] = "succeeded" <=> pc[d] = "succeeded"
  BY <1>2, <1>3 DEF CallStep, Run, Interrupt, Return, Actors, CallProgress, TypeOK, taskVars
<1> QED BY <1>1, <1>4 DEF View, SlotView, Won

\* A step of a task is a move of the slot, or leaves it alone.
LEMMA TaskView ==
  ASSUME IInv, OpenAtWork, NEW c \in Calls, TaskStep(c)
  PROVE  Slot!Next \/ UNCHANGED View
<1> USE DEF IInv, TypeOK, View, SlotView, slotVars, taskVars, childVars
<1>0. c \in Actors /\ pc[c] # "succeeded"
  BY DEF TaskStep, Acquire, Create, Spawn, SpawnFails, Created, Read, ReadReadiness,
         ReadResponse, ReadEnds, Actors, Creating, Waiting
<1>a. ASSUME NEW p, pc' = [pc EXCEPT ![c] = p], p # "succeeded" PROVE UNCHANGED Won
  BY <1>0, <1>a, WonMoves
<1>b. ASSUME pc' = [pc EXCEPT ![c] = "succeeded"] PROVE c \notin Won /\ Won' = Won \cup {c}
  BY <1>0, <1>b, WonMoves
<1>c. pc[c] \in Creating \cup Waiting => lock = c
  BY DEF LockHeld, Holding, Actors
<1>d. pc[c] \in Creating => process = None
  BY DEF ChildAttached
<1>e. pc[c] \in Waiting => process # None /\ ~closed
  BY DEF ChildAttached, OpenAtWork, Actors
<1>1. CASE Acquire(c)
  <2>0. lock = None /\ UNCHANGED <<closed, process>>
    BY <1>1 DEF Acquire
  <2>1. CASE closed /\ Abandon(c)
    <3>1. CASE process = None
      BY <2>0, <2>1, <3>1, <1>a DEF Abandon, Leave
    <3>2. CASE process # None
      <4>1. SlotView = "warm" /\ SlotView' = "busy" /\ UNCHANGED Won
        BY <2>0, <2>1, <3>2, <1>a DEF Abandon
      <4> QED BY <2>0, <4>1, <2>1 DEF Slot!Next, Slot!Begins
    <3> QED BY <3>1, <3>2
  <2>2. CASE ~closed /\ process # None /\ Proceed(c, process)
    <3>1. CASE kind[c] = "startup"
      <4>1. SlotView = "warm" /\ SlotView' = "warm" /\ c \notin Won /\ Won' = Won \cup {c}
        BY <2>0, <2>2, <3>1, <1>b DEF Proceed, Leave
      <4> QED BY <2>0, <4>1, <2>2 DEF Slot!Next, Slot!Succeeds, Slot!Warms
    <3>2. CASE kind[c] # "startup"
      <4>1. SlotView = "warm" /\ SlotView' = "busy" /\ UNCHANGED Won
        BY <2>0, <2>2, <3>2, <1>a DEF Proceed
      <4> QED BY <2>0, <4>1, <2>2 DEF Slot!Next, Slot!Begins
    <3> QED BY <3>1, <3>2
  <2>3. CASE ~closed /\ process = None /\ pc' = [pc EXCEPT ![c] = "creating"] /\ lock' = c
    <3>1. SlotView = "cold" /\ SlotView' = "busy" /\ UNCHANGED Won
      BY <2>0, <2>3, <1>a
    <3> QED BY <2>0, <3>1, <2>3 DEF Slot!Next, Slot!Begins
  <2> QED BY <1>1, <2>1, <2>2, <2>3 DEF Acquire
<1>2. CASE Spawn(c)
  BY <1>2 DEF Spawn, Won
<1>3. CASE SpawnFails(c)
  <2>1. SlotView = "busy" /\ SlotView' = "cold" /\ UNCHANGED <<closed, Won>>
    BY <1>3, <1>c, <1>d, <1>a DEF SpawnFails, Abandon, Leave
  <2> QED BY <2>1 DEF Slot!Next, Slot!Fails
<1>4. CASE Created(c)
  <2>1. lock = c /\ lock' = c /\ UNCHANGED closed
    BY <1>4, <1>c DEF Created
  <2>2. UNCHANGED Won
    BY <1>4, <1>a DEF Created
  <2> QED BY <2>1, <2>2
<1>5. CASE Read(c)
  <2>0. SlotView = "busy" /\ process # None /\ ~closed /\ UNCHANGED <<closed, process>>
    BY <1>5, <1>c, <1>e DEF Read, ReadReadiness, ReadResponse, ReadEnds, Waiting
  <2>1. \/ pc' = [pc EXCEPT ![c] = "succeeded"] /\ lock' = None
        \/ \E p \in {"response", "reaping"} : pc' = [pc EXCEPT ![c] = p] /\ lock' = c
    BY <1>5, <2>0 DEF Read, ReadReadiness, ReadResponse, ReadEnds, Proceed, Abandon, Leave
  <2>2. CASE pc' = [pc EXCEPT ![c] = "succeeded"] /\ lock' = None
    <3>1. SlotView' = "warm" /\ c \notin Won /\ Won' = Won \cup {c}
      BY <2>0, <2>2, <1>b
    <3> QED BY <2>0, <3>1 DEF Slot!Next, Slot!Succeeds, Slot!Warms
  <2>3. CASE \E p \in {"response", "reaping"} : pc' = [pc EXCEPT ![c] = p] /\ lock' = c
    BY <2>0, <2>3, <1>a
  <2> QED BY <2>1, <2>2, <2>3
<1> QED BY <1>1, <1>2, <1>3, <1>4, <1>5 DEF TaskStep, Create

\* Neither is a step of the child.
LEMMA ChildView ==
  ASSUME NEW g \in Calls, ChildStep(g)
  PROVE  UNCHANGED View
BY DEF ChildStep, Load, Serve, UseScratch, Crash, Exit, View, SlotView, Won, slotVars, taskVars

\* A reap by a task makes the slot cold, or closes it; one by close() makes a
\* closed slot cold, or changes nothing.
LEMMA DiscardView ==
  ASSUME IInv, NEW a \in Actors, Kill(a) \/ Discard(a)
  PROVE  Slot!Next \/ UNCHANGED View
<1> USE DEF IInv, TypeOK, View, SlotView, slotVars, taskVars, childVars
<1>0. pc[a] \in Reaping /\ lock = a /\ process # None /\ pc[a] # "succeeded"
  BY DEF Kill, Discard, Reaped, ReapFails, LockHeld, ChildAttached, Holding, Reaping
<1>a. ASSUME NEW p, pc' = [pc EXCEPT ![a] = p], p # "succeeded" \/ a \notin Calls
      PROVE  UNCHANGED Won
  BY <1>0, <1>a, WonMoves
<1>b. a = Closer => closed
  BY <1>0 DEF CloseStages, Reaping
<1>1. CASE Kill(a)
  BY <1>1 DEF Kill, Won
<1>2. CASE Reaped(a)
  <2>0. process' = None /\ lock' = None /\ SlotView' = "cold" /\ UNCHANGED closed
    BY <1>2 DEF Reaped, Detach, Leave
  <2>1. UNCHANGED Won
    BY <1>2, <1>a DEF Reaped, Leave, Actors
  <2>2. CASE a \in Calls
    <3>1. SlotView = "busy"
      BY <1>0, <2>2
    <3> QED BY <2>0, <2>1, <3>1 DEF Slot!Next, Slot!Fails
  <2>3. CASE a = Closer
    <3>1. SlotView = "warm" /\ closed
      BY <1>0, <1>b, <2>3
    <3> QED BY <2>0, <2>1, <3>1 DEF Slot!Next, Slot!Reaps
  <2> QED BY <2>2, <2>3 DEF Actors
<1>3. CASE ReapFails(a)
  <2>0. closed' = TRUE
    BY <1>3 DEF ReapFails
  <2>1. UNCHANGED Won
    BY <1>3, <1>a DEF ReapFails, Leave
  <2>2. CASE a \in Calls
    <3>1. SlotView = "busy" /\ SlotView' \in {"busy", "cold", "warm"}
      BY <1>0, <2>2
    <3>2. CASE SlotView' = "busy"
      BY <2>0, <2>1, <3>1, <3>2 DEF Slot!Next, Slot!Closes
    <3>3. CASE SlotView' # "busy"
      BY <2>0, <2>1, <3>1, <3>3 DEF Slot!Next, Slot!Fails
    <3> QED BY <3>2, <3>3
  <2>3. CASE a = Closer
    <3>1. SlotView = "warm" /\ closed
      BY <1>0, <1>b, <2>3
    <3>2. lock' \notin Calls
      BY <1>3, <1>0, <2>3 DEF ReapFails, Leave
    <3>3. SlotView' \in {"warm", "cold"}
      BY <3>2
    <3> QED BY <2>0, <2>1, <3>1, <3>3 DEF Slot!Next, Slot!Reaps
  <2> QED BY <2>2, <2>3 DEF Actors
<1> QED BY <1>1, <1>2, <1>3 DEF Discard

\* close() closes the slot as it begins; to take the idle lock is no use of it.
LEMMA CloseView ==
  ASSUME IInv, Close \/ CloseDrained
  PROVE  Slot!Next \/ UNCHANGED View
<1> USE DEF IInv, TypeOK, View, SlotView
<1>1. CASE Close
  <2>1. \A d \in Calls : Cancelled(pc[d]) = "succeeded" <=> pc[d] = "succeeded"
    BY DEF Cancelled, Waiting
  <2>2. \A d \in Calls : pc'[d] = Cancelled(pc[d])
    BY <1>1 DEF Close, Actors
  <2>3. UNCHANGED Won
    BY <2>1, <2>2 DEF Won
  <2>4. closed' = TRUE /\ UNCHANGED SlotView
    BY <1>1 DEF Close
  <2> QED BY <2>3, <2>4 DEF Slot!Next, Slot!Closes
<1>2. CASE CloseDrained
  <2>1. UNCHANGED Won
    BY <1>2 DEF CloseDrained, Won, Actors
  <2>2. UNCHANGED <<closed, process>> /\ lock \notin Calls /\ lock' \notin Calls
    BY <1>2 DEF CloseDrained
  <2> QED BY <2>1, <2>2
<1> QED BY <1>1, <1>2

-----------------------------------------------------------------------------
(* The theorems *)

\* No task works for a result in a closed slot, in any reachable state.
THEOREM OpenAtWorkHolds == Spec => []OpenAtWork
<1>1. Init => OpenAtWork
  BY DEF Init, OpenAtWork, Waiting, Actors
<1> QED BY <1>1, OpenStep, Inductive, PTL DEF Spec

\* The transport keeps the slot's contract: a call succeeds only by leaving an
\* open slot with its child, a failure leaves no child or a closed slot, and a
\* closed slot serves nobody again.
THEOREM ContractHolds == Spec => Contract
<1>1. Init => Slot!Init
  BY DEF Init, Slot!Init, SlotView, Won, Actors
<1>2. IInv /\ OpenAtWork /\ [Next]_vars => [Slot!Next]_View
  <2> SUFFICES ASSUME IInv, OpenAtWork, [Next]_vars PROVE Slot!Next \/ UNCHANGED View
    OBVIOUS
  <2>1. CASE UNCHANGED vars
    BY <2>1 DEF vars, View, SlotView, Won
  <2>2. CASE Next
    BY <2>2, CallView, TaskView, ChildView, DiscardView, CloseView DEF Next
  <2> QED BY <2>1, <2>2
<1> QED BY <1>1, <1>2, Inductive, OpenAtWorkHolds, PTL DEF Spec, Contract, Slot!Spec, View
=============================================================================
