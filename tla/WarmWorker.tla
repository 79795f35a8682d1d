----------------------------- MODULE WarmWorker -----------------------------
(***************************************************************************)
(* One model slot: community/worker_transport.py, class WarmModelProcess,  *)
(* with the loop of serve_worker in the child process it owns.             *)
(*                                                                         *)
(* A call is one run of _run (startup or translate).  It starts a task     *)
(* that runs _operate under the slot's lock; the task and close() are the  *)
(* actors.  Every await is a point where another actor, the child, the     *)
(* kernel or a cancellation may act, so pc names the awaits, and an action *)
(* is the code between two of them.  A child process is named by the call  *)
(* that launched it: one _operate launches at most one.                    *)
(***************************************************************************)
EXTENDS Naturals, FiniteSets, Sequences

CONSTANTS
  Calls,    \* the calls made on the slot; each is made at most once
  Closer,   \* the caller of close()
  None      \* no process, no lock holder, no nonce

ASSUME ActorsDistinct == /\ Closer \notin Calls
                         /\ None \notin Calls
                         /\ Closer # None

VARIABLES
  closed,   \* self._closed
  process,  \* self._process: the call that launched the attached child
  lock,     \* the holder of self._lock
  pc,       \* where each _operate task, and close(), awaits
  kind,     \* which public method made the call
  ahead,    \* the tasks queued on the lock before this one
  call,     \* what the caller of _run has seen
  answer,   \* the request whose transcript a successful task returned
  os,       \* the state of each child's process group
  inbox,    \* each child's standard input: the nonces of unread requests
  outbox,   \* each child's standard output: the unread frames
  scratch   \* the contents of the slot's scratch directory

slotVars  == <<closed, process, lock>>
taskVars  == <<pc, kind, ahead, answer>>
childVars == <<os, inbox, outbox, scratch>>
vars == <<closed, process, lock, pc, kind, ahead, call, answer,
          os, inbox, outbox, scratch>>

Actors == Calls \cup {Closer}

Reaping  == {"reaping", "reapingSalvaged"}    \* inside _discard
Waiting  == {"readiness", "response"}         \* reading the child's stdout
Creating == {"creating", "salvaging"}         \* the child is being spawned
Holding  == Reaping \cup Waiting \cup Creating
Ended    == {"succeeded", "failed"}
Places   == {"new", "queued", "draining"} \cup Holding \cup Ended

Running == {"loading", "serving", "impostor"} \* impostor: another revision
Alive   == Running \cup {"orphaned", "killed"}

\* A frame on the child's stdout; a response that echoes no live nonce has
\* nonce None, a response's text is the transcript of the request it names.
Frame == [type : {"ready", "otherRevision", "response"},
          nonce : Calls \cup {None}, text : Calls \cup {None}]
Ready(type) == [type |-> type, nonce |-> None, text |-> None]
Response(n, v) == [type |-> "response", nonce |-> n, text |-> v]

TypeOK ==
  /\ closed \in BOOLEAN
  /\ process \in Calls \cup {None}
  /\ lock \in Actors \cup {None}
  /\ pc \in [Actors -> Places]
  /\ kind \in [Calls -> {"startup", "translate"}]
  /\ ahead \in [Calls -> SUBSET Calls]
  /\ call \in [Calls -> {"none", "running", "returned", "raised"}]
  /\ answer \in [Calls -> Calls \cup {None}]
  /\ os \in [Calls -> {"unborn", "dead"} \cup Alive]
  /\ inbox \in [Calls -> Seq(Calls)]
  /\ outbox \in [Calls -> Seq(Frame)]
  /\ scratch \in {"clean", "dirty"}

Init ==
  /\ closed = FALSE
  /\ process = None
  /\ lock = None
  /\ pc = [a \in Actors |-> "new"]
  /\ kind = [c \in Calls |-> "startup"]
  /\ ahead = [c \in Calls |-> {}]
  /\ call = [c \in Calls |-> "none"]
  /\ answer = [c \in Calls |-> None]
  /\ os = [c \in Calls |-> "unborn"]
  /\ inbox = [c \in Calls |-> <<>>]
  /\ outbox = [c \in Calls |-> <<>>]
  /\ scratch = "clean"

-----------------------------------------------------------------------------
(* The caller: _run *)

\* _run, up to its await: a closed slot refuses, otherwise the task of the
\* call joins the operations (and, at its first step, the lock's queue).
Run(c) ==
  /\ call[c] = "none"
  /\ \E k \in {"startup", "translate"} : kind' = [kind EXCEPT ![c] = k]
  /\ \/ /\ closed
        /\ call' = [call EXCEPT ![c] = "raised"]
        /\ UNCHANGED <<pc, ahead>>
     \/ /\ ~closed
        /\ call' = [call EXCEPT ![c] = "running"]
        /\ pc' = [pc EXCEPT ![c] = "queued"]
        /\ ahead' = [ahead EXCEPT ![c] = {d \in Calls : pc[d] = "queued"}]
  /\ UNCHANGED <<slotVars, answer, childVars>>

\* The faulty variant below does not cancel a task that reads from its child.
CancelledShielded(p) ==
  CASE p = "queued"   -> "failed"
    [] p = "creating" -> "salvaging"
    [] OTHER          -> p

\* Where a task goes when CancelledError is thrown at its await: while the
\* child is being created the creation is awaited first; inside _discard and
\* inside that wait (_finish) a cancellation has no effect.
Cancelled(p) ==
  CASE p = "queued"   -> "failed"
    [] p = "creating" -> "salvaging"
    [] p \in Waiting  -> "reaping"
    [] OTHER          -> p

\* The deadline of asyncio.wait_for, or a cancellation of the caller: it
\* cancels the task and waits for it.  When it meets a task that has just
\* ended, the caller still raises.
Interrupt(c) ==
  /\ call[c] = "running"
  /\ \/ /\ pc[c] \notin Ended
        /\ pc' = [pc EXCEPT ![c] = Cancelled(@)]
        /\ UNCHANGED call
     \/ /\ pc[c] \in Ended
        /\ call' = [call EXCEPT ![c] = "raised"]
        /\ UNCHANGED pc
  /\ UNCHANGED <<slotVars, kind, ahead, answer, childVars>>

Return(c) ==
  /\ call[c] = "running"
  /\ pc[c] \in Ended
  /\ call' = [call EXCEPT ![c] = IF pc[c] = "succeeded" THEN "returned" ELSE "raised"]
  /\ UNCHANGED <<slotVars, taskVars, childVars>>

-----------------------------------------------------------------------------
(* The task: _operate, _start and _discard *)

\* A task ends and gives the lock back.
Leave(a, end) ==
  /\ pc' = [pc EXCEPT ![a] = end]
  /\ lock' = None

\* The child is forgotten, and its pipes with it.
Detach ==
  /\ process' = None
  /\ inbox' = [inbox EXCEPT ![process] = <<>>]
  /\ outbox' = [outbox EXCEPT ![process] = <<>>]

\* An exception after the lock was taken: _discard reaps the child that is
\* attached, if there is one, and the exception leaves the task.
Abandon(c) ==
  IF process = None
    THEN Leave(c, "failed")
    ELSE /\ pc' = [pc EXCEPT ![c] = "reaping"]
         /\ lock' = c

\* The faulty variant below writes the request without its nonce.
ProceedUnnamed(c, child) ==
  IF kind[c] = "startup"
    THEN Leave(c, "succeeded") /\ UNCHANGED inbox
    ELSE /\ pc' = [pc EXCEPT ![c] = "response"]
         /\ lock' = c
         /\ inbox' = [inbox EXCEPT ![child] = Append(@, None)]

\* Write the request of a translate, or end a startup.
Proceed(c, child) ==
  IF kind[c] = "startup"
    THEN Leave(c, "succeeded") /\ UNCHANGED inbox
    ELSE /\ pc' = [pc EXCEPT ![c] = "response"]
         /\ lock' = c
         /\ inbox' = [inbox EXCEPT ![child] = Append(@, c)]

\* The lock is granted in the order of the queue; _start then refuses a
\* closed slot, keeps an attached child without asking whether it lives,
\* or begins to create one.
Acquire(c) ==
  /\ pc[c] = "queued"
  /\ lock = None
  /\ \A d \in ahead[c] : pc[d] # "queued"
  /\ \/ closed /\ Abandon(c) /\ UNCHANGED inbox
     \/ ~closed /\ process # None /\ Proceed(c, process)
     \/ /\ ~closed
        /\ process = None
        /\ pc' = [pc EXCEPT ![c] = "creating"]
        /\ lock' = c
        /\ UNCHANGED inbox
  /\ UNCHANGED <<closed, process, kind, ahead, call, answer, os, outbox, scratch>>

\* create_subprocess_exec: the child exists before the awaiting task knows.
Spawn(c) ==
  /\ pc[c] \in Creating
  /\ os[c] = "unborn"
  /\ os' = [os EXCEPT ![c] = "loading"]
  /\ UNCHANGED <<slotVars, taskVars, call, inbox, outbox, scratch>>

SpawnFails(c) ==
  /\ pc[c] \in Creating
  /\ os[c] = "unborn"
  /\ Abandon(c)
  /\ UNCHANGED <<closed, process, kind, ahead, call, answer, childVars>>

\* self._process is assigned; a cancelled creation discards it at once.
Created(c) ==
  /\ pc[c] \in Creating
  /\ os[c] # "unborn"
  /\ process' = c
  /\ pc' = [pc EXCEPT ![c] = IF @ = "creating" THEN "readiness" ELSE "reapingSalvaged"]
  /\ UNCHANGED <<closed, lock, kind, ahead, call, answer, childVars>>

\* The faulty variant below skips the comparison with READY + revision.
ReadReadinessUnchecked(c) ==
  /\ pc[c] = "readiness"
  /\ outbox[process] # <<>>
  /\ outbox' = [outbox EXCEPT ![process] = Tail(@)]
  /\ Proceed(c, process)
  /\ UNCHANGED <<closed, process, kind, ahead, call, answer, os, scratch>>

ReadReadiness(c) ==
  /\ pc[c] = "readiness"
  /\ outbox[process] # <<>>
  /\ outbox' = [outbox EXCEPT ![process] = Tail(@)]
  /\ \/ Head(outbox[process]).type = "ready" /\ Proceed(c, process)
     \/ Head(outbox[process]).type # "ready" /\ Abandon(c) /\ UNCHANGED inbox
  /\ UNCHANGED <<closed, process, kind, ahead, call, answer, os, scratch>>

\* The faulty variant below accepts a response without comparing its nonce.
ReadResponseUnbound(c) ==
  /\ pc[c] = "response"
  /\ outbox[process] # <<>>
  /\ outbox' = [outbox EXCEPT ![process] = Tail(@)]
  /\ Leave(c, "succeeded")
  /\ answer' = [answer EXCEPT ![c] = Head(outbox[process]).text]
  /\ UNCHANGED <<closed, process, kind, ahead, call, os, inbox, scratch>>

ReadResponse(c) ==
  /\ pc[c] = "response"
  /\ outbox[process] # <<>>
  /\ outbox' = [outbox EXCEPT ![process] = Tail(@)]
  /\ \/ /\ Head(outbox[process]).type = "response"
        /\ Head(outbox[process]).nonce = c
        /\ Leave(c, "succeeded")
        /\ answer' = [answer EXCEPT ![c] = Head(outbox[process]).text]
     \/ /\ \/ Head(outbox[process]).type # "response"
           \/ Head(outbox[process]).nonce # c
        /\ Abandon(c)
        /\ UNCHANGED answer
  /\ UNCHANGED <<closed, process, kind, ahead, call, os, inbox, scratch>>

\* End of file, a broken pipe, or fewer bytes than a frame: the leader of
\* the child's group is gone.
ReadEnds(c) ==
  /\ pc[c] \in Waiting
  /\ os[process] \in {"dead", "orphaned"}
  /\ Abandon(c)
  /\ UNCHANGED <<closed, process, kind, ahead, call, answer, childVars>>

\* reap(): SIGKILL to the whole process group.
Kill(a) ==
  /\ pc[a] \in Reaping
  /\ os[process] \in Running \cup {"orphaned"}
  /\ os' = [os EXCEPT ![process] = "killed"]
  /\ UNCHANGED <<slotVars, taskVars, call, inbox, outbox, scratch>>

\* The faulty variant below forgets the child before its death is confirmed.
ReapedEarly(a) ==
  /\ pc[a] \in Reaping
  /\ os[process] \in {"killed", "dead"}
  /\ Detach
  /\ Leave(a, IF a = Closer THEN "succeeded" ELSE "failed")
  /\ scratch' = "clean"
  /\ UNCHANGED <<closed, kind, ahead, call, answer, os>>

\* The faulty variant below leaves the scratch directory as it is.
ReapedUncleared(a) ==
  /\ pc[a] \in Reaping
  /\ os[process] = "dead"
  /\ Detach
  /\ Leave(a, IF a = Closer THEN "succeeded" ELSE "failed")
  /\ UNCHANGED <<closed, kind, ahead, call, answer, os, scratch>>

\* communicate() drained the pipes and saw the exit; the scratch is cleared.
\* A member of the group that holds no end of a pipe was killed with it and is
\* taken for dead: it runs no more, even if the kernel has not removed it yet.
Reaped(a) ==
  /\ pc[a] \in Reaping
  /\ os[process] = "dead"
  /\ Detach
  /\ Leave(a, IF a = Closer THEN "succeeded" ELSE "failed")
  /\ scratch' = "clean"
  /\ UNCHANGED <<closed, kind, ahead, call, answer, os>>

\* The faulty variant below leaves the slot open after an uncertain reap.
ReapFailsOpen(a) ==
  /\ pc[a] \in Reaping
  /\ \/ UNCHANGED <<process, inbox, outbox>>
     \/ os[process] = "dead" /\ Detach
  /\ Leave(a, "failed")
  /\ UNCHANGED <<closed, kind, ahead, call, answer, os, scratch>>

\* reap() gives up (the exit was not seen in time, or the kill was refused)
\* or, the child reaped, its scratch cannot be cleared: no replacement may
\* follow.  The discard of a salvaged child is tried once more by _operate,
\* which finds nothing to reap when only the scratch failed.
ReapFails(a) ==
  /\ pc[a] \in Reaping
  /\ closed' = TRUE
  /\ \/ /\ pc[a] = "reaping"
        /\ Leave(a, "failed")
        /\ UNCHANGED <<process, inbox, outbox>>
     \/ /\ pc[a] = "reapingSalvaged"
        /\ pc' = [pc EXCEPT ![a] = "reaping"]
        /\ UNCHANGED <<process, lock, inbox, outbox>>
     \/ /\ os[process] = "dead"
        /\ Detach
        /\ Leave(a, "failed")
  /\ UNCHANGED <<kind, ahead, call, answer, os, scratch>>

-----------------------------------------------------------------------------
(* close() *)

Close ==
  /\ pc[Closer] = "new"
  /\ closed' = TRUE
  /\ pc' = [a \in Actors |-> IF a = Closer THEN "draining" ELSE Cancelled(pc[a])]
  /\ UNCHANGED <<process, lock, kind, ahead, call, answer, childVars>>

\* The faulty variant below does not wait for the operations it cancelled.
CloseUndrained ==
  /\ pc[Closer] = "draining"
  /\ IF process = None
       THEN /\ pc' = [pc EXCEPT ![Closer] = "succeeded"]
            /\ UNCHANGED lock
       ELSE /\ pc' = [pc EXCEPT ![Closer] = "reaping"]
            /\ lock' = Closer
  /\ UNCHANGED <<closed, process, kind, ahead, call, answer, childVars>>

\* The cancelled operations have ended; the lock is taken for a last discard.
CloseDrained ==
  /\ pc[Closer] = "draining"
  /\ \A c \in Calls : pc[c] \in {"new"} \cup Ended
  /\ lock = None
  /\ IF process = None
       THEN /\ pc' = [pc EXCEPT ![Closer] = "succeeded"]
            /\ UNCHANGED lock
       ELSE /\ pc' = [pc EXCEPT ![Closer] = "reaping"]
            /\ lock' = Closer
  /\ UNCHANGED <<closed, process, kind, ahead, call, answer, childVars>>

-----------------------------------------------------------------------------
(* The child process, g: serve_worker, its loader and what may befall it *)

\* The readiness frame, for the slot's revision or for another.
Load(g) ==
  /\ os[g] = "loading"
  /\ \/ /\ os' = [os EXCEPT ![g] = "serving"]
        /\ outbox' = [outbox EXCEPT ![g] = Append(@, Ready("ready"))]
     \/ /\ os' = [os EXCEPT ![g] = "impostor"]
        /\ outbox' = [outbox EXCEPT ![g] = Append(@, Ready("otherRevision"))]
  /\ UNCHANGED <<slotVars, taskVars, call, inbox, scratch>>

\* One turn of the loop.  A child may answer its request, answer it twice,
\* or write bytes that bind no request.
Serve(g) ==
  /\ os[g] \in {"serving", "impostor"}
  /\ inbox[g] # <<>>
  /\ inbox' = [inbox EXCEPT ![g] = Tail(@)]
  /\ \E reply \in LET right == Response(Head(inbox[g]), Head(inbox[g]))
                  IN {<<right>>, <<right, right>>, <<Response(None, None)>>} :
        outbox' = [outbox EXCEPT ![g] = @ \o reply]
  /\ UNCHANGED <<slotVars, taskVars, call, os, scratch>>

UseScratch(g) ==
  /\ os[g] \in Running \cup {"orphaned"}
  /\ scratch' = "dirty"
  /\ UNCHANGED <<slotVars, taskVars, call, os, inbox, outbox>>

\* The child dies of itself, with its whole group or leaving descendants.
Crash(g) ==
  /\ os[g] \in Running
  /\ \E s \in {"dead", "orphaned"} : os' = [os EXCEPT ![g] = s]
  /\ UNCHANGED <<slotVars, taskVars, call, inbox, outbox, scratch>>

\* A killed group leaves the kernel.
Exit(g) ==
  /\ os[g] = "killed"
  /\ os' = [os EXCEPT ![g] = "dead"]
  /\ UNCHANGED <<slotVars, taskVars, call, inbox, outbox, scratch>>

-----------------------------------------------------------------------------
Read(c) == ReadReadiness(c) \/ ReadResponse(c) \/ ReadEnds(c)

Create(c) == Spawn(c) \/ SpawnFails(c)

Discard(a) == Reaped(a) \/ ReapFails(a)

CallStep(c) == Run(c) \/ Interrupt(c) \/ Return(c)

TaskStep(c) == Acquire(c) \/ Create(c) \/ Created(c) \/ Read(c)

ChildStep(g) == Load(g) \/ Serve(g) \/ UseScratch(g) \/ Crash(g) \/ Exit(g)

Next ==
  \/ \E c \in Calls : CallStep(c) \/ TaskStep(c) \/ ChildStep(c)
  \/ \E a \in Actors : Kill(a) \/ Discard(a)
  \/ Close
  \/ CloseDrained

Spec == Init /\ [][Next]_vars

\* The event loop runs every ready task, a deadline passes, fork and the
\* bounded reap end, a killed group dies.  Nothing is asked of the child.
Fairness ==
  /\ \A c \in Calls : /\ WF_vars(Interrupt(c))
                      /\ WF_vars(Return(c))
                      /\ WF_vars(Acquire(c))
                      /\ WF_vars(Create(c))
                      /\ WF_vars(Created(c))
                      /\ WF_vars(Read(c))
                      /\ WF_vars(Exit(c))
  /\ \A a \in Actors : WF_vars(Kill(a)) /\ WF_vars(Discard(a))
  /\ WF_vars(CloseDrained)

FairSpec == Spec /\ Fairness

-----------------------------------------------------------------------------
(* Properties *)

\* "Failure destroys that worker before another request can launch its
\* replacement": two children of one slot are never alive together, however
\* spawns, cancellations, failed reaps and close() interleave.
OneChild == \A g, h \in Calls : os[g] \in Alive /\ os[h] \in Alive => g = h

\* The class's promise about binding: a transcript handed to a caller was
\* made from that caller's video, even after a child answered twice or a
\* request was abandoned half way.
OwnTranscript ==
  \A c \in Calls : call[c] = "returned" /\ kind[c] = "translate" => answer[c] = c

\* Only a child that announced this release's revision is ever given a
\* video, also when the slot was warmed by an earlier call.
VerifiedBeforeAsked ==
  \A c \in Calls : inbox[c] # <<>> => os[c] \notin {"loading", "impostor"}

\* When close() returns, no child of the slot is alive, nor will one appear
\* from a creation that close() overtook.
CloseMeansDead ==
  pc[Closer] = "succeeded" => /\ \A g \in Calls : os[g] \notin Alive
                              /\ \A c \in Calls : pc[c] \notin Creating

\* A child is launched into an empty scratch directory: nothing written by an
\* earlier child, cancelled or crashed at any point, is visible to it.
CleanLaunch ==
  [][\A g \in Calls : os[g] = "unborn" /\ os'[g] # "unborn" => scratch = "clean"]_vars

\* A caller of startup or translate never waits for ever, whatever the model
\* does: the deadline ends the wait and the reap that follows it is bounded.
CallsReturn == \A c \in Calls : call[c] = "running" ~> call[c] # "running"

\* close() ends, returning or raising.
CloseEnds == pc[Closer] = "draining" ~> pc[Closer] \in Ended
=============================================================================
