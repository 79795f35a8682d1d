------------------------------ MODULE Sidecar -------------------------------
(***************************************************************************)
(* The pool of warm workers behind one private socket:                     *)
(* community/sidecar.py, class CommunityModelSidecar.                      *)
(*                                                                         *)
(* A worker is the slot that WarmWorker specifies, seen from outside: its  *)
(* startup(), translate() and close() always end, a success leaves it warm *)
(* and a failure leaves it cold (the child is reaped), stuck (cleanup is   *)
(* uncertain and the worker is closed) or, when a deadline meets a task    *)
(* that has just ended, warm.  Actions are the code between two awaits.    *)
(***************************************************************************)
EXTENDS Naturals, Sequences, FiniteSets, Functions

CONSTANTS
  Workers,   \* self.workers
  Requests,  \* the clients of translate(); each makes one request after another
  None       \* no worker

ASSUME PoolNotEmpty == Workers # {} /\ None \notin Workers
ASSUME PoolIsFinite == IsFiniteSet(Workers)

VARIABLES
  stop,      \* the service manager's TERM or INT was received
  owner,     \* where serve_until_stopped awaits
  startup,   \* the task of start()
  booting,   \* the worker that task is loading
  server,    \* self._server
  closed,    \* self._closed
  closing,   \* where the task of _close awaits
  queue,     \* self._available
  call,      \* what each caller of translate() has seen
  op,        \* where each _translate task awaits
  held,      \* the worker each _translate task took
  rewarm,    \* where each worker's _rewarm task awaits
  lock,      \* the worker whose recovery holds self._recovery_lock
  slot,      \* each worker's own state
  failed     \* a failed server.close() is to be reported

ownerVars   == <<stop, owner>>
startVars   == <<startup, booting>>
closeVars   == <<closed, closing, failed>>
requestVars == <<call, op, held>>
rewarmVars  == <<rewarm, lock>>
vars == <<stop, owner, startup, booting, server, closed, closing, queue,
          call, op, held, rewarm, lock, slot, failed>>

Pending == {"waiting", "inferring", "aborting"}   \* places of a live _translate
HasChild == {"loading", "warm", "stuck", "lost"}  \* a child may be alive

TypeOK ==
  /\ stop \in BOOLEAN /\ closed \in BOOLEAN /\ failed \in BOOLEAN
  /\ owner \in {"new", "starting", "serving", "stopping", "failing", "returned", "raised"}
  /\ startup \in {"none", "loading", "aborting", "opening", "done", "failed"}
  /\ booting \in Workers \cup {None} /\ lock \in Workers \cup {None}
  /\ server \in {"none", "open", "closed"}
  /\ closing \in {"none", "begun", "startup", "server", "operations", "recoveries",
                  "workers", "done", "failed"}
  /\ queue \in Seq(Workers) /\ Len(queue) <= Cardinality(Workers)
  /\ call \in [Requests -> {"none", "running", "returned", "raised"}]
  /\ op \in [Requests -> {"none", "done", "failed"} \cup Pending]
  /\ held \in [Requests -> Workers \cup {None}]
  /\ rewarm \in [Workers -> {"none", "queued", "loading", "aborting"}]
  /\ slot \in [Workers -> {"cold", "loading", "warm", "stuck", "shut", "lost"}]

Init ==
  /\ stop = FALSE /\ closed = FALSE /\ failed = FALSE
  /\ owner = "new" /\ startup = "none" /\ server = "none" /\ closing = "none"
  /\ booting = None /\ lock = None
  /\ queue = <<>>
  /\ call = [r \in Requests |-> "none"]
  /\ op = [r \in Requests |-> "none"]
  /\ held = [r \in Requests |-> None]
  /\ rewarm = [w \in Workers |-> "none"]
  /\ slot = [w \in Workers |-> "cold"]

-----------------------------------------------------------------------------
\* The faulty variant below leaves the pool open while it closes.
BeginCloseOpen ==
  /\ closing' = IF closing = "none" THEN "begun" ELSE closing
  /\ UNCHANGED <<closed, failed>>

\* _begin_close: the first caller creates the task of _close.
BeginClose ==
  /\ closed' = TRUE
  /\ closing' = IF closing = "none" THEN "begun" ELSE closing
  /\ UNCHANGED failed

\* put_nowait, and the loading of a worker, on which several actions agree.
Put(w) == queue' = Append(queue, w)
Becomes(w, s) == slot' = [slot EXCEPT ![w] = s]

-----------------------------------------------------------------------------
(* start() *)

\* The workers are loaded one after another; the next load begins in the
\* step that queues the worker before it.
BootFirst ==
  \E w \in Workers : /\ startup' = "loading"
                     /\ booting' = w
                     /\ Becomes(w, "loading")

BootSucceeds(w) ==
  /\ startup = "loading"
  /\ booting = w
  /\ Put(w)
  /\ \/ \E v \in Workers \ (Range(queue) \cup {w}) :
          /\ booting' = v
          /\ slot' = [slot EXCEPT ![w] = "warm", ![v] = "loading"]
          /\ UNCHANGED startup
     \/ /\ Workers = Range(queue) \cup {w}
        /\ startup' = "opening"
        /\ booting' = None
        /\ Becomes(w, "warm")
  /\ UNCHANGED <<ownerVars, server, closeVars, requestVars, rewarmVars>>

\* A load fails, or ends after its cancellation; start() then closes.
BootFails(w) ==
  /\ startup \in {"loading", "aborting"}
  /\ booting = w
  /\ startup' = "failed"
  /\ booting' = None
  /\ \E s \in {"warm", "cold", "stuck"} : Becomes(w, s)
  /\ BeginClose
  /\ UNCHANGED <<ownerVars, server, queue, requestVars, rewarmVars>>

\* start_model_sidecar binds the socket, or raises.
OpenServer ==
  /\ startup = "opening"
  /\ \/ /\ startup' = "done"
        /\ server' = "open"
        /\ UNCHANGED closeVars
     \/ /\ startup' = "failed"
        /\ BeginClose
        /\ UNCHANGED server
  /\ UNCHANGED <<ownerVars, booting, queue, requestVars, rewarmVars, slot>>

\* start() itself has ended: its failure is reported after the close.
StartEnded == \/ startup = "done"
              \/ startup = "failed" /\ closing \in {"done", "failed"}

-----------------------------------------------------------------------------
(* translate() and _translate *)

\* Requests come from the socket, which may accept before start() has
\* stored it; a pool that is not ready, or closed, refuses.
Translate(r) ==
  /\ call[r] # "running"
  /\ startup = "opening" \/ server # "none"
  /\ \/ /\ closed \/ server = "none"
        /\ call' = [call EXCEPT ![r] = "raised"]
        /\ UNCHANGED op
     \/ /\ ~closed /\ server # "none"
        /\ call' = [call EXCEPT ![r] = "running"]
        /\ op' = [op EXCEPT ![r] = "waiting"]
  /\ UNCHANGED <<ownerVars, startVars, server, closeVars, queue, held, rewarmVars, slot>>

\* A worker leaves the queue; a pool that closed meanwhile keeps it out.
TakeWorker(r) ==
  /\ op[r] = "waiting"
  /\ queue # <<>>
  /\ queue' = Tail(queue)
  /\ \/ /\ closed
        /\ op' = [op EXCEPT ![r] = "failed"]
        /\ UNCHANGED held
     \/ /\ ~closed
        /\ op' = [op EXCEPT ![r] = "inferring"]
        /\ held' = [held EXCEPT ![r] = Head(queue)]
  /\ UNCHANGED <<ownerVars, startVars, server, closeVars, call, rewarmVars, slot>>

Answer(r) ==
  /\ op[r] = "inferring"
  /\ op' = [op EXCEPT ![r] = "done"]
  /\ held' = [held EXCEPT ![r] = None]
  /\ Put(held[r])
  /\ UNCHANGED <<ownerVars, startVars, server, closeVars, call, rewarmVars, slot>>

\* The faulty variant below queues the worker whatever came of the request.
InferenceFailsRequeued(r) ==
  /\ op[r] \in {"inferring", "aborting"}
  /\ op' = [op EXCEPT ![r] = "failed"]
  /\ held' = [held EXCEPT ![r] = None]
  /\ \E s \in {"warm", "cold", "stuck"} :
       /\ Becomes(held[r], s)
       /\ IF s = "stuck" THEN BeginClose ELSE UNCHANGED closeVars
       /\ rewarm' = IF s = "stuck" \/ closed
                      THEN rewarm ELSE [rewarm EXCEPT ![held[r]] = "queued"]
  /\ Put(held[r])
  /\ UNCHANGED <<ownerVars, startVars, server, call, lock>>

\* The faulty variant below forgets the worker when a request was aborted.
InferenceFailsForgotten(r) ==
  /\ op[r] \in {"inferring", "aborting"}
  /\ op' = [op EXCEPT ![r] = "failed"]
  /\ held' = [held EXCEPT ![r] = None]
  /\ \E s \in {"warm", "cold", "stuck"} :
       /\ Becomes(held[r], s)
       /\ IF s = "stuck" THEN BeginClose ELSE UNCHANGED closeVars
       /\ rewarm' = IF s = "stuck" \/ closed \/ op[r] = "aborting"
                      THEN rewarm ELSE [rewarm EXCEPT ![held[r]] = "queued"]
  /\ UNCHANGED <<ownerVars, startVars, server, queue, call, lock>>

\* worker.translate raises.  A closed worker closes the pool; any other is
\* reloaded outside the request, unless the pool is closing.
InferenceFails(r) ==
  /\ op[r] \in {"inferring", "aborting"}
  /\ op' = [op EXCEPT ![r] = "failed"]
  /\ held' = [held EXCEPT ![r] = None]
  /\ \E s \in {"warm", "cold", "stuck"} :
       /\ Becomes(held[r], s)
       /\ IF s = "stuck" THEN BeginClose ELSE UNCHANGED closeVars
       /\ rewarm' = IF s = "stuck" \/ closed
                      THEN rewarm ELSE [rewarm EXCEPT ![held[r]] = "queued"]
  /\ UNCHANGED <<ownerVars, startVars, server, queue, call, lock>>

\* The faulty variant below goes on waiting for a worker.
CancelledInferring(p) == IF p = "inferring" THEN "aborting" ELSE p

\* A cancelled _translate leaves the queue, or aborts its worker's request.
Cancelled(p) == CASE p = "waiting"   -> "failed"
                  [] p = "inferring" -> "aborting"
                  [] OTHER           -> p

\* The queue-inclusive deadline, or the caller's own cancellation.
Interrupt(r) ==
  /\ call[r] = "running"
  /\ \/ /\ op[r] \in Pending
        /\ op' = [op EXCEPT ![r] = Cancelled(@)]
        /\ UNCHANGED call
     \/ /\ op[r] \notin Pending
        /\ call' = [call EXCEPT ![r] = "raised"]
        /\ UNCHANGED op
  /\ UNCHANGED <<ownerVars, startVars, server, closeVars, queue, held, rewarmVars, slot>>

Return(r) ==
  /\ call[r] = "running"
  /\ op[r] \in {"done", "failed"}
  /\ call' = [call EXCEPT ![r] = IF op[r] = "done" THEN "returned" ELSE "raised"]
  /\ UNCHANGED <<ownerVars, startVars, server, closeVars, queue, op, held, rewarmVars, slot>>

-----------------------------------------------------------------------------
(* _rewarm *)

\* The faulty variant below reloads without the recovery lock.
RewarmBeginsUnlocked(w) ==
  /\ rewarm[w] = "queued"
  /\ ~closed
  /\ rewarm' = [rewarm EXCEPT ![w] = "loading"]
  /\ Becomes(w, "loading")
  /\ UNCHANGED <<ownerVars, startVars, server, closeVars, queue, requestVars, lock>>

\* The recovery lock is granted, and startup() called; of a worker whose
\* child is still attached it only looks at that.
RewarmBegins(w) ==
  /\ rewarm[w] = "queued"
  /\ lock = None
  /\ IF closed
       THEN /\ rewarm' = [rewarm EXCEPT ![w] = "none"]
            /\ UNCHANGED <<lock, slot>>
       ELSE /\ rewarm' = [rewarm EXCEPT ![w] = "loading"]
            /\ lock' = w
            /\ Becomes(w, "loading")
  /\ UNCHANGED <<ownerVars, startVars, server, closeVars, queue, requestVars>>

RewarmSucceeds(w) ==
  /\ rewarm[w] = "loading"
  /\ rewarm' = [rewarm EXCEPT ![w] = "none"]
  /\ lock' = None
  /\ Becomes(w, "warm")
  /\ IF closed THEN UNCHANGED queue ELSE Put(w)
  /\ UNCHANGED <<ownerVars, startVars, server, closeVars, requestVars>>

\* The faulty variant below leaves the pool open without the worker.
RewarmFailsServing(w) ==
  /\ rewarm[w] \in {"loading", "aborting"}
  /\ rewarm' = [rewarm EXCEPT ![w] = "none"]
  /\ lock' = None
  /\ \E s \in {"warm", "cold", "stuck"} : Becomes(w, s)
  /\ UNCHANGED <<ownerVars, startVars, server, closeVars, queue, requestVars>>

\* A failed reload closes the pool; a cancelled one only ends.
RewarmFails(w) ==
  /\ rewarm[w] \in {"loading", "aborting"}
  /\ rewarm' = [rewarm EXCEPT ![w] = "none"]
  /\ lock' = None
  /\ \E s \in {"warm", "cold", "stuck"} : Becomes(w, s)
  /\ IF rewarm[w] = "loading" THEN BeginClose ELSE UNCHANGED closeVars
  /\ UNCHANGED <<ownerVars, startVars, server, queue, requestVars>>

-----------------------------------------------------------------------------
(* _close *)

\* The task's first step cancels a start() that has not ended.
CloseStartup ==
  /\ closing = "begun"
  /\ closing' = "startup"
  /\ startup' = CASE startup = "loading" -> "aborting"
                  [] startup = "opening" -> "failed"
                  [] OTHER               -> startup
  /\ UNCHANGED <<ownerVars, booting, server, closed, failed, queue, requestVars, rewarmVars, slot>>

\* server.close(), whose failure is kept for later.
CloseServer ==
  /\ closing = "startup"
  /\ startup \in {"none", "done", "failed"}
  /\ closing' = "server"
  /\ \/ server = "none" /\ UNCHANGED <<server, failed>>
     \/ server = "open" /\ server' = "closed" /\ failed' \in BOOLEAN
  /\ UNCHANGED <<ownerVars, startVars, closed, queue, requestVars, rewarmVars, slot>>

CloseOperations ==
  /\ closing = "server"
  /\ closing' = "operations"
  /\ op' = [r \in Requests |-> Cancelled(op[r])]
  /\ UNCHANGED <<ownerVars, startVars, server, closed, failed, queue, call, held, rewarmVars, slot>>

\* The faulty variant below does not wait for the cancelled operations.
CloseRecoveriesEarly ==
  /\ closing = "operations"
  /\ closing' = "recoveries"
  /\ rewarm' = [w \in Workers |-> CASE rewarm[w] = "queued"  -> "none"
                                    [] rewarm[w] = "loading" -> "aborting"
                                    [] OTHER                 -> rewarm[w]]
  /\ UNCHANGED <<ownerVars, startVars, server, closed, failed, queue, requestVars, lock, slot>>

CloseRecoveries ==
  /\ closing = "operations"
  /\ \A r \in Requests : op[r] \notin Pending
  /\ closing' = "recoveries"
  /\ rewarm' = [w \in Workers |-> CASE rewarm[w] = "queued"  -> "none"
                                    [] rewarm[w] = "loading" -> "aborting"
                                    [] OTHER                 -> rewarm[w]]
  /\ UNCHANGED <<ownerVars, startVars, server, closed, failed, queue, requestVars, lock, slot>>

CloseWorkers ==
  /\ closing = "recoveries"
  /\ \A w \in Workers : rewarm[w] = "none"
  /\ closing' = "workers"
  /\ UNCHANGED <<ownerVars, startVars, server, closed, failed, queue, requestVars, rewarmVars, slot>>

\* worker.close() reaps the child, or raises.
CloseWorker(w) ==
  /\ closing = "workers"
  /\ slot[w] \notin {"shut", "lost"}
  /\ \/ Becomes(w, "shut")
     \/ slot[w] \in HasChild /\ Becomes(w, "lost")
  /\ UNCHANGED <<ownerVars, startVars, server, closeVars, queue, requestVars, rewarmVars>>

\* The faulty variant below reports the socket's failure only.
CloseEndsSilent ==
  /\ closing = "workers"
  /\ \A w \in Workers : slot[w] \in {"shut", "lost"}
  /\ closing' = IF failed THEN "failed" ELSE "done"
  /\ UNCHANGED <<ownerVars, startVars, server, closed, failed, queue, requestVars, rewarmVars, slot>>

CloseEnds ==
  /\ closing = "workers"
  /\ \A w \in Workers : slot[w] \in {"shut", "lost"}
  /\ closing' = IF failed \/ \E w \in Workers : slot[w] = "lost" THEN "failed" ELSE "done"
  /\ UNCHANGED <<ownerVars, startVars, server, closed, failed, queue, requestVars, rewarmVars, slot>>

-----------------------------------------------------------------------------
(* serve_until_stopped *)

Stop ==
  /\ ~stop
  /\ stop' = TRUE
  /\ UNCHANGED <<owner, startVars, server, closeVars, queue, requestVars, rewarmVars, slot>>

OwnerBegins ==
  /\ owner = "new"
  /\ \/ stop /\ owner' = "stopping" /\ UNCHANGED <<startVars, slot>>
     \/ ~stop /\ owner' = "starting" /\ BootFirst
  /\ UNCHANGED <<stop, server, closeVars, queue, requestVars, rewarmVars>>

\* start() ended or a stop came; both may be true at once.
OwnerStarted ==
  /\ owner = "starting"
  /\ \/ stop /\ owner' = "stopping"
     \/ StartEnded /\ owner' = IF startup = "done" /\ ~closed THEN "serving" ELSE "failing"
  /\ UNCHANGED <<stop, startVars, server, closeVars, queue, requestVars, rewarmVars, slot>>

\* serve_forever ended by itself, or because the pool closed the socket.
OwnerServed ==
  /\ owner = "serving"
  /\ \/ stop /\ owner' = "stopping"
     \/ owner' = "failing"
  /\ UNCHANGED <<stop, startVars, server, closeVars, queue, requestVars, rewarmVars, slot>>

\* The finally clause: unfinished tasks are cancelled, and close() follows.  A
\* cancelled start() closes by itself, once the load it awaits has ended.
OwnerCloses ==
  /\ owner \in {"stopping", "failing"}
  /\ ~closed
  /\ \/ startup = "loading" /\ startup' = "aborting" /\ UNCHANGED closeVars
     \/ startup = "opening" /\ startup' = "failed" /\ BeginClose
     \/ startup \in {"none", "done"} /\ BeginClose /\ UNCHANGED startup
  /\ UNCHANGED <<ownerVars, booting, server, queue, requestVars, rewarmVars, slot>>

OwnerEnds ==
  /\ owner \in {"stopping", "failing"}
  /\ closing \in {"done", "failed"}
  /\ owner' = IF owner = "stopping" /\ closing = "done" THEN "returned" ELSE "raised"
  /\ UNCHANGED <<stop, startVars, server, closeVars, queue, requestVars, rewarmVars, slot>>

-----------------------------------------------------------------------------
Boot(w) == BootSucceeds(w) \/ BootFails(w)

Infer(r) == Answer(r) \/ InferenceFails(r)

Reload(w) == RewarmSucceeds(w) \/ RewarmFails(w)

RequestStep(r) == Translate(r) \/ TakeWorker(r) \/ Infer(r) \/ Interrupt(r) \/ Return(r)

CloseStep ==
  \/ CloseStartup \/ CloseServer \/ CloseOperations \/ CloseRecoveries \/ CloseWorkers
  \/ \E w \in Workers : CloseWorker(w)
  \/ CloseEnds

OwnerStep == OwnerBegins \/ OwnerStarted \/ OwnerServed \/ OwnerCloses \/ OwnerEnds

Next ==
  \/ \E r \in Requests : RequestStep(r)
  \/ \E w \in Workers : Boot(w) \/ RewarmBegins(w) \/ Reload(w)
  \/ OpenServer
  \/ CloseStep
  \/ OwnerStep
  \/ Stop

Spec == Init /\ [][Next]_vars

\* The event loop runs what is ready; every call on a worker ends, as
\* WarmWorker shows; serve_forever ends once the pool has closed the socket;
\* the lock is granted in the order of its queue.
Fairness ==
  /\ \A r \in Requests : WF_vars(TakeWorker(r)) /\ WF_vars(Infer(r))
                         /\ WF_vars(Interrupt(r)) /\ WF_vars(Return(r))
  /\ \A w \in Workers : WF_vars(Boot(w)) /\ WF_vars(Reload(w)) /\ SF_vars(RewarmBegins(w))
  /\ WF_vars(OpenServer)
  /\ WF_vars(CloseStep)
  /\ WF_vars(OwnerBegins) /\ WF_vars(OwnerStarted) /\ WF_vars(OwnerCloses)
  /\ WF_vars(OwnerEnds) /\ WF_vars((stop \/ closed) /\ OwnerServed)

FairSpec == Spec /\ Fairness

-----------------------------------------------------------------------------
(* Properties *)

\* The places a worker can be: in the queue, with a request, in recovery, or
\* in the startup task.
Claims(w) ==
  Cardinality({i \in DOMAIN queue : queue[i] = w})
    + Cardinality({r \in Requests : held[r] = w})
    + (IF rewarm[w] # "none" THEN 1 ELSE 0)
    + (IF booting = w THEN 1 ELSE 0)

\* A worker is never in two places: no cancellation, failure or reload can
\* hand one slot to two requests or queue it twice.
NeverShared == \A w \in Workers : Claims(w) <= 1

\* "Failed verification/reload must not leave advertised slots with no usable
\* workers": while the socket is open for work every worker is in one place.
NeverLost == server = "open" /\ ~closed => \A w \in Workers : Claims(w) = 1

\* A queued worker has a child attached, so that a request never pays for a
\* model load, and a stuck worker is never offered.
QueuedIsWarm == ~closed => \A w \in Range(queue) : slot[w] = "warm"

\* The places of the workers agree with one another at every moment of the
\* service: what translate, _rewarm, _close and the stop signal each move a
\* worker between (sidecar.py:96-148, 181-232) is one partition.
PoolConsistent == TypeOK /\ NeverShared /\ NeverLost /\ QueuedIsWarm

\* "Sequential loading avoids a burst of concurrent model loads": initial
\* loads and reloads together never load two models at once.
OneLoad == Cardinality({w \in Workers : slot[w] = "loading"}) <= 1

\* Workers are closed only when no request, recovery or startup is inside one.
QuietBeforeClose ==
  closing \in {"workers", "done", "failed"} =>
    /\ \A r \in Requests : held[r] = None
    /\ \A w \in Workers : rewarm[w] = "none" /\ booting # w

\* The service returns normally only after every child is reaped; otherwise
\* it raises, whichever of stop, failed start and failed close came first.
ReturnMeansReaped == owner = "returned" => \A w \in Workers : slot[w] \notin HasChild

\* A worker's slot as its owner uses it: busy with a load or a request, and
\* closed once it closed itself or the pool has come to close it.
SlotState(w) ==
  IF slot[w] = "loading" \/ \E r \in Requests : held[r] = w
    THEN "busy"
    ELSE IF slot[w] \in HasChild THEN "warm" ELSE "cold"

SlotClosed(w) ==
  slot[w] \in {"stuck", "shut", "lost"} \/ closing \in {"workers", "done", "failed"}

SlotOf(w) == INSTANCE ModelSlot
             WITH slot <- SlotState(w), closed <- SlotClosed(w), won <- {}, Calls <- {}

\* The pool, with all its requests, reloads and its close running together,
\* takes each worker only through moves of the contract that WarmWorker keeps:
\* a worker that is closed and reaped is never loaded or asked again.
SlotsKept ==
  [][\A w \in Workers : SlotOf(w)!Move \/ UNCHANGED <<SlotState(w), SlotClosed(w)>>]_vars

\* Every request is answered or refused, also when all workers are reloading.
RequestsEnd == \A r \in Requests : call[r] = "running" ~> call[r] # "running"

\* A stop, or a pool that closed itself, ends the service.
ServiceEnds == stop \/ closed ~> owner \in {"returned", "raised"}

\* A worker that a request used is offered again, or the pool closes.
WorkersComeBack ==
  \A w \in Workers : (\E r \in Requests : held[r] = w) ~> (closed \/ w \in Range(queue))
=============================================================================
