-------------------------- MODULE ReferenceBackend --------------------------
(***************************************************************************)
(* The S1 reference backend: bitsign_motion/umi_reference_backend.py,      *)
(* class UmiS1Translator, with the worker process of each job, the docker  *)
(* command line it runs (amd64_holistic_container.py) and the daemon.      *)
(*                                                                         *)
(* A job is one run of _run_job for a translate request.  Its caller       *)
(* awaits a task, _launch_worker_job, whose awaits task[j] names; an       *)
(* action is the code between two of them.  The worker and the command     *)
(* line share a process group; the container is the daemon's.  A SIGTERM   *)
(* stops the worker from acting at once; when it is seen to have exited is *)
(* another matter.                                                         *)
(***************************************************************************)
EXTENDS Naturals, FiniteSets

CONSTANTS
  Jobs,       \* the translate requests
  MaxStop,    \* bound: interruptions of a job, beyond which its caller cancels no more
  MaxOutage,  \* bound: outages of the docker daemon
  MaxCrash    \* bound: workers killed from outside

ASSUME BoundsAreNatural == MaxStop \in Nat /\ MaxOutage \in Nat /\ MaxCrash \in Nat

VARIABLES
  ready,      \* self._config is not None
  closing,    \* self._closing
  shutdown,   \* where shutdown() is; it holds the startup lock while waiting
  call,       \* what the caller of each job has seen
  dir,        \* whether the job's directory exists
  task,       \* where _launch_worker_job awaits
  code,       \* the worker's return code, as far as the task has seen it
  hit,        \* the task met a cancellation or its deadline
  stops,      \* how often the job was interrupted: cancelled, or past its deadline
  leader,     \* the worker process
  result,     \* whether it wrote result.json
  cli,        \* the docker command line that it runs
  term,       \* the termination of the process group
  container,  \* the job's container
  removal,    \* where _force_remove_docker_container awaits
  daemon,     \* whether the docker daemon answers
  outages, crashed

ownerVars  == <<ready, closing, shutdown>>
callVars   == <<call, dir>>
taskVars   == <<task, code, hit, stops>>
workerVars == <<leader, result, cli, container>>
envVars    == <<daemon, outages, crashed>>
vars == <<ready, closing, shutdown, call, dir, task, code, hit, stops,
          leader, result, cli, term, container, removal, daemon, outages, crashed>>

Ended == {"succeeded", "failed"}
Live  == {"checking", "working", "stopping", "cleaning"}

(* What the variables may hold. *)
TypeOK ==
  /\ ready \in BOOLEAN /\ closing \in BOOLEAN
  /\ shutdown \in {"none", "waiting", "done"}
  /\ call \in [Jobs -> {"none", "running", "returned", "raised"}]
  /\ dir \in [Jobs -> BOOLEAN]
  /\ task \in [Jobs -> {"none"} \cup Live \cup Ended]
  /\ code \in [Jobs -> {"none", "zero", "nonzero"}]
  /\ hit \in [Jobs -> BOOLEAN]
  /\ stops \in [Jobs -> 0..MaxStop + 2]
  /\ leader \in [Jobs -> {"none", "running", "dying", "dead"}]
  /\ result \in [Jobs -> BOOLEAN]
  /\ cli \in [Jobs -> {"none", "running", "ended", "dead"}]
  /\ term \in [Jobs -> {"none", "grace", "done"}]
  /\ container \in [Jobs -> {"never", "present", "gone"}]
  /\ removal \in [Jobs -> {"none", "inspect", "doubt", "remove", "confirm", "recheck",
                           "absent", "error"}]
  /\ daemon \in {"up", "down"}
  /\ outages \in 0..MaxOutage
  /\ crashed \subseteq Jobs

Init ==
  /\ ready = FALSE /\ closing = FALSE /\ shutdown = "none"
  /\ call = [j \in Jobs |-> "none"] /\ dir = [j \in Jobs |-> FALSE]
  /\ task = [j \in Jobs |-> "none"] /\ code = [j \in Jobs |-> "none"]
  /\ hit = [j \in Jobs |-> FALSE] /\ stops = [j \in Jobs |-> 0]
  /\ leader = [j \in Jobs |-> "none"] /\ result = [j \in Jobs |-> FALSE]
  /\ cli = [j \in Jobs |-> "none"] /\ term = [j \in Jobs |-> "none"]
  /\ container = [j \in Jobs |-> "never"] /\ removal = [j \in Jobs |-> "none"]
  /\ daemon = "up" /\ outages = 0 /\ crashed = {}

-----------------------------------------------------------------------------
(* startup(), __call__ and _run_job *)

\* startup() under its lock: the probe succeeds, or nothing is configured.
Startup ==
  /\ shutdown # "waiting"
  /\ ~ready
  /\ closing' = FALSE
  /\ ready' = TRUE
  /\ shutdown' = "none"
  /\ UNCHANGED <<callVars, taskVars, workerVars, term, removal, envVars>>

\* __call__ up to the first await of _run_job: the job's directory holds the
\* video and the job record, and the task is created; or the call is refused,
\* for its video as well as for the state of the backend.
Call(j) ==
  /\ call[j] = "none"
  /\ \/ /\ call' = [call EXCEPT ![j] = "raised"]
        /\ UNCHANGED <<dir, task>>
     \/ /\ ready /\ ~closing
        /\ call' = [call EXCEPT ![j] = "running"]
        /\ dir' = [dir EXCEPT ![j] = TRUE]
        /\ task' = [task EXCEPT ![j] = "checking"]
  /\ UNCHANGED <<ownerVars, code, hit, stops, workerVars, term, removal, envVars>>

\* A faulty Return: a directory that could not be removed goes unreported.
ReturnUncleaned(j) ==
  /\ call[j] = "running"
  /\ task[j] \in Ended
  /\ dir' \in {dir, [dir EXCEPT ![j] = FALSE]}
  /\ call' = [call EXCEPT ![j] = IF task[j] = "succeeded" /\ ~hit[j] /\ result[j]
                                   THEN "returned" ELSE "raised"]
  /\ UNCHANGED <<ownerVars, taskVars, workerVars, term, removal, envVars>>

\* _run_job after its await: the result is read and the directory removed,
\* or its removal fails, which is an error of its own.
Return(j) ==
  /\ call[j] = "running"
  /\ task[j] \in Ended
  /\ \/ /\ dir' = [dir EXCEPT ![j] = FALSE]
        /\ call' = [call EXCEPT ![j] = IF task[j] = "succeeded" /\ ~hit[j] /\ result[j]
                                         THEN "returned" ELSE "raised"]
     \/ /\ call' = [call EXCEPT ![j] = "raised"]
        /\ UNCHANGED dir
  /\ UNCHANGED <<ownerVars, taskVars, workerVars, term, removal, envVars>>

-----------------------------------------------------------------------------
(* _launch_worker_job and _run_killable_process *)

\* The check that no such container exists ends; the worker is started, unless
\* the task was interrupted.
Checked(j) ==
  /\ task[j] = "checking"
  /\ \/ /\ ~hit[j]
        /\ task' = [task EXCEPT ![j] = "working"]
        /\ leader' = [leader EXCEPT ![j] = "running"]
     \/ /\ task' = [task EXCEPT ![j] = "failed"]
        /\ UNCHANGED leader
  /\ UNCHANGED <<ownerVars, callVars, code, hit, stops, result, cli, container,
                 term, removal, envVars>>

\* Container cleanup begins with an inspection, in a task of its own.
Cleans(j) ==
  /\ task' = [task EXCEPT ![j] = "cleaning"]
  /\ removal' = [removal EXCEPT ![j] = "inspect"]

\* A faulty WorkerSeen: the return code is kept as it came.
WorkerSeenRaw(j) ==
  /\ task[j] = "working"
  /\ leader[j] = "dead"
  /\ code' = [code EXCEPT ![j] = IF result[j] THEN "zero" ELSE "two"]
  /\ Cleans(j)
  /\ UNCHANGED <<ownerVars, callVars, hit, stops, workerVars, term, envVars>>

\* The worker's exit was seen before the deadline.
WorkerSeen(j) ==
  /\ task[j] = "working"
  /\ leader[j] = "dead"
  /\ code' = [code EXCEPT ![j] = IF result[j] /\ j \notin crashed THEN "zero" ELSE "nonzero"]
  /\ Cleans(j)
  /\ UNCHANGED <<ownerVars, callVars, hit, stops, workerVars, term, envVars>>

\* A faulty Interrupted: the termination is not awaited.
InterruptedUnawaited(K) ==
  LET stopped   == {j \in K : task[j] = "working"}
      signalled == {j \in stopped : leader[j] = "running"}
  IN
    /\ hit' = [j \in Jobs |-> hit[j] \/ j \in K]
    /\ task' = [j \in Jobs |-> IF j \in stopped THEN "cleaning" ELSE task[j]]
    /\ removal' = [j \in Jobs |-> IF j \in stopped THEN "inspect" ELSE removal[j]]
    /\ term' = [j \in Jobs |-> IF j \in stopped THEN "grace" ELSE term[j]]
    /\ leader' = [j \in Jobs |-> IF j \in signalled THEN "dying" ELSE leader[j]]
    /\ cli' = [j \in Jobs |-> IF j \in signalled /\ cli[j] = "running" /\ container[j] = "never"
                                THEN "dead" ELSE cli[j]]

\* CancelledError, or the deadline, reaches the tasks of K.  The first one
\* starts the termination and waits for it: SIGTERM goes to the group, and
\* the command line dies of it unless it has a container to forward it to.
\* A second one leaves that wait, though the termination goes on.  None ends
\* the removal of the container; the check that comes before it all ends when
\* its own command is stopped.
Interrupted(K) ==
  LET stopped   == {j \in K : task[j] = "working"}
      signalled == {j \in stopped : leader[j] = "running"}
      escaped   == {j \in K : task[j] = "stopping"}
  IN
    /\ hit' = [j \in Jobs |-> hit[j] \/ j \in K]
    /\ task' = [j \in Jobs |-> IF j \in stopped THEN "stopping"
                               ELSE IF j \in escaped THEN "cleaning" ELSE task[j]]
    /\ removal' = [j \in Jobs |-> IF j \in escaped THEN "inspect" ELSE removal[j]]
    /\ term' = [j \in Jobs |-> IF j \in stopped THEN "grace" ELSE term[j]]
    /\ leader' = [j \in Jobs |-> IF j \in signalled THEN "dying" ELSE leader[j]]
    /\ cli' = [j \in Jobs |-> IF j \in signalled /\ cli[j] = "running" /\ container[j] = "never"
                                THEN "dead" ELSE cli[j]]

Deadline(j) ==
  /\ task[j] = "working"
  /\ stops' = [stops EXCEPT ![j] = @ + 1]
  /\ Interrupted({j})
  /\ UNCHANGED <<ownerVars, callVars, code, result, container, envVars>>

Cancel(j) ==
  /\ call[j] = "running"
  /\ stops[j] < MaxStop
  /\ stops' = [stops EXCEPT ![j] = @ + 1]
  /\ Interrupted({j})
  /\ UNCHANGED <<ownerVars, callVars, code, result, container, envVars>>

\* A faulty Terminated: no SIGKILL follows the grace period.
TerminatedPolitely(j) ==
  /\ term[j] = "grace"
  /\ leader[j] = "dead"
  /\ term' = [term EXCEPT ![j] = "done"]
  /\ UNCHANGED <<ownerVars, callVars, taskVars, leader, cli, result, container, removal, envVars>>

\* _terminate_process_group: the leader's exit ends it, the grace period is
\* followed by SIGKILL for the whole group.
Terminated(j) ==
  /\ term[j] = "grace"
  /\ term' = [term EXCEPT ![j] = "done"]
  /\ \/ leader[j] = "dead" /\ UNCHANGED <<leader, cli>>
     \/ /\ leader[j] # "dead"
        /\ leader' = [leader EXCEPT ![j] = "dead"]
        /\ cli' = [cli EXCEPT ![j] = IF @ = "running" THEN "dead" ELSE @]
  /\ UNCHANGED <<ownerVars, callVars, taskVars, result, container, removal, envVars>>

StopSeen(j) ==
  /\ task[j] = "stopping"
  /\ term[j] = "done"
  /\ Cleans(j)
  /\ UNCHANGED <<ownerVars, callVars, code, hit, stops, workerVars, term, envVars>>

-----------------------------------------------------------------------------
(* _finish_container_cleanup: _force_remove_docker_container *)

Goes(j, step) == removal' = [removal EXCEPT ![j] = step]

\* A faulty Inspect: an inspection that failed is taken for an absence.
InspectHasty(j) ==
  /\ removal[j] = "inspect"
  /\ \/ container[j] = "present" /\ Goes(j, "remove")
     \/ Goes(j, "absent")
  /\ UNCHANGED <<ownerVars, callVars, taskVars, workerVars, term, envVars>>

\* inspect finds the container, or fails and leaves a doubt; or it is cut
\* off by its own deadline.
Inspect(j) ==
  /\ removal[j] = "inspect"
  /\ \/ daemon = "up" /\ container[j] = "present" /\ Goes(j, "remove")
     \/ (daemon = "down" \/ container[j] # "present") /\ Goes(j, "doubt")
     \/ Goes(j, "error")
  /\ UNCHANGED <<ownerVars, callVars, taskVars, workerVars, term, envVars>>

\* version settles the doubt: a daemon that answers has no such container.
Settle(j) ==
  /\ removal[j] \in {"doubt", "recheck"}
  /\ \/ daemon = "up" /\ Goes(j, "absent")
     \/ Goes(j, "error")
  /\ UNCHANGED <<ownerVars, callVars, taskVars, workerVars, term, envVars>>

\* rm --force: its return code is not looked at.
Remove(j) ==
  /\ removal[j] = "remove"
  /\ \/ /\ daemon = "up"
        /\ container' = [container EXCEPT ![j] = "gone"]
        /\ cli' = [cli EXCEPT ![j] = IF @ = "running" THEN "dead" ELSE @]
        /\ Goes(j, "confirm")
     \/ /\ Goes(j, "confirm")
        /\ UNCHANGED <<container, cli>>
     \/ /\ Goes(j, "error")
        /\ UNCHANGED <<container, cli>>
  /\ UNCHANGED <<ownerVars, callVars, taskVars, leader, result, term, envVars>>

\* The second inspection: a container that survived is an error.
Confirm(j) ==
  /\ removal[j] = "confirm"
  /\ \/ Goes(j, "error")
     \/ (daemon = "down" \/ container[j] # "present") /\ Goes(j, "recheck")
  /\ UNCHANGED <<ownerVars, callVars, taskVars, workerVars, term, envVars>>

\* The task ends when the removal has: in success only if the worker
\* succeeded, nothing interrupted it and no container is left.  (An error of
\* the removal leaves the wait for it at once, and takes the place of an
\* earlier one: which of them is raised is not told apart.)
Cleaned(j) ==
  /\ task[j] = "cleaning"
  /\ removal[j] \in {"absent", "error"}
  /\ task' = [task EXCEPT ![j] = IF code[j] = "zero" /\ ~hit[j] /\ removal[j] = "absent"
                                   THEN "succeeded" ELSE "failed"]
  /\ UNCHANGED <<ownerVars, callVars, code, hit, stops, workerVars, term, removal, envVars>>

-----------------------------------------------------------------------------
(* shutdown() *)

ShutdownBegins ==
  /\ shutdown = "none"
  /\ shutdown' = "waiting"
  /\ closing' = TRUE
  /\ LET K == {j \in Jobs : task[j] \in Live} IN
       /\ Interrupted(K)
       /\ stops' = [j \in Jobs |-> IF j \in K THEN stops[j] + 1 ELSE stops[j]]
  /\ UNCHANGED <<ready, callVars, code, result, container, envVars>>

\* A faulty ShutdownEnds: the cancelled jobs are not gathered.
ShutdownEndsEarly ==
  /\ shutdown = "waiting"
  /\ shutdown' = "done"
  /\ ready' = FALSE
  /\ UNCHANGED <<closing, callVars, taskVars, workerVars, term, removal, envVars>>

ShutdownEnds ==
  /\ shutdown = "waiting"
  /\ \A j \in Jobs : task[j] \notin Live
  /\ shutdown' = "done"
  /\ ready' = FALSE
  /\ UNCHANGED <<closing, callVars, taskVars, workerVars, term, removal, envVars>>

-----------------------------------------------------------------------------
(* The worker: _worker, _execute_worker_job, _run_bounded_command *)

RunDocker(j) ==
  /\ leader[j] = "running"
  /\ cli[j] = "none"
  /\ cli' = [cli EXCEPT ![j] = "running"]
  /\ UNCHANGED <<ownerVars, callVars, taskVars, leader, result, term, container, removal, envVars>>

\* The bounded command gives up: it kills the command line and has the
\* container removed, if the daemon does so.
GiveUp(j) ==
  /\ leader[j] = "running"
  /\ cli[j] = "running"
  /\ cli' = [cli EXCEPT ![j] = "dead"]
  /\ \/ /\ container[j] = "present" /\ daemon = "up"
        /\ container' = [container EXCEPT ![j] = "gone"]
     \/ UNCHANGED container
  /\ UNCHANGED <<ownerVars, callVars, taskVars, leader, result, term, removal, envVars>>

\* The worker ends, having written a result if the extraction was complete.
WorkerExits(j) ==
  /\ leader[j] = "running"
  /\ cli[j] # "running"
  /\ leader' = [leader EXCEPT ![j] = "dead"]
  /\ \/ cli[j] = "ended" /\ result' = [result EXCEPT ![j] = TRUE]
     \/ UNCHANGED result
  /\ UNCHANGED <<ownerVars, callVars, taskVars, cli, term, container, removal, envVars>>

\* SIGTERM takes its effect, or the kernel kills the worker.
WorkerDies(j) ==
  /\ \/ leader[j] = "dying" /\ UNCHANGED crashed
     \/ /\ leader[j] = "running"
        /\ Cardinality(crashed) < MaxCrash
        /\ crashed' = crashed \cup {j}
  /\ leader' = [leader EXCEPT ![j] = "dead"]
  /\ UNCHANGED <<ownerVars, callVars, taskVars, result, cli, term, container, removal,
                 daemon, outages>>

-----------------------------------------------------------------------------
(* The docker daemon *)

CreateContainer(j) ==
  /\ cli[j] = "running" /\ container[j] = "never" /\ daemon = "up"
  /\ container' = [container EXCEPT ![j] = "present"]
  /\ UNCHANGED <<ownerVars, callVars, taskVars, leader, result, cli, term, removal, envVars>>

\* The container ends and is removed (--rm), and the command line with it;
\* or the command line fails before there is one.
DockerEnds(j) ==
  /\ \/ /\ container[j] = "present" /\ daemon = "up"
        /\ container' = [container EXCEPT ![j] = "gone"]
        /\ cli' = [cli EXCEPT ![j] = IF @ = "running" THEN "ended" ELSE @]
     \/ /\ container[j] = "never" /\ cli[j] = "running"
        /\ cli' = [cli EXCEPT ![j] = "dead"]
        /\ UNCHANGED container
  /\ UNCHANGED <<ownerVars, callVars, taskVars, leader, result, term, removal, envVars>>

Outage ==
  /\ \/ daemon = "up" /\ outages < MaxOutage /\ daemon' = "down" /\ outages' = outages + 1
     \/ daemon = "down" /\ daemon' = "up" /\ UNCHANGED outages
  /\ UNCHANGED <<ownerVars, callVars, taskVars, workerVars, term, removal, crashed>>

-----------------------------------------------------------------------------
TaskStep(j) ==
  \/ Checked(j) \/ WorkerSeen(j) \/ StopSeen(j) \/ Terminated(j) \/ Cleaned(j)
  \/ Inspect(j) \/ Settle(j) \/ Remove(j) \/ Confirm(j)

Next ==
  \/ Startup \/ ShutdownBegins \/ ShutdownEnds
  \/ \E j \in Jobs : Call(j) \/ Return(j) \/ Cancel(j) \/ Deadline(j) \/ TaskStep(j)
  \/ \E j \in Jobs : RunDocker(j) \/ GiveUp(j) \/ WorkerExits(j) \/ WorkerDies(j)
  \/ \E j \in Jobs : CreateContainer(j) \/ DockerEnds(j)
  \/ Outage

Spec == Init /\ [][Next]_vars

\* The event loop runs what is ready, deadlines pass, control commands are
\* bounded by their own deadline.  Nothing is asked of worker or daemon.
Fairness ==
  /\ \A j \in Jobs : WF_vars(Return(j)) /\ WF_vars(TaskStep(j)) /\ WF_vars(Deadline(j))
  /\ WF_vars(ShutdownEnds)

FairSpec == Spec /\ Fairness

-----------------------------------------------------------------------------
(* Properties *)

(* A job whose container cleanup reported success leaves no container and  *)
(* no command line that could still create one, however often and whenever *)
(* it was cancelled; the daemon answered all along and no worker was       *)
(* killed from outside.                                                    *)
CleanedUp ==
  \A j \in Jobs : task[j] \in Ended /\ removal[j] = "absent" /\ outages = 0 /\ j \notin crashed
                    => container[j] # "present" /\ cli[j] # "running"

(* A task that was interrupted at most once ends only after its worker     *)
(* process has exited: the one wait for the termination is not left.       *)
WorkerReaped ==
  \A j \in Jobs : task[j] \in Ended /\ stops[j] <= 1 => leader[j] \in {"none", "dead"}

(* Nothing of an ended job is left behind: neither its container nor its   *)
(* worker process (umi_reference_backend.py:577-697).                      *)
NothingLeft == TypeOK /\ CleanedUp /\ WorkerReaped

(* A hypothesis is handed out only when the worker had finished, nothing   *)
(* of the job is left and its directory is removed, whatever else failed.  *)
ReturnedMeansDone ==
  \A j \in Jobs : call[j] = "returned" =>
    /\ ~hit[j] /\ code[j] = "zero" /\ container[j] = "gone"
    /\ leader[j] = "dead" /\ cli[j] = "ended" /\ ~dir[j]

(* A shutdown that returned leaves no task, and no worker of a task that   *)
(* only the shutdown interrupted.                                          *)
ShutdownQuiet ==
  shutdown = "done" => \A j \in Jobs : /\ task[j] \notin Live
                                       /\ stops[j] <= 1 => leader[j] \notin {"running", "dying"}

(* Every request ends and so does a shutdown, although neither the worker  *)
(* nor the daemon ever has to answer.                                      *)
CallsEnd == \A j \in Jobs : (call[j] = "running") ~> (call[j] # "running")
ShutdownCompletes == (shutdown = "waiting") ~> (shutdown # "waiting")

(* What _force_remove_docker_container asserts when it does not raise: the *)
(* container did not survive.  It fails when an inspection fails for       *)
(* another reason than the container's absence and the daemon answers the  *)
(* next command.                                                           *)
AbsentMeansGone ==
  \A j \in Jobs : task[j] \in Ended /\ removal[j] = "absent" /\ j \notin crashed
                    => container[j] # "present"
=============================================================================
