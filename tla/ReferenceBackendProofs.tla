----------------------- MODULE ReferenceBackendProofs -----------------------
(***************************************************************************)
(* Proofs about the jobs of the S1 backend, for any requests and any       *)
(* bounds.  Jobs meet only in the shutdown and the daemon, so the          *)
(* invariant is one of each job, Job(j), beside Gate.                      *)
(***************************************************************************)
EXTENDS ReferenceBackend, TLAPS

\* The places of a job's task after its worker has been started.
Stopped == {"stopping", "cleaning"} \cup Ended

\* What a caller has seen follows the job's task.
Called(j) ==
  /\ call[j] = "none" => task[j] = "none"
  /\ call[j] \in {"running", "returned"} => task[j] # "none"
  /\ call[j] # "running" => task[j] \notin Live
  /\ call[j] = "returned" => task[j] = "succeeded" /\ ~hit[j] /\ ~dir[j]

\* Before the worker is started there is nothing to clean up.
Unstarted(j) ==
  /\ task[j] = "none" => stops[j] = 0 /\ ~hit[j]
  /\ task[j] \in {"none", "checking"} => removal[j] = "none" /\ leader[j] = "none"
  /\ leader[j] = "none" => /\ code[j] = "none" /\ ~result[j]
                           /\ cli[j] = "none" /\ term[j] = "none"

\* What is known at each await of the task.
Placed(j) ==
  /\ task[j] = "working" => /\ code[j] = "none" /\ ~hit[j]
                            /\ term[j] = "none" /\ leader[j] \in {"running", "dead"}
  /\ task[j] = "stopping" => term[j] # "none" /\ leader[j] \in {"dying", "dead"} /\ stops[j] >= 1
  /\ task[j] = "cleaning" => removal[j] # "none"
  /\ removal[j] # "none" => /\ task[j] \in {"cleaning"} \cup Ended
                            /\ leader[j] \in {"dying", "dead"}
  /\ task[j] \in Ended => removal[j] \in {"none", "absent", "error"}
  /\ task[j] = "failed" /\ removal[j] = "none" => leader[j] = "none"
  /\ task[j] = "succeeded" => code[j] = "zero" /\ removal[j] = "absent"

\* A worker that still runs while its task does not wait for it was left in a
\* second interruption, and is about to die.
Leader(j) ==
  /\ leader[j] = "running" => task[j] = "working"
  /\ leader[j] = "dying" => task[j] \in Stopped
  /\ leader[j] = "dying" /\ task[j] # "stopping" => stops[j] >= 2
  /\ term[j] # "none" => leader[j] \in {"dying", "dead"}
  /\ term[j] = "done" => leader[j] = "dead"

\* A result was written by a worker whose command line had ended with its container.
Written(j) ==
  /\ code[j] # "none" => leader[j] = "dead"
  /\ code[j] = "zero" => result[j]
  /\ result[j] => leader[j] = "dead" /\ cli[j] = "ended"
  /\ cli[j] = "ended" => container[j] = "gone"

\* A command line that outlives its worker has its container to wait for,
\* unless the worker was killed from outside.
Outlived(j) ==
  /\ cli[j] = "none" => container[j] = "never"
  /\ cli[j] = "running" => container[j] # "gone"
  /\ cli[j] = "running" /\ leader[j] \in {"dying", "dead"} /\ j \notin crashed
       => container[j] = "present"

\* A removal follows an inspection that found the container; and what was
\* found absent under a daemon that answers stays absent.
Absent(j) ==
  /\ removal[j] = "remove" => container[j] # "never"
  /\ removal[j] \in {"doubt", "recheck", "absent"} /\ outages = 0 /\ j \notin crashed
       => container[j] # "present"

\* A job's deadline passes once, and one shutdown at most finds it alive.
Counted(j) ==
  stops[j] <= MaxStop + (IF task[j] \in Stopped THEN 1 ELSE 0)
                      + (IF task[j] \in Live /\ shutdown # "waiting" THEN 0 ELSE 1)

Job(j) == /\ Called(j) /\ Unstarted(j) /\ Placed(j) /\ Leader(j)
          /\ Written(j) /\ Outlived(j) /\ Absent(j) /\ Counted(j)

\* No job begins between the beginning of a shutdown and the next startup.
Gate ==
  /\ outages = 0 => daemon = "up"
  /\ shutdown = "waiting" => closing
  /\ shutdown = "done" => ~ready /\ \A j \in Jobs : task[j] \notin Live

IInv == TypeOK /\ Gate /\ \A j \in Jobs : Job(j)

USE BoundsAreNatural

-----------------------------------------------------------------------------
(* The invariant *)

\* It holds at first.
LEMMA InitInvariant == Init => IInv
<1> USE DEF Init, Live, Ended, Stopped
<1>0. 0 \in 0..MaxStop + 2 /\ 0 \in 0..MaxOutage
      OBVIOUS
<1>1. ASSUME Init PROVE TypeOK
  <2>1. outages \in 0..MaxOutage /\ stops \in [Jobs -> 0..MaxStop + 2]
        BY <1>0, <1>1
  <2>. QED  BY <1>1, <2>1 DEF TypeOK
<1>2. ASSUME Init, NEW j \in Jobs PROVE Job(j)
  <2>1. Called(j) /\ Unstarted(j) /\ Placed(j) /\ Leader(j) /\ Written(j)
        BY <1>2 DEF Called, Unstarted, Placed, Leader, Written
  <2>2. Outlived(j) /\ Absent(j) /\ Counted(j)
        BY <1>2 DEF Outlived, Absent, Counted
  <2>. QED  BY <2>1, <2>2 DEF Job
<1>. QED  BY <1>1, <1>2 DEF IInv, Gate

\* An interruption keeps the variables in their types.
LEMMA InterruptedTypes ==
  ASSUME TypeOK, NEW K, Interrupted(K)
  PROVE  /\ hit' \in [Jobs -> BOOLEAN]
         /\ task' \in [Jobs -> {"none"} \cup Live \cup Ended]
         /\ removal' \in [Jobs -> {"none", "inspect", "doubt", "remove", "confirm", "recheck",
                                  "absent", "error"}]
         /\ term' \in [Jobs -> {"none", "grace", "done"}]
         /\ leader' \in [Jobs -> {"none", "running", "dying", "dead"}]
         /\ cli' \in [Jobs -> {"none", "running", "ended", "dead"}]
<1> USE DEF TypeOK, Interrupted, Live, Ended
<1>1. hit' \in [Jobs -> BOOLEAN]
      OBVIOUS
<1>2. task' \in [Jobs -> {"none"} \cup Live \cup Ended]
      OBVIOUS
<1>3. removal' \in [Jobs -> {"none", "inspect", "doubt", "remove", "confirm", "recheck",
                             "absent", "error"}]
      OBVIOUS
<1>4. term' \in [Jobs -> {"none", "grace", "done"}]
      OBVIOUS
<1>5. leader' \in [Jobs -> {"none", "running", "dying", "dead"}]
      OBVIOUS
<1>6. cli' \in [Jobs -> {"none", "running", "ended", "dead"}]
      OBVIOUS
<1>. QED  BY <1>1, <1>2, <1>3, <1>4, <1>5, <1>6

\* Every step keeps the variables in their types; the bound of the interruptions is Counted's.
LEMMA StepTypes == ASSUME IInv, [Next]_vars PROVE TypeOK'
<1> USE DEF IInv, TypeOK, ownerVars, callVars, taskVars, workerVars, envVars, Live,
            Ended, Stopped
<1>1. CASE Startup
      BY <1>1 DEF Startup
<1>31. CASE ShutdownEnds
      BY <1>31 DEF ShutdownEnds
<1>30. CASE Outage
  <2>1. outages' \in 0..MaxOutage /\ daemon' \in {"up", "down"}
        BY <1>30 DEF Outage
  <2>. QED  BY <1>30, <2>1 DEF Outage
<1>2. ASSUME NEW j \in Jobs, Call(j) PROVE TypeOK'
  <2>1. CASE call' = [call EXCEPT ![j] = "raised"] /\ UNCHANGED <<dir, task>>
        BY <1>2, <2>1 DEF Call
  <2>2. CASE /\ call' = [call EXCEPT ![j] = "running"]
             /\ dir' = [dir EXCEPT ![j] = TRUE]
             /\ task' = [task EXCEPT ![j] = "checking"]
        BY <1>2, <2>2 DEF Call
  <2>. QED  BY <1>2, <2>1, <2>2 DEF Call
<1>3. ASSUME NEW j \in Jobs, Return(j) PROVE TypeOK'
      BY <1>3 DEF Return
<1>4. ASSUME NEW j \in Jobs, Checked(j) PROVE TypeOK'
      BY <1>4 DEF Checked
<1>5. ASSUME NEW j \in Jobs, WorkerSeen(j) PROVE TypeOK'
      BY <1>5 DEF WorkerSeen, Cleans
<1>6. ASSUME NEW j \in Jobs, StopSeen(j) PROVE TypeOK'
      BY <1>6 DEF StopSeen, Cleans
<1>7. ASSUME NEW j \in Jobs, Terminated(j) PROVE TypeOK'
      BY <1>7 DEF Terminated
<1>8. ASSUME NEW j \in Jobs, Cleaned(j) PROVE TypeOK'
      BY <1>8 DEF Cleaned
<1>9. ASSUME NEW j \in Jobs, Inspect(j) PROVE TypeOK'
      BY <1>9 DEF Inspect, Goes
<1>10. ASSUME NEW j \in Jobs, Settle(j) PROVE TypeOK'
      BY <1>10 DEF Settle, Goes
<1>11. ASSUME NEW j \in Jobs, Remove(j) PROVE TypeOK'
      BY <1>11 DEF Remove, Goes
<1>12. ASSUME NEW j \in Jobs, Confirm(j) PROVE TypeOK'
      BY <1>12 DEF Confirm, Goes
<1>13. ASSUME NEW j \in Jobs, RunDocker(j) PROVE TypeOK'
      BY <1>13 DEF RunDocker
<1>14. ASSUME NEW j \in Jobs, GiveUp(j) PROVE TypeOK'
      BY <1>14 DEF GiveUp
<1>15. ASSUME NEW j \in Jobs, WorkerExits(j) PROVE TypeOK'
      BY <1>15 DEF WorkerExits
<1>16. ASSUME NEW j \in Jobs, WorkerDies(j) PROVE TypeOK'
      BY <1>16 DEF WorkerDies
<1>17. ASSUME NEW j \in Jobs, CreateContainer(j) PROVE TypeOK'
      BY <1>17 DEF CreateContainer
<1>18. ASSUME NEW j \in Jobs, DockerEnds(j) PROVE TypeOK'
      BY <1>18 DEF DockerEnds
<1>19. ASSUME NEW j \in Jobs, Deadline(j) \/ Cancel(j) PROVE TypeOK'
  <2>1. stops[j] + 1 \in 0..MaxStop + 2
        BY <1>19 DEF Deadline, Cancel, Job, Counted
  <2>2. stops' \in [Jobs -> 0..MaxStop + 2]
        BY <1>19, <2>1 DEF Deadline, Cancel
  <2>. QED  BY <1>19, <2>2, InterruptedTypes DEF Deadline, Cancel
<1>20. CASE ShutdownBegins
  <2>1. ASSUME NEW j \in Jobs, task[j] \in Live PROVE stops[j] + 1 \in 0..MaxStop + 2
        BY <1>20, <2>1 DEF ShutdownBegins, Job, Counted
  <2>2. stops' \in [Jobs -> 0..MaxStop + 2]
        BY <1>20, <2>1 DEF ShutdownBegins
  <2>. QED  BY <1>20, <2>2, InterruptedTypes DEF ShutdownBegins
<1>21. CASE UNCHANGED vars
      BY <1>21 DEF vars
<1>. QED  BY <1>1, <1>2, <1>3, <1>4, <1>5, <1>6, <1>7, <1>8, <1>9, <1>10, <1>11, <1>12,
             <1>13, <1>14, <1>15, <1>16, <1>17, <1>18, <1>19, <1>20, <1>21, <1>30,
                        <1>31 DEF Next, TaskStep

\* A step of one job keeps the invariant of every job.
LEMMA JobStep ==
  ASSUME IInv, NEW j \in Jobs, NEW k \in Jobs,
         \/ Call(j) \/ Return(j) \/ RunDocker(j) \/ GiveUp(j) \/ WorkerExits(j)
         \/ WorkerDies(j) \/ CreateContainer(j) \/ DockerEnds(j)
         \/ Checked(j) \/ WorkerSeen(j) \/ StopSeen(j) \/ Terminated(j) \/ Cleaned(j)
         \/ Inspect(j) \/ Settle(j) \/ Remove(j) \/ Confirm(j)
  PROVE  Job(k)'
<1> USE DEF IInv, TypeOK, ownerVars, callVars, taskVars, workerVars, envVars, Live,
            Ended, Stopped,
        Job, Called, Unstarted, Placed, Leader, Written, Outlived, Absent, Counted, Gate
<1>1. CASE Call(j)
      BY <1>1 DEF Call
<1>2. CASE Return(j)
      BY <1>2 DEF Return
<1>3. CASE Checked(j)
      BY <1>3 DEF Checked
<1>4. CASE WorkerSeen(j)
      BY <1>4 DEF WorkerSeen, Cleans
<1>5. CASE StopSeen(j)
      BY <1>5 DEF StopSeen, Cleans
<1>6. CASE Terminated(j)
      BY <1>6 DEF Terminated
<1>7. CASE Cleaned(j)
      BY <1>7 DEF Cleaned
<1>8. CASE Inspect(j)
      BY <1>8 DEF Inspect, Goes
<1>9. CASE Settle(j)
      BY <1>9 DEF Settle, Goes
<1>10. CASE Remove(j)
      BY <1>10 DEF Remove, Goes
<1>11. CASE Confirm(j)
      BY <1>11 DEF Confirm, Goes
<1>12. CASE RunDocker(j)
      BY <1>12 DEF RunDocker
<1>13. CASE GiveUp(j)
      BY <1>13 DEF GiveUp
<1>14. CASE WorkerExits(j)
      BY <1>14 DEF WorkerExits
<1>15. CASE WorkerDies(j)
      BY <1>15 DEF WorkerDies
<1>16. CASE CreateContainer(j)
      BY <1>16 DEF CreateContainer
<1>17. CASE DockerEnds(j)
      BY <1>17 DEF DockerEnds
<1>. QED  BY <1>1, <1>2, <1>3, <1>4, <1>5, <1>6, <1>7, <1>8, <1>9, <1>10, <1>11, <1>12,
             <1>13, <1>14, <1>15, <1>16, <1>17

\* Whoever interrupts, deadline, caller or shutdown, and whichever jobs.
LEMMA InterruptedJob ==
  ASSUME IInv, NEW k \in Jobs, NEW K, Interrupted(K),
         UNCHANGED <<call, dir, code, result, container, crashed, outages>>,
         stops'[k] = IF k \in K THEN stops[k] + 1 ELSE stops[k],
         k \in K => call[k] = "running" \/ task[k] \in Live,
         Counted(k)'
  PROVE  Job(k)'
<1> USE DEF IInv, TypeOK, Live, Ended, Stopped
<1>j. Job(k)
      OBVIOUS
<1>s. stops[k] \in Nat
      OBVIOUS
<1>h. hit'[k] = (hit[k] \/ k \in K)
      BY DEF Interrupted
<1>1. CASE k \notin K \/ task[k] \in {"none", "cleaning"} \cup Ended
  <2>1. UNCHANGED <<task[k], removal[k], term[k], leader[k], cli[k]>> /\ stops'[k] >= stops[k]
        BY <1>1, <1>s DEF Interrupted
  <2>. QED  BY <1>1, <1>j, <1>h, <2>1 DEF Job, Called, Unstarted, Placed, Leader,
               Written,
                                       Outlived, Absent
<1>2. CASE k \in K /\ task[k] = "checking"
  <2>1. UNCHANGED <<removal[k], term[k], leader[k], cli[k]>> /\ task'[k] = "checking"
        BY <1>2 DEF Interrupted
  <2>. QED  BY <1>2, <1>j, <1>h, <2>1 DEF Job, Called, Unstarted, Placed, Leader,
               Written,
                                       Outlived, Absent
<1>3. CASE k \in K /\ task[k] = "working"
  <2>1. UNCHANGED removal[k] /\ task'[k] = "stopping" /\ term'[k] = "grace" /\ stops'[k] >= 1
        BY <1>3 DEF Interrupted
  <2>2. leader'[k] = IF leader[k] = "running" THEN "dying" ELSE leader[k]
        BY <1>3 DEF Interrupted
  <2>3. cli'[k] = IF leader[k] = "running" /\ cli[k] = "running" /\ container[k] = "never"
                    THEN "dead" ELSE cli[k]
        BY <1>3 DEF Interrupted
  <2>. QED  BY <1>3, <1>j, <1>h, <2>1, <2>2, <2>3 DEF Job, Called, Unstarted, Placed,
               Leader,
                                                   Written, Outlived, Absent
<1>4. CASE k \in K /\ task[k] = "stopping"
  <2>1. /\ UNCHANGED <<term[k], leader[k], cli[k]>>
        /\ task'[k] = "cleaning" /\ removal'[k] = "inspect" /\ stops'[k] >= 2
        BY <1>4, <1>j DEF Interrupted, Job, Placed
  <2>. QED  BY <1>4, <1>j, <1>h, <2>1 DEF Job, Called, Unstarted, Placed, Leader,
               Written,
                                       Outlived, Absent
<1>. QED  BY <1>1, <1>2, <1>3, <1>4

\* Starting up, the end of a shutdown and the daemon touch no job.
LEMMA OwnerStep ==
  ASSUME IInv, NEW k \in Jobs, Startup \/ ShutdownEnds \/ Outage \/ UNCHANGED vars
  PROVE  Job(k)'
BY DEF Startup, ShutdownEnds, Outage, vars, IInv, TypeOK, ownerVars, callVars, taskVars,
       workerVars, envVars, Live, Ended, Stopped, Job, Called, Unstarted, Placed, Leader,
       Written, Outlived, Absent, Counted, Gate

\* A deadline or a caller interrupts one job.
LEMMA StopStep ==
  ASSUME IInv, NEW j \in Jobs, NEW k \in Jobs, Deadline(j) \/ Cancel(j)
  PROVE  Job(k)'
<1> USE DEF Deadline, Cancel, IInv, TypeOK, ownerVars, callVars, envVars
<1>1. stops'[k] = IF k \in {j} THEN stops[k] + 1 ELSE stops[k]
      OBVIOUS
<1>2. task'[k] = task[k] \/ k = j
      BY DEF Interrupted
<1>3. task[k] \in Stopped => task'[k] \in Stopped
      BY DEF Interrupted, Stopped, Ended
<1>4. task[j] = "working" => task'[j] \in Stopped
      BY DEF Interrupted, Stopped
<1>5. task'[k] \in Live => task[k] \in Live
      BY DEF Interrupted, Live, Ended
<1>6. Counted(k)'
      BY <1>1, <1>2, <1>3, <1>4, <1>5 DEF Job, Counted, Stopped, Live, Ended
<1>. QED  BY <1>1, <1>6, InterruptedJob DEF Live

\* A shutdown interrupts every living job at once.
LEMMA ShutdownStep ==
  ASSUME IInv, NEW k \in Jobs, ShutdownBegins
  PROVE  Job(k)'
<1> DEFINE K == {j \in Jobs : task[j] \in Live}
<1> USE DEF ShutdownBegins, IInv, TypeOK, callVars, envVars
<1>1. Interrupted(K) /\ stops'[k] = IF k \in K THEN stops[k] + 1 ELSE stops[k]
      OBVIOUS
<1>2. task[k] \in Stopped => task'[k] \in Stopped
      BY <1>1 DEF Interrupted, Stopped, Ended
<1>3. task'[k] \in Live => task[k] \in Live
      BY <1>1 DEF Interrupted, Live, Ended
<1>4. Counted(k)'
      BY <1>1, <1>2, <1>3 DEF Job, Counted
<1> HIDE DEF K
<1>5. k \in K => task[k] \in Live
      BY DEF K
<1>. QED  BY <1>1, <1>4, <1>5, InterruptedJob

\* A task begins only in Call, behind the gate.
LEMMA GateStep == ASSUME IInv, [Next]_vars PROVE Gate'
<1> USE DEF IInv, Gate, TypeOK, ownerVars, callVars, taskVars, workerVars, envVars,
            Live, Ended
<1>1. CASE Startup \/ ShutdownEnds \/ Outage
      BY <1>1 DEF Startup, ShutdownEnds, Outage
<1>2. ASSUME NEW j \in Jobs, Call(j) PROVE Gate'
      BY <1>2 DEF Call
<1>3. ASSUME NEW j \in Jobs, Deadline(j) \/ Cancel(j) PROVE Gate'
      BY <1>3 DEF Deadline, Cancel, Interrupted
<1>4. CASE ShutdownBegins
      BY <1>4 DEF ShutdownBegins
<1>5. ASSUME NEW j \in Jobs, Checked(j) \/ WorkerSeen(j) \/ StopSeen(j) \/ Cleaned(j)
      PROVE  Gate'
      BY <1>5 DEF Checked, WorkerSeen, StopSeen, Cleaned, Cleans
<1>6. ASSUME NEW j \in Jobs, \/ Return(j) \/ Terminated(j) \/ Inspect(j) \/ Settle(j)
                              \/ Remove(j) \/ Confirm(j)
      PROVE  Gate'
      BY <1>6 DEF Return, Terminated, Inspect, Settle, Remove, Confirm
<1>7. ASSUME NEW j \in Jobs, \/ RunDocker(j) \/ GiveUp(j) \/ WorkerExits(j) \/ WorkerDies(j)
                              \/ CreateContainer(j) \/ DockerEnds(j)
      PROVE  Gate'
      BY <1>7 DEF RunDocker, GiveUp, WorkerExits, WorkerDies, CreateContainer,
         DockerEnds
<1>8. CASE UNCHANGED vars
      BY <1>8 DEF vars
<1>. QED  BY <1>1, <1>2, <1>3, <1>4, <1>5, <1>6, <1>7, <1>8 DEF Next, TaskStep

\* Every step keeps the invariant.
LEMMA StepInvariant == IInv /\ [Next]_vars => IInv'
<1> SUFFICES ASSUME IInv, [Next]_vars PROVE IInv'
    OBVIOUS
<1>1. ASSUME NEW k \in Jobs PROVE Job(k)'
      BY JobStep, OwnerStep, StopStep, ShutdownStep DEF Next, TaskStep
<1>. QED  BY <1>1, StepTypes, GateStep DEF IInv

-----------------------------------------------------------------------------
(* Theorems *)

(* The invariant holds in every reachable state, for any jobs and bounds.   *)
THEOREM Inductive == Spec => []IInv
BY InitInvariant, StepInvariant, PTL DEF Spec

(* Type correctness of the backend.                                         *)
THEOREM TypeCorrect == Spec => []TypeOK
BY Inductive, PTL DEF IInv

(* An ended job leaves neither its container nor its worker: what was found *)
(* absent stays absent because the command line that could create it again  *)
(* died with the worker (_run_killable_process, _finish_container_cleanup). *)
THEOREM NothingLeftHolds == Spec => []NothingLeft
<1>1. IInv => NothingLeft
  <2> SUFFICES ASSUME IInv PROVE NothingLeft
      OBVIOUS
  <2>1. ASSUME NEW j \in Jobs, task[j] \in Ended, removal[j] = "absent", outages = 0, j \notin crashed
        PROVE  container[j] # "present" /\ cli[j] # "running"
        BY <2>1 DEF IInv, Job, Placed, Absent, Outlived
  <2>2. ASSUME NEW j \in Jobs, task[j] \in Ended, stops[j] <= 1
        PROVE  leader[j] \in {"none", "dead"}
        BY <2>2 DEF IInv, TypeOK, Job, Leader, Ended
  <2>. QED  BY <2>1, <2>2 DEF IInv, NothingLeft, CleanedUp, WorkerReaped
<1>. QED  BY <1>1, Inductive, PTL

(* A hypothesis is handed out only after the worker finished, its container *)
(* and directory are gone and nothing interrupted the job (_run_job).       *)
THEOREM ReturnedMeansDoneHolds == Spec => []ReturnedMeansDone
<1>1. IInv => ReturnedMeansDone
      BY DEF IInv, TypeOK, ReturnedMeansDone, Job, Called, Placed, Written
<1>. QED  BY <1>1, Inductive, PTL

(* A shutdown that returned leaves no task, and no worker of a task that    *)
(* only the shutdown interrupted (shutdown()).                              *)
THEOREM ShutdownQuietHolds == Spec => []ShutdownQuiet
<1>1. IInv => ShutdownQuiet
      BY DEF IInv, TypeOK, Gate, ShutdownQuiet, Job, Leader, Stopped, Live
<1>. QED  BY <1>1, Inductive, PTL
=============================================================================
