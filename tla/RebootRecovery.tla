--------------------------- MODULE RebootRecovery ---------------------------
(***************************************************************************)
(* A model service that survives reboots: community/reboot_recovery.py,    *)
(* class RebootRecovery, in the order run_configuration of                 *)
(* community/service.py calls it, under the lock of service_lock.          *)
(*                                                                         *)
(* The controller may be killed, and the host may lose power, between any  *)
(* two of its steps.  A kill leaves the workers running.  A power loss     *)
(* ends them and forgets what no sync has written to the disk.  The file   *)
(* system writes a directory back when it likes; its entries reach the     *)
(* disk in the order they were changed.  Two directories are independent,  *)
(* and so are a directory and its parent.                                  *)
(*                                                                         *)
(* The deployment always passes --recover-after-reboot and keeps one       *)
(* configuration on one host: what the code refuses for another host or    *)
(* configuration changes nothing on the disk.                              *)
(***************************************************************************)
EXTENDS Naturals, FiniteSets

CONSTANTS
  Files,      \* the socket and its capacity descriptor
  Scratches,  \* the scratch directories, one for each worker
  MaxBoot,    \* bound: boots of the host
  MaxKill,    \* bound: kills of the controller, its failed system calls included
  MaxSession  \* bound: sessions of the service

ASSUME PathsDistinct == Files \cap Scratches = {}
ASSUME BootsPositive == MaxBoot \in Nat \ {0}
ASSUME BoundsAreNatural == MaxKill \in Nat /\ MaxSession \in Nat
ASSUME ScratchesFinite == IsFiniteSet(Scratches)

VARIABLES
  boot,     \* the kernel's boot identity
  ctl,      \* where the controller is; "down" when it does not run
  todo,     \* the entries of the plan that are still to be applied
  vol,      \* what each path and its quarantine targets name
  dur,      \* the same on the disk
  jvol,     \* the journal at SOCKET.reboot.json
  jdur,     \* the same on the disk
  data,     \* the scratch inodes that hold something
  kept,     \* the same on the disk
  fresh,    \* the next inode
  session,  \* the number of sessions begun
  used,     \* the scratches a worker of this session was launched in and has not given back
  alive,    \* the living workers: <<session, scratch>>
  kills     \* counted for MaxKill

names == <<vol, dur, fresh>>
journal == <<jvol, jdur>>
contents == <<data, kept>>
workers == <<session, used, alive>>
world == <<boot, kills>>
vars == <<boot, ctl, todo, vol, dur, jvol, jdur, data, kept, fresh, session, used, alive, kills>>

Paths == Files \cup Scratches
Boots == 1..MaxBoot

\* A name maps to an inode, a positive number, or to 0 when it does not exist.
Entry == [src : Nat, tgt : [Boots -> Nat]]
NoPlan == [p \in Paths |-> 0]
NoJournal == [phase |-> "none", boot |-> 0, scratch |-> [s \in Scratches |-> 0],
              planned |-> FALSE, plan |-> NoPlan]
Journal == [phase : {"none", "active", "clean"}, boot : {0} \cup Boots,
            scratch : [Scratches -> Nat], planned : BOOLEAN, plan : [Paths -> Nat]]

(* What the variables may hold: the journal and the names in memory and on the disk. *)
TypeOK ==
  /\ boot \in Boots
  /\ ctl \in {"down", "planning", "planned", "checking", "applying", "moved", "made", "ready",
              "began", "running", "closing", "finished"}
  /\ todo \subseteq Paths
  /\ vol \in [Paths -> Entry] /\ dur \in [Paths -> Entry]
  /\ jvol \in Journal /\ jdur \in Journal
  /\ data \subseteq 1..(fresh - 1) /\ kept \subseteq 1..(fresh - 1)
  /\ fresh \in Nat
  /\ session \in 0..MaxSession
  /\ used \subseteq Scratches
  /\ alive \subseteq (1..session) \X Scratches
  /\ kills \in 0..MaxKill

Init ==
  /\ boot = 1 /\ ctl = "down" /\ todo = {} /\ kills = 0
  /\ fresh = Cardinality(Scratches) + 1
  /\ \E inode \in [Scratches -> 1..Cardinality(Scratches)] :
       /\ \A s, t \in Scratches : inode[s] = inode[t] => s = t
       /\ vol = [p \in Paths |-> [src |-> IF p \in Scratches THEN inode[p] ELSE 0,
                                  tgt |-> [b \in Boots |-> 0]]]
  /\ dur = vol
  /\ jvol = NoJournal /\ jdur = NoJournal
  /\ data = {} /\ kept = {}
  /\ session = 0 /\ used = {} /\ alive = {}

-----------------------------------------------------------------------------
(* What the code looks at *)

NoSocketArtifacts == \A f \in Files : vol[f].src = 0

EmptyScratch(s) == vol[s].src # 0 /\ vol[s].src \notin data

CleanScratches == \A s \in Scratches : EmptyScratch(s) /\ vol[s].src = jvol.scratch[s]

\* The quarantine name of a path is derived from the boot being recovered.
Quarantined(p) == vol[p].tgt[jvol.boot]

\* _apply(execute=False): the entry is still to be moved, or moved already and
\* only an empty replacement stands in its place.
Applicable(p) ==
  IF jvol.plan[p] = 0
    THEN vol[p].src = 0 /\ Quarantined(p) = 0
    ELSE \/ vol[p].src = jvol.plan[p] /\ Quarantined(p) = 0
         \/ /\ Quarantined(p) = jvol.plan[p]
            /\ \/ vol[p].src = 0
               \/ p \in Scratches /\ EmptyScratch(p) /\ vol[p].src # jvol.plan[p]

\* The socket, its descriptor and the journal share a directory.
Siblings(p) == IF p \in Files THEN Files ELSE {p}

SyncParent(p) ==
  /\ dur' = [q \in Paths |-> IF q \in Siblings(p) THEN vol[q] ELSE dur[q]]
  /\ jdur' = IF p \in Files THEN jvol ELSE jdur

\* The entry being executed: the plan has an order, with the files first.
Current(p) ==
  /\ todo # {}
  /\ p = IF todo \cap Files # {} THEN CHOOSE f \in todo \cap Files : TRUE
                                ELSE CHOOSE s \in todo : TRUE

\* What the code asks for before it goes on; where it does not hold, it raises.
Accepted ==
  CASE ctl = "planning" -> /\ \A s \in Scratches : vol[s].src = jvol.scratch[s]
                           /\ \A p \in Paths : Quarantined(p) = 0
    [] ctl = "checking" -> \A p \in Paths : Applicable(p)
    [] ctl = "applying" -> \A p \in Paths : Current(p) => Applicable(p)
    [] ctl = "ready" -> NoSocketArtifacts /\ \A s \in Scratches : EmptyScratch(s)
    [] ctl = "closing" -> used = {} => NoSocketArtifacts /\ CleanScratches
    [] OTHER -> TRUE

-----------------------------------------------------------------------------
(* prepare() *)

\* A faulty Start: it recovers the boot it runs in.
StartSameBoot ==
  /\ ctl = "down"
  /\ \/ jvol.phase = "none" /\ NoSocketArtifacts /\ ctl' = "ready"
     \/ jvol.phase = "clean" /\ NoSocketArtifacts /\ CleanScratches /\ ctl' = "ready"
     \/ jvol.phase = "active" /\ ctl' = IF jvol.planned THEN "checking" ELSE "planning"
  /\ UNCHANGED <<world, todo, names, journal, contents, workers>>

\* The lock is taken and the journal read.  What no journal accounts for is
\* refused, and so is an unfinished session of this boot.
Start ==
  /\ ctl = "down"
  /\ \/ /\ jvol.phase = "none"
        /\ NoSocketArtifacts
        /\ ctl' = "ready"
     \/ /\ jvol.phase = "clean"
        /\ NoSocketArtifacts
        /\ CleanScratches
        /\ ctl' = "ready"
     \/ /\ jvol.phase = "active"
        /\ jvol.boot # boot
        /\ ctl' = IF jvol.planned THEN "checking" ELSE "planning"
  /\ UNCHANGED <<world, todo, names, journal, contents, workers>>

\* _entries and the replacement of the journal: the plan holds what each path
\* names now; no scratch may have changed and no target may exist.
WritePlan ==
  /\ ctl = "planning"
  /\ Accepted
  /\ jvol' = [jvol EXCEPT !.planned = TRUE, !.plan = [p \in Paths |-> vol[p].src]]
  /\ ctl' = "planned"
  /\ UNCHANGED <<world, todo, names, jdur, contents, workers>>

\* A faulty SyncJournal: it goes on before the new journal is on the disk.
SyncJournalLate(from, to) ==
  /\ ctl = from
  /\ ctl' = to
  /\ UNCHANGED <<world, todo, names, journal, contents, workers>>

\* The end of _write: the directory of the replaced journal is synced.
SyncJournal(from, to) ==
  /\ ctl = from
  /\ ctl' = to
  /\ jdur' = jvol
  /\ dur' = [p \in Paths |-> IF p \in Files THEN vol[p] ELSE dur[p]]
  /\ UNCHANGED <<world, todo, vol, fresh, jvol, contents, workers>>

\* Every entry of the plan is checked before the first is executed.
CheckPlan ==
  /\ ctl = "checking"
  /\ Accepted
  /\ ctl' = "applying"
  /\ todo' = Paths
  /\ UNCHANGED <<world, names, journal, contents, workers>>

\* A faulty MoveAway: it removes what the code moves away.
MoveAwayDeletes(p) ==
  /\ ctl = "applying"
  /\ Current(p)
  /\ Accepted
  /\ ctl' = IF jvol.plan[p] = 0 THEN "applying" ELSE "moved"
  /\ todo' = IF jvol.plan[p] = 0 THEN todo \ {p} ELSE todo
  /\ vol' = [vol EXCEPT ![p].src = IF @ = jvol.plan[p] THEN 0 ELSE @]
  /\ UNCHANGED <<world, dur, fresh, journal, contents, workers>>

\* _apply(execute=True) up to the rename: there was nothing to move, or an
\* earlier attempt has moved it, or it is moved now.
MoveAway(p) ==
  /\ ctl = "applying"
  /\ Current(p)
  /\ Accepted
  /\ \/ /\ jvol.plan[p] = 0
        /\ todo' = todo \ {p}
        /\ UNCHANGED <<ctl, vol>>
     \/ /\ jvol.plan[p] # 0
        /\ ctl' = "moved"
        /\ vol' = IF vol[p].src = jvol.plan[p]
                    THEN [vol EXCEPT ![p].src = 0, ![p].tgt[jvol.boot] = jvol.plan[p]]
                    ELSE vol
        /\ UNCHANGED todo
  /\ UNCHANGED <<world, dur, fresh, journal, contents, workers>>

\* The parent is synced; a scratch that has no replacement yet gets one.
SyncMove(p) ==
  /\ ctl = "moved"
  /\ Current(p)
  /\ SyncParent(p)
  /\ \/ /\ p \in Files
        /\ ctl' = "applying"
        /\ todo' = todo \ {p}
        /\ UNCHANGED <<vol, fresh>>
     \/ /\ p \in Scratches
        /\ ctl' = "made"
        /\ \/ /\ vol[p].src = 0
              /\ vol' = [vol EXCEPT ![p].src = fresh]
              /\ fresh' = fresh + 1
           \/ /\ vol[p].src # 0
              /\ UNCHANGED <<vol, fresh>>
        /\ UNCHANGED todo
  /\ UNCHANGED <<world, jvol, contents, workers>>

\* A faulty SyncMade: it takes the replacement for durable once it was made.
SyncMadeSkipped(p) ==
  /\ ctl = "made"
  /\ Current(p)
  /\ todo' = todo \ {p}
  /\ ctl' = "applying"
  /\ UNCHANGED <<world, names, journal, contents, workers>>

\* The replacement and its parent are synced.
SyncMade(p) ==
  /\ ctl = "made"
  /\ Current(p)
  /\ SyncParent(p)
  /\ kept' = IF vol[p].src \in data THEN kept ELSE kept \ {vol[p].src}
  /\ todo' = todo \ {p}
  /\ ctl' = "applying"
  /\ UNCHANGED <<world, vol, fresh, jvol, data, workers>>

Prepared ==
  /\ ctl = "applying"
  /\ todo = {}
  /\ ctl' = "ready"
  /\ UNCHANGED <<world, todo, names, journal, contents, workers>>

\* A check failed: the error ends the controller, which leaves all as it is.
Refuse ==
  /\ ~Accepted
  /\ ctl' = "down"
  /\ todo' = {}
  /\ UNCHANGED <<world, names, journal, contents, workers>>

-----------------------------------------------------------------------------
(* build_sidecar, begin(), the session, finish() *)

\* The constructors of the workers and then begin() ask for empty scratches.
\* The journal is replaced before any worker exists.
Begin ==
  /\ ctl = "ready"
  /\ Accepted
  /\ session < MaxSession
  /\ jvol' = [phase |-> "active", boot |-> boot, scratch |-> [s \in Scratches |-> vol[s].src],
              planned |-> FALSE, plan |-> NoPlan]
  /\ ctl' = "began"
  /\ session' = session + 1
  /\ UNCHANGED <<world, todo, names, jdur, contents, used, alive>>

\* A worker process starts: at startup, or again after its slot was given back.
Launch(s) ==
  /\ ctl = "running"
  /\ s \notin used
  /\ used' = used \cup {s}
  /\ alive' = alive \cup {<<session, s>>}
  /\ UNCHANGED <<world, ctl, todo, names, journal, contents, session>>

\* A faulty GiveBack: the slot returns with the scratch as the worker left it.
GiveBackDirty(s) ==
  /\ ctl \in {"running", "closing"}
  /\ s \in used
  /\ used' = used \ {s}
  /\ alive' = alive \ {<<session, s>>}
  /\ UNCHANGED <<world, ctl, todo, names, journal, contents, session>>

\* The sidecar reaps a worker and clears its scratch (WarmWorker's Reaped).
GiveBack(s) ==
  /\ ctl \in {"running", "closing"}
  /\ s \in used
  /\ used' = used \ {s}
  /\ alive' = alive \ {<<session, s>>}
  /\ data' = data \ {vol[s].src}
  /\ UNCHANGED <<world, ctl, todo, names, journal, kept, session>>

\* The server of the sidecar binds its socket and writes the descriptor ...
Bind(f) ==
  /\ ctl = "running"
  /\ vol[f].src = 0
  /\ vol' = [vol EXCEPT ![f].src = fresh]
  /\ fresh' = fresh + 1
  /\ UNCHANGED <<world, ctl, todo, dur, journal, contents, workers>>

\* ... and removes both when it closes (Sidecar's CloseServer).
CloseServer ==
  /\ ctl = "running"
  /\ ctl' = "closing"
  /\ vol' = [p \in Paths |-> IF p \in Files THEN [vol[p] EXCEPT !.src = 0] ELSE vol[p]]
  /\ UNCHANGED <<world, todo, dur, fresh, journal, contents, workers>>

\* A faulty Finish: it marks the journal with a phase that _read rejects.
FinishMisnamed ==
  /\ ctl = "closing"
  /\ used = {}
  /\ Accepted
  /\ jvol' = [jvol EXCEPT !.phase = "stopped"]
  /\ ctl' = "finished"
  /\ UNCHANGED <<world, todo, names, jdur, contents, workers>>

\* run_sidecar_service returned: every worker is reaped and its scratch cleared.
Finish ==
  /\ ctl = "closing"
  /\ used = {}
  /\ Accepted
  /\ jvol' = [jvol EXCEPT !.phase = "clean"]
  /\ ctl' = "finished"
  /\ UNCHANGED <<world, todo, names, jdur, contents, workers>>

-----------------------------------------------------------------------------
(* The environment *)

\* A worker, orphaned or not, writes into the directory its scratch path names ...
WorkerWrites(s) ==
  /\ \E n \in 1..session : <<n, s>> \in alive
  /\ vol[s].src # 0
  /\ data' = data \cup {vol[s].src}
  /\ UNCHANGED <<world, ctl, todo, names, journal, kept, workers>>

\* ... and may exit at any moment.
WorkerExits(w) ==
  /\ w \in alive
  /\ alive' = alive \ {w}
  /\ UNCHANGED <<world, ctl, todo, names, journal, contents, session, used>>

\* The kernel writes a directory back without being asked to ...
WriteBack(p) ==
  /\ SyncParent(p)
  /\ UNCHANGED <<world, ctl, todo, vol, fresh, jvol, contents, workers>>

\* ... or the entries inside a scratch.
WriteBackContents(i) ==
  /\ kept' = IF i \in data THEN kept \cup {i} ELSE kept \ {i}
  /\ UNCHANGED <<world, ctl, todo, names, journal, data, workers>>

\* The controller is killed, or one of its calls failed and it exits.
Kill ==
  /\ ctl # "down"
  /\ kills < MaxKill
  /\ kills' = kills + 1
  /\ ctl' = "down"
  /\ todo' = {}
  /\ used' = {}
  /\ UNCHANGED <<boot, names, journal, contents, session, alive>>

PowerLoss ==
  /\ boot < MaxBoot
  /\ boot' = boot + 1
  /\ ctl' = "down"
  /\ todo' = {} /\ used' = {} /\ alive' = {}
  /\ vol' = dur /\ jvol' = jdur /\ data' = kept
  /\ UNCHANGED <<kills, dur, jdur, kept, fresh, session>>

-----------------------------------------------------------------------------
Recover ==
  \/ Start \/ WritePlan \/ SyncJournal("planned", "checking") \/ CheckPlan \/ Prepared \/ Refuse
  \/ \E p \in Paths : MoveAway(p) \/ SyncMove(p) \/ SyncMade(p)

Next ==
  \/ Recover
  \/ Begin
  \/ SyncJournal("began", "running")
  \/ \E s \in Scratches : Launch(s) \/ GiveBack(s)
  \/ \E f \in Files : Bind(f)
  \/ CloseServer
  \/ Finish
  \/ SyncJournal("finished", "down")
  \/ \E s \in Scratches : WorkerWrites(s)
  \/ \E w \in alive : WorkerExits(w)
  \/ \E p \in Paths : WriteBack(p)
  \/ \E i \in data \cup kept : WriteBackContents(i)
  \/ Kill
  \/ PowerLoss

Spec == Init /\ [][Next]_vars

\* A supervisor restarts the service, which then runs on until it is ready.
FairSpec == Spec /\ WF_vars(Recover)

-----------------------------------------------------------------------------
(* Properties *)

(* Two sessions never have living workers at once, although a killed       *)
(* controller leaves its workers behind: what the refusal of an unfinished *)
(* session of the same boot is for (prepare, reboot_recovery.py:361).      *)
NoOverlap == \A v, w \in alive : v[1] = w[1]

(* While a worker lives the disk says so: the journal there is active, of  *)
(* this boot, and names the very directory the worker's scratch path names,*)
(* so a power loss at this moment would be recovered.                      *)
DurablyRecorded ==
  \A w \in alive : /\ jdur.phase = "active"
                   /\ jdur.boot = boot
                   /\ jdur.scratch[w[2]] = vol[w[2]].src

(* A worker starts only in an empty scratch: whatever an earlier session   *)
(* left was moved out of its sight.                                        *)
LaunchEmpty == [][\A s \in Scratches : \A n \in 1..MaxSession :
                    <<n, s>> \in alive' \ alive => EmptyScratch(s)]_vars

(* Recovery retains: what a scratch holds can be reached under some name,  *)
(* and what of it is on the disk under a name that is on the disk.         *)
Named(d) == UNION {{d[p].src} \cup {d[p].tgt[b] : b \in Boots} : p \in Paths}
Retained == TypeOK /\ data \subseteq Named(vol) /\ kept \subseteq Named(dur)

(* A journal of an earlier boot never stops the service for good: however  *)
(* often recovery is cut short, it gets ready to begin a new session.      *)
RecoveryCompletes ==
  (jvol.phase = "active" /\ jvol.boot # boot) ~> (ctl = "ready" \/ kills > 0)

(* What SERVICE.md says of an interrupted quarantine: it resumes its saved *)
(* plan.  Once a plan is written the service gets ready in the end.        *)
PlanResumed == (jvol.phase = "active" /\ jvol.planned) ~> (ctl = "ready")

(* What SERVICE.md says of a normal shutdown: it allows the same           *)
(* configuration to restart.  With a journal marked clean the checks of    *)
(* the next start would pass.                                              *)
CleanRestarts == (ctl = "down" /\ jvol.phase = "clean") => NoSocketArtifacts /\ CleanScratches
=============================================================================
