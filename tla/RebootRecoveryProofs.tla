------------------------ MODULE RebootRecoveryProofs ------------------------
(***************************************************************************)
(* Proofs about the recovery journal, for any number of scratches, boots,  *)
(* kills and sessions.  The invariant relates four things that no lock     *)
(* holds together: the journal, the names in the cache, the names on the   *)
(* disk, and the workers that may outlive their controller.                *)
(***************************************************************************)
EXTENDS RebootRecovery, FiniteSetTheorems, TLAPS

Recovering == {"planning", "planned", "checking", "applying", "moved", "made"}
Executing == {"applying", "moved", "made"}
Serving == {"running", "closing"}

\* The inodes a path leads to, under its own name or a quarantine name.
Reach(e) == {e.src} \cup {e.tgt[b] : b \in Boots}

\* No two paths share an inode, in the cache or on the disk, and what is to be
\* named next is named nowhere.
Distinct ==
  /\ fresh \in Nat \ {0}
  /\ \A p \in Paths : vol[p].src < fresh /\ dur[p].src < fresh
  /\ \A p, q \in Paths : p # q =>
       /\ vol[p].src = vol[q].src => vol[p].src = 0
       /\ vol[p].src = dur[q].src => vol[p].src = 0
       /\ dur[p].src = dur[q].src => dur[p].src = 0

\* What a scratch holds is under that scratch's names, in the cache and on the disk.
Held ==
  \A i \in data \cup kept :
    \E s \in Scratches : i \in Reach(vol[s]) /\ i \in Reach(dur[s])

\* A journal that is active can be recovered: it names directories that exist.
Sound(j) ==
  /\ j.phase = "active" => j.boot \in Boots /\ \A s \in Scratches : j.scratch[s] # 0
  /\ j.planned => j.phase = "active" /\ \A s \in Scratches : j.plan[s] # 0

\* The scratches are on the disk as they are in the cache, but for those that a
\* plan has begun to move.
Settled ==
  /\ ~jvol.planned \/ ctl = "ready" => \A s \in Scratches : dur[s] = vol[s]
  /\ ctl \in Executing => \A s \in Scratches \ todo : dur[s] = vol[s]

\* The journal at each place of the controller.
Stage ==
  /\ ctl \in Recovering => jvol.phase = "active" /\ jvol.boot # boot /\ alive = {}
  /\ ctl \in Executing \cup {"planned", "checking"} => jvol.planned
  /\ ctl = "planning" => ~jvol.planned
  /\ ctl = "made" => todo \cap Files = {}
  /\ ctl \in {"ready", "began", "finished"} => alive = {}
  /\ ctl = "finished" => ~jvol.planned
  /\ ctl \notin Serving => used = {}

\* From begin() to the end of its last worker a session is recorded.
Recorded ==
  /\ ctl \in {"began"} \cup Serving \/ alive # {} =>
       /\ jvol.phase = "active" /\ jvol.boot = boot /\ ~jvol.planned /\ session \in Nat \ {0}
       /\ \A s \in Scratches : jvol.scratch[s] = vol[s].src
  /\ ctl \in Serving \/ alive # {} => jdur = jvol
  /\ alive # {} => ctl \in Serving \cup {"down"}
  /\ \A w \in alive : w[1] = session /\ (ctl \in Serving => w[2] \in used)

\* A scratch that no worker of this session uses is empty.
Unused ==
  ctl \in {"began"} \cup Serving => \A s \in Scratches \ used : vol[s].src \notin data

IInv == /\ TypeOK /\ Distinct /\ Held /\ Sound(jvol) /\ Sound(jdur)
        /\ Settled /\ Stage /\ Recorded /\ Unused

USE PathsDistinct, BootsPositive, BoundsAreNatural

-----------------------------------------------------------------------------
(* What the steps do to the names *)

\* A current entry is in the plan, and a scratch only after the files.
LEMMA CurrentFacts ==
  ASSUME NEW p \in Paths, Current(p)
  PROVE  p \in todo /\ (p \in Scratches => todo \cap Files = {})
BY DEF Current

\* What the checks of each place of the controller establish.
LEMMA AcceptedFacts ==
  /\ ctl = "planning" /\ Accepted => \A s \in Scratches : vol[s].src = jvol.scratch[s]
  /\ ctl = "applying" /\ Accepted => \A p \in Paths : Current(p) => Applicable(p)
  /\ ctl = "ready" /\ Accepted => \A s \in Scratches : EmptyScratch(s)
  /\ ~Accepted => \/ ctl \in {"planning", "checking", "applying", "ready"}
                  \/ ctl = "closing" /\ used = {}
BY DEF Accepted

\* A sync brings what the cache says to the disk, and nothing else.
LEMMA Synced ==
  ASSUME TypeOK, NEW p \in Paths, SyncParent(p)
  PROVE  /\ dur' \in [Paths -> Entry] /\ dur'[p] = vol[p] /\ jdur' \in {jdur, jvol}
         /\ \A q \in Paths : dur'[q] \in {dur[q], vol[q]}
         /\ p \in Scratches => \A q \in Paths \ {p} : dur'[q] = dur[q]
BY DEF SyncParent, Siblings, TypeOK, Paths

\* The journal's directory holds the files and no scratch.
LEMMA JournalSynced ==
  ASSUME TypeOK, NEW from, NEW to, SyncJournal(from, to)
  PROVE  /\ dur' \in [Paths -> Entry]
         /\ \A f \in Files : dur'[f] \in {dur[f], vol[f]}
         /\ \A s \in Scratches : dur'[s] = dur[s]
BY DEF SyncJournal, TypeOK, Paths

\* A move loses no inode: its target was free.
LEMMA Moved ==
  ASSUME TypeOK, Sound(jvol), Stage, NEW p \in Paths, MoveAway(p)
  PROVE  /\ vol' \in [Paths -> Entry] /\ jvol.boot \in Boots
         /\ \A q \in Paths \ {p} : vol'[q] = vol[q]
         /\ vol'[p].src \in {0, vol[p].src}
         /\ Reach(vol[p]) \subseteq Reach(vol'[p]) \cup {0}
         /\ ctl' # ctl \/ p \in Files
<1>1. p \in todo /\ Applicable(p) /\ ctl = "applying"
      BY CurrentFacts, AcceptedFacts DEF MoveAway
<1>2. jvol.phase = "active" /\ jvol.boot \in Boots /\ jvol.plan[p] \in Nat
      BY <1>1 DEF Sound, Stage, Recovering, TypeOK, Journal
<1>3. vol[p] \in Entry /\ vol[p].src \in Nat /\ vol[p].tgt \in [Boots -> Nat]
      BY DEF TypeOK, Entry
<1>4. CASE vol' = vol
  <2>1. p \in Files \/ ctl' # ctl
        BY <1>1, <1>4 DEF MoveAway, Sound, Stage, Executing, Paths
  <2>. QED  BY <1>2, <1>4, <2>1 DEF TypeOK
<1>5. CASE /\ vol[p].src = jvol.plan[p] /\ jvol.plan[p] # 0 /\ ctl' = "moved"
           /\ vol' = [vol EXCEPT ![p].src = 0, ![p].tgt[jvol.boot] = jvol.plan[p]]
  <2>1. vol[p].tgt[jvol.boot] = 0
        BY <1>1, <1>2, <1>5 DEF Applicable, Quarantined
  <2> DEFINE e == [src |-> 0, tgt |-> [vol[p].tgt EXCEPT ![jvol.boot] = jvol.plan[p]]]
  <2>2. [[vol[p] EXCEPT !.src = 0] EXCEPT !.tgt[jvol.boot] = jvol.plan[p]] = e
    <3> DEFINE r == [src |-> 0, tgt |-> vol[p].tgt]
    <3>1. [vol[p] EXCEPT !.src = 0] = r
          BY <1>3 DEF Entry
    <3>2. [r EXCEPT !.tgt[jvol.boot] = jvol.plan[p]] = e
          OBVIOUS
    <3>. QED  BY <3>1, <3>2
  <2>3. vol' = [vol EXCEPT ![p] = e]
        BY <1>2, <1>3, <1>5, <2>2 DEF TypeOK, Entry
  <2>4. e \in Entry
        BY <1>2, <1>3 DEF Entry
  <2> HIDE DEF e
  <2>5. vol' \in [Paths -> Entry] /\ vol'[p] = e /\ \A q \in Paths \ {p} : vol'[q] = vol[q]
        BY <2>3, <2>4 DEF TypeOK
  <2>6. Reach(vol[p]) \subseteq Reach(e) \cup {0}
    <3>1. \A b \in Boots : e.tgt[b] = IF b = jvol.boot THEN vol[p].src ELSE vol[p].tgt[b]
          BY <1>2, <1>3, <1>5 DEF e
    <3>. QED  BY <1>2, <2>1, <3>1 DEF Reach
  <2>7. e.src = 0
        BY DEF e
  <2>. QED  BY <1>1, <1>2, <1>5, <2>5, <2>6, <2>7
<1>. QED  BY <1>4, <1>5 DEF MoveAway

\* A replacement stands where nothing stood.
LEMMA Replaced ==
  ASSUME TypeOK, NEW p \in Paths, SyncMove(p)
  PROVE  /\ vol' \in [Paths -> Entry] /\ fresh' \in {fresh, fresh + 1}
         /\ \A q \in Paths \ {p} : vol'[q] = vol[q]
         /\ vol'[p] = vol[p] \/ (vol'[p].src = fresh /\ fresh' = fresh + 1)
         /\ Reach(vol[p]) \subseteq Reach(vol'[p]) \cup {0}
<1>1. vol[p] \in Entry /\ fresh \in Nat
      BY DEF TypeOK
<1>2. CASE vol' = vol /\ fresh' = fresh
  <2>1. vol'[p] = vol[p] /\ fresh' \in {fresh, fresh + 1} /\ vol' \in [Paths -> Entry]
        BY <1>1, <1>2 DEF TypeOK
  <2>2. \A q \in Paths \ {p} : vol'[q] = vol[q]
        BY <1>2
  <2>3. Reach(vol[p]) \subseteq Reach(vol'[p])
        BY <2>1 DEF Reach
  <2>. QED  BY <2>1, <2>2, <2>3
<1>3. CASE vol[p].src = 0 /\ vol' = [vol EXCEPT ![p].src = fresh] /\ fresh' = fresh + 1
  <2> DEFINE e == [vol[p] EXCEPT !.src = fresh]
  <2>1. e \in Entry /\ e.src = fresh /\ e.tgt = vol[p].tgt
        BY <1>1 DEF Entry
  <2>2. vol' = [vol EXCEPT ![p] = e]
        BY <1>3 DEF TypeOK
  <2> HIDE DEF e
  <2>3. vol' \in [Paths -> Entry] /\ vol'[p] = e /\ \A q \in Paths \ {p} : vol'[q] = vol[q]
        BY <2>1, <2>2 DEF TypeOK
  <2>. QED  BY <1>3, <2>1, <2>3 DEF Reach
<1>. QED  BY <1>2, <1>3 DEF SyncMove

\* A new name, a withdrawn one and a sync share nothing between two paths.
LEMMA DistinctStays ==
  ASSUME TypeOK, Distinct, NEW p \in Paths, fresh' \in {fresh, fresh + 1},
         \A q \in Paths : dur'[q].src \in {dur[q].src, vol[q].src},
         \A q \in Paths : \/ vol'[q].src \in {0, vol[q].src}
                          \/ (q = p /\ vol'[q].src = fresh /\ fresh' = fresh + 1)
  PROVE  Distinct'
<1>1. /\ fresh \in Nat /\ fresh > 0 /\ fresh' \in Nat /\ fresh' > 0 /\ fresh <= fresh'
      /\ \A q \in Paths : /\ vol[q].src \in Nat /\ vol[q].src < fresh
                         /\ dur[q].src \in Nat /\ dur[q].src < fresh
      BY DEF Distinct, TypeOK, Entry
<1>2. \A q \in Paths : vol'[q].src < fresh' /\ dur'[q].src < fresh'
      BY <1>1
<1>3. ASSUME NEW q \in Paths, NEW r \in Paths, q # r
      PROVE  /\ vol'[q].src = vol'[r].src => vol'[q].src = 0
             /\ vol'[q].src = dur'[r].src => vol'[q].src = 0
             /\ dur'[q].src = dur'[r].src => dur'[q].src = 0
  <2>1. /\ vol[q].src = vol[r].src => vol[q].src = 0
        /\ vol[q].src = dur[r].src => vol[q].src = 0
        /\ vol[r].src = dur[q].src => vol[r].src = 0
        /\ dur[q].src = dur[r].src => dur[q].src = 0
        BY <1>3 DEF Distinct
  <2>. QED  BY <1>1, <1>3, <2>1
<1>. QED  BY <1>1, <1>2, <1>3 DEF Distinct

\* What a scratch holds stays in reach when no inode is lost.
LEMMA HeldStays ==
  ASSUME TypeOK, Held, data' \cup kept' \subseteq data \cup kept,
         \A s \in Scratches : /\ Reach(vol[s]) \subseteq Reach(vol'[s]) \cup {0}
                            /\ dur'[s] \in {dur[s], vol[s]}
  PROVE  Held'
<1> SUFFICES ASSUME NEW i \in data' \cup kept'
             PROVE  \E s \in Scratches : i \in Reach(vol'[s]) /\ i \in Reach(dur'[s])
    BY DEF Held, Reach
<1>1. PICK s \in Scratches : i \in Reach(vol[s]) /\ i \in Reach(dur[s])
      BY DEF Held
<1>2. i # 0
      BY DEF TypeOK
<1>3. i \in Reach(vol'[s])
      BY <1>1, <1>2
<1>4. i \in Reach(dur'[s])
      BY <1>1
<1>. QED  BY <1>3, <1>4

\* The server's files get inodes of their own.
LEMMA Bound ==
  ASSUME TypeOK, NEW f \in Files, Bind(f)
  PROVE  /\ vol' \in [Paths -> Entry]
         /\ \A q \in Paths \ {f} : vol'[q] = vol[q]
         /\ vol'[f].src = fresh
BY DEF Bind, TypeOK, Entry, Paths

\* Closing the server touches no scratch.
LEMMA Closed ==
  ASSUME TypeOK, CloseServer
  PROVE  /\ vol' \in [Paths -> Entry]
         /\ \A s \in Scratches : vol'[s] = vol[s]
         /\ \A f \in Files : vol'[f].src = 0
BY DEF CloseServer, TypeOK, Entry, Paths

\* Each replacement of the journal is well formed.
LEMMA JournalWritten ==
  ASSUME TypeOK, WritePlan \/ Begin \/ Finish
  PROVE  jvol' \in Journal
<1>1. \A p \in Paths : vol[p].src \in Nat
      BY DEF TypeOK, Entry
<1>2. CASE WritePlan
      BY <1>1, <1>2 DEF WritePlan, TypeOK, Journal
<1>3. CASE Begin
  <2>1. [s \in Scratches |-> vol[s].src] \in [Scratches -> Nat] /\ NoPlan \in [Paths -> Nat]
        BY <1>1 DEF Paths, NoPlan
  <2>. QED  BY <1>3, <2>1 DEF Begin, TypeOK, Journal
<1>4. CASE Finish
      BY <1>4 DEF Finish, TypeOK, Journal
<1>. QED  BY <1>2, <1>3, <1>4

-----------------------------------------------------------------------------
(* The invariant *)

\* It holds at first.
LEMMA InitInvariant == Init => IInv
<1> SUFFICES ASSUME Init PROVE IInv
    OBVIOUS
<1>1. Cardinality(Scratches) \in Nat
      BY ScratchesFinite, FS_CardinalityType
<1>2. PICK inode \in [Scratches -> 1..Cardinality(Scratches)] :
        /\ \A s, t \in Scratches : inode[s] = inode[t] => s = t
        /\ vol = [p \in Paths |-> [src |-> IF p \in Scratches THEN inode[p] ELSE 0,
                                  tgt |-> [b \in Boots |-> 0]]]
      BY DEF Init
<1>3. vol \in [Paths -> Entry] /\ dur = vol
      BY <1>1, <1>2 DEF Init, Entry, Paths
<1>4. NoJournal \in Journal /\ NoJournal.phase = "none" /\ ~NoJournal.planned
      BY DEF NoJournal, NoPlan, Journal
<1>5. TypeOK
      BY <1>1, <1>3, <1>4 DEF Init, TypeOK, Boots
<1>6. Distinct
      BY <1>1, <1>2 DEF Init, Distinct, Paths
<1>7. Held /\ Sound(jvol) /\ Sound(jdur) /\ Settled /\ Stage /\ Recorded /\ Unused
      BY <1>4 DEF Init, Held, Sound, Settled, Stage, Recorded, Unused, Recovering,
         Executing, Serving
<1>. QED  BY <1>5, <1>6, <1>7 DEF IInv

\* Every step keeps the variables in their types.
LEMMA StepTypes == ASSUME IInv, Next PROVE TypeOK'
<1> USE DEF IInv, TypeOK, world, names, journal, contents, workers
<1>1. CASE Start
      BY <1>1 DEF Start
<1>2. CASE WritePlan
      BY <1>2, JournalWritten DEF WritePlan
<1>3. CASE SyncJournal("planned", "checking") \/ SyncJournal("began", "running")
           \/ SyncJournal("finished", "down")
      BY <1>3, JournalSynced DEF SyncJournal
<1>4. CASE CheckPlan
      BY <1>4 DEF CheckPlan
<1>5. CASE Prepared
      BY <1>5 DEF Prepared
<1>6. CASE Refuse
      BY <1>6, AcceptedFacts DEF Refuse
<1>7. ASSUME NEW p \in Paths, MoveAway(p) PROVE TypeOK'
      BY <1>7, Moved DEF MoveAway
<1>8. ASSUME NEW p \in Paths, SyncMove(p) PROVE TypeOK'
      BY <1>8, Replaced, Synced, CurrentFacts DEF SyncMove
<1>9. ASSUME NEW p \in Paths, SyncMade(p) PROVE TypeOK'
      BY <1>9, Synced, CurrentFacts DEF SyncMade
<1>10. CASE Begin
      BY <1>10, JournalWritten DEF Begin
<1>11. ASSUME NEW s \in Scratches, Launch(s) PROVE TypeOK'
      BY <1>11 DEF Launch, Recorded, Serving
<1>12. ASSUME NEW s \in Scratches, GiveBack(s) PROVE TypeOK'
      BY <1>12 DEF GiveBack
<1>13. ASSUME NEW f \in Files, Bind(f) PROVE TypeOK'
  <2>1. fresh' = fresh + 1 /\ data' \subseteq 1..(fresh' - 1) /\ kept' \subseteq 1..(fresh' - 1)
        BY <1>13 DEF Bind
  <2>2. vol' \in [Paths -> Entry]
        BY <1>13, Bound
  <2>. QED  BY <1>13, <2>1, <2>2 DEF Bind
<1>14. CASE CloseServer
      BY <1>14, Closed DEF CloseServer
<1>15. CASE Finish
      BY <1>15, JournalWritten DEF Finish
<1>16. ASSUME NEW s \in Scratches, WorkerWrites(s) PROVE TypeOK'
  <2>1. vol[s].src \in 1..(fresh - 1)
        BY <1>16 DEF WorkerWrites, Distinct, Paths, Entry
  <2>. QED  BY <1>16, <2>1 DEF WorkerWrites
<1>17. ASSUME NEW w \in alive, WorkerExits(w) PROVE TypeOK'
      BY <1>17 DEF WorkerExits
<1>18. ASSUME NEW p \in Paths, WriteBack(p) PROVE TypeOK'
      BY <1>18, Synced DEF WriteBack
<1>19. ASSUME NEW i \in data \cup kept, WriteBackContents(i) PROVE TypeOK'
      BY <1>19 DEF WriteBackContents
<1>20. CASE Kill
      BY <1>20 DEF Kill
<1>21. CASE PowerLoss
  <2>1. boot' \in Boots /\ alive' \subseteq (1..session') \X Scratches
        BY <1>21 DEF PowerLoss, Boots
  <2>. QED  BY <1>21, <2>1 DEF PowerLoss
<1>. QED  BY <1>1, <1>2, <1>3, <1>4, <1>5, <1>6, <1>7, <1>8, <1>9, <1>10, <1>11, <1>12,
             <1>13,
               <1>14, <1>15, <1>16, <1>17, <1>18, <1>19, <1>20, <1>21 DEF Next, Recover

\* Names are only withdrawn, copied to the disk, or given to a new inode.
LEMMA StepDistinct == ASSUME IInv, Next PROVE Distinct'
<1> USE DEF IInv, TypeOK, Distinct, Paths, world, names, journal, contents, workers
<1>1. CASE Start
      BY <1>1 DEF Start
<1>2. CASE WritePlan
      BY <1>2 DEF WritePlan
<1>3. CASE SyncJournal("planned", "checking") \/ SyncJournal("began", "running")
           \/ SyncJournal("finished", "down")
      BY <1>3, JournalSynced DEF SyncJournal
<1>4. CASE CheckPlan
      BY <1>4 DEF CheckPlan
<1>5. CASE Prepared
      BY <1>5 DEF Prepared
<1>6. CASE Refuse
      BY <1>6, AcceptedFacts DEF Refuse
<1>7. ASSUME NEW p \in Paths, MoveAway(p) PROVE Distinct'
      BY <1>7, Moved, DistinctStays DEF MoveAway
<1>8. ASSUME NEW p \in Paths, SyncMove(p) PROVE Distinct'
  <2>1. \A q \in Paths : dur'[q].src \in {dur[q].src, vol[q].src}
        BY <1>8, DistinctStays, Synced DEF SyncMove
  <2>2. \A q \in Paths : \/ vol'[q].src \in {0, vol[q].src}
                         \/ (q = p /\ vol'[q].src = fresh /\ fresh' = fresh + 1)
        BY <1>8, Replaced
  <2>. QED  BY <1>8, <2>1, <2>2, Replaced, DistinctStays
<1>9. ASSUME NEW p \in Paths, SyncMade(p) PROVE Distinct'
      BY <1>9, DistinctStays, Synced, CurrentFacts DEF SyncMade
<1>10. CASE Begin
      BY <1>10 DEF Begin
<1>11. ASSUME NEW s \in Scratches, Launch(s) PROVE Distinct'
      BY <1>11 DEF Launch
<1>12. ASSUME NEW s \in Scratches, GiveBack(s) PROVE Distinct'
      BY <1>12 DEF GiveBack
<1>13. ASSUME NEW f \in Files, Bind(f) PROVE Distinct'
      BY <1>13, Bound, DistinctStays DEF Bind
<1>14. CASE CloseServer
      BY <1>14, Closed DEF CloseServer
<1>15. CASE Finish
      BY <1>15 DEF Finish
<1>16. ASSUME NEW s \in Scratches, WorkerWrites(s) PROVE Distinct'
      BY <1>16 DEF WorkerWrites
<1>17. ASSUME NEW w \in alive, WorkerExits(w) PROVE Distinct'
      BY <1>17 DEF WorkerExits
<1>18. ASSUME NEW p \in Paths, WriteBack(p) PROVE Distinct'
      BY <1>18, DistinctStays, Synced DEF WriteBack
<1>19. ASSUME NEW i \in data \cup kept, WriteBackContents(i) PROVE Distinct'
      BY <1>19 DEF WriteBackContents
<1>20. CASE Kill
      BY <1>20 DEF Kill
<1>21. CASE PowerLoss
      BY <1>21 DEF PowerLoss
<1>. QED  BY <1>1, <1>2, <1>3, <1>4, <1>5, <1>6, <1>7, <1>8, <1>9, <1>10, <1>11, <1>12,
             <1>13,
               <1>14, <1>15, <1>16, <1>17, <1>18, <1>19, <1>20, <1>21 DEF Next, Recover

\* A worker writes only where cache and disk agree, and a move keeps its inode in reach.
LEMMA StepHeld == ASSUME IInv, Next PROVE Held'
<1> USE DEF IInv, TypeOK, Held, Paths, world, names, journal, contents, workers
<1>1. CASE Start
      BY <1>1 DEF Start
<1>2. CASE WritePlan
      BY <1>2 DEF WritePlan
<1>3. CASE SyncJournal("planned", "checking") \/ SyncJournal("began", "running")
           \/ SyncJournal("finished", "down")
      BY <1>3, JournalSynced DEF SyncJournal
<1>4. CASE CheckPlan
      BY <1>4 DEF CheckPlan
<1>5. CASE Prepared
      BY <1>5 DEF Prepared
<1>6. CASE Refuse
      BY <1>6, AcceptedFacts DEF Refuse
<1>7. ASSUME NEW p \in Paths, MoveAway(p) PROVE Held'
      BY <1>7, Moved, HeldStays DEF MoveAway
<1>8. ASSUME NEW p \in Paths, SyncMove(p) PROVE Held'
      BY <1>8, Replaced, Synced, HeldStays DEF SyncMove
<1>9. ASSUME NEW p \in Paths, SyncMade(p) PROVE Held'
      BY <1>9, Synced, CurrentFacts DEF SyncMade
<1>10. CASE Begin
      BY <1>10 DEF Begin
<1>11. ASSUME NEW s \in Scratches, Launch(s) PROVE Held'
      BY <1>11 DEF Launch
<1>12. ASSUME NEW s \in Scratches, GiveBack(s) PROVE Held'
      BY <1>12 DEF GiveBack
<1>13. ASSUME NEW f \in Files, Bind(f) PROVE Held'
      BY <1>13, Bound DEF Bind
<1>14. CASE CloseServer
      BY <1>14, Closed DEF CloseServer
<1>15. CASE Finish
      BY <1>15 DEF Finish
<1>16. ASSUME NEW s \in Scratches, WorkerWrites(s) PROVE Held'
      BY <1>16 DEF WorkerWrites, Recorded, Settled, Reach, Distinct, Entry
<1>17. ASSUME NEW w \in alive, WorkerExits(w) PROVE Held'
      BY <1>17 DEF WorkerExits
<1>18. ASSUME NEW p \in Paths, WriteBack(p) PROVE Held'
      BY <1>18, Synced DEF WriteBack
<1>19. ASSUME NEW i \in data \cup kept, WriteBackContents(i) PROVE Held'
      BY <1>19 DEF WriteBackContents
<1>20. CASE Kill
      BY <1>20 DEF Kill
<1>21. CASE PowerLoss
      BY <1>21 DEF PowerLoss
<1>. QED  BY <1>1, <1>2, <1>3, <1>4, <1>5, <1>6, <1>7, <1>8, <1>9, <1>10, <1>11, <1>12,
             <1>13,
               <1>14, <1>15, <1>16, <1>17, <1>18, <1>19, <1>20, <1>21 DEF Next, Recover

\* The plan holds what the journal's scratches named, and those exist.
LEMMA StepSound == ASSUME IInv, Next PROVE Sound(jvol)' /\ Sound(jdur)'
<1> USE DEF IInv, TypeOK, Sound, Journal, world, names, journal, contents, workers
<1>1. CASE Start
      BY <1>1 DEF Start
<1>2. CASE WritePlan
      BY <1>2, AcceptedFacts DEF WritePlan, Stage, Recovering, Paths
<1>3. CASE SyncJournal("planned", "checking") \/ SyncJournal("began", "running")
           \/ SyncJournal("finished", "down")
      BY <1>3 DEF SyncJournal
<1>4. CASE CheckPlan
      BY <1>4 DEF CheckPlan
<1>5. CASE Prepared
      BY <1>5 DEF Prepared
<1>6. CASE Refuse
      BY <1>6 DEF Refuse
<1>7. ASSUME NEW p \in Paths, MoveAway(p) PROVE Sound(jvol)' /\ Sound(jdur)'
      BY <1>7 DEF MoveAway
<1>8. ASSUME NEW p \in Paths, SyncMove(p) PROVE Sound(jvol)' /\ Sound(jdur)'
      BY <1>8, Replaced, Synced DEF SyncMove
<1>9. ASSUME NEW p \in Paths, SyncMade(p) PROVE Sound(jvol)' /\ Sound(jdur)'
      BY <1>9, Synced, CurrentFacts DEF SyncMade
<1>10. CASE Begin
      BY <1>10, AcceptedFacts DEF Begin, EmptyScratch
<1>11. ASSUME NEW s \in Scratches, Launch(s) PROVE Sound(jvol)' /\ Sound(jdur)'
      BY <1>11 DEF Launch
<1>12. ASSUME NEW s \in Scratches, GiveBack(s) PROVE Sound(jvol)' /\ Sound(jdur)'
      BY <1>12 DEF GiveBack
<1>13. ASSUME NEW f \in Files, Bind(f) PROVE Sound(jvol)' /\ Sound(jdur)'
      BY <1>13 DEF Bind
<1>14. CASE CloseServer
      BY <1>14 DEF CloseServer
<1>15. CASE Finish
      BY <1>15 DEF Finish, Recorded, Serving
<1>16. ASSUME NEW s \in Scratches, WorkerWrites(s) PROVE Sound(jvol)' /\ Sound(jdur)'
      BY <1>16 DEF WorkerWrites
<1>17. ASSUME NEW w \in alive, WorkerExits(w) PROVE Sound(jvol)' /\ Sound(jdur)'
      BY <1>17 DEF WorkerExits
<1>18. ASSUME NEW p \in Paths, WriteBack(p) PROVE Sound(jvol)' /\ Sound(jdur)'
      BY <1>18, Synced DEF WriteBack
<1>19. ASSUME NEW i \in data \cup kept, WriteBackContents(i) PROVE Sound(jvol)' /\ Sound(jdur)'
      BY <1>19 DEF WriteBackContents
<1>20. CASE Kill
      BY <1>20 DEF Kill
<1>21. CASE PowerLoss
      BY <1>21 DEF PowerLoss
<1>. QED  BY <1>1, <1>2, <1>3, <1>4, <1>5, <1>6, <1>7, <1>8, <1>9, <1>10, <1>11, <1>12,
             <1>13,
               <1>14, <1>15, <1>16, <1>17, <1>18, <1>19, <1>20, <1>21 DEF Next, Recover

\* A scratch leaves the plan only when both directories are synced.
LEMMA StepSettled == ASSUME IInv, Next PROVE Settled'
<1> USE DEF IInv, TypeOK, Settled, Stage, Sound, Recovering, Executing, Serving, Paths,
            world, names, journal, contents, workers
<1>1. CASE Start
      BY <1>1 DEF Start
<1>2. CASE WritePlan
      BY <1>2 DEF WritePlan
<1>3. CASE SyncJournal("planned", "checking") \/ SyncJournal("began", "running")
           \/ SyncJournal("finished", "down")
      BY <1>3, JournalSynced DEF SyncJournal
<1>4. CASE CheckPlan
      BY <1>4 DEF CheckPlan
<1>5. CASE Prepared
      BY <1>5 DEF Prepared
<1>6. CASE Refuse
      BY <1>6, AcceptedFacts DEF Refuse
<1>7. ASSUME NEW p \in Paths, MoveAway(p) PROVE Settled'
      BY <1>7, Moved, CurrentFacts DEF MoveAway
<1>8. ASSUME NEW p \in Paths, SyncMove(p) PROVE Settled'
      BY <1>8, Replaced, Synced, CurrentFacts DEF SyncMove
<1>9. ASSUME NEW p \in Paths, SyncMade(p) PROVE Settled'
      BY <1>9, Synced, CurrentFacts DEF SyncMade
<1>10. CASE Begin
      BY <1>10 DEF Begin
<1>11. ASSUME NEW s \in Scratches, Launch(s) PROVE Settled'
      BY <1>11 DEF Launch
<1>12. ASSUME NEW s \in Scratches, GiveBack(s) PROVE Settled'
      BY <1>12 DEF GiveBack
<1>13. ASSUME NEW f \in Files, Bind(f) PROVE Settled'
      BY <1>13, Bound DEF Bind
<1>14. CASE CloseServer
      BY <1>14, Closed DEF CloseServer
<1>15. CASE Finish
      BY <1>15 DEF Finish
<1>16. ASSUME NEW s \in Scratches, WorkerWrites(s) PROVE Settled'
      BY <1>16 DEF WorkerWrites
<1>17. ASSUME NEW w \in alive, WorkerExits(w) PROVE Settled'
      BY <1>17 DEF WorkerExits
<1>18. ASSUME NEW p \in Paths, WriteBack(p) PROVE Settled'
      BY <1>18, Synced DEF WriteBack
<1>19. ASSUME NEW i \in data \cup kept, WriteBackContents(i) PROVE Settled'
      BY <1>19 DEF WriteBackContents
<1>20. CASE Kill
      BY <1>20 DEF Kill
<1>21. CASE PowerLoss
      BY <1>21 DEF PowerLoss
<1>. QED  BY <1>1, <1>2, <1>3, <1>4, <1>5, <1>6, <1>7, <1>8, <1>9, <1>10, <1>11, <1>12,
             <1>13,
               <1>14, <1>15, <1>16, <1>17, <1>18, <1>19, <1>20, <1>21 DEF Next, Recover

\* No step of a recovery or a start meets a living worker.
LEMMA StepStage == ASSUME IInv, Next PROVE Stage'
<1> USE DEF IInv, TypeOK, Stage, Recorded, Recovering, Executing, Serving, Journal,
            Paths, world, names, journal, contents, workers
<1>1. CASE Start
      BY <1>1 DEF Start
<1>2. CASE WritePlan
      BY <1>2 DEF WritePlan
<1>3. CASE SyncJournal("planned", "checking") \/ SyncJournal("began", "running")
           \/ SyncJournal("finished", "down")
      BY <1>3, JournalSynced DEF SyncJournal
<1>4. CASE CheckPlan
      BY <1>4 DEF CheckPlan
<1>5. CASE Prepared
      BY <1>5 DEF Prepared
<1>6. CASE Refuse
      BY <1>6, AcceptedFacts DEF Refuse
<1>7. ASSUME NEW p \in Paths, MoveAway(p) PROVE Stage'
      BY <1>7, Moved DEF MoveAway
<1>8. ASSUME NEW p \in Paths, SyncMove(p) PROVE Stage'
      BY <1>8, CurrentFacts DEF SyncMove
<1>9. ASSUME NEW p \in Paths, SyncMade(p) PROVE Stage'
      BY <1>9, Synced, CurrentFacts DEF SyncMade
<1>10. CASE Begin
      BY <1>10 DEF Begin
<1>11. ASSUME NEW s \in Scratches, Launch(s) PROVE Stage'
      BY <1>11 DEF Launch
<1>12. ASSUME NEW s \in Scratches, GiveBack(s) PROVE Stage'
      BY <1>12 DEF GiveBack
<1>13. ASSUME NEW f \in Files, Bind(f) PROVE Stage'
      BY <1>13, Bound DEF Bind
<1>14. CASE CloseServer
      BY <1>14, Closed DEF CloseServer
<1>15. CASE Finish
      BY <1>15 DEF Finish
<1>16. ASSUME NEW s \in Scratches, WorkerWrites(s) PROVE Stage'
      BY <1>16 DEF WorkerWrites
<1>17. ASSUME NEW w \in alive, WorkerExits(w) PROVE Stage'
      BY <1>17 DEF WorkerExits
<1>18. ASSUME NEW p \in Paths, WriteBack(p) PROVE Stage'
      BY <1>18, Synced DEF WriteBack
<1>19. ASSUME NEW i \in data \cup kept, WriteBackContents(i) PROVE Stage'
      BY <1>19 DEF WriteBackContents
<1>20. CASE Kill
      BY <1>20 DEF Kill
<1>21. CASE PowerLoss
      BY <1>21 DEF PowerLoss
<1>. QED  BY <1>1, <1>2, <1>3, <1>4, <1>5, <1>6, <1>7, <1>8, <1>9, <1>10, <1>11, <1>12,
             <1>13,
               <1>14, <1>15, <1>16, <1>17, <1>18, <1>19, <1>20, <1>21 DEF Next, Recover

\* The names a journal records change only after its workers are gone.
LEMMA StepRecorded == ASSUME IInv, Next PROVE Recorded'
<1> USE DEF IInv, TypeOK, Stage, Recorded, Recovering, Executing, Serving, Journal,
            Paths, world, names, journal, contents, workers
<1>1. CASE Start
      BY <1>1 DEF Start
<1>2. CASE WritePlan
      BY <1>2 DEF WritePlan
<1>3. CASE SyncJournal("planned", "checking") \/ SyncJournal("began", "running")
           \/ SyncJournal("finished", "down")
      BY <1>3, JournalSynced DEF SyncJournal
<1>4. CASE CheckPlan
      BY <1>4 DEF CheckPlan
<1>5. CASE Prepared
      BY <1>5 DEF Prepared
<1>6. CASE Refuse
      BY <1>6, AcceptedFacts DEF Refuse
<1>7. ASSUME NEW p \in Paths, MoveAway(p) PROVE Recorded'
      BY <1>7, Moved DEF MoveAway
<1>8. ASSUME NEW p \in Paths, SyncMove(p) PROVE Recorded'
      BY <1>8, Replaced, Synced DEF SyncMove
<1>9. ASSUME NEW p \in Paths, SyncMade(p) PROVE Recorded'
      BY <1>9, Synced, CurrentFacts DEF SyncMade
<1>10. CASE Begin
      BY <1>10 DEF Begin
<1>11. ASSUME NEW s \in Scratches, Launch(s) PROVE Recorded'
      BY <1>11 DEF Launch
<1>12. ASSUME NEW s \in Scratches, GiveBack(s) PROVE Recorded'
      BY <1>12 DEF GiveBack
<1>13. ASSUME NEW f \in Files, Bind(f) PROVE Recorded'
      BY <1>13, Bound DEF Bind
<1>14. CASE CloseServer
      BY <1>14, Closed DEF CloseServer
<1>15. CASE Finish
      BY <1>15 DEF Finish
<1>16. ASSUME NEW s \in Scratches, WorkerWrites(s) PROVE Recorded'
      BY <1>16 DEF WorkerWrites
<1>17. ASSUME NEW w \in alive, WorkerExits(w) PROVE Recorded'
      BY <1>17 DEF WorkerExits
<1>18. ASSUME NEW p \in Paths, WriteBack(p) PROVE Recorded'
      BY <1>18, Synced DEF WriteBack
<1>19. ASSUME NEW i \in data \cup kept, WriteBackContents(i) PROVE Recorded'
      BY <1>19 DEF WriteBackContents
<1>20. CASE Kill
      BY <1>20 DEF Kill
<1>21. CASE PowerLoss
      BY <1>21 DEF PowerLoss
<1>. QED  BY <1>1, <1>2, <1>3, <1>4, <1>5, <1>6, <1>7, <1>8, <1>9, <1>10, <1>11, <1>12,
             <1>13,
               <1>14, <1>15, <1>16, <1>17, <1>18, <1>19, <1>20, <1>21 DEF Next, Recover

\* A slot is given back with an empty scratch, and nobody else writes there.
LEMMA StepUnused == ASSUME IInv, Next PROVE Unused'
<1> USE DEF IInv, TypeOK, Stage, Recorded, Unused, Distinct, Recovering, Executing,
            Serving, Paths, EmptyScratch, world, names, journal, contents, workers
<1>1. CASE Start
      BY <1>1 DEF Start
<1>2. CASE WritePlan
      BY <1>2 DEF WritePlan
<1>3. CASE SyncJournal("planned", "checking") \/ SyncJournal("began", "running")
           \/ SyncJournal("finished", "down")
      BY <1>3, JournalSynced DEF SyncJournal
<1>4. CASE CheckPlan
      BY <1>4 DEF CheckPlan
<1>5. CASE Prepared
      BY <1>5 DEF Prepared
<1>6. CASE Refuse
      BY <1>6, AcceptedFacts DEF Refuse
<1>7. ASSUME NEW p \in Paths, MoveAway(p) PROVE Unused'
      BY <1>7, Moved DEF MoveAway
<1>8. ASSUME NEW p \in Paths, SyncMove(p) PROVE Unused'
      BY <1>8, Replaced, Synced DEF SyncMove
<1>9. ASSUME NEW p \in Paths, SyncMade(p) PROVE Unused'
      BY <1>9, Synced, CurrentFacts DEF SyncMade
<1>10. CASE Begin
      BY <1>10, AcceptedFacts DEF Begin
<1>11. ASSUME NEW s \in Scratches, Launch(s) PROVE Unused'
      BY <1>11 DEF Launch
<1>12. ASSUME NEW s \in Scratches, GiveBack(s) PROVE Unused'
      BY <1>12 DEF GiveBack
<1>13. ASSUME NEW f \in Files, Bind(f) PROVE Unused'
      BY <1>13, Bound DEF Bind
<1>14. CASE CloseServer
      BY <1>14, Closed DEF CloseServer
<1>15. CASE Finish
      BY <1>15 DEF Finish
<1>16. ASSUME NEW s \in Scratches, WorkerWrites(s) PROVE Unused'
  <2>1. ctl \in Serving \cup {"began"} => ctl \in Serving /\ s \in used
        BY <1>16 DEF WorkerWrites
  <2>2. \A t \in Scratches \ {s} : vol[t].src # vol[s].src
        BY <1>16 DEF WorkerWrites
  <2>. QED  BY <1>16, <2>1, <2>2 DEF WorkerWrites
<1>17. ASSUME NEW w \in alive, WorkerExits(w) PROVE Unused'
      BY <1>17 DEF WorkerExits
<1>18. ASSUME NEW p \in Paths, WriteBack(p) PROVE Unused'
      BY <1>18, Synced DEF WriteBack
<1>19. ASSUME NEW i \in data \cup kept, WriteBackContents(i) PROVE Unused'
      BY <1>19 DEF WriteBackContents
<1>20. CASE Kill
      BY <1>20 DEF Kill
<1>21. CASE PowerLoss
      BY <1>21 DEF PowerLoss
<1>. QED  BY <1>1, <1>2, <1>3, <1>4, <1>5, <1>6, <1>7, <1>8, <1>9, <1>10, <1>11, <1>12,
             <1>13,
               <1>14, <1>15, <1>16, <1>17, <1>18, <1>19, <1>20, <1>21 DEF Next, Recover

\* Every step keeps the invariant.
LEMMA StepInvariant == IInv /\ [Next]_vars => IInv'
<1>1. ASSUME IInv, Next PROVE IInv'
      BY <1>1, StepTypes, StepDistinct, StepHeld, StepSound, StepSettled, StepStage,
         StepRecorded, StepUnused DEF IInv
<1>2. ASSUME IInv, UNCHANGED vars PROVE IInv'
      BY <1>2 DEF IInv, vars, TypeOK, Distinct, Held, Sound, Settled, Stage, Recorded,
         Unused,
                  Current
<1>. QED  BY <1>1, <1>2

\* A worker is added only by Launch, in a scratch that is in no use.
LEMMA LaunchStep ==
  ASSUME IInv, [Next]_vars, NEW s \in Scratches, NEW n, <<n, s>> \in alive' \ alive
  PROVE  EmptyScratch(s)
<1> USE DEF IInv
<1>1. ASSUME NEW t \in Scratches, Launch(t) PROVE EmptyScratch(s)
  <2>1. s = t /\ s \notin used /\ ctl = "running"
        BY <1>1 DEF Launch
  <2>2. vol[s].src # 0
        BY <2>1 DEF Recorded, Sound, Serving
  <2>3. vol[s].src \notin data
        BY <2>1 DEF Unused, Serving
  <2>. QED  BY <2>2, <2>3 DEF EmptyScratch
<1>2. ASSUME NEW t \in Scratches, GiveBack(t) \/ WorkerWrites(t) PROVE FALSE
      BY <1>2 DEF GiveBack, WorkerWrites, workers
<1>3. ASSUME NEW p \in Paths, MoveAway(p) \/ SyncMove(p) \/ SyncMade(p) \/ WriteBack(p) PROVE FALSE
      BY <1>3 DEF MoveAway, SyncMove, SyncMade, WriteBack, workers
<1>4. ASSUME NEW f \in Files, Bind(f) PROVE FALSE
      BY <1>4 DEF Bind, workers
<1>5. ASSUME NEW w \in alive, WorkerExits(w) PROVE FALSE
      BY <1>5 DEF WorkerExits
<1>6. ASSUME NEW i \in data \cup kept, WriteBackContents(i) PROVE FALSE
      BY <1>6 DEF WriteBackContents, workers
<1>7. ASSUME \/ Start \/ WritePlan \/ CheckPlan \/ Prepared \/ Refuse \/ Begin
             \/ CloseServer \/ Finish
      PROVE  FALSE
      BY <1>7 DEF Start, WritePlan, CheckPlan, Prepared, Refuse, Begin, CloseServer,
         Finish, workers
<1>8. ASSUME \/ SyncJournal("planned", "checking") \/ SyncJournal("began", "running")
             \/ SyncJournal("finished", "down")
      PROVE  FALSE
      BY <1>8 DEF SyncJournal, workers
<1>9. ASSUME Kill \/ PowerLoss \/ UNCHANGED vars PROVE FALSE
      BY <1>9 DEF Kill, PowerLoss, vars
<1>. QED  BY <1>1, <1>2, <1>3, <1>4, <1>5, <1>6, <1>7, <1>8, <1>9 DEF Next, Recover

-----------------------------------------------------------------------------
(* Theorems *)

(* The invariant holds in every reachable state, whatever is lost and       *)
(* killed, for any bounds (reboot_recovery.py with service.py).             *)
THEOREM Inductive == Spec => []IInv
BY InitInvariant, StepInvariant, PTL DEF Spec

(* Workers of two sessions never live together: a session that was not      *)
(* closed stays recorded in the journal, which the same boot refuses.       *)
THEOREM NoOverlapHolds == Spec => []NoOverlap
<1>1. IInv => NoOverlap
      BY DEF IInv, Recorded, NoOverlap
<1>. QED  BY <1>1, Inductive, PTL

(* A living worker is recorded on the disk, with its very directory:        *)
(* begin() returns, and workers start, only after the journal is durable.   *)
THEOREM DurablyRecordedHolds == Spec => []DurablyRecorded
<1>1. IInv => DurablyRecorded
      BY DEF IInv, TypeOK, Recorded, DurablyRecorded
<1>. QED  BY <1>1, Inductive, PTL

(* Recovery moves aside and never loses: what a scratch holds keeps a name, *)
(* and what of it is on the disk keeps one there (_apply).                  *)
THEOREM RetainedHolds == Spec => []Retained
<1>1. IInv => Retained
  <2> SUFFICES ASSUME IInv PROVE Retained
      OBVIOUS
  <2>1. ASSUME NEW i \in data \cup kept PROVE i \in Named(vol) /\ i \in Named(dur)
    <3>1. PICK s \in Scratches : i \in Reach(vol[s]) /\ i \in Reach(dur[s])
          BY DEF IInv, Held
    <3>. QED  BY <3>1 DEF Named, Reach, Paths
  <2>. QED  BY <2>1 DEF IInv, Retained
<1>. QED  BY <1>1, Inductive, PTL

(* A worker is launched only in an empty scratch, in the first session and  *)
(* after every recovery.                                                    *)
THEOREM LaunchEmptyHolds == Spec => LaunchEmpty
<1>1. IInv /\ [Next]_vars =>
        [\A s \in Scratches : \A n \in 1..MaxSession :
           <<n, s>> \in alive' \ alive => EmptyScratch(s)]_vars
      BY LaunchStep
<1>. QED  BY <1>1, Inductive, PTL DEF Spec, LaunchEmpty
=============================================================================
