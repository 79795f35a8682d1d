------------------------ MODULE PublishByRenameProofs ------------------------
(* Proofs about the two components that publish a finished directory by a    *)
(* rename that replaces nothing: a public release and an extraction's sample,*)
(* for every set of calls, requests and releases, and any number of faults   *)
(* and changes.  Each argument is one inductive invariant.                   *)
EXTENDS Extraction, PublicIntake, FiniteSetTheorems, TLAPS

-----------------------------------------------------------------------------
(* The public release: the documents a call reads may come from different    *)
(* releases; what makes them one release is the policy, which approves three *)
(* of them together, and the manifest's digest of the archive.               *)

DocumentNames == {"identity", "review", "manifest", "portable"}
AllDocuments == UNION {{r[k] : k \in DocumentNames} : r \in Releases}
Approvals == {Approved(r) : r \in Releases}
Public == {"verify", "returned", "unverified"}
Passed == {"archive", "evidence", "rename"} \cup Public
Places == {"called", "read", "cleanup", "refused", "littered", "killed"} \cup Passed

\* Everything that is read or trusted was released or approved at some time.
Origins ==
  /\ DOMAIN source = DocumentNames
  /\ \A k \in DocumentNames : \E r \in Releases : source[k] = r[k]
  /\ policy \in Approvals
  /\ trusted \in [Intakes -> Approvals]
  /\ view \in [Intakes -> Seq(AllDocuments)]
  /\ \A c \in Intakes : Len(view[c]) <= Len(Reads)
  /\ \A c \in Intakes : \A i \in 1..Len(view[c]) : \E r \in Releases : view[c][i] = r[Reads[i]]

\* What a call has checked, it goes on with.
Agreed(c) ==
  /\ Len(view[c]) = Len(Reads)
  /\ PolicyAgrees(trusted[c], Seen(c))
  /\ Linked(Seen(c))

Full(c) == Directory({Seen(c).portable}, {Projection(Seen(c), trusted[c])})

\* The directory of a call at each of its places.
Call(c) ==
  /\ place[c] = "called" => view[c] = <<>>
  /\ place[c] \in {"called", "read", "refused"} \cup Public => temporary[c] = Absent
  /\ place[c] \in Passed => Agreed(c)
  /\ place[c] = "archive" => temporary[c] = Bare
  /\ place[c] = "evidence" => temporary[c] = Directory({Seen(c).portable}, {})
  /\ place[c] = "rename" => temporary[c] = Full(c)
  /\ place[c] \in Public => c \in renamed

\* One call at most has published, and what it published is whole.
Published ==
  \/ renamed = {} /\ destination = Absent
  \/ \E c \in Intakes : /\ renamed = {c} /\ destination = Full(c)
                      /\ Agreed(c) /\ place[c] \in Public \cup {"killed"}

IntakeInv == /\ Origins /\ place \in [Intakes -> Places] /\ DOMAIN temporary = Intakes
             /\ (\A c \in Intakes : Call(c)) /\ Published

LEMMA SevenReads ==
  /\ Len(Reads) = 7 /\ \A i \in 1..7 : Reads[i] \in DocumentNames
  /\ Reads[1] = "identity" /\ Reads[2] = "review" /\ Reads[3] = "manifest"
  /\ Reads[4] = "portable"
BY DEF Reads, DocumentNames

\* It holds at first.
LEMMA IntakeInitial == IntakeInit => IntakeInv
<1> SUFFICES ASSUME IntakeInit PROVE IntakeInv
    OBVIOUS
<1>1. <<>> \in Seq(AllDocuments) /\ Len(<<>>) = 0
      OBVIOUS
<1>2. Origins
      BY <1>1, SevenReads, Documents DEF IntakeInit, Origins, DocumentNames, Approvals
<1>. QED  BY <1>2 DEF IntakeInit, IntakeInv, Call, Published, Places, Passed, Public

\* The operator replaces documents and policy by released and approved ones.
LEMMA OperatorStep ==
  ASSUME IntakeInv, NEW r \in Releases,
         Approve(r) \/ \E document \in DOMAIN source : Replace(document, r)
  PROVE  IntakeInv'
<1>1. Origins'
  <2>1. CASE Approve(r)
        BY <2>1 DEF Approve, IntakeInv, Origins, Approvals
  <2>2. ASSUME NEW document \in DOMAIN source, Replace(document, r) PROVE Origins'
    <3>1. DOMAIN source' = DocumentNames /\ UNCHANGED <<policy, trusted, view>>
          BY <2>2 DEF Replace, IntakeInv, Origins
    <3>2. \A k \in DocumentNames : source'[k] = IF k = document THEN r[k] ELSE source[k]
          BY <2>2 DEF Replace, IntakeInv, Origins
    <3>3. \A k \in DocumentNames : \E s \in Releases : source'[k] = s[k]
          BY <3>2 DEF IntakeInv, Origins
    <3>. QED  BY <3>1, <3>3 DEF IntakeInv, Origins
  <2>. QED  BY <2>1, <2>2
<1>2. UNCHANGED <<place, view, trusted, temporary, destination, renamed>>
      BY DEF Approve, Replace
<1>. QED  BY <1>1, <1>2 DEF IntakeInv, Call, Agreed, Full, Seen, Published

\* A read appends the document that is in the source now.
LEMMA DocumentReadStep == ASSUME IntakeInv, NEW c \in Intakes, Read(c) PROVE IntakeInv'
<1> DEFINE n == Len(view[c]) + 1
           d == source[Reads[n]]
<1>1. view[c] \in Seq(AllDocuments) /\ Len(view[c]) \in Nat /\ n \in 1..7
      BY SevenReads DEF IntakeInv, Origins, Read
<1>2. PICK r \in Releases : d = r[Reads[n]]
      BY <1>1, SevenReads DEF IntakeInv, Origins
<1>3. d \in AllDocuments
      BY <1>1, <1>2, SevenReads DEF AllDocuments
<1> DEFINE v == Append(view[c], d)
<1>4. view' = [view EXCEPT ![c] = v]
      BY DEF Read
<1> HIDE DEF d
<1>5. /\ v \in Seq(AllDocuments) /\ Len(v) = n /\ v[n] = d
      /\ \A i \in 1..Len(view[c]) : v[i] = view[c][i]
      BY <1>1, <1>3
<1> HIDE DEF v
<1>6. Origins'
  <2>1. \A e \in Intakes : Len(view'[e]) <= Len(Reads)
        BY <1>1, <1>4, <1>5, SevenReads DEF IntakeInv, Origins
  <2>2. ASSUME NEW e \in Intakes, NEW i \in 1..Len(view'[e])
        PROVE  \E s \in Releases : view'[e][i] = s[Reads[i]]
    <3>1. CASE e # c
          BY <1>4, <2>2, <3>1 DEF IntakeInv, Origins
    <3>2. CASE e = c
      <4>1. view'[e] = v
            BY <1>4, <3>2 DEF IntakeInv, Origins
      <4>2. i \in 1..Len(view[c]) \/ i = n
            BY <1>1, <1>5, <4>1, <2>2
      <4>. QED  BY <1>2, <1>5, <4>1, <4>2 DEF IntakeInv, Origins
    <3>. QED  BY <3>1, <3>2
  <2>3. view' \in [Intakes -> Seq(AllDocuments)]
        BY <1>4, <1>5 DEF IntakeInv, Origins
  <2>. QED  BY <2>1, <2>2, <2>3 DEF Read, IntakeInv, Origins
<1>7. \A e \in Intakes \ {c} : view'[e] = view[e]
      BY <1>4 DEF IntakeInv, Origins
<1>8. place[c] = "read" /\ UNCHANGED <<place, trusted, temporary, destination, renamed>>
      BY DEF Read
<1>9. ASSUME NEW e \in Intakes, Call(e) PROVE Call(e)'
  <2>1. CASE e = c
        BY <1>8, <1>9, <2>1 DEF Call, Passed, Public
  <2>2. CASE e # c
        BY <1>7, <1>8, <1>9, <2>2 DEF Call, Agreed, Full, Seen
  <2>. QED  BY <2>1, <2>2
<1>10. Published'
      BY <1>7, <1>8 DEF IntakeInv, Published, Public, Agreed, Full, Seen
<1>. QED  BY <1>6, <1>8, <1>9, <1>10 DEF IntakeInv

LEMMA FullFields ==
  ASSUME NEW c \in Intakes
  PROVE  /\ Full(c).archive = {Seen(c).portable}
         /\ Full(c).evidence = {Projection(Seen(c), trusted[c])}
         /\ Full(c).there = TRUE
BY DEF Full, Directory

\* A step of one call leaves the others as they are.
LEMMA OtherIntakes ==
  ASSUME NEW e \in Intakes, Call(e), place'[e] = place[e], temporary'[e] = temporary[e],
         view' = view, trusted'[e] = trusted[e], renamed \subseteq renamed'
  PROVE  Call(e)'
BY DEF Call, Agreed, Full, Seen

\* The steps between the reading and the return.
LEMMA IntakeCallStep ==
  ASSUME IntakeInv, NEW c \in Intakes,
         \/ Begin(c) \/ Check(c) \/ WriteArchive(c) \/ WriteEvidence(c) \/ Rename(c)
         \/ VerifyAgain(c) \/ Cleanup(c) \/ Fail(c) \/ KillIntake(c)
  PROVE  IntakeInv'
<1> USE DEF Goto
<1>0. /\ UNCHANGED <<source, policy, view>>
      /\ trusted' = trusted \/ trusted' = [trusted EXCEPT ![c] = policy]
      BY DEF Begin, Check, WriteArchive, WriteEvidence, Rename, VerifyAgain, Cleanup, Fail, KillIntake
<1>1. Origins' /\ view' = view
  <2>1. Origins
        BY DEF IntakeInv
  <2>2. trusted' \in [Intakes -> Approvals]
        BY <1>0, <2>1 DEF Origins
  <2>. QED  BY <1>0, <2>1, <2>2 DEF Origins
<1>2. place' \in [Intakes -> Places] /\ DOMAIN temporary' = Intakes
      BY DEF IntakeInv, Places, Passed, Public, Begin, Check, WriteArchive, WriteEvidence, Rename,
             VerifyAgain, Cleanup, Fail, KillIntake
<1>3. \A e \in Intakes \ {c} : /\ place'[e] = place[e] /\ temporary'[e] = temporary[e]
                             /\ trusted'[e] = trusted[e]
      BY DEF IntakeInv, Origins, Begin, Check, WriteArchive, WriteEvidence, Rename, VerifyAgain, Cleanup,
             Fail, KillIntake
<1>4. renamed \subseteq renamed'
      BY DEF Begin, Check, WriteArchive, WriteEvidence, Rename, VerifyAgain, Cleanup, Fail, KillIntake
<1>5. \A e \in Intakes \ {c} : Call(e)'
      BY <1>1, <1>3, <1>4, OtherIntakes DEF IntakeInv
<1>6. Call(c)' /\ Published'
  <2> USE DEF IntakeInv, Passed, Public
  <2>0. Call(c) /\ Published /\ DOMAIN temporary = Intakes /\ DOMAIN place = Intakes
        OBVIOUS
  <2>s. \A e \in Intakes : trusted'[e] = trusted[e] =>
          Seen(e)' = Seen(e) /\ Full(e)' = Full(e) /\ (Agreed(e)' <=> Agreed(e))
        BY <1>1 DEF Seen, Full, Agreed
  <2>1. CASE Begin(c)
    <3>1. Call(c)'
          BY <1>1, <2>0, <2>1 DEF Begin, Call
    <3>2. Published'
          BY <1>3, <2>0, <2>1, <2>s DEF Begin, Published
    <3>. QED  BY <3>1, <3>2
  <2>2. CASE Check(c)
    <3>1. Call(c)'
          BY <2>0, <2>2, <2>s DEF Check, Call, Agreed
    <3>2. Published'
          BY <1>3, <2>0, <2>2, <2>s DEF Check, Published
    <3>. QED  BY <3>1, <3>2
  <2>3. CASE WriteArchive(c)
    <3>1. temporary'[c] = Directory({Seen(c).portable}, {})
          BY <2>0, <2>3 DEF WriteArchive
    <3>2. Call(c)'
          BY <2>0, <2>3, <2>s, <3>1 DEF WriteArchive, Call
    <3>3. Published'
          BY <1>3, <2>0, <2>3, <2>s DEF WriteArchive, Published
    <3>. QED  BY <3>2, <3>3
  <2>4. CASE WriteEvidence(c)
    <3>1. temporary'[c] = Full(c)
      <4>1. temporary[c] = Directory({Seen(c).portable}, {})
            BY <2>0, <2>4 DEF WriteEvidence, Call
      <4>2. temporary'[c] = Directory(temporary[c].archive, {Projection(Seen(c), trusted[c])})
            BY <2>0, <2>4 DEF WriteEvidence
      <4>3. temporary[c].archive = {Seen(c).portable}
            BY <4>1 DEF Directory
      <4>. QED  BY <4>2, <4>3 DEF Full
    <3>2. Call(c)'
          BY <2>0, <2>4, <2>s, <3>1 DEF WriteEvidence, Call
    <3>3. Published'
          BY <1>3, <2>0, <2>4, <2>s DEF WriteEvidence, Published
    <3>. QED  BY <3>2, <3>3
  <2>5. CASE Rename(c)
    <3>1. CASE destination.there
          BY <1>3, <2>0, <2>5, <2>s, <3>1 DEF Rename, Call, Published
    <3>2. CASE ~destination.there
      <4>1. renamed = {}
        <5>1. \A e \in Intakes : Full(e).there = TRUE
              BY FullFields
        <5>. QED  BY <2>0, <3>2, <5>1 DEF Published
      <4>. QED  BY <2>0, <2>5, <2>s, <3>2, <4>1 DEF Rename, Call, Published
    <3>. QED  BY <3>1, <3>2
  <2>6. CASE VerifyAgain(c)
        BY <1>3, <2>0, <2>6, <2>s DEF VerifyAgain, Call, Published
  <2>7. CASE Cleanup(c)
        BY <1>3, <2>0, <2>7, <2>s DEF Cleanup, Call, Published
  <2>8. CASE Fail(c)
        BY <1>3, <2>0, <2>8, <2>s DEF Fail, Call, Published
  <2>9. CASE KillIntake(c)
        BY <1>3, <2>0, <2>9, <2>s DEF KillIntake, Call, Published
  <2>. QED  BY <2>1, <2>2, <2>3, <2>4, <2>5, <2>6, <2>7, <2>8, <2>9
<1>. QED  BY <1>1, <1>2, <1>5, <1>6 DEF IntakeInv

\* Every step keeps the invariant.
LEMMA IntakeKeeps == IntakeInv /\ [IntakeNext]_intakeVars => IntakeInv'
<1>1. ASSUME IntakeInv, IntakeNext PROVE IntakeInv'
      BY <1>1, OperatorStep, DocumentReadStep, IntakeCallStep DEF IntakeNext
<1>2. ASSUME IntakeInv, UNCHANGED intakeVars PROVE IntakeInv'
  <2>1. Origins'
        BY <1>2 DEF intakeVars, IntakeInv, Origins
  <2>3. Published'
        BY <1>2 DEF intakeVars, IntakeInv, Published, Agreed, Full, Seen
  <2>2. \A e \in Intakes : Call(e)'
        BY <1>2, OtherIntakes DEF intakeVars, IntakeInv
  <2>. QED  BY <1>2, <2>1, <2>2, <2>3 DEF intakeVars, IntakeInv
<1>. QED  BY <1>1, <1>2

\* Three approved documents and an archive that the manifest names are of one
\* release.
LEMMA OfOneRelease ==
  ASSUME IntakeInv, NEW c \in Intakes, Agreed(c)
  PROVE  \E r \in Releases : /\ Seen(c).portable = r.portable
                            /\ Projection(Seen(c), trusted[c]) = Projection(r, Approved(r))
<1>1. PICK r \in Releases : trusted[c] = Approved(r)
      BY DEF IntakeInv, Origins, Approvals
<1>2. Approved(Seen(c)) = Approved(r) /\ Seen(c).manifest = r.manifest
      BY <1>1 DEF Agreed, PolicyAgrees, Approved
<1>3. PICK s \in Releases : Seen(c).portable = s.portable
  <2>1. 4 \in 1..Len(view[c])
        BY SevenReads DEF Agreed
  <2>2. PICK s \in Releases : view[c][4] = s[Reads[4]]
        BY <2>1 DEF IntakeInv, Origins
  <2>. QED  BY <2>2, SevenReads DEF Seen
<1>4. s.portable.model = r.portable.model
      BY <1>2, <1>3, ReleasesLinked DEF Agreed, Linked
<1>5. Seen(c).portable = r.portable
      BY <1>3, <1>4, ArchiveBound
<1>. QED  BY <1>1, <1>2, <1>5 DEF Projection

(* The invariant holds in every reachable state, for any number of calls,    *)
(* releases, replacements and faults.                                        *)
THEOREM IntakeInductive == IntakeSpec => []IntakeInv
<1>1. IntakeInit => IntakeInv
      BY IntakeInitial
<1>. QED  BY <1>1, IntakeKeeps, PTL DEF IntakeSpec

(* What intake_public_s1_finetune_release publishes is one approved release, *)
(* published once by the call that returns it, whatever the operator         *)
(* replaces while it is read.                                                *)
THEOREM IntakeWholeHolds == IntakeSpec => []IntakeWhole
<1>1. IntakeInv => IntakeWhole
  <2> SUFFICES ASSUME IntakeInv PROVE IntakeWhole
      OBVIOUS
  <2>1. OneRelease
    <3> SUFFICES ASSUME destination.there PROVE OneRelease
        BY DEF OneRelease
    <3>1. PICK c \in Intakes : destination = Full(c) /\ Agreed(c)
          BY DEF IntakeInv, Published, Absent
    <3>2. destination.archive = {Seen(c).portable}
          BY <3>1, FullFields
    <3>3. destination.evidence = {Projection(Seen(c), trusted[c])}
          BY <3>1, FullFields
    <3>. QED  BY <3>1, <3>2, <3>3, OfOneRelease DEF OneRelease
  <2>2. Cardinality(renamed) <= 1 /\ (destination.there <=> renamed # {})
    <3>1. CASE renamed = {} /\ destination = Absent
          BY <3>1, FS_EmptySet DEF Absent
    <3>2. ASSUME NEW c \in Intakes, renamed = {c}, destination = Full(c)
          PROVE  Cardinality(renamed) <= 1 /\ (destination.there <=> renamed # {})
      <4>1. Cardinality(renamed) = 1
            BY <3>2, FS_Singleton
      <4>2. destination.there /\ renamed # {}
            BY <3>2, FullFields
      <4>. QED  BY <4>1, <4>2
    <3>. QED  BY <3>1, <3>2 DEF IntakeInv, Published
  <2>3. ASSUME NEW c \in Intakes
        PROVE  /\ place[c] = "returned" =>
                    renamed = {c} /\ destination.evidence = {Projection(Seen(c), trusted[c])}
               /\ place[c] = "refused" => ~temporary[c].there
    <3>1. place[c] = "returned" => renamed = {c} /\ destination = Full(c)
          BY DEF IntakeInv, Call, Published, Public
    <3>2. place[c] = "refused" => temporary[c] = Absent
          BY DEF IntakeInv, Call
    <3>3. Full(c).evidence = {Projection(Seen(c), trusted[c])} /\ ~Absent.there
          BY FullFields DEF Absent
    <3>. QED  BY <3>1, <3>2, <3>3
  <2>. QED  BY <2>1, <2>2, <2>3 DEF IntakeWhole, PublishedOnce
<1>. QED  BY <1>1, IntakeInductive, PTL

-----------------------------------------------------------------------------
(* The sample: what the video's inodes hold, what the sample's name may      *)
(* show, where a call's container and mount are when the call stands at a    *)
(* place, what a worker has read and written by then, and what a publisher   *)
(* may rely on.                                                              *)

\* The path always names the newest version of the video.
InputKeeps ==
  /\ \A i \in Inodes : content[i] <= content[path]
  /\ path <= content[path]

\* The name shows whole samples that were decoded from what they say.
SampleKeeps ==
  \A s \in {sample, dsample} \ {None} :
    s.frames = s.video /\ s.raw = "synced" /\ s.receipt = "synced"

\* Host places before and after a container; worker places after the first
\* and after the second reading of the video.
Before == {"idle", "pinned", "ready", "verify"}
After == {"ended", "checked", "valid", "moved", "synced"}
Looked == {"opened", "decoded", "verified", "raw", "receipt", "final", "exited"}
Checked == Looked \ {"opened", "decoded"}

\* Where the container and the mount of a call are.
CallKeeps ==
  \A c \in Calls :
    /\ pc[c] \in Host \ {"idle"} => pin[c] \in Inodes
    /\ pc[c] \in Before => work[c] = "none"
    /\ pc[c] \in After => work[c] = "exited"
    /\ pc[c] \in {"idle", "pinned", "verify"} => mount[c] = "none"
    /\ pc[c] \in {"ready", "running", "broken", "cleanup"} \cup After => mount[c] = "open"
    /\ pc[c] = "cleanup" /\ cuts = 0 => ~Alive(c)

\* What a worker has seen: versions only grow, so equal digests before and
\* after the decoding mean that nothing changed in between.
WorkerFacts(c) ==
    /\ work[c] \in Working \cup {"exited"} => pin[c] \in Inodes /\ bound[c] \in Inodes
    /\ work[c] \in Looked => seen[c] = pin[c] /\ seen[c] <= content[bound[c]]
    /\ work[c] = "decoded" => /\ took[c] \in Inodes
                              /\ seen[c] <= took[c] /\ took[c] <= content[bound[c]]
    /\ work[c] \in Checked => took[c] = seen[c]
    /\ work[c] \in {"raw", "receipt", "final", "exited"} => out[c].raw = "synced"
    /\ work[c] \in {"receipt", "final", "exited"} => out[c].receipt = "synced"
WorkerKeeps == \A c \in Calls : WorkerFacts(c)

\* Between its rename and its return a publisher finds its own sample.
PublisherKeeps ==
  \A c \in Calls :
    /\ pc[c] = "verify" => sample # None
    /\ pc[c] \in {"moved", "synced"} => sample = Artifact(c)
    /\ pc[c] = "synced" => dsample = sample
    /\ pc[c] = "returned" /\ mount[c] = "removed" =>
         sample # None /\ dsample = sample /\ res[c] = sample
    /\ pc[c] # "returned" => res[c] = None
    /\ pc[c] = "returned" => res[c] # None

\* Every answer is whole and of the bytes and the clip that were asked for.
ResultKeeps ==
  \A c \in Calls : res[c] # None =>
    /\ res[c].raw = "synced" /\ res[c].receipt = "synced"
    /\ res[c].frames = pin[c] /\ res[c].clip = asked[c].clip

Counted == kills \in Nat /\ cuts \in Nat /\ boots \in Nat

ExtractionInv == /\ ExtractionTypeOK /\ Counted /\ InputKeeps /\ SampleKeeps
        /\ CallKeeps /\ WorkerKeeps /\ PublisherKeeps /\ ResultKeeps /\ MountFate

USE NoneIsNoValue, MaxChangeIsNatural, RequestsAreRequests

\* The initial states
LEMMA ExtractionInitial == Init => ExtractionInv
BY DEF Init, ExtractionInv, ExtractionTypeOK, Counted, InputKeeps, SampleKeeps, CallKeeps,
   WorkerKeeps, WorkerFacts, PublisherKeeps, ResultKeeps, MountFate, Host, Ended,
   Working, Before, After, Looked, Checked, Inodes, Empty, Alive

\* Order on the versions of the video
LEMMA LeqTransitive ==
  ASSUME NEW a \in Inodes, NEW b \in Inodes, NEW e \in Inodes, a <= b, b <= e
  PROVE  a <= e
BY DEF Inodes

\* The CHOOSE of Newest has a witness.
LEMMA NewestIsShown ==
  ASSUME ExtractionTypeOK, InputKeeps
  PROVE  Newest = content[path]
<1>1. path \in Inodes
      BY DEF ExtractionTypeOK
<1>2. \A v \in {content[i] : i \in Inodes} :
        (\A i \in Inodes : content[i] <= v) => v = content[path]
      BY <1>1 DEF ExtractionTypeOK, InputKeeps, Inodes
<1>3. \E v \in {content[i] : i \in Inodes} : \A i \in Inodes : content[i] <= v
      BY <1>1 DEF InputKeeps
<1>. QED  BY <1>2, <1>3 DEF Newest

\* A change writes a newer version than any before.
LEMMA ChangeIsNewer ==
  ASSUME ExtractionTypeOK, InputKeeps, Change
  PROVE  /\ content' \in [Inodes -> Inodes] /\ path' \in Inodes
         /\ \A i \in Inodes : content[i] <= content'[i] /\ content'[i] <= content'[path']
         /\ path' <= content'[path']
<1>1. Newest = content[path]
      BY NewestIsShown
<1>2. Newest < MaxChange
      BY DEF Change
<1>3. path \in Inodes /\ content \in [Inodes -> Inodes] /\ content[path] \in Inodes
      BY DEF ExtractionTypeOK
<1>4. /\ path <= content[path]
      /\ \A i \in Inodes : content[i] <= content[path] /\ content[i] \in Inodes
      BY <1>3 DEF InputKeeps
<1>5. Newest \in Inodes /\ path \in Inodes /\ path <= Newest /\ Newest < MaxChange
      BY <1>1, <1>2, <1>3, <1>4
<1>6. /\ Newest + 1 \in Inodes /\ path + 1 \in Inodes
      /\ Newest < Newest + 1 /\ path + 1 <= Newest + 1 /\ path <= Newest + 1
      BY <1>5 DEF Inodes
<1>7. ASSUME NEW p \in Inodes, path' = p, p <= Newest + 1,
             content' = [content EXCEPT ![p] = Newest + 1]
      PROVE  /\ content' \in [Inodes -> Inodes] /\ path' \in Inodes
             /\ \A i \in Inodes : content[i] <= content'[i] /\ content'[i] <= content'[path']
             /\ path' <= content'[path']
  <2>1. content' \in [Inodes -> Inodes] /\ content'[p] = Newest + 1
        BY <1>3, <1>6, <1>7
  <2>2. ASSUME NEW i \in Inodes
      PROVE content[i] <= content'[i] /\ content'[i] <= Newest + 1
    <3>1. content'[i] = IF i = p THEN Newest + 1 ELSE content[i]
          BY <1>3, <1>7
    <3>2. content[i] \in Inodes /\ content[i] <= content[path]
          BY <1>4
    <3>. QED  BY <1>1, <1>5, <1>6, <3>1, <3>2 DEF Inodes
  <2>. QED  BY <1>6, <1>7, <2>1, <2>2
<1>. QED  BY <1>5, <1>6, <1>7 DEF Change

\* The counters of the faults are numbers.
LEMMA CountedStep ==
  ASSUME Counted, [Next]_vars
  PROVE  Counted'
<1>1. ASSUME NEW c \in Calls, CommandCut(c) PROVE Counted'
      BY <1>1 DEF CommandCut, Counted, faults
<1>2. ASSUME NEW c \in Calls, Interrupt(c) PROVE Counted'
      BY <1>2 DEF Interrupt, Counted, faults
<1>3. ASSUME NEW c \in Calls, Kill(c) PROVE Counted'
      BY <1>3 DEF Kill, Counted, faults
<1>4. CASE PowerLoss
      BY <1>4 DEF PowerLoss, Counted, faults
<1>5. ASSUME \A c \in Calls : ~CommandCut(c) /\ ~Interrupt(c) /\ ~Kill(c),
             ~PowerLoss
      PROVE  UNCHANGED faults
      BY <1>5 DEF Next, HostStep, WorkerStep, vars, call, worker, input, disk,
         faults,
         Validate, Prepare, Refuse, Launch, LaunchFails, CommandExits,
         CommandBreaks, RemoveContainer, RemoveMount, Rehash,
         ValidateOutput, Publish, SyncRoot, SyncFails, Finish, Verify,
         Open, Decode, VerifyInput, WriteRaw, WriteReceipt, MoveStage,
         Complete, WorkerFails, Change, WriteBack
<1>6. ASSUME UNCHANGED faults PROVE Counted'
      BY <1>6 DEF Counted, faults
<1>. QED  BY <1>1, <1>2, <1>3, <1>4, <1>5, <1>6

\* Only a change touches the video.
LEMMA InputStep ==
  ASSUME ExtractionTypeOK, InputKeeps,
         [Next]_vars
  PROVE  InputKeeps'
<1>1. CASE Change
      BY <1>1, ChangeIsNewer DEF InputKeeps
<1>2. ASSUME ~Change
      PROVE  UNCHANGED input
      BY <1>2 DEF Next, HostStep, WorkerStep, vars, call, worker, input, disk,
         faults,
         Validate, Prepare, Refuse, Launch, LaunchFails, CommandExits,
         CommandCut, CommandBreaks, RemoveContainer, RemoveMount, Rehash,
         ValidateOutput, Publish, SyncRoot, SyncFails, Finish, Verify,
         Interrupt, Kill, Open, Decode, VerifyInput, WriteRaw,
         WriteReceipt, MoveStage, Complete, WorkerFails, WriteBack,
         PowerLoss
<1>3. ASSUME UNCHANGED input PROVE InputKeeps'
      BY <1>3 DEF InputKeeps, input
<1>. QED  BY <1>1, <1>2, <1>3

\* One step for each action: the container and the mount of a call
LEMMA PlacesStep ==
  ASSUME ExtractionTypeOK, Counted, CallKeeps,
         [Next]_vars
  PROVE  CallKeeps'
<1>0. /\ pc \in [Calls -> Host \cup Ended] /\ work \in [Calls -> Working \cup {"none", "exited", "failed", "gone"}]
      /\ mount \in [Calls -> {"none", "open", "removed"}] /\ pin \in [Calls -> Inodes \cup {None}]
      /\ content[path] \in Inodes /\ cuts \in Nat
      BY DEF ExtractionTypeOK, Counted
<1> USE <1>0 DEF CallKeeps, Goes, Steps, Alive, Inodes,
     Host, Ended, Working, Before, After, call, worker, input, disk, faults
<1>1. ASSUME NEW c \in Calls, Validate(c) PROVE CallKeeps'
      BY <1>1 DEF Validate
<1>2. ASSUME NEW c \in Calls, Prepare(c) PROVE CallKeeps'
      BY <1>2 DEF Prepare
<1>3. ASSUME NEW c \in Calls, Refuse(c) PROVE CallKeeps'
      BY <1>3 DEF Refuse
<1>4. ASSUME NEW c \in Calls, Launch(c) PROVE CallKeeps'
      BY <1>4 DEF Launch
<1>5. ASSUME NEW c \in Calls, LaunchFails(c) PROVE CallKeeps'
      BY <1>5 DEF LaunchFails
<1>6. ASSUME NEW c \in Calls, CommandExits(c) PROVE CallKeeps'
      BY <1>6 DEF CommandExits
<1>7. ASSUME NEW c \in Calls, CommandCut(c) PROVE CallKeeps'
      BY <1>7 DEF CommandCut
<1>8. ASSUME NEW c \in Calls, CommandBreaks(c) PROVE CallKeeps'
      BY <1>8 DEF CommandBreaks
<1>9. ASSUME NEW c \in Calls, RemoveContainer(c) PROVE CallKeeps'
      BY <1>9 DEF RemoveContainer
<1>10. ASSUME NEW c \in Calls, RemoveMount(c) PROVE CallKeeps'
      BY <1>10 DEF RemoveMount
<1>11. ASSUME NEW c \in Calls, Rehash(c) PROVE CallKeeps'
      BY <1>11, SMTT(60) DEF Rehash
<1>12. ASSUME NEW c \in Calls, ValidateOutput(c) PROVE CallKeeps'
      BY <1>12 DEF ValidateOutput
<1>13. ASSUME NEW c \in Calls, Publish(c) PROVE CallKeeps'
      BY <1>13 DEF Publish
<1>14. ASSUME NEW c \in Calls, SyncRoot(c) PROVE CallKeeps'
      BY <1>14 DEF SyncRoot
<1>15. ASSUME NEW c \in Calls, SyncFails(c) PROVE CallKeeps'
      BY <1>15 DEF SyncFails
<1>16. ASSUME NEW c \in Calls, Finish(c) PROVE CallKeeps'
      BY <1>16, SMTT(60) DEF Finish
<1>17. ASSUME NEW c \in Calls, Verify(c) PROVE CallKeeps'
      BY <1>17 DEF Verify
<1>18. ASSUME NEW c \in Calls, Interrupt(c) PROVE CallKeeps'
      BY <1>18, SMTT(60) DEF Interrupt
<1>19. ASSUME NEW c \in Calls, Kill(c) PROVE CallKeeps'
      BY <1>19 DEF Kill
<1>20. ASSUME NEW c \in Calls, Open(c) PROVE CallKeeps'
      BY <1>20 DEF Open
<1>21. ASSUME NEW c \in Calls, Decode(c) PROVE CallKeeps'
      BY <1>21 DEF Decode
<1>22. ASSUME NEW c \in Calls, VerifyInput(c) PROVE CallKeeps'
      BY <1>22 DEF VerifyInput
<1>23. ASSUME NEW c \in Calls, WriteRaw(c) PROVE CallKeeps'
      BY <1>23 DEF WriteRaw
<1>24. ASSUME NEW c \in Calls, WriteReceipt(c) PROVE CallKeeps'
      BY <1>24 DEF WriteReceipt
<1>25. ASSUME NEW c \in Calls, MoveStage(c) PROVE CallKeeps'
      BY <1>25 DEF MoveStage
<1>26. ASSUME NEW c \in Calls, Complete(c) PROVE CallKeeps'
      BY <1>26 DEF Complete
<1>27. ASSUME NEW c \in Calls, WorkerFails(c) PROVE CallKeeps'
      BY <1>27 DEF WorkerFails
<1>28. CASE Change
      BY <1>28 DEF Change
<1>29. CASE WriteBack
      BY <1>29 DEF WriteBack
<1>30. CASE PowerLoss
      BY <1>30 DEF PowerLoss
<1>31. CASE UNCHANGED vars
      BY <1>31 DEF vars
<1>. QED  BY <1>1, <1>2, <1>3, <1>4, <1>5, <1>6, <1>7, <1>8, <1>9, <1>10,
         <1>11, <1>12, <1>13, <1>14, <1>15, <1>16, <1>17, <1>18, <1>19, <1>20,
         <1>21, <1>22, <1>23, <1>24, <1>25, <1>26, <1>27, <1>28, <1>29, <1>30,
         <1>31
           DEF Next, HostStep, WorkerStep

\* What the workers know, by the actions that write to it
LEMMA WorkerStepKeeps ==
  ASSUME ExtractionTypeOK, InputKeeps, CallKeeps, WorkerKeeps,
         [Next]_vars
  PROVE  WorkerKeeps'
<1> USE DEF ExtractionTypeOK, InputKeeps, CallKeeps, WorkerKeeps, WorkerFacts,
     Goes, Steps, Alive, Inodes, Looked, Checked, Host, Ended, Working,
     Before, After, call, worker, input, disk, faults
<1>1. ASSUME NEW c \in Calls, Validate(c) PROVE WorkerKeeps'
      BY <1>1 DEF Validate
<1>2. ASSUME NEW c \in Calls, Launch(c) PROVE WorkerKeeps'
      BY <1>2 DEF Launch
<1>3. ASSUME NEW c \in Calls, RemoveContainer(c) PROVE WorkerKeeps'
  <2>1. PICK w \in {work[c], "gone"} : work' = [work EXCEPT ![c] = w]
        BY <1>3 DEF RemoveContainer
  <2>2. CASE w = "gone"
        BY <1>3, <2>1, <2>2 DEF RemoveContainer
  <2>3. CASE w = work[c]
    <3>1. work' = work
          BY <2>1, <2>3
    <3>. QED  BY <1>3, <3>1 DEF RemoveContainer
  <2>. QED  BY <2>2, <2>3
<1>4. ASSUME NEW c \in Calls, Open(c) PROVE WorkerKeeps'
      BY <1>4, SMTT(60) DEF Open
<1>5. ASSUME NEW c \in Calls, Decode(c) PROVE WorkerKeeps'
      BY <1>5 DEF Decode
<1>6. ASSUME NEW c \in Calls, VerifyInput(c) PROVE WorkerKeeps'
  <2>1. content[bound[c]] = seen[c] => took[c] = seen[c]
        BY <1>6 DEF VerifyInput
  <2>2. content[bound[c]] = seen[c] => work' = [work EXCEPT ![c] = "verified"]
        BY <1>6 DEF VerifyInput
  <2>3. content[bound[c]] # seen[c] => work' = [work EXCEPT ![c] = "failed"]
        BY <1>6 DEF VerifyInput
  <2>4. UNCHANGED <<call, out, bound, seen, took, input>> /\ work[c] = "decoded"
        BY <1>6 DEF VerifyInput
  <2>5. /\ \A d \in Calls : d # c => work'[d] = work[d]
        /\ (work'[c] = "verified" /\ took[c] = seen[c]) \/ work'[c] = "failed"
    <3>1. DOMAIN work = Calls
          BY DEF ExtractionTypeOK
    <3>. HIDE DEF ExtractionTypeOK, InputKeeps, CallKeeps, WorkerKeeps, Inodes
    <3>. QED  BY <2>1, <2>2, <2>3, <3>1
  <2>6. seen[c] = pin[c] /\ pin[c] \in Inodes /\ bound[c] \in Inodes /\ seen[c] <= content[bound[c]]
        BY <2>4
  <2>7. ASSUME NEW d \in Calls, d # c PROVE WorkerFacts(d)'
        BY <2>4, <2>5, <2>7
  <2>8. WorkerFacts(c)'
        BY <2>4, <2>5, <2>6
  <2>. QED  BY <2>7, <2>8
<1>7. ASSUME NEW c \in Calls, WriteRaw(c) PROVE WorkerKeeps'
      BY <1>7 DEF WriteRaw
<1>8. ASSUME NEW c \in Calls, WriteReceipt(c) PROVE WorkerKeeps'
      BY <1>8 DEF WriteReceipt
<1>9. ASSUME NEW c \in Calls, MoveStage(c) PROVE WorkerKeeps'
      BY <1>9 DEF MoveStage
<1>10. ASSUME NEW c \in Calls, Complete(c) PROVE WorkerKeeps'
      BY <1>10, SMTT(60) DEF Complete
<1>11. ASSUME NEW c \in Calls, WorkerFails(c) PROVE WorkerKeeps'
      BY <1>11 DEF WorkerFails
<1>12. CASE Change
  <2>1. \A c \in Calls : work[c] \in Working \cup {"exited"} =>
     content[bound[c]] <= content'[bound[c]]
        BY <1>12, ChangeIsNewer
  <2>2. UNCHANGED <<call, worker>>
        BY <1>12 DEF Change
  <2>3. ASSUME NEW d \in Calls, work[d] \in Looked
      PROVE seen[d] <= content'[bound[d]]
    <3>1. seen[d] \in Inodes /\ bound[d] \in Inodes /\ seen[d] <= content[bound[d]]
          BY <2>3
    <3>2. content[bound[d]] \in Inodes /\ content'[bound[d]] \in Inodes
          BY <1>12, <3>1, ChangeIsNewer
    <3>3. content[bound[d]] <= content'[bound[d]]
          BY <1>12, <3>1, ChangeIsNewer
    <3>. HIDE DEF Inodes
    <3>. QED  BY <3>1, <3>2, <3>3, LeqTransitive
  <2>4. ASSUME NEW d \in Calls, work[d] = "decoded"
      PROVE took[d] <= content'[bound[d]]
    <3>1. took[d] \in Inodes /\ bound[d] \in Inodes /\ took[d] <= content[bound[d]]
          BY <2>4
    <3>2. content[bound[d]] \in Inodes /\ content'[bound[d]] \in Inodes
          BY <1>12, <3>1, ChangeIsNewer
    <3>3. content[bound[d]] <= content'[bound[d]]
          BY <1>12, <3>1, ChangeIsNewer
    <3>. HIDE DEF Inodes
    <3>. QED  BY <3>1, <3>2, <3>3, LeqTransitive
  <2>. QED  BY <2>2, <2>3, <2>4
<1>13. CASE PowerLoss
      BY <1>13 DEF PowerLoss
<1>14. ASSUME \A c \in Calls : ~Validate(c) /\ ~Launch(c) /\ ~RemoveContainer(c) /\
               ~Open(c) /\ ~Decode(c) /\ ~VerifyInput(c) /\
               ~WriteRaw(c) /\ ~WriteReceipt(c) /\ ~MoveStage(c) /\
               ~Complete(c) /\ ~WorkerFails(c),
             ~Change,
             ~PowerLoss
      PROVE  UNCHANGED <<pin, out, work, bound, seen, took, content>>
      BY <1>14 DEF Next, HostStep, WorkerStep, vars, call, worker, input,
         disk, faults,
         Prepare, Refuse, LaunchFails, CommandExits, CommandCut,
         CommandBreaks, RemoveMount, Rehash, ValidateOutput, Publish,
         SyncRoot, SyncFails, Finish, Verify, Interrupt, Kill, WriteBack
<1>15. ASSUME UNCHANGED <<pin, out, work, bound, seen, took, content>>
      PROVE WorkerKeeps'
      BY <1>15 DEF WorkerKeeps
<1>. QED  BY <1>1, <1>2, <1>3, <1>4, <1>5, <1>6, <1>7, <1>8, <1>9, <1>10,
         <1>11, <1>12, <1>13, <1>14, <1>15


\* What a call finds in its mount once its container has ended well
LEMMA ArtifactIsFaithful ==
  ASSUME ExtractionTypeOK, CallKeeps, WorkerKeeps, NEW c \in Calls, pc[c] \in After
  PROVE  /\ Artifact(c) \in Artifacts /\ pin[c] \in Inodes
         /\ Artifact(c).video = pin[c] /\ Artifact(c).frames = pin[c]
         /\ Artifact(c).clip = asked[c].clip
         /\ Artifact(c).raw = "synced" /\ Artifact(c).receipt = "synced"
<1>1. work[c] = "exited" /\ pin[c] \in Inodes
      BY DEF CallKeeps, After, Host
<1>2. seen[c] = pin[c] /\ took[c] = pin[c] /\ out[c].raw = "synced" /\ out[c].receipt = "synced"
      BY <1>1 DEF WorkerKeeps, WorkerFacts, Looked, Checked
<1>3. asked[c] \in Requests
      BY DEF ExtractionTypeOK
<1>. QED  BY <1>1, <1>2, <1>3 DEF Artifact, Artifacts

\* A power loss takes nothing of a synced sample.
LEMMA SettledStays ==
  ASSUME NEW a \in Artifacts, a.raw = "synced", a.receipt = "synced"
  PROVE  Settled(a) = a
BY DEF Settled, Artifacts

\* Nobody writes into the mount of a worker that has exited.
LEMMA ExitedStays ==
  ASSUME ExtractionTypeOK, Counted,
         [Next]_vars
 
      PROVE  \A d \in Calls : asked'[d] = asked[d] /\ (work[d] = "exited" => Artifact(d)' = Artifact(d))
<1> USE DEF Artifact, ExtractionTypeOK, Counted, Goes, Steps, Alive, Host,
     Ended, Working, Before, After, call, worker, input, disk, faults
<1>1. ASSUME NEW c \in Calls, Open(c)
      PROVE \A d \in Calls : asked'[d] = asked[d] /\ (work[d] = "exited" => Artifact(d)' = Artifact(d))
      BY <1>1 DEF Open
<1>2. ASSUME NEW c \in Calls, Decode(c)
      PROVE \A d \in Calls : asked'[d] = asked[d] /\ (work[d] = "exited" => Artifact(d)' = Artifact(d))
      BY <1>2 DEF Decode
<1>3. ASSUME NEW c \in Calls, WriteRaw(c)
      PROVE \A d \in Calls : asked'[d] = asked[d] /\ (work[d] = "exited" => Artifact(d)' = Artifact(d))
      BY <1>3 DEF WriteRaw
<1>4. ASSUME NEW c \in Calls, WriteReceipt(c)
      PROVE \A d \in Calls : asked'[d] = asked[d] /\ (work[d] = "exited" => Artifact(d)' = Artifact(d))
      BY <1>4 DEF WriteReceipt
<1>5. ASSUME NEW c \in Calls, MoveStage(c)
      PROVE \A d \in Calls : asked'[d] = asked[d] /\ (work[d] = "exited" => Artifact(d)' = Artifact(d))
      BY <1>5 DEF MoveStage
<1>6. ASSUME \A c \in Calls : ~Open(c) /\ ~Decode(c) /\ ~WriteRaw(c) /\
               ~WriteReceipt(c) /\ ~MoveStage(c)
      PROVE  UNCHANGED <<asked, out, seen, took>>
      BY <1>6 DEF Next, HostStep, WorkerStep, vars, call, worker, input, disk,
         faults,
         Validate, Prepare, Refuse, Launch, LaunchFails, CommandExits,
         CommandCut, CommandBreaks, RemoveContainer, RemoveMount, Rehash,
         ValidateOutput, Publish, SyncRoot, SyncFails, Finish, Verify,
         Interrupt, Kill, VerifyInput, Complete, WorkerFails, Change,
         WriteBack, PowerLoss
<1>7. ASSUME UNCHANGED <<asked, out, seen, took>> PROVE 
        \A d \in Calls : asked'[d] = asked[d] /\ (work[d] = "exited" => Artifact(d)' = Artifact(d))
      BY <1>7 DEF Artifact
<1>. QED  BY <1>1, <1>2, <1>3, <1>4, <1>5, <1>6, <1>7

\* Shape of the output record
Output == [raw : {"absent", "dirty", "synced"},
           receipt : {"absent", "dirty", "synced"}, final : BOOLEAN]
LEMMA OutputKeepsType ==
  ASSUME NEW r \in Output
  PROVE  /\ [r EXCEPT !.raw = "synced"] \in Output
         /\ [r EXCEPT !.receipt = "synced"] \in Output
         /\ [r EXCEPT !.final = TRUE] \in Output
BY DEF Output

\* Type correctness, one step for each action
LEMMA TypeStep ==
  ASSUME ExtractionTypeOK, Counted, InputKeeps, CallKeeps, WorkerKeeps, SampleKeeps, PublisherKeeps,
         [Next]_vars
  PROVE  ExtractionTypeOK'
<1> USE DEF ExtractionTypeOK, Goes, Steps, Returns, Host, Ended, Working,
     Alive, call, worker, input, disk, faults
<1>1. ASSUME NEW c \in Calls, Validate(c) PROVE ExtractionTypeOK'
      BY <1>1 DEF Validate
<1>2. ASSUME NEW c \in Calls, Prepare(c) PROVE ExtractionTypeOK'
      BY <1>2 DEF Prepare
<1>3. ASSUME NEW c \in Calls, Refuse(c) PROVE ExtractionTypeOK'
      BY <1>3 DEF Refuse
<1>4. ASSUME NEW c \in Calls, Launch(c) PROVE ExtractionTypeOK'
      BY <1>4 DEF Launch
<1>5. ASSUME NEW c \in Calls, LaunchFails(c) PROVE ExtractionTypeOK'
      BY <1>5 DEF LaunchFails
<1>6. ASSUME NEW c \in Calls, CommandExits(c) PROVE ExtractionTypeOK'
      BY <1>6 DEF CommandExits
<1>7. ASSUME NEW c \in Calls, CommandCut(c) PROVE ExtractionTypeOK'
      BY <1>7 DEF CommandCut
<1>8. ASSUME NEW c \in Calls, CommandBreaks(c) PROVE ExtractionTypeOK'
      BY <1>8 DEF CommandBreaks
<1>9. ASSUME NEW c \in Calls, RemoveContainer(c) PROVE ExtractionTypeOK'
  <2>1. work' \in [Calls -> Working \cup {"none", "exited", "failed", "gone"}]
        BY <1>9 DEF RemoveContainer
  <2>2. pc' \in [Calls -> Host \cup Ended]
        BY <1>9 DEF RemoveContainer
  <2>. QED  BY <1>9, <2>1, <2>2 DEF RemoveContainer
<1>10. ASSUME NEW c \in Calls, RemoveMount(c) PROVE ExtractionTypeOK'
      BY <1>10 DEF RemoveMount
<1>11. ASSUME NEW c \in Calls, Rehash(c) PROVE ExtractionTypeOK'
      BY <1>11 DEF Rehash
<1>12. ASSUME NEW c \in Calls, ValidateOutput(c) PROVE ExtractionTypeOK'
      BY <1>12 DEF ValidateOutput
<1>13. ASSUME NEW c \in Calls, Publish(c) PROVE ExtractionTypeOK'
  <2>1. Artifact(c) \in Artifacts
        BY <1>13, ArtifactIsFaithful DEF Publish, Goes, After
  <2>. QED  BY <1>13, <2>1 DEF Publish
<1>14. ASSUME NEW c \in Calls, SyncRoot(c) PROVE ExtractionTypeOK'
      BY <1>14 DEF SyncRoot
<1>15. ASSUME NEW c \in Calls, SyncFails(c) PROVE ExtractionTypeOK'
      BY <1>15 DEF SyncFails
<1>16. ASSUME NEW c \in Calls, Finish(c) PROVE ExtractionTypeOK'
  <2>2. CASE sample = Artifact(c)
    <3>1. /\ pc' = [pc EXCEPT ![c] = "returned"] /\ res' = [res EXCEPT ![c] = sample]
          /\ mount' \in {mount, [mount EXCEPT ![c] = "removed"]}
          /\ UNCHANGED <<asked, pin, worker, input, disk>>
          BY <1>16, <2>2 DEF Finish
    <3>2. res' \in [Calls -> Artifacts \cup {None}]
          BY <3>1
    <3>. QED  BY <3>1, <3>2
  <2>3. CASE sample # Artifact(c)
        BY <1>16, <2>3 DEF Finish
  <2>. QED  BY <2>2, <2>3
<1>17. ASSUME NEW c \in Calls, Verify(c) PROVE ExtractionTypeOK'
  <2>1. sample # None
        BY <1>17 DEF Verify, PublisherKeeps
  <2>2. CASE Accepts(c, sample)
    <3>1. /\ pc' = [pc EXCEPT ![c] = "returned"] /\ res' = [res EXCEPT ![c] = sample]
          /\ mount' \in {mount, [mount EXCEPT ![c] = "removed"]}
          /\ UNCHANGED <<asked, pin, worker, input, disk>>
          BY <1>17, <2>2 DEF Verify
    <3>2. res' \in [Calls -> Artifacts \cup {None}]
          BY <3>1
    <3>. QED  BY <3>1, <3>2
  <2>3. CASE ~Accepts(c, sample)
        BY <1>17, <2>3 DEF Verify
  <2>. QED  BY <2>2, <2>3
<1>18. ASSUME NEW c \in Calls, Interrupt(c) PROVE ExtractionTypeOK'
      BY <1>18 DEF Interrupt
<1>19. ASSUME NEW c \in Calls, Kill(c) PROVE ExtractionTypeOK'
      BY <1>19 DEF Kill
<1>20. ASSUME NEW c \in Calls, Open(c) PROVE ExtractionTypeOK'
  <2>1. content[bound[c]] \in Inodes
        BY <1>20 DEF Open, WorkerKeeps, WorkerFacts
  <2>. QED  BY <1>20, <2>1 DEF Open
<1>21. ASSUME NEW c \in Calls, Decode(c) PROVE ExtractionTypeOK'
  <2>1. content[bound[c]] \in Inodes
        BY <1>21 DEF Decode, WorkerKeeps, WorkerFacts
  <2>. QED  BY <1>21, <2>1 DEF Decode
<1>22. ASSUME NEW c \in Calls, VerifyInput(c) PROVE ExtractionTypeOK'
      BY <1>22 DEF VerifyInput
<1>23. ASSUME NEW c \in Calls, WriteRaw(c) PROVE ExtractionTypeOK'
  <2>1. out' = [out EXCEPT ![c] = [out[c] EXCEPT !.raw = "synced"]]
        BY <1>23 DEF WriteRaw
  <2>2. out \in [Calls -> Output]
        BY DEF Output
  <2>3. [out[c] EXCEPT !.raw = "synced"] \in Output
        BY <2>2, OutputKeepsType
  <2>4. out' \in [Calls -> Output]
        BY <2>1, <2>2, <2>3
  <2>. QED  BY <1>23, <2>4 DEF WriteRaw, Output
<1>24. ASSUME NEW c \in Calls, WriteReceipt(c) PROVE ExtractionTypeOK'
  <2>1. out' = [out EXCEPT ![c] = [out[c] EXCEPT !.receipt = "synced"]]
        BY <1>24 DEF WriteReceipt
  <2>2. out \in [Calls -> Output]
        BY DEF Output
  <2>3. [out[c] EXCEPT !.receipt = "synced"] \in Output
        BY <2>2, OutputKeepsType
  <2>4. out' \in [Calls -> Output]
        BY <2>1, <2>2, <2>3
  <2>. QED  BY <1>24, <2>4 DEF WriteReceipt, Output
<1>25. ASSUME NEW c \in Calls, MoveStage(c) PROVE ExtractionTypeOK'
  <2>1. out' = [out EXCEPT ![c] = [out[c] EXCEPT !.final = TRUE]]
        BY <1>25 DEF MoveStage
  <2>2. out \in [Calls -> Output]
        BY DEF Output
  <2>3. [out[c] EXCEPT !.final = TRUE] \in Output
        BY <2>2, OutputKeepsType
  <2>4. out' \in [Calls -> Output]
        BY <2>1, <2>2, <2>3
  <2>. QED  BY <1>25, <2>4 DEF MoveStage, Output
<1>26. ASSUME NEW c \in Calls, Complete(c) PROVE ExtractionTypeOK'
      BY <1>26 DEF Complete
<1>27. ASSUME NEW c \in Calls, WorkerFails(c) PROVE ExtractionTypeOK'
      BY <1>27 DEF WorkerFails
<1>28. CASE Change
      BY <1>28, ChangeIsNewer DEF Change
<1>29. CASE WriteBack
      BY <1>29 DEF WriteBack
<1>30. CASE PowerLoss
  <2>1. dsample = None \/ Settled(dsample) = dsample
        BY SettledStays DEF SampleKeeps
  <2>2. dsample = None => Settled(dsample) = dsample
        BY DEF Settled
  <2>. QED  BY <1>30, <2>1, <2>2 DEF PowerLoss
<1>31. CASE UNCHANGED vars
      BY <1>31 DEF vars
<1>. QED  BY <1>1, <1>2, <1>3, <1>4, <1>5, <1>6, <1>7, <1>8, <1>9, <1>10,
         <1>11, <1>12, <1>13, <1>14, <1>15, <1>16, <1>17, <1>18, <1>19, <1>20,
         <1>21, <1>22, <1>23, <1>24, <1>25, <1>26, <1>27, <1>28, <1>29, <1>30,
         <1>31
           DEF Next, HostStep, WorkerStep

\* The name, by the actions that write to it
LEMMA SampleStep ==
  ASSUME ExtractionTypeOK, InputKeeps, CallKeeps, WorkerKeeps, SampleKeeps,
         [Next]_vars
  PROVE  SampleKeeps'
<1> USE DEF SampleKeeps, Goes, call, worker, input, disk, faults
<1>1. ASSUME NEW c \in Calls, Publish(c) PROVE SampleKeeps'
  <2>1. /\ Artifact(c).frames = Artifact(c).video
        /\ Artifact(c).raw = "synced" /\ Artifact(c).receipt = "synced"
        BY <1>1, ArtifactIsFaithful DEF Publish, After
  <2>. QED  BY <1>1, <2>1 DEF Publish
<1>2. ASSUME NEW c \in Calls, SyncRoot(c) PROVE SampleKeeps'
      BY <1>2 DEF SyncRoot
<1>3. CASE WriteBack
      BY <1>3 DEF WriteBack
<1>4. CASE PowerLoss
  <2>1. dsample = None \/ Settled(dsample) = dsample
        BY SettledStays DEF SampleKeeps, ExtractionTypeOK
  <2>2. dsample = None => Settled(dsample) = dsample
        BY DEF Settled
  <2>. QED  BY <1>4, <2>1, <2>2 DEF PowerLoss
<1>5. ASSUME \A c \in Calls : ~Publish(c) /\ ~SyncRoot(c),
             ~WriteBack,
             ~PowerLoss
      PROVE  UNCHANGED disk
      BY <1>5 DEF Next, HostStep, WorkerStep, vars, call, worker, input, disk,
         faults,
         Validate, Prepare, Refuse, Launch, LaunchFails, CommandExits,
         CommandCut, CommandBreaks, RemoveContainer, RemoveMount, Rehash,
         ValidateOutput, SyncFails, Finish, Verify, Interrupt, Kill, Open,
         Decode, VerifyInput, WriteRaw, WriteReceipt, MoveStage, Complete,
         WorkerFails, Change
<1>6. ASSUME UNCHANGED disk PROVE SampleKeeps'
      BY <1>6 DEF SampleKeeps, disk
<1>. QED  BY <1>1, <1>2, <1>3, <1>4, <1>5, <1>6

\* The fate of the mounts, one step for each action
LEMMA MountStep ==
  ASSUME ExtractionTypeOK, Counted, CallKeeps, MountFate,
         [Next]_vars
  PROVE  MountFate'
<1> USE DEF ExtractionTypeOK, Counted, CallKeeps, MountFate, Goes, Steps,
     Alive, Host, Ended, Working, Before, After, call, worker, input, disk,
     faults
<1>1. ASSUME NEW c \in Calls, Validate(c) PROVE MountFate'
      BY <1>1 DEF Validate
<1>2. ASSUME NEW c \in Calls, Prepare(c) PROVE MountFate'
      BY <1>2 DEF Prepare
<1>3. ASSUME NEW c \in Calls, Refuse(c) PROVE MountFate'
      BY <1>3 DEF Refuse
<1>4. ASSUME NEW c \in Calls, Launch(c) PROVE MountFate'
      BY <1>4 DEF Launch
<1>5. ASSUME NEW c \in Calls, LaunchFails(c) PROVE MountFate'
      BY <1>5 DEF LaunchFails
<1>6. ASSUME NEW c \in Calls, CommandExits(c) PROVE MountFate'
      BY <1>6 DEF CommandExits
<1>7. ASSUME NEW c \in Calls, CommandCut(c) PROVE MountFate'
      BY <1>7 DEF CommandCut
<1>8. ASSUME NEW c \in Calls, CommandBreaks(c) PROVE MountFate'
      BY <1>8 DEF CommandBreaks
<1>9. ASSUME NEW c \in Calls, RemoveContainer(c) PROVE MountFate'
      BY <1>9 DEF RemoveContainer
<1>10. ASSUME NEW c \in Calls, RemoveMount(c) PROVE MountFate'
      BY <1>10 DEF RemoveMount
<1>11. ASSUME NEW c \in Calls, Rehash(c) PROVE MountFate'
      BY <1>11 DEF Rehash
<1>12. ASSUME NEW c \in Calls, ValidateOutput(c) PROVE MountFate'
      BY <1>12 DEF ValidateOutput
<1>13. ASSUME NEW c \in Calls, Publish(c) PROVE MountFate'
      BY <1>13 DEF Publish
<1>14. ASSUME NEW c \in Calls, SyncRoot(c) PROVE MountFate'
      BY <1>14 DEF SyncRoot
<1>15. ASSUME NEW c \in Calls, SyncFails(c) PROVE MountFate'
      BY <1>15 DEF SyncFails
<1>16. ASSUME NEW c \in Calls, Finish(c) PROVE MountFate'
      BY <1>16 DEF Finish
<1>17. ASSUME NEW c \in Calls, Verify(c) PROVE MountFate'
      BY <1>17 DEF Verify
<1>18. ASSUME NEW c \in Calls, Interrupt(c) PROVE MountFate'
      BY <1>18 DEF Interrupt
<1>19. ASSUME NEW c \in Calls, Kill(c) PROVE MountFate'
      BY <1>19 DEF Kill
<1>20. ASSUME NEW c \in Calls, Open(c) PROVE MountFate'
      BY <1>20 DEF Open
<1>21. ASSUME NEW c \in Calls, Decode(c) PROVE MountFate'
      BY <1>21 DEF Decode
<1>22. ASSUME NEW c \in Calls, VerifyInput(c) PROVE MountFate'
      BY <1>22 DEF VerifyInput
<1>23. ASSUME NEW c \in Calls, WriteRaw(c) PROVE MountFate'
      BY <1>23 DEF WriteRaw
<1>24. ASSUME NEW c \in Calls, WriteReceipt(c) PROVE MountFate'
      BY <1>24 DEF WriteReceipt
<1>25. ASSUME NEW c \in Calls, MoveStage(c) PROVE MountFate'
      BY <1>25 DEF MoveStage
<1>26. ASSUME NEW c \in Calls, Complete(c) PROVE MountFate'
      BY <1>26 DEF Complete
<1>27. ASSUME NEW c \in Calls, WorkerFails(c) PROVE MountFate'
      BY <1>27 DEF WorkerFails
<1>28. CASE Change
      BY <1>28 DEF Change
<1>29. CASE WriteBack
      BY <1>29 DEF WriteBack
<1>30. CASE PowerLoss
      BY <1>30 DEF PowerLoss
<1>31. CASE UNCHANGED vars
      BY <1>31 DEF vars
<1>. QED  BY <1>1, <1>2, <1>3, <1>4, <1>5, <1>6, <1>7, <1>8, <1>9, <1>10,
         <1>11, <1>12, <1>13, <1>14, <1>15, <1>16, <1>17, <1>18, <1>19, <1>20,
         <1>21, <1>22, <1>23, <1>24, <1>25, <1>26, <1>27, <1>28, <1>29, <1>30,
         <1>31
           DEF Next, HostStep, WorkerStep

\* The publishers, one step for each action
LEMMA PublisherStep ==
  ASSUME ExtractionTypeOK, Counted, CallKeeps, WorkerKeeps, SampleKeeps, PublisherKeeps,
         [Next]_vars
  PROVE  PublisherKeeps'
<1>0. \A d \in Calls : pc[d] \in After => Artifact(d)' = Artifact(d)
      BY ExitedStays DEF CallKeeps
<1> USE DEF ExtractionTypeOK, PublisherKeeps, Goes, Returns, Host, Ended,
     After, call, worker, input, disk, faults
<1>1. ASSUME NEW c \in Calls, Validate(c) PROVE PublisherKeeps'
      BY <1>1, <1>0 DEF Validate
<1>2. ASSUME NEW c \in Calls, Prepare(c) PROVE PublisherKeeps'
      BY <1>2, <1>0 DEF Prepare, CallKeeps
<1>3. ASSUME NEW c \in Calls, Refuse(c) PROVE PublisherKeeps'
      BY <1>3, <1>0 DEF Refuse
<1>4. ASSUME NEW c \in Calls, Launch(c) PROVE PublisherKeeps'
      BY <1>4, <1>0 DEF Launch
<1>5. ASSUME NEW c \in Calls, LaunchFails(c) PROVE PublisherKeeps'
      BY <1>5, <1>0 DEF LaunchFails
<1>6. ASSUME NEW c \in Calls, CommandExits(c) PROVE PublisherKeeps'
      BY <1>6, <1>0 DEF CommandExits
<1>7. ASSUME NEW c \in Calls, CommandCut(c) PROVE PublisherKeeps'
      BY <1>7, <1>0 DEF CommandCut
<1>8. ASSUME NEW c \in Calls, CommandBreaks(c) PROVE PublisherKeeps'
      BY <1>8, <1>0 DEF CommandBreaks
<1>9. ASSUME NEW c \in Calls, RemoveContainer(c) PROVE PublisherKeeps'
      BY <1>9, <1>0 DEF RemoveContainer
<1>10. ASSUME NEW c \in Calls, RemoveMount(c) PROVE PublisherKeeps'
      BY <1>10, <1>0 DEF RemoveMount
<1>11. ASSUME NEW c \in Calls, Rehash(c) PROVE PublisherKeeps'
      BY <1>11, <1>0 DEF Rehash
<1>12. ASSUME NEW c \in Calls, ValidateOutput(c) PROVE PublisherKeeps'
      BY <1>12, <1>0 DEF ValidateOutput
<1>13. ASSUME NEW c \in Calls, Publish(c) PROVE PublisherKeeps'
  <2>1. \A d \in Calls : pc[d] \in After => Artifact(d) # None
        BY ArtifactIsFaithful
  <2>. QED  BY <1>13, <1>0, <2>1 DEF Publish
<1>14. ASSUME NEW c \in Calls, SyncRoot(c) PROVE PublisherKeeps'
      BY <1>14, <1>0 DEF SyncRoot
<1>15. ASSUME NEW c \in Calls, SyncFails(c) PROVE PublisherKeeps'
      BY <1>15, <1>0 DEF SyncFails
<1>16. ASSUME NEW c \in Calls, Finish(c) PROVE PublisherKeeps'
  <2>1. Artifact(c) # None
        BY <1>16, ArtifactIsFaithful DEF Finish
  <2>. QED  BY <1>16, <1>0, <2>1 DEF Finish
<1>17. ASSUME NEW c \in Calls, Verify(c) PROVE PublisherKeeps'
  <2>1. mount[c] = "none" /\ sample # None
        BY <1>17 DEF Verify, CallKeeps
  <2>. QED  BY <1>17, <1>0, <2>1 DEF Verify
<1>18. ASSUME NEW c \in Calls, Interrupt(c) PROVE PublisherKeeps'
      BY <1>18, <1>0 DEF Interrupt
<1>19. ASSUME NEW c \in Calls, Kill(c) PROVE PublisherKeeps'
      BY <1>19, <1>0 DEF Kill
<1>20. ASSUME NEW c \in Calls, Open(c) PROVE PublisherKeeps'
      BY <1>20, <1>0 DEF Open
<1>21. ASSUME NEW c \in Calls, Decode(c) PROVE PublisherKeeps'
      BY <1>21, <1>0 DEF Decode
<1>22. ASSUME NEW c \in Calls, VerifyInput(c) PROVE PublisherKeeps'
      BY <1>22, <1>0 DEF VerifyInput
<1>23. ASSUME NEW c \in Calls, WriteRaw(c) PROVE PublisherKeeps'
      BY <1>23, <1>0 DEF WriteRaw
<1>24. ASSUME NEW c \in Calls, WriteReceipt(c) PROVE PublisherKeeps'
      BY <1>24, <1>0 DEF WriteReceipt
<1>25. ASSUME NEW c \in Calls, MoveStage(c) PROVE PublisherKeeps'
      BY <1>25, <1>0 DEF MoveStage
<1>26. ASSUME NEW c \in Calls, Complete(c) PROVE PublisherKeeps'
      BY <1>26, <1>0 DEF Complete
<1>27. ASSUME NEW c \in Calls, WorkerFails(c) PROVE PublisherKeeps'
      BY <1>27, <1>0 DEF WorkerFails
<1>28. CASE Change
      BY <1>28, <1>0 DEF Change
<1>29. CASE WriteBack
      BY <1>29, <1>0 DEF WriteBack
<1>30. CASE PowerLoss
  <2>1. dsample = None \/ Settled(dsample) = dsample
        BY SettledStays DEF SampleKeeps, ExtractionTypeOK
  <2>. QED  BY <1>30, <1>0, <2>1 DEF PowerLoss
<1>31. CASE UNCHANGED vars
      BY <1>0, <1>31 DEF vars, Artifact
<1>. QED  BY <1>1, <1>2, <1>3, <1>4, <1>5, <1>6, <1>7, <1>8, <1>9, <1>10,
         <1>11, <1>12, <1>13, <1>14, <1>15, <1>16, <1>17, <1>18, <1>19, <1>20,
         <1>21, <1>22, <1>23, <1>24, <1>25, <1>26, <1>27, <1>28, <1>29, <1>30,
         <1>31
           DEF Next, HostStep, WorkerStep

\* The answers, by the actions that write to them
LEMMA ResultStep ==
  ASSUME ExtractionTypeOK, CallKeeps, WorkerKeeps, SampleKeeps, PublisherKeeps, ResultKeeps,
         [Next]_vars
  PROVE  ResultKeeps'
<1> USE DEF ExtractionTypeOK, ResultKeeps, Goes, Returns, call, worker, input,
     disk, faults
<1>1. ASSUME NEW c \in Calls, Validate(c) PROVE ResultKeeps'
      BY <1>1 DEF Validate, PublisherKeeps
<1>2. ASSUME NEW c \in Calls, Finish(c) PROVE ResultKeeps'
  <2>1. /\ Artifact(c).frames = pin[c] /\ Artifact(c).clip = asked[c].clip
        /\ Artifact(c).raw = "synced" /\ Artifact(c).receipt = "synced"
        BY <1>2, ArtifactIsFaithful DEF Finish, After
  <2>. QED  BY <1>2, <2>1 DEF Finish
<1>3. ASSUME NEW c \in Calls, Verify(c) PROVE ResultKeeps'
  <2>1. sample # None
        BY <1>3 DEF Verify, PublisherKeeps
  <2>2. sample.raw = "synced" /\ sample.receipt = "synced" /\ sample.frames = sample.video
        BY <2>1 DEF SampleKeeps
  <2>. QED  BY <1>3, <2>2 DEF Verify, Accepts
<1>4. ASSUME \A c \in Calls : ~Validate(c) /\ ~Finish(c) /\ ~Verify(c)
      PROVE  UNCHANGED <<asked, pin, res>>
      BY <1>4 DEF Next, HostStep, WorkerStep, vars, call, worker, input, disk,
         faults,
         Prepare, Refuse, Launch, LaunchFails, CommandExits, CommandCut,
         CommandBreaks, RemoveContainer, RemoveMount, Rehash,
         ValidateOutput, Publish, SyncRoot, SyncFails, Interrupt, Kill,
         Open, Decode, VerifyInput, WriteRaw, WriteReceipt, MoveStage,
         Complete, WorkerFails, Change, WriteBack, PowerLoss
<1>5. ASSUME UNCHANGED <<asked, pin, res>> PROVE ResultKeeps'
      BY <1>5 DEF ResultKeeps
<1>. QED  BY <1>1, <1>2, <1>3, <1>4, <1>5

\* The parts together
LEMMA ExtractionKeeps == ExtractionInv /\ [Next]_vars => ExtractionInv'
BY CountedStep, InputStep, PlacesStep, WorkerStepKeeps, TypeStep, SampleStep,
     MountStep,
   PublisherStep, ResultStep DEF ExtractionInv

(* Every reachable state satisfies the invariant (amd64_holistic_container.py *)
(* 1918-2158).                                                                *)
THEOREM ExtractionInductive == Spec => []ExtractionInv
BY ExtractionInitial, ExtractionKeeps, PTL DEF Spec

(* A mount is never removed under a container that may still write to it, and *)
(* stays only under one (amd64_holistic_container.py:2097).                   *)
THEOREM MountFateHolds == Spec => []MountFate
BY ExtractionInductive, PTL DEF ExtractionInv

(* A call returns only whole samples of the bytes it hashed and of the clip   *)
(* it named (amd64_holistic_container.py:1548-1766, 1867-1915).               *)
THEOREM ResultFaithfulHolds == Spec => []ResultFaithful
<1>1. ExtractionInv => ResultFaithful
      BY DEF ExtractionInv, ResultFaithful, WholeOrAbsent, SampleKeeps, ResultKeeps,
         IsWhole
<1>. QED  BY <1>1, ExtractionInductive, PTL

-----------------------------------------------------------------------------
(* The register of the sample's name *)

\* Nothing happens to a call that has returned.
LEMMA ReturnedStays ==
  ASSUME ExtractionInv, [Next]_vars, NEW c \in Calls, pc[c] = "returned"
  PROVE  pc'[c] = "returned" /\ mount'[c] = mount[c] /\ res'[c] = res[c]
BY DEF ExtractionInv, ExtractionTypeOK, Next, HostStep, WorkerStep, vars, call, Goes,
     Returns, Host,
   Validate, Prepare, Refuse, Launch, LaunchFails, CommandExits, CommandCut,
      CommandBreaks, RemoveContainer, RemoveMount, Rehash, ValidateOutput,
      Publish, SyncRoot, SyncFails, Finish, Verify, Interrupt, Kill, Open,
      Decode, VerifyInput, WriteRaw, WriteReceipt, MoveStage, Complete,
      WorkerFails, Change, WriteBack, PowerLoss

\* Once the publisher has returned, the name shows its sample for good.
LEMMA ConfirmedStays ==
  ASSUME ExtractionInv, ExtractionInv', [Next]_vars, Confirmed
  PROVE  Confirmed' /\ sample' = sample
<1>1. PICK c \in Calls : pc[c] = "returned" /\ mount[c] = "removed"
      BY DEF Confirmed
<1>2. pc'[c] = "returned" /\ mount'[c] = "removed" /\ res'[c] = res[c]
      BY <1>1, ReturnedStays
<1>. QED  BY <1>1, <1>2 DEF ExtractionInv, PublisherKeeps, Confirmed

\* Only Finish and Verify answer, and only Finish confirms.
LEMMA OthersServeNobody ==
  ASSUME ExtractionInv, [Next]_vars, \A c \in Calls : ~Finish(c) /\ ~Verify(c)
  PROVE  res' = res /\ (Confirmed' => Confirmed)
BY DEF ExtractionInv, ExtractionTypeOK, Next, HostStep, WorkerStep, vars, call, Goes,
     Host, Confirmed,
   Validate, Prepare, Refuse, Launch, LaunchFails, CommandExits, CommandCut,
      CommandBreaks, RemoveContainer, RemoveMount, Rehash, ValidateOutput,
      Publish, SyncRoot, SyncFails, Interrupt, Kill, Open, Decode,
      VerifyInput, WriteRaw, WriteReceipt, MoveStage, Complete, WorkerFails,
      Change, WriteBack, PowerLoss

\* Every step is one of the register.
LEMMA Implements ==
  ASSUME ExtractionInv, ExtractionInv', [Next]_vars
  PROVE  [Register!Next]_Register!wvars
<1>. DEFINE answers == {res[c] : c \in Calls} \ {None}
<1>1. ASSUME NEW c \in Calls, sample # None, res[c] = None, res' = [res EXCEPT ![c] = sample]
      PROVE  answers' = answers \cup {sample}
      BY <1>1 DEF ExtractionInv, ExtractionTypeOK
<1>2. ASSUME NEW c \in Calls, Finish(c) PROVE Register!Settle
  <2>1. sample = Artifact(c) /\ sample # None /\ res[c] = None
        BY <1>2, ArtifactIsFaithful DEF Finish, Goes, After, ExtractionInv,
           PublisherKeeps
  <2>2. res' = [res EXCEPT ![c] = sample] /\ UNCHANGED sample
        BY <1>2, <2>1 DEF Finish, Returns, disk
  <2>3. Confirmed'
        BY <1>2, <2>1 DEF Finish, Goes, Confirmed, ExtractionInv, ExtractionTypeOK
  <2>4. answers' = answers \cup {sample}
        BY <1>1, <2>1, <2>2
  <2>. QED  BY <2>1, <2>2, <2>3, <2>4 DEF Register!Settle
<1>3. ASSUME NEW c \in Calls, Verify(c)
      PROVE Register!Serve \/ UNCHANGED Register!wvars
  <2>1. sample # None /\ res[c] = None /\ mount[c] = "none" /\ UNCHANGED <<sample, mount>>
        BY <1>3 DEF Verify, disk, ExtractionInv, PublisherKeeps, CallKeeps
  <2>2. Confirmed' = Confirmed
    <3>1. \A d \in Calls : d # c => pc'[d] = pc[d]
          BY <1>3 DEF Verify, Goes, ExtractionInv, ExtractionTypeOK
    <3>. QED  BY <2>1, <3>1 DEF Confirmed
  <2>3. CASE Accepts(c, sample)
    <3>1. res' = [res EXCEPT ![c] = sample]
          BY <1>3, <2>3 DEF Verify, Returns
    <3>2. answers' = answers \cup {sample}
          BY <1>1, <2>1, <3>1
    <3>. QED  BY <2>1, <2>2, <3>2 DEF Register!Serve
  <2>4. CASE ~Accepts(c, sample)
        BY <1>3, <2>1, <2>2, <2>4 DEF Verify, Register!wvars
  <2>. QED  BY <2>3, <2>4
<1>4. ASSUME \A c \in Calls : ~Finish(c) /\ ~Verify(c)
      PROVE  Register!Change \/ UNCHANGED Register!wvars
  <2>1. res' = res /\ (Confirmed' => Confirmed)
        BY <1>4, OthersServeNobody
  <2>2. CASE Confirmed
        BY <2>1, <2>2, ConfirmedStays DEF Register!wvars
  <2>3. CASE ~Confirmed
        BY <2>1, <2>3 DEF Register!Change, Register!wvars, Confirmed
  <2>. QED  BY <2>2, <2>3
<1>. QED  BY <1>2, <1>3, <1>4 DEF Register!Next

(* The sample's name is a register that settles: every step of the calls, the *)
(* workers, the kernel and the user is a step of the register or a stutter    *)
(* (amd64_holistic_container.py:1707-1766).                                   *)
THEOREM SampleSettlesHolds == Spec => SampleSettles
<1>1. Init => Register!Init
      BY DEF Init, Register!Init, Confirmed
<1>. QED  BY <1>1, ExtractionInitial, ExtractionKeeps, Implements, PTL
          DEF Spec, SampleSettles, Register!Spec
=============================================================================
