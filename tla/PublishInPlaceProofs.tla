------------------------- MODULE PublishInPlaceProofs -------------------------
(* Proofs about the two components that fill what they publish under its own *)
(* name: a conversion's artifact and a local release's bundle, for every set *)
(* of calls, of artifacts, files and source versions, and any number of      *)
(* kills, power losses and edits.  Each argument is one inductive invariant. *)
EXTENDS Conversion, LocalRelease, TLAPS

-----------------------------------------------------------------------------
(* The artifact: what a call that stands at a place of _publish may rely on, *)
(* whatever the other calls, the kernel and the operator do there.           *)

\* A call that has not created its file has none; a creator's file is whole
\* once it is written and on the disk once it is flushed.  While no unlink can
\* meet a file that its call did not look at, the name shows the file once
\* that is checked, and until it is taken back; and it is on the disk once
\* the directory is flushed.
CreatorKeeps ==
  \A c \in Conversions :
    /\ pc[c] \in {"idle", "read"} => text[c] = "none"
    /\ pc[c] \in {"written", "flushed", "checked", "named", "returned"} => text[c] = "whole"
    /\ pc[c] \in {"flushed", "checked", "named", "returned"} => c \in flushed
    /\ ~misled /\ pc[c] \in {"checked", "named", "returned", "unlinking"} => name = c
    /\ ~misled /\ pc[c] \in {"named", "returned"} => dname = c

\* The inode that a call compared stays as it was compared.
ReaderKeeps ==
  \A c \in Conversions :
    pc[c] = "compared" => /\ saw[c] \in Conversions
                          /\ text[saw[c]] = "whole" /\ wants[saw[c]] = wants[c]

ConversionInv == ConversionTypeOK /\ CreatorKeeps /\ ReaderKeeps

USE NoneIsNoValue

LEMMA ConversionInit == Init => ConversionInv
BY DEF Init, ConversionInv, ConversionTypeOK, CreatorKeeps, ReaderKeeps, Live, Ended, Creating

LEMMA ConversionKeeps == ConversionInv /\ [Next]_vars => ConversionInv'
<1> SUFFICES ASSUME ConversionInv, [Next]_vars PROVE ConversionInv'
    OBVIOUS
<1> USE DEF ConversionInv, ConversionTypeOK, CreatorKeeps, ReaderKeeps, Live,
            Ended, Creating,
            Goes, files
<1>1. ASSUME NEW c \in Conversions, ReadPair(c) PROVE ConversionInv'
    BY <1>1 DEF ReadPair
<1>2. ASSUME NEW c \in Conversions, Create(c) PROVE ConversionInv'
    BY <1>2 DEF Create
<1>3. ASSUME NEW c \in Conversions, Write(c) PROVE ConversionInv'
    BY <1>3 DEF Write
<1>4. ASSUME NEW c \in Conversions, Flush(c) PROVE ConversionInv'
    BY <1>4 DEF Flush
<1>5. ASSUME NEW c \in Conversions, CheckName(c) PROVE ConversionInv'
    BY <1>5 DEF CheckName
<1>6. ASSUME NEW c \in Conversions, FlushName(c) PROVE ConversionInv'
    BY <1>6 DEF FlushName
<1>7. ASSUME NEW c \in Conversions, Return(c) PROVE ConversionInv'
    BY <1>7 DEF Return
<1>8. ASSUME NEW c \in Conversions, Fail(c) PROVE ConversionInv'
    BY <1>8 DEF Fail
<1>9. ASSUME NEW c \in Conversions, Look(c) PROVE ConversionInv'
    BY <1>9 DEF Look
<1>10. ASSUME NEW c \in Conversions, LookAtNumber(c) PROVE ConversionInv'
    BY <1>10 DEF LookAtNumber
<1>11. ASSUME NEW c \in Conversions, Unlink(c) PROVE ConversionInv'
    BY <1>11 DEF Unlink
<1>12. ASSUME NEW c \in Conversions, Compare(c) PROVE ConversionInv'
    BY <1>12 DEF Compare, Artifact
<1>13. ASSUME NEW c \in Conversions, Accept(c) PROVE ConversionInv'
    BY <1>13 DEF Accept
<1>14. ASSUME NEW c \in Conversions, Kill(c) PROVE ConversionInv'
    BY <1>14 DEF Kill
<1>15. ASSUME NEW c \in Conversions, WriteBackText(c) PROVE ConversionInv'
    BY <1>15 DEF WriteBackText
<1>16. CASE Reextract
    BY <1>16 DEF Reextract
<1>17. CASE OperatorRemoves
  <2>1. misled' \in BOOLEAN
        BY <1>17 DEF OperatorRemoves
  <2>2. ASSUME ~misled' PROVE ~misled /\ pc[name] # "unlinking"
        BY <1>17, <2>2 DEF OperatorRemoves
  <2>3. ConversionTypeOK'
        BY <1>17, <2>1 DEF OperatorRemoves
  <2>4. CreatorKeeps' /\ ReaderKeeps'
        BY <1>17, <2>2 DEF OperatorRemoves, Artifact
  <2>. QED  BY <2>3, <2>4
<1>18. CASE WriteBackName
    BY <1>18 DEF WriteBackName
<1>19. CASE PowerLoss
    BY <1>19 DEF PowerLoss
<1>20. CASE UNCHANGED vars
    BY <1>20 DEF vars
<1>. QED
    BY <1>1, <1>2, <1>3, <1>4, <1>5, <1>6, <1>7, <1>8, <1>9, <1>10, <1>11,
       <1>12, <1>13, <1>14, <1>15, <1>16, <1>17, <1>18, <1>19, <1>20 DEF Next, ConversionStep

(* Every reachable state satisfies the invariant (holistic_motion.py:725).   *)
THEOREM ConversionInductive == Spec => []ConversionInv
BY ConversionInit, ConversionKeeps, PTL DEF Spec

(* The variables have their types.                                           *)
THEOREM ConversionTypes == Spec => []ConversionTypeOK
BY ConversionInductive, PTL DEF ConversionInv

-----------------------------------------------------------------------------
(* The register of the output's name *)

\* Once a call has returned what it created, the name shows that file for
\* good, through the steps of all other calls and through a power loss,
\* while no unlink can meet a file that its call did not look at.
LEMMA ConfirmedStays ==
  ASSUME ConversionInv, ConversionInv', [Next]_vars, Confirmed, ~misled, ~misled'
  PROVE  Confirmed' /\ Artifact' = Artifact
<1>1. PICK c \in Conversions : pc[c] = "returned"
      BY DEF Confirmed
<1>2. pc'[c] = "returned" /\ wants' = wants
      BY <1>1 DEF ConversionInv, ConversionTypeOK, Next, ConversionStep, vars, Goes, Live, Ended, Creating,
         ReadPair, Create, Write, Flush, CheckName, FlushName, Return, Fail, Look, LookAtNumber,
         Unlink, Compare, Accept, Kill, WriteBackText, Reextract, OperatorRemoves, WriteBackName, PowerLoss
<1>3. name = c /\ text[c] = "whole" /\ name' = c /\ text'[c] = "whole"
      BY <1>1, <1>2 DEF ConversionInv, CreatorKeeps
<1>. QED  BY <1>1, <1>2, <1>3 DEF Artifact, Confirmed

\* The step that first may mislead an unlink does not touch a confirmed file.
LEMMA MisledInPassing ==
  ASSUME ConversionInv, [Next]_vars, Confirmed, ~misled, misled'
  PROVE  Confirmed' /\ Artifact' = Artifact
<1>1. PICK c \in Conversions : pc[c] = "returned"
      BY DEF Confirmed
<1>2. Artifact = wants[c] /\ wants[c] # None
      BY <1>1 DEF ConversionInv, ConversionTypeOK, CreatorKeeps, Artifact
<1>3. ~OperatorRemoves
      BY <1>2 DEF OperatorRemoves
<1>4. PICK d \in Conversions : LookAtNumber(d)
      BY <1>3 DEF Next, ConversionStep, vars, ReadPair, Create, Write, Flush, CheckName,
         FlushName, Return, Fail, Look, Unlink, Compare, Accept, Kill, WriteBackText,
         Reextract, WriteBackName, PowerLoss, ConversionInv, ConversionTypeOK
<1>5. pc'[c] = "returned"
      BY <1>1, <1>4 DEF LookAtNumber, Goes, ConversionInv, ConversionTypeOK
<1>. QED  BY <1>4, <1>5 DEF LookAtNumber, files, Artifact, Confirmed

\* Only Return and Accept serve anybody, and only Return confirms.
LEMMA OthersServeNobody ==
  ASSUME ConversionInv, [Next]_vars,
         \A c \in Conversions : ~Return(c) /\ ~Accept(c)
  PROVE  served' = served /\ (Confirmed' => Confirmed)
BY DEF ConversionInv, ConversionTypeOK, Next, ConversionStep, vars, files, Goes, Live, Ended, Creating, Confirmed,
   ReadPair, Create, Write, Flush, CheckName, FlushName, Fail, Look, LookAtNumber, Unlink, Compare, Kill,
   WriteBackText, Reextract, OperatorRemoves, WriteBackName, PowerLoss

LEMMA Implements ==
  ASSUME ConversionInv, ConversionInv', [Next]_vars
  PROVE  [misled \/ Register!Next]_Register!wvars
<1> SUFFICES ASSUME ~misled PROVE [Register!Next]_Register!wvars
    OBVIOUS
<1>1. ASSUME NEW c \in Conversions, Return(c) PROVE Register!Settle
  <2>1. Artifact = wants[c] /\ wants[c] # None
        BY <1>1 DEF Return, Goes, ConversionInv, CreatorKeeps, ConversionTypeOK, Artifact
  <2>2. Artifact' = Artifact /\ Confirmed'
        BY <1>1 DEF Return, Goes, files, Artifact, Confirmed, ConversionInv, ConversionTypeOK
  <2>. QED  BY <1>1, <2>1, <2>2 DEF Return, Register!Settle
<1>2. ASSUME NEW c \in Conversions, Accept(c) PROVE Register!Serve \/ UNCHANGED Register!wvars
  <2>1. Artifact' = Artifact
        BY <1>2 DEF Accept, files, Artifact
  <2>2. Confirmed' = Confirmed
        BY <1>2 DEF Accept, Goes, Confirmed, ConversionInv, ConversionTypeOK
  <2>3. CASE name = saw[c]
    <3>1. Artifact = wants[c] /\ wants[c] # None
          BY <1>2, <2>3 DEF Accept, Goes, ConversionInv, ReaderKeeps, ConversionTypeOK, Artifact
    <3>. QED  BY <1>2, <2>1, <2>2, <2>3, <3>1 DEF Accept, Register!Serve
  <2>4. CASE name # saw[c]
        BY <1>2, <2>1, <2>2, <2>4 DEF Accept, Register!wvars
  <2>. QED  BY <2>3, <2>4
<1>3. ASSUME \A c \in Conversions : ~Return(c) /\ ~Accept(c)
      PROVE  Register!Change \/ UNCHANGED Register!wvars
  <2>1. served' = served /\ (Confirmed' => Confirmed)
        BY <1>3, OthersServeNobody
  <2>2. CASE Confirmed
    <3>1. CASE ~misled'
          BY <2>1, <2>2, <3>1, ConfirmedStays DEF Register!wvars
    <3>2. CASE misled'
          BY <2>1, <2>2, <3>2, MisledInPassing DEF Register!wvars
    <3>. QED  BY <3>1, <3>2
  <2>3. CASE ~Confirmed
        BY <2>1, <2>3 DEF Register!Change, Register!wvars, Confirmed
  <2>. QED  BY <2>2, <2>3
<1>. QED  BY <1>1, <1>2, <1>3 DEF Register!Next

(* The artifact's name is a register that settles: every step of the calls,  *)
(* of the kernel and of the operator is a step of the register or a stutter, *)
(* until the operator deletes the file of a creator that looks at the name   *)
(* to take it back, or a deleted file's number is given to another's         *)
(* (holistic_motion.py:653-667, 725-850).                                    *)
THEOREM ArtifactSettlesHolds == Spec => ArtifactSettles
<1>1. Init => Register!Init
      BY DEF Init, Register!Init, Artifact, Confirmed
<1>. QED  BY <1>1, ConversionInit, ConversionKeeps, Implements, PTL
          DEF Spec, ArtifactSettles

-----------------------------------------------------------------------------
(* A local release's records: what an image was made of *)

\* A record says of which sources its image is, but for torn builds; what a
\* rebind goes on with was recorded and is what the published bundle pins.
Recorded ==
  /\ \A b \in Builds :
       /\ phase[b] = "idle" => image[b] = Nobody
       /\ phase[b] \in {"idle", "built"} => hashed[b] = Nobody
       /\ phase[b] = "built" => b \in torn \/ image[b] = source
       /\ phase[b] \in {"hashed", "absent"} => hashed[b] # Nobody
       /\ hashed[b] # Nobody => b \in torn \/ image[b] = hashed[b]
  /\ record # Nobody => hashed[record] # Nobody

Bound(r) ==
  /\ phase[r] = "validated" => uses[r] # Nobody /\ hashed[uses[r]] # Nobody
  /\ phase[r] \in {"ready", "filling", "filled", "undo", "emptied", "returned"} =>
       uses[r] # Nobody /\ hashed[uses[r]] = 0

\* The places of a rebind that has made the directory, and not taken it back.
Making == {"filling", "filled", "undo", "emptied"}

\* One rebind at a time is making the directory, which exists as long.
OneMaker ==
  \A r \in Rebinds : phase[r] \in Making =>
    dest # Nobody /\ \A q \in Rebinds : phase[q] \in Making => q = r

\* A directory holds files of one call; one that a rebind made is being made,
\* or was returned, or left by a dead process; and a rebind that has lost its
\* directory finds an export's whole bundle in its place.
OneOwner ==
  dest # Nobody =>
    /\ \A f \in Files : dest.files[f] \in {Nobody, dest.by}
    /\ dest.by \in Rebinds => phase[dest.by] \in Making \cup {"returned", "dead"}
    /\ \A r \in Rebinds :
         /\ phase[r] \in {"filling", "filled"} => dest.by = r \/ Holds(dest.by)
         /\ phase[r] = "emptied" => dest.files = Nothing \/ dest.by \in Exports

\* Unless an export has taken the place of an empty directory, a directory is
\* its maker's until the maker takes it back, and a bundle stays.
Kept ==
  ~usurped =>
    /\ \A r \in Rebinds : phase[r] \in Making => dest.by = r
    /\ \A e \in Exports : phase[e] \in {"renamed", "checked"} => dest # Nobody /\ dest.by = e /\ Holds(e)
    /\ \A c \in Rebinds \cup Exports : phase[c] = "returned" => dest # Nobody /\ dest.by = c /\ Holds(c)

\* An export's places are not a rebind's, nor a build's.
Apart ==
  /\ \A e \in Exports : phase[e] \notin Making \cup {"validated", "built", "hashed"}
  /\ \A r \in Rebinds : phase[r] \notin {"locked", "renamed", "checked", "unlock", "built", "hashed"}
  /\ \A b \in Builds : phase[b] \in {"idle", "built", "hashed", "absent"} \cup Over

ReleaseInv == /\ LocalReleaseTypeOK /\ Apart
              /\ Recorded /\ \A r \in Rebinds : Bound(r)
              /\ OneMaker /\ OneOwner /\ Kept


USE CallsApart, FilesAreNumbered, PinnedVersion, EditsAreBounded

LEMMA AllOfCall ==
  ASSUME NEW c \in Calls
  PROVE  /\ \A f \in Files : AllOf(c)[f] = c /\ Nothing[f] = Nobody
         /\ AllOf(c) # Nothing
         /\ AllOf(c) \in [Files -> Calls] /\ Nothing \in [Files -> {Nobody}]
<1>1. 1 \in Files OBVIOUS
<1>. QED BY <1>1 DEF AllOf, Nothing

LEMMA MadeOfFiles ==
  ASSUME NEW c \in Rebinds \cup Exports
  PROVE  /\ [by |-> c, files |-> Nothing] \in Directories
         /\ [by |-> c, files |-> AllOf(c)] \in Directories
         /\ [by |-> c, files |-> Nothing] # Nobody
         /\ [by |-> c, files |-> AllOf(c)] # Nobody
<1>1. AllOf(c) \in [Files -> Calls \cup {Nobody}] /\ Nothing \in [Files -> Calls \cup {Nobody}]
      BY DEF AllOf, Nothing, Calls
<1>. QED  BY <1>1 DEF Directories

LEMMA TypesKept ==
  ASSUME LocalReleaseTypeOK, [ReleaseNext]_releaseVars
  PROVE  LocalReleaseTypeOK'
<1> USE DEF LocalReleaseTypeOK, Calls, States, Over, Moves, build, bundle
<1>1. ASSUME NEW c \in Builds, BuildImage(c) PROVE LocalReleaseTypeOK'
    BY <1>1 DEF BuildImage
<1>2. ASSUME NEW c \in Builds, HashSources(c) PROVE LocalReleaseTypeOK'
    BY <1>2 DEF HashSources
<1>3. ASSUME NEW c \in Builds, RecordAbsent(c) PROVE LocalReleaseTypeOK'
    BY <1>3 DEF RecordAbsent
<1>4. ASSUME NEW c \in Builds, ReplaceRecord(c) PROVE LocalReleaseTypeOK'
    BY <1>4 DEF ReplaceRecord
<1>5. ASSUME NEW c \in Builds, BuildFails(c) PROVE LocalReleaseTypeOK'
    BY <1>5 DEF BuildFails
<1>6. ASSUME NEW c \in Rebinds, NameAbsent(c) PROVE LocalReleaseTypeOK'
    BY <1>6 DEF NameAbsent
<1>7. ASSUME NEW c \in Rebinds, ReadRecord(c) PROVE LocalReleaseTypeOK'
    BY <1>7 DEF ReadRecord
<1>8. ASSUME NEW c \in Rebinds, ReadBase(c) PROVE LocalReleaseTypeOK'
    BY <1>8 DEF ReadBase
<1>9. ASSUME NEW c \in Rebinds, MakeDir(c) PROVE LocalReleaseTypeOK'
  <2>1. [by |-> c, files |-> Nothing] \in Directories  BY MadeOfFiles
  <2>. QED  BY <1>9, <2>1 DEF MakeDir
<1>10. ASSUME NEW c \in Rebinds, WriteFile(c) PROVE LocalReleaseTypeOK'
  <2>1. CASE dest' = dest
        BY <1>10, <2>1 DEF WriteFile
  <2>2. CASE dest' # dest
    <3>1. PICK f \in Files : dest # Nobody /\ dest' = [dest EXCEPT !.files[f] = c]
          BY <1>10, <2>2 DEF WriteFile
    <3>2. dest' \in Directories
          BY <3>1 DEF Directories
    <3>. QED  BY <1>10, <3>2 DEF WriteFile
  <2>. QED  BY <2>1, <2>2
<1>11. ASSUME NEW c \in Rebinds, CheckDerived(c) PROVE LocalReleaseTypeOK'
    BY <1>11 DEF CheckDerived
<1>12. ASSUME NEW c \in Rebinds, RebindFails(c) PROVE LocalReleaseTypeOK'
    BY <1>12 DEF RebindFails
<1>13. ASSUME NEW c \in Rebinds, UndoFiles(c) PROVE LocalReleaseTypeOK'
  <2>1. dest' \in Directories \cup {Nobody}
    <3>1. CASE dest' = dest
          BY <3>1
    <3>2. CASE dest' # dest
      <4>1. PICK f \in Files : dest # Nobody /\ dest' = [dest EXCEPT !.files[f] = Nobody]
            BY <1>13, <3>2 DEF UndoFiles, Left
      <4>. QED  BY <4>1 DEF Directories
    <3>. QED  BY <3>1, <3>2
  <2>. QED  BY <1>13, <2>1 DEF UndoFiles
<1>14. ASSUME NEW c \in Rebinds, UndoDir(c) PROVE LocalReleaseTypeOK'
    BY <1>14 DEF UndoDir
<1>15. ASSUME NEW c \in Exports, NameAbsent(c) PROVE LocalReleaseTypeOK'
    BY <1>15 DEF NameAbsent
<1>16. ASSUME NEW c \in Exports, TakeLock(c) PROVE LocalReleaseTypeOK'
    BY <1>16 DEF TakeLock
<1>17. ASSUME NEW c \in Exports, FillCandidate(c) PROVE LocalReleaseTypeOK'
    BY <1>17 DEF FillCandidate
<1>18. ASSUME NEW c \in Exports, RenameCandidate(c) PROVE LocalReleaseTypeOK'
  <2>1. [by |-> c, files |-> AllOf(c)] \in Directories  BY MadeOfFiles
  <2>. QED  BY <1>18, <2>1 DEF RenameCandidate
<1>19. ASSUME NEW c \in Exports, CheckExported(c) PROVE LocalReleaseTypeOK'
    BY <1>19 DEF CheckExported
<1>20. ASSUME NEW c \in Exports, ExportFails(c) PROVE LocalReleaseTypeOK'
    BY <1>20 DEF ExportFails
<1>21. ASSUME NEW c \in Exports, Unlock(c) PROVE LocalReleaseTypeOK'
    BY <1>21 DEF Unlock
<1>22. ASSUME NEW c \in Calls, Interrupt(c) PROVE LocalReleaseTypeOK'
    BY <1>22 DEF Interrupt
<1>23. ASSUME NEW c \in Calls, KillCall(c) PROVE LocalReleaseTypeOK'
    BY <1>23 DEF KillCall
<1>24. CASE Edit
    BY <1>24 DEF Edit
<1>25. CASE UNCHANGED releaseVars
    BY <1>25 DEF releaseVars
<1>. QED
    BY <1>1, <1>2, <1>3, <1>4, <1>5, <1>6, <1>7, <1>8, <1>9, <1>10, <1>11,
       <1>12, <1>13, <1>14, <1>15, <1>16, <1>17, <1>18, <1>19, <1>20, <1>21,
       <1>22, <1>23, <1>24, <1>25 DEF ReleaseNext, BuildStep, RebindStep,
       ExportStep

LEMMA PlacesKept ==
  ASSUME LocalReleaseTypeOK, Apart, [ReleaseNext]_releaseVars
  PROVE  Apart'
<1> USE DEF LocalReleaseTypeOK, Apart, Calls, Making, Over, Moves, build, bundle
<1>1. ASSUME NEW c \in Builds, BuildImage(c) PROVE Apart'
    BY <1>1 DEF BuildImage
<1>2. ASSUME NEW c \in Builds, HashSources(c) PROVE Apart'
    BY <1>2 DEF HashSources
<1>3. ASSUME NEW c \in Builds, RecordAbsent(c) PROVE Apart'
    BY <1>3 DEF RecordAbsent
<1>4. ASSUME NEW c \in Builds, ReplaceRecord(c) PROVE Apart'
    BY <1>4 DEF ReplaceRecord
<1>5. ASSUME NEW c \in Builds, BuildFails(c) PROVE Apart'
    BY <1>5 DEF BuildFails
<1>6. ASSUME NEW c \in Rebinds, NameAbsent(c) PROVE Apart'
    BY <1>6 DEF NameAbsent
<1>7. ASSUME NEW c \in Rebinds, ReadRecord(c) PROVE Apart'
    BY <1>7 DEF ReadRecord
<1>8. ASSUME NEW c \in Rebinds, ReadBase(c) PROVE Apart'
    BY <1>8 DEF ReadBase
<1>9. ASSUME NEW c \in Rebinds, MakeDir(c) PROVE Apart'
    BY <1>9 DEF MakeDir
<1>10. ASSUME NEW c \in Rebinds, WriteFile(c) PROVE Apart'
    BY <1>10 DEF WriteFile
<1>11. ASSUME NEW c \in Rebinds, CheckDerived(c) PROVE Apart'
    BY <1>11 DEF CheckDerived
<1>12. ASSUME NEW c \in Rebinds, RebindFails(c) PROVE Apart'
    BY <1>12 DEF RebindFails
<1>13. ASSUME NEW c \in Rebinds, UndoFiles(c) PROVE Apart'
    BY <1>13 DEF UndoFiles
<1>14. ASSUME NEW c \in Rebinds, UndoDir(c) PROVE Apart'
    BY <1>14 DEF UndoDir
<1>15. ASSUME NEW c \in Exports, NameAbsent(c) PROVE Apart'
    BY <1>15 DEF NameAbsent
<1>16. ASSUME NEW c \in Exports, TakeLock(c) PROVE Apart'
    BY <1>16 DEF TakeLock
<1>17. ASSUME NEW c \in Exports, FillCandidate(c) PROVE Apart'
    BY <1>17 DEF FillCandidate
<1>18. ASSUME NEW c \in Exports, RenameCandidate(c) PROVE Apart'
    BY <1>18 DEF RenameCandidate
<1>19. ASSUME NEW c \in Exports, CheckExported(c) PROVE Apart'
    BY <1>19 DEF CheckExported
<1>20. ASSUME NEW c \in Exports, ExportFails(c) PROVE Apart'
    BY <1>20 DEF ExportFails
<1>21. ASSUME NEW c \in Exports, Unlock(c) PROVE Apart'
    BY <1>21 DEF Unlock
<1>22. ASSUME NEW c \in Calls, Interrupt(c) PROVE Apart'
    BY <1>22 DEF Interrupt
<1>23. ASSUME NEW c \in Calls, KillCall(c) PROVE Apart'
    BY <1>23 DEF KillCall
<1>24. CASE Edit
    BY <1>24 DEF Edit
<1>25. CASE UNCHANGED releaseVars
    BY <1>25 DEF releaseVars
<1>. QED
    BY <1>1, <1>2, <1>3, <1>4, <1>5, <1>6, <1>7, <1>8, <1>9, <1>10, <1>11,
       <1>12, <1>13, <1>14, <1>15, <1>16, <1>17, <1>18, <1>19, <1>20, <1>21,
       <1>22, <1>23, <1>24, <1>25 DEF ReleaseNext, BuildStep, RebindStep,
       ExportStep

LEMMA RecordsKept ==
  ASSUME LocalReleaseTypeOK, Apart, Recorded, \A r \in Rebinds : Bound(r), [ReleaseNext]_releaseVars
  PROVE  Recorded' /\ \A r \in Rebinds : Bound(r)'
<1> USE DEF LocalReleaseTypeOK, Apart, Recorded, Bound, Calls, Making, Over,
            Moves, build, bundle
<1>1. ASSUME NEW c \in Builds, BuildImage(c) PROVE Recorded' /\ \A r \in Rebinds : Bound(r)'
    BY <1>1 DEF BuildImage
<1>2. ASSUME NEW c \in Builds, HashSources(c) PROVE Recorded' /\ \A r \in Rebinds : Bound(r)'
    BY <1>2 DEF HashSources
<1>3. ASSUME NEW c \in Builds, RecordAbsent(c) PROVE Recorded' /\ \A r \in Rebinds : Bound(r)'
    BY <1>3 DEF RecordAbsent
<1>4. ASSUME NEW c \in Builds, ReplaceRecord(c) PROVE Recorded' /\ \A r \in Rebinds : Bound(r)'
    BY <1>4 DEF ReplaceRecord
<1>5. ASSUME NEW c \in Builds, BuildFails(c) PROVE Recorded' /\ \A r \in Rebinds : Bound(r)'
    BY <1>5 DEF BuildFails
<1>6. ASSUME NEW c \in Rebinds, NameAbsent(c) PROVE Recorded' /\ \A r \in Rebinds : Bound(r)'
    BY <1>6 DEF NameAbsent
<1>7. ASSUME NEW c \in Rebinds, ReadRecord(c) PROVE Recorded' /\ \A r \in Rebinds : Bound(r)'
    BY <1>7 DEF ReadRecord
<1>8. ASSUME NEW c \in Rebinds, ReadBase(c) PROVE Recorded' /\ \A r \in Rebinds : Bound(r)'
    BY <1>8 DEF ReadBase
<1>9. ASSUME NEW c \in Rebinds, MakeDir(c) PROVE Recorded' /\ \A r \in Rebinds : Bound(r)'
    BY <1>9 DEF MakeDir
<1>10. ASSUME NEW c \in Rebinds, WriteFile(c) PROVE Recorded' /\ \A r \in Rebinds : Bound(r)'
    BY <1>10 DEF WriteFile
<1>11. ASSUME NEW c \in Rebinds, CheckDerived(c) PROVE Recorded' /\ \A r \in Rebinds : Bound(r)'
    BY <1>11 DEF CheckDerived
<1>12. ASSUME NEW c \in Rebinds, RebindFails(c) PROVE Recorded' /\ \A r \in Rebinds : Bound(r)'
    BY <1>12 DEF RebindFails
<1>13. ASSUME NEW c \in Rebinds, UndoFiles(c) PROVE Recorded' /\ \A r \in Rebinds : Bound(r)'
    BY <1>13 DEF UndoFiles
<1>14. ASSUME NEW c \in Rebinds, UndoDir(c) PROVE Recorded' /\ \A r \in Rebinds : Bound(r)'
    BY <1>14 DEF UndoDir
<1>15. ASSUME NEW c \in Exports, NameAbsent(c) PROVE Recorded' /\ \A r \in Rebinds : Bound(r)'
    BY <1>15 DEF NameAbsent
<1>16. ASSUME NEW c \in Exports, TakeLock(c) PROVE Recorded' /\ \A r \in Rebinds : Bound(r)'
    BY <1>16 DEF TakeLock
<1>17. ASSUME NEW c \in Exports, FillCandidate(c) PROVE Recorded' /\ \A r \in Rebinds : Bound(r)'
    BY <1>17 DEF FillCandidate
<1>18. ASSUME NEW c \in Exports, RenameCandidate(c) PROVE Recorded' /\ \A r \in Rebinds : Bound(r)'
    BY <1>18 DEF RenameCandidate
<1>19. ASSUME NEW c \in Exports, CheckExported(c) PROVE Recorded' /\ \A r \in Rebinds : Bound(r)'
    BY <1>19 DEF CheckExported
<1>20. ASSUME NEW c \in Exports, ExportFails(c) PROVE Recorded' /\ \A r \in Rebinds : Bound(r)'
    BY <1>20 DEF ExportFails
<1>21. ASSUME NEW c \in Exports, Unlock(c) PROVE Recorded' /\ \A r \in Rebinds : Bound(r)'
    BY <1>21 DEF Unlock
<1>22. ASSUME NEW c \in Calls, Interrupt(c) PROVE Recorded' /\ \A r \in Rebinds : Bound(r)'
    BY <1>22 DEF Interrupt
<1>23. ASSUME NEW c \in Calls, KillCall(c) PROVE Recorded' /\ \A r \in Rebinds : Bound(r)'
    BY <1>23 DEF KillCall
<1>24. CASE Edit
    BY <1>24 DEF Edit
<1>25. CASE UNCHANGED releaseVars
    BY <1>25 DEF releaseVars
<1>. QED
    BY <1>1, <1>2, <1>3, <1>4, <1>5, <1>6, <1>7, <1>8, <1>9, <1>10, <1>11,
       <1>12, <1>13, <1>14, <1>15, <1>16, <1>17, <1>18, <1>19, <1>20, <1>21,
       <1>22, <1>23, <1>24, <1>25 DEF ReleaseNext, BuildStep, RebindStep,
       ExportStep

LEMMA MakerKept ==
  ASSUME LocalReleaseTypeOK, Apart, OneMaker, [ReleaseNext]_releaseVars
  PROVE  OneMaker'
<1>d. dest \in Directories \cup {Nobody}
      BY DEF LocalReleaseTypeOK
<1>t. /\ phase \in [Calls -> States \cup Over] /\ Calls = Builds \cup Rebinds \cup Exports
      /\ dest # Nobody => /\ dest.files \in [Files -> Calls \cup {Nobody}]
                          /\ dest.by \in Rebinds \cup Exports
    BY <1>d DEF LocalReleaseTypeOK, Calls, Directories
<1> USE DEF Apart, OneMaker, Making, Over, Moves, build, bundle
<1>1. ASSUME NEW c \in Builds, BuildImage(c) PROVE OneMaker'
    BY <1>1, <1>t DEF BuildImage
<1>2. ASSUME NEW c \in Builds, HashSources(c) PROVE OneMaker'
    BY <1>2, <1>t DEF HashSources
<1>3. ASSUME NEW c \in Builds, RecordAbsent(c) PROVE OneMaker'
    BY <1>3, <1>t DEF RecordAbsent
<1>4. ASSUME NEW c \in Builds, ReplaceRecord(c) PROVE OneMaker'
    BY <1>4, <1>t DEF ReplaceRecord
<1>5. ASSUME NEW c \in Builds, BuildFails(c) PROVE OneMaker'
    BY <1>5, <1>t DEF BuildFails
<1>6. ASSUME NEW c \in Rebinds, NameAbsent(c) PROVE OneMaker'
    BY <1>6, <1>t DEF NameAbsent
<1>7. ASSUME NEW c \in Rebinds, ReadRecord(c) PROVE OneMaker'
    BY <1>7, <1>t DEF ReadRecord
<1>8. ASSUME NEW c \in Rebinds, ReadBase(c) PROVE OneMaker'
    BY <1>8, <1>t DEF ReadBase
<1>9. ASSUME NEW c \in Rebinds, MakeDir(c) PROVE OneMaker'
  <2>1. [by |-> c, files |-> Nothing] # Nobody  BY MadeOfFiles
  <2>. QED  BY <1>9, <1>t, <2>1 DEF MakeDir
<1>10. ASSUME NEW c \in Rebinds, WriteFile(c) PROVE OneMaker'
  <2>1. dest # Nobody => dest' # Nobody  BY <1>10, <1>t, <1>d DEF WriteFile, Directories
  <2>. QED  BY <1>10, <1>t, <2>1 DEF WriteFile
<1>11. ASSUME NEW c \in Rebinds, CheckDerived(c) PROVE OneMaker'
    BY <1>11, <1>t DEF CheckDerived
<1>12. ASSUME NEW c \in Rebinds, RebindFails(c) PROVE OneMaker'
    BY <1>12, <1>t DEF RebindFails
<1>13. ASSUME NEW c \in Rebinds, UndoFiles(c) PROVE OneMaker'
  <2>1. dest # Nobody => dest' # Nobody
    <3>1. CASE dest' = dest
          BY <3>1
    <3>2. CASE dest' # dest
      <4>1. PICK f \in Files : dest # Nobody /\ dest' = [dest EXCEPT !.files[f] = Nobody]
            BY <1>13, <3>2 DEF UndoFiles, Left
      <4>2. dest' \in Directories
            BY <1>d, <4>1 DEF Directories
      <4>. QED  BY <4>2, MadeOfFiles
    <3>. QED  BY <3>1, <3>2
  <2>. QED  BY <1>13, <1>t, <2>1 DEF UndoFiles
<1>14. ASSUME NEW c \in Rebinds, UndoDir(c) PROVE OneMaker'
    BY <1>14, <1>t DEF UndoDir
<1>15. ASSUME NEW c \in Exports, NameAbsent(c) PROVE OneMaker'
    BY <1>15, <1>t DEF NameAbsent
<1>16. ASSUME NEW c \in Exports, TakeLock(c) PROVE OneMaker'
    BY <1>16, <1>t DEF TakeLock
<1>17. ASSUME NEW c \in Exports, FillCandidate(c) PROVE OneMaker'
    BY <1>17, <1>t DEF FillCandidate
<1>18. ASSUME NEW c \in Exports, RenameCandidate(c) PROVE OneMaker'
  <2>1. [by |-> c, files |-> AllOf(c)] # Nobody  BY MadeOfFiles
  <2>. QED  BY <1>18, <1>t, <2>1 DEF RenameCandidate
<1>19. ASSUME NEW c \in Exports, CheckExported(c) PROVE OneMaker'
    BY <1>19, <1>t DEF CheckExported
<1>20. ASSUME NEW c \in Exports, ExportFails(c) PROVE OneMaker'
    BY <1>20, <1>t DEF ExportFails
<1>21. ASSUME NEW c \in Exports, Unlock(c) PROVE OneMaker'
    BY <1>21, <1>t DEF Unlock
<1>22. ASSUME NEW c \in Calls, Interrupt(c) PROVE OneMaker'
    BY <1>22, <1>t DEF Interrupt
<1>23. ASSUME NEW c \in Calls, KillCall(c) PROVE OneMaker'
    BY <1>23, <1>t DEF KillCall
<1>24. CASE Edit
    BY <1>24 DEF Edit
<1>25. CASE UNCHANGED releaseVars
    BY <1>25 DEF releaseVars
<1>. QED
    BY <1>1, <1>2, <1>3, <1>4, <1>5, <1>6, <1>7, <1>8, <1>9, <1>10, <1>11,
       <1>12, <1>13, <1>14, <1>15, <1>16, <1>17, <1>18, <1>19, <1>20, <1>21,
       <1>22, <1>23, <1>24, <1>25 DEF ReleaseNext, BuildStep, RebindStep,
       ExportStep

LEMMA OwnerKept ==
  ASSUME LocalReleaseTypeOK, Apart, OneMaker, OneOwner, [ReleaseNext]_releaseVars
  PROVE  OneOwner'
<1>d. dest \in Directories \cup {Nobody}
      BY DEF LocalReleaseTypeOK
<1>t. /\ phase \in [Calls -> States \cup Over] /\ Calls = Builds \cup Rebinds \cup Exports
      /\ dest # Nobody => /\ dest.files \in [Files -> Calls \cup {Nobody}]
                          /\ dest.by \in Rebinds \cup Exports
    BY <1>d DEF LocalReleaseTypeOK, Calls, Directories
<1> USE DEF Apart, OneMaker, OneOwner, Holds, Making, Over, Moves, build, bundle
<1>1. ASSUME NEW c \in Builds, BuildImage(c) PROVE OneOwner'
    BY <1>1, <1>t DEF BuildImage
<1>2. ASSUME NEW c \in Builds, HashSources(c) PROVE OneOwner'
    BY <1>2, <1>t DEF HashSources
<1>3. ASSUME NEW c \in Builds, RecordAbsent(c) PROVE OneOwner'
    BY <1>3, <1>t DEF RecordAbsent
<1>4. ASSUME NEW c \in Builds, ReplaceRecord(c) PROVE OneOwner'
    BY <1>4, <1>t DEF ReplaceRecord
<1>5. ASSUME NEW c \in Builds, BuildFails(c) PROVE OneOwner'
    BY <1>5, <1>t DEF BuildFails
<1>6. ASSUME NEW c \in Rebinds, NameAbsent(c) PROVE OneOwner'
    BY <1>6, <1>t DEF NameAbsent
<1>7. ASSUME NEW c \in Rebinds, ReadRecord(c) PROVE OneOwner'
    BY <1>7, <1>t DEF ReadRecord
<1>8. ASSUME NEW c \in Rebinds, ReadBase(c) PROVE OneOwner'
    BY <1>8, <1>t DEF ReadBase
<1>9. ASSUME NEW c \in Rebinds, MakeDir(c) PROVE OneOwner'
  <2>1. CASE dest # Nobody
        BY <1>9, <1>t, <2>1 DEF MakeDir
  <2>2. CASE dest = Nobody
    <3>1. dest' = [by |-> c, files |-> Nothing] /\ phase' = [phase EXCEPT ![c] = "filling"]
          BY <1>9, <2>2 DEF MakeDir
    <3>2. \A f \in Files : dest'.files[f] = Nobody
          BY <3>1 DEF Nothing, AllOf
    <3>3. \A r \in Rebinds : phase[r] \notin Making
          BY <2>2
    <3>. QED  BY <3>1, <3>2, <3>3, <1>t
  <2>. QED  BY <2>1, <2>2
<1>10. ASSUME NEW c \in Rebinds, WriteFile(c) PROVE OneOwner'
  <2>1. CASE dest' = dest
        BY <1>10, <1>t, <2>1 DEF WriteFile
  <2>2. CASE dest' # dest
    <3>1. PICK f \in Files : /\ dest # Nobody /\ dest.files[f] = Nobody
                             /\ dest' = [dest EXCEPT !.files[f] = c]
          BY <1>10, <2>2 DEF WriteFile
    <3>2. dest.by = c
          BY <1>10, <1>t, <3>1, AllOfCall DEF WriteFile, Calls
    <3>3. dest'.by = c /\ dest'.files = [dest.files EXCEPT ![f] = c]
          BY <1>d, <3>1, <3>2 DEF Directories
    <3>4. \A g \in Files : dest'.files[g] \in {Nobody, c}
          BY <1>t, <3>1, <3>2, <3>3
    <3>. QED  BY <1>10, <1>t, <3>1, <3>3, <3>4 DEF WriteFile
  <2>. QED  BY <2>1, <2>2
<1>11. ASSUME NEW c \in Rebinds, CheckDerived(c) PROVE OneOwner'
    BY <1>11, <1>t DEF CheckDerived
<1>12. ASSUME NEW c \in Rebinds, RebindFails(c) PROVE OneOwner'
    BY <1>12, <1>t DEF RebindFails
<1>13. ASSUME NEW c \in Rebinds, UndoFiles(c) PROVE OneOwner'
  <2>1. CASE Left = {}
    <3>1. dest # Nobody => dest.files = Nothing
          BY <1>t, <2>1 DEF Left, Nothing, AllOf
    <3>. QED  BY <1>13, <1>t, <2>1, <3>1 DEF UndoFiles
  <2>2. CASE Left # {}
    <3>1. PICK f \in Files : dest # Nobody /\ dest' = [dest EXCEPT !.files[f] = Nobody]
          BY <1>13, <2>2 DEF UndoFiles, Left
    <3>2. phase[c] = "undo" /\ phase' = phase
          BY <1>13, <2>2 DEF UndoFiles
    <3>3. dest'.by = dest.by /\ dest'.files = [dest.files EXCEPT ![f] = Nobody]
          BY <1>d, <3>1 DEF Directories
    <3>4. \A r \in Rebinds : phase[r] \in Making => r = c
          BY <3>2
    <3>. QED  BY <1>t, <3>1, <3>2, <3>3, <3>4
  <2>. QED  BY <2>1, <2>2
<1>14. ASSUME NEW c \in Rebinds, UndoDir(c) PROVE OneOwner'
    BY <1>14, <1>t DEF UndoDir
<1>15. ASSUME NEW c \in Exports, NameAbsent(c) PROVE OneOwner'
    BY <1>15, <1>t DEF NameAbsent
<1>16. ASSUME NEW c \in Exports, TakeLock(c) PROVE OneOwner'
    BY <1>16, <1>t DEF TakeLock
<1>17. ASSUME NEW c \in Exports, FillCandidate(c) PROVE OneOwner'
    BY <1>17, <1>t DEF FillCandidate
<1>18. ASSUME NEW c \in Exports, RenameCandidate(c) PROVE OneOwner'
  <2>1. CASE ~(dest = Nobody \/ dest.files = Nothing)
        BY <1>18, <1>t, <2>1 DEF RenameCandidate
  <2>2. CASE dest = Nobody \/ dest.files = Nothing
    <3>1. dest' = [by |-> c, files |-> AllOf(c)] /\ dest' # Nobody
          BY <1>18, <2>2, MadeOfFiles DEF RenameCandidate
    <3>2. \A f \in Files : dest'.files[f] = c
          BY <3>1 DEF AllOf
    <3>. QED  BY <1>18, <1>t, <3>1, <3>2 DEF RenameCandidate
  <2>. QED  BY <2>1, <2>2
<1>19. ASSUME NEW c \in Exports, CheckExported(c) PROVE OneOwner'
    BY <1>19, <1>t DEF CheckExported
<1>20. ASSUME NEW c \in Exports, ExportFails(c) PROVE OneOwner'
    BY <1>20, <1>t DEF ExportFails
<1>21. ASSUME NEW c \in Exports, Unlock(c) PROVE OneOwner'
    BY <1>21, <1>t DEF Unlock
<1>22. ASSUME NEW c \in Calls, Interrupt(c) PROVE OneOwner'
    BY <1>22, <1>t DEF Interrupt
<1>23. ASSUME NEW c \in Calls, KillCall(c) PROVE OneOwner'
    BY <1>23, <1>t DEF KillCall
<1>24. CASE Edit
    BY <1>24 DEF Edit
<1>25. CASE UNCHANGED releaseVars
    BY <1>25 DEF releaseVars
<1>. QED
    BY <1>1, <1>2, <1>3, <1>4, <1>5, <1>6, <1>7, <1>8, <1>9, <1>10, <1>11,
       <1>12, <1>13, <1>14, <1>15, <1>16, <1>17, <1>18, <1>19, <1>20, <1>21,
       <1>22, <1>23, <1>24, <1>25 DEF ReleaseNext, BuildStep, RebindStep,
       ExportStep

LEMMA BundleKept ==
  ASSUME LocalReleaseTypeOK, Apart, OneMaker, OneOwner, Kept, [ReleaseNext]_releaseVars
  PROVE  Kept'
<1>d. dest \in Directories \cup {Nobody}
      BY DEF LocalReleaseTypeOK
<1>t. /\ phase \in [Calls -> States \cup Over] /\ Calls = Builds \cup Rebinds \cup Exports
      /\ dest # Nobody => /\ dest.files \in [Files -> Calls \cup {Nobody}]
                          /\ dest.by \in Rebinds \cup Exports
    BY <1>d DEF LocalReleaseTypeOK, Calls, Directories
<1> USE DEF Apart, OneMaker, OneOwner, Kept, Holds, Making, Over, Moves, build, bundle
<1>1. ASSUME NEW c \in Builds, BuildImage(c) PROVE Kept'
    BY <1>1, <1>t DEF BuildImage
<1>2. ASSUME NEW c \in Builds, HashSources(c) PROVE Kept'
    BY <1>2, <1>t DEF HashSources
<1>3. ASSUME NEW c \in Builds, RecordAbsent(c) PROVE Kept'
    BY <1>3, <1>t DEF RecordAbsent
<1>4. ASSUME NEW c \in Builds, ReplaceRecord(c) PROVE Kept'
    BY <1>4, <1>t DEF ReplaceRecord
<1>5. ASSUME NEW c \in Builds, BuildFails(c) PROVE Kept'
    BY <1>5, <1>t DEF BuildFails
<1>6. ASSUME NEW c \in Rebinds, NameAbsent(c) PROVE Kept'
    BY <1>6, <1>t DEF NameAbsent
<1>7. ASSUME NEW c \in Rebinds, ReadRecord(c) PROVE Kept'
    BY <1>7, <1>t DEF ReadRecord
<1>8. ASSUME NEW c \in Rebinds, ReadBase(c) PROVE Kept'
    BY <1>8, <1>t DEF ReadBase
<1>9. ASSUME NEW c \in Rebinds, MakeDir(c) PROVE Kept'
    BY <1>9, <1>t DEF MakeDir
<1>10. ASSUME NEW c \in Rebinds, WriteFile(c) PROVE Kept'
  <2>1. dest # Nobody => dest'.by = dest.by /\ dest' # Nobody
        BY <1>10, <1>t, <1>d DEF WriteFile, Directories
  <2>2. CASE dest' = dest
        BY <1>10, <1>t, <2>2 DEF WriteFile
  <2>3. CASE dest' # dest
    <3>1. ~usurped => dest.by = c
          BY <1>10, <1>t DEF WriteFile
    <3>2. dest # Nobody /\ UNCHANGED usurped
          BY <1>10, <2>3 DEF WriteFile
    <3>. QED  BY <1>10, <1>t, <2>1, <3>1, <3>2 DEF WriteFile
  <2>. QED  BY <2>2, <2>3
<1>11. ASSUME NEW c \in Rebinds, CheckDerived(c) PROVE Kept'
    BY <1>11, <1>t DEF CheckDerived
<1>12. ASSUME NEW c \in Rebinds, RebindFails(c) PROVE Kept'
    BY <1>12, <1>t DEF RebindFails
<1>13. ASSUME NEW c \in Rebinds, UndoFiles(c) PROVE Kept'
  <2>1. CASE Left = {}
        BY <1>13, <1>t, <2>1 DEF UndoFiles
  <2>2. CASE Left # {}
    <3>1. PICK f \in Files : dest # Nobody /\ dest' = [dest EXCEPT !.files[f] = Nobody]
          BY <1>13, <2>2 DEF UndoFiles, Left
    <3>2. phase[c] = "undo" /\ phase' = phase /\ usurped' = usurped
          BY <1>13, <2>2 DEF UndoFiles
    <3>3. dest'.by = dest.by /\ dest' # Nobody
      <4>1. dest' \in Directories /\ dest'.by = dest.by
            BY <1>d, <3>1 DEF Directories
      <4>. QED  BY <4>1, MadeOfFiles
    <3>4. ~usurped => dest.by = c
          BY <3>2
    <3>5. ~usurped =>
            /\ \A e \in Exports : phase[e] \notin {"renamed", "checked"}
            /\ \A b \in Rebinds \cup Exports : phase[b] # "returned"
          BY <1>t, <3>2, <3>4, CallsApart
    <3>. QED  BY <1>t, <3>2, <3>3, <3>4, <3>5
  <2>. QED  BY <2>1, <2>2
<1>14. ASSUME NEW c \in Rebinds, UndoDir(c) PROVE Kept'
    BY <1>14, <1>t DEF UndoDir
<1>15. ASSUME NEW c \in Exports, NameAbsent(c) PROVE Kept'
    BY <1>15, <1>t DEF NameAbsent
<1>16. ASSUME NEW c \in Exports, TakeLock(c) PROVE Kept'
    BY <1>16, <1>t DEF TakeLock
<1>17. ASSUME NEW c \in Exports, FillCandidate(c) PROVE Kept'
    BY <1>17, <1>t DEF FillCandidate
<1>18. ASSUME NEW c \in Exports, RenameCandidate(c) PROVE Kept'
  <2>1. CASE ~(dest = Nobody \/ dest.files = Nothing)
        BY <1>18, <1>t, <2>1 DEF RenameCandidate
  <2>2. CASE dest = Nobody \/ dest.files = Nothing
    <3>1. dest' = [by |-> c, files |-> AllOf(c)] /\ dest' # Nobody
          BY <1>18, <2>2, MadeOfFiles DEF RenameCandidate
    <3>2. phase' = [phase EXCEPT ![c] = "renamed"] /\ usurped' = (usurped \/ dest # Nobody)
          BY <1>18, <2>2 DEF RenameCandidate
    <3>3. CASE dest = Nobody
      <4>1. dest'.by = c /\ Holds(c)'  BY <3>1
      <4>2. ~usurped => /\ \A r \in Rebinds : phase[r] \notin Making
                        /\ \A e \in Exports : phase[e] \notin {"renamed", "checked"}
                        /\ \A r \in Rebinds \cup Exports : phase[r] # "returned"
            BY <3>3
      <4>. QED  BY <1>t, <3>1, <3>2, <3>3, <4>1, <4>2
    <3>4. CASE dest # Nobody
          BY <3>2, <3>4, <1>t
    <3>. QED  BY <3>3, <3>4
  <2>. QED  BY <2>1, <2>2
<1>19. ASSUME NEW c \in Exports, CheckExported(c) PROVE Kept'
    BY <1>19, <1>t DEF CheckExported
<1>20. ASSUME NEW c \in Exports, ExportFails(c) PROVE Kept'
    BY <1>20, <1>t DEF ExportFails
<1>21. ASSUME NEW c \in Exports, Unlock(c) PROVE Kept'
    BY <1>21, <1>t DEF Unlock
<1>22. ASSUME NEW c \in Calls, Interrupt(c) PROVE Kept'
    BY <1>22, <1>t DEF Interrupt
<1>23. ASSUME NEW c \in Calls, KillCall(c) PROVE Kept'
    BY <1>23, <1>t DEF KillCall
<1>24. CASE Edit
    BY <1>24 DEF Edit
<1>25. CASE UNCHANGED releaseVars
    BY <1>25 DEF releaseVars
<1>. QED
    BY <1>1, <1>2, <1>3, <1>4, <1>5, <1>6, <1>7, <1>8, <1>9, <1>10, <1>11,
       <1>12, <1>13, <1>14, <1>15, <1>16, <1>17, <1>18, <1>19, <1>20, <1>21,
       <1>22, <1>23, <1>24, <1>25 DEF ReleaseNext, BuildStep, RebindStep,
       ExportStep

LEMMA ReleaseInitial == ReleaseInit => ReleaseInv
<1> SUFFICES ASSUME ReleaseInit PROVE ReleaseInv
    OBVIOUS
<1> USE DEF ReleaseInit
<1>1. phase \in [Calls -> States \cup Over]
      BY DEF States
<1>2. source \in Versions /\ edits \in 0..MaxEdit
      OBVIOUS
<1>3. /\ image \in [Builds -> Versions \cup {Nobody}] /\ hashed \in [Builds -> Versions \cup {Nobody}]
      /\ torn \subseteq Builds /\ record \in Builds \cup {Nobody}
      OBVIOUS
<1>4. /\ uses \in [Rebinds -> Builds \cup {Nobody}]
      /\ lock \in Exports \cup {Nobody} /\ usurped \in BOOLEAN /\ cut \subseteq Calls
      OBVIOUS
<1>5. Apart /\ Recorded /\ \A r \in Rebinds : Bound(r)
      BY DEF Apart, Recorded, Bound, Making, Over, Calls
<1>6. OneMaker /\ OneOwner /\ Kept
      BY DEF OneMaker, OneOwner, Kept, Making, Calls
<1>. QED
    BY <1>1, <1>2, <1>3, <1>4, <1>5, <1>6 DEF ReleaseInv, LocalReleaseTypeOK

LEMMA ReleaseKeeps == ReleaseInv /\ [ReleaseNext]_releaseVars => ReleaseInv'
BY TypesKept, PlacesKept, RecordsKept, MakerKept, OwnerKept, BundleKept DEF ReleaseInv

(* Every reachable state satisfies the invariant (local_bundle_rebind.py:216).*)
THEOREM ReleaseInductive == ReleaseSpec => []ReleaseInv
BY ReleaseInitial, ReleaseKeeps, PTL DEF ReleaseSpec

LEMMA StaysOfInvariant == ReleaseInv => BundleStays
<1> SUFFICES ASSUME ReleaseInv PROVE BundleStays
    OBVIOUS
<1>1. RebindUndone
  <2> SUFFICES ASSUME NEW r \in Rebinds, phase[r] = "failed", dest # Nobody
               PROVE  dest.by # r /\ \A f \in Files : dest.files[f] # r
      BY DEF RebindUndone
  <2>1. dest.by # r
        BY DEF ReleaseInv, OneOwner, Making
  <2>. QED  BY <2>1 DEF ReleaseInv, OneOwner, Calls
<1>2. \A c \in Rebinds \cup Exports : phase[c] = "returned" /\ ~usurped => dest.by = c /\ Holds(c)
      BY DEF ReleaseInv, Kept
<1>. QED  BY <1>1, <1>2 DEF BundleStays, ReleaseInv

(* A rebind that fails, also one that is interrupted while it fills its      *)
(* directory, leaves nothing of its own below the bundle's name, and undoes  *)
(* nothing else: a bundle that was returned stays whole under its name,      *)
(* unless an export was renamed over a rebind's empty directory              *)
(* (local_bundle_rebind.py:258-275, s1_portable_runtime.py).                 *)
THEOREM BundleStaysHolds == ReleaseSpec => []BundleStays
BY ReleaseInductive, StaysOfInvariant, PTL

(* The image of a derived bundle was built from the sources that the         *)
(* published bundle pins, unless they were edited between the build and      *)
(* their hash (local_extractor_release.py, local_bundle_rebind.py:169).      *)
THEOREM ImageIsPinnedHolds == ReleaseSpec => []ImageIsPinned
<1>1. ReleaseInv => ImageIsPinned
  <2> SUFFICES ASSUME ReleaseInv, NEW r \in Rebinds, phase[r] = "returned", uses[r] \notin torn
               PROVE  image[uses[r]] = 0
      BY DEF ImageIsPinned
  <2>1. uses[r] \in Builds /\ hashed[uses[r]] = 0
        BY DEF ReleaseInv, LocalReleaseTypeOK, Bound
  <2>. QED  BY <2>1 DEF ReleaseInv, Recorded
<1>. QED  BY ReleaseInductive, <1>1, PTL
=============================================================================
