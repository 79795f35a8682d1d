---------------------------- MODULE LocalRelease ----------------------------
(* From the checked-in sources to a model bundle under one name: builds of  *)
(* the local extractor image and their record (local_extractor_release.py), *)
(* rebinds that copy the published bundle with the local image in it        *)
(* (local_bundle_rebind.py) and exports of a bundle to the same name        *)
(* (s1_portable_runtime.py).                                                *)
(* An export renames a finished directory; a rebind fills its directory in  *)
(* place and takes it back when it fails.  Calls overlap, fail, are         *)
(* interrupted or killed, and the sources are edited.  Errors of an unlink  *)
(* and changes made by hand below the name are left out.                    *)
EXTENDS Naturals, FiniteSets
CONSTANTS
  Builds, Rebinds, Exports,  \* the calls
  Nobody,
  Files,     \* 1..n: the files of a bundle, in the order they are written
  Versions,  \* of the sources; the published bundle pins version 0
  MaxEdit, MaxCut

Calls == Builds \cup Rebinds \cup Exports
Last == Cardinality(Files)
\* A bundle's directory: who made it, and who wrote each of its files.
Directories == [by : Rebinds \cup Exports, files : [Files -> Calls \cup {Nobody}]]
ASSUME CallsApart ==
  /\ Builds \cap Rebinds = {} /\ Builds \cap Exports = {} /\ Rebinds \cap Exports = {}
  /\ Nobody \notin Calls \cup Versions \cup Directories
ASSUME FilesAreNumbered == Last \in Nat \ {0} /\ Files = 1..Last
ASSUME PinnedVersion == 0 \in Versions
ASSUME EditsAreBounded == MaxEdit \in Nat

VARIABLES
  phase,
  source,   \* the version that is checked in
  image,    \* the version each build's image was made of
  hashed,   \* the version that its record names
  torn,     \* the builds that an edit overtook (history)
  record,   \* the build whose record is at the record's path
  uses,     \* the build whose image each rebind binds
  lock,     \* the export whose lock directory exists
  dest,     \* the bundle's directory, if there is one
  usurped,  \* an export replaced a rebind's empty directory (history)
  cut,      \* the calls that were interrupted or killed
  edits

build == <<source, image, hashed, torn, record, edits>>
bundle == <<lock, dest, usurped>>
releaseVars == <<phase, build, uses, bundle, cut>>

Over == {"returned", "failed", "dead"}
AllOf(c) == [f \in Files |-> c]
Nothing == AllOf(Nobody)
Moves(c, from, to) == phase[c] = from /\ phase' = [phase EXCEPT ![c] = to]
Holds(c) == dest # Nobody /\ dest.files = AllOf(c)

ReleaseInit ==
  /\ phase = [c \in Calls |-> "idle"]
  /\ source = 0 /\ record = Nobody /\ edits = 0 /\ torn = {}
  /\ image = [b \in Builds |-> Nobody]
  /\ hashed = [b \in Builds |-> Nobody]
  /\ uses = [r \in Rebinds |-> Nobody]
  /\ lock = Nobody /\ dest = Nobody /\ usurped = FALSE
  /\ cut = {}

-----------------------------------------------------------------------------
(* Builds *)

\* `docker build` reads the sources.
BuildImage(b) ==
  /\ Moves(b, "idle", "built")
  /\ image' = [image EXCEPT ![b] = source]
  /\ UNCHANGED <<source, hashed, torn, record, edits, uses, bundle, cut>>

\* After the image's packages have been checked the sources are hashed.
HashSources(b) ==
  /\ Moves(b, "built", "hashed")
  /\ hashed' = [hashed EXCEPT ![b] = source]
  /\ UNCHANGED <<source, image, torn, record, edits, uses, bundle, cut>>

RecordAbsent(b) ==
  /\ IF record = Nobody THEN Moves(b, "hashed", "absent") ELSE Moves(b, "hashed", "failed")
  /\ UNCHANGED <<build, uses, bundle, cut>>

\* os.replace: a record that has appeared meanwhile is lost.
ReplaceRecord(b) ==
  /\ Moves(b, "absent", "returned")
  /\ record' = b
  /\ UNCHANGED <<source, image, hashed, torn, edits, uses, bundle, cut>>

BuildFails(b) ==
  /\ phase[b] \in {"idle", "built", "hashed", "absent"} /\ phase' = [phase EXCEPT ![b] = "failed"]
  /\ UNCHANGED <<build, uses, bundle, cut>>

-----------------------------------------------------------------------------
(* Rebinds and exports *)

\* Both begin by refusing a name that exists.
NameAbsent(c) ==
  /\ IF dest = Nobody THEN Moves(c, "idle", "absent") ELSE Moves(c, "idle", "failed")
  /\ UNCHANGED <<build, uses, bundle, cut>>

\* validate_local_extractor_record: against the sources and the image of today.
ReadRecord(r) ==
  /\ IF record # Nobody /\ hashed[record] = source
       THEN Moves(r, "absent", "validated") /\ uses' = [uses EXCEPT ![r] = record]
       ELSE Moves(r, "absent", "failed") /\ UNCHANGED uses
  /\ UNCHANGED <<build, bundle, cut>>

\* (faulty) the record's sources are not compared with the bundle's
ReadBaseUnpinned(r) ==
  /\ Moves(r, "validated", "ready")
  /\ UNCHANGED <<build, uses, bundle, cut>>

\* The published bundle is extracted and loaded: the record's sources must be
\* those that it pins.
ReadBase(r) ==
  /\ phase[r] = "validated"
  /\ IF hashed[uses[r]] = 0 THEN Moves(r, "validated", "ready")
                          ELSE Moves(r, "validated", "failed")
  /\ UNCHANGED <<build, uses, bundle, cut>>

MakeDir(r) ==
  /\ IF dest = Nobody
       THEN Moves(r, "ready", "filling") /\ dest' = [by |-> r, files |-> Nothing]
       ELSE Moves(r, "ready", "failed") /\ UNCHANGED dest
  /\ UNCHANGED <<build, uses, lock, usurped, cut>>

\* Each file is created exclusively, below the name; an error starts the undo.
Written(r) == {f \in Files : dest # Nobody /\ dest.files[f] = r}
WriteFile(r) ==
  LET f == Cardinality(Written(r)) + 1 IN
  /\ IF f \in Files /\ dest # Nobody /\ dest.files[f] = Nobody
       THEN /\ dest' = [dest EXCEPT !.files[f] = r]
            /\ IF f = Last THEN Moves(r, "filling", "filled") ELSE Moves(r, "filling", "filling")
       ELSE Moves(r, "filling", "undo") /\ UNCHANGED dest
  /\ UNCHANGED <<build, uses, lock, usurped, cut>>

\* The derived bundle is loaded and its identity compared.
CheckDerived(r) ==
  /\ IF Holds(r) THEN Moves(r, "filled", "returned") ELSE Moves(r, "filled", "undo")
  /\ UNCHANGED <<build, uses, bundle, cut>>

\* An error; while the files are written any exception starts the undo, then
\* those that the handler names (the others are Interrupt's).
RebindFails(r) ==
  /\ \/ /\ phase[r] \in {"idle", "absent", "validated", "ready"}
        /\ phase' = [phase EXCEPT ![r] = "failed"]
     \/ phase[r] \in {"filling", "filled"} /\ phase' = [phase EXCEPT ![r] = "undo"]
  /\ UNCHANGED <<build, uses, bundle, cut>>

\* (faulty) only the directory is removed, if it is empty
UndoFilesForgotten(r) ==
  /\ Moves(r, "undo", "emptied")
  /\ UNCHANGED <<build, uses, bundle, cut>>

\* The expected names below the name are unlinked one by one ...
Left == {f \in Files : dest # Nobody /\ dest.files[f] # Nobody}
UndoFiles(r) ==
  /\ phase[r] = "undo"
  /\ IF Left = {}
       THEN Moves(r, "undo", "emptied") /\ UNCHANGED dest
       ELSE /\ \E f \in Left : /\ \A g \in Left : f <= g
                              /\ dest' = [dest EXCEPT !.files[f] = Nobody]
            /\ UNCHANGED phase
  /\ UNCHANGED <<build, uses, lock, usurped, cut>>

\* ... and the directory goes if it is empty.
UndoDir(r) ==
  /\ Moves(r, "emptied", "failed")
  /\ dest' = IF dest # Nobody /\ dest.files = Nothing THEN Nobody ELSE dest
  /\ UNCHANGED <<build, uses, lock, usurped, cut>>

TakeLock(e) ==
  /\ IF lock = Nobody THEN Moves(e, "absent", "locked") /\ lock' = e
                    ELSE Moves(e, "absent", "failed") /\ UNCHANGED lock
  /\ UNCHANGED <<build, uses, dest, usurped, cut>>

\* The candidate directory is made, filled, synced and loaded.  If it cannot
\* even be made the lock stays.
FillCandidate(e) ==
  /\ Moves(e, "locked", "ready") \/ Moves(e, "locked", "failed")
  /\ UNCHANGED <<build, uses, bundle, cut>>

\* A rename replaces an empty directory.
RenameCandidate(e) ==
  /\ IF dest = Nobody \/ dest.files = Nothing
       THEN /\ Moves(e, "ready", "renamed")
            /\ dest' = [by |-> e, files |-> AllOf(e)]
            /\ usurped' = (usurped \/ dest # Nobody)
       ELSE Moves(e, "ready", "unlock") /\ UNCHANGED <<dest, usurped>>
  /\ UNCHANGED <<build, uses, lock, cut>>

CheckExported(e) ==
  /\ IF Holds(e) THEN Moves(e, "renamed", "checked") ELSE Moves(e, "renamed", "unlock")
  /\ UNCHANGED <<build, uses, bundle, cut>>

ExportFails(e) ==
  /\ \/ phase[e] \in {"idle", "absent"} /\ phase' = [phase EXCEPT ![e] = "failed"]
     \/ phase[e] \in {"ready", "renamed", "checked"} /\ phase' = [phase EXCEPT ![e] = "unlock"]
  /\ UNCHANGED <<build, uses, bundle, cut>>

\* The `finally`: the candidate, unless it was renamed, and the lock.
Unlock(e) ==
  /\ Moves(e, "checked", "returned") \/ Moves(e, "unlock", "failed")
  /\ lock' = Nobody
  /\ UNCHANGED <<build, uses, dest, usurped, cut>>

-----------------------------------------------------------------------------
(* The world *)

Edit ==
  /\ edits < MaxEdit /\ edits' = edits + 1
  /\ source' \in Versions \ {source}
  /\ torn' = torn \cup {b \in Builds : phase[b] = "built"}
  /\ UNCHANGED <<phase, image, hashed, record, uses, bundle, cut>>

\* KeyboardInterrupt, or an exception of a type that the handler around the
\* check of the derived bundle does not name, reaches the handlers that catch
\* every exception and the `finally`; a kill reaches nothing.
Interrupt(c) ==
  /\ Cardinality(cut) < MaxCut /\ cut' = cut \cup {c}
  /\ phase[c] \notin Over \cup {"idle"}
  /\ phase' = [phase EXCEPT ![c] =
              IF c \in Rebinds /\ @ = "filling" THEN "undo"
              ELSE IF c \in Exports /\ @ \in {"ready", "renamed", "checked"} THEN "unlock"
              ELSE "dead"]
  /\ UNCHANGED <<build, uses, bundle>>

KillCall(c) ==
  /\ Cardinality(cut) < MaxCut /\ cut' = cut \cup {c}
  /\ phase[c] \notin Over \cup {"idle"} /\ phase' = [phase EXCEPT ![c] = "dead"]
  /\ UNCHANGED <<build, uses, bundle>>

BuildStep(b) == BuildImage(b) \/ HashSources(b) \/ RecordAbsent(b) \/ ReplaceRecord(b) \/ BuildFails(b)
RebindStep(r) == \/ NameAbsent(r) \/ ReadRecord(r) \/ ReadBase(r) \/ MakeDir(r) \/ WriteFile(r)
                 \/ CheckDerived(r) \/ RebindFails(r) \/ UndoFiles(r) \/ UndoDir(r)
ExportStep(e) == \/ NameAbsent(e) \/ TakeLock(e) \/ FillCandidate(e) \/ RenameCandidate(e)
                 \/ CheckExported(e) \/ ExportFails(e) \/ Unlock(e)

ReleaseNext == \/ \E b \in Builds : BuildStep(b)
        \/ \E r \in Rebinds : RebindStep(r)
        \/ \E e \in Exports : ExportStep(e)
        \/ Edit \/ \E c \in Calls : Interrupt(c) \/ KillCall(c)

ReleaseSpec == ReleaseInit /\ [][ReleaseNext]_releaseVars

-----------------------------------------------------------------------------
(* Properties *)

States == {"idle", "built", "hashed", "absent", "validated", "ready", "filling", "filled", "undo",
           "emptied", "locked", "renamed", "checked", "unlock"}
(* The variables have their types. *)
LocalReleaseTypeOK ==
  /\ phase \in [Calls -> States \cup Over]
  /\ source \in Versions /\ edits \in 0..MaxEdit
  /\ image \in [Builds -> Versions \cup {Nobody}] /\ hashed \in [Builds -> Versions \cup {Nobody}]
  /\ torn \subseteq Builds /\ record \in Builds \cup {Nobody}
  /\ uses \in [Rebinds -> Builds \cup {Nobody}]
  /\ lock \in Exports \cup {Nobody} /\ usurped \in BOOLEAN /\ cut \subseteq Calls
  /\ dest \in Directories \cup {Nobody}

(* A rebind that fails half way takes back what it generated: no file of    *)
(* its own and no directory of its own is left (local_bundle_rebind.py:265).*)
(* Only a process that is killed, or interrupted outside the handler that   *)
(* undoes, leaves something: it is dead and not failed.                     *)
RebindUndone ==
  \A r \in Rebinds : (phase[r] = "failed" /\ dest # Nobody) =>
    dest.by # r /\ \A f \in Files : dest.files[f] # r

(* ... and only that: a bundle whose export or rebind has returned stays    *)
(* whole under its name, whichever other calls run, fail and undo what they *)
(* did.  The one exception is in the code: an export may have renamed its   *)
(* bundle over the empty directory of a rebind, which then undoes itself on *)
(* the export's files.                                                      *)
BundleStays ==
  LocalReleaseTypeOK /\ RebindUndone /\
  \A c \in Rebinds \cup Exports : (phase[c] = "returned" /\ ~usurped) => dest.by = c /\ Holds(c)

(* A derived bundle binds an image that was built from the very sources     *)
(* that the published bundle pins, although the record that says so is a    *)
(* file of its own which other builds replace while the sources change.     *)
(* The exception again is in the code: the sources are hashed after the     *)
(* build, so an edit in between goes into the record unseen.                *)
ImageIsPinned ==
  \A r \in Rebinds : (phase[r] = "returned" /\ uses[r] \notin torn) => image[uses[r]] = 0
=============================================================================
