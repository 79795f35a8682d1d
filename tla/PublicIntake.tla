----------------------------- MODULE PublicIntake -----------------------------
(* The intake of a completed public release (src/bitsign_motion/            *)
(* public_s1_release_intake.py): the documents of a source directory are    *)
(* read one by one while an operator may replace them, checked against each *)
(* other and against a reviewed policy, and published as one directory that *)
(* no other call may replace.  A document names others by digest: a digest  *)
(* of a document is the document.                                           *)
EXTENDS Integers, FiniteSets, Sequences
CONSTANTS
  Intakes,      \* calls of intake with one destination
  Releases,   \* [identity, review, manifest, portable]: sets of documents
              \* that a release has; several may share some
  MaxEdit, MaxFailure

ASSUME Documents == \A r \in Releases : DOMAIN r = {"identity", "review", "manifest", "portable"}
\* A release manifest names an archive by the digest of the bundle's manifest.
ASSUME ArchiveBound == \A r, s \in Releases : r.portable.model = s.portable.model => r.portable = s.portable

VARIABLES
  source,     \* the documents in the source directory
  policy,     \* the policy file: the documents a reviewer has approved
  place, view,   \* of each call: where it is, what it has read
  trusted,    \* of each call: the policy it has loaded
  temporary,  \* of each call: its own directory
  destination,
  renamed,    \* calls that have published
  edits, failures
intakeVars == <<source, policy, place, view, trusted, temporary, destination, renamed, edits, failures>>

Absent == [archive |-> {}, evidence |-> {}, there |-> FALSE]
Directory(archive, evidence) == [archive |-> archive, evidence |-> evidence, there |-> TRUE]
Bare == Directory({}, {})
Approved(r) == [identity |-> r.identity, review |-> r.review, manifest |-> r.manifest]

\* _source_root reads the documents, the portable directory, and the documents
\* again.
Reads == <<"identity", "review", "manifest", "portable", "identity", "review", "manifest">>

IntakeInit ==
  /\ source \in Releases /\ policy \in {Approved(r) : r \in Releases}
  /\ place = [c \in Intakes |-> "called"] /\ view = [c \in Intakes |-> <<>>]
  /\ trusted = [c \in Intakes |-> policy] /\ temporary = [c \in Intakes |-> Absent]
  /\ destination = Absent /\ renamed = {} /\ edits = 0 /\ failures = 0

Goto(c, where) == place' = [place EXCEPT ![c] = where]

-----------------------------------------------------------------------------
(* What the documents must say of each other *)

\* _validate_release_policy
PolicyAgrees(p, d) == p = Approved(d)

\* (faulty) the manifest is not compared with the portable model
LinkedLax(d) ==
  /\ d.identity.review = d.review /\ d.portable.identity = d.identity
  /\ d.portable.review = d.review
  /\ d.manifest.identity = d.identity /\ d.manifest.review = d.review

\* _validate_outer_documents, _validate_rights_review
Linked(d) ==
  /\ d.identity.review = d.review /\ d.portable.identity = d.identity
  /\ d.portable.review = d.review
  /\ d.manifest.identity = d.identity /\ d.manifest.review = d.review
  /\ d.manifest.model = d.portable.model

\* A release that was made agrees with itself.
ASSUME ReleasesLinked == \A r \in Releases : Linked(r)

\* _projection: the evidence is the documents, the policy and the archive.
Projection(d, p) == [documents |-> Approved(d), policy |-> p, archive |-> d.portable]

\* _validate_projection
ProjectionValid(evidence, archive, p) ==
  /\ evidence.policy = p /\ evidence.archive = archive
  /\ LET d == evidence.documents
         all == [identity |-> d.identity, review |-> d.review, manifest |-> d.manifest,
                 portable |-> archive]
     IN PolicyAgrees(p, all) /\ Linked(all)

-----------------------------------------------------------------------------
(* A call of intake_public_s1_finetune_release *)

\* The destination must not exist; the policy is loaded.
Begin(c) ==
  /\ place[c] = "called"
  /\ IF destination.there THEN Goto(c, "refused") /\ UNCHANGED trusted
     ELSE Goto(c, "read") /\ trusted' = [trusted EXCEPT ![c] = policy]
  /\ UNCHANGED <<source, policy, view, temporary, destination, renamed, edits, failures>>

Read(c) ==
  /\ place[c] = "read" /\ Len(view[c]) < Len(Reads)
  /\ view' = [view EXCEPT ![c] = Append(@, source[Reads[Len(@) + 1]])]
  /\ UNCHANGED <<source, policy, place, trusted, temporary, destination, renamed, edits, failures>>

Seen(c) == [identity |-> view[c][1], review |-> view[c][2], manifest |-> view[c][3],
            portable |-> view[c][4]]
Unchanged(c) == \A i \in 1..3 : view[c][i] = view[c][i + 4]

\* The checks, and mkdtemp
Check(c) ==
  /\ place[c] = "read" /\ Len(view[c]) = Len(Reads)
  /\ IF PolicyAgrees(trusted[c], Seen(c)) /\ Linked(Seen(c)) /\ Unchanged(c)
     THEN Goto(c, "archive") /\ temporary' = [temporary EXCEPT ![c] = Bare]
     ELSE Goto(c, "refused") /\ UNCHANGED temporary
  /\ UNCHANGED <<source, policy, view, trusted, destination, renamed, edits, failures>>

WriteArchive(c) ==
  /\ place[c] = "archive"
  /\ temporary' = [temporary EXCEPT ![c] = Directory({Seen(c).portable}, {})]
  /\ Goto(c, "evidence")
  /\ UNCHANGED <<source, policy, view, trusted, destination, renamed, edits, failures>>

WriteEvidence(c) ==
  /\ place[c] = "evidence"
  /\ temporary' =
       [temporary EXCEPT ![c] = Directory(@.archive, {Projection(Seen(c), trusted[c])})]
  /\ Goto(c, "rename")
  /\ UNCHANGED <<source, policy, view, trusted, destination, renamed, edits, failures>>

\* _rename_no_replace
Rename(c) ==
  /\ place[c] = "rename"
  /\ IF destination.there THEN Goto(c, "cleanup") /\ UNCHANGED <<destination, renamed, temporary>>
     ELSE /\ Goto(c, "verify") /\ destination' = temporary[c] /\ renamed' = renamed \cup {c}
          /\ temporary' = [temporary EXCEPT ![c] = Absent]
  /\ UNCHANGED <<source, policy, view, trusted, edits, failures>>

\* verify_public_s1_finetune_intake loads the policy again; a refusal leaves
\* what is published.
VerifyAgain(c) ==
  /\ place[c] = "verify"
  /\ LET evidence == CHOOSE e \in destination.evidence : TRUE
         archive == CHOOSE a \in destination.archive : TRUE
     IN Goto(c, IF ProjectionValid(evidence, archive, policy) THEN "returned" ELSE "unverified")
  /\ UNCHANGED <<source, policy, view, trusted, temporary, destination, renamed, edits, failures>>

\* _cleanup_unpublished: the directory is the call's own.  An OSError on the
\* way is not reported; what it leaves is not read again.
Cleanup(c) ==
  /\ place[c] = "cleanup"
  /\ \/ Goto(c, "refused") /\ temporary' = [temporary EXCEPT ![c] = Absent]
     \/ Goto(c, "littered") /\ UNCHANGED temporary
  /\ UNCHANGED <<source, policy, view, trusted, destination, renamed, edits, failures>>

\* A write or the rename fails.
Fail(c) ==
  /\ place[c] \in {"archive", "evidence", "rename"} /\ failures < MaxFailure
  /\ Goto(c, "cleanup") /\ failures' = failures + 1
  /\ UNCHANGED <<source, policy, view, trusted, temporary, destination, renamed, edits>>

\* The process is killed; its directory stays.
KillIntake(c) ==
  /\ place[c] \notin {"called", "returned", "unverified", "refused", "littered", "killed"}
  /\ failures < MaxFailure
  /\ Goto(c, "killed") /\ failures' = failures + 1
  /\ UNCHANGED <<source, policy, view, trusted, temporary, destination, renamed, edits>>

-----------------------------------------------------------------------------
(* The operator *)

Replace(document, r) ==
  /\ edits < MaxEdit /\ source[document] # r[document]
  /\ source' = [source EXCEPT ![document] = r[document]] /\ edits' = edits + 1
  /\ UNCHANGED <<policy, place, view, trusted, temporary, destination, renamed, failures>>

Approve(r) ==
  /\ edits < MaxEdit /\ policy # Approved(r)
  /\ policy' = Approved(r) /\ edits' = edits + 1
  /\ UNCHANGED <<source, place, view, trusted, temporary, destination, renamed, failures>>

IntakeNext ==
  \/ \E c \in Intakes :
       \/ Begin(c) \/ Read(c) \/ Check(c) \/ WriteArchive(c) \/ WriteEvidence(c)
       \/ Rename(c) \/ VerifyAgain(c) \/ Cleanup(c) \/ Fail(c) \/ KillIntake(c)
  \/ \E r \in Releases : Approve(r) \/ \E document \in DOMAIN source : Replace(document, r)

IntakeSpec == IntakeInit /\ [][IntakeNext]_intakeVars

-----------------------------------------------------------------------------
(* Correctness *)

\* What is published is one approved release: the archive is the model of its
\* manifest, and all documents name each other, whatever the operator replaced
\* meanwhile.
OneRelease ==
  destination.there =>
    \E r \in Releases :
      /\ destination.archive = {r.portable}
      /\ destination.evidence = {Projection(r, Approved(r))}

\* It was published by one call and never replaced; a call that returns has
\* published it; and a call that is refused leaves nothing behind, unless the
\* removal itself failed.
PublishedOnce ==
  /\ Cardinality(renamed) <= 1 /\ (destination.there <=> renamed # {})
  /\ \A c \in Intakes :
       /\ place[c] = "returned" =>
            renamed = {c} /\ destination.evidence = {Projection(Seen(c), trusted[c])}
       /\ place[c] = "refused" => ~temporary[c].there

IntakeWhole == OneRelease /\ PublishedOnce
=============================================================================
