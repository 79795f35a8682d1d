---------------------------- MODULE ReleaseHistory ----------------------------
(* The release tool (tools/release_artifacts.py) and the history it         *)
(* accepts: a tested commit, a commit that adds only the end-to-end         *)
(* evidence of the test, and a commit that adds only the release metadata.  *)
(* A maintainer edits and commits between the tool's commands.  A file is   *)
(* its content, and a digest of a content is the content.                   *)
EXTENDS Integers, FiniteSets, Sequences, SequencesExt
CONSTANTS
  Kinds,      \* the release profiles: "baseline", "public"
  Versions,   \* contents of a source file, revisions of UMI
  MaxEdit, MaxCommit, MaxCreate

ASSUME Profiles == Kinds \subseteq {"baseline", "public"} /\ Kinds # {}
ASSUME Versioned == 0 \in Versions

VARIABLES
  kind,       \* the profile of the release
  tree,       \* the working tree
  commits,    \* the history: [parents, tree]
  sealed,     \* metadata has just been generated, and nothing changed since
  accepted,   \* commits the tool has verified
  edits, created
vars == <<kind, tree, commits, sealed, accepted, edits, created>>

Absent == [absent |-> TRUE]
\* An archive carries the digests of the sources it was made from; its
\* inference revision is the digest of what it carries.
Archives == [sources : Versions]
Revision(archive) == archive
Anything == [explicit |-> TRUE]  \* a rebinder that takes its base as an argument
Artifacts == {"archive", "evidence", "companion", "e2e"}
Metadata == {"manifest", "sums"}
Staged == {"manifest", "sums", "e2e"}   \* absent from some trees

Tree(runtime, rebinder) ==
  [runtime |-> runtime, rebinder |-> rebinder, license |-> 0, companion |-> 0,
   archive |-> [sources |-> 0], evidence |-> [sources |-> 0],
   e2e |-> Absent, manifest |-> Absent, sums |-> Absent, stray |-> FALSE]

Init ==
  /\ kind \in Kinds
  /\ tree = Tree(0, IF kind = "public" THEN Anything ELSE [sources |-> 0])
  /\ commits = <<[parents |-> <<>>, tree |-> tree]>>
  /\ sealed = FALSE /\ accepted = {} /\ edits = 0 /\ created = 0

-----------------------------------------------------------------------------
(* The maintainer *)

Contents ==
  [runtime |-> Versions, rebinder |-> Archives \cup {Anything}, license |-> Versions,
   companion |-> Versions, archive |-> Archives, evidence |-> Archives,
   stray |-> BOOLEAN]

Edit(file, content) ==
  /\ edits < MaxEdit /\ tree[file] # content
  /\ tree' = [tree EXCEPT ![file] = content]
  /\ sealed' = FALSE /\ edits' = edits + 1
  /\ UNCHANGED <<kind, commits, accepted, created>>

\* The end-to-end test writes its evidence about a commit and the archive.
Capture(tested, umi) ==
  /\ edits < MaxEdit + 1
  /\ tree' = [tree EXCEPT !.e2e =
       [base |-> Revision(tree.archive), derived |-> tree.archive,
        tested |-> tested, umi |-> umi]]
  /\ tree'.e2e # tree.e2e
  /\ sealed' = FALSE /\ edits' = edits + 1
  /\ UNCHANGED <<kind, commits, accepted, created>>

\* git commit -a, of a merge when another parent is given
Commit(others) ==
  /\ Len(commits) < MaxCommit
  /\ tree # Last(commits).tree
  /\ commits' = Append(commits, [parents |-> <<Len(commits)>> \o others, tree |-> tree])
  /\ UNCHANGED <<kind, tree, sealed, accepted, edits, created>>

-----------------------------------------------------------------------------
(* What the artifacts of a directory must satisfy *)

Present(t) == {f \in Staged : t[f] # Absent}
Digests(t) == [f \in Artifacts |-> t[f]]

\* _validate_companion_artifacts, _validate_public_companions
CompanionsAgree(t) == t.companion = t.license

\* _validate_model_archive, _validate_model_release_binding
ArchiveIs(t, revision) == Revision(t.archive) = revision

\* _load_evidence_set, _validate_public_intake: every report is about the archive.
EvidenceAgrees(t) == t.evidence = Revision(t.archive)

\* _validate_e2e_release_binding
TestAgrees(t, umi) ==
  t.e2e.base = Revision(t.archive) /\ t.e2e.umi = umi /\ t.e2e.derived = t.archive

Valid(t, revision, umi) ==
  /\ "e2e" \in Present(t)
  /\ CompanionsAgree(t) /\ ArchiveIs(t, revision) /\ EvidenceAgrees(t) /\ TestAgrees(t, umi)

\* create_release, create_public_s1_release: the manifest replaces the old one,
\* then the sums do; a kill, or sums that may not be replaced, may come between.
Create(revision, source, umi, replace, killed) ==
  LET manifest == [revision |-> revision, source |-> source, umi |-> umi,
                   digests |-> Digests(tree)]
         both == ~killed /\ (replace \/ tree.sums = Absent)
     IN
     /\ created < MaxCreate /\ Valid(tree, revision, umi)
     /\ replace \/ tree.manifest = Absent
     /\ tree' = [tree EXCEPT !.manifest = manifest,
                            !.sums = IF both THEN manifest.digests ELSE @]
     /\ sealed' = both /\ created' = created + 1
     /\ UNCHANGED <<kind, commits, accepted, edits>>

\* verify_release, _verify_public_s1_release_record
RecordVerified(t) ==
  /\ Metadata \subseteq Present(t)
  /\ t.manifest.digests = Digests(t) /\ t.sums = Digests(t)
  /\ Valid(t, t.manifest.revision, t.manifest.umi)

-----------------------------------------------------------------------------
(* What the history must satisfy *)

Changed(a, b) == {f \in DOMAIN tree : commits[a].tree[f] # commits[b].tree[f]}
SoleParent(child, parent) == commits[child].parents = <<parent>>

\* _verify_reviewed_release_tree, _verify_public_release_tree: the inventory of
\* a stage, exact for the public profile.
Inventory(c, missing) ==
  /\ ~commits[c].tree.stray
  /\ kind = "public" => Present(commits[c].tree) = Staged \ missing

Blob(c, f) == commits[c].tree[f] = tree[f]

\* (faulty) the sources of the tested commit are not compared with the next
MetadataOnlyLax(release, source, tested) ==
  /\ SoleParent(release, source) /\ Changed(source, release) = Metadata
  /\ SoleParent(source, tested)

MetadataOnly(release, source, tested) ==
  /\ SoleParent(release, source) /\ Changed(source, release) = Metadata
  /\ SoleParent(source, tested) /\ Changed(tested, source) = {"e2e"}

\* _verify_source_revision_closure and its public twin
Closure(source) ==
  /\ commits[source].tree.runtime = tree.archive.sources
  /\ IF kind = "public" THEN commits[source].tree.rebinder = Anything
     ELSE commits[source].tree.rebinder = Revision(tree.archive)

Committed(release, source, tested) ==
  /\ \A f \in Metadata : Blob(release, f)
  /\ IF kind = "public"
     THEN /\ Blob(source, "e2e") /\ \A f \in Artifacts \ {"e2e"} : Blob(tested, f)
          /\ commits[tested].tree.license = tree.companion
     ELSE /\ \A f \in Artifacts : Blob(source, f)
          /\ commits[source].tree.license = tree.companion

Inventories(release, source, tested) ==
  /\ Inventory(release, {}) /\ Inventory(source, Metadata)
  /\ Inventory(tested, Metadata \cup {"e2e"})

\* verify_release_commit, _verify_public_release_commit
VerifyCommit(release) ==
  /\ RecordVerified(tree)
  /\ LET source == tree.manifest.source
         tested == tree.e2e.tested
     IN /\ Inventories(release, source, tested) /\ MetadataOnly(release, source, tested)
        /\ Committed(release, source, tested) /\ Closure(source)
  /\ accepted' = accepted \cup {release}
  /\ UNCHANGED <<kind, tree, commits, sealed, edits, created>>

Next ==
  \/ \E file \in DOMAIN Contents : \E content \in Contents[file] : Edit(file, content)
  \/ \E tested \in DOMAIN commits, umi \in Versions : Capture(tested, umi)
  \/ \E others \in {<<>>} \cup {<<c>> : c \in DOMAIN commits} : Commit(others)
  \/ \E source \in DOMAIN commits, umi \in Versions, replace \in BOOLEAN,
        revision \in Archives, killed \in BOOLEAN :
       Create(revision, source, umi, replace, killed)
  \/ \E release \in DOMAIN commits : VerifyCommit(release)

Spec == Init /\ [][Next]_vars

-----------------------------------------------------------------------------
(* Correctness *)

\* What the tool generates it accepts, until something changes.
GeneratedVerifies == sealed => RecordVerified(tree)

\* A release commit the tool has accepted is one whose metadata describe what
\* was tested: the sources of the tested commit, one and two commits before
\* it, are those the released archive was made from, the evidence and the test
\* are about that archive, and every artifact is committed as it is listed.
VerifiedChain ==
  /\ GeneratedVerifies
  /\ \A r \in accepted :
    LET released == commits[r].tree
        tested == commits[released.e2e.tested].tree
    IN /\ commits[commits[r].parents[1]].parents = <<released.e2e.tested>>
       /\ tested.runtime = released.archive.sources
       /\ tested.archive = released.archive /\ released.evidence = released.archive
       /\ released.e2e.base = released.manifest.revision
       /\ released.e2e.umi = released.manifest.umi
       /\ released.manifest.digests = Digests(released) /\ released.sums = Digests(released)
       /\ released.license = released.companion /\ tested.e2e # released.e2e
       /\ released.rebinder \in {Anything, released.manifest.revision}
=============================================================================
