---------------------------- MODULE OutputProofs ----------------------------
(* Proofs about what comes out: the history of releases, for every set of    *)
(* contents and any number of edits, captures, commits and generations; the  *)
(* evidence published of them, for every set of predictions, any number of   *)
(* samples, checkpoints and scales; and the text of the model's tokens, for  *)
(* every vocabulary and any number of tokens.                                *)
(*                                                                           *)
(* The history: commits are only appended, so what the tool has checked      *)
(* about three of them stays true; what has to be shown is that the facts it *)
(* checks, most of them about the working tree, are facts about the three    *)
(* commits.  The evidence: every report the tool takes says the truth of its *)
(* rows (EvidenceInv), which needs what the tool's arithmetic comes to, what *)
(* the first of the best is, that every sample is solved more, as much or    *)
(* less, and that the samples in a circle have no fixed point.  The text:    *)
(* the bytes that wait are the run at the end of the tokens, and what is     *)
(* written is the reference of all the others (TextInv), which needs that    *)
(* the code's ranges of bytes are those of the encoding, and what flattening *)
(* one part more does.                                                       *)
EXTENDS ReleaseHistory, SelectionEvidence, Tokenizer,
        FiniteSetTheorems, SequenceTheorems, WellFoundedInduction, TLAPS

-----------------------------------------------------------------------------
(* The history *)

Reports == [base : Archives, derived : Archives, tested : Nat, umi : Versions]
Listings == [Artifacts -> Archives \cup Versions \cup Reports \cup {Absent}]
Manifests == [revision : Archives, source : Nat, umi : Versions, digests : Listings]
Trees ==
  [runtime : Versions, rebinder : Archives \cup {Anything}, license : Versions, companion : Versions,
   archive : Archives, evidence : Archives, e2e : Reports \cup {Absent},
   manifest : Manifests \cup {Absent}, sums : Listings \cup {Absent}, stray : BOOLEAN]

ReleaseTypes ==
  /\ tree \in Trees /\ sealed \in BOOLEAN
  /\ commits \in Seq([parents : Seq(Nat), tree : Trees]) /\ Len(commits) >= 1

\* A commit's parents are commits.
ParentsExist ==
  \A c \in 1..Len(commits) : \A i \in 1..Len(commits[c].parents) :
    commits[c].parents[i] \in 1..Len(commits)

\* What VerifiedChain says of an accepted commit, the two before it and their
\* trees; a fact about three commits.
ChainOf(r, source, tested, released, before) ==
  /\ r.parents = <<source>>
  /\ before.runtime = released.archive.sources
  /\ before.archive = released.archive /\ released.evidence = released.archive
  /\ released.e2e.base = released.manifest.revision /\ released.e2e.umi = released.manifest.umi
  /\ released.manifest.digests = Digests(released) /\ released.sums = Digests(released)
  /\ released.license = released.companion /\ before.e2e # released.e2e
  /\ released.rebinder \in {Anything, released.manifest.revision}

Chain(r) ==
  \E source, tested \in 1..Len(commits) :
    /\ commits[source].parents = <<tested>> /\ commits[r].tree.e2e.tested = tested
    /\ ChainOf(commits[r], source, tested, commits[r].tree, commits[tested].tree)

HistoryInv ==
  /\ ReleaseTypes /\ ParentsExist /\ GeneratedVerifies
  /\ \A r \in accepted : r \in 1..Len(commits) /\ Chain(r)

-----------------------------------------------------------------------------
(* The tree and the history *)

LEMMA InitHistory == Init => HistoryInv
<1> SUFFICES ASSUME Init PROVE HistoryInv
    OBVIOUS
<1>1. tree \in Trees
      BY Versioned DEF Init, Tree, Trees, Archives
<1>2. commits \in Seq([parents : Seq(Nat), tree : Trees]) /\ Len(commits) = 1
  <2>1. [parents |-> <<>>, tree |-> tree] \in [parents : Seq(Nat), tree : Trees]
        BY <1>1
  <2>. QED  BY <2>1 DEF Init
<1>3. ParentsExist
      BY <1>2 DEF Init, ParentsExist
<1>4. accepted = {} /\ sealed = FALSE
      BY DEF Init
<1>5. GeneratedVerifies
      BY <1>4 DEF GeneratedVerifies
<1>6. ReleaseTypes
  <2>1. sealed \in BOOLEAN
        BY <1>4
  <2>2. Len(commits) >= 1
        BY <1>2
  <2>. QED  BY <1>1, <1>2, <2>1, <2>2 DEF ReleaseTypes
<1>. QED  BY <1>3, <1>4, <1>5, <1>6 DEF HistoryInv

\* A commit leaves the earlier ones, and with them what was accepted.
LEMMA AppendKeeps ==
  ASSUME HistoryInv, NEW c \in [parents : Seq(Nat), tree : Trees],
         commits' = Append(commits, c),
         \A i \in 1..Len(c.parents) : c.parents[i] \in 1..Len(commits)
  PROVE  /\ commits' \in Seq([parents : Seq(Nat), tree : Trees]) /\ Len(commits') >= 1
         /\ ParentsExist'
         /\ \A r \in accepted : r \in 1..Len(commits') /\ Chain(r)'
<1>1. /\ commits' \in Seq([parents : Seq(Nat), tree : Trees])
      /\ Len(commits') = Len(commits) + 1 /\ Len(commits) \in Nat
      /\ \A i \in 1..Len(commits) : commits'[i] = commits[i]
      /\ commits'[Len(commits) + 1] = c
      BY DEF HistoryInv, ReleaseTypes
<1>2. ParentsExist'
      BY <1>1 DEF HistoryInv, ParentsExist
<1>3. ASSUME NEW r \in accepted PROVE r \in 1..Len(commits') /\ Chain(r)'
  <2>1. r \in 1..Len(commits) /\ Chain(r)
        BY DEF HistoryInv
  <2>2. PICK source, tested \in 1..Len(commits) :
          /\ commits[source].parents = <<tested>> /\ commits[r].tree.e2e.tested = tested
          /\ ChainOf(commits[r], source, tested, commits[r].tree, commits[tested].tree)
        BY <2>1 DEF Chain
  <2>3. /\ commits'[r] = commits[r] /\ commits'[source] = commits[source]
        /\ commits'[tested] = commits[tested]
        /\ r \in 1..Len(commits') /\ source \in 1..Len(commits') /\ tested \in 1..Len(commits')
        BY <1>1, <2>1
  <2>4. /\ commits'[source].parents = <<tested>> /\ commits'[r].tree.e2e.tested = tested
        /\ ChainOf(commits'[r], source, tested, commits'[r].tree, commits'[tested].tree)
        BY <2>2, <2>3
  <2>. QED  BY <2>3, <2>4 DEF Chain
<1>. QED  BY <1>1, <1>2, <1>3

LEMMA EditStep ==
  ASSUME HistoryInv, NEW file \in DOMAIN Contents, NEW content \in Contents[file], Edit(file, content)
  PROVE  HistoryInv'
<1>1. tree' \in Trees
      BY DEF Edit, HistoryInv, ReleaseTypes, Trees, Contents
<1>. QED  BY <1>1 DEF Edit, HistoryInv, ReleaseTypes, ParentsExist, Chain, GeneratedVerifies

LEMMA CaptureStep ==
  ASSUME HistoryInv, NEW tested \in DOMAIN commits, NEW umi \in Versions, Capture(tested, umi)
  PROVE  HistoryInv'
<1>1. [base |-> Revision(tree.archive), derived |-> tree.archive, tested |-> tested, umi |-> umi]
        \in Reports
      BY DEF HistoryInv, ReleaseTypes, Trees, Reports, Revision
<1>2. tree' \in Trees
      BY <1>1 DEF Capture, HistoryInv, ReleaseTypes, Trees
<1>. QED  BY <1>2 DEF Capture, HistoryInv, ReleaseTypes, ParentsExist, Chain, GeneratedVerifies

LEMMA CommitStep ==
  ASSUME HistoryInv, NEW others \in {<<>>} \cup {<<c>> : c \in DOMAIN commits}, Commit(others)
  PROVE  HistoryInv'
<1> DEFINE c == [parents |-> <<Len(commits)>> \o others, tree |-> tree]
<1>1. /\ tree \in Trees /\ commits \in Seq([parents : Seq(Nat), tree : Trees])
      /\ Len(commits) \in Nat /\ DOMAIN commits = 1..Len(commits)
      BY DEF HistoryInv, ReleaseTypes
<1>2. Len(commits) >= 1
      BY DEF HistoryInv, ReleaseTypes
<1>3. /\ <<Len(commits)>> \o others \in Seq(Nat)
      /\ \A i \in 1..Len(<<Len(commits)>> \o others) :
           (<<Len(commits)>> \o others)[i] \in 1..Len(commits)
  <2>1. CASE others = <<>>
        BY <1>1, <1>2, <2>1
  <2>2. ASSUME NEW d \in DOMAIN commits, others = <<d>> 
        PROVE  /\ <<Len(commits)>> \o others \in Seq(Nat)
               /\ \A i \in 1..Len(<<Len(commits)>> \o others) :
                    (<<Len(commits)>> \o others)[i] \in 1..Len(commits)
        BY <1>1, <1>2, <2>2
  <2>. QED  BY <2>1, <2>2
<1>4. c \in [parents : Seq(Nat), tree : Trees] /\ commits' = Append(commits, c)
      BY <1>1, <1>3 DEF Commit
<1>5. \A i \in 1..Len(c.parents) : c.parents[i] \in 1..Len(commits)
      BY <1>3
<1> HIDE DEF c
<1>6. /\ commits' \in Seq([parents : Seq(Nat), tree : Trees]) /\ Len(commits') >= 1
      /\ ParentsExist'
      /\ \A r \in accepted : r \in 1..Len(commits') /\ Chain(r)'
      BY <1>4, <1>5, AppendKeeps
<1>. QED  BY <1>6 DEF Commit, HistoryInv, ReleaseTypes, GeneratedVerifies

-----------------------------------------------------------------------------
(* What the tool generates *)

LEMMA CreateStep ==
  ASSUME HistoryInv, NEW source \in DOMAIN commits, NEW umi \in Versions, NEW replace \in BOOLEAN,
         NEW revision \in Archives, NEW killed \in BOOLEAN,
         Create(revision, source, umi, replace, killed)
  PROVE  HistoryInv'
<1> DEFINE manifest == [revision |-> revision, source |-> source, umi |-> umi,
                        digests |-> Digests(tree)]
           both == ~killed /\ (replace \/ tree.sums = Absent)
<1>1. tree \in Trees /\ DOMAIN commits = 1..Len(commits)
      BY DEF HistoryInv, ReleaseTypes
<1>2. Digests(tree) \in Listings /\ Digests(tree) # Absent
  <2>1. \A f \in Artifacts : tree[f] \in Archives \cup Versions \cup Reports \cup {Absent}
        BY <1>1 DEF Artifacts, Trees
  <2>2. DOMAIN Digests(tree) = Artifacts /\ DOMAIN Absent = {"absent"} /\ "archive" \in Artifacts
        BY DEF Digests, Absent, Artifacts
  <2>. QED  BY <2>1, <2>2 DEF Digests, Listings
<1>3. manifest \in Manifests /\ manifest # Absent
  <2>1. manifest \in Manifests
        BY <1>1, <1>2 DEF Manifests
  <2>2. DOMAIN manifest = {"revision", "source", "umi", "digests"} /\ DOMAIN Absent = {"absent"}
        BY DEF Absent
  <2>. QED  BY <2>1, <2>2
<1>4. tree' = [tree EXCEPT !.manifest = manifest,
                           !.sums = IF both THEN manifest.digests ELSE @]
      BY DEF Create
<1>s. sealed' = both
      BY DEF Create
<1> HIDE DEF manifest, both
<1>5. tree' \in Trees
  <2>1. tree.sums \in Listings \cup {Absent} /\ manifest.digests \in Listings
        BY <1>1, <1>2 DEF Trees, manifest
  <2>. QED  BY <1>1, <1>3, <1>4, <2>1 DEF Trees
<1>6. /\ tree'.manifest = manifest /\ \A f \in Artifacts : tree'[f] = tree[f]
      /\ tree'.sums = (IF both THEN Digests(tree) ELSE tree.sums)
      /\ tree'.license = tree.license
      BY <1>1, <1>4 DEF Trees, Artifacts, manifest
<1>7. Digests(tree') = Digests(tree)
      BY <1>6 DEF Digests
<1>8. sealed' => RecordVerified(tree')
  <2> SUFFICES ASSUME both PROVE RecordVerified(tree')
      BY <1>s
  <2>1. Valid(tree, revision, umi)
        BY DEF Create
  <2>2. "e2e" \in Present(tree') /\ Metadata \subseteq Present(tree')
        BY <1>2, <1>3, <1>6, <2>1 DEF Valid, Present, Staged, Metadata, Artifacts
  <2>3. /\ tree'.manifest.revision = revision /\ tree'.manifest.umi = umi
        /\ tree'.manifest.digests = Digests(tree')
        BY <1>6, <1>7 DEF manifest
  <2>4. /\ tree'.companion = tree.companion /\ tree'.archive = tree.archive
        /\ tree'.evidence = tree.evidence /\ tree'.e2e = tree.e2e
        BY <1>6 DEF Artifacts
  <2>5. Valid(tree', revision, umi)
        BY <1>6, <2>1, <2>2, <2>4
           DEF Valid, CompanionsAgree, ArchiveIs, EvidenceAgrees, TestAgrees
  <2>. QED  BY <1>6, <1>7, <2>2, <2>3, <2>5 DEF RecordVerified
<1>. QED  BY <1>5, <1>8 DEF Create, HistoryInv, ReleaseTypes, ParentsExist, Chain, GeneratedVerifies

-----------------------------------------------------------------------------
(* What the tool verifies *)

LEMMA SoleParentExists ==
  ASSUME HistoryInv, NEW c \in 1..Len(commits), NEW p, SoleParent(c, p)
  PROVE  p \in 1..Len(commits)
<1>1. commits[c].parents = <<p>> /\ Len(<<p>>) = 1 /\ <<p>>[1] = p
      BY DEF SoleParent
<1>2. 1 \in 1..Len(commits[c].parents) /\ commits[c].parents[1] = p
      BY <1>1
<1>. QED  BY <1>2 DEF HistoryInv, ParentsExist

LEMMA VerifyStep ==
  ASSUME HistoryInv, NEW release \in DOMAIN commits, VerifyCommit(release)
  PROVE  HistoryInv'
<1> DEFINE source == tree.manifest.source
           tested == tree.e2e.tested
           released == commits[release].tree
           between == commits[source].tree
           before == commits[tested].tree
<1>1. /\ RecordVerified(tree)
      /\ Changed(source, release) = Metadata /\ Changed(tested, source) = {"e2e"}
      /\ SoleParent(release, source) /\ SoleParent(source, tested)
      /\ Committed(release, source, tested) /\ Closure(source)
      /\ accepted' = accepted \cup {release}
      /\ UNCHANGED <<kind, tree, commits, sealed>>
      BY DEF VerifyCommit, MetadataOnly
<1>2. release \in 1..Len(commits) /\ source \in 1..Len(commits) /\ tested \in 1..Len(commits)
  <2>1. release \in 1..Len(commits)
        BY DEF HistoryInv, ReleaseTypes
  <2>2. source \in 1..Len(commits)
        BY <1>1, <2>1, SoleParentExists
  <2>. QED  BY <1>1, <2>1, <2>2, SoleParentExists
<1> HIDE DEF source, tested, released, between, before
<1>3. DOMAIN tree = {"runtime", "rebinder", "license", "companion", "archive", "evidence",
                     "e2e", "manifest", "sums", "stray"}
      BY DEF HistoryInv, ReleaseTypes, Trees
<1>4. /\ \A f \in DOMAIN tree \ Metadata : released[f] = between[f]
      /\ \A f \in DOMAIN tree \ {"e2e"} : between[f] = before[f]
      /\ before["e2e"] # between["e2e"]
  <2>1. Changed(source, release) = {f \in DOMAIN tree : between[f] # released[f]}
        BY DEF Changed, between, released
  <2>2. Changed(tested, source) = {f \in DOMAIN tree : before[f] # between[f]}
        BY DEF Changed, between, before
  <2>. QED  BY <1>1, <2>1, <2>2
<1>5. /\ \A f \in Artifacts \cup Metadata : released[f] = tree[f]
      /\ released.license = tree.companion
  <2>1. \A f \in Metadata : released[f] = tree[f]
        BY <1>1 DEF Committed, Blob, released
  <2>2. \A f \in Artifacts : f \in DOMAIN tree \ Metadata
        BY <1>3 DEF Artifacts, Metadata
  <2>3. CASE kind = "public"
    <3>1. /\ between["e2e"] = tree["e2e"] /\ \A f \in Artifacts \ {"e2e"} : before[f] = tree[f]
          /\ before.license = tree.companion
          BY <1>1, <2>3 DEF Committed, Blob, between, before
    <3>2. before.license = between.license /\ between.license = released.license
          BY <1>3, <1>4 DEF Metadata
    <3>. QED  BY <1>4, <2>1, <2>2, <3>1, <3>2
  <2>4. CASE kind # "public"
    <3>1. /\ \A f \in Artifacts : between[f] = tree[f]
          /\ between.license = tree.companion
          BY <1>1, <2>4 DEF Committed, Blob, between
    <3>2. between.license = released.license
          BY <1>3, <1>4 DEF Metadata
    <3>. QED  BY <1>4, <2>1, <2>2, <3>1, <3>2
  <2>. QED  BY <2>3, <2>4
<1>6. /\ released.e2e = tree.e2e /\ released.archive = tree.archive
      /\ released.evidence = tree.evidence /\ released.companion = tree.companion
      /\ released.manifest = tree.manifest /\ released.sums = tree.sums
      /\ Digests(released) = Digests(tree)
      BY <1>5 DEF Artifacts, Metadata, Digests
<1>7. /\ before.archive = released.archive /\ before.runtime = between.runtime
      /\ between.rebinder = released.rebinder /\ before.e2e # released.e2e
      BY <1>3, <1>4 DEF Metadata
<1>8. /\ between.runtime = tree.archive.sources
      /\ between.rebinder \in {Anything, tree.archive}
      BY <1>1 DEF Closure, Revision, between
<1>9. /\ tree.manifest.digests = Digests(tree) /\ tree.sums = Digests(tree)
      /\ tree.archive = tree.manifest.revision /\ tree.evidence = tree.archive
      /\ tree.e2e.base = tree.archive /\ tree.e2e.umi = tree.manifest.umi
      BY <1>1 DEF RecordVerified, Valid, ArchiveIs, EvidenceAgrees, TestAgrees, Revision
<1>10. ChainOf(commits[release], source, tested, released, before)
  <2>1. commits[release].parents = <<source>>
        BY <1>1 DEF SoleParent
  <2>2. released.license = released.companion
        BY <1>5, <1>6
  <2>. QED  BY <1>6, <1>7, <1>8, <1>9, <2>1, <2>2 DEF ChainOf
<1>11. Chain(release)
  <2>1. commits[source].parents = <<tested>> /\ released.e2e.tested = tested
        BY <1>1, <1>6 DEF SoleParent, tested
  <2>. QED  BY <1>2, <1>10, <2>1 DEF Chain, released, before
<1>. QED  BY <1>1, <1>2, <1>11 DEF HistoryInv, ReleaseTypes, ParentsExist, Chain, GeneratedVerifies

-----------------------------------------------------------------------------
(* Theorems *)

LEMMA StepHistory == HistoryInv /\ [Next]_vars => HistoryInv'
<1>1. ASSUME HistoryInv, Next PROVE HistoryInv'
      BY <1>1, EditStep, CaptureStep, CommitStep, CreateStep, VerifyStep DEF Next
<1>2. ASSUME HistoryInv, UNCHANGED vars PROVE HistoryInv'
      BY <1>2 DEF vars, HistoryInv, ReleaseTypes, ParentsExist, Chain, GeneratedVerifies
<1>. QED  BY <1>1, <1>2

(* Every reachable state satisfies the invariant: the tree and the history   *)
(* are typed, and each accepted commit has its chain (release_artifacts.py). *)
THEOREM HistoryInductive == Spec => []HistoryInv
BY InitHistory, StepHistory, PTL DEF Spec

(* What the tool generates it accepts until something changes; and a commit  *)
(* it has accepted releases an archive that was made from, and tested with,  *)
(* the sources of the commit two before it, whatever is edited, captured and *)
(* committed in between (release_artifacts.py, verify_release_commit).       *)
THEOREM VerifiedChainHolds == Spec => []VerifiedChain
<1>1. HistoryInv => VerifiedChain
  <2> SUFFICES ASSUME HistoryInv, NEW r \in accepted,
                      NEW released, released = commits[r].tree,
                      NEW before, before = commits[released.e2e.tested].tree
               PROVE  /\ commits[commits[r].parents[1]].parents = <<released.e2e.tested>>
                      /\ before.runtime = released.archive.sources
                      /\ before.archive = released.archive
                      /\ released.evidence = released.archive
                      /\ released.e2e.base = released.manifest.revision
                      /\ released.e2e.umi = released.manifest.umi
                      /\ released.manifest.digests = Digests(released)
                      /\ released.sums = Digests(released)
                      /\ released.license = released.companion
                      /\ before.e2e # released.e2e
                      /\ released.rebinder \in {Anything, released.manifest.revision}
      BY DEF VerifiedChain, HistoryInv
  <2>1. PICK source, tested \in 1..Len(commits) :
          /\ commits[source].parents = <<tested>> /\ released.e2e.tested = tested
          /\ ChainOf(commits[r], source, tested, released, commits[tested].tree)
        BY DEF HistoryInv, Chain
  <2>2. commits[r].parents[1] = source /\ commits[tested].tree = before
        BY <2>1 DEF ChainOf
  <2>. QED  BY <2>1, <2>2 DEF ChainOf
<1>. QED  BY <1>1, HistoryInductive, PTL

-----------------------------------------------------------------------------
(* Induction, with the statement as a set *)

LEMMA Naturals ==
  ASSUME NEW G \in SUBSET Nat, 0 \in G, \A n \in G : n + 1 \in G
  PROVE  G = Nat
<1> DEFINE R == {ss \in Nat \X Nat : ss[1] < ss[2]}
           Bad == Nat \ G
<1>1. SUFFICES ASSUME Bad # {} PROVE FALSE
      OBVIOUS
<1>2. IsWellFoundedOn(R, Nat)
      BY NatLessThanWellFounded DEF OpToRel
<1>3. \A x, y \in Nat : <<y, x>> \in R <=> y < x
      OBVIOUS
<1>4. Bad \in SUBSET Nat
      OBVIOUS
<1>5. PICK n \in Bad : \A k \in Bad : ~ (<<k, n>> \in R)
  <2> HIDE DEF R, Bad
  <2>. QED  BY <1>1, <1>2, <1>4, WFMin
<1> HIDE DEF R
<1>6. n \in Nat /\ n # 0 /\ n \notin G
      OBVIOUS
<1>7. n - 1 \in Nat /\ n - 1 < n
      BY <1>6
<1>8. n - 1 \notin Bad
      BY <1>3, <1>5, <1>6, <1>7
<1>9. (n - 1) + 1 \in G
      BY <1>7, <1>8
<1>. QED  BY <1>6, <1>9

\* The element that the community modules take next from a set.
Pick(s) == CHOOSE x \in s : TRUE

LEMMA PickIs == ASSUME NEW s, s # {} PROVE Pick(s) \in s
BY DEF Pick

LEMMA Subsets ==
  ASSUME NEW S, IsFiniteSet(S), NEW G \in SUBSET SUBSET S,
         {} \in G, \A s \in SUBSET S : s # {} /\ s \ {Pick(s)} \in G => s \in G
  PROVE  G = SUBSET S
<1> DEFINE N == {n \in Nat : \A s \in SUBSET S : Cardinality(s) = n => s \in G}
<1>1. \A s \in SUBSET S : IsFiniteSet(s) /\ Cardinality(s) \in Nat
      BY FS_Subset, FS_CardinalityType
<1>2. 0 \in N
      BY <1>1, FS_EmptySet
<1>3. ASSUME NEW n \in N PROVE n + 1 \in N
  <2>1. ASSUME NEW s \in SUBSET S, Cardinality(s) = n + 1 PROVE s \in G
    <3>1. s # {}
          BY <2>1, FS_EmptySet
    <3>2. Pick(s) \in s
          BY <3>1, PickIs
    <3>3. Cardinality(s \ {Pick(s)}) = n
          BY <1>1, <2>1, <3>2, FS_RemoveElement
    <3>4. s \ {Pick(s)} \in G
          BY <3>3
    <3>. QED  BY <3>1, <3>4
  <2>. QED  BY <2>1
<1>4. N = Nat
  <2>1. N \in SUBSET Nat
        OBVIOUS
  <2> HIDE DEF N
  <2>. QED  BY <1>2, <1>3, <2>1, Naturals
<1>5. \A s \in SUBSET S : s \in G
      BY <1>1, <1>4
<1>. QED  BY <1>5

-----------------------------------------------------------------------------
(* Sums over the samples *)

\* g adds f up over each set in D.
Adds(f, D, g) == g = [s \in D |-> IF s = {} THEN 0 ELSE f[Pick(s)] + g[s \ {Pick(s)}]]
Adder(f, S) == CHOOSE g : Adds(f, SUBSET S, g)

LEMMA SumIs ==
  ASSUME NEW f, NEW S PROVE SumFunctionOnSet(f, S) = Adder(f, S)[S]
BY DEF SumFunctionOnSet, FoldFunctionOnSet, MapThenFoldSet, Adder, Adds, Pick

LEMMA AdderIs == ASSUME NEW S, IsFiniteSet(S), NEW f PROVE Adds(f, SUBSET S, Adder(f, S))
<1> DEFINE Upto(n) == {s \in SUBSET S : Cardinality(s) <= n}
           N == {n \in Nat : \E g : Adds(f, Upto(n), g)}
<1>1. \A s \in SUBSET S : IsFiniteSet(s) /\ Cardinality(s) \in Nat
      BY FS_Subset, FS_CardinalityType
<1>2. \A s \in SUBSET S : s # {} =>
        s \ {Pick(s)} \in SUBSET S /\ Cardinality(s \ {Pick(s)}) = Cardinality(s) - 1
  <2>1. ASSUME NEW s \in SUBSET S, s # {} PROVE Cardinality(s \ {Pick(s)}) = Cardinality(s) - 1
        BY <1>1, <2>1, PickIs, FS_RemoveElement
  <2>. QED  BY <2>1
<1>3. 0 \in N
  <2> DEFINE g == [s \in Upto(0) |-> 0]
  <2>1. \A s \in Upto(0) : s = {}
        BY <1>1, FS_EmptySet
  <2>2. Adds(f, Upto(0), g)
        BY <2>1 DEF Adds
  <2>. QED  BY <2>2
<1>4. ASSUME NEW n \in N PROVE n + 1 \in N
  <2>1. PICK g : Adds(f, Upto(n), g)
        OBVIOUS
  <2> DEFINE h == [s \in Upto(n + 1) |-> IF s = {} THEN 0 ELSE f[Pick(s)] + g[s \ {Pick(s)}]]
  <2>2. ASSUME NEW s \in Upto(n) PROVE h[s] = g[s]
    <3>1. s \in Upto(n + 1)
          BY <1>1
    <3>. QED  BY <2>1, <3>1 DEF Adds
  <2>3. ASSUME NEW s \in Upto(n + 1), s # {} PROVE s \ {Pick(s)} \in Upto(n)
        BY <1>1, <1>2, <2>3
  <2>4. Adds(f, Upto(n + 1), h)
    <3>1. \A s \in Upto(n + 1) : s # {} => h[s \ {Pick(s)}] = g[s \ {Pick(s)}]
          BY <2>2, <2>3
    <3>. QED  BY <3>1 DEF Adds
  <2>. QED  BY <2>4
<1>5. N = Nat
  <2>1. N \in SUBSET Nat
        OBVIOUS
  <2> HIDE DEF N
  <2>. QED  BY <1>3, <1>4, <2>1, Naturals
<1>6. Upto(Cardinality(S)) = SUBSET S
      BY FS_Subset
<1>7. Cardinality(S) \in N
      BY <1>5, FS_CardinalityType
<1>8. \E g : Adds(f, SUBSET S, g)
      BY <1>6, <1>7
<1>. QED  BY <1>8 DEF Adder

LEMMA AdderStep ==
  ASSUME NEW S, IsFiniteSet(S), NEW f
  PROVE  /\ Adder(f, S)[{}] = 0
         /\ \A s \in SUBSET S : s # {} =>
              Adder(f, S)[s] = f[Pick(s)] + Adder(f, S)[s \ {Pick(s)}]
<1> DEFINE g == Adder(f, S)
<1>1. g = [s \in SUBSET S |-> IF s = {} THEN 0 ELSE f[Pick(s)] + g[s \ {Pick(s)}]]
      BY AdderIs DEF Adds
<1> HIDE DEF g
<1>2. g[{}] = 0
      BY <1>1
<1>3. ASSUME NEW s \in SUBSET S, s # {} PROVE g[s] = f[Pick(s)] + g[s \ {Pick(s)}]
      BY <1>1, <1>3
<1>. QED  BY <1>2, <1>3 DEF g

\* A sum is a number; greater terms make a greater sum, and one of them is
\* enough when the others are not smaller.
LEMMA SumOrder ==
  ASSUME NEW S, IsFiniteSet(S), NEW f \in [S -> Int], NEW h \in [S -> Int],
         \A x \in S : f[x] <= h[x]
  PROVE  /\ SumFunction(f) \in Int /\ SumFunction(h) \in Int
         /\ SumFunction(f) <= SumFunction(h)
         /\ (\E x \in S : f[x] < h[x]) => SumFunction(f) < SumFunction(h)
<1> DEFINE a == Adder(f, S)
           b == Adder(h, S)
           G == {s \in SUBSET S : /\ a[s] \in Int /\ b[s] \in Int /\ a[s] <= b[s]
                                  /\ (\E x \in s : f[x] < h[x]) => a[s] < b[s]}
<1>1. /\ a[{}] = 0 /\ b[{}] = 0
      /\ \A s \in SUBSET S : s # {} => /\ a[s] = f[Pick(s)] + a[s \ {Pick(s)}]
                                       /\ b[s] = h[Pick(s)] + b[s \ {Pick(s)}]
      BY AdderStep
<1> HIDE DEF a, b
<1>2. {} \in G
      BY <1>1
<1>3. ASSUME NEW s \in SUBSET S, s # {}, s \ {Pick(s)} \in G PROVE s \in G
  <2> DEFINE p == Pick(s)
             t == s \ {p}
  <2>1. p \in s /\ p \in S /\ s = t \cup {p}
        BY <1>3, PickIs
  <2>2. a[s] = f[p] + a[t] /\ b[s] = h[p] + b[t]
        BY <1>1, <1>3
  <2>3. /\ a[t] \in Int /\ b[t] \in Int /\ a[t] <= b[t]
        /\ (\E x \in t : f[x] < h[x]) => a[t] < b[t]
        BY <1>3
  <2>4. f[p] \in Int /\ h[p] \in Int /\ f[p] <= h[p]
        BY <2>1
  <2>5. (\E x \in s : f[x] < h[x]) => f[p] < h[p] \/ \E x \in t : f[x] < h[x]
        BY <2>1
  <2> HIDE DEF p, t
  <2>6. a[s] \in Int /\ b[s] \in Int /\ a[s] <= b[s]
        BY <2>2, <2>3, <2>4
  <2>7. (\E x \in s : f[x] < h[x]) => a[s] < b[s]
    <3>1. f[p] < h[p] => a[s] < b[s]
          BY <2>2, <2>3, <2>4
    <3>2. a[t] < b[t] => a[s] < b[s]
          BY <2>2, <2>3, <2>4
    <3>. QED  BY <2>3, <2>5, <3>1, <3>2
  <2>. QED  BY <2>6, <2>7
<1>4. G = SUBSET S
  <2>1. G \in SUBSET SUBSET S
        OBVIOUS
  <2> HIDE DEF G
  <2>. QED  BY <1>2, <1>3, <2>1, Subsets
<1>5. S \in G
      BY <1>4
<1>6. SumFunction(f) = a[S] /\ SumFunction(h) = b[S]
      BY SumIs DEF SumFunction, a, b
<1>. QED  BY <1>5, <1>6

-----------------------------------------------------------------------------
(* A row of predictions *)

LEMMA Division ==
  ASSUME NEW a \in Int, NEW b \in Nat \ {0}
  PROVE  a \div b \in Int /\ a % b \in 0..(b - 1) /\ a = b * (a \div b) + (a % b)
OBVIOUS

\* Points are the words left, in units, for every count of edits.
LEMMA PointsAre ==
  ASSUME NEW s \in Samples, NEW p \in Predictions
  PROVE  Points(s, p) \in Nat /\ Points(s, p) = Solves(s, p)
<1> USE DEF Solves
<1> DEFINE w == Words[s]
           e == p.edits
           q == Unit \div w
<1>1. w \in Nat \ {0} /\ e \in Nat /\ Unit \in Nat /\ Unit % w = 0
      BY WordsDivideUnit, EditsAreCounted
<1>2. q \in Int /\ Unit = w * q
  <2>1. q \in Int /\ Unit = w * q + (Unit % w)
    <3>1. Unit \in Int
          BY <1>1
    <3>. QED  BY <1>1, <3>1, Division
  <2> HIDE DEF q, w
  <2>2. w * q \in Int
        BY <1>1, <2>1
  <2>. QED  BY <1>1, <2>1, <2>2
<1>3. q \in Nat
      BY <1>1
<1>4. Points(s, p) = IF e >= w THEN 0 ELSE (w - e) * q
      BY DEF Points
<1>5. Max({0, w - e}) = CHOOSE x \in {0, w - e} : \A y \in {0, w - e} : x >= y
      BY DEF Max
<1> HIDE DEF w, e, q
<1>6. CASE e >= w
  <2>1. Max({0, w - e}) = 0
        BY <1>1, <1>5, <1>6
  <2>2. (0 * Unit) \div w = 0
        BY <1>1
  <2>. QED  BY <1>4, <1>6, <2>1, <2>2 DEF w, e
<1>7. CASE ~(e >= w)
  <2>1. Max({0, w - e}) = w - e
        BY <1>1, <1>5, <1>7
  <2>2. PICK d \in Nat : d = w - e
        BY <1>1, <1>7
  <2>3. d * q \in Nat
        BY <1>3, <2>2
  <2>4. d * Unit = w * (d * q)
        BY <1>1, <1>2, <1>3, <2>2
  <2>5. (w * (d * q)) \div w = d * q
        BY <1>1, <2>3
  <2>. QED  BY <1>4, <1>7, <2>1, <2>2, <2>3, <2>4, <2>5 DEF w, e
<1>. QED  BY <1>6, <1>7

LEMMA SamplesFinite == IsFiniteSet(Samples) /\ Cardinality(Samples) = SampleCount
BY SomeSamples, FS_Interval DEF Samples

LEMMA ScoreIsSolved == ASSUME NEW row \in Rows PROVE Score(row) = Solved(row)
<1>1. \A s \in Samples : row[s] \in Predictions
      BY DEF Rows
<1>2. [s \in Samples |-> Points(s, row[s])]
        = [s \in Samples |-> Solves(s, row[s])]
      BY <1>1, PointsAre
<1>. QED  BY <1>2 DEF Score, Solved

\* Rows compare as their samples do.
LEMMA ScoreOrder ==
  ASSUME NEW a \in Rows, NEW b \in Rows, \A s \in Samples : Points(s, a[s]) <= Points(s, b[s])
  PROVE  /\ Score(a) \in Int /\ Score(b) \in Int /\ Score(a) <= Score(b)
         /\ (\E s \in Samples : Points(s, a[s]) < Points(s, b[s])) => Score(a) < Score(b)
<1> DEFINE f == [s \in Samples |-> Points(s, a[s])]
           h == [s \in Samples |-> Points(s, b[s])]
<1>1. \A s \in Samples : Points(s, a[s]) \in Int /\ Points(s, b[s]) \in Int
  <2>1. \A s \in Samples : a[s] \in Predictions /\ b[s] \in Predictions
        BY DEF Rows
  <2>2. \A s \in Samples : Points(s, a[s]) \in Nat /\ Points(s, b[s]) \in Nat
        BY <2>1, PointsAre
  <2>. QED  BY <2>2
<1>2. f \in [Samples -> Int] /\ h \in [Samples -> Int]
      BY <1>1
<1>3. \A s \in Samples : f[s] = Points(s, a[s]) /\ h[s] = Points(s, b[s])
      OBVIOUS
<1>4. Score(a) = SumFunction(f) /\ Score(b) = SumFunction(h)
      BY DEF Score
<1> HIDE DEF f, h
<1>. QED  BY <1>2, <1>3, <1>4, SamplesFinite, SumOrder

LEMMA ScoreIsNumber == ASSUME NEW row \in Rows PROVE Score(row) \in Int
<1>1. \A s \in Samples : Points(s, row[s]) <= Points(s, row[s])
  <2>1. \A s \in Samples : row[s] \in Predictions
        BY DEF Rows
  <2>2. \A s \in Samples : Points(s, row[s]) \in Nat
        BY <2>1, PointsAre
  <2>. QED  BY <2>2
<1>. QED  BY <1>1, ScoreOrder

\* What is computed again of a row is what there is to say of it.
LEMMA RecomputedIs ==
  ASSUME NEW row \in Rows
  PROVE  /\ Summary(Recomputed[row]) = [wer |-> Wer(row), score |-> Solved(row), unique |-> Unique(row)]
         /\ Recomputed[row].score = Solved(row) /\ Solved(row) \in Int
         /\ \A s \in Samples : Recomputed[row].each[s].score = Solves(s, row[s])
<1>1. Score(row) = Solved(row) /\ Solved(row) \in Int
      BY ScoreIsSolved, ScoreIsNumber
<1>2. \A s \in Samples : Points(s, row[s]) = Solves(s, row[s])
  <2>1. \A s \in Samples : row[s] \in Predictions
        BY DEF Rows
  <2>. QED  BY <2>1, PointsAre
<1> DEFINE each == [s \in Samples |-> [words |-> Words[s], wer |-> Errors(s, row[s]),
                                        score |-> Points(s, row[s])]]
<1>3. Recomputed[row] = [each |-> each, wer |-> Wer(row), score |-> Score(row), unique |-> Unique(row)]
      BY DEF Recomputed
<1>4. \A s \in Samples : each[s].score = Points(s, row[s])
      OBVIOUS
<1> HIDE DEF each
<1>5. \A s \in Samples : Recomputed[row].each[s].score = Solves(s, row[s])
      BY <1>2, <1>3, <1>4
<1>6. Recomputed[row].score = Solved(row) /\ Recomputed[row].wer = Wer(row)
      /\ Recomputed[row].unique = Unique(row)
      BY <1>1, <1>3
<1>. QED  BY <1>1, <1>5, <1>6 DEF Summary

\* Every sample is solved more, as much or less; the pairs count that.
LEMMA PairedIs ==
  ASSUME NEW a \in Rows, NEW b \in Rows
  PROVE  Paired(Recomputed[a], Recomputed[b]) = Compared(a, b)
<1> DEFINE A == {s \in Samples : Solves(s, a[s]) > Solves(s, b[s])}
           B == {s \in Samples : Solves(s, a[s]) = Solves(s, b[s])}
           C == {s \in Samples : Solves(s, a[s]) < Solves(s, b[s])}
           more == {s \in Samples : Solves(s, b[s]) > Solves(s, a[s])}
<1>1. \A s \in Samples : Solves(s, a[s]) \in Nat /\ Solves(s, b[s]) \in Nat
  <2>1. \A s \in Samples : a[s] \in Predictions /\ b[s] \in Predictions
        BY DEF Rows
  <2>. QED  BY <2>1, PointsAre
<1>2. A \cup B \cup C = Samples /\ A \cap B = {} /\ (A \cup B) \cap C = {} /\ more = C
      BY <1>1
<1>3. IsFiniteSet(A) /\ IsFiniteSet(B) /\ IsFiniteSet(C)
      BY SamplesFinite, FS_Subset
<1>4. Paired(Recomputed[a], Recomputed[b]) = <<Cardinality(A), Cardinality(B), Cardinality(C)>>
  <2> DEFINE A0 == {s \in Samples : Recomputed[a].each[s].score > Recomputed[b].each[s].score}
             B0 == {s \in Samples : Recomputed[a].each[s].score = Recomputed[b].each[s].score}
             C0 == {s \in Samples : Recomputed[a].each[s].score < Recomputed[b].each[s].score}
  <2>1. Paired(Recomputed[a], Recomputed[b]) = <<Cardinality(A0), Cardinality(B0), Cardinality(C0)>>
        BY DEF Paired
  <2>2. \A s \in Samples : /\ Recomputed[a].each[s].score = Solves(s, a[s])
                           /\ Recomputed[b].each[s].score = Solves(s, b[s])
        BY RecomputedIs
  <2>3. A0 = A /\ B0 = B /\ C0 = C
        BY <2>2
  <2> HIDE DEF A, B, C, A0, B0, C0
  <2>. QED  BY <2>1, <2>3, Zenon
<1>5. Compared(a, b) = <<Cardinality(A), SampleCount - Cardinality(A) - Cardinality(more), Cardinality(more)>>
      BY DEF Compared, SolvesMore
<1> HIDE DEF A, B, C, more
<1>6. Cardinality(A) \in Nat /\ Cardinality(B) \in Nat /\ Cardinality(C) \in Nat
      BY <1>3, FS_CardinalityType
<1>7. Cardinality(A) + Cardinality(B) + Cardinality(C) = SampleCount
  <2>1. IsFiniteSet(A \cup B) /\ Cardinality(A \cup B) = Cardinality(A) + Cardinality(B) - Cardinality(A \cap B)
        BY <1>3, FS_Union
  <2>2. Cardinality(A \cup B \cup C) = Cardinality(A \cup B) + Cardinality(C) - Cardinality((A \cup B) \cap C)
        BY <1>3, <2>1, FS_Union
  <2>3. Cardinality({}) = 0
        BY FS_EmptySet
  <2>4. Cardinality(A \cap B) = 0 /\ Cardinality((A \cup B) \cap C) = 0
        BY <1>2, <2>3, Zenon
  <2>5. Cardinality(A \cup B \cup C) = SampleCount
        BY <1>2, SamplesFinite, Zenon
  <2>. QED  BY <1>6, <2>1, <2>2, <2>4, <2>5
<1>8. SampleCount - Cardinality(A) - Cardinality(C) = Cardinality(B)
      BY <1>6, <1>7
<1>9. Compared(a, b) = <<Cardinality(A), SampleCount - Cardinality(A) - Cardinality(C), Cardinality(C)>>
      BY <1>2, <1>5, Zenon
<1>. QED  BY <1>4, <1>8, <1>9, Zenon

\* The winner has the greatest score, the first that has it.
LEMMA WinnerIs ==
  ASSUME NEW n \in Nat \ {0}, NEW claims, DOMAIN claims = 1..n,
         \A i \in 1..n : claims[i].score \in Int
  PROVE  /\ Winner(claims) \in 1..n
         /\ \A j \in 1..n : /\ claims[j].score <= claims[Winner(claims)].score
                            /\ j < Winner(claims) => claims[j].score < claims[Winner(claims)].score
<1> DEFINE Wins(i, j) == \/ claims[i].score > claims[j].score
                         \/ claims[i].score = claims[j].score /\ i <= j
           N == {k \in Nat : 1 <= k /\ k <= n => \E i \in 1..k : \A j \in 1..k : Wins(i, j)}
<1>1. 0 \in N
      OBVIOUS
<1>2. ASSUME NEW k \in N PROVE k + 1 \in N
  <2>1. SUFFICES ASSUME k + 1 <= n
                 PROVE  \E i \in 1..(k + 1) : \A j \in 1..(k + 1) : Wins(i, j)
    <3> HIDE DEF Wins
    <3>. QED  OBVIOUS
  <2>2. \A j \in 1..(k + 1) : j \in 1..k \/ j = k + 1
        OBVIOUS
  <2>3. k + 1 \in 1..(k + 1) /\ Wins(k + 1, k + 1)
        OBVIOUS
  <2>4. CASE k = 0
    <3>1. \A j \in 1..(k + 1) : j = k + 1
          BY <2>4
    <3> HIDE DEF Wins
    <3>. QED  BY <2>3, <3>1
  <2>5. CASE k # 0
    <3>1. PICK i \in 1..k : \A j \in 1..k : Wins(i, j)
      <4>1. 1 <= k /\ k <= n
            BY <2>1, <2>5
      <4> HIDE DEF Wins
      <4>. QED  BY <4>1
    <3>2. /\ claims[i].score \in Int /\ claims[k + 1].score \in Int /\ i <= k + 1 /\ i \in 1..(k + 1)
          /\ \A j \in 1..k : claims[j].score \in Int
          BY <2>1
    <3>3. CASE claims[i].score >= claims[k + 1].score
      <4>1. Wins(i, k + 1)
            BY <3>2, <3>3
      <4> HIDE DEF Wins
      <4>. QED  BY <2>2, <3>1, <3>2, <4>1
    <3>4. CASE claims[i].score < claims[k + 1].score
      <4>1. \A j \in 1..k : Wins(k + 1, j)
            BY <3>1, <3>2, <3>4
      <4> HIDE DEF Wins
      <4>. QED  BY <2>2, <2>3, <4>1
    <3>. QED  BY <3>2, <3>3, <3>4
  <2>. QED  BY <2>4, <2>5
<1>3. N = Nat
  <2>1. N \in SUBSET Nat
        OBVIOUS
  <2> HIDE DEF N
  <2>. QED  BY <1>1, <1>2, <2>1, Naturals
<1>4. \E i \in 1..n : \A j \in 1..n : Wins(i, j)
  <2> HIDE DEF Wins
  <2>1. n \in N
        BY <1>3
  <2>2. 1 <= n /\ n <= n
        OBVIOUS
  <2>. QED  BY <2>1, <2>2
<1> DEFINE w == Winner(claims)
<1>5. w \in 1..n /\ \A j \in 1..n : Wins(w, j)
  <2>1. w = CHOOSE i \in 1..n : \A j \in 1..n : Wins(i, j)
        BY DEF Winner
  <2> HIDE DEF Wins, w
  <2>. QED  BY <1>4, <2>1
<1>6. ASSUME NEW j \in 1..n PROVE claims[j].score <= claims[w].score /\ (j < w => claims[j].score < claims[w].score)
  <2>1. Wins(w, j) /\ claims[w].score \in Int /\ claims[j].score \in Int
        BY <1>5
  <2>. QED  BY <1>5, <2>1
<1>. QED  BY <1>5, <1>6

-----------------------------------------------------------------------------
(* The reports taken *)

\* What is known of each report once it is taken: its rows are predictions, its
\* claims are the truth of them, and its winner is what the decoder predicted.
DecoderSound ==
  LET d == reports[Decoder] IN
  /\ d.rows \in [1..2 -> Rows] /\ d.claims = Truth(d.rows) /\ Clean(Beam)
  /\ d.counts = Compared(Beam, d.rows[1]) /\ d.evaluated = Evaluated
  /\ Solved(Beam) > Solved(d.rows[1])

CheckpointSound ==
  LET c == reports[Checkpoint] IN
  /\ c.rows \in [Epochs -> Rows] /\ c.claims = Truth(c.rows)
  /\ FirstOfBest(Selected, c.rows) /\ c.rows[Selected] = Beam
  /\ c.authority = reports[Decoder].authority
  /\ \A e \in Epochs : Clean(c.rows[e])

GuidanceSound ==
  LET g == reports[Guidance] IN
  /\ g.rows \in [Scales -> Rows] /\ g.claims = Truth(g.rows)
  /\ FirstOfBest(g.selected, g.rows) /\ g.rows[g.selected] = Beam
  /\ reports[Decoder].state = Selected /\ g.state = Selected
  /\ g.authority = reports[Decoder].authority
  /\ \A i \in Scales : Clean(g.rows[i])

\* The reports taken so far are sound, and what has been published is true.
EvidenceInv ==
  /\ task \in {"selection", "ablation"}
  /\ task = "selection" /\ public = None =>
       /\ reports \in Seq(Range(reports))
       /\ Len(reports) >= 1 => DecoderSound
       /\ Len(reports) >= 2 => CheckpointSound
       /\ Len(reports) >= 3 => GuidanceSound
  /\ EvidenceTrue

LEMMA StatedIs ==
  ASSUME NEW D, NEW rows \in [D -> Rows], NEW i, NEW claims \in Stated(rows, i)
  PROVE  claims = [x \in D |-> claims[x]]
<1>1. Truth(rows) = [x \in D |-> Recomputed[rows[x]]]
      BY DEF Truth
<1> DEFINE T == Truth(rows)
<1>2. claims = T \/ \E c \in Misstated(T[i]) : claims = [T EXCEPT ![i] = c]
      BY DEF Stated
<1>3. T = [x \in D |-> T[x]] /\ DOMAIN T = D
      BY <1>1
<1> HIDE DEF T
<1>. QED  BY <1>2, <1>3

LEMMA ReproducedIs ==
  ASSUME NEW row, NEW claim, NEW beam, Reproduces(row, claim, beam)
  PROVE  claim = Recomputed[row] /\ (beam => Clean(row))
BY DEF Reproduces, Emissible, Clean

\* Claims that reproduce are the truth, and so is what is published of them.
LEMMA ClaimedIs ==
  ASSUME NEW D, NEW rows \in [D -> Rows], NEW claims, claims = [x \in D |-> claims[x]],
         \A x \in D : claims[x] = Recomputed[rows[x]]
  PROVE  claims = Truth(rows)
<1>1. claims = [x \in D |-> Recomputed[rows[x]]]
      OBVIOUS
<1>. QED  BY <1>1 DEF Truth

LEMMA TruthIs ==
  ASSUME NEW D, NEW rows \in [D -> Rows]
  PROVE  /\ DOMAIN Truth(rows) = D /\ Summaries(Truth(rows)) = Facts(rows)
         /\ \A x \in D : /\ Truth(rows)[x] = Recomputed[rows[x]]
                         /\ Truth(rows)[x].score = Solved(rows[x]) /\ Solved(rows[x]) \in Int
<1>1. DOMAIN Truth(rows) = D /\ \A x \in D : Truth(rows)[x] = Recomputed[rows[x]] /\ rows[x] \in Rows
      BY DEF Truth
<1> DEFINE t == Truth(rows)
           fact(row) == [wer |-> Wer(row), score |-> Solved(row), unique |-> Unique(row)]
<1>2. Summaries(t) = [x \in DOMAIN t |-> Summary(t[x])]
      BY DEF Summaries
<1>3. Facts(rows) = [x \in D |-> fact(rows[x])]
      BY DEF Facts
<1>4. \A x \in D : Summary(t[x]) = fact(rows[x])
      BY <1>1, RecomputedIs
<1> HIDE DEF fact, t
<1>5. Summaries(t) = [x \in D |-> fact(rows[x])]
      BY <1>1, <1>2, <1>4 DEF t
<1>6. \A x \in D : Recomputed[rows[x]].score = Solved(rows[x]) /\ Solved(rows[x]) \in Int
      BY <1>1, RecomputedIs
<1>. QED  BY <1>1, <1>3, <1>5, <1>6 DEF t

\* The winner of true claims is the first of the best.
LEMMA WinnerIsFirst ==
  ASSUME NEW n \in Nat \ {0}, NEW rows \in [1..n -> Rows]
  PROVE  Winner(Truth(rows)) \in 1..n /\ FirstOfBest(Winner(Truth(rows)), rows)
<1>1. DOMAIN Truth(rows) = 1..n /\ \A x \in 1..n : Truth(rows)[x].score = Solved(rows[x]) /\ Solved(rows[x]) \in Int
      BY TruthIs
<1> DEFINE t == Truth(rows)
           w == Winner(t)
<1>2. w \in 1..n /\ \A j \in 1..n : /\ t[j].score <= t[w].score
                                    /\ j < w => t[j].score < t[w].score
  <2> HIDE DEF t
  <2>. QED  BY <1>1, WinnerIs DEF t
<1> HIDE DEF t, w
<1>3. DOMAIN rows = 1..n
      OBVIOUS
<1>4. \A x \in 1..n : t[x].score = Solved(rows[x])
      BY <1>1 DEF t
<1>5. \A j \in 1..n : /\ Solved(rows[j]) <= Solved(rows[w])
                      /\ j < w => Solved(rows[j]) < Solved(rows[w])
      BY <1>2, <1>4
<1>6. FirstOfBest(w, rows)
      BY <1>2, <1>3, <1>5 DEF FirstOfBest
<1>. QED  BY <1>2, <1>6 DEF t, w

LEMMA RangeIs == ASSUME NEW f PROVE Range(f) = {f[x] : x \in DOMAIN f}
BY DEF Range

\* What has been taken stays.
LEMMA AppendedIs ==
  ASSUME reports \in Seq(Range(reports)), NEW r, reports' = Append(reports, r)
  PROVE  /\ reports' \in Seq(Range(reports')) /\ Len(reports') = Len(reports) + 1
         /\ Len(reports) \in Nat /\ reports'[Len(reports) + 1] = r
         /\ \A i \in 1..Len(reports) : reports'[i] = reports[i]
<1> DEFINE S == Range(reports) \cup {r}
           n == Len(reports)
<1>1. reports \in Seq(S) /\ r \in S
  <2>1. Len(reports) \in Nat /\ reports \in [1..Len(reports) -> Range(reports)]
        BY LenProperties
  <2>2. reports \in [1..Len(reports) -> S]
        BY <2>1
  <2>. QED  BY <2>1, <2>2, SeqDef
<1> HIDE DEF S
<1>2. /\ reports' \in Seq(S) /\ Len(reports') = n + 1 /\ n \in Nat /\ reports'[n + 1] = r
      /\ \A i \in 1..n : reports'[i] = reports[i]
      BY <1>1, AppendProperties, LenProperties
<1>3. reports' \in [1..(n + 1) -> S]
      BY <1>2, LenProperties
<1>4. \A i \in 1..(n + 1) : reports'[i] \in Range(reports')
      BY <1>3, RangeIs
<1>5. reports' \in [1..(n + 1) -> Range(reports')]
      BY <1>3, <1>4
<1>6. reports' \in Seq(Range(reports'))
  <2>1. n + 1 \in Nat
        BY <1>2
  <2>. QED  BY <1>5, <2>1, SeqDef
<1>. QED  BY <1>2, <1>6

\* A refused report leaves nothing to be true of.
LEMMA RefusedKeeps ==
  ASSUME EvidenceInv, public' = Refused, task' = task PROVE EvidenceInv'
BY DEF EvidenceInv, EvidenceTrue, LedgerTrue, AblationTrue, Refused, None

LEMMA DecoderKeeps ==
  ASSUME EvidenceInv, Turn("selection", 0),
         NEW rows \in [1..2 -> Rows], NEW claims \in Stated(rows, 1) \cup Stated(rows, 2),
         NEW counts, NEW delta, NEW authority, NEW state, NEW evaluated,
         TakeDecoder(rows, claims, counts, delta, authority, state, evaluated)
  PROVE  EvidenceInv'
<1> DEFINE r == [rows |-> rows, claims |-> claims, counts |-> counts, authority |-> authority,
                 state |-> state, evaluated |-> evaluated]
           granted  == /\ Reproduces(rows[1], claims[1], FALSE) /\ Reproduces(rows[2], claims[2], TRUE)
                       /\ claims[1].score > 0 /\ delta > 0
                       /\ delta = claims[2].score - claims[1].score
                       /\ counts = Paired(claims[2], claims[1]) /\ evaluated = Evaluated
<1>1. Take(r, granted)
      BY DEF TakeDecoder
<1>2. CASE ~granted
  <2>1. public' = Refused /\ task' = task
        BY <1>1, <1>2 DEF Take
  <2>. QED  BY <2>1, RefusedKeeps
<1>3. CASE granted
  <2>1. reports' = Append(reports, r) /\ task' = task /\ public' = public
        BY <1>1, <1>3 DEF Take
  <2>2. reports \in Seq(Range(reports)) /\ Len(reports) = 0 /\ public = None /\ task = "selection"
        BY DEF Turn, EvidenceInv
  <2>3. reports' \in Seq(Range(reports')) /\ Len(reports') = 1 /\ reports'[1] = r
        BY <2>1, <2>2, AppendedIs
  <2>4. claims[1] = Recomputed[rows[1]] /\ claims[2] = Recomputed[rows[2]] /\ Clean(rows[2])
        BY <1>3, ReproducedIs
  <2>5. claims = Truth(rows)
    <3>1. claims = [x \in 1..2 |-> claims[x]]
          BY StatedIs
    <3>2. \A x \in 1..2 : claims[x] = Recomputed[rows[x]]
          BY <2>4
    <3>. QED  BY <3>1, <3>2, ClaimedIs
  <2>6. rows[1] \in Rows /\ rows[2] \in Rows
        OBVIOUS
  <2>7. counts = Compared(rows[2], rows[1])
        BY <1>3, <2>4, <2>6, PairedIs
  <2>8. Solved(rows[2]) > Solved(rows[1])
    <3>1. claims[1].score = Solved(rows[1]) /\ claims[2].score = Solved(rows[2])
          /\ Solved(rows[1]) \in Int /\ Solved(rows[2]) \in Int
          BY <2>4, <2>6, RecomputedIs
    <3>2. claims[2].score - claims[1].score > 0
          BY <1>3
    <3>. QED  BY <3>1, <3>2
  <2>9. evaluated = Evaluated
        BY <1>3
  <2>10. r.rows = rows /\ r.claims = claims /\ r.counts = counts /\ r.evaluated = evaluated
        OBVIOUS
  <2> HIDE DEF r, granted
  <2>11. DecoderSound'
        BY <2>3, <2>4, <2>5, <2>7, <2>8, <2>9, <2>10 DEF DecoderSound, Decoder, Beam
  <2>. QED  BY <2>1, <2>2, <2>3, <2>11 DEF EvidenceInv, EvidenceTrue, LedgerTrue, AblationTrue, None
<1>. QED  BY <1>2, <1>3

LEMMA CheckpointKeeps ==
  ASSUME EvidenceInv, Turn("selection", 1),
         NEW rows \in [Epochs -> Rows], NEW claims \in Stated(rows, 1), NEW selected, NEW authority,
         TakeCheckpoint(rows, claims, selected, authority)
  PROVE  EvidenceInv'
<1> DEFINE r == [rows |-> rows, claims |-> claims, selected |-> selected, authority |-> authority]
           granted  == /\ authority = reports[Decoder].authority
                       /\ selected = Winner(claims) /\ rows[selected] = Beam
                       /\ \A e \in Epochs : Reproduces(rows[e], claims[e], TRUE)
<1>1. Take(r, granted)
      BY DEF TakeCheckpoint
<1>2. CASE ~granted
  <2>1. public' = Refused /\ task' = task
        BY <1>1, <1>2 DEF Take
  <2>. QED  BY <2>1, RefusedKeeps
<1>3. CASE granted
  <2>1. reports' = Append(reports, r) /\ task' = task /\ public' = public
        BY <1>1, <1>3 DEF Take
  <2>2. /\ reports \in Seq(Range(reports)) /\ Len(reports) = 1 /\ public = None
        /\ task = "selection" /\ DecoderSound
        BY DEF Turn, EvidenceInv
  <2>3. /\ reports' \in Seq(Range(reports')) /\ Len(reports') = 2
        /\ reports'[1] = reports[1] /\ reports'[2] = r
        BY <2>1, <2>2, AppendedIs
  <2>4. \A e \in Epochs : claims[e] = Recomputed[rows[e]] /\ Clean(rows[e])
        BY <1>3, ReproducedIs
  <2>5. claims = Truth(rows)
    <3>1. claims = [x \in Epochs |-> claims[x]]
          BY StatedIs
    <3>. QED  BY <2>4, <3>1, ClaimedIs
  <2>6. rows[Winner(claims)] = Beam /\ authority = reports[Decoder].authority
        BY <1>3
  <2>7. FirstOfBest(Winner(claims), rows)
        BY <2>5, WinnerIsFirst, SomeModels DEF Epochs
  <2>8. r.rows = rows /\ r.claims = claims /\ r.authority = authority
        OBVIOUS
  <2> HIDE DEF r, granted
  <2>9. Beam' = Beam /\ Selected' = Winner(claims)
        BY <2>3, <2>8 DEF Beam, Selected, Decoder, Checkpoint
  <2>10. DecoderSound'
        BY <2>2, <2>3, <2>9 DEF DecoderSound, Decoder
  <2>11. CheckpointSound'
        BY <2>3, <2>4, <2>5, <2>6, <2>7, <2>8, <2>9 DEF CheckpointSound, Decoder, Checkpoint
  <2>. QED  BY <2>1, <2>2, <2>3, <2>10, <2>11 DEF EvidenceInv, EvidenceTrue, LedgerTrue, AblationTrue, None
<1>. QED  BY <1>2, <1>3

LEMMA GuidanceKeeps ==
  ASSUME EvidenceInv, Turn("selection", 2),
         NEW rows \in [Scales -> Rows], NEW claims \in Stated(rows, ScaleCount),
         NEW selected, NEW authority, NEW state,
         TakeGuidance(rows, claims, selected, authority, state)
  PROVE  EvidenceInv'
<1> DEFINE r == [rows |-> rows, claims |-> claims, selected |-> selected,
                 authority |-> authority, state |-> state]
           granted  == /\ authority = reports[Decoder].authority
                       /\ selected = 1 /\ rows[1] = Beam
                       /\ reports[Decoder].state = Selected /\ state = Selected
                       /\ selected = Winner(claims)
                       /\ \A g \in Scales : Reproduces(rows[g], claims[g], TRUE)
<1>1. Take(r, granted)
      BY DEF TakeGuidance
<1>2. CASE ~granted
  <2>1. public' = Refused /\ task' = task
        BY <1>1, <1>2 DEF Take
  <2>. QED  BY <2>1, RefusedKeeps
<1>3. CASE granted
  <2>1. reports' = Append(reports, r) /\ task' = task /\ public' = public
        BY <1>1, <1>3 DEF Take
  <2>2. /\ reports \in Seq(Range(reports)) /\ Len(reports) = 2 /\ public = None
        /\ task = "selection" /\ DecoderSound /\ CheckpointSound
        BY DEF Turn, EvidenceInv
  <2>3. /\ reports' \in Seq(Range(reports')) /\ Len(reports') = 3
        /\ reports'[1] = reports[1] /\ reports'[2] = reports[2] /\ reports'[3] = r
        BY <2>1, <2>2, AppendedIs
  <2>4. \A g \in Scales : claims[g] = Recomputed[rows[g]] /\ Clean(rows[g])
        BY <1>3, ReproducedIs
  <2>5. claims = Truth(rows)
    <3>1. claims = [x \in Scales |-> claims[x]]
          BY StatedIs
    <3>. QED  BY <2>4, <3>1, ClaimedIs
  <2>6. /\ selected = 1 /\ rows[1] = Beam /\ authority = reports[Decoder].authority
        /\ reports[Decoder].state = Selected /\ state = Selected /\ Winner(claims) = selected
        BY <1>3
  <2>7. FirstOfBest(selected, rows) /\ rows[selected] = Beam
        BY <2>5, <2>6, WinnerIsFirst, SomeModels DEF Scales
  <2>8. r.rows = rows /\ r.claims = claims /\ r.authority = authority /\ r.state = state
        /\ r.selected = selected
        OBVIOUS
  <2> HIDE DEF r, granted
  <2>9. Beam' = Beam /\ Selected' = Selected
        BY <2>3 DEF Beam, Selected, Decoder, Checkpoint
  <2>10. DecoderSound'
        BY <2>2, <2>3, <2>9 DEF DecoderSound, Decoder
  <2>11. CheckpointSound'
        BY <2>2, <2>3, <2>9 DEF CheckpointSound, Decoder, Checkpoint
  <2>12. GuidanceSound'
        BY <2>3, <2>4, <2>5, <2>6, <2>7, <2>8, <2>9 DEF GuidanceSound, Decoder, Guidance
  <2>. QED  BY <2>1, <2>2, <2>3, <2>10, <2>11, <2>12
            DEF EvidenceInv, EvidenceTrue, LedgerTrue, AblationTrue, None
<1>. QED  BY <1>2, <1>3

LEMMA LedgerKeeps ==
  ASSUME EvidenceInv, Turn("selection", 3), NEW release, EmitLedger(release) PROVE EvidenceInv'
<1> DEFINE d == reports[Decoder]
           c == reports[Checkpoint]
           g == reports[Guidance]
           ledger == [stage |-> "ledger", release |-> release, evaluated |-> d.evaluated,
                      basis |-> IF d.evaluated = release THEN "direct" ELSE "rebind",
                      decoder |-> Summaries(d.claims), counts |-> d.counts,
                      delta |-> d.claims[2].score - d.claims[1].score,
                      checkpoints |-> Summaries(c.claims), epoch |-> Selected,
                      state |-> Selected, guidance |-> Summaries(g.claims),
                      scale |-> g.selected]
<1>1. /\ public' = (IF LedgerValid(ledger, release) THEN ledger ELSE Refused)
      /\ task' = task /\ reports' = reports
      BY DEF EmitLedger
<1>2. CASE ~LedgerValid(ledger, release)
  <2>1. public' = Refused
        BY <1>1, <1>2
  <2>. QED  BY <1>1, <2>1, RefusedKeeps
<1>3. CASE LedgerValid(ledger, release)
  <2>1. DecoderSound /\ CheckpointSound /\ GuidanceSound /\ task = "selection"
        BY DEF Turn, EvidenceInv
  <2>2. public' = ledger
        BY <1>1, <1>3
  <2>3. /\ ledger.stage = "ledger" /\ ledger.delta = d.claims[2].score - d.claims[1].score
        /\ ledger.decoder = Summaries(d.claims) /\ ledger.checkpoints = Summaries(c.claims)
        /\ ledger.guidance = Summaries(g.claims) /\ ledger.scale = g.selected
        /\ ledger.counts = d.counts /\ ledger.epoch = Selected /\ ledger.state = Selected
        /\ ledger.evaluated = d.evaluated /\ ledger.release = release
        /\ ledger.basis = IF d.evaluated = release THEN "direct" ELSE "rebind"
        OBVIOUS
  <2>4. ledger.epoch = Baseline
        BY <1>3 DEF LedgerValid
  <2> HIDE DEF ledger
  <2>5. /\ ledger.decoder = Facts(d.rows) /\ ledger.checkpoints = Facts(c.rows)
        /\ ledger.guidance = Facts(g.rows)
        BY <2>1, <2>3, TruthIs DEF DecoderSound, CheckpointSound, GuidanceSound
  <2>6. ledger.delta = Solved(Beam) - Solved(d.rows[1]) /\ ledger.delta > 0
    <3>1. d.rows \in [1..2 -> Rows] /\ d.claims = Truth(d.rows) /\ Beam = d.rows[2]
          /\ Solved(Beam) > Solved(d.rows[1])
          BY <2>1 DEF DecoderSound, Beam
    <3>2. /\ d.claims[1].score = Solved(d.rows[1]) /\ d.claims[2].score = Solved(Beam)
          /\ Solved(d.rows[1]) \in Int /\ Solved(Beam) \in Int
          BY <3>1, TruthIs
    <3>. QED  BY <2>3, <3>1, <3>2
  <2>7. /\ ledger.counts = Compared(Beam, d.rows[1]) /\ Clean(Beam)
        /\ ledger.evaluated = Evaluated /\ (ledger.basis = "direct" <=> ledger.release = Evaluated)
        BY <2>1, <2>3 DEF DecoderSound
  <2>8. /\ FirstOfBest(ledger.epoch, c.rows) /\ c.rows[ledger.epoch] = Beam
        /\ FirstOfBest(ledger.scale, g.rows) /\ g.rows[ledger.scale] = Beam
        /\ (\A e \in Epochs : Clean(c.rows[e])) /\ (\A i \in Scales : Clean(g.rows[i]))
        BY <2>1, <2>3 DEF CheckpointSound, GuidanceSound
  <2>9. /\ {d.state, g.state} = {ledger.state} /\ ledger.state = ledger.epoch
        /\ {d.authority} = {c.authority, g.authority}
        BY <2>1, <2>3 DEF CheckpointSound, GuidanceSound
  <2>10. d' = d /\ c' = c /\ g' = g /\ Beam' = Beam
        BY <1>1 DEF Beam, Decoder, Checkpoint, Guidance
  <2>11. LedgerTrue'
    <3> HIDE DEF d, c, g
    <3>. QED  BY <2>2, <2>4, <2>5, <2>6, <2>7, <2>8, <2>9, <2>10 DEF LedgerTrue, d, c, g
  <2>12. AblationTrue'
        BY <2>2, <2>3 DEF AblationTrue
  <2>13. public' # None
        BY <2>2, <2>3 DEF None
  <2>. QED  BY <1>1, <2>1, <2>11, <2>12, <2>13 DEF EvidenceInv, EvidenceTrue
<1>. QED  BY <1>2, <1>3

-----------------------------------------------------------------------------
(* The ablation *)

\* The next of SampleCount places, the first after the last.
Following(i) == (i % SampleCount) + 1

LEMMA FollowingIs ==
  ASSUME NEW i \in Samples PROVE Following(i) = IF i = SampleCount THEN 1 ELSE i + 1
<1> DEFINE n == SampleCount
           q == i \div n
           r == i % n
<1>1. n \in Nat \ {0} /\ i \in Nat /\ 1 <= i /\ i <= n
      BY SomeSamples DEF Samples
<1>2. q \in Int /\ r \in 0..(n - 1) /\ i = n * q + r
  <2>1. i \in Int
        BY <1>1
  <2>. QED  BY <1>1, <2>1, Division
<1>3. Following(i) = r + 1
      BY DEF Following
<1> HIDE DEF n, q, r
<1>4. q = 0 \/ q = 1
  <2>1. q >= 2 => n * q >= n * 2
        BY <1>1, <1>2
  <2>2. q <= -1 => n * q <= n * (-1)
        BY <1>1, <1>2
  <2>3. n * 2 = n + n /\ n * (-1) = -n /\ n * q \in Int
        BY <1>1, <1>2
  <2>. QED  BY <1>1, <1>2, <2>1, <2>2, <2>3
<1>5. CASE q = 0
  <2>1. n * q = 0
        BY <1>1, <1>5
  <2>. QED  BY <1>1, <1>2, <1>3, <2>1 DEF n
<1>6. CASE q = 1
  <2>1. n * q = n
        BY <1>1, <1>6
  <2>. QED  BY <1>1, <1>2, <1>3, <2>1 DEF n
<1>. QED  BY <1>4, <1>5, <1>6

\* Each sample is given another's motion, and each motion is given once.
LEMMA DonorsAre ==
  ASSUME NEW order \in Orders
  PROVE  /\ \A s \in Samples : Donors(order)[s] # s
         /\ Range(Donors(order)) = Samples
<1> DEFINE place(s) == CHOOSE i \in Samples : order[i] = s
           d == Donors(order)
<1>1. order \in [Samples -> Samples] /\ Range(order) = Samples
      BY DEF Orders
<1>2. \A s \in Samples : \E i \in Samples : order[i] = s
      BY <1>1, RangeIs
<1>3. \A i, j \in Samples : order[i] = order[j] => i = j
  <2>1. order \in Surjection(Samples, Samples)
        BY <1>1, <1>2 DEF Surjection
  <2>2. order \in Injection(Samples, Samples)
        BY <2>1, SamplesFinite, FS_SurjSameCardinalityImpliesInj
  <2>. QED  BY <2>2 DEF Injection, IsInjective
<1>4. \A s \in Samples : place(s) \in Samples /\ order[place(s)] = s
      BY <1>2
<1>5. d = [s \in Samples |-> order[Following(place(s))]]
      BY DEF Donors, Following
<1> HIDE DEF place, d
<1>6. \A i \in Samples : Following(i) \in Samples /\ Following(i) # i
      BY FollowingIs, SomeSamples DEF Samples
<1>7. \A s \in Samples : d[s] # s
  <2>1. ASSUME NEW s \in Samples, d[s] = s PROVE FALSE
    <3>1. order[Following(place(s))] = order[place(s)]
          BY <1>4, <1>5, <2>1
    <3>2. Following(place(s)) = place(s)
          BY <1>3, <1>4, <1>6, <3>1
    <3>. QED  BY <1>4, <1>6, <3>2
  <2>. QED  BY <2>1
<1>8. \A t \in Samples : \E s \in Samples : d[s] = t
  <2>1. ASSUME NEW t \in Samples PROVE \E s \in Samples : d[s] = t
    <3>1. PICK j \in Samples : order[j] = t
          BY <1>2
    <3>2. PICK i \in Samples : Following(i) = j
      <4>1. CASE j = 1
        <5>1. SampleCount \in Samples /\ Following(SampleCount) = 1
              BY FollowingIs, SomeSamples DEF Samples
        <5>. QED  BY <4>1, <5>1
      <4>2. CASE j # 1
        <5>1. j - 1 \in Samples /\ j - 1 # SampleCount /\ (j - 1) + 1 = j
              BY <4>2, SomeSamples DEF Samples
        <5>2. Following(j - 1) = j
              BY <5>1, FollowingIs
        <5>. QED  BY <5>1, <5>2
      <4>. QED  BY <4>1, <4>2
    <3>3. order[i] \in Samples /\ place(order[i]) = i
          BY <1>1, <1>3, <1>4
    <3>4. d[order[i]] = t
          BY <1>5, <3>1, <3>2, <3>3
    <3>. QED  BY <3>3, <3>4
  <2>. QED  BY <2>1
<1>9. Range(d) = Samples
  <2>1. DOMAIN d = Samples /\ \A s \in Samples : d[s] \in Samples
        BY <1>1, <1>4, <1>5, <1>6
  <2>2. Range(d) = {d[s] : s \in Samples}
        BY <2>1, RangeIs
  <2>. QED  BY <1>8, <2>1, <2>2
<1>. QED  BY <1>7, <1>9 DEF d

LEMMA AblationKeeps ==
  ASSUME EvidenceInv, Turn("ablation", 0),
         NEW order \in Orders, NEW rows \in [1..3 -> Rows], NEW claims \in Stated(rows, 3),
         NEW motion, NEW effects, NEW release,
         EmitAblation(order, rows, claims, motion, effects, release)
  PROVE  EvidenceInv'
<1> DEFINE score == [i \in 1..3 |-> claims[i].score]
           report == [stage |-> "ablation", release |-> release, conditions |-> Summaries(claims),
                      effects |-> effects,
                      zero |-> Paired(claims[1], claims[2]), deranged |-> Paired(claims[1], claims[3])]
           granted  == /\ \A i \in 1..3 : Reproduces(rows[i], claims[i], TRUE)
                       /\ motion = Donors(order)
                       /\ score[2] > score[1] /\ score[1] > score[3]
                       /\ effects = <<score[1] - score[2], score[1] - score[3]>>
                       /\ AblationValid(report, release)
<1>1. /\ reports' = <<[rows |-> rows, motion |-> motion]>>
      /\ public' = (IF granted THEN report ELSE Refused) /\ task' = task
      BY DEF EmitAblation
<1>2. CASE ~granted
  <2>1. public' = Refused
        BY <1>1, <1>2
  <2>. QED  BY <1>1, <2>1, RefusedKeeps
<1>3. CASE granted
  <2>1. public' = report /\ task = "ablation"
        BY <1>1, <1>3 DEF Turn
  <2>2. /\ report.stage = "ablation" /\ report.conditions = Summaries(claims)
        /\ report.effects = effects /\ report.zero = Paired(claims[1], claims[2])
        /\ report.deranged = Paired(claims[1], claims[3])
        OBVIOUS
  <2>3. reports'[1].rows = rows /\ reports'[1].motion = motion
        BY <1>1
  <2>4. /\ \A i \in 1..3 : rows[i] \in Rows /\ claims[i] = Recomputed[rows[i]] /\ Clean(rows[i])
        BY <1>3, ReproducedIs
  <2>5. motion = Donors(order)
        BY <1>3
  <2>6. /\ claims[2].score > claims[1].score /\ claims[1].score > claims[3].score
        /\ effects = <<claims[1].score - claims[2].score, claims[1].score - claims[3].score>>
        BY <1>3
  <2> HIDE DEF report, granted
  <2>7. report.conditions = Facts(rows)
    <3>1. claims = [x \in 1..3 |-> claims[x]]
          BY StatedIs
    <3>2. claims = Truth(rows)
          BY <2>4, <3>1, ClaimedIs
    <3>. QED  BY <2>2, <3>2, TruthIs
  <2>8. \A i \in 1..3 : claims[i].score = Solved(rows[i])
        BY <2>4, RecomputedIs
  <2>9. /\ report.effects = <<Solved(rows[1]) - Solved(rows[2]), Solved(rows[1]) - Solved(rows[3])>>
        /\ Solved(rows[2]) > Solved(rows[1]) /\ Solved(rows[1]) > Solved(rows[3])
        BY <2>2, <2>6, <2>8
  <2>10. report.zero = Compared(rows[1], rows[2]) /\ report.deranged = Compared(rows[1], rows[3])
        BY <2>2, <2>4, PairedIs
  <2>11. (\A s \in Samples : motion[s] # s) /\ Range(motion) = Samples
        BY <2>5, DonorsAre
  <2>12. AblationTrue'
        BY <2>1, <2>3, <2>4, <2>7, <2>9, <2>10, <2>11 DEF AblationTrue
  <2>13. LedgerTrue'
        BY <2>1, <2>2 DEF LedgerTrue
  <2>. QED  BY <1>1, <2>1, <2>12, <2>13 DEF EvidenceInv, EvidenceTrue
<1>. QED  BY <1>2, <1>3

\* EvidenceInv is inductive.
THEOREM EvidenceInductive == EvidenceSpec => []EvidenceInv
<1>1. EvidenceInit => EvidenceInv
  <2> SUFFICES ASSUME EvidenceInit PROVE EvidenceInv
      OBVIOUS
  <2>1. /\ task \in {"selection", "ablation"} /\ reports = <<>> /\ Len(reports) = 0
        /\ public.stage = "none"
        BY DEF EvidenceInit, None
  <2>2. reports \in Seq(Range(reports))
        BY <2>1
  <2>. QED  BY <2>1, <2>2 DEF EvidenceInv, EvidenceTrue, LedgerTrue, AblationTrue
<1>2. EvidenceInv /\ [EvidenceNext]_evidenceVars => EvidenceInv'
  <2> SUFFICES ASSUME EvidenceInv, [EvidenceNext]_evidenceVars PROVE EvidenceInv'
      OBVIOUS
  <2>1. CASE EvidenceNext
        BY <2>1, DecoderKeeps, CheckpointKeeps, GuidanceKeeps, LedgerKeeps, AblationKeeps
        DEF EvidenceNext
  <2>2. CASE UNCHANGED evidenceVars
        BY <2>2 DEF evidenceVars, EvidenceInv, EvidenceTrue, LedgerTrue, AblationTrue, DecoderSound,
           CheckpointSound, GuidanceSound, Beam, Selected, Decoder, Checkpoint, Guidance
  <2>. QED  BY <2>1, <2>2
<1>. QED  BY <1>1, <1>2, PTL DEF EvidenceSpec

\* EvidenceTrue, for every set of predictions, any number of samples, epochs and
\* scales: the public reports say what the private predictions say.
THEOREM EvidenceTrueHolds == EvidenceSpec => []EvidenceTrue
<1>1. EvidenceInv => EvidenceTrue
      BY DEF EvidenceInv
<1>. QED  BY <1>1, EvidenceInductive, PTL

-----------------------------------------------------------------------------
(* Characters: the code's ranges of bytes are those of the encoding *)

LEMMA Bits ==
  ASSUME NEW a \in Int, NEW d \in 0..63, NEW n, n = a * 64 + d
  PROVE  n \div 64 = a /\ n % 64 = d
BY SMT

LEMMA Bits2 ==
  ASSUME NEW a \in Int, NEW d \in Nat, d < 4096, NEW n, n = a * 4096 + d
  PROVE  n \div 4096 = a
BY SMT

LEMMA Bits3 ==
  ASSUME NEW a \in Int, NEW d \in Nat, d < 262144, NEW n, n = a * 262144 + d
  PROVE  n \div 262144 = a
BY SMT

LEMMA Low ==
  ASSUME NEW x \in 0..255
  PROVE  /\ x % 64 \in 0..63 /\ x % 32 \in 0..31 /\ x % 16 \in 0..15 /\ x % 8 \in 0..7
         /\ x \in 128..191 => x % 64 = x - 128
         /\ x \in 192..223 => x % 32 = x - 192
         /\ x \in 224..239 => x % 16 = x - 224
         /\ x \in 240..247 => x % 8 = x - 240
OBVIOUS

\* The bytes of a code point, by its size.
LEMMA Utf8Is ==
  ASSUME NEW c \in Nat
  PROVE  /\ c < 128 => Utf8(c) = <<c>>
         /\ c >= 128 /\ c < 2048 => Utf8(c) = <<192 + c \div 64, 128 + (c % 64)>>
         /\ c >= 2048 /\ c < 65536 =>
              Utf8(c) = <<224 + c \div 4096, 128 + ((c \div 64) % 64), 128 + (c % 64)>>
         /\ c >= 65536 =>
              Utf8(c) = <<240 + c \div 262144, 128 + ((c \div 4096) % 64), 128 + ((c \div 64) % 64),
                          128 + (c % 64)>>
<1>1. c < 128 => Size(c) = 1
      BY DEF Size
<1>2. c >= 128 /\ c < 2048 => Size(c) = 2
      BY DEF Size
<1>3. c >= 2048 /\ c < 65536 => Size(c) = 3
      BY DEF Size
<1>4. c >= 65536 => Size(c) = 4
      BY DEF Size
<1>. QED  BY <1>1, <1>2, <1>3, <1>4 DEF Utf8

\* The bytes of a character of two, three and four bytes.
Pair(x, y) == x \in 194..223 /\ y \in 128..191
Triple(x, y, z) ==
  /\ x \in 224..239 /\ y \in 128..191 /\ z \in 128..191
  /\ (x = 224 => y >= 160) /\ (x = 237 => y <= 159)
Quadruple(x, y, z, u) ==
  /\ x \in 240..244 /\ y \in 128..191 /\ z \in 128..191 /\ u \in 128..191
  /\ (x = 240 => y >= 144) /\ (x = 244 => y <= 143)

\* The code points their bits make.
Two(x, y) == (x % 32) * 64 + (y % 64)
Three(x, y, z) == (x % 16) * 4096 + (y % 64) * 64 + (z % 64)
Four(x, y, z, u) == (x % 8) * 262144 + (y % 64) * 4096 + (z % 64) * 64 + (u % 64)

LEMMA OneByte ==
  ASSUME NEW x \in 0..255
  PROVE  IsCodePoint(x) /\ Utf8(x) = <<x>> <=> x <= 127
<1>0. x \in Nat /\ x < 2048
      OBVIOUS
<1>1. x < 128 => Utf8(x) = <<x>>
      BY <1>0, Utf8Is
<1>2. x >= 128 => Utf8(x) = <<192 + x \div 64, 128 + (x % 64)>>
  <2>1. SUFFICES ASSUME x >= 128 PROVE Size(x) = 2
        BY DEF Utf8
  <2>. QED  BY <1>0, <2>1 DEF Size
<1>3. IsCodePoint(x)
      BY DEF IsCodePoint
<1>4. <<192 + x \div 64, 128 + (x % 64)>> # <<x>>
      OBVIOUS
<1>. QED  BY <1>1, <1>2, <1>3, <1>4

LEMMA TwoBytes ==
  ASSUME NEW x \in 0..255, NEW y \in 0..255
  PROVE  IsCodePoint(Two(x, y)) /\ Utf8(Two(x, y)) = <<x, y>> <=> Pair(x, y)
<1> DEFINE c == Two(x, y)
<1>1. x % 32 \in 0..31 /\ y % 64 \in 0..63
      BY Low
<1>2. c \in Nat /\ c < 2048 /\ c \div 64 = x % 32 /\ c % 64 = y % 64
      BY <1>1, Bits DEF Two
<1>3. IsCodePoint(c)
      BY <1>2 DEF IsCodePoint
<1> HIDE DEF c
<1>4. c < 128 => Utf8(c) = <<c>>
      BY <1>2, Utf8Is
<1>5. c >= 128 => Utf8(c) = <<192 + (x % 32), 128 + (y % 64)>>
      BY <1>2, Utf8Is
<1>6. ASSUME Utf8(c) = <<x, y>> PROVE x \in 194..223 /\ y \in 128..191
  <2>1. c >= 128
    <3>1. <<c>> # <<x, y>>
          OBVIOUS
    <3>. QED  BY <1>2, <1>4, <1>6, <3>1
  <2>2. x = 192 + (x % 32) /\ y = 128 + (y % 64)
        BY <1>5, <1>6, <2>1
  <2>3. x % 32 >= 2
        BY <1>1, <2>1 DEF c, Two
  <2>. QED  BY <1>1, <2>2, <2>3
<1>7. ASSUME x \in 194..223, y \in 128..191 PROVE Utf8(c) = <<x, y>>
  <2>1. x % 32 = x - 192 /\ y % 64 = y - 128
        BY <1>7, Low
  <2>2. c >= 128
        BY <1>7, <2>1 DEF c, Two
  <2>3. 192 + (x % 32) = x /\ 128 + (y % 64) = y
        BY <2>1
  <2>. QED  BY <1>5, <2>2, <2>3
<1>. QED  BY <1>3, <1>6, <1>7 DEF Pair, c

LEMMA ThreeBytes ==
  ASSUME NEW x \in 0..255, NEW y \in 0..255, NEW z \in 0..255
  PROVE  IsCodePoint(Three(x, y, z)) /\ Utf8(Three(x, y, z)) = <<x, y, z>> <=> Triple(x, y, z)
<1> DEFINE c == Three(x, y, z)
           a == x % 16
           d == y % 64
           e == z % 64
<1>1. a \in 0..15 /\ d \in 0..63 /\ e \in 0..63
      BY Low
<1>2. c = a * 4096 + d * 64 + e
      BY DEF Three
<1>3. /\ x \in 224..239 => a = x - 224
      /\ y \in 128..191 => d = y - 128
      /\ z \in 128..191 => e = z - 128
      BY Low
<1> HIDE DEF a, d, e, c
<1>4. c \in Nat /\ c < 65536
      BY <1>1, <1>2
<1> DEFINE q == a * 64 + d
<1>5. c \div 64 = q /\ c % 64 = e
  <2>1. c = q * 64 + e /\ q \in Int
        BY <1>1, <1>2
  <2> HIDE DEF q
  <2>. QED  BY <1>1, <2>1, Bits
<1>6. (c \div 64) % 64 = d
  <2>1. a \in Int /\ q = a * 64 + d
        BY <1>1
  <2> HIDE DEF q
  <2>2. q % 64 = d
        BY <1>1, <2>1, Bits
  <2>. QED  BY <1>5, <2>2
<1>7. c \div 4096 = a
  <2>1. d * 64 + e \in Nat /\ d * 64 + e < 4096 /\ a \in Int /\ c = a * 4096 + (d * 64 + e)
        BY <1>1, <1>2
  <2>. QED  BY <2>1, Bits2
<1>8. c >= 2048 => Utf8(c) = <<224 + a, 128 + d, 128 + e>>
      BY <1>4, <1>5, <1>6, <1>7, Utf8Is
<1>9. c < 2048 => Utf8(c) # <<x, y, z>>
  <2>1. c < 128 => Utf8(c) = <<c>>
        BY <1>4, Utf8Is
  <2>2. c >= 128 /\ c < 2048 => Utf8(c) = <<192 + c \div 64, 128 + (c % 64)>>
        BY <1>4, Utf8Is
  <2>3. <<c>> # <<x, y, z>>
        OBVIOUS
  <2>4. <<192 + c \div 64, 128 + (c % 64)>> # <<x, y, z>>
        OBVIOUS
  <2>. QED  BY <1>4, <2>1, <2>2, <2>3, <2>4
<1>10. IsCodePoint(c) <=> ~ (a = 13 /\ d >= 32)
  <2>1. IsCodePoint(c) <=> c < 55296 \/ c >= 57344
        BY <1>4, SMT DEF IsCodePoint
  <2>. QED  BY <1>1, <1>2, <2>1, SMT
<1>11. ASSUME IsCodePoint(c), Utf8(c) = <<x, y, z>>
       PROVE  /\ x \in 224..239 /\ y \in 128..191 /\ z \in 128..191
              /\ (x = 224 => y >= 160) /\ (x = 237 => y <= 159)
  <2>1. c >= 2048
        BY <1>4, <1>9, <1>11
  <2>2. x = 224 + a /\ y = 128 + d /\ z = 128 + e
        BY <1>8, <1>11, <2>1
  <2>3. a = 0 => d >= 32
        BY <1>1, <1>2, <2>1
  <2>. QED  BY <1>1, <1>10, <1>11, <2>2, <2>3
<1>12. ASSUME x \in 224..239, y \in 128..191, z \in 128..191,
              x = 224 => y >= 160, x = 237 => y <= 159
       PROVE  IsCodePoint(c) /\ Utf8(c) = <<x, y, z>>
  <2>1. a = x - 224 /\ d = y - 128 /\ e = z - 128
        BY <1>3, <1>12
  <2>2. c >= 2048
        BY <1>1, <1>2, <1>12, <2>1
  <2>3. 224 + a = x /\ 128 + d = y /\ 128 + e = z
        BY <1>12, <2>1
  <2>4. ~ (a = 13 /\ d >= 32)
        BY <1>12, <2>1
  <2>. QED  BY <1>8, <1>10, <2>2, <2>3, <2>4
<1>. QED  BY <1>11, <1>12 DEF Triple, c

LEMMA FourBytes ==
  ASSUME NEW x \in 0..255, NEW y \in 0..255, NEW z \in 0..255, NEW u \in 0..255
  PROVE  IsCodePoint(Four(x, y, z, u)) /\ Utf8(Four(x, y, z, u)) = <<x, y, z, u>> <=> Quadruple(x, y, z, u)
<1> DEFINE c == Four(x, y, z, u)
           a == x % 8
           d == y % 64
           e == z % 64
           f == u % 64
<1>1. a \in 0..7 /\ d \in 0..63 /\ e \in 0..63 /\ f \in 0..63
      BY Low
<1>2. c = a * 262144 + d * 4096 + e * 64 + f
      BY SMT DEF Four
<1>3. /\ x \in 240..247 => a = x - 240
      /\ y \in 128..191 => d = y - 128
      /\ z \in 128..191 => e = z - 128
      /\ u \in 128..191 => f = u - 128
      BY Low
<1> HIDE DEF a, d, e, f, c
<1>4. c \in Nat
      BY <1>1, <1>2, SMT
<1> DEFINE p == a * 64 + d
           q == p * 64 + e
<1>5. c \div 64 = q /\ c % 64 = f
  <2>1. c = q * 64 + f /\ q \in Int
        BY <1>1, <1>2, SMT
  <2> HIDE DEF q
  <2>. QED  BY <1>1, <2>1, Bits
<1>6. (c \div 64) % 64 = e
  <2>1. p \in Int /\ q = p * 64 + e
        BY <1>1
  <2> HIDE DEF p, q
  <2>2. q % 64 = e
        BY <1>1, <2>1, Bits
  <2>. QED  BY <1>5, <2>2
<1>7. (c \div 4096) % 64 = d
  <2>1. c = p * 4096 + (e * 64 + f) /\ p \in Int /\ a \in Int /\ p = a * 64 + d
        BY <1>1, <1>2, SMT
  <2>2. e * 64 + f \in Nat /\ e * 64 + f < 4096
        BY <1>1
  <2> HIDE DEF p
  <2>3. c \div 4096 = p
        BY <2>1, <2>2, Bits2
  <2>4. p % 64 = d
        BY <1>1, <2>1, Bits
  <2>. QED  BY <2>3, <2>4
<1>8. c \div 262144 = a
  <2>1. c = a * 262144 + (d * 4096 + e * 64 + f) /\ a \in Int
        BY <1>1, <1>2, SMT
  <2>2. d * 4096 + e * 64 + f \in Nat /\ d * 4096 + e * 64 + f < 262144
        BY <1>1, SMT
  <2>. QED  BY <2>1, <2>2, Bits3, SMT
<1>9. c >= 65536 => Utf8(c) = <<240 + a, 128 + d, 128 + e, 128 + f>>
  <2>1. c >= 65536 =>
          Utf8(c) = <<240 + c \div 262144, 128 + ((c \div 4096) % 64), 128 + ((c \div 64) % 64),
                      128 + (c % 64)>>
        BY <1>4, Utf8Is, SMT
  <2>2. c % 64 = f /\ (c \div 64) % 64 = e
        BY <1>5, <1>6, SMT
  <2>. QED  BY <1>7, <1>8, <2>1, <2>2, SMT
<1>10. c < 65536 => Utf8(c) # <<x, y, z, u>>
  <2>1. c < 128 => Utf8(c) = <<c>>
        BY <1>4, Utf8Is, SMT
  <2>2. c >= 128 /\ c < 2048 => Utf8(c) = <<192 + c \div 64, 128 + (c % 64)>>
        BY <1>4, Utf8Is, SMT
  <2>3. c >= 2048 /\ c < 65536 =>
          Utf8(c) = <<224 + c \div 4096, 128 + ((c \div 64) % 64), 128 + (c % 64)>>
        BY <1>4, Utf8Is, SMT
  <2>4. <<c>> # <<x, y, z, u>> /\ <<192 + c \div 64, 128 + (c % 64)>> # <<x, y, z, u>>
        OBVIOUS
  <2>5. <<224 + c \div 4096, 128 + ((c \div 64) % 64), 128 + (c % 64)>> # <<x, y, z, u>>
        OBVIOUS
  <2>6. c < 128 => Utf8(c) # <<x, y, z, u>>
        BY <2>1, <2>4, SMT
  <2>7. c >= 128 /\ c < 2048 => Utf8(c) # <<x, y, z, u>>
        BY <2>2, <2>4, SMT
  <2>8. c >= 2048 /\ c < 65536 => Utf8(c) # <<x, y, z, u>>
        BY <2>3, <2>5, SMT
  <2>. QED  BY <1>4, <2>6, <2>7, <2>8, SMT
<1>11. c >= 65536 => (IsCodePoint(c) <=> a < 4 \/ (a = 4 /\ d <= 15))
  <2>1. c >= 65536 => (IsCodePoint(c) <=> c < 1114112)
        BY <1>4, SMT DEF IsCodePoint
  <2>. QED  BY <1>1, <1>2, <2>1, SMT
<1>12. c >= 65536 <=> a > 0 \/ d >= 16
      BY <1>1, <1>2, SMT
<1>13. ASSUME IsCodePoint(c), Utf8(c) = <<x, y, z, u>>
       PROVE  /\ x \in 240..244 /\ y \in 128..191 /\ z \in 128..191 /\ u \in 128..191
              /\ (x = 240 => y >= 144) /\ (x = 244 => y <= 143)
  <2>1. c >= 65536
        BY <1>4, <1>10, <1>13, SMT
  <2>2. x = 240 + a /\ y = 128 + d /\ z = 128 + e /\ u = 128 + f
        BY <1>9, <1>13, <2>1, SMT
  <2>. QED  BY <1>1, <1>11, <1>12, <1>13, <2>1, <2>2, SMT
<1>14. ASSUME x \in 240..244, y \in 128..191, z \in 128..191, u \in 128..191,
              x = 240 => y >= 144, x = 244 => y <= 143
       PROVE  IsCodePoint(c) /\ Utf8(c) = <<x, y, z, u>>
  <2>1. a = x - 240 /\ d = y - 128 /\ e = z - 128 /\ f = u - 128
        BY <1>3, <1>14
  <2>2. 240 + a = x /\ 128 + d = y /\ 128 + e = z /\ 128 + f = u
        BY <1>14, <2>1
  <2>3. (a > 0 \/ d >= 16) /\ (a < 4 \/ (a = 4 /\ d <= 15))
        BY <1>14, <2>1
  <2>. QED  BY <1>9, <1>11, <1>12, <2>2, <2>3, SMT
<1>. QED  BY <1>13, <1>14 DEF Quadruple, c

\* A code point of so many bytes starts there.
Starts(b, i, w) ==
  /\ i + w - 1 <= Len(b) /\ IsCodePoint(Scalar(b, i, w))
  /\ Utf8(Scalar(b, i, w)) = SubSeq(b, i, i + w - 1)

LEMMA ByteAt == ASSUME NEW b \in Seq(0..255), NEW i \in 1..Len(b) PROVE b[i] \in 0..255
BY ElementOfSeq

LEMMA FewOf ==
  ASSUME NEW S, NEW b \in Seq(S), NEW i \in 1..Len(b)
  PROVE  /\ SubSeq(b, i, i) = <<b[i]>>
         /\ i + 1 <= Len(b) => SubSeq(b, i, i + 1) = <<b[i], b[i + 1]>>
         /\ i + 2 <= Len(b) => SubSeq(b, i, i + 2) = <<b[i], b[i + 1], b[i + 2]>>
         /\ i + 3 <= Len(b) => SubSeq(b, i, i + 3) = <<b[i], b[i + 1], b[i + 2], b[i + 3]>>
<1> DEFINE n == Len(b)
           two == <<b[i], b[i + 1]>>
           three == <<b[i], b[i + 1], b[i + 2]>>
           four == <<b[i], b[i + 1], b[i + 2], b[i + 3]>>
<1>1. SubSeq(b, i, i) = <<b[i]>>
  <2>1. Len(SubSeq(b, i, i)) = 1 /\ \A k \in 1..1 : SubSeq(b, i, i)[k] = <<b[i]>>[k]
        OBVIOUS
  <2>2. SubSeq(b, i, i) \in Seq(S) /\ <<b[i]>> \in Seq(S) /\ Len(<<b[i]>>) = 1
        OBVIOUS
  <2>. QED  BY <2>1, <2>2, SeqEqual
<1>2. ASSUME i + 1 <= n PROVE SubSeq(b, i, i + 1) = two
  <2>1. Len(SubSeq(b, i, i + 1)) = 2 /\ \A k \in 1..2 : SubSeq(b, i, i + 1)[k] = two[k]
        BY <1>2
  <2>2. SubSeq(b, i, i + 1) \in Seq(S) /\ two \in Seq(S) /\ Len(two) = 2
        BY <1>2
  <2>. QED  BY <2>1, <2>2, SeqEqual
<1>3. ASSUME i + 2 <= n PROVE SubSeq(b, i, i + 2) = three
  <2>1. Len(SubSeq(b, i, i + 2)) = 3 /\ \A k \in 1..3 : SubSeq(b, i, i + 2)[k] = three[k]
        BY <1>3
  <2>2. SubSeq(b, i, i + 2) \in Seq(S) /\ three \in Seq(S) /\ Len(three) = 3
        BY <1>3
  <2>. QED  BY <2>1, <2>2, SeqEqual
<1>4. ASSUME i + 3 <= n PROVE SubSeq(b, i, i + 3) = four
  <2>1. Len(SubSeq(b, i, i + 3)) = 4 /\ \A k \in 1..4 : SubSeq(b, i, i + 3)[k] = four[k]
        BY <1>4
  <2>2. SubSeq(b, i, i + 3) \in Seq(S) /\ four \in Seq(S) /\ Len(four) = 4
        BY <1>4
  <2>. QED  BY <2>1, <2>2, SeqEqual
<1>. QED  BY <1>1, <1>2, <1>3, <1>4

WidthOf(x, w2, w3, w4) ==
  CASE x <= 127 -> 1
    [] x \in 194..223 -> w2
    [] x \in 224..239 -> w3
    [] x \in 240..244 -> w4
    [] OTHER -> 0

\* Each width where it belongs.
WidthFits(x, w2, w3, w4, w) ==
  /\ w \in 0..4
  /\ w = 1 <=> x <= 127
  /\ w = 2 <=> x \in 194..223 /\ w2 = 2
  /\ w = 3 <=> x \in 224..239 /\ w3 = 3
  /\ w = 4 <=> x \in 240..244 /\ w4 = 4

LEMMA WidthCases ==
  ASSUME NEW x \in 0..255, NEW w2 \in {0, 2}, NEW w3 \in {0, 3}, NEW w4 \in {0, 4}
  PROVE  WidthFits(x, w2, w3, w4, WidthOf(x, w2, w3, w4))
BY DEF WidthOf, WidthFits

\* The cases of Width.
LEMMA WidthIs ==
  ASSUME NEW b \in Seq(0..255), NEW i \in 1..Len(b)
  PROVE  /\ Width(b, i) \in 0..4
         /\ Width(b, i) = 1 <=> b[i] <= 127
         /\ Width(b, i) = 2 <=> i + 1 <= Len(b) /\ Pair(b[i], b[i + 1])
         /\ Width(b, i) = 3 <=> i + 2 <= Len(b) /\ Triple(b[i], b[i + 1], b[i + 2])
         /\ Width(b, i) = 4 <=> i + 3 <= Len(b) /\ Quadruple(b[i], b[i + 1], b[i + 2], b[i + 3])
<1>1. b[i] \in 0..255
      BY ByteAt
<1> DEFINE x == b[i]
           y == b[i + 1]
           z == b[i + 2]
           u == b[i + 3]
           n == Len(b)
           w2 == IF i + 1 <= n /\ y \in 128..191 THEN 2 ELSE 0
           w3 == IF /\ i + 2 <= n /\ y \in 128..191 /\ z \in 128..191
                    /\ (x = 224 => y >= 160) /\ (x = 237 => y <= 159) THEN 3 ELSE 0
           w4 == IF /\ i + 3 <= n /\ y \in 128..191 /\ z \in 128..191 /\ u \in 128..191
                    /\ (x = 240 => y >= 144) /\ (x = 244 => y <= 143) THEN 4 ELSE 0
<1>2. Width(b, i) = WidthOf(x, w2, w3, w4)
      BY DEF Width, WidthOf
<1>3. w2 \in {0, 2} /\ w3 \in {0, 3} /\ w4 \in {0, 4}
      OBVIOUS
<1>4. /\ x \in 194..223 /\ w2 = 2 <=> i + 1 <= n /\ Pair(x, y)
      /\ x \in 224..239 /\ w3 = 3 <=> i + 2 <= n /\ Triple(x, y, z)
      /\ x \in 240..244 /\ w4 = 4 <=> i + 3 <= n /\ Quadruple(x, y, z, u)
      BY DEF Pair, Triple, Quadruple
<1> HIDE DEF x, w2, w3, w4
<1>5. WidthFits(x, w2, w3, w4, WidthOf(x, w2, w3, w4))
  <2>1. x \in 0..255
        BY <1>1 DEF x
  <2>. QED  BY <1>3, <2>1, WidthCases, Zenon
<1>6. WidthFits(x, w2, w3, w4, Width(b, i))
      BY <1>2, <1>5
<1>. QED  BY <1>4, <1>6 DEF x, WidthFits

LEMMA StartsIs ==
  ASSUME NEW b \in Seq(0..255), NEW i \in 1..Len(b), NEW w \in 1..4
  PROVE  Starts(b, i, w) <=> Width(b, i) = w
<1> DEFINE x == b[i]
           y == b[i + 1]
           z == b[i + 2]
           u == b[i + 3]
           n == Len(b)
<1>1. /\ x \in 0..255 /\ n \in Nat /\ i \in Nat
      /\ i + 1 <= n => y \in 0..255
      /\ i + 2 <= n => y \in 0..255 /\ z \in 0..255
      /\ i + 3 <= n => y \in 0..255 /\ z \in 0..255 /\ u \in 0..255
  <2>1. n \in Nat /\ i \in Nat
        BY LenProperties
  <2>2. \A j \in 1..n : b[j] \in 0..255
        BY ByteAt
  <2>3. /\ i + 1 <= n => i + 1 \in 1..n
        /\ i + 2 <= n => i + 1 \in 1..n /\ i + 2 \in 1..n
        /\ i + 3 <= n => i + 1 \in 1..n /\ i + 2 \in 1..n /\ i + 3 \in 1..n
        BY <2>1
  <2> HIDE DEF n
  <2>. QED  BY <2>1, <2>2, <2>3 DEF n
<1>2. /\ SubSeq(b, i, i) = <<x>>
      /\ i + 1 <= n => SubSeq(b, i, i + 1) = <<x, y>>
      /\ i + 2 <= n => SubSeq(b, i, i + 2) = <<x, y, z>>
      /\ i + 3 <= n => SubSeq(b, i, i + 3) = <<x, y, z, u>>
      BY FewOf
<1>3. i + 1 - 1 = i /\ i + 2 - 1 = i + 1 /\ i + 3 - 1 = i + 2 /\ i + 4 - 1 = i + 3 /\ i <= n
      BY <1>1
<1>4. /\ Width(b, i) = 1 <=> x <= 127
      /\ Width(b, i) = 2 <=> i + 1 <= n /\ Pair(x, y)
      /\ Width(b, i) = 3 <=> i + 2 <= n /\ Triple(x, y, z)
      /\ Width(b, i) = 4 <=> i + 3 <= n /\ Quadruple(x, y, z, u)
      BY WidthIs
<1> HIDE DEF x, y, z, u, n
<1>5. CASE w = 1
  <2>1. Scalar(b, i, 1) = x
        BY DEF Scalar, x
  <2>2. Starts(b, i, 1) <=> IsCodePoint(x) /\ Utf8(x) = <<x>>
        BY <1>2, <1>3, <2>1 DEF Starts, n
  <2>. QED  BY <1>1, <1>4, <1>5, <2>2, OneByte
<1>6. CASE w = 2
  <2> DEFINE c == Scalar(b, i, 2)
  <2>1. c = Two(x, y)
        BY DEF Scalar, Two, x, y
  <2> HIDE DEF c
  <2>2. i + 1 <= n => (IsCodePoint(c) /\ Utf8(c) = <<x, y>> <=> Pair(x, y))
        BY <1>1, <2>1, TwoBytes
  <2>3. Starts(b, i, 2) <=> i + 1 <= n /\ IsCodePoint(c) /\ Utf8(c) = <<x, y>>
        BY <1>2, <1>3 DEF Starts, n, c
  <2>. QED  BY <1>4, <1>6, <2>2, <2>3
<1>7. CASE w = 3
  <2> DEFINE c == Scalar(b, i, 3)
  <2>1. c = Three(x, y, z)
        BY DEF Scalar, Three, x, y, z
  <2> HIDE DEF c
  <2>2. i + 2 <= n => (IsCodePoint(c) /\ Utf8(c) = <<x, y, z>> <=> Triple(x, y, z))
        BY <1>1, <2>1, ThreeBytes
  <2>3. Starts(b, i, 3) <=> i + 2 <= n /\ IsCodePoint(c) /\ Utf8(c) = <<x, y, z>>
        BY <1>2, <1>3 DEF Starts, n, c
  <2>. QED  BY <1>4, <1>7, <2>2, <2>3
<1>8. CASE w = 4
  <2> DEFINE c == Scalar(b, i, 4)
  <2>1. c = Four(x, y, z, u)
        BY SMT DEF Scalar, Four, x, y, z, u
  <2> HIDE DEF c
  <2>2. i + 3 <= n => (IsCodePoint(c) /\ Utf8(c) = <<x, y, z, u>> <=> Quadruple(x, y, z, u))
    <3>1. SUFFICES ASSUME i + 3 <= n
                   PROVE  IsCodePoint(c) /\ Utf8(c) = <<x, y, z, u>> <=> Quadruple(x, y, z, u)
          OBVIOUS
    <3>2. x \in 0..255 /\ y \in 0..255 /\ z \in 0..255 /\ u \in 0..255
          BY <1>1, <3>1, Zenon
    <3>3. IsCodePoint(Four(x, y, z, u)) /\ Utf8(Four(x, y, z, u)) = <<x, y, z, u>>
            <=> Quadruple(x, y, z, u)
          BY <3>2, FourBytes, Zenon
    <3>. QED  BY <2>1, <3>3
  <2>3. Starts(b, i, 4) <=> i + 3 <= n /\ IsCodePoint(c) /\ Utf8(c) = <<x, y, z, u>>
        BY <1>2, <1>3 DEF Starts, n, c
  <2>. QED  BY <1>4, <1>8, <2>2, <2>3
<1>. QED  BY <1>5, <1>6, <1>7, <1>8

\* The code decodes bytes as the reference does.
LEMMA DecodedIs == ASSUME NEW b \in Seq(0..255) PROVE DecodeBytes(b) = ReferenceBytes(b)
<1>1. ReferenceBytes(b) =
        Reading(b, [i \in DOMAIN b |-> IF \E w \in 1..4 : Starts(b, i, w)
                                      THEN CHOOSE w \in 1..4 : Starts(b, i, w) ELSE 0])
      BY DEF ReferenceBytes, Starts
<1>2. ASSUME NEW i \in DOMAIN b
      PROVE  Width(b, i) = IF \E w \in 1..4 : Starts(b, i, w)
                           THEN CHOOSE w \in 1..4 : Starts(b, i, w) ELSE 0
  <2>1. i \in 1..Len(b) /\ Width(b, i) \in 0..4
    <3>1. i \in 1..Len(b)
          OBVIOUS
    <3>. QED  BY <3>1, WidthIs
  <2>2. \A w \in 1..4 : Starts(b, i, w) <=> Width(b, i) = w
        BY <2>1, StartsIs
  <2>. QED  BY <2>1, <2>2
<1>. QED  BY <1>1, <1>2 DEF DecodeBytes

-----------------------------------------------------------------------------
(* Flattening *)

\* g flattens the first parts of s, for each of their numbers up to n.
Flattens(s, n, g) == g = [i \in 1..n |-> IF i = 1 THEN s[i] ELSE g[i - 1] \o s[i]]
Flattener(s) == CHOOSE g : Flattens(s, Len(s), g)

LEMMA FlattenSeqIs ==
  ASSUME NEW s
  PROVE  FlattenSeq(s) = IF Len(s) = 0 THEN s ELSE Flattener(s)[Len(s)]
BY DEF FlattenSeq, Flattener, Flattens

LEMMA FlattenerIs == ASSUME NEW S, NEW s \in Seq(S) PROVE Flattens(s, Len(s), Flattener(s))
<1> DEFINE N == {n \in Nat : \E g : Flattens(s, n, g)}
<1>1. 0 \in N
  <2> DEFINE g == [i \in 1..0 |-> s[i]]
  <2>1. Flattens(s, 0, g)
        BY DEF Flattens
  <2>. QED  BY <2>1
<1>2. ASSUME NEW n \in N PROVE n + 1 \in N
  <2>1. PICK g : Flattens(s, n, g)
        OBVIOUS
  <2> DEFINE h == [i \in 1..(n + 1) |-> IF i = 1 THEN s[i] ELSE g[i - 1] \o s[i]]
  <2>2. ASSUME NEW i \in 1..n PROVE h[i] = g[i]
    <3>1. i \in 1..(n + 1)
          OBVIOUS
    <3>2. g = [j \in 1..n |-> IF j = 1 THEN s[j] ELSE g[j - 1] \o s[j]]
          BY <2>1 DEF Flattens
    <3>3. g[i] = IF i = 1 THEN s[i] ELSE g[i - 1] \o s[i]
          BY <3>2
    <3>. QED  BY <3>1, <3>3
  <2>3. \A i \in 1..(n + 1) : i # 1 => h[i - 1] = g[i - 1]
    <3>1. \A i \in 1..(n + 1) : i # 1 => i - 1 \in 1..n
          OBVIOUS
    <3> HIDE DEF h
    <3>. QED  BY <2>2, <3>1
  <2>4. Flattens(s, n + 1, h)
        BY <2>3 DEF Flattens
  <2>. QED  BY <2>4
<1>3. N = Nat
  <2>1. N \in SUBSET Nat
        OBVIOUS
  <2> HIDE DEF N
  <2>. QED  BY <1>1, <1>2, <2>1, Naturals
<1>4. Len(s) \in N
  <2>1. Len(s) \in Nat
        OBVIOUS
  <2> HIDE DEF N
  <2>. QED  BY <1>3, <2>1
<1>5. \E g : Flattens(s, Len(s), g)
      BY <1>4
<1>. QED  BY <1>5 DEF Flattener

\* What flattens is a sequence, and says the same of a common beginning.
LEMMA FlattensTyped ==
  ASSUME NEW S, NEW s \in Seq(Seq(S)), NEW g, Flattens(s, Len(s), g)
  PROVE  \A i \in 1..Len(s) : g[i] \in Seq(S)
<1> DEFINE N == {n \in Nat : n \in 1..Len(s) => g[n] \in Seq(S)}
<1>1. g = [i \in 1..Len(s) |-> IF i = 1 THEN s[i] ELSE g[i - 1] \o s[i]]
      BY DEF Flattens
<1>2. \A i \in 1..Len(s) : s[i] \in Seq(S)
      BY ElementOfSeq
<1>3. 0 \in N
      OBVIOUS
<1>4. ASSUME NEW n \in N, n + 1 \in 1..Len(s) PROVE g[n + 1] \in Seq(S)
  <2>1. CASE n = 0
    <3>1. g[1] = s[1]
          BY <1>1, <1>4, <2>1
    <3>. QED  BY <1>2, <1>4, <2>1, <3>1
  <2>2. CASE n # 0
    <3>1. n \in 1..Len(s) /\ n + 1 # 1 /\ (n + 1) - 1 = n
          BY <1>4, <2>2
    <3>2. g[n + 1] = g[(n + 1) - 1] \o s[n + 1]
          BY <1>1, <1>4, <3>1
    <3>3. g[n] \in Seq(S) /\ s[n + 1] \in Seq(S)
          BY <1>2, <1>4, <3>1
    <3>. QED  BY <3>1, <3>2, <3>3
  <2>. QED  BY <2>1, <2>2
<1>5. N = Nat
  <2>1. N \in SUBSET Nat
        OBVIOUS
  <2>2. ASSUME NEW n \in N PROVE n + 1 \in N
    <3>1. n + 1 \in Nat
          OBVIOUS
    <3>2. n + 1 \in 1..Len(s) => g[n + 1] \in Seq(S)
          BY <1>4
    <3>. QED  BY <3>1, <3>2
  <2> HIDE DEF N
  <2>. QED  BY <1>3, <2>1, <2>2, Naturals
<1>. QED  BY <1>5

LEMMA FlattensAgree ==
  ASSUME NEW S, NEW s \in Seq(Seq(S)), NEW x \in Seq(S)
  PROVE  \A i \in 1..Len(s) : Flattener(s)[i] = Flattener(Append(s, x))[i]
<1> DEFINE t == Append(s, x)
           k == Len(s)
           g == Flattener(s)
           h == Flattener(t)
           N == {i \in Nat : i \in 1..k => g[i] = h[i]}
<1>0. /\ t \in Seq(Seq(S)) /\ Len(t) = k + 1 /\ k \in Nat
      /\ \A i \in 1..k : s[i] = t[i]
      OBVIOUS
<1> HIDE DEF t
<1>6. Flattens(s, k, g) /\ Flattens(t, k + 1, h)
      BY <1>0, FlattenerIs
<1> HIDE DEF k, g, h
<1>1. /\ g = [i \in 1..k |-> IF i = 1 THEN s[i] ELSE g[i - 1] \o s[i]]
      /\ h = [i \in 1..(k + 1) |-> IF i = 1 THEN t[i] ELSE h[i - 1] \o t[i]]
      BY <1>6 DEF Flattens
<1>2. 0 \in N
      OBVIOUS
<1>3. ASSUME NEW i \in N, i + 1 \in 1..k PROVE g[i + 1] = h[i + 1]
  <2>0. i + 1 \in 1..k /\ i + 1 \in 1..(k + 1)
        BY <1>0, <1>3
  <2>1. CASE i = 0
    <3>1. g[1] = s[1] /\ h[1] = t[1]
          BY <1>1, <2>0, <2>1
    <3>. QED  BY <1>0, <1>3, <2>1, <3>1
  <2>2. CASE i # 0
    <3>1. i \in 1..k /\ i + 1 # 1 /\ (i + 1) - 1 = i
          BY <1>0, <1>3, <2>2
    <3>2. g[i + 1] = g[(i + 1) - 1] \o s[i + 1] /\ h[i + 1] = h[(i + 1) - 1] \o t[i + 1]
          BY <1>1, <2>0, <3>1
    <3>3. g[i] = h[i] /\ s[i + 1] = t[i + 1]
          BY <1>0, <1>3, <3>1
    <3>. QED  BY <3>1, <3>2, <3>3
  <2>. QED  BY <2>1, <2>2
<1>4. N = Nat
  <2>1. N \in SUBSET Nat /\ \A i \in N : i + 1 \in N
        BY <1>3
  <2> HIDE DEF N
  <2>. QED  BY <1>2, <2>1, Naturals
<1>5. ASSUME NEW i \in 1..k PROVE g[i] = h[i]
  <2>1. i \in Nat
        OBVIOUS
  <2>2. i \in N
    <3> HIDE DEF N
    <3>. QED  BY <1>4, <2>1
  <2>. QED  BY <2>2
<1>. QED  BY <1>5 DEF k, g, h, t

LEMMA FlattenTyped == ASSUME NEW S, NEW s \in Seq(Seq(S)) PROVE FlattenSeq(s) \in Seq(S)
<1>1. CASE Len(s) = 0
  <2>1. s = <<>>
        BY <1>1
  <2>2. FlattenSeq(s) = s
        BY <1>1, FlattenSeqIs
  <2>3. <<>> \in Seq(S)
        OBVIOUS
  <2>. QED  BY <2>1, <2>2, <2>3
<1>2. CASE Len(s) # 0
  <2>1. Len(s) \in 1..Len(s)
        BY <1>2
  <2>2. Flattener(s)[Len(s)] \in Seq(S)
        BY <2>1, FlattenerIs, FlattensTyped
  <2>. QED  BY <1>2, <2>2, FlattenSeqIs
<1>. QED  BY <1>1, <1>2

\* One more part.
LEMMA FlattenAppend ==
  ASSUME NEW S, NEW s \in Seq(Seq(S)), NEW x \in Seq(S)
  PROVE  FlattenSeq(Append(s, x)) = FlattenSeq(s) \o x
<1> DEFINE t == Append(s, x)
           n == Len(s)
<1>1. /\ t \in Seq(Seq(S)) /\ Len(t) = n + 1 /\ n \in Nat /\ t[n + 1] = x
      /\ \A i \in 1..n : s[i] = t[i]
      OBVIOUS
<1> HIDE DEF t, n
<1>2. Flattens(s, n, Flattener(s)) /\ Flattens(t, n + 1, Flattener(t))
      BY <1>1, FlattenerIs DEF n
<1>3. FlattenSeq(t) = Flattener(t)[n + 1]
      BY <1>1, FlattenSeqIs
<1>4. Flattener(t) = [i \in 1..(n + 1) |-> IF i = 1 THEN t[i] ELSE Flattener(t)[i - 1] \o t[i]]
      BY <1>2 DEF Flattens
<1>5. CASE n = 0
  <2>1. s = <<>> /\ FlattenSeq(s) = s
        BY <1>5, FlattenSeqIs DEF n
  <2>2. Flattener(t)[1] = t[1]
        BY <1>4, <1>5
  <2>3. <<>> \o x = x
        OBVIOUS
  <2>. QED  BY <1>1, <1>3, <1>5, <2>1, <2>2, <2>3 DEF t
<1>6. CASE n # 0
  <2>1. FlattenSeq(s) = Flattener(s)[n]
        BY <1>6, FlattenSeqIs DEF n
  <2>2. n + 1 \in 1..(n + 1) /\ n + 1 # 1 /\ (n + 1) - 1 = n /\ n \in 1..n /\ n <= n + 1
        BY <1>1, <1>6
  <2>3. Flattener(t)[n + 1] = Flattener(t)[n] \o t[n + 1]
        BY <1>4, <2>2
  <2>4. Flattener(s)[n] = Flattener(t)[n]
    <3>2. \A i \in 1..n : Flattener(s)[i] = Flattener(t)[i]
          BY FlattensAgree DEF n, t
    <3>. QED  BY <2>2, <3>2
  <2>. QED  BY <1>1, <1>3, <2>1, <2>3, <2>4 DEF t
<1>. QED  BY <1>5, <1>6

\* Parts that are empty after the first m.
LEMMA FlattenRest ==
  ASSUME NEW S, NEW s \in Seq(Seq(S)), NEW m \in 0..Len(s),
         \A i \in (m + 1)..Len(s) : s[i] = <<>>
  PROVE  FlattenSeq(s) = FlattenSeq(SubSeq(s, 1, m))
<1> DEFINE N == {d \in Nat : m + d <= Len(s) =>
                    FlattenSeq(SubSeq(s, 1, m + d)) = FlattenSeq(SubSeq(s, 1, m))}
<1>1. 0 \in N
      OBVIOUS
<1>2. ASSUME NEW d \in N, m + (d + 1) <= Len(s)
      PROVE  FlattenSeq(SubSeq(s, 1, m + (d + 1))) = FlattenSeq(SubSeq(s, 1, m))
  <2> DEFINE k == m + d
             a == SubSeq(s, 1, k)
  <2>1. k \in Nat /\ k + 1 \in 1..Len(s) /\ m + (d + 1) = k + 1 /\ k + 1 \in (m + 1)..Len(s)
        BY <1>2
  <2>2. a \in Seq(Seq(S)) /\ s[k + 1] = <<>>
        BY <2>1
  <2>3. SubSeq(s, 1, k + 1) = Append(a, s[k + 1])
        BY <2>1
  <2>4. FlattenSeq(Append(a, <<>>)) = FlattenSeq(a) \o <<>>
    <3>1. <<>> \in Seq(S)
          OBVIOUS
    <3> HIDE DEF a
    <3>. QED  BY <2>2, <3>1, FlattenAppend
  <2>5. FlattenSeq(a) \in Seq(S)
        BY <2>2, FlattenTyped
  <2>6. FlattenSeq(a) \o <<>> = FlattenSeq(a)
        BY <2>5
  <2>7. FlattenSeq(a) = FlattenSeq(SubSeq(s, 1, m))
        BY <1>2, <2>1
  <2>. QED  BY <2>1, <2>2, <2>3, <2>4, <2>6, <2>7
<1>3. N = Nat
  <2>1. N \in SUBSET Nat
        OBVIOUS
  <2>2. ASSUME NEW d \in N PROVE d + 1 \in N
    <3>1. d + 1 \in Nat
          OBVIOUS
    <3>. QED  BY <1>2, <3>1
  <2> HIDE DEF N
  <2>. QED  BY <1>1, <2>1, <2>2, Naturals
<1>4. Len(s) - m \in Nat /\ m + (Len(s) - m) = Len(s)
      OBVIOUS
<1>5. FlattenSeq(SubSeq(s, 1, m + (Len(s) - m))) = FlattenSeq(SubSeq(s, 1, m))
  <2>1. Len(s) - m \in N
        BY <1>3, <1>4
  <2>. QED  BY <1>4, <2>1
<1>6. SubSeq(s, 1, Len(s)) = s
      OBVIOUS
<1>. QED  BY <1>4, <1>5, <1>6

-----------------------------------------------------------------------------
(* Reading bytes *)

\* g reads the bytes from each position from m on.
Reads(b, width, m, g) ==
  g = [i \in m..(Len(b) + 1) |->
         IF i > Len(b) THEN <<>>
         ELSE IF width[i] = 0 THEN <<Replacement>> \o g[i + 1]
         ELSE <<Scalar(b, i, width[i])>> \o g[i + width[i]]]
Reader(b, width) == CHOOSE g : Reads(b, width, 1, g)

\* Widths that stay within the bytes.
Within(b, width) == \A i \in 1..Len(b) : width[i] \in 0..4 /\ i + width[i] <= Len(b) + 1

LEMMA ReaderIs ==
  ASSUME NEW S, NEW b \in Seq(S), NEW width, Within(b, width)
  PROVE  Reads(b, width, 1, Reader(b, width))
<1> DEFINE n == Len(b)
           N == {k \in Nat : k <= n => \E g : Reads(b, width, n + 1 - k, g)}
<1>1. n \in Nat
      OBVIOUS
<1>2. \A i \in 1..n : width[i] \in 0..4 /\ i + width[i] <= n + 1
      BY DEF Within
<1> HIDE DEF n
<1>3. 0 \in N
  <2> DEFINE g == [i \in (n + 1)..(n + 1) |-> <<>>]
  <2>1. Reads(b, width, n + 1, g)
        BY <1>1 DEF Reads, n
  <2>2. n + 1 - 0 = n + 1
        BY <1>1
  <2>. QED  BY <2>1, <2>2
<1>4. ASSUME NEW k \in N, k + 1 <= n PROVE \E g : Reads(b, width, n + 1 - (k + 1), g)
  <2> DEFINE m == n - k
  <2>1. k \in Nat /\ m \in Nat /\ m >= 1 /\ m <= n /\ n + 1 - k = m + 1 /\ n + 1 - (k + 1) = m
        BY <1>1, <1>4
  <2>2. PICK g : Reads(b, width, m + 1, g)
        BY <1>1, <1>4, <2>1
  <2> HIDE DEF m
  <2> DEFINE h == [i \in m..(n + 1) |->
                     IF i > n THEN <<>>
                     ELSE IF width[i] = 0 THEN <<Replacement>> \o g[i + 1]
                     ELSE <<Scalar(b, i, width[i])>> \o g[i + width[i]]]
  <2>3. ASSUME NEW i \in (m + 1)..(n + 1) PROVE h[i] = g[i]
    <3>1. i \in m..(n + 1)
          BY <1>1, <2>1
    <3>2. g = [j \in (m + 1)..(n + 1) |->
                 IF j > n THEN <<>>
                 ELSE IF width[j] = 0 THEN <<Replacement>> \o g[j + 1]
                 ELSE <<Scalar(b, j, width[j])>> \o g[j + width[j]]]
          BY <2>2 DEF Reads, n
    <3>3. g[i] = IF i > n THEN <<>>
                 ELSE IF width[i] = 0 THEN <<Replacement>> \o g[i + 1]
                 ELSE <<Scalar(b, i, width[i])>> \o g[i + width[i]]
          BY <3>2
    <3>. QED  BY <3>1, <3>3
  <2>4. ASSUME NEW i \in m..(n + 1), ~ (i > n)
        PROVE  /\ h[i + 1] = g[i + 1]
               /\ width[i] # 0 => h[i + width[i]] = g[i + width[i]]
    <3>1. i \in 1..n /\ i + 1 \in (m + 1)..(n + 1)
          BY <1>1, <2>1, <2>4
    <3>2. width[i] # 0 => i + width[i] \in (m + 1)..(n + 1)
          BY <1>1, <1>2, <2>1, <2>4, <3>1
    <3> HIDE DEF h
    <3>. QED  BY <2>3, <3>1, <3>2
  <2>5. h = [i \in m..(n + 1) |->
               IF i > n THEN <<>>
               ELSE IF width[i] = 0 THEN <<Replacement>> \o h[i + 1]
               ELSE <<Scalar(b, i, width[i])>> \o h[i + width[i]]]
    <3> DEFINE f(i, r) == IF i > n THEN <<>>
                          ELSE IF width[i] = 0 THEN <<Replacement>> \o r[i + 1]
                          ELSE <<Scalar(b, i, width[i])>> \o r[i + width[i]]
    <3>1. \A i \in m..(n + 1) : f(i, h) = f(i, g)
      <4> HIDE DEF h
      <4>. QED  BY <2>4
    <3>2. h = [i \in m..(n + 1) |-> f(i, g)]
          OBVIOUS
    <3>3. [i \in m..(n + 1) |-> f(i, g)] = [i \in m..(n + 1) |-> f(i, h)]
      <4> HIDE DEF f
      <4>. QED  BY <3>1
    <3> HIDE DEF h
    <3>. QED  BY <3>2, <3>3
  <2>6. Reads(b, width, m, h)
    <3> HIDE DEF h
    <3>. QED  BY <2>5 DEF Reads, n
  <2>. QED  BY <2>1, <2>6
<1>5. N = Nat
  <2>1. N \in SUBSET Nat
        OBVIOUS
  <2>2. ASSUME NEW k \in N PROVE k + 1 \in N
    <3>1. k + 1 \in Nat
          OBVIOUS
    <3>. QED  BY <1>4, <3>1
  <2> HIDE DEF N
  <2>. QED  BY <1>3, <2>1, <2>2, Naturals
<1>6. n \in N
  <2> HIDE DEF N
  <2>. QED  BY <1>1, <1>5
<1>7. n + 1 - n = 1
      BY <1>1
<1>8. \E g : Reads(b, width, 1, g)
      BY <1>1, <1>6, <1>7
<1>. QED  BY <1>8 DEF Reader

LEMMA LowNat ==
  ASSUME NEW x \in 0..255
  PROVE  x \in Nat /\ x % 64 \in Nat /\ x % 32 \in Nat /\ x % 16 \in Nat /\ x % 8 \in Nat
OBVIOUS

LEMMA ScalarIs ==
  ASSUME NEW b \in Seq(0..255), NEW i \in 1..Len(b), NEW w \in 1..4, i + w <= Len(b) + 1
  PROVE  Scalar(b, i, w) \in Nat
<1> DEFINE x == b[i]
           y == b[i + 1]
           z == b[i + 2]
           u == b[i + 3]
<1>1. /\ x \in 0..255
      /\ w \in 2..4 => y \in 0..255
      /\ w \in 3..4 => z \in 0..255
      /\ w = 4 => u \in 0..255
  <2>1. \A j \in 1..Len(b) : b[j] \in 0..255
        BY ByteAt
  <2>2. Len(b) \in Nat
        OBVIOUS
  <2> DEFINE n == Len(b)
  <2> HIDE DEF n
  <2>3. /\ w \in 2..4 => i + 1 \in 1..n
        /\ w \in 3..4 => i + 2 \in 1..n
        /\ w = 4 => i + 3 \in 1..n
        BY <2>2 DEF n
  <2>. QED  BY <2>1, <2>3 DEF n
<1>2. x \in Nat /\ x % 32 \in Nat /\ x % 16 \in Nat /\ x % 8 \in Nat
  <2> HIDE DEF x
  <2>. QED  BY <1>1, LowNat
<1>3. /\ w \in 2..4 => y % 64 \in Nat
      /\ w \in 3..4 => z % 64 \in Nat
      /\ w = 4 => u % 64 \in Nat
  <2> HIDE DEF y, z, u
  <2>. QED  BY <1>1, LowNat
<1> HIDE DEF x, y, z, u
<1>4. CASE w = 1
  <2>1. Scalar(b, i, 1) = x
        BY SMT DEF Scalar, x
  <2>. QED  BY <1>2, <1>4, <2>1, SMT
<1>5. CASE w = 2
  <2>1. Scalar(b, i, 2) = (x % 32) * 64 + (y % 64)
        BY SMT DEF Scalar, x, y
  <2>2. x % 32 \in Nat /\ y % 64 \in Nat
        BY <1>2, <1>3, <1>5, SMT
  <2>. QED  BY <1>5, <2>1, <2>2, SMT
<1>6. CASE w = 3
  <2>1. Scalar(b, i, 3) = (x % 16) * 4096 + (y % 64) * 64 + (z % 64)
        BY SMT DEF Scalar, x, y, z
  <2>2. x % 16 \in Nat /\ y % 64 \in Nat /\ z % 64 \in Nat
        BY <1>2, <1>3, <1>6, SMT
  <2>. QED  BY <1>6, <2>1, <2>2, SMT
<1>7. CASE w = 4
  <2>1. Scalar(b, i, 4) = (x % 8) * 262144 + (y % 64) * 4096 + (z % 64) * 64 + (u % 64)
        BY SMT DEF Scalar, x, y, z, u
  <2>2. x % 8 \in Nat /\ y % 64 \in Nat /\ z % 64 \in Nat /\ u % 64 \in Nat
        BY <1>2, <1>3, <1>7, SMT
  <2>. QED  BY <1>7, <2>1, <2>2, SMT
<1>. QED  BY <1>4, <1>5, <1>6, <1>7

LEMMA ReadingIs ==
  ASSUME NEW b \in Seq(0..255), NEW width, Within(b, width)
  PROVE  /\ Reading(b, width) \in Seq(Nat)
         /\ b = <<>> => Reading(b, width) = <<>>
<1> DEFINE n == Len(b)
           g == Reader(b, width)
           N == {k \in Nat : \A i \in 1..(n + 1) : n + 1 - i <= k => g[i] \in Seq(Nat)}
<1>1. Reading(b, width) = g[1]
      BY DEF Reading, Reader, Reads
<1>2. n \in Nat
      OBVIOUS
<1>3. Reads(b, width, 1, g)
      BY ReaderIs
<1>4. \A i \in 1..n : width[i] \in 0..4 /\ i + width[i] <= n + 1
      BY DEF Within
<1>5. \A i \in 1..n : width[i] # 0 => Scalar(b, i, width[i]) \in Nat
  <2>1. ASSUME NEW i \in 1..n, width[i] # 0 PROVE Scalar(b, i, width[i]) \in Nat
    <3>1. width[i] \in 1..4 /\ i + width[i] <= Len(b) + 1
          BY <1>4, <2>1
    <3>. QED  BY <3>1, ScalarIs
  <2>. QED  BY <2>1
<1> HIDE DEF n, g
<1>6. ASSUME NEW i \in 1..(n + 1)
      PROVE  g[i] = IF i > n THEN <<>>
                    ELSE IF width[i] = 0 THEN <<Replacement>> \o g[i + 1]
                    ELSE <<Scalar(b, i, width[i])>> \o g[i + width[i]]
      BY <1>3 DEF Reads, n
<1>7. 0 \in N
  <2>1. ASSUME NEW i \in 1..(n + 1), n + 1 - i <= 0 PROVE g[i] \in Seq(Nat)
    <3>1. i > n
          BY <1>2, <2>1
    <3>2. g[i] = <<>>
          BY <1>6, <3>1
    <3>. QED  BY <3>2
  <2>. QED  BY <2>1
<1>8. ASSUME NEW k \in N PROVE k + 1 \in N
  <2>1. ASSUME NEW i \in 1..(n + 1), n + 1 - i <= k + 1 PROVE g[i] \in Seq(Nat)
    <3>1. CASE i > n
      <4>1. g[i] = <<>>
            BY <1>6, <3>1
      <4>. QED  BY <4>1
    <3>2. CASE i <= n /\ width[i] = 0
      <4>1. i + 1 \in 1..(n + 1) /\ n + 1 - (i + 1) <= k
            BY <1>2, <2>1, <3>2
      <4>2. g[i + 1] \in Seq(Nat)
            BY <4>1
      <4>3. g[i] = <<Replacement>> \o g[i + 1]
        <5>1. ~ (i > n)
              BY <1>2, <3>2
        <5>. QED  BY <1>6, <3>2, <5>1, Zenon
      <4>4. <<Replacement>> \in Seq(Nat)
            BY DEF Replacement
      <4>. QED  BY <4>2, <4>3, <4>4
    <3>3. CASE i <= n /\ width[i] # 0
      <4>1. i \in 1..n
            BY <1>2, <3>3
      <4>2. i + width[i] \in 1..(n + 1) /\ n + 1 - (i + width[i]) <= k
            BY <1>2, <1>4, <2>1, <3>3, <4>1
      <4>3. g[i + width[i]] \in Seq(Nat)
            BY <4>2
      <4>4. <<Scalar(b, i, width[i])>> \in Seq(Nat)
            BY <1>5, <3>3, <4>1
      <4>5. g[i] = <<Scalar(b, i, width[i])>> \o g[i + width[i]]
        <5>1. ~ (i > n)
              BY <1>2, <3>3
        <5>. QED  BY <1>6, <3>3, <5>1, Zenon
      <4>. QED  BY <4>3, <4>4, <4>5
    <3>. QED  BY <1>2, <3>1, <3>2, <3>3
  <2>. QED  BY <2>1
<1>9. N = Nat
  <2>1. N \in SUBSET Nat
        OBVIOUS
  <2> HIDE DEF N
  <2>. QED  BY <1>7, <1>8, <2>1, Naturals
<1>10. n \in N
  <2> HIDE DEF N
  <2>. QED  BY <1>2, <1>9
<1>11. 1 \in 1..(n + 1) /\ n + 1 - 1 <= n
       BY <1>2
<1>12. g[1] \in Seq(Nat)
       BY <1>10, <1>11
<1>13. b = <<>> => g[1] = <<>>
  <2>1. b = <<>> => 1 > n
        BY DEF n
  <2>. QED  BY <1>6, <1>11, <2>1
<1>. QED  BY <1>1, <1>12, <1>13

\* The bytes' text, by the code, is the reference's and a text.
LEMMA DecodedTyped ==
  ASSUME NEW b \in Seq(0..255)
  PROVE  DecodeBytes(b) \in Seq(Nat) /\ DecodeBytes(<<>>) = <<>>
<1>1. ASSUME NEW a \in Seq(0..255) PROVE Within(a, [i \in DOMAIN a |-> Width(a, i)])
  <2> DEFINE width == [i \in DOMAIN a |-> Width(a, i)]
  <2>1. ASSUME NEW i \in 1..Len(a) PROVE width[i] \in 0..4 /\ i + width[i] <= Len(a) + 1
    <3>1. width[i] = Width(a, i)
          OBVIOUS
    <3>2. /\ Width(a, i) \in 0..4
          /\ Width(a, i) = 2 => i + 1 <= Len(a)
          /\ Width(a, i) = 3 => i + 2 <= Len(a)
          /\ Width(a, i) = 4 => i + 3 <= Len(a)
          BY WidthIs
    <3>3. Len(a) \in Nat
          OBVIOUS
    <3> HIDE DEF width
    <3>. QED  BY <3>1, <3>2, <3>3
  <2>. QED  BY <2>1 DEF Within
<1>2. <<>> \in Seq(0..255)
      OBVIOUS
<1>. QED  BY <1>1, <1>2, ReadingIs DEF DecodeBytes

-----------------------------------------------------------------------------
(* What tokens are *)

\* A vocabulary that from_bytes accepts, and the tokens that write something.
Accepted(V) == V \in Vocabularies /\ \A i \in DOMAIN V : ValidPiece(i, V[i])
Shown == Int \ {PAD, BOS, EOS}

\* The reference, by the vocabulary.
ByteIn(V, t) == t \in DOMAIN V /\ t \in FirstByte..(FirstWord - 1)
RunParts(V, v, k) ==
  [j \in DOMAIN v |-> IF j >= k /\ \A i \in k..j : ByteIn(V, v[i]) THEN <<v[j] - FirstByte>> ELSE <<>>]
RunIn(V, v, k) == FlattenSeq(RunParts(V, v, k))
PartIn(V, v, k) ==
  CASE ByteIn(V, v[k]) -> IF k > 1 /\ ByteIn(V, v[k - 1]) THEN <<>> ELSE ReferenceBytes(RunIn(V, v, k))
    [] v[k] = UNK \/ v[k] \notin DOMAIN V -> UnknownSurface
    [] OTHER -> LET w == V[v[k]].text
                IN  IF k = 1 /\ w[1] = Marker THEN Tail(Spaced(w)) ELSE Spaced(w)
WrittenIn(V, v, n) == FlattenSeq([k \in 1..n |-> PartIn(V, v, k)])
TextIn(V, s) == FlattenSeq([k \in DOMAIN Visible(s) |-> PartIn(V, Visible(s), k)])

LEMMA ReferenceIs == ASSUME NEW s PROVE ReferenceText(s) = TextIn(vocabulary, s)
BY DEF ReferenceText, TextIn, Part, PartIn, Run, RunIn, RunParts, IsByte, ByteIn

LEMMA PieceKinds ==
  ASSUME NEW V, Accepted(V), NEW i \in DOMAIN V
  PROVE  /\ i \in Nat /\ PAD..UNK \subseteq DOMAIN V
         /\ V[i].control <=> i < UNK
         /\ V[i].byte <=> i \in FirstByte..(FirstWord - 1)
         /\ V[i].unknown <=> i = UNK
         /\ i >= FirstWord => V[i].text \in Seq(Nat) /\ V[i].text # <<>>
<1> DEFINE p == V[i]
<1>1. i \in Nat /\ PAD..UNK \subseteq DOMAIN V /\ (i >= FirstWord => p.text \in Seq(Nat))
      BY VocabulariesAreRecords DEF Accepted
<1>2. ValidPiece(i, p)
      BY DEF Accepted
<1>0. i \in Nat
      BY <1>1
<1> HIDE DEF p
<1>3. ASSUME NEW a, NEW b, NEW c, NEW d, Flags(p) = <<a, b, c, d>>
      PROVE  p.byte = a /\ p.control = b /\ p.unknown = c /\ p.unused = d
      BY <1>3 DEF Flags
<1>4. CASE i < UNK
  <2>1. i # UNK /\ i \notin FirstByte..(FirstWord - 1) /\ ~ (i >= FirstWord)
        BY <1>0, <1>4 DEF UNK, FirstByte, FirstWord
  <2>2. Flags(p) = <<FALSE, TRUE, FALSE, FALSE>>
        BY <1>2, <1>4, <2>1 DEF ValidPiece
  <2>3. p.byte = FALSE /\ p.control = TRUE /\ p.unknown = FALSE
        BY <1>3, <2>2, Zenon
  <2>. QED  BY <1>1, <1>4, <2>1, <2>3, Zenon DEF p
<1>5. CASE i = UNK
  <2>1. ~ (i < UNK) /\ i \notin FirstByte..(FirstWord - 1) /\ ~ (i >= FirstWord)
        BY <1>0, <1>5 DEF UNK, FirstByte, FirstWord
  <2>2. Flags(p) = <<FALSE, FALSE, TRUE, FALSE>>
        BY <1>2, <1>5, <2>1 DEF ValidPiece
  <2>3. p.byte = FALSE /\ p.control = FALSE /\ p.unknown = TRUE
        BY <1>3, <2>2, Zenon
  <2>. QED  BY <1>1, <1>5, <2>1, <2>3, Zenon DEF p
<1>6. CASE i \in FirstByte..(FirstWord - 1)
  <2>1. ~ (i < UNK) /\ i # UNK /\ ~ (i >= FirstWord)
        BY <1>0, <1>6 DEF UNK, FirstByte, FirstWord
  <2>2. Flags(p) = <<TRUE, FALSE, FALSE, FALSE>>
        BY <1>2, <1>6, <2>1 DEF ValidPiece
  <2>3. p.byte = TRUE /\ p.control = FALSE /\ p.unknown = FALSE
        BY <1>3, <2>2, Zenon
  <2>. QED  BY <1>1, <1>6, <2>1, <2>3, Zenon DEF p
<1>7. CASE i >= FirstWord
  <2>1. ~ (i < UNK) /\ i # UNK /\ i \notin FirstByte..(FirstWord - 1)
        BY <1>0, <1>7 DEF UNK, FirstByte, FirstWord
  <2>2. p.text # <<>> /\ Flags(p) = <<FALSE, FALSE, FALSE, FALSE>>
        BY <1>2, <2>1 DEF ValidPiece
  <2>3. p.byte = FALSE /\ p.control = FALSE /\ p.unknown = FALSE
        BY <1>3, <2>2, Zenon
  <2>. QED  BY <1>1, <1>7, <2>1, <2>2, <2>3, Zenon DEF p
<1>8. i < UNK \/ i = UNK \/ i \in FirstByte..(FirstWord - 1) \/ i >= FirstWord
      BY <1>0 DEF UNK, FirstByte, FirstWord
<1>. QED  BY <1>4, <1>5, <1>6, <1>7, <1>8

-----------------------------------------------------------------------------
(* What tokens show *)

VisibleParts(s) ==
  [k \in DOMAIN s |-> IF s[k] \in {PAD, BOS} \/ \E j \in 1..k : s[j] = EOS THEN <<>> ELSE <<s[k]>>]

LEMMA VisibleIs == ASSUME NEW s PROVE Visible(s) = FlattenSeq(VisibleParts(s))
BY DEF Visible, VisibleParts

LEMMA PartsAreSeq ==
  ASSUME NEW S, NEW n \in Nat, NEW f, DOMAIN f = 1..n, f = [i \in 1..n |-> f[i]],
         \A i \in 1..n : f[i] \in S
  PROVE  f \in Seq(S) /\ Len(f) = n
OBVIOUS

\* g is f and then x.
Longer(f, x, g) ==
  /\ DOMAIN g = 1..(Len(f) + 1) /\ g = [k \in 1..(Len(f) + 1) |-> g[k]]
  /\ (\A k \in 1..Len(f) : g[k] = f[k]) /\ g[Len(f) + 1] = x

LEMMA AppendIs ==
  ASSUME NEW S, NEW f \in Seq(S), NEW x \in S, NEW g, Longer(f, x, g)
  PROVE  g = Append(f, x)
<1>0. /\ DOMAIN g = 1..(Len(f) + 1) /\ g = [k \in 1..(Len(f) + 1) |-> g[k]]
      /\ (\A k \in 1..Len(f) : g[k] = f[k]) /\ g[Len(f) + 1] = x
      BY DEF Longer
<1>1. \A k \in 1..(Len(f) + 1) : k \in 1..Len(f) \/ k = Len(f) + 1
      OBVIOUS
<1>2. \A k \in 1..(Len(f) + 1) : g[k] \in S
      BY <1>0, <1>1, ElementOfSeq
<1>3. g \in Seq(S) /\ Len(g) = Len(f) + 1
      BY <1>0, <1>2, PartsAreSeq
<1>4. Append(f, x) \in Seq(S) /\ Len(Append(f, x)) = Len(f) + 1
      OBVIOUS
<1>5. \A k \in 1..(Len(f) + 1) : g[k] = Append(f, x)[k]
  <2>1. \A k \in 1..Len(f) : Append(f, x)[k] = f[k]
        OBVIOUS
  <2>2. Append(f, x)[Len(f) + 1] = x
        OBVIOUS
  <2>. QED  BY <1>0, <1>1, <2>1, <2>2, Zenon
<1>. QED  BY <1>3, <1>4, <1>5, SeqEqual

LEMMA VisibleTyped == ASSUME NEW s \in Seq(Int) PROVE Visible(s) \in Seq(Shown)
<1>1. ASSUME NEW k \in 1..Len(s) PROVE VisibleParts(s)[k] \in Seq(Shown)
  <2>1. s[k] \in Int
        BY ElementOfSeq
  <2>2. CASE s[k] \in {PAD, BOS} \/ \E j \in 1..k : s[j] = EOS
    <3>1. VisibleParts(s)[k] = <<>>
          BY <2>2 DEF VisibleParts
    <3>. QED  BY <3>1
  <2>3. CASE ~ (s[k] \in {PAD, BOS} \/ \E j \in 1..k : s[j] = EOS)
    <3>1. VisibleParts(s)[k] = <<s[k]>>
          BY <2>3 DEF VisibleParts
    <3>2. s[k] \in Shown
          BY <2>1, <2>3 DEF Shown
    <3>. QED  BY <3>1, <3>2
  <2>. QED  BY <2>2, <2>3
<1>2. VisibleParts(s) \in Seq(Seq(Shown))
  <2> DEFINE f == VisibleParts(s)
  <2>1. DOMAIN f = 1..Len(s) /\ f = [k \in 1..Len(s) |-> f[k]] /\ Len(s) \in Nat
        BY DEF VisibleParts
  <2> HIDE DEF f
  <2>2. f \in Seq(Seq(Shown))
        BY <1>1, <2>1, PartsAreSeq DEF f
  <2>. QED  BY <2>2 DEF f
<1>. QED  BY <1>2, FlattenTyped, VisibleIs

LEMMA VisibleAppend ==
  ASSUME NEW s \in Seq(Int), NEW t \in Int, \A j \in 1..Len(s) : s[j] # EOS
  PROVE  Visible(Append(s, t)) = IF t \in {PAD, BOS, EOS} THEN Visible(s) ELSE Append(Visible(s), t)
<1> DEFINE n == Len(s)
           a == Append(s, t)
           x == IF t \in {PAD, BOS, EOS} THEN <<>> ELSE <<t>>
           f == VisibleParts(s)
           g == VisibleParts(a)
<1>1. n \in Nat /\ DOMAIN s = 1..n /\ DOMAIN a = 1..(n + 1) /\ a[n + 1] = t
      /\ \A i \in 1..n : a[i] = s[i]
      OBVIOUS
<1> HIDE DEF a, n
<1>2. ASSUME NEW k \in 1..n PROVE g[k] = f[k]
  <2>1. k \in 1..(n + 1) /\ \A j \in 1..k : j \in 1..n
        BY <1>1
  <2>2. a[k] = s[k] /\ \A j \in 1..k : a[j] = s[j]
        BY <1>1, <2>1
  <2>. QED  BY <1>1, <2>1, <2>2 DEF VisibleParts
<1>3. g[n + 1] = x
  <2>1. n + 1 \in 1..(n + 1) /\ (\A j \in 1..(n + 1) : j \in 1..n \/ j = n + 1)
        BY <1>1
  <2>2. (\E j \in 1..(n + 1) : a[j] = EOS) <=> t = EOS
        BY <1>1, <2>1 DEF n
  <2>. QED  BY <1>1, <2>1, <2>2 DEF VisibleParts
<1>4. DOMAIN f = 1..n /\ DOMAIN g = 1..(n + 1) /\ f = [k \in 1..n |-> f[k]] /\ g = [k \in 1..(n + 1) |-> g[k]]
      BY <1>1 DEF VisibleParts
<1>5. f \in Seq(Seq(Int)) /\ x \in Seq(Int)
  <2>1. ASSUME NEW k \in 1..n PROVE f[k] \in Seq(Int)
    <3>1. s[k] \in Int
          BY ElementOfSeq DEF n
    <3>2. f[k] = <<>> \/ f[k] = <<s[k]>>
          BY <1>1 DEF VisibleParts
    <3>3. <<>> \in Seq(Int) /\ <<s[k]>> \in Seq(Int)
          BY <3>1
    <3>. QED  BY <3>2, <3>3
  <2>2. x \in Seq(Int)
        OBVIOUS
  <2> HIDE DEF f
  <2>. QED  BY <1>1, <1>4, <2>1, <2>2, PartsAreSeq
<1> HIDE DEF f, g
<1>6. g = Append(f, x)
  <2>1. Len(f) = n
        BY <1>1, <1>4, <1>5
  <2> HIDE DEF x
  <2>2. Longer(f, x, g)
        BY <1>2, <1>3, <1>4, <2>1 DEF Longer
  <2>. QED  BY <1>5, <2>2, AppendIs
<1> HIDE DEF x
<1>7. Visible(a) = Visible(s) \o x
      BY <1>5, <1>6, FlattenAppend, VisibleIs DEF f, g
<1>8. Visible(s) \in Seq(Shown)
      BY VisibleTyped
<1>9. Visible(s) \o <<>> = Visible(s) /\ Visible(s) \o <<t>> = Append(Visible(s), t)
      BY <1>8
<1>. QED  BY <1>7, <1>9 DEF a, x

-----------------------------------------------------------------------------
(* Runs of bytes, and parts *)

LEMMA AppendAt ==
  ASSUME NEW S, NEW v \in Seq(S), NEW t \in S
  PROVE  /\ Append(v, t) \in Seq(S) /\ Len(v) \in Nat /\ Len(Append(v, t)) = Len(v) + 1
         /\ DOMAIN v = 1..Len(v) /\ DOMAIN Append(v, t) = 1..(Len(v) + 1)
         /\ Append(v, t)[Len(v) + 1] = t
         /\ \A i \in 1..Len(v) : Append(v, t)[i] = v[i] /\ v[i] \in S
OBVIOUS

LEMMA RunPartsAre ==
  ASSUME NEW V, NEW v \in Seq(Shown), NEW k \in Nat
  PROVE  RunParts(V, v, k) \in Seq(Seq(0..255)) /\ Len(RunParts(V, v, k)) = Len(v)
<1> DEFINE f == RunParts(V, v, k)
           n == Len(v)
<1>1. n \in Nat /\ DOMAIN f = 1..n /\ f = [j \in 1..n |-> f[j]]
      BY DEF RunParts
<1>2. ASSUME NEW j \in 1..n PROVE f[j] \in Seq(0..255)
  <2>1. CASE j >= k /\ \A i \in k..j : ByteIn(V, v[i])
    <3>1. f[j] = <<v[j] - FirstByte>>
          BY <2>1 DEF RunParts
    <3>2. j \in k..j
          BY <2>1
    <3>3. v[j] \in FirstByte..(FirstWord - 1)
          BY <2>1, <3>2 DEF ByteIn
    <3>4. v[j] - FirstByte \in 0..255
          BY <3>3 DEF FirstByte, FirstWord
    <3>5. ASSUME NEW x \in 0..255 PROVE <<x>> \in Seq(0..255)
          OBVIOUS
    <3>. QED  BY <3>1, <3>4, <3>5, Zenon
  <2>2. CASE ~ (j >= k /\ \A i \in k..j : ByteIn(V, v[i]))
    <3>1. f[j] = <<>>
          BY <2>2 DEF RunParts
    <3>2. <<>> \in Seq(0..255)
          OBVIOUS
    <3>. QED  BY <3>1, <3>2, Zenon
  <2>. QED  BY <2>1, <2>2
<1> HIDE DEF f, n
<1>3. f \in Seq(Seq(0..255)) /\ Len(f) = n
  <2> DEFINE T == Seq(0..255)
  <2>1. \A j \in 1..n : f[j] \in T
        BY <1>2
  <2> HIDE DEF T
  <2>2. f \in Seq(T) /\ Len(f) = n
        BY <1>1, <2>1, PartsAreSeq
  <2>. QED  BY <2>2 DEF T
<1>. QED  BY <1>3 DEF f, n

LEMMA RunTyped ==
  ASSUME NEW V, NEW v \in Seq(Shown), NEW k \in Nat PROVE RunIn(V, v, k) \in Seq(0..255)
BY RunPartsAre, FlattenTyped DEF RunIn

\* A run goes on with a byte, and only then.
LEMMA RunAppend ==
  ASSUME NEW V, NEW v \in Seq(Shown), NEW t \in Shown, NEW k \in 1..(Len(v) + 1)
  PROVE  RunIn(V, Append(v, t), k) =
           IF (\A i \in k..Len(v) : ByteIn(V, v[i])) /\ ByteIn(V, t)
           THEN Append(RunIn(V, v, k), t - FirstByte) ELSE RunIn(V, v, k)
<1> DEFINE a == Append(v, t)
           n == Len(v)
           f == RunParts(V, v, k)
           g == RunParts(V, a, k)
           whole == (\A i \in k..n : ByteIn(V, v[i])) /\ ByteIn(V, t)
           x == IF whole THEN <<t - FirstByte>> ELSE <<>>
<1>1. /\ a \in Seq(Shown) /\ n \in Nat /\ DOMAIN v = 1..n /\ DOMAIN a = 1..(n + 1)
      /\ a[n + 1] = t /\ \A i \in 1..n : a[i] = v[i]
      BY AppendAt
<1>2. k \in Nat /\ k >= 1 /\ k <= n + 1
      BY <1>1
<1> HIDE DEF a, n
<1>3. f \in Seq(Seq(0..255)) /\ Len(f) = n
      BY <1>2, RunPartsAre DEF n
<1>4. ASSUME NEW j \in 1..n PROVE g[j] = f[j]
  <2>1. j \in 1..(n + 1) /\ \A i \in k..j : i \in 1..n
        BY <1>1, <1>2
  <2>2. a[j] = v[j] /\ \A i \in k..j : a[i] = v[i]
        BY <1>1, <2>1
  <2>. QED  BY <1>1, <2>1, <2>2 DEF RunParts
<1>5. g[n + 1] = x
  <2>1. n + 1 \in 1..(n + 1) /\ n + 1 >= k /\ n + 1 \in k..(n + 1)
        /\ (\A i \in k..n : i \in k..(n + 1) /\ i \in 1..n)
        /\ (\A i \in k..(n + 1) : i \in k..n \/ i = n + 1)
        BY <1>1, <1>2
  <2>2. (\A i \in k..(n + 1) : ByteIn(V, a[i])) <=> whole
        BY <1>1, <2>1, Zenon
  <2>3. g[n + 1] = IF n + 1 >= k /\ \A i \in k..(n + 1) : ByteIn(V, a[i])
                   THEN <<a[n + 1] - FirstByte>> ELSE <<>>
        BY <1>1, <2>1, Zenon DEF RunParts
  <2>. QED  BY <1>1, <2>1, <2>2, <2>3, Zenon
<1>6. DOMAIN g = 1..(n + 1) /\ g = [j \in 1..(n + 1) |-> g[j]]
      BY <1>1 DEF RunParts
<1>7. x \in Seq(0..255)
  <2>1. ASSUME whole PROVE t - FirstByte \in 0..255
        BY <2>1 DEF ByteIn, FirstByte, FirstWord
  <2>2. ASSUME NEW y \in 0..255 PROVE <<y>> \in Seq(0..255)
        OBVIOUS
  <2>3. <<>> \in Seq(0..255)
        OBVIOUS
  <2> HIDE DEF whole
  <2>. QED  BY <2>1, <2>2, <2>3, Zenon
<1> HIDE DEF x, f, g, whole
<1>8. Longer(f, x, g)
      BY <1>3, <1>4, <1>5, <1>6 DEF Longer
<1>9. g = Append(f, x)
      BY <1>3, <1>7, <1>8, AppendIs
<1>10. RunIn(V, a, k) = RunIn(V, v, k) \o x
       BY <1>3, <1>7, <1>9, FlattenAppend DEF RunIn, f, g
<1>11. RunIn(V, v, k) \in Seq(0..255)
       BY <1>2, RunTyped
<1>12. RunIn(V, v, k) \o <<>> = RunIn(V, v, k)
       /\ RunIn(V, v, k) \o <<t - FirstByte>> = Append(RunIn(V, v, k), t - FirstByte)
       BY <1>11
<1>. QED  BY <1>10, <1>12 DEF a, x, whole, n

LEMMA RunEmpty ==
  ASSUME NEW V, NEW v \in Seq(Shown) PROVE RunIn(V, v, Len(v) + 1) = <<>>
<1> DEFINE n == Len(v)
           f == RunParts(V, v, n + 1)
<1>1. n \in Nat /\ n + 1 \in Nat
      OBVIOUS
<1>2. f \in Seq(Seq(0..255)) /\ Len(f) = n
      BY <1>1, RunPartsAre
<1>3. \A j \in 1..n : f[j] = <<>>
      BY DEF RunParts
<1> HIDE DEF f, n
<1>4. FlattenSeq(f) = FlattenSeq(SubSeq(f, 1, 0))
  <2>1. 0 \in 0..Len(f) /\ \A i \in (0 + 1)..Len(f) : f[i] = <<>>
        BY <1>1, <1>2, <1>3
  <2>. QED  BY <1>2, <2>1, FlattenRest
<1>5. SubSeq(f, 1, 0) = <<>> /\ Len(<<>>) = 0
      BY <1>2
<1>6. FlattenSeq(<<>>) = <<>>
      BY <1>5, FlattenSeqIs
<1>. QED  BY <1>4, <1>5, <1>6 DEF RunIn, f, n

LEMMA SpacedIs ==
  ASSUME NEW w \in Seq(Nat) PROVE Spaced(w) \in Seq(Nat) /\ (w # <<>> => Tail(Spaced(w)) \in Seq(Nat))
<1> DEFINE f == Spaced(w)
<1>1. DOMAIN f = 1..Len(w) /\ f = [i \in 1..Len(w) |-> f[i]] /\ Len(w) \in Nat
      BY DEF Spaced
<1>2. ASSUME NEW i \in 1..Len(w) PROVE f[i] \in Nat
  <2>1. w[i] \in Nat
        BY ElementOfSeq
  <2>2. f[i] = IF w[i] = Marker THEN Space ELSE w[i]
        BY DEF Spaced
  <2>3. Space \in Nat
        BY DEF Space
  <2>. QED  BY <2>1, <2>2, <2>3, Zenon
<1> HIDE DEF f
<1>3. f \in Seq(Nat) /\ Len(f) = Len(w)
      BY <1>1, <1>2, PartsAreSeq
<1>4. w # <<>> => f # <<>>
      BY <1>3
<1>. QED  BY <1>3, <1>4 DEF f

\* Of a run of bytes the first stands for all.
LEMMA PartOfByte ==
  ASSUME NEW V, NEW v, NEW k, ByteIn(V, v[k])
  PROVE  PartIn(V, v, k) = IF k > 1 /\ ByteIn(V, v[k - 1]) THEN <<>> ELSE ReferenceBytes(RunIn(V, v, k))
<1> DEFINE x == v[k]
<1>1. x \in DOMAIN V /\ x \in FirstByte..(FirstWord - 1)
      BY DEF ByteIn
<1> HIDE DEF x
<1>2. ASSUME NEW y \in FirstByte..(FirstWord - 1) PROVE y # UNK
      BY DEF UNK, FirstByte, FirstWord
<1>3. v[k] \in DOMAIN V /\ v[k] # UNK
      BY <1>1, <1>2, Zenon DEF x
<1>. QED  BY <1>3 DEF PartIn

LEMMA PartTyped ==
  ASSUME NEW V, Accepted(V), NEW v \in Seq(Shown), NEW k \in 1..Len(v)
  PROVE  PartIn(V, v, k) \in Seq(Nat)
<1>1. v[k] \in Shown /\ k \in Nat
      BY ElementOfSeq
<1>2. CASE ByteIn(V, v[k])
  <2>1. RunIn(V, v, k) \in Seq(0..255)
        BY <1>1, RunTyped
  <2>2. ReferenceBytes(RunIn(V, v, k)) \in Seq(Nat)
        BY <2>1, DecodedIs, DecodedTyped
  <2>3. <<>> \in Seq(Nat)
        OBVIOUS
  <2>4. PartIn(V, v, k) = IF k > 1 /\ ByteIn(V, v[k - 1]) THEN <<>> ELSE ReferenceBytes(RunIn(V, v, k))
        BY <1>2, PartOfByte
  <2>. QED  BY <2>2, <2>3, <2>4, Zenon
<1>3. CASE ~ ByteIn(V, v[k]) /\ (v[k] = UNK \/ v[k] \notin DOMAIN V)
  <2>1. UnknownSurface \in Seq(Nat)
        BY DEF UnknownSurface
  <2>2. PartIn(V, v, k) = UnknownSurface
        BY <1>3 DEF PartIn
  <2>. QED  BY <2>1, <2>2
<1>4. CASE ~ ByteIn(V, v[k]) /\ v[k] # UNK /\ v[k] \in DOMAIN V
  <2> DEFINE w == V[v[k]].text
  <2>1. v[k] \in Nat
        BY <1>4, PieceKinds
  <2>2. v[k] \notin FirstByte..(FirstWord - 1)
        BY <1>4 DEF ByteIn
  <2>3. v[k] >= FirstWord
    <3> DEFINE x == v[k]
    <3>1. x \in Nat /\ x # PAD /\ x # BOS /\ x # EOS /\ x # UNK /\ x \notin FirstByte..(FirstWord - 1)
          BY <1>1, <1>4, <2>1, <2>2, Zenon DEF Shown
    <3> HIDE DEF x
    <3>2. x >= FirstWord
          BY <3>1 DEF PAD, BOS, EOS, UNK, FirstByte, FirstWord
    <3>. QED  BY <3>2 DEF x
  <2>4. w \in Seq(Nat) /\ w # <<>>
        BY <1>4, <2>3, PieceKinds
  <2> HIDE DEF w
  <2>5. Spaced(w) \in Seq(Nat) /\ Tail(Spaced(w)) \in Seq(Nat)
        BY <2>4, SpacedIs
  <2>6. PartIn(V, v, k) = IF k = 1 /\ w[1] = Marker THEN Tail(Spaced(w)) ELSE Spaced(w)
        BY <1>4, Zenon DEF PartIn, w
  <2>. QED  BY <2>5, <2>6, Zenon
<1>. QED  BY <1>2, <1>3, <1>4

-----------------------------------------------------------------------------
(* What is written of the first tokens *)

WrittenParts(V, v, n) == [k \in 1..n |-> PartIn(V, v, k)]

LEMMA WrittenTyped ==
  ASSUME NEW V, Accepted(V), NEW v \in Seq(Shown), NEW n \in 0..Len(v)
  PROVE  /\ WrittenParts(V, v, n) \in Seq(Seq(Nat)) /\ Len(WrittenParts(V, v, n)) = n
         /\ WrittenIn(V, v, n) = FlattenSeq(WrittenParts(V, v, n))
         /\ WrittenIn(V, v, n) \in Seq(Nat)
<1> DEFINE f == WrittenParts(V, v, n)
<1>1. n \in Nat /\ \A k \in 1..n : k \in 1..Len(v)
      OBVIOUS
<1>2. DOMAIN f = 1..n /\ f = [k \in 1..n |-> f[k]] /\ \A k \in 1..n : f[k] = PartIn(V, v, k)
      BY DEF WrittenParts
<1>3. \A k \in 1..n : f[k] \in Seq(Nat)
      BY <1>1, <1>2, PartTyped
<1> HIDE DEF f
<1>4. f \in Seq(Seq(Nat)) /\ Len(f) = n
      BY <1>1, <1>2, <1>3, PartsAreSeq
<1>5. WrittenIn(V, v, n) = FlattenSeq(f)
      BY DEF WrittenIn, WrittenParts, f
<1>. QED  BY <1>4, <1>5, FlattenTyped DEF f

LEMMA WrittenAppend ==
  ASSUME NEW V, Accepted(V), NEW v \in Seq(Shown), NEW n \in Nat, n + 1 <= Len(v)
  PROVE  WrittenIn(V, v, n + 1) = WrittenIn(V, v, n) \o PartIn(V, v, n + 1)
<1> DEFINE f == WrittenParts(V, v, n)
           g == WrittenParts(V, v, n + 1)
           x == PartIn(V, v, n + 1)
<1>1. n \in 0..Len(v) /\ n + 1 \in 0..Len(v) /\ n + 1 \in 1..Len(v)
      OBVIOUS
<1>2. f \in Seq(Seq(Nat)) /\ Len(f) = n /\ x \in Seq(Nat)
      BY <1>1, WrittenTyped, PartTyped
<1>3. /\ DOMAIN g = 1..(n + 1) /\ g = [k \in 1..(n + 1) |-> g[k]]
      /\ (\A k \in 1..n : g[k] = f[k]) /\ g[n + 1] = x
  <2>1. n + 1 \in 1..(n + 1) /\ \A k \in 1..n : k \in 1..(n + 1)
        OBVIOUS
  <2>. QED  BY <2>1 DEF WrittenParts
<1> HIDE DEF f, g, x
<1>4. Longer(f, x, g)
      BY <1>2, <1>3 DEF Longer
<1>5. g = Append(f, x)
      BY <1>2, <1>4, AppendIs
<1>6. FlattenSeq(g) = FlattenSeq(f) \o x
      BY <1>2, <1>5, FlattenAppend
<1>. QED  BY <1>1, <1>6, WrittenTyped DEF f, g, x

\* A token more changes nothing that is written, where a run of bytes has ended.
LEMMA WrittenStays ==
  ASSUME NEW V, NEW v \in Seq(Shown), NEW t \in Shown, NEW n \in 0..Len(v),
         n = 0 \/ ~ ByteIn(V, v[n]) \/ (n = Len(v) /\ ~ ByteIn(V, t))
  PROVE  WrittenIn(V, Append(v, t), n) = WrittenIn(V, v, n)
<1> DEFINE a == Append(v, t)
           m == Len(v)
<1>1. m \in Nat /\ n \in Nat /\ n <= m /\ \A i \in 1..m : a[i] = v[i]
      BY AppendAt
<1> HIDE DEF a, m
<1>2. ASSUME NEW k \in 1..n PROVE PartIn(V, a, k) = PartIn(V, v, k)
  <2>1. k \in 1..m /\ k \in 1..(m + 1) /\ n \in k..m /\ n # 0 /\ (k > 1 => k - 1 \in 1..m)
        BY <1>1
  <2>2. ~ ((\A i \in k..m : ByteIn(V, v[i])) /\ ByteIn(V, t))
        BY <2>1 DEF m
  <2>3. RunIn(V, a, k) = RunIn(V, v, k)
        BY <2>1, <2>2, RunAppend DEF a, m
  <2>4. a[k] = v[k] /\ (k > 1 => a[k - 1] = v[k - 1])
        BY <1>1, <2>1
  <2>. QED  BY <2>3, <2>4 DEF PartIn
<1>3. [k \in 1..n |-> PartIn(V, a, k)] = [k \in 1..n |-> PartIn(V, v, k)]
      BY <1>2
<1>. QED  BY <1>3 DEF WrittenIn, a

-----------------------------------------------------------------------------
(* What the loop has written, and what it has not yet *)

\* After the tokens v: out is written of all but the bytes at the end, pend.
Follows(V, v, out, pend, fst) ==
  LET p == Len(v) - Len(pend) IN
    /\ v \in Seq(Shown) /\ pend \in Seq(0..255) /\ p \in Nat
    /\ \A k \in (p + 1)..Len(v) : ByteIn(V, v[k])
    /\ p > 0 => ~ ByteIn(V, v[p])
    /\ fst <=> p = 0
    /\ RunIn(V, v, p + 1) = pend
    /\ out = WrittenIn(V, v, p)

LEMMA NothingFollows == ASSUME NEW V PROVE Follows(V, <<>>, <<>>, <<>>, TRUE)
<1>1. <<>> \in Seq(Shown) /\ <<>> \in Seq(0..255) /\ Len(<<>>) = 0
      OBVIOUS
<1>2. RunIn(V, <<>>, 1) = <<>>
  <2>1. RunIn(V, <<>>, Len(<<>>) + 1) = <<>>
        BY <1>1, RunEmpty
  <2>. QED  BY <1>1, <2>1
<1>3. WrittenIn(V, <<>>, 0) = <<>>
  <2>1. Len([k \in 1..0 |-> PartIn(V, <<>>, k)]) = 0 /\ [k \in 1..0 |-> PartIn(V, <<>>, k)] = <<>>
        OBVIOUS
  <2>. QED  BY <2>1, FlattenSeqIs DEF WrittenIn
<1>4. 0 - 0 = 0 /\ 0 + 1 = 1 /\ 0 \in Nat /\ ~ (0 > 0) /\ 1..0 = {}
      OBVIOUS
<1>. QED  BY <1>1, <1>2, <1>3, <1>4 DEF Follows

\* What the loop returns if the tokens end here.
LEMMA Ready ==
  ASSUME NEW V, Accepted(V), NEW v, NEW out, NEW pend, NEW fst, Follows(V, v, out, pend, fst)
  PROVE  WrittenIn(V, v, Len(v)) = out \o DecodeBytes(pend) /\ out \in Seq(Nat)
<1> DEFINE n == Len(v)
           p == n - Len(pend)
           f == WrittenParts(V, v, n)
<1>1. /\ v \in Seq(Shown) /\ pend \in Seq(0..255) /\ p \in Nat
      /\ \A k \in (p + 1)..n : ByteIn(V, v[k])
      /\ p > 0 => ~ ByteIn(V, v[p])
      /\ RunIn(V, v, p + 1) = pend
      /\ out = WrittenIn(V, v, p)
      BY DEF Follows
<1>2. n \in Nat /\ Len(pend) \in Nat
      BY <1>1, LenProperties
<1> HIDE DEF n
<1>3. p <= n
      BY <1>2
<1>4. out \in Seq(Nat)
  <2>1. p \in 0..Len(v)
        BY <1>1, <1>2, <1>3 DEF n
  <2> HIDE DEF p
  <2>. QED  BY <1>1, <2>1, WrittenTyped
<1>5. CASE p = n
  <2>1. Len(pend) = 0
        BY <1>2, <1>5
  <2>2. pend = <<>>
        BY <1>1, <2>1
  <2>3. DecodeBytes(pend) = <<>>
        BY <1>1, <2>2, DecodedTyped
  <2>4. out \o <<>> = out
        BY <1>4
  <2>. QED  BY <1>1, <1>4, <1>5, <2>3, <2>4 DEF n
<1>6. CASE p < n
  <2> HIDE DEF p
  <2>1. p + 1 \in 1..n /\ p + 1 <= Len(v) /\ p + 1 \in (p + 1)..n
        BY <1>1, <1>2, <1>6 DEF n
  <2>2. WrittenIn(V, v, p + 1) = out \o PartIn(V, v, p + 1)
        BY <1>1, <2>1, WrittenAppend
  <2>3. PartIn(V, v, p + 1) = DecodeBytes(pend)
    <3>1. ByteIn(V, v[p + 1]) /\ ~ (p + 1 > 1 /\ ByteIn(V, v[(p + 1) - 1]))
      <4>1. (p + 1) - 1 = p /\ (p + 1 > 1 => p > 0)
            BY <1>1
      <4>. QED  BY <1>1, <2>1, <4>1
    <3>2. PartIn(V, v, p + 1) = ReferenceBytes(RunIn(V, v, p + 1))
          BY <3>1, PartOfByte
    <3>. QED  BY <1>1, <3>2, DecodedIs
  <2>4. WrittenIn(V, v, n) = WrittenIn(V, v, p + 1)
    <3>1. n \in 0..Len(v) /\ p + 1 \in 0..Len(v)
          BY <1>1, <1>2, <2>1 DEF n
    <3>2. f \in Seq(Seq(Nat)) /\ Len(f) = n /\ WrittenIn(V, v, n) = FlattenSeq(f)
          BY <1>1, <3>1, WrittenTyped
    <3>3. ASSUME NEW k \in (p + 2)..n PROVE f[k] = <<>>
      <4>1. k \in (p + 1)..n /\ k - 1 \in (p + 1)..n /\ k > 1 /\ k \in 1..n
            BY <1>1, <1>2
      <4>2. ByteIn(V, v[k]) /\ ByteIn(V, v[k - 1])
            BY <1>1, <4>1
      <4>3. PartIn(V, v, k) = <<>>
            BY <4>1, <4>2, PartOfByte
      <4>. QED  BY <4>1, <4>3 DEF WrittenParts
    <3>4. SubSeq(f, 1, p + 1) = WrittenParts(V, v, p + 1)
      <4> DEFINE g == WrittenParts(V, v, p + 1)
      <4>1. g \in Seq(Seq(Nat)) /\ Len(g) = p + 1
            BY <1>1, <3>1, WrittenTyped
      <4>2. \A k \in 1..(p + 1) : k \in 1..n
            BY <1>1, <1>2, <2>1
      <4>3. \A k \in 1..(p + 1) : g[k] = f[k]
            BY <4>2 DEF WrittenParts
      <4> HIDE DEF f, g
      <4>4. SubSeq(f, 1, p + 1) \in Seq(Seq(Nat)) /\ Len(SubSeq(f, 1, p + 1)) = p + 1
            /\ \A k \in 1..(p + 1) : SubSeq(f, 1, p + 1)[k] = f[k]
            BY <1>1, <2>1, <3>2
      <4>5. SubSeq(f, 1, p + 1) = g
            BY <4>1, <4>3, <4>4, SeqEqual
      <4>. QED  BY <4>5 DEF f, g
    <3> HIDE DEF f
    <3>5. FlattenSeq(f) = FlattenSeq(SubSeq(f, 1, p + 1))
      <4>1. p + 1 \in 0..Len(f) /\ \A k \in ((p + 1) + 1)..Len(f) : f[k] = <<>>
            BY <1>1, <1>2, <2>1, <3>2, <3>3
      <4>. QED  BY <3>2, <4>1, FlattenRest
    <3>6. WrittenIn(V, v, p + 1) = FlattenSeq(WrittenParts(V, v, p + 1))
          BY <1>1, <3>1, WrittenTyped
    <3>. QED  BY <3>2, <3>4, <3>5, <3>6
  <2>. QED  BY <1>4, <2>2, <2>3, <2>4 DEF n
<1>. QED  BY <1>1, <1>2, <1>3, <1>5, <1>6

\* A byte waits.
LEMMA ByteFollows ==
  ASSUME NEW V, NEW v, NEW out, NEW pend, NEW fst, Follows(V, v, out, pend, fst),
         NEW t \in Shown, ByteIn(V, t)
  PROVE  Follows(V, Append(v, t), out, Append(pend, t - FirstByte), fst)
<1> DEFINE n == Len(v)
           p == n - Len(pend)
           a == Append(v, t)
           b == Append(pend, t - FirstByte)
<1>1. /\ v \in Seq(Shown) /\ pend \in Seq(0..255) /\ p \in Nat
      /\ \A k \in (p + 1)..n : ByteIn(V, v[k])
      /\ p > 0 => ~ ByteIn(V, v[p])
      /\ (fst <=> p = 0)
      /\ RunIn(V, v, p + 1) = pend
      /\ out = WrittenIn(V, v, p)
      BY DEF Follows
<1>2. n \in Nat /\ Len(pend) \in Nat
      BY <1>1, LenProperties
<1>3. p <= n
      BY <1>2
<1>4. t - FirstByte \in 0..255
      BY DEF ByteIn, FirstByte, FirstWord
<1>5. b \in Seq(0..255) /\ Len(b) = Len(pend) + 1
      BY <1>1, <1>4, AppendProperties
<1>6. /\ a \in Seq(Shown) /\ Len(a) = n + 1 /\ a[n + 1] = t
      /\ \A i \in 1..n : a[i] = v[i]
      BY <1>1, AppendAt
<1>7. Len(a) - Len(b) = p
      BY <1>2, <1>5, <1>6
<1> HIDE DEF n, a, b
<1> USE DEF n
<1> HIDE DEF p, n
<1>8. ASSUME NEW k \in (p + 1)..(n + 1) PROVE ByteIn(V, a[k])
  <2>1. CASE k = n + 1
        BY <1>6, <2>1
  <2>2. CASE k # n + 1
    <3>1. k \in (p + 1)..n /\ k \in 1..n
          BY <1>1, <1>2, <2>2
    <3>. QED  BY <1>1, <1>6, <3>1
  <2>. QED  BY <2>1, <2>2
<1>9. p > 0 => ~ ByteIn(V, a[p])
  <2>1. p > 0 => p \in 1..n
        BY <1>1, <1>2, <1>3
  <2>. QED  BY <1>1, <1>6, <2>1
<1>10. RunIn(V, a, p + 1) = b
  <2>1. p + 1 \in 1..(Len(v) + 1)
        BY <1>1, <1>2, <1>3 DEF n
  <2>2. (\A i \in (p + 1)..Len(v) : ByteIn(V, v[i])) /\ ByteIn(V, t)
        BY <1>1 DEF n
  <2>3. RunIn(V, a, p + 1) = Append(RunIn(V, v, p + 1), t - FirstByte)
        BY <1>1, <2>1, <2>2, RunAppend DEF a
  <2>. QED  BY <1>1, <2>3 DEF b
<1>11. out = WrittenIn(V, a, p)
  <2>1. p \in 0..Len(v) /\ (p = 0 \/ ~ ByteIn(V, v[p]))
        BY <1>1, <1>2, <1>3 DEF n
  <2>. QED  BY <1>1, <2>1, WrittenStays DEF a
<1>12. Follows(V, a, out, b, fst)
       BY <1>1, <1>5, <1>6, <1>7, <1>8, <1>9, <1>10, <1>11 DEF Follows
<1>. QED  BY <1>12 DEF a, b

\* A token that is no byte is written after the bytes that waited.
LEMMA TextFollows ==
  ASSUME NEW V, Accepted(V), NEW v, NEW out, NEW pend, NEW fst, Follows(V, v, out, pend, fst),
         NEW t \in Shown, ~ ByteIn(V, t)
  PROVE  Follows(V, Append(v, t),
                 (out \o DecodeBytes(pend)) \o PartIn(V, Append(v, t), Len(v) + 1), <<>>, FALSE)
<1> DEFINE n == Len(v)
           a == Append(v, t)
<1>1. v \in Seq(Shown) /\ n \in Nat
      BY LenProperties DEF Follows
<1>2. a \in Seq(Shown) /\ Len(a) = n + 1 /\ a[n + 1] = t
      BY <1>1, AppendAt
<1>3. WrittenIn(V, v, n) = out \o DecodeBytes(pend)
      BY Ready
<1>4. WrittenIn(V, a, n) = WrittenIn(V, v, n)
  <2>1. n \in 0..Len(v)
        BY <1>1
  <2>. QED  BY <1>1, <2>1, WrittenStays
<1> HIDE DEF n, a
<1>5. WrittenIn(V, a, n + 1) = WrittenIn(V, a, n) \o PartIn(V, a, n + 1)
  <2>1. n + 1 <= Len(a)
        BY <1>1, <1>2
  <2>. QED  BY <1>1, <1>2, <2>1, WrittenAppend
<1>6. RunIn(V, a, Len(a) + 1) = <<>>
      BY <1>2, RunEmpty
<1>7. /\ Len(<<>>) = 0 /\ <<>> \in Seq(0..255) /\ Len(a) - 0 = n + 1 /\ n + 1 \in Nat
      /\ n + 1 # 0 /\ (n + 1 + 1)..(n + 1) = {}
      BY <1>1, <1>2
<1>8. Follows(V, a, WrittenIn(V, a, n + 1), <<>>, FALSE)
      BY <1>2, <1>6, <1>7 DEF Follows
<1>. QED  BY <1>3, <1>4, <1>5, <1>8 DEF a, n

-----------------------------------------------------------------------------
(* The invariant *)

TextInv ==
  /\ vocabulary \in Vocabularies /\ tokens \in Seq(Int)
  /\ loaded = "yes" => Accepted(vocabulary)
  /\ Follows(vocabulary, Visible(tokens), output, pending, first)
  /\ ~ over => \A j \in 1..Len(tokens) : tokens[j] # EOS
  /\ text # NoText =>
       /\ TextIn(vocabulary, tokens) \in Seq(Nat)
       /\ text = IF Bytes(TextIn(vocabulary, tokens)) > MaximumBytes
                 THEN TooLong ELSE TextIn(vocabulary, tokens)

LEMMA TextInitially == TextInit => TextInv
<1> SUFFICES ASSUME TextInit PROVE TextInv
    OBVIOUS
<1>1. Visible(<<>>) = <<>>
  <2>1. VisibleParts(<<>>) = <<>> /\ Len(<<>>) = 0
        BY DEF VisibleParts
  <2>. QED  BY <2>1, VisibleIs, FlattenSeqIs
<1>2. Follows(vocabulary, Visible(tokens), output, pending, first)
      BY <1>1, NothingFollows DEF TextInit
<1>3. tokens \in Seq(Int) /\ 1..Len(tokens) = {}
      BY DEF TextInit
<1>. QED  BY <1>2, <1>3 DEF TextInit, TextInv

LEMMA FromBytesKeeps == ASSUME TextInv, FromBytes PROVE TextInv'
<1>1. (loaded = "yes" => Accepted(vocabulary))'
      BY DEF FromBytes, TextInv, Accepted
<1>. QED  BY <1>1 DEF FromBytes, TextInv

LEMMA ReturnKeeps == ASSUME TextInv, Return PROVE TextInv'
<1>1. /\ Accepted(vocabulary) /\ Follows(vocabulary, Visible(tokens), output, pending, first)
      /\ tokens \in Seq(Int)
      BY DEF Return, TextInv
<1> DEFINE v == Visible(tokens)
           s == output \o DecodeBytes(pending)
<1>2. WrittenIn(vocabulary, v, Len(v)) = s /\ output \in Seq(Nat)
      BY <1>1, Ready
<1>3. v \in Seq(Shown)
      BY <1>1, VisibleTyped
<1>4. TextIn(vocabulary, tokens) = s
  <2>1. DOMAIN v = 1..Len(v)
        BY <1>3
  <2>. QED  BY <1>2, <2>1 DEF TextIn, WrittenIn
<1>5. s \in Seq(Nat)
  <2>1. Len(v) \in 0..Len(v)
        BY <1>3, LenProperties
  <2> HIDE DEF v, s
  <2>. QED  BY <1>1, <1>2, <1>3, <2>1, WrittenTyped
<1> HIDE DEF s
<1>6. text' = IF Bytes(s) > MaximumBytes THEN TooLong ELSE s
      BY DEF Return, s
<1>7. vocabulary' = vocabulary /\ tokens' = tokens
      BY DEF Return
<1>8. TextIn(vocabulary, tokens)' = s
      BY <1>4, <1>7
<1>. QED  BY <1>5, <1>6, <1>8 DEF Return, TextInv

\* What the identifier says of the token.
LEMMA KnownIs ==
  ASSUME NEW t \in Int, Accepted(vocabulary)
  PROVE  LET id == Known(t)
             piece == vocabulary[id]
         IN  /\ id \in DOMAIN vocabulary
             /\ id # UNK => t = id
             /\ id = UNK => t \notin {PAD, BOS, EOS} /\ (t = UNK \/ t \notin DOMAIN vocabulary)
             /\ id = EOS <=> t = EOS
             /\ id \in {PAD, BOS} \/ (id # EOS /\ piece.control) <=> t \in {PAD, BOS}
             /\ piece.byte <=> ByteIn(vocabulary, t)
             /\ id = UNK \/ piece.unknown <=> id = UNK
<1> DEFINE id == Known(t)
           piece == vocabulary[id]
<1>1. PAD \in DOMAIN vocabulary /\ BOS \in DOMAIN vocabulary /\ EOS \in DOMAIN vocabulary
      /\ UNK \in DOMAIN vocabulary
  <2>1. PAD..UNK \subseteq DOMAIN vocabulary
        BY VocabulariesAreRecords DEF Accepted
  <2>2. PAD \in PAD..UNK /\ BOS \in PAD..UNK /\ EOS \in PAD..UNK /\ UNK \in PAD..UNK
        BY DEF PAD, BOS, EOS, UNK
  <2>. QED  BY <2>1, <2>2
<1>2. id = IF t \in DOMAIN vocabulary THEN t ELSE UNK
      BY DEF Known
<1> HIDE DEF id
<1>3. id \in DOMAIN vocabulary /\ (id # UNK => t = id) /\ (id = UNK => t = UNK \/ t \notin DOMAIN vocabulary)
      BY <1>1, <1>2
<1>5. UNK # EOS /\ UNK # PAD /\ UNK # BOS /\ UNK \notin FirstByte..(FirstWord - 1)
      BY DEF PAD, BOS, EOS, UNK, FirstByte, FirstWord
<1>9. id = UNK => t \notin {PAD, BOS, EOS}
      BY <1>1, <1>2, <1>5
<1>4. /\ id \in Nat
      /\ piece.control <=> id < UNK
      /\ piece.byte <=> id \in FirstByte..(FirstWord - 1)
      /\ piece.unknown <=> id = UNK
      BY <1>3, PieceKinds
<1> HIDE DEF piece
<1>6. id = EOS <=> t = EOS
      BY <1>1, <1>2, <1>5
<1>7. id \in {PAD, BOS} \/ (id # EOS /\ piece.control) <=> t \in {PAD, BOS}
  <2>1. id # EOS /\ id < UNK => id \in {PAD, BOS}
    <3>1. id \in Nat
          BY <1>4
    <3>. QED  BY <3>1 DEF PAD, BOS, EOS, UNK
  <2>2. id \in {PAD, BOS} <=> t \in {PAD, BOS}
        BY <1>1, <1>2, <1>5
  <2>. QED  BY <1>4, <2>1, <2>2, Zenon
<1>8. piece.byte <=> ByteIn(vocabulary, t)
  <2>1. id \in FirstByte..(FirstWord - 1) <=> t \in DOMAIN vocabulary /\ t \in FirstByte..(FirstWord - 1)
        BY <1>2, <1>5, Zenon
  <2>. QED  BY <1>4, <2>1, Zenon DEF ByteIn
<1>. QED  BY <1>3, <1>4, <1>6, <1>7, <1>8, <1>9, Zenon DEF id, piece

LEMMA FeedKeeps == ASSUME TextInv, NEW t \in Fed, Feed(t) PROVE TextInv'
<1> DEFINE id == Known(t)
           piece == vocabulary[id]
           v == Visible(tokens)
           n == Len(v)
           w == Visible(tokens')
           flushed == output \o DecodeBytes(pending)
           prefix == first /\ pending = <<>>
<1>1. /\ vocabulary \in Vocabularies /\ tokens \in Seq(Int) /\ Accepted(vocabulary)
      /\ Follows(vocabulary, v, output, pending, first)
      /\ ~ over /\ \A j \in 1..Len(tokens) : tokens[j] # EOS
      BY DEF Feed, TextInv
<1>2. /\ tokens' = Append(tokens, t) /\ vocabulary' = vocabulary /\ loaded' = loaded
      /\ text' = text /\ text = NoText
      BY DEF Feed
<1>3. t \in Int
      BY TokensAreIntegers
<1>4. tokens' \in Seq(Int)
      BY <1>1, <1>2, <1>3
<1>5. w = IF t \in {PAD, BOS, EOS} THEN v ELSE Append(v, t)
      BY <1>1, <1>2, <1>3, VisibleAppend
<1>6. /\ id \in DOMAIN vocabulary
      /\ id # UNK => t = id
      /\ id = UNK => t \notin {PAD, BOS, EOS} /\ (t = UNK \/ t \notin DOMAIN vocabulary)
      /\ id = EOS <=> t = EOS
      /\ id \in {PAD, BOS} \/ (id # EOS /\ piece.control) <=> t \in {PAD, BOS}
      /\ piece.byte <=> ByteIn(vocabulary, t)
      /\ id = UNK \/ piece.unknown <=> id = UNK
      BY <1>1, <1>3, KnownIs
<1>7. t # EOS => \A j \in 1..Len(tokens') : tokens'[j] # EOS
  <2>1. Len(tokens') = Len(tokens) + 1 /\ tokens'[Len(tokens) + 1] = t
        /\ (\A j \in 1..Len(tokens) : tokens'[j] = tokens[j])
        /\ \A j \in 1..(Len(tokens) + 1) : j \in 1..Len(tokens) \/ j = Len(tokens) + 1
        BY <1>1, <1>2, <1>3
  <2>. QED  BY <1>1, <2>1
<1>8. v \in Seq(Shown) /\ n \in Nat
      BY <1>1, VisibleTyped, LenProperties
<1> HIDE DEF v, w, n, id, piece
<1>9. SUFFICES ASSUME TRUE
               PROVE  Follows(vocabulary, w, output', pending', first') /\ (~ over' => t # EOS)
  <2>1. Follows(vocabulary, Visible(tokens), output, pending, first)'
        <=> Follows(vocabulary, w, output', pending', first')
        BY <1>2 DEF w
  <2>. QED  BY <1>1, <1>2, <1>4, <1>7, <2>1 DEF TextInv
<1>10. CASE id = EOS /\ over' = TRUE /\ UNCHANGED <<output, pending, first>>
  <2>1. w = v
        BY <1>5, <1>6, <1>10
  <2>. QED  BY <1>1, <1>10, <2>1
<1>11. CASE /\ id \in {PAD, BOS} \/ (id # EOS /\ piece.control)
            /\ UNCHANGED <<output, pending, first, over>>
  <2>1. t \in {PAD, BOS} /\ w = v
        BY <1>5, <1>6, <1>11
  <2>2. t # EOS
        BY <2>1 DEF PAD, BOS, EOS
  <2>. QED  BY <1>1, <1>11, <2>1, <2>2
<1>12. t \notin {PAD, BOS, EOS} => t \in Shown
       BY <1>3 DEF Shown
<1>13. CASE piece.byte /\ pending' = Append(pending, id - FirstByte) /\ UNCHANGED <<output, first, over>>
  <2>1. ByteIn(vocabulary, t)
        BY <1>6, <1>13
  <2>2. t \notin {PAD, BOS, EOS} /\ t # UNK
        BY <2>1 DEF ByteIn, PAD, BOS, EOS, UNK, FirstByte, FirstWord
  <2>3. id = t
    <3>1. t \in DOMAIN vocabulary
          BY <2>1 DEF ByteIn
    <3>. QED  BY <1>6, <2>2, <3>1
  <2>4. w = Append(v, t) /\ t \in Shown
        BY <1>5, <1>12, <2>2
  <2>5. Follows(vocabulary, Append(v, t), output, Append(pending, t - FirstByte), first)
        BY <1>1, <2>1, <2>4, ByteFollows
  <2>. QED  BY <1>13, <2>2, <2>3, <2>4, <2>5
<1>14. ASSUME NEW x, ~ ByteIn(vocabulary, t), t \notin {PAD, BOS, EOS},
              x = PartIn(vocabulary, Append(v, t), n + 1),
              output' = flushed \o x, pending' = <<>>, first' = FALSE
       PROVE  Follows(vocabulary, w, output', pending', first') /\ t # EOS
  <2>1. w = Append(v, t) /\ t \in Shown
        BY <1>5, <1>12, <1>14
  <2>2. Follows(vocabulary, Append(v, t), flushed \o x, <<>>, FALSE)
        BY <1>1, <1>14, <2>1, TextFollows DEF n
  <2>. QED  BY <1>14, <2>1, <2>2
<1>15. Append(v, t)[n + 1] = t
       BY <1>8, <1>12 DEF n
<1>16. CASE /\ id = UNK \/ piece.unknown
            /\ output' = flushed \o UnknownSurface
            /\ pending' = <<>> /\ first' = FALSE /\ UNCHANGED over
  <2>1. t = UNK \/ t \notin DOMAIN vocabulary
        BY <1>6, <1>16
  <2>2. ~ ByteIn(vocabulary, t)
        BY <2>1 DEF ByteIn, UNK, FirstByte, FirstWord
  <2>3. t \notin {PAD, BOS, EOS}
    <3>1. id = UNK
          BY <1>6, <1>16
    <3>. QED  BY <1>6, <3>1
  <2>4. PartIn(vocabulary, Append(v, t), n + 1) = UnknownSurface
        BY <1>15, <2>1, <2>2 DEF PartIn
  <2>. QED  BY <1>14, <1>16, <2>2, <2>3, <2>4
<1>17. CASE /\ id \notin {PAD, BOS, EOS, UNK} /\ ~ piece.control /\ ~ piece.byte /\ ~ piece.unknown
            /\ output' = flushed \o (IF prefix /\ piece.text[1] = Marker
                                     THEN Tail(Spaced(piece.text)) ELSE Spaced(piece.text))
            /\ pending' = <<>> /\ first' = FALSE /\ UNCHANGED over
  <2>1. id = t /\ t \in DOMAIN vocabulary /\ t # UNK /\ t \notin {PAD, BOS, EOS}
        BY <1>6, <1>17
  <2>2. ~ ByteIn(vocabulary, t)
        BY <1>6, <1>17
  <2>3. prefix <=> n + 1 = 1
    <3>1. /\ n - Len(pending) \in Nat /\ (first <=> n - Len(pending) = 0)
          /\ pending \in Seq(0..255)
          BY <1>1 DEF Follows, n
    <3>2. Len(pending) \in Nat /\ (pending = <<>> <=> Len(pending) = 0)
          BY <3>1
    <3>. QED  BY <1>8, <3>1, <3>2
  <2>4. PartIn(vocabulary, Append(v, t), n + 1) =
          IF n + 1 = 1 /\ piece.text[1] = Marker THEN Tail(Spaced(piece.text)) ELSE Spaced(piece.text)
        BY <1>15, <2>1, <2>2, Zenon DEF PartIn, piece
  <2>5. output' = flushed \o PartIn(vocabulary, Append(v, t), n + 1)
        BY <1>17, <2>3, <2>4
  <2>. QED  BY <1>14, <1>17, <2>1, <2>2, <2>5
<1>. QED  BY <1>10, <1>11, <1>13, <1>16, <1>17 DEF Feed, id, piece

LEMMA TextStep == TextInv /\ [TextNext]_textVars => TextInv'
<1>1. ASSUME TextInv, TextNext PROVE TextInv'
      BY <1>1, FromBytesKeeps, FeedKeeps, ReturnKeeps DEF TextNext
<1>2. ASSUME TextInv, UNCHANGED textVars PROVE TextInv'
      BY <1>2 DEF textVars, TextInv
<1>. QED  BY <1>1, <1>2

(* In every reachable state the loop has written the reference of all tokens *)
(* but the bytes at their end, which wait (s1_decode_tokenizer.py, decode).  *)
THEOREM TextInductive == TextSpec => []TextInv
BY TextInitially, TextStep, PTL DEF TextSpec

\* A text's length is a number.
LEMMA BytesAre == ASSUME NEW s \in Seq(Nat) PROVE Bytes(s) \in Int
<1> DEFINE f == [i \in DOMAIN s |-> Size(s[i])]
<1>1. DOMAIN s = 1..Len(s) /\ Len(s) \in Nat
      OBVIOUS
<1>2. f \in [1..Len(s) -> Int]
      BY <1>1 DEF Size
<1>3. IsFiniteSet(1..Len(s))
      BY <1>1, FS_Interval
<1>4. \A x \in 1..Len(s) : f[x] <= f[x]
      BY <1>2
<1> HIDE DEF f
<1>5. SumFunction(f) \in Int
      BY <1>2, <1>3, <1>4, SumOrder
<1>. QED  BY <1>5 DEF Bytes, f

(* The text that decode returns is the reference's for the tokens, for every *)
(* vocabulary that from_bytes accepts, any number of tokens and bytes, and   *)
(* is refused only for its length (s1_decode_tokenizer.py).                  *)
THEOREM TextFaithfulHolds == TextSpec => []TextFaithful
<1>1. TextInv => TextFaithful
  <2> SUFFICES ASSUME TextInv, text # NoText PROVE TextFaithful
      BY DEF TextFaithful
  <2> DEFINE r == TextIn(vocabulary, tokens)
  <2>1. ReferenceText(tokens) = r
        BY ReferenceIs
  <2>2. r \in Seq(Nat) /\ text = IF Bytes(r) > MaximumBytes THEN TooLong ELSE r
        BY DEF TextInv
  <2> HIDE DEF r
  <2>3. r # TooLong
    <3>1. TooLong[1] = -2 /\ Len(TooLong) = 1
          BY DEF TooLong
    <3>2. Len(r) = 1 => r[1] \in Nat
          BY <2>2
    <3>. QED  BY <3>1, <3>2
  <2>4. Bytes(r) \in Int /\ MaximumBytes \in Int
        BY <2>2, BytesAre, TextLimits
  <2>5. CASE Bytes(r) > MaximumBytes
        BY <2>1, <2>2, <2>5 DEF TextFaithful
  <2>6. CASE ~ (Bytes(r) > MaximumBytes)
    <3>1. text = r /\ text # TooLong
          BY <2>2, <2>3, <2>6
    <3>2. Bytes(text) <= MaximumBytes
          BY <2>4, <2>6, <3>1
    <3>. QED  BY <2>1, <3>1, <3>2 DEF TextFaithful
  <2>. QED  BY <2>5, <2>6
<1>. QED  BY <1>1, TextInductive, PTL
=============================================================================
