# A TLA+ verification project for the UMI reference model

This directory holds TLA+ models of the parts of the repository that are
hard to test, the TLC configurations that check them, and proofs checked by TLAPS.
Paths below are relative to the repository; `community/` files are under
`src/community/`, `bitsign_motion/` files under `src/src/bitsign_motion/` in
`PROJECT.json`.

Check a run with `tlc -workers 2 -config MCSidecar.cfg MCSidecar.tla`, the proofs with
`tlapm WarmWorkerProofs.tla` and the other `...Proofs.tla` (a few minutes each).

## 1. The system

A miner answers a validator's request (a sign-language video) with an English
hypothesis. Two services do the inference. The *community model service* keeps
verified models warm behind a private socket. The *S1 reference backend* runs every
request in a killable process and a container. Around them stand the extraction and
decoding pipeline and the tools that build and verify releases.

### Components

**Warm worker transport** (`community/worker_transport.py`).
State: the attached child process, `_closed`, the lock `_lock`, the tasks of
`_operate`, the pipes, the scratch directory. Operations: `startup`, `translate`,
`close`; in the child, `serve_worker`. Calls are cancelled by their deadline, by
their caller or by `close()` at any await. A failed call kills and reaps the process
group and clears the scratch before the next one may launch a replacement.
Hard: cancellation inside process creation and inside the reap, stale frames in the
pipe, reaps that cannot be confirmed. Correct when: one child at a time, a caller's own
transcript only, no video to an unverified child, nothing alive after `close()`, an
empty scratch at each launch, all calls end.

**Community sidecar pool** (`community/sidecar.py`, configured by
`community/service.py`). State: the queue of available workers, the sets of operations
and recoveries, the recovery lock, `_closed`, the closing task, the startup task, the
stop signal. Operations: `start`, `translate`, `_rewarm`, `_close`,
`serve_until_stopped`. It calls the transport's three methods. Hard: closing races
operations that create recoveries, an operation may itself close the pool, the stop
signal may arrive in any state. Correct when: no worker is shared, lost or queued cold,
loads are serial, the close touches a worker only when nobody is in it, the service
returns only with every child reaped, requests and shutdown end.

**Reboot recovery** (`community/reboot_recovery.py`, in the order that
`community/service.py` calls it). State: the journal `SOCKET.reboot.json`, the socket
and its capacity descriptor, the scratch directories, all with a cached and a durable
version; the boot identity. Operations: `prepare` (with `_entries`, `_apply`, `_write`),
`begin`, `finish`. Hard: the controller or the power may fail between any two system
calls. Correct when: sessions never overlap, a living worker is recorded on the disk,
nothing is lost, a worker starts in an empty scratch, a recovery ends.

**S1 reference backend** (`bitsign_motion/umi_reference_backend.py`, with the bounded
docker command of `amd64_holistic_container.py`). State: the configuration, `_closing`,
the set of job tasks; for each job its directory, worker process group, docker command
line and container. Operations: `startup`, `shutdown`, `__call__`. Hard: three owners of
one job's resources (event loop, process group, daemon), repeated cancellation, an
unreachable daemon. Correct when: a job leaves nothing behind that it claims to have
removed, a hypothesis is handed out only after that, calls and shutdown end.

**Holistic container extraction** (`amd64_holistic_container.py`,
`holistic_container.py`; the arm64 file is the same code but for its platform and the
whole-video options). State: an isolated mount for each call, the sample directory below
the output root. Operations: `extract_holistic_in_container`,
`load_existing_holistic_extraction`. Hard: concurrent extractions of one sample, a
container that outlives its command, a video that changes while it is read, crashes
around the rename. Correct when: a published sample is whole, of one extraction and of
the bytes that were asked for, and nobody's mount is removed under a running container.

**Container workers** (`docker/mediapipe-holistic/worker*.py`). One sequential process:
probes a clip, selects a frame for each output, runs the landmark model over them in the
order of their times, writes one artifact and a receipt. Correct when: each output gets
the nearest frame of the clip, and what the receipt says is what the host and the
conversion compute again.

**Motion conversion** (`holistic_motion.py`, `motion_artifact.py`). Converts one
extraction to one artifact that is created in place under its name, or found there.
Hard: a crash or a concurrent conversion between creation and sync. Correct when: an
artifact that was returned stays, and a half written one is never accepted.

**Landmark mapping** (`mediapipe_mapping.py`). Pure: assigns detected hands to sides,
fits hands and face, and builds masks with the reasons for what is absent. Correct when:
a detection is used once, a side gets the clearly best hand, the reasons are complete.

**Portable model decoding** (`portable_model.py`, `s1_decode_tokenizer.py`,
`s1_portable_runtime.py`, `s1_state_digest.py`). Pure given the tensors: greedy and beam
search with a no-repeat rule and token limits, and the text of the tokens within a byte
limit. Correct when: beam search keeps the best well-formed sequences with the documented
tie order, and the text is that of the reference tokenizer.

**Local extractor release and bundle rebind** (`local_extractor_release.py`,
`local_bundle_rebind.py`, the export in `s1_portable_runtime.py`). State: the sources, the
image and its record, the bundle directory, the export's lock. Hard: builds overlap with
edits, two programs publish under one name by different means, a failed rebind removes
what it made. Correct when: a returned bundle stays whole and binds an image of the pinned
sources.

**Public S1 release intake and evidence** (`public_s1_release_intake.py`,
`s1_release_evidence.py`). The intake reads linked documents from a directory that may
change, checks them against a reviewed policy and publishes one directory; the evidence
tool computes every number of the private reports again before it publishes them. Correct
when: what is published is one approved release, and the ledger is true of the
predictions.

**Bundle verification and candidate runtimes** (`community/bundle_verification.py`,
`cpu_*.py`, `native_*.py`, `umi_inference.py`, `rehearse.py`). A worker verifies, loads,
warms up and serves; the loop it serves in belongs to the transport.

**Baseline runtime** (`candidates/community-baseline-v0.2/runtime.py`). Threads share a
model under a bounded semaphore with deadlines. The code in `vendor/` is third-party.

**Release tools** (`tools/*.py`). Command line programs. `release_artifacts.py` seals a
release in two further commits and verifies the history that leads to them.

### How they interact

```
service.py --lock, prepare/begin/finish--> RebootRecovery --journal, renames--> disk
    | run_sidecar_service
    v
Sidecar --startup/translate/close--> WarmWorker (one per slot) --pipes, signals--> child
UmiS1Translator --job task--> worker process --docker command--> daemon --> container
                                  |-> extraction --sample dir--> conversion --artifact-->
                                      mapping --points--> decoding --tokens--> text
build_local_extractor --record--> rebind --bundle--> translator's configuration
private reports --> evidence --ledger--> intake --release--> release_artifacts --commits
```

## 2. Plan

Done, in this order:

1. `WarmWorker`: every request passes it and its failure handling is the subtlest; with
   proofs of all its safety properties.
2. `Sidecar`: composes slots; rests on what 1 shows of a slot; with proofs of all its
   safety properties.
3. `RebootRecovery`: crash consistency; with proofs of all its safety properties.
4. `ReferenceBackend`: the other inference path; with proofs of all its safety properties.
5. `ModelSlot`, the abstract slot that `Sidecar` assumes, which `WarmWorker` implements by
   a refinement mapping and whose moves `Sidecar` keeps to, both proved.
6. `WriteOnce`, the register that the pipeline promises of a published name, and its two
   implementations `Extraction` (publication by rename) and `Conversion` (publication in
   place), both proved.
7. `PublicIntake` and `LocalRelease`: the publications of releases and bundles, with proofs
   of all their safety properties.
8. The computations with a reference definition: `FrameSelection`, `LandmarkMapping`,
   `Decoding`, `Tokenizer`, `SelectionEvidence`, `ReleaseHistory`; with proofs of all their
   properties.

Every safety property of a run that expects to pass is proved. The runs are complete: a new
question would take the place of a shallower one.

## 3. The modules

| Module | Models | State and actions |
|---|---|---|
| `WarmWorker` | one slot | `pc` names the await of each task, `os`/`inbox`/`outbox` the child and its pipes; an action is the code between two awaits |
| `WarmWorkerInv`, `WarmWorkerProofs` | its inductive invariant and theorems | one lemma per action |
| `ModelSlot` | what a slot promises its owner | `slot` cold, warm or busy; `closed`; the calls that won |
| `WarmWorkerSlot` | `WarmWorker` as a `ModelSlot`; proved in `WarmWorkerProofs` | the refinement mapping: busy while a call holds the lock, warm while a child is attached |
| `Sidecar`, `SidecarProofs` | the pool | `op`, `rewarm`, `closing`, `startup`, `owner` name the await of each task; `slot` is a worker seen from outside |
| `RebootRecovery`, `RebootRecoveryProofs` | the recovery journal | each name has a cached (`vol`) and a durable (`dur`) value; `ctl` is the controller's place between two system calls |
| `ReferenceBackend`, `ReferenceBackendProofs` | jobs of the S1 backend | `task` names the await of a job's task, `leader`, `cli`, `container` its process, command line and container |
| `WriteOnce` | what a published name promises | a value, whether it is settled, what was served |
| `Extraction` | extractions of one sample | `pc` is the host call, `work` its container's worker, `mount`/`out` its directory, `path`/`content` the video, `sample`/`dsample` the published name in the cache and on the disk |
| `Conversion` | the motion artifact | `pc` a call's place in `_publish`; `text`/`flushed` the inodes, `name`/`dname` the output's name |
| `LocalRelease` | builds, rebinds and exports | `record` and the versions its build used, `dest` the bundle with the owner of each file, `lock` the export's |
| `PublicIntake` | the intake | `view` what a call has read so far, `temporary` and `destination` directories |
| `PublishByRenameProofs` | theorems about `Extraction` and `PublicIntake` | both publish a finished directory by a rename |
| `PublishInPlaceProofs` | theorems about `Conversion` and `LocalRelease` | both fill what they publish under its own name |
| `FrameSelection` | a clip's frames, from probe to conversion | `stage` walks worker, host and conversion; `cand`, `chosen`, `shown`, `calls` are the lists of the code |
| `LandmarkMapping` | hands, face and masks of each frame | `step` walks `map_holistic_to_canonical`; `slot`, `states`, `reasons` its diagnostics |
| `Decoding` | greedy and beam search of a batch | one step is one token position; `beams` is the list of each sample, `row` what greedy decoding has written |
| `Tokenizer` | vocabulary check and decoding | one step is one token |
| `SelectionEvidence` | the public ledger and the motion ablation | reports are taken one by one, then projected |
| `ReleaseHistory` | create and verify of a release | commits of a maintainer between the tool's commands |
| `InferenceProofs` | theorems about `FrameSelection`, `LandmarkMapping` and `Decoding` | what becomes of a video until its translation |
| `OutputProofs` | theorems about `ReleaseHistory`, `SelectionEvidence` and `Tokenizer` | what comes out: releases, evidence, text |
| `MC...` | | instances for TLC |

`PROJECT.json` maps every definition to the lines it stands for. An operator that
the comment calls *faulty* is a plausible bug kept beside the definition it would replace;
nothing else uses it: replacing the definition makes TLC report the property named in
`PROJECT.json`, which shows that the property depends on that code.

Abstractions common to all modules. An await is the only point where another task runs
(asyncio); between processes every system call is a step of its own. A deadline or a
caller's cancellation may arrive at every await, without clocks. Names, videos,
transcripts and digests are model values: a digest of a content is the content.
Formatting and validation of records is reduced to accept or refuse.

*WarmWorker.* The child may crash, hang, announce another revision, answer wrongly or
twice, leave a descendant that keeps the pipe open, and write to its scratch. A process is
named by the call that launched it (one `_operate` launches at most one). Frames are read
whole. That a response longer than the limit, or one cut short, is refused like an unbound
one is part of `ReadEnds`. A member of the group that holds no end of the pipe could survive
the leader unseen by the reap; it has been killed with the group and is taken for dead
(`Reaped`).

*Sidecar.* A worker's calls end as `WarmWorker` shows. A failed call leaves a slot cold,
stuck, or warm (a deadline that met a finished task), a startup as well as a translation.
The recovery of a worker that kept its child calls `startup()` too, under the lock, and a
stop cancels a running `start()` and waits for it before it closes. Clients repeat requests
for ever.

*RebootRecovery.* A directory is written back by the kernel at any time, its entries in
the order of their changes; different directories are independent. A power loss leaves
what was durable. `Kill` also stands for a failed system call. The service always runs
with `--recover-after-reboot` and one configuration on one host; refusals for other hosts
or configurations change nothing on the disk. The entries of a plan are executed in the plan's
order, the journal's directory first. Contents of the journal are replaced
atomically (`os.replace` of a synced file).

*ReferenceBackend.* SIGTERM stops the worker from acting at once; its exit is seen later.
A cancellation is noticed where the task next goes on, so the check before
the worker ends first. The docker command dies of SIGTERM unless it has a container to
forward it to. The daemon
creates no container for a command that is already gone. The probe of `startup` uses no
container and is a single step.

*Extraction.* A content of the video is a version number: a change makes a new one, so a
change back to earlier bytes during a call is excluded. A record in the worker's output
that only repeats a constant is accept or refuse. `CommandCut` is the one optimism of the
code: a docker command that ends with an error is taken for the end of its container.
`SyncFails` raises although the sample stays published: a later call finds and verifies it.
The removal of a mount may fail at any time; the call then says so (`uncleared`).

*Conversion.* An accepted artifact need not be on the disk yet (the accepting call syncs
nothing), and its creator may still fail and withdraw it: only the creator's return
settles it. A creator that is killed leaves a partial file that every later conversion
refuses until an operator removes it (`OperatorRemoves`). The operator may also delete the
file of a creator that is still at work. That creator's withdrawal is two system calls, a
`stat` (`Look`) and an `unlink` of the name (`Unlink`), and it knows its file by the inode
number: if the deletion falls between the two, or if the number is given to the
next file before the first (`LookAtNumber`; the model takes that as possible for any other
file), the unlink takes whatever another call has created there, a returned artifact
included. `misled` records that this has become possible, and `ArtifactSettles` holds until then.

*LocalRelease.* Sources are hashed after the image was built (`torn`), two builds replace
one another's record without notice, an export's rename takes the place of the empty
directory of a running rebind, whose undoing then removes the export's files (`usurped`; it
unlinks one name after the other, and a file that the export puts under a name already
passed is taken as well, which only adds to that case);
a killed export, or one whose `mkdtemp` fails, leaves its lock. The properties except
exactly these cases, by history variables, and hold beside them. Nothing syncs the
directories of a rebind, an export, a record or an intake, so power losses are not modelled
there: the code promises nothing about them. An exception of a type that a rebind does not
catch leaves its directory as an interruption does (`Interrupt`).

*PublicIntake.* Documents are read one by one, at different moments, from a source that
changes; that they belong together follows from the digests alone. Re-reading a document
that a digest already binds changes nothing and is left out. Intake verifies once more after the
rename; if the policy was revised in between, the call fails and the directory stays. The
removal of an unpublished directory may fail without a word (`littered`).

*FrameSelection.* That a clip lies within the source is tested by the worker, the host and the
conversion on the same fields of the receipt; the model has the first test (`InSource`).
Times of frames are rational and those of the receipt are whole
microseconds, as in the code; `Tick` is the denominator. A selected frame within half a
microsecond of the clip's end is accepted by the worker and the host and refused by the
conversion (`holistic_motion.py:521`); `ReceiptAgrees` says precisely this.

*LandmarkMapping.* Distances are small integers, the outcome of a fit is chosen. A hand's
score is copied before its fit is accepted, and face points may be absent without a
reason: the properties speak of coordinates and of hands only.

*Decoding.* Scores are integers, so that ties are real ties; rounding of float32 is left
out. A sample without any possible token stops the whole batch (`RuntimeError`). Greedy
decoding may write PAD or BOS, which the search forbids; it is compared where it does not.
Both run over the same network side by side, position by position, and greedy decoding goes on
when the search has ended: neither reads what the other writes.

*Tokenizer.* Scores of pieces do not reach the text and are left out of the vocabulary check,
as is the refusal of a word that spells a special piece.

*SelectionEvidence.* Scores are exact fractions of a sample. A private report claims the
words, the error rate and the score of each prediction and the aggregates of each row; it may
misstate any of them, or several so that they agree with one another. The ablation's
inventory has no counts of words: those of its first condition count for all three. The
relative improvement is the quotient of two published numbers and is left out.

*ReleaseHistory.* A file is its content; verification of a commit is one step, although the
code reads some artifacts twice. A kill between the two files `create_release` writes leaves
a manifest with old sums, or, if the manifest was deleted, sums alone: another
`create_release` without `--replace` then writes the manifest and refuses the sums.
Verification refuses all of these.

## 4. Runs

| Run | Shows | Instance |
|---|---|---|
| `worker` | `OneChild`, `OwnTranscript`, `VerifiedBeforeAsked`, `CloseMeansDead`, `CleanLaunch`; `Contract`: the slot implements `ModelSlot`; `CallsReturn`, `CloseEnds` | 2 calls and a close |
| `pool_safety` | `PoolConsistent`, `OneLoad`, `QuietBeforeClose`, `ReturnMeansReaped`, and `SlotsKept`: the pool uses its workers by the moves of `ModelSlot` only | 3 workers, 3 clients, 454 thousand states |
| `pool_liveness` | `RequestsEnd`, `ServiceEnds`, `WorkersComeBack` | 2 workers, 2 clients |
| `recovery` | `NoOverlap`, `DurablyRecorded`, `Retained`, `LaunchEmpty`; `RecoveryCompletes` | 1 file, 2 scratches, 3 boots, 1 kill, 2 sessions |
| `recovery_plan` | `PlanResumed` violated | 1 file, 1 scratch, 1 kill |
| `recovery_stop` | `CleanRestarts` violated | 1 file, 1 scratch, 2 boots |
| `backend_safety` | `NothingLeft`, `ReturnedMeansDone`, `ShutdownQuiet` | 2 jobs, 2.0 million states |
| `backend_liveness` | `CallsEnd`, `ShutdownCompletes` | 1 job, 2 interruptions |
| `backend_outage` | `AbsentMeansGone` violated | 1 job, 1 outage |
| `publish_by_rename` | `ResultFaithful`, `MountFate`, `SampleSettles`; `IntakeWhole` | 2 extractions, 1 change of the video, 1 fault; 2 intakes, 3 releases, 2 edits; 1.2 million states |
| `publish_in_place` | `ArtifactSettles`; `BundleStays`, `ImageIsPinned` | 3 conversions of 2 artifacts, a kill, a power loss; 2 builds, 2 rebinds, 1 export, 2 edits; 914 thousand states |
| `algorithms` | `DetectorOrdered`, `ReceiptAgrees`, `HandsAssigned`, `BeamsAreBest`, `TextFaithful`, `EvidenceTrue`, `VerifiedChain` | all inputs of `MCAlgorithms`, 1.0 million states |

*Runs of several components.* The last three runs hold components that share no state. A
behaviour is one of one component, which `part` names; the others stay in an initial
state, where their properties hold. The MC module extends the components themselves, so
the properties it checks are those the theorems name.

*Why the bounds are enough.* Two calls give a holder of the lock and one behind it in the
queue, beside `close()`: two generations of children to be confused. More calls are the
proofs' business. Three workers give one with a request, one in recovery and one
waiting for the recovery lock; three clients exhaust the queue. Two power losses
cut a recovery short and then the recovery's recovery; two sessions give an orphan of the
first beside the second; entries of a plan are independent but for their order, which two
scratches and a file show. The two backend jobs interact only through the shutdown and the
daemon. `MaxStop = 1` bounds what callers cancel; a deadline and the shutdown come on top,
so a job is interrupted up to three times. Two extractions give a winner and a loser of
the rename; that more calls, faults and changes make no difference is proved. Three
conversions give a creator, one that accepts its file, and one that creates after the first was
withdrawn or deleted. Two builds replace one another's record under two rebinds, one of which fails
while an export or the other publishes. The instances of `MCAlgorithms` are chosen for
the boundaries: units in which every rounding occurs and up to three presentation times in any
relation to a clip's bounds; every distance on both sides of both thresholds; a network
with ties and impossible tokens over five positions; bytes that begin, continue and break
characters of each length; predictions that are right, half right and wrong, and reports that state a
number of one row wrongly, the last of the scales among them; histories of four commits.

*No deadlock check.* Calls are made once, the services stop, computations end, and boots,
kills and sessions are bounded, so every model ends in states without a successor:
`CHECK_DEADLOCK FALSE`. That what should go on does so is what the liveness properties
say. Symmetry is used only where a run checks invariants and step properties.

*Fairness.* Weak fairness is given to what the event loop, the kernel or a timer must do:
ready tasks run, deadlines pass, the reap ends (killed or timed out), a killed process
group dies, control commands end by their own deadline. Nothing is asked of the model in
the child, of the worker or of the docker daemon. In `Sidecar` the recovery lock is granted
in the order of its queue, stated as strong fairness of each waiter. In `RebootRecovery` a
supervisor restarts the controller, which runs until it is ready; power losses are finite
in number by `MaxBoot`. Publications have no liveness property: every call may fail at
every system call, and an unfinished file waits for an operator.

## 5. Findings

1. *A saved plan can be lost after it was acted on* (`recovery_plan`). `_write` replaces
   the journal and then syncs its directory. A controller that ends in between leaves a
   plan that only the cache has; the next one trusts and executes it, syncing the parents
   of what it moves but not the journal's. A power loss restores the journal without plan,
   the scratch stays moved, and `_entries` refuses ever after.
   `community/SERVICE.md` says that an interrupted quarantine resumes its saved plan.
2. *A clean shutdown may not restart after a power loss* (`recovery_stop`). `finish` makes
   the clean mark durable, but nobody syncs the scratch that was cleared; what the worker
   left may return and `_clean_scratches` refuses it.
3. *A container can be taken for absent* (`backend_outage`).
   `_docker_container_exists` runs `inspect` and then `version`. A daemon that is
   unreachable for the first only makes `_force_remove_docker_container` return
   without removing anything, or after an unverified removal.

The behaviours of section 3 that a property excepts (`usurped`, `torn`, `misled`,
`CommandCut`, a partial artifact after a kill, the frame at the clip's end) contradict no statement of the
repository and are therefore no findings; a reader of the code may want to know them.

## 6. Proofs

Assumptions are the `ASSUME`s of the component modules, which TLC evaluates in every run:
the null value is none of the values (`NoneIsNoValue`, `ActorsDistinct`, `PoolNotEmpty`,
`CallsApart`), requests are well formed (`RequestsAreRequests`), the pool and the scratches
are finite (`PoolIsFinite`, `ScratchesFinite`), a path is a file or a scratch
(`PathsDistinct`), and bounds are natural numbers (`BootsPositive`, `BoundsAreNatural`,
`MaxChangeIsNatural`, `EditsAreBounded`). A release names its documents and the archive it
is of, and a digest of a model fixes the archive (`Documents`, `ReleasesLinked`,
`ArchiveBound`). A bundle's files are numbered in the order they are written
(`FilesAreNumbered`), and the sources have a first version (`PinnedVersion`, `Versioned`). A
clip has a beginning before its end and finitely many frames at natural times
(`VideosAreVideos`), its units are positive (`Units`), its limits natural (`RateLimits`), and
there are not more outputs a second than microseconds (`SlowerThanTicks`; the code has 8).
The distances' thresholds are those `_hand_assignment` compares with (`Thresholds`). The
decoders' width, n-gram size and token limit are those the code accepts (`Controls`), and the
logarithms are numbers, none below minus infinity (`Logarithms`). There are
two samples at least (`SomeSamples`; the code has 285), whose references have words that
divide the unit of the score (`WordsDivideUnit`), edits are counted (`EditsAreCounted`), the
checkpoints are numbered and there is one, and one scale (`SomeModels`), and the evaluated
revision is one of them (`RevisionKnown`). Tokens are integers (`TokensAreIntegers`; those
outside the vocabulary among them), identifiers are naturals with the special ones among them
and words are sequences of code points (`VocabulariesAreRecords`), the limits of a text are
natural (`TextLimits`). The proofs hold for every value of the constants, so for any number of calls, workers,
kills, edits, frames and power losses.

**The warm worker.** `WarmWorkerProofs` proves, for every set of calls, `Spec => []P` for
`TypeOK`, `OneChild`, `OwnTranscript`, `VerifiedBeforeAsked`, `CloseMeansDead`, and `Spec =>
CleanLaunch`. None of the properties is inductive: `OneChild` holds because a call creates
only while it holds the lock and nothing is attached. `IInv` (module `WarmWorkerInv`) adds

- `LockHeld`: the lock's holder is exactly the actor between its awaits;
- `ChildAttached`: creation starts with nothing attached, a living child is attached or
  being created, reading and reaping have one attached;
- `CloseStages`: what has ended when `close()` comes to its reap;
- `ScratchReady`: the scratch is clean whenever a launch may follow;
- `CallProgress`: a successful translate carries its own answer;
- `PipesHonest`: each frame binds text to the nonce it echoes, and only a child of this
  release writes `ready`, so an idle attached child is verified.

`InitIInv`, one `...Step` lemma per action and `NextIInv` give `Inductive`; each property
then follows from the invariant (for `CleanLaunch` from the invariant and the step).
`OwnTranscript` needs `PipesHonest` and the nonce check of `ReadResponse`: stale frames
stay in the pipe, they are only never accepted.

`WarmWorkerProofs` also proves `Spec => Contract`, that is, `WarmWorker` implements
`ModelSlot`: a call succeeds only by leaving an open slot with its child, a failure leaves
no child or a closed slot, and a closed slot serves nobody again. The mapping reads
`process` and `lock`; `OpenAtWork` strengthens `IInv`: a task that still works for a result
is in an open slot, because `close()` and every unconfirmed reap stop that work.
`DiscardView` and `CloseView` are the steps that change the view; all others stutter or
begin or end the use of the slot. `Sidecar` keeps its own, finer, view of a slot;
`SlotsKept` says that every change of it is a move of the same contract.

**The pool.** `SidecarProofs` proves `PoolConsistent`, `OneLoad`, `QuietBeforeClose`,
`ReturnMeansReaped` and `SlotsKept` for every finite set of workers and any clients. The
places of a worker are spread over four variables (`queue`, `held`, `rewarm`, `booting`);
`IInv` says how they fit together:

- `Beginnings`: no request and no recovery exists before the socket is bound;
- `Apart`: the four places are disjoint and the queue repeats nobody;
- `Placed`: once all are loaded, every worker of an open pool is in one of them;
- `Loads`: a worker loads exactly when it boots or its recovery holds the lock, which is
  why loads never overlap;
- `Warmth`: what is queued or in use is warm, and what is shut was shut by `_close`;
- `Stages`: what has ended at each stage of `_close`. A cancelled operation may still add a
  recovery, so the recoveries are known to have ended only after the operations have.

`StepTypes` and `StepCore` carry it over every action; `Claims` is counted from sets
that `Apart` keeps to one member at most (`FewClaims`, `OneClaim`). `SlotStep` shows action
by action that a slot changes only by a move of `ModelSlot`. With `Contract`
both sides of that contract are proved: what the worker keeps is all the pool relies on.

**The motion artifact.** `PublishInPlaceProofs` proves `Spec => ArtifactSettles`: `Conversion`
implements `WriteOnce`, with `Artifact` (what a reader of the name finds) for the value
and "a creator has returned" for settled. The invariant says what a call may rely on at
each of its places whatever the others do: `CreatorKeeps` (its file is whole, flushed,
shown by the name and durable under it, each from a certain place on) and `ReaderKeeps`
(what a call has compared stays as it was). Once a creator has returned, the name shows
its inode in the cache and on the disk, so nothing can be created, undone or lost there
(`ConfirmedStays`); `Return` and `Accept` are the only steps that serve. A call that is about
to unlink finds its own file under the name, so the name of a returned artifact is no
other creator's to unlink. This, and what rests on it, is claimed while not `misled`, and
the step that misleads serves nobody and changes nothing that has settled (`MisledInPassing`).

**The extraction.** `PublishByRenameProofs` proves `MountFate`, `ResultFaithful` and `Spec =>
SampleSettles`. The invariant has a part per party, each with a lemma of its own:
`InputKeeps` (versions of the video only grow, the path shows the newest),
`CallKeeps` (what a host call has pinned), `WorkerKeeps` (what the worker has seen is the
version it is bound to, what it decoded lies between its two hashes),
`SampleKeeps` (the sample's name shows a whole, synced sample in the cache and on the disk or nothing),
`PublisherKeeps` (one call at most has moved its mount, and the name shows its sample),
`ResultKeeps` and `Counted` (a mount goes only after its container or a cut command). The
core of `ResultFaithful` is that two equal hashes around a decoding fix the version
in between, because versions never return.

**The recovery journal.** `RebootRecoveryProofs` proves `NoOverlap`, `DurablyRecorded`,
`Retained` and `LaunchEmpty`. No lock holds the journal, the cached names, the durable names
and the living workers together; the invariant does:

- `Distinct`: no two paths share an inode, in the cache or on the disk;
- `Held`: what a scratch contains is reached from that scratch's names in the cache and,
  through the same scratch, on the disk, so that a power loss in the middle of a move keeps it;
- `Sound`: an active journal names directories that exist, in the cache and on the disk;
- `Settled`: without a plan, the scratches on the disk are those of the cache; with one, all
  but those still to be moved are. This is why each move is synced before the next begins;
- `Stage` and `Recorded`: what the journal says at each place of the controller; from the
  first launch to the last death of a worker the journal on the disk is that of the cache;
- `Unused`: a scratch that no worker of this session uses is empty.

`NoOverlap` follows because a worker that outlived its controller leaves a journal of this
boot, which `prepare` refuses; only a reboot, which ends the worker, lifts the refusal. Finding 1
does not contradict `Retained`: the plan is lost, what it moved is not.

**The S1 backend.** `ReferenceBackendProofs` proves `NothingLeft`, `ReturnedMeansDone` and
`ShutdownQuiet`. Jobs meet only in the shutdown and the daemon, so the invariant is `Job(j)` of
each job beside `Gate`. Its core is who owns the container at what time: `Written` (a result
means an ended command line, which means a container that is gone), `Outlived` (a command line
that outlives its worker has its container, because SIGTERM ends one that has none; a worker
killed from outside is excepted), and `Absent` (what an answering daemon did not find after the
worker's death never appears). `Counted` bounds the interruptions that `NothingLeft` speaks of,
and `Leader` says that only a second interruption leaves a dying worker behind.

**The intake.** `PublishByRenameProofs` proves `IntakeWhole`. The documents a call reads may come
from different releases (`Origins`); at the end of its checks they agree with the policy it
loaded and with one another (`Checked`), and nothing that it stages later depends on the source
(`Call`). `OfOneRelease` is the argument: the policy approves identity, review and manifest of
one release together, and the manifest names the archive by the digest of its model.
`Published` says that one call at most has renamed its directory and that it is whole.

**The local release.** `PublishInPlaceProofs` proves `BundleStays` and `ImageIsPinned`. A
bundle's directory may be made by a rebind, file by file, or by an export's rename, and both
may fail, be killed or undo at any step. The invariant follows who owns it: `OneMaker` (one
rebind at a time makes the directory, and it exists as long), `OneOwner` (a directory holds
files of one call; a rebind that lost its directory finds an export's whole bundle in its
place), `Kept` (unless an export took the place of an empty directory, what a rebind made is
its own until it takes it back, and what was returned stays), `Recorded` and `Bound` (a record
tells of which sources its image is, and a rebind goes on with what was recorded and what the
bundle pins). One lemma per part goes through all actions.

**The history of releases.** `OutputProofs` proves `VerifiedChain`. Commits are only
appended (`AppendKeeps`), so a fact about three commits stays; most of what the tool checks
it reads from the working tree, and `ChainOf` says what follows of the commits.
`GeneratedVerifies` is the converse: between `create` and the commit of its two files nothing
but they have changed, so the tool accepts what it generated.

**The frames of a video.** `InferenceProofs` proves `DetectorOrdered` and `ReceiptAgrees` for
every clip, rate and unit. What is subtle is arithmetic: the worker, the host and the
conversion round, divide and clip with code of their own (`HostRounds`, `HostCount`,
`HostCeil`, `HostProbes`, `HostLimits` say that the copies agree), the guards around the probed
interval outweigh the rounding of its ends (`ProbeCovers`), and a centre never rounds to the
end of its clip, while the time of a frame may (`RequestedIs`, `FrameTime`). `NearestIs` is
what `min` returns, by least elements. The invariant says what each stage has computed;
`DetectKeeps` is the heart of it: the frames in the order of their times, and the outputs of a
frame in theirs, are the outputs in their order, because the selection is monotone.

**The mapping.** `InferenceProofs` proves `HandsAssigned`: by cases over the usable slots, the
code's comparison of two sums with both thresholds is the reference's unique clearly best
assignment; and by an inductive invariant over the steps of a frame, `Counters`,
`CurrentFrame` and the recorded frames agree on what happened.

**The decoders.** `InferenceProofs` proves `BeamsAreBest` for every network, batch, width and
number of positions. `SortedIs` says that sorting puts each at its rank in a strict order, and
the order of strings is one (`BeforeIsTransitive`, `BeforeIsTotal`). What a token adds is
followed by one step: the probability of a string, defined by recursion over it, grows by the
token's logarithm (`ProbabilityMore`, from `SumsAgree`), and it stays well formed exactly
when the token is not banned (`WellFormedMore`: the code compares the last piece only, the
reference all pieces with one another). The heart is `CandidatesAre`: each row gives its
sample only its `BeamWidth` best tokens, and a token it does not give has that many
better ones in the same row; `Trimmed` concludes that the first `BeamWidth` of what is given
are those of all strings (`KeptAreBest`). `FinishedAreBest` is a sample that waits for the
others. That greedy decoding is the search with one beam is `NarrowRow`: the likeliest token,
unless it is banned, is possible if any is, and is then the only one accepted. `SearchInv`
says that the beams are possible, well-formed strings with their probabilities, no more than the
width, and that a sample with one beam has the greedy text while that is well formed, in
particular that its beam is alive while greedy decoding goes on (`NarrowNext`).

**The evidence.** `OutputProofs` proves `EvidenceTrue` for any number of samples, checkpoints and
scales and any predictions. `EvidenceInv` says what holds of the reports while they are
taken: their claims are those of their rows, the winners are the predictions of the decoder
report, and all name one state and one authority (`DecoderSound`, `CheckpointSound`,
`GuidanceSound`; one lemma per report). That the published numbers are then the truth is
arithmetic over sums: `AdderIs` and `AdderStep` unfold the community modules' sum by one element,
`SumOrder` says what changing terms does to it; `ScoreIsSolved` that the code's score of a
row is how much its predictions solve, `RecomputedIs` that what is published of a row is its
truth, and `PairedIs` that the paired counts say on how many samples one row solves more.
`WinnerIs` finds the first of the best, and `DonorsAre` shows that the
next sample in the circle is always another one, and another's to each.

**The text.** `OutputProofs` proves `TextFaithful` for every vocabulary that `from_bytes`
accepts and any number of tokens. There are two arguments. Bytes: the code tells a character by
ranges of its bytes, the reference by encoding the code point that their bits make;
`OneByte` to `FourBytes` show by arithmetic that they agree on every byte (overlong forms,
surrogates and what lies beyond U+10FFFF included), so both read the same characters
(`DecodedIs`). Tokens: the loop flushes bytes when it writes text, the reference decodes each
longest run of bytes at its first one. `TextInv` says that the pending bytes are the run at the
end of the visible tokens, that the prefix is eligible just while nothing else came before,
and that the output is the reference of all tokens but that run (`Follows`); `ByteFollows` and
`TextFollows` are its two steps, and `Ready` says what the flush makes of it. They rest on
what `FlattenSeq` does with one part more (`FlattenAppend`) and with empty parts
(`FlattenRest`), and on `PieceKinds`, what an accepted vocabulary says of an identifier.

Only model-checked: all liveness (`CallsReturn`, `CloseEnds`, `RequestsEnd`, `ServiceEnds`,
`WorkersComeBack`, `RecoveryCompletes`, `CallsEnd`, `ShutdownCompletes`), because fairness and
ENABLED are beyond the prover, and the three violations. `SearchInv` holds
infinite sets of strings, which TLC cannot enumerate; TLC checks `BeamsAreBest` itself. The library's induction theorems take operators, which the prover cannot
instantiate; where a proof needs induction, the statement is a set, of numbers (`Naturals`)
or of subsets of a finite set (`Subsets`), and the proof takes a least counterexample, the
minimum of a well-founded relation (`SmallestOf`).

## 7. Not modelled

*Bundle verification and candidate runtimes.* Each process verifies its bundle, loads
tensors and calls `serve_worker`, which is the child in `WarmWorker`; what comes before is
reading and native code in one thread. *The baseline runtime*: a candidate kept for
comparison that the service does not call, over third-party networks.

Parts of modelled components: the starts without `--recover-after-reboot`, journals of
other hosts, and version 1 journals on macOS; the probe job's process and the command line
front end of the S1 backend; the networks, the landmark detector, ffmpeg and the digests of
tensors; the least-squares geometry of the mapping; the field by field validation of the
release documents and the canonical JSON encoding; the release tools that copy or pack one
directory in one process. A worker killed from outside, whose docker command may create a
container after the cleanup, is in `ReferenceBackend`, and `NothingLeft` excludes it: the
code does not handle it.
