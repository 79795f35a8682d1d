----------------------------- MODULE Extraction -----------------------------
(* Extractions of one sample into one output root: the host side            *)
(* (amd64_holistic_container.py) and the worker in its container            *)
(* (docker/mediapipe-holistic/worker.amd64.py).                             *)
(*                                                                          *)
(* Each call gives its container a mount of its own, below the output root. *)
(* The worker publishes into the mount, the host validates what is there    *)
(* and moves it to the sample's name, replacing nothing.  Calls overlap;    *)
(* the host process may be killed or interrupted, its docker command may    *)
(* time out or lose the daemon while the container works on, the video may  *)
(* be rewritten or replaced, and the power may fail.                        *)
EXTENDS Naturals, FiniteSets
CONSTANTS
  Calls,      \* calls of extract_holistic_in_container and load_existing
  Requests,   \* what they may ask for
  None,       \* no value; also: no digest expected of the video
  Whole,      \* the clip of _umi_whole_video: bounds are the worker's to say
  MaxChange,  \* rewrites and replacements of the video
  MaxFault    \* kills and interruptions of host processes, docker clients
              \* that lose the daemon, and power losses, together

Kinds == {"extract", "resume", "load"}
ASSUME RequestsAreRequests ==
  \A q \in Requests : q.kind \in Kinds /\ q.expect \in {None} \cup (0..MaxChange)

VARIABLES
  asked,    \* the request of each call
  pc,       \* where each call is
  pin,      \* the digest of the video it started from
  mount,    \* its mount: "none", "open" or "removed"
  out,      \* what the worker published there
  work,     \* its container and the worker in it
  bound,    \* the inode that container's mount shows as the video
  seen,     \* the digest the worker took of it
  took,     \* the contents its frames were decoded from
  res,      \* the result each call returned
  path,     \* the inode that the video's path names
  content,  \* the version of the bytes in each inode
  sample,   \* what the sample's name shows
  dsample,  \* ... and what is on the disk
  kills, cuts, boots

call == <<asked, pc, pin, mount, res>>
worker == <<out, work, bound, seen, took>>
input == <<path, content>>
disk == <<sample, dsample>>
faults == <<kills, cuts, boots>>
vars == <<call, worker, input, disk, faults>>

Host == {"idle", "pinned", "ready", "running", "broken", "ended", "checked",
         "valid", "moved", "synced", "cleanup", "verify"}
\* A call that is "abandoned" left its mount to a container it could not remove;
\* one that is "uncleared" says that it could not remove the mount.
Ended == {"returned", "failed", "abandoned", "uncleared", "dead"}
Working == {"created", "opened", "decoded", "verified", "raw", "receipt", "final"}
Inodes == 0..MaxChange
Empty == [raw |-> "absent", receipt |-> "absent", final |-> FALSE]
Artifacts == [video : Inodes, frames : Inodes, clip : {q.clip : q \in Requests},
              raw : {"absent", "dirty", "synced"}, receipt : {"absent", "dirty", "synced"}]
ASSUME NoneIsNoValue == None \notin Inodes \cup Artifacts
ASSUME MaxChangeIsNatural == MaxChange \in Nat

Alive(c) == work[c] \in Working
\* The newest version of the video: every change makes a new one.
Newest == CHOOSE v \in {content[i] : i \in Inodes} : \A i \in Inodes : content[i] <= v
\* What a published sample holds: which bytes it says it is of, which it was
\* decoded from, its clip, and its two files.
Artifact(c) == [video |-> seen[c], frames |-> took[c], clip |-> asked[c].clip,
                raw |-> out[c].raw, receipt |-> out[c].receipt]
IsWhole(a) == a.raw # "absent" /\ a.receipt # "absent"
\* _validate_outputs: both files, and a receipt of this video and this clip.
Accepts(c, a) == IsWhole(a) /\ a.video = pin[c] /\ a.clip = asked[c].clip

Init ==
  /\ asked \in [Calls -> Requests]
  /\ pc = [c \in Calls |-> "idle"]
  /\ pin = [c \in Calls |-> None]
  /\ mount = [c \in Calls |-> "none"]
  /\ out = [c \in Calls |-> Empty]
  /\ work = [c \in Calls |-> "none"]
  /\ bound = [c \in Calls |-> None]
  /\ seen = [c \in Calls |-> None]
  /\ took = [c \in Calls |-> None]
  /\ res = [c \in Calls |-> None]
  /\ path = 0
  /\ content = [i \in Inodes |-> 0]
  /\ sample = None /\ dsample = None
  /\ kills = 0 /\ cuts = 0 /\ boots = 0

Bounded == kills' + cuts' + boots' <= MaxFault
Goes(c, from, to) == pc[c] = from /\ pc' = [pc EXCEPT ![c] = to]
Returns(c, a) == res' = [res EXCEPT ![c] = a]

-----------------------------------------------------------------------------
(* The host process *)

\* The whole-video mode does not resume; the video's digest is the expected one.
Valid(c) == /\ ~(asked[c].clip = Whole /\ asked[c].kind # "extract")
            /\ asked[c].expect \in {None, content[path]}

\* The arguments are checked and the inputs hashed.
Validate(c) ==
  /\ Valid(c)
  /\ Goes(c, "idle", "pinned")
  /\ pin' = [pin EXCEPT ![c] = content[path]]
  /\ UNCHANGED <<asked, mount, res, worker, input, disk, faults>>

\* An extraction is create-once; a resumed one reads what exists; a load
\* reads only.
Prepare(c) ==
  /\ IF sample # None
       THEN asked[c].kind \in {"resume", "load"} /\ Goes(c, "pinned", "verify") /\ UNCHANGED mount
       ELSE /\ asked[c].kind \in {"extract", "resume"}
            /\ Goes(c, "pinned", "ready")
            /\ mount' = [mount EXCEPT ![c] = "open"]
  /\ UNCHANGED <<asked, pin, res, worker, input, disk, faults>>

\* A check before the mount exists refuses: arguments, inputs, output root,
\* an existing sample, an image that is missing or not the pinned one.
Refuse(c) ==
  /\ \/ ~Valid(c) /\ Goes(c, "idle", "failed")
     \/ Goes(c, "pinned", "failed")
  /\ UNCHANGED <<asked, pin, mount, res, worker, input, disk, faults>>

\* `docker run`: the mount shows the inode that the path names now.
Launch(c) ==
  /\ Goes(c, "ready", "running")
  /\ work' = [work EXCEPT ![c] = "created"]
  /\ bound' = [bound EXCEPT ![c] = path]
  /\ UNCHANGED <<asked, pin, mount, res, out, seen, took, input, disk, faults>>

LaunchFails(c) ==
  /\ Goes(c, "ready", "broken")
  /\ UNCHANGED <<asked, pin, mount, res, worker, input, disk, faults>>

\* The command reports the status of a container that is gone.
CommandExits(c) ==
  /\ \/ work[c] = "exited" /\ Goes(c, "running", "ended")
     \/ work[c] = "failed" /\ Goes(c, "running", "cleanup")
  /\ UNCHANGED <<asked, pin, mount, res, worker, input, disk, faults>>

\* It lost the daemon and reports a status of its own: the code takes every
\* status for the end of the container.
CommandCut(c) ==
  /\ Alive(c)
  /\ Goes(c, "running", "cleanup")
  /\ cuts' = cuts + 1 /\ UNCHANGED <<kills, boots>> /\ Bounded
  /\ UNCHANGED <<asked, pin, mount, res, worker, input, disk>>

\* _BoundedCommandFailure: a timeout, or too much output.
CommandBreaks(c) ==
  /\ Goes(c, "running", "broken")
  /\ UNCHANGED <<asked, pin, mount, res, worker, input, disk, faults>>

\* (faulty) the mount goes whether or not the removal was confirmed
RemoveContainerHopeful(c) ==
  /\ \E w \in {work[c], "gone"} : work' = [work EXCEPT ![c] = w]
  /\ Goes(c, "broken", "cleanup")
  /\ UNCHANGED <<asked, pin, mount, res, out, bound, seen, took, input, disk, faults>>

\* `container rm --force`: the mount goes only if the removal is confirmed.
RemoveContainer(c) ==
  /\ \/ /\ work' = [work EXCEPT ![c] = "gone"]
        /\ Goes(c, "broken", "cleanup")
     \/ /\ \E w \in {work[c], "gone"} : work' = [work EXCEPT ![c] = w]
        /\ Goes(c, "broken", "abandoned")
  /\ UNCHANGED <<asked, pin, mount, res, out, bound, seen, took, input, disk, faults>>

\* _remove_isolated_output_mount, and the error; or the removal fails and its
\* error takes the place of the first.
RemoveMount(c) ==
  /\ \/ Goes(c, "cleanup", "failed") /\ mount' = [mount EXCEPT ![c] = "removed"]
     \/ Goes(c, "cleanup", "uncleared") /\ UNCHANGED mount
  /\ UNCHANGED <<asked, pin, res, worker, input, disk, faults>>

\* The inputs are hashed again, by their paths.
Rehash(c) ==
  /\ IF content[path] = pin[c] THEN Goes(c, "ended", "checked") ELSE Goes(c, "ended", "cleanup")
  /\ UNCHANGED <<asked, pin, mount, res, worker, input, disk, faults>>

ValidateOutput(c) ==
  /\ IF out[c].final /\ Accepts(c, Artifact(c))
       THEN Goes(c, "checked", "valid")
       ELSE Goes(c, "checked", "cleanup")
  /\ UNCHANGED <<asked, pin, mount, res, worker, input, disk, faults>>

\* renameat2 with RENAME_NOREPLACE from the mount to the sample's name.
Publish(c) ==
  /\ IF sample = None
       THEN Goes(c, "valid", "moved") /\ sample' = Artifact(c)
       ELSE Goes(c, "valid", "cleanup") /\ UNCHANGED sample
  /\ UNCHANGED <<asked, pin, mount, res, worker, input, dsample, faults>>

\* (faulty) without fsync(output_root)
SyncRootSkipped(c) ==
  /\ Goes(c, "moved", "synced")
  /\ UNCHANGED <<asked, pin, mount, res, worker, input, disk, faults>>

SyncRoot(c) ==
  /\ Goes(c, "moved", "synced")
  /\ dsample' = sample
  /\ UNCHANGED <<asked, pin, mount, res, worker, input, sample, faults>>

SyncFails(c) ==
  /\ Goes(c, "moved", "cleanup")
  /\ UNCHANGED <<asked, pin, mount, res, worker, input, disk, faults>>

\* The mount is removed, the published files are hashed once more.
Finish(c) ==
  /\ IF sample = Artifact(c)
       THEN Goes(c, "synced", "returned") /\ Returns(c, sample)
       ELSE Goes(c, "synced", "failed") /\ UNCHANGED res
  /\ mount' = [mount EXCEPT ![c] = "removed"]
  /\ UNCHANGED <<asked, pin, worker, input, disk, faults>>

\* A resumed or loading call validates the sample that exists.
Verify(c) ==
  /\ pc[c] = "verify"
  /\ IF Accepts(c, sample)
       THEN Goes(c, "verify", "returned") /\ Returns(c, sample)
       ELSE Goes(c, "verify", "failed") /\ UNCHANGED res
  /\ UNCHANGED <<asked, pin, mount, worker, input, disk, faults>>

\* An exception such as KeyboardInterrupt.  Until the command has ended it
\* leaves the mount and the container; after that the handler removes the
\* mount.
Interrupt(c) ==
  /\ kills' = kills + 1 /\ UNCHANGED <<cuts, boots>> /\ Bounded
  /\ \/ pc[c] \in {"ended", "checked", "valid", "moved", "synced"} /\ pc' = [pc EXCEPT ![c] = "cleanup"]
     \/ pc[c] \in {"idle", "pinned", "ready", "running", "broken", "cleanup", "verify"}
        /\ pc' = [pc EXCEPT ![c] = "failed"]
  /\ UNCHANGED <<asked, pin, mount, res, worker, input, disk>>

Kill(c) ==
  /\ kills' = kills + 1 /\ UNCHANGED <<cuts, boots>> /\ Bounded
  /\ pc[c] \in Host /\ pc' = [pc EXCEPT ![c] = "dead"]
  /\ UNCHANGED <<asked, pin, mount, res, worker, input, disk>>

-----------------------------------------------------------------------------
(* The worker in its container *)

Steps(c, from, to) == work[c] = from /\ work' = [work EXCEPT ![c] = to]

\* The mounted video is opened and hashed, and compared with the expectation.
Open(c) ==
  /\ work[c] = "created"
  /\ IF content[bound[c]] = pin[c] THEN Steps(c, "created", "opened") ELSE Steps(c, "created", "failed")
  /\ seen' = [seen EXCEPT ![c] = content[bound[c]]]
  /\ UNCHANGED <<call, out, bound, took, input, disk, faults>>

\* Probing, frame selection, decoding and landmarks.
Decode(c) ==
  /\ Steps(c, "opened", "decoded")
  /\ took' = [took EXCEPT ![c] = content[bound[c]]]
  /\ UNCHANGED <<call, out, bound, seen, input, disk, faults>>

\* The input is hashed once more after the last read.
VerifyInput(c) ==
  /\ work[c] = "decoded"
  /\ IF content[bound[c]] = seen[c] THEN Steps(c, "decoded", "verified") ELSE Steps(c, "decoded", "failed")
  /\ UNCHANGED <<call, out, bound, seen, took, input, disk, faults>>

\* Each file is created in the stage, written and synced.
WriteRaw(c) ==
  /\ mount[c] = "open" /\ Steps(c, "verified", "raw")
  /\ out' = [out EXCEPT ![c].raw = "synced"]
  /\ UNCHANGED <<call, bound, seen, took, input, disk, faults>>

\* (faulty) without fsync of the file
WriteReceiptUnsynced(c) ==
  /\ mount[c] = "open" /\ Steps(c, "raw", "receipt")
  /\ out' = [out EXCEPT ![c].receipt = "dirty"]
  /\ UNCHANGED <<call, bound, seen, took, input, disk, faults>>

WriteReceipt(c) ==
  /\ mount[c] = "open" /\ Steps(c, "raw", "receipt")
  /\ out' = [out EXCEPT ![c].receipt = "synced"]
  /\ UNCHANGED <<call, bound, seen, took, input, disk, faults>>

\* The stage becomes the mount's sample directory.
MoveStage(c) ==
  /\ mount[c] = "open" /\ Steps(c, "receipt", "final")
  /\ out' = [out EXCEPT ![c].final = TRUE]
  /\ UNCHANGED <<call, bound, seen, took, input, disk, faults>>

\* The completion record is written, the worker exits.
Complete(c) ==
  /\ Steps(c, "final", "exited")
  /\ UNCHANGED <<call, out, bound, seen, took, input, disk, faults>>

WorkerFails(c) ==
  /\ Alive(c) /\ work' = [work EXCEPT ![c] = "failed"]
  /\ UNCHANGED <<call, out, bound, seen, took, input, disk, faults>>

-----------------------------------------------------------------------------
(* The world *)

\* Somebody writes new bytes into the video, or moves another file to its path.
Change ==
  /\ Newest < MaxChange
  /\ \/ content' = [content EXCEPT ![path] = Newest + 1] /\ UNCHANGED path
     \/ path' = path + 1 /\ content' = [content EXCEPT ![path + 1] = Newest + 1]
  /\ UNCHANGED <<call, worker, disk, faults>>

\* The kernel writes the output root back.
WriteBack ==
  /\ dsample' = sample
  /\ UNCHANGED <<call, worker, input, sample, faults>>

\* What was not synced is lost; no call and no container goes on.
Settled(a) == IF a = None THEN None
              ELSE [a EXCEPT !.raw = IF @ = "dirty" THEN "absent" ELSE @,
                             !.receipt = IF @ = "dirty" THEN "absent" ELSE @]
PowerLoss ==
  /\ boots' = boots + 1 /\ UNCHANGED <<kills, cuts>> /\ Bounded
  /\ sample' = Settled(dsample) /\ dsample' = Settled(dsample)
  /\ pc' = [c \in Calls |-> IF pc[c] \in Host \ {"idle"} THEN "dead" ELSE pc[c]]
  /\ work' = [c \in Calls |-> IF Alive(c) THEN "gone" ELSE work[c]]
  /\ UNCHANGED <<asked, pin, mount, res, out, bound, seen, took, input>>

HostStep(c) ==
  \/ Validate(c) \/ Prepare(c) \/ Refuse(c) \/ Launch(c) \/ LaunchFails(c)
  \/ CommandExits(c) \/ CommandCut(c) \/ CommandBreaks(c) \/ RemoveContainer(c)
  \/ RemoveMount(c) \/ Rehash(c) \/ ValidateOutput(c) \/ Publish(c)
  \/ SyncRoot(c) \/ SyncFails(c) \/ Finish(c) \/ Verify(c) \/ Interrupt(c) \/ Kill(c)
WorkerStep(c) ==
  \/ Open(c) \/ Decode(c) \/ VerifyInput(c) \/ WriteRaw(c) \/ WriteReceipt(c)
  \/ MoveStage(c) \/ Complete(c) \/ WorkerFails(c)

Next == \/ \E c \in Calls : HostStep(c) \/ WorkerStep(c)
        \/ Change \/ WriteBack \/ PowerLoss

Spec == Init /\ [][Next]_vars

-----------------------------------------------------------------------------
(* Properties *)

(* The variables have their types; what a name shows is a sample or nothing. *)
ExtractionTypeOK ==
  /\ asked \in [Calls -> Requests]
  /\ pc \in [Calls -> Host \cup Ended]
  /\ pin \in [Calls -> Inodes \cup {None}]
  /\ mount \in [Calls -> {"none", "open", "removed"}]
  /\ out \in [Calls -> [raw : {"absent", "dirty", "synced"},
                        receipt : {"absent", "dirty", "synced"}, final : BOOLEAN]]
  /\ work \in [Calls -> Working \cup {"none", "exited", "failed", "gone"}]
  /\ bound \in [Calls -> Inodes \cup {None}]
  /\ seen \in [Calls -> Inodes \cup {None}]
  /\ took \in [Calls -> Inodes \cup {None}]
  /\ res \in [Calls -> Artifacts \cup {None}]
  /\ path \in Inodes /\ content \in [Inodes -> Inodes]
  /\ sample \in Artifacts \cup {None} /\ dsample \in Artifacts \cup {None}

(* The sample's name never shows half a sample, not even after a power      *)
(* loss: both files were synced before the directory got its name.  A half  *)
(* sample would refuse every later extraction and every load for good.      *)
WholeOrAbsent == sample # None => IsWhole(sample)

(* A call returns only what was asked of it: both files, of the clip it     *)
(* named, with every frame decoded from the very bytes that were hashed     *)
(* when the call began, whoever ran the extraction and whatever happened to *)
(* the video meanwhile (extract_holistic_in_container, load_existing).      *)
ResultFaithful ==
  ExtractionTypeOK /\ WholeOrAbsent /\ \A c \in Calls : res[c] # None =>
    /\ IsWhole(res[c])
    /\ res[c].frames = pin[c]
    /\ res[c].clip = asked[c].clip

(* The fate of a mount.  A container that may still run keeps its mount,    *)
(* unless docker itself misreported its end; and a call that ends without   *)
(* being interrupted leaves no mount except under a container whose removal *)
(* it could not confirm (amd64_holistic_container.py:2097), or when it      *)
(* raises that the mount could not be removed.                              *)
MountFate ==
  \A c \in Calls :
    /\ (mount[c] = "removed" /\ cuts = 0) => ~Alive(c)
    /\ (pc[c] = "failed" /\ kills = 0 /\ cuts = 0) => mount[c] # "open"

\* The call that published has returned.
Confirmed == \E c \in Calls : pc[c] = "returned" /\ mount[c] = "removed"
Register == INSTANCE WriteOnce WITH
  value <- sample, settled <- Confirmed, served <- {res[c] : c \in Calls} \ {None}

(* The sample's name is a register that settles: once the call that         *)
(* published has returned, no other extraction, no worker and no power loss *)
(* changes what the name shows, and a call returns only what it shows.      *)
SampleSettles == Register!Spec
=============================================================================
