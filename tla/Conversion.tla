----------------------------- MODULE Conversion -----------------------------
(* Conversions of extractions to one motion artifact                        *)
(* (holistic_motion.py, motion_artifact.py): each call reads the pair of    *)
(* files it was told to convert, computes the artifact and publishes it     *)
(* under one name: it creates the file, or accepts the file that is there   *)
(* if it holds exactly the same bytes.  Calls overlap, may fail at every    *)
(* system call, be killed, or lose power; an operator may delete a file     *)
(* that is not whole, which is the only way out once one is left behind.    *)
EXTENDS Naturals, FiniteSets
CONSTANTS
  Conversions,  \* calls; a call also names the inode it creates
  Payloads,     \* artifacts: one for each extraction, converting is deterministic
  None,
  MaxKill, MaxBoot

ASSUME NoneIsNoValue == None \notin Conversions \cup Payloads

VARIABLES
  wants,    \* the artifact that each call's expected digests lead to
  pc, served,
  saw,      \* the inode that a call which found the name taken has read
  pair,     \* the artifact that the extraction directory's files lead to
  text,     \* the contents of each inode: "none", "partial" or "whole"
  flushed,  \* the inodes whose contents are on the disk
  name,     \* the inode that the output's name shows
  dname,    \* ... and on the disk
  kills, boots,
  misled    \* history: an unlink may meet a file that its call did not look at

files == <<pair, text, flushed, name, dname>>
vars == <<wants, pc, served, saw, files, kills, boots, misled>>

Creating == {"created", "written", "flushed", "checked"}
Live == {"idle", "read", "exists", "compared", "named", "undo", "unlinking"} \cup Creating
Ended == {"returned", "accepted", "failed"}

Init ==
  /\ wants \in [Conversions -> Payloads]
  /\ pc = [c \in Conversions |-> "idle"]
  /\ served = {}
  /\ saw = [c \in Conversions |-> None]
  /\ pair \in Payloads
  /\ text = [c \in Conversions |-> "none"]
  /\ flushed = {}
  /\ name = None /\ dname = None
  /\ kills = 0 /\ boots = 0 /\ misled = FALSE

Goes(c, from, to) == pc[c] = from /\ pc' = [pc EXCEPT ![c] = to]

\* What a reader of the name finds: bytes are compared with the caller's.
Artifact == IF name = None THEN None
            ELSE IF text[name] = "whole" THEN wants[name] ELSE None

-----------------------------------------------------------------------------
\* The pair is read and its digests, receipt and arrays are checked.
ReadPair(c) ==
  /\ IF pair = wants[c] THEN Goes(c, "idle", "read") ELSE Goes(c, "idle", "failed")
  /\ UNCHANGED <<wants, served, saw, files, kills, boots, misled>>

\* open with O_CREAT and O_EXCL.
Create(c) ==
  /\ IF name = None
       THEN /\ Goes(c, "read", "created")
            /\ name' = c
            /\ text' = [text EXCEPT ![c] = "partial"]
       ELSE Goes(c, "read", "exists") /\ UNCHANGED <<name, text>>
  /\ UNCHANGED <<wants, served, saw, pair, flushed, dname, kills, boots, misled>>

Write(c) ==
  /\ Goes(c, "created", "written")
  /\ text' = [text EXCEPT ![c] = "whole"]
  /\ UNCHANGED <<wants, served, saw, pair, flushed, name, dname, kills, boots, misled>>

Flush(c) ==
  /\ Goes(c, "written", "flushed")
  /\ flushed' = flushed \cup {c}
  /\ UNCHANGED <<wants, served, saw, pair, text, name, dname, kills, boots, misled>>

\* The name must still show the created inode; otherwise the file is closed
\* and taken back.
CheckName(c) ==
  /\ IF name = c THEN Goes(c, "flushed", "checked") ELSE Goes(c, "flushed", "undo")
  /\ UNCHANGED <<wants, served, saw, files, kills, boots, misled>>

\* fsync of the directory, which writes back whatever the name shows.
FlushName(c) ==
  /\ Goes(c, "checked", "named")
  /\ dname' = name
  /\ UNCHANGED <<wants, served, saw, pair, text, flushed, name, kills, boots, misled>>

\* The directory's identity is checked and the evidence is returned.
Return(c) ==
  /\ Goes(c, "named", "returned")
  /\ served' = served \cup {wants[c]}
  /\ UNCHANGED <<wants, saw, files, kills, boots, misled>>

\* A system call fails or an exception arrives: a creator closes its file and
\* takes it back, unless the directory was already synced; the others, and one
\* that is taking its file back, just end.
Fail(c) ==
  /\ pc[c] \in Live
  /\ pc' = [pc EXCEPT ![c] = IF pc[c] \in Creating THEN "undo" ELSE "failed"]
  /\ saw' = [saw EXCEPT ![c] = None]
  /\ UNCHANGED <<wants, served, files, kills, boots, misled>>

\* (faulty) the name is not looked at
LookSkipped(c) ==
  /\ Goes(c, "undo", "unlinking")
  /\ UNCHANGED <<wants, served, saw, files, kills, boots, misled>>

\* _remove_created_output, stat: the name must show the created inode.
Look(c) ==
  /\ IF name = c THEN Goes(c, "undo", "unlinking") ELSE Goes(c, "undo", "failed")
  /\ UNCHANGED <<wants, served, saw, files, kills, boots, misled>>

\* ... or a file of the same number: the number of a file that was deleted and
\* closed is free for the next one (taken as possible of any other file).
LookAtNumber(c) ==
  /\ name \notin {None, c}
  /\ Goes(c, "undo", "unlinking") /\ misled' = TRUE
  /\ UNCHANGED <<wants, served, saw, files, kills, boots>>

\* _remove_created_output, unlink: of whatever the name shows by then.
Unlink(c) ==
  /\ Goes(c, "unlinking", "failed")
  /\ name' = None
  /\ UNCHANGED <<wants, served, saw, pair, text, flushed, dname, kills, boots, misled>>

\* _read_existing_output: the name is opened, the size and every byte are as
\* expected.
Compare(c) ==
  /\ IF name # None /\ Artifact = wants[c]
       THEN Goes(c, "exists", "compared") /\ saw' = [saw EXCEPT ![c] = name]
       ELSE Goes(c, "exists", "failed") /\ UNCHANGED saw
  /\ UNCHANGED <<wants, served, files, kills, boots, misled>>

\* ... and the name still shows the inode that was read.
Accept(c) ==
  /\ IF name = saw[c]
       THEN Goes(c, "compared", "accepted") /\ served' = served \cup {wants[c]}
       ELSE Goes(c, "compared", "failed") /\ UNCHANGED served
  /\ saw' = [saw EXCEPT ![c] = None]
  /\ UNCHANGED <<wants, files, kills, boots, misled>>

-----------------------------------------------------------------------------
\* Another extraction of the sample takes the place of the first.
Reextract ==
  /\ pair' \in Payloads
  /\ UNCHANGED <<wants, pc, served, saw, text, flushed, name, dname, kills, boots, misled>>

Kill(c) ==
  /\ kills < MaxKill /\ kills' = kills + 1
  /\ pc[c] \in Live /\ pc' = [pc EXCEPT ![c] = "failed"]
  /\ saw' = [saw EXCEPT ![c] = None]
  /\ UNCHANGED <<wants, served, files, boots, misled>>

\* The file may be one whose creator is still at work.
OperatorRemoves ==
  /\ name # None /\ Artifact = None
  /\ name' = None
  /\ misled' = (misled \/ pc[name] = "unlinking")
  /\ UNCHANGED <<wants, pc, served, saw, pair, text, flushed, dname, kills, boots>>

WriteBackName ==
  /\ dname' = name
  /\ UNCHANGED <<wants, pc, served, saw, pair, text, flushed, name, kills, boots, misled>>

WriteBackText(c) ==
  /\ text[c] = "whole" /\ flushed' = flushed \cup {c}
  /\ UNCHANGED <<wants, pc, served, saw, pair, text, name, dname, kills, boots, misled>>

PowerLoss ==
  /\ boots < MaxBoot /\ boots' = boots + 1
  /\ name' = dname
  /\ text' = [c \in Conversions |-> IF text[c] = "whole" /\ c \notin flushed THEN "partial" ELSE text[c]]
  /\ pc' = [c \in Conversions |-> IF pc[c] \in Live \ {"idle"} THEN "failed" ELSE pc[c]]
  /\ saw' = [c \in Conversions |-> None]
  /\ UNCHANGED <<wants, served, pair, flushed, dname, kills, misled>>

ConversionStep(c) ==
  \/ ReadPair(c) \/ Create(c) \/ Write(c) \/ Flush(c) \/ CheckName(c) \/ FlushName(c)
  \/ Return(c) \/ Fail(c) \/ Look(c) \/ LookAtNumber(c) \/ Unlink(c)
  \/ Compare(c) \/ Accept(c) \/ Kill(c) \/ WriteBackText(c)

Next == \/ \E c \in Conversions : ConversionStep(c)
        \/ Reextract \/ OperatorRemoves \/ WriteBackName \/ PowerLoss

Spec == Init /\ [][Next]_vars

-----------------------------------------------------------------------------
(* Properties *)

(* The variables have their types. *)
ConversionTypeOK ==
  /\ wants \in [Conversions -> Payloads] /\ pair \in Payloads
  /\ pc \in [Conversions -> Live \cup Ended]
  /\ served \subseteq Payloads /\ saw \in [Conversions -> Conversions \cup {None}]
  /\ text \in [Conversions -> {"none", "partial", "whole"}]
  /\ flushed \subseteq Conversions
  /\ {name, dname} \subseteq Conversions \cup {None}
  /\ misled \in BOOLEAN

Confirmed == \E c \in Conversions : pc[c] = "returned"
Register == INSTANCE WriteOnce WITH value <- Artifact, settled <- Confirmed

(* The artifact's name is a register that settles (holistic_motion.py:725,  *)
(* "Create once, or accept only exact deterministic prior publication"):    *)
(* a call is served only what the name shows whole, an unfinished file is   *)
(* never accepted, a failed creator takes back no other's file, and what    *)
(* its creator returned stays, through a power loss too.  That is so until  *)
(* an operator deletes the file of a creator that is still at work, and     *)
(* either does it between that call's look at the name and its unlink, or   *)
(* the number of the deleted file is given to the next one before the look. *)
ArtifactSettles == Register!Init /\ [][misled \/ Register!Next]_Register!wvars
=============================================================================
