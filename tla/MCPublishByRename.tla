-------------------------- MODULE MCPublishByRename --------------------------
(* The two components that publish a finished directory by a rename that     *)
(* replaces nothing, for TLC: an extraction's sample (Extraction) and a      *)
(* public release (PublicIntake).  They share no state, so a behaviour is    *)
(* one of either component: `part` says which, and the calls of the other    *)
(* are never made.  Calls of a kind are interchangeable.                     *)
EXTENDS Extraction, PublicIntake, TLC
CONSTANT Clip

\* A request resumes or loads a clip, or extracts the whole video; the two
\* calls make them in every combination.
SomeRequests == {[kind |-> "resume",  clip |-> Clip,  expect |-> None],
                 [kind |-> "load",    clip |-> Clip,  expect |-> None],
                 [kind |-> "extract", clip |-> Whole, expect |-> 0]}

\* A public release: its review (with a rights review of its own), its model.
PublicRelease(review, model) ==
  LET identity == [review |-> [n |-> review]]
  IN  [identity |-> identity, review |-> [n |-> review],
       portable |-> [model |-> model, identity |-> identity, review |-> [n |-> review]],
       manifest |-> [identity |-> identity, review |-> [n |-> review], model |-> model]]
\* Two releases of one review and one of another.
SomeReleases == {PublicRelease(1, 1), PublicRelease(1, 2), PublicRelease(2, 3)}

VARIABLE part

EitherInit ==
  /\ Init /\ IntakeInit
  /\ \/ part = "extraction" /\ source = PublicRelease(1, 1) /\ policy = Approved(source)
     \/ part = "intake" /\ asked = [c \in Calls |-> [kind |-> "load", clip |-> Clip, expect |-> None]]

Extract == part = "extraction" /\ Next /\ UNCHANGED <<part, intakeVars>>
TakeIn == part = "intake" /\ IntakeNext /\ UNCHANGED <<part, vars>>

EitherNext == Extract \/ TakeIn

EitherSpec == EitherInit /\ [][EitherNext]_<<part, vars, intakeVars>>

CallSymmetry == Permutations(Calls) \cup Permutations(Intakes)
=============================================================================
