-------------------------- MODULE MCPublishInPlace --------------------------
(* The two components that fill what they publish under its own name and     *)
(* take it back when they fail, for TLC: the motion artifact (Conversion)    *)
(* and the bundle of a local release (LocalRelease).  They share no state,   *)
(* so a behaviour is one of either component: `part` says which, and the     *)
(* calls of the other are never made.  Calls of a kind, and the artifacts    *)
(* that conversions make, are interchangeable.                               *)
EXTENDS Conversion, LocalRelease, TLC

VARIABLE part

NoConversion ==
  /\ wants = [c \in Conversions |-> None] /\ pair = None
  /\ pc = [c \in Conversions |-> "idle"] /\ served = {}
  /\ saw = [c \in Conversions |-> None] /\ text = [c \in Conversions |-> "none"]
  /\ flushed = {} /\ name = None /\ dname = None /\ kills = 0 /\ boots = 0
  /\ misled = FALSE

EitherInit == /\ ReleaseInit
              /\ \/ part = "conversion" /\ Init
                 \/ part = "bundle" /\ NoConversion

Convert == part = "conversion" /\ Next /\ UNCHANGED <<part, releaseVars>>
Release == part = "bundle" /\ ReleaseNext /\ UNCHANGED <<part, vars>>

EitherNext == Convert \/ Release

EitherSpec == EitherInit /\ [][EitherNext]_<<part, vars, releaseVars>>

CallSymmetry == Permutations(Conversions) \cup Permutations(Payloads)
                \cup Permutations(Builds) \cup Permutations(Rebinds)
=============================================================================
