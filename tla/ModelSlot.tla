------------------------------ MODULE ModelSlot ------------------------------
(***************************************************************************)
(* What a model slot promises to whoever owns it: the contract of          *)
(* WarmModelProcess, without its tasks, pipes and processes.  WarmWorker   *)
(* implements it; Sidecar relies on its moves for each of its workers.     *)
(***************************************************************************)
CONSTANT Calls

VARIABLES
  slot,    \* "cold": no child; "warm": a child attached, idle; "busy"
  closed,  \* the slot is closed: it never again does anything but reap
  won      \* the calls that succeeded

Init == slot = "cold" /\ closed = FALSE /\ won = {}

\* A call begins to use the slot; a closed one only to reap what it has.
Begins ==
  /\ slot \in {"cold", "warm"}
  /\ closed => slot = "warm"
  /\ slot' = "busy"
  /\ UNCHANGED closed

\* The slot has served and keeps its child.  A startup of a warm slot does
\* nothing else.
Warms ==
  /\ ~closed
  /\ slot \in {"busy", "warm"}
  /\ slot' = "warm"
  /\ UNCHANGED closed

\* A failure leaves no child, or closes the slot.
Fails ==
  /\ slot = "busy"
  /\ slot' \in {"cold", "warm"}
  /\ closed' \in {closed, TRUE}
  /\ slot' = "warm" => closed'

Closes == closed' = TRUE /\ UNCHANGED slot

\* close() reaps the child of a closed slot.
Reaps ==
  /\ closed
  /\ slot = "warm"
  /\ slot' = "cold"
  /\ UNCHANGED closed

\* The moves of a slot, whatever they mean for the calls.
Move == Begins \/ Warms \/ Fails \/ Closes \/ Reaps

\* A call succeeds exactly by leaving an open slot warm.
Succeeds(c) ==
  /\ c \notin won
  /\ Warms
  /\ won' = won \cup {c}

Next ==
  \/ \E c \in Calls : Succeeds(c)
  \/ (Begins \/ Fails \/ Closes \/ Reaps) /\ UNCHANGED won

Spec == Init /\ [][Next]_<<slot, closed, won>>
=============================================================================
