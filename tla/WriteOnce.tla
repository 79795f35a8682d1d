----------------------------- MODULE WriteOnce -----------------------------
(* What the pipeline promises of a name it publishes under: a register that *)
(* settles.  Until a call that wrote a value has returned, failures may     *)
(* take the value back (a power loss, a writer that withdraws its own       *)
(* unfinished publication) or bring an earlier one back; from that return   *)
(* on nobody and nothing changes it.  Nobody is ever served anything but    *)
(* the register's value.                                                    *)
CONSTANT None
VARIABLES value, settled, served

wvars == <<value, settled, served>>

Init == value = None /\ settled = FALSE /\ served = {}

\* A value is written, withdrawn, lost, or comes back.
Change == /\ ~settled
          /\ value' # value
          /\ UNCHANGED <<settled, served>>

\* The call that wrote the value returns it.
Settle == /\ value # None
          /\ settled' = TRUE
          /\ served' = served \cup {value}
          /\ UNCHANGED value

\* A later call accepts the value.
Serve == /\ value # None
         /\ served' = served \cup {value}
         /\ UNCHANGED <<value, settled>>

Next == Change \/ Settle \/ Serve

Spec == Init /\ [][Next]_wvars
=============================================================================
