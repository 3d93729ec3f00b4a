---------------------------- MODULE SerialSteal -----------------------------
(***************************************************************************)
(* What a loader promises to conf->steal(): it is given the CUs of a file  *)
(* in file order, each once, until it says to stop or to abort.  The load  *)
(* may end early, when a CU cannot be decoded.                             *)
(***************************************************************************)
EXTENDS Integers, Sequences

CONSTANT NrCUs

VARIABLES
    stolen,     \* ids handed to conf->steal(), in order
    lsk_status  \* the verdict that ended the load, or "KEEPIT"

Init ==
    /\ stolen = <<>>
    /\ lsk_status = "KEEPIT"

steal ==
    /\ lsk_status = "KEEPIT"
    /\ Len(stolen) < NrCUs
    /\ stolen' = Append(stolen, Len(stolen))
    /\ lsk_status' \in {"KEEPIT", "STOP_LOADING", "ABORT"}

Spec == Init /\ [][steal]_<<stolen, lsk_status>>
=============================================================================
