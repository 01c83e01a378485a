----------------------------- MODULE Ownership -----------------------------
(***************************************************************************)
(* What the lease store and the session servers promise together about one *)
(* session, whatever gateways, crashes and races there are: ownership goes *)
(* through numbered epochs, only the current epoch's holder writes the     *)
(* session's state, and an ended session stays ended.                      *)
(***************************************************************************)
EXTENDS Naturals

CONSTANTS Gateways, Nobody

VARIABLES
    epoch,    \* the number of grants so far
    holder,   \* the gateway holding the current epoch, or Nobody
    writer,   \* the epoch whose holder wrote the session's state last
    ended     \* the session is over

vars == <<epoch, holder, writer, ended>>

Init == epoch = 0 /\ holder = Nobody /\ writer = 0 /\ ended = FALSE

(* A new epoch begins, possibly taking the session from a live holder.     *)
Begin(g) ==
    /\ ~ended
    /\ epoch' = epoch + 1 /\ holder' = g
    /\ UNCHANGED <<writer, ended>>

(* The current holder writes.                                              *)
Write ==
    /\ ~ended /\ holder # Nobody
    /\ writer' = epoch
    /\ UNCHANGED <<epoch, holder, ended>>

(* The current holder hands the session back, to be begun by another.      *)
Free ==
    /\ ~ended /\ holder # Nobody
    /\ holder' = Nobody
    /\ UNCHANGED <<epoch, writer, ended>>

(* The current holder ends the session.                                    *)
End ==
    /\ ~ended /\ holder # Nobody
    /\ ended' = TRUE /\ holder' = Nobody
    /\ UNCHANGED <<epoch, writer>>

Next == Write \/ Free \/ End \/ \E g \in Gateways : Begin(g)

Spec == Init /\ [][Next]_vars
=============================================================================
