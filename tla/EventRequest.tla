----------------------------- MODULE EventRequest -----------------------------
(***************************************************************************)
(* What the tool meshtastic_meshagatchi_submit_event promises its caller   *)
(* about an event, whatever happens on the sockets in between: a result is *)
(* of an event the sidecar has, a refusal is for good, and everything else *)
(* leaves it open whether the sidecar has the event or is still to get it. *)
(***************************************************************************)
CONSTANT Requests

VARIABLES
    told,    \* what the caller of each request knows
    applied  \* the requests the sidecar has read

Init == told = [r \in Requests |-> "new"] /\ applied = {}

Ask(r) ==
    /\ told[r] = "new"
    /\ told' = [told EXCEPT ![r] = "asked"] /\ UNCHANGED applied

\* The sidecar reads an event that was asked for and not refused.
Apply(r) ==
    /\ told[r] \in {"asked", "unknown"}
    /\ applied' = applied \cup {r} /\ UNCHANGED told

Confirm(r) ==
    /\ told[r] = "asked" /\ r \in applied
    /\ told' = [told EXCEPT ![r] = "result"] /\ UNCHANGED applied

Deny(r) ==
    /\ told[r] = "asked" /\ r \notin applied
    /\ told' = [told EXCEPT ![r] = "refused"] /\ UNCHANGED applied

\* A timeout, a lost connection, a frame that is not the response.
GiveUp(r) ==
    /\ told[r] \in {"new", "asked"}
    /\ told' = [told EXCEPT ![r] = "unknown"] /\ UNCHANGED applied

Next == \E r \in Requests : Ask(r) \/ Apply(r) \/ Confirm(r) \/ Deny(r) \/ GiveUp(r)

Spec == Init /\ [][Next]_<<told, applied>>
=============================================================================
