------------------------------ MODULE NodeSlot ------------------------------
(***************************************************************************)
(* What the node asks of the plugin: it serves one TCP client at a time    *)
(* (docs/architecture.md, "the node itself accepts one TCP client").  A    *)
(* client is admitted only into an empty slot, may be lost, and has to be  *)
(* closed, lost or not, before the next one is admitted.                   *)
(***************************************************************************)
CONSTANT Ifaces

VARIABLES clients,  \* the interface that occupies the slot: a set of at most one
          live      \* those of them that have not been lost

Init == clients = {} /\ live = {}

Admit(i) == clients = {} /\ clients' = {i} /\ live' = {i}

Lose == live # {} /\ live' = {} /\ UNCHANGED clients

Release == clients # {} /\ clients' = {} /\ live' = {}

Next == Lose \/ Release \/ \E i \in Ifaces : Admit(i)

Spec == Init /\ [][Next]_<<clients, live>>
=============================================================================
