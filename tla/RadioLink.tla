------------------------------ MODULE RadioLink ------------------------------
(***************************************************************************)
(* The radio link as everybody but its manager sees it: at any moment      *)
(* there is one or there is none.  An attempt to open it first takes away  *)
(* the one there is, one attempt is under way at a time, and until it ends *)
(* there is no link; what is there may be lost.  ConnectionManager is      *)
(* shown to behave so, Gateway and SendPath are written against it.        *)
(***************************************************************************)
CONSTANTS Links, NoLink

VARIABLES iface,   \* the link in use
          opening  \* an attempt to open one is under way

Init == iface = NoLink /\ opening = FALSE

Open == ~opening /\ opening' = TRUE /\ iface' = NoLink

OpenEnds ==
    /\ opening /\ opening' = FALSE
    /\ iface = NoLink /\ iface' \in Links \cup {NoLink}

Drop == iface # NoLink /\ iface' = NoLink /\ UNCHANGED opening

Next == Open \/ OpenEnds \/ Drop

Spec == Init /\ [][Next]_<<iface, opening>>
=============================================================================
