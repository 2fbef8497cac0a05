---------------------------- MODULE MCKnowledgeBase ----------------------------
(* Instances of KnowledgeBase and ReadTools for TLC. *)
EXTENDS ReadTools

CONSTANTS n1, n2
MCLimits == {-1, 1}
Packet(from, to, t, kind) ==
    [from |-> from, to |-> to, ts |-> t, kind |-> kind, text |-> 0]

\* A text, a NODEINFO of the same node that was sent before it, a packet of
\* another node, one that cannot be read and has no sender.
MCPackets ==
    {Packet(n1, n2, 2, "text"), Packet(n1, NoNode, 1, "name"),
     Packet(n2, n1, 2, "other"), Packet(NoNode, NoNode, 1, "opaque")}
=============================================================================
