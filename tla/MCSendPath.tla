------------------------------ MODULE MCSendPath ------------------------------
(* Instances of SendPath for TLC: the channels of small radios. *)
EXTENDS SendPath

Channel(i, n) == [index |-> i, name |-> n, primary |-> FALSE]
PrimaryAt(i, n) == [index |-> i, name |-> n, primary |-> TRUE]

\* An unnamed primary; the same channels in another order, one of them in two
\* slots; a primary that has a name of its own.
MCTable == <<PrimaryAt(0, ""), Channel(1, "secure")>>
MCReordered == <<PrimaryAt(0, ""), Channel(1, "ops"), Channel(2, "secure"),
                 Channel(3, "secure")>>
MCNamed == <<PrimaryAt(0, "ops"), Channel(1, "secure")>>

MCTables == {MCTable, MCReordered, MCNamed}
MCOneTable == {MCTable}

Names(ns) == [all |-> FALSE, names |-> ns, indices |-> {}]
MCAll == [all |-> TRUE, names |-> {}, indices |-> {}]
MCSidecar == Names({"secure"})
MCToolSpecs ==
    {NoSpec, MCAll, Names({"secure"}), Names({"Primary"}),
     [all |-> FALSE, names |-> {"Primary"}, indices |-> {2}]}
MCIndices == -1..2
MCWildcard == {MCAll}
=============================================================================
