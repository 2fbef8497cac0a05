------------------------------ MODULE ReadTools ------------------------------
(***************************************************************************)
(* What the read tools hand to the model: the queries of knowledge.py, the *)
(* recent texts, the radio's node table, each behind the gates of          *)
(* privacy.py.  An answer is how many records it has and what they         *)
(* disclose; a query holds the process's lock throughout, so it is a       *)
(* function of the state.                                                  *)
(***************************************************************************)
EXTENDS KnowledgeBase, Integers

CONSTANTS Limits, Since, \* values of the arguments "limit" and "since"
          RadioNodes     \* iface.nodes

ASSUME ReadAssumption ==
    Limits \subseteq Int /\ Since \subseteq Nat /\ RadioNodes \subseteq Node

\* The operator's exposure switches.
Flags == SUBSET {"location", "text", "traffic"}
Disclosed == {"place", "text", "who"}

Answer(count, shows) == [count |-> count, shows |-> IF count = 0 THEN {} ELSE shows]

\* redact_location(), on whichever path.
RedactLocation(flags, shows) ==
    IF "location" \in flags THEN shows ELSE shows \ {"place"}

\* redact_messages(): the body goes, the routing facts stay.
RedactMessages(flags, shows) == IF "text" \in flags THEN shows ELSE shows \ {"text"}

\* LIMIT k of SQLite, where a negative k is none.
Limited(count, k) == IF k < 0 THEN count ELSE Fewer(count, k)

\* items[-k:], where 0 is no limit and a negative k drops the oldest.
LastOf(items, k) ==
    SubSeq(items, IF k > 0 THEN Len(items) - Fewer(k, Len(items)) + 1 ELSE 1 - k, Len(items))

\* list[:k], where a negative k drops the last.
FirstOf(count, k) == IF k < 0 THEN Fewer(count, IF count + k < 0 THEN 0 ELSE count + k)
                     ELSE Fewer(count, k)

-----------------------------------------------------------------------------
RecentMessages(flags, p, k) ==
    Answer(Len(LastOf(recent[p], k)), RedactMessages(flags, {"text", "who"}))

ListNodes(flags, k) ==
    Answer(FirstOf(Cardinality(RadioNodes), k), RedactLocation(flags, {"place", "who"}))

\* node_info() and device_metrics(), one record of the radio's table.
NodeInfo(flags, n) ==
    Answer(IF n \in RadioNodes THEN 1 ELSE 0, RedactLocation(flags, {"place", "who"}))

\* interactions(): of a node, or of all; since some time.
Interactions(d, n, since, k) ==
    Limited(Cardinality({r \in d.rows : (n = NoNode \/ n \in {r.from, r.to}) /\ r.ts >= since}), k)

\* neighbors(): who exchanged packets with a node; the broadcast address is a
\* neighbour of whoever broadcasts, a missing sender is nobody's.
Neighbors(d, n) ==
    {m \in Node \ {n} : \E r \in d.rows : {r.from, r.to} = {n, m}}
    \cup {m \in {NoNode} : \E r \in d.rows : r.from = n /\ r.to = m}

\* _metadata_gated(): the count without the records.
Gated(flags, count, shows) ==
    Answer(count, IF "traffic" \in flags THEN RedactLocation(flags, shows) ELSE {})

\* kb_summary(): what it says of the talkers; its counts name nobody.
KbSummary(flags, d) ==
    IF "traffic" \in flags
    THEN Answer(Fewer(TalkersLimit, Cardinality(Talkers(d))), {"who"})
    ELSE Answer(0, {})

\* Mutant: the traffic switch unlocks the whole row.
KbNodesUnredacted(flags, d, k) ==
    LET all == Cardinality({n \in Node : d.nodes[n].known}) IN
    IF "traffic" \in flags THEN Answer(Limited(all, k), {"place", "who"}) ELSE Gated(flags, all, {})

\* kb_nodes(): locked, it counts them all.
KbNodes(flags, d, k) ==
    LET all == Cardinality({n \in Node : d.nodes[n].known}) IN
    Gated(flags, IF "traffic" \in flags THEN Limited(all, k) ELSE all, {"place", "who"})

KbInteractions(flags, d, n, since, k) == Gated(flags, Interactions(d, n, since, k), {"who"})

KbNeighbors(flags, d, n, k) ==
    Gated(flags, Limited(Cardinality(Neighbors(d, n)), k), {"who"})

Queries(flags, d) ==
    {KbSummary(flags, d)} \cup
    UNION {{KbNodes(flags, d, k)} \cup
           {KbInteractions(flags, d, n, t, k) : n \in Node \cup {NoNode}, t \in Since} \cup
           {KbNeighbors(flags, d, n, k) : n \in Node} : k \in Limits}

Radio(flags) == {ListNodes(flags, k) : k \in Limits} \cup {NodeInfo(flags, n) : n \in Node}

-----------------------------------------------------------------------------
\* No answer, on the way over the radio's table or over the file, names a
\* place, a text or (from the file) a node whose switch is off
\* (privacy.py:30-46, tools.py:352-439).  A summary in hand changes no answer.
GatesWithhold ==
    reading = {} => \A flags \in Flags :
        /\ \A d \in {db, work} : \A a \in Queries(flags, d) :
            /\ "place" \in a.shows => "location" \in flags
            /\ a.shows # {} => "traffic" \in flags
        /\ \A a \in Radio(flags) : "place" \in a.shows => "location" \in flags
        /\ \A p \in Proc : \A k \in Limits :
            "text" \in RecentMessages(flags, p, k).shows => "text" \in flags
=============================================================================
