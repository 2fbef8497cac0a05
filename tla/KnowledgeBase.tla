---------------------------- MODULE KnowledgeBase ----------------------------
(***************************************************************************)
(* The SQLite file of knowledge.py, the observers that fill it and the     *)
(* summary that reads it.                                                  *)
(*                                                                         *)
(* Every process of the agent has a connection of its own to the one file: *)
(* the gateway, a chat session, the command line.  Inside a process a lock *)
(* makes each section of the code one step; between processes there is     *)
(* only what SQLite grants: a write transaction keeps the other writers    *)
(* out from its first statement to its commit, and an exception on the way *)
(* leaves it open.  The receive thread handles one packet at a time        *)
(* (record, sender's row, its counter, its name, its text), and an         *)
(* exception drops the rest of it.                                         *)
(***************************************************************************)
EXTENDS Naturals, FiniteSets, Sequences, Functions

CONSTANTS
    Proc,        \* processes that have the file open
    Readers,     \* those of them that are asked for a summary
    Node, NoNode,
    Time,        \* values of rxTime: packets may arrive late
    Packets,     \* what is received
    RecentLen,   \* _RECENT_MAXLEN
    TalkersLimit,\* how many talkers summary() asks for, 5
    MaxPackets,  \* bound: packets received in all
    Faults       \* whether the disk may fail and processes may end

ASSUME KnowledgeAssumption ==
    /\ IsFiniteSet(Proc) /\ IsFiniteSet(Node)
    /\ Readers \subseteq Proc /\ NoNode \notin Node /\ Time \subseteq Nat
    /\ Packets \subseteq [from : Node \cup {NoNode}, to : Node \cup {NoNode},
            ts : Time, kind : {"text", "name", "other", "opaque"}, text : Nat]
    /\ RecentLen \in Nat \ {0} /\ TalkersLimit \in Nat \ {0}
    /\ MaxPackets \in Nat /\ Faults \in BOOLEAN

VARIABLES
    db,        \* the file: the interactions, the nodes
    holder,    \* the process with an open write transaction, if any
    work,      \* the file as the holder sees it
    task,      \* per process, the packet on_receive() is handling
    recent,    \* per process, Observer._recent
    reading,   \* a summary() being put together
    heard,     \* history: packets received
    cut        \* history: the handling of a packet was cut short

stored == <<db, holder, work>>
vars == <<db, holder, work, task, recent, reading, heard, cut>>

InteractionRow == [id : Nat, from : Node \cup {NoNode}, to : Node \cup {NoNode},
        ts : Time, secret : BOOLEAN]
NodeRow == [known : BOOLEAN, first : Time \cup {0}, last : Time \cup {0},
            packets : Nat, named : BOOLEAN]
Database == [rows : SUBSET InteractionRow, nodes : [Node -> NodeRow]]
Step == {"row", "find", "node", "count", "name", "text"}
Task == [packet : Packets, todo : Seq(Step), found : BOOLEAN]
\* "others", a history: the rows other processes committed between the counts of
\* the packets and of the encrypted ones.
Summary == [by : Proc, step : {"packets", "secret", "talkers", "done"}, nodes : Nat,
            packets : Nat, secret : Nat, talkers : Nat, others : Nat]

TypeOK ==
    /\ db \in Database /\ work \in Database
    /\ holder \in SUBSET Proc
    /\ task \in [Proc -> SUBSET Task]
    /\ recent \in [Proc -> Seq(Packets)]
    /\ \A p \in Proc : Len(recent[p]) <= RecentLen
    /\ reading \in SUBSET Summary
    /\ heard \in Nat /\ cut \in BOOLEAN

Empty == [rows |-> {}, nodes |-> [n \in Node |->
    [known |-> FALSE, first |-> 0, last |-> 0, packets |-> 0, named |-> FALSE]]]

Init ==
    /\ db = Empty /\ work = Empty /\ holder = {}
    /\ task = [p \in Proc |-> {}] /\ recent = [p \in Proc |-> <<>>]
    /\ reading = {} /\ heard = 0 /\ cut = FALSE

-----------------------------------------------------------------------------
(* The statements. *)

View(p) == IF p \in holder THEN work ELSE db
RowsFrom(d, n) == {r \in d.rows : r.from = n}

InsertRow(d, k) ==
    [d EXCEPT !.rows = @ \cup {[id |-> Cardinality(@) + 1, from |-> k.from,
        to |-> k.to, ts |-> k.ts, secret |-> (k.kind = "opaque")]}]

\* Mutant: a node that is heard again was first seen now.
UpsertAsNew(d, k, named) ==
    [d EXCEPT !.nodes[k.from] =
        [@ EXCEPT !.known = TRUE, !.last = k.ts, !.named = @ \/ named, !.first = k.ts]]

\* upsert_node(): last_seen is the packet's time, be it older.
UpsertNode(d, k, named) ==
    LET old == d.nodes[k.from] IN
    [d EXCEPT !.nodes[k.from] =
        [known |-> TRUE, first |-> IF old.known THEN old.first ELSE k.ts, last |-> k.ts,
         packets |-> old.packets, named |-> old.named \/ named]]

\* Mutant: the counter is recomputed from the rows.
CountAnew(d, n) == [d EXCEPT !.nodes[n].packets = Cardinality(RowsFrom(d, n)) + 1]

CountPacket(d, n) == [d EXCEPT !.nodes[n].packets = @ + 1]

\* Mutant: every count takes the lock anew.
LockedNever(p) == FALSE

\* Inside a process, the lock that summary() holds over its counts.
Locked(p) == \E r \in reading : r.by = p /\ r.step \in {"packets", "secret"}
Free(p) == holder \subseteq {p}

Advance(p, t) ==
    /\ task' = [task EXCEPT ![p] =
            IF Len(t.todo) = 1 THEN {} ELSE {[t EXCEPT !.todo = Tail(@)]}]
    /\ UNCHANGED cut

\* on_receive() swallows the exception.
Swallow(p) == task' = [task EXCEPT ![p] = {}] /\ cut' = TRUE

Meanwhile(p, r, new) ==
    IF r.step = "secret" /\ r.by # p
    THEN r.others + (Cardinality(new.rows) - Cardinality(db.rows)) ELSE r.others

Commit(p, new) ==
    /\ db' = new /\ work' = new /\ holder' = {}
    /\ reading' = {[r EXCEPT !.others = Meanwhile(p, r, new)] : r \in reading}

\* The statement is executed, the transaction stays open.
LeaveOpen(p, new) == holder' = {p} /\ work' = new /\ UNCHANGED <<db, reading>>

\* The statement is refused: the file is locked, the disk is full.
Refused(p) == (Faults \/ ~Free(p)) /\ UNCHANGED <<db, holder, work, reading>>

\* Executes and commits; a commit that fails leaves the transaction open.
Write(p, t, new) ==
    \/ Free(p) /\ Commit(p, new) /\ Advance(p, t)
    \/ Faults /\ Free(p) /\ LeaveOpen(p, new) /\ Swallow(p)
    \/ Refused(p) /\ Swallow(p)

-----------------------------------------------------------------------------
(* The observer of process p. *)

\* Mutant: the text is shown first.
StepsTextFirst(k) ==
    (IF k.kind = "text" THEN <<"text">> ELSE <<>>) \o <<"row">>
    \o (IF k.from = NoNode THEN <<>> ELSE <<"find", "node", "count">>)
    \o (IF k.from # NoNode /\ k.kind = "name" THEN <<"find", "name">> ELSE <<>>)

\* What _handle() does with a packet; a sender without an id has no row.
Steps(k) ==
    IF k.from = NoNode
    THEN IF k.kind = "text" THEN <<"row", "text">> ELSE <<"row">>
    ELSE CASE k.kind = "text" -> <<"row", "find", "node", "count", "text">>
           [] k.kind = "name" -> <<"row", "find", "node", "count", "find", "name">>
           [] OTHER           -> <<"row", "find", "node", "count">>

Receive(p) ==
    /\ task[p] = {} /\ heard < MaxPackets /\ heard' = heard + 1
    /\ \E k \in Packets :
        task' = [task EXCEPT ![p] = {[packet |-> k, todo |-> Steps(k), found |-> FALSE]}]
    /\ UNCHANGED <<db, holder, work, recent, reading, cut>>

At(p, step) == {t \in task[p] : Head(t.todo) = step}

\* record_packet(), first section.
RecordRow(p) ==
    \E t \in At(p, "row") :
        /\ ~Locked(p)
        /\ Write(p, t, InsertRow(View(p), t.packet))
        /\ UNCHANGED <<recent, heard>>

\* upsert_node() asks whether the node exists, outside any transaction of the
\* file ...
FindNode(p) ==
    \E t \in At(p, "find") :
        /\ ~Locked(p)
        /\ \/ Advance(p, [t EXCEPT !.found = View(p).nodes[t.packet.from].known])
           \/ (Faults \/ ~Free(p)) /\ Swallow(p)
        /\ UNCHANGED <<db, holder, work, recent, reading, heard>>

\* ... and inserts it if not: when another process did so meanwhile, the
\* INSERT fails and the transaction it began stays open.
StoreNode(p) ==
    \E t \in At(p, "node") \cup At(p, "name") :
        /\ ~Locked(p) /\ UNCHANGED <<recent, heard>>
        /\ LET raced == ~t.found /\ View(p).nodes[t.packet.from].known IN
           \/ ~raced /\ Write(p, t, UpsertNode(View(p), t.packet, Head(t.todo) = "name"))
           \/ raced /\ Swallow(p) /\ Refused(p)
           \/ raced /\ Swallow(p) /\ Free(p) /\ LeaveOpen(p, View(p))

\* record_packet(), last section.
BumpCount(p) ==
    \E t \in At(p, "count") :
        /\ ~Locked(p)
        /\ Write(p, t, CountPacket(View(p), t.packet.from))
        /\ UNCHANGED <<recent, heard>>

\* Mutant: the buffer grows with the mesh's talk.
SurfaceUnbounded(p) ==
    \E t \in At(p, "text") :
        /\ Advance(p, t)
        /\ recent' = [recent EXCEPT ![p] = Append(@, t.packet)]
        /\ UNCHANGED <<db, holder, work, reading, heard>>

Surface(p) ==
    \E t \in At(p, "text") :
        /\ Advance(p, t)
        /\ LET all == Append(recent[p], t.packet) IN
           recent' = [recent EXCEPT ![p] =
                IF Len(all) > RecentLen THEN Tail(all) ELSE all]
        /\ UNCHANGED <<db, holder, work, reading, heard>>

\* The process ends and is started again: SQLite rolls back what it left.
Restart(p) ==
    /\ Faults
    /\ task' = [task EXCEPT ![p] = {}] /\ recent' = [recent EXCEPT ![p] = <<>>]
    /\ cut' = (cut \/ task[p] # {} \/ p \in holder)
    /\ holder' = holder \ {p} /\ work' = IF p \in holder THEN db ELSE work
    /\ reading' = {r \in reading : r.by # p}
    /\ UNCHANGED <<db, heard>>

-----------------------------------------------------------------------------
(* summary(): three counts under the process's lock, the talkers after it. *)

CountNodes(p) ==
    /\ p \in Readers /\ reading = {}
    /\ reading' = {[by |-> p, step |-> "packets", packets |-> 0, secret |-> 0,
                    talkers |-> 0, others |-> 0,
                    nodes |-> Cardinality({n \in Node : View(p).nodes[n].known})]}

CountRows(p) ==
    \E r \in reading :
        /\ r.by = p /\ r.step = "packets"
        /\ reading' = {[r EXCEPT !.step = "secret", !.packets = Cardinality(View(p).rows)]}

CountSecret(p) ==
    \E r \in reading :
        /\ r.by = p /\ r.step = "secret"
        /\ reading' = {[r EXCEPT !.step = "talkers",
                        !.secret = Cardinality({i \in View(p).rows : i.secret})]}

Fewer(a, b) == IF a < b THEN a ELSE b
Talkers(d) == {n \in Node : RowsFrom(d, n) # {}}

TopTalkers(p) ==
    \E r \in reading :
        /\ r.by = p /\ r.step = "talkers"
        /\ reading' = {[r EXCEPT !.step = "done",
              !.talkers = Fewer(TalkersLimit, Cardinality(Talkers(View(p))))]}

\* The answer is given, or a statement is refused.
Forget(p) ==
    /\ \E r \in reading : r.by = p /\ (r.step = "done" \/ ~Free(p) \/ Faults)
    /\ reading' = {}

Summarise(p) ==
    /\ CountNodes(p) \/ CountRows(p) \/ CountSecret(p) \/ TopTalkers(p) \/ Forget(p)
    /\ UNCHANGED <<db, holder, work, task, recent, heard, cut>>

Observe(p) ==
    \/ Receive(p) \/ RecordRow(p) \/ FindNode(p) \/ StoreNode(p)
    \/ BumpCount(p) \/ Surface(p)

Next == \E p \in Proc : Observe(p) \/ Summarise(p) \/ Restart(p)

Spec == Init /\ [][Next]_vars

-----------------------------------------------------------------------------
Pending(n) ==
    {p \in Proc : \E t \in task[p] : /\ t.packet.from = n
                                   /\ "row" \notin Range(t.todo)
                                   /\ "count" \in Range(t.todo)}

\* Whatever fails, a node's counter never runs ahead of the packets recorded
\* from it, and a node is listed only if it was heard; while nothing was cut
\* short, the counter lags by the packets in hand and by nothing else, however
\* many processes record (knowledge.py:168-181).
CountsFit ==
    /\ \A d \in {db, work} : \A n \in Node :
        /\ d.nodes[n].packets <= Cardinality(RowsFrom(d, n))
        /\ d.nodes[n].known => RowsFrom(d, n) # {}
    /\ ~cut => \A n \in Node :
        Cardinality(RowsFrom(db, n)) = db.nodes[n].packets + Cardinality(Pending(n))

\* A text that can be read was recorded before, and so was its sender
\* (observer.py:57, :85); what was encrypted is never among them.
TextsRecorded ==
    \A p \in Proc : \A m \in Range(recent[p]) :
        /\ \E r \in db.rows : r.from = m.from /\ r.ts = m.ts /\ ~r.secret
        /\ m.from # NoNode => db.nodes[m.from].known

\* The numbers of one summary, taken in four statements, fit each other: never
\* more nodes than packets; never more encrypted packets than packets, but for
\* those that other processes committed between the two counts (by no more than
\* these is decoded_packets negative); every node is among the talkers unless
\* these are as many as were asked for (knowledge.py:235-263).
SummaryAddsUp ==
    \A r \in reading :
        /\ r.step # "packets" => r.nodes <= r.packets
        /\ r.step \in {"talkers", "done"} => r.secret <= r.packets + r.others
        /\ r.step = "done" =>
            /\ r.talkers <= TalkersLimit
            /\ r.nodes <= r.talkers \/ r.talkers = TalkersLimit

\* What was committed stays: no row is lost, no counter goes back, a node
\* keeps the time it was first seen (knowledge.py:125-136).
KnowledgeStays ==
    [][/\ db.rows \subseteq db'.rows
       /\ \A n \in Node :
            /\ db.nodes[n].packets <= db'.nodes[n].packets
            /\ db.nodes[n].known =>
                db'.nodes[n].known /\ db'.nodes[n].first = db.nodes[n].first
            /\ db.nodes[n].named => db'.nodes[n].named]_vars

\* Every packet observed is recorded (docs/usage.md:776).
EveryPacketRecorded ==
    heard = Cardinality(db.rows) + Cardinality({p \in Proc : At(p, "row") # {}})
=============================================================================
