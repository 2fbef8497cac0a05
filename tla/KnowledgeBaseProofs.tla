------------------------- MODULE KnowledgeBaseProofs -------------------------
(***************************************************************************)
(* The knowledge base for any number of processes, nodes and packets, with *)
(* or without failures.  What a process has not committed only adds to     *)
(* what is committed (Ahead), so whichever of the two a commit starts from,*)
(* nothing is taken back.                                                  *)
(***************************************************************************)
EXTENDS ReadTools, FiniteSetTheorems, SequenceTheorems, TLAPS

\* e has all that d has.
Grows(d, e) ==
    /\ d.rows \subseteq e.rows
    /\ \A n \in Node :
         /\ d.nodes[n].packets <= e.nodes[n].packets
         /\ d.nodes[n].known => e.nodes[n].known /\ e.nodes[n].first = d.nodes[n].first
         /\ d.nodes[n].named => e.nodes[n].named

Sound(d) == d \in Database /\ IsFiniteSet(d.rows) /\ \A r \in d.rows : r.id <= Cardinality(d.rows)

Ahead == Sound(db) /\ Sound(work) /\ Grows(db, work)

LEMMA GrowsOrder ==
    /\ \A d \in Database : Grows(d, d)
    /\ \A d, e, f \in Database : Grows(d, e) /\ Grows(e, f) => Grows(d, f)
BY DEF Grows, Database, NodeRow

LEMMA EmptySound == Sound(Empty)
<1>1. Empty.rows = {} /\ Empty \in Database
  BY DEF Empty, Database, NodeRow
<1> QED BY <1>1, FS_EmptySet DEF Sound

\* A new row is new, and the only one.
LEMMA InsertSound ==
    ASSUME KnowledgeAssumption, NEW d, Sound(d), NEW k \in Packets
    PROVE  /\ Sound(InsertRow(d, k)) /\ Grows(d, InsertRow(d, k))
           /\ InsertRow(d, k).nodes = d.nodes
           /\ \E r \in InteractionRow \ d.rows :
                 /\ InsertRow(d, k).rows = d.rows \cup {r}
                 /\ r.from = k.from /\ r.ts = k.ts
                 /\ r.secret <=> k.kind = "opaque"
<1> DEFINE r == [id |-> Cardinality(d.rows) + 1, from |-> k.from, to |-> k.to, ts |-> k.ts,
                 secret |-> (k.kind = "opaque")]
           e == InsertRow(d, k)
<1>1. d \in [rows : SUBSET InteractionRow, nodes : [Node -> NodeRow]] /\ IsFiniteSet(d.rows)
  BY DEF Sound, Database
<1>2. Cardinality(d.rows) \in Nat
  BY <1>1, FS_CardinalityType
<1>3. k.from \in Node \cup {NoNode} /\ k.to \in Node \cup {NoNode} /\ k.ts \in Time
  BY DEF KnowledgeAssumption
<1>4. r \in InteractionRow
  BY <1>2, <1>3 DEF InteractionRow
<1>5. r \notin d.rows
  BY <1>2 DEF Sound
<1>6. e = [rows |-> d.rows \cup {r}, nodes |-> d.nodes]
  <2>1. e = [d EXCEPT !.rows = d.rows \cup {r}]
    BY <1>1 DEF InsertRow
  <2> HIDE DEF r, e
  <2> QED BY <1>1, <2>1
<1>7. e \in Database
  BY <1>1, <1>4, <1>6 DEF Database
<1>11. e.rows = d.rows \cup {r} /\ e.nodes = d.nodes
  BY <1>6
<1> HIDE DEF e
<1>13. r.from = k.from /\ r.ts = k.ts /\ (r.secret <=> k.kind = "opaque")
  OBVIOUS
<1> HIDE DEF r
<1>8. IsFiniteSet(e.rows) /\ Cardinality(e.rows) = Cardinality(d.rows) + 1
  <2>1. /\ IsFiniteSet(d.rows \cup {r})
        /\ Cardinality(d.rows \cup {r}) = Cardinality(d.rows) + 1
    <3> HIDE DEF e
    <3> QED BY <1>1, <1>5, FS_AddElement
  <2> QED BY <1>11, <2>1, Zenon
<1>9. \A x \in e.rows : x.id <= Cardinality(e.rows)
  <2>1. \A x \in d.rows : x.id <= Cardinality(d.rows) /\ x.id \in Nat
    BY <1>1 DEF Sound, InteractionRow
  <2>2. r.id = Cardinality(d.rows) + 1
    BY DEF r
  <2> QED BY <1>2, <1>8, <1>11, <2>1, <2>2
<1>10. Grows(d, e)
  BY <1>1, <1>11 DEF Grows, NodeRow
<1>12. Sound(e)
  BY <1>7, <1>8, <1>9 DEF Sound
<1> QED BY <1>4, <1>5, <1>10, <1>11, <1>12, <1>13 DEF e

LEMMA UpsertSound ==
    ASSUME KnowledgeAssumption, NEW d, Sound(d), NEW k \in Packets, k.from \in Node,
           NEW named \in BOOLEAN
    PROVE  LET e == UpsertNode(d, k, named) IN
           /\ Sound(e) /\ Grows(d, e) /\ e.rows = d.rows
           /\ \A n \in Node : /\ e.nodes[n].packets = d.nodes[n].packets
                              /\ e.nodes[n].known <=> d.nodes[n].known \/ n = k.from
<1> DEFINE old == d.nodes[k.from]
           new == [known |-> TRUE, first |-> IF old.known THEN old.first ELSE k.ts,
                   last |-> k.ts, packets |-> old.packets, named |-> old.named \/ named]
           e == UpsertNode(d, k, named)
<1>1. d \in [rows : SUBSET InteractionRow, nodes : [Node -> NodeRow]]
  BY DEF Sound, Database
<1>2. old \in [known : BOOLEAN, first : Time \cup {0}, last : Time \cup {0},
               packets : Nat, named : BOOLEAN]
  BY <1>1 DEF NodeRow
<1>3. k.ts \in Time
  BY DEF KnowledgeAssumption
<1>4. new \in NodeRow
  BY <1>2, <1>3 DEF NodeRow
<1>5. e = [d EXCEPT !.nodes = [@ EXCEPT ![k.from] = new]]
  BY DEF UpsertNode
<1>6. e = [rows |-> d.rows, nodes |-> [d.nodes EXCEPT ![k.from] = new]]
  <2> HIDE DEF new, e
  <2> QED BY <1>1, <1>5
<1>7. e \in Database /\ e.rows = d.rows /\ e.nodes = [d.nodes EXCEPT ![k.from] = new]
  BY <1>1, <1>4, <1>6 DEF Database
<1> HIDE DEF e
<1>8. Sound(e)
  BY <1>7 DEF Sound
<1>9. ASSUME NEW n \in Node
      PROVE  /\ e.nodes[n].packets = d.nodes[n].packets
             /\ e.nodes[n].known <=> d.nodes[n].known \/ n = k.from
             /\ d.nodes[n].known => e.nodes[n].first = d.nodes[n].first
             /\ d.nodes[n].named => e.nodes[n].named
             /\ d.nodes[n].packets \in Nat
  <2>1. CASE n = k.from
    BY <1>1, <1>2, <1>7, <2>1
  <2>2. CASE n # k.from
    BY <1>1, <1>7, <2>2 DEF NodeRow
  <2> QED BY <2>1, <2>2
<1>10. Grows(d, e)
  BY <1>7, <1>9 DEF Grows
<1> QED BY <1>7, <1>8, <1>9, <1>10 DEF e

LEMMA CountSound ==
    ASSUME NEW d, Sound(d), NEW m \in Node
    PROVE  LET e == CountPacket(d, m) IN
           /\ Sound(e) /\ Grows(d, e) /\ e.rows = d.rows
           /\ \A n \in Node : /\ e.nodes[n].known = d.nodes[n].known
                              /\ e.nodes[n].packets =
                                    d.nodes[n].packets + (IF n = m THEN 1 ELSE 0)
<1> DEFINE old == d.nodes[m]
           new == [old EXCEPT !.packets = @ + 1]
           e == CountPacket(d, m)
<1>1. d \in [rows : SUBSET InteractionRow, nodes : [Node -> NodeRow]]
  BY DEF Sound, Database
<1>2. old \in NodeRow /\ new \in NodeRow
  BY <1>1 DEF NodeRow
<1>3. e = [rows |-> d.rows, nodes |-> [d.nodes EXCEPT ![m] = new]]
  BY <1>1 DEF CountPacket
<1>4. e \in Database /\ e.rows = d.rows /\ e.nodes = [d.nodes EXCEPT ![m] = new]
  BY <1>1, <1>2, <1>3 DEF Database
<1> HIDE DEF e
<1>5. Sound(e)
  BY <1>4 DEF Sound
<1>6. ASSUME NEW n \in Node
      PROVE  /\ e.nodes[n].known = d.nodes[n].known /\ e.nodes[n].first = d.nodes[n].first
             /\ e.nodes[n].named = d.nodes[n].named
             /\ e.nodes[n].packets = d.nodes[n].packets + (IF n = m THEN 1 ELSE 0)
             /\ d.nodes[n].packets \in Nat
  <2>1. CASE n = m
    BY <1>1, <1>2, <1>4, <2>1 DEF NodeRow
  <2>2. CASE n # m
    BY <1>1, <1>4, <2>2 DEF NodeRow
  <2> QED BY <2>1, <2>2
<1>7. Grows(d, e)
  BY <1>4, <1>6 DEF Grows
<1> QED BY <1>4, <1>5, <1>6, <1>7 DEF e

-----------------------------------------------------------------------------
(* What is still to be done with a packet *)

Is(t, i, step) == i \in 1..Len(t.todo) /\ t.todo[i] = step
Has(t, step) == \E i \in 1..Len(t.todo) : t.todo[i] = step

\* The row comes first, the text last, the count once; only a sender with an
\* id has more than a row and a text.
Orderly(t) ==
    /\ t.todo # <<>>
    /\ \A i \in 1..Len(t.todo) :
         /\ t.todo[i] = "row" => i = 1
         /\ t.todo[i] = "text" => i = Len(t.todo) /\ t.packet.kind = "text"
         /\ t.todo[i] \notin {"row", "text"} => t.packet.from \in Node
         /\ \A j \in 1..Len(t.todo) : t.todo[i] = "count" /\ t.todo[j] = "count" => i = j
    /\ t.todo[1] = "row" /\ t.packet.from \in Node => Has(t, "node") /\ Has(t, "count")

Tasks == \A p \in Proc : \A t \in task[p] : Orderly(t) /\ \A u \in task[p] : u = t

\* A packet as it is received.
New(k) == [packet |-> k, todo |-> Steps(k), found |-> FALSE]

LEMMA NewTask ==
    ASSUME KnowledgeAssumption, NEW k \in Packets
    PROVE  New(k) \in Task /\ Orderly(New(k)) /\ New(k).todo[1] = "row"
<1>1. k.from \in Node \cup {NoNode} /\ NoNode \notin Node
  BY DEF KnowledgeAssumption
<1>2. \/ Steps(k) = <<"row">> /\ k.from = NoNode
      \/ Steps(k) = <<"row", "text">> /\ k.from = NoNode /\ k.kind = "text"
      \/ Steps(k) = <<"row", "find", "node", "count">> /\ k.from \in Node
      \/ Steps(k) = <<"row", "find", "node", "count", "find", "name">> /\ k.from \in Node
      \/ Steps(k) = <<"row", "find", "node", "count", "text">> /\ k.from \in Node /\ k.kind = "text"
  <2>1. CASE k.from = NoNode
    BY <2>1 DEF Steps
  <2>2. CASE k.from \in Node /\ k.kind = "text"
    BY <1>1, <2>2 DEF Steps
  <2>3. CASE k.from \in Node /\ k.kind = "name"
    BY <1>1, <2>3 DEF Steps
  <2>4. CASE k.from \in Node /\ k.kind \notin {"text", "name"}
    BY <1>1, <2>4 DEF Steps
  <2> QED BY <1>1, <2>1, <2>2, <2>3, <2>4
<1>3. /\ New(k).packet = k /\ New(k).todo = Steps(k) /\ New(k).found = FALSE
      /\ New(k) = [packet |-> k, todo |-> Steps(k), found |-> FALSE]
  BY DEF New
<1>4. CASE Steps(k) = <<"row">> /\ k.from = NoNode
  BY <1>1, <1>3, <1>4 DEF Orderly, Task, Step, Has
<1>5. CASE Steps(k) = <<"row", "text">> /\ k.from = NoNode /\ k.kind = "text"
  BY <1>1, <1>3, <1>5 DEF Orderly, Task, Step, Has
<1>6. CASE Steps(k) = <<"row", "find", "node", "count">> /\ k.from \in Node
  BY <1>1, <1>3, <1>6 DEF Orderly, Task, Step, Has
<1>7. CASE Steps(k) = <<"row", "find", "node", "count", "find", "name">> /\ k.from \in Node
  BY <1>1, <1>3, <1>7 DEF Orderly, Task, Step, Has
<1>8. CASE /\ Steps(k) = <<"row", "find", "node", "count", "text">> /\ k.from \in Node
           /\ k.kind = "text"
  BY <1>1, <1>3, <1>8 DEF Orderly, Task, Step, Has
<1> QED BY <1>2, <1>4, <1>5, <1>6, <1>7, <1>8

\* The step that is done is not done again.
LEMMA NextTask ==
    ASSUME NEW t \in Task, Orderly(t), NEW v \in Task, v.packet = t.packet,
           v.todo = Tail(t.todo), Len(t.todo) # 1
    PROVE  /\ Orderly(v)
           /\ \A step \in Step : Has(t, step) <=> Has(v, step) \/ t.todo[1] = step
           /\ ~Has(v, "row") /\ (t.todo[1] = "count" => ~Has(v, "count"))
<1>1. t.todo \in Seq(Step) /\ Len(t.todo) \in Nat \ {0, 1}
  BY EmptySeq DEF Task, Orderly
<1>2. /\ Len(v.todo) = Len(t.todo) - 1 /\ v.todo \in Seq(Step)
      /\ \A i \in 1..Len(v.todo) : v.todo[i] = t.todo[i + 1] /\ i + 1 \in 1..Len(t.todo)
  BY <1>1, HeadTailProperties
<1>3. ~Has(v, "row")
  BY <1>1, <1>2 DEF Has, Orderly
<1>4. v.todo # <<>> /\ 1 \in 1..Len(v.todo)
  <2> DEFINE m == Len(v.todo)
             l == Len(t.todo)
  <2>1. m = l - 1 /\ l \in Nat /\ l # 0 /\ l # 1
    BY <1>1, <1>2
  <2> HIDE DEF m, l
  <2>2. m \in Nat /\ m # 0 /\ 1 \in 1..m
    BY <2>1
  <2>3. v.todo # <<>>
    BY <1>2, <2>2, EmptySeq DEF m
  <2> QED BY <2>2, <2>3 DEF m
<1>5. \A i \in 1..Len(v.todo) :
         /\ v.todo[i] = "row" => i = 1
         /\ v.todo[i] = "text" => i = Len(v.todo) /\ v.packet.kind = "text"
         /\ v.todo[i] \notin {"row", "text"} => v.packet.from \in Node
  BY <1>1, <1>2 DEF Orderly
<1>6. \A i, j \in 1..Len(v.todo) : v.todo[i] = "count" /\ v.todo[j] = "count" => i = j
  BY <1>1, <1>2 DEF Orderly
<1>7. ASSUME NEW step \in Step PROVE Has(t, step) <=> Has(v, step) \/ t.todo[1] = step
  <2>1. ASSUME Has(t, step), t.todo[1] # step PROVE Has(v, step)
    <3>1. PICK i \in 1..Len(t.todo) : t.todo[i] = step
      BY <2>1 DEF Has
    <3>2. i - 1 \in 1..Len(v.todo) /\ i = (i - 1) + 1
      BY <1>1, <1>2, <2>1, <3>1
    <3>3. v.todo[i - 1] = step
      BY <1>2, <3>1, <3>2
    <3> QED BY <3>2, <3>3 DEF Has
  <2>2. Has(v, step) => Has(t, step)
    BY <1>1, <1>2 DEF Has
  <2>3. t.todo[1] = step => Has(t, step)
    BY <1>1 DEF Has
  <2> QED BY <2>1, <2>2, <2>3
<1>8. t.todo[1] = "count" => ~Has(v, "count")
  BY <1>1, <1>2 DEF Has, Orderly
<1>9. v.todo[1] # "row"
  BY <1>3, <1>4 DEF Has
<1> QED BY <1>3, <1>4, <1>5, <1>6, <1>7, <1>8, <1>9 DEF Orderly

\* What process p is at, before and after a step.
LEMMA AdvanceTasks ==
    ASSUME KnowledgeAssumption, TypeOK, Tasks, NEW p \in Proc, NEW t \in task[p],
           NEW u \in Task, u.packet = t.packet, u.todo = t.todo, Advance(p, u)
    PROVE  /\ task' \in [Proc -> SUBSET Task] /\ Tasks'
           /\ \A q \in Proc \ {p} : task'[q] = task[q]
           /\ \A v \in task'[p] :
                 /\ v.packet = t.packet /\ ~Has(v, "row")
                 /\ \A step \in Step : Has(t, step) <=> Has(v, step) \/ t.todo[1] = step
                 /\ t.todo[1] = "count" => ~Has(v, "count")
           /\ task'[p] = {} => Len(t.todo) = 1
<1>1. t \in Task /\ Orderly(t)
  BY DEF TypeOK, Tasks
<1>2. CASE Len(t.todo) = 1
  <2>1. task' = [task EXCEPT ![p] = {}]
    BY <1>2 DEF Advance
  <2> QED BY <1>2, <2>1 DEF TypeOK, Tasks
<1>3. CASE Len(t.todo) # 1
  <2> DEFINE v == [u EXCEPT !.todo = Tail(@)]
  <2>1. task' = [task EXCEPT ![p] = {v}]
    BY <1>3 DEF Advance
  <2>2. t.todo # <<>> /\ t.todo \in Seq(Step)
    BY <1>1 DEF Orderly, Task
  <2>3. Tail(t.todo) \in Seq(Step)
    BY <2>2, HeadTailProperties
  <2>4. v \in Task /\ v.packet = t.packet /\ v.todo = Tail(t.todo)
    BY <2>3 DEF Task
  <2> HIDE DEF v
  <2>5. /\ Orderly(v)
        /\ \A step \in Step : Has(t, step) <=> Has(v, step) \/ t.todo[1] = step
        /\ ~Has(v, "row") /\ (t.todo[1] = "count" => ~Has(v, "count"))
    BY <1>1, <1>3, <2>4, NextTask
  <2>6. task'[p] = {v} /\ \A q \in Proc \ {p} : task'[q] = task[q]
    BY <2>1 DEF TypeOK
  <2>7. task' \in [Proc -> SUBSET Task]
    BY <2>1, <2>4 DEF TypeOK
  <2>8. Tasks'
    BY <2>5, <2>6 DEF Tasks
  <2> QED BY <2>4, <2>5, <2>6, <2>7, <2>8
<1> QED BY <1>2, <1>3

\* Nothing is left to do for the packet.
LEMMA CutTasks ==
    ASSUME TypeOK, Tasks, NEW p \in Proc, task' = [task EXCEPT ![p] = {}]
    PROVE  /\ task' \in [Proc -> SUBSET Task] /\ Tasks' /\ task'[p] = {}
           /\ \A q \in Proc \ {p} : task'[q] = task[q]
BY DEF TypeOK, Tasks

-----------------------------------------------------------------------------
(* Counters and rows *)

Unit(b) == IF b THEN 1 ELSE 0

\* Process p has recorded a packet of node n and not counted it.
Owes(p, n) == \E t \in task[p] : t.packet.from = n /\ ~Has(t, "row") /\ Has(t, "count")

LEMMA PendingOwes ==
    ASSUME NEW n
    PROVE  /\ task \in [Proc -> SUBSET Task] => Pending(n) = {p \in Proc : Owes(p, n)}
           /\ task' \in [Proc -> SUBSET Task] => Pending(n)' = {p \in Proc : Owes(p, n)'}
<1>1. ASSUME NEW t \in Task, NEW step PROVE step \in Range(t.todo) <=> Has(t, step)
  <2>1. t.todo \in Seq(Step)
    BY DEF Task
  <2>2. DOMAIN t.todo = 1..Len(t.todo)
    BY <2>1
  <2> QED BY <2>2 DEF Range, Has
<1>2. task \in [Proc -> SUBSET Task] => Pending(n) = {p \in Proc : Owes(p, n)}
  BY <1>1 DEF Pending, Owes
<1>3. task' \in [Proc -> SUBSET Task] => Pending(n)' = {p \in Proc : Owes(p, n)'}
  BY <1>1 DEF Pending, Owes, Range, Has
<1> QED BY <1>2, <1>3

\* Only the process that moves changes what is pending.
LEMMA PendingMoves ==
    ASSUME KnowledgeAssumption, TypeOK, task' \in [Proc -> SUBSET Task], NEW p \in Proc,
           \A q \in Proc \ {p} : task'[q] = task[q], NEW n
    PROVE  /\ Cardinality(Pending(n)) \in Nat /\ Cardinality(Pending(n)') \in Nat
           /\ Cardinality(Pending(n)') + Unit(Owes(p, n))
                = Cardinality(Pending(n)) + Unit(Owes(p, n)')
<1> DEFINE A == Pending(n)
           B == Pending(n)'
<1>1. A = {q \in Proc : Owes(q, n)}
  BY PendingOwes DEF TypeOK
<1>2. B = {q \in Proc : Owes(q, n)'}
  BY PendingOwes
<1>3. \A q \in Proc \ {p} : Owes(q, n)' <=> Owes(q, n)
  BY DEF Owes, Has
<1>4. A \ {p} = B \ {p} /\ (p \in A <=> Owes(p, n)) /\ (p \in B <=> Owes(p, n)')
  BY <1>1, <1>2, <1>3
<1>5. IsFiniteSet(A) /\ IsFiniteSet(B)
  BY <1>1, <1>2, FS_Subset DEF KnowledgeAssumption
<1> HIDE DEF A, B
<1>6. Cardinality(A) \in Nat /\ Cardinality(B) \in Nat
  BY <1>5, FS_CardinalityType
<1>7. /\ Cardinality(A \ {p}) = Cardinality(A) - Unit(Owes(p, n))
      /\ Cardinality(B \ {p}) = Cardinality(B) - Unit(Owes(p, n)')
  <2>1. Cardinality(A \ {p}) = IF p \in A THEN Cardinality(A) - 1 ELSE Cardinality(A)
    BY <1>5, FS_RemoveElement
  <2>2. Cardinality(B \ {p}) = IF p \in B THEN Cardinality(B) - 1 ELSE Cardinality(B)
    BY <1>5, FS_RemoveElement
  <2> QED BY <1>4, <1>6, <2>1, <2>2 DEF Unit
<1>8. Cardinality(B) + Unit(Owes(p, n)) = Cardinality(A) + Unit(Owes(p, n)')
  <2> DEFINE x == Unit(Owes(p, n))
             y == Unit(Owes(p, n)')
  <2>1. x \in Nat /\ y \in Nat
    BY DEF Unit
  <2>2. Cardinality(A) - x = Cardinality(B) - y
    BY <1>4, <1>7
  <2> HIDE DEF x, y
  <2>3. Cardinality(B) + x = Cardinality(A) + y
    BY <1>6, <2>1, <2>2
  <2> QED BY <2>3 DEF x, y
<1> QED BY <1>6, <1>8 DEF A, B

LEMMA AdvanceOwes ==
    ASSUME KnowledgeAssumption, TypeOK, Tasks, NEW p \in Proc, NEW t \in task[p],
           NEW u \in Task, u.packet = t.packet, u.todo = t.todo, Advance(p, u), NEW n \in Node
    PROVE  /\ t.todo[1] = "row" => ~Owes(p, n) /\ (Owes(p, n)' <=> t.packet.from = n)
           /\ t.todo[1] = "count" => (Owes(p, n) <=> t.packet.from = n) /\ ~Owes(p, n)'
           /\ t.todo[1] \notin {"row", "count"} => (Owes(p, n)' <=> Owes(p, n))
<1>1. /\ Orderly(t) /\ \A v \in task[p] : v = t
      /\ t.todo \in Seq(Step) /\ Len(t.todo) \in Nat \ {0} /\ 1 \in 1..Len(t.todo)
  BY EmptySeq DEF Tasks, TypeOK, Task, Orderly
<1>2. /\ \A v \in task'[p] :
           /\ v.packet = t.packet /\ ~Has(v, "row")
           /\ \A step \in Step : Has(t, step) <=> Has(v, step) \/ t.todo[1] = step
           /\ t.todo[1] = "count" => ~Has(v, "count")
      /\ task'[p] = {} => Len(t.todo) = 1
  BY AdvanceTasks
<1>3. Has(t, "row") <=> t.todo[1] = "row"
  BY <1>1 DEF Has, Orderly
<1>4. t.todo[1] = "count" => Has(t, "count")
  BY <1>1 DEF Has
<1>5. task'[p] = {} => (Has(t, "count") <=> t.todo[1] = "count")
  BY <1>1, <1>2 DEF Has
<1>6. t.todo[1] = "row" /\ t.packet.from \in Node => Has(t, "count")
  BY <1>1 DEF Orderly
<1>7. \A v \in task'[p] : t.todo[1] # "count" => (Has(v, "count") <=> Has(t, "count"))
  BY <1>2 DEF Step
<1>8. Owes(p, n) <=> t.packet.from = n /\ ~Has(t, "row") /\ Has(t, "count")
  BY <1>1 DEF Owes
<1>9. Owes(p, n)' <=> \E v \in task'[p] : t.packet.from = n /\ Has(v, "count")
  <2>1. Owes(p, n)' <=> \E v \in task'[p] : v.packet.from = n /\ ~Has(v, "row") /\ Has(v, "count")
    BY DEF Owes, Has
  <2> QED BY <1>2, <2>1
<1>10. CASE t.todo[1] = "row"
  BY <1>3, <1>5, <1>6, <1>7, <1>8, <1>9, <1>10
<1>11. CASE t.todo[1] = "count"
  BY <1>2, <1>3, <1>4, <1>8, <1>9, <1>11
<1>12. CASE t.todo[1] \notin {"row", "count"}
  BY <1>3, <1>5, <1>7, <1>8, <1>9, <1>12
<1> QED BY <1>10, <1>11, <1>12

LEMMA RowsGrow ==
    ASSUME NEW d, Sound(d), NEW e, Sound(e), Grows(d, e), NEW n
    PROVE  /\ IsFiniteSet(RowsFrom(d, n)) /\ RowsFrom(d, n) \subseteq RowsFrom(e, n)
           /\ Cardinality(RowsFrom(d, n)) \in Nat /\ Cardinality(RowsFrom(e, n)) \in Nat
           /\ Cardinality(RowsFrom(d, n)) <= Cardinality(RowsFrom(e, n))
<1>1. RowsFrom(d, n) \subseteq d.rows /\ RowsFrom(e, n) \subseteq e.rows
  BY DEF RowsFrom
<1>2. RowsFrom(d, n) \subseteq RowsFrom(e, n)
  BY DEF RowsFrom, Grows
<1>3. IsFiniteSet(RowsFrom(d, n)) /\ IsFiniteSet(RowsFrom(e, n))
  BY <1>1, FS_Subset DEF Sound
<1>4. Cardinality(RowsFrom(d, n)) <= Cardinality(RowsFrom(e, n))
  BY <1>2, <1>3, FS_Subset
<1> QED BY <1>2, <1>3, <1>4, FS_CardinalityType

LEMMA InsertRows ==
    ASSUME KnowledgeAssumption, NEW d, Sound(d), NEW k \in Packets, NEW n
    PROVE  Cardinality(RowsFrom(InsertRow(d, k), n))
             = Cardinality(RowsFrom(d, n)) + Unit(k.from = n)
<1> DEFINE e == InsertRow(d, k)
<1>1. PICK r \in InteractionRow \ d.rows : e.rows = d.rows \cup {r} /\ r.from = k.from
  BY InsertSound
<1>2. /\ IsFiniteSet(RowsFrom(d, n)) /\ Cardinality(RowsFrom(d, n)) \in Nat
      /\ r \notin RowsFrom(d, n)
  <2>1. Grows(d, d)
    BY GrowsOrder DEF Sound
  <2>2. IsFiniteSet(RowsFrom(d, n)) /\ Cardinality(RowsFrom(d, n)) \in Nat
    BY <2>1, RowsGrow
  <2>3. r \notin RowsFrom(d, n)
    BY DEF RowsFrom
  <2> QED BY <2>2, <2>3
<1> HIDE DEF e
<1>3. CASE k.from = n
  <2>1. RowsFrom(e, n) = RowsFrom(d, n) \cup {r}
    BY <1>1, <1>3 DEF RowsFrom
  <2>2. Cardinality(RowsFrom(d, n) \cup {r}) = Cardinality(RowsFrom(d, n)) + 1
    BY <1>2, FS_AddElement
  <2> QED BY <1>3, <2>1, <2>2 DEF Unit, e
<1>4. CASE k.from # n
  <2>1. RowsFrom(e, n) = RowsFrom(d, n)
    BY <1>1, <1>4 DEF RowsFrom
  <2> QED BY <1>2, <1>4, <2>1 DEF Unit, e
<1> QED BY <1>3, <1>4

-----------------------------------------------------------------------------
(* The inductive invariant *)

HasRow(d, k) == \E r \in d.rows : r.from = k.from /\ r.ts = k.ts /\ (r.secret <=> k.kind = "opaque")
Knows(d, k) == k.from \in Node => d.nodes[k.from].known

\* What is past in the handling of a packet is in the file.
Recorded ==
    \A p \in Proc : \A t \in task[p] :
        /\ t.todo[1] # "row" => HasRow(db, t.packet)
        /\ ~Has(t, "node") => Knows(db, t.packet)

\* Packets counted and packets pending have their rows; so has a node.
LedgerOf(d) ==
    \A n \in Node :
        /\ d.nodes[n].packets + Cardinality(Pending(n)) <= Cardinality(RowsFrom(d, n))
        /\ d.nodes[n].known => RowsFrom(d, n) # {}

Exact ==
    ~cut => /\ holder = {}
            /\ \A n \in Node : Cardinality(RowsFrom(db, n))
                                 = db.nodes[n].packets + Cardinality(Pending(n))

Books == Ahead /\ Tasks /\ Recorded /\ LedgerOf(db) /\ LedgerOf(work) /\ Exact

LEMMA StillThere ==
    ASSUME NEW d \in Database, NEW e \in Database, Grows(d, e), NEW k \in Packets
    PROVE  /\ HasRow(d, k) => HasRow(e, k)
           /\ Knows(d, k) => Knows(e, k)
BY DEF HasRow, Knows, Grows

LEMMA ViewSound ==
    ASSUME Ahead, NEW p
    PROVE  Sound(View(p)) /\ Grows(db, View(p)) /\ (View(p) = db \/ View(p) = work)
BY GrowsOrder DEF Ahead, View, Sound

\* The other processes' packets stay recorded.
LEMMA RecordedMoves ==
    ASSUME TypeOK, Ahead, Recorded, NEW p \in Proc,
           \A q \in Proc \ {p} : task'[q] = task[q], Sound(db'), Grows(db, db'),
           \A v \in task'[p] : /\ v.todo[1] # "row" => HasRow(db', v.packet)
                               /\ ~Has(v, "node") => Knows(db', v.packet)
    PROVE  Recorded'
<1> SUFFICES ASSUME NEW q \in Proc, NEW v \in task'[q]
             PROVE  /\ v.todo[1] # "row" => HasRow(db', v.packet)
                    /\ ~Has(v, "node") => Knows(db', v.packet)
  BY DEF Recorded, HasRow, Knows, Has
<1>1. CASE q = p
  BY <1>1
<1>2. CASE q # p
  <2>1. v \in task[q] /\ v \in Task /\ v.packet \in Packets
    BY <1>2 DEF TypeOK, Task
  <2>2. /\ v.todo[1] # "row" => HasRow(db, v.packet)
        /\ ~Has(v, "node") => Knows(db, v.packet)
    BY <2>1 DEF Recorded
  <2>3. db \in Database /\ db' \in Database
    BY DEF Ahead, Sound
  <2> QED BY <2>1, <2>2, <2>3, StillThere
<1> QED BY <1>1, <1>2

\* The handling is cut short: at most what is not committed changes.
LEMMA CutKeeps ==
    ASSUME KnowledgeAssumption, TypeOK, Books, NEW p \in Proc, Swallow(p), NEW new,
           \/ UNCHANGED stored
           \/ LeaveOpen(p, new),
           Sound(new), Grows(View(p), new),
           \A n \in Node : /\ new.nodes[n].packets <= View(p).nodes[n].packets + Unit(Owes(p, n))
                           /\ new.nodes[n].known => RowsFrom(new, n) # {}
    PROVE  Books' /\ task' \in [Proc -> SUBSET Task] /\ Grows(db, db')
<1>1. /\ task' \in [Proc -> SUBSET Task] /\ Tasks' /\ task'[p] = {}
      /\ \A q \in Proc \ {p} : task'[q] = task[q]
  BY CutTasks DEF Books, Swallow
<1>2. db' = db /\ cut' = TRUE
  BY DEF stored, LeaveOpen, Swallow
<1>3. Sound(View(p)) /\ Grows(db, View(p)) /\ (View(p) = db \/ View(p) = work)
  BY ViewSound DEF Books
<1>4. Grows(db, new) /\ Grows(db, db)
  BY <1>3, GrowsOrder DEF Sound, Books, Ahead
<1>5. Ahead'
  BY <1>2, <1>4 DEF Books, Ahead, Sound, Grows, stored, LeaveOpen
<1>6. Recorded'
  BY <1>1, <1>2, <1>4, RecordedMoves DEF Books, Ahead
<1>7. ASSUME NEW n \in Node
      PROVE  /\ Cardinality(Pending(n)) \in Nat /\ Cardinality(Pending(n)') \in Nat
             /\ Cardinality(Pending(n)') + Unit(Owes(p, n)) = Cardinality(Pending(n))
  <2>1. ~Owes(p, n)'
    BY <1>1 DEF Owes
  <2>2. Cardinality(Pending(n)') + Unit(Owes(p, n)) = Cardinality(Pending(n)) + Unit(Owes(p, n)')
    BY <1>1, PendingMoves
  <2>3. Unit(Owes(p, n)') = 0
    BY <2>1 DEF Unit
  <2> QED BY <1>1, <2>2, <2>3, PendingMoves
<1>8. ASSUME NEW d, Sound(d), LedgerOf(d), NEW n \in Node
      PROVE  d.nodes[n].packets + Cardinality(Pending(n)') <= Cardinality(RowsFrom(d, n))
  <2>1. d.nodes[n].packets \in Nat
    BY <1>8 DEF Sound, Database, NodeRow
  <2>2. Cardinality(RowsFrom(d, n)) \in Nat
    BY <1>8, GrowsOrder, RowsGrow DEF Sound
  <2>3. d.nodes[n].packets + Cardinality(Pending(n)) <= Cardinality(RowsFrom(d, n))
    BY <1>8 DEF LedgerOf
  <2>4. Unit(Owes(p, n)) \in Nat
    BY DEF Unit
  <2> QED BY <1>7, <2>1, <2>2, <2>3, <2>4
<1>9. ASSUME NEW n \in Node
      PROVE  new.nodes[n].packets + Cardinality(Pending(n)') <= Cardinality(RowsFrom(new, n))
  <2>1. View(p).nodes[n].packets \in Nat /\ new.nodes[n].packets \in Nat
    BY <1>3 DEF Sound, Database, NodeRow
  <2>2. /\ Cardinality(RowsFrom(View(p), n)) \in Nat /\ Cardinality(RowsFrom(new, n)) \in Nat
        /\ Cardinality(RowsFrom(View(p), n)) <= Cardinality(RowsFrom(new, n))
    BY <1>3, RowsGrow
  <2>3. View(p).nodes[n].packets + Cardinality(Pending(n)) <= Cardinality(RowsFrom(View(p), n))
    BY <1>3 DEF LedgerOf, Books
  <2>4. Unit(Owes(p, n)) \in Nat
    BY DEF Unit
  <2> QED BY <1>7, <2>1, <2>2, <2>3, <2>4
<1>10. work' = work \/ work' = new
  BY DEF stored, LeaveOpen
<1>11. LedgerOf(db)'
  BY <1>2, <1>8 DEF LedgerOf, Books, Ahead, RowsFrom
<1>12. LedgerOf(work)'
  BY <1>8, <1>9, <1>10 DEF LedgerOf, Books, Ahead, RowsFrom
<1>13. Exact'
  BY <1>2 DEF Exact
<1> QED BY <1>1, <1>2, <1>4, <1>5, <1>6, <1>11, <1>12, <1>13 DEF Books

\* A step of the handling is done: what it has recorded is in the file.
LEMMA AdvanceRecords ==
    ASSUME KnowledgeAssumption, TypeOK, Books, NEW p \in Proc, NEW t \in task[p],
           NEW u \in Task, u.packet = t.packet, u.todo = t.todo, Advance(p, u),
           Sound(db'), Grows(db, db'), HasRow(db', t.packet),
           t.todo[1] = "node" => Knows(db', t.packet)
    PROVE  Recorded' /\ Tasks' /\ task' \in [Proc -> SUBSET Task]
<1>1. /\ task' \in [Proc -> SUBSET Task] /\ Tasks'
      /\ \A q \in Proc \ {p} : task'[q] = task[q]
      /\ \A v \in task'[p] : /\ v.packet = t.packet
                             /\ Has(t, "node") <=> Has(v, "node") \/ t.todo[1] = "node"
  BY AdvanceTasks DEF Books, Step
<1>2. t.packet \in Packets /\ db \in Database /\ db' \in Database
  BY DEF TypeOK, Task, Sound, Books, Ahead
<1>3. ASSUME NEW v \in task'[p], ~Has(v, "node") PROVE Knows(db', v.packet)
  <2>1. CASE t.todo[1] = "node"
    BY <1>1, <2>1
  <2>2. CASE t.todo[1] # "node"
    <3>1. ~Has(t, "node") /\ v.packet = t.packet
      BY <1>1, <1>3, <2>2
    <3>2. Knows(db, t.packet)
      BY <3>1 DEF Books, Recorded
    <3> QED BY <1>2, <3>1, <3>2, StillThere
  <2> QED BY <2>1, <2>2
<1>4. \A v \in task'[p] : HasRow(db', v.packet)
  BY <1>1
<1> QED BY <1>1, <1>3, <1>4, RecordedMoves DEF Books

\* A step that writes nothing.
LEMMA IdleKeeps ==
    ASSUME KnowledgeAssumption, TypeOK, Books, NEW p \in Proc, NEW t \in task[p],
           NEW u \in Task, u.packet = t.packet, u.todo = t.todo, Advance(p, u),
           UNCHANGED stored, t.todo[1] \notin {"row", "node", "count"}
    PROVE  Books' /\ task' \in [Proc -> SUBSET Task] /\ Grows(db, db')
<1>1. db' = db /\ work' = work /\ holder' = holder /\ cut' = cut
  BY DEF stored, Advance
<1>2. Sound(db) /\ Grows(db, db) /\ HasRow(db, t.packet)
  BY GrowsOrder DEF Books, Ahead, Sound, Recorded
<1>3. Recorded' /\ Tasks' /\ task' \in [Proc -> SUBSET Task]
  BY <1>1, <1>2, AdvanceRecords
<1>4. ASSUME NEW n \in Node PROVE Cardinality(Pending(n)') = Cardinality(Pending(n))
  <2>1. \A q \in Proc \ {p} : task'[q] = task[q]
    BY AdvanceTasks DEF Books
  <2>2. Owes(p, n)' <=> Owes(p, n)
    BY AdvanceOwes DEF Books
  <2>3. Unit(Owes(p, n)') = Unit(Owes(p, n)) /\ Unit(Owes(p, n)) \in Nat
    BY <2>2 DEF Unit
  <2>4. /\ Cardinality(Pending(n)) \in Nat /\ Cardinality(Pending(n)') \in Nat
        /\ Cardinality(Pending(n)') + Unit(Owes(p, n))
             = Cardinality(Pending(n)) + Unit(Owes(p, n)')
    BY <1>3, <2>1, PendingMoves
  <2> QED BY <2>3, <2>4
<1>5. Ahead'
  BY <1>1 DEF Books, Ahead, Sound, Grows
<1>6. LedgerOf(db)' /\ LedgerOf(work)' /\ Exact'
  BY <1>1, <1>4 DEF LedgerOf, Exact, Books, RowsFrom
<1> QED BY <1>1, <1>2, <1>3, <1>5, <1>6 DEF Books

\* A statement that is committed: what is now pending, counted and recorded
\* balances.
LEMMA CommitKeeps ==
    ASSUME KnowledgeAssumption, TypeOK, Books, NEW p \in Proc, NEW t \in task[p],
           Advance(p, t), NEW new, Free(p), Commit(p, new),
           Sound(new), Grows(View(p), new), HasRow(new, t.packet),
           t.todo[1] = "node" => Knows(new, t.packet),
           \A n \in Node :
               /\ new.nodes[n].known => RowsFrom(new, n) # {}
               /\ new.nodes[n].packets + Unit(Owes(p, n)') + Cardinality(RowsFrom(View(p), n))
                    = View(p).nodes[n].packets + Unit(Owes(p, n)) + Cardinality(RowsFrom(new, n))
    PROVE  Books' /\ task' \in [Proc -> SUBSET Task] /\ Grows(db, db')
<1>1. db' = new /\ work' = new /\ holder' = {} /\ cut' = cut
  BY DEF Commit, Advance
<1>2. Sound(View(p)) /\ Grows(db, View(p)) /\ (View(p) = db \/ View(p) = work)
  BY ViewSound DEF Books
<1>3. Grows(db, new)
  BY <1>2, GrowsOrder DEF Sound, Books, Ahead
<1>4. Grows(new, new)
  BY GrowsOrder DEF Sound
<1>5. Recorded' /\ Tasks' /\ task' \in [Proc -> SUBSET Task]
  <2>1. t \in Task
    BY DEF TypeOK
  <2> QED BY <1>1, <1>3, <2>1, AdvanceRecords
<1>6. Ahead'
  BY <1>1, <1>4 DEF Books, Ahead, Sound, Grows
<1>7. ASSUME NEW n \in Node
      PROVE  /\ new.nodes[n].packets + Cardinality(Pending(n)') + Cardinality(RowsFrom(View(p), n))
                  = View(p).nodes[n].packets + Cardinality(Pending(n)) + Cardinality(RowsFrom(new, n))
             /\ View(p).nodes[n].packets \in Nat /\ new.nodes[n].packets \in Nat
             /\ Cardinality(RowsFrom(View(p), n)) \in Nat /\ Cardinality(RowsFrom(new, n)) \in Nat
             /\ Cardinality(Pending(n)) \in Nat /\ Cardinality(Pending(n)') \in Nat
  <2>1. /\ View(p).nodes[n].packets \in Nat /\ new.nodes[n].packets \in Nat
        /\ Unit(Owes(p, n)) \in Nat /\ Unit(Owes(p, n)') \in Nat
    BY <1>2 DEF Sound, Database, NodeRow, Unit
  <2>2. Cardinality(RowsFrom(View(p), n)) \in Nat /\ Cardinality(RowsFrom(new, n)) \in Nat
    BY <1>2, RowsGrow
  <2>3. \A q \in Proc \ {p} : task'[q] = task[q]
    BY AdvanceTasks DEF Books, TypeOK
  <2>4. /\ Cardinality(Pending(n)) \in Nat /\ Cardinality(Pending(n)') \in Nat
        /\ Cardinality(Pending(n)') + Unit(Owes(p, n))
             = Cardinality(Pending(n)) + Unit(Owes(p, n)')
    BY <1>5, <2>3, PendingMoves
  <2>5. new.nodes[n].packets + Unit(Owes(p, n)') + Cardinality(RowsFrom(View(p), n))
          = View(p).nodes[n].packets + Unit(Owes(p, n)) + Cardinality(RowsFrom(new, n))
    OBVIOUS
  <2> QED BY <2>1, <2>2, <2>4, <2>5
<1>8. ASSUME NEW n \in Node
      PROVE  /\ new.nodes[n].packets + Cardinality(Pending(n)') <= Cardinality(RowsFrom(new, n))
             /\ ~cut => Cardinality(RowsFrom(new, n))
                          = new.nodes[n].packets + Cardinality(Pending(n)')
  <2>1. View(p).nodes[n].packets + Cardinality(Pending(n)) <= Cardinality(RowsFrom(View(p), n))
    BY <1>2 DEF LedgerOf, Books
  <2>2. ~cut => Cardinality(RowsFrom(View(p), n))
                  = View(p).nodes[n].packets + Cardinality(Pending(n))
    BY DEF Exact, Books, View
  <2> QED BY <1>7, <2>1, <2>2
<1>9. LedgerOf(db)' /\ LedgerOf(work)' /\ Exact'
  BY <1>1, <1>8 DEF LedgerOf, Exact, RowsFrom
<1> QED BY <1>1, <1>3, <1>5, <1>6, <1>9 DEF Books

\* The next packet: nothing of it is recorded yet.
LEMMA ReceiveKeeps ==
    ASSUME KnowledgeAssumption, TypeOK, Books, NEW p \in Proc, Receive(p)
    PROVE  Books' /\ task' \in [Proc -> SUBSET Task] /\ Grows(db, db')
<1>1. PICK k \in Packets : task' = [task EXCEPT ![p] = {New(k)}]
  BY DEF Receive, New
<1>2. New(k) \in Task /\ Orderly(New(k)) /\ New(k).todo[1] = "row" /\ New(k).packet = k
  BY NewTask DEF New
<1>3. /\ task' \in [Proc -> SUBSET Task] /\ task'[p] = {New(k)} /\ task[p] = {}
      /\ \A q \in Proc \ {p} : task'[q] = task[q]
  BY <1>1, <1>2 DEF TypeOK, Receive
<1>4. db' = db /\ work' = work /\ holder' = holder /\ cut' = cut /\ Sound(db) /\ Grows(db, db)
  BY GrowsOrder DEF Receive, Books, Ahead, Sound
<1>5. Tasks'
  BY <1>2, <1>3 DEF Tasks, Books
<1>6. New(k).todo # <<>> /\ New(k).todo \in Seq(Step)
  BY <1>2 DEF Orderly, Task
<1>7. Has(New(k), "row") /\ (k.from \in Node => Has(New(k), "node"))
  <2>1. 1 \in 1..Len(New(k).todo)
    BY <1>6, EmptySeq
  <2> QED BY <1>2, <2>1 DEF Has, Orderly
<1>8. Recorded'
  BY <1>2, <1>3, <1>4, <1>7, RecordedMoves DEF Knows, Books
<1>9. ASSUME NEW n \in Node PROVE Cardinality(Pending(n)') = Cardinality(Pending(n))
  <2>1. ~Owes(p, n) /\ ~Owes(p, n)'
    BY <1>3, <1>7 DEF Owes, Has
  <2>2. Unit(Owes(p, n)') = 0 /\ Unit(Owes(p, n)) = 0
    BY <2>1 DEF Unit
  <2> QED BY <1>3, <2>2, PendingMoves
<1>10. Ahead'
  BY <1>4 DEF Books, Ahead, Sound, Grows
<1>11. LedgerOf(db)' /\ LedgerOf(work)' /\ Exact'
  BY <1>4, <1>9 DEF LedgerOf, Exact, Books, RowsFrom
<1> QED BY <1>3, <1>4, <1>5, <1>8, <1>10, <1>11 DEF Books

\* What an ended process left open is rolled back.
LEMMA RestartKeeps ==
    ASSUME KnowledgeAssumption, TypeOK, Books, NEW p \in Proc, Restart(p)
    PROVE  Books' /\ task' \in [Proc -> SUBSET Task] /\ Grows(db, db')
<1>1. /\ task' \in [Proc -> SUBSET Task] /\ Tasks' /\ task'[p] = {}
      /\ \A q \in Proc \ {p} : task'[q] = task[q]
  BY CutTasks DEF Books, Restart
<1>2. db' = db /\ (work' = work \/ work' = db) /\ Sound(db) /\ Grows(db, db)
  BY GrowsOrder DEF Restart, Books, Ahead, Sound
<1>3. Ahead'
  BY <1>2 DEF Books, Ahead, Sound, Grows
<1>4. Recorded'
  BY <1>1, <1>2, RecordedMoves DEF Books
<1>5. ASSUME NEW n \in Node
      PROVE  /\ Cardinality(Pending(n)) \in Nat /\ Cardinality(Pending(n)') \in Nat
             /\ Cardinality(Pending(n)') <= Cardinality(Pending(n))
             /\ task[p] = {} => Cardinality(Pending(n)') = Cardinality(Pending(n))
  <2>1. ~Owes(p, n)' /\ (task[p] = {} => ~Owes(p, n))
    BY <1>1 DEF Owes
  <2>2. Cardinality(Pending(n)') + Unit(Owes(p, n)) = Cardinality(Pending(n)) + Unit(Owes(p, n)')
    BY <1>1, PendingMoves
  <2>3. Unit(Owes(p, n)') = 0 /\ Unit(Owes(p, n)) \in Nat /\ (task[p] = {} => Unit(Owes(p, n)) = 0)
    BY <2>1 DEF Unit
  <2>4. Cardinality(Pending(n)) \in Nat /\ Cardinality(Pending(n)') \in Nat
    BY <1>1, PendingMoves
  <2> QED BY <2>2, <2>3, <2>4
<1>6. ASSUME NEW d, Sound(d), LedgerOf(d), NEW n \in Node
      PROVE  d.nodes[n].packets + Cardinality(Pending(n)') <= Cardinality(RowsFrom(d, n))
  <2>1. d.nodes[n].packets \in Nat
    BY <1>6 DEF Sound, Database, NodeRow
  <2>2. Cardinality(RowsFrom(d, n)) \in Nat
    BY <1>6, GrowsOrder, RowsGrow DEF Sound
  <2>3. d.nodes[n].packets + Cardinality(Pending(n)) <= Cardinality(RowsFrom(d, n))
    BY <1>6 DEF LedgerOf
  <2> QED BY <1>5, <2>1, <2>2, <2>3
<1>7. LedgerOf(db)'
  BY <1>2, <1>6 DEF LedgerOf, Books, Ahead, RowsFrom
<1>8. LedgerOf(work)'
  BY <1>2, <1>6 DEF LedgerOf, Books, Ahead, RowsFrom
<1>9. Exact'
  <2>1. ~cut' => ~cut /\ task[p] = {} /\ holder' = {}
    BY DEF Restart, Books, Exact
  <2> QED BY <1>2, <1>5, <2>1 DEF Exact, Books, RowsFrom
<1> QED BY <1>1, <1>2, <1>3, <1>4, <1>7, <1>8, <1>9 DEF Books

-----------------------------------------------------------------------------
(* The steps *)

LEMMA WriteKeeps ==
    ASSUME KnowledgeAssumption, TypeOK, Books, NEW p \in Proc, NEW t \in task[p], NEW new,
           Write(p, t, new), Sound(new), Grows(View(p), new), HasRow(new, t.packet),
           t.todo[1] = "node" => Knows(new, t.packet),
           \A n \in Node :
               /\ new.nodes[n].known => RowsFrom(new, n) # {}
               /\ new.nodes[n].packets <= View(p).nodes[n].packets + Unit(Owes(p, n))
               /\ Advance(p, t) =>
                    new.nodes[n].packets + Unit(Owes(p, n)') + Cardinality(RowsFrom(View(p), n))
                      = View(p).nodes[n].packets + Unit(Owes(p, n)) + Cardinality(RowsFrom(new, n))
    PROVE  Books' /\ task' \in [Proc -> SUBSET Task] /\ Grows(db, db')
<1>1. CASE Free(p) /\ Commit(p, new) /\ Advance(p, t)
  BY <1>1, CommitKeeps
<1>2. CASE LeaveOpen(p, new) /\ Swallow(p)
  BY <1>2, CutKeeps
<1>3. CASE Refused(p) /\ Swallow(p)
  <2>1. UNCHANGED stored
    BY <1>3 DEF Refused, stored
  <2> QED BY <1>3, <2>1, CutKeeps
<1> QED BY <1>1, <1>2, <1>3 DEF Write

\* The process at a step, and what it sees.
LEMMA AtStep ==
    ASSUME KnowledgeAssumption, TypeOK, Books, NEW p \in Proc, NEW step, NEW t \in At(p, step)
    PROVE  /\ t \in task[p] /\ t \in Task /\ t.todo[1] = step /\ t.packet \in Packets
           /\ t.packet.from \in Node \cup {NoNode}
           /\ step \notin {"row", "text"} => t.packet.from \in Node
           /\ step = "text" => Len(t.todo) = 1 /\ t.packet.kind = "text"
           /\ Sound(View(p)) /\ (step # "row" => HasRow(View(p), t.packet))
           /\ \A n \in Node : View(p).nodes[n].known => RowsFrom(View(p), n) # {}
<1>1. t \in task[p] /\ t \in Task /\ Head(t.todo) = step /\ Orderly(t)
  BY DEF At, TypeOK, Books, Tasks
<1>2. t.todo \in Seq(Step) /\ Len(t.todo) \in Nat \ {0}
  BY <1>1, EmptySeq DEF Task, Orderly
<1>3. t.todo[1] = step /\ 1 \in 1..Len(t.todo)
  BY <1>1, <1>2
<1>4. t.packet \in Packets /\ t.packet.from \in Node \cup {NoNode}
  BY <1>1 DEF Task, KnowledgeAssumption
<1>5. Sound(View(p)) /\ Grows(db, View(p)) /\ (View(p) = db \/ View(p) = work) /\ db \in Database
  BY ViewSound DEF Books, Ahead, Sound
<1>6. step # "row" => HasRow(View(p), t.packet)
  BY <1>1, <1>3, <1>4, <1>5, StillThere DEF Books, Recorded, Sound
<1>7. \A n \in Node : View(p).nodes[n].known => RowsFrom(View(p), n) # {}
  BY <1>5 DEF Books, LedgerOf
<1>8. /\ step \notin {"row", "text"} => t.packet.from \in Node
      /\ step = "text" => Len(t.todo) = 1 /\ t.packet.kind = "text"
  <2>1. /\ t.todo[1] = "text" => 1 = Len(t.todo) /\ t.packet.kind = "text"
        /\ t.todo[1] \notin {"row", "text"} => t.packet.from \in Node
    BY <1>1, <1>3 DEF Orderly
  <2> QED BY <1>3, <2>1
<1> QED BY <1>1, <1>3, <1>4, <1>5, <1>6, <1>7, <1>8

LEMMA RowKeeps ==
    ASSUME KnowledgeAssumption, TypeOK, Books, NEW p \in Proc, RecordRow(p)
    PROVE  Books' /\ task' \in [Proc -> SUBSET Task] /\ Grows(db, db')
<1>1. PICK t \in At(p, "row") : Write(p, t, InsertRow(View(p), t.packet))
  BY DEF RecordRow
<1> DEFINE new == InsertRow(View(p), t.packet)
<1>2. /\ t \in task[p] /\ t \in Task /\ t.todo[1] = "row" /\ t.packet \in Packets /\ Sound(View(p))
      /\ \A n \in Node : View(p).nodes[n].known => RowsFrom(View(p), n) # {}
  BY AtStep
<1>3. /\ Sound(new) /\ Grows(View(p), new) /\ new.nodes = View(p).nodes
      /\ HasRow(new, t.packet)
  BY <1>2, InsertSound DEF HasRow
<1>4. \A n \in Node : Cardinality(RowsFrom(new, n))
                        = Cardinality(RowsFrom(View(p), n)) + Unit(t.packet.from = n)
  BY <1>2, InsertRows
<1> HIDE DEF new
<1>5. ASSUME NEW n \in Node
      PROVE  /\ new.nodes[n].known => RowsFrom(new, n) # {}
             /\ new.nodes[n].packets <= View(p).nodes[n].packets + Unit(Owes(p, n))
             /\ Advance(p, t) =>
                  new.nodes[n].packets + Unit(Owes(p, n)') + Cardinality(RowsFrom(View(p), n))
                    = View(p).nodes[n].packets + Unit(Owes(p, n)) + Cardinality(RowsFrom(new, n))
  <2>1. RowsFrom(View(p), n) \subseteq RowsFrom(new, n) /\ Cardinality(RowsFrom(View(p), n)) \in Nat
    BY <1>2, <1>3, RowsGrow
  <2>2. View(p).nodes[n].packets \in Nat /\ Unit(Owes(p, n)) \in Nat /\ Unit(t.packet.from = n) \in Nat
    BY <1>2 DEF Sound, Database, NodeRow, Unit
  <2>3. Advance(p, t) => Unit(Owes(p, n)) = 0 /\ Unit(Owes(p, n)') = Unit(t.packet.from = n)
    BY <1>2, AdvanceOwes DEF Unit, Books
  <2> QED BY <1>2, <1>3, <1>4, <2>1, <2>2, <2>3
<1> QED BY <1>1, <1>2, <1>3, <1>5, WriteKeeps DEF new

LEMMA StoreKeeps ==
    ASSUME KnowledgeAssumption, TypeOK, Books, NEW p \in Proc, StoreNode(p)
    PROVE  Books' /\ task' \in [Proc -> SUBSET Task] /\ Grows(db, db')
<1>1. PICK t \in At(p, "node") \cup At(p, "name") :
        \/ \E named \in BOOLEAN : Write(p, t, UpsertNode(View(p), t.packet, named))
        \/ Swallow(p) /\ Refused(p)
        \/ Swallow(p) /\ LeaveOpen(p, View(p))
  BY DEF StoreNode
<1>2. /\ t \in task[p] /\ t \in Task /\ t.todo[1] \in {"node", "name"} /\ t.packet \in Packets
      /\ t.packet.from \in Node /\ Sound(View(p)) /\ HasRow(View(p), t.packet)
      /\ \A n \in Node : View(p).nodes[n].known => RowsFrom(View(p), n) # {}
  BY <1>1, AtStep
<1>3. Grows(View(p), View(p)) /\ RowsFrom(View(p), t.packet.from) # {}
  BY <1>2, GrowsOrder DEF Sound, HasRow, RowsFrom
<1>4. \A n \in Node : /\ View(p).nodes[n].packets \in Nat /\ Unit(Owes(p, n)) \in Nat
                      /\ Cardinality(RowsFrom(View(p), n)) \in Nat
  BY <1>2, <1>3, RowsGrow DEF Sound, Database, NodeRow, Unit
<1>5. CASE \E named \in BOOLEAN : Write(p, t, UpsertNode(View(p), t.packet, named))
  <2>1. PICK named \in BOOLEAN : Write(p, t, UpsertNode(View(p), t.packet, named))
    BY <1>5
  <2> DEFINE new == UpsertNode(View(p), t.packet, named)
  <2>2. /\ Sound(new) /\ Grows(View(p), new) /\ new.rows = View(p).rows
        /\ \A n \in Node : /\ new.nodes[n].packets = View(p).nodes[n].packets
                           /\ new.nodes[n].known <=> View(p).nodes[n].known \/ n = t.packet.from
    BY <1>2, UpsertSound
  <2> HIDE DEF new
  <2>3. \A n : RowsFrom(new, n) = RowsFrom(View(p), n)
    BY <2>2 DEF RowsFrom
  <2>4. HasRow(new, t.packet) /\ Knows(new, t.packet)
    BY <1>2, <2>2 DEF HasRow, Knows
  <2>5. ASSUME NEW n \in Node
        PROVE  /\ new.nodes[n].known => RowsFrom(new, n) # {}
               /\ new.nodes[n].packets <= View(p).nodes[n].packets + Unit(Owes(p, n))
               /\ Advance(p, t) =>
                    new.nodes[n].packets + Unit(Owes(p, n)') + Cardinality(RowsFrom(View(p), n))
                      = View(p).nodes[n].packets + Unit(Owes(p, n)) + Cardinality(RowsFrom(new, n))
    <3>1. Advance(p, t) => Unit(Owes(p, n)') = Unit(Owes(p, n))
      BY <1>2, AdvanceOwes DEF Unit, Books
    <3> QED BY <1>2, <1>3, <1>4, <2>2, <2>3, <3>1
  <2> QED BY <1>2, <2>1, <2>2, <2>4, <2>5, WriteKeeps DEF new
<1>6. CASE Swallow(p) /\ (Refused(p) \/ LeaveOpen(p, View(p)))
  <2>1. UNCHANGED stored \/ LeaveOpen(p, View(p))
    BY <1>6 DEF Refused, stored
  <2>2. \A n \in Node : View(p).nodes[n].packets <= View(p).nodes[n].packets + Unit(Owes(p, n))
    BY <1>4
  <2> QED BY <1>2, <1>3, <1>6, <2>1, <2>2, CutKeeps
<1> QED BY <1>1, <1>5, <1>6

LEMMA CountKeeps ==
    ASSUME KnowledgeAssumption, TypeOK, Books, NEW p \in Proc, BumpCount(p)
    PROVE  Books' /\ task' \in [Proc -> SUBSET Task] /\ Grows(db, db')
<1>1. PICK t \in At(p, "count") : Write(p, t, CountPacket(View(p), t.packet.from))
  BY DEF BumpCount
<1> DEFINE new == CountPacket(View(p), t.packet.from)
<1>2. /\ t \in task[p] /\ t \in Task /\ t.todo[1] = "count" /\ t.packet.from \in Node
      /\ Sound(View(p)) /\ HasRow(View(p), t.packet)
      /\ \A n \in Node : View(p).nodes[n].known => RowsFrom(View(p), n) # {}
  BY AtStep
<1>3. /\ Sound(new) /\ Grows(View(p), new) /\ new.rows = View(p).rows
      /\ \A n \in Node : /\ new.nodes[n].known = View(p).nodes[n].known
                         /\ new.nodes[n].packets = View(p).nodes[n].packets
                                + (IF n = t.packet.from THEN 1 ELSE 0)
  BY <1>2, CountSound
<1> HIDE DEF new
<1>4. HasRow(new, t.packet) /\ \A n : RowsFrom(new, n) = RowsFrom(View(p), n)
  BY <1>2, <1>3 DEF HasRow, RowsFrom
<1>5. ASSUME NEW n \in Node
      PROVE  /\ new.nodes[n].known => RowsFrom(new, n) # {}
             /\ new.nodes[n].packets <= View(p).nodes[n].packets + Unit(Owes(p, n))
             /\ Advance(p, t) =>
                  new.nodes[n].packets + Unit(Owes(p, n)') + Cardinality(RowsFrom(View(p), n))
                    = View(p).nodes[n].packets + Unit(Owes(p, n)) + Cardinality(RowsFrom(new, n))
  <2>1. Unit(Owes(p, n)) = IF n = t.packet.from THEN 1 ELSE 0
    <3>1. Orderly(t) /\ \A v \in task[p] : v = t
      BY <1>2 DEF Books, Tasks
    <3>2. 1 \in 1..Len(t.todo)
      BY <1>2, <3>1, EmptySeq DEF Orderly, Task
    <3>3. Has(t, "count") /\ ~Has(t, "row")
      BY <1>2, <3>1, <3>2 DEF Has, Orderly
    <3>4. Owes(p, n) <=> t.packet.from = n
      BY <1>2, <3>1, <3>3 DEF Owes
    <3> QED BY <3>4 DEF Unit
  <2>2. Advance(p, t) => Unit(Owes(p, n)') = 0
    BY <1>2, AdvanceOwes DEF Unit, Books
  <2>3. View(p).nodes[n].packets \in Nat /\ Cardinality(RowsFrom(View(p), n)) \in Nat
    BY <1>2, <1>3, RowsGrow DEF Sound, Database, NodeRow
  <2> QED BY <1>2, <1>3, <1>4, <2>1, <2>2, <2>3
<1> QED BY <1>1, <1>2, <1>3, <1>4, <1>5, WriteKeeps DEF new

LEMMA FindKeeps ==
    ASSUME KnowledgeAssumption, TypeOK, Books, NEW p \in Proc, FindNode(p)
    PROVE  Books' /\ task' \in [Proc -> SUBSET Task] /\ Grows(db, db')
<1>1. PICK t \in At(p, "find") :
        /\ \/ Advance(p, [t EXCEPT !.found = View(p).nodes[t.packet.from].known])
           \/ Swallow(p)
        /\ UNCHANGED stored
  BY DEF FindNode, stored
<1>2. /\ t \in task[p] /\ t \in Task /\ t.todo[1] = "find" /\ t.packet.from \in Node
      /\ Sound(View(p)) /\ \A n \in Node : View(p).nodes[n].known => RowsFrom(View(p), n) # {}
  BY AtStep
<1>3. CASE Advance(p, [t EXCEPT !.found = View(p).nodes[t.packet.from].known])
  <2> DEFINE u == [t EXCEPT !.found = View(p).nodes[t.packet.from].known]
  <2>1. View(p).nodes[t.packet.from].known \in BOOLEAN
    BY <1>2 DEF Sound, Database, NodeRow
  <2>2. u \in Task /\ u.packet = t.packet /\ u.todo = t.todo
    BY <1>2, <2>1 DEF Task
  <2> HIDE DEF u
  <2>3. Advance(p, u)
    BY <1>3 DEF u
  <2> QED BY <1>1, <1>2, <2>2, <2>3, IdleKeeps
<1>4. CASE Swallow(p)
  <2>1. Grows(View(p), View(p))
    BY <1>2, GrowsOrder DEF Sound
  <2>2. \A n \in Node : View(p).nodes[n].packets \in Nat /\ Unit(Owes(p, n)) \in Nat
    BY <1>2 DEF Sound, Database, NodeRow, Unit
  <2>3. \A n \in Node :
           View(p).nodes[n].packets <= View(p).nodes[n].packets + Unit(Owes(p, n))
    BY <2>2
  <2>4. UNCHANGED stored \/ LeaveOpen(p, View(p))
    BY <1>1
  <2> QED BY <1>2, <1>4, <2>1, <2>3, <2>4, CutKeeps
<1> QED BY <1>1, <1>3, <1>4

LEMMA SurfaceKeeps ==
    ASSUME KnowledgeAssumption, TypeOK, Books, NEW p \in Proc, Surface(p)
    PROVE  Books' /\ task' \in [Proc -> SUBSET Task] /\ Grows(db, db')
<1>1. PICK t \in At(p, "text") : Advance(p, t) /\ UNCHANGED stored
  BY DEF Surface, stored
<1>2. t \in task[p] /\ t \in Task /\ t.todo[1] = "text"
  BY AtStep
<1> QED BY <1>1, <1>2, IdleKeeps

LEMMA NextKeeps ==
    ASSUME KnowledgeAssumption, TypeOK, Books, Next
    PROVE  Books' /\ task' \in [Proc -> SUBSET Task] /\ Grows(db, db')
<1>1. PICK p \in Proc : Observe(p) \/ Summarise(p) \/ Restart(p)
  BY DEF Next
<1>2. CASE Observe(p)
  BY <1>2, ReceiveKeeps, RowKeeps, FindKeeps, StoreKeeps, CountKeeps, SurfaceKeeps DEF Observe
<1>3. CASE Summarise(p)
  <2>1. UNCHANGED <<db, holder, work, task, cut>>
    BY <1>3 DEF Summarise
  <2>2. \A n \in Node : Pending(n)' = Pending(n)
    BY <2>1 DEF Pending
  <2>3. Ahead' /\ Tasks' /\ Recorded'
    BY <2>1 DEF Books, Ahead, Sound, Grows, Tasks, Orderly, Has, Recorded, HasRow, Knows
  <2>4. LedgerOf(db)' /\ LedgerOf(work)' /\ Exact'
    BY <2>1, <2>2 DEF Books, LedgerOf, Exact, RowsFrom
  <2>5. Grows(db, db)
    BY GrowsOrder DEF Books, Ahead, Sound
  <2> QED BY <2>1, <2>3, <2>4, <2>5 DEF Books, TypeOK
<1>4. CASE Restart(p)
  BY <1>4, RestartKeeps
<1> QED BY <1>1, <1>2, <1>3, <1>4

-----------------------------------------------------------------------------
(* What a step of an observer does to the file *)

OneHolder == \A p, q \in holder : p = q

\* An observer's step changes nothing stored, or adds to what it sees, at a time
\* when its own process is not counting.
Adds(p, new) ==
    /\ Free(p) /\ ~Locked(p) /\ Sound(new) /\ Grows(View(p), new)
    /\ Commit(p, new) \/ LeaveOpen(p, new)

LEMMA Outcome ==
    ASSUME KnowledgeAssumption, TypeOK, Books, NEW p \in Proc, Observe(p)
    PROVE  UNCHANGED <<db, holder, work, reading>> \/ \E new \in Database : Adds(p, new)
<1>1. ASSUME NEW t, NEW new, Write(p, t, new), ~Locked(p), Sound(new), Grows(View(p), new)
      PROVE  UNCHANGED <<db, holder, work, reading>> \/ \E e \in Database : Adds(p, e)
  BY <1>1 DEF Write, Refused, Adds, Sound
<1>2. CASE Receive(p) \/ FindNode(p) \/ Surface(p)
  BY <1>2 DEF Receive, FindNode, Surface
<1>3. CASE RecordRow(p)
  <2>1. PICK t \in At(p, "row") : ~Locked(p) /\ Write(p, t, InsertRow(View(p), t.packet))
    BY <1>3 DEF RecordRow
  <2>2. t.packet \in Packets /\ Sound(View(p))
    BY AtStep
  <2> QED BY <1>1, <2>1, <2>2, InsertSound
<1>4. CASE BumpCount(p)
  <2>1. PICK t \in At(p, "count") : ~Locked(p) /\ Write(p, t, CountPacket(View(p), t.packet.from))
    BY <1>4 DEF BumpCount
  <2>2. t.packet.from \in Node /\ Sound(View(p))
    BY AtStep
  <2> QED BY <1>1, <2>1, <2>2, CountSound
<1>5. CASE StoreNode(p)
  <2>0. PICK step \in {"node", "name"} : \E t \in At(p, step) :
           /\ ~Locked(p)
           /\ LET raced == ~t.found /\ View(p).nodes[t.packet.from].known IN
              \/ ~raced /\ Write(p, t, UpsertNode(View(p), t.packet, Head(t.todo) = "name"))
              \/ raced /\ Swallow(p) /\ Refused(p)
              \/ raced /\ Swallow(p) /\ Free(p) /\ LeaveOpen(p, View(p))
    BY <1>5 DEF StoreNode
  <2>1. PICK t \in At(p, step) :
           /\ ~Locked(p)
           /\ LET raced == ~t.found /\ View(p).nodes[t.packet.from].known IN
              \/ ~raced /\ Write(p, t, UpsertNode(View(p), t.packet, Head(t.todo) = "name"))
              \/ raced /\ Swallow(p) /\ Refused(p)
              \/ raced /\ Swallow(p) /\ Free(p) /\ LeaveOpen(p, View(p))
    BY <2>0
  <2>2. t.packet \in Packets /\ t.packet.from \in Node /\ Sound(View(p))
    BY AtStep
  <2>3. CASE Write(p, t, UpsertNode(View(p), t.packet, Head(t.todo) = "name"))
    <3>1. (Head(t.todo) = "name") \in BOOLEAN
      OBVIOUS
    <3>2. /\ Sound(UpsertNode(View(p), t.packet, Head(t.todo) = "name"))
          /\ Grows(View(p), UpsertNode(View(p), t.packet, Head(t.todo) = "name"))
      BY <2>2, <3>1, UpsertSound
    <3> QED BY <1>1, <2>1, <2>3, <3>2
  <2>4. CASE Refused(p)
    BY <2>4 DEF Refused
  <2>5. CASE Free(p) /\ LeaveOpen(p, View(p))
    <3>1. View(p) \in Database /\ Grows(View(p), View(p))
      BY <2>2, GrowsOrder DEF Sound
    <3> QED BY <2>1, <2>2, <2>5, <3>1 DEF Adds
  <2> QED BY <2>1, <2>3, <2>4, <2>5
<1> QED BY <1>2, <1>3, <1>4, <1>5 DEF Observe

\* What another process, or the same, sees afterwards.
LEMMA AddsViews ==
    ASSUME KnowledgeAssumption, TypeOK, Books, NEW p \in Proc, NEW new \in Database,
           Adds(p, new), NEW q \in Proc
    PROVE  /\ Grows(View(q), View(q)')
           /\ LeaveOpen(p, new) /\ q # p => View(q)' = View(q)
           /\ OneHolder'
<1>1. /\ Grows(db, View(p)) /\ Grows(db, db) /\ View(p) \in Database /\ db \in Database
      /\ Grows(View(p), new)
  BY ViewSound, GrowsOrder DEF Books, Ahead, Sound, Adds
<1>2. Grows(db, new)
  BY <1>1, GrowsOrder
<1>3. q # p => q \notin holder /\ View(q) = db
  BY DEF Adds, Free, View
<1>4. CASE Commit(p, new)
  <2>1. View(q)' = new /\ OneHolder' /\ ~LeaveOpen(p, new)
    BY <1>4 DEF Commit, LeaveOpen, View, OneHolder
  <2> QED BY <1>1, <1>2, <1>3, <2>1
<1>5. CASE LeaveOpen(p, new)
  <2>1. OneHolder' /\ (q # p => View(q)' = db) /\ (q = p => View(q)' = new)
    BY <1>5 DEF LeaveOpen, View, OneHolder
  <2> QED BY <1>1, <1>3, <2>1
<1> QED BY <1>4, <1>5 DEF Adds

-----------------------------------------------------------------------------
(* Types, and the texts *)

\* What is committed adds rows.
LEMMA RowsAdded ==
    ASSUME KnowledgeAssumption, TypeOK, Books, NEW p, NEW new, Adds(p, new)
    PROVE  /\ Cardinality(db.rows) \in Nat /\ Cardinality(new.rows) \in Nat
           /\ Cardinality(db.rows) <= Cardinality(new.rows)
<1>1. /\ IsFiniteSet(new.rows) /\ Grows(db, View(p)) /\ Grows(View(p), new)
  BY ViewSound DEF Books, Adds, Sound
<1>2. db.rows \subseteq new.rows
  BY <1>1 DEF Grows
<1> QED BY <1>1, <1>2, FS_Subset, FS_CardinalityType

LEMMA ViewCounts ==
    ASSUME KnowledgeAssumption, Ahead, NEW p, NEW S, S \subseteq View(p).rows \/ S \subseteq Node
    PROVE  Cardinality(S) \in Nat
<1>1. IsFiniteSet(View(p).rows) /\ IsFiniteSet(Node)
  BY ViewSound DEF Sound, KnowledgeAssumption
<1>2. IsFiniteSet(S)
  BY <1>1, FS_Subset
<1> QED BY <1>2, FS_CardinalityType

LEMMA ReadingTyped ==
    ASSUME KnowledgeAssumption, TypeOK, Books, NEW p \in Proc,
           Observe(p) \/ Summarise(p) \/ Restart(p)
    PROVE  reading' \in SUBSET Summary
<1>1. ASSUME NEW new \in Database, Adds(p, new), Commit(p, new)
      PROVE  reading' \in SUBSET Summary
  <2>1. ASSUME NEW r \in reading PROVE [r EXCEPT !.others = Meanwhile(p, r, new)] \in Summary
    <3>1. r \in [by : Proc, step : {"packets", "secret", "talkers", "done"}, nodes : Nat,
                 packets : Nat, secret : Nat, talkers : Nat, others : Nat]
      BY DEF TypeOK, Summary
    <3>2. Meanwhile(p, r, new) \in Nat
      BY <1>1, <3>1, RowsAdded DEF Meanwhile
    <3> DEFINE b == Meanwhile(p, r, new)
    <3> HIDE DEF b
    <3>3. b \in Nat => [r EXCEPT !.others = b] \in Summary
      BY <3>1 DEF Summary
    <3> QED BY <3>2, <3>3 DEF b
  <2> QED BY <1>1, <2>1 DEF Commit
<1>2. CASE reading' \subseteq reading
  BY <1>2 DEF TypeOK
<1>3. CASE CountNodes(p)
  <2>1. Cardinality({n \in Node : View(p).nodes[n].known}) \in Nat
    BY ViewCounts DEF Books
  <2> QED BY <1>3, <2>1 DEF CountNodes, Summary
<1>4. CASE CountRows(p)
  <2>1. Cardinality(View(p).rows) \in Nat
    BY ViewCounts DEF Books
  <2>2. PICK r \in reading :
          reading' = {[r EXCEPT !.step = "secret", !.packets = Cardinality(View(p).rows)]}
    BY <1>4 DEF CountRows
  <2>3. [r EXCEPT !.step = "secret", !.packets = Cardinality(View(p).rows)] \in Summary
    BY <2>1 DEF TypeOK, Summary
  <2> QED BY <2>2, <2>3
<1>5. CASE CountSecret(p)
  <2> DEFINE c == Cardinality({i \in View(p).rows : i.secret})
  <2>1. c \in Nat
    BY ViewCounts DEF Books
  <2>2. PICK r \in reading : reading' = {[r EXCEPT !.step = "talkers", !.secret = c]}
    BY <1>5 DEF CountSecret
  <2> HIDE DEF c
  <2>3. [r EXCEPT !.step = "talkers", !.secret = c] \in Summary
    BY <2>1 DEF TypeOK, Summary
  <2> QED BY <2>2, <2>3
<1>6. CASE TopTalkers(p)
  <2> DEFINE c == Fewer(TalkersLimit, Cardinality(Talkers(View(p))))
  <2>1. c \in Nat
    BY ViewCounts DEF Books, KnowledgeAssumption, Fewer, Talkers
  <2>2. PICK r \in reading : reading' = {[r EXCEPT !.step = "done", !.talkers = c]}
    BY <1>6 DEF TopTalkers
  <2> HIDE DEF c
  <2>3. [r EXCEPT !.step = "done", !.talkers = c] \in Summary
    BY <2>1 DEF TypeOK, Summary
  <2> QED BY <2>2, <2>3
<1>7. CASE Observe(p)
  <2>1. CASE UNCHANGED <<db, holder, work, reading>>
    BY <1>2, <2>1
  <2>2. ASSUME NEW new \in Database, Adds(p, new) PROVE reading' \in SUBSET Summary
    BY <1>1, <1>2, <2>2 DEF Adds, LeaveOpen
  <2> QED BY <1>7, <2>1, <2>2, Outcome
<1>8. CASE Restart(p) \/ Forget(p)
  BY <1>2, <1>8 DEF Restart, Forget
<1> QED BY <1>3, <1>4, <1>5, <1>6, <1>7, <1>8 DEF Summarise

\* The buffer gains the text in hand and nothing else, and keeps its length.
LEMMA RecentMoves ==
    ASSUME KnowledgeAssumption, TypeOK, Books, NEW p \in Proc,
           Observe(p) \/ Summarise(p) \/ Restart(p)
    PROVE  /\ recent' \in [Proc -> Seq(Packets)] /\ \A q \in Proc : Len(recent'[q]) <= RecentLen
           /\ \A q \in Proc : \A m \in Range(recent'[q]) :
                 m \in Range(recent[q]) \/ \E t \in At(q, "text") : t.packet = m
<1>1. \A q \in Proc : recent[q] \in Seq(Packets) /\ Len(recent[q]) <= RecentLen
  BY DEF TypeOK
<1>2. CASE recent' = recent
  BY <1>1, <1>2 DEF TypeOK
<1>3. CASE recent' = [recent EXCEPT ![p] = <<>>]
  <2>1. /\ <<>> \in Seq(Packets) /\ Len(<<>>) = 0 /\ Range(<<>>) = {}
    BY EmptySeq DEF Range
  <2>2. \A q \in Proc : recent'[q] = IF q = p THEN <<>> ELSE recent[q]
    BY <1>3 DEF TypeOK
  <2>3. 0 <= RecentLen
    BY DEF KnowledgeAssumption
  <2>4. recent' \in [Proc -> Seq(Packets)]
    BY <1>3, <2>1 DEF TypeOK
  <2> QED BY <1>1, <2>1, <2>2, <2>3, <2>4
<1>4. CASE Surface(p)
  <2>1. PICK t \in At(p, "text") :
          recent' = [recent EXCEPT ![p] = IF Len(Append(@, t.packet)) > RecentLen
                                          THEN Tail(Append(@, t.packet)) ELSE Append(@, t.packet)]
    BY <1>4 DEF Surface
  <2> DEFINE old == recent[p]
             all == Append(old, t.packet)
  <2>2. t.packet \in Packets /\ old \in Seq(Packets) /\ Len(old) \in Nat /\ Len(old) <= RecentLen
    BY <1>1, <2>1, AtStep
  <2>3. /\ all \in Seq(Packets) /\ Len(all) = Len(old) + 1
        /\ \A i \in 1..Len(old) : all[i] = old[i]
        /\ all[Len(old) + 1] = t.packet /\ all # <<>>
    BY <2>2, AppendProperties
  <2>4. /\ Tail(all) \in Seq(Packets) /\ Len(Tail(all)) = Len(all) - 1
        /\ \A i \in 1..Len(Tail(all)) : Tail(all)[i] = all[i + 1]
    BY <2>3, HeadTailProperties
  <2>5. recent'[p] = (IF Len(all) > RecentLen THEN Tail(all) ELSE all)
        /\ \A q \in Proc \ {p} : recent'[q] = recent[q]
    BY <2>1 DEF TypeOK
  <2>6. recent' \in [Proc -> Seq(Packets)]
    BY <2>1, <2>3, <2>4 DEF TypeOK
  <2> HIDE DEF all, old
  <2>7. Len(recent'[p]) <= RecentLen
    BY <2>2, <2>3, <2>4, <2>5 DEF KnowledgeAssumption
  <2>8. ASSUME NEW m \in Range(recent'[p]) PROVE m \in Range(old) \/ m = t.packet
    <3>1. recent'[p] \in Seq(Packets)
      BY <2>6
    <3>2. PICK i \in 1..Len(recent'[p]) : m = recent'[p][i]
      BY <3>1 DEF Range
    <3>3. PICK j \in 1..Len(all) : m = all[j]
      <4>1. CASE recent'[p] = all
        BY <3>2, <4>1
      <4>2. CASE recent'[p] = Tail(all)
        <5>1. i + 1 \in 1..Len(all) /\ m = all[i + 1]
          BY <2>2, <2>3, <2>4, <3>2, <4>2
        <5> QED BY <5>1
      <4> QED BY <2>5, <4>1, <4>2
    <3>4. j \in 1..Len(old) => m \in Range(old)
      <4>1. DOMAIN old = 1..Len(old)
        BY <2>2
      <4> QED BY <2>3, <3>3, <4>1 DEF Range
    <3>5. j = Len(old) + 1 => m = t.packet
      BY <2>3, <3>3
    <3> QED BY <2>2, <2>3, <3>3, <3>4, <3>5
  <2> QED BY <1>1, <2>1, <2>5, <2>6, <2>7, <2>8 DEF old
<1>5. recent' = recent \/ recent' = [recent EXCEPT ![p] = <<>>] \/ Surface(p)
  BY DEF Observe, Receive, RecordRow, FindNode, StoreNode, BumpCount, Summarise, Restart
<1> QED BY <1>2, <1>3, <1>4, <1>5

IInv == TypeOK /\ Books /\ TextsRecorded

LEMMA TypeKeeps == ASSUME KnowledgeAssumption, TypeOK, Books, Next PROVE TypeOK'
<1>1. PICK p \in Proc : Observe(p) \/ Summarise(p) \/ Restart(p)
  BY DEF Next
<1>2. Books' /\ task' \in [Proc -> SUBSET Task]
  BY NextKeeps
<1>3. db' \in Database /\ work' \in Database
  BY <1>2 DEF Books, Ahead, Sound
<1>4. reading' \in SUBSET Summary
  BY <1>1, ReadingTyped
<1>5. recent' \in [Proc -> Seq(Packets)] /\ \A q \in Proc : Len(recent'[q]) <= RecentLen
  BY <1>1, RecentMoves
<1>6. holder' \in SUBSET Proc
  <2>1. holder' = holder \/ holder' = {} \/ holder' = {p} \/ holder' = holder \ {p}
    BY <1>1 DEF Observe, Receive, RecordRow, FindNode, StoreNode, BumpCount, Surface, Write, Commit,
                LeaveOpen, Refused, Summarise, Restart
  <2> QED BY <2>1 DEF TypeOK
<1>7. heard' \in Nat
  <2>1. heard' = heard \/ heard' = heard + 1
    BY <1>1 DEF Observe, Receive, RecordRow, FindNode, StoreNode, BumpCount, Surface, Summarise, Restart
  <2> QED BY <2>1 DEF TypeOK
<1>8. cut' \in BOOLEAN
  BY <1>1 DEF TypeOK, Observe, Receive, RecordRow, FindNode, StoreNode, BumpCount, Surface, Write,
              Advance, Swallow, Summarise, Restart
<1> QED BY <1>2, <1>3, <1>4, <1>5, <1>6, <1>7, <1>8 DEF TypeOK

LEMMA TextsKeep ==
    ASSUME KnowledgeAssumption, TypeOK, Books, TextsRecorded, Next PROVE TextsRecorded'
<1>1. PICK p \in Proc : Observe(p) \/ Summarise(p) \/ Restart(p)
  BY DEF Next
<1>2. Grows(db, db') /\ db \in Database /\ db' \in Database
  BY NextKeeps DEF Books, Ahead, Sound
<1> SUFFICES ASSUME NEW q \in Proc, NEW m \in Range(recent'[q])
             PROVE  /\ \E r \in db'.rows : r.from = m.from /\ r.ts = m.ts /\ ~r.secret
                    /\ m.from # NoNode => db'.nodes[m.from].known
  BY DEF TextsRecorded
<1>3. m \in Packets
  <2>1. recent'[q] \in Seq(Packets)
    BY <1>1, RecentMoves
  <2> QED BY <2>1 DEF Range
<1>4. m.from \in Node \cup {NoNode}
  BY <1>3 DEF KnowledgeAssumption
<1>5. /\ \E r \in db.rows : r.from = m.from /\ r.ts = m.ts /\ ~r.secret
      /\ m.from # NoNode => db.nodes[m.from].known
  <2>1. CASE m \in Range(recent[q])
    BY <2>1 DEF TextsRecorded
  <2>2. CASE \E t \in At(q, "text") : t.packet = m
    <3>1. PICK t \in At(q, "text") : t.packet = m
      BY <2>2
    <3>2. t \in task[q] /\ t.todo[1] = "text" /\ Len(t.todo) = 1 /\ m.kind = "text"
      BY <3>1, AtStep
    <3>3. HasRow(db, m) /\ Knows(db, m)
      BY <3>1, <3>2 DEF Books, Recorded, Has
    <3> QED BY <1>4, <3>2, <3>3 DEF HasRow, Knows
  <2> QED BY <1>1, <2>1, <2>2, RecentMoves
<1> QED BY <1>2, <1>4, <1>5 DEF Grows

LEMMA InitHolds == ASSUME KnowledgeAssumption, Init PROVE IInv
<1>1. Sound(Empty) /\ Empty \in Database /\ Grows(Empty, Empty) /\ Empty.rows = {}
  BY EmptySound, GrowsOrder DEF Sound, Empty
<1>2. \A n \in Node : Empty.nodes[n].packets = 0 /\ ~Empty.nodes[n].known
  BY DEF Empty
<1>3. \A n : RowsFrom(Empty, n) = {} /\ Pending(n) = {} /\ Cardinality({}) = 0
  BY <1>1, FS_EmptySet DEF RowsFrom, Pending, Init
<1>4. \A p \in Proc : task[p] = {} /\ recent[p] = <<>>
  BY DEF Init
<1>5. <<>> \in Seq(Packets) /\ Len(<<>>) = 0 /\ Range(<<>>) = {} /\ 0 <= RecentLen
  BY EmptySeq DEF Range, KnowledgeAssumption
<1>6. TypeOK
  BY <1>1, <1>5 DEF Init, TypeOK
<1>7. Ahead /\ Tasks /\ Recorded /\ TextsRecorded
  BY <1>1, <1>4, <1>5 DEF Init, Ahead, Tasks, Recorded, TextsRecorded
<1>8. LedgerOf(Empty) /\ Exact
  <2>1. \A n \in Node : Cardinality(RowsFrom(Empty, n)) = 0 /\ Cardinality(Pending(n)) = 0
    BY <1>3, Zenon
  <2>2. LedgerOf(Empty)
    BY <1>2, <2>1 DEF LedgerOf
  <2>3. db = Empty /\ holder = {}
    BY DEF Init
  <2> QED BY <1>2, <2>1, <2>2, <2>3 DEF Exact
<1> QED BY <1>6, <1>7, <1>8 DEF IInv, Books, Init

\* The inductive invariant: types, an uncommitted file that only adds to the
\* committed one, and books that balance for every packet in hand.
THEOREM Inductive == ASSUME KnowledgeAssumption PROVE Spec => []IInv
<1>1. Init => IInv
  BY InitHolds
<1>2. IInv /\ [Next]_vars => IInv'
  <2> SUFFICES ASSUME IInv, [Next]_vars PROVE IInv'
    OBVIOUS
  <2>1. CASE Next
    BY <2>1, NextKeeps, TypeKeeps, TextsKeep DEF IInv
  <2>2. CASE UNCHANGED vars
    <3>1. UNCHANGED <<db, holder, work, task, recent, reading, heard, cut>>
      BY <2>2 DEF vars
    <3>2. \A n \in Node : Pending(n)' = Pending(n)
      BY <3>1 DEF Pending
    <3>3. TypeOK' /\ Ahead' /\ TextsRecorded'
      BY <3>1 DEF IInv, TypeOK, Books, Ahead, Sound, Grows, TextsRecorded
    <3>4. Tasks' /\ Recorded'
      BY <3>1 DEF IInv, Books, Tasks, Orderly, Has, Recorded, HasRow, Knows
    <3>5. LedgerOf(db)' /\ LedgerOf(work)' /\ Exact'
      BY <3>1, <3>2 DEF IInv, Books, LedgerOf, Exact, RowsFrom
    <3> QED BY <3>3, <3>4, <3>5 DEF IInv, Books
  <2> QED BY <2>1, <2>2
<1> QED BY <1>1, <1>2, PTL DEF Spec

\* Every variable keeps its type, and the buffer of texts its length.
THEOREM TypeCorrect == ASSUME KnowledgeAssumption PROVE Spec => []TypeOK
<1>1. IInv => TypeOK
  BY DEF IInv
<1> QED BY <1>1, Inductive, PTL

\* Counters never run ahead of the rows, and lag by the packets in hand only
\* while nothing was cut short (knowledge.py:138-181).
THEOREM BooksBalance == ASSUME KnowledgeAssumption PROVE Spec => []CountsFit
<1>1. IInv => CountsFit
  <2> SUFFICES ASSUME IInv PROVE CountsFit
    OBVIOUS
  <2>1. ASSUME NEW d \in {db, work}, NEW n \in Node
        PROVE  /\ d.nodes[n].packets <= Cardinality(RowsFrom(d, n))
               /\ d.nodes[n].known => RowsFrom(d, n) # {}
    <3>1. Sound(d) /\ Grows(d, d) /\ LedgerOf(d)
      BY GrowsOrder DEF IInv, Books, Ahead, Sound
    <3>2. d.nodes[n].packets \in Nat /\ Cardinality(RowsFrom(d, n)) \in Nat
      BY <3>1, RowsGrow DEF Sound, Database, NodeRow
    <3>3. IsFiniteSet(Pending(n))
      BY FS_Subset DEF Pending, KnowledgeAssumption
    <3>4. Cardinality(Pending(n)) \in Nat
      BY <3>3, FS_CardinalityType
    <3> QED BY <3>1, <3>2, <3>4 DEF LedgerOf
  <2> QED BY <2>1 DEF CountsFit, IInv, Books, Exact
<1> QED BY <1>1, Inductive, PTL

\* A text that can be read was recorded, and so was its sender
\* (observer.py:57, :85).
THEOREM TextsAreRecorded == ASSUME KnowledgeAssumption PROVE Spec => []TextsRecorded
<1>1. IInv => TextsRecorded
  BY DEF IInv
<1> QED BY <1>1, Inductive, PTL

\* Nothing that was committed is lost or taken back, whatever fails
\* (knowledge.py:125-136).
THEOREM NothingIsLost == ASSUME KnowledgeAssumption PROVE Spec => KnowledgeStays
<1>1. IInv /\ [Next]_vars =>
        [/\ db.rows \subseteq db'.rows
         /\ \A n \in Node :
              /\ db.nodes[n].packets <= db'.nodes[n].packets
              /\ db.nodes[n].known =>
                  db'.nodes[n].known /\ db'.nodes[n].first = db.nodes[n].first
              /\ db.nodes[n].named => db'.nodes[n].named]_vars
  BY NextKeeps DEF IInv, Grows
<1> QED BY <1>1, Inductive, PTL DEF Spec, KnowledgeStays
-----------------------------------------------------------------------------
(* The summary *)

Known(d) == {n \in Node : d.nodes[n].known}

\* What a summary has counted can only have grown since, and while its process
\* holds the lock by what other processes add and by nothing else.
CountedSoFar(r) ==
    /\ r.nodes <= Cardinality(Known(View(r.by)))
    /\ IF r.step = "packets" THEN r.others = 0 ELSE r.nodes <= r.packets
    /\ r.step = "secret" => r.packets + r.others = Cardinality(View(r.by).rows)
    /\ r.step \in {"talkers", "done"} => r.secret <= r.packets + r.others
    /\ r.step = "done" =>
          /\ r.talkers <= TalkersLimit
          /\ r.nodes <= r.talkers \/ r.talkers = TalkersLimit

Counted == OneHolder /\ \A r \in reading : CountedSoFar(r)

LEMMA KnownTalk ==
    ASSUME KnowledgeAssumption, NEW d, Sound(d),
           \A n \in Node : d.nodes[n].known => RowsFrom(d, n) # {}
    PROVE  /\ Cardinality(Known(d)) \in Nat /\ Cardinality(d.rows) \in Nat
           /\ Cardinality(Talkers(d)) \in Nat
           /\ Cardinality(Known(d)) <= Cardinality(Talkers(d))
           /\ Cardinality(Talkers(d)) <= Cardinality(d.rows)
<1>1. IsFiniteSet(Node) /\ IsFiniteSet(d.rows) /\ Known(d) \subseteq Talkers(d)
  BY DEF KnowledgeAssumption, Sound, Known, Talkers
<1>2. IsFiniteSet(Talkers(d)) /\ IsFiniteSet(Known(d))
  BY <1>1, FS_Subset DEF Known, Talkers
<1>3. Cardinality(Known(d)) <= Cardinality(Talkers(d))
  BY <1>1, <1>2, FS_Subset
<1>4. Cardinality(Talkers(d)) <= Cardinality(d.rows)
  <2> DEFINE one == [n \in Talkers(d) |-> CHOOSE r \in d.rows : r.from = n]
  <2>1. \A n \in Talkers(d) : one[n] \in d.rows /\ one[n].from = n
    BY DEF Talkers, RowsFrom
  <2>2. one \in [Talkers(d) -> d.rows]
    BY <2>1
  <2>3. \A m, n \in Talkers(d) : one[m] = one[n] => m = n
    BY <2>1
  <2> HIDE DEF one
  <2>4. one \in Injection(Talkers(d), d.rows)
    BY <2>2, <2>3 DEF Injection, IsInjective
  <2> QED BY <1>1, <2>4, FS_Injection
<1> QED BY <1>1, <1>2, <1>3, <1>4, FS_CardinalityType

LEMMA KnownGrows ==
    ASSUME KnowledgeAssumption, NEW d, NEW e, Grows(d, e)
    PROVE  Cardinality(Known(d)) <= Cardinality(Known(e))
<1>1. Known(d) \subseteq Known(e) /\ Known(e) \subseteq Node
  BY DEF Grows, Known
<1> QED BY <1>1, FS_Subset DEF KnowledgeAssumption

\* What a process sees is sound.
LEMMA SeesSound ==
    ASSUME Books, NEW q
    PROVE  Sound(View(q)) /\ \A n \in Node : View(q).nodes[n].known => RowsFrom(View(q), n) # {}
BY ViewSound DEF Books, LedgerOf

LEMMA ObserveCounts ==
    ASSUME KnowledgeAssumption, TypeOK, Books, Counted, NEW p \in Proc, Observe(p)
    PROVE  Counted'
<1>1. CASE UNCHANGED <<db, holder, work, reading>>
  <2>1. \A q : View(q)' = View(q)
    BY <1>1 DEF View
  <2> QED BY <1>1, <2>1 DEF Counted, OneHolder, CountedSoFar, Known, View
<1>2. ASSUME NEW new \in Database, Adds(p, new) PROVE Counted'
  <2>1. OneHolder'
    BY <1>2, AddsViews
  <2>2. ASSUME NEW r \in reading, NEW others \in Nat,
               r.step = "secret" => r.packets + others = Cardinality(View(r.by)'.rows),
               r.step # "secret" => others = r.others,
               NEW s, s = [r EXCEPT !.others = others]
        PROVE  CountedSoFar(s)'
    <3>1. r \in Summary /\ CountedSoFar(r) /\ r.by \in Proc
      BY DEF TypeOK, Counted, Summary
    <3>2. /\ s.by = r.by /\ s.step = r.step /\ s.nodes = r.nodes /\ s.packets = r.packets
          /\ s.secret = r.secret /\ s.talkers = r.talkers /\ s.others = others
      BY <2>2, <3>1 DEF Summary
    <3>3. Grows(View(r.by), View(r.by)')
      BY <1>2, <3>1, AddsViews
    <3>4. Cardinality(Known(View(r.by))) <= Cardinality(Known(View(r.by)'))
      BY <3>3, KnownGrows
    <3>5. /\ Cardinality(Known(View(r.by))) \in Nat /\ Cardinality(Known(View(r.by)')) \in Nat
          /\ r.nodes \in Nat
      <4>1. Known(View(r.by)) \subseteq Node /\ Known(View(r.by)') \subseteq Node
        BY DEF Known
      <4>2. IsFiniteSet(Known(View(r.by))) /\ IsFiniteSet(Known(View(r.by)'))
        BY <4>1, FS_Subset DEF KnowledgeAssumption
      <4> QED BY <3>1, <4>2, FS_CardinalityType DEF Summary
    <3>6. r.nodes <= Cardinality(Known(View(r.by)'))
      BY <3>1, <3>4, <3>5 DEF CountedSoFar
    <3>7. View(s.by)' = View(r.by)'
      BY <3>2 DEF View
    <3> QED BY <2>2, <3>1, <3>2, <3>6, <3>7 DEF CountedSoFar, Known
  <2>3. CASE LeaveOpen(p, new)
    <3>1. ASSUME NEW r \in reading PROVE CountedSoFar(r)'
      <4>1. /\ r \in Summary /\ CountedSoFar(r) /\ r.by \in Proc /\ r.others \in Nat
            /\ r = [r EXCEPT !.others = r.others]
        BY DEF TypeOK, Counted, Summary
      <4>2. r.step = "secret" => View(r.by)' = View(r.by)
        BY <1>2, <2>3, <4>1, AddsViews DEF Adds, Locked
      <4> QED BY <2>2, <4>1, <4>2 DEF CountedSoFar
    <3> QED BY <2>1, <2>3, <3>1 DEF Counted, LeaveOpen
  <2>4. CASE Commit(p, new)
    <3>1. ASSUME NEW s \in reading' PROVE CountedSoFar(s)'
      <4>1. PICK r \in reading : s = [r EXCEPT !.others = Meanwhile(p, r, new)]
        BY <2>4 DEF Commit
      <4>2. /\ r \in Summary /\ CountedSoFar(r) /\ r.by \in Proc
            /\ r.others \in Nat /\ r.packets \in Nat
        BY DEF TypeOK, Counted, Summary
      <4>3. /\ Cardinality(db.rows) \in Nat /\ Cardinality(new.rows) \in Nat
            /\ Cardinality(db.rows) <= Cardinality(new.rows)
        BY <1>2, RowsAdded
      <4>4. r.step # "secret" => Meanwhile(p, r, new) = r.others
        BY DEF Meanwhile
      <4>5. ASSUME r.step = "secret"
            PROVE  /\ Meanwhile(p, r, new) \in Nat
                   /\ r.packets + Meanwhile(p, r, new) = Cardinality(View(r.by)'.rows)
        <5>1. r.by # p
          BY <1>2, <4>5 DEF Adds, Locked
        <5>2. View(r.by) = db /\ View(r.by)' = new
          BY <1>2, <2>4, <5>1 DEF Adds, Free, View, Commit
        <5>3. r.packets + r.others = Cardinality(db.rows)
          BY <4>2, <4>5, <5>2 DEF CountedSoFar
        <5> QED BY <4>2, <4>3, <4>5, <5>1, <5>2, <5>3 DEF Meanwhile
      <4>6. Meanwhile(p, r, new) \in Nat
        BY <4>2, <4>4, <4>5
      <4> QED BY <2>2, <4>1, <4>4, <4>5, <4>6
    <3> QED BY <2>1, <3>1 DEF Counted
  <2> QED BY <1>2, <2>3, <2>4 DEF Adds
<1> QED BY <1>1, <1>2, Outcome

LEMMA RestartCounts ==
    ASSUME KnowledgeAssumption, TypeOK, Counted, NEW p \in Proc, Restart(p)
    PROVE  Counted'
<1>1. OneHolder'
  BY DEF Counted, OneHolder, Restart
<1>2. ASSUME NEW r \in reading' PROVE CountedSoFar(r)'
  <2>1. r \in reading /\ r.by # p
    BY DEF Restart
  <2>2. View(r.by)' = View(r.by)
    BY <2>1 DEF View, Restart, Counted, OneHolder
  <2>3. CountedSoFar(r)
    BY <2>1 DEF Counted
  <2> QED BY <2>2, <2>3 DEF CountedSoFar, Known
<1> QED BY <1>1, <1>2 DEF Counted

LEMMA SummariseCounts ==
    ASSUME KnowledgeAssumption, TypeOK, Books, Counted, NEW p \in Proc, Summarise(p)
    PROVE  Counted'
<1>1. UNCHANGED <<db, holder, work>>
  BY DEF Summarise
<1>2. OneHolder' /\ \A q : View(q)' = View(q)
  BY <1>1 DEF OneHolder, View, Counted
<1> DEFINE d == View(p)
<1>3. /\ Cardinality(Known(d)) \in Nat /\ Cardinality(d.rows) \in Nat
      /\ Cardinality(Talkers(d)) \in Nat
      /\ Cardinality(Known(d)) <= Cardinality(Talkers(d))
      /\ Cardinality(Talkers(d)) <= Cardinality(d.rows) /\ IsFiniteSet(d.rows)
  BY SeesSound, KnownTalk DEF Sound
<1>4. ASSUME NEW s, s.by = p,
             /\ s.nodes <= Cardinality(Known(d))
             /\ IF s.step = "packets" THEN s.others = 0 ELSE s.nodes <= s.packets
             /\ s.step = "secret" => s.packets + s.others = Cardinality(d.rows)
             /\ s.step \in {"talkers", "done"} => s.secret <= s.packets + s.others
             /\ s.step = "done" => /\ s.talkers <= TalkersLimit
                                   /\ s.nodes <= s.talkers \/ s.talkers = TalkersLimit
      PROVE  CountedSoFar(s)'
  BY <1>2, <1>4 DEF CountedSoFar, Known
<1> HIDE DEF d
<1>5. ASSUME NEW r \in reading
      PROVE  /\ r \in [by : Proc, step : {"packets", "secret", "talkers", "done"}, nodes : Nat,
                        packets : Nat, secret : Nat, talkers : Nat, others : Nat]
             /\ r.by = p =>
                  /\ r.nodes <= Cardinality(Known(d))
                  /\ IF r.step = "packets" THEN r.others = 0 ELSE r.nodes <= r.packets
                  /\ r.step = "secret" => r.packets + r.others = Cardinality(d.rows)
                  /\ r.step \in {"talkers", "done"} => r.secret <= r.packets + r.others
  BY <1>5 DEF TypeOK, Summary, Counted, CountedSoFar, d
<1>6. CASE CountNodes(p)
  <2>1. PICK s : /\ reading' = {s} /\ s.by = p /\ s.step = "packets" /\ s.others = 0
                 /\ s.nodes = Cardinality(Known(d))
    <3> DEFINE e == [by |-> p, step |-> "packets", packets |-> 0, secret |-> 0,
                     talkers |-> 0, others |-> 0, nodes |-> Cardinality(Known(d))]
    <3>1. reading' = {e}
      BY <1>6 DEF CountNodes, Known, d
    <3>2. e.by = p /\ e.step = "packets" /\ e.others = 0 /\ e.nodes = Cardinality(Known(d))
      OBVIOUS
    <3> HIDE DEF e
    <3> QED BY <3>1, <3>2
  <2>2. CountedSoFar(s)'
    BY <1>3, <1>4, <2>1
  <2> QED BY <1>2, <2>1, <2>2 DEF Counted
<1>7. CASE CountRows(p)
  <2>1. PICK r \in reading : /\ r.by = p /\ r.step = "packets"
             /\ reading' = {[r EXCEPT !.step = "secret", !.packets = Cardinality(d.rows)]}
    BY <1>7 DEF CountRows, d
  <2>2. PICK c : c = Cardinality(d.rows)
    OBVIOUS
  <2>3. PICK s : s = [r EXCEPT !.step = "secret", !.packets = c]
    OBVIOUS
  <2>4. /\ reading' = {s} /\ s.by = p /\ s.step = "secret" /\ s.nodes = r.nodes /\ s.packets = c
        /\ s.others = 0
    BY <1>5, <2>1, <2>2, <2>3
  <2>5. r.nodes \in Nat /\ r.nodes <= Cardinality(Known(d)) /\ r.nodes <= c
    BY <1>3, <1>5, <2>1, <2>2
  <2>6. CountedSoFar(s)'
    BY <1>3, <1>4, <2>2, <2>4, <2>5
  <2> QED BY <1>2, <2>4, <2>6 DEF Counted
<1>8. CASE CountSecret(p)
  <2>1. PICK c : c = Cardinality({i \in d.rows : i.secret})
    OBVIOUS
  <2>2. PICK r \in reading : /\ r.by = p /\ r.step = "secret"
             /\ reading' = {[r EXCEPT !.step = "talkers", !.secret = c]}
    BY <1>8, <2>1 DEF CountSecret, d
  <2>3. c <= Cardinality(d.rows)
    BY <1>3, <2>1, FS_Subset
  <2>4. PICK s : s = [r EXCEPT !.step = "talkers", !.secret = c]
    OBVIOUS
  <2>5. /\ reading' = {s} /\ s.by = p /\ s.step = "talkers" /\ s.nodes = r.nodes
        /\ s.packets = r.packets /\ s.secret = c /\ s.others = r.others
    BY <1>5, <2>2, <2>4
  <2>6. CountedSoFar(s)'
    BY <1>4, <1>5, <2>2, <2>3, <2>5
  <2> QED BY <1>2, <2>5, <2>6 DEF Counted
<1>9. CASE TopTalkers(p)
  <2>1. PICK c : c = Fewer(TalkersLimit, Cardinality(Talkers(d)))
    OBVIOUS
  <2>2. PICK r \in reading : /\ r.by = p /\ r.step = "talkers"
             /\ reading' = {[r EXCEPT !.step = "done", !.talkers = c]}
    BY <1>9, <2>1 DEF TopTalkers, d
  <2>3. PICK s : s = [r EXCEPT !.step = "done", !.talkers = c]
    OBVIOUS
  <2>4. /\ reading' = {s} /\ s.by = p /\ s.step = "done" /\ s.nodes = r.nodes
        /\ s.packets = r.packets /\ s.secret = r.secret /\ s.talkers = c /\ s.others = r.others
    BY <1>5, <2>2, <2>3
  <2>5. r.nodes \in Nat /\ c <= TalkersLimit /\ (r.nodes <= c \/ c = TalkersLimit)
    BY <1>3, <1>5, <2>1, <2>2 DEF Fewer, KnowledgeAssumption
  <2>6. CountedSoFar(s)'
    BY <1>4, <1>5, <2>2, <2>4, <2>5
  <2> QED BY <1>2, <2>4, <2>6 DEF Counted
<1>10. CASE Forget(p)
  BY <1>2, <1>10 DEF Forget, Counted
<1> QED BY <1>6, <1>7, <1>8, <1>9, <1>10 DEF Summarise

\* A summary's numbers fit each other as far as its process can see to it
\* (knowledge.py:245-263).
THEOREM SummariesAddUp == ASSUME KnowledgeAssumption PROVE Spec => []SummaryAddsUp
<1>1. Init => Counted
  BY DEF Init, Counted, OneHolder
<1>2. IInv /\ Counted /\ [Next]_vars => Counted'
  <2> SUFFICES ASSUME IInv, Counted, [Next]_vars PROVE Counted'
    OBVIOUS
  <2>1. CASE Next
    BY <2>1, ObserveCounts, SummariseCounts, RestartCounts DEF Next, IInv
  <2>2. CASE UNCHANGED vars
    <3>1. UNCHANGED <<db, holder, work, reading>> /\ \A q : View(q)' = View(q)
      BY <2>2 DEF vars, View
    <3> QED BY <3>1 DEF Counted, OneHolder, CountedSoFar, Known
  <2> QED BY <2>1, <2>2
<1>3. Counted => SummaryAddsUp
  BY DEF Counted, CountedSoFar, SummaryAddsUp
<1> QED BY <1>1, <1>2, <1>3, Inductive, PTL DEF Spec

\* Whatever is in the file, in the radio's table and among the recent texts, and
\* whatever is asked, no answer discloses what its switch withholds
\* (privacy.py:30-46, tools.py:352-439).
THEOREM GatesHold == ASSUME KnowledgeAssumption PROVE Spec => []GatesWithhold
<1>1. GatesWithhold
  <2> SUFFICES ASSUME NEW flags \in Flags
               PROVE  /\ \A d \in {db, work} : \A a \in Queries(flags, d) :
                            /\ "place" \in a.shows => "location" \in flags
                            /\ a.shows # {} => "traffic" \in flags
                      /\ \A a \in Radio(flags) : "place" \in a.shows => "location" \in flags
                      /\ \A p \in Proc : \A k \in Limits :
                          "text" \in RecentMessages(flags, p, k).shows => "text" \in flags
    BY DEF GatesWithhold
  <2>1. \A count, shows : Answer(count, shows).shows \subseteq shows
    BY DEF Answer
  <2>2. \A shows : "place" \in RedactLocation(flags, shows) => "location" \in flags
    BY DEF RedactLocation
  <2>3. \A count, shows :
            /\ "place" \in Gated(flags, count, shows).shows => "location" \in flags
            /\ Gated(flags, count, shows).shows # {} => "traffic" \in flags
    BY <2>1, <2>2 DEF Gated
  <2>4. ASSUME NEW d, NEW a \in Queries(flags, d)
        PROVE  /\ "place" \in a.shows => "location" \in flags
               /\ a.shows # {} => "traffic" \in flags
    <3>1. CASE a = KbSummary(flags, d)
      BY <2>1, <3>1 DEF KbSummary
    <3>2. CASE \E count, shows : a = Gated(flags, count, shows)
      BY <2>3, <3>2
    <3>3. /\ \A k : \E count, shows : KbNodes(flags, d, k) = Gated(flags, count, shows)
          /\ \A n, t, k : \E count, shows :
                KbInteractions(flags, d, n, t, k) = Gated(flags, count, shows)
          /\ \A n, k : \E count, shows : KbNeighbors(flags, d, n, k) = Gated(flags, count, shows)
      BY DEF KbNodes, KbInteractions, KbNeighbors
    <3>4. \/ a = KbSummary(flags, d)
          \/ \E k \in Limits : a = KbNodes(flags, d, k)
          \/ \E k \in Limits, n \in Node \cup {NoNode}, t \in Since :
                a = KbInteractions(flags, d, n, t, k)
          \/ \E k \in Limits, n \in Node : a = KbNeighbors(flags, d, n, k)
      BY <2>4 DEF Queries
    <3> QED BY <3>1, <3>2, <3>3, <3>4
  <2>5. \A a \in Radio(flags) : "place" \in a.shows => "location" \in flags
    BY <2>1, <2>2 DEF Radio, ListNodes, NodeInfo
  <2>6. \A p, k : "text" \in RecentMessages(flags, p, k).shows => "text" \in flags
    BY <2>1 DEF RecentMessages, RedactMessages
  <2> QED BY <2>4, <2>5, <2>6
<1> QED BY <1>1, PTL
-----------------------------------------------------------------------------
(* One process, and nothing fails *)

\* Who stores a node has just asked for it.
Asks(t) ==
    \A i, j \in 1..Len(t.todo) :
        j = i + 1 /\ t.todo[j] \in {"node", "name"} => t.todo[i] = "find"

\* Nothing was cut short, and what upsert_node() was told still holds.
Undisturbed ==
    /\ ~cut
    /\ \A p \in Proc : \A t \in task[p] :
         /\ Asks(t)
         /\ t.todo[1] \in {"node", "name"} => t.found \/ ~db.nodes[t.packet.from].known

Alone == \A p, q \in Proc : p = q

LEMMA CountAlone ==
    ASSUME Alone, NEW p \in Proc, NEW S \in SUBSET Proc
    PROVE  Cardinality(S) = Unit(p \in S)
<1>1. S = IF p \in S THEN {p} ELSE {}
  BY DEF Alone
<1>2. Cardinality({}) = 0 /\ Cardinality({p}) = 1
  BY FS_EmptySet, FS_Singleton
<1> QED BY <1>1, <1>2 DEF Unit

LEMMA NewAsks ==
    ASSUME KnowledgeAssumption, NEW k \in Packets
    PROVE  Asks(New(k))
<1>1. \/ Steps(k) = <<"row">>
      \/ Steps(k) = <<"row", "text">>
      \/ Steps(k) = <<"row", "find", "node", "count">>
      \/ Steps(k) = <<"row", "find", "node", "count", "find", "name">>
      \/ Steps(k) = <<"row", "find", "node", "count", "text">>
  BY DEF Steps
<1> QED BY <1>1 DEF Asks, New

LEMMA AdvanceAsks ==
    ASSUME TypeOK, NEW p \in Proc, NEW t \in task[p], Orderly(t), Asks(t),
           NEW u \in Task, u.packet = t.packet, u.todo = t.todo, Advance(p, u)
    PROVE  \A v \in task'[p] :
              /\ Asks(v) /\ v.packet = t.packet /\ v.found = u.found
              /\ v.todo[1] \in {"node", "name"} => t.todo[1] = "find"
              /\ v.todo # <<>> /\ v.todo \in Seq(Step)
<1>1. t \in Task /\ t.todo \in Seq(Step) /\ Len(t.todo) \in Nat \ {0}
  BY EmptySeq DEF TypeOK, Task, Orderly
<1> SUFFICES ASSUME NEW v \in task'[p]
             PROVE  /\ Asks(v) /\ v.packet = t.packet /\ v.found = u.found
                    /\ v.todo[1] \in {"node", "name"} => t.todo[1] = "find"
                    /\ v.todo # <<>> /\ v.todo \in Seq(Step)
  OBVIOUS
<1>2. Len(t.todo) # 1 /\ v = [u EXCEPT !.todo = Tail(@)]
  BY DEF Advance, TypeOK
<1>3. v.packet = t.packet /\ v.found = u.found /\ v.todo = Tail(t.todo)
  BY <1>2 DEF Task
<1>4. /\ v.todo \in Seq(Step) /\ Len(v.todo) = Len(t.todo) - 1
      /\ \A i \in 1..Len(v.todo) : v.todo[i] = t.todo[i + 1]
  BY <1>1, <1>3, HeadTailProperties, EmptySeq
<1>5. 1 \in 1..Len(t.todo) /\ 2 \in 1..Len(t.todo) /\ 1 \in 1..Len(v.todo)
  <2>1. Len(t.todo) \in Nat \ {0} /\ Len(t.todo) # 1
    BY <1>1, <1>2
  <2>2. Len(v.todo) = Len(t.todo) - 1
    BY <1>4
  <2>3. \A n \in Nat \ {0} : n # 1 => 1 \in 1..n /\ 2 \in 1..n /\ 1 \in 1..(n - 1)
    OBVIOUS
  <2> QED BY <2>1, <2>2, <2>3
<1>6. v.todo[1] \in {"node", "name"} => t.todo[1] = "find"
  <2>1. v.todo[1] = t.todo[2]
    BY <1>4, <1>5
  <2> QED BY <1>5, <2>1 DEF Asks
<1>7. Asks(v)
  <2> SUFFICES ASSUME NEW i \in 1..Len(v.todo), NEW j \in 1..Len(v.todo), j = i + 1,
                      v.todo[j] \in {"node", "name"}
               PROVE  v.todo[i] = "find"
    BY DEF Asks
  <2>1. i + 1 \in 1..Len(t.todo) /\ j + 1 \in 1..Len(t.todo) /\ j + 1 = (i + 1) + 1
    BY <1>1, <1>4
  <2>2. v.todo[i] = t.todo[i + 1] /\ v.todo[j] = t.todo[j + 1]
    BY <1>4
  <2> QED BY <2>1, <2>2 DEF Asks
<1>8. v.todo # <<>>
  BY <1>4, <1>5, EmptySeq
<1> QED BY <1>3, <1>4, <1>6, <1>7, <1>8

\* A statement of a process that is alone is executed and committed.
LEMMA WritesAlone ==
    ASSUME Alone, ~Faults, NEW p \in Proc, holder = {}, NEW t, NEW new, Write(p, t, new)
    PROVE  Advance(p, t) /\ db' = new
BY DEF Write, Refused, Free, Commit

LEMMA AloneKeeps ==
    ASSUME KnowledgeAssumption, Alone, ~Faults, IInv, Undisturbed, EveryPacketRecorded, Next
    PROVE  Undisturbed' /\ EveryPacketRecorded'
<1>1. PICK p \in Proc : Observe(p) \/ Summarise(p) \/ Restart(p)
  BY DEF Next
<1>2. /\ TypeOK /\ Books /\ Sound(db) /\ IsFiniteSet(db.rows) /\ db \in Database
      /\ holder = {} /\ View(p) = db /\ Free(p)
      /\ Proc = {p} /\ heard \in Nat
      /\ TypeOK' /\ Books' /\ task' \in [Proc -> SUBSET Task]
  BY <1>1, NextKeeps, TypeKeeps
     DEF IInv, Books, Ahead, Sound, Exact, Undisturbed, View, Free, Alone, TypeOK
<1>3. Cardinality(db.rows) \in Nat
  BY <1>2, FS_CardinalityType
<1> DEFINE Handed == {q \in Proc : At(q, "row") # {}}
<1>4. /\ heard = Cardinality(db.rows) + Unit(At(p, "row") # {})
      /\ heard' = Cardinality(db'.rows) + Unit((At(p, "row") # {})') => EveryPacketRecorded'
  <2>1. Cardinality(Handed) = Unit(p \in Handed) /\ Cardinality(Handed') = Unit(p \in Handed')
    BY CountAlone
  <2>2. p \in Handed <=> At(p, "row") # {}
    BY DEF Handed
  <2>3. p \in Handed' <=> (At(p, "row") # {})'
    BY DEF Handed
  <2> QED BY <2>1, <2>2, <2>3 DEF EveryPacketRecorded, Unit
\* The handling goes on with the next step; a row is written by the first.
<1>5. ASSUME NEW t \in task[p], NEW u \in Task, u.packet = t.packet, u.todo = t.todo,
             Advance(p, u), heard' = heard,
             t.todo[1] = "find" => db' = db /\ u.found = db.nodes[t.packet.from].known,
             Cardinality(db'.rows) = Cardinality(db.rows) + Unit(t.todo[1] = "row")
      PROVE  Undisturbed' /\ EveryPacketRecorded'
  <2>1. Orderly(t) /\ Asks(t) /\ t \in Task /\ \A v \in task[p] : v = t
    BY <1>2 DEF Books, Tasks, Undisturbed, TypeOK
  <2>2. \A v \in task'[p] :
           /\ Asks(v) /\ v.packet = t.packet /\ v.found = u.found
           /\ v.todo[1] \in {"node", "name"} => t.todo[1] = "find"
           /\ v.todo # <<>> /\ v.todo \in Seq(Step)
    BY <1>2, <1>5, <2>1, AdvanceAsks
  <2>3. Undisturbed'
    <3>1. ~cut'
      BY <1>5 DEF Advance, Undisturbed
    <3>2. ASSUME NEW q \in Proc, NEW v \in task'[q]
          PROVE  /\ Asks(v)
                 /\ v.todo[1] \in {"node", "name"} =>
                      v.found \/ ~db'.nodes[v.packet.from].known
      BY <1>2, <1>5, <2>2
    <3> QED BY <3>1, <3>2 DEF Undisturbed, Asks
  <2>4. At(p, "row") # {} <=> t.todo[1] = "row"
    <3>1. t.todo \in Seq(Step) /\ t.todo # <<>>
      BY <2>1 DEF Task, Orderly
    <3>2. Head(t.todo) = t.todo[1]
      BY <3>1
    <3> QED BY <2>1, <3>2 DEF At
  <2>5. ~(At(p, "row") # {})'
    <3>1. \A v \in task'[p] : ~Has(v, "row")
      BY <1>2, <1>5, AdvanceTasks DEF Books
    <3>2. ASSUME NEW v \in task'[p] PROVE Head(v.todo) # "row"
      <4>1. v.todo \in Seq(Step) /\ v.todo # <<>>
        BY <2>2
      <4>2. Head(v.todo) = v.todo[1] /\ 1 \in 1..Len(v.todo)
        BY <4>1, EmptySeq
      <4> QED BY <3>1, <4>2 DEF Has
    <3> QED BY <3>2 DEF At
  <2> QED BY <1>3, <1>4, <1>5, <2>3, <2>4, <2>5 DEF Unit
<1>6. CASE Receive(p)
  <2>1. PICK k \in Packets :
          task' = [task EXCEPT ![p] = {[packet |-> k, todo |-> Steps(k), found |-> FALSE]}]
    BY <1>6 DEF Receive
  <2>2. task'[p] = {New(k)} /\ task[p] = {}
    BY <1>2, <1>6, <2>1 DEF New, Receive, TypeOK
  <2>3. Asks(New(k)) /\ New(k) \in Task /\ Orderly(New(k)) /\ New(k).todo[1] = "row"
    BY NewAsks, NewTask
  <2>4. UNCHANGED <<db, cut>> /\ heard' = heard + 1
    BY <1>6 DEF Receive
  <2>5. Undisturbed'
    BY <1>2, <2>2, <2>3, <2>4 DEF Undisturbed, Asks
  <2>6. Head(New(k).todo) = "row"
    BY <2>3 DEF Task, Orderly
  <2>7. At(p, "row") = {} /\ (At(p, "row") # {})'
    BY <2>2, <2>6 DEF At
  <2> QED BY <1>3, <1>4, <2>4, <2>5, <2>7 DEF Unit
<1>7. CASE RecordRow(p)
  <2>1. PICK t \in At(p, "row") : Write(p, t, InsertRow(View(p), t.packet)) /\ heard' = heard
    BY <1>7 DEF RecordRow
  <2>2. t \in task[p] /\ t \in Task /\ t.todo[1] = "row" /\ t.packet \in Packets
    BY <1>2, AtStep
  <2>3. Advance(p, t) /\ db' = InsertRow(db, t.packet)
    BY <1>2, <2>1, WritesAlone
  <2>4. PICK r \in InteractionRow \ db.rows : db'.rows = db.rows \cup {r}
    BY <1>2, <2>2, <2>3, InsertSound
  <2>5. Cardinality(db'.rows) = Cardinality(db.rows) + 1
    BY <1>2, <2>4, FS_AddElement
  <2> QED BY <1>5, <2>1, <2>2, <2>3, <2>5 DEF Unit
<1>8. CASE FindNode(p)
  <2>1. PICK t \in At(p, "find") :
          /\ Advance(p, [t EXCEPT !.found = db.nodes[t.packet.from].known])
          /\ db' = db /\ heard' = heard
    BY <1>2, <1>8 DEF FindNode
  <2> DEFINE u == [t EXCEPT !.found = db.nodes[t.packet.from].known]
  <2>2. t \in task[p] /\ t \in Task /\ t.todo[1] = "find" /\ t.packet.from \in Node
    BY <1>2, AtStep
  <2>3. db.nodes[t.packet.from].known \in BOOLEAN
    BY <1>2, <2>2 DEF Database, NodeRow
  <2>4. /\ u \in Task /\ u.packet = t.packet /\ u.todo = t.todo
        /\ u.found = db.nodes[t.packet.from].known
    BY <2>2, <2>3 DEF Task
  <2> HIDE DEF u
  <2>5. Advance(p, u)
    BY <2>1 DEF u
  <2> QED BY <1>3, <1>5, <2>1, <2>2, <2>4, <2>5 DEF Unit
<1>9. CASE StoreNode(p)
  <2>1. PICK t \in At(p, "node") \cup At(p, "name") :
          /\ heard' = heard
          /\ LET raced == ~t.found /\ View(p).nodes[t.packet.from].known IN
             \/ ~raced /\ Write(p, t, UpsertNode(View(p), t.packet, Head(t.todo) = "name"))
             \/ raced
    BY <1>9 DEF StoreNode
  <2>2. /\ t \in task[p] /\ t \in Task /\ t.todo[1] \in {"node", "name"}
        /\ t.packet \in Packets /\ t.packet.from \in Node
    BY <1>2, AtStep
  <2>3. t.found \/ ~db.nodes[t.packet.from].known
    BY <2>2 DEF Undisturbed
  <2> DEFINE named == (Head(t.todo) = "name")
  <2>4. Advance(p, t) /\ db' = UpsertNode(db, t.packet, named)
    BY <1>2, <2>1, <2>3, WritesAlone
  <2>5. named \in BOOLEAN
    OBVIOUS
  <2> HIDE DEF named
  <2>6. db'.rows = db.rows
    BY <1>2, <2>2, <2>4, <2>5 DEF UpsertNode, Database
  <2> QED BY <1>3, <1>5, <2>1, <2>2, <2>4, <2>6 DEF Unit
<1>10. CASE BumpCount(p)
  <2>1. PICK t \in At(p, "count") :
          Write(p, t, CountPacket(View(p), t.packet.from)) /\ heard' = heard
    BY <1>10 DEF BumpCount
  <2>2. t \in task[p] /\ t \in Task /\ t.todo[1] = "count"
    BY <1>2, AtStep
  <2>3. Advance(p, t) /\ db' = CountPacket(db, t.packet.from)
    BY <1>2, <2>1, WritesAlone
  <2>4. db'.rows = db.rows
    BY <1>2, <2>3 DEF CountPacket, Database
  <2> QED BY <1>3, <1>5, <2>1, <2>2, <2>3, <2>4 DEF Unit
<1>11. CASE Surface(p)
  <2>1. PICK t \in At(p, "text") : Advance(p, t) /\ heard' = heard /\ db' = db
    BY <1>11 DEF Surface
  <2>2. t \in task[p] /\ t \in Task /\ t.todo[1] = "text"
    BY <1>2, AtStep
  <2> QED BY <1>3, <1>5, <2>1, <2>2 DEF Unit
<1>12. CASE Summarise(p)
  <2>1. UNCHANGED <<db, task, heard, cut>>
    BY <1>12 DEF Summarise
  <2> QED BY <2>1 DEF Undisturbed, Asks, EveryPacketRecorded, At
<1> QED BY <1>1, <1>6, <1>7, <1>8, <1>9, <1>10, <1>11, <1>12 DEF Observe, Restart

\* When one process has the file open and the disk does not fail, every packet
\* observed is recorded, as docs/usage.md:776 says: only other processes and
\* failures can cut a packet's handling short (observer.py:40-46).
THEOREM OneProcessRecordsAll ==
    ASSUME KnowledgeAssumption, \A p, q \in Proc : p = q, ~Faults
    PROVE  Spec => []EveryPacketRecorded
<1>1. Alone
  BY DEF Alone
<1>2. Init => Undisturbed /\ EveryPacketRecorded
  <2> SUFFICES ASSUME Init PROVE Undisturbed /\ EveryPacketRecorded
    OBVIOUS
  <2>1. \A p \in Proc : task[p] = {}
    BY DEF Init
  <2>2. {p \in Proc : At(p, "row") # {}} = {} /\ db.rows = {}
    BY <2>1 DEF At, Init, Empty
  <2>3. Cardinality({p \in Proc : At(p, "row") # {}}) = 0 /\ Cardinality(db.rows) = 0
    BY <2>2, FS_EmptySet
  <2>4. EveryPacketRecorded
    BY <2>3 DEF Init, EveryPacketRecorded
  <2> QED BY <2>1, <2>4 DEF Init, Undisturbed
<1>3. IInv /\ Undisturbed /\ EveryPacketRecorded /\ [Next]_vars
        => (Undisturbed /\ EveryPacketRecorded)'
  <2> SUFFICES ASSUME IInv, Undisturbed, EveryPacketRecorded, [Next]_vars
               PROVE  Undisturbed' /\ EveryPacketRecorded'
    OBVIOUS
  <2>1. CASE Next
    BY <1>1, <2>1, AloneKeeps
  <2>2. CASE UNCHANGED vars
    BY <2>2 DEF vars, Undisturbed, Asks, EveryPacketRecorded, At
  <2> QED BY <2>1, <2>2
<1> QED BY <1>2, <1>3, Inductive, PTL DEF Spec
=============================================================================
