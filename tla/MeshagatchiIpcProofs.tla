------------------------- MODULE MeshagatchiIpcProofs -------------------------
(***************************************************************************)
(* The socket service for any number of sidecar and tool connections, any  *)
(* queue limits and any of the bounds of the model.                        *)
(***************************************************************************)
EXTENDS MeshagatchiIpc, SequenceTheorems, TLAPS

GoOn == {"read", "waiting", "finally", "publish"}
Waits(t) == pc[t] \in {"write", "drain"}

-----------------------------------------------------------------------------
(* What writing does, whoever writes *)

\* Coroutine t puts frame f on the wire to c, or waits to, or fails.
Puts(t, c, f, next) ==
    /\ \E l \in GoOn \cup {"write", "drain"} :
          pc' = [pc EXCEPT ![t] = l] /\ (l \in GoOn => l \in {next, "finally", "publish"})
    /\ \/ out' = out
       \/ out' = [out EXCEPT ![c] = Append(@, f)] /\ ~Lost(c)
    /\ mine' = mine \/ mine' = mine \ {c}
    /\ stale' = stale \/ stale' = stale \cup {c}
    /\ queue' \in Seq(Tasks)

Writes(t, c, f, next) ==
    /\ Puts(t, c, f, next)
    /\ job' = [job EXCEPT ![t] = IF pc'[t] \in {"write", "drain"}
                                 THEN [to |-> c, frame |-> f, next |-> next] ELSE NoJob]

\* A coroutine that holds or wants the lock knows what to write and where to
\* go on.
Sensible ==
    \A t \in Tasks : Waits(t) => job[t].to \in Conns /\ job[t].next \in GoOn

\* The queue holds who wants the lock, once each; who drains is its head.
QueueOk ==
    /\ \A i \in 1..Len(queue) : Waits(queue[i])
    /\ \A i, j \in 1..Len(queue) : queue[i] = queue[j] => i = j
    /\ \A t \in Tasks : pc[t] = "drain" => queue # <<>> /\ queue[1] = t

LEMMA PutPuts ==
    ASSUME TypeOK, NEW t \in Tasks, NEW c \in Conns, NEW f \in Frames, NEW next \in GoOn,
           NEW rest \in Seq(Tasks), Put(t, c, f, next, rest)
    PROVE  Puts(t, c, f, next)
<1>1. CASE Lost(c) /\ WriteFails(t, c) /\ queue' = rest /\ UNCHANGED out
  BY <1>1 DEF WriteFails, At, Puts, GoOn
<1>2. CASE /\ ~Lost(c)
           /\ out' = [out EXCEPT ![c] = Append(@, f)]
           /\ IF Len(out[c]) < HighWater
              THEN At(t, next) /\ queue' = rest
              ELSE At(t, "drain") /\ queue' = <<t>> \o rest
           /\ UNCHANGED <<mine, stale>>
  <2>1. <<t>> \o rest \in Seq(Tasks)
    BY ConcatProperties
  <2>2. queue' \in Seq(Tasks)
    BY <1>2, <2>1
  <2> QED BY <1>2, <2>2 DEF At, Puts, GoOn
<1> QED BY <1>1, <1>2 DEF Put

LEMMA SayWrites ==
    ASSUME TypeOK, NEW t \in Tasks, NEW c \in Conns, NEW f \in Frames, NEW next \in GoOn,
           Say(t, c, f, next)
    PROVE  Writes(t, c, f, next)
<1>1. CASE queue = <<>>
  <2>1. <<>> \in Seq(Tasks) /\ Put(t, c, f, next, <<>>)
    BY <1>1, EmptySeq DEF Say
  <2>2. Puts(t, c, f, next)
    BY <2>1, PutPuts
  <2> QED BY <2>2 DEF Writes, Say
<1>2. CASE queue # <<>>
  <2>1. At(t, "write") /\ queue' = Append(queue, t) /\ UNCHANGED <<mine, out, stale>>
    BY <1>2 DEF Say
  <2>2. queue' \in Seq(Tasks)
    BY <2>1, AppendProperties DEF TypeOK
  <2> QED BY <2>1, <2>2 DEF Writes, Puts, At, Say, GoOn
<1> QED BY <1>1, <1>2

LEMMA WriteWrites ==
    ASSUME TypeOK, Sensible, NEW t \in Tasks, Write(t)
    PROVE  Writes(t, job[t].to, job[t].frame, job[t].next)
<1>1. /\ job[t].to \in Conns /\ job[t].frame \in Frames /\ job[t].next \in GoOn
      /\ job[t] = [to |-> job[t].to, frame |-> job[t].frame, next |-> job[t].next]
  BY DEF TypeOK, Sensible, Waits, Write, Jobs
<1>2. Tail(queue) \in Seq(Tasks)
  BY HeadTailProperties DEF TypeOK, Write
<1>3. Put(t, job[t].to, job[t].frame, job[t].next, Tail(queue))
  BY DEF Write
<1>4. Puts(t, job[t].to, job[t].frame, job[t].next)
  BY <1>1, <1>2, <1>3, PutPuts
<1>5. job' = IF pc'[t] = "drain" THEN job ELSE [job EXCEPT ![t] = NoJob]
  BY DEF Write
<1>6. pc'[t] # "write"
  BY <1>1, <1>3 DEF TypeOK, Put, WriteFails, At, GoOn
<1>7. [job EXCEPT ![t] = job[t]] = job
  BY DEF TypeOK
<1> QED BY <1>1, <1>4, <1>5, <1>6, <1>7 DEF Writes

LEMMA DrainWrites ==
    ASSUME TypeOK, Sensible, QueueOk, NEW t \in Tasks, Drain(t)
    PROVE  Writes(t, job[t].to, job[t].frame, job[t].next)
<1>1. job[t].next \in GoOn
  BY DEF Sensible, Drain, Waits
<1>2. queue' \in Seq(Tasks)
  BY HeadTailProperties DEF TypeOK, Drain, QueueOk
<1>3. out' = out
  BY DEF Drain
<1>4. PICK l \in GoOn : pc' = [pc EXCEPT ![t] = l] /\ l \in {job[t].next, "finally", "publish"}
  BY <1>1 DEF Drain, WriteFails, At, GoOn
<1>5. pc'[t] \notin {"write", "drain"}
  BY <1>4 DEF TypeOK, GoOn
<1>6. (mine' = mine \/ mine' = mine \ {job[t].to}) /\ (stale' = stale \/ stale' = stale \cup {job[t].to})
  BY DEF Drain, WriteFails
<1>7. job' = [job EXCEPT ![t] = NoJob]
  BY DEF Drain
<1> QED BY <1>2, <1>3, <1>4, <1>5, <1>6, <1>7 DEF Writes, Puts

\* Whatever is written keeps the types.
LEMMA WritesTyped ==
    ASSUME TypeOK, NEW t \in Tasks, NEW c \in Conns, NEW f \in Frames, NEW next \in GoOn,
           Writes(t, c, f, next)
    PROVE  /\ queue' \in Seq(Tasks) /\ job' \in [Tasks -> Jobs] /\ pc' \in [Tasks -> Labels]
           /\ mine' \subseteq Conns /\ out' \in [Conns -> Seq(Frames)] /\ stale' \subseteq Conns
<1>1. NoJob \in Jobs /\ [to |-> c, frame |-> f, next |-> next] \in Jobs
  BY DEF NoJob, Jobs, Frames, Frame, Labels, GoOn
<1>2. job' \in [Tasks -> Jobs]
  BY <1>1 DEF Writes, TypeOK
<1>3. pc' \in [Tasks -> Labels]
  BY DEF Writes, Puts, TypeOK, Labels, GoOn
<1>4. Append(out[c], f) \in Seq(Frames)
  BY AppendProperties DEF TypeOK
<1>5. out' \in [Conns -> Seq(Frames)]
  BY <1>4 DEF Writes, Puts, TypeOK
<1>6. queue' \in Seq(Tasks) /\ mine' \subseteq Conns /\ stale' \subseteq Conns
  BY DEF Writes, Puts, TypeOK
<1> QED BY <1>2, <1>3, <1>5, <1>6

LEMMA WritesSensible ==
    ASSUME TypeOK, Sensible, NEW t \in Tasks, NEW c \in Conns, NEW f \in Frames,
           NEW next \in GoOn, Writes(t, c, f, next)
    PROVE  Sensible'
<1>1. ASSUME NEW u \in Tasks, Waits(u)' PROVE job'[u].to \in Conns /\ job'[u].next \in GoOn
  <2>1. CASE u = t
    BY <1>1, <2>1 DEF Writes, TypeOK, Waits
  <2>2. CASE u # t
    BY <1>1, <2>2 DEF Writes, Puts, Sensible, TypeOK, Waits
  <2> QED BY <2>1, <2>2
<1> QED BY <1>1 DEF Sensible, Waits

-----------------------------------------------------------------------------
(* The lock *)

\* What t leaves behind it in the queue when it writes.
Behind(t, rest) ==
    /\ \A i \in 1..Len(rest) : rest[i] # t /\ pc[rest[i]] = "write"
    /\ \A i, j \in 1..Len(rest) : rest[i] = rest[j] => i = j
    /\ \A u \in Tasks : pc[u] = "drain" => u = t

LEMMA PutQueue ==
    ASSUME TypeOK, NEW t \in Tasks, NEW c, NEW f, NEW next \in GoOn,
           NEW rest \in Seq(Tasks), Put(t, c, f, next, rest), Behind(t, rest)
    PROVE  QueueOk'
<1>1. CASE queue' = rest /\ \E l \in GoOn : pc' = [pc EXCEPT ![t] = l]
  BY <1>1 DEF Behind, QueueOk, Waits, GoOn, TypeOK
<1>2. CASE queue' = <<t>> \o rest /\ pc' = [pc EXCEPT ![t] = "drain"]
  <2>1. Len(queue') = Len(rest) + 1 /\ queue'[1] = t
    BY <1>2
  <2>2. \A i \in 2..Len(queue') : queue'[i] = rest[i - 1] /\ i - 1 \in 1..Len(rest)
    BY <1>2, <2>1
  <2>3. \A i \in 1..Len(queue') : pc'[queue'[i]] \in {"write", "drain"}
    <3> SUFFICES ASSUME NEW i \in 1..Len(queue') PROVE pc'[queue'[i]] \in {"write", "drain"}
      OBVIOUS
    <3>1. CASE i = 1
      BY <1>2, <2>1, <3>1 DEF TypeOK
    <3>2. CASE i # 1
      BY <1>2, <2>1, <2>2, <3>2 DEF Behind, TypeOK
    <3> QED BY <3>1, <3>2
  <2>4. \A i, j \in 1..Len(queue') : queue'[i] = queue'[j] => i = j
    <3> SUFFICES ASSUME NEW i \in 1..Len(queue'), NEW j \in 1..Len(queue'),
                        queue'[i] = queue'[j]
                 PROVE  i = j
      OBVIOUS
    <3>1. CASE i # 1 /\ j # 1
      BY <2>1, <2>2, <3>1 DEF Behind
    <3>2. CASE i = 1 \/ j = 1
      BY <2>1, <2>2, <3>2 DEF Behind
    <3> QED BY <3>1, <3>2
  <2>5. \A u \in Tasks : pc'[u] = "drain" => queue' # <<>> /\ queue'[1] = u
    BY <1>2, <2>1 DEF Behind, TypeOK
  <2> QED BY <2>3, <2>4, <2>5 DEF QueueOk, Waits
<1> QED BY <1>1, <1>2 DEF Put, WriteFails, At, GoOn

LEMMA SayQueue ==
    ASSUME TypeOK, QueueOk, NEW t \in Tasks, ~Waits(t), NEW c, NEW f, NEW next \in GoOn,
           Say(t, c, f, next)
    PROVE  QueueOk'
<1>1. CASE queue = <<>>
  <2>1. <<>> \in Seq(Tasks) /\ Put(t, c, f, next, <<>>)
    BY <1>1, EmptySeq DEF Say
  <2>2. Behind(t, <<>>)
    BY <1>1 DEF Behind, QueueOk
  <2> QED BY <2>1, <2>2, PutQueue
<1>2. CASE queue # <<>>
  <2>1. queue' = Append(queue, t) /\ pc' = [pc EXCEPT ![t] = "write"]
    BY <1>2 DEF Say, At
  <2>2. queue \in Seq(Tasks) /\ Len(queue) \in Nat \ {0}
    BY <1>2, EmptySeq DEF TypeOK
  <2>3. /\ Len(queue') = Len(queue) + 1 /\ queue'[Len(queue) + 1] = t
        /\ \A i \in 1..Len(queue) : queue'[i] = queue[i] /\ queue[i] # t
    BY <2>1, <2>2, AppendProperties DEF QueueOk
  <2>4. \A i \in 1..Len(queue') : pc'[queue'[i]] \in {"write", "drain"}
    <3> SUFFICES ASSUME NEW i \in 1..Len(queue') PROVE pc'[queue'[i]] \in {"write", "drain"}
      OBVIOUS
    <3>1. CASE i \in 1..Len(queue)
      <4>1. queue'[i] = queue[i] /\ queue[i] # t /\ queue[i] \in Tasks
        BY <2>2, <2>3, <3>1
      <4> QED BY <2>1, <3>1, <4>1 DEF QueueOk, Waits, TypeOK
    <3>2. CASE i = Len(queue) + 1
      BY <2>1, <2>3, <3>2 DEF TypeOK
    <3> QED BY <2>2, <2>3, <3>1, <3>2
  <2>5. \A i, j \in 1..Len(queue') : queue'[i] = queue'[j] => i = j
    BY <2>2, <2>3 DEF QueueOk
  <2>6. \A u \in Tasks : pc'[u] = "drain" => queue' # <<>> /\ queue'[1] = u
    <3>1. queue' # <<>> /\ queue'[1] = queue[1]
      BY <2>2, <2>3
    <3> QED BY <2>1, <3>1 DEF QueueOk, TypeOK
  <2> QED BY <2>4, <2>5, <2>6 DEF QueueOk, Waits
<1> QED BY <1>1, <1>2

\* What follows the head.
LEMMA TailOfQueue ==
    ASSUME TypeOK, QueueOk, queue # <<>>
    PROVE  /\ Tail(queue) \in Seq(Tasks) /\ Head(queue) = queue[1] /\ Len(queue) \in Nat \ {0}
           /\ Len(Tail(queue)) = Len(queue) - 1
           /\ \A i \in 1..Len(Tail(queue)) :
                 /\ Tail(queue)[i] = queue[i + 1] /\ i + 1 \in 1..Len(queue)
                 /\ Tail(queue)[i] # queue[1] /\ pc[Tail(queue)[i]] = "write"
           /\ \A i, j \in 1..Len(Tail(queue)) : Tail(queue)[i] = Tail(queue)[j] => i = j
<1>1. queue \in Seq(Tasks) /\ Len(queue) \in Nat \ {0}
  BY EmptySeq DEF TypeOK
<1>2. /\ Tail(queue) \in Seq(Tasks) /\ Len(Tail(queue)) = Len(queue) - 1
      /\ \A i \in 1..Len(Tail(queue)) : Tail(queue)[i] = queue[i + 1]
  BY <1>1, HeadTailProperties
<1>3. \A i \in 1..Len(Tail(queue)) : i + 1 \in 1..Len(queue) /\ queue[i + 1] # queue[1]
  BY <1>1, <1>2 DEF QueueOk
<1>4. \A i \in 1..Len(Tail(queue)) : queue[i + 1] \in Tasks
  BY <1>1, <1>3
<1>5. \A i \in 1..Len(Tail(queue)) : pc[queue[i + 1]] = "write"
  BY <1>3, <1>4 DEF QueueOk, Waits
<1>6. \A i, j \in 1..Len(Tail(queue)) : Tail(queue)[i] = Tail(queue)[j] => i = j
  BY <1>1, <1>2, <1>3 DEF QueueOk
<1> QED BY <1>1, <1>2, <1>3, <1>5, <1>6

LEMMA WriterQueue ==
    ASSUME TypeOK, Sensible, QueueOk, NEW t \in Tasks, Write(t) \/ Drain(t)
    PROVE  QueueOk'
<1>1. queue # <<>> /\ t = queue[1] /\ Waits(t)
  BY TailOfQueue DEF Write, Drain, QueueOk, Waits
<1>2. Behind(t, Tail(queue))
  BY <1>1, TailOfQueue DEF Behind, QueueOk
<1>3. CASE Write(t)
  <2>1. Put(t, job[t].to, job[t].frame, job[t].next, Tail(queue)) /\ job[t].next \in GoOn
    BY <1>1, <1>3 DEF Write, Sensible
  <2>2. Tail(queue) \in Seq(Tasks)
    BY <1>1, TailOfQueue
  <2> QED BY <1>2, <2>1, <2>2, PutQueue
<1>4. CASE Drain(t)
  <2>1. queue' = Tail(queue) /\ \E l \in GoOn : pc' = [pc EXCEPT ![t] = l]
    BY <1>1, <1>4 DEF Drain, WriteFails, At, Sensible, GoOn
  <2> QED BY <1>2, <2>1, TailOfQueue, <1>1 DEF Behind, QueueOk, Waits, GoOn, TypeOK
<1> QED BY <1>3, <1>4

-----------------------------------------------------------------------------
(* Types, the lock and the registration *)

\* The sidecar that is registered has a handler at work.
Registered == bot # NoOne => pc[bot] \notin {"new", "start", "off"}

\* The core of the inductive invariant.
Core == TypeOK /\ Sensible /\ QueueOk /\ Registered

\* What the lock is about does not change while a coroutine that does not use
\* it moves on.
LEMMA MoveKeeps ==
    ASSUME TypeOK, Sensible, QueueOk, UNCHANGED writing, NEW t \in Tasks, ~Waits(t),
           NEW l \in Labels \ {"write", "drain"}, pc' = [pc EXCEPT ![t] = l]
    PROVE  Sensible' /\ QueueOk' /\ pc' \in [Tasks -> Labels]
<1>1. \A u \in Tasks : pc'[u] \in {"write", "drain"} => u # t /\ pc'[u] = pc[u]
  BY DEF TypeOK
<1>2. \A i \in 1..Len(queue) : queue[i] \in Tasks /\ queue[i] # t
  BY DEF TypeOK, QueueOk
<1>3. Sensible'
  BY <1>1 DEF Sensible, Waits, writing
<1>4. QueueOk'
  BY <1>1, <1>2 DEF QueueOk, Waits, writing, TypeOK
<1> QED BY <1>3, <1>4 DEF TypeOK

LEMMA StillKeeps ==
    ASSUME TypeOK, Sensible, QueueOk, UNCHANGED <<writing, pc>>
    PROVE  Sensible' /\ QueueOk'
BY DEF Sensible, QueueOk, Waits, writing

\* What a write does to the core, the rest of the types apart.
LEMMA SayCore ==
    ASSUME IpcAssumption, Core, NEW t \in Tasks, NEW c \in Conns, NEW f \in Frames,
           NEW next \in GoOn,
           \/ Say(t, c, f, next) /\ ~Waits(t)
           \/ (Write(t) \/ Drain(t)) /\ c = job[t].to /\ f = job[t].frame /\ next = job[t].next
    PROVE  /\ Writes(t, c, f, next)
           /\ Sensible' /\ QueueOk'
           /\ queue' \in Seq(Tasks) /\ job' \in [Tasks -> Jobs] /\ pc' \in [Tasks -> Labels]
           /\ mine' \subseteq Conns /\ out' \in [Conns -> Seq(Frames)] /\ stale' \subseteq Conns
           /\ bot' \in {bot, t} => Registered'
<1>1. Writes(t, c, f, next)
  BY SayWrites, WriteWrites, DrainWrites DEF Core
<1>2. QueueOk'
  BY SayQueue, WriterQueue DEF Core
<1>3. Sensible'
  BY <1>1, WritesSensible DEF Core
<1>4. bot' \in {bot, t} => Registered'
  <2>1. PICK l \in GoOn \cup {"write", "drain"} : pc' = [pc EXCEPT ![t] = l]
    BY <1>1 DEF Writes, Puts
  <2>2. bot \in Conns \cup {NoOne} /\ pc \in [Tasks -> Labels]
    BY DEF Core, TypeOK
  <2> QED BY <2>1, <2>2 DEF Core, Registered, GoOn, Tasks
<1> QED BY <1>1, <1>2, <1>3, <1>4, WritesTyped DEF Core

\* A line that is read is one of those received.
LEMMA ReadTyped ==
    ASSUME TypeOK, NEW c \in Conns, NEW kinds, Read(c, kinds)
    PROVE  inbox' \in [Conns -> Seq(Frames)] /\ Head(inbox[c]) \in Frames /\ ~Waits(c)
<1>1. Tail(inbox[c]) \in Seq(Frames) /\ Head(inbox[c]) \in Frames
  BY HeadTailProperties DEF TypeOK, Read
<1> QED BY <1>1 DEF TypeOK, Read, Waits

\* The frames the adapter writes.
LEMMA FramesTyped ==
    /\ Frame("hello") \in Frames /\ Frame("message") \in Frames /\ Frame("reply") \in Frames
    /\ Frame("refused") \in Frames /\ Frame("timeout") \in Frames /\ Frame("result") \in Frames
    /\ \A t \in Tools : Submit(t) \in Frames /\ Result(t) \in Frames
BY DEF Frame, Frames, Submit, Result

LEMMA BeginCore ==
    ASSUME IpcAssumption, Core, NEW c \in Conns, Begin(c) PROVE Core'
<1>1. ~Waits(c) /\ c # bot /\ c \in Tasks
  BY DEF Begin, Waits, Core, Registered, Tasks, IpcAssumption
<1>2. CASE phase = "down"
  <2>1. pc' = [pc EXCEPT ![c] = "off"] /\ UNCHANGED <<writing, bot>>
    BY <1>2 DEF Begin, At
  <2>2. "off" \in Labels \ {"write", "drain"}
    BY DEF Labels
  <2>3. Sensible' /\ QueueOk' /\ pc' \in [Tasks -> Labels]
    BY <1>1, <2>1, <2>2, MoveKeeps DEF Core
  <2>4. Registered'
    BY <1>1, <2>1 DEF Core, Registered, TypeOK, Tasks
  <2> QED BY <1>2, <2>3, <2>4 DEF Begin, Core, TypeOK, service, forwards, peers, writing
<1>3. CASE phase # "down"
  <2>1. Say(c, c, Frame("hello"), "read") /\ UNCHANGED bot
    BY <1>3 DEF Begin, Reply
  <2>2. "read" \in GoOn
    BY DEF GoOn
  <2> QED BY <1>1, <1>3, <2>1, <2>2, SayCore, FramesTyped DEF Begin, Core, TypeOK, service, forwards, peers
<1> QED BY <1>2, <1>3

\* Reading a line and answering it.
LEMMA ReplyCore ==
    ASSUME IpcAssumption, Core, NEW c \in Conns, NEW f \in Frames, NEW to \in Conns,
           NEW next \in GoOn, ~Waits(c), Say(c, to, f, next),
           inbox' \in [Conns -> Seq(Frames)],
           waiters' \subseteq Tools,
           future' \in [Tools -> {"none", "pending", "done", "failed"}],
           bot' \in {bot, c}, policy' \in BOOLEAN,
           UNCHANGED <<service, clients, todo, heard, theirs, peers>>
    PROVE  Core'
<1>1. c \in Tasks
  BY DEF Tasks
<1>2. bot' \in Conns \cup {NoOne}
  BY DEF Core, TypeOK
<1>3. /\ Sensible' /\ QueueOk'
      /\ queue' \in Seq(Tasks) /\ job' \in [Tasks -> Jobs] /\ pc' \in [Tasks -> Labels]
      /\ mine' \subseteq Conns /\ out' \in [Conns -> Seq(Frames)] /\ stale' \subseteq Conns
      /\ Registered'
  BY <1>1, SayCore
<1>4. TypeOK'
  BY <1>2, <1>3 DEF Core, TypeOK, service, peers
<1> QED BY <1>3, <1>4 DEF Core

LEMMA HandlerCore ==
    ASSUME IpcAssumption, Core, NEW c \in Conns, HandlerStep(c) PROVE Core'
<1> USE FramesTyped
<1>1. CASE Begin(c)
  BY <1>1, BeginCore
<1>2. CASE TakeResult(c)
  <2>1. inbox' \in [Conns -> Seq(Frames)]
    BY <1>2, ReadTyped DEF TakeResult, Core
  <2>2. Sensible' /\ QueueOk'
    BY <1>2, StillKeeps DEF TakeResult, NoSay, Core
  <2>3. waiters' \subseteq Tools /\ future' \in [Tools -> {"none", "pending", "done", "failed"}]
    BY <1>2 DEF TakeResult, Core, TypeOK
  <2>4. TypeOK' /\ Registered'
    BY <1>2, <2>1, <2>3 DEF TakeResult, NoSay, Core, TypeOK, Registered, service, registry,
                            writing, peers
  <2> QED BY <2>2, <2>4 DEF Core
<1>3. CASE Refuse(c)
  <2>1. PICK next \in {"read", "finally"} : Say(c, c, Frame("refused"), next)
    BY <1>3 DEF Refuse, Reply
  <2>2. inbox' \in [Conns -> Seq(Frames)] /\ ~Waits(c) /\ next \in GoOn
    BY <1>3, ReadTyped DEF Refuse, Core, GoOn
  <2> QED BY <1>3, <2>1, <2>2, ReplyCore DEF Refuse, registry, forwards, Core, TypeOK
<1>4. CASE Register(c)
  <2>1. inbox' \in [Conns -> Seq(Frames)] /\ ~Waits(c) /\ "read" \in GoOn
    BY <1>4, ReadTyped DEF Register, Core, GoOn
  <2> QED BY <1>4, <2>1, ReplyCore DEF Register, Reply, forwards, Core, TypeOK
<1>5. CASE Work(c)
  <2>1. inbox' \in [Conns -> Seq(Frames)] /\ ~Waits(c) /\ pc' = [pc EXCEPT ![c] = "busy"]
    BY <1>5, ReadTyped DEF Work, Core, At
  <2>2. "busy" \in Labels \ {"write", "drain"} /\ c \in Tasks
    BY DEF Labels, Tasks
  <2>3. Sensible' /\ QueueOk' /\ pc' \in [Tasks -> Labels]
    BY <1>5, <2>1, <2>2, MoveKeeps DEF Work, NoSay, Core
  <2>4. TypeOK' /\ Registered'
    BY <1>5, <2>1, <2>3 DEF Work, NoSay, Core, TypeOK, Registered, service, registry, forwards,
                            writing, peers, Tasks
  <2> QED BY <2>3, <2>4 DEF Core
<1>6. CASE WorkDone(c)
  <2>1. ~Waits(c) /\ "read" \in GoOn
    BY <1>6 DEF WorkDone, Waits, GoOn
  <2> QED BY <1>6, <2>1, ReplyCore DEF WorkDone, Reply, registry, forwards, Core, TypeOK
<1>7. CASE Eof(c)
  <2>1. ~Waits(c) /\ pc' = [pc EXCEPT ![c] = "finally"] /\ UNCHANGED writing
    BY <1>7 DEF Eof, At, Waits
  <2>2. "finally" \in Labels \ {"write", "drain"} /\ c \in Tasks
    BY DEF Labels, Tasks
  <2>3. Sensible' /\ QueueOk' /\ pc' \in [Tasks -> Labels]
    BY <2>1, <2>2, MoveKeeps DEF Core
  <2>4. TypeOK' /\ Registered'
    BY <1>7, <2>1, <2>3 DEF Eof, Core, TypeOK, Registered, service, registry, forwards,
                            writing, peers, round, wire, Tasks
  <2> QED BY <2>3, <2>4 DEF Core
<1>8. CASE Finish(c)
  <2>1. ~Waits(c) /\ pc' = [pc EXCEPT ![c] = "off"] /\ UNCHANGED writing
    BY <1>8 DEF Finish, At, Waits
  <2>2. "off" \in Labels \ {"write", "drain"} /\ c \in Tasks
    BY DEF Labels, Tasks
  <2>3. Sensible' /\ QueueOk' /\ pc' \in [Tasks -> Labels]
    BY <2>1, <2>2, MoveKeeps DEF Core
  <2>4. inbox' \in [Conns -> Seq(Frames)]
    BY <1>8, EmptySeq DEF Finish, Core, TypeOK
  <2>5. Registered'
    BY <1>8, <2>1 DEF Finish, Core, TypeOK, Registered, Tasks
  <2>6. TypeOK'
    BY <1>8, <2>3, <2>4 DEF Finish, Core, TypeOK, service, forwards, writing, peers, round
  <2> QED BY <2>3, <2>5, <2>6 DEF Core
<1>9. CASE c \in Tools /\ Forward(c)
  <2>1. inbox' \in [Conns -> Seq(Frames)] /\ ~Waits(c) /\ "read" \in GoOn /\ "waiting" \in GoOn
    BY <1>9, ReadTyped DEF Forward, Core, GoOn
  <2>2. CASE Reply(c, "refused", "read") /\ UNCHANGED forwards
    BY <1>9, <2>1, <2>2, ReplyCore DEF Forward, Reply, registry, forwards, Core, TypeOK
  <2>3. CASE /\ ~(bot = NoOne \/ bot \notin mine \/ Cardinality(waiters) >= QueueLimit)
             /\ waiters' = waiters \cup {c} /\ future' = [future EXCEPT ![c] = "pending"]
             /\ Say(c, bot, Submit(c), "waiting")
    <3>1. bot \in Conns /\ bot' \in {bot, c} /\ policy' \in BOOLEAN
      BY <1>9, <2>3 DEF Core, TypeOK, Forward, registry
    <3>2. /\ waiters' \subseteq Tools
          /\ future' \in [Tools -> {"none", "pending", "done", "failed"}]
      BY <1>9, <2>3 DEF Core, TypeOK
    <3> QED BY <1>9, <2>1, <2>3, <3>1, <3>2, ReplyCore DEF Forward, registry
  <2> QED BY <1>9, <2>2, <2>3 DEF Forward
<1>10. CASE c \in Tools /\ Answer(c)
  <2>1. ~Waits(c) /\ "read" \in GoOn /\ c \in Tasks
    BY <1>10 DEF Answer, Waits, GoOn, Tasks
  <2>2. future' \in [Tools -> {"none", "pending", "done", "failed"}]
    BY <1>10 DEF Answer, Core, TypeOK
  <2>3. CASE Reply(c, "result", "read")
    BY <1>10, <2>1, <2>2, <2>3, ReplyCore DEF Answer, Reply, registry, Core, TypeOK
  <2>4. CASE At(c, "finally") /\ NoSay
    <3>1. "finally" \in Labels \ {"write", "drain"} /\ pc' = [pc EXCEPT ![c] = "finally"]
      BY <2>4 DEF Labels, At
    <3>2. Sensible' /\ QueueOk' /\ pc' \in [Tasks -> Labels]
      BY <2>1, <2>4, <3>1, MoveKeeps DEF Core, NoSay
    <3>3. TypeOK' /\ Registered'
      BY <1>10, <2>2, <2>4, <3>1, <3>2 DEF Answer, NoSay, Core, TypeOK, Registered, service,
             registry, writing, peers, Tasks
    <3> QED BY <3>2, <3>3 DEF Core
  <2> QED BY <1>10, <2>3, <2>4 DEF Answer
<1>11. CASE c \in Tools /\ Timeout(c)
  <2>1. ~Waits(c) /\ "read" \in GoOn
    BY <1>11 DEF Timeout, Waits, GoOn
  <2>2. /\ waiters' \subseteq Tools
        /\ future' \in [Tools -> {"none", "pending", "done", "failed"}]
    BY <1>11 DEF Timeout, Core, TypeOK
  <2> QED BY <1>11, <2>1, <2>2, ReplyCore DEF Timeout, Reply, registry, Core, TypeOK
<1> QED BY <1>1, <1>2, <1>3, <1>4, <1>5, <1>6, <1>7, <1>8, <1>9, <1>10, <1>11 DEF HandlerStep

LEMMA WriterCore == ASSUME IpcAssumption, Core, WriterStep PROVE Core'
<1>1. PICK t \in Tasks : Write(t) \/ Drain(t)
  BY DEF WriterStep
<1>2. job[t].to \in Conns /\ job[t].next \in GoOn /\ job[t].frame \in Frames
  BY <1>1 DEF Core, Sensible, Waits, Write, Drain, TypeOK, Jobs
<1>3. UNCHANGED <<service, registry, forwards, todo, heard, theirs, inbox, peers>>
  BY <1>1 DEF Write, Drain
<1>4. bot' \in {bot, t}
  BY <1>3 DEF registry
<1>5. /\ Sensible' /\ QueueOk' /\ Registered'
      /\ queue' \in Seq(Tasks) /\ job' \in [Tasks -> Jobs] /\ pc' \in [Tasks -> Labels]
      /\ mine' \subseteq Conns /\ out' \in [Conns -> Seq(Frames)] /\ stale' \subseteq Conns
  BY <1>1, <1>2, <1>4, SayCore
<1>6. TypeOK'
  BY <1>3, <1>5 DEF Core, TypeOK, service, registry, forwards, peers
<1> QED BY <1>5, <1>6 DEF Core

LEMMA PublishCore == ASSUME IpcAssumption, Core, PublishBegin \/ PublisherStep PROVE Core'
<1>1. Publisher \in Tasks /\ Publisher # bot
  BY DEF Tasks, IpcAssumption, Core, TypeOK
<1>2. CASE PublishBegin \/ PublishEnd
  <2>1. PICK l \in {"publish", "off"} : pc' = [pc EXCEPT ![Publisher] = l]
    BY <1>2 DEF PublishBegin, PublishEnd
  <2>2. l \in Labels \ {"write", "drain"} /\ ~Waits(Publisher) /\ UNCHANGED <<writing, bot>>
    BY <1>2 DEF Labels, PublishBegin, PublishEnd, Waits, registry
  <2>3. Sensible' /\ QueueOk' /\ pc' \in [Tasks -> Labels]
    BY <1>1, <2>1, <2>2, MoveKeeps DEF Core
  <2>4. Registered'
    BY <1>1, <2>1, <2>2 DEF Core, Registered, TypeOK
  <2>5. UNCHANGED <<service, bot, policy, forwards, writing, wire, peers>>
    BY <1>2 DEF PublishBegin, PublishEnd, registry
  <2>6. /\ clients' \subseteq Conns /\ todo' \subseteq Conns /\ stale' \subseteq Conns
        /\ heard' \in 0..MaxMessages
    BY <1>2 DEF PublishBegin, PublishEnd, registry, Core, TypeOK, IpcAssumption
  <2>7. TypeOK'
    BY <2>3, <2>5, <2>6 DEF Core, TypeOK, service, forwards, writing, wire, peers
  <2> QED BY <2>3, <2>4, <2>7 DEF Core
<1>3. ASSUME NEW c \in Conns, PublishNext(c) PROVE Core'
  <2>1. /\ Say(Publisher, c, Frame("message"), "publish") /\ ~Waits(Publisher)
        /\ "publish" \in GoOn /\ bot' \in {bot, Publisher}
    BY <1>3 DEF PublishNext, Waits, GoOn, registry
  <2>2. /\ Sensible' /\ QueueOk' /\ Registered'
        /\ queue' \in Seq(Tasks) /\ job' \in [Tasks -> Jobs] /\ pc' \in [Tasks -> Labels]
        /\ mine' \subseteq Conns /\ out' \in [Conns -> Seq(Frames)] /\ stale' \subseteq Conns
    BY <1>1, <2>1, FramesTyped, SayCore
  <2>3. TypeOK'
    BY <1>3, <2>2 DEF PublishNext, Core, TypeOK, service, registry, forwards, peers
  <2> QED BY <2>2, <2>3 DEF Core
<1> QED BY <1>2, <1>3 DEF PublisherStep

LEMMA ServiceCore == ASSUME IpcAssumption, Core, ServiceStep PROVE Core'
<1>1. UNCHANGED <<writing, pc>>
  BY DEF ServiceStep, Start, StopBegin, StopStep, StopSweep, StopAbandoned, StopAgain, Sweep,
         StopEnd, StopClose
<1>2. Sensible' /\ QueueOk'
  BY <1>1, StillKeeps DEF Core
<1>3. CASE Start \/ StopBegin
  <2>1. stops' \in 0..MaxStops
    BY <1>3 DEF Start, StopBegin, Core, TypeOK, IpcAssumption
  <2>2. /\ phase' \in {"up", "closing"} /\ doomed' = doomed /\ waits' = waits
        /\ UNCHANGED <<registry, forwards, writing, pc, round, wire, peers>>
    BY <1>3 DEF Start, StopBegin
  <2> QED BY <1>2, <2>1, <2>2 DEF Core, TypeOK, Registered, registry, forwards, writing, round,
                                  wire, peers
<1>4. CASE StopSweep \/ StopAbandoned \/ StopAgain \/ \E c \in Conns : StopClose(c)
  BY <1>2, <1>4 DEF StopSweep, StopAbandoned, StopAgain, Sweep, StopClose, Core, TypeOK,
                    Registered, registry, forwards, writing, round, wire, peers
<1>5. CASE StopEnd
  <2>1. future' \in [Tools -> {"none", "pending", "done", "failed"}]
    BY <1>5 DEF StopEnd, Core, TypeOK
  <2> QED BY <1>2, <1>5, <2>1 DEF StopEnd, Core, TypeOK, Registered, writing, round, wire, peers
<1> QED BY <1>3, <1>4, <1>5 DEF ServiceStep, StopStep

\* The peers' side of the wire.
LEMMA CloseTyped ==
    ASSUME TypeOK, NEW c \in Conns, Close(c)
    PROVE  theirs' \subseteq Conns /\ out' \in [Conns -> Seq(Frames)]
BY EmptySeq DEF TypeOK, Close

LEMMA ReadOutTyped ==
    ASSUME TypeOK, NEW c \in Conns, out[c] # <<>>
    PROVE  /\ Head(out[c]) \in Frames
           /\ [out EXCEPT ![c] = Tail(@)] \in [Conns -> Seq(Frames)]
<1>1. Head(out[c]) \in Frames /\ Tail(out[c]) \in Seq(Frames)
  BY HeadTailProperties DEF TypeOK
<1> QED BY <1>1 DEF TypeOK

LEMMA ConnectCore == ASSUME IpcAssumption, Core, NEW c \in Conns, Connect(c) PROVE Core'
<1>1. ~Waits(c) /\ pc' = [pc EXCEPT ![c] = "start"] /\ UNCHANGED <<writing, bot>> /\ c # bot
  BY DEF Connect, At, Waits, registry, Core, Registered, IpcAssumption, Tasks
<1>2. "start" \in Labels \ {"write", "drain"} /\ c \in Tasks
  BY DEF Labels, Tasks
<1>3. Sensible' /\ QueueOk' /\ pc' \in [Tasks -> Labels]
  BY <1>1, <1>2, MoveKeeps DEF Core
<1>4. Registered'
  BY <1>1 DEF Core, Registered, TypeOK, Tasks
<1>5. TypeOK'
  BY <1>3 DEF Connect, Core, TypeOK, service, registry, forwards, writing, round
<1> QED BY <1>3, <1>4, <1>5 DEF Core

LEMMA BotFrameTyped == ASSUME IpcAssumption, TypeOK, NEW f \in BotFrames PROVE f \in Frames
<1>1. CASE \E k \in BotKinds : f = Frame(k)
  BY <1>1 DEF Frame, Frames, IpcAssumption
<1>2. CASE \E t \in owed : f = Result(t)
  BY <1>2, FramesTyped DEF TypeOK
<1> QED BY <1>1, <1>2 DEF BotFrames

LEMMA BotCore ==
    ASSUME IpcAssumption, Core, NEW b \in Bots,
           BotCloses(b) \/ BotReads(b) \/ \E f \in BotFrames : BotSends(b, f)
    PROVE  Core'
<1>1. UNCHANGED <<writing, pc, bot>> /\ b \in Conns
  BY DEF BotCloses, BotReads, BotSends, registry, Conns
<1>2. Sensible' /\ QueueOk' /\ Registered'
  BY <1>1, StillKeeps DEF Core, Registered
<1>3. CASE BotCloses(b)
  BY <1>1, <1>2, <1>3, CloseTyped DEF BotCloses, Close, Core, TypeOK, service, registry,
             forwards, writing, round, peers
<1>4. CASE BotReads(b)
  <2>1. out' \in [Conns -> Seq(Frames)]
    BY <1>1, <1>4, ReadOutTyped DEF BotReads, Core
  <2>2. owed' \subseteq Tools /\ applied' \subseteq Tools
    BY <1>4 DEF BotReads, Core, TypeOK
  <2> QED BY <1>2, <1>4, <2>1, <2>2 DEF BotReads, Core, TypeOK, service, registry, forwards,
             writing, round
<1>5. CASE \E f \in BotFrames : BotSends(b, f)
  <2>1. PICK f \in BotFrames : BotSends(b, f)
    BY <1>5
  <2>2. f \in Frames
    BY BotFrameTyped DEF Core
  <2>3. inbox' \in [Conns -> Seq(Frames)]
    BY <1>1, <2>1, <2>2, AppendProperties DEF BotSends, Core, TypeOK
  <2> QED BY <1>2, <2>1, <2>3 DEF BotSends, Core, TypeOK, service, registry, forwards, writing,
             round
<1> QED BY <1>3, <1>4, <1>5

LEMMA ToolCore ==
    ASSUME IpcAssumption, Core, NEW t \in Tools,
           ToolAsks(t) \/ ToolReads(t) \/ ToolEof(t) \/ ToolGivesUp(t)
    PROVE  Core'
<1>1. UNCHANGED <<writing, pc, bot>> /\ t \in Conns
  BY DEF ToolAsks, ToolReads, ToolEof, ToolGivesUp, registry, Conns
<1>2. Sensible' /\ QueueOk' /\ Registered'
  BY <1>1, StillKeeps DEF Core, Registered
<1>3. \/ out[t] # <<>> /\ out' = [out EXCEPT ![t] = Tail(@)] /\ UNCHANGED theirs
      \/ Close(t)
  BY DEF ToolAsks, ToolReads, ToolEof, ToolGivesUp
<1>4. theirs' \subseteq Conns /\ out' \in [Conns -> Seq(Frames)]
  <2>1. CASE Close(t)
    BY <1>1, <2>1, CloseTyped DEF Core
  <2>2. CASE out[t] # <<>> /\ out' = [out EXCEPT ![t] = Tail(@)] /\ UNCHANGED theirs
    <3>1. out' \in [Conns -> Seq(Frames)]
      BY <1>1, <2>2, ReadOutTyped DEF Core
    <3> QED BY <2>2, <3>1 DEF Core, TypeOK
  <2> QED BY <1>3, <2>1, <2>2
<1>5. inbox' \in [Conns -> Seq(Frames)]
  <2>1. inbox' = inbox \/ inbox' = [inbox EXCEPT ![t] = Append(@, Submit(t))]
    BY DEF ToolAsks, ToolReads, ToolEof, ToolGivesUp, Close
  <2>2. Append(inbox[t], Submit(t)) \in Seq(Frames)
    BY <1>1, FramesTyped, AppendProperties DEF Core, TypeOK
  <2> QED BY <1>1, <2>1, <2>2 DEF Core, TypeOK
<1>6. /\ tool' \in [Tools -> {"new", "hello", "asked", "answered", "failed"}]
      /\ answer' \in [Tools -> {"none"} \cup {f.kind : f \in Frames}]
  <2>1. \E l \in {"asked", "answered", "failed"} : tool' = [tool EXCEPT ![t] = l]
    BY DEF ToolAsks, ToolReads, ToolEof, ToolGivesUp
  <2>2. answer' = answer \/ (out[t] # <<>> /\ answer' = [answer EXCEPT ![t] = Head(out[t]).kind])
    BY DEF ToolAsks, ToolReads, ToolEof, ToolGivesUp
  <2>3. out[t] # <<>> => Head(out[t]) \in Frames
    BY <1>1, ReadOutTyped DEF Core
  <2>4. out[t] # <<>> => Head(out[t]).kind \in {"none"} \cup {f.kind : f \in Frames}
    BY <2>3
  <2> QED BY <2>1, <2>2, <2>4 DEF Core, TypeOK
<1>7. UNCHANGED <<service, registry, forwards, writing, pc, round, mine, owed, applied>>
  BY DEF ToolAsks, ToolReads, ToolEof, ToolGivesUp, Close
<1>8. TypeOK'
  BY <1>4, <1>5, <1>6, <1>7 DEF Core, TypeOK, service, registry, forwards, writing, round
<1> QED BY <1>2, <1>8 DEF Core

LEMMA InitCore == ASSUME IpcAssumption, Init PROVE Core
<1>1. <<>> \in Seq(Tasks) /\ <<>> \in Seq(Frames) /\ Len(<<>>) = 0
  BY EmptySeq
<1>2. NoJob \in Jobs
  BY FramesTyped DEF NoJob, Jobs, Labels
<1>3. pc \in [Tasks -> Labels]
  BY DEF Init, Labels
<1>4. TypeOK
  <2>1. job \in [Tasks -> Jobs] /\ queue \in Seq(Tasks) /\ inbox \in [Conns -> Seq(Frames)]
    BY <1>1, <1>2 DEF Init
  <2>2. /\ heard \in 0..MaxMessages /\ stops \in 0..MaxStops /\ waits \in BOOLEAN
        /\ out \in [Conns -> Seq(Frames)]
        /\ answer \in [Tools -> {"none"} \cup {f.kind : f \in Frames}]
    BY <1>1 DEF Init, IpcAssumption
  <2> QED BY <1>3, <2>1, <2>2 DEF Init, TypeOK
<1>5. Sensible /\ QueueOk /\ Registered
  BY <1>1 DEF Init, Sensible, QueueOk, Registered, Waits
<1> QED BY <1>4, <1>5 DEF Core

\* The core invariant: types, a lock granted in order, a registration whose
\* connection has its handler.
THEOREM CoreInvariant == ASSUME IpcAssumption PROVE Spec => []Core
<1>1. Init => Core
  BY InitCore
<1>2. Core /\ [Next]_vars => Core'
  <2> SUFFICES ASSUME Core, [Next]_vars PROVE Core'
    OBVIOUS
  <2>1. ASSUME NEW c \in Conns, HandlerStep(c) \/ Connect(c) PROVE Core'
    BY <2>1, HandlerCore, ConnectCore
  <2>2. CASE WriterStep
    BY <2>2, WriterCore
  <2>3. CASE PublishBegin \/ PublisherStep
    BY <2>3, PublishCore
  <2>4. CASE ServiceStep
    BY <2>4, ServiceCore
  <2>5. ASSUME NEW b \in Bots,
               BotCloses(b) \/ BotReads(b) \/ \E f \in BotFrames : BotSends(b, f)
        PROVE  Core'
    BY <2>5, BotCore
  <2>6. ASSUME NEW t \in Tools, ToolAsks(t) \/ ToolReads(t) \/ ToolEof(t) \/ ToolGivesUp(t)
        PROVE  Core'
    BY <2>6, ToolCore
  <2>7. CASE UNCHANGED vars
    BY <2>7 DEF vars, service, registry, forwards, writing, round, wire, peers, Core, TypeOK,
                Sensible, QueueOk, Registered, Waits
  <2> QED BY <2>1, <2>2, <2>3, <2>4, <2>5, <2>6, <2>7 DEF Next
<1> QED BY <1>1, <1>2, PTL DEF Spec

\* Every variable keeps its type.
THEOREM TypeCorrect == ASSUME IpcAssumption PROVE Spec => []TypeOK
<1>1. Core => TypeOK
  BY DEF Core
<1> QED BY <1>1, CoreInvariant, PTL

\* A registration never outlives the handler of its connection (adapter.py:765).
THEOREM BotIsServed == ASSUME IpcAssumption PROVE Spec => []BotHasHandler
<1>1. Core => BotHasHandler
  BY DEF Core, Registered, BotHasHandler
<1> QED BY <1>1, CoreInvariant, PTL

\* The sidecar stays registered until its own connection ends, another takes
\* its place or the service stops (adapter.py:719-725, :765).
THEOREM RegistrationIsKept == ASSUME IpcAssumption PROVE Spec => RegistrationHolds
<1>1. [Next]_vars => [bot # NoOne /\ bot' = NoOne => pc[bot] = "finally" \/ phase = "sweeping"]_vars
  <2> SUFFICES ASSUME Next, bot # NoOne, bot' = NoOne
               PROVE  pc[bot] = "finally" \/ phase = "sweeping"
    OBVIOUS
  <2>1. ASSUME NEW c \in Conns, HandlerStep(c) \/ Connect(c)
        PROVE  pc[bot] = "finally" \/ phase = "sweeping"
    <3>1. CASE Finish(c)
      BY <3>1 DEF Finish
    <3>2. CASE Register(c)
      BY <3>2 DEF Register, IpcAssumption, Tasks
    <3>3. CASE HandlerStep(c) /\ ~Finish(c) /\ ~Register(c)
      BY <3>3 DEF HandlerStep, Begin, TakeResult, Refuse, Work, WorkDone, Eof, Forward, Answer,
                  Timeout, registry
    <3>4. CASE Connect(c)
      BY <3>4 DEF Connect, registry
    <3> QED BY <2>1, <3>1, <3>2, <3>3, <3>4
  <2>2. CASE WriterStep \/ PublishBegin \/ PublisherStep
    BY <2>2 DEF WriterStep, Write, Drain, PublishBegin, PublisherStep, PublishEnd, PublishNext,
                registry
  <2>3. CASE ServiceStep
    BY <2>3 DEF ServiceStep, Start, StopBegin, StopStep, StopSweep, StopAbandoned, StopAgain,
                Sweep, StopEnd, StopClose, registry
  <2>4. CASE \/ \E b \in Bots : BotCloses(b) \/ BotReads(b) \/ \E f \in BotFrames : BotSends(b, f)
             \/ \E t \in Tools : ToolAsks(t) \/ ToolReads(t) \/ ToolEof(t) \/ ToolGivesUp(t)
    BY <2>4 DEF BotCloses, BotReads, BotSends, ToolAsks, ToolReads, ToolEof, ToolGivesUp, registry
  <2> QED BY <2>1, <2>2, <2>3, <2>4 DEF Next
<1> QED BY <1>1, PTL DEF Spec, RegistrationHolds

-----------------------------------------------------------------------------
(* What answers say of requests *)

\* Frames on their way, with their destination: written, or about to be.
Traffic ==
    {m \in (Conns \cup {NoOne}) \X Frames :
        \/ \E u \in Tasks : job[u].to = m[1] /\ job[u].frame = m[2]
        \/ m[1] \in Conns /\ \E k \in 1..Len(out[m[1]]) : out[m[1]][k] = m[2]}
NoMessage == <<NoOne, Frame("hello")>>

\* A request the handler has not read, and one that no sidecar can know of.
Untold(s) == tool[s] \in {"new", "hello"} \/ inbox[s] # <<>>
Untouched(s) == s \notin applied /\ \A m \in Traffic : m[2] # Submit(s)

\* Somebody has said, or is saying, that a request was refused, or answered.
RefusedTo(s) == answer[s] = "refused" \/ \E m \in Traffic : m[1] = s /\ m[2].kind = "refused"
Reported == {s \in Tools : \E b \in Bots : \E k \in 1..Len(inbox[b]) : inbox[b][k] = Result(s)}
ResultOf(s) ==
    \/ answer[s] = "result" \/ future[s] = "done" \/ s \in owed \/ s \in Reported
    \/ \E m \in Traffic : m[1] = s /\ m[2].kind = "result"

\* A refusal leaves the request untouched for good, a result means it was read.
StoryOf(s) ==
    /\ pc[s] = "new" => tool[s] = "new"
    /\ inbox[s] # <<>> => inbox[s] = <<Submit(s)>> /\ tool[s] \notin {"new", "hello"}
    /\ Untold(s) \/ RefusedTo(s) => Untouched(s)
    /\ RefusedTo(s) => ~Untold(s)
    /\ ResultOf(s) => s \in applied
Story == \A s \in Tools : StoryOf(s)

\* A step that says nothing new of request s.
Calm(s) ==
    /\ tool'[s] \in {"new", "hello"} => tool[s] \in {"new", "hello"}
    /\ pc'[s] = "new" => pc[s] = "new" /\ tool'[s] = tool[s]
    /\ inbox'[s] = inbox[s] \/ inbox'[s] = <<>>
    /\ answer'[s] = "refused" => RefusedTo(s)
    /\ s \in applied' <=> s \in applied
    /\ answer'[s] = "result" \/ future'[s] = "done" \/ s \in owed' \/ s \in Reported' => ResultOf(s)

LEMMA CalmKeeps ==
    ASSUME NEW s \in Tools, StoryOf(s), Calm(s), NEW new, Traffic' \subseteq Traffic \cup new,
           \A m \in new : m[2] # Submit(s) /\ (m[1] = s => m[2].kind \notin {"refused", "result"})
    PROVE  StoryOf(s)'
<1>1. Untold(s)' => Untold(s)
  BY DEF Calm, Untold
<1>2. RefusedTo(s)' => RefusedTo(s)
  BY DEF Calm, RefusedTo
<1>3. Untouched(s) => Untouched(s)'
  BY DEF Calm, Untouched
<1>4. ResultOf(s)' => ResultOf(s)
  BY DEF Calm, ResultOf
<1>5. (s \in applied)' <=> s \in applied
  BY DEF Calm
<1>6. (pc[s] = "new" => tool[s] = "new")'
  BY DEF Calm, StoryOf
<1>7. (inbox[s] # <<>> => inbox[s] = <<Submit(s)>> /\ tool[s] \notin {"new", "hello"})'
  BY DEF Calm, StoryOf, Submit
<1> QED BY <1>1, <1>2, <1>3, <1>4, <1>5, <1>6, <1>7 DEF StoryOf

\* What is on its way after a write.
LEMMA WritesTraffic ==
    ASSUME TypeOK, NEW t \in Tasks, NEW c \in Conns, NEW f \in Frames, NEW next \in GoOn,
           Writes(t, c, f, next)
    PROVE  Traffic' \subseteq Traffic \cup {<<c, f>>, NoMessage}
<1> SUFFICES ASSUME NEW m \in Traffic' PROVE m \in Traffic \cup {<<c, f>>, NoMessage}
  OBVIOUS
<1>1. m \in (Conns \cup {NoOne}) \X Frames
  BY DEF Traffic
<1>2. CASE \E u \in Tasks : job'[u].to = m[1] /\ job'[u].frame = m[2]
  <2>1. PICK u \in Tasks : job'[u].to = m[1] /\ job'[u].frame = m[2]
    BY <1>2
  <2>2. CASE job'[u] = job[u]
    BY <1>1, <2>1, <2>2 DEF Traffic
  <2>3. CASE job'[u] = [to |-> c, frame |-> f, next |-> next]
    BY <1>1, <2>1, <2>3
  <2>4. CASE job'[u] = NoJob
    BY <1>1, <2>1, <2>4 DEF NoJob, NoMessage
  <2> QED BY <2>2, <2>3, <2>4 DEF Writes, TypeOK
<1>3. CASE m[1] \in Conns /\ \E k \in 1..Len(out'[m[1]]) : out'[m[1]][k] = m[2]
  <2>1. PICK k \in 1..Len(out'[m[1]]) : out'[m[1]][k] = m[2]
    BY <1>3
  <2>2. CASE out'[m[1]] = out[m[1]]
    BY <1>1, <1>3, <2>1, <2>2 DEF Traffic
  <2>3. CASE m[1] = c /\ out'[c] = Append(out[c], f)
    <3>1. /\ Len(out'[c]) = Len(out[c]) + 1 /\ Len(out[c]) \in Nat
          /\ out'[c][Len(out[c]) + 1] = f
          /\ \A i \in 1..Len(out[c]) : out'[c][i] = out[c][i]
      BY <2>3, AppendProperties DEF TypeOK
    <3>2. CASE k = Len(out[c]) + 1
      BY <1>1, <2>1, <2>3, <3>1, <3>2
    <3>3. CASE k \in 1..Len(out[c])
      <4>1. out[c][k] = m[2]
        BY <2>1, <2>3, <3>1, <3>3
      <4> QED BY <1>1, <2>3, <3>3, <4>1 DEF Traffic
    <3> QED BY <2>1, <2>3, <3>1, <3>2, <3>3
  <2> QED BY <1>3, <2>2, <2>3 DEF Writes, Puts, TypeOK
<1> QED BY <1>2, <1>3 DEF Traffic

\* Nothing is on its way that was not, when a peer reads or closes.
LEMMA ReadTraffic ==
    ASSUME TypeOK, NEW c \in Conns, UNCHANGED job,
           \/ out' = [out EXCEPT ![c] = <<>>]
           \/ out[c] # <<>> /\ out' = [out EXCEPT ![c] = Tail(@)]
    PROVE  Traffic' \subseteq Traffic
<1> SUFFICES ASSUME NEW m \in Traffic' PROVE m \in Traffic
  OBVIOUS
<1>1. m \in (Conns \cup {NoOne}) \X Frames
  BY DEF Traffic
<1>2. CASE \E u \in Tasks : job'[u].to = m[1] /\ job'[u].frame = m[2]
  BY <1>1, <1>2 DEF Traffic
<1>3. CASE m[1] \in Conns /\ \E k \in 1..Len(out'[m[1]]) : out'[m[1]][k] = m[2]
  <2>1. PICK k \in 1..Len(out'[m[1]]) : out'[m[1]][k] = m[2]
    BY <1>3
  <2>2. CASE out'[m[1]] = out[m[1]]
    BY <1>1, <1>3, <2>1, <2>2 DEF Traffic
  <2>3. CASE out'[m[1]] = <<>>
    BY <2>1, <2>3
  <2>4. CASE m[1] = c /\ out[c] # <<>> /\ out'[c] = Tail(out[c])
    <3>1. out[c] \in Seq(Frames) /\ Len(out[c]) \in Nat \ {0}
      BY <2>4, EmptySeq DEF TypeOK
    <3>2. /\ Len(out'[c]) = Len(out[c]) - 1
          /\ \A i \in 1..Len(out'[c]) : out'[c][i] = out[c][i + 1]
      BY <2>4, <3>1, HeadTailProperties
    <3>3. k + 1 \in 1..Len(out[c]) /\ out[c][k + 1] = m[2]
      BY <2>1, <2>4, <3>1, <3>2
    <3> QED BY <1>1, <2>4, <3>3 DEF Traffic
  <2> QED BY <1>3, <2>2, <2>3, <2>4 DEF TypeOK
<1> QED BY <1>2, <1>3 DEF Traffic

LEMMA SameTraffic == ASSUME UNCHANGED <<job, out>> PROVE Traffic' = Traffic
BY DEF Traffic

\* A frame at the head of what a peer has to read is on its way to it.
LEMMA HeadIsTraffic ==
    ASSUME TypeOK, NEW c \in Conns, out[c] # <<>> PROVE <<c, Head(out[c])>> \in Traffic
<1>1. out[c] \in Seq(Frames) /\ Len(out[c]) \in Nat \ {0}
  BY EmptySeq DEF TypeOK
<1>2. Head(out[c]) \in Frames /\ Head(out[c]) = out[c][1] /\ 1 \in 1..Len(out[c])
  BY <1>1
<1> QED BY <1>2 DEF Traffic

\* Reading lines reports nothing new.
LEMMA SameReported ==
    ASSUME TypeOK, NEW c \in Conns,
           \/ inbox' = inbox
           \/ inbox' = [inbox EXCEPT ![c] = <<>>]
           \/ inbox[c] # <<>> /\ inbox' = [inbox EXCEPT ![c] = Tail(@)]
    PROVE  Reported' \subseteq Reported
<1> SUFFICES ASSUME NEW s \in Reported' PROVE s \in Reported
  OBVIOUS
<1>1. s \in Tools
  BY DEF Reported
<1>2. PICK b \in Bots : \E k \in 1..Len(inbox'[b]) : inbox'[b][k] = Result(s)
  BY DEF Reported, Result
<1>3. PICK k \in 1..Len(inbox'[b]) : inbox'[b][k] = Result(s)
  BY <1>2
<1>4. CASE inbox'[b] = inbox[b]
  BY <1>1, <1>3, <1>4 DEF Reported
<1>5. CASE inbox'[b] = <<>>
  BY <1>3, <1>5
<1>6. CASE b = c /\ inbox[c] # <<>> /\ inbox'[c] = Tail(inbox[c])
  <2>1. inbox[c] \in Seq(Frames) /\ Len(inbox[c]) \in Nat \ {0}
    BY <1>6, EmptySeq DEF TypeOK
  <2>2. /\ Len(inbox'[c]) = Len(inbox[c]) - 1
        /\ \A i \in 1..Len(inbox'[c]) : inbox'[c][i] = inbox[c][i + 1]
    BY <1>6, <2>1, HeadTailProperties
  <2>3. k + 1 \in 1..Len(inbox[c]) /\ inbox[c][k + 1] = Result(s)
    BY <1>3, <1>6, <2>1, <2>2
  <2> QED BY <1>1, <1>6, <2>3 DEF Reported
<1> QED BY <1>4, <1>5, <1>6 DEF TypeOK, Conns

-----------------------------------------------------------------------------
\* A write that says nothing of request s.
LEMMA SayStory ==
    ASSUME IpcAssumption, Core, NEW s \in Tools, StoryOf(s),
           NEW t \in Tasks, NEW c \in Conns, NEW f \in Frames, NEW next \in GoOn,
           \/ Say(t, c, f, next) /\ ~Waits(t)
           \/ (Write(t) \/ Drain(t)) /\ c = job[t].to /\ f = job[t].frame /\ next = job[t].next,
           <<c, f>> \notin Traffic =>
               f # Submit(s) /\ (c = s => f.kind \notin {"refused", "result"}),
           UNCHANGED peers, inbox'[s] = inbox[s] \/ inbox'[s] = <<>>,
           future'[s] = "done" \/ s \in Reported' => ResultOf(s)
    PROVE  StoryOf(s)'
<1>1. Writes(t, c, f, next)
  BY SayCore
<1>2. Traffic' \subseteq Traffic \cup ({<<c, f>>, NoMessage} \ Traffic)
  BY <1>1, WritesTraffic DEF Core
<1>3. \A m \in {<<c, f>>, NoMessage} \ Traffic :
         m[2] # Submit(s) /\ (m[1] = s => m[2].kind \notin {"refused", "result"})
  BY DEF NoMessage, Frame, Submit
<1>4. pc'[s] = "new" => pc[s] = "new"
  <2>1. PICK l \in GoOn \cup {"write", "drain"} : pc' = [pc EXCEPT ![t] = l]
    BY <1>1 DEF Writes, Puts
  <2> QED BY <2>1 DEF Core, TypeOK, GoOn, Tasks, Conns
<1>5. Calm(s)
  BY <1>4 DEF Calm, peers, RefusedTo, ResultOf
<1> QED BY <1>2, <1>3, <1>5, CalmKeeps

\* A step that writes nothing and says nothing of request s.
LEMMA SilentStory ==
    ASSUME TypeOK, NEW s \in Tools, StoryOf(s), Calm(s), UNCHANGED <<job, out>>
    PROVE  StoryOf(s)'
<1>1. Traffic' \subseteq Traffic \cup {NoMessage}
  BY SameTraffic
<1>2. \A m \in {NoMessage} :
         m[2] # Submit(s) /\ (m[1] = s => m[2].kind \notin {"refused", "result"})
  BY DEF NoMessage, Frame, Submit
<1> QED BY <1>1, <1>2, CalmKeeps

\* What the handler of a tool can read is the tool's request.
LEMMA ToolLine ==
    ASSUME Core, NEW c \in Conns, NEW kinds, Read(c, kinds), c \in Tools => StoryOf(c)
    PROVE  /\ Reported' \subseteq Reported /\ ~Waits(c)
           /\ \A s \in Tools \ {c} : inbox'[s] = inbox[s]
           /\ c \in Tools => /\ inbox[c] = <<Submit(c)>> /\ inbox'[c] = <<>>
                             /\ "submit" \in kinds
                             /\ Untouched(c) /\ ~RefusedTo(c)
                             /\ tool[c] \notin {"new", "hello"}
<1>1. Reported' \subseteq Reported
  BY SameReported DEF Core, Read
<1>2. \A s \in Tools \ {c} : inbox'[s] = inbox[s]
  BY DEF Read, Core, TypeOK, Conns
<1>3. ASSUME c \in Tools
      PROVE  /\ inbox[c] = <<Submit(c)>> /\ inbox'[c] = <<>> /\ "submit" \in kinds
             /\ Untouched(c) /\ ~RefusedTo(c) /\ tool[c] \notin {"new", "hello"}
  <2>1. inbox[c] = <<Submit(c)>> /\ tool[c] \notin {"new", "hello"}
    BY <1>3 DEF Read, StoryOf
  <2>2. inbox'[c] = Tail(inbox[c]) /\ Head(inbox[c]).kind \in kinds
    BY DEF Read, Core, TypeOK
  <2>3. Tail(<<Submit(c)>>) = <<>> /\ Head(<<Submit(c)>>) = Submit(c)
    OBVIOUS
  <2>4. Untold(c)
    BY <2>1 DEF Untold
  <2> QED BY <1>3, <2>1, <2>2, <2>3, <2>4 DEF StoryOf, Submit
<1> QED BY <1>1, <1>2, <1>3 DEF Read, Waits

\* The handler refuses what it has read, and forwards nothing.
LEMMA RefusalStory ==
    ASSUME IpcAssumption, Core, Story, NEW c \in Conns, NEW kinds, Read(c, kinds),
           NEW next \in GoOn, Reply(c, "refused", next), UNCHANGED <<forwards, peers>>
    PROVE  Story'
<1> SUFFICES ASSUME NEW s \in Tools PROVE StoryOf(s)'
  BY DEF Story
<1>1. /\ Say(c, c, Frame("refused"), next) /\ ~Waits(c) /\ c \in Tasks
      /\ StoryOf(s) /\ (c \in Tools => StoryOf(c)) /\ Frame("refused") \in Frames
      /\ Frame("refused") # Submit(s)
  BY ToolLine, FramesTyped DEF Reply, Story, Tasks, Frame, Submit
<1>2. s \in Reported' => ResultOf(s)
  BY <1>1, ToolLine DEF ResultOf
<1>3. future'[s] = "done" => ResultOf(s)
  BY DEF ResultOf, forwards
<1>4. CASE s # c
  <2>1. inbox'[s] = inbox[s]
    BY <1>1, <1>4, ToolLine
  <2> QED BY <1>1, <1>2, <1>3, <1>4, <2>1, SayStory
<1>5. CASE s = c
  <2>1. /\ inbox'[s] = <<>> /\ Untouched(s) /\ tool[s] \notin {"new", "hello"}
    BY <1>1, <1>5, ToolLine
  <2>2. Writes(c, c, Frame("refused"), next)
    BY <1>1, SayCore
  <2>3. Traffic' \subseteq Traffic \cup {<<c, Frame("refused")>>, NoMessage}
    BY <1>1, <2>2, WritesTraffic DEF Core
  <2>4. Untouched(s)'
    BY <1>1, <2>1, <2>3 DEF Untouched, NoMessage, Frame, Submit, peers
  <2>5. ~Untold(s)'
    BY <2>1 DEF Untold, peers
  <2>6. ResultOf(s)' => ResultOf(s)
    BY <1>2, <1>3, <2>3 DEF ResultOf, NoMessage, Frame, peers
  <2>7. tool'[s] = tool[s] /\ applied' = applied
    BY DEF peers
  <2>8. (s \in applied)' <=> s \in applied
    BY <2>7
  <2>9. (pc[s] = "new" => tool[s] = "new")'
    <3>1. PICK l \in GoOn \cup {"write", "drain"} : pc' = [pc EXCEPT ![c] = l]
      BY <2>2 DEF Writes, Puts
    <3> QED BY <1>1, <1>5, <3>1 DEF Core, TypeOK, GoOn
  <2>10. (inbox[s] # <<>> => inbox[s] = <<Submit(s)>> /\ tool[s] \notin {"new", "hello"})'
    BY <2>1
  <2> QED BY <1>1, <2>4, <2>5, <2>6, <2>8, <2>9, <2>10 DEF StoryOf
<1> QED BY <1>4, <1>5

LEMMA ForwardStory ==
    ASSUME IpcAssumption, Core, Story, NEW c \in Tools, Forward(c) PROVE Story'
<1>1. c \in Conns /\ c \in Tasks /\ Read(c, {"submit"}) /\ UNCHANGED peers
  BY DEF Conns, Tasks, Forward
<1>2. CASE Reply(c, "refused", "read") /\ UNCHANGED forwards
  <2>1. "read" \in GoOn
    BY DEF GoOn
  <2> QED BY <1>1, <1>2, <2>1, RefusalStory
<1>3. CASE /\ bot # NoOne
           /\ waiters' = waiters \cup {c} /\ future' = [future EXCEPT ![c] = "pending"]
           /\ Say(c, bot, Submit(c), "waiting")
  <2> SUFFICES ASSUME NEW s \in Tools PROVE StoryOf(s)'
    BY DEF Story
  <2>1. /\ bot \in Conns /\ "waiting" \in GoOn /\ Submit(c) \in Frames
        /\ StoryOf(s) /\ StoryOf(c)
    BY <1>3, FramesTyped DEF Core, TypeOK, GoOn, Story
  <2>2. /\ Reported' \subseteq Reported /\ ~Waits(c)
        /\ \A r \in Tools \ {c} : inbox'[r] = inbox[r]
        /\ inbox[c] = <<Submit(c)>> /\ inbox'[c] = <<>> /\ ~RefusedTo(c)
        /\ tool[c] \notin {"new", "hello"}
    BY <1>1, <2>1, ToolLine
  <2>3. future'[s] = "done" \/ s \in Reported' => ResultOf(s)
    BY <1>3, <2>2 DEF ResultOf, Core, TypeOK
  <2>4. CASE s # c
    <3>1. Submit(c) # Submit(s) /\ Submit(c).kind \notin {"refused", "result"}
      BY <2>4 DEF Submit
    <3> QED BY <1>1, <1>3, <2>1, <2>2, <2>3, <2>4, <3>1, SayStory
  <2>5. CASE s = c
    <3>1. Writes(c, bot, Submit(c), "waiting")
      BY <1>1, <1>3, <2>1, <2>2, SayCore
    <3>2. Traffic' \subseteq Traffic \cup {<<bot, Submit(c)>>, NoMessage}
      BY <1>1, <2>1, <3>1, WritesTraffic DEF Core
    <3>3. ~RefusedTo(s)'
      BY <1>1, <2>2, <2>5, <3>2 DEF RefusedTo, NoMessage, Frame, Submit, peers
    <3>4. ~Untold(s)'
      BY <1>1, <2>2, <2>5 DEF Untold, peers
    <3>5. ResultOf(s)' => ResultOf(s)
      BY <1>1, <2>3, <3>2 DEF ResultOf, NoMessage, Frame, Submit, peers
    <3>6. (s \in applied)' <=> s \in applied
      BY <1>1 DEF peers
    <3>7. (pc[s] = "new" => tool[s] = "new")'
      <4>1. PICK l \in GoOn \cup {"write", "drain"} : pc' = [pc EXCEPT ![c] = l]
        BY <3>1 DEF Writes, Puts
      <4> QED BY <1>1, <2>5, <4>1 DEF Core, TypeOK, GoOn
    <3>8. (inbox[s] # <<>> => inbox[s] = <<Submit(s)>> /\ tool[s] \notin {"new", "hello"})'
      BY <2>2, <2>5
    <3> QED BY <2>1, <3>3, <3>4, <3>5, <3>6, <3>7, <3>8 DEF StoryOf
  <2> QED BY <2>4, <2>5
<1> QED BY <1>2, <1>3 DEF Forward

\* A write of a frame that is neither a request nor an answer to one.
LEMMA PlainStory ==
    ASSUME IpcAssumption, Core, Story, NEW t \in Tasks, NEW c \in Conns, NEW next \in GoOn,
           NEW kind \in {"hello", "message", "reply", "timeout"},
           Say(t, c, Frame(kind), next), ~Waits(t), UNCHANGED peers, Reported' \subseteq Reported,
           \A s \in Tools : /\ inbox'[s] = inbox[s] \/ inbox'[s] = <<>>
                            /\ future'[s] = "done" => future[s] = "done"
    PROVE  Story'
<1> SUFFICES ASSUME NEW s \in Tools PROVE StoryOf(s)'
  BY DEF Story
<1>1. Frame(kind) \in Frames /\ Frame(kind) # Submit(s) /\ Frame(kind).kind \notin {"refused", "result"}
  BY DEF Frame, Frames, Submit
<1>2. future'[s] = "done" \/ s \in Reported' => ResultOf(s)
  BY DEF ResultOf
<1> QED BY <1>1, <1>2, SayStory DEF Story

\* A step that writes nothing, and after which peers are where they were.
LEMMA QuietStory ==
    ASSUME Core, Story, UNCHANGED <<job, out, peers>>, Reported' \subseteq Reported,
           \A s \in Tools : /\ inbox'[s] = inbox[s] \/ inbox'[s] = <<>>
                            /\ future'[s] = "done" => ResultOf(s)
                            /\ pc'[s] = "new" => pc[s] = "new"
    PROVE  Story'
<1> SUFFICES ASSUME NEW s \in Tools PROVE StoryOf(s)'
  BY DEF Story
<1>1. Calm(s)
  BY DEF Calm, RefusedTo, ResultOf, peers
<1> QED BY <1>1, SilentStory DEF Story, Core

\* The handler takes a result: it is of a request the sidecar has answered.
LEMMA TakeStory == ASSUME IpcAssumption, Core, Story, NEW c \in Conns, TakeResult(c) PROVE Story'
<1>1. Read(c, {"result"}) /\ c \in Bots
  BY ToolLine DEF TakeResult, Story, Conns
<1>2. ASSUME NEW s \in Tools, future'[s] = "done" PROVE ResultOf(s)
  <2>1. CASE future[s] = "done"
    BY <2>1 DEF ResultOf
  <2>2. CASE Head(inbox[c]).of = s
    <3>1. inbox[c] \in Seq(Frames) /\ Len(inbox[c]) \in Nat \ {0}
      BY <1>1, EmptySeq DEF Read, Core, TypeOK
    <3>2. Head(inbox[c]) \in Frames /\ Head(inbox[c]) = inbox[c][1] /\ 1 \in 1..Len(inbox[c])
      BY <3>1
    <3>3. Head(inbox[c]).kind = "result"
      BY <1>1 DEF Read
    <3>4. inbox[c][1] = Result(s)
      BY <2>2, <3>2, <3>3 DEF Frames, Result
    <3> QED BY <1>1, <3>2, <3>4 DEF ResultOf, Reported
  <2> QED BY <1>2, <2>1, <2>2 DEF TakeResult, Core, TypeOK
<1>3. Reported' \subseteq Reported
  BY <1>1, ToolLine DEF Story
<1>4. \A s \in Tools : inbox'[s] = inbox[s]
  BY <1>1 DEF Read, Core, TypeOK, IpcAssumption
<1> QED BY <1>2, <1>3, <1>4, QuietStory DEF TakeResult, NoSay, writing

\* The waiting handler writes the result its future holds.
LEMMA AnswerStory == ASSUME IpcAssumption, Core, Story, NEW c \in Tools, Answer(c) PROVE Story'
<1>1. c \in Conns /\ c \in Tasks /\ ~Waits(c)
  BY DEF Answer, Waits, Conns, Tasks
<1>2. \A s \in Tools : future'[s] = "done" => future[s] = "done"
  BY DEF Answer, Core, TypeOK
<1>3. UNCHANGED <<peers, inbox>> /\ Reported' = Reported
  BY DEF Answer, Reported
<1>4. CASE future[c] = "failed" /\ At(c, "finally") /\ NoSay
  <2>1. \A s \in Tools : pc'[s] = "new" => pc[s] = "new"
    BY <1>1, <1>4 DEF At, Core, TypeOK, Tasks, Conns
  <2> QED BY <1>2, <1>3, <1>4, <2>1, QuietStory DEF NoSay, writing, ResultOf
<1>5. CASE future[c] = "done" /\ Reply(c, "result", "read")
  <2> SUFFICES ASSUME NEW s \in Tools PROVE StoryOf(s)'
    BY DEF Story
  <2>1. /\ Say(c, c, Frame("result"), "read") /\ "read" \in GoOn
        /\ Frame("result") \in Frames /\ Frame("result") # Submit(s)
    BY <1>5, FramesTyped DEF Reply, GoOn, Frame, Submit, Frames
  <2>2. future'[s] = "done" \/ s \in Reported' => ResultOf(s)
    BY <1>2, <1>3 DEF ResultOf
  <2>3. CASE s # c
    BY <1>1, <1>3, <2>1, <2>2, <2>3, SayStory DEF Story
  <2>4. CASE s = c
    <3>1. ResultOf(s) /\ StoryOf(s)
      BY <1>5, <2>4 DEF ResultOf, Story
    <3>2. Writes(c, c, Frame("result"), "read")
      BY <1>1, <2>1, SayCore
    <3>3. Traffic' \subseteq Traffic \cup {<<c, Frame("result")>>, NoMessage}
      BY <1>1, <2>1, <3>2, WritesTraffic DEF Core
    <3>4. s \in applied' /\ applied' = applied
      BY <1>3, <3>1 DEF StoryOf, peers
    <3>5. RefusedTo(s)' => RefusedTo(s)
      BY <1>3, <3>3 DEF RefusedTo, NoMessage, Frame, peers
    <3>6. Untold(s)' => Untold(s)
      BY <1>3 DEF Untold, peers
    <3>7. ~Untold(s) /\ ~RefusedTo(s)
      BY <3>1 DEF StoryOf, Untouched
    <3>8. (pc[s] = "new" => tool[s] = "new")'
      <4>1. PICK l \in GoOn \cup {"write", "drain"} : pc' = [pc EXCEPT ![c] = l]
        BY <3>2 DEF Writes, Puts
      <4> QED BY <1>1, <2>4, <4>1 DEF Core, TypeOK, GoOn
    <3>9. (inbox[s] # <<>> => inbox[s] = <<Submit(s)>> /\ tool[s] \notin {"new", "hello"})'
      BY <1>3, <3>1 DEF StoryOf, peers
    <3>10. (s \in applied)'
      BY <3>4
    <3> QED BY <3>5, <3>6, <3>7, <3>8, <3>9, <3>10 DEF StoryOf
  <2> QED BY <2>3, <2>4
<1> QED BY <1>4, <1>5 DEF Answer

LEMMA HandlerStory ==
    ASSUME IpcAssumption, Core, Story, NEW c \in Conns, HandlerStep(c) PROVE Story'
<1>1. c \in Tasks /\ {"read", "finally"} \subseteq GoOn
  BY DEF Tasks, GoOn
<1>2. CASE Begin(c)
  <2>1. UNCHANGED <<peers, inbox, forwards>> /\ Reported' = Reported /\ ~Waits(c)
    BY <1>2 DEF Begin, Reported, Waits
  <2>2. CASE Reply(c, "hello", "read")
    BY <1>1, <2>1, <2>2, PlainStory DEF Reply, forwards
  <2>3. CASE At(c, "off") /\ UNCHANGED <<writing, out>>
    <3>1. \A s \in Tools : pc'[s] = "new" => pc[s] = "new"
      BY <1>1, <2>3 DEF At, Core, TypeOK, Tasks, Conns
    <3> QED BY <2>1, <2>3, <3>1, QuietStory DEF writing, forwards, ResultOf
  <2> QED BY <1>2, <2>2, <2>3 DEF Begin
<1>3. CASE TakeResult(c)
  BY <1>3, TakeStory
<1>4. CASE Refuse(c)
  <2>1. PICK next \in {"read", "finally"} : Reply(c, "refused", next)
    BY <1>4 DEF Refuse
  <2> QED BY <1>1, <1>4, <2>1, RefusalStory DEF Refuse
<1>5. CASE Register(c)
  <2>1. /\ Read(c, {"register"}) /\ Reply(c, "reply", "read") /\ UNCHANGED <<peers, forwards>>
        /\ c \in Bots
    BY <1>5, ToolLine DEF Register, Conns, Story
  <2>2. Reported' \subseteq Reported /\ ~Waits(c) /\ \A s \in Tools : inbox'[s] = inbox[s]
    BY <2>1, ToolLine DEF Story, IpcAssumption
  <2> QED BY <1>1, <2>1, <2>2, PlainStory DEF Reply, forwards
<1>6. CASE Work(c)
  <2>1. Read(c, {"work"}) /\ c \in Bots
    BY <1>6, ToolLine DEF Work, Conns, Story
  <2>2. Reported' \subseteq Reported /\ \A s \in Tools : inbox'[s] = inbox[s]
    BY <2>1, ToolLine DEF Story, IpcAssumption
  <2>3. \A s \in Tools : pc'[s] = "new" => pc[s] = "new"
    BY <1>1, <1>6 DEF Work, At, Core, TypeOK, Tasks, Conns
  <2> QED BY <1>6, <2>2, <2>3, QuietStory DEF Work, NoSay, writing, forwards, ResultOf
<1>7. CASE WorkDone(c)
  <2>1. UNCHANGED <<peers, inbox, forwards>> /\ Reported' = Reported /\ ~Waits(c)
    BY <1>7 DEF WorkDone, Reported, Waits
  <2> QED BY <1>1, <1>7, <2>1, PlainStory DEF WorkDone, Reply, forwards
<1>8. CASE Eof(c)
  <2>1. UNCHANGED <<peers, inbox, out, job, future>> /\ Reported' = Reported
    BY <1>8 DEF Eof, Reported, wire, writing, forwards
  <2>2. \A s \in Tools : pc'[s] = "new" => pc[s] = "new"
    BY <1>1, <1>8 DEF Eof, At, Core, TypeOK, Tasks, Conns
  <2> QED BY <2>1, <2>2, QuietStory DEF ResultOf
<1>9. CASE Finish(c)
  <2>1. UNCHANGED <<peers, out, job, future>> /\ inbox' = [inbox EXCEPT ![c] = <<>>]
    BY <1>9 DEF Finish, writing, forwards
  <2>2. Reported' \subseteq Reported /\ \A s \in Tools : inbox'[s] = inbox[s] \/ inbox'[s] = <<>>
    BY <2>1, SameReported DEF Core, TypeOK, Conns
  <2>3. \A s \in Tools : pc'[s] = "new" => pc[s] = "new"
    BY <1>1, <1>9 DEF Finish, At, Core, TypeOK, Tasks, Conns
  <2> QED BY <2>1, <2>2, <2>3, QuietStory DEF ResultOf
<1>10. CASE c \in Tools /\ Forward(c)
  BY <1>10, ForwardStory
<1>11. CASE c \in Tools /\ Answer(c)
  BY <1>11, AnswerStory
<1>12. CASE c \in Tools /\ Timeout(c)
  <2>1. UNCHANGED <<peers, inbox>> /\ Reported' = Reported /\ ~Waits(c)
    BY <1>12 DEF Timeout, Reported, Waits
  <2>2. \A s \in Tools : future'[s] = "done" => future[s] = "done"
    BY <1>12 DEF Timeout, Core, TypeOK
  <2> QED BY <1>1, <1>12, <2>1, <2>2, PlainStory DEF Timeout, Reply
<1> QED BY <1>2, <1>3, <1>4, <1>5, <1>6, <1>7, <1>8, <1>9, <1>10, <1>11, <1>12 DEF HandlerStep

LEMMA WriterStory == ASSUME IpcAssumption, Core, Story, WriterStep PROVE Story'
<1>1. PICK t \in Tasks : Write(t) \/ Drain(t)
  BY DEF WriterStep
<1>2. Waits(t)
  BY <1>1 DEF Write, Drain, Waits
<1>3. /\ job[t].to \in Conns /\ job[t].frame \in Frames /\ job[t].next \in GoOn
  BY <1>2 DEF Core, Sensible, TypeOK, Jobs
<1>4. <<job[t].to, job[t].frame>> \in Traffic
  BY <1>3 DEF Traffic
<1>5. UNCHANGED <<peers, inbox, future>> /\ Reported' = Reported
  BY <1>1 DEF Write, Drain, Reported, forwards
<1> SUFFICES ASSUME NEW s \in Tools PROVE StoryOf(s)'
  BY DEF Story
<1>6. future'[s] = "done" \/ s \in Reported' => ResultOf(s)
  BY <1>5 DEF ResultOf
<1> QED BY <1>1, <1>3, <1>4, <1>5, <1>6, SayStory DEF Story

LEMMA PublishStory ==
    ASSUME IpcAssumption, Core, Story, PublishBegin \/ PublisherStep PROVE Story'
<1>1. UNCHANGED <<peers, inbox, future>> /\ Reported' = Reported /\ Publisher \in Tasks
  BY DEF PublishBegin, PublisherStep, PublishEnd, PublishNext, wire, forwards, Reported, Tasks
<1>2. CASE PublishBegin \/ PublishEnd
  <2>1. UNCHANGED <<job, out>>
    BY <1>2 DEF PublishBegin, PublishEnd, wire, writing
  <2>2. \A s \in Tools : pc'[s] = pc[s]
    BY <1>2 DEF PublishBegin, PublishEnd, IpcAssumption, Conns, Core, TypeOK, Tasks
  <2> QED BY <1>1, <2>1, <2>2, QuietStory DEF ResultOf
<1>3. CASE \E c \in Conns : PublishNext(c)
  <2>1. PICK c \in Conns : PublishNext(c)
    BY <1>3
  <2>2. ~Waits(Publisher) /\ "publish" \in GoOn
    BY <2>1 DEF PublishNext, Waits, GoOn
  <2> QED BY <1>1, <2>1, <2>2, PlainStory DEF PublishNext
<1> QED BY <1>2, <1>3 DEF PublisherStep

LEMMA ServiceStory ==
    ASSUME IpcAssumption, Core, Story, ServiceStep PROVE Story'
<1>1. UNCHANGED <<peers, inbox, job, out, pc>> /\ Reported' = Reported
  BY DEF ServiceStep, Start, StopBegin, StopStep, StopSweep, StopAbandoned, StopAgain, Sweep,
         StopClose, StopEnd, wire, writing, Reported
<1>2. \A s \in Tools : future'[s] = "done" => future[s] = "done"
  BY DEF ServiceStep, Start, StopBegin, StopStep, StopSweep, StopAbandoned, StopAgain, Sweep,
         StopClose, StopEnd, forwards, Core, TypeOK
<1> QED BY <1>1, <1>2, QuietStory DEF ResultOf

\* A peer reads or closes, and says nothing of request s.
LEMMA PeerStory ==
    ASSUME Core, NEW s \in Tools, StoryOf(s), Calm(s), Traffic' \subseteq Traffic
    PROVE  StoryOf(s)'
<1>1. Traffic' \subseteq Traffic \cup {NoMessage}
  OBVIOUS
<1>2. \A m \in {NoMessage} :
         m[2] # Submit(s) /\ (m[1] = s => m[2].kind \notin {"refused", "result"})
  BY DEF NoMessage, Frame, Submit
<1> QED BY <1>1, <1>2, CalmKeeps

LEMMA ConnectStory == ASSUME Core, Story, NEW c \in Conns, Connect(c) PROVE Story'
<1> SUFFICES ASSUME NEW s \in Tools PROVE StoryOf(s)'
  BY DEF Story
<1>1. UNCHANGED <<job, out, inbox, answer, owed, applied, future>> /\ Reported' = Reported
  BY DEF Connect, writing, forwards, Reported
<1>2. StoryOf(s) /\ s \in Tasks /\ c \in Tasks
  BY DEF Story, Conns, Tasks
<1>3. Calm(s)
  <2>1. /\ tool'[s] \in {"new", "hello"} => tool[s] \in {"new", "hello"}
        /\ pc'[s] = "new" => pc[s] = "new" /\ tool'[s] = tool[s]
    BY <1>2 DEF Connect, At, StoryOf, Core, TypeOK
  <2> QED BY <1>1, <2>1 DEF Calm, RefusedTo, ResultOf
<1>4. Traffic' \subseteq Traffic
  BY <1>1, SameTraffic
<1> QED BY <1>2, <1>3, <1>4, PeerStory

\* A bot reports only on requests it has read and not answered.
LEMMA BotSendsStory ==
    ASSUME IpcAssumption, Core, Story, NEW b \in Bots, NEW f \in BotFrames, BotSends(b, f)
    PROVE  Story'
<1> SUFFICES ASSUME NEW s \in Tools PROVE StoryOf(s)'
  BY DEF Story
<1>1. /\ UNCHANGED <<job, out, pc, tool, answer, applied, future>> /\ owed' \subseteq owed
      /\ b \in Conns /\ b # s /\ s \in Conns
  BY DEF BotSends, writing, forwards, Conns, IpcAssumption
<1>2. inbox'[s] = inbox[s]
  BY <1>1 DEF BotSends, Core, TypeOK
<1>3. ASSUME s \in Reported' PROVE ResultOf(s)
  <2>1. PICK d \in Bots : \E k \in 1..Len(inbox'[d]) : inbox'[d][k] = Result(s)
    BY <1>3 DEF Reported, Result
  <2>2. PICK k \in 1..Len(inbox'[d]) : inbox'[d][k] = Result(s)
    BY <2>1
  <2>3. CASE inbox'[d] = inbox[d]
    BY <2>2, <2>3 DEF Reported, ResultOf
  <2>4. CASE d = b /\ inbox'[b] = Append(inbox[b], f)
    <3>1. /\ inbox[b] \in Seq(Frames) /\ f \in Frames
      BY <1>1, BotFrameTyped DEF Core, TypeOK
    <3>2. /\ Len(inbox'[b]) = Len(inbox[b]) + 1 /\ Len(inbox[b]) \in Nat
          /\ inbox'[b][Len(inbox[b]) + 1] = f
          /\ \A i \in 1..Len(inbox[b]) : inbox'[b][i] = inbox[b][i]
      BY <2>4, <3>1, AppendProperties
    <3>3. CASE k \in 1..Len(inbox[b])
      <4>1. inbox[b][k] = Result(s)
        BY <2>2, <2>4, <3>2, <3>3
      <4> QED BY <3>3, <4>1 DEF Reported, ResultOf
    <3>4. CASE k = Len(inbox[b]) + 1
      <4>1. f = Result(s)
        BY <2>2, <2>4, <3>2, <3>4
      <4>2. \A j \in BotKinds : f # Frame(j)
        BY <4>1 DEF Frame, Result, IpcAssumption
      <4>3. s \in owed
        BY <4>1, <4>2 DEF BotFrames, Result
      <4> QED BY <4>3 DEF ResultOf
    <3> QED BY <2>2, <2>4, <3>2, <3>3, <3>4
  <2> QED BY <1>1, <2>3, <2>4 DEF BotSends, Core, TypeOK, Conns
<1>4. Calm(s)
  BY <1>1, <1>2, <1>3 DEF Calm, RefusedTo, ResultOf
<1>5. Traffic' \subseteq Traffic
  BY <1>1, SameTraffic
<1> QED BY <1>4, <1>5, PeerStory DEF Story

LEMMA BotStory ==
    ASSUME IpcAssumption, Core, Story, NEW b \in Bots,
           BotCloses(b) \/ BotReads(b) \/ \E f \in BotFrames : BotSends(b, f)
    PROVE  Story'
<1>1. CASE \E f \in BotFrames : BotSends(b, f)
  BY <1>1, BotSendsStory
<1>2. CASE BotCloses(b) \/ BotReads(b)
  <2> SUFFICES ASSUME NEW s \in Tools PROVE StoryOf(s)'
    BY DEF Story
  <2>1. /\ b \in Conns /\ StoryOf(s)
        /\ UNCHANGED <<job, pc, inbox, tool, answer, future>> /\ Reported' = Reported
    BY <1>2 DEF BotCloses, BotReads, Close, peers, writing, forwards, Reported, Conns, Story
  <2>2. Traffic' \subseteq Traffic
    BY <1>2, <2>1, ReadTraffic DEF BotCloses, BotReads, Close, Core
  <2>3. CASE BotReads(b) /\ Head(out[b]) = Submit(s)
    <3>1. <<b, Submit(s)>> \in Traffic
      BY <2>1, <2>3, HeadIsTraffic DEF BotReads, Core
    <3>2. ~Untold(s) /\ ~RefusedTo(s)
      BY <2>1, <3>1 DEF StoryOf, Untouched
    <3>3. ~Untold(s)' /\ ~RefusedTo(s)'
      BY <2>1, <2>2, <3>2 DEF Untold, RefusedTo
    <3>4. (s \in applied)'
      BY <2>3 DEF BotReads
    <3>5. /\ (pc[s] = "new" => tool[s] = "new")'
          /\ (inbox[s] # <<>> => inbox[s] = <<Submit(s)>> /\ tool[s] \notin {"new", "hello"})'
      BY <2>1 DEF StoryOf
    <3> QED BY <3>3, <3>4, <3>5 DEF StoryOf
  <2>4. CASE ~(BotReads(b) /\ Head(out[b]) = Submit(s))
    <3>1. (s \in applied' <=> s \in applied) /\ (s \in owed' <=> s \in owed)
      BY <1>2, <2>4 DEF BotCloses, BotReads, peers
    <3>2. Calm(s)
      BY <2>1, <3>1 DEF Calm, RefusedTo, ResultOf
    <3> QED BY <2>1, <2>2, <3>2, PeerStory
  <2> QED BY <2>3, <2>4
<1> QED BY <1>1, <1>2

LEMMA ToolStory ==
    ASSUME IpcAssumption, Core, Story, NEW t \in Tools,
           ToolAsks(t) \/ ToolReads(t) \/ ToolEof(t) \/ ToolGivesUp(t)
    PROVE  Story'
<1> SUFFICES ASSUME NEW s \in Tools PROVE StoryOf(s)'
  BY DEF Story
<1>1. /\ UNCHANGED <<job, pc, future, owed, applied>> /\ t \in Conns /\ s \in Conns
      /\ StoryOf(s) /\ StoryOf(t)
  BY DEF ToolAsks, ToolReads, ToolEof, ToolGivesUp, writing, forwards, Conns, Story
<1>2. Traffic' \subseteq Traffic
  <2>1. \/ out' = [out EXCEPT ![t] = <<>>]
        \/ out[t] # <<>> /\ out' = [out EXCEPT ![t] = Tail(@)]
    BY DEF ToolAsks, ToolReads, ToolEof, ToolGivesUp, Close
  <2> QED BY <1>1, <2>1, ReadTraffic DEF Core
<1>3. Reported' = Reported
  <2>1. \A b \in Bots : inbox'[b] = inbox[b]
    BY DEF ToolAsks, ToolReads, ToolEof, ToolGivesUp, Close, IpcAssumption, Core, TypeOK, Conns
  <2> QED BY <2>1 DEF Reported, Result
<1>4. CASE ToolAsks(t) /\ s = t /\ tool'[t] = "asked"
  <2>1. tool[t] = "hello" /\ inbox[t] = <<>> /\ inbox' = [inbox EXCEPT ![t] = Append(@, Submit(t))]
    BY <1>1, <1>4 DEF ToolAsks, StoryOf, Core, TypeOK
  <2>2. inbox'[t] = <<Submit(t)>>
    BY <1>1, <2>1 DEF Core, TypeOK
  <2>3. Untouched(s) /\ ~RefusedTo(s) /\ UNCHANGED answer
    BY <1>1, <1>4, <2>1 DEF StoryOf, Untold, ToolAsks
  <2>4. Untouched(s)' /\ ~RefusedTo(s)'
    BY <1>1, <1>2, <2>3 DEF Untouched, RefusedTo
  <2>5. ResultOf(s)' => ResultOf(s)
    BY <1>1, <1>2, <1>3, <2>3 DEF ResultOf
  <2>6. (pc[s] = "new" => tool[s] = "new")'
    BY <1>1, <1>4, <2>1 DEF StoryOf
  <2>7. (inbox[s] # <<>> => inbox[s] = <<Submit(s)>> /\ tool[s] \notin {"new", "hello"})'
    BY <1>4, <2>2
  <2>8. (s \in applied)' <=> s \in applied
    BY <1>1
  <2> QED BY <1>1, <2>4, <2>5, <2>6, <2>7, <2>8 DEF StoryOf
<1>5. CASE ~(ToolAsks(t) /\ s = t /\ tool'[t] = "asked")
  <2>1. \/ tool'[s] = tool[s]
        \/ s = t /\ tool'[s] \in {"answered", "failed"} /\ tool[s] \in {"hello", "asked"}
    BY <1>5 DEF ToolAsks, ToolReads, ToolEof, ToolGivesUp, Core, TypeOK
  <2>2. inbox'[s] = inbox[s]
    BY <1>1, <1>5 DEF ToolAsks, ToolReads, ToolEof, ToolGivesUp, Close, Core, TypeOK
  <2>3. answer'[s] \in {"refused", "result"} =>
            answer'[s] = answer[s] \/ \E m \in Traffic : m[1] = s /\ m[2].kind = answer'[s]
    <3>1. CASE ToolReads(t) /\ s = t
      <4>1. <<t, Head(out[t])>> \in Traffic
        BY <1>1, <3>1, HeadIsTraffic DEF ToolReads, Core
      <4>2. answer'[s] = Head(out[t]).kind
        BY <3>1 DEF ToolReads, Core, TypeOK
      <4> QED BY <3>1, <4>1, <4>2
    <3>2. CASE ~(ToolReads(t) /\ s = t)
      BY <3>2 DEF ToolAsks, ToolReads, ToolEof, ToolGivesUp, Core, TypeOK
    <3> QED BY <3>1, <3>2
  <2>4. pc[s] = "new" => tool'[s] = tool[s]
    BY <1>1, <2>1 DEF StoryOf
  <2>5. Calm(s)
    BY <1>1, <1>3, <2>1, <2>2, <2>3, <2>4 DEF Calm, RefusedTo, ResultOf
  <2> QED BY <1>1, <1>2, <2>5, PeerStory
<1> QED BY <1>4, <1>5

LEMMA InitStory == ASSUME IpcAssumption, Init PROVE Story
<1> SUFFICES ASSUME NEW s \in Tools PROVE StoryOf(s)
  BY DEF Story
<1>1. /\ tool[s] = "new" /\ answer[s] = "none" /\ future[s] = "none"
      /\ s \notin applied /\ s \notin owed /\ \A c \in Conns : inbox[c] = <<>> /\ out[c] = <<>>
      /\ \A u \in Tasks : job[u] = NoJob
  BY DEF Init
<1>2. \A m \in Traffic : m[2] = Frame("hello")
  BY <1>1 DEF Traffic, NoJob
<1>3. Untouched(s) /\ ~RefusedTo(s) /\ ~ResultOf(s) /\ inbox[s] = <<>>
  <2>1. s \notin Reported
    BY <1>1 DEF Reported, Conns
  <2> QED BY <1>1, <1>2, <2>1 DEF Untouched, RefusedTo, ResultOf, Frame, Submit, Conns
<1> QED BY <1>1, <1>3 DEF StoryOf

\* What is said of a request, by anybody and on any wire, agrees with what the
\* sidecar has read of it.
THEOREM StoryInvariant == ASSUME IpcAssumption PROVE Spec => []Story
<1>1. Init => Story
  BY InitStory
<1>2. Core /\ Story /\ [Next]_vars => Story'
  <2> SUFFICES ASSUME Core, Story, [Next]_vars PROVE Story'
    OBVIOUS
  <2>1. ASSUME NEW c \in Conns, HandlerStep(c) \/ Connect(c) PROVE Story'
    BY <2>1, HandlerStory, ConnectStory
  <2>2. CASE WriterStep
    BY <2>2, WriterStory
  <2>3. CASE PublishBegin \/ PublisherStep
    BY <2>3, PublishStory
  <2>4. CASE ServiceStep
    BY <2>4, ServiceStory
  <2>5. ASSUME NEW b \in Bots,
               BotCloses(b) \/ BotReads(b) \/ \E f \in BotFrames : BotSends(b, f)
        PROVE  Story'
    BY <2>5, BotStory
  <2>6. ASSUME NEW t \in Tools, ToolAsks(t) \/ ToolReads(t) \/ ToolEof(t) \/ ToolGivesUp(t)
        PROVE  Story'
    BY <2>6, ToolStory
  <2>7. CASE UNCHANGED vars
    <3>1. UNCHANGED <<job, out, peers, inbox, future, pc>> /\ Reported' = Reported
      BY <2>7 DEF vars, writing, wire, forwards, Reported
    <3> QED BY <3>1, QuietStory DEF ResultOf
  <2> QED BY <2>1, <2>2, <2>3, <2>4, <2>5, <2>6, <2>7 DEF Next
<1> QED BY <1>1, <1>2, CoreInvariant, PTL DEF Spec

\* A tool that was told its event was refused can rely on it: the sidecar has
\* not read the event, and nothing that carries it is on its way.
RefusedUntouched ==
    \A t \in Tools : answer[t] = "refused" =>
        /\ t \notin applied
        /\ \A b \in Bots : \A k \in 1..Len(out[b]) : out[b][k] # Submit(t)
        /\ \A c \in Conns : job[c].frame # Submit(t)

\* A refused event was not read by the sidecar and never will be: the refusal
\* comes in place of forwarding (adapter.py:775-781).
THEOREM RefusedIsUntouched == ASSUME IpcAssumption PROVE Spec => []RefusedUntouched
<1>1. Core /\ Story => RefusedUntouched
  <2> SUFFICES ASSUME Core, Story, NEW t \in Tools, answer[t] = "refused"
               PROVE  /\ t \notin applied
                      /\ \A b \in Bots : \A k \in 1..Len(out[b]) : out[b][k] # Submit(t)
                      /\ \A c \in Conns : job[c].frame # Submit(t)
    BY DEF RefusedUntouched
  <2>1. Untouched(t)
    BY DEF Story, StoryOf, RefusedTo
  <2>2. ASSUME NEW b \in Bots, NEW k \in 1..Len(out[b]) PROVE out[b][k] # Submit(t)
    <3>1. out[b] \in Seq(Frames) /\ b \in Conns
      BY DEF Core, TypeOK, Conns
    <3>2. out[b][k] \in Frames
      BY <3>1, ElementOfSeq
    <3>3. <<b, out[b][k]>> \in Traffic
      BY <3>1, <3>2 DEF Traffic
    <3> QED BY <2>1, <3>3 DEF Untouched
  <2>3. ASSUME NEW c \in Conns PROVE job[c].frame # Submit(t)
    <3>1. c \in Tasks /\ job[c].to \in Conns \cup {NoOne} /\ job[c].frame \in Frames
      BY DEF Core, TypeOK, Jobs, Tasks
    <3>2. <<job[c].to, job[c].frame>> \in Traffic
      BY <3>1 DEF Traffic
    <3> QED BY <2>1, <3>2 DEF Untouched
  <2> QED BY <2>1, <2>2, <2>3 DEF Untouched
<1> QED BY <1>1, CoreInvariant, StoryInvariant, PTL

\* A tool gets a result only for an event that the sidecar has read.
ResultIsReal == \A t \in Tools : answer[t] = "result" => t \in applied

\* A result is of a request the sidecar has read (adapter.py:688-692, :789).
THEOREM ResultWasRead == ASSUME IpcAssumption PROVE Spec => []ResultIsReal
<1>1. Story => ResultIsReal
  BY DEF Story, StoryOf, ResultOf, ResultIsReal
<1> QED BY <1>1, StoryInvariant, PTL

-----------------------------------------------------------------------------
(* An event is delivered once *)

\* Event s has been written to a connection, and perhaps been read there.
Sent(s) == s \in applied \/ \E b \in Conns : \E k \in 1..Len(out[b]) : out[b][k] = Submit(s)

\* Copy k of event s on the wire to b is the only one, and unread.
Sole(s, b, k) ==
    /\ s \notin applied
    /\ \A d \in Conns : \A j \in 1..Len(out[d]) : out[d][j] = Submit(s) => d = b /\ j = k

\* Only the handler of the tool writes its event, and not when it is written.
OnceOf(s) ==
    /\ \A u \in Tasks : job[u].frame = Submit(s) => u = s
    /\ pc[s] = "write" /\ job[s].frame = Submit(s) => ~Sent(s)
    /\ \A b \in Conns : \A k \in 1..Len(out[b]) : out[b][k] = Submit(s) => Sole(s, b, k)
Once == \A s \in Tools : OnceOf(s)

\* A step that leaves the wires alone, and after which no coroutine waits to
\* write that did not.
LEMMA QuietOnce ==
    ASSUME NEW s \in Tools, OnceOf(s), UNCHANGED <<out, applied>>,
           \A u \in Tasks : job'[u].frame = Submit(s) => job[u].frame = Submit(s),
           pc'[s] = "write" => pc[s] = "write"
    PROVE  OnceOf(s)'
<1>1. (Sent(s)' <=> Sent(s)) /\ \A b, k : Sole(s, b, k)' <=> Sole(s, b, k)
  BY DEF Sent, Sole
<1>2. s \in Tasks
  BY DEF Tasks, Conns
<1> QED BY <1>1, <1>2 DEF OnceOf

\* Where event s is on the wires after a write of frame f to c.
LEMMA WriteLands ==
    ASSUME TypeOK, NEW s \in Tools, NEW t \in Tasks, NEW c \in Conns, NEW f \in Frames,
           NEW next \in GoOn, Writes(t, c, f, next),
           NEW b \in Conns, NEW k \in 1..Len(out'[b]), out'[b][k] = Submit(s)
    PROVE  \/ k \in 1..Len(out[b]) /\ out[b][k] = Submit(s)
           \/ f = Submit(s) /\ b = c /\ k = Len(out[c]) + 1 /\ out' # out
<1>1. CASE out'[b] = out[b]
  BY <1>1
<1>2. CASE b = c /\ out'[c] = Append(out[c], f)
  <2>1. /\ Len(out'[c]) = Len(out[c]) + 1 /\ Len(out[c]) \in Nat
        /\ out'[c][Len(out[c]) + 1] = f
        /\ \A i \in 1..Len(out[c]) : out'[c][i] = out[c][i]
    BY <1>2, AppendProperties DEF TypeOK
  <2>2. CASE k = Len(out[c]) + 1
    BY <1>2, <2>1, <2>2
  <2>3. CASE k \in 1..Len(out[c])
    BY <1>2, <2>1, <2>3
  <2> QED BY <1>2, <2>1, <2>2, <2>3
<1> QED BY <1>1, <1>2 DEF Writes, Puts, TypeOK

\* A write of another frame.
LEMMA OtherOnce ==
    ASSUME TypeOK, NEW s \in Tools, OnceOf(s), NEW t \in Tasks, NEW c \in Conns,
           NEW f \in Frames, NEW next \in GoOn, Writes(t, c, f, next), f # Submit(s),
           UNCHANGED applied
    PROVE  OnceOf(s)'
<1>1. \A b \in Conns : \A k \in 1..Len(out'[b]) :
          out'[b][k] = Submit(s) => k \in 1..Len(out[b]) /\ out[b][k] = Submit(s)
  BY WriteLands
<1>2. Sent(s)' => Sent(s)
  BY <1>1 DEF Sent
<1>3. \A b \in Conns, k \in Nat : Sole(s, b, k) => Sole(s, b, k)'
  BY <1>1 DEF Sole
<1>4. \A u \in Tasks : /\ job'[u].frame = Submit(s) => job[u].frame = Submit(s) /\ u # t
                       /\ u # t => pc'[u] = pc[u]
  BY DEF Writes, Puts, TypeOK, NoJob, Frame, Submit
<1>5. s \in Tasks
  BY DEF Tasks, Conns
<1>6. (\A u \in Tasks : job[u].frame = Submit(s) => u = s)'
  BY <1>4 DEF OnceOf
<1>7. (pc[s] = "write" /\ job[s].frame = Submit(s) => ~Sent(s))'
  BY <1>2, <1>4, <1>5 DEF OnceOf
<1>8. (\A b \in Conns : \A k \in 1..Len(out[b]) : out[b][k] = Submit(s) => Sole(s, b, k))'
  BY <1>1, <1>3 DEF OnceOf
<1> QED BY <1>6, <1>7, <1>8 DEF OnceOf

\* The event itself is written, for the first time.
LEMMA FirstOnce ==
    ASSUME TypeOK, NEW s \in Tools, OnceOf(s), ~Sent(s), NEW c \in Conns, NEW next \in GoOn,
           Writes(s, c, Submit(s), next), pc'[s] = "write" => out' = out, UNCHANGED applied
    PROVE  OnceOf(s)'
<1>1. s \in Tasks /\ Submit(s) \in Frames
  BY FramesTyped DEF Tasks, Conns
<1>2. \A b \in Conns : \A k \in 1..Len(out[b]) : out[b][k] # Submit(s)
  BY DEF Sent
<1>3. \A b \in Conns : \A k \in 1..Len(out'[b]) :
          out'[b][k] = Submit(s) => b = c /\ k = Len(out[c]) + 1 /\ out' # out
  BY <1>1, <1>2, WriteLands
<1>4. (\A u \in Tasks : job[u].frame = Submit(s) => u = s)'
  BY <1>1 DEF OnceOf, Writes, TypeOK
<1>5. (pc[s] = "write" => ~Sent(s))'
  BY <1>3 DEF Sent
<1>6. (\A b \in Conns : \A k \in 1..Len(out[b]) : out[b][k] = Submit(s) => Sole(s, b, k))'
  BY <1>3 DEF Sole, Sent
<1> QED BY <1>4, <1>5, <1>6 DEF OnceOf

\* A peer closes: its frames are gone.
LEMMA CloseOnce ==
    ASSUME TypeOK, NEW s \in Tools, OnceOf(s), NEW c \in Conns, UNCHANGED <<job, pc, applied>>,
           out' = [out EXCEPT ![c] = <<>>]
    PROVE  OnceOf(s)'
<1>1. \A b \in Conns : \A k \in 1..Len(out'[b]) : out'[b] = out[b]
  BY DEF TypeOK
<1>2. Sent(s)' => Sent(s)
  BY <1>1 DEF Sent
<1>3. \A b \in Conns, k \in Nat : Sole(s, b, k) => Sole(s, b, k)'
  BY <1>1 DEF Sole
<1>4. (\A b \in Conns : \A k \in 1..Len(out[b]) : out[b][k] = Submit(s) => Sole(s, b, k))'
  BY <1>1, <1>3 DEF OnceOf
<1> QED BY <1>2, <1>4 DEF OnceOf

\* A peer reads the first frame, and with it the event if that is what it is.
LEMMA ReadOnce ==
    ASSUME TypeOK, NEW s \in Tools, OnceOf(s), NEW c \in Conns, UNCHANGED <<job, pc>>,
           out[c] # <<>>, out' = [out EXCEPT ![c] = Tail(@)],
           s \in applied' => s \in applied \/ Head(out[c]) = Submit(s)
    PROVE  OnceOf(s)'
<1> DEFINE Was(b, k) == IF b = c THEN k + 1 ELSE k
<1>1. /\ Len(out[c]) \in Nat \ {0} /\ Head(out[c]) = out[c][1] /\ 1 \in 1..Len(out[c])
      /\ Len(out'[c]) = Len(out[c]) - 1
      /\ \A i \in 1..Len(out'[c]) : out'[c][i] = out[c][i + 1]
      /\ \A b \in Conns : b # c => out'[b] = out[b]
  <2>1. out[c] \in Seq(Frames) /\ Len(out[c]) \in Nat \ {0}
    BY EmptySeq DEF TypeOK
  <2> QED BY <2>1, HeadTailProperties DEF TypeOK
<1>2. ASSUME NEW b \in Conns, NEW k \in 1..Len(out'[b])
      PROVE  Was(b, k) \in 1..Len(out[b]) /\ out[b][Was(b, k)] = out'[b][k]
  BY <1>1
<1>3. \A b, d \in Conns : \A k, j \in Nat : b = d /\ Was(b, k) = Was(d, j) => k = j
  OBVIOUS
<1>4. CASE Head(out[c]) = Submit(s)
  <2>1. Sole(s, c, 1)
    BY <1>1, <1>4 DEF OnceOf
  <2>2. ASSUME NEW b \in Conns, NEW k \in 1..Len(out'[b]) PROVE out'[b][k] # Submit(s)
    <3>1. out[b][Was(b, k)] = Submit(s) => b = c /\ Was(b, k) = 1
      BY <1>2, <2>1 DEF Sole
    <3> QED BY <1>2, <3>1
  <2>3. Sent(s)
    BY <1>1, <1>4 DEF Sent
  <2> QED BY <2>2, <2>3 DEF OnceOf
<1>5. CASE Head(out[c]) # Submit(s)
  <2>1. Sent(s)' => Sent(s)
    BY <1>2, <1>5 DEF Sent
  <2>2. ASSUME NEW b \in Conns, NEW k \in 1..Len(out'[b]), out'[b][k] = Submit(s)
        PROVE  Sole(s, b, k)'
    <3>1. Sole(s, b, Was(b, k))
      BY <1>2, <2>2 DEF OnceOf
    <3>2. ASSUME NEW d \in Conns, NEW j \in 1..Len(out'[d]), out'[d][j] = Submit(s)
          PROVE  d = b /\ j = k
      <4>1. d = b /\ Was(d, j) = Was(b, k)
        BY <1>2, <3>1, <3>2 DEF Sole
      <4> QED BY <1>3, <4>1
    <3>3. s \notin applied'
      BY <1>5, <3>1 DEF Sole
    <3> QED BY <3>2, <3>3 DEF Sole
  <2>3. (\A b \in Conns : \A k \in 1..Len(out[b]) : out[b][k] = Submit(s) => Sole(s, b, k))'
    BY <2>2
  <2> QED BY <2>1, <2>3 DEF OnceOf
<1> QED BY <1>4, <1>5

\* A coroutine writes a frame that is no event.
LEMMA SayOnce ==
    ASSUME IpcAssumption, Core, Once, NEW t \in Tasks, NEW c \in Conns, NEW next \in GoOn,
           NEW kind \in {"hello", "message", "reply", "refused", "timeout", "result"},
           Say(t, c, Frame(kind), next), ~Waits(t), UNCHANGED applied
    PROVE  Once'
<1>1. Frame(kind) \in Frames /\ \A s \in Tools : Frame(kind) # Submit(s)
  BY FramesTyped DEF Frame, Submit
<1>2. Writes(t, c, Frame(kind), next)
  BY <1>1, SayCore
<1> QED BY <1>1, <1>2, OtherOnce DEF Once, Core

\* A coroutine goes where it need not write.
LEMMA MoveOnce ==
    ASSUME Core, Once, UNCHANGED <<job, out, applied>>,
           \A s \in Tools : pc'[s] = "write" => pc[s] = "write"
    PROVE  Once'
BY QuietOnce DEF Once

LEMMA ForwardOnce ==
    ASSUME IpcAssumption, Core, Story, Once, NEW c \in Tools, Forward(c) PROVE Once'
<1>1. /\ c \in Conns /\ c \in Tasks /\ Read(c, {"submit"}) /\ UNCHANGED applied
      /\ {"read", "waiting"} \subseteq GoOn
  BY DEF Conns, Tasks, Forward, peers, GoOn
<1>2. ~Waits(c) /\ Untouched(c)
  BY <1>1, ToolLine DEF Story
<1>3. CASE Reply(c, "refused", "read")
  BY <1>1, <1>2, <1>3, SayOnce DEF Reply
<1>4. CASE bot # NoOne /\ Say(c, bot, Submit(c), "waiting")
  <2>1. bot \in Conns /\ Submit(c) \in Frames
    BY <1>4, FramesTyped DEF Core, TypeOK
  <2>2. Writes(c, bot, Submit(c), "waiting")
    BY <1>1, <1>2, <1>4, <2>1, SayCore
  <2>3. ASSUME NEW b \in Conns, NEW k \in 1..Len(out[b]) PROVE out[b][k] # Submit(c)
    <3>1. out[b][k] \in Frames
      BY ElementOfSeq DEF Core, TypeOK
    <3>2. <<b, out[b][k]>> \in Traffic
      BY <3>1 DEF Traffic
    <3> QED BY <1>2, <3>2 DEF Untouched
  <2>4. ~Sent(c)
    BY <1>2, <2>3 DEF Sent, Untouched
  <2>5. pc'[c] = "write" => out' = out
    BY <1>1, <1>4 DEF Say, Put, At, WriteFails, Core, TypeOK
  <2>6. OnceOf(c)'
    BY <1>1, <2>1, <2>2, <2>4, <2>5, FirstOnce DEF Once, Core
  <2>7. ASSUME NEW s \in Tools, s # c PROVE OnceOf(s)'
    <3>1. Submit(c) # Submit(s)
      BY <2>7 DEF Submit
    <3> QED BY <1>1, <2>1, <2>2, <3>1, OtherOnce DEF Once, Core
  <2> QED BY <2>6, <2>7 DEF Once
<1> QED BY <1>3, <1>4 DEF Forward

LEMMA HandlerOnce ==
    ASSUME IpcAssumption, Core, Story, Once, NEW c \in Conns, HandlerStep(c) PROVE Once'
<1>1. c \in Tasks /\ {"read", "finally"} \subseteq GoOn
  BY DEF Tasks, GoOn
<1>2. CASE \/ Begin(c) /\ Reply(c, "hello", "read")
           \/ Refuse(c) \/ Register(c) \/ WorkDone(c)
           \/ c \in Tools /\ Answer(c) /\ Reply(c, "result", "read")
           \/ c \in Tools /\ Timeout(c)
  <2>1. ~Waits(c) /\ UNCHANGED applied
    BY <1>2 DEF Waits, Begin, Refuse, Register, Read, WorkDone, Answer, Timeout, peers
  <2>2. \E kind \in {"hello", "reply", "refused", "timeout", "result"}, next \in GoOn :
            Say(c, c, Frame(kind), next)
    BY <1>1, <1>2 DEF Reply, Refuse, Register, WorkDone, Timeout
  <2> QED BY <1>1, <2>1, <2>2, SayOnce
<1>3. CASE \/ Begin(c) /\ At(c, "off") /\ UNCHANGED <<writing, out>>
           \/ TakeResult(c) \/ Work(c) \/ Eof(c) \/ Finish(c)
           \/ c \in Tools /\ Answer(c) /\ At(c, "finally") /\ NoSay
  <2>1. UNCHANGED <<job, out, applied>>
    BY <1>3 DEF Begin, TakeResult, Work, Eof, Finish, Answer, NoSay, writing, wire, peers
  <2>2. pc' = pc \/ \E l \in {"off", "busy", "finally"} : pc' = [pc EXCEPT ![c] = l]
    BY <1>3 DEF TakeResult, Work, Eof, Finish, At
  <2> QED BY <1>1, <2>1, <2>2, MoveOnce DEF Core, TypeOK, Tasks, Conns
<1>4. CASE c \in Tools /\ Forward(c)
  BY <1>4, ForwardOnce
<1> QED BY <1>2, <1>3, <1>4 DEF HandlerStep, Begin, Answer

\* The coroutine at the head of the queue writes, or its drain() ends.
LEMMA WriterOnce == ASSUME IpcAssumption, Core, Once, WriterStep PROVE Once'
<1>1. PICK t \in Tasks : Write(t) \/ Drain(t)
  BY DEF WriterStep
<1>2. /\ job[t].to \in Conns /\ job[t].frame \in Frames /\ job[t].next \in GoOn
      /\ UNCHANGED applied
  BY <1>1 DEF Write, Drain, Waits, Core, Sensible, TypeOK, Jobs, peers
<1>3. Writes(t, job[t].to, job[t].frame, job[t].next)
  BY <1>1, <1>2, SayCore
<1> SUFFICES ASSUME NEW s \in Tools PROVE OnceOf(s)'
  BY DEF Once
<1>4. CASE job[t].frame # Submit(s)
  BY <1>2, <1>3, <1>4, OtherOnce DEF Once, Core
<1>5. CASE job[t].frame = Submit(s)
  <2>1. t = s /\ OnceOf(s)
    BY <1>5 DEF Once, OnceOf
  <2>2. pc'[s] # "write"
    <3>1. \E l \in Labels \ {"write"} : pc' = [pc EXCEPT ![t] = l]
      BY <1>1, <1>2 DEF Write, Drain, Put, WriteFails, At, GoOn, Labels
    <3> QED BY <2>1, <3>1 DEF Core, TypeOK
  <2>3. CASE Write(t)
    <3>1. ~Sent(s)
      BY <1>5, <2>1, <2>3 DEF Write, OnceOf
    <3> QED BY <1>2, <1>3, <1>5, <2>1, <2>2, <3>1, FirstOnce DEF Core
  <2>4. CASE Drain(t)
    <3>1. UNCHANGED <<out, applied>> /\ job' = [job EXCEPT ![t] = NoJob]
      BY <2>4 DEF Drain, peers
    <3>2. \A u \in Tasks : job'[u].frame = Submit(s) => job[u].frame = Submit(s)
      BY <3>1 DEF Core, TypeOK, NoJob, Frame, Submit
    <3> QED BY <2>1, <2>2, <3>1, <3>2, QuietOnce
  <2> QED BY <1>1, <2>3, <2>4
<1> QED BY <1>4, <1>5

LEMMA PublishOnce ==
    ASSUME IpcAssumption, Core, Once, PublishBegin \/ PublisherStep PROVE Once'
<1>1. Publisher \in Tasks /\ "publish" \in GoOn /\ UNCHANGED applied
  BY DEF Tasks, GoOn, PublishBegin, PublisherStep, PublishEnd, PublishNext, peers
<1>2. CASE PublishBegin \/ PublishEnd
  <2>1. UNCHANGED <<job, out>> /\ \A s \in Tools : pc'[s] = pc[s]
    BY <1>2 DEF PublishBegin, PublishEnd, wire, writing, IpcAssumption, Conns, Core, TypeOK, Tasks
  <2> QED BY <1>1, <2>1, MoveOnce
<1>3. CASE \E c \in Conns : PublishNext(c)
  BY <1>1, <1>3, SayOnce DEF PublishNext, Waits
<1> QED BY <1>2, <1>3 DEF PublisherStep

\* The peers, and those who open and close connections.
LEMMA PeersOnce ==
    ASSUME IpcAssumption, Core, Once,
           \/ ServiceStep \/ \E c \in Conns : Connect(c)
           \/ \E b \in Bots : BotCloses(b) \/ BotReads(b) \/ \E f \in BotFrames : BotSends(b, f)
           \/ \E t \in Tools : ToolAsks(t) \/ ToolReads(t) \/ ToolEof(t) \/ ToolGivesUp(t)
    PROVE  Once'
<1>1. CASE ServiceStep
  BY <1>1, MoveOnce DEF ServiceStep, Start, StopBegin, StopStep, StopSweep, StopAbandoned,
        StopAgain, Sweep, StopEnd, StopClose, wire, writing, peers
<1>2. ASSUME NEW c \in Conns, Connect(c) PROVE Once'
  <2>1. UNCHANGED <<job, out, applied>> /\ pc' = [pc EXCEPT ![c] = "start"]
    BY <1>2 DEF Connect, At, writing
  <2> QED BY <2>1, MoveOnce DEF Core, TypeOK, Tasks, Conns
<1>3. ASSUME NEW b \in Bots, NEW f \in BotFrames, BotSends(b, f) PROVE Once'
  BY <1>3, MoveOnce DEF BotSends, writing
<1>4. ASSUME NEW b \in Bots, BotReads(b) PROVE Once'
  BY <1>4, ReadOnce DEF BotReads, writing, Once, Core, Conns
<1>5. ASSUME NEW c \in Conns, Close(c), UNCHANGED <<job, pc, applied>> PROVE Once'
  BY <1>5, CloseOnce DEF Close, Once, Core
<1>6. ASSUME NEW b \in Bots, BotCloses(b) PROVE Once'
  BY <1>5, <1>6 DEF BotCloses, writing, peers, Conns
<1>7. ASSUME NEW t \in Tools, ToolAsks(t) \/ ToolReads(t) \/ ToolEof(t) \/ ToolGivesUp(t)
      PROVE  Once'
  <2>1. t \in Conns /\ UNCHANGED <<job, pc, applied>>
    BY <1>7 DEF ToolAsks, ToolReads, ToolEof, ToolGivesUp, writing, Conns
  <2>2. CASE Close(t)
    BY <1>5, <2>1, <2>2
  <2>3. CASE out[t] # <<>> /\ out' = [out EXCEPT ![t] = Tail(@)]
    BY <2>1, <2>3, ReadOnce DEF Once, Core
  <2> QED BY <1>7, <2>2, <2>3 DEF ToolAsks, ToolReads, ToolEof, ToolGivesUp
<1> QED BY <1>1, <1>2, <1>3, <1>4, <1>6, <1>7

\* However many connections register, fail and time out, an event that is on its
\* way to the sidecar is so once and was not read before (adapter.py:655-658,
\* :773-792).
THEOREM EventsOnce == ASSUME IpcAssumption PROVE Spec => []DeliveredOnce
<1>1. Init => Once
  BY DEF Init, Once, OnceOf, Sole, Sent, NoJob, Frame, Submit
<1>2. Core /\ Story /\ Once /\ [Next]_vars => Once'
  <2>1. ASSUME Core, Once, UNCHANGED vars PROVE Once'
    BY <2>1, MoveOnce DEF vars, writing, wire, peers
  <2> QED BY <2>1, HandlerOnce, WriterOnce, PublishOnce, PeersOnce DEF Next
<1>3. Once => DeliveredOnce
  BY DEF Once, OnceOf, Sole, DeliveredOnce, Conns
<1> QED BY <1>1, <1>2, <1>3, CoreInvariant, StoryInvariant, PTL DEF Spec

-----------------------------------------------------------------------------
(* The requests behave as EventRequest says *)

LEMMA SameTold == ASSUME UNCHANGED <<tool, answer>> PROVE Told' = Told
BY DEF Told

\* Handlers, writers, the publisher and the service neither speak to a caller
\* nor let the sidecar read.
LEMMA AdapterOnly ==
    ASSUME \/ \E c \in Conns : HandlerStep(c)
           \/ WriterStep \/ PublishBegin \/ PublisherStep \/ ServiceStep
    PROVE  UNCHANGED <<tool, answer, applied>>
<1>1. ASSUME NEW c \in Conns, HandlerStep(c) PROVE UNCHANGED <<tool, answer, applied>>
  BY <1>1 DEF HandlerStep, Begin, TakeResult, Refuse, Register, Work, WorkDone, Eof, Finish,
              Forward, Answer, Timeout, peers
<1>2. CASE WriterStep \/ PublishBegin \/ PublisherStep \/ ServiceStep
  BY <1>2 DEF WriterStep, Write, Drain, PublishBegin, PublisherStep, PublishEnd, PublishNext,

             ServiceStep, Start, StopBegin, StopStep, StopSweep, StopAbandoned, StopAgain, Sweep,
             StopEnd, StopClose, peers
<1> QED BY <1>1, <1>2

LEMMA BotRequests ==
    ASSUME IpcAssumption, Core, Story, NEW b \in Bots,
           BotCloses(b) \/ BotReads(b) \/ \E f \in BotFrames : BotSends(b, f)
    PROVE  Request!Next \/ UNCHANGED <<Told, applied>>
<1>1. CASE BotCloses(b) \/ \E f \in BotFrames : BotSends(b, f)
  BY <1>1, SameTold DEF BotCloses, BotSends, peers
<1>2. CASE BotReads(b)
  <2>1. Told' = Told
    BY <1>2, SameTold DEF BotReads
  <2>2. applied' = applied \cup {t \in Tools : Head(out[b]) = Submit(t)}
    BY <1>2 DEF BotReads
  <2>3. CASE \A t \in Tools : Head(out[b]) # Submit(t)
    BY <2>1, <2>2, <2>3
  <2>4. ASSUME NEW t \in Tools, Head(out[b]) = Submit(t)
        PROVE  Request!Next \/ UNCHANGED <<Told, applied>>
    <3>1. applied' = applied \cup {t}
      BY <2>2, <2>4 DEF Submit
    <3>2. <<b, Submit(t)>> \in Traffic
      BY <1>2, <2>4, HeadIsTraffic DEF BotReads, Core, Conns
    <3>3. ~Untold(t) /\ ~RefusedTo(t) /\ StoryOf(t)
      BY <3>2 DEF Story, StoryOf, Untouched
    <3>4. tool[t] \in {"asked", "answered", "failed"} /\ answer[t] # "refused"
      BY <3>3 DEF Untold, RefusedTo, Core, TypeOK
    <3>5. CASE tool[t] = "answered" /\ answer[t] = "result"
      <4>1. t \in applied
        BY <3>3, <3>5 DEF StoryOf, ResultOf
      <4> QED BY <2>1, <3>1, <4>1
    <3>6. CASE ~(tool[t] = "answered" /\ answer[t] = "result")
      <4>1. Told[t] \in {"asked", "unknown"}
        BY <3>4, <3>6 DEF Told
      <4> QED BY <2>1, <3>1, <4>1 DEF Request!Next, Request!Apply
    <3> QED BY <3>5, <3>6
  <2> QED BY <2>3, <2>4
<1> QED BY <1>1, <1>2

\* A step of the tool moves what its own caller is told, if it moves anything.
LEMMA ToolTold ==
    ASSUME Core, NEW t \in Tools, ToolAsks(t) \/ ToolReads(t) \/ ToolEof(t) \/ ToolGivesUp(t)
    PROVE  Told' = [Told EXCEPT ![t] = Told'[t]]
<1>1. \A u \in Tools : u # t => tool'[u] = tool[u] /\ answer'[u] = answer[u]
  BY DEF ToolAsks, ToolReads, ToolEof, ToolGivesUp, Core, TypeOK
<1> QED BY <1>1 DEF Told

LEMMA ToolRequests ==
    ASSUME IpcAssumption, Core, Story, NEW t \in Tools,
           ToolAsks(t) \/ ToolReads(t) \/ ToolEof(t) \/ ToolGivesUp(t)
    PROVE  Request!Next
<1>1. UNCHANGED applied /\ Told' = [Told EXCEPT ![t] = Told'[t]]
  BY ToolTold DEF ToolAsks, ToolReads, ToolEof, ToolGivesUp
<1>2. CASE tool'[t] = "asked" /\ tool[t] = "hello"
  <2>1. Told[t] = "new" /\ Told'[t] = "asked"
    BY <1>2 DEF Told
  <2> QED BY <1>1, <2>1 DEF Request!Next, Request!Ask
<1>3. CASE tool'[t] = "failed" /\ tool[t] \in {"hello", "asked"}
  <2>1. Told[t] \in {"new", "asked"} /\ Told'[t] = "unknown"
    BY <1>3 DEF Told
  <2> QED BY <1>1, <2>1 DEF Request!Next, Request!GiveUp
<1>4. CASE ToolReads(t)
  <2>1. tool[t] = "asked" /\ tool'[t] = "answered" /\ answer'[t] = Head(out[t]).kind
    BY <1>4 DEF ToolReads, Core, TypeOK
  <2>2. Told[t] = "asked"
    BY <2>1 DEF Told
  <2>3. <<t, Head(out[t])>> \in Traffic
    BY <1>4, HeadIsTraffic DEF ToolReads, Core, Conns
  <2>4. CASE answer'[t] = "result"
    <3>1. t \in applied
      BY <2>1, <2>3, <2>4 DEF Story, StoryOf, ResultOf
    <3>2. Told'[t] = "result"
      BY <2>1, <2>4 DEF Told
    <3> QED BY <1>1, <2>2, <3>1, <3>2 DEF Request!Next, Request!Confirm
  <2>5. CASE answer'[t] = "refused"
    <3>1. t \notin applied
      BY <2>1, <2>3, <2>5 DEF Story, StoryOf, RefusedTo, Untouched
    <3>2. Told'[t] = "refused"
      BY <2>1, <2>5 DEF Told
    <3> QED BY <1>1, <2>2, <3>1, <3>2 DEF Request!Next, Request!Deny
  <2>6. CASE answer'[t] \notin {"result", "refused"}
    <3>1. Told'[t] = "unknown"
      BY <2>1, <2>6 DEF Told
    <3> QED BY <1>1, <2>2, <3>1 DEF Request!Next, Request!GiveUp
  <2> QED BY <2>4, <2>5, <2>6
<1> QED BY <1>2, <1>3, <1>4 DEF ToolAsks, ToolEof, ToolGivesUp, Core, TypeOK

\* For any number of connections, requests and limits, what the callers of the
\* tool are told and what the sidecar has read behave as EventRequest says
\* (adapter.py:688-692 and :773-792, ipc.py:105).
THEOREM ImplementsRequest == ASSUME IpcAssumption PROVE Spec => RequestSpec
<1>1. Init => Request!Init
  BY DEF Init, Request!Init, Told
<1>2. Core /\ Story /\ [Next]_vars => [Request!Next]_<<Told, applied>>
  <2> SUFFICES ASSUME Core, Story, [Next]_vars
               PROVE  Request!Next \/ UNCHANGED <<Told, applied>>
    OBVIOUS
  <2>1. CASE \/ \E c \in Conns : HandlerStep(c)
             \/ WriterStep \/ PublishBegin \/ PublisherStep \/ ServiceStep
    BY <2>1, AdapterOnly, SameTold
  <2>2. ASSUME NEW c \in Conns, Connect(c) PROVE UNCHANGED <<Told, applied>>
    <3>1. \A t \in Tools : tool'[t] = tool[t] \/ (t = c /\ tool'[t] = "hello")
      BY <2>2 DEF Connect
    <3>2. c \in Tools => tool[c] = "new"
      BY <2>2 DEF Connect, Story, StoryOf
    <3>3. UNCHANGED <<answer, applied>>
      BY <2>2 DEF Connect
    <3> QED BY <3>1, <3>2, <3>3 DEF Told
  <2>3. ASSUME NEW b \in Bots,
               BotCloses(b) \/ BotReads(b) \/ \E f \in BotFrames : BotSends(b, f)
        PROVE  Request!Next \/ UNCHANGED <<Told, applied>>
    BY <2>3, BotRequests
  <2>4. ASSUME NEW t \in Tools, ToolAsks(t) \/ ToolReads(t) \/ ToolEof(t) \/ ToolGivesUp(t)
        PROVE  Request!Next
    BY <2>4, ToolRequests
  <2>5. CASE UNCHANGED vars
    BY <2>5, SameTold DEF vars, peers
  <2> QED BY <2>1, <2>2, <2>3, <2>4, <2>5 DEF Next
<1> QED BY <1>1, <1>2, CoreInvariant, StoryInvariant, PTL DEF Spec, RequestSpec, Request!Spec
=============================================================================
