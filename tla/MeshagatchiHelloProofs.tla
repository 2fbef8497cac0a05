------------------------ MODULE MeshagatchiHelloProofs ------------------------
(***************************************************************************)
(* The first frame of every connection is its hello, for any number of     *)
(* connections: what the order of the write lock is for.                   *)
(***************************************************************************)
EXTENDS MeshagatchiIpcProofs

(* Whose turn it is *)

\* Who holds or wants the lock is in the queue.
Queued == \A u \in Tasks : Waits(u) => \E i \in 1..Len(queue) : queue[i] = u

\* Nobody who is before s in the queue writes to s.
First(s) ==
    \A i, j \in 1..Len(queue) : queue[j] = s /\ i < j => job[queue[i]].to # s

\* Connection s has not been entered among the clients.
Unmet(s) ==
    /\ out[s] = <<>> /\ s \notin clients \cup todo
    /\ \A u \in Tasks : Waits(u) => job[u].to # s

\* The hello has been written to s, or can no longer be.
Greeted(s) == IF out[s] = <<>> THEN s \notin mine ELSE Head(out[s]).kind = "hello"

HelloJob(s) == [to |-> s, frame |-> Frame("hello"), next |-> "read"]

\* A tool that still waits for the hello.
Hoping(s) ==
    /\ bot # s /\ inbox[s] = <<>> /\ pc[s] \notin {"busy", "waiting"}
    /\ Waits(s) => job[s] = HelloJob(s)
    /\ pc[s] \in {"new", "start"} => Unmet(s)
    /\ pc[s] = "write" => out[s] = <<>> /\ First(s)
    /\ pc[s] \notin {"new", "start", "write"} => Greeted(s)
GreetingOf(s) ==
    /\ tool[s] = "new" <=> pc[s] = "new"
    /\ tool[s] \in {"new", "hello"} => Hoping(s)
Greeting == \A s \in Tools : GreetingOf(s)

-----------------------------------------------------------------------------
(* Turns of the lock *)

\* t writes at once, joins the queue, leaves it, or stays at its head.
Turns(t) ==
    \/ queue = <<>> /\ (Waits(t)' => queue' # <<>> /\ queue'[1] = t)
    \/ queue # <<>> /\ ~Waits(t) /\ queue' = Append(queue, t) /\ out' = out
    \/ queue # <<>> /\ t = queue[1] /\ queue' = Tail(queue) /\ ~Waits(t)'
    \/ /\ queue # <<>> /\ t = queue[1] /\ Len(queue') = Len(queue)
       /\ \A i \in 1..Len(queue) : queue'[i] = queue[i]

\* A write of frame f to c by t, wherever t is in it.
Writing(t, c, f, next) ==
    \/ Say(t, c, f, next) /\ ~Waits(t)
    \/ (Write(t) \/ Drain(t)) /\ c = job[t].to /\ f = job[t].frame /\ next = job[t].next

LEMMA WritingTurns ==
    ASSUME IpcAssumption, Core, NEW t \in Tasks, NEW c \in Conns, NEW f \in Frames,
           NEW next \in GoOn, Writing(t, c, f, next)
    PROVE  Turns(t)
<1>1. queue \in Seq(Tasks) /\ pc \in [Tasks -> Labels]
  BY DEF Core, TypeOK
<1>2. CASE Say(t, c, f, next) /\ ~Waits(t)
  <2>1. CASE queue = <<>>
    <3>1. Put(t, c, f, next, <<>>)
      BY <1>2, <2>1 DEF Say
    <3>2. CASE \E l \in GoOn : pc' = [pc EXCEPT ![t] = l]
      BY <1>1, <2>1, <3>2 DEF Turns, Waits, GoOn
    <3>3. CASE queue' = <<t>> \o <<>>
      <4>1. queue' # <<>> /\ queue'[1] = t
        BY <3>3
      <4> QED BY <2>1, <4>1 DEF Turns
    <3> QED BY <3>1, <3>2, <3>3 DEF Put, WriteFails, At, GoOn
  <2>2. CASE queue # <<>>
    BY <1>2, <2>2 DEF Turns, Say
  <2> QED BY <2>1, <2>2
<1>3. CASE Write(t)
  <2>1. queue # <<>> /\ t = queue[1] /\ job[t].next \in GoOn
    BY <1>3, TailOfQueue DEF Write, Core, Sensible, Waits
  <2>2. Put(t, job[t].to, job[t].frame, job[t].next, Tail(queue))
    BY <1>3 DEF Write
  <2>3. CASE queue' = Tail(queue) /\ \E l \in GoOn : pc' = [pc EXCEPT ![t] = l]
    BY <1>1, <2>1, <2>3 DEF Turns, Waits, GoOn
  <2>4. CASE queue' = <<t>> \o Tail(queue)
    <3>1. queue' = queue
      BY <1>1, <2>1, <2>4
    <3> QED BY <2>1, <3>1 DEF Turns
  <2> QED BY <2>1, <2>2, <2>3, <2>4 DEF Put, WriteFails, At, GoOn
<1>4. CASE Drain(t)
  <2>1. queue # <<>> /\ t = queue[1] /\ job[t].next \in GoOn /\ queue' = Tail(queue)
    BY <1>4 DEF Drain, Core, QueueOk, Sensible, Waits
  <2>2. \E l \in GoOn : pc' = [pc EXCEPT ![t] = l]
    BY <1>4, <2>1 DEF Drain, WriteFails, At, GoOn
  <2> QED BY <1>1, <2>1, <2>2 DEF Turns, Waits, GoOn
<1> QED BY <1>2, <1>3, <1>4 DEF Writing

LEMMA QueuedKept ==
    ASSUME Core, Queued, NEW t \in Tasks, NEW c, NEW f, NEW next, Writes(t, c, f, next),
           Turns(t)
    PROVE  Queued'
<1>1. queue \in Seq(Tasks) /\ Len(queue) \in Nat /\ pc \in [Tasks -> Labels]
      /\ queue' \in Seq(Tasks)
  BY DEF Core, TypeOK, Writes, Puts
<1>2. \A u \in Tasks : u # t => pc'[u] = pc[u]
  BY <1>1 DEF Writes, Puts
<1> SUFFICES ASSUME NEW u \in Tasks, pc'[u] \in {"write", "drain"}
             PROVE  \E i \in 1..Len(queue') : queue'[i] = u
  BY DEF Queued, Waits
<1>3. CASE queue = <<>> /\ (Waits(t)' => queue' # <<>> /\ queue'[1] = t)
  <2>1. u = t
    BY <1>2, <1>3 DEF Queued, Waits
  <2>2. queue' # <<>> /\ queue'[1] = t
    BY <1>3, <2>1 DEF Waits
  <2>3. 1 \in 1..Len(queue')
    BY <1>1, <2>2, EmptySeq
  <2> QED BY <2>1, <2>2, <2>3
<1>4. CASE queue # <<>> /\ ~Waits(t) /\ queue' = Append(queue, t)
  <2>1. /\ Len(queue') = Len(queue) + 1 /\ queue'[Len(queue) + 1] = t
        /\ \A i \in 1..Len(queue) : queue'[i] = queue[i]
    BY <1>1, <1>4, AppendProperties
  <2>2. CASE u = t
    <3>1. Len(queue) + 1 \in 1..Len(queue')
      BY <1>1, <2>1
    <3> QED BY <2>1, <2>2, <3>1
  <2>3. CASE u # t
    <3>1. PICK i \in 1..Len(queue) : queue[i] = u
      BY <1>2, <2>3 DEF Queued, Waits
    <3>2. i \in 1..Len(queue') /\ queue'[i] = u
      BY <1>1, <2>1, <3>1
    <3> QED BY <3>2
  <2> QED BY <2>2, <2>3
<1>5. CASE queue # <<>> /\ t = queue[1] /\ queue' = Tail(queue) /\ ~Waits(t)'
  <2>1. u # t
    BY <1>5 DEF Waits
  <2>2. PICK i \in 1..Len(queue) : queue[i] = u
    BY <1>2, <2>1 DEF Queued, Waits
  <2>3. Len(queue') = Len(queue) - 1 /\ \A k \in 1..Len(queue') : queue'[k] = queue[k + 1]
    BY <1>5, TailOfQueue DEF Core
  <2>4. i # 1
    BY <1>5, <2>1, <2>2
  <2>5. i - 1 \in 1..Len(queue') /\ (i - 1) + 1 = i
    BY <1>1, <2>3, <2>4
  <2>6. queue'[i - 1] = u
    BY <2>2, <2>3, <2>5
  <2> QED BY <2>5, <2>6
<1>6. CASE /\ queue # <<>> /\ t = queue[1] /\ Len(queue') = Len(queue)
           /\ \A i \in 1..Len(queue) : queue'[i] = queue[i]
  <2>1. \E i \in 1..Len(queue) : queue[i] = u
    <3>1. CASE u = t
      BY <1>1, <1>6, <3>1, EmptySeq
    <3>2. CASE u # t
      BY <1>2, <3>2 DEF Queued, Waits
    <3> QED BY <3>1, <3>2
  <2> QED BY <1>6, <2>1
<1> QED BY <1>3, <1>4, <1>5, <1>6 DEF Turns

\* Others' writes leave a waiting connection its turn, and write nothing to it.
LEMMA FirstKept ==
    ASSUME IpcAssumption, Core, Queued, NEW t \in Tasks, NEW c \in Conns, NEW f, NEW next,
           Writes(t, c, f, next), Turns(t),
           queue # <<>> /\ Waits(t) => c = job[t].to,
           NEW s \in Conns, s # t, Waits(s), First(s)
    PROVE  First(s)' /\ out'[s] = out[s]
<1>1. queue \in Seq(Tasks) /\ Len(queue) \in Nat /\ queue' \in Seq(Tasks)
  BY DEF Core, TypeOK, Writes, Puts
<1>2. \A u \in Tasks : u # t => job'[u] = job[u]
  BY DEF Core, TypeOK, Writes
<1>3. PICK k \in 1..Len(queue) : queue[k] = s
  BY DEF Queued, Tasks
<1>4. \A i \in 1..Len(queue) : queue[i] \in Tasks /\ (queue[i] = s => i = k)
  BY <1>1, <1>3 DEF Core, QueueOk
<1>5. queue # <<>>
  BY <1>1, <1>3
<1>6. CASE ~Waits(t) /\ queue' = Append(queue, t) /\ out' = out
  <2>1. /\ Len(queue') = Len(queue) + 1 /\ queue'[Len(queue) + 1] = t
        /\ \A i \in 1..Len(queue) : queue'[i] = queue[i] /\ queue[i] # t
    BY <1>1, <1>6, AppendProperties DEF Core, QueueOk
  <2>2. ASSUME NEW i \in 1..Len(queue'), NEW j \in 1..Len(queue'), queue'[j] = s, i < j
        PROVE  job'[queue'[i]].to # s
    <3>1. i \in 1..Len(queue) /\ j \in 1..Len(queue)
      BY <1>1, <2>1, <2>2
    <3>2. queue'[i] = queue[i] /\ queue[i] # t /\ queue[j] = s
      BY <2>1, <2>2, <3>1
    <3> QED BY <1>2, <1>4, <2>2, <3>1, <3>2 DEF First
  <2> QED BY <1>6, <2>2 DEF First
<1>7. CASE t = queue[1]
  <2>1. Waits(t) /\ c = job[t].to /\ k # 1 /\ 1 \in 1..Len(queue)
    BY <1>1, <1>3, <1>5, <1>7 DEF Core, QueueOk
  <2>2. c # s
    BY <1>1, <1>3, <1>7, <2>1 DEF First
  <2>3. out'[s] = out[s]
    BY <2>2 DEF Writes, Puts, Core, TypeOK
  <2>4. job'[t].to \in {c, NoOne}
    BY DEF Writes, NoJob, Core, TypeOK
  <2>5. CASE queue' = Tail(queue)
    <3>1. Len(queue') = Len(queue) - 1 /\ \A m \in 1..Len(queue') :
              queue'[m] = queue[m + 1] /\ m + 1 \in 1..Len(queue) /\ queue'[m] # t
      BY <1>5, <1>7, <2>5, TailOfQueue DEF Core
    <3>2. ASSUME NEW i \in 1..Len(queue'), NEW j \in 1..Len(queue'), queue'[j] = s, i < j
          PROVE  job'[queue'[i]].to # s
      <4>1. /\ queue'[i] = queue[i + 1] /\ i + 1 \in 1..Len(queue) /\ queue'[i] # t
            /\ queue[j + 1] = s /\ j + 1 \in 1..Len(queue)
        BY <3>1, <3>2
      <4>2. i + 1 < j + 1
        BY <3>2
      <4>3. job[queue[i + 1]].to # s
        BY <4>1, <4>2 DEF First
      <4> QED BY <1>2, <1>4, <4>1, <4>3
    <3> QED BY <2>3, <3>2 DEF First
  <2>6. CASE Len(queue') = Len(queue) /\ \A i \in 1..Len(queue) : queue'[i] = queue[i]
    <3>1. ASSUME NEW i \in 1..Len(queue'), NEW j \in 1..Len(queue'), queue'[j] = s, i < j
          PROVE  job'[queue'[i]].to # s
      <4>1. queue'[i] = queue[i] /\ i \in 1..Len(queue) /\ queue[j] = s /\ j \in 1..Len(queue)
        BY <2>6, <3>1
      <4>2. CASE queue[i] = t
        <5>1. s # NoOne
          BY DEF IpcAssumption, Tasks
        <5> QED BY <2>2, <2>4, <4>1, <4>2, <5>1
      <4>3. CASE queue[i] # t
        BY <1>2, <1>4, <3>1, <4>1, <4>3 DEF First
      <4> QED BY <4>2, <4>3
    <3> QED BY <2>3, <3>1 DEF First
  <2> QED BY <1>7, <1>5, <2>1, <2>5, <2>6 DEF Turns
<1> QED BY <1>5, <1>6, <1>7 DEF Turns

-----------------------------------------------------------------------------
(* Steps and the tools that wait *)

\* What others write leaves a tool that waits for its hello where it was.
LEMMA OthersWrite ==
    ASSUME IpcAssumption, Core, Queued, NEW s \in Tools, GreetingOf(s),
           NEW t \in Tasks, s # t, NEW c \in Conns, NEW f \in Frames, NEW next \in GoOn,
           Writing(t, c, f, next),
           tool[s] \in {"new", "hello"} =>
               /\ bot' # s /\ inbox'[s] = <<>>
               /\ pc[s] \in {"new", "start"} => c # s /\ s \notin clients' \cup todo',
           tool' = tool
    PROVE  GreetingOf(s)'
<1>1. Writes(t, c, f, next) /\ Turns(t) /\ s \in Conns /\ s \in Tasks
  BY SayCore, WritingTurns DEF Writing, Conns, Tasks
<1>2. pc'[s] = pc[s] /\ job'[s] = job[s] /\ (Waits(s)' <=> Waits(s))
  BY <1>1 DEF Writes, Puts, Core, TypeOK, Waits
<1> SUFFICES ASSUME tool[s] \in {"new", "hello"} PROVE Hoping(s)'
  BY <1>2 DEF GreetingOf
<1>3. Hoping(s)
  BY DEF GreetingOf
<1>4. bot' # s /\ inbox'[s] = <<>> /\ pc'[s] \notin {"busy", "waiting"}
  BY <1>2, <1>3 DEF Hoping
<1>5. Waits(s)' => job'[s] = HelloJob(s)
  BY <1>2, <1>3 DEF Hoping
<1>6. ASSUME pc[s] \in {"new", "start"} PROVE Unmet(s)'
  <2>1. Unmet(s) /\ c # s /\ s \notin clients' \cup todo'
    BY <1>3, <1>6 DEF Hoping
  <2>2. out'[s] = <<>>
    BY <1>1, <2>1 DEF Unmet, Writes, Puts, Core, TypeOK
  <2>3. ASSUME NEW u \in Tasks, pc'[u] \in {"write", "drain"} PROVE job'[u].to # s
    BY <1>1, <2>1, <2>3 DEF Unmet, Waits, Writes, Puts, Core, TypeOK
  <2> QED BY <2>1, <2>2, <2>3 DEF Unmet, Waits
<1>7. ASSUME pc[s] = "write" PROVE out'[s] = <<>> /\ First(s)'
  <2>1. queue # <<>> /\ Waits(t) => c = job[t].to
    BY DEF Writing
  <2>2. out[s] = <<>> /\ First(s) /\ Waits(s)
    BY <1>3, <1>7 DEF Hoping, Waits
  <2> QED BY <1>1, <2>1, <2>2, FirstKept
<1>8. ASSUME pc[s] \notin {"new", "start", "write"} PROVE Greeted(s)'
  <2>1. Greeted(s)
    BY <1>3, <1>8 DEF Hoping
  <2>2. out \in [Conns -> Seq(Frames)] /\ mine' \subseteq mine
    BY <1>1 DEF Core, TypeOK, Writes, Puts
  <2>3. CASE out'[s] = out[s]
    BY <2>1, <2>2, <2>3 DEF Greeted
  <2>4. CASE ~Lost(s) /\ out'[s] = Append(out[s], f)
    <3>1. out[s] \in Seq(Frames) /\ out[s] # <<>> /\ Head(out[s]).kind = "hello"
      BY <1>1, <2>1, <2>2, <2>4 DEF Greeted, Lost
    <3>2. Append(out[s], f) # <<>> /\ Head(Append(out[s], f)) = Head(out[s])
      BY <3>1
    <3> QED BY <2>4, <3>1, <3>2 DEF Greeted
  <2> QED BY <1>1, <2>2, <2>3, <2>4 DEF Writes, Puts
<1> QED BY <1>2, <1>4, <1>5, <1>6, <1>7, <1>8 DEF Hoping

\* The write of the hello: by Begin() at once, or in its turn.
LEMMA OwnWrite ==
    ASSUME IpcAssumption, Core, Queued, NEW s \in Tools, GreetingOf(s),
           \/ pc[s] = "start" /\ Say(s, s, Frame("hello"), "read")
           \/ Write(s) \/ Drain(s),
           UNCHANGED <<inbox, bot, tool>>
    PROVE  GreetingOf(s)'
<1>1. s \in Conns /\ s \in Tasks /\ "read" \in GoOn /\ Frame("hello") \in Frames
  BY FramesTyped DEF Conns, Tasks, GoOn
<1>2. /\ queue \in Seq(Tasks) /\ pc \in [Tasks -> Labels] /\ job \in [Tasks -> Jobs]
      /\ out \in [Conns -> Seq(Frames)]
  BY DEF Core, TypeOK
<1>3. PICK c \in Conns, f \in Frames, next \in GoOn : Writes(s, c, f, next)
  <2>1. CASE pc[s] = "start" /\ Say(s, s, Frame("hello"), "read")
    BY <1>1, <2>1, SayCore DEF Waits
  <2>2. CASE Write(s) \/ Drain(s)
    <3>1. job[s].to \in Conns /\ job[s].frame \in Frames /\ job[s].next \in GoOn
      BY <1>1, <1>2, <2>2 DEF Write, Drain, Core, Sensible, Waits, Jobs
    <3> QED BY <1>1, <2>2, <3>1, SayCore
  <2> QED BY <2>1, <2>2
<1>4. pc[s] # "new" /\ pc'[s] \notin {"new", "start", "off", "busy"}
  BY <1>1, <1>2, <1>3 DEF Writes, Puts, Write, Drain, GoOn
<1> SUFFICES ASSUME tool[s] \in {"new", "hello"} PROVE Hoping(s)'
  BY <1>4 DEF GreetingOf
<1>5. Hoping(s)
  BY DEF GreetingOf
<1>6. bot' # s /\ inbox'[s] = <<>>
  BY <1>5 DEF Hoping
<1>7. ASSUME NEW rest, out[s] = <<>>, Put(s, s, Frame("hello"), "read", rest)
      PROVE  Greeted(s)' /\ pc'[s] \in {"read", "drain", "finally"}
  <2>1. pc'[s] \in {"read", "drain", "finally"}
    BY <1>1, <1>2, <1>7 DEF Put, WriteFails, At, IpcAssumption
  <2>2. CASE Lost(s) /\ WriteFails(s, s) /\ UNCHANGED out
    BY <1>7, <2>1, <2>2 DEF WriteFails, Greeted
  <2>3. CASE out' = [out EXCEPT ![s] = Append(@, Frame("hello"))]
    <3>1. out'[s] = Append(<<>>, Frame("hello"))
      BY <1>1, <1>2, <1>7, <2>3
    <3>2. out'[s] # <<>> /\ Head(out'[s]) = Frame("hello")
      BY <3>1
    <3> QED BY <2>1, <3>2 DEF Greeted, Frame
  <2> QED BY <1>7, <2>1, <2>2, <2>3 DEF Put
<1>8. CASE pc[s] = "start" /\ Say(s, s, Frame("hello"), "read")
  <2>1. Unmet(s)
    BY <1>5, <1>8 DEF Hoping
  <2>2. job' = [job EXCEPT ![s] = IF pc'[s] \in {"write", "drain"}
                                  THEN HelloJob(s) ELSE NoJob]
    BY <1>8 DEF Say, HelloJob
  <2>3. Waits(s)' => job'[s] = HelloJob(s)
    BY <1>1, <1>2, <2>2 DEF Waits
  <2>4. CASE queue = <<>>
    BY <1>4, <1>6, <1>7, <1>8, <2>1, <2>3, <2>4 DEF Say, Unmet, Hoping
  <2>5. CASE queue # <<>>
    <3>1. queue' = Append(queue, s) /\ pc' = [pc EXCEPT ![s] = "write"] /\ out' = out
      BY <1>8, <2>5 DEF Say, At
    <3>2. /\ Len(queue) \in Nat /\ Len(queue') = Len(queue) + 1
          /\ \A i \in 1..Len(queue) :
                queue'[i] = queue[i] /\ queue[i] # s /\ queue[i] \in Tasks /\ Waits(queue[i])
      BY <1>2, <1>8, <3>1, AppendProperties DEF Core, QueueOk, Waits
    <3>3. ASSUME NEW i \in 1..Len(queue'), NEW j \in 1..Len(queue'), queue'[j] = s, i < j
          PROVE  job'[queue'[i]].to # s
      <4>1. i \in 1..Len(queue)
        BY <3>2, <3>3
      <4>2. queue'[i] = queue[i] /\ job[queue[i]].to # s
        BY <2>1, <3>2, <4>1 DEF Unmet
      <4> QED BY <1>2, <2>2, <3>2, <4>1, <4>2
    <3>4. pc'[s] = "write" /\ out'[s] = <<>> /\ First(s)'
      BY <1>1, <1>2, <2>1, <3>1, <3>3 DEF Unmet, First
    <3> QED BY <1>6, <2>3, <3>4 DEF Hoping
  <2> QED BY <2>4, <2>5
<1>9. CASE Write(s)
  <2>1. job[s] = HelloJob(s) /\ out[s] = <<>>
    BY <1>5, <1>9 DEF Hoping, Write, Waits
  <2>2. Put(s, s, Frame("hello"), "read", Tail(queue))
    BY <1>9, <2>1 DEF Write, HelloJob
  <2>3. Greeted(s)' /\ pc'[s] \in {"read", "drain", "finally"}
    BY <1>7, <2>1, <2>2
  <2>4. Waits(s)' => job'[s] = HelloJob(s)
    BY <1>9, <2>1, <2>3 DEF Write, Waits
  <2> QED BY <1>6, <2>3, <2>4 DEF Hoping
<1>10. CASE Drain(s)
  <2>1. job[s] = HelloJob(s) /\ Greeted(s) /\ UNCHANGED out
    BY <1>5, <1>10 DEF Hoping, Drain, Waits
  <2>2. pc'[s] \in {"read", "finally"} /\ mine' \subseteq mine
    BY <1>1, <1>2, <1>10, <2>1 DEF Drain, WriteFails, At, HelloJob, IpcAssumption
  <2>3. Greeted(s)'
    BY <2>1, <2>2 DEF Greeted
  <2> QED BY <1>6, <2>2, <2>3 DEF Hoping, Waits
<1> QED BY <1>8, <1>9, <1>10

\* A step in which nobody writes, and whose pc[s] stays or comes to an end.
LEMMA Aside ==
    ASSUME Core, NEW s \in Tools, GreetingOf(s), UNCHANGED writing,
           \A u \in Tasks : Waits(u)' => Waits(u),
           \/ pc'[s] = pc[s] /\ tool'[s] = tool[s]
           \/ pc[s] \in {"read", "finally"} /\ pc'[s] \in {"finally", "off"} /\ tool'[s] = tool[s]
           \/ pc'[s] # "new" /\ tool'[s] \notin {"new", "hello"},
           tool'[s] \in {"new", "hello"} =>
               /\ bot' # s /\ inbox'[s] = <<>> /\ out'[s] = out[s]
               /\ s \in mine' => s \in mine
               /\ pc[s] \in {"new", "start"} => s \notin clients' \cup todo'
    PROVE  GreetingOf(s)'
<1>1. CASE pc'[s] # "new" /\ tool'[s] \notin {"new", "hello"}
  BY <1>1 DEF GreetingOf
<1>2. CASE tool'[s] = tool[s] /\ (\/ pc'[s] = pc[s]
                                  \/ pc[s] \in {"read", "finally"} /\ pc'[s] \in {"finally", "off"})
  <2> SUFFICES ASSUME tool[s] \in {"new", "hello"} PROVE Hoping(s)'
    BY <1>2 DEF GreetingOf
  <2>1. Hoping(s)
    BY DEF GreetingOf
  <2>2. ASSUME pc'[s] \in {"new", "start"} PROVE Unmet(s)'
    BY <1>2, <2>1, <2>2 DEF Hoping, Unmet, writing
  <2>3. First(s)' <=> First(s)
    BY DEF First, writing
  <2>4. Waits(s)' => job'[s] = HelloJob(s)
    BY <1>2, <2>1 DEF Hoping, writing, Waits
  <2>5. ASSUME pc'[s] \notin {"new", "start", "write"} PROVE Greeted(s)'
    BY <1>2, <2>1, <2>5 DEF Hoping, Greeted
  <2> QED BY <1>2, <2>1, <2>2, <2>3, <2>4, <2>5 DEF Hoping
<1> QED BY <1>1, <1>2

-----------------------------------------------------------------------------
(* Handlers *)

\* A reply of the handler of another connection, to itself or to the sidecar.
LEMMA OthersReply ==
    ASSUME IpcAssumption, Core, Queued, NEW s \in Tools, GreetingOf(s),
           NEW c \in Conns, c # s, ~Waits(c),
           NEW to \in Conns, to \in {c, bot}, NEW f \in Frames, NEW next \in GoOn,
           Say(c, to, f, next), bot' \in {bot, c},
           inbox'[s] = inbox[s], UNCHANGED <<clients, todo, peers>>
    PROVE  GreetingOf(s)'
<1>1. c \in Tasks /\ Writing(c, to, f, next) /\ tool' = tool
  BY DEF Tasks, Writing, peers
<1>2. tool[s] \in {"new", "hello"} =>
          /\ bot' # s /\ inbox'[s] = <<>>
          /\ pc[s] \in {"new", "start"} => to # s /\ s \notin clients' \cup todo'
  BY DEF GreetingOf, Hoping, Unmet
<1> QED BY <1>1, <1>2, OthersWrite

\* A tool that has read its hello is nobody's concern here.
LEMMA OwnReply ==
    ASSUME IpcAssumption, Core, Queued, NEW s \in Tools, GreetingOf(s), ~Waits(s),
           Read(s, {"submit", "register", "work"}) \/ pc[s] \in {"busy", "waiting"},
           NEW to \in Conns, NEW f \in Frames, NEW next \in GoOn, Say(s, to, f, next),
           UNCHANGED peers
    PROVE  GreetingOf(s)'
<1>1. s \in Tasks /\ Writes(s, to, f, next)
  BY SayCore DEF Tasks, Conns
<1>2. tool[s] \notin {"new", "hello"} /\ pc[s] # "new"
  BY DEF GreetingOf, Hoping, Read
<1>3. pc'[s] # "new" /\ tool'[s] = tool[s]
  BY <1>1 DEF Writes, Puts, Core, TypeOK, GoOn, peers
<1> QED BY <1>2, <1>3 DEF GreetingOf

\* Coroutine c goes on without writing.
LEMMA MovesAside ==
    ASSUME Core, NEW s \in Tools, NEW c \in Tasks, ~Waits(c),
           NEW l \in Labels \ {"write", "drain"}, pc' = [pc EXCEPT ![c] = l]
    PROVE  /\ \A u \in Tasks : Waits(u)' => Waits(u)
           /\ s \in Tasks /\ (c # s => pc'[s] = pc[s]) /\ (c = s => pc'[s] = l)
BY DEF Core, TypeOK, Waits, Tasks, Conns

LEMMA BeginGreets ==
    ASSUME IpcAssumption, Core, Queued, NEW s \in Tools, GreetingOf(s), NEW c \in Conns,
           Begin(c)
    PROVE  GreetingOf(s)'
<1>1. c \in Tasks /\ ~Waits(c) /\ "off" \in Labels \ {"write", "drain"} /\ "read" \in GoOn
      /\ Frame("hello") \in Frames /\ s \in Conns
  BY FramesTyped DEF Begin, Waits, Tasks, Labels, GoOn, Conns
<1>2. UNCHANGED <<inbox, bot, tool, todo>>
  BY DEF Begin, peers
<1>3. CASE phase = "down"
  <2>1. /\ UNCHANGED writing /\ pc' = [pc EXCEPT ![c] = "off"] /\ mine' = mine \ {c}
        /\ UNCHANGED <<out, clients>>
    BY <1>3 DEF Begin, At
  <2>2. CASE c = s
    <3>1. pc[s] = "start" /\ pc'[s] = "off" /\ s \notin mine'
      BY <1>1, <2>1, <2>2, MovesAside DEF Begin
    <3>2. ASSUME tool[s] \in {"new", "hello"} PROVE Hoping(s)'
      <4>1. Hoping(s) /\ out'[s] = <<>>
        BY <2>1, <3>1, <3>2 DEF GreetingOf, Hoping, Unmet
      <4>2. Greeted(s)'
        BY <3>1, <4>1 DEF Greeted
      <4> QED BY <1>2, <3>1, <4>1, <4>2 DEF Hoping, Waits
    <3> QED BY <1>2, <3>1, <3>2 DEF GreetingOf
  <2>3. CASE c # s
    <3>1. pc'[s] = pc[s] /\ \A u \in Tasks : Waits(u)' => Waits(u)
      BY <1>1, <2>1, <2>3, MovesAside
    <3> QED BY <1>2, <2>1, <3>1, Aside DEF GreetingOf, Hoping, Unmet
  <2> QED BY <2>2, <2>3
<1>4. CASE phase # "down"
  <2>1. Say(c, c, Frame("hello"), "read") /\ clients' = clients \cup {c} /\ pc[c] = "start"
    BY <1>4 DEF Begin, Reply
  <2>2. CASE c = s
    BY <1>2, <2>1, <2>2, OwnWrite
  <2>3. CASE c # s
    <3>1. tool[s] \in {"new", "hello"} =>
              /\ bot' # s /\ inbox'[s] = <<>>
              /\ pc[s] \in {"new", "start"} => c # s /\ s \notin clients' \cup todo'
      BY <1>2, <2>1, <2>3 DEF GreetingOf, Hoping, Unmet
    <3> QED BY <1>1, <1>2, <2>1, <2>3, <3>1, OthersWrite DEF Writing
  <2> QED BY <2>2, <2>3
<1> QED BY <1>3, <1>4

LEMMA HandlerGreets ==
    ASSUME IpcAssumption, Core, Queued, NEW s \in Tools, GreetingOf(s), NEW c \in Conns,
           HandlerStep(c)
    PROVE  GreetingOf(s)'
<1> USE FramesTyped
<1>1. c \in Tasks /\ s \in Conns /\ s \in Tasks /\ {"read", "finally", "waiting"} \subseteq GoOn
      /\ {"busy", "finally", "off"} \subseteq Labels \ {"write", "drain"}
  BY DEF Tasks, Conns, GoOn, Labels
<1>2. ASSUME NEW kinds, Read(c, kinds)
      PROVE  /\ ~Waits(c)
             /\ c # s => inbox'[s] = inbox[s]
             /\ c = s => tool[s] \notin {"new", "hello"} /\ pc[s] # "new"
  BY <1>1, <1>2 DEF Read, Waits, GreetingOf, Hoping, Core, TypeOK
<1>3. CASE Begin(c)
  BY <1>3, BeginGreets
<1>4. CASE TakeResult(c)
  <2>1. UNCHANGED <<writing, pc, tool, bot, clients, todo, out, mine>> /\ Read(c, {"result"})
    BY <1>4 DEF TakeResult, NoSay, registry, peers
  <2>2. \A u \in Tasks : Waits(u)' => Waits(u)
    BY <2>1 DEF Waits
  <2>3. tool[s] \in {"new", "hello"} => c # s
    BY <1>2, <2>1
  <2>4. tool[s] \in {"new", "hello"} =>
            inbox'[s] = <<>> /\ bot # s /\ (pc[s] \in {"new", "start"} => s \notin clients \cup todo)
    BY <1>2, <2>1, <2>3 DEF GreetingOf, Hoping, Unmet
  <2> QED BY <2>1, <2>2, <2>4, Aside
<1>5. CASE Refuse(c)
  <2>1. PICK next \in {"read", "finally"} : Say(c, c, Frame("refused"), next)
    BY <1>5 DEF Refuse, Reply
  <2>2. /\ Read(c, {"register", "work", "submit"})
        /\ UNCHANGED <<bot, clients, todo, peers>>
    BY <1>5 DEF Refuse, registry
  <2> QED BY <1>1, <1>2, <2>1, <2>2, OthersReply, OwnReply DEF Read
<1>6. CASE Register(c)
  <2>1. /\ Say(c, c, Frame("reply"), "read") /\ Read(c, {"register"}) /\ bot' = c
        /\ UNCHANGED <<clients, todo, peers>>
    BY <1>6 DEF Register, Reply
  <2> QED BY <1>1, <1>2, <2>1, OthersReply, OwnReply DEF Read
<1>7. CASE Work(c)
  <2>1. /\ UNCHANGED <<writing, tool, bot, clients, todo, out, mine>> /\ Read(c, {"work"})
        /\ pc' = [pc EXCEPT ![c] = "busy"]
    BY <1>7 DEF Work, NoSay, registry, peers, At
  <2>2. /\ \A u \in Tasks : Waits(u)' => Waits(u)
        /\ (c # s => pc'[s] = pc[s]) /\ (c = s => pc'[s] = "busy")
    BY <1>1, <1>2, <2>1, MovesAside
  <2>3. CASE c = s
    BY <1>2, <2>1, <2>2, <2>3, Aside
  <2>4. CASE c # s
    <3>1. tool[s] \in {"new", "hello"} => inbox'[s] = <<>> /\ bot # s
                /\ (pc[s] \in {"new", "start"} => s \notin clients \cup todo)
      BY <1>2, <2>1, <2>4 DEF GreetingOf, Hoping, Unmet
    <3> QED BY <2>1, <2>2, <2>4, <3>1, Aside
  <2> QED BY <2>3, <2>4
<1>8. CASE WorkDone(c)
  <2>1. /\ Say(c, c, Frame("reply"), "read") /\ pc[c] = "busy"
        /\ UNCHANGED <<bot, clients, todo, inbox, peers>>
    BY <1>8 DEF WorkDone, Reply, registry
  <2> QED BY <1>1, <2>1, OthersReply, OwnReply DEF Waits
<1>9. CASE Eof(c)
  <2>1. /\ UNCHANGED <<writing, tool, bot, clients, todo, out, mine, inbox>> /\ pc[c] = "read"
        /\ pc' = [pc EXCEPT ![c] = "finally"] /\ ~Waits(c)
    BY <1>9 DEF Eof, registry, round, wire, peers, At, Waits
  <2>2. /\ \A u \in Tasks : Waits(u)' => Waits(u)
        /\ (c # s => pc'[s] = pc[s]) /\ (c = s => pc'[s] = "finally")
    BY <1>1, <2>1, MovesAside
  <2>3. tool[s] \in {"new", "hello"} => inbox'[s] = <<>> /\ bot # s
                /\ (pc[s] \in {"new", "start"} => s \notin clients \cup todo)
    BY <2>1 DEF GreetingOf, Hoping, Unmet
  <2> QED BY <2>1, <2>2, <2>3, Aside
<1>10. CASE Finish(c)
  <2>1. /\ UNCHANGED <<writing, tool, todo, out>> /\ pc[c] = "finally"
        /\ pc' = [pc EXCEPT ![c] = "off"] /\ ~Waits(c)
        /\ clients' = clients \ {c} /\ bot' \in {bot, NoOne} /\ mine' = mine \ {c}
        /\ inbox' = [inbox EXCEPT ![c] = <<>>]
    BY <1>10 DEF Finish, round, peers, At, Waits
  <2>2. /\ \A u \in Tasks : Waits(u)' => Waits(u)
        /\ (c # s => pc'[s] = pc[s]) /\ (c = s => pc'[s] = "off")
    BY <1>1, <2>1, MovesAside
  <2>3. s # NoOne /\ (inbox'[s] = inbox[s] \/ inbox'[s] = <<>>)
    BY <1>1, <2>1 DEF IpcAssumption, Core, TypeOK
  <2>4. tool[s] \in {"new", "hello"} => inbox'[s] = <<>> /\ bot' # s
                /\ (pc[s] \in {"new", "start"} => s \notin clients' \cup todo')
    BY <2>1, <2>3 DEF GreetingOf, Hoping, Unmet
  <2> QED BY <2>1, <2>2, <2>4, Aside
<1>11. CASE c \in Tools /\ Forward(c)
  <2>1. Read(c, {"submit"}) /\ UNCHANGED <<bot, clients, todo, peers>>
    BY <1>11 DEF Forward, registry
  <2>2. CASE Say(c, c, Frame("refused"), "read")
    BY <1>1, <1>2, <2>1, <2>2, OthersReply, OwnReply DEF Read
  <2>3. CASE bot # NoOne /\ Say(c, bot, Submit(c), "waiting")
    <3>1. bot \in Conns /\ Submit(c) \in Frames
      BY <1>11, <2>3 DEF Core, TypeOK
    <3> QED BY <1>1, <1>2, <2>1, <2>3, <3>1, OthersReply, OwnReply DEF Read
  <2> QED BY <1>11, <2>2, <2>3 DEF Forward, Reply
<1>12. CASE c \in Tools /\ Answer(c)
  <2>1. /\ pc[c] = "waiting" /\ ~Waits(c)
        /\ UNCHANGED <<bot, clients, todo, inbox, peers, tool>>
    BY <1>12 DEF Answer, Waits, registry, peers
  <2>2. CASE Say(c, c, Frame("result"), "read")
    BY <1>1, <2>1, <2>2, OthersReply, OwnReply
  <2>3. CASE At(c, "finally") /\ NoSay
    <3>1. UNCHANGED <<writing, out, mine>> /\ pc' = [pc EXCEPT ![c] = "finally"]
      BY <2>3 DEF At, NoSay
    <3>2. /\ \A u \in Tasks : Waits(u)' => Waits(u)
          /\ (c # s => pc'[s] = pc[s]) /\ (c = s => pc'[s] = "finally")
      BY <1>1, <2>1, <3>1, MovesAside
    <3>3. tool[s] \in {"new", "hello"} => c # s /\ inbox'[s] = <<>> /\ bot # s
                /\ (pc[s] \in {"new", "start"} => s \notin clients \cup todo)
      BY <2>1 DEF GreetingOf, Hoping, Unmet
    <3> QED BY <2>1, <3>1, <3>2, <3>3, Aside
  <2> QED BY <1>12, <2>2, <2>3 DEF Answer, Reply
<1>13. CASE c \in Tools /\ Timeout(c)
  <2>1. /\ Say(c, c, Frame("timeout"), "read") /\ pc[c] = "waiting" /\ ~Waits(c)
        /\ UNCHANGED <<bot, clients, todo, inbox, peers>>
    BY <1>13 DEF Timeout, Reply, Waits, registry
  <2> QED BY <1>1, <2>1, OthersReply, OwnReply
<1> QED BY <1>3, <1>4, <1>5, <1>6, <1>7, <1>8, <1>9, <1>10, <1>11, <1>12, <1>13
        DEF HandlerStep

-----------------------------------------------------------------------------
(* Publisher, service and peers *)

LEMMA WriterGreets ==
    ASSUME IpcAssumption, Core, Queued, NEW s \in Tools, GreetingOf(s), WriterStep
    PROVE  GreetingOf(s)'
<1>1. PICK t \in Tasks : Write(t) \/ Drain(t)
  BY DEF WriterStep
<1>2. UNCHANGED <<inbox, bot, tool, clients, todo>>
  BY <1>1 DEF Write, Drain, registry, peers
<1>3. CASE t = s
  BY <1>1, <1>2, <1>3, OwnWrite
<1>4. CASE t # s
  <2>1. Waits(t) /\ job[t].to \in Conns /\ job[t].frame \in Frames /\ job[t].next \in GoOn
    BY <1>1 DEF Write, Drain, Waits, Core, Sensible, TypeOK, Jobs
  <2>2. tool[s] \in {"new", "hello"} =>
            /\ bot' # s /\ inbox'[s] = <<>>
            /\ pc[s] \in {"new", "start"} => job[t].to # s /\ s \notin clients' \cup todo'
    BY <1>2, <2>1 DEF GreetingOf, Hoping, Unmet
  <2>3. Writing(t, job[t].to, job[t].frame, job[t].next)
    BY <1>1 DEF Writing
  <2> QED BY <1>2, <1>4, <2>1, <2>2, <2>3, OthersWrite
<1> QED BY <1>3, <1>4

LEMMA PublishGreets ==
    ASSUME IpcAssumption, Core, Queued, NEW s \in Tools, GreetingOf(s),
           PublishBegin \/ PublisherStep
    PROVE  GreetingOf(s)'
<1>1. /\ Publisher \in Tasks /\ Publisher # s /\ Frame("message") \in Frames
      /\ "publish" \in GoOn /\ {"publish", "off"} \subseteq Labels \ {"write", "drain"}
  BY FramesTyped DEF IpcAssumption, Tasks, Conns, GoOn, Labels
<1>2. CASE PublishBegin \/ PublishEnd
  <2>1. /\ UNCHANGED <<writing, tool, bot, inbox, out, mine>> /\ ~Waits(Publisher)
        /\ clients' \subseteq clients /\ todo' \subseteq clients \cup todo
        /\ \E l \in {"publish", "off"} : pc' = [pc EXCEPT ![Publisher] = l]
    BY <1>2 DEF PublishBegin, PublishEnd, registry, wire, peers, Waits
  <2>2. pc'[s] = pc[s] /\ \A u \in Tasks : Waits(u)' => Waits(u)
    BY <1>1, <2>1, MovesAside
  <2>3. tool[s] \in {"new", "hello"} => inbox'[s] = <<>> /\ bot # s
                /\ (pc[s] \in {"new", "start"} => s \notin clients' \cup todo')
    BY <2>1 DEF GreetingOf, Hoping, Unmet
  <2> QED BY <2>1, <2>2, <2>3, Aside
<1>3. CASE \E c \in Conns : PublishNext(c)
  <2>1. PICK c \in Conns : PublishNext(c)
    BY <1>3
  <2>2. /\ Say(Publisher, c, Frame("message"), "publish") /\ ~Waits(Publisher) /\ c \in todo
        /\ UNCHANGED <<inbox, bot, tool, clients>> /\ todo' \subseteq todo
    BY <2>1 DEF PublishNext, Waits, registry, peers
  <2>3. tool[s] \in {"new", "hello"} =>
            /\ bot' # s /\ inbox'[s] = <<>>
            /\ pc[s] \in {"new", "start"} => c # s /\ s \notin clients' \cup todo'
    BY <2>2 DEF GreetingOf, Hoping, Unmet
  <2> QED BY <1>1, <2>2, <2>3, OthersWrite DEF Writing
<1> QED BY <1>2, <1>3 DEF PublisherStep

LEMMA ServiceGreets ==
    ASSUME IpcAssumption, Core, NEW s \in Tools, GreetingOf(s),
           ServiceStep \/ UNCHANGED vars
    PROVE  GreetingOf(s)'
<1>1. /\ UNCHANGED <<writing, pc, tool, inbox, out, todo>>
      /\ mine' \subseteq mine /\ clients' \subseteq clients /\ bot' \in {bot, NoOne}
  BY DEF ServiceStep, Start, StopBegin, StopStep, StopSweep, StopAbandoned, StopAgain, Sweep,
         StopClose, StopEnd, wire, peers, registry, round, vars
<1>2. \A u \in Tasks : Waits(u)' => Waits(u)
  BY <1>1 DEF Waits
<1>3. s # NoOne
  BY DEF IpcAssumption, Tasks, Conns
<1>4. tool[s] \in {"new", "hello"} => inbox'[s] = <<>> /\ bot' # s
              /\ (pc[s] \in {"new", "start"} => s \notin clients' \cup todo')
  BY <1>1, <1>3 DEF GreetingOf, Hoping, Unmet
<1> QED BY <1>1, <1>2, <1>4, Aside

LEMMA ConnectGreets ==
    ASSUME IpcAssumption, Core, NEW s \in Tools, GreetingOf(s), NEW c \in Conns, Connect(c)
    PROVE  GreetingOf(s)'
<1>1. /\ UNCHANGED <<writing, inbox, out, bot, clients, todo>> /\ pc[c] = "new"
      /\ pc' = [pc EXCEPT ![c] = "start"] /\ mine' = mine \cup {c} /\ ~Waits(c)
      /\ tool' = [t \in Tools |-> IF t = c THEN "hello" ELSE tool[t]]
  BY DEF Connect, At, registry, round, Waits
<1>2. c \in Tasks /\ "start" \in Labels \ {"write", "drain"}
  BY DEF Tasks, Labels
<1>3. /\ \A u \in Tasks : Waits(u)' => Waits(u)
      /\ (c # s => pc'[s] = pc[s]) /\ (c = s => pc'[s] = "start")
  BY <1>1, <1>2, MovesAside
<1>4. CASE c # s
  <2>1. tool'[s] = tool[s] /\ (s \in mine' => s \in mine)
    BY <1>1, <1>4
  <2>2. tool[s] \in {"new", "hello"} => inbox'[s] = <<>> /\ bot # s
                /\ (pc[s] \in {"new", "start"} => s \notin clients \cup todo)
    BY <1>1 DEF GreetingOf, Hoping, Unmet
  <2> QED BY <1>1, <1>3, <1>4, <2>1, <2>2, Aside
<1>5. CASE c = s
  <2>1. Hoping(s) /\ Unmet(s)
    BY <1>1, <1>5 DEF GreetingOf, Hoping
  <2>2. Unmet(s)'
    BY <1>1, <1>3, <2>1 DEF Unmet, writing
  <2>3. pc'[s] = "start" /\ tool'[s] = "hello"
    BY <1>1, <1>3, <1>5
  <2> QED BY <1>1, <2>1, <2>2, <2>3 DEF GreetingOf, Hoping, Waits
<1> QED BY <1>4, <1>5

LEMMA PeerGreets ==
    ASSUME IpcAssumption, Core, NEW s \in Tools, GreetingOf(s),
           \/ \E b \in Bots : BotCloses(b) \/ BotReads(b) \/ \E f \in BotFrames : BotSends(b, f)
           \/ \E t \in Tools : ToolAsks(t) \/ ToolReads(t) \/ ToolEof(t) \/ ToolGivesUp(t)
    PROVE  GreetingOf(s)'
<1>1. UNCHANGED <<writing, pc, bot, clients, todo, mine>>
  BY DEF BotCloses, BotReads, BotSends, ToolAsks, ToolReads, ToolEof, ToolGivesUp, Close,
         registry, round, peers
<1>2. \A u \in Tasks : Waits(u)' => Waits(u)
  BY <1>1 DEF Waits
<1>3. s \in Conns /\ inbox \in [Conns -> Seq(Frames)] /\ out \in [Conns -> Seq(Frames)]
      /\ tool \in [Tools -> {"new", "hello", "asked", "answered", "failed"}]
  BY DEF Core, TypeOK, Conns
<1>4. tool[s] \in {"new", "hello"} => inbox[s] = <<>> /\ bot # s
              /\ (pc[s] \in {"new", "start"} => s \notin clients \cup todo)
  BY DEF GreetingOf, Hoping, Unmet
<1>5. CASE tool'[s] = tool[s] /\ inbox'[s] = inbox[s] /\ out'[s] = out[s]
  BY <1>1, <1>2, <1>4, <1>5, Aside
<1>6. ASSUME NEW b \in Bots,
             BotCloses(b) \/ BotReads(b) \/ \E f \in BotFrames : BotSends(b, f)
      PROVE  tool'[s] = tool[s] /\ inbox'[s] = inbox[s] /\ out'[s] = out[s]
  BY <1>3, <1>6 DEF IpcAssumption, BotCloses, BotReads, BotSends, Close, peers
<1>7. ASSUME NEW t \in Tools, ToolAsks(t) \/ ToolReads(t) \/ ToolEof(t) \/ ToolGivesUp(t)
      PROVE  GreetingOf(s)'
  <2>1. CASE t # s
    <3>1. tool'[s] = tool[s] /\ inbox'[s] = inbox[s] /\ out'[s] = out[s]
      BY <1>3, <1>7, <2>1 DEF ToolAsks, ToolReads, ToolEof, ToolGivesUp, Close
    <3> QED BY <1>5, <3>1
  <2>2. CASE t = s
    <3>1. tool[s] # "new" /\ tool'[s] \notin {"new", "hello"}
      BY <1>3, <1>7, <2>2 DEF ToolAsks, ToolReads, ToolEof, ToolGivesUp
    <3>2. pc'[s] # "new"
      BY <1>1, <3>1 DEF GreetingOf
    <3> QED BY <1>1, <1>2, <3>1, <3>2, Aside
  <2> QED BY <2>1, <2>2
<1> QED BY <1>5, <1>6, <1>7

\* Every step keeps whoever holds or wants the lock in the queue.
LEMMA QueuedInvariant == ASSUME IpcAssumption, Core, Queued, [Next]_vars PROVE Queued'
<1>1. ASSUME UNCHANGED writing, \A u \in Tasks : Waits(u)' => Waits(u) PROVE Queued'
  BY <1>1 DEF Queued, writing
<1>2. ASSUME NEW t \in Tasks, NEW c \in Conns, NEW f \in Frames, NEW next \in GoOn,
             Writing(t, c, f, next)
      PROVE  Queued'
  BY <1>2, SayCore, WritingTurns, QueuedKept DEF Writing
<1>3. ASSUME NEW t \in Tasks, ~Waits(t), NEW l \in Labels \ {"write", "drain"},
             pc' = [pc EXCEPT ![t] = l], UNCHANGED writing
      PROVE  Queued'
  <2>1. \A u \in Tasks : Waits(u)' => Waits(u)
    BY <1>3 DEF Core, TypeOK, Waits
  <2> QED BY <1>1, <1>3, <2>1
<1>4. ASSUME NEW c \in Conns, HandlerStep(c) PROVE Queued'
  <2>1. /\ c \in Tasks /\ {"read", "finally", "waiting"} \subseteq GoOn
        /\ {"busy", "finally", "off"} \subseteq Labels \ {"write", "drain"}
    BY DEF Tasks, GoOn, Labels
  <2>2. CASE \E to \in Conns, f \in Frames, next \in GoOn : Say(c, to, f, next) /\ ~Waits(c)
    BY <1>2, <2>1, <2>2 DEF Writing
  <2>3. CASE /\ UNCHANGED writing /\ ~Waits(c)
             /\ \E l \in {"busy", "finally", "off"} : pc' = [pc EXCEPT ![c] = l]
    BY <1>3, <2>1, <2>3
  <2>4. CASE Begin(c) \/ WorkDone(c) \/ Eof(c) \/ Finish(c) \/ Work(c)
    BY <2>1, <2>2, <2>3, <2>4, FramesTyped
       DEF Begin, WorkDone, Eof, Finish, Work, Read, Reply, At, NoSay, Waits
  <2>5. CASE TakeResult(c)
    BY <1>1, <2>5 DEF TakeResult, NoSay, Waits
  <2>6. CASE Refuse(c) \/ Register(c)
    BY <2>1, <2>2, <2>6, FramesTyped DEF Refuse, Register, Reply, Read, Waits
  <2>7. CASE c \in Tools /\ Forward(c)
    BY <2>1, <2>2, <2>7, FramesTyped DEF Forward, Reply, Read, Waits, Core, TypeOK
  <2>8. CASE c \in Tools /\ (Answer(c) \/ Timeout(c))
    BY <2>1, <2>2, <2>3, <2>8, FramesTyped DEF Answer, Timeout, Reply, NoSay, At, Waits
  <2> QED BY <1>4, <2>4, <2>5, <2>6, <2>7, <2>8 DEF HandlerStep
<1>5. ASSUME NEW c \in Conns, Connect(c) PROVE Queued'
  BY <1>3, <1>5 DEF Connect, At, Waits, Tasks, Labels
<1>6. CASE WriterStep
  <2>1. PICK t \in Tasks : Write(t) \/ Drain(t)
    BY <1>6 DEF WriterStep
  <2>2. job[t].to \in Conns /\ job[t].frame \in Frames /\ job[t].next \in GoOn
    BY <2>1 DEF Write, Drain, Waits, Core, Sensible, TypeOK, Jobs
  <2>3. Writing(t, job[t].to, job[t].frame, job[t].next)
    BY <2>1 DEF Writing
  <2> QED BY <1>2, <2>2, <2>3
<1>7. CASE PublishBegin \/ PublisherStep
  <2>1. Publisher \in Tasks /\ "publish" \in GoOn
        /\ {"publish", "off"} \subseteq Labels \ {"write", "drain"}
    BY DEF Tasks, GoOn, Labels
  <2>2. CASE PublishBegin \/ PublishEnd
    BY <1>3, <2>1, <2>2 DEF PublishBegin, PublishEnd, Waits
  <2>3. CASE \E c \in Conns : PublishNext(c)
    BY <1>2, <2>1, <2>3, FramesTyped DEF PublishNext, Writing, Waits
  <2> QED BY <1>7, <2>2, <2>3 DEF PublisherStep
<1>8. CASE UNCHANGED <<writing, pc>>
  BY <1>1, <1>8 DEF Waits
<1>9. CASE ServiceStep \/ UNCHANGED vars
  BY <1>8, <1>9 DEF ServiceStep, Start, StopBegin, StopStep, StopSweep, StopAbandoned,
        StopAgain, Sweep, StopClose, StopEnd, vars
<1>10. ASSUME NEW b \in Bots,
              BotCloses(b) \/ BotReads(b) \/ \E f \in BotFrames : BotSends(b, f)
       PROVE  Queued'
  BY <1>8, <1>10 DEF BotCloses, BotReads, BotSends
<1>11. ASSUME NEW t \in Tools, ToolAsks(t) \/ ToolReads(t) \/ ToolEof(t) \/ ToolGivesUp(t)
       PROVE  Queued'
  BY <1>8, <1>11 DEF ToolAsks, ToolReads, ToolEof, ToolGivesUp
<1> QED BY <1>4, <1>5, <1>6, <1>7, <1>9, <1>10, <1>11 DEF Next

-----------------------------------------------------------------------------
\* A tool that still waits for its hello has it as the first thing on its wire,
\* or as the first write in the queue that is to it, or cannot get anything.
THEOREM GreetingInvariant == ASSUME IpcAssumption PROVE Spec => [](Queued /\ Greeting)
<1>1. Init => Queued /\ Greeting
  <2> SUFFICES ASSUME Init PROVE Queued /\ Greeting
    OBVIOUS
  <2>1. /\ \A u \in Tasks : pc[u] \in {"off", "new"}
        /\ \A s \in Tools : pc[s] = "new" /\ tool[s] = "new" /\ s # NoOne
        /\ \A s \in Tools : inbox[s] = <<>> /\ out[s] = <<>>
        /\ bot = NoOne /\ clients = {} /\ todo = {}
    BY DEF Init, IpcAssumption, Tasks, Conns
  <2> QED BY <2>1 DEF Queued, Greeting, GreetingOf, Hoping, Unmet, Waits
<1>2. Core /\ Queued /\ Greeting /\ [Next]_vars => (Queued /\ Greeting)'
  <2> SUFFICES ASSUME Core, Queued, Greeting, [Next]_vars, NEW s \in Tools
               PROVE  Queued' /\ GreetingOf(s)'
    BY QueuedInvariant DEF Greeting
  <2>1. Queued' /\ GreetingOf(s)
    BY QueuedInvariant DEF Greeting
  <2>2. ASSUME NEW c \in Conns, HandlerStep(c) \/ Connect(c) PROVE GreetingOf(s)'
    BY <2>1, <2>2, HandlerGreets, ConnectGreets
  <2>3. CASE WriterStep
    BY <2>1, <2>3, WriterGreets
  <2>4. CASE PublishBegin \/ PublisherStep
    BY <2>1, <2>4, PublishGreets
  <2>5. CASE ServiceStep \/ UNCHANGED vars
    BY <2>1, <2>5, ServiceGreets
  <2>6. CASE \/ \E b \in Bots : BotCloses(b) \/ BotReads(b) \/ \E f \in BotFrames : BotSends(b, f)
             \/ \E t \in Tools : ToolAsks(t) \/ ToolReads(t) \/ ToolEof(t) \/ ToolGivesUp(t)
    BY <2>1, <2>6, PeerGreets
  <2> QED BY <2>1, <2>2, <2>3, <2>4, <2>5, <2>6 DEF Next
<1> QED BY <1>1, <1>2, CoreInvariant, PTL DEF Spec

\* The first frame a tool reads is the hello of its handler, whatever messages
\* are being published when it connects (adapter.py:670-675, :871-873).
THEOREM HelloComesFirst == ASSUME IpcAssumption PROVE Spec => []HelloFirst
<1>1. Greeting => HelloFirst
  BY DEF Greeting, GreetingOf, Hoping, Unmet, Greeted, HelloFirst
<1> QED BY <1>1, GreetingInvariant, PTL

-----------------------------------------------------------------------------
(* A request that was asked is in somebody's hands *)

\* The handler of s waits for the sidecar, or does as soon as it has written.
Forwarding(s) == pc[s] = "waiting" \/ (Waits(s) /\ job[s].next = "waiting")

InHand(s) ==
    \/ inbox[s] # <<>> \/ pc[s] = "finally" \/ Forwarding(s)
    \/ pc[s] = "write" /\ job[s].to = s
HandOf(s) ==
    /\ pc[s] \notin {"busy", "publish"}
    /\ Waits(s) => job[s].next \in {"read", "waiting", "finally"}
    /\ s \in mine => pc[s] \notin {"new", "off"}
    /\ tool[s] = "asked" => pc[s] \notin {"new", "start"}
    /\ Forwarding(s) => future[s] # "none"
    /\ future[s] = "pending" => s \in waiters
    /\ tool[s] = "asked" /\ out[s] = <<>> /\ s \in mine => InHand(s)
Hands == \A s \in Tools : HandOf(s)

\* How a write of the handler of s ends, or where it waits.
Outcome(s, c, f, next) ==
    \/ pc'[s] = "finally"
    \/ pc'[s] = next /\ (pc[s] = "drain" \/ out'[c] # <<>>)
    \/ /\ pc'[s] = "drain" /\ out'[c] # <<>>
       /\ job'[s] = [to |-> c, frame |-> f, next |-> next]
    \/ /\ pc'[s] = "write" /\ ~Waits(s)
       /\ job'[s] = [to |-> c, frame |-> f, next |-> next]

LEMMA OwnOutcome ==
    ASSUME IpcAssumption, Core, NEW s \in Conns, NEW c \in Conns, NEW f \in Frames,
           NEW next \in {"read", "waiting", "finally"}, Writing(s, c, f, next)
    PROVE  Outcome(s, c, f, next)
<1>1. /\ s \in Tasks /\ s # Publisher /\ next \in GoOn /\ Writes(s, c, f, next)
      /\ pc \in [Tasks -> Labels] /\ job \in [Tasks -> Jobs] /\ out \in [Conns -> Seq(Frames)]
  BY SayCore DEF Tasks, IpcAssumption, GoOn, Core, TypeOK, Writing
<1>2. job'[s] = IF pc'[s] \in {"write", "drain"} THEN [to |-> c, frame |-> f, next |-> next]
                ELSE NoJob
  BY <1>1 DEF Writes
<1>3. ASSUME NEW rest, Put(s, c, f, next, rest)
      PROVE  pc'[s] = "finally" \/ (pc'[s] \in {next, "drain"} /\ out'[c] # <<>>)
  <2>1. CASE WriteFails(s, c)
    BY <1>1, <2>1 DEF WriteFails, At
  <2>2. CASE /\ out' = [out EXCEPT ![c] = Append(@, f)]
             /\ At(s, next) \/ At(s, "drain")
    <3>1. out'[c] = Append(out[c], f) /\ pc'[s] \in {next, "drain"}
      BY <1>1, <2>2 DEF At
    <3>2. out[c] \in Seq(Frames)
      BY <1>1
    <3>3. Append(out[c], f) # <<>>
      BY <3>2
    <3> QED BY <3>1, <3>3
  <2> QED BY <1>3, <2>1, <2>2 DEF Put
<1>4. CASE Say(s, c, f, next) /\ ~Waits(s)
  <2>1. CASE queue = <<>>
    <3>1. Put(s, c, f, next, <<>>)
      BY <1>4, <2>1 DEF Say
    <3> QED BY <1>2, <1>3, <3>1 DEF Outcome
  <2>2. CASE queue # <<>>
    <3>1. pc'[s] = "write"
      BY <1>1, <1>4, <2>2 DEF Say, At
    <3> QED BY <1>2, <1>4, <3>1 DEF Outcome
  <2> QED BY <2>1, <2>2
<1>5. CASE Write(s) /\ c = job[s].to /\ f = job[s].frame /\ next = job[s].next
  <2>1. Put(s, c, f, next, Tail(queue))
    BY <1>5 DEF Write
  <2> QED BY <1>2, <1>3, <2>1 DEF Outcome
<1>6. CASE Drain(s) /\ next = job[s].next
  BY <1>1, <1>6 DEF Outcome, Drain, WriteFails, At
<1> QED BY <1>4, <1>5, <1>6 DEF Writing

\* A step that is not of the handler of s and asks nothing.
LEMMA HandStays ==
    ASSUME NEW s \in Tools, HandOf(s), pc'[s] = pc[s], job'[s] = job[s], inbox'[s] = inbox[s],
           tool'[s] = tool[s] \/ tool'[s] # "asked",
           tool'[s] = "asked" => out'[s] = out[s] \/ out'[s] # <<>>,
           s \in mine' => s \in mine,
           future'[s] = future[s] \/ future'[s] \notin {"none", "pending"},
           s \in waiters /\ future'[s] = "pending" => s \in waiters'
    PROVE  HandOf(s)'
BY DEF HandOf, InHand, Forwarding, Waits

\* A write that is not of the handler of s.
LEMMA HandsWrite ==
    ASSUME Core, NEW s \in Tools, HandOf(s), NEW t \in Tasks, s # t, NEW c, NEW f, NEW next,
           Writes(t, c, f, next), inbox'[s] = inbox[s], tool'[s] = tool[s],
           future'[s] = future[s], s \in waiters => s \in waiters'
    PROVE  HandOf(s)'
<1>1. s \in Tasks /\ s \in Conns /\ pc \in [Tasks -> Labels] /\ job \in [Tasks -> Jobs]
      /\ out \in [Conns -> Seq(Frames)]
  BY DEF Core, TypeOK, Tasks, Conns
<1>2. pc'[s] = pc[s] /\ job'[s] = job[s] /\ (s \in mine' => s \in mine)
  BY <1>1 DEF Writes, Puts
<1>3. out'[s] = out[s] \/ out'[s] # <<>>
  <2>1. CASE out'[s] = Append(out[s], f)
    <3>1. Append(out[s], f) # <<>>
      BY <1>1
    <3> QED BY <2>1, <3>1
  <2> QED BY <1>1, <2>1 DEF Writes, Puts
<1> QED BY <1>2, <1>3, HandStays

\* A write of the handler of s: a reply to s, or a request for the sidecar.
LEMMA HandWrites ==
    ASSUME IpcAssumption, Core, NEW s \in Tools, HandOf(s), NEW c \in Conns, NEW f \in Frames,
           NEW next \in {"read", "waiting", "finally"}, Writing(s, c, f, next),
           Waits(s) => UNCHANGED <<inbox, future, waiters>>,
           ~Waits(s) /\ next # "waiting" => c = s,
           ~Waits(s) /\ next = "waiting" => future'[s] # "none",
           future'[s] = "pending" => s \in waiters',
           tool'[s] = tool[s], pc[s] # "new"
    PROVE  HandOf(s)'
<1>1. s \in Conns /\ s \in Tasks /\ next \in GoOn /\ Writes(s, c, f, next)
  BY SayCore DEF Conns, Tasks, GoOn, Writing
<1>2. Outcome(s, c, f, next)
  BY <1>1, OwnOutcome
<1>3. pc'[s] \notin {"busy", "publish", "new", "off", "start"}
  BY <1>2 DEF Outcome
<1>4. Waits(s)' => job'[s].next = next /\ job'[s].to = c
  BY <1>2 DEF Outcome, Waits
<1>5. Waits(s) => c = job[s].to /\ next = job[s].next
  BY DEF Writing
<1>6. ASSUME Forwarding(s)' PROVE future'[s] # "none"
  <2>1. next = "waiting"
    BY <1>2, <1>4, <1>6 DEF Outcome, Forwarding
  <2> QED BY <1>5, <2>1 DEF HandOf, Forwarding
<1>7. ASSUME tool'[s] = "asked", out'[s] = <<>>, s \in mine' PROVE InHand(s)'
  <2>1. out[s] = <<>> /\ s \in mine
    <3>1. out \in [Conns -> Seq(Frames)]
      BY DEF Core, TypeOK
    <3>2. Append(out[s], f) # <<>>
      BY <1>1, <3>1
    <3> QED BY <1>1, <1>7, <3>1, <3>2 DEF Writes, Puts
  <2>2. InHand(s)
    BY <1>7, <2>1 DEF HandOf
  <2>3. CASE next = "waiting"
    BY <1>2, <1>4, <2>3 DEF Outcome, InHand, Forwarding, Waits
  <2>4. CASE next # "waiting" /\ ~Waits(s)
    BY <1>2, <1>4, <1>7, <2>4 DEF Outcome, InHand, Waits
  <2>5. CASE next # "waiting" /\ Waits(s)
    <3>1. inbox[s] # <<>> \/ (pc[s] = "write" /\ c = s)
      BY <1>5, <2>2, <2>5 DEF InHand, Forwarding, Waits
    <3> QED BY <1>2, <1>7, <2>5, <3>1 DEF Outcome, InHand, Waits
  <2> QED BY <2>3, <2>4, <2>5
<1>8. Waits(s)' => job'[s].next \in {"read", "waiting", "finally"}
  BY <1>4
<1> QED BY <1>3, <1>6, <1>7, <1>8 DEF HandOf

\* The handler of another connection.
LEMMA OthersHand ==
    ASSUME IpcAssumption, Core, NEW s \in Tools, HandOf(s), NEW c \in Conns, c # s,
           HandlerStep(c)
    PROVE  HandOf(s)'
<1> USE FramesTyped
<1>1. /\ s \in Tasks /\ s \in Conns /\ c \in Tasks /\ {"read", "finally", "waiting"} \subseteq GoOn
      /\ pc \in [Tasks -> Labels] /\ inbox \in [Conns -> Seq(Frames)]
      /\ future \in [Tools -> {"none", "pending", "done", "failed"}]
  BY DEF Tasks, Conns, GoOn, Core, TypeOK
<1>2. ASSUME \E to \in Conns, f \in Frames, next \in GoOn : Say(c, to, f, next) /\ ~Waits(c),
             inbox'[s] = inbox[s], future'[s] = future[s], s \in waiters => s \in waiters',
             UNCHANGED peers
      PROVE  HandOf(s)'
  <2>1. PICK to \in Conns, f \in Frames, next \in GoOn : Writes(c, to, f, next)
    BY <1>1, <1>2, SayCore
  <2> QED BY <1>1, <1>2, <2>1, HandsWrite DEF peers
<1>3. ASSUME UNCHANGED <<writing, out, peers>>, pc'[s] = pc[s], mine' \subseteq mine,
             inbox'[s] = inbox[s],
             future'[s] = future[s] \/ future'[s] \notin {"none", "pending"},
             s \in waiters /\ future'[s] = "pending" => s \in waiters'
      PROVE  HandOf(s)'
  BY <1>3, HandStays DEF writing, peers
<1>4. ASSUME NEW kinds, Read(c, kinds) PROVE inbox'[s] = inbox[s] /\ ~Waits(c)
  BY <1>1, <1>4 DEF Read, Waits
<1>5. CASE Begin(c)
  <2>1. CASE phase = "down"
    <3>1. UNCHANGED <<writing, out, peers, inbox, forwards>> /\ mine' \subseteq mine /\ pc'[s] = pc[s]
      BY <1>1, <1>5, <2>1 DEF Begin, At
    <3> QED BY <1>3, <3>1 DEF forwards
  <2>2. CASE phase # "down"
    <3>1. Say(c, c, Frame("hello"), "read") /\ ~Waits(c) /\ UNCHANGED <<inbox, forwards, peers>>
      BY <1>5, <2>2 DEF Begin, Reply, Waits
    <3> QED BY <1>1, <1>2, <3>1 DEF forwards
  <2> QED BY <2>1, <2>2
<1>6. CASE TakeResult(c)
  <2>1. UNCHANGED <<writing, out, peers, pc, mine>> /\ inbox'[s] = inbox[s]
    BY <1>4, <1>6 DEF TakeResult, NoSay
  <2>2. future'[s] = future[s] \/ future'[s] = "done"
    BY <1>1, <1>6 DEF TakeResult
  <2>3. s \in waiters /\ future'[s] = "pending" => s \in waiters'
    BY <1>1, <1>6 DEF TakeResult
  <2> QED BY <1>3, <2>1, <2>2, <2>3
<1>7. CASE Refuse(c) \/ Register(c)
  BY <1>1, <1>2, <1>4, <1>7 DEF Refuse, Register, Reply, forwards
<1>8. CASE Work(c) \/ Eof(c) \/ Finish(c)
  <2>1. UNCHANGED <<writing, out, peers, forwards>> /\ mine' \subseteq mine
    BY <1>8 DEF Work, Eof, Finish, NoSay, wire
  <2>2. pc'[s] = pc[s] /\ inbox'[s] = inbox[s]
    BY <1>1, <1>4, <1>8 DEF Work, Eof, Finish, At, wire
  <2> QED BY <1>3, <2>1, <2>2 DEF forwards
<1>9. CASE WorkDone(c)
  BY <1>1, <1>2, <1>9 DEF WorkDone, Reply, Waits, forwards
<1>10. CASE c \in Tools /\ Forward(c)
  <2>1. Read(c, {"submit"}) /\ UNCHANGED peers
    BY <1>10 DEF Forward
  <2>2. future'[s] = future[s] /\ (s \in waiters => s \in waiters')
    BY <1>1, <1>10 DEF Forward, forwards
  <2>3. CASE Say(c, c, Frame("refused"), "read")
    BY <1>1, <1>2, <1>4, <2>1, <2>2, <2>3
  <2>4. CASE bot # NoOne /\ Say(c, bot, Submit(c), "waiting")
    <3>1. bot \in Conns /\ Submit(c) \in Frames
      BY <1>10, <2>4 DEF Core, TypeOK
    <3> QED BY <1>1, <1>2, <1>4, <2>1, <2>2, <2>4, <3>1
  <2> QED BY <1>10, <2>3, <2>4 DEF Forward, Reply
<1>11. CASE c \in Tools /\ Answer(c)
  <2>1. /\ ~Waits(c) /\ UNCHANGED <<inbox, peers, waiters>> /\ future'[s] = future[s]
    BY <1>1, <1>11 DEF Answer, Waits
  <2>2. CASE Say(c, c, Frame("result"), "read")
    BY <1>1, <1>2, <2>1, <2>2
  <2>3. CASE At(c, "finally") /\ NoSay
    <3>1. UNCHANGED <<writing, out, mine>> /\ pc'[s] = pc[s]
      BY <1>1, <2>3 DEF At, NoSay
    <3> QED BY <1>3, <2>1, <3>1
  <2> QED BY <1>11, <2>2, <2>3 DEF Answer, Reply
<1>12. CASE c \in Tools /\ Timeout(c)
  <2>1. /\ ~Waits(c) /\ UNCHANGED <<inbox, peers>> /\ future'[s] = future[s]
        /\ s \in waiters => s \in waiters'
    BY <1>1, <1>12 DEF Timeout, Waits
  <2> QED BY <1>1, <1>2, <1>12, <2>1 DEF Timeout, Reply
<1> QED BY <1>5, <1>6, <1>7, <1>8, <1>9, <1>10, <1>11, <1>12 DEF HandlerStep

\* The handler of the tool itself.
LEMMA OwnHand ==
    ASSUME IpcAssumption, Core, NEW s \in Tools, HandOf(s), StoryOf(s), GreetingOf(s),
           HandlerStep(s)
    PROVE  HandOf(s)'
<1> USE FramesTyped
<1>1. /\ s \in Tasks /\ s \in Conns /\ Submit(s) \in Frames
      /\ {"busy", "finally", "off"} \subseteq Labels \ {"write", "drain"}
      /\ pc \in [Tasks -> Labels]
      /\ future \in [Tools -> {"none", "pending", "done", "failed"}]
  BY DEF Tasks, Conns, Labels, Core, TypeOK
<1>2. ASSUME NEW f \in Frames, NEW next \in {"read", "finally"}, Say(s, s, f, next), ~Waits(s),
             future'[s] = "pending" => s \in waiters', UNCHANGED peers, pc[s] # "new"
      PROVE  HandOf(s)'
  BY <1>1, <1>2, HandWrites DEF Writing, peers
<1>3. ASSUME NEW kinds, Read(s, kinds) PROVE "submit" \in kinds /\ ~Waits(s) /\ pc[s] # "new"
  <2>1. pc[s] = "read"
    BY <1>3 DEF Read
  <2>2. "submit" \in kinds
    BY <1>1, <1>3, ToolLine
  <2> QED BY <2>1, <2>2 DEF Waits
<1>4. CASE Begin(s)
  <2>1. CASE phase = "down"
    <3>1. /\ pc'[s] = "off" /\ s \notin mine' /\ UNCHANGED <<future, waiters, tool>>
          /\ pc[s] = "start"
      BY <1>1, <1>4, <2>1 DEF Begin, At, forwards, peers
    <3> QED BY <3>1 DEF HandOf, Forwarding, Waits
  <2>2. CASE phase # "down"
    <3>1. /\ Say(s, s, Frame("hello"), "read") /\ ~Waits(s) /\ pc[s] = "start"
          /\ UNCHANGED <<forwards, peers>>
      BY <1>4, <2>2 DEF Begin, Reply, Waits
    <3> QED BY <1>2, <3>1 DEF forwards, HandOf
  <2> QED BY <2>1, <2>2
<1>5. CASE Refuse(s)
  <2>1. PICK next \in {"read", "finally"} : Say(s, s, Frame("refused"), next)
    BY <1>5 DEF Refuse, Reply
  <2>2. ~Waits(s) /\ pc[s] # "new" /\ UNCHANGED <<forwards, peers>>
    BY <1>3, <1>5 DEF Refuse
  <2> QED BY <1>2, <2>1, <2>2 DEF forwards, HandOf
<1>6. CASE TakeResult(s) \/ Register(s) \/ Work(s)
  BY <1>3, <1>6 DEF TakeResult, Register, Work
<1>7. CASE WorkDone(s)
  BY <1>7 DEF WorkDone, HandOf
<1>8. CASE Eof(s)
  <2>1. pc'[s] = "finally" /\ UNCHANGED <<forwards, peers, wire>> /\ pc[s] = "read"
    BY <1>1, <1>8 DEF Eof, At
  <2> QED BY <2>1 DEF HandOf, InHand, Forwarding, Waits, forwards, peers
<1>9. CASE Finish(s)
  <2>1. pc'[s] = "off" /\ UNCHANGED <<forwards, peers>> /\ s \notin mine'
    BY <1>1, <1>9 DEF Finish, At
  <2> QED BY <2>1 DEF HandOf, Forwarding, Waits, forwards, peers
<1>10. CASE Forward(s)
  <2>1. ~Waits(s) /\ pc[s] # "new" /\ UNCHANGED peers
    BY <1>3, <1>10 DEF Forward
  <2>2. CASE Say(s, s, Frame("refused"), "read") /\ UNCHANGED forwards
    BY <1>2, <2>1, <2>2 DEF forwards, HandOf
  <2>3. CASE /\ bot # NoOne /\ Say(s, bot, Submit(s), "waiting")
             /\ waiters' = waiters \cup {s} /\ future' = [future EXCEPT ![s] = "pending"]
    <3>1. bot \in Conns /\ future'[s] = "pending" /\ s \in waiters'
      BY <1>1, <2>3 DEF Core, TypeOK
    <3> QED BY <1>1, <2>1, <2>3, <3>1, HandWrites DEF Writing, peers
  <2> QED BY <1>10, <2>2, <2>3 DEF Forward, Reply
<1>11. CASE Answer(s)
  <2>1. /\ pc[s] = "waiting" /\ ~Waits(s) /\ UNCHANGED peers /\ future'[s] = "none"
    BY <1>1, <1>11 DEF Answer, Waits
  <2>2. CASE Say(s, s, Frame("result"), "read")
    BY <1>2, <2>1, <2>2
  <2>3. CASE At(s, "finally")
    <3>1. pc'[s] = "finally"
      BY <1>1, <2>3 DEF At
    <3> QED BY <2>1, <3>1 DEF HandOf, InHand, Forwarding, Waits
  <2> QED BY <1>11, <2>2, <2>3 DEF Answer, Reply
<1>12. CASE Timeout(s)
  <2>1. /\ pc[s] = "waiting" /\ ~Waits(s) /\ UNCHANGED peers /\ future'[s] = "none"
        /\ Say(s, s, Frame("timeout"), "read")
    BY <1>1, <1>12 DEF Timeout, Waits, Reply
  <2> QED BY <1>2, <2>1
<1> QED BY <1>4, <1>5, <1>6, <1>7, <1>8, <1>9, <1>10, <1>11, <1>12 DEF HandlerStep

\* Whoever has the lock, and the publisher.
LEMMA WriterHands ==
    ASSUME IpcAssumption, Core, NEW s \in Tools, HandOf(s), WriterStep
    PROVE  HandOf(s)'
<1>1. PICK t \in Tasks : Write(t) \/ Drain(t)
  BY DEF WriterStep
<1>2. UNCHANGED <<inbox, forwards, peers>>
  BY <1>1 DEF Write, Drain
<1>3. /\ Waits(t) /\ job[t].to \in Conns /\ job[t].frame \in Frames /\ job[t].next \in GoOn
      /\ Writing(t, job[t].to, job[t].frame, job[t].next)
  BY <1>1 DEF Write, Drain, Waits, Core, Sensible, TypeOK, Jobs, Writing
<1>4. CASE t = s
  <2>1. job[s].next \in {"read", "waiting", "finally"} /\ pc[s] # "new"
    BY <1>3, <1>4 DEF HandOf, Waits
  <2> QED BY <1>2, <1>3, <1>4, <2>1, HandWrites DEF forwards, peers, HandOf
<1>5. CASE t # s
  <2>1. Writes(t, job[t].to, job[t].frame, job[t].next)
    BY <1>3, SayCore DEF Writing
  <2> QED BY <1>2, <1>5, <2>1, HandsWrite DEF forwards, peers
<1> QED BY <1>4, <1>5

LEMMA PublishHands ==
    ASSUME IpcAssumption, Core, NEW s \in Tools, HandOf(s), PublishBegin \/ PublisherStep
    PROVE  HandOf(s)'
<1>1. /\ Publisher \in Tasks /\ Publisher # s /\ Frame("message") \in Frames
      /\ "publish" \in GoOn /\ pc \in [Tasks -> Labels] /\ s \in Tasks
  BY FramesTyped DEF IpcAssumption, Tasks, Conns, GoOn, Core, TypeOK
<1>2. CASE PublishBegin \/ PublishEnd
  <2>1. UNCHANGED <<writing, forwards, wire, peers>> /\ pc'[s] = pc[s]
    BY <1>1, <1>2 DEF PublishBegin, PublishEnd
  <2> QED BY <2>1, HandStays DEF writing, forwards, wire, peers
<1>3. CASE \E c \in Conns : PublishNext(c)
  <2>1. PICK c \in Conns : PublishNext(c)
    BY <1>3
  <2>2. /\ Say(Publisher, c, Frame("message"), "publish") /\ ~Waits(Publisher)
        /\ UNCHANGED <<inbox, forwards, peers>>
    BY <2>1 DEF PublishNext, Waits
  <2>3. Writes(Publisher, c, Frame("message"), "publish")
    BY <1>1, <2>2, SayCore
  <2> QED BY <1>1, <2>2, <2>3, HandsWrite DEF forwards, peers
<1> QED BY <1>2, <1>3 DEF PublisherStep

LEMMA ServiceHands ==
    ASSUME Core, NEW s \in Tools, HandOf(s), ServiceStep \/ UNCHANGED vars
    PROVE  HandOf(s)'
<1>1. UNCHANGED <<writing, pc, inbox, out, peers>> /\ mine' \subseteq mine
  BY DEF ServiceStep, Start, StopBegin, StopStep, StopSweep, StopAbandoned, StopAgain, Sweep,
         StopEnd, StopClose, wire, vars
<1>2. /\ future'[s] = future[s] \/ future'[s] = "failed"
      /\ s \in waiters /\ future'[s] = "pending" => s \in waiters'
  BY DEF ServiceStep, Start, StopBegin, StopStep, StopSweep, StopAbandoned, StopAgain, Sweep,
         StopEnd, StopClose, forwards, vars, Core, TypeOK
<1> QED BY <1>1, <1>2, HandStays DEF writing, peers

LEMMA PeerHands ==
    ASSUME IpcAssumption, Core, NEW s \in Tools, HandOf(s), GreetingOf(s),
           \/ \E c \in Conns : Connect(c)
           \/ \E b \in Bots : BotCloses(b) \/ BotReads(b) \/ \E f \in BotFrames : BotSends(b, f)
           \/ \E t \in Tools : ToolAsks(t) \/ ToolReads(t) \/ ToolEof(t) \/ ToolGivesUp(t)
    PROVE  HandOf(s)'
<1>1. /\ s \in Conns /\ s \in Tasks /\ s \notin Bots /\ out \in [Conns -> Seq(Frames)]
      /\ inbox \in [Conns -> Seq(Frames)] /\ pc \in [Tasks -> Labels]
      /\ tool \in [Tools -> {"new", "hello", "asked", "answered", "failed"}]
  BY DEF IpcAssumption, Core, TypeOK, Conns, Tasks
<1>2. ASSUME NEW c \in Conns, Connect(c) PROVE HandOf(s)'
  <2>1. /\ UNCHANGED <<writing, forwards, inbox, out>> /\ mine' = mine \cup {c}
        /\ tool'[s] = IF s = c THEN "hello" ELSE tool[s]
        /\ pc'[s] = IF s = c THEN "start" ELSE pc[s]
    BY <1>1, <1>2 DEF Connect, At
  <2>2. CASE c = s
    <3>1. ~Forwarding(s)' /\ ~Waits(s)'
      BY <2>1, <2>2 DEF Forwarding, Waits
    <3> QED BY <2>1, <2>2, <3>1 DEF HandOf, forwards
  <2>3. CASE c # s
    BY <2>1, <2>3, HandStays DEF writing, forwards
  <2> QED BY <2>2, <2>3
<1>3. ASSUME NEW b \in Bots,
             BotCloses(b) \/ BotReads(b) \/ \E f \in BotFrames : BotSends(b, f)
      PROVE  HandOf(s)'
  <2>1. /\ UNCHANGED <<writing, forwards, pc, mine, tool>>
        /\ inbox'[s] = inbox[s] /\ out'[s] = out[s]
    BY <1>1, <1>3 DEF BotCloses, BotReads, BotSends, Close, peers
  <2> QED BY <2>1, HandStays DEF writing, forwards
<1>4. ASSUME NEW t \in Tools, ToolAsks(t) \/ ToolReads(t) \/ ToolEof(t) \/ ToolGivesUp(t)
      PROVE  HandOf(s)'
  <2>1. UNCHANGED <<writing, forwards, pc, mine>>
    BY <1>4 DEF ToolAsks, ToolReads, ToolEof, ToolGivesUp, Close
  <2>2. CASE t # s
    <3>1. tool'[s] = tool[s] /\ inbox'[s] = inbox[s] /\ out'[s] = out[s]
      BY <1>1, <1>4, <2>2 DEF ToolAsks, ToolReads, ToolEof, ToolGivesUp, Close
    <3> QED BY <2>1, <3>1, HandStays DEF writing, forwards
  <2>3. CASE t = s /\ tool'[s] # "asked"
    <3>1. inbox'[s] = inbox[s]
      BY <1>1, <1>4, <2>3 DEF ToolAsks, ToolReads, ToolEof, ToolGivesUp, Close
    <3> QED BY <2>1, <2>3, <3>1, HandStays DEF writing, forwards
  <2>4. CASE t = s /\ tool'[s] = "asked"
    <3>1. /\ tool[s] = "hello" /\ out[s] # <<>>
          /\ inbox' = [inbox EXCEPT ![s] = Append(@, Submit(s))]
      BY <1>1, <1>4, <2>4 DEF ToolAsks, ToolReads, ToolEof, ToolGivesUp
    <3>2. pc[s] \notin {"new", "start"}
      BY <3>1 DEF GreetingOf, Hoping, Unmet
    <3>3. inbox[s] \in Seq(Frames) /\ inbox'[s] = Append(inbox[s], Submit(s))
      BY <1>1, <3>1
    <3>4. inbox'[s] # <<>>
      BY <3>3
    <3> QED BY <2>1, <3>2, <3>4 DEF HandOf, InHand, Forwarding, Waits, writing, forwards
  <2> QED BY <2>2, <2>3, <2>4
<1> QED BY <1>2, <1>3, <1>4

\* Every step leaves a request that was asked in somebody's hands.
LEMMA HandsInvariant == ASSUME IpcAssumption PROVE Spec => []Hands
<1>1. Init => Hands
  <2> SUFFICES ASSUME Init, NEW s \in Tools PROVE HandOf(s)
    BY DEF Hands
  <2>1. pc[s] = "new" /\ tool[s] = "new" /\ future[s] = "none" /\ mine = {}
    BY DEF Init, IpcAssumption, Tasks, Conns
  <2> QED BY <2>1 DEF HandOf, Forwarding, Waits
<1>2. Core /\ Story /\ Greeting /\ Hands /\ [Next]_vars => Hands'
  <2> SUFFICES ASSUME Core, Story, Greeting, Hands, [Next]_vars, NEW s \in Tools
               PROVE  HandOf(s)'
    BY DEF Hands
  <2>1. StoryOf(s) /\ GreetingOf(s) /\ HandOf(s)
    BY DEF Story, Greeting, Hands
  <2>2. ASSUME NEW c \in Conns, HandlerStep(c) PROVE HandOf(s)'
    BY <2>1, <2>2, OwnHand, OthersHand
  <2>3. CASE WriterStep
    BY <2>1, <2>3, WriterHands
  <2>4. CASE PublishBegin \/ PublisherStep
    BY <2>1, <2>4, PublishHands
  <2>5. CASE ServiceStep \/ UNCHANGED vars
    BY <2>1, <2>5, ServiceHands
  <2>6. CASE \/ \E c \in Conns : Connect(c)
             \/ \E b \in Bots : BotCloses(b) \/ BotReads(b) \/ \E f \in BotFrames : BotSends(b, f)
             \/ \E t \in Tools : ToolAsks(t) \/ ToolReads(t) \/ ToolEof(t) \/ ToolGivesUp(t)
    BY <2>1, <2>6, PeerHands
  <2> QED BY <2>2, <2>3, <2>4, <2>5, <2>6 DEF Next
<1> QED BY <1>1, <1>2, CoreInvariant, StoryInvariant, GreetingInvariant, PTL DEF Spec

\* A tool that has asked, is still connected and has nothing to read is not
\* forgotten: its request is unread in front of a handler that lives, or waits
\* for a result or a stop that can still come, or its answer is in the queue
\* for the lock, or its handler is about to close the connection.
AskedIsInHand ==
    \A t \in Tools : tool[t] = "asked" /\ out[t] = <<>> /\ t \in mine =>
        \/ inbox[t] = <<Submit(t)>> /\ pc[t] \in {"read", "write", "drain"}
        \/ /\ Forwarding(t) /\ future[t] # "none"
           /\ future[t] = "pending" => t \in waiters
        \/ pc[t] = "write" /\ job[t].to = t /\ \E i \in 1..Len(queue) : queue[i] = t
        \/ pc[t] = "finally"

\* For any number of connections no request of the tool is stranded: what
\* AskedIsAnswered has to rely on in every state (adapter.py:676-771, :773-792).
THEOREM NobodyIsForgotten == ASSUME IpcAssumption PROVE Spec => []AskedIsInHand
<1>1. Core /\ Story /\ Queued /\ Hands => AskedIsInHand
  <2> SUFFICES ASSUME Core, Story, Queued, Hands, NEW t \in Tools,
                      tool[t] = "asked", out[t] = <<>>, t \in mine
               PROVE  \/ inbox[t] = <<Submit(t)>> /\ pc[t] \in {"read", "write", "drain"}
                      \/ /\ Forwarding(t) /\ future[t] # "none"
                         /\ future[t] = "pending" => t \in waiters
                      \/ /\ pc[t] = "write" /\ job[t].to = t
                         /\ \E i \in 1..Len(queue) : queue[i] = t
                      \/ pc[t] = "finally"
    BY DEF AskedIsInHand
  <2>1. HandOf(t) /\ StoryOf(t) /\ t \in Tasks /\ pc[t] \in Labels
    BY DEF Hands, Story, Tasks, Conns, Core, TypeOK
  <2>2. CASE Forwarding(t) \/ pc[t] = "finally"
    BY <2>1, <2>2 DEF HandOf
  <2>3. CASE pc[t] = "write" /\ job[t].to = t
    BY <2>1, <2>3 DEF Queued, Waits
  <2>4. CASE inbox[t] # <<>> /\ ~Forwarding(t)
    BY <2>1, <2>4 DEF HandOf, StoryOf, Labels, Forwarding
  <2> QED BY <2>1, <2>2, <2>3, <2>4 DEF HandOf, InHand
<1> QED BY <1>1, CoreInvariant, StoryInvariant, GreetingInvariant, HandsInvariant, PTL

-----------------------------------------------------------------------------
(* What a tool can take for its answer *)

\* The kinds of frames that may follow a tool's request.
Known == {"result", "refused", "timeout"} \cup {k \in {"message"} : heard > 0}

\* On the wire to s everything but its hello is of these kinds, and so is what
\* others, and its handler once it has asked, still have to write to it.
Since(s) == IF tool[s] = "asked" THEN 1 ELSE 2
MailIn(s) ==
    /\ \A k \in 1..Len(out[s]) : k >= Since(s) => out[s][k].kind \in Known
    /\ \A u \in Tasks : pc[u] = "write" /\ job[u].to = s =>
           job[u].frame.kind \in Known \/ (u = s /\ tool[s] # "asked")
MailOf(s) ==
    /\ bot # s /\ answer[s] \in {"none"} \cup Known
    /\ tool[s] \in {"new", "hello", "asked"} => MailIn(s)
Mail == (todo # {} => heard > 0) /\ \A s \in Tools : MailOf(s)

\* A step after which nobody waits to write that did not.
LEMMA MailStays ==
    ASSUME NEW s \in Tools, MailOf(s), bot' # s, answer'[s] = answer[s], Known \subseteq Known',
           tool'[s] = tool[s] \/ (tool[s] = "new" /\ tool'[s] = "hello"),
           out'[s] = out[s],
           \A u \in Tasks : pc'[u] = "write" => pc[u] = "write" /\ job'[u] = job[u]
    PROVE  MailOf(s)'
<1>1. ASSUME tool'[s] \in {"new", "hello", "asked"} PROVE MailIn(s)'
  <2>1. MailIn(s) /\ Since(s)' = Since(s) /\ (tool'[s] # "asked" <=> tool[s] # "asked")
    BY <1>1 DEF MailOf, Since
  <2> QED BY <2>1 DEF MailIn
<1> QED BY <1>1 DEF MailOf

\* A write, to s only of what it may get, or of its hello.
LEMMA MailWrites ==
    ASSUME Core, NEW s \in Tools, MailOf(s), bot' # s, UNCHANGED <<answer, tool, heard>>,
           NEW t \in Tasks, NEW c \in Conns, NEW f \in Frames, NEW next \in GoOn,
           Writes(t, c, f, next),
           c = s /\ tool[s] \in {"new", "hello", "asked"} =>
               f.kind \in Known \/ (t = s /\ tool[s] # "asked" /\ out[s] = <<>>)
    PROVE  MailOf(s)'
<1>1. /\ Known' = Known /\ Since(s)' = Since(s) /\ s \in Conns
      /\ out \in [Conns -> Seq(Frames)] /\ job \in [Tasks -> Jobs] /\ pc \in [Tasks -> Labels]
  BY DEF Known, Since, Conns, Core, TypeOK
<1> SUFFICES ASSUME tool[s] \in {"new", "hello", "asked"} PROVE MailIn(s)'
  BY <1>1 DEF MailOf
<1>2. MailIn(s)
  BY DEF MailOf
<1>3. ASSUME NEW k \in 1..Len(out'[s]), k >= Since(s) PROVE out'[s][k].kind \in Known
  <2>1. CASE out'[s] = out[s]
    BY <1>2, <1>3, <2>1 DEF MailIn
  <2>2. CASE c = s /\ out'[s] = Append(out[s], f)
    <3>1. /\ Len(out'[s]) = Len(out[s]) + 1 /\ Len(out[s]) \in Nat
          /\ out'[s][Len(out[s]) + 1] = f
          /\ \A i \in 1..Len(out[s]) : out'[s][i] = out[s][i]
      BY <1>1, <2>2, AppendProperties
    <3>2. CASE k = Len(out[s]) + 1
      <4>1. ~(tool[s] # "asked" /\ out[s] = <<>>)
        BY <1>3, <3>2 DEF Since
      <4> QED BY <2>2, <3>1, <3>2, <4>1
    <3>3. CASE k \in 1..Len(out[s])
      BY <1>2, <1>3, <3>1, <3>3 DEF MailIn
    <3> QED BY <3>1, <3>2, <3>3
  <2> QED BY <1>1, <2>1, <2>2 DEF Writes, Puts
<1>4. ASSUME NEW u \in Tasks, pc'[u] = "write", job'[u].to = s
      PROVE  job'[u].frame.kind \in Known \/ (u = s /\ tool[s] # "asked")
  <2>1. CASE u = t
    <3>1. job'[t] = [to |-> c, frame |-> f, next |-> next]
      BY <1>1, <1>4, <2>1 DEF Writes
    <3> QED BY <1>4, <2>1, <3>1
  <2>2. CASE u # t
    <3>1. pc'[u] = pc[u] /\ job'[u] = job[u]
      BY <1>1, <2>2 DEF Writes, Puts
    <3> QED BY <1>2, <1>4, <3>1 DEF MailIn
  <2> QED BY <2>1, <2>2
<1> QED BY <1>1, <1>3, <1>4 DEF MailIn

LEMMA HandlerMail ==
    ASSUME IpcAssumption, Core, Story, NEW s \in Tools, MailOf(s), GreetingOf(s), HandOf(s),
           NEW c \in Conns, HandlerStep(c)
    PROVE  MailOf(s)'
<1> USE FramesTyped
<1>1. /\ c \in Tasks /\ s \in Conns /\ s # NoOne /\ bot # s
      /\ {"read", "finally", "waiting"} \subseteq GoOn
      /\ pc \in [Tasks -> Labels] /\ bot \in Conns \cup {NoOne}
  BY DEF IpcAssumption, Tasks, Conns, GoOn, Core, TypeOK, MailOf
<1>2. UNCHANGED <<answer, tool, heard>> /\ Known' = Known
  BY DEF HandlerStep, Begin, TakeResult, Refuse, Register, Work, WorkDone, Eof, Finish, Forward,
         Answer, Timeout, peers, round, Known
<1>3. ASSUME NEW kinds, Read(c, kinds)
      PROVE  ~Waits(c) /\ (c = s => "submit" \in kinds)
  BY <1>3, ToolLine DEF Story
<1>4. ASSUME NEW to \in Conns, NEW f \in Frames, NEW next \in GoOn, Say(c, to, f, next),
             ~Waits(c), bot' # s,
             to = s /\ tool[s] \in {"new", "hello", "asked"} =>
                 f.kind \in Known \/ (c = s /\ tool[s] # "asked" /\ out[s] = <<>>)
      PROVE  MailOf(s)'
  <2>1. Writes(c, to, f, next)
    BY <1>1, <1>4, SayCore
  <2> QED BY <1>1, <1>2, <1>4, <2>1, MailWrites
<1>5. ASSUME NEW kind \in {"result", "refused", "timeout"}, NEW next \in {"read", "finally"},
             Reply(c, kind, next), ~Waits(c), bot' = bot
      PROVE  MailOf(s)'
  <2>1. Frame(kind) \in Frames /\ Frame(kind).kind \in Known /\ next \in GoOn
    BY <1>1 DEF Frame, Known
  <2> QED BY <1>1, <1>4, <1>5, <2>1 DEF Reply
<1>6. ASSUME bot' # s, UNCHANGED <<writing, out>>,
             pc' = pc \/ \E l \in {"off", "busy", "finally"} : pc' = [pc EXCEPT ![c] = l]
      PROVE  MailOf(s)'
  BY <1>1, <1>2, <1>6, MailStays DEF writing
<1>7. CASE Begin(c)
  <2>1. CASE phase = "down"
    BY <1>1, <1>6, <1>7, <2>1 DEF Begin, At
  <2>2. CASE phase # "down"
    <3>1. Say(c, c, Frame("hello"), "read") /\ ~Waits(c) /\ bot' = bot /\ pc[c] = "start"
      BY <1>7, <2>2 DEF Begin, Reply, Waits
    <3>2. c = s => tool[s] # "asked" /\ (tool[s] \in {"new", "hello"} => out[s] = <<>>)
      BY <3>1 DEF HandOf, GreetingOf, Hoping, Unmet
    <3> QED BY <1>1, <1>4, <3>1, <3>2
  <2> QED BY <2>1, <2>2
<1>8. CASE Refuse(c)
  BY <1>3, <1>5, <1>8 DEF Refuse, registry
<1>9. CASE Register(c)
  BY <1>1, <1>3, <1>4, <1>9 DEF Register, Reply
<1>10. CASE TakeResult(c) \/ Work(c) \/ Eof(c) \/ Finish(c)
  BY <1>1, <1>6, <1>10 DEF TakeResult, Work, Eof, Finish, NoSay, At, registry, wire
<1>11. CASE WorkDone(c)
  BY <1>1, <1>4, <1>11 DEF WorkDone, Reply, Waits, registry, HandOf
<1>12. CASE c \in Tools /\ Forward(c)
  <2>1. ~Waits(c) /\ bot' = bot
    BY <1>3, <1>12 DEF Forward, registry
  <2>2. CASE Reply(c, "refused", "read")
    BY <1>5, <2>1, <2>2
  <2>3. CASE bot # NoOne /\ Say(c, bot, Submit(c), "waiting")
    BY <1>1, <1>4, <1>12, <2>1, <2>3
  <2> QED BY <1>12, <2>2, <2>3 DEF Forward
<1>13. CASE c \in Tools /\ Answer(c)
  <2>1. ~Waits(c) /\ bot' = bot
    BY <1>13 DEF Answer, registry, Waits
  <2>2. CASE Reply(c, "result", "read")
    BY <1>5, <2>1, <2>2
  <2>3. CASE At(c, "finally") /\ NoSay
    BY <1>1, <1>6, <2>1, <2>3 DEF At, NoSay
  <2> QED BY <1>13, <2>2, <2>3 DEF Answer
<1>14. CASE c \in Tools /\ Timeout(c)
  BY <1>5, <1>14 DEF Timeout, registry, Waits
<1> QED BY <1>7, <1>8, <1>9, <1>10, <1>11, <1>12, <1>13, <1>14 DEF HandlerStep

LEMMA WriterMail ==
    ASSUME IpcAssumption, Core, NEW s \in Tools, MailOf(s), GreetingOf(s), WriterStep
    PROVE  MailOf(s)'
<1>1. PICK t \in Tasks : Write(t) \/ Drain(t)
  BY DEF WriterStep
<1>2. /\ UNCHANGED <<answer, tool, heard, bot>> /\ Known' = Known /\ s \in Tasks /\ bot # s
      /\ job[t].to \in Conns /\ job[t].frame \in Frames /\ job[t].next \in GoOn
  BY <1>1 DEF Write, Drain, Waits, Core, Sensible, TypeOK, Jobs, peers, registry, Known, Tasks,
              Conns, MailOf
<1>3. Writes(t, job[t].to, job[t].frame, job[t].next)
  BY <1>1, <1>2, SayCore
<1>4. CASE Write(t)
  <2>1. ASSUME job[t].to = s, tool[s] \in {"new", "hello", "asked"}
        PROVE  job[t].frame.kind \in Known \/ (t = s /\ tool[s] # "asked" /\ out[s] = <<>>)
    <3>1. job[t].frame.kind \in Known \/ (t = s /\ tool[s] # "asked")
      BY <1>4, <2>1 DEF Write, MailOf, MailIn
    <3>2. t = s /\ tool[s] # "asked" => out[s] = <<>>
      BY <1>4, <2>1 DEF Write, GreetingOf, Hoping
    <3> QED BY <3>1, <3>2
  <2> QED BY <1>2, <1>3, <2>1, MailWrites
<1>5. CASE Drain(t)
  <2>1. out' = out /\ \A u \in Tasks : pc'[u] = "write" => pc[u] = "write" /\ job'[u] = job[u]
    <3>1. \E l \in GoOn : pc' = [pc EXCEPT ![t] = l]
      BY <1>2, <1>5 DEF Drain, WriteFails, At, GoOn
    <3> QED BY <1>5, <3>1 DEF Drain, GoOn, Core, TypeOK
  <2> QED BY <1>2, <2>1, MailStays
<1> QED BY <1>1, <1>4, <1>5

LEMMA PublishMail ==
    ASSUME IpcAssumption, Core, todo # {} => heard > 0, NEW s \in Tools, MailOf(s),
           PublishBegin \/ PublisherStep
    PROVE  MailOf(s)'
<1>1. /\ Publisher \in Tasks /\ Frame("message") \in Frames /\ "publish" \in GoOn
      /\ heard \in Nat /\ pc \in [Tasks -> Labels] /\ UNCHANGED <<answer, tool, bot>> /\ bot # s
  BY FramesTyped DEF Tasks, GoOn, Core, TypeOK, IpcAssumption, PublishBegin, PublisherStep,
                     PublishEnd, PublishNext, registry, peers, MailOf
<1>2. CASE PublishBegin \/ PublishEnd
  <2>1. /\ UNCHANGED <<writing, out>> /\ heard' \in {heard, heard + 1}
        /\ \E l \in {"publish", "off"} : pc' = [pc EXCEPT ![Publisher] = l]
    BY <1>2 DEF PublishBegin, PublishEnd, wire
  <2>2. Known \subseteq Known'
    BY <1>1, <2>1 DEF Known
  <2> QED BY <1>1, <2>1, <2>2, MailStays DEF writing
<1>3. CASE \E c \in Conns : PublishNext(c)
  <2>1. PICK c \in Conns : PublishNext(c)
    BY <1>3
  <2>2. /\ Say(Publisher, c, Frame("message"), "publish") /\ ~Waits(Publisher)
        /\ UNCHANGED heard /\ heard > 0
    BY <2>1 DEF PublishNext, Waits
  <2>3. Writes(Publisher, c, Frame("message"), "publish")
    BY <1>1, <2>2, SayCore
  <2>4. Frame("message").kind \in Known
    BY <2>2 DEF Known, Frame
  <2> QED BY <1>1, <2>2, <2>3, <2>4, MailWrites
<1> QED BY <1>2, <1>3 DEF PublisherStep

LEMMA PeerMail ==
    ASSUME IpcAssumption, Core, NEW s \in Tools, MailOf(s), GreetingOf(s),
           \/ \E b \in Bots : BotCloses(b) \/ BotReads(b) \/ \E f \in BotFrames : BotSends(b, f)
           \/ \E t \in Tools : ToolAsks(t) \/ ToolReads(t) \/ ToolEof(t) \/ ToolGivesUp(t)
    PROVE  MailOf(s)'
<1>1. /\ UNCHANGED <<writing, pc, bot, heard>> /\ Known' = Known /\ bot # s
      /\ s \in Conns /\ s \notin Bots /\ s \in Tasks /\ out \in [Conns -> Seq(Frames)]
      /\ tool \in [Tools -> {"new", "hello", "asked", "answered", "failed"}]
      /\ answer \in [Tools -> {"none"} \cup {f.kind : f \in Frames}]
  BY DEF BotCloses, BotReads, BotSends, ToolAsks, ToolReads, ToolEof, ToolGivesUp, Close,
         registry, round, Known, MailOf, IpcAssumption, Core, TypeOK, Conns, Tasks
<1>2. CASE tool'[s] = tool[s] /\ answer'[s] = answer[s] /\ out'[s] = out[s]
  BY <1>1, <1>2, MailStays DEF writing
<1>3. ASSUME NEW b \in Bots, BotCloses(b) \/ BotReads(b) \/ \E f \in BotFrames : BotSends(b, f)
      PROVE  tool'[s] = tool[s] /\ answer'[s] = answer[s] /\ out'[s] = out[s]
  BY <1>1, <1>3 DEF BotCloses, BotReads, BotSends, Close, peers
<1>4. ASSUME NEW t \in Tools, ToolAsks(t) \/ ToolReads(t) \/ ToolEof(t) \/ ToolGivesUp(t)
      PROVE  MailOf(s)'
  <2>1. CASE t # s
    <3>1. tool'[s] = tool[s] /\ answer'[s] = answer[s] /\ out'[s] = out[s]
      BY <1>1, <1>4, <2>1 DEF ToolAsks, ToolReads, ToolEof, ToolGivesUp, Close
    <3> QED BY <1>2, <3>1
  <2>2. CASE t = s /\ tool'[s] # "asked"
    <3>1. tool'[s] \in {"answered", "failed"}
      BY <1>1, <1>4, <2>2 DEF ToolAsks, ToolReads, ToolEof, ToolGivesUp
    <3>2. CASE answer'[s] = answer[s]
      BY <1>1, <3>1, <3>2 DEF MailOf
    <3>3. CASE ToolReads(s)
      <4>1. out[s] # <<>> /\ tool[s] = "asked" /\ answer'[s] = Head(out[s]).kind
        BY <1>1, <3>3 DEF ToolReads
      <4>2. Head(out[s]) = out[s][1] /\ 1 \in 1..Len(out[s])
        BY <1>1, <4>1, EmptySeq
      <4>3. Head(out[s]).kind \in Known
        BY <4>1, <4>2 DEF MailOf, MailIn, Since
      <4> QED BY <1>1, <3>1, <4>1, <4>3 DEF MailOf
    <3> QED BY <1>4, <2>2, <3>2, <3>3 DEF ToolAsks, ToolEof, ToolGivesUp
  <2>3. CASE t = s /\ tool'[s] = "asked"
    <3>1. /\ tool[s] = "hello" /\ out[s] # <<>> /\ out' = [out EXCEPT ![s] = Tail(@)]
          /\ answer' = answer
      BY <1>1, <1>4, <2>3 DEF ToolAsks, ToolReads, ToolEof, ToolGivesUp
    <3>2. /\ Len(out'[s]) = Len(out[s]) - 1 /\ Len(out[s]) \in Nat \ {0}
          /\ \A k \in 1..Len(out'[s]) : out'[s][k] = out[s][k + 1]
      BY <1>1, <3>1, EmptySeq, HeadTailProperties
    <3>3. MailIn(s) /\ pc[s] # "write"
      BY <3>1 DEF MailOf, GreetingOf, Hoping
    <3>4. \A k \in 1..Len(out'[s]) : out'[s][k].kind \in Known
      <4> SUFFICES ASSUME NEW k \in 1..Len(out'[s]) PROVE out'[s][k].kind \in Known
        OBVIOUS
      <4>1. k + 1 \in 1..Len(out[s]) /\ k + 1 >= Since(s)
        BY <3>1, <3>2 DEF Since
      <4> QED BY <3>2, <3>3, <4>1 DEF MailIn
    <3>5. \A u \in Tasks : pc[u] = "write" /\ job[u].to = s => job[u].frame.kind \in Known
      BY <3>3 DEF MailIn
    <3> QED BY <1>1, <3>1, <3>4, <3>5 DEF MailOf, MailIn, writing
  <2> QED BY <2>1, <2>2, <2>3
<1> QED BY <1>2, <1>3, <1>4

\* The kinds of what is on its way to a tool.
LEMMA MailInvariant == ASSUME IpcAssumption PROVE Spec => []Mail
<1>1. Init => Mail
  <2> SUFFICES ASSUME Init PROVE Mail
    OBVIOUS
  <2>1. \A s \in Tools : s # NoOne /\ out[s] = <<>> /\ answer[s] = "none"
    BY DEF Init, IpcAssumption, Tasks, Conns
  <2>2. bot = NoOne /\ todo = {} /\ \A u \in Tasks : pc[u] # "write"
    BY DEF Init
  <2> QED BY <2>1, <2>2 DEF Mail, MailOf, MailIn
<1>2. Core /\ Story /\ Greeting /\ Hands /\ Mail /\ [Next]_vars => Mail'
  <2> SUFFICES ASSUME Core, Story, Greeting, Hands, Mail, [Next]_vars PROVE Mail'
    OBVIOUS
  <2>1. (todo # {} => heard > 0)'
    <3>1. heard \in Nat /\ (todo # {} => heard > 0)
      BY DEF Core, TypeOK, IpcAssumption, Mail
    <3>2. \/ PublishBegin /\ heard' = heard + 1
          \/ todo' \subseteq todo /\ heard' = heard
      BY DEF Next, HandlerStep, Begin, TakeResult, Refuse, Register, Work, WorkDone, Eof, Finish,
             Forward, Answer, Timeout, Connect, WriterStep, Write, Drain, PublishBegin,
             PublisherStep, PublishEnd, PublishNext,
             ServiceStep, Start, StopBegin, StopStep, StopSweep, StopAbandoned, StopAgain, Sweep,
             StopClose, StopEnd, BotCloses, BotReads, BotSends, ToolAsks, ToolReads, ToolEof,
             ToolGivesUp, round, vars
    <3> QED BY <3>1, <3>2
  <2> SUFFICES ASSUME NEW s \in Tools PROVE MailOf(s)'
    BY <2>1 DEF Mail
  <2>2. MailOf(s) /\ GreetingOf(s) /\ HandOf(s) /\ (todo # {} => heard > 0)
    BY DEF Mail, Greeting, Hands
  <2>3. ASSUME NEW c \in Conns, HandlerStep(c) PROVE MailOf(s)'
    BY <2>2, <2>3, HandlerMail
  <2>4. CASE WriterStep
    BY <2>2, <2>4, WriterMail
  <2>5. CASE PublishBegin \/ PublisherStep
    BY <2>2, <2>5, PublishMail
  <2>6. CASE ServiceStep \/ UNCHANGED vars
    <3>1. UNCHANGED <<writing, pc, out, tool, answer, heard>> /\ bot' \in {bot, NoOne} /\ s # NoOne
      BY <2>6 DEF ServiceStep, Start, StopBegin, StopStep, StopSweep, StopAbandoned, StopAgain,
            Sweep, StopClose, StopEnd, registry, round, wire, peers, vars, IpcAssumption,
            Tasks, Conns
    <3> QED BY <2>2, <3>1, MailStays DEF writing, Known, MailOf
  <2>7. ASSUME NEW c \in Conns, Connect(c) PROVE MailOf(s)'
    <3>1. /\ UNCHANGED <<writing, out, answer, heard, bot>> /\ pc' = [pc EXCEPT ![c] = "start"]
          /\ tool'[s] = tool[s] \/ (tool[s] = "new" /\ tool'[s] = "hello")
      BY <2>2, <2>7 DEF Connect, At, registry, round, GreetingOf
    <3>2. \A u \in Tasks : pc'[u] = "write" => pc[u] = "write" /\ job'[u] = job[u]
      BY <3>1 DEF Core, TypeOK, writing
    <3> QED BY <2>2, <3>1, <3>2, MailStays DEF Known, MailOf
  <2>8. CASE \/ \E b \in Bots : BotCloses(b) \/ BotReads(b) \/ \E f \in BotFrames : BotSends(b, f)
             \/ \E t \in Tools : ToolAsks(t) \/ ToolReads(t) \/ ToolEof(t) \/ ToolGivesUp(t)
    BY <2>2, <2>8, PeerMail
  <2> QED BY <2>3, <2>4, <2>5, <2>6, <2>7, <2>8 DEF Next
<1> QED BY <1>1, <1>2, CoreInvariant, StoryInvariant, GreetingInvariant, HandsInvariant, PTL
        DEF Spec

\* Whatever a tool returns is an answer to it or a radio message, and while no
\* message has been published it is the response to its request.
OnlyMessages ==
    /\ heard = 0 => ResponseIsForRequest
    /\ \A t \in Tools : answer[t] \in {"none", "result", "refused", "timeout", "message"}

\* For any number of connections only a radio message can be taken for the
\* response: until the adapter has published one, what round_trip() returns is
\* the result of its request, its refusal or its timeout, and never the hello of
\* its own connection or a frame meant for another (ipc.py:83-105).
THEOREM OnlyMessagesIntrude ==
    ASSUME IpcAssumption
    PROVE  Spec => []OnlyMessages
<1>1. Mail => OnlyMessages
  BY DEF Mail, MailOf, Known, ResponseIsForRequest, OnlyMessages
<1> QED BY <1>1, MailInvariant, PTL
=============================================================================
