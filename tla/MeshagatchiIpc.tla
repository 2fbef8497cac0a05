---------------------------- MODULE MeshagatchiIpc ----------------------------
(***************************************************************************)
(* The Unix-socket service of the platform adapter for the Meshagatchi     *)
(* sidecar (adapter.py:595-877) and the one-shot client behind the         *)
(* meshagatchi_submit_event tool (ipc.py:83).                              *)
(*                                                                         *)
(* The adapter runs on one asyncio loop: a step is what a coroutine does   *)
(* from one await to the next.  Its coroutines are one handler per         *)
(* connection, the publisher of inbound radio messages, and connect() and  *)
(* disconnect(), which start and stop the service.  All of them write      *)
(* through one asyncio.Lock, which is granted in the order of the requests *)
(* and is held while drain() waits for the reader.  A bot is a connection  *)
(* of the sidecar, a tool one call of the event tool; a tool's fresh uuid4 *)
(* request id is the tool itself.                                          *)
(***************************************************************************)
EXTENDS Naturals, Sequences, FiniteSets

CONSTANTS
    Bots, Tools,      \* connections, each made once (bound)
    Publisher,        \* the coroutine of _publish_meshagatchi()
    HighWater,        \* frames a peer may leave unread before drain() waits
    QueueLimit,       \* the 32 of _forward_meshagatchi()
    MaxInbox,         \* bound: frames of a peer not yet read by its handler
    MaxMessages,      \* bound: radio messages published
    MaxStops,         \* bound: times the service is stopped
    WaitsForClients,  \* whether Server.wait_closed() waits for connections:
                      \* from Python 3.12 on
    BotKinds,         \* what a bot sends beside results: "register", "work"
    NoOne

Conns == Bots \cup Tools
Tasks == Conns \cup {Publisher}

ASSUME IpcAssumption ==
    /\ Bots \cap Tools = {} /\ Publisher \notin Conns /\ NoOne \notin Tasks
    /\ HighWater \in Nat \ {0} /\ QueueLimit \in Nat \ {0} /\ MaxInbox \in Nat \ {0}
    /\ MaxMessages \in Nat /\ MaxStops \in Nat
    /\ WaitsForClients \subseteq BOOLEAN /\ WaitsForClients # {}
    /\ BotKinds \subseteq {"register", "work"}

VARIABLES
    phase,    \* of the service; "cut": its last stop was abandoned
    doomed,   \* clients that _stop_meshagatchi_ipc() has not closed yet
    clients,  \* _ipc_clients
    bot,      \* _ipc_bot_writer
    policy,   \* _ipc_meshagatchi_policy is not None
    waiters,  \* the keys of _ipc_forward_waiters
    future,   \* the future of each request
    queue,    \* coroutines that hold (the first) or want the write lock
    job,      \* the write each of them is at
    pc,       \* where each coroutine is
    todo, stale,   \* the publisher's clients: still to be told, failed
    mine, theirs,  \* connections the adapter, and the peer, has not closed
    inbox, out,    \* frames on their way to a handler, and to its peer
    tool,     \* progress of round_trip()
    answer,   \* kind of the frame it returned
    owed,     \* requests the sidecar has read and not answered
    applied,  \* history: requests the sidecar has read
    heard, stops,  \* messages published, stops begun
    waits          \* the version of Python, see WaitsForClients

service == <<phase, doomed, stops, waits>>
registry == <<clients, bot, policy>>
forwards == <<waiters, future>>
writing == <<queue, job>>
round == <<todo, stale, heard>>
wire == <<mine, theirs, inbox, out>>
peers == <<tool, answer, owed, applied>>
vars == <<service, registry, forwards, writing, pc, round, wire, peers>>

Frame(kind) == [kind |-> kind, of |-> NoOne]
Submit(t)   == [kind |-> "submit", of |-> t]
Result(t)   == [kind |-> "result", of |-> t]

Frames == [kind : {"hello", "message", "reply", "refused", "timeout",
                   "submit", "result", "register", "work"},
           of : Tools \cup {NoOne}]
Labels == {"new", "off", "start", "read", "write", "drain", "waiting", "busy", "finally", "publish"}
Jobs == [to : Conns \cup {NoOne}, frame : Frames, next : Labels]

TypeOK ==
    /\ phase \in {"down", "up", "closing", "sweeping", "cut"}
    /\ doomed \subseteq Conns /\ clients \subseteq Conns
    /\ bot \in Conns \cup {NoOne} /\ policy \in BOOLEAN
    /\ waiters \subseteq Tools
    /\ future \in [Tools -> {"none", "pending", "done", "failed"}]
    /\ queue \in Seq(Tasks)
    /\ job \in [Tasks -> Jobs] /\ pc \in [Tasks -> Labels]
    /\ todo \subseteq Conns /\ stale \subseteq Conns
    /\ mine \subseteq Conns /\ theirs \subseteq Conns
    /\ inbox \in [Conns -> Seq(Frames)] /\ out \in [Conns -> Seq(Frames)]
    /\ tool \in [Tools -> {"new", "hello", "asked", "answered", "failed"}]
    /\ answer \in [Tools -> {"none"} \cup {f.kind : f \in Frames}]
    /\ owed \subseteq Tools /\ applied \subseteq Tools
    /\ heard \in 0..MaxMessages /\ stops \in 0..MaxStops /\ waits \in BOOLEAN

NoJob == [to |-> NoOne, frame |-> Frame("hello"), next |-> "off"]

Init ==
    /\ phase = "down" /\ doomed = {}
    /\ clients = {} /\ bot = NoOne /\ policy = FALSE
    /\ waiters = {} /\ future = [t \in Tools |-> "none"]
    /\ queue = <<>> /\ job = [t \in Tasks |-> NoJob]
    /\ pc = [t \in Tasks |-> IF t = Publisher THEN "off" ELSE "new"]
    /\ todo = {} /\ stale = {}
    /\ mine = {} /\ theirs = {}
    /\ inbox = [c \in Conns |-> <<>>] /\ out = [c \in Conns |-> <<>>]
    /\ tool = [t \in Tools |-> "new"] /\ answer = [t \in Tools |-> "none"]
    /\ owed = {} /\ applied = {}
    /\ heard = 0 /\ stops = 0 /\ waits \in WaitsForClients

-----------------------------------------------------------------------------
(* _write_meshagatchi(): ask for the lock, write, drain *)

Lost(c) == c \notin mine \/ c \notin theirs

At(t, label) == pc' = [pc EXCEPT ![t] = label]

\* drain() of a lost connection raises: the publisher notes a stale client, a
\* handler unwinds to its finally clause, whoever's connection it was.
WriteFails(t, c) ==
    /\ mine' = mine \ {c}
    /\ At(t, IF t = Publisher THEN "publish" ELSE "finally")
    /\ stale' = IF t = Publisher THEN stale \cup {c} ELSE stale

\* t has the lock, rest waits for it: write frame f to c, drain, go on at next.
Put(t, c, f, next, rest) ==
    \/ /\ Lost(c)
       /\ WriteFails(t, c)
       /\ queue' = rest
       /\ UNCHANGED out
    \/ /\ ~Lost(c)
       /\ out' = [out EXCEPT ![c] = Append(@, f)]
       /\ IF Len(out[c]) < HighWater
          THEN At(t, next) /\ queue' = rest
          ELSE At(t, "drain") /\ queue' = <<t>> \o rest
       /\ UNCHANGED <<mine, stale>>

\* Mutant: a lock that is not granted in the order of the requests.
SayUnordered(t, c, f, next) ==
    /\ IF queue = <<>>
       THEN Put(t, c, f, next, <<>>)
       ELSE /\ At(t, "write") /\ queue' = <<Head(queue), t>> \o Tail(queue)
            /\ UNCHANGED <<mine, out, stale>>
    /\ job' = [job EXCEPT ![t] = IF pc'[t] \in {"write", "drain"}
                                 THEN [to |-> c, frame |-> f, next |-> next] ELSE NoJob]

\* Coroutine t writes at once when nobody has the lock, else waits its turn.
Say(t, c, f, next) ==
    /\ IF queue = <<>>
       THEN Put(t, c, f, next, <<>>)
       ELSE At(t, "write") /\ queue' = Append(queue, t) /\ UNCHANGED <<mine, out, stale>>
    /\ job' = [job EXCEPT ![t] = IF pc'[t] \in {"write", "drain"}
                                 THEN [to |-> c, frame |-> f, next |-> next] ELSE NoJob]

Reply(c, kind, next) == Say(c, c, Frame(kind), next)

\* What Say() leaves alone.
NoSay == UNCHANGED <<writing, mine, out, stale>>

Write(t) ==
    /\ queue # <<>> /\ t = Head(queue) /\ pc[t] = "write"
    /\ Put(t, job[t].to, job[t].frame, job[t].next, Tail(queue))
    /\ job' = IF pc'[t] = "drain" THEN job ELSE [job EXCEPT ![t] = NoJob]
    /\ UNCHANGED <<service, registry, forwards, todo, heard, theirs, inbox, peers>>

Drain(t) ==
    /\ pc[t] = "drain"
    /\ LET c == job[t].to IN
       \/ Lost(c) /\ WriteFails(t, c)
       \/ /\ ~Lost(c) /\ Len(out[c]) <= HighWater
          /\ At(t, job[t].next)
          /\ UNCHANGED <<mine, stale>>
    /\ queue' = Tail(queue)
    /\ job' = [job EXCEPT ![t] = NoJob]
    /\ UNCHANGED <<service, registry, forwards, todo, heard, theirs, inbox, out, peers>>

-----------------------------------------------------------------------------
(* _handle_meshagatchi_client() *)

\* The service is down: close.  Otherwise the client is known, and greeted.
Begin(c) ==
    /\ pc[c] = "start"
    /\ IF phase = "down"
       THEN /\ mine' = mine \ {c} /\ At(c, "off")
            /\ UNCHANGED <<clients, writing, out, stale>>
       ELSE clients' = clients \cup {c} /\ Reply(c, "hello", "read")
    /\ UNCHANGED <<service, bot, policy, forwards, todo, heard, theirs, inbox, peers>>

\* The next line is a frame of one of these kinds; it is consumed.
Read(c, kinds) ==
    /\ pc[c] = "read" /\ inbox[c] # <<>> /\ Head(inbox[c]).kind \in kinds
    /\ inbox' = [inbox EXCEPT ![c] = Tail(@)]

\* Mutant: a result resolves every waiter, not the one with its id.
TakeResultForAll(c) ==
    /\ Read(c, {"result"})
    /\ waiters' = {}
    /\ future' = [t \in Tools |-> IF t \in waiters /\ future[t] = "pending"
                                  THEN "done" ELSE future[t]]
    /\ NoSay /\ UNCHANGED <<service, registry, pc, todo, heard, theirs, peers>>

\* event.result: the waiter is popped, whether or not it still waits.
TakeResult(c) ==
    /\ Read(c, {"result"})
    /\ LET t == Head(inbox[c]).of IN
       /\ waiters' = waiters \ {t}
       /\ future' = [future EXCEPT ![t] =
                         IF t \in waiters /\ @ = "pending" THEN "done" ELSE @]
    /\ NoSay /\ UNCHANGED <<service, registry, pc, todo, heard, theirs, peers>>

\* Any other line may be refused: the rate limit that all connections share, an
\* invalid policy or envelope, broken JSON; an oversized one ends the handler.
Refuse(c) ==
    /\ Read(c, {"register", "work", "submit"})
    /\ \E next \in {"read", "finally"} : Reply(c, "refused", next)
    /\ UNCHANGED <<service, registry, forwards, todo, heard, theirs, peers>>

Register(c) ==
    /\ Read(c, {"register"})
    /\ bot' = c /\ policy' = TRUE
    /\ Reply(c, "reply", "read")
    /\ UNCHANGED <<service, clients, forwards, todo, heard, theirs, peers>>

\* send or personality.*: the handler awaits the radio or the language model.
Work(c) ==
    /\ Read(c, {"work"})
    /\ At(c, "busy")
    /\ NoSay /\ UNCHANGED <<service, registry, forwards, todo, heard, theirs, peers>>

WorkDone(c) ==
    /\ pc[c] = "busy"
    /\ Reply(c, "reply", "read")
    /\ UNCHANGED <<service, registry, forwards, todo, heard, theirs, inbox, peers>>

\* Mutant: the waiter is entered under the sidecar's connection.
ForwardKeyedByBot(c) ==
    /\ Read(c, {"submit"})
    /\ IF bot = NoOne \/ bot \notin mine \/ Cardinality(waiters) >= QueueLimit
       THEN Reply(c, "refused", "read") /\ UNCHANGED forwards
       ELSE /\ waiters' = waiters \cup {bot}
            /\ future' = [future EXCEPT ![c] = "pending"]
            /\ Say(c, bot, Submit(c), "waiting")
    /\ UNCHANGED <<service, registry, todo, heard, theirs, peers>>

\* _forward_meshagatchi(): refused without a live sidecar or with a full table;
\* otherwise the waiter is entered before the request is written to the sidecar.
Forward(c) ==
    /\ Read(c, {"submit"})
    /\ IF bot = NoOne \/ bot \notin mine \/ Cardinality(waiters) >= QueueLimit
       THEN Reply(c, "refused", "read") /\ UNCHANGED forwards
       ELSE /\ waiters' = waiters \cup {c}
            /\ future' = [future EXCEPT ![c] = "pending"]
            /\ Say(c, bot, Submit(c), "waiting")
    /\ UNCHANGED <<service, registry, todo, heard, theirs, peers>>

\* The future is resolved, or failed by a stop of the service ...
Answer(c) ==
    /\ pc[c] = "waiting"
    /\ \/ future[c] = "done" /\ Reply(c, "result", "read")
       \/ future[c] = "failed" /\ At(c, "finally") /\ NoSay
    /\ future' = [future EXCEPT ![c] = "none"]
    /\ UNCHANGED <<service, registry, waiters, todo, heard, theirs, inbox, peers>>

\* Mutant: a request that is not answered in time is reported as refused.
TimeoutAsRefusal(c) ==
    /\ pc[c] = "waiting" /\ future[c] = "pending"
    /\ waiters' = waiters \ {c}
    /\ future' = [future EXCEPT ![c] = "none"]
    /\ Reply(c, "refused", "read")
    /\ UNCHANGED <<service, registry, todo, heard, theirs, inbox, peers>>

\* Mutant: a request that is not answered in time is written once more.
TimeoutRetries(c) ==
    /\ pc[c] = "waiting" /\ future[c] = "pending" /\ bot # NoOne
    /\ Say(c, bot, Submit(c), "waiting")
    /\ UNCHANGED <<service, registry, forwards, todo, heard, theirs, inbox, peers>>

\* Mutant: no time limit; the wait ends when the asking client is gone.
TimeoutIfLost(c) ==
    /\ pc[c] = "waiting" /\ future[c] = "pending" /\ Lost(c)
    /\ waiters' = waiters \ {c}
    /\ future' = [future EXCEPT ![c] = "none"]
    /\ Reply(c, "timeout", "read")
    /\ UNCHANGED <<service, registry, todo, heard, theirs, inbox, peers>>

\* ... or not within 30 seconds.
Timeout(c) ==
    /\ pc[c] = "waiting" /\ future[c] = "pending"
    /\ waiters' = waiters \ {c}
    /\ future' = [future EXCEPT ![c] = "none"]
    /\ Reply(c, "timeout", "read")
    /\ UNCHANGED <<service, registry, todo, heard, theirs, inbox, peers>>

\* The lines received before the end are still read.
Eof(c) ==
    /\ pc[c] = "read" /\ inbox[c] = <<>> /\ Lost(c)
    /\ At(c, "finally")
    /\ UNCHANGED <<service, registry, forwards, writing, round, wire, peers>>

\* Mutant: any client that ends takes the registration with it.
FinishUnregisters(c) ==
    /\ pc[c] = "finally"
    /\ clients' = clients \ {c}
    /\ bot' = NoOne
    /\ mine' = mine \ {c}
    /\ inbox' = [inbox EXCEPT ![c] = <<>>]
    /\ At(c, "off")
    /\ UNCHANGED <<service, policy, forwards, writing, round, theirs, out, peers>>

\* Mutant: the registration outlives its connection.
FinishKeepsBot(c) ==
    /\ pc[c] = "finally"
    /\ clients' = clients \ {c}
    /\ bot' = bot
    /\ mine' = mine \ {c}
    /\ inbox' = [inbox EXCEPT ![c] = <<>>]
    /\ At(c, "off")
    /\ UNCHANGED <<service, policy, forwards, writing, round, theirs, out, peers>>

\* The finally clause: forget the client, and the registration if it was its.
Finish(c) ==
    /\ pc[c] = "finally"
    /\ clients' = clients \ {c}
    /\ bot' = IF bot = c THEN NoOne ELSE bot
    /\ mine' = mine \ {c}
    /\ inbox' = [inbox EXCEPT ![c] = <<>>]
    /\ At(c, "off")
    /\ UNCHANGED <<service, policy, forwards, writing, round, theirs, out, peers>>

-----------------------------------------------------------------------------
(* _publish_meshagatchi(): one radio message to every client *)

PublishBegin ==
    /\ pc[Publisher] = "off" /\ phase # "down" /\ policy
    /\ heard < MaxMessages /\ heard' = heard + 1
    /\ todo' = clients /\ stale' = {}
    /\ pc' = [pc EXCEPT ![Publisher] = "publish"]
    /\ UNCHANGED <<service, registry, forwards, writing, wire, peers>>

PublishNext(c) ==
    /\ pc[Publisher] = "publish" /\ c \in todo
    /\ todo' = todo \ {c}
    /\ Say(Publisher, c, Frame("message"), "publish")
    /\ UNCHANGED <<service, registry, forwards, heard, theirs, inbox, peers>>

PublishEnd ==
    /\ pc[Publisher] = "publish" /\ todo = {}
    /\ clients' = clients \ stale
    /\ stale' = {}
    /\ pc' = [pc EXCEPT ![Publisher] = "off"]
    /\ UNCHANGED <<service, bot, policy, forwards, writing, todo, heard, wire, peers>>

-----------------------------------------------------------------------------
(* _start_meshagatchi_ipc() and _stop_meshagatchi_ipc() *)

Start ==
    /\ phase \in {"down", "cut"} /\ phase' = "up"
    /\ UNCHANGED <<waits, doomed, stops, registry, forwards, writing, pc, round, wire, peers>>

StopBegin ==
    /\ phase = "up" /\ phase' = "closing"
    /\ stops < MaxStops /\ stops' = stops + 1
    /\ UNCHANGED <<waits, doomed, registry, forwards, writing, pc, round, wire, peers>>

Sweep == phase' = "sweeping" /\ doomed' = clients /\ clients' = {}

StopSweep ==
    /\ phase = "closing" /\ Sweep
    /\ waits => mine = {}
    /\ UNCHANGED <<waits, stops, bot, policy, forwards, writing, pc, round, wire, peers>>

\* disconnect() is cancelled where the stop waits, for the server or for the
\* close of a client: the server is gone, what was not cleared yet stays.
StopAbandoned ==
    /\ phase' = "cut" /\ doomed' = {}
    /\ \/ phase = "closing" /\ UNCHANGED mine
       \/ phase = "sweeping" /\ \E c \in doomed : mine' = mine \ {c}
    /\ UNCHANGED <<waits, stops, registry, forwards, writing, pc, round, theirs, inbox, out,
                   peers>>

\* The next stop finds no server to wait for.
StopAgain ==
    /\ phase = "cut" /\ Sweep
    /\ UNCHANGED <<waits, stops, bot, policy, forwards, writing, pc, round, wire, peers>>

StopClose(c) ==
    /\ phase = "sweeping" /\ c \in doomed
    /\ doomed' = doomed \ {c}
    /\ mine' = mine \ {c}
    /\ UNCHANGED <<phase, stops, waits, registry, forwards, writing, pc, round, theirs, inbox, out,
                   peers>>

StopEnd ==
    /\ phase = "sweeping" /\ doomed = {} /\ phase' = "down"
    /\ bot' = NoOne /\ policy' = FALSE
    /\ future' = [t \in Tools |-> IF t \in waiters /\ future[t] = "pending"
                                  THEN "failed" ELSE future[t]]
    /\ waiters' = {}
    /\ UNCHANGED <<waits, doomed, stops, clients, writing, pc, round, wire, peers>>

-----------------------------------------------------------------------------
(* The peers.  The sidecar is not part of the repository. *)

Connect(c) ==
    /\ phase = "up" /\ pc[c] = "new"
    /\ At(c, "start")
    /\ mine' = mine \cup {c} /\ theirs' = theirs \cup {c}
    /\ tool' = [t \in Tools |-> IF t = c THEN "hello" ELSE tool[t]]
    /\ UNCHANGED <<service, registry, forwards, writing, round, inbox, out, answer, owed,
                   applied>>

\* A peer closes; what it had not read is gone.
Close(c) ==
    /\ c \in theirs
    /\ theirs' = theirs \ {c}
    /\ out' = [out EXCEPT ![c] = <<>>]
    /\ UNCHANGED <<mine, inbox>>

BotCloses(b) ==
    /\ Close(b)
    /\ UNCHANGED <<service, registry, forwards, writing, pc, round, peers>>

\* A bot that is registered does not register again.
BotSends(b, f) ==
    /\ b \in theirs /\ Len(inbox[b]) < MaxInbox
    /\ f.kind = "register" => b # bot
    /\ inbox' = [inbox EXCEPT ![b] = Append(@, f)]
    /\ owed' = owed \ {f.of}
    /\ UNCHANGED <<service, registry, forwards, writing, pc, round, mine, theirs, out,
                   tool, answer, applied>>

BotReads(b) ==
    /\ b \in theirs /\ out[b] # <<>>
    /\ LET asked == {t \in Tools : Head(out[b]) = Submit(t)} IN
       owed' = owed \cup asked /\ applied' = applied \cup asked
    /\ out' = [out EXCEPT ![b] = Tail(@)]
    /\ UNCHANGED <<service, registry, forwards, writing, pc, round, mine, theirs, inbox,
                   tool, answer>>

\* round_trip(): the handshake, then the request ...
ToolAsks(t) ==
    /\ tool[t] = "hello" /\ out[t] # <<>>
    /\ IF Head(out[t]).kind = "hello"
       THEN /\ tool' = [tool EXCEPT ![t] = "asked"]
            /\ inbox' = [inbox EXCEPT ![t] = Append(@, Submit(t))]
            /\ out' = [out EXCEPT ![t] = Tail(@)]
            /\ UNCHANGED <<mine, theirs>>
       ELSE tool' = [tool EXCEPT ![t] = "failed"] /\ Close(t)
    /\ UNCHANGED <<service, registry, forwards, writing, pc, round, answer, owed, applied>>

\* ... and whatever frame comes next is the response.
ToolReads(t) ==
    /\ tool[t] = "asked" /\ out[t] # <<>>
    /\ tool' = [tool EXCEPT ![t] = "answered"]
    /\ answer' = [answer EXCEPT ![t] = Head(out[t]).kind]
    /\ Close(t)
    /\ UNCHANGED <<service, registry, forwards, writing, pc, round, owed, applied>>

\* The adapter closed the connection ...
ToolEof(t) ==
    /\ tool[t] \in {"hello", "asked"} /\ out[t] = <<>> /\ t \notin mine
    /\ tool' = [tool EXCEPT ![t] = "failed"]
    /\ Close(t)
    /\ UNCHANGED <<service, registry, forwards, writing, pc, round, answer, owed, applied>>

\* ... or nothing came within 15 seconds.
ToolGivesUp(t) ==
    /\ tool[t] \in {"hello", "asked"}
    /\ tool' = [tool EXCEPT ![t] = "failed"]
    /\ Close(t)
    /\ UNCHANGED <<service, registry, forwards, writing, pc, round, answer, owed, applied>>

-----------------------------------------------------------------------------
HandlerStep(c) ==
    \/ Begin(c) \/ TakeResult(c) \/ Refuse(c) \/ Register(c) \/ Work(c) \/ WorkDone(c)
    \/ Eof(c) \/ Finish(c)
    \/ c \in Tools /\ (Forward(c) \/ Answer(c) \/ Timeout(c))

WriterStep == \E t \in Tasks : Write(t) \/ Drain(t)

PublisherStep == PublishEnd \/ \E c \in Conns : PublishNext(c)

StopStep == StopSweep \/ StopEnd \/ \E c \in Conns : StopClose(c)
ServiceStep == Start \/ StopBegin \/ StopAbandoned \/ StopAgain \/ StopStep

BotFrames == {Frame(k) : k \in BotKinds} \cup {Result(t) : t \in owed}

Next ==
    \/ \E c \in Conns : HandlerStep(c) \/ Connect(c)
    \/ WriterStep
    \/ PublishBegin \/ PublisherStep
    \/ ServiceStep
    \/ \E b \in Bots : BotCloses(b) \/ BotReads(b) \/ \E f \in BotFrames : BotSends(b, f)
    \/ \E t \in Tools : ToolAsks(t) \/ ToolReads(t) \/ ToolEof(t) \/ ToolGivesUp(t)

Spec == Init /\ [][Next]_vars

\* The loop runs what is ready, and peers read what they are sent.  The sidecar
\* need not answer, nobody need connect, and a tool's own timeout may never come.
Fairness ==
    /\ \A c \in Conns : WF_vars(HandlerStep(c))
    /\ WF_vars(WriterStep) /\ WF_vars(PublisherStep) /\ WF_vars(StopStep)
    /\ \A b \in Bots : WF_vars(BotReads(b))
    /\ \A t \in Tools : WF_vars(ToolAsks(t) \/ ToolReads(t) \/ ToolEof(t))

FairSpec == Spec /\ Fairness

-----------------------------------------------------------------------------
(* Properties *)

\* No event is delivered twice: while it is on its way to a sidecar, it is so
\* once, and neither that sidecar nor one registered before has read it, whatever
\* waits, times out, fails or is registered anew (adapter.py:655-658, :773-792).
DeliveredOnce ==
    \A t \in Tools, b \in Bots : \A k \in 1..Len(out[b]) : out[b][k] = Submit(t) =>
        /\ t \notin applied
        /\ \A d \in Bots : \A j \in 1..Len(out[d]) : out[d][j] = Submit(t) => d = b /\ j = k

\* What the caller of the tool is told, and the requests the sidecar has read,
\* behave as EventRequest says: a result is only of an event that was read, no
\* event is read that was not asked for, nor after its refusal, however the
\* requests of several tools, their results and their timeouts overlap
\* (adapter.py:688-692 and :773-792, ipc.py:105).
Told == [t \in Tools |->
    CASE tool[t] \in {"new", "hello"} -> "new"
      [] tool[t] = "asked" -> "asked"
      [] tool[t] = "answered" /\ answer[t] \in {"result", "refused"} -> answer[t]
      [] OTHER -> "unknown"]

Request == INSTANCE EventRequest WITH Requests <- Tools, told <- Told
RequestSpec == Request!Spec

\* The first frame of a connection is its hello, though the client is told of
\* radio messages from before the hello is written: the lock keeps the order.
HelloFirst ==
    \A t \in Tools : tool[t] = "hello" /\ out[t] # <<>> => Head(out[t]).kind = "hello"

\* The sidecar stays registered until its own connection ends, another takes its
\* place, or the service stops: no other client's end unregisters it.
RegistrationHolds ==
    [][bot # NoOne /\ bot' = NoOne => pc[bot] = "finally" \/ phase = "sweeping"]_vars

\* A registration never outlives the handler of its connection.
BotHasHandler == bot # NoOne => pc[bot] # "off"

\* A tool that has asked is answered or disconnected, whatever the sidecar does
\* and even if the service stops meanwhile.
AskedIsAnswered == \A t \in Tools : tool[t] = "asked" ~> tool[t] # "asked"

(* What tests and messages say, and the code does not do *)

\* The frame that follows a tool's request is the response to it
\* (tests/test_meshagatchi_ipc.py:157).
ResponseIsForRequest ==
    \A t \in Tools : answer[t] \in {"none", "result", "refused", "timeout"}
=============================================================================
