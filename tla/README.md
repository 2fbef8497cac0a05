# Verification of the Meshtastic Hermes plugin

TLA+ models of the parts of this repository that several threads, coroutines or
processes touch at once, TLC runs over small instances of them, and TLAPS proofs
of the safety properties for every instance. Paths below are relative to the
root of the repository, `tests/` and `docs/` included; `PROJECT.json` writes the
same paths with `src/` in front where it names code.

| module | models | checked by | proved in |
|---|---|---|---|
| `ConnectionManager` | the owner of the radio link, `meshtastic_hermes/connection.py` | `link_two_callers`, `link_one_caller` | `ConnectionManagerProofs` |
| `NodeSlot` | abstract: the one TCP client a node accepts | `SlotSpec` in `link_two_callers` | `ImplementsSlot` |
| `RadioLink` | abstract: the link as its users see it | `LinkSpec` in `link_two_callers` | `ImplementsLink`; used by `GatewayProofs`, `SendPathProofs` |
| `TransmitLimiter` | the airtime budget, `meshtastic_hermes/rate_limit.py` | `limiter_budget` | `TransmitLimiterProofs` |
| `AirtimeBudget` | abstract: the budget told by the packets that went out | `BudgetSpec` in `limiter_budget` | `ImplementsBudget` |
| `MeshagatchiIpc` | the adapter's Unix-socket service and the event tool's client | 3 runs `ipc_*` | `MeshagatchiIpcProofs`, `MeshagatchiHelloProofs` |
| `EventRequest` | abstract: what the event tool promises its caller | `RequestSpec` in `ipc_clients` | `ImplementsRequest` |
| `ChannelPolicy` | channel allowlists and `validate_tool_send`, `gateway_bridge.py` and `policy.py` | through `SendPath` and `Gateway` | `ChannelPolicyProofs` |
| `SendPath` | `send_text` and the adapter's `send` over a changing link | 2 runs `send_*` | `SendPathProofs` |
| `Gateway` | the adapter's life cycle and receive path, `adapter.py` and `gateway_bridge.py` | 2 runs `gateway*` | `GatewayProofs` |
| `KnowledgeBase` | the SQLite file, its observers and its summary, `knowledge.py` and `observer.py` | 2 runs `knowledge*` | `KnowledgeBaseProofs` |
| `ReadTools` | the queries and the tools that answer them, behind the gates of `privacy.py` | `GatesWithhold` in `knowledge` | `KnowledgeBaseProofs` |
| `MC*` (five) | symmetry sets, channel tables, radios, packets and settings for TLC | | |

## 1. Inventory

The plugin connects an agent (Hermes) to a mesh radio (Meshtastic). Two plugins
run in one process: `meshtastic_hermes` (tools the agent calls, on worker
threads) and `meshtastic_platform` (an adapter that makes the mesh a chat
platform, on an asyncio loop and its executor). They share one connection
manager, one observer with its knowledge base and one transmit limiter, through
a slot in `sys.modules`. The radio library runs threads of its own, which
deliver packets and lost connections as pubsub callbacks. The knowledge base is
a file, and the gateway, a chat session and the command line may all have it open.

| component | state | operations | what makes it correct |
|---|---|---|---|
| connection manager (`connection.py`) | target, intent (`_want_connected`, `_stop`), `_iface`, `_stale_ifaces`, failure counters, supervisor thread | `connect`, `disconnect`, `_supervise`, `_on_connection_lost`, `state` | one TCP client at a time, nothing leaks, a dead link is noticed, a wanted link comes back, an unwanted one stays down |
| transmit limiter (`rate_limit.py`) | send times per bucket, last send per destination | `check`, `reset`, `snapshot`, `LimitConfig.from_env` | no window over budget, answers spaced, charging all or nothing, exact `retry_after` |
| Meshagatchi IPC (`adapter.py:595-877`, `ipc.py`) | server, clients, registered sidecar, its policy, waiters of forwarded requests, write lock | start, stop, handler per connection, forward and result, publish; `round_trip` | answers belong to requests, refusals are true, the registration follows the connection, nobody waits for ever |
| platform adapter (rest of `adapter.py`) | allowed channels, own identity, gateway status | `connect`, `disconnect`, `_on_rx`, `_dispatch`, `send` | every packet judged by the operator's settings, by a channel table and names the radio had; every call returns |
| gateway bridge (`gateway_bridge.py`) | none | channel specs, mention gate, reply policy, `process_inbound` | fails closed: never answers on a channel that was not named |
| send policy, tools (`policy.py`, `tools.py`) | none of their own | `validate_tool_send`, `send_text` and 12 more handlers | no packet without authorisation and budget |
| observer, knowledge base (`observer.py`, `knowledge.py`) | SQLite tables, recent messages | `record_packet`, `upsert_node`, `summary` and queries | counts agree with the packets, nothing committed is lost |
| privacy (`privacy.py`) | none | redaction of places, texts and relations | a switch that is off withholds on every path |
| registration, schemas, harness, test rig, scripts | tables, command lines | – | – |

How they interact: tools and adapter call the manager from different threads;
`send_text` reads the channel table, then the interface, charges the limiter and
transmits; the receive thread calls the observer, which writes to the file, and
`_on_rx`, which hands coroutines to the adapter's loop; the adapter's `connect`
dials through the manager, resolves the channel names and starts the IPC
service, its `disconnect` stops the service and then the manager; the event tool
reaches the service of its own process (or another) through the socket.

Hard behaviours: the unlocked fields of the manager and its daemon supervisor;
a loss reported by another thread at any moment; a link that is reopened behind
the adapter's back; the limiter shared by threads; coroutines that suspend inside
a critical section of the IPC service, slow or vanished readers, results that
race timeouts, a stop in the middle of all this; one file written by processes
whose locks do not know of each other, with commits that fail and processes
that end. Each is a hazard, at its line, in `PROJECT.json`.

## 2. The models

### ConnectionManager

State and code correspond field by field (`want` is `_want_connected`, `slow` is
`_slow_retry`, and so on). Threads are callers of `connect()`/`disconnect()`,
supervisors, and the library's one publishing thread. A step is a stretch of
code with at most one access to a field that is written without the lock, or a
whole critical section; `_open()` is several steps long while it holds the lock
(`lock`), because `_host` and `_port` are written without it and the link can
die inside.

* `connect()`: `ConnectBegin`, `SetPort`, `SetWant`, `ClearStop`,
  `ResetCounters`, then `_open()` = `Import`, `Acquire`, `Construct` or
  `Refused`, `Subscribe` or `SubscribeFails`, then `RecordSuccess` or `RecordFailure` and
  `_ensure_supervisor()` = `Ensure`, `Assign`, `Start`. `HardError` is the path
  of a missing library.
* `_supervise()`: `CheckWant`, `CheckStop`, `CheckIface`, `_open()`,
  `ChooseWait`, `Wake`, `Exit`. A wait of any length may end at any time.
* `disconnect()`: `DisconnectBegin`, `SetStop`, `Close`.
* `_on_connection_lost()`: `OnConnectionLost`, entered by `Publish`.

Abstractions: a target stands for a (host, port) pair, and `host`, `port`,
`dial`, `peer` record which target each half came from, so that a torn pair is
visible. `failures` saturates at the threshold, which is all the code compares
it with. Identities of interfaces and threads are reused when nothing refers to
them any more (`Fresh`, `Assign`), so a finite set serves an endless run.
External assumptions: `close()` closes and a failed constructor leaves nothing
open; the library reports each loss once, in any order, from one thread, and
also reports the loss of a live interface that the manager closes. Not modelled:
the three-state report `state()`, the environment variables, the read-only
queries and the packet topic, whose subscription follows the loss topic's.

What follows the constructor in `_open()` can fail too: `get_observer()` opens the
database on first use, `pub.subscribe()` may raise. `SubscribeFails` is that path:
the lock is released with `_iface` set and nobody subscribed, and
`_record_failure()` runs with a link in use. `unheard` is a history of it, and of
a loss that was published before the subscription; `LossIsNoticed` says that these
two are the only ways in which a dead link can stay in use unnoticed.

`NodeSlot` is what the node asks: a client is admitted into an empty slot, may
be lost, and is closed before the next. `SlotSpec` maps it to the interfaces
that are not closed. `RadioLink` is what the manager's users rely on: one attempt
to open the link at a time, no link while it lasts, and no link replaced by
another without a moment of none. `LinkSpec` maps it to `iface` and to there
being a thread that constructs (`Opening`).

### TransmitLimiter

`check()` reads the clock, prunes, tests and charges under one lock: one step,
with three outcomes (`RefuseCooldown`, `RefuseFull`, `Admit`). The model keeps
the packet where the code keeps its time stamp, so buckets are sets, two packets
of one instant differ, and `sent` (every admitted packet) is what the budgets
are stated about. `RetryAt` is the stamp `stamps[-limit]` of
`_window_retry_after`. Limits are at least 1, which `from_env()` makes of every
whole setting but not of a fraction (section 4). Time is counted in
milliseconds, so that the rounding of `retry_after_s` to three decimals changes
nothing; on the code's clock of floats a hint may be half a millisecond early.

`AirtimeBudget` has no buckets, no pruning and no latest send, only the packets
that went out. A packet is admitted when every window it falls in has room and,
unless it continues an answer, its destination's cooldown has passed; a refusal
names a gate that is shut and the first moment at which it is not. `BudgetSpec`
is the same `now`, `sent` and `refusal`.

### MeshagatchiIpc

A step is what a coroutine does from one `await` to the next. The write lock is
an `asyncio.Lock`: it is granted in the order of requests (`queue`) and is held
while `drain()` waits. `Say` is `_write_meshagatchi()` as seen by its caller: it
writes at once when the lock is free, otherwise the coroutine joins the queue
and `Write` goes on later; `Drain` ends the wait for a reader with more than
`HighWater` unread frames. A write to a connection either side has closed fails
(`WriteFails`): the publisher remembers the client as stale, a handler unwinds
to its `finally` clause, even when the connection was another client's.

* `_handle_meshagatchi_client()`: `Begin`, then per line `TakeResult`, `Refuse`,
  `Register`, `Work`/`WorkDone` (send, personality) or `Forward`, which ends in
  `Answer` or `Timeout`; `Eof`; `Finish`.
* `_publish_meshagatchi()`: `PublishBegin`, `PublishNext`, `PublishEnd`.
* `_start_/_stop_meshagatchi_ipc()`: `Start`, `StopBegin`, `StopSweep`
  (after `wait_closed()`), `StopClose`, `StopEnd`. A `disconnect()` that is
  cancelled at one of these waits leaves the rest as it is (`StopAbandoned`, phase
  `cut`: no server, but channel index, clients not yet taken, registration and
  waiters stay); the service may then be started over it, or stopped again
  (`StopAgain`, with no server to wait for).
* `round_trip()`: `ToolAsks`, `ToolReads`, `ToolEof`, `ToolGivesUp`.

Abstractions: the kind of a frame and the request it belongs to are kept, its
contents are not; whatever validation or the rate limit does is the choice
between accepting and `Refuse`. A request's id is the tool call itself, as
`round_trip()` makes a fresh uuid4. Connections are made once each, and one
publisher runs at a time (the code may start several; each is a queue of writes
like this one). The sidecar is external: it sends what it likes, answers what
it has read at most once per read, in any order or never, and may leave.
`waits` says whether `Server.wait_closed()` waits for open connections, as it
does from Python 3.12 on. The run explores that kind, where `StopAgain` sweeps
connections that still live as an older Python's first sweep does; with both
kinds (`WaitsForClients = {TRUE, FALSE}`, 751,058 states) it passes as well, and
the proofs cover either. Waiting for the close of a
single client is not a separate step.

`EventRequest` is the promise of the event tool: a result is of an event the
sidecar has read, a refusal is for good, anything else (a timeout, a lost
connection, a frame that is not the answer) leaves it open. `RequestSpec` maps
what the caller knows to the tool's state and its answer (`Told`), and what was
applied to the events the sidecar has read.

### ChannelPolicy

Operators, no state. A channel table is a sequence of rows (index, name,
primary or not), an allowlist what `parse_channel_spec()` returns. `Reach` and
`Resolve` are `resolve_channel_spec()`, and `Authorize` is
`validate_tool_send()`: the set of indices a call may use, of one element or,
when the code raises, none. The checks of the code only ever refuse, so their
order decides the error code, which is left out, and not the outcome. A value
that may be `None` is a set of at most one element. `Consented` says what the
operator meant, in terms of the channel that carries the packet rather than of
the names the code looks up; it is the reference `Authorize` is held to.

### SendPath

A sender is a thread in `send_text()`, or the adapter's coroutine `send()` with
the executor thread it waits for. Each part of an answer goes through the whole
of `send_text()` again: `Judge` (reads the channel table of whatever interface
there is and authorises), `Test` and `Take` (the `iface` property reads `_iface`
twice), `Charge` (the limiter), `Send` (`sendData()` raises or takes the packet),
and, for a tool call that wants it, the wait for an acknowledgement, ended by
`Acknowledged` or `GiveUp`. `NextPart` and `Fail` are the loop of the adapter's
`send()`.

`link` is what is left of `ConnectionManager` here: an interface with its
channel table, or none, changing between any two steps (`Reopen`, `Drop`). The
radio may have been given other channels in the meantime. The limiter is the
choice between admitting and refusing; what it admits is `TransmitLimiter`'s
matter. That `Reopen` and `Drop` are all a link can do is proved
(`AnyLinkWillDo`). `aired` and `charged` are histories of the current call. Left out: the
text, an empty text (an error before anything happens), `ack_timeout` values no
wait accepts, the pause between parts, and the report of the acknowledgement.

### Gateway

Three parties share the adapter's fields and the link, and each has its steps.

* Other hands on the link: the supervisor and the tools (`OthersOpen`), a
  starting session (`SessionStart`), the end of an attempt (`OpenEnds`), a loss
  (`Drop`), the operator who reorders the channels while the node is away
  (`Reconfigure`). `_open()` is two steps: there is no interface in between,
  but the library already delivers packets. The supervisor may reopen the link
  even after a disconnect, as `ConnectionManager` shows it can.
* `connect()`: `ConnectBegin`, `Dial`, `DialReturns`, `ReadTable`,
  `ResolveNames`, `StartIpc`, `Serve`. `ConnectAbandoned` is its end by the
  gateway's timeout wherever it waits, or by a socket that cannot be made.
* `disconnect()`: `StopIpc`, `IpcStopped`, `Unsubscribe`, `Close`, or
  `DisconnectAbandoned` where it waits. The calls come one at a time, in any
  order.
* The sidecar, as far as the calls wait for it: `service` says whether there is
  a server, and whether the sidecar is connected to it (`SidecarComes`,
  `SidecarGoes`). Stopping the service, on the way of a `disconnect()` or of a
  `connect()` that finds one, waits for `Server.wait_closed()`, which from Python
  3.12 on does not return while the sidecar stays (`Held`).
* The receive path: `Arrive`, then `_on_rx()` = `Classify` (readable, not our
  own, addressed to us by the id of the interface there is now), `Judge`
  (`should_reply()` on `allowed_channels`), `Gate` (the mention gate on
  `identity`), each with its own read of what `connect()` writes; `Dispatch`,
  where the agent may answer.

An event carries the table its packet was judged by, the names the gate knew,
and whether there was a link when it was classified (`linked`), so that the
properties can say which. `AnswersGoBack` goes by the addressee of the packet,
not by what the adapter took it for: a text to this node is answered to its
sender, encrypted, if there was a link when it was handled, and on its channel,
with the operator's consent, if there was none (section 4). `steady` says that
the link whose table `connect()` read has not changed since. `ProcessInbound` is
`process_inbound()`, the bridge simulator's decision in one piece; it is the
abstract specification the three-step path is held to (`BridgeAgrees`).
Abstractions: texts and names are sequences of words, not of characters; health
reports, the home channel and the identity file are left out, and so is
publishing to the sidecar, which is `PublishBegin` of `MeshagatchiIpc`. An
event without a handler gets no answer (`Dispatch`).

### KnowledgeBase and ReadTools

A process is one program that has the file open. `db` is what is committed,
`work` what the process with an open transaction (`holder`) sees. A section of
the code under the process's lock is one step, since nothing inside the process
can see its middle; between processes there is only SQLite's write lock. `Write`
is a statement with its commit: both succeed, the commit fails and the
transaction stays open, or the statement is refused because the file is locked
or the disk is full. `on_receive()` swallows every exception, and with it the
rest of the packet (`Swallow`).

* `record_packet()`: `RecordRow`, `FindNode` and `StoreNode` (the two statements
  of `upsert_node()`, between which another process may insert the same node),
  `BumpCount`. A NODEINFO goes through `upsert_node()` once more.
* The text buffer: `Surface`, bounded by `RecentLen`. `Restart` ends a process
  anywhere: the buffer and the open transaction are gone.
* `summary()`: `CountNodes`, `CountRows`, `CountSecret` under the process's
  lock, `TopTalkers` after it, which asks for `TalkersLimit` of them (5 in the
  code); `Forget` hands the answer out or gives up. `others` counts the rows other
  processes committed between the count of packets and that of the encrypted
  ones, so that `SummaryAddsUp` holds in spite of them and says by how much
  `decoded_packets` can be wrong.

`ReadTools` adds what the model is shown: each read tool as a function of the
state, the eight settings of the switches and its arguments, giving the number
of records and what they disclose. The limits keep their three meanings
(`LIMIT`, `items[-k:]`, `list[:k]`), which differ for zero and for negative
values. Left out: where the file is, sort orders, field names, notes and
digests, `list_channels()`, the watch loop of the command line.

## 3. The runs

Every run but the `violation` ones explores its whole state space.

| run | instance | states | question |
|---|---|---|---|
| `link_two_callers` | 2 callers of `connect`, 2 supervisor identities, 2 interfaces, threshold 1, symmetry | 1,036,280 | `NothingLeaks`, `LossIsNoticed`, `OnlyDeadLinkIsDropped`, `SlotSpec`, `LinkSpec` under concurrent callers |
| `link_one_caller` | 1 caller that also disconnects, 2 targets, 2 supervisors, 1 interface identity, threshold 2, fairness | 59,786 | `OneSupervisor`, `LinkFollowsTarget`; `SupervisorsStop`, `SupervisedLinkHeals` |
| `limiter_budget` | 1 channel, 1 node, budgets 3/2/2, cooldown 2, window 3, clock to 5 | 361,886 | `WindowBudget`, `ChargedTogether`, `HintIsExact`, `BudgetSpec` |
| `send_path` | 1 sender, 1 node, 3 names, 3 channel tables, 5 allowlists, indices -1 to 2, 2 parts, fairness | 90,064 | `PolicyKept`, `AnswerInOrder`, `BudgetIsForAir`, `SendEnds` |
| `ipc_clients` | 1 sidecar, 2 tools, 1 message, high water 1, queue limit 1, symmetry | 1,388,934 | `DeliveredOnce`, `HelloFirst`, `RequestSpec` |
| `ipc_lifecycle` | 1 sidecar that registers and works, 1 tool, 1 stop that may be abandoned and repeated, Python 3.12+, fairness | 375,529 | `BotHasHandler`, `RegistrationHolds`, `AskedIsAnswered` |
| `gateway` | 2 radios with reordered channels, 5 packets, 4 settings, 1 waiting event, a sidecar that comes and goes, Python 3.12+, fairness | 357,244 | `ScopeKept`, `AddressedOnly`, `AnswersGoBack`, `BridgeAgrees`, `FreshAfterConnect`, `CallsReturn` |
| `knowledge` | 2 processes, one of which summarises, 4 packets of 2 senders and of none, 3 receptions, 1 talker asked for, failures and restarts | 1,382,014 | `CountsFit`, `TextsRecorded`, `SummaryAddsUp`, `GatesWithhold`, `KnowledgeStays` |

Why the bounds are enough to be interesting. Two callers and two supervisors
give every pair of threads that can meet in `_open()`, `_ensure_supervisor()`
and the loss handler; two interfaces give an old and a new one, and no more are
ever needed at once. Threshold 2 lets the count stop short of it and reach it.
In the limiter the clock passes the window, and the global budget is less than
the sum of the others, so each gate is the one that refuses somewhere. The
tables of `send_path` have an unnamed and a named primary, a name in two slots
and a channel that moves; senders share nothing but the link, which changes at
any moment anyway, so one is enough for TLC, and the proofs cover any number. In
the IPC runs the high-water mark of one frame makes a `drain()` wait, a queue
limit of one makes the table full, and two tools give results that overlap.
In `gateway` the private channel changes its slot, one name of the node begins
with another, the packets are direct, mentioning, not mentioning, our own and
opaque, and the settings range over names, legacy indices with the gate off,
`all`, and no host. The service is the one of Python 3.12 and later, where there is
more to wait for; the proofs cover both kinds. In `knowledge` three receptions let two processes meet in a
new node and a third packet find what they left behind; a text, a late NODEINFO
and an opaque packet without a sender take the different paths of `_handle()`, and
the second sender makes more talkers than the one a summary asks for.
Deadlock is not checked in the `ipc_*` runs, because connections are made once
and a behaviour may come to its end, nor in `knowledge_locked`, where the bound
on receptions ends it.

Fairness. Threads of the operating system run, so callers, senders and
supervisors are weakly fair, step by step; nobody is obliged to call. The
publishing thread is strongly fair because the lock it needs is held only in
passing. A radio that is dialled for ever is reached in the end (strong fairness
of `Construct`): without it "the link comes back" is not the plugin's to promise.
In the IPC model the loop runs whatever coroutine is ready, and peers read what
they are sent (a stop goes on once nothing keeps it, unless it is abandoned); the sidecar need not answer or leave, and a tool's own timeout
may never come. In `Gateway` an attempt to open the link returns, successful or
not (the library has a timeout), and the adapter's call, which needs the
manager's lock that others take again and again, gets its turn in the end
(strong fairness of `Connects \/ Disconnects`); the gateway need not call, nor
cancel. Nothing makes the sidecar leave, so `CallsReturn` has a premise: a call
returns if it is not in the end `Held`, waiting for a sidecar that never goes.
Without the premise TLC finds the call that hangs. The knowledge base has no liveness property: every step of it may fail.

## 4. Disagreements found

Four runs end in a counterexample, each against something the repository says
(`findings` in `PROJECT.json` quotes it).

* `ipc_wrong_frame`: a radio message is broadcast to tools as well, and
  `round_trip()` returns it as the answer to its request.
* `send_wildcard`: with the allowlist `all`, a call judged while the link is
  down finds no primary channel in the empty table, is authorised for index 0,
  and is broadcast on the primary channel if the link reopens before the
  interface is taken.
* `gateway_stale`: the adapter resolves channel names only in its own
  `connect()`. After a loss the supervisor reopens the link by itself; with the
  channels reordered meanwhile, the adapter goes on with the old numbers.
* `knowledge_locked`: two processes insert the same new node; the second INSERT
  fails, the transaction it began stays open, and until that process records
  again every write of the other is refused and its packets are lost.

Four theorems say how far each of these goes, for any instance:

* `OnlyMessagesIntrude`: a tool can take nothing but a radio message for its
  response, and until one has been published the response is the one to its
  request.
* `WildcardSlipsOnlyWhenDown`: where the primary channel has the same index in
  every table, as index 0 of a Meshtastic node, a wildcard lets a broadcast out on
  it only if it was judged by the empty table of a link that was down.
* `NamesStayFollowed`: while the operator leaves the radio's channels as they
  are, the allowlist fits the radio in use through every loss, reopening and
  `connect()` cut short.
* `OneProcessRecordsAll`: one process alone, with no statement or commit failing,
  records every packet it handles.

Met while modelling, without a run of their own:

* Link. When `get_observer()` or `pub.subscribe()` raises after `_iface` was set
  (`connection.py:386-393`), `connect()` reports a failure, but the link stays in
  use without an observer and without a loss handler; the supervisor sees an
  interface and does not try again, and a later loss is heard by nobody.
  `disconnect()` does not wait for the supervisor: one that has passed its
  loop test opens the link again afterwards (`connection.py:407`, `:455`). The
  loss handler is subscribed after the interface is built: a loss in between is
  never noticed (`connection.py:393`). A supervisor that saw no link closes a
  healthy one that another thread opened meanwhile (`connection.py:410`).
  `connect()` trusts a supervisor that has decided to end but still counts as
  alive (`connection.py:396`), and then nobody retries. A supervisor asleep in
  the slow cadence is not woken by `connect()`, which makes `state()` say
  `connecting` for up to five minutes (`connection.py:418` against `:30`).
* Budget. A fractional limit such as 0.5 passes the test of `from_env()` and
  becomes 0 (`rate_limit.py:156`); `stamps[-0]` of an empty list then raises
  `IndexError` instead of `RateLimited` (`rate_limit.py:214`). `get_limiter()`,
  `get_manager()` and `get_observer()` create the shared object on first use
  without a lock (`rate_limit.py:348`).
* Sidecar. From Python 3.12 on, stopping the service waits for clients it has
  not yet closed (`adapter.py:635`): while the sidecar stays connected the stop
  does not return, and with it neither does `disconnect()` (`:584`) or a `connect()`
  that finds the service running (`:603`). Cancelled there, it leaves the channel
  index, the clients, the registration and the waiters of a server that is gone,
  and a `disconnect()` leaves `_on_rx` subscribed and the link up. A forwarded request whose write fails stays in the table of
  waiters (`adapter.py:783`), and 32 of them close the service to events. The
  sidecar's policy is not cleared when its connection ends: messages go on being
  published (`adapter.py:848`). `docs/usage.md:1066` says the bridge is enabled
  only at index 1, and `adapter.py:614` takes any index.
* Replies. While the link is being reopened `my_node_id()` is `None`, and a
  direct message handled then is taken for a message on its channel
  (`adapter.py:885`): it must pass the gates of a channel, but its answer goes
  out on that channel and not end to end, as the repository's README promises
  at line 280. Channel replies are judged by `MESHTASTIC_TOOL_SEND_CHANNELS`
  (`adapter.py:967-980` into `policy.py:291`), so that
  `MESHTASTIC_REPLY_CHANNELS="in.secure"`, recommended at `docs/usage.md:169`,
  does not let the adapter answer there by itself.
* Policy. `all,Primary` is a list with a channel named `all` and allows the
  primary alone; `docs/usage.md:511` and `:513` still describe removed switches.
* Knowledge. `last_seen` goes back when a late packet is recorded
  (`knowledge.py:129`). `summary()` counts in separate statements, so
  `decoded_packets`, a difference, can be negative when another process commits
  in between (`knowledge.py:246`), by as much as that process recorded
  (`SummaryAddsUp`).
* `docs/architecture.md:28` says that `on_session_end` disconnects, and
  `__init__.py:58` deliberately does not.

## 5. The proofs

Every invariant and every action property of a passing run, and every
refinement (`SlotSpec`, `LinkSpec`, `BudgetSpec`, `RequestSpec`), is proved for
every value of the constants. None of the invariants but
`GatesWithhold` is inductive alone; each module strengthens it first.

`ConnectionManagerProofs`, for any number of callers, supervisors, interfaces,
targets and any threshold. `IInv` (theorem `Inductive`): the lock belongs to a
thread exactly while it constructs or subscribes (`LockOK`); while it constructs
there is no current, no stale and no unclosed interface (`Clean`); the interface
in use is not closed (`InUseIsOpen`); a loss that is queued or being handled is
that of a link that is not up (`LossIsReal`); a link in use has a handler, except
between constructor and subscription, or is `unheard` (`HasHandler`), and a dead
one has its loss queued or in hand, or is `unheard` (`LossPending`; theorem
`LossesNoticed`); the checked `NothingLeaks`; and `AtMostOneOpen` (theorem `SingleClient`), which `SlotSpec`
implies in the runs. `NothingLeaks` and `AtMostOneOpen` need
each other: that at most one interface is open follows because `_open()` closes
everything it knows first, and what it knows is everything. The proof has a
typing half (control state, then data), one lemma for all steps that touch
neither lock nor radio, one for each that does, and `PTL` steps last.
`ImplementsSlot` maps every step to a step of `NodeSlot` or a stutter, and
`ImplementsLink` to a step of `RadioLink`: only the holder of the lock begins
and ends an attempt, and who does not hold it can only take a link away.
Two theorems assume one caller (`Callers = {c}`), because two can replace each
other's supervisor and target. `SingleSupervisor` rests on `OnlyNamed`: the only
thread alive is the one `_supervisor` names, and none is while the caller
replaces it. `LinkIsOnTarget` rests on `TargetInv`: host and port agree except
between the two writes, and past the caller's own turn in `_open()` every link
built, or being built, goes to them.

`TransmitLimiterProofs`, for any destinations, limits, cooldown and window. The
invariant ties the buckets to the history: a bucket holds only packets charged
to it (`Held`), a packet that a bucket has dropped is older than a window
(`Aged`), and `lastSend` is no earlier than any packet to its destination
(`LastIsLatest`). The budget of a window that ends in the past holds because it
held when it ended; a packet admitted now is in no such window but those that
end now. `HintsAreExact` adds that packets are numbered in the order of time
(`InOrder`): a full bucket holds exactly its limit, so the stamp at `-limit` is
the oldest, and its expiry is the first moment at which there is room.
`ImplementsBudget` puts these together. What a bucket counts is what the history
counts in every window that ends now or later (`CountsTheHistory`), the latest
send cools exactly while some packet of the history does (`CoolsTheHistory`,
from `LastIsReal`: `lastSend` is the time of a packet that was sent), and the
number of the next packet is the size of the history plus one (`Numbered`).
`CooldownKept`, the spacing of first packets, is a theorem of its own.

`MeshagatchiIpcProofs`, for any number of connections and all bounds. `Core`:
types; a coroutine waits for the lock exactly once and with a job that fits it;
who writes is at the head of the queue; a registered sidecar has a handler. From
it follow `TypeCorrect`, `BotIsServed` and `RegistrationIsKept`. `Story` says of
each request what may be said of it, wherever it is said (on a wire, in a queue,
in a future, in the table of waiters): a request nobody has forwarded has not been
read by the sidecar and, once refused, never will be; a result, wherever it is,
is of a request that was read. It gives `RefusedIsUntouched` and `ResultWasRead`
through every timeout, loss and stop, and with them `ImplementsRequest`: the
steps that tell a caller something are `Confirm`, `Deny` or `GiveUp`, the
sidecar's reading is `Apply`, every other step is a stutter. `Once` follows the
copies of an event: only the handler of its tool writes it, not when it has
been written before, and a copy on a wire is the only one and unread; so no
sidecar ever reads an event twice (`EventsOnce`), for any number of connections
that register after one another, where the run has one.
`MeshagatchiHelloProofs` has the order of
the lock: until its hello is written a tool is either unmet (in nobody's list of
clients, in no pending write), or nobody ahead of its handler in the queue writes
to it; then the first frame on its wire is the hello, or nothing can be written
there any more (`Greeting`, `HelloComesFirst`). `NobodyIsForgotten` is the part of
`AskedIsAnswered` that can be proved, for any number of connections: a tool that
has asked, is connected and has nothing to read is in somebody's hands
(`AskedIsInHand`). Its invariant `Hands` follows a request from the wire to the
handler that reads, forwards, writes or ends; that every hand moves on is left
to the fairness TLC checks it under. `Mail` gives the kinds of the frames on a
tool's wire and in the writes still to be made to it: one hello, first, and after
it answers and, once one was published, messages (`OnlyMessagesIntrude`).

`ChannelPolicyProofs` is about operators alone: what `Authorize` returns for a
broadcast satisfies `Consented`, for every table with at most one primary
(`AuthorizedIsConsented`). It rests on `ReachIsNamed`: a name reaches a channel
that bears it, or the unnamed primary by an alias.

`SendPathProofs`, for any senders, channel tables, allowlists and number of
parts, carries this through the link's changes: `Judged` says that a target kept
between judging and sending was authorised by the table kept with it, `Progress`
how many packets and tokens a sender has used at each of its steps, and neither
mentions `link`, which is why `Reopen` and `Drop` cannot disturb them. `Origin`
adds by which table each packet on the air was judged, and that it was read off
a link or is the empty one (`WildcardSlipsOnlyWhenDown`).

The models of the senders and of the gateway move the link by steps of their
own, and three theorems say that this is the manager's link. Next to anything
that moves the link as `RadioLink` allows, the senders' steps are those of
`SendSpec`, policy and tokens included (`AnyLinkWillDo`), and no sender moves
the link (`SendersLeaveTheLink`); `GatewayProofs` has its own `AnyLinkWillDo`,
for a radio whose channels change while it is away, and `AssumesALink`: the
gateway's specification, which opens and closes the link, uses it as a
`RadioLink`. By `ImplementsLink` the manager's link is one, whatever number of
threads call it.

`GatewayProofs`, for any radios, names, packets and settings. `IInv`: the
allowlist is what the settings give on the table it was resolved on
(`AllowlistOf`); a packet, an event and an answer have passed every gate that is
behind them (`Passed`, `Queued`, `Answers`), each judged by what was read at that
gate; and while nothing has happened to the link, its table is the one `connect()`
holds, then the one the allowlist was resolved on (`SteadyTable`).
`RepliesAreConsented` combines it with `ReachIsNamed`, `FreshAllowlist` is the
last part, and `AgreesWithBridge` shows that the three separate reads decide as
the simulator does in one. `NamesStayFollowed` is about `SettingsStay`, the
behaviours in which nobody edits the radio's channels; there all the adapter
holds was read off one table (`OneTable`).

`KnowledgeBaseProofs`, for any finite number of processes and nodes, with and
without failures. The idea is `Ahead`: what a process has not committed only
adds to what is committed, so whatever a commit starts from, nothing is taken
back (`NothingIsLost`). The books of a node then balance per packet in hand:
what `on_receive()` has still to do says which of its rows exist (`Tasks`,
`Recorded`, `LedgerOf`), and exactly so while nothing was cut short (`Exact`).
`SummariesAddUp` adds that what a process sees only grows unless it restarts, and
then its summary is gone too (`Counted`): between two counts under its lock the
rows grow by exactly those that others commit. `GatesHold` follows from the queries
alone, for any file, table and arguments. `OneProcessRecordsAll` assumes one
process and `~Faults`: nobody else changes the file between `upsert_node()`'s
question and its INSERT, so nothing is ever cut short (`Undisturbed`).

The proofs rest on the named assumptions `ManagerAssumption`,
`LimiterAssumption`, `NamesAssumption`, `SendAssumption`, `IpcAssumption`,
`GatewayAssumption`, `KnowledgeAssumption` and `ReadAssumption`: sets that are
disjoint, limits that are positive, aliases among the names, tables of at most
one primary, finitely many processes and nodes, packets and settings of the
right kind. TLC evaluates them in the runs of their modules.

Model-checked only: liveness (`SupervisorsStop`, `SupervisedLinkHeals`,
`SendEnds`, `AskedIsAnswered`, `CallsReturn`), which is out of the prover's
reach. No module uses a recursive operator, and nothing is proved by induction
over data.

## 6. Not modelled

* Plugin registration, schemas and manifests: data and wording. The first use of
  the shared objects (section 4) belongs here; the models start with them in
  place.
* The harness (`__main__.py`): command line and REPL around the tools. The bridge
  simulator's decision is `ProcessInbound`.
* The test rig and the scripts: developers' tools, sequential input and output.
* Inside the modelled parts: environment parsing, the reports (`state()`,
  `status()`, `snapshot()`), wording, formatting and splitting of texts, sort
  orders, and what the agent does with a message.
* A client of the service that never reads stops the answers to every other
  one, because one lock covers all writes (`adapter.py:656`). The model has the
  lock and the wait; its liveness assumes that peers read.
