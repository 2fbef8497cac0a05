------------------------------- MODULE Gateway -------------------------------
(***************************************************************************)
(* The adapter that makes the mesh a chat platform: its life cycle on the  *)
(* gateway's event loop, and what the radio's receive thread hands to the  *)
(* agent.                                                                  *)
(*                                                                         *)
(* Three parties share the adapter's fields and the link: the coroutine in *)
(* connect() or disconnect() with the executor thread it waits for, the    *)
(* receive thread in _on_rx(), and whoever else opens or loses the link    *)
(* (see ConnectionManager).  A step has at most one access to a field that *)
(* another of them writes.                                                 *)
(***************************************************************************)
EXTENDS ChannelPolicy, SequencesExt

CONSTANTS
    Me,          \* this node's id
    IdNames,     \* the forms of the id that count as a mention
    Word,        \* what texts and names are made of
    Radios,      \* settings the node may have: its channels, its names
    NoLink,
    Packets,     \* what arrives
    Configs,     \* the operator's settings
    MaxEvents    \* bound: packets waiting for the event loop

ASSUME GatewayAssumption ==
    /\ Me \in Node /\ NoLink \notin Radios /\ MaxEvents \in Nat \ {0}
    /\ IdNames \subseteq Seq(Word)
    /\ Radios \subseteq [table : Seq(Row), names : SUBSET Seq(Word)]
    /\ Packets \subseteq [kind : {"text", "other", "opaque"}, from : Node,
                          to : Optional(Node), channel : Nat, text : Seq(Word)]
    /\ Configs \subseteq [host : BOOLEAN, spec : Spec, mention : BOOLEAN,
                          sidecar : Optional(Spec), waits : BOOLEAN]

VARIABLES
    config,      \* the environment
    radio,       \* the node's own settings
    iface,       \* ConnectionManager._iface, by the settings it loaded
    opening,     \* somebody is inside ConnectionManager._open()
    phase,       \* where the gateway's calls of connect()/disconnect() stand
    subscribed,  \* _on_rx is subscribed
    seen,        \* the channel table connect() holds
    allowed,     \* allowed_channels
    identity,    \* the names of identity
    ipc,         \* _ipc_channel_index: _on_rx() publishes what comes on it
                 \* (MeshagatchiIpc)
    service,     \* "none": no IPC server, "idle": it has no client, "used": the
                 \* sidecar is connected to it
    steady,      \* history: no opening and no loss since the table was read
    resolvedOn,  \* history: the table allowed_channels was resolved against
    rx,          \* the packet the receive thread is handling
    events,      \* coroutines _dispatch() waiting for the loop
    answered     \* history: an event handled since the last packet arrived,
                 \* and where the answer went

adapter == <<phase, subscribed, seen, allowed, identity, ipc, service, resolvedOn>>
link == <<radio, iface, opening, steady>>
inbound == <<rx, events, answered>>
vars == <<config, adapter, link, inbound>>

Phases == {"new", "dialling", "dialled", "reading", "read", "ipc", "restarting",
           "starting", "on", "off", "unserving", "stopping", "closing"}

\* The connection as local_node_identity() and channel_table() see it.
MyNodeId == IF iface = NoLink THEN {} ELSE {Me}
ChannelTable == IF iface = NoLink THEN <<>> ELSE iface.table

\* _resolve_allowed_channels().
Allow(spec, table) == [all |-> spec.all, indices |-> Resolve(spec, table)]
Allowed == [all : BOOLEAN, indices : SUBSET Nat]

\* "linked", a history: whether there was a link when the packet was classified.
Event == [packet : Packets, dm : BOOLEAN, linked : BOOLEAN, judged : Seq(Row),
          known : SUBSET Seq(Word), text : Seq(Word)]
Reception == [packet : Packets, dm : BOOLEAN, linked : BOOLEAN, judged : Seq(Row),
              step : {"queued", "judge", "gate"}]
Target == [dest : Optional(Node), pki : BOOLEAN, index : Nat]

TypeOK ==
    /\ config \in Configs /\ radio \in Radios
    /\ iface \in Radios \cup {NoLink} /\ opening \in BOOLEAN
    /\ phase \in Phases
    /\ subscribed \in BOOLEAN /\ steady \in BOOLEAN
    /\ seen \in Seq(Row) /\ resolvedOn \in Seq(Row) /\ allowed \in Allowed
    /\ identity \subseteq Seq(Word) /\ ipc \subseteq Nat
    /\ service \in {"none", "idle", "used"}
    /\ rx \in Optional(Reception)
    /\ events \in Seq(Event)
    /\ answered \in Optional([event : Event, target : Target])

\* __init__(): before the first connect only numeric entries are resolved.
Init ==
    /\ config \in Configs /\ radio \in Radios
    /\ iface = NoLink /\ opening = FALSE
    /\ phase = "new" /\ subscribed = FALSE
    /\ seen = <<>> /\ resolvedOn = <<>>
    /\ allowed = Allow(config.spec, <<>>)
    /\ identity = {} /\ ipc = {} /\ service = "none" /\ steady = FALSE
    /\ rx = {} /\ events = <<>> /\ answered = {}

-----------------------------------------------------------------------------
(* The link, by the hand of the supervisor, of a tool or of a session. *)

\* _open() closes the interface there is; until it returns there is none, but
\* the library already delivers packets.
Open ==
    /\ ~opening /\ opening' = TRUE
    /\ iface' = NoLink /\ steady' = FALSE
    /\ UNCHANGED radio

\* The supervisor, and meshtastic_connect by a tool.
OthersOpen == Open /\ UNCHANGED <<config, adapter, inbound>>

\* A session starts: connects unless it finds the link up.
SessionStart ==
    /\ config.host /\ iface = NoLink
    /\ Open /\ UNCHANGED <<config, adapter, inbound>>

OpenEnds ==
    /\ opening /\ opening' = FALSE
    /\ iface' \in {radio, NoLink}
    /\ UNCHANGED <<config, radio, steady, adapter, inbound>>

Drop ==
    /\ iface # NoLink /\ iface' = NoLink /\ steady' = FALSE
    /\ UNCHANGED <<config, radio, opening, adapter, inbound>>

\* The operator renames or reorders the node's channels: it reboots.
Reconfigure ==
    /\ iface = NoLink /\ ~opening
    /\ radio' \in Radios \ {radio}
    /\ UNCHANGED <<config, iface, opening, steady, adapter, inbound>>

-----------------------------------------------------------------------------
(* connect() and disconnect(), one call at a time. *)

Enter(there) == phase' = there

\* Without a host the adapter gives up for good.
ConnectBegin ==
    /\ phase \in {"new", "off", "on"}
    /\ \/ config.host /\ Enter("dialling")
       \/ ~config.host /\ Enter("off")
    /\ UNCHANGED <<config, link, inbound, subscribed, seen, allowed, identity,
                   ipc, service, resolvedOn>>

\* The executor enters ConnectionManager.connect().
Dial ==
    /\ phase = "dialling" /\ Open /\ Enter("dialled")
    /\ UNCHANGED <<config, inbound, subscribed, seen, allowed, identity,
                   ipc, service, resolvedOn>>

\* Mutant: connect() waits until there is a link.
DialReturnsUp ==
    /\ phase = "dialled" /\ ~opening /\ iface # NoLink
    /\ subscribed' = TRUE /\ Enter("reading")
    /\ UNCHANGED <<config, link, inbound, seen, allowed, identity, ipc, service,
                   resolvedOn>>

\* status() says whether that produced a link; if another opening is under
\* way it says what this says after a loss.
DialReturns ==
    /\ phase = "dialled" /\ ~opening
    /\ \/ /\ iface = NoLink
          /\ Enter("off") /\ UNCHANGED subscribed
       \/ /\ iface # NoLink
          /\ subscribed' = TRUE /\ Enter("reading")
    /\ UNCHANGED <<config, link, inbound, seen, allowed, identity, ipc, service,
                   resolvedOn>>

\* channel_table(), in the executor; an exception counts as an empty table.
ReadTable ==
    /\ phase = "reading" /\ Enter("read")
    /\ \/ seen' = ChannelTable /\ steady' = (iface # NoLink)
       \/ seen' = <<>> /\ steady' = FALSE
    /\ UNCHANGED <<config, radio, iface, opening, inbound, subscribed,
                   allowed, identity, ipc, service, resolvedOn>>

\* What from_status() takes over; the node's names may not be known yet.
Known == IF iface = NoLink THEN {} ELSE IdNames
Identities ==
    {Known} \cup (IF iface = NoLink THEN {} ELSE {Known \cup iface.names})

\* Mutant: the radio's slots are counted from one.
ResolveFromOne ==
    /\ phase = "read" /\ Enter("ipc")
    /\ allowed' = [all |-> config.spec.all,
                   indices |-> {i - 1 : i \in Resolve(config.spec, seen)}]
    /\ resolvedOn' = seen /\ identity' \in Identities
    /\ UNCHANGED <<config, link, inbound, subscribed, seen, ipc,
                   service>>

\* Mutant: names that were resolved once are kept.
ResolveOnce ==
    /\ phase = "read" /\ Enter("ipc")
    /\ IF allowed.indices = {}
       THEN allowed' = Allow(config.spec, seen) /\ resolvedOn' = seen
       ELSE UNCHANGED <<allowed, resolvedOn>>
    /\ identity' \in Identities
    /\ UNCHANGED <<config, link, inbound, subscribed, seen, ipc,
                   service>>

ResolveNames ==
    /\ phase = "read" /\ Enter("ipc")
    /\ allowed' = Allow(config.spec, seen) /\ resolvedOn' = seen
    /\ identity' \in Identities
    /\ UNCHANGED <<config, link, inbound, subscribed, seen, ipc,
                   service>>

\* The indices of the sidecar's channel, when it is exactly one name.
Sidecar(spec, table) ==
    LET found == {n \in spec.names : Reach(table, n) # {}} IN
    {i \in UNION {Reach(table, n) : n \in found} : \A m, n \in found : m = n}

\* A service that runs is stopped first, whatever comes of the new one.
StartIpc ==
    /\ phase = "ipc"
    /\ \/ config.sidecar = {} /\ Enter("on") /\ seen' = <<>>
       \/ /\ config.sidecar # {} /\ UNCHANGED seen
          /\ Enter(IF service = "none" THEN "starting" ELSE "restarting")
    /\ UNCHANGED <<config, link, inbound, subscribed, allowed, identity, ipc, service,
                   resolvedOn>>

\* Server.wait_closed() does not return while the sidecar stays connected, from
\* Python 3.12 on.
Held == phase \in {"restarting", "unserving"} /\ service = "used" /\ config.waits

\* _stop_meshagatchi_ipc() returns to connect() or to disconnect().
IpcStopped ==
    /\ ~Held
    /\ \/ phase = "restarting" /\ Enter("starting")
       \/ phase = "unserving" /\ Enter("stopping")
    /\ ipc' = {} /\ service' = "none"
    /\ UNCHANGED <<config, link, inbound, subscribed, seen, allowed, identity,
                   resolvedOn>>

Found == UNION {Sidecar(s, seen) : s \in config.sidecar}

\* Something else than a socket may be in the way of the new one.
Serve ==
    /\ phase = "starting" /\ Enter("on") /\ seen' = <<>>
    /\ \/ Found = {} /\ UNCHANGED <<ipc, service>>
       \/ Found # {} /\ ipc' = Found /\ service' \in {"none", "idle"}
    /\ UNCHANGED <<config, link, inbound, subscribed, allowed, identity, resolvedOn>>

\* The gateway's timeout cancels connect() wherever it waits, or the socket
\* cannot be made: nothing is undone.
ConnectAbandoned ==
    /\ \/ phase \in {"dialled", "reading"} /\ UNCHANGED <<ipc, service>>
       \/ phase = "restarting" /\ service' = "none" /\ UNCHANGED ipc
       \/ phase = "starting" /\ Found # {} /\ ipc' = Found /\ UNCHANGED service
    /\ Enter("off") /\ seen' = <<>>
    /\ UNCHANGED <<config, link, inbound, subscribed, allowed, identity, resolvedOn>>

\* The sidecar connects to a server that listens, and leaves when it likes.
SidecarComes == service = "idle" /\ phase \notin {"restarting", "unserving"}
                /\ service' = "used"
SidecarGoes == service = "used" /\ service' = "idle"
SidecarMoves ==
    /\ SidecarComes \/ SidecarGoes
    /\ UNCHANGED <<config, link, inbound, phase, subscribed, seen, allowed, identity,
                   ipc, resolvedOn>>

StopIpc ==
    /\ phase \in {"on", "off"} /\ Enter("unserving")
    /\ UNCHANGED <<config, link, inbound, subscribed, seen, allowed, identity, ipc,
                   service, resolvedOn>>

Unsubscribe ==
    /\ phase = "stopping" /\ Enter("closing") /\ subscribed' = FALSE
    /\ UNCHANGED <<config, link, inbound, seen, allowed, identity, ipc, service,
                   resolvedOn>>

\* ConnectionManager.disconnect() waits for an opening to end.
Close ==
    /\ phase = "closing" /\ ~opening
    /\ Enter("off")
    /\ iface' = IF config.host THEN NoLink ELSE iface
    /\ steady' = (steady /\ ~config.host)
    /\ UNCHANGED <<config, radio, opening, inbound, subscribed, seen, allowed,
                   identity, ipc, service, resolvedOn>>

\* disconnect() is cancelled where it waits: what comes after is not done.
DisconnectAbandoned ==
    /\ phase \in {"unserving", "closing"} /\ Enter("off")
    /\ service' = "none"
    /\ UNCHANGED <<config, link, inbound, subscribed, seen, allowed, identity, ipc,
                   resolvedOn>>

-----------------------------------------------------------------------------
(* _on_rx(), on the receive thread. *)

\* The library queues a packet for its receive thread; it may be handled
\* after the link it came on is gone.
Arrive ==
    /\ rx = {} /\ (opening \/ iface # NoLink)
    /\ Len(events) < MaxEvents
    /\ \E p \in Packets :
        rx' = {[packet |-> p, dm |-> FALSE, linked |-> FALSE,
                judged |-> <<>>, step |-> "queued"]}
    /\ answered' = {}
    /\ UNCHANGED <<config, adapter, link, events>>

Ignore == rx' = {}

\* inbound_from_packet(): readable text of another node; a direct message is
\* recognised by the id of the interface there is now.
Readable(p, id) == p.kind = "text" /\ p.from \notin id /\ p.text # <<>>
IsDirect(p, id) == p.to # {} /\ p.to = id
Classify ==
    \E r \in rx :
        /\ r.step = "queued"
        /\ IF subscribed /\ Readable(r.packet, MyNodeId)
           THEN rx' = {[r EXCEPT !.step = "judge", !.dm = IsDirect(r.packet, MyNodeId),
                                 !.linked = (iface # NoLink)]}
           ELSE Ignore
        /\ UNCHANGED <<config, adapter, link, events, answered>>

\* Mutant: before the names are resolved every channel is as good as another.
ShouldReplyEarly(p, dm, allow) ==
    dm \/ allow.all \/ allow.indices = {} \/ p.channel \in allow.indices

\* should_reply(): direct messages, and the channels that are allowed.
ShouldReply(p, dm, allow) == dm \/ allow.all \/ p.channel \in allow.indices

Judge ==
    \E r \in rx :
        /\ r.step = "judge"
        /\ IF ShouldReply(r.packet, r.dm, allowed)
           THEN rx' = {[r EXCEPT !.step = "gate", !.judged = resolvedOn]}
           ELSE Ignore
        /\ UNCHANGED <<config, adapter, link, events, answered>>

\* match_mention(): the names a text opens with, and the text without the
\* longest of them.
Mentions(text, names) == {n \in names : IsPrefix(n, text)}
Longest(found) == {n \in found : \A m \in found : Len(m) <= Len(n)}
After(text, n) == SubSeq(text, Len(n) + 1, Len(text))

\* Mutant: without an identity nobody can be told from anybody.
GateOpen(p, dm, names) ==
    IF dm \/ ~config.mention \/ names = {} THEN {p.text}
    ELSE {After(p.text, n) : n \in Longest(Mentions(p.text, names))}

\* apply_mention_gate(): the text for the agent, or none.
MentionGate(p, dm, names) ==
    IF dm \/ ~config.mention THEN {p.text}
    ELSE {After(p.text, n) : n \in Longest(Mentions(p.text, names))}

\* Mutant: a direct message loses its first words too.
GateEverything ==
    \E r \in rx :
        /\ r.step = "gate" /\ Ignore
        /\ \/ \E text \in MentionGate(r.packet, FALSE, identity) :
                events' = Append(events, [packet |-> r.packet, dm |-> r.dm,
                    linked |-> r.linked, judged |-> r.judged, known |-> identity,
                    text |-> text])
           \/ MentionGate(r.packet, FALSE, identity) = {} /\ UNCHANGED events
        /\ UNCHANGED <<config, adapter, link, answered>>

Gate ==
    \E r \in rx :
        /\ r.step = "gate" /\ Ignore
        /\ \/ \E text \in MentionGate(r.packet, r.dm, identity) :
                events' = Append(events, [packet |-> r.packet, dm |-> r.dm,
                    linked |-> r.linked, judged |-> r.judged, known |-> identity,
                    text |-> text])
           \/ MentionGate(r.packet, r.dm, identity) = {} /\ UNCHANGED events
        /\ UNCHANGED <<config, adapter, link, answered>>

-----------------------------------------------------------------------------
\* Mutant: the conversation is always the channel's.
ChatOfChannel(p, dm) == [dest |-> {}, pki |-> FALSE, index |-> p.channel]

\* chat_id_for() and outbound_target(): the sender, encrypted, or the channel.
Chat(p, dm) == IF dm THEN [dest |-> {p.from}, pki |-> TRUE, index |-> 0]
               ELSE [dest |-> {}, pki |-> FALSE, index |-> p.channel]

\* The loop runs _dispatch(); the agent's answer comes back through send()
\* (see SendPath).  Without a handler the event is dropped.
Dispatch ==
    /\ events # <<>> /\ events' = Tail(events)
    /\ LET e == Head(events) IN
       \/ answered' = {[event |-> e, target |-> Chat(e.packet, e.dm)]}
       \/ UNCHANGED answered
    /\ UNCHANGED <<config, adapter, link, rx>>

\* process_inbound(), the same decision in one piece: the text and the target
\* of a reply, or none.
ProcessInbound(p, id, allow, names) ==
    {[text |-> t, target |-> Chat(p, IsDirect(p, id))] :
        t \in IF Readable(p, id) /\ ShouldReply(p, IsDirect(p, id), allow)
              THEN MentionGate(p, IsDirect(p, id), names) ELSE {}}

\* The bridge simulator learns the node's id when it starts and keeps it.
Bridge(p, table, names) == ProcessInbound(p, {Me}, Allow(config.spec, table), names)

Receives == Classify \/ Judge \/ Gate
Connects == Dial \/ DialReturns \/ ReadTable \/ ResolveNames \/ StartIpc \/ Serve
Disconnects == IpcStopped \/ Unsubscribe \/ Close

Next ==
    \/ OthersOpen \/ SessionStart \/ OpenEnds \/ Drop \/ Reconfigure
    \/ ConnectBegin \/ Connects \/ ConnectAbandoned
    \/ StopIpc \/ Disconnects \/ DisconnectAbandoned \/ SidecarMoves
    \/ Arrive \/ Receives \/ Dispatch

\* The loop and its executor run; an attempt to open the link returns, and
\* who waits for its lock gets a turn.
GatewaySpec ==
    /\ Init /\ [][Next]_vars
    /\ WF_vars(OpenEnds) /\ SF_vars(Connects \/ Disconnects)

-----------------------------------------------------------------------------
\* The events the agent has to answer, or has answered.
Taken == Range(events) \cup {a.event : a \in answered}

\* A reply on a channel needs the operator's consent (the public primary too).
MayReply(spec, table, i) == spec.all \/ Consented(spec, table, i)

\* The agent answers on a channel only if the operator listed it, by the
\* channel table the allowlist was last resolved against; nothing is guessed
\* before there is one (adapter.py:403-405, :552, gateway_bridge.py:474).
ScopeKept ==
    \A e \in Taken :
        ~e.dm => MayReply(config.spec, e.judged, e.packet.channel)

\* On a channel the agent hears only what opens with a name of this node that
\* the radio had reported, and hears it without the whole of that name
\* (gateway_bridge.py:325, :455-465).
AddressedOnly ==
    \A e \in Taken :
        ~e.dm /\ config.mention =>
            \E n \in e.known :
                /\ e.packet.text = n \o e.text
                /\ \A m \in e.known : IsPrefix(m, e.packet.text) => Len(m) <= Len(n)

\* A readable text that is addressed to this node, and was handled while there
\* was a link, is answered to its sender, encrypted; every other answer goes to
\* the channel the text came on, and needs the operator's consent: so does one
\* to a direct message that was handled while the link was down, which is not
\* recognised (adapter.py:885, gateway_bridge.py:63-73, 102-119).  README.md:280
\* makes no such exception.
AnswersGoBack ==
    \A a \in answered :
        LET e == a.event
            p == a.event.packet IN
        /\ p.kind = "text" /\ (e.linked => p.from # Me)
        /\ IF p.to = {Me} /\ e.linked
           THEN a.target = [dest |-> {p.from}, pki |-> TRUE, index |-> 0]
           ELSE /\ a.target = [dest |-> {}, pki |-> FALSE, index |-> p.channel]
                /\ MayReply(config.spec, e.judged, p.channel)

\* The adapter answers what the bridge simulator would answer with the same
\* channels and names, to the same target, unless it did not know its own id
\* (gateway_bridge.py:505, __main__.py:354).
BridgeAgrees ==
    \A a \in answered :
        LET e == a.event IN
        e.packet.from # Me /\ (e.packet.to = {Me} => e.dm) =>
            [text |-> e.text, target |-> a.target]
                \in Bridge(e.packet, e.judged, e.known)

\* When connect() has returned and the link it read the channels from is still
\* the one in use, the allowlist is that of the radio's channels
\* (adapter.py:538-552).
FreshAfterConnect ==
    phase = "on" /\ steady =>
        iface # NoLink /\ allowed = Allow(config.spec, iface.table)

Calling == phase \notin {"new", "on", "off"}

\* Every call of connect() and disconnect() returns, however openings by others,
\* losses, a timeout and a service to be stopped get in its way, unless in the
\* end it waits for a sidecar that never leaves (adapter.py:486, 583, 602, 635).
CallsReturn == []<>~Held => (Calling ~> ~Calling)

\* The allowlist is that of the radio in use after every connect and
\* reconnect (docs/architecture.md:125).
NamesFollowed ==
    phase = "on" /\ iface # NoLink /\ resolvedOn # <<>> =>
        allowed = Allow(config.spec, iface.table)
=============================================================================
