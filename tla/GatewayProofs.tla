---------------------------- MODULE GatewayProofs ----------------------------
(***************************************************************************)
(* The life cycle of the adapter and its receive path for any radios,      *)
(* channel tables, packets and settings of the operator.                   *)
(***************************************************************************)
EXTENDS Gateway, ChannelPolicyProofs, SequenceTheorems

-----------------------------------------------------------------------------
\* A text that starts with a name is that name and what comes after it.
LEMMA AfterPrefix ==
    ASSUME NEW t \in Seq(Word), NEW n \in Seq(Word), IsPrefix(n, t)
    PROVE  After(t, n) \in Seq(Word) /\ t = n \o After(t, n)
<1>1. Len(n) \in Nat /\ Len(t) \in Nat /\ Len(n) <= Len(t)
  BY LenProperties DEF IsPrefix
<1>2. SubSeq(t, 1, Len(n)) = n
  BY SubSeqFull DEF IsPrefix
<1>3. SubSeq(t, 1, Len(n)) \o SubSeq(t, Len(n) + 1, Len(t)) = SubSeq(t, 1, Len(t))
  <2>1. 1 \in 1 .. Len(t) + 1 /\ Len(n) \in 1 - 1 .. Len(t) /\ Len(t) \in Len(n) .. Len(t)
    BY <1>1
  <2> QED BY <2>1, ConcatAdjacentSubSeq
<1>4. SubSeq(t, 1, Len(t)) = t
  BY SubSeqFull
<1>5. \A i \in Len(n) + 1 .. Len(t) : t[i] \in Word
  BY <1>1, ElementOfSeq
<1>6. SubSeq(t, Len(n) + 1, Len(t)) \in Seq(Word)
  BY <1>1, <1>5, SubSeqProperties
<1> QED BY <1>2, <1>3, <1>4, <1>6 DEF After

\* What the mention gate lets through is a text, and on a channel with the
\* gate on it is what follows the longest name the text opens with.
LEMMA GateGivesRest ==
    ASSUME NEW p \in Packets, NEW dm \in BOOLEAN, NEW names \in SUBSET Seq(Word),
           NEW t \in MentionGate(p, dm, names), p.text \in Seq(Word)
    PROVE  /\ t \in Seq(Word)
           /\ ~dm /\ config.mention =>
                \E n \in names :
                   /\ p.text = n \o t
                   /\ \A m \in names : IsPrefix(m, p.text) => Len(m) <= Len(n)
<1>1. CASE dm \/ ~config.mention
  BY <1>1 DEF MentionGate
<1>2. CASE ~(dm \/ ~config.mention)
  <2>1. PICK n \in Longest(Mentions(p.text, names)) : t = After(p.text, n)
    BY <1>2 DEF MentionGate
  <2>2. n \in names /\ n \in Seq(Word) /\ IsPrefix(n, p.text)
    BY <2>1 DEF Longest, Mentions
  <2>3. t \in Seq(Word) /\ p.text = n \o t
    BY <2>1, <2>2, AfterPrefix
  <2>4. \A m \in names : IsPrefix(m, p.text) => Len(m) <= Len(n)
    BY <2>1 DEF Longest, Mentions
  <2> QED BY <2>2, <2>3, <2>4
<1> QED BY <1>1, <1>2

-----------------------------------------------------------------------------
\* The allowlist is that of the table it was resolved against.
AllowlistOf == allowed = Allow(config.spec, resolvedOn)

\* What inbound_from_packet() found of a packet it let through: a text of another
\* node, as far as this node's id was known, and whether it is addressed to it.
Classified(r) ==
    /\ r.packet.kind = "text" /\ r.packet.text # <<>>
    /\ r.linked => r.packet.from # Me
    /\ r.dm <=> r.packet.to = {Me} /\ r.linked

\* What a packet has passed when the receive thread is at a step of it.
Passed(r) ==
    /\ r.step # "queued" => Classified(r)
    /\ r.step = "gate" => ShouldReply(r.packet, r.dm, Allow(config.spec, r.judged))

\* What an event has passed.
PassedAll(e) ==
    /\ Classified(e)
    /\ ShouldReply(e.packet, e.dm, Allow(config.spec, e.judged))
    /\ e.text \in MentionGate(e.packet, e.dm, e.known)

Queued == \A k \in 1..Len(events) : PassedAll(events[k])
Answers == \A a \in answered :
               PassedAll(a.event) /\ a.target = Chat(a.event.packet, a.event.dm)

\* No link while one is being opened, and a table read off a link that has
\* not changed since is that link's.
SteadyTable ==
    /\ opening => iface = NoLink
    /\ steady => iface # NoLink
    /\ steady /\ phase = "read" => seen = iface.table
    /\ steady /\ phase \in {"ipc", "restarting", "starting", "on"} =>
          resolvedOn = iface.table

\* The inductive invariant.
IInv ==
    /\ TypeOK /\ AllowlistOf /\ (\A r \in rx : Passed(r)) /\ Queued /\ Answers
    /\ SteadyTable

-----------------------------------------------------------------------------
\* What the packets and settings are made of.
LEMMA Typing ==
    ASSUME GatewayAssumption, TypeOK
    PROVE  /\ config.spec \in Spec /\ config.mention \in BOOLEAN
           /\ config.host \in BOOLEAN
           /\ config.sidecar \subseteq Spec
           /\ \A p \in Packets : /\ p.text \in Seq(Word) /\ p.from \in Node
                                 /\ p.to \in Optional(Node) /\ p.channel \in Nat
           /\ \A r \in Radios : r.table \in Seq(Row) /\ r.names \subseteq Seq(Word)
           /\ ChannelTable \in Seq(Row)
           /\ \A x \in Identities : x \subseteq Seq(Word)
<1>1. config \in [host : BOOLEAN, spec : Spec, mention : BOOLEAN,
                  sidecar : Optional(Spec), waits : BOOLEAN]
  BY DEF GatewayAssumption, TypeOK
<1>2. \A r \in Radios : r.table \in Seq(Row) /\ r.names \subseteq Seq(Word)
  BY DEF GatewayAssumption
<1>3. ChannelTable \in Seq(Row)
  BY <1>2 DEF ChannelTable, TypeOK
<1>4. \A x \in Identities : x \subseteq Seq(Word)
  BY <1>2 DEF Identities, Known, TypeOK, GatewayAssumption
<1>5. \A p \in Packets : /\ p.text \in Seq(Word) /\ p.from \in Node
                         /\ p.to \in Optional(Node) /\ p.channel \in Nat
  BY DEF GatewayAssumption
<1> QED BY <1>1, <1>2, <1>3, <1>4, <1>5 DEF Optional

\* Resolving a specification gives an allowlist.
LEMMA AllowTyped ==
    ASSUME NEW T \in Seq(Row), NEW spec \in Spec
    PROVE  Allow(spec, T) \in Allowed
<1>1. Resolve(spec, T) \subseteq Nat /\ spec.all \in BOOLEAN
  BY ResolvedIsNat DEF Spec
<1> QED BY <1>1 DEF Allow, Allowed

LEMMA SidecarTyped ==
    ASSUME NEW T \in Seq(Row), NEW spec \in Spec
    PROVE  Sidecar(spec, T) \subseteq Nat
<1>1. \A n \in spec.names : Reach(T, n) \subseteq Nat
  BY ReachIsNamed
<1> QED BY <1>1 DEF Sidecar

-----------------------------------------------------------------------------
LEMMA InitIInv == ASSUME GatewayAssumption, Init PROVE IInv
<1>1. <<>> \in Seq(Row) /\ <<>> \in Seq(Event) /\ Len(<<>>) = 0
  BY EmptySeq
<1>2. config.spec \in Spec
  BY DEF Init, GatewayAssumption
<1>3. allowed \in Allowed
  BY <1>1, <1>2, AllowTyped DEF Init
<1>4. TypeOK
  BY <1>1, <1>3 DEF Init, TypeOK, Optional, Phases
<1>5. AllowlistOf /\ (\A r \in rx : Passed(r)) /\ Queued /\ Answers
  BY <1>1 DEF Init, AllowlistOf, Queued, Answers
<1>6. SteadyTable
  BY DEF Init, SteadyTable
<1> QED BY <1>4, <1>5, <1>6 DEF IInv

\* Steps that leave the packets on their way alone.
LEMMA InboundKept ==
    ASSUME IInv, UNCHANGED <<config, inbound>>
    PROVE  (\A r \in rx' : Passed(r)') /\ Queued' /\ Answers'
BY DEF IInv, inbound, Passed, Queued, PassedAll, Answers, MentionGate

LEMMA LinkStep ==
    ASSUME GatewayAssumption, IInv,
           OthersOpen \/ SessionStart \/ OpenEnds \/ Drop \/ Reconfigure
    PROVE  IInv'
<1>1. UNCHANGED <<config, adapter, inbound>>
  BY DEF OthersOpen, SessionStart, OpenEnds, Drop, Reconfigure
<1>2. (\A r \in rx' : Passed(r)') /\ Queued' /\ Answers'
  BY <1>1, InboundKept
<1>3. AllowlistOf'
  BY <1>1 DEF IInv, AllowlistOf, adapter
<1>4. TypeOK'
  BY <1>1 DEF IInv, TypeOK, adapter, inbound, OthersOpen, SessionStart, Open, OpenEnds,
              Drop, Reconfigure
<1>5. SteadyTable'
  BY <1>1 DEF IInv, SteadyTable, adapter, OthersOpen, SessionStart, Open, OpenEnds,
              Drop, Reconfigure
<1> QED BY <1>2, <1>3, <1>4, <1>5 DEF IInv

\* connect() and disconnect() change the adapter's fields and the link.
LEMMA ConnectStep ==
    ASSUME GatewayAssumption, IInv,
           \/ ConnectBegin \/ Connects \/ ConnectAbandoned
           \/ StopIpc \/ Disconnects \/ DisconnectAbandoned \/ SidecarMoves
    PROVE  IInv'
<1>1. UNCHANGED <<config, inbound>>
  BY DEF ConnectBegin, Connects, Dial, DialReturns, ReadTable, ResolveNames, StartIpc,
         Serve, ConnectAbandoned, StopIpc, Disconnects, IpcStopped, Unsubscribe, Close,
         DisconnectAbandoned, SidecarMoves, link
<1>2. (\A r \in rx' : Passed(r)') /\ Queued' /\ Answers'
  BY <1>1, InboundKept
<1>3. <<>> \in Seq(Row) /\ seen \in Seq(Row) /\ ChannelTable \in Seq(Row)
  BY EmptySeq, Typing DEF IInv, TypeOK
<1>4. AllowlistOf'
  BY <1>1 DEF IInv, AllowlistOf, ConnectBegin, Connects, Dial, DialReturns, ReadTable,
              ResolveNames, StartIpc, Serve, ConnectAbandoned, StopIpc, Disconnects,
              IpcStopped, Unsubscribe, Close, DisconnectAbandoned, SidecarMoves
<1>5. SteadyTable'
  <2> USE DEF IInv, SteadyTable, Enter
  <2>1. CASE ConnectBegin
    BY <2>1 DEF ConnectBegin, link
  <2>2. CASE Dial
    BY <2>2 DEF Dial, Open
  <2>3. CASE DialReturns
    BY <2>3 DEF DialReturns, link
  <2>4. CASE ReadTable
    BY <2>4 DEF ReadTable, ChannelTable
  <2>5. CASE ResolveNames
    BY <2>5 DEF ResolveNames, link
  <2>6. CASE StartIpc \/ Serve \/ IpcStopped
    BY <2>6 DEF StartIpc, Serve, IpcStopped, link
  <2>7. CASE ConnectAbandoned \/ StopIpc \/ Unsubscribe
    BY <2>7 DEF ConnectAbandoned, StopIpc, Unsubscribe, link
  <2>8. CASE Close
    BY <2>8 DEF Close
  <2>9. CASE DisconnectAbandoned \/ SidecarMoves
    BY <2>9 DEF DisconnectAbandoned, SidecarMoves, link
  <2> QED BY <2>1, <2>2, <2>3, <2>4, <2>5, <2>6, <2>7, <2>8, <2>9
          DEF Connects, Disconnects
<1>6. TypeOK'
  <2> USE <1>1, <1>3 DEF IInv, TypeOK, Enter, Phases, inbound
  <2>1. CASE ConnectBegin \/ Dial \/ DialReturns
    BY <2>1 DEF ConnectBegin, Dial, Open, DialReturns, link
  <2>2. CASE ReadTable
    BY <2>2 DEF ReadTable
  <2>3. CASE ResolveNames
    <3>1. Allow(config.spec, seen) \in Allowed /\ identity' \subseteq Seq(Word)
      BY <2>3, AllowTyped, Typing DEF ResolveNames
    <3> QED BY <2>3, <3>1 DEF ResolveNames, link
  <2>4. Found \subseteq Nat
    BY SidecarTyped, Typing DEF Found
  <2>5. CASE Serve
    BY <2>4, <2>5 DEF Serve, link
  <2>6. CASE StartIpc \/ IpcStopped \/ StopIpc
    BY <2>6 DEF StartIpc, IpcStopped, StopIpc, link
  <2>7. CASE ConnectAbandoned
    BY <2>4, <2>7 DEF ConnectAbandoned, link
  <2>8. CASE Unsubscribe \/ Close \/ DisconnectAbandoned
    BY <2>8 DEF Unsubscribe, Close, DisconnectAbandoned, link
  <2>9. CASE SidecarMoves
    BY <2>9 DEF SidecarMoves, SidecarComes, SidecarGoes, link
  <2> QED BY <2>1, <2>2, <2>3, <2>5, <2>6, <2>7, <2>8, <2>9 DEF Connects, Disconnects
<1> QED BY <1>2, <1>4, <1>5, <1>6 DEF IInv

-----------------------------------------------------------------------------
\* Steps of a packet and of its event leave the adapter and the link alone.
LEMMA AdapterKept ==
    ASSUME IInv, UNCHANGED <<config, adapter, link>>
    PROVE  AllowlistOf' /\ SteadyTable'
BY DEF IInv, AllowlistOf, SteadyTable, adapter, link

\* The type of what the receive thread and the loop write.
LEMMA InboundTyped ==
    ASSUME TypeOK, UNCHANGED <<config, adapter, link>>,
           rx' \in Optional(Reception), events' \in Seq(Event),
           answered' \in Optional([event : Event, target : Target])
    PROVE  TypeOK'
BY DEF TypeOK, adapter, link, Reception, Event

LEMMA ArriveStep == ASSUME GatewayAssumption, IInv, Arrive PROVE IInv'
<1>1. PICK p \in Packets :
        rx' = {[packet |-> p, dm |-> FALSE, linked |-> FALSE,
                judged |-> <<>>, step |-> "queued"]}
  BY DEF Arrive
<1>2. <<>> \in Seq(Row)
  BY EmptySeq
<1>3. UNCHANGED <<config, adapter, link, events>> /\ answered' = {}
  BY DEF Arrive
<1>4. TypeOK'
  <2>1. [packet |-> p, dm |-> FALSE, linked |-> FALSE,
                judged |-> <<>>, step |-> "queued"] \in Reception
    BY <1>2 DEF Reception
  <2>2. rx' \in Optional(Reception)
    BY <1>1, <2>1 DEF Optional
  <2>3. answered' \in Optional([event : Event, target : Target])
    BY <1>3 DEF Optional
  <2> QED BY <1>3, <2>2, <2>3, InboundTyped DEF IInv, TypeOK
<1>5. (\A r \in rx' : Passed(r)') /\ Answers'
  BY <1>1, <1>3 DEF Passed, Answers
<1>6. Queued'
  BY <1>3 DEF IInv, Queued, PassedAll, MentionGate
<1> QED BY <1>3, <1>4, <1>5, <1>6, AdapterKept DEF IInv

\* A packet that is refused leaves nothing behind.
LEMMA IgnoreStep ==
    ASSUME IInv, Ignore, UNCHANGED <<config, adapter, link, events, answered>>
    PROVE  IInv'
<1>1. rx' = {} /\ rx' \in Optional(Reception)
  BY DEF Ignore, Optional
<1>2. TypeOK'
  BY <1>1, InboundTyped DEF IInv, TypeOK
<1>3. (\A r \in rx' : Passed(r)') /\ Queued' /\ Answers'
  BY <1>1 DEF IInv, Queued, PassedAll, Answers, MentionGate
<1> QED BY <1>2, <1>3, AdapterKept DEF IInv

\* A packet that passes a step is one the next step may take.
LEMMA PassStep ==
    ASSUME IInv, UNCHANGED <<config, adapter, link, events, answered>>,
           NEW r \in Reception, rx' = {r}, Passed(r)
    PROVE  IInv'
<1>1. rx' \in Optional(Reception)
  BY DEF Optional
<1>2. TypeOK'
  BY <1>1, InboundTyped DEF IInv, TypeOK
<1>3. (\A x \in rx' : Passed(x)') /\ Queued' /\ Answers'
  BY DEF IInv, Passed, Queued, PassedAll, Answers, MentionGate
<1> QED BY <1>2, <1>3, AdapterKept DEF IInv

LEMMA ClassifyStep == ASSUME IInv, Classify PROVE IInv'
<1>1. PICK r \in rx :
        /\ r.step = "queued"
        /\ IF subscribed /\ Readable(r.packet, MyNodeId)
           THEN rx' = {[r EXCEPT !.step = "judge", !.dm = IsDirect(r.packet, MyNodeId),
                         !.linked = (iface # NoLink)]}
           ELSE Ignore
        /\ UNCHANGED <<config, adapter, link, events, answered>>
  BY DEF Classify
<1>2. r \in Reception
  BY DEF IInv, TypeOK, Optional
<1>3. CASE subscribed /\ Readable(r.packet, MyNodeId)
  <2> DEFINE next == [r EXCEPT !.step = "judge", !.dm = IsDirect(r.packet, MyNodeId),
                         !.linked = (iface # NoLink)]
  <2>1. next \in Reception
    BY <1>2 DEF Reception, IsDirect
  <2>2. /\ next.packet = r.packet /\ next.step = "judge"
        /\ next.dm = IsDirect(r.packet, MyNodeId) /\ next.linked = (iface # NoLink)
    BY <1>2 DEF Reception
  <2>3. Passed(next)
    <3>1. Classified(next)
      BY <1>3, <2>2 DEF Classified, Readable, IsDirect, MyNodeId
    <3> QED BY <2>2, <3>1 DEF Passed
  <2> HIDE DEF next
  <2>4. rx' = {next}
    BY <1>1, <1>3 DEF next
  <2> QED BY <1>1, <2>1, <2>3, <2>4, PassStep
<1>4. CASE ~(subscribed /\ Readable(r.packet, MyNodeId))
  BY <1>1, <1>4, IgnoreStep
<1> QED BY <1>3, <1>4

LEMMA JudgeStep == ASSUME IInv, Judge PROVE IInv'
<1>1. PICK r \in rx :
        /\ r.step = "judge"
        /\ IF ShouldReply(r.packet, r.dm, allowed)
           THEN rx' = {[r EXCEPT !.step = "gate", !.judged = resolvedOn]}
           ELSE Ignore
        /\ UNCHANGED <<config, adapter, link, events, answered>>
  BY DEF Judge
<1>2. r \in Reception /\ resolvedOn \in Seq(Row) /\ Passed(r)
  BY DEF IInv, TypeOK, Optional
<1>3. CASE ShouldReply(r.packet, r.dm, allowed)
  <2> DEFINE next == [r EXCEPT !.step = "gate", !.judged = resolvedOn]
  <2>1. next \in Reception
    BY <1>2 DEF Reception
  <2>2. /\ next.packet = r.packet /\ next.step = "gate" /\ next.dm = r.dm
        /\ next.judged = resolvedOn /\ next.linked = r.linked
    BY <1>2 DEF Reception
  <2>3. allowed = Allow(config.spec, next.judged)
    BY <2>2 DEF IInv, AllowlistOf
  <2>4. Passed(next)
    BY <1>1, <1>2, <1>3, <2>2, <2>3 DEF Passed, Classified
  <2> HIDE DEF next
  <2>5. rx' = {next}
    BY <1>1, <1>3 DEF next
  <2> QED BY <1>1, <2>1, <2>4, <2>5, PassStep
<1>4. CASE ~ShouldReply(r.packet, r.dm, allowed)
  BY <1>1, <1>4, IgnoreStep
<1> QED BY <1>3, <1>4

\* The event of a packet that passed every gate has passed them all.
LEMMA GateStep == ASSUME GatewayAssumption, IInv, Gate PROVE IInv'
<1>1. PICK r \in rx :
        /\ r.step = "gate" /\ Ignore
        /\ \/ \E text \in MentionGate(r.packet, r.dm, identity) :
                events' = Append(events, [packet |-> r.packet, dm |-> r.dm,
                    linked |-> r.linked, judged |-> r.judged, known |-> identity,
                    text |-> text])
           \/ MentionGate(r.packet, r.dm, identity) = {} /\ UNCHANGED events
        /\ UNCHANGED <<config, adapter, link, answered>>
  BY DEF Gate
<1>2. r \in Reception /\ Passed(r) /\ identity \in SUBSET Seq(Word) /\ events \in Seq(Event)
  BY DEF IInv, TypeOK, Optional
<1>3. CASE UNCHANGED events
  BY <1>1, <1>3, IgnoreStep
<1>4. CASE \E text \in MentionGate(r.packet, r.dm, identity) :
              events' = Append(events, [packet |-> r.packet, dm |-> r.dm,
                  linked |-> r.linked, judged |-> r.judged, known |-> identity,
                    text |-> text])
  <2>1. PICK text \in MentionGate(r.packet, r.dm, identity) :
          events' = Append(events, [packet |-> r.packet, dm |-> r.dm,
              linked |-> r.linked, judged |-> r.judged, known |-> identity,
                    text |-> text])
    BY <1>4
  <2> DEFINE e == [packet |-> r.packet, dm |-> r.dm, linked |-> r.linked,
                   judged |-> r.judged, known |-> identity, text |-> text]
  <2>2. /\ r.packet \in Packets /\ r.dm \in BOOLEAN /\ r.linked \in BOOLEAN
        /\ r.judged \in Seq(Row)
    BY <1>2 DEF Reception
  <2>3. text \in Seq(Word)
    BY <1>2, <2>2, GateGivesRest, Typing DEF IInv
  <2>4. e \in Event
    BY <1>2, <2>2, <2>3 DEF Event
  <2>5. PassedAll(e)
    BY <1>1, <1>2, <2>1 DEF Passed, PassedAll, Classified
  <2> HIDE DEF e
  <2>6. events' = Append(events, e)
    BY <2>1 DEF e
  <2>7. events' \in Seq(Event)
    BY <1>2, <2>4, <2>6
  <2>8. rx' = {} /\ rx' \in Optional(Reception)
    BY <1>1 DEF Ignore, Optional
  <2>9. TypeOK'
    BY <1>1, <2>7, <2>8, InboundTyped DEF IInv, TypeOK
  <2>10. Queued'
    <3>1. ASSUME NEW k \in 1..Len(events') PROVE PassedAll(events'[k])
      BY <1>2, <2>4, <2>5, <2>6, <3>1 DEF IInv, Queued
    <3> QED BY <1>1, <3>1 DEF Queued, PassedAll, MentionGate
  <2>11. (\A x \in rx' : Passed(x)') /\ Answers'
    BY <1>1, <2>8 DEF IInv, Answers, PassedAll, MentionGate
  <2> QED BY <1>1, <2>9, <2>10, <2>11, AdapterKept DEF IInv
<1> QED BY <1>1, <1>3, <1>4

LEMMA DispatchStep == ASSUME GatewayAssumption, IInv, Dispatch PROVE IInv'
<1> DEFINE e == Head(events)
           a == [event |-> e, target |-> Chat(e.packet, e.dm)]
<1>1. events # <<>> /\ events' = Tail(events) /\ UNCHANGED <<config, adapter, link, rx>>
  BY DEF Dispatch
<1>2. events \in Seq(Event)
  BY DEF IInv, TypeOK
<1>3. e \in Event /\ PassedAll(e)
  BY <1>1, <1>2 DEF IInv, Queued
<1>4. a \in [event : Event, target : Target] /\ a.event = e /\ a.target = Chat(e.packet, e.dm)
  <2>1. e.packet \in Packets
    BY <1>3 DEF Event
  <2>2. e.packet.from \in Node /\ e.packet.channel \in Nat
    BY <2>1, Typing DEF IInv
  <2>3. Chat(e.packet, e.dm) \in Target
    BY <2>2 DEF Chat, Target, Optional
  <2> QED BY <1>3, <2>3
<1> HIDE DEF e, a
<1>5. answered' = {a} \/ answered' = answered
  BY DEF Dispatch, e, a
<1>6. TypeOK'
  <2>1. answered' \in Optional([event : Event, target : Target])
    BY <1>4, <1>5 DEF IInv, TypeOK, Optional
  <2>2. events' \in Seq(Event)
    BY <1>1, <1>2
  <2> QED BY <1>1, <2>1, <2>2, InboundTyped DEF IInv, TypeOK
<1>7. Queued'
  <2>1. ASSUME NEW k \in 1..Len(events') PROVE PassedAll(events'[k])
    BY <1>1, <1>2 DEF IInv, Queued
  <2> QED BY <1>1, <2>1 DEF Queued, PassedAll, MentionGate
<1>8. Answers'
  <2>1. ASSUME NEW b \in answered'
        PROVE  PassedAll(b.event) /\ b.target = Chat(b.event.packet, b.event.dm)
    BY <1>3, <1>4, <1>5 DEF IInv, Answers
  <2> QED BY <1>1, <2>1 DEF Answers, PassedAll, MentionGate
<1>9. \A r \in rx' : Passed(r)'
  BY <1>1 DEF IInv, Passed
<1> QED BY <1>1, <1>6, <1>7, <1>8, <1>9, AdapterKept DEF IInv

LEMMA StutterStep == ASSUME IInv, UNCHANGED vars PROVE IInv'
<1>1. UNCHANGED <<config, adapter, link, inbound>>
  BY DEF vars
<1>2. TypeOK'
  BY <1>1 DEF IInv, TypeOK, adapter, link, inbound, Event, Reception
<1> QED BY <1>1, <1>2, InboundKept, AdapterKept DEF IInv

\* Every step of the adapter, of the receive thread and of whoever else uses
\* the link keeps the invariant.
LEMMA NextIInv == ASSUME GatewayAssumption, IInv, [Next]_vars PROVE IInv'
<1>1. CASE OthersOpen \/ SessionStart \/ OpenEnds \/ Drop \/ Reconfigure
  BY <1>1, LinkStep
<1>2. CASE \/ ConnectBegin \/ Connects \/ ConnectAbandoned
           \/ StopIpc \/ Disconnects \/ DisconnectAbandoned \/ SidecarMoves
  BY <1>2, ConnectStep
<1>3. CASE Arrive
  BY <1>3, ArriveStep
<1>4. CASE Receives
  BY <1>4, ClassifyStep, JudgeStep, GateStep DEF Receives
<1>5. CASE Dispatch
  BY <1>5, DispatchStep
<1>6. CASE UNCHANGED vars
  BY <1>6, StutterStep
<1> QED BY <1>1, <1>2, <1>3, <1>4, <1>5, <1>6 DEF Next

\* IInv is inductive: it holds in every reachable state.
THEOREM Inductive == ASSUME GatewayAssumption PROVE GatewaySpec => []IInv
<1>1. Init => IInv
  BY InitIInv
<1>2. IInv /\ [Next]_vars => IInv'
  BY NextIInv
<1> QED BY <1>1, <1>2, PTL DEF GatewaySpec

\* Whatever waits for an answer, or was answered, has passed every gate.
LEMMA TakenPassed ==
    ASSUME IInv, NEW e \in Taken PROVE e \in Event /\ PassedAll(e)
<1>1. CASE e \in Range(events)
  <2>1. events \in Seq(Event)
    BY DEF IInv, TypeOK
  <2>2. PICK k \in 1..Len(events) : e = events[k]
    BY <1>1, <2>1, RangeEquality
  <2> QED BY <2>1, <2>2, ElementOfSeq DEF IInv, Queued
<1>2. CASE e \in {a.event : a \in answered}
  BY <1>2 DEF IInv, TypeOK, Answers, Optional
<1> QED BY <1>1, <1>2 DEF Taken

-----------------------------------------------------------------------------
\* Every variable keeps its type.
THEOREM TypeCorrect == ASSUME GatewayAssumption PROVE GatewaySpec => []TypeOK
<1>1. IInv => TypeOK
  BY DEF IInv
<1> QED BY <1>1, Inductive, PTL

\* What has passed every gate is in scope.
LEMMA InvScopeKept == IInv => ScopeKept
<1> SUFFICES ASSUME IInv, NEW e \in Taken, ~e.dm
             PROVE  MayReply(config.spec, e.judged, e.packet.channel)
  BY DEF ScopeKept
<1>1. e \in Event /\ PassedAll(e)
  BY TakenPassed
<1>2. e.judged \in Seq(Row)
  BY <1>1 DEF Event
<1>3. config.spec.all \/ e.packet.channel \in Resolve(config.spec, e.judged)
  BY <1>1 DEF PassedAll, ShouldReply, Allow
<1> QED BY <1>2, <1>3, ResolvedIsConsented DEF MayReply

\* The agent answers on a channel only if the operator listed it, by the table
\* the allowlist was last resolved against (gateway_bridge.py:474).
THEOREM RepliesAreConsented ==
    ASSUME GatewayAssumption PROVE GatewaySpec => []ScopeKept
BY InvScopeKept, Inductive, PTL

\* On a channel the agent hears only what opens with a name of its own, and
\* without the whole of that name (gateway_bridge.py:325, :455).
THEOREM HearsItsNames ==
    ASSUME GatewayAssumption PROVE GatewaySpec => []AddressedOnly
<1>1. IInv => AddressedOnly
  <2> SUFFICES ASSUME IInv, NEW e \in Taken, ~e.dm /\ config.mention
               PROVE  \E n \in e.known :
                         /\ e.packet.text = n \o e.text
                         /\ \A m \in e.known : IsPrefix(m, e.packet.text) => Len(m) <= Len(n)
    BY DEF AddressedOnly
  <2>1. e \in Event /\ PassedAll(e)
    BY TakenPassed
  <2>2. e.packet \in Packets /\ e.dm \in BOOLEAN /\ e.known \in SUBSET Seq(Word)
    BY <2>1 DEF Event
  <2>3. e.packet.text \in Seq(Word) /\ e.text \in MentionGate(e.packet, e.dm, e.known)
    BY <2>1, <2>2, Typing DEF IInv, PassedAll
  <2> QED BY <2>2, <2>3, GateGivesRest
<1> QED BY <1>1, Inductive, PTL

\* What is addressed to this node, and was handled while there was a link, is
\* answered to its sender, encrypted; every other answer goes to the channel the
\* text came on, with the operator's consent (gateway_bridge.py:63-73, 102-119).
THEOREM AnswersReturn ==
    ASSUME GatewayAssumption PROVE GatewaySpec => []AnswersGoBack
<1>1. IInv => AnswersGoBack
  <2> SUFFICES ASSUME IInv, NEW a \in answered
               PROVE  LET e == a.event
                          p == a.event.packet IN
                      /\ p.kind = "text" /\ (e.linked => p.from # Me)
                      /\ IF p.to = {Me} /\ e.linked
                         THEN a.target = [dest |-> {p.from}, pki |-> TRUE, index |-> 0]
                         ELSE /\ a.target = [dest |-> {}, pki |-> FALSE, index |-> p.channel]
                              /\ MayReply(config.spec, e.judged, p.channel)
    BY DEF AnswersGoBack
  <2>1. PassedAll(a.event) /\ a.target = Chat(a.event.packet, a.event.dm)
    BY DEF IInv, Answers
  <2>2. a.event.dm <=> a.event.packet.to = {Me} /\ a.event.linked
    BY <2>1 DEF PassedAll, Classified
  <2>3. ~a.event.dm => MayReply(config.spec, a.event.judged, a.event.packet.channel)
    BY InvScopeKept DEF ScopeKept, Taken
  <2> QED BY <2>1, <2>2, <2>3 DEF PassedAll, Classified, Chat
<1> QED BY <1>1, Inductive, PTL

\* The adapter's asynchronous path decides as the one-piece process_inbound()
\* of the bridge simulator (gateway_bridge.py:505).
THEOREM AgreesWithBridge ==
    ASSUME GatewayAssumption PROVE GatewaySpec => []BridgeAgrees
<1>1. IInv => BridgeAgrees
  <2> SUFFICES ASSUME IInv, NEW a \in answered, a.event.packet.from # Me,
                      a.event.packet.to = {Me} => a.event.dm
               PROVE  [text |-> a.event.text, target |-> a.target]
                         \in Bridge(a.event.packet, a.event.judged, a.event.known)
    BY DEF BridgeAgrees
  <2> DEFINE e == a.event
             p == a.event.packet
  <2>1. e \in Event /\ PassedAll(e) /\ a.target = Chat(p, e.dm)
    BY DEF IInv, TypeOK, Answers, Optional
  <2>2. IsDirect(p, {Me}) = e.dm
    BY <2>1 DEF PassedAll, Classified, IsDirect, Event
  <2>3. Readable(p, {Me})
    BY <2>1 DEF PassedAll, Classified, Readable
  <2>4. /\ ShouldReply(p, IsDirect(p, {Me}), Allow(config.spec, e.judged))
        /\ e.text \in MentionGate(p, IsDirect(p, {Me}), e.known)
        /\ a.target = Chat(p, IsDirect(p, {Me}))
    BY <2>1, <2>2 DEF PassedAll
  <2> QED BY <2>3, <2>4 DEF Bridge, ProcessInbound
<1> QED BY <1>1, Inductive, PTL

\* When connect() has returned and the link it read the channels from is still
\* in use, the allowlist is that of the radio's channels (adapter.py:538-552).
THEOREM FreshAllowlist ==
    ASSUME GatewayAssumption PROVE GatewaySpec => []FreshAfterConnect
<1>1. IInv => FreshAfterConnect
  BY DEF IInv, AllowlistOf, SteadyTable, FreshAfterConnect
<1> QED BY <1>1, Inductive, PTL

-----------------------------------------------------------------------------
(* The gateway and the manager's link (see RadioLink) *)

Manager == INSTANCE RadioLink WITH Links <- Radios

\* Every step of the gateway, of the agent's tools and sessions, and of the
\* radio itself is a step of the link or leaves it alone.
LEMMA UsesLink ==
    ASSUME IInv, [Next]_vars
    PROVE  [Manager!Next]_<<iface, opening>>
<1> USE DEF Manager!Next, Manager!Open, Manager!OpenEnds, Manager!Drop
<1>1. CASE OthersOpen \/ SessionStart \/ Dial
  BY <1>1 DEF OthersOpen, SessionStart, Dial, Open
<1>2. CASE OpenEnds
  BY <1>2 DEF OpenEnds, IInv, TypeOK, SteadyTable
<1>3. CASE Drop \/ Close
  BY <1>3 DEF Drop, Close
<1>4. CASE Reconfigure
  BY <1>4 DEF Reconfigure
<1>5. CASE \/ ConnectBegin \/ DialReturns \/ ReadTable \/ ResolveNames \/ StartIpc
           \/ Serve \/ IpcStopped \/ ConnectAbandoned \/ StopIpc \/ Unsubscribe
           \/ DisconnectAbandoned \/ SidecarMoves
  BY <1>5 DEF ConnectBegin, DialReturns, ReadTable, ResolveNames, StartIpc, Serve,
              IpcStopped, ConnectAbandoned, StopIpc, Unsubscribe, DisconnectAbandoned,
              SidecarMoves, link
<1>6. CASE Arrive \/ Receives \/ Dispatch
  BY <1>6 DEF Arrive, Receives, Classify, Judge, Gate, Dispatch, link
<1>7. CASE UNCHANGED vars
  BY <1>7 DEF vars, link
<1> QED BY <1>1, <1>2, <1>3, <1>4, <1>5, <1>6, <1>7 DEF Next, Connects, Disconnects

\* What the gateway assumes of the link, and asks of it, is what the manager
\* promises: its link is a RadioLink (connection.py:380-386, :439-464).
THEOREM AssumesALink == ASSUME GatewayAssumption PROVE GatewaySpec => Manager!Spec
<1>1. Init => Manager!Init
  BY DEF Init, Manager!Init
<1>2. IInv /\ [Next]_vars => [Manager!Next]_<<iface, opening>>
  BY UsesLink
<1> QED BY <1>1, <1>2, Inductive, PTL DEF GatewaySpec, Manager!Spec

\* A step of the link that is not the gateway's: what it brings, when it brings
\* a link, has the settings of the radio.
LinkMoves ==
    /\ Manager!Next
    /\ iface' \in {radio, NoLink} /\ steady' = (steady /\ iface' # NoLink)
    /\ UNCHANGED <<config, radio, adapter, inbound>>

\* The gateway next to anything that behaves as the link.
OnAnyLink == Init /\ [][Next \/ LinkMoves]_vars

\* The model leaves out nothing the link may do: next to anything that moves
\* the link as RadioLink allows, the gateway's steps are those of its own
\* specification, and the replies stay in scope.
THEOREM AnyLinkWillDo ==
    ASSUME GatewayAssumption
    PROVE  OnAnyLink => Init /\ [][Next]_vars /\ []ScopeKept
<1>1. IInv /\ LinkMoves => Next
  <2> SUFFICES ASSUME IInv, LinkMoves PROVE Next
    OBVIOUS
  <2>1. steady \in BOOLEAN /\ (opening => iface = NoLink) /\ (steady => iface # NoLink)
    BY DEF IInv, TypeOK, SteadyTable
  <2>2. CASE Manager!Open
    BY <2>1, <2>2 DEF LinkMoves, Manager!Open, Next, OthersOpen, Open
  <2>3. CASE Manager!OpenEnds
    BY <2>1, <2>3 DEF LinkMoves, Manager!OpenEnds, Next, OpenEnds
  <2>4. CASE Manager!Drop
    BY <2>1, <2>4 DEF LinkMoves, Manager!Drop, Next, Drop
  <2> QED BY <2>2, <2>3, <2>4 DEF LinkMoves, Manager!Next
<1>2. IInv /\ [Next \/ LinkMoves]_vars => [Next]_vars /\ IInv'
  BY <1>1, NextIInv
<1>3. IInv => ScopeKept
  BY InvScopeKept
<1> QED BY <1>2, <1>3, InitIInv, PTL DEF OnAnyLink
-----------------------------------------------------------------------------
(* A radio whose settings stay *)

\* The operator leaves the radio's channels alone.
SettingsStay == Init /\ [][Next /\ UNCHANGED radio]_vars

\* Whatever the adapter holds of the channels was read off this radio.
OneTable ==
    /\ iface \in {radio, NoLink}
    /\ seen \in {<<>>, radio.table} /\ resolvedOn \in {<<>>, radio.table}

\* As long as the operator does not change the radio's channels the allowlist,
\* once resolved, is that of the radio in use, through any number of losses,
\* openings by others and calls of connect() cut short (docs/architecture.md:125):
\* only a change between two calls of connect() can leave it behind
\* (adapter.py:538-552).
THEOREM NamesStayFollowed ==
    ASSUME GatewayAssumption
    PROVE  SettingsStay => []NamesFollowed
<1>1. Init => OneTable
  BY DEF Init, OneTable
<1>2. ASSUME OneTable, [Next /\ UNCHANGED radio]_vars
      PROVE  OneTable'
  <2> USE DEF OneTable
  <2>1. radio' = radio
    BY <1>2 DEF vars, link
  <2>2. CASE OthersOpen \/ SessionStart \/ Dial
    BY <1>2, <2>1, <2>2 DEF OthersOpen, SessionStart, Dial, Open, adapter
  <2>3. CASE OpenEnds \/ Drop \/ Reconfigure
    BY <1>2, <2>1, <2>3 DEF OpenEnds, Drop, Reconfigure, adapter
  <2>4. CASE ReadTable
    BY <1>2, <2>1, <2>4 DEF ReadTable, ChannelTable
  <2>5. CASE ResolveNames \/ StartIpc \/ Serve \/ ConnectAbandoned \/ Close
    BY <1>2, <2>1, <2>5 DEF ResolveNames, StartIpc, Serve, ConnectAbandoned, Close, link
  <2>6. CASE \/ ConnectBegin \/ DialReturns \/ StopIpc \/ Unsubscribe
             \/ IpcStopped \/ DisconnectAbandoned \/ SidecarMoves
    BY <1>2, <2>1, <2>6 DEF ConnectBegin, DialReturns, StopIpc, Unsubscribe, IpcStopped,
                            DisconnectAbandoned, SidecarMoves, link
  <2>7. CASE Arrive \/ Receives \/ Dispatch
    <3>1. UNCHANGED <<adapter, link>>
      <4>1. CASE Arrive \/ Dispatch
        BY <4>1 DEF Arrive, Dispatch
      <4>2. CASE Classify
        BY <4>2, Zenon DEF Classify
      <4>3. CASE Judge
        BY <4>3, Zenon DEF Judge
      <4>4. CASE Gate
        BY <4>4 DEF Gate
      <4> QED BY <2>7, <4>1, <4>2, <4>3, <4>4 DEF Receives
    <3> QED BY <1>2, <3>1 DEF adapter, link
  <2>8. CASE UNCHANGED vars
    BY <1>2, <2>8 DEF vars, adapter, link
  <2> QED BY <1>2, <2>2, <2>3, <2>4, <2>5, <2>6, <2>7, <2>8
          DEF Next, Connects, Disconnects
<1>3. IInv /\ [Next /\ UNCHANGED radio]_vars => IInv'
  BY NextIInv
<1>4. IInv /\ OneTable => NamesFollowed
  BY DEF IInv, AllowlistOf, OneTable, NamesFollowed
<1> QED BY <1>1, <1>2, <1>3, <1>4, InitIInv, PTL DEF SettingsStay
=============================================================================
