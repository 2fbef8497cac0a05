------------------------------- MODULE SendPath -------------------------------
(***************************************************************************)
(* Every way a packet leaves the plugin: the tool meshtastic_send_text,    *)
(* the adapter's answers and the sidecar's messages, all through           *)
(* tools.send_text().                                                      *)
(*                                                                         *)
(* A sender is a thread in send_text(), or the adapter's send() with the   *)
(* executor thread it waits for; send() calls send_text() part by part.    *)
(* The radio link is shared and changes between any two steps (see         *)
(* ConnectionManager): link is the channel table of the interface in use.  *)
(* The limiter (see TransmitLimiter) is one step that admits or refuses.   *)
(***************************************************************************)
EXTENDS ChannelPolicy

CONSTANTS
    Senders,
    Tables,       \* channel tables an interface may have
    NoLink,
    ToolSpecs,    \* values of MESHTASTIC_TOOL_SEND_CHANNELS
    SidecarSpec,  \* MESHTASTIC_MESHAGATCHI_CHANNEL
    Indices,      \* bound: the channel indices calls mention
    MaxParts      \* _MAX_PARTS

ASSUME SendAssumption ==
    /\ \A t \in Tables : t \in Seq(Row) /\ OnePrimary(t)
    /\ NoLink \notin Tables
    /\ ToolSpecs \subseteq Spec /\ SidecarSpec \in Spec
    /\ Indices \subseteq Int /\ MaxParts \in Nat \ {0}

VARIABLES
    toolSpec,  \* the environment's allowlist
    link,      \* ConnectionManager._iface, by its channel table
    pc,        \* what each sender does next
    call,      \* its call
    part,      \* the part it is sending
    target,    \* what validate_tool_send() returned, and the table it read
    held,      \* the interface it took, by its channel table
    aired,     \* history: the packets of the call handed to an interface
    charged,   \* history: the budget tokens of the call
    result     \* how its last call ended

vars == <<toolSpec, link, pc, call, part, target, held, aired, charged, result>>

Steps == {"idle", "judge", "test", "take", "charge", "send", "wait"}
Results == {"none", "success", "refused", "no link", "limited", "lost"}
Links == Tables \cup {NoLink}

\* outbound_target(): a chat is a node or a channel.
ToNode(n)    == [dest |-> {n}, pki |-> TRUE,  name |-> {}, index |-> {0}]
ToChannel(i) == [dest |-> {},  pki |-> FALSE, name |-> {}, index |-> {i}]

\* A tool call is one packet.  Answers never wait for an acknowledgement.
Calls == [from : {"tool", "gateway", "sidecar"}, args : Args,
          parts : 0..MaxParts, wait : BOOLEAN]
Answer(from, args, parts) ==
    [from |-> from, args |-> args, parts |-> parts, wait |-> FALSE]

\* The allowlist that judges a call: channel_spec overrides the environment.
SpecOf(c) == IF c.from = "sidecar" THEN SidecarSpec ELSE toolSpec

\* A packet: the index in its header, the table that authorised it and the
\* table of the interface that carried it.
Packet == [part : Nat, index : Nat, judged : Seq(Row), on : Seq(Row)]

TypeOK ==
    /\ toolSpec \in Spec /\ link \in Links
    /\ pc \in [Senders -> Steps] /\ call \in [Senders -> Calls]
    /\ part \in [Senders -> Nat] /\ charged \in [Senders -> Nat]
    /\ target \in [Senders -> Optional([index : Nat, judged : Seq(Row)])]
    /\ held \in [Senders -> Links]
    /\ aired \in [Senders -> Seq(Packet)]
    /\ result \in [Senders -> Results]

Init ==
    /\ toolSpec \in ToolSpecs /\ link = NoLink
    /\ pc = [s \in Senders |-> "idle"]
    /\ call = [s \in Senders |-> Answer("gateway", ToChannel(0), 0)]
    /\ part = [s \in Senders |-> 1] /\ charged = [s \in Senders |-> 0]
    /\ target = [s \in Senders |-> {}] /\ held = [s \in Senders |-> NoLink]
    /\ aired = [s \in Senders |-> <<>>] /\ result = [s \in Senders |-> "none"]

-----------------------------------------------------------------------------
At(s, here) == pc[s] = here
Go(s, there) == pc' = [pc EXCEPT ![s] = there]

\* The locals of send_text() are gone when it returns.
Forget(s) == /\ target' = [target EXCEPT ![s] = {}]
             /\ held' = [held EXCEPT ![s] = NoLink]
Finish(s, how) == Go(s, "idle") /\ result' = [result EXCEPT ![s] = how]

\* Mutant: a failed part is skipped, the rest of the answer still goes out.
FailPart(s, how) ==
    /\ Forget(s)
    /\ IF part[s] < call[s].parts
       THEN Go(s, "judge") /\ part' = [part EXCEPT ![s] = @ + 1] /\ UNCHANGED result
       ELSE Finish(s, how) /\ UNCHANGED part

\* A part that failed ends the answer, one that was handed over is followed
\* by the next.
Fail(s, how) == Forget(s) /\ Finish(s, how) /\ UNCHANGED part

NextPart(s) ==
    /\ Forget(s)
    /\ \/ /\ part[s] < call[s].parts
          /\ Go(s, "judge") /\ part' = [part EXCEPT ![s] = @ + 1]
          /\ UNCHANGED result
       \/ /\ part[s] >= call[s].parts
          /\ Finish(s, "success") /\ UNCHANGED part

-----------------------------------------------------------------------------
\* A call comes in; an answer without text is a success at once.
Start(s, c) ==
    /\ call' = [call EXCEPT ![s] = c] /\ part' = [part EXCEPT ![s] = 1]
    /\ aired' = [aired EXCEPT ![s] = <<>>] /\ charged' = [charged EXCEPT ![s] = 0]
    /\ IF c.parts = 0 THEN Finish(s, "success")
       ELSE Go(s, "judge") /\ result' = [result EXCEPT ![s] = "none"]
    /\ UNCHANGED <<toolSpec, link, target, held>>

\* The agent calls the tool with whatever arguments it likes.
ToolCalls(s) ==
    /\ At(s, "idle")
    /\ \E d \in Optional(Node), n \in Optional(Name), i \in Optional(Indices),
          pki, wait \in BOOLEAN :
        Start(s, [from |-> "tool", parts |-> 1, wait |-> wait,
                  args |-> [dest |-> d, pki |-> pki, name |-> n, index |-> i]])

\* The gateway answers a node, or the channel a message came in on.
GatewayAnswers(s) ==
    /\ At(s, "idle")
    /\ \E k \in 0..MaxParts :
        \/ \E n \in Node : Start(s, Answer("gateway", ToNode(n), k))
        \/ \E i \in Indices \cap Nat : Start(s, Answer("gateway", ToChannel(i), k))

\* The sidecar's channel was resolved when the adapter connected, on a table
\* the radio had then.
SidecarSends(s) ==
    /\ At(s, "idle")
    /\ \E t \in Tables, k \in 1..MaxParts : \E i \in Resolve(SidecarSpec, t) :
        Start(s, Answer("sidecar", ToChannel(i), k))

\* What channel_table() reads off the interface in use.
ChannelTable == IF link = NoLink THEN <<>> ELSE link

\* validate_tool_send().
Judge(s) ==
    /\ At(s, "judge")
    /\ LET ok == Authorize(call[s].args, ChannelTable, SpecOf(call[s])) IN
       \/ /\ ok = {} /\ Fail(s, "refused")
       \/ \E i \in ok :
            /\ target' = [target EXCEPT ![s] = {[index |-> i, judged |-> ChannelTable]}]
            /\ Go(s, "test") /\ UNCHANGED <<part, held, result>>
    /\ UNCHANGED <<toolSpec, link, call, aired, charged>>

\* Mutant: the budget is charged before the interface is known.
TestCharged(s) ==
    /\ At(s, "test")
    /\ charged' = [charged EXCEPT ![s] = @ + 1]
    /\ \/ /\ link = NoLink /\ Fail(s, "no link")
       \/ /\ link # NoLink /\ Go(s, "take") /\ UNCHANGED <<part, target, held, result>>
    /\ UNCHANGED <<toolSpec, link, call, aired>>

\* The iface property: a test, then a second read that is returned.
Test(s) ==
    /\ At(s, "test")
    /\ \/ /\ link = NoLink /\ Fail(s, "no link")
       \/ /\ link # NoLink /\ Go(s, "take") /\ UNCHANGED <<part, target, held, result>>
    /\ UNCHANGED <<toolSpec, link, call, aired, charged>>

Take(s) ==
    /\ At(s, "take")
    /\ held' = [held EXCEPT ![s] = link]
    /\ Go(s, "charge")
    /\ UNCHANGED <<toolSpec, link, call, part, target, aired, charged, result>>

\* check_send().
Charge(s) ==
    /\ At(s, "charge")
    /\ \/ /\ Fail(s, "limited") /\ UNCHANGED charged
       \/ /\ charged' = [charged EXCEPT ![s] = @ + 1]
          /\ Go(s, "send") /\ UNCHANGED <<part, target, held, result>>
    /\ UNCHANGED <<toolSpec, link, call, aired>>

\* sendData(): raises without an interface and may raise on any; otherwise
\* the packet is the interface's.
Send(s) ==
    /\ At(s, "send")
    /\ \/ /\ Fail(s, "lost") /\ UNCHANGED aired
       \/ /\ held[s] # NoLink
          /\ \E t \in target[s] :
                aired' = [aired EXCEPT ![s] = Append(@,
                    [part |-> part[s], index |-> t.index,
                     judged |-> t.judged, on |-> held[s]])]
          /\ IF call[s].wait
             THEN Go(s, "wait") /\ UNCHANGED <<part, target, held, result>>
             ELSE NextPart(s)
    /\ UNCHANGED <<toolSpec, link, call, charged>>

\* The acknowledgement, or its absence, is reported and changes nothing else.
Acknowledged(s) ==
    /\ At(s, "wait") /\ NextPart(s)
    /\ UNCHANGED <<toolSpec, link, call, aired, charged>>

\* Mutant: the wait has no timeout.
WaitsForEver(s) == FALSE /\ UNCHANGED vars

GiveUp(s) ==
    /\ At(s, "wait") /\ NextPart(s)
    /\ UNCHANGED <<toolSpec, link, call, aired, charged>>

\* The supervisor or a caller of connect() opens an interface; a loss or a
\* disconnect() takes it away.
Reopen ==
    /\ link = NoLink /\ \E t \in Tables : link' = t
    /\ UNCHANGED <<toolSpec, pc, call, part, target, held, aired, charged, result>>

Drop ==
    /\ link # NoLink /\ link' = NoLink
    /\ UNCHANGED <<toolSpec, pc, call, part, target, held, aired, charged, result>>

Advance(s) == Judge(s) \/ Test(s) \/ Take(s) \/ Charge(s) \/ Send(s) \/ GiveUp(s)

Next ==
    \/ Reopen \/ Drop
    \/ \E s \in Senders :
        \/ ToolCalls(s) \/ GatewayAnswers(s) \/ SidecarSends(s)
        \/ Advance(s) \/ Acknowledged(s)

\* A sender's thread runs, and its sendData() returns or raises.
SendSpec == Init /\ [][Next]_vars /\ \A s \in Senders : WF_vars(Advance(s))

-----------------------------------------------------------------------------
\* A packet is encrypted to its node, or is on a channel the operator
\* consented to, whenever the interface that carries it has the channel table
\* the policy judged it by (policy.py:237, tools.py:114 and :130).
Permitted(c, p) ==
    IF c.args.dest # {} THEN c.args.pki
    ELSE p.on = p.judged => Consented(SpecOf(c), p.on, p.index)
PolicyKept ==
    \A s \in Senders : \A k \in DOMAIN aired[s] : Permitted(call[s], aired[s][k])

\* The packets of an answer are its first parts, in order; an answer is
\* reported as sent only if that is all of them (adapter.py:984-1014).
AnswerInOrder ==
    \A s \in Senders :
        /\ \A k \in DOMAIN aired[s] : aired[s][k].part = k
        /\ result[s] = "success" => Len(aired[s]) = call[s].parts

\* No packet without a token, and no token for a part that was refused or
\* found no radio (tools.py:132-141).
BudgetIsForAir ==
    \A s \in Senders :
        /\ Len(aired[s]) <= charged[s]
        /\ result[s] \in {"success", "refused", "no link", "limited"}
             => charged[s] = Len(aired[s])

\* Whatever the link does, and though no acknowledgement comes, a call ends, given
\* that sendData() returns or raises (tools.py:190).
SendEnds == \A s \in Senders : ~At(s, "idle") ~> At(s, "idle")

\* A wildcard never puts a packet on the primary channel of the interface that
\* carries it (tests/test_tool_send_policy.py:205).
WildcardSparesPrimary ==
    \A s \in Senders : \A k \in DOMAIN aired[s] :
        LET p == aired[s][k] IN
        call[s].args.dest = {} /\ SpecOf(call[s]).all
            => p.index \notin PrimaryIndex(p.on)
=============================================================================
