---------------------------- MODULE SendPathProofs ----------------------------
(***************************************************************************)
(* The send path for any number of senders, any channel tables, any        *)
(* allowlists and any number of parts.                                     *)
(***************************************************************************)
EXTENDS SendPath, ChannelPolicyProofs

-----------------------------------------------------------------------------
\* What a sender keeps between judging and sending is an authorised target.
JudgedBy(s) ==
    /\ At(s, "idle") => target[s] = {}
    /\ \A t \in target[s] :
          /\ OnePrimary(t.judged)
          /\ t.index \in Authorize(call[s].args, t.judged, SpecOf(call[s]))
Judged == \A s \in Senders : JudgedBy(s)

\* How many packets and tokens a sender has used when it is at a step.
ProgressOf(s) ==
    /\ \A k \in DOMAIN aired[s] : aired[s][k].part = k
    /\ ~At(s, "idle") => result[s] = "none" /\ part[s] <= call[s].parts
    /\ pc[s] \in {"judge", "test", "take", "charge", "send"}
         => Len(aired[s]) = part[s] - 1
    /\ At(s, "wait") => Len(aired[s]) = part[s]
    /\ charged[s] = IF At(s, "send") \/ result[s] = "lost"
                    THEN Len(aired[s]) + 1 ELSE Len(aired[s])
    /\ result[s] = "success" => Len(aired[s]) = call[s].parts
Progress == \A s \in Senders : ProgressOf(s)

\* The inductive invariant.
IInv == TypeOK /\ Judged /\ Progress /\ PolicyKept

\* What a sender reads off the link is a channel table.
LEMMA TableIsTable ==
    ASSUME TypeOK PROVE ChannelTable \in Seq(Row) /\ OnePrimary(ChannelTable)
<1>1. CASE link = NoLink
  BY <1>1 DEF ChannelTable, OnePrimary, Primary
<1>2. CASE link # NoLink
  BY <1>2, SendAssumption DEF ChannelTable, TypeOK, Links
<1> QED BY <1>1, <1>2

\* The initial states satisfy the invariant.
LEMMA InitIInv == Init => IInv
<1> SUFFICES ASSUME Init PROVE IInv
  OBVIOUS
<1> USE DEF Init, Answer, ToChannel
<1>1. TypeOK
  BY SendAssumption
     DEF TypeOK, Links, Steps, Results, Calls, Args, Optional
<1>2. Judged /\ Progress /\ PolicyKept
  BY DEF Judged, JudgedBy, Progress, ProgressOf, PolicyKept, Permitted, At
<1> QED BY <1>1, <1>2 DEF IInv


\* Nothing is aired, no call begins: the policy is kept.
LEMMA PolicyStays ==
    ASSUME PolicyKept, UNCHANGED <<toolSpec, call, aired>> PROVE PolicyKept'
BY DEF PolicyKept, Permitted, SpecOf

\* A call comes in.
LEMMA StartKeeps ==
    ASSUME IInv, NEW s \in Senders, NEW c \in Calls, At(s, "idle"), Start(s, c)
    PROVE  IInv'
<1> USE DEF IInv, At, Go, Finish, Forget, Start
<1>1. TypeOK'
  <2>1. aired' \in [Senders -> Seq(Packet)] /\ charged' \in [Senders -> Nat]
        /\ part' \in [Senders -> Nat] /\ call' \in [Senders -> Calls]
    BY DEF TypeOK
  <2>2. pc' \in [Senders -> Steps] /\ result' \in [Senders -> Results]
    BY DEF TypeOK, Steps, Results
  <2> QED BY <2>1, <2>2 DEF TypeOK
<1>2. Judged'
  BY DEF Judged, JudgedBy, SpecOf, TypeOK
<1>3. Progress'
  <2>1. c.parts \in Nat
    BY SendAssumption DEF Calls
  <2>2. SUFFICES ASSUME NEW r \in Senders PROVE ProgressOf(r)'
    BY DEF Progress
  <2>3. CASE r = s
    BY <2>1, <2>3 DEF ProgressOf, TypeOK
  <2>4. CASE r # s
    BY <2>4 DEF Progress, ProgressOf, TypeOK
  <2> QED BY <2>3, <2>4
<1>4. PolicyKept'
  BY DEF PolicyKept, Permitted, SpecOf, TypeOK
<1> QED BY <1>1, <1>2, <1>3, <1>4

\* A call is refused or authorised.
LEMMA JudgeKeeps ==
    ASSUME IInv, NEW s \in Senders, Judge(s) PROVE IInv'
<1> USE DEF IInv, At, Go, Finish, Forget, Judge, Fail
<1>1. TypeOK'
  <2> DEFINE ok == Authorize(call[s].args, ChannelTable, SpecOf(call[s]))
  <2>1. ok \subseteq Nat
    BY TableIsTable, TargetIsNat DEF TypeOK, Calls
  <2>2. pc' \in [Senders -> Steps] /\ result' \in [Senders -> Results]
        /\ part' \in [Senders -> Nat] /\ held' \in [Senders -> Links]
    BY DEF TypeOK, Steps, Results, Links
  <2>3. target' \in [Senders -> Optional([index : Nat, judged : Seq(Row)])]
    <3>1. CASE ok = {}
      BY <3>1 DEF TypeOK, Optional
    <3>2. ASSUME NEW i \in ok,
                 target' = [target EXCEPT ![s] = {[index |-> i, judged |-> ChannelTable]}]
          PROVE  target' \in [Senders -> Optional([index : Nat, judged : Seq(Row)])]
      <4>1. {[index |-> i, judged |-> ChannelTable]}
              \in Optional([index : Nat, judged : Seq(Row)])
        BY <2>1, <3>2, TableIsTable DEF Optional
      <4> QED BY <3>2, <4>1 DEF TypeOK
    <3> QED BY <3>1, <3>2
  <2> QED BY <2>2, <2>3 DEF TypeOK
<1>2. Judged'
  <2> DEFINE ok == Authorize(call[s].args, ChannelTable, SpecOf(call[s]))
  <2>1. CASE ok = {}
    BY <2>1 DEF Judged, JudgedBy, SpecOf, TypeOK
  <2>2. CASE ok # {}
    <3>1. PICK i \in ok :
            /\ target' = [target EXCEPT ![s] = {[index |-> i, judged |-> ChannelTable]}]
            /\ pc' = [pc EXCEPT ![s] = "test"]
      BY <2>2
    <3>2. UNCHANGED <<toolSpec, call>>
      OBVIOUS
    <3> HIDE DEF Judge
    <3>3. SUFFICES ASSUME NEW r \in Senders PROVE JudgedBy(r)'
      BY DEF Judged
    <3>4. CASE r = s
      <4>1. target'[s] = {[index |-> i, judged |-> ChannelTable]} /\ pc'[s] = "test"
        BY <3>1 DEF TypeOK
      <4>2. SpecOf(call[s])' = SpecOf(call[s]) /\ call' = call
        BY <3>2 DEF SpecOf
      <4> QED BY <3>4, <4>1, <4>2, TableIsTable DEF JudgedBy
    <3>5. CASE r # s
      BY <3>1, <3>2, <3>5 DEF Judged, JudgedBy, SpecOf, TypeOK
    <3> QED BY <3>4, <3>5
  <2> QED BY <2>1, <2>2
<1>3. Progress'
  BY TableIsTable DEF Progress, ProgressOf, TypeOK
<1>4. PolicyKept'
  BY PolicyStays
<1> QED BY <1>1, <1>2, <1>3, <1>4

\* The link is tested.
LEMMA TestKeeps ==
    ASSUME IInv, NEW s \in Senders, Test(s) PROVE IInv'
<1> USE DEF IInv, At, Go, Finish, Forget, Test, Fail
<1>1. TypeOK'
  BY DEF TypeOK, Optional, Links, Steps, Results, Packet
<1>2. Judged'
  BY DEF Judged, JudgedBy, SpecOf, TypeOK
<1>3. Progress'
  BY DEF Progress, ProgressOf, TypeOK
<1>4. PolicyKept'
  BY PolicyStays
<1> QED BY <1>1, <1>2, <1>3, <1>4

\* The link is taken.
LEMMA TakeKeeps ==
    ASSUME IInv, NEW s \in Senders, Take(s) PROVE IInv'
<1> USE DEF IInv, At, Go, Finish, Forget, Take
<1>1. TypeOK'
  BY DEF TypeOK, Optional, Links, Steps, Results, Packet
<1>2. Judged'
  BY DEF Judged, JudgedBy, SpecOf, TypeOK
<1>3. Progress'
  BY DEF Progress, ProgressOf, TypeOK
<1>4. PolicyKept'
  BY PolicyStays
<1> QED BY <1>1, <1>2, <1>3, <1>4

\* The budget is charged, or is spent.
LEMMA ChargeKeeps ==
    ASSUME IInv, NEW s \in Senders, Charge(s) PROVE IInv'
<1> USE DEF IInv, At, Go, Finish, Forget, Charge, Fail
<1>1. TypeOK'
  <2>1. charged' \in [Senders -> Nat] /\ part' \in [Senders -> Nat]
    BY DEF TypeOK
  <2>2. pc' \in [Senders -> Steps] /\ result' \in [Senders -> Results]
    BY DEF TypeOK, Steps, Results
  <2>3. target' \in [Senders -> Optional([index : Nat, judged : Seq(Row)])]
        /\ held' \in [Senders -> Links]
    BY DEF TypeOK, Optional, Links
  <2> QED BY <2>1, <2>2, <2>3 DEF TypeOK
<1>2. Judged'
  BY DEF Judged, JudgedBy, SpecOf, TypeOK
<1>3. Progress'
  <2>1. SUFFICES ASSUME NEW r \in Senders PROVE ProgressOf(r)'
    BY DEF Progress
  <2>2. CASE r = s
    BY <2>2 DEF Progress, ProgressOf, TypeOK
  <2>3. CASE r # s
    BY <2>3 DEF Progress, ProgressOf, TypeOK
  <2> QED BY <2>2, <2>3
<1>4. PolicyKept'
  BY PolicyStays
<1> QED BY <1>1, <1>2, <1>3, <1>4

\* A wait ends.
LEMMA WaitKeeps ==
    ASSUME IInv, NEW s \in Senders, Acknowledged(s) \/ GiveUp(s) PROVE IInv'
<1> USE DEF IInv, At, Go, Finish, Forget, Acknowledged, GiveUp, NextPart
<1>1. TypeOK'
  <2>1. charged' \in [Senders -> Nat] /\ part' \in [Senders -> Nat]
    BY DEF TypeOK
  <2>2. pc' \in [Senders -> Steps] /\ result' \in [Senders -> Results]
    BY DEF TypeOK, Steps, Results
  <2>3. target' \in [Senders -> Optional([index : Nat, judged : Seq(Row)])]
        /\ held' \in [Senders -> Links]
    BY DEF TypeOK, Optional, Links
  <2> QED BY <2>1, <2>2, <2>3 DEF TypeOK
<1>2. Judged'
  BY DEF Judged, JudgedBy, SpecOf, TypeOK
<1>3. Progress'
  <2>1. call[s].parts \in Nat
    BY SendAssumption DEF TypeOK, Calls
  <2>2. SUFFICES ASSUME NEW r \in Senders PROVE ProgressOf(r)'
    BY DEF Progress
  <2>3. CASE r = s
    BY <2>1, <2>3 DEF Progress, ProgressOf, TypeOK
  <2>4. CASE r # s
    BY <2>4 DEF Progress, ProgressOf, TypeOK
  <2> QED BY <2>3, <2>4
<1>4. PolicyKept'
  BY PolicyStays
<1> QED BY <1>1, <1>2, <1>3, <1>4

\* A sendData() raises.
LEMMA LoseKeeps ==
    ASSUME IInv, NEW s \in Senders, At(s, "send"), Fail(s, "lost"),
           UNCHANGED <<toolSpec, link, call, aired, charged>>
    PROVE  IInv'
<1> USE DEF IInv, At, Go, Finish, Forget, Fail
<1>1. TypeOK'
  BY DEF TypeOK, Optional, Links, Steps, Results
<1>2. Judged'
  BY DEF Judged, JudgedBy, SpecOf, TypeOK
<1>3. Progress'
  BY DEF Progress, ProgressOf, TypeOK
<1>4. PolicyKept'
  BY PolicyStays
<1> QED BY <1>1, <1>2, <1>3, <1>4

\* A packet whose target was judged keeps the policy.
LEMMA AirKeepsPolicy ==
    ASSUME IInv, NEW s \in Senders, NEW t \in target[s], NEW p,
           p.index = t.index, p.judged = t.judged, UNCHANGED <<toolSpec, call>>,
           aired' = [aired EXCEPT ![s] = Append(@, p)]
    PROVE  PolicyKept'
<1>1. /\ t.judged \in Seq(Row) /\ OnePrimary(t.judged)
      /\ t.index \in Authorize(call[s].args, t.judged, SpecOf(call[s]))
  BY DEF IInv, TypeOK, Judged, JudgedBy, Optional
<1>2. call[s].args \in Args /\ SpecOf(call[s]) \in Spec
  BY SendAssumption DEF IInv, TypeOK, Calls, SpecOf
<1>3. SpecOf(call[s])' = SpecOf(call[s])
  BY DEF SpecOf
<1>4. Permitted(call[s], p)
  <2>1. CASE call[s].args.dest # {}
    BY <1>1, <2>1 DEF Permitted, Authorize, Direct
  <2>2. CASE call[s].args.dest = {}
    BY <1>1, <1>2, <2>2, AuthorizedIsConsented DEF Permitted
  <2> QED BY <2>1, <2>2
<1>5. SUFFICES ASSUME NEW r \in Senders, NEW k \in DOMAIN aired'[r]
               PROVE  Permitted(call[r], aired[r][k])'
  BY DEF PolicyKept
<1>6. CASE aired'[r][k] = p /\ r = s
  BY <1>4, <1>6 DEF Permitted, SpecOf
<1>7. CASE k \in DOMAIN aired[r] /\ aired'[r][k] = aired[r][k]
  <2>1. Permitted(call[r], aired[r][k])
    BY <1>7 DEF IInv, PolicyKept
  <2> QED BY <1>7, <2>1 DEF Permitted, SpecOf
<1> QED BY <1>6, <1>7 DEF IInv, TypeOK

\* A packet is handed over, then its acknowledgement awaited or the next part
\* begun.
LEMMA AirKeeps ==
    ASSUME IInv, NEW s \in Senders, At(s, "send"), held[s] # NoLink,
           NEW t \in target[s],
           aired' = [aired EXCEPT ![s] = Append(@,
                       [part |-> part[s], index |-> t.index,
                        judged |-> t.judged, on |-> held[s]])],
           \/ Go(s, "wait") /\ UNCHANGED <<part, target, held, result>>
           \/ NextPart(s),
           UNCHANGED <<toolSpec, link, call, charged>>
    PROVE  IInv'
<1> DEFINE p == [part |-> part[s], index |-> t.index,
                 judged |-> t.judged, on |-> held[s]]
<1>1. p \in Packet
  <2>1. t.index \in Nat /\ t.judged \in Seq(Row)
    BY DEF IInv, TypeOK, Optional
  <2>2. held[s] \in Seq(Row) /\ part[s] \in Nat
    BY SendAssumption DEF IInv, TypeOK, Links
  <2> QED BY <2>1, <2>2 DEF Packet
<1>2. TypeOK'
  <2>1. aired' \in [Senders -> Seq(Packet)]
    BY <1>1 DEF IInv, TypeOK
  <2>2. pc' \in [Senders -> Steps] /\ result' \in [Senders -> Results]
        /\ part' \in [Senders -> Nat]
    <3>1. pc' = [pc EXCEPT ![s] = pc'[s]] /\ pc'[s] \in Steps
      BY DEF IInv, TypeOK, Steps, NextPart, Finish, Go
    <3>2. result' = result \/ result' = [result EXCEPT ![s] = "success"]
      BY DEF NextPart, Finish
    <3>3. part' = part \/ part' = [part EXCEPT ![s] = part[s] + 1]
      BY DEF NextPart
    <3>4. pc' \in [Senders -> Steps]
      BY <3>1 DEF IInv, TypeOK
    <3>5. result' \in [Senders -> Results]
      BY <3>2 DEF IInv, TypeOK, Results
    <3>6. part' \in [Senders -> Nat]
      <4>1. part \in [Senders -> Nat]
        BY DEF IInv, TypeOK
      <4> QED BY <3>3, <4>1
    <3> QED BY <3>4, <3>5, <3>6
  <2>3. target' \in [Senders -> Optional([index : Nat, judged : Seq(Row)])]
        /\ held' \in [Senders -> Links]
    BY DEF IInv, TypeOK, Optional, Links, NextPart, Forget
  <2> QED BY <2>1, <2>2, <2>3 DEF IInv, TypeOK
<1>3. Judged'
  BY DEF IInv, TypeOK, Judged, JudgedBy, SpecOf, At, Go, NextPart, Finish, Forget
<1>4. Progress'
  <2>1. call[s].parts \in Nat
    BY SendAssumption DEF IInv, TypeOK, Calls
  <2>2. SUFFICES ASSUME NEW r \in Senders PROVE ProgressOf(r)'
    BY DEF Progress
  <2>3. CASE r = s
    <3>1. aired'[s] = Append(aired[s], p) /\ Len(aired'[s]) = Len(aired[s]) + 1
      BY <1>1 DEF IInv, TypeOK
    <3>2. Len(aired[s]) = part[s] - 1 /\ charged[s] = Len(aired[s]) + 1
          /\ part[s] <= call[s].parts /\ result[s] = "none"
      BY DEF IInv, TypeOK, Progress, ProgressOf, At
    <3>3. \A k \in DOMAIN aired'[s] : aired'[s][k].part = k
      <4>1. \A k \in DOMAIN aired'[s] :
              IF k = Len(aired[s]) + 1 THEN aired'[s][k] = p
              ELSE k \in DOMAIN aired[s] /\ aired'[s][k] = aired[s][k]
        BY <1>1, <3>1 DEF IInv, TypeOK
      <4> QED BY <3>2, <4>1 DEF IInv, TypeOK, Progress, ProgressOf
    <3>4. part[s] \in Nat /\ charged[s] \in Nat /\ Len(aired[s]) \in Nat
      BY DEF IInv, TypeOK
    <3>5. CASE Go(s, "wait") /\ UNCHANGED <<part, target, held, result>>
      BY <2>3, <3>1, <3>2, <3>3, <3>4, <3>5 DEF IInv, TypeOK, ProgressOf, At, Go
    <3>6. CASE NextPart(s)
      BY <2>1, <2>3, <3>1, <3>2, <3>3, <3>4, <3>6
         DEF IInv, TypeOK, ProgressOf, At, Go, NextPart, Finish
    <3> QED BY <3>5, <3>6
  <2>4. CASE r # s
    BY <2>4 DEF IInv, TypeOK, Progress, ProgressOf, At, Go, NextPart, Finish
  <2> QED BY <2>3, <2>4
<1>5. PolicyKept'
  <2>1. /\ p.index = t.index /\ p.judged = t.judged
        /\ aired' = [aired EXCEPT ![s] = Append(@, p)]
    OBVIOUS
  <2> HIDE DEF p
  <2> QED BY <2>1, AirKeepsPolicy
<1> QED BY <1>2, <1>3, <1>4, <1>5 DEF IInv

\* sendData() raises or takes the packet.
LEMMA SendKeeps == ASSUME IInv, NEW s \in Senders, Send(s) PROVE IInv'
<1>1. CASE Fail(s, "lost") /\ UNCHANGED aired
  BY <1>1, LoseKeeps DEF Send
<1>2. CASE ~(Fail(s, "lost") /\ UNCHANGED aired)
  BY <1>2, AirKeeps DEF Send
<1> QED BY <1>1, <1>2

\* The link comes and goes.
LEMMA LinkKeeps == ASSUME IInv, Reopen \/ Drop PROVE IInv'
<1>1. link' \in Links /\ UNCHANGED <<toolSpec, pc, call, part, target, held,
                                     aired, charged, result>>
  BY DEF Reopen, Drop, Links
<1>2. TypeOK'
  BY <1>1 DEF IInv, TypeOK
<1>3. Judged' /\ Progress' /\ PolicyKept'
  BY <1>1, PolicyStays DEF IInv, Judged, JudgedBy, Progress, ProgressOf, SpecOf, At
<1> QED BY <1>2, <1>3 DEF IInv

\* The calls that come in are calls.
LEMMA CallsAreTyped ==
    ASSUME IInv, NEW s \in Senders, ToolCalls(s) \/ GatewayAnswers(s) \/ SidecarSends(s)
    PROVE  At(s, "idle") /\ \E c \in Calls : Start(s, c)
<1>1. CASE ToolCalls(s)
  <2>1. PICK d \in Optional(Node), n \in Optional(Name), i \in Optional(Indices),
             pki \in BOOLEAN, wait \in BOOLEAN :
          Start(s, [from |-> "tool", parts |-> 1, wait |-> wait,
                    args |-> [dest |-> d, pki |-> pki, name |-> n, index |-> i]])
    BY <1>1 DEF ToolCalls
  <2>2. i \in Optional(Int)
    BY SendAssumption DEF Optional
  <2>3. [from |-> "tool", parts |-> 1, wait |-> wait,
         args |-> [dest |-> d, pki |-> pki, name |-> n, index |-> i]] \in Calls
    BY <2>2, SendAssumption DEF Calls, Args
  <2> QED BY <1>1, <2>1, <2>3 DEF ToolCalls
<1>2. CASE GatewayAnswers(s)
  <2>1. PICK k \in 0..MaxParts :
          \/ \E n \in Node : Start(s, Answer("gateway", ToNode(n), k))
          \/ \E i \in Indices \cap Nat : Start(s, Answer("gateway", ToChannel(i), k))
    BY <1>2 DEF GatewayAnswers
  <2>2. \A n \in Node : Answer("gateway", ToNode(n), k) \in Calls
    BY DEF Answer, ToNode, Calls, Args, Optional
  <2>3. \A i \in Nat : Answer("gateway", ToChannel(i), k) \in Calls
    BY DEF Answer, ToChannel, Calls, Args, Optional
  <2> QED BY <1>2, <2>1, <2>2, <2>3 DEF GatewayAnswers
<1>3. CASE SidecarSends(s)
  <2>0. PICK u \in Tables, k \in 1..MaxParts : \E i \in Resolve(SidecarSpec, u) :
          Start(s, Answer("sidecar", ToChannel(i), k))
    BY <1>3 DEF SidecarSends
  <2>1. PICK i \in Resolve(SidecarSpec, u) : Start(s, Answer("sidecar", ToChannel(i), k))
    BY <2>0
  <2>2. i \in Nat
    BY <2>1, SendAssumption, ReachIsNamed DEF Resolve, Spec
  <2>3. Answer("sidecar", ToChannel(i), k) \in Calls
    BY <2>2, SendAssumption DEF Answer, ToChannel, Calls, Args, Optional
  <2> QED BY <1>3, <2>1, <2>3 DEF SidecarSends
<1> QED BY <1>1, <1>2, <1>3

-----------------------------------------------------------------------------
\* Every step keeps the invariant.
LEMMA NextKeeps == IInv /\ [Next]_vars => IInv'
<1> SUFFICES ASSUME IInv, [Next]_vars PROVE IInv'
  OBVIOUS
<1>1. CASE UNCHANGED vars
  <2>1. UNCHANGED <<toolSpec, link, pc, call, part, target, held, aired, charged, result>>
    BY <1>1 DEF vars
  <2>2. TypeOK'
    BY <2>1 DEF IInv, TypeOK
  <2>3. Judged' /\ Progress' /\ PolicyKept'
    BY <2>1, PolicyStays DEF IInv, Judged, JudgedBy, Progress, ProgressOf, SpecOf, At
  <2> QED BY <2>2, <2>3 DEF IInv
<1>2. CASE Reopen \/ Drop
  BY <1>2, LinkKeeps
<1>3. ASSUME NEW s \in Senders, ToolCalls(s) \/ GatewayAnswers(s) \/ SidecarSends(s)
      PROVE  IInv'
  BY <1>3, CallsAreTyped, StartKeeps
<1>4. ASSUME NEW s \in Senders, Advance(s) \/ Acknowledged(s) PROVE IInv'
  BY <1>4, JudgeKeeps, TestKeeps, TakeKeeps, ChargeKeeps, SendKeeps, WaitKeeps
     DEF Advance
<1> QED BY <1>1, <1>2, <1>3, <1>4 DEF Next

\* The invariant is inductive: every behaviour of the send path keeps it.
THEOREM Inductive == SendSpec => []IInv
BY InitIInv, NextKeeps, PTL DEF SendSpec

\* Every variable keeps its type.
THEOREM TypeCorrect == SendSpec => []TypeOK
<1>1. IInv => TypeOK
  BY DEF IInv
<1> QED BY <1>1, Inductive, PTL

\* However often the link is replaced, a packet carried by the table it was
\* judged by goes where the operator consented (tools.py:114).
THEOREM PolicyIsKept == SendSpec => []PolicyKept
<1>1. IInv => PolicyKept
  BY DEF IInv
<1> QED BY <1>1, Inductive, PTL

\* An answer's packets are its first parts, in order, and success means all of
\* them (adapter.py:984).
THEOREM AnswersInOrder == SendSpec => []AnswerInOrder
<1>1. IInv => AnswerInOrder
  BY DEF IInv, Progress, ProgressOf, AnswerInOrder
<1> QED BY <1>1, Inductive, PTL

\* A sender that is not about to send has used as many tokens as packets.
LEMMA InvBudget == IInv => BudgetIsForAir
<1> SUFFICES ASSUME IInv, NEW s \in Senders
             PROVE  /\ Len(aired[s]) <= charged[s]
                    /\ result[s] \in {"success", "refused", "no link", "limited"}
                         => charged[s] = Len(aired[s])
  BY DEF BudgetIsForAir
<1>1. Len(aired[s]) \in Nat /\ charged[s] \in Nat /\ ProgressOf(s)
  BY DEF IInv, TypeOK, Progress
<1>2. CASE At(s, "send") \/ result[s] = "lost"
  <2>1. charged[s] = Len(aired[s]) + 1
    BY <1>1, <1>2 DEF ProgressOf
  <2>2. Len(aired[s]) <= charged[s]
    BY <1>1, <2>1
  <2>3. result[s] = "none" \/ result[s] = "lost"
    BY <1>1, <1>2 DEF ProgressOf, At
  <2> QED BY <2>2, <2>3
<1>3. CASE ~(At(s, "send") \/ result[s] = "lost")
  <2>1. charged[s] = Len(aired[s])
    BY <1>1, <1>3 DEF ProgressOf
  <2> QED BY <1>1, <2>1
<1> QED BY <1>2, <1>3

\* Tokens and packets agree (tools.py:132).
THEOREM BudgetSpentOnAir == SendSpec => []BudgetIsForAir
BY InvBudget, Inductive, PTL

-----------------------------------------------------------------------------
(* When a wildcard can reach the primary channel *)

\* What a target, or a packet, was judged by was read off the link.
Read(table) == table \in Tables \/ table = <<>>

\* A packet was consented to by the table it was judged by.
Vouched(c, p) ==
    /\ p.on \in Tables /\ Read(p.judged)
    /\ c.args.dest = {} => Consented(SpecOf(c), p.judged, p.index)

Origin ==
    \A s \in Senders :
        /\ \A t \in target[s] : Read(t.judged)
        /\ \A k \in DOMAIN aired[s] : Vouched(call[s], aired[s][k])

\* A step that judges and airs nothing.
LEMMA OriginStays ==
    ASSUME Origin, UNCHANGED <<toolSpec, call, aired>>,
           \A s \in Senders : target'[s] \subseteq target[s]
    PROVE  Origin'
BY DEF Origin, Vouched, SpecOf

LEMMA StartOrigin ==
    ASSUME TypeOK, Origin, NEW s \in Senders, NEW c, Start(s, c)
    PROVE  Origin'
<1>1. /\ aired' = [aired EXCEPT ![s] = <<>>] /\ call' = [call EXCEPT ![s] = c]
      /\ UNCHANGED <<toolSpec, target>>
  BY DEF Start
<1>2. SUFFICES ASSUME NEW r \in Senders, NEW k \in DOMAIN aired'[r]
               PROVE  Vouched(call[r], aired[r][k])'
  BY <1>1 DEF Origin
<1>3. r # s /\ aired'[r] = aired[r] /\ call'[r] = call[r]
  BY <1>1, <1>2 DEF TypeOK
<1> QED BY <1>1, <1>2, <1>3 DEF Origin, Vouched, SpecOf

LEMMA JudgeOrigin ==
    ASSUME TypeOK, Origin, NEW s \in Senders, Judge(s)
    PROVE  Origin'
<1>1. UNCHANGED <<toolSpec, call, aired>>
  BY DEF Judge
<1>2. Read(ChannelTable)
  BY DEF Read, ChannelTable, TypeOK, Links
<1>3. CASE Fail(s, "refused")
  <2>1. \A r \in Senders : target'[r] \subseteq target[r]
    BY <1>3 DEF Fail, Forget, TypeOK
  <2> QED BY <1>1, <2>1, OriginStays
<1>4. CASE \E i : target' = [target EXCEPT ![s] = {[index |-> i, judged |-> ChannelTable]}]
  <2>1. \A r \in Senders : \A t \in target'[r] : t \in target[r] \/ t.judged = ChannelTable
    BY <1>4 DEF TypeOK
  <2> QED BY <1>1, <1>2, <2>1 DEF Origin, Vouched, SpecOf
<1> QED BY <1>3, <1>4 DEF Judge

LEMMA SendOrigin ==
    ASSUME IInv, Origin, NEW s \in Senders, Send(s)
    PROVE  Origin'
<1>1. UNCHANGED <<toolSpec, call>> /\ TypeOK
  BY DEF Send, IInv
<1>2. \A r \in Senders : target'[r] \subseteq target[r]
  BY <1>1 DEF Send, Fail, NextPart, Forget, TypeOK
<1>3. CASE UNCHANGED aired
  BY <1>1, <1>2, <1>3, OriginStays
<1>4. CASE ~UNCHANGED aired
  <2>1. PICK t \in target[s] :
          /\ held[s] # NoLink
          /\ aired' = [aired EXCEPT ![s] = Append(@,
                 [part |-> part[s], index |-> t.index, judged |-> t.judged, on |-> held[s]])]
    BY <1>4 DEF Send
  <2> DEFINE p == [part |-> part[s], index |-> t.index, judged |-> t.judged, on |-> held[s]]
  <2>2. /\ t.judged \in Seq(Row) /\ OnePrimary(t.judged)
        /\ t.index \in Authorize(call[s].args, t.judged, SpecOf(call[s]))
        /\ call[s].args \in Args /\ SpecOf(call[s]) \in Spec
    BY SendAssumption DEF IInv, TypeOK, Judged, JudgedBy, Optional, Calls, SpecOf
  <2>3. call[s].args.dest = {} => Consented(SpecOf(call[s]), t.judged, t.index)
    BY <2>2, AuthorizedIsConsented
  <2>4. Vouched(call[s], p)
    BY <1>1, <2>1, <2>3 DEF Vouched, Origin, TypeOK, Links
  <2>5. aired' = [aired EXCEPT ![s] = Append(@, p)]
    BY <2>1
  <2> HIDE DEF p
  <2>6. ASSUME NEW r \in Senders, NEW k \in DOMAIN aired'[r]
        PROVE  Vouched(call[r], aired[r][k])'
    <3>1. CASE aired'[r][k] = p /\ r = s
      BY <1>1, <2>4, <3>1 DEF Vouched, SpecOf
    <3>2. CASE k \in DOMAIN aired[r] /\ aired'[r][k] = aired[r][k]
      <4>1. Vouched(call[r], aired[r][k])
        BY <3>2 DEF Origin
      <4> QED BY <1>1, <3>2, <4>1 DEF Vouched, SpecOf
    <3> QED BY <1>1, <2>5, <2>6, <3>1, <3>2 DEF TypeOK
  <2> QED BY <1>2, <2>6 DEF Origin
<1> QED BY <1>3, <1>4

LEMMA NextOrigin == ASSUME IInv, Origin, [Next]_vars PROVE Origin'
<1>1. TypeOK
  BY DEF IInv
<1>2. CASE Reopen \/ Drop \/ UNCHANGED vars
  <2>1. UNCHANGED <<toolSpec, call, target, aired>>
    BY <1>2 DEF Reopen, Drop, vars
  <2> QED BY <2>1, OriginStays
<1>3. ASSUME NEW s \in Senders, ToolCalls(s) \/ GatewayAnswers(s) \/ SidecarSends(s)
      PROVE  Origin'
  <2>1. PICK c : Start(s, c)
    <3>1. CASE ToolCalls(s)
      BY <3>1 DEF ToolCalls
    <3>2. CASE GatewayAnswers(s)
      BY <3>2 DEF GatewayAnswers
    <3>3. CASE SidecarSends(s)
      BY <3>3 DEF SidecarSends
    <3> QED BY <1>3, <3>1, <3>2, <3>3
  <2> QED BY <1>1, <2>1, StartOrigin
<1>4. ASSUME NEW s \in Senders,
             Test(s) \/ Take(s) \/ Charge(s) \/ GiveUp(s) \/ Acknowledged(s)
      PROVE  Origin'
  <2>1. UNCHANGED <<toolSpec, call, aired>>
    <3>1. CASE Test(s) \/ Take(s)
      BY <3>1 DEF Test, Take
    <3>2. CASE Charge(s)
      BY <3>2 DEF Charge
    <3>3. CASE GiveUp(s) \/ Acknowledged(s)
      BY <3>3 DEF GiveUp, Acknowledged
    <3> QED BY <1>4, <3>1, <3>2, <3>3
  <2>2. target' = target \/ target' = [target EXCEPT ![s] = {}]
    <3>1. CASE Test(s) \/ Take(s)
      BY <3>1 DEF Test, Take, Fail, Forget
    <3>2. CASE Charge(s)
      BY <3>2 DEF Charge, Fail, Forget
    <3>3. CASE GiveUp(s) \/ Acknowledged(s)
      BY <3>3 DEF GiveUp, Acknowledged, NextPart, Forget
    <3> QED BY <1>4, <3>1, <3>2, <3>3
  <2>3. \A r \in Senders : target'[r] \subseteq target[r]
    BY <1>1, <2>2 DEF TypeOK
  <2> QED BY <2>1, <2>3, OriginStays
<1>5. ASSUME NEW s \in Senders, Judge(s) \/ Send(s) PROVE Origin'
  BY <1>1, <1>5, JudgeOrigin, SendOrigin
<1> QED BY <1>2, <1>3, <1>4, <1>5 DEF Next, Advance

\* A wildcard's packet on the primary channel was judged while there was no
\* table to look it up in.
SlipsOnlyWhenDown ==
    \A s \in Senders : \A k \in DOMAIN aired[s] :
        LET p == aired[s][k] IN
        call[s].args.dest = {} /\ SpecOf(call[s]).all /\ p.index \in PrimaryIndex(p.on)
            => p.judged = <<>>

\* If the primary channel has the same index in every table a radio shows, a
\* wildcard can put a packet on it in one way only: channel_table() returned
\* nothing, because the link was down, when validate_tool_send() asked, and it
\* was up again when the interface was taken (policy.py:237, tools.py:114
\* and :130).
THEOREM WildcardSlipsOnlyWhenDown ==
    ASSUME \A t, u \in Tables : PrimaryIndex(t) = PrimaryIndex(u)
    PROVE  SendSpec => []SlipsOnlyWhenDown
<1>1. Init => Origin
  BY DEF Init, Origin
<1>2. IInv /\ Origin => SlipsOnlyWhenDown
  <2> SUFFICES ASSUME IInv, Origin, NEW s \in Senders, NEW k \in DOMAIN aired[s],
                      call[s].args.dest = {}, SpecOf(call[s]).all,
                      aired[s][k].index \in PrimaryIndex(aired[s][k].on),
                      aired[s][k].judged # <<>>
               PROVE  FALSE
    BY DEF SlipsOnlyWhenDown
  <2> DEFINE p == aired[s][k]
  <2>1. p.on \in Tables /\ p.judged \in Tables /\ Consented(SpecOf(call[s]), p.judged, p.index)
    BY DEF Origin, Vouched, Read
  <2> HIDE DEF p
  <2>2. p.index \in PrimaryIndex(p.judged)
    BY <2>1 DEF p
  <2>3. \E q \in Primary(p.judged) : p.judged[q].index = p.index
    BY <2>2 DEF PrimaryIndex, FirstAt
  <2> QED BY <2>1, <2>3 DEF Consented
<1>3. IInv /\ Origin /\ [Next]_vars => Origin'
  BY NextOrigin
<1> QED BY <1>1, <1>2, <1>3, Inductive, PTL DEF SendSpec

-----------------------------------------------------------------------------
(* The senders and the manager's link (see RadioLink) *)

VARIABLE opening  \* somebody is inside ConnectionManager._open()

Manager == INSTANCE RadioLink WITH iface <- link, Links <- Tables

\* A step of the link, and a step of a sender, which never moves the link.
LinkMoves == Manager!Next /\ UNCHANGED <<toolSpec, pc, call, part, target, held, aired,
                                         charged, result>>
SenderMoves ==
    /\ \E s \in Senders : \/ ToolCalls(s) \/ GatewayAnswers(s) \/ SidecarSends(s)
                          \/ Advance(s) \/ Acknowledged(s)
    /\ UNCHANGED opening

\* The senders next to anything that behaves as the link.
OnAnyLink ==
    Init /\ Manager!Init /\ [][SenderMoves \/ LinkMoves]_<<vars, opening>>

\* The model leaves out nothing the link may do: next to anything that moves
\* the link as RadioLink allows, the senders' steps are those of their own
\* specification, the policy is kept and tokens and packets agree.
THEOREM AnyLinkWillDo ==
    OnAnyLink => Init /\ [][Next]_vars /\ []PolicyKept /\ []BudgetIsForAir
<1>1. ASSUME LinkMoves PROVE Next \/ UNCHANGED vars
  BY <1>1 DEF LinkMoves, Manager!Next, Manager!Open, Manager!OpenEnds, Manager!Drop,
              Next, Reopen, Drop, vars
<1>2. [SenderMoves \/ LinkMoves]_<<vars, opening>> => [Next]_vars
  BY <1>1 DEF SenderMoves, Next
<1>3. IInv => PolicyKept /\ BudgetIsForAir
  BY InvBudget DEF IInv
<1> QED BY <1>2, <1>3, InitIInv, NextKeeps, PTL DEF OnAnyLink

\* ... and no sender moves the link: what the link does is the manager's doing.
THEOREM SendersLeaveTheLink == OnAnyLink => Manager!Spec
<1>1. ASSUME NEW s \in Senders, NEW c, Start(s, c) PROVE UNCHANGED link
  BY <1>1 DEF Start
<1>2. ASSUME NEW s \in Senders, ToolCalls(s) \/ GatewayAnswers(s) \/ SidecarSends(s)
      PROVE  UNCHANGED link
  <2>1. \E c : Start(s, c)
    <3>1. CASE ToolCalls(s)
      BY <3>1 DEF ToolCalls
    <3>2. CASE GatewayAnswers(s)
      BY <3>2 DEF GatewayAnswers
    <3>3. CASE SidecarSends(s)
      BY <3>3 DEF SidecarSends
    <3> QED BY <1>2, <3>1, <3>2, <3>3
  <2> QED BY <1>1, <2>1
<1>3. ASSUME NEW s \in Senders, Advance(s) \/ Acknowledged(s) PROVE UNCHANGED link
  BY <1>3 DEF Advance, Judge, Test, Take, Charge, Send, GiveUp, Acknowledged
<1>4. SenderMoves => UNCHANGED <<link, opening>>
  BY <1>2, <1>3 DEF SenderMoves
<1>5. [SenderMoves \/ LinkMoves]_<<vars, opening>> => [Manager!Next]_<<link, opening>>
  BY <1>4 DEF LinkMoves, vars
<1> QED BY <1>5, PTL DEF OnAnyLink, Manager!Spec
===============================================================================
