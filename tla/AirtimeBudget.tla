---------------------------- MODULE AirtimeBudget ----------------------------
(***************************************************************************)
(* What the limiter promises its callers, told by the packets that went    *)
(* out and nothing else: no buckets, no pruning, no latest send.  A packet *)
(* is admitted when every window it falls in has room and, unless it       *)
(* continues an answer, the cooldown has passed; a refusal names a gate    *)
(* that is shut and the first moment at which it will not be.              *)
(***************************************************************************)
EXTENDS Naturals, FiniteSets

CONSTANTS
    Dests, Global,     \* destinations, and the budget they share
    Limits,            \* packets per window, of each of them and of Global
    Cooldown, Window,
    NoRefusal

VARIABLES
    now,
    sent,     \* packets admitted since the last reset
    refusal   \* the last refusal, while nothing was admitted since

Init == now = 0 /\ sent = {} /\ refusal = NoRefusal

To(k) == IF k = Global THEN sent ELSE {p \in sent : p.to = k}

\* The gates, at time t.
Shut(k, t) == Cardinality({p \in To(k) : t - p.at < Window}) >= Limits[k]
Soon(d, t) == \E p \in To(d) : t - p.at < Cooldown

Admit(d, first) ==
    /\ ~Shut(Global, now) /\ ~Shut(d, now) /\ ~(first /\ Soon(d, now))
    /\ sent' = sent \cup {[no |-> Cardinality(sent) + 1, to |-> d, at |-> now, first |-> first]}
    /\ refusal' = NoRefusal /\ UNCHANGED now

RefuseFull(k) ==
    /\ Shut(k, now)
    /\ \E until \in now..(now + Window) :
        /\ ~Shut(k, until) /\ \A t \in now..(until - 1) : Shut(k, t)
        /\ refusal' = [gate |-> "window", key |-> k, until |-> until]
    /\ UNCHANGED <<now, sent>>

RefuseSoon(d) ==
    /\ Soon(d, now)
    /\ \E until \in now..(now + Cooldown) :
        /\ ~Soon(d, until) /\ \A t \in now..(until - 1) : Soon(d, t)
        /\ refusal' = [gate |-> "cooldown", key |-> d, until |-> until]
    /\ UNCHANGED <<now, sent>>

Reset == sent' = {} /\ refusal' = NoRefusal /\ UNCHANGED now

Tick == now' = now + 1 /\ UNCHANGED <<sent, refusal>>

Next ==
    \/ \E d \in Dests, first \in BOOLEAN : Admit(d, first)
    \/ \E k \in Dests \cup {Global} : RefuseFull(k)
    \/ \E d \in Dests : RefuseSoon(d)
    \/ Reset \/ Tick

Spec == Init /\ [][Next]_<<now, sent, refusal>>
=============================================================================
