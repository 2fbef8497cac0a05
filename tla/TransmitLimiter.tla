--------------------------- MODULE TransmitLimiter ---------------------------
(***************************************************************************)
(* The transmit budget every outbound path shares: rate_limit.py.          *)
(*                                                                         *)
(* check() runs under one lock from reading the clock to charging, so a    *)
(* call by any thread is one step.  A stamp in a bucket's list stands for  *)
(* the packet that was charged; the model keeps the packet itself, hence a *)
(* bucket is a set and its length a cardinality.  Time is counted in ticks *)
(* and never goes back (time.monotonic).                                   *)
(***************************************************************************)
EXTENDS Naturals, FiniteSets

CONSTANTS
    Channels, Nodes,            \* destinations: broadcasts and direct messages
    Global,                     \* the key of the bucket all packets share
    MaxSends, MaxChannelSends, MaxDmSends,   \* packets per window
    Cooldown,                   \* reply_cooldown_seconds
    Window,                     \* WINDOW_SECONDS
    Horizon,                    \* bound: the clock stops here
    Never, NoRefusal

Dests == Channels \cup Nodes
Keys  == Dests \cup {Global}

\* LimitConfig as from_env() builds it from whole positive settings.
ASSUME LimiterAssumption ==
    /\ Channels \cap Nodes = {}
    /\ Global \notin Dests
    /\ MaxSends \in Nat \ {0} /\ MaxChannelSends \in Nat \ {0}
    /\ MaxDmSends \in Nat \ {0}
    /\ Cooldown \in Nat /\ Window \in Nat \ {0} /\ Horizon \in Nat
    /\ Never \notin Nat

VARIABLES
    now,       \* _time()
    events,    \* _events: the packets each bucket still holds
    lastSend,  \* _last_send
    sent,      \* history: every packet admitted since the last reset()
    count,     \* history: their number
    refusal    \* the RateLimited last raised, while nothing was charged since

vars == <<now, events, lastSend, sent, count, refusal>>

Packets == [no : Nat, to : Dests, at : Nat, first : BOOLEAN]

Limit(k) == IF k = Global THEN MaxSends
            ELSE IF k \in Nodes THEN MaxDmSends ELSE MaxChannelSends

TypeOK ==
    /\ now \in Nat /\ count \in Nat
    /\ sent \subseteq Packets
    /\ events \in [Keys -> SUBSET Packets]
    /\ lastSend \in [Dests -> Nat \cup {Never}]

Init ==
    /\ now = 0 /\ count = 0 /\ sent = {} /\ refusal = NoRefusal
    /\ events = [k \in Keys |-> {}]
    /\ lastSend = [d \in Dests |-> Never]

-----------------------------------------------------------------------------
\* The cooldown gate and a full bucket, at time t.
Cooling(d, t) == lastSend[d] # Never /\ t - lastSend[d] < Cooldown

Recent(k, t) == {p \in events[k] : t - p.at < Window}

\* Mutant: one packet too many.
FullTooLate(k, t) == Cardinality(Recent(k, t)) > Limit(k)

Full(k, t) == Cardinality(Recent(k, t)) >= Limit(k)

\* Mutant: the dictionary is rebuilt with the two pruned buckets only.
PruneDropsOthers(d) == [k \in {Global, d} |-> Recent(k, now)]

\* _prune() of both buckets of a packet to d; the list that results.
Prune(d) == [k \in Keys |-> IF k \in {Global, d} THEN Recent(k, now) ELSE events[k]]

\* Mutant: the newest stamp, not the one whose expiry frees a slot.
RetryAtNewest(k) ==
    LET newest == CHOOSE p \in Recent(k, now) : \A q \in Recent(k, now) : q.no <= p.no
    IN newest.at + Window

\* _window_retry_after(): the stamp whose expiry frees a slot is the Limit-th
\* from the end of the list.  check() rounds the hint to milliseconds, as it does
\* the cooldown's: nothing on a clock that ticks in whole ones.
RetryAt(k) ==
    LET frees == CHOOSE p \in Recent(k, now) :
                    Cardinality({q \in Recent(k, now) : q.no > p.no}) = Limit(k) - 1
    IN frees.at + Window

\* check(): refused by the cooldown, before anything is pruned ...
RefuseCooldown(d, first) ==
    /\ first /\ Cooling(d, now)
    /\ refusal' = [gate |-> "cooldown", key |-> d, until |-> lastSend[d] + Cooldown]
    /\ UNCHANGED <<now, events, lastSend, sent, count>>

\* ... refused by the global bucket, else by the destination's ...
RefuseFull(d, first) ==
    /\ ~(first /\ Cooling(d, now))
    /\ Full(Global, now) \/ Full(d, now)
    /\ events' = Prune(d)
    /\ LET k == IF Full(Global, now) THEN Global ELSE d
       IN refusal' = [gate |-> "window", key |-> k, until |-> RetryAt(k)]
    /\ UNCHANGED <<now, lastSend, sent, count>>

\* Mutant: a continuation does not restart the cooldown.
AdmitWithoutRestart(d, first) ==
    /\ ~(first /\ Cooling(d, now))
    /\ ~Full(Global, now) /\ ~Full(d, now)
    /\ LET p == [no |-> count + 1, to |-> d, at |-> now, first |-> first] IN
       /\ events' = [k \in Keys |-> IF k \in {Global, d} THEN Recent(k, now) \cup {p}
                                    ELSE events[k]]
       /\ sent' = sent \cup {p}
    /\ lastSend' = IF first THEN [lastSend EXCEPT ![d] = now] ELSE lastSend
    /\ count' = count + 1
    /\ refusal' = NoRefusal
    /\ UNCHANGED now

\* Mutant: the global bucket is charged once per answer, not per packet.
AdmitContinuationFree(d, first) ==
    /\ ~(first /\ Cooling(d, now))
    /\ ~Full(Global, now) /\ ~Full(d, now)
    /\ LET p == [no |-> count + 1, to |-> d, at |-> now, first |-> first] IN
       /\ events' = [k \in Keys |->
              IF k = d \/ (k = Global /\ first) THEN Recent(k, now) \cup {p}
              ELSE IF k = Global THEN Recent(k, now) ELSE events[k]]
       /\ sent' = sent \cup {p}
    /\ lastSend' = [lastSend EXCEPT ![d] = now]
    /\ count' = count + 1
    /\ refusal' = NoRefusal
    /\ UNCHANGED now

\* ... or admitted, and charged to every bucket.
Admit(d, first) ==
    /\ ~(first /\ Cooling(d, now))
    /\ ~Full(Global, now) /\ ~Full(d, now)
    /\ LET p == [no |-> count + 1, to |-> d, at |-> now, first |-> first] IN
       /\ events' = [k \in Keys |-> IF k \in {Global, d} THEN Recent(k, now) \cup {p}
                                    ELSE events[k]]
       /\ sent' = sent \cup {p}
    /\ lastSend' = [lastSend EXCEPT ![d] = now]
    /\ count' = count + 1
    /\ refusal' = NoRefusal
    /\ UNCHANGED now

Reset ==
    /\ events' = [k \in Keys |-> {}]
    /\ lastSend' = [d \in Dests |-> Never]
    /\ sent' = {} /\ count' = 0 /\ refusal' = NoRefusal
    /\ UNCHANGED now

Tick ==
    /\ now < Horizon
    /\ now' = now + 1
    /\ UNCHANGED <<events, lastSend, sent, count, refusal>>

\* check(): a first packet, or a continuation, which skips the cooldown.
Check(d, first) == RefuseCooldown(d, first) \/ RefuseFull(d, first) \/ Admit(d, first)

Next == \/ \E d \in Dests, first \in BOOLEAN : Check(d, first)
        \/ Reset \/ Tick

Spec == Init /\ [][Next]_vars

-----------------------------------------------------------------------------
(* Properties *)

Bucket(k) == IF k = Global THEN sent ELSE {p \in sent : p.to = k}

\* Packets of bucket k in the window that ends at time t.
WindowOf(t, k) == {p \in Bucket(k) : p.at <= t /\ t - p.at < Window}

\* No window, wherever it ends, holds more packets than the limit, in any of
\* the buckets: neither pruning nor a refusal ever forgets a packet that counts.
WindowBudget == \A t \in 0..now, k \in Keys : Cardinality(WindowOf(t, k)) <= Limit(k)

\* Pruning, stamps and the latest send are only how it is done: what is admitted
\* and refused, and when a refusal says to come back, is what AirtimeBudget says
\* of the packets that went out (rate_limit.py:234-309).
Budget == INSTANCE AirtimeBudget WITH Limits <- [k \in Keys |-> Limit(k)]
BudgetSpec == Budget!Spec

\* A packet is charged to the global and to its own bucket or to neither: what
\* still counts in one counts in the other, and a refused packet in none.
ChargedTogether ==
    \A d \in Dests : Recent(d, now) = {p \in Recent(Global, now) : p.to = d}

\* retry_after is exact, on a clock of whole milliseconds: the refusing gate is
\* shut until then, not after (rate_limit.py:207-218, 264-303).
HintIsExact ==
    refusal # NoRefusal =>
        LET shut(t) == IF refusal.gate = "cooldown" THEN Cooling(refusal.key, t)
                       ELSE Full(refusal.key, t)
        IN ~shut(refusal.until) /\ \A t \in now..(refusal.until - 1) : shut(t)
=============================================================================
