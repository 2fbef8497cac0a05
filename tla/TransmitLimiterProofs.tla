------------------------ MODULE TransmitLimiterProofs ------------------------
(***************************************************************************)
(* The transmit budget for every number of destinations, every limit,      *)
(* cooldown and window.  A bucket forgets only what no longer counts       *)
(* (Aged), so the list it counts at a charge is the whole window.          *)
(***************************************************************************)
EXTENDS TransmitLimiter, FiniteSetTheorems, WellFoundedInduction, TLAPS

\* The history is finite and none of it lies in the future.
History == /\ IsFiniteSet(sent)
           /\ \A p \in sent : p.no <= count /\ p.at <= now

\* A bucket holds packets that were charged to it ...
Held == \A k \in Keys : events[k] \subseteq Bucket(k)

\* ... and the ones it dropped are out of the current window.
Aged == \A k \in Keys : \A p \in Bucket(k) : p \notin events[k] => now - p.at >= Window

\* _last_send is the latest packet to the destination.
LastIsLatest ==
    /\ \A p \in sent : lastSend[p.to] # Never /\ p.at <= lastSend[p.to]
    /\ \A d \in Dests : lastSend[d] # Never => lastSend[d] <= now

\* The first packet of an answer comes no sooner than the cooldown after any
\* earlier packet to its destination, continuations included.
CooldownSpacing ==
    \A p, q \in sent : p.to = q.to /\ p.no < q.no /\ q.first => q.at - p.at >= Cooldown

IInv == TypeOK /\ History /\ Held /\ Aged /\ LastIsLatest
        /\ WindowBudget /\ CooldownSpacing

-----------------------------------------------------------------------------
\* Every bucket has a limit, and its recent packets are finitely many.
LEMMA LimitIsNat == ASSUME NEW k \in Keys PROVE Limit(k) \in Nat
BY LimiterAssumption DEF Limit

LEMMA BucketInSent == ASSUME NEW k PROVE Bucket(k) \subseteq sent
BY DEF Bucket

\* The initial state satisfies the inductive invariant.
LEMMA InitIInv == Init => IInv
<1> SUFFICES ASSUME Init PROVE IInv
  OBVIOUS
<1>1. TypeOK
  BY DEF Init, TypeOK
<1>2. History
  BY FS_EmptySet DEF Init, History
<1>3. Held /\ Aged /\ LastIsLatest
  BY DEF Init, Held, Aged, LastIsLatest, Bucket
<1>4. WindowBudget
  <2>1. \A t \in 0..now, k \in Keys : WindowOf(t, k) = {}
    BY DEF Init, WindowOf, Bucket
  <2> QED BY <2>1, LimitIsNat, FS_EmptySet DEF WindowBudget
<1>5. CooldownSpacing
  BY DEF Init, CooldownSpacing
<1> QED BY <1>1, <1>2, <1>3, <1>4, <1>5 DEF IInv

-----------------------------------------------------------------------------
\* Pruning a bucket keeps what is held and drops only what has aged.
LEMMA PrunePreserves ==
    ASSUME IInv, NEW d \in Dests, events' = Prune(d),
           UNCHANGED <<now, lastSend, sent, count>>
    PROVE  IInv'
<1>1. TypeOK'
  <2>1. events' \in [Keys -> SUBSET Packets]
    BY DEF IInv, TypeOK, Prune, Recent
  <2> QED BY <2>1 DEF IInv, TypeOK
<1>2. History' /\ LastIsLatest' /\ WindowBudget' /\ CooldownSpacing'
  BY DEF IInv, History, LastIsLatest, WindowBudget, CooldownSpacing, WindowOf, Bucket
<1>3. \A k \in Keys : events'[k] = IF k \in {Global, d} THEN Recent(k, now) ELSE events[k]
  BY DEF Prune
<1>4. Held'
  BY <1>3 DEF IInv, Held, Recent, Bucket
<1>5. Aged'
  <2> SUFFICES ASSUME NEW k \in Keys, NEW p \in Bucket(k), p \notin events'[k]
               PROVE  now - p.at >= Window
    BY DEF Aged, Bucket
  <2>1. p \in Packets /\ now \in Nat /\ Window \in Nat
    BY BucketInSent, LimiterAssumption DEF IInv, TypeOK
  <2>2. CASE p \in events[k]
    <3>1. k \in {Global, d} /\ p \notin Recent(k, now)
      BY <1>3, <2>2
    <3>2. p.at \in Nat /\ ~(now - p.at < Window)
      BY <2>1, <2>2, <3>1 DEF Recent, Packets
    <3> QED BY <2>1, <3>2
  <2>3. CASE p \notin events[k]
    BY <2>3 DEF IInv, Aged
  <2> QED BY <2>2, <2>3
<1> QED BY <1>1, <1>2, <1>4, <1>5 DEF IInv

\* Time only makes packets older.
LEMMA TickPreserves == ASSUME IInv, Tick PROVE IInv'
<1>1. now \in Nat /\ now' = now + 1 /\ UNCHANGED <<events, lastSend, sent, count>>
  BY DEF Tick, IInv, TypeOK
<1>2. TypeOK'
  BY <1>1 DEF IInv, TypeOK
<1>3. \A p \in sent : p.at \in Nat
  BY DEF IInv, TypeOK, Packets
<1>4. History'
  BY <1>1, <1>3 DEF IInv, History
<1>5. Held' /\ CooldownSpacing'
  BY <1>1 DEF IInv, Held, CooldownSpacing, Bucket
<1>6. Aged'
  <2> SUFFICES ASSUME NEW k \in Keys, NEW p \in Bucket(k), p \notin events[k]
               PROVE  now' - p.at >= Window
    BY <1>1 DEF Aged, Bucket
  <2>1. now - p.at >= Window /\ p.at \in Nat
    BY <1>3, BucketInSent DEF IInv, Aged
  <2> QED BY <1>1, <2>1, LimiterAssumption
<1>7. LastIsLatest'
  <2>1. \A d \in Dests : lastSend[d] # Never => lastSend[d] <= now'
    BY <1>1 DEF IInv, LastIsLatest, TypeOK
  <2> QED BY <1>1, <2>1 DEF IInv, LastIsLatest
<1>8. WindowBudget'
  <2> SUFFICES ASSUME NEW t \in 0..now', NEW k \in Keys
               PROVE  Cardinality(WindowOf(t, k)') <= Limit(k)
    BY DEF WindowBudget, Limit
  <2>1. WindowOf(t, k)' = WindowOf(t, k)
    BY <1>1 DEF WindowOf, Bucket
  <2>2. CASE t \in 0..now
    BY <2>1, <2>2 DEF IInv, WindowBudget
  <2>3. CASE t = now + 1
    <3>1. WindowOf(t, k) \subseteq WindowOf(now, k)
      BY <1>1, <1>3, <2>3, BucketInSent, LimiterAssumption DEF IInv, History, WindowOf
    <3>2. IsFiniteSet(WindowOf(now, k))
      BY BucketInSent, FS_Subset DEF IInv, History, WindowOf
    <3>3. Cardinality(WindowOf(t, k)) <= Cardinality(WindowOf(now, k))
      BY <3>1, <3>2, FS_Subset
    <3>4. Cardinality(WindowOf(now, k)) <= Limit(k)
      BY <1>1 DEF IInv, WindowBudget
    <3>5. IsFiniteSet(WindowOf(t, k))
      BY <3>1, <3>2, FS_Subset
    <3> QED BY <2>1, <3>2, <3>3, <3>4, <3>5, LimitIsNat, FS_CardinalityType
  <2> QED BY <1>1, <2>2, <2>3
<1> QED BY <1>2, <1>4, <1>5, <1>6, <1>7, <1>8 DEF IInv

\* reset() forgets the history together with the counters.
LEMMA ResetPreserves == ASSUME IInv, Reset PROVE IInv'
<1>1. TypeOK'
  BY DEF IInv, TypeOK, Reset
<1>2. History'
  BY FS_EmptySet DEF Reset, History
<1>3. Held' /\ Aged' /\ LastIsLatest' /\ CooldownSpacing'
  BY DEF Reset, Held, Aged, LastIsLatest, CooldownSpacing, Bucket
<1>4. WindowBudget'
  <2>1. \A t \in 0..now', k \in Keys : WindowOf(t, k)' = {}
    BY DEF Reset, WindowOf, Bucket
  <2>2. \A k \in Keys : Limit(k)' = Limit(k)
    BY DEF Limit
  <2> QED BY <2>1, <2>2, LimitIsNat, FS_EmptySet DEF WindowBudget
<1> QED BY <1>1, <1>2, <1>3, <1>4 DEF IInv

-----------------------------------------------------------------------------
\* Admitting a packet: its window is what the pruned bucket holds, plus itself.
LEMMA AdmitPreserves ==
    ASSUME IInv, NEW d \in Dests, NEW first \in BOOLEAN, Admit(d, first)
    PROVE  IInv'
<1> DEFINE p == [no |-> count + 1, to |-> d, at |-> now, first |-> first]
<1>0. /\ now \in Nat /\ count \in Nat /\ Window \in Nat \ {0} /\ Cooldown \in Nat
      /\ p \in Packets /\ p.no = count + 1 /\ p.to = d /\ p.at = now /\ p.first = first
      /\ \A q \in sent : q \in Packets /\ q.at \in Nat /\ q.no \in Nat /\ q.to \in Dests
      /\ d \in Keys /\ Global \in Keys
  BY LimiterAssumption DEF IInv, TypeOK, Packets, Keys
<1>1. /\ sent' = sent \cup {p} /\ count' = count + 1 /\ now' = now
      /\ lastSend' = [lastSend EXCEPT ![d] = now]
      /\ \A k \in Keys : events'[k] = IF k \in {Global, d} THEN Recent(k, now) \cup {p}
                                      ELSE events[k]
  BY DEF Admit
<1>2. \A k \in Keys : Bucket(k)' = IF k \in {Global, d} THEN Bucket(k) \cup {p}
                                  ELSE Bucket(k)
  BY <1>0, <1>1 DEF Bucket
<1> HIDE DEF p
<1>3. TypeOK'
  <2>1. events' \in [Keys -> SUBSET Packets]
    BY <1>0 DEF Admit, IInv, TypeOK, Recent, p
  <2>2. lastSend' \in [Dests -> Nat \cup {Never}]
    BY <1>0, <1>1 DEF IInv, TypeOK
  <2> QED BY <1>0, <1>1, <2>1, <2>2 DEF IInv, TypeOK
<1>4. History'
  <2>1. IsFiniteSet(sent')
    BY <1>1, FS_AddElement DEF IInv, History
  <2>2. \A q \in sent' : q.no <= count' /\ q.at <= now'
    BY <1>0, <1>1 DEF IInv, History
  <2> QED BY <2>1, <2>2 DEF History
<1>5. Held'
  <2> SUFFICES ASSUME NEW k \in Keys PROVE events'[k] \subseteq Bucket(k)'
    BY DEF Held
  <2>1. events[k] \subseteq Bucket(k) /\ Recent(k, now) \subseteq events[k]
    BY DEF IInv, Held, Recent
  <2> QED BY <1>1, <1>2, <2>1
<1>6. Aged'
  <2> SUFFICES ASSUME NEW k \in Keys, NEW q \in Bucket(k)', q \notin events'[k]
               PROVE  now - q.at >= Window
    BY <1>1 DEF Aged
  <2>1. q \in Bucket(k)
    BY <1>1, <1>2
  <2>2. CASE q \in events[k]
    <3>1. q \notin Recent(k, now)
      BY <1>1, <2>2
    <3> QED BY <1>0, <2>1, <2>2, <3>1, BucketInSent DEF Recent
  <2>3. CASE q \notin events[k]
    BY <2>1, <2>3 DEF IInv, Aged
  <2> QED BY <2>2, <2>3
<1>7. LastIsLatest'
  <2>1. lastSend'[d] = now /\ \A e \in Dests \ {d} : lastSend'[e] = lastSend[e]
    BY <1>1 DEF IInv, TypeOK
  <2>2. \A q \in sent' : lastSend'[q.to] # Never /\ q.at <= lastSend'[q.to]
    <3>1. now # Never
      BY <1>0, LimiterAssumption
    <3>2. \A q \in sent : q.at <= now
      BY DEF IInv, History
    <3> QED BY <1>0, <1>1, <2>1, <3>1, <3>2 DEF IInv, LastIsLatest
  <2>3. \A e \in Dests : lastSend'[e] # Never => lastSend'[e] <= now'
    BY <1>0, <1>1, <2>1 DEF IInv, LastIsLatest
  <2> QED BY <2>2, <2>3 DEF LastIsLatest
<1>8. CooldownSpacing'
  <2> SUFFICES ASSUME NEW q \in sent', NEW r \in sent',
                      q.to = r.to, q.no < r.no, r.first
               PROVE  r.at - q.at >= Cooldown
    BY DEF CooldownSpacing
  <2>1. CASE r \in sent
    <3>1. q \in sent
      BY <1>0, <1>1, <2>1 DEF IInv, History
    <3> QED BY <2>1, <3>1 DEF IInv, CooldownSpacing
  <2>2. CASE r = p
    <3>1. q \in sent
      BY <1>0, <1>1, <2>2
    <3>2. lastSend[d] \in Nat /\ q.at <= lastSend[d] /\ ~Cooling(d, now)
      BY <1>0, <2>2, <3>1 DEF IInv, TypeOK, LastIsLatest, Admit
    <3>3. lastSend[d] # Never
      BY <3>2, LimiterAssumption
    <3> QED BY <1>0, <2>2, <3>1, <3>2, <3>3 DEF Cooling
  <2> QED BY <1>1, <2>1, <2>2
<1>9. WindowBudget'
  <2> SUFFICES ASSUME NEW t \in 0..now, NEW k \in Keys
               PROVE  Cardinality(WindowOf(t, k)') <= Limit(k)
    BY <1>1 DEF WindowBudget, Limit
  <2>1. WindowOf(t, k)' = {r \in Bucket(k)' : r.at <= t /\ t - r.at < Window}
    BY DEF WindowOf
  <2>2. CASE t < now \/ k \notin {Global, d}
    <3>1. WindowOf(t, k)' = WindowOf(t, k)
      BY <1>0, <1>2, <2>1, <2>2 DEF WindowOf
    <3> QED BY <3>1 DEF IInv, WindowBudget
  <2>3. CASE t = now /\ k \in {Global, d}
    <3> DEFINE R == Recent(k, now)
    <3>1. IsFiniteSet(R) /\ Cardinality(R) < Limit(k)
      <4>1. R \subseteq sent
        BY BucketInSent DEF IInv, Held, Recent
      <4>2. IsFiniteSet(R)
        BY <4>1, FS_Subset DEF IInv, History
      <4>3. ~(Cardinality(R) >= Limit(k))
        BY <2>3 DEF Admit, Full
      <4> QED BY <4>2, <4>3, LimitIsNat, FS_CardinalityType
    <3>2. WindowOf(t, k)' \subseteq R \cup {p}
      BY <1>0, <1>2, <2>1, <2>3, BucketInSent DEF Recent, IInv, Aged
    <3>3. IsFiniteSet(R \cup {p}) /\ Cardinality(R \cup {p}) <= Cardinality(R) + 1
      <4>1. /\ IsFiniteSet(R \cup {p})
            /\ Cardinality(R \cup {p}) = IF p \in R THEN Cardinality(R)
                                         ELSE Cardinality(R) + 1
        BY <3>1, FS_AddElement
      <4> QED BY <3>1, <4>1, FS_CardinalityType
    <3>4. /\ Cardinality(WindowOf(t, k)') <= Cardinality(R \cup {p})
          /\ IsFiniteSet(WindowOf(t, k)')
      BY <3>2, <3>3, FS_Subset
    <3> QED BY <3>1, <3>3, <3>4, LimitIsNat, FS_CardinalityType
  <2> QED BY <1>0, <2>2, <2>3
<1> QED BY <1>3, <1>4, <1>5, <1>6, <1>7, <1>8, <1>9 DEF IInv

-----------------------------------------------------------------------------
\* Every step of every check(), reset() or clock preserves the invariant.
LEMMA NextIInv == IInv /\ [Next]_vars => IInv'
<1> SUFFICES ASSUME IInv, [Next]_vars PROVE IInv'
  OBVIOUS
<1>1. ASSUME NEW d \in Dests, NEW first \in BOOLEAN, RefuseCooldown(d, first)
      PROVE  IInv'
  BY <1>1 DEF RefuseCooldown, IInv, TypeOK, History, Held, Aged, LastIsLatest,
              WindowBudget, WindowOf, CooldownSpacing, Bucket
<1>2. ASSUME NEW d \in Dests, NEW first \in BOOLEAN, RefuseFull(d, first)
      PROVE  IInv'
  BY <1>2, PrunePreserves DEF RefuseFull
<1>3. ASSUME NEW d \in Dests, NEW first \in BOOLEAN, Admit(d, first)
      PROVE  IInv'
  BY <1>3, AdmitPreserves
<1>4. CASE Reset
  BY <1>4, ResetPreserves
<1>5. CASE Tick
  BY <1>5, TickPreserves
<1>6. CASE UNCHANGED vars
  BY <1>6 DEF vars, IInv, TypeOK, History, Held, Aged, LastIsLatest,
              WindowBudget, WindowOf, CooldownSpacing, Bucket
<1> QED BY <1>1, <1>2, <1>3, <1>4, <1>5, <1>6 DEF Next, Check

\* The inductive invariant holds in every reachable state.
THEOREM Inductive == Spec => []IInv
BY InitIInv, NextIInv, PTL DEF Spec

\* The limiter's fields keep their types.
THEOREM TypeCorrect == Spec => []TypeOK
<1>1. IInv => TypeOK
  BY DEF IInv
<1> QED BY <1>1, Inductive, PTL

\* check() keeps every window within every limit (rate_limit.py:281, 291).
THEOREM BudgetKept == Spec => []WindowBudget
<1>1. IInv => WindowBudget
  BY DEF IInv
<1> QED BY <1>1, Inductive, PTL

\* check() keeps the cooldown before every first packet (rate_limit.py:264).
THEOREM CooldownKept == Spec => []CooldownSpacing
<1>1. IInv => CooldownSpacing
  BY DEF IInv
<1> QED BY <1>1, Inductive, PTL

\* The buckets a packet is charged to never disagree about it
\* (rate_limit.py:307-308).
THEOREM AtomicCharge == Spec => []ChargedTogether
<1>1. IInv => ChargedTogether
  <2> SUFFICES ASSUME IInv, NEW d \in Dests
               PROVE  Recent(d, now) = {p \in Recent(Global, now) : p.to = d}
    BY DEF ChargedTogether
  <2>1. d # Global /\ d \in Keys /\ Global \in Keys
    BY LimiterAssumption DEF Keys
  <2>2. /\ \A p \in events[d] : p \in sent /\ p.to = d
        /\ \A p \in events[Global] : p \in sent
    BY <2>1 DEF IInv, Held, Bucket
  <2>3. \A p \in sent : p.at \in Nat /\ p \in Bucket(Global) /\ (p.to = d => p \in Bucket(d))
    BY <2>1 DEF IInv, TypeOK, Packets, Bucket
  <2>4. \A p \in sent : now - p.at < Window =>
           p \in events[Global] /\ (p.to = d => p \in events[d])
    BY <2>1, <2>3, LimiterAssumption DEF IInv, TypeOK, Aged
  <2> QED BY <2>2, <2>4 DEF Recent
<1> QED BY <1>1, Inductive, PTL
-----------------------------------------------------------------------------
(* The hint of a refusal *)

\* Packets are numbered in the order of their times.
InOrder == \A p, q \in sent : (p.no = q.no => p = q) /\ (p.no <= q.no => p.at <= q.at)

HintInv == InOrder /\ HintIsExact

\* A set of numbers has a least one.
LEMMA LeastExists ==
    ASSUME NEW T \in SUBSET Nat, T # {}
    PROVE  \E x \in T : \A y \in T : x <= y
<1>1. PICK x \in T : \A y \in T : ~(<<y, x>> \in OpToRel(<, Nat))
  BY NatLessThanWellFounded, WFMin
<1>2. \A y \in T : ~(y < x)
  BY <1>1 DEF OpToRel
<1> QED BY <1>2

\* What a bucket counts is a finite part of the history, within the limit.
LEMMA RecentBounded ==
    ASSUME IInv, NEW k \in Keys
    PROVE  /\ Recent(k, now) \subseteq sent /\ IsFiniteSet(Recent(k, now))
           /\ Cardinality(Recent(k, now)) \in Nat
           /\ Cardinality(Recent(k, now)) <= Limit(k)
<1>1. Recent(k, now) \subseteq sent
  BY BucketInSent DEF IInv, Held, Recent
<1>2. IsFiniteSet(Recent(k, now)) /\ IsFiniteSet(WindowOf(now, k))
  BY <1>1, BucketInSent, FS_Subset DEF IInv, History, WindowOf
<1>3. Recent(k, now) \subseteq WindowOf(now, k)
  BY <1>1 DEF IInv, Held, History, Recent, WindowOf
<1>4. Cardinality(WindowOf(now, k)) <= Limit(k) /\ now \in Nat
  <2>1. now \in Nat
    BY DEF IInv, TypeOK
  <2>2. now \in 0..now
    BY <2>1
  <2> QED BY <2>1, <2>2 DEF IInv, WindowBudget
<1>5. Cardinality(Recent(k, now)) <= Cardinality(WindowOf(now, k))
  BY <1>2, <1>3, FS_Subset
<1> QED BY <1>1, <1>2, <1>4, <1>5, FS_CardinalityType, LimitIsNat

\* In a full bucket RetryAt is when its oldest packet expires: the others are
\* one short of the limit.
LEMMA RetryAtOldest ==
    ASSUME IInv, InOrder, NEW k \in Keys, Full(k, now)
    PROVE  \E p \in Recent(k, now) :
              /\ RetryAt(k) = p.at + Window
              /\ \A q \in Recent(k, now) : p.at <= q.at
<1> DEFINE R == Recent(k, now)
           Newer(p) == {q \in R : q.no > p.no}
<1>1. /\ R \subseteq sent /\ IsFiniteSet(R) /\ Cardinality(R) = Limit(k)
      /\ Limit(k) \in Nat \ {0}
  <2>1. Limit(k) \in Nat \ {0}
    BY LimiterAssumption DEF Limit
  <2>2. Cardinality(R) >= Limit(k)
    BY DEF Full
  <2> QED BY <2>1, <2>2, RecentBounded
<1>2. \A p \in R : p.no \in Nat /\ p.at \in Nat
  BY <1>1 DEF IInv, TypeOK, Packets
<1>3. \A p \in R : IsFiniteSet(R \ {p}) /\ Cardinality(R \ {p}) = Limit(k) - 1
  BY <1>1, FS_RemoveElement
<1>4. PICK p0 \in R : \A q \in R : p0.no <= q.no
  <2> DEFINE T == {p.no : p \in R}
  <2>1. T \in SUBSET Nat /\ T # {}
    <3>1. R # {}
      BY <1>1, FS_EmptySet
    <3> QED BY <1>2, <3>1
  <2>2. PICK x \in T : \A y \in T : x <= y
    <3> HIDE DEF T
    <3> QED BY <2>1, LeastExists
  <2> QED BY <2>2
<1>5. Cardinality(Newer(p0)) = Limit(k) - 1
  <2>1. Newer(p0) = R \ {p0}
    BY <1>1, <1>2, <1>4 DEF InOrder
  <2> QED BY <1>3, <2>1
<1> DEFINE p1 == CHOOSE p \in R : Cardinality(Newer(p)) = Limit(k) - 1
<1>6. p1 \in R /\ Cardinality(Newer(p1)) = Limit(k) - 1
  <2> HIDE DEF Newer, R
  <2> QED BY <1>4, <1>5
<1>7. RetryAt(k) = p1.at + Window
  BY DEF RetryAt
<1> HIDE DEF p1
<1>8. Newer(p1) = R \ {p1}
  <2>1. Newer(p1) \in SUBSET (R \ {p1})
    BY <1>2, <1>6
  <2> HIDE DEF Newer, R
  <2> QED BY <1>3, <1>6, <2>1, FS_Subset
<1>9. \A q \in R : p1.at <= q.at
  <2> SUFFICES ASSUME NEW q \in R PROVE p1.at <= q.at
    OBVIOUS
  <2>1. p1.no <= q.no
    <3>1. CASE q = p1
      BY <1>2, <1>6, <3>1
    <3>2. CASE q # p1
      <4>1. q \in Newer(p1)
        BY <1>8, <3>2
      <4> QED BY <1>2, <1>6, <4>1
    <3> QED BY <3>1, <3>2
  <2> QED BY <1>1, <1>6, <2>1 DEF InOrder
<1> QED BY <1>6, <1>7, <1>9

\* The window gate opens when the oldest packet expires, not before.
LEMMA WindowHint ==
    ASSUME IInv, InOrder, NEW k \in Keys, Full(k, now), NEW n \in Nat, n = now,
           NEW kept, kept = Recent(k, now)
    PROVE  LET left(t) == Cardinality({p \in kept : t - p.at < Window}) IN
           /\ RetryAt(k) \in Nat
           /\ ~(left(RetryAt(k)) >= Limit(k))
           /\ \A t \in n..(RetryAt(k) - 1) : left(t) >= Limit(k)
<1> DEFINE left(t) == Cardinality({p \in kept : t - p.at < Window})
<1>1. PICK p \in kept : RetryAt(k) = p.at + Window /\ \A q \in kept : p.at <= q.at
  BY RetryAtOldest
<1>2. /\ IsFiniteSet(kept) /\ kept \subseteq sent /\ Cardinality(kept) \in Nat
      /\ Cardinality(kept) >= Limit(k) /\ Cardinality(kept) <= Limit(k)
      /\ Limit(k) \in Nat /\ Window \in Nat \ {0}
  BY RecentBounded, LimitIsNat, LimiterAssumption DEF Full
<1>3. \A q \in kept : q.at \in Nat
  BY <1>2 DEF IInv, TypeOK, Packets
<1>4. ~(left(RetryAt(k)) >= Limit(k))
  <2> DEFINE L == {q \in kept : RetryAt(k) - q.at < Window}
  <2>1. L \in SUBSET (kept \ {p})
    BY <1>1, <1>2, <1>3
  <2>2. IsFiniteSet(kept \ {p}) /\ Cardinality(kept \ {p}) = Cardinality(kept) - 1
    BY <1>1, <1>2, FS_RemoveElement
  <2>3. Cardinality(L) <= Cardinality(kept) - 1 /\ Cardinality(L) \in Nat
    <3> HIDE DEF L
    <3> QED BY <2>1, <2>2, FS_Subset, FS_CardinalityType
  <2> HIDE DEF L
  <2>4. ~(Cardinality(L) >= Limit(k))
    BY <1>2, <2>3
  <2> QED BY <2>4 DEF L
<1>5. ASSUME NEW t \in n..(RetryAt(k) - 1) PROVE left(t) >= Limit(k)
  <2>1. {q \in kept : t - q.at < Window} = kept
    BY <1>1, <1>2, <1>3
  <2> QED BY <1>2, <2>1
<1> QED BY <1>1, <1>2, <1>3, <1>4, <1>5

LEMMA HintStep == IInv /\ HintInv /\ [Next]_vars => HintInv'
<1> SUFFICES ASSUME IInv, HintInv, [Next]_vars PROVE HintInv'
  OBVIOUS
<1>0. now \in Nat /\ count \in Nat
  BY DEF IInv, TypeOK
<1>1. ASSUME NEW d \in Dests, NEW first \in BOOLEAN, RefuseCooldown(d, first)
      PROVE  HintInv'
  <2>1. InOrder'
    BY <1>1 DEF RefuseCooldown, HintInv, InOrder
  <2>2. /\ refusal' = [gate |-> "cooldown", key |-> d, until |-> lastSend[d] + Cooldown]
        /\ lastSend' = lastSend /\ now' = now
        /\ lastSend[d] \in Nat /\ Cooldown \in Nat
        /\ lastSend[d] # Never /\ lastSend[d] <= now
    BY <1>1, LimiterAssumption
       DEF RefuseCooldown, Cooling, IInv, TypeOK, LastIsLatest
  <2>3. /\ refusal'.gate = "cooldown" /\ refusal'.key = d
        /\ refusal'.until = lastSend[d] + Cooldown
    BY <2>2
  <2>4. HintIsExact'
    BY <1>0, <2>2, <2>3 DEF HintIsExact, Cooling
  <2> QED BY <2>1, <2>4 DEF HintInv
<1>2. ASSUME NEW d \in Dests, NEW first \in BOOLEAN, RefuseFull(d, first)
      PROVE  HintInv'
  <2>1. InOrder'
    BY <1>2 DEF RefuseFull, HintInv, InOrder
  <2>2. PICK k \in Keys :
           /\ Full(k, now) /\ k \in {Global, d}
           /\ refusal' = [gate |-> "window", key |-> k, until |-> RetryAt(k)]
    <3>1. Global \in Keys /\ d \in Keys
      BY DEF Keys
    <3> QED BY <1>2, <3>1 DEF RefuseFull
  <2>3. PICK u \in Nat :
           /\ u = RetryAt(k)
           /\ ~(Cardinality({p \in Recent(k, now) : u - p.at < Window}) >= Limit(k))
           /\ \A t \in now..(u - 1) :
                Cardinality({p \in Recent(k, now) : t - p.at < Window}) >= Limit(k)
    BY <1>0, <2>2, WindowHint DEF HintInv
  <2>4. /\ refusal'.gate = "window" /\ refusal'.key = k /\ refusal'.until = u
        /\ now' = now /\ events'[k] = Recent(k, now)
    BY <1>2, <2>2, <2>3 DEF RefuseFull, Prune
  <2>5. ASSUME NEW t
        PROVE  Full(k, t)' <=>
                 Cardinality({p \in Recent(k, now) : t - p.at < Window}) >= Limit(k)
    <3>1. Recent(k, t)' = {p \in Recent(k, now) : t - p.at < Window}
      BY <2>4 DEF Recent
    <3> QED BY <3>1 DEF Full, Limit
  <2>6. ~Full(k, u)' /\ \A t \in now..(u - 1) : Full(k, t)'
    BY <2>3, <2>5
  <2>7. HintIsExact'
    BY <2>4, <2>6 DEF HintIsExact
  <2> QED BY <2>1, <2>7 DEF HintInv
<1>3. ASSUME NEW d \in Dests, NEW first \in BOOLEAN, Admit(d, first)
      PROVE  HintInv'
  <2> DEFINE p == [no |-> count + 1, to |-> d, at |-> now, first |-> first]
  <2>1. sent' = sent \cup {p} /\ p.no = count + 1 /\ p.at = now /\ refusal' = NoRefusal
    BY <1>3 DEF Admit
  <2> HIDE DEF p
  <2>2. \A q \in sent : q.no \in Nat /\ q.at \in Nat /\ q.no <= count /\ q.at <= now
    BY DEF IInv, TypeOK, Packets, History
  <2>3. InOrder'
    BY <1>0, <2>1, <2>2 DEF HintInv, InOrder
  <2> QED BY <2>1, <2>3 DEF HintInv, HintIsExact
<1>4. CASE Reset
  BY <1>4 DEF Reset, HintInv, InOrder, HintIsExact
<1>5. CASE Tick
  <2>1. now' = now + 1 /\ UNCHANGED <<events, lastSend, sent, refusal>>
    BY <1>5 DEF Tick
  <2>2. InOrder'
    BY <2>1 DEF HintInv, InOrder
  <2>3. \A d, t : Cooling(d, t)' <=> Cooling(d, t)
    BY <2>1 DEF Cooling
  <2>4. \A k, t : Full(k, t)' <=> Full(k, t)
    BY <2>1 DEF Full, Recent, Limit
  <2>5. \A u : \A t \in now'..u : t \in now..u
    BY <1>0, <2>1
  <2>6. HintIsExact'
    BY <2>1, <2>3, <2>4, <2>5 DEF HintInv, HintIsExact
  <2> QED BY <2>2, <2>6 DEF HintInv
<1>6. CASE UNCHANGED vars
  BY <1>6 DEF vars, HintInv, InOrder, HintIsExact, Cooling, Full, Recent, Limit
<1> QED BY <1>1, <1>2, <1>3, <1>4, <1>5, <1>6 DEF Next, Check

\* A refusal's retry_after is the first moment its gate is open, as long as
\* nothing is charged (rate_limit.py:207-218, 264-303).
THEOREM HintsAreExact == Spec => []HintIsExact
<1>1. Init => HintInv
  BY DEF Init, HintInv, InOrder, HintIsExact
<1>2. HintInv => HintIsExact
  BY DEF HintInv
<1> QED BY <1>1, <1>2, HintStep, Inductive, PTL DEF Spec

-----------------------------------------------------------------------------
(* The limiter keeps the promise of AirtimeBudget *)

\* The counter counts the history, and a latest send is of a packet in it.
Numbered == count = Cardinality(sent)
LastIsReal ==
    \A d \in Dests : lastSend[d] # Never => \E p \in sent : p.to = d /\ p.at = lastSend[d]
BudgetInv == HintInv /\ Numbered /\ LastIsReal

LEMMA BudgetInit == Init => BudgetInv
BY FS_EmptySet DEF Init, BudgetInv, HintInv, InOrder, HintIsExact, Numbered, LastIsReal

LEMMA BudgetStep == IInv /\ BudgetInv /\ [Next]_vars => BudgetInv'
<1> SUFFICES ASSUME IInv, BudgetInv, [Next]_vars PROVE Numbered' /\ LastIsReal'
  BY HintStep DEF BudgetInv
<1>1. ASSUME NEW d \in Dests, NEW first \in BOOLEAN, Admit(d, first)
      PROVE  Numbered' /\ LastIsReal'
  <2> DEFINE p == [no |-> count + 1, to |-> d, at |-> now, first |-> first]
  <2>1. /\ sent' = sent \cup {p} /\ p.no = count + 1 /\ p.at = now /\ p.to = d
        /\ count' = count + 1 /\ lastSend' = [lastSend EXCEPT ![d] = now]
    BY <1>1 DEF Admit
  <2> HIDE DEF p
  <2>2. count \in Nat /\ IsFiniteSet(sent) /\ p \notin sent
    BY <2>1 DEF IInv, TypeOK, History
  <2>3. Cardinality(sent \cup {p}) = Cardinality(sent) + 1
    BY <2>2, FS_AddElement
  <2>4. Numbered'
    BY <2>1, <2>3 DEF BudgetInv, Numbered
  <2>5. LastIsReal'
    BY <2>1 DEF BudgetInv, LastIsReal, IInv, TypeOK
  <2> QED BY <2>4, <2>5
<1>2. CASE Reset
  BY <1>2, FS_EmptySet DEF Reset, Numbered, LastIsReal
<1>3. CASE UNCHANGED <<lastSend, sent, count>>
  BY <1>3 DEF BudgetInv, Numbered, LastIsReal
<1> QED BY <1>1, <1>2, <1>3 DEF Next, Check, RefuseCooldown, RefuseFull, Tick, vars

\* The abstract module counts as this one does.
LEMMA SameCount == \A S : Budget!Cardinality(S) = Cardinality(S)
BY DEF Budget!Cardinality, Cardinality

\* From now on a bucket counts what the history does: nothing that still
\* counts was pruned.
LEMMA CountsTheHistory ==
    ASSUME IInv, NEW k \in Keys, NEW t \in Nat, now <= t
    PROVE  Full(k, t) <=> Budget!Shut(k, t)
<1>1. Budget!To(k) = Bucket(k)
  BY DEF Budget!To, Bucket
<1>2. /\ now \in Nat /\ Window \in Nat /\ events[k] \subseteq Bucket(k)
      /\ \A p \in Bucket(k) : p.at \in Nat
  BY BucketInSent, LimiterAssumption DEF IInv, TypeOK, Held, Packets
<1>3. \A p \in Bucket(k) : t - p.at < Window => p \in events[k]
  BY <1>2 DEF IInv, Aged
<1>4. Recent(k, t) = {p \in Bucket(k) : t - p.at < Window}
  BY <1>2, <1>3 DEF Recent
<1>5. [j \in Keys |-> Limit(j)][k] = Limit(k)
  OBVIOUS
<1>6. Budget!Shut(k, t) <=> Cardinality({p \in Bucket(k) : t - p.at < Window}) >= Limit(k)
  BY <1>1, <1>5, SameCount DEF Budget!Shut
<1> QED BY <1>4, <1>6 DEF Full

\* The latest send cools down as the whole history does.
LEMMA CoolsTheHistory ==
    ASSUME IInv, LastIsReal, NEW d \in Dests, NEW t \in Nat
    PROVE  Cooling(d, t) <=> Budget!Soon(d, t)
<1>1. Budget!To(d) = {p \in sent : p.to = d} /\ Cooldown \in Nat
  BY LimiterAssumption DEF Budget!To
<1>2. \A p \in sent : p.at \in Nat
  BY DEF IInv, TypeOK, Packets
<1>3. lastSend[d] \in Nat \cup {Never}
  BY DEF IInv, TypeOK
<1>4. ASSUME Cooling(d, t) PROVE Budget!Soon(d, t)
  <2>1. PICK p \in sent : p.to = d /\ p.at = lastSend[d]
    BY <1>4 DEF Cooling, LastIsReal
  <2> QED BY <1>1, <1>4, <2>1 DEF Cooling, Budget!Soon
<1>5. ASSUME Budget!Soon(d, t) PROVE Cooling(d, t)
  <2>1. PICK p \in sent : p.to = d /\ t - p.at < Cooldown
    BY <1>1, <1>5 DEF Budget!Soon
  <2>2. lastSend[d] # Never /\ p.at <= lastSend[d]
    BY <2>1 DEF IInv, LastIsLatest
  <2> QED BY <1>1, <1>2, <1>3, <2>1, <2>2 DEF Cooling
<1> QED BY <1>4, <1>5

LEMMA AdmitIsAdmitted ==
    ASSUME IInv, BudgetInv, NEW d \in Dests, NEW first \in BOOLEAN, Admit(d, first)
    PROVE  Budget!Admit(d, first)
<1>1. now \in Nat /\ d \in Keys /\ Global \in Keys
  BY DEF IInv, TypeOK, Keys
<1>2. ~Budget!Shut(Global, now) /\ ~Budget!Shut(d, now)
  BY <1>1, CountsTheHistory DEF Admit
<1>3. ~(first /\ Budget!Soon(d, now))
  BY <1>1, CoolsTheHistory DEF Admit, BudgetInv
<1>4. count + 1 = Cardinality(sent) + 1
  BY DEF BudgetInv, Numbered
<1>5. /\ sent' = sent \cup {[no |-> count + 1, to |-> d, at |-> now, first |-> first]}
      /\ refusal' = NoRefusal /\ now' = now
  BY DEF Admit
<1> QED BY <1>2, <1>3, <1>4, <1>5, SameCount DEF Budget!Admit

LEMMA CooldownIsRefused ==
    ASSUME IInv, BudgetInv, NEW d \in Dests, NEW first \in BOOLEAN, RefuseCooldown(d, first)
    PROVE  Budget!RefuseSoon(d)
<1> DEFINE until == lastSend[d] + Cooldown
<1>1. /\ now \in Nat /\ Cooldown \in Nat /\ lastSend[d] \in Nat /\ lastSend[d] <= now
      /\ lastSend[d] # Never /\ now - lastSend[d] < Cooldown
  BY LimiterAssumption DEF RefuseCooldown, Cooling, IInv, TypeOK, LastIsLatest
<1>2. until \in now..(now + Cooldown) /\ until \in Nat
  BY <1>1
<1>3. Budget!Soon(d, now)
  BY <1>1, CoolsTheHistory DEF RefuseCooldown, BudgetInv
<1>4. ~Budget!Soon(d, until)
  <2>1. ~Cooling(d, until)
    BY <1>1 DEF Cooling
  <2> HIDE DEF until
  <2> QED BY <1>2, <2>1, CoolsTheHistory DEF BudgetInv
<1>5. \A t \in now..(until - 1) : Budget!Soon(d, t)
  <2> SUFFICES ASSUME NEW t \in now..(until - 1) PROVE Budget!Soon(d, t)
    OBVIOUS
  <2>1. t \in Nat /\ Cooling(d, t)
    BY <1>1 DEF Cooling
  <2> QED BY <2>1, CoolsTheHistory DEF BudgetInv
<1>6. refusal' = [gate |-> "cooldown", key |-> d, until |-> until] /\ UNCHANGED <<now, sent>>
  BY DEF RefuseCooldown
<1> HIDE DEF until
<1> QED BY <1>2, <1>3, <1>4, <1>5, <1>6 DEF Budget!RefuseSoon

LEMMA FullIsRefused ==
    ASSUME IInv, BudgetInv, NEW d \in Dests, NEW first \in BOOLEAN, RefuseFull(d, first)
    PROVE  \E k \in Dests \cup {Global} : Budget!RefuseFull(k)
<1>1. PICK k \in Keys :
         /\ Full(k, now)
         /\ refusal' = [gate |-> "window", key |-> k, until |-> RetryAt(k)]
  <2>1. Global \in Keys /\ d \in Keys
    BY DEF Keys
  <2> QED BY <2>1 DEF RefuseFull
<1>2. now \in Nat /\ Window \in Nat
  BY LimiterAssumption DEF IInv, TypeOK
<1>3. PICK p \in Recent(k, now) : RetryAt(k) = p.at + Window
  BY <1>1, RetryAtOldest DEF BudgetInv, HintInv
<1>4. p.at \in Nat /\ p.at <= now /\ now - p.at < Window
  BY RecentBounded DEF IInv, TypeOK, History, Packets, Recent
<1>5. PICK u \in Nat : u = RetryAt(k) /\ u \in now..(now + Window)
  BY <1>2, <1>3, <1>4
<1>6. LET left(t) == Cardinality({q \in Recent(k, now) : t - q.at < Window}) IN
      ~(left(u) >= Limit(k)) /\ \A t \in now..(u - 1) : left(t) >= Limit(k)
  BY <1>1, <1>2, <1>5, WindowHint DEF BudgetInv, HintInv
<1>7. ASSUME NEW t \in Nat, now <= t
      PROVE  Budget!Shut(k, t) <=>
                 Cardinality({q \in Recent(k, now) : t - q.at < Window}) >= Limit(k)
  <2>1. \A q \in events[k] : q.at \in Nat
    BY DEF IInv, TypeOK, Packets
  <2>2. Recent(k, t) = {q \in Recent(k, now) : t - q.at < Window}
    BY <1>2, <1>7, <2>1 DEF Recent
  <2> QED BY <1>7, <2>2, CountsTheHistory DEF Full
<1>8. Budget!Shut(k, now) /\ ~Budget!Shut(k, u)
  BY <1>1, <1>2, <1>5, <1>6, <1>7, CountsTheHistory
<1>9. ASSUME NEW t \in now..(u - 1) PROVE Budget!Shut(k, t)
  <2>1. t \in Nat /\ now <= t
    BY <1>2
  <2> QED BY <1>6, <1>7, <2>1
<1>10. UNCHANGED <<now, sent>> /\ k \in Dests \cup {Global}
  BY DEF RefuseFull, Keys
<1> QED BY <1>1, <1>5, <1>8, <1>9, <1>10 DEF Budget!RefuseFull

\* For every limit, cooldown and window, and any number of destinations, what
\* check() admits, refuses and tells of it is what AirtimeBudget says of the
\* packets that went out (rate_limit.py:234-309).
THEOREM ImplementsBudget == Spec => BudgetSpec
<1>1. Init => Budget!Init
  BY DEF Init, Budget!Init
<1>2. IInv /\ BudgetInv /\ [Next]_vars => [Budget!Next]_<<now, sent, refusal>>
  <2> SUFFICES ASSUME IInv, BudgetInv, [Next]_vars
               PROVE  Budget!Next \/ UNCHANGED <<now, sent, refusal>>
    OBVIOUS
  <2>1. ASSUME NEW d \in Dests, NEW first \in BOOLEAN, Check(d, first) PROVE Budget!Next
    BY <2>1, AdmitIsAdmitted, CooldownIsRefused, FullIsRefused DEF Check, Budget!Next
  <2>2. CASE Reset
    BY <2>2 DEF Reset, Budget!Reset, Budget!Next
  <2>3. CASE Tick
    BY <2>3 DEF Tick, Budget!Tick, Budget!Next
  <2> QED BY <2>1, <2>2, <2>3 DEF Next, vars
<1> QED BY <1>1, <1>2, BudgetInit, BudgetStep, Inductive, PTL DEF Spec, BudgetSpec, Budget!Spec
=============================================================================
