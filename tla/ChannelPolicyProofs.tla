-------------------------- MODULE ChannelPolicyProofs --------------------------
(***************************************************************************)
(* The channel policy for any table, any allowlist and any call.           *)
(***************************************************************************)
EXTENDS ChannelPolicy, TLAPS

-----------------------------------------------------------------------------
\* The first of some rows is one of them.
LEMMA FirstIsRow ==
    ASSUME NEW T \in Seq(Row), NEW at \in SUBSET DOMAIN T, NEW i \in FirstAt(T, at)
    PROVE  i \in Nat /\ \E p \in at : T[p].index = i
<1>1. PICK p \in at : T[p].index = i
  BY DEF FirstAt
<1>2. T[p] \in Row
  OBVIOUS
<1> QED BY <1>1, <1>2 DEF Row

\* A name reaches a channel that bears it, or the unnamed primary by an alias.
LEMMA ReachIsNamed ==
    ASSUME NEW T \in Seq(Row), NEW n, NEW i \in Reach(T, n)
    PROVE  /\ i \in Nat
           /\ \E p \in DOMAIN T :
                /\ T[p].index = i
                /\ \/ T[p].name = n
                   \/ n \in Alias /\ T[p].primary /\ T[p].name = NoName
<1>1. CASE Named(T, n) # {}
  <2>1. i \in FirstAt(T, Named(T, n)) /\ Named(T, n) \in SUBSET DOMAIN T
    BY <1>1 DEF Reach, Named
  <2> QED BY <2>1, FirstIsRow DEF Named
<1>2. CASE Named(T, n) = {}
  <2> DEFINE at == Named(T, NoName) \cap Primary(T)
  <2>1. n \in Alias /\ i \in FirstAt(T, at) /\ at \in SUBSET DOMAIN T
    BY <1>2 DEF Reach, Named
  <2>2. i \in Nat /\ \E p \in at : T[p].index = i
    BY <2>1, FirstIsRow
  <2> QED BY <2>1, <2>2 DEF Named, Primary
<1> QED BY <1>1, <1>2

\* A target is a channel index, never a negative one.
LEMMA TargetIsNat ==
    ASSUME NEW T \in Seq(Row), NEW args \in Args, NEW spec,
           NEW i \in Authorize(args, T, spec)
    PROVE  i \in Nat
<1>1. CASE args.dest # {}
  BY <1>1 DEF Authorize, Direct
<1>2. CASE args.dest = {}
  <2>1. i \in Wanted(args, T)
    BY <1>2 DEF Authorize
  <2>2. CASE args.name # {}
    BY <2>1, <2>2, ReachIsNamed DEF Wanted
  <2>3. CASE args.name = {}
    BY <2>1, <2>3 DEF Wanted
  <2> QED BY <2>2, <2>3
<1> QED BY <1>1, <1>2

\* The policy is sound: whatever it authorises as a broadcast is a channel the
\* operator consented to (policy.py:237, gateway_bridge.py:199).
THEOREM AuthorizedIsConsented ==
    ASSUME NEW T \in Seq(Row), OnePrimary(T), NEW spec \in Spec, NEW args \in Args,
           args.dest = {}, NEW i \in Authorize(args, T, spec)
    PROVE  Consented(spec, T, i)
<1>1. Permits(spec, T, i)
  BY DEF Authorize
<1>2. CASE spec.all
  <2>1. i \notin PrimaryIndex(T)
    BY <1>1, <1>2 DEF Permits, PrimaryNamed
  <2>2. ASSUME NEW p \in Primary(T), T[p].index = i PROVE FALSE
    <3>1. p \in Nat /\ \A r \in Primary(T) : p <= r
      BY DEF OnePrimary, Primary
    <3> QED BY <2>1, <2>2, <3>1 DEF PrimaryIndex, FirstAt
  <2> QED BY <1>2, <2>2 DEF Consented
<1>3. CASE ~spec.all
  <2>1. i \in spec.indices \/ \E n \in spec.names : i \in Reach(T, n)
    BY <1>1, <1>3 DEF Permits, Resolve
  <2>2. CASE i \in spec.indices
    BY <1>3, <2>2 DEF Consented
  <2>3. ASSUME NEW n \in spec.names, i \in Reach(T, n) PROVE Consented(spec, T, i)
    <3>1. PICK p \in DOMAIN T :
            /\ T[p].index = i
            /\ \/ T[p].name = n
               \/ n \in Alias /\ T[p].primary /\ T[p].name = NoName
      BY <2>3, ReachIsNamed
    <3> QED BY <1>3, <3>1 DEF Consented
  <2> QED BY <2>1, <2>2, <2>3
<1> QED BY <1>2, <1>3

\* A listed channel is one the operator consented to.
LEMMA ResolvedIsConsented ==
    ASSUME NEW T \in Seq(Row), NEW spec, ~spec.all, NEW i \in Resolve(spec, T)
    PROVE  Consented(spec, T, i)
<1>1. CASE i \in spec.indices
  BY <1>1 DEF Consented
<1>2. CASE i \notin spec.indices
  <2>1. PICK n \in spec.names : i \in Reach(T, n)
    BY <1>2 DEF Resolve
  <2>2. PICK p \in DOMAIN T :
          /\ T[p].index = i
          /\ \/ T[p].name = n
             \/ n \in Alias /\ T[p].primary /\ T[p].name = NoName
    BY <2>1, ReachIsNamed
  <2> QED BY <2>1, <2>2 DEF Consented
<1> QED BY <1>1, <1>2

\* What a specification resolves to are channel indices.
LEMMA ResolvedIsNat ==
    ASSUME NEW T \in Seq(Row), NEW spec \in Spec
    PROVE  Resolve(spec, T) \subseteq Nat
<1>1. spec.indices \subseteq Nat
  BY DEF Spec
<1>2. ASSUME NEW n \in spec.names PROVE Reach(T, n) \subseteq Nat
  BY ReachIsNamed
<1> QED BY <1>1, <1>2 DEF Resolve
=============================================================================
