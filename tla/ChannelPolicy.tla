---------------------------- MODULE ChannelPolicy ----------------------------
(***************************************************************************)
(* What a send is authorised for: the channel allowlists of                *)
(* gateway_bridge.py and the decision of policy.py, as operators.          *)
(*                                                                         *)
(* A value that may be absent (None) is a set of at most one element.      *)
(* Authorize() is the set of channel indices a call may use: one, or none  *)
(* when the code raises ToolSendRejected.  Which of the error codes it     *)
(* raises is left out.                                                     *)
(***************************************************************************)
EXTENDS Integers, Sequences

CONSTANTS
    Node,      \* node ids, destinations of direct messages
    Name,      \* channel names an operator, a caller or the radio may use
    Alias,     \* PRIMARY_ALIASES, any case
    NoName     \* the empty name of a channel row

ASSUME NamesAssumption == Alias \subseteq Name /\ NoName \notin Name

Optional(S) == {x \in SUBSET S : \A a, b \in x : a = b}

\* A row of ConnectionManager.channel_table().
Row == [index : Nat, name : Name \cup {NoName}, primary : BOOLEAN]

\* What parse_channel_spec() returns: "all", or names and indices.
Spec == {s \in [all : BOOLEAN, names : SUBSET Name, indices : SUBSET Nat] :
            s.all => s.names = {} /\ s.indices = {}}
NoSpec == [all |-> FALSE, names |-> {}, indices |-> {}]

\* The arguments of meshtastic_send_text; an index that is no integer counts
\* as a negative one, both are refused.
Args == [dest : Optional(Node), pki : BOOLEAN,
         name : Optional(Name), index : Optional(Int)]

-----------------------------------------------------------------------------
\* The index of the first of some rows of a table.
FirstAt(table, at) == {table[p].index : p \in {q \in at : \A r \in at : q <= r}}

Named(table, n) == {p \in DOMAIN table : table[p].name = n}
Primary(table) == {p \in DOMAIN table : table[p].primary}

\* Mutant: an alias reaches the primary even when it has a name of its own.
ReachByAlias(table, n) ==
    IF Named(table, n) # {} THEN FirstAt(table, Named(table, n))
    ELSE IF n \in Alias THEN FirstAt(table, Primary(table)) ELSE {}

\* The index a configured name stands for.
Reach(table, n) ==
    IF Named(table, n) # {} THEN FirstAt(table, Named(table, n))
    ELSE IF n \in Alias THEN FirstAt(table, Named(table, NoName) \cap Primary(table))
    ELSE {}

\* resolve_channel_spec() of a spec that is not "all"; {} is its None.
Resolve(spec, table) ==
    spec.indices \cup UNION {Reach(table, n) : n \in spec.names}

PrimaryIndex(table) == FirstAt(table, Primary(table))

\* "all" names nothing explicitly, the primary channel least of all.
PrimaryNamed(spec, table) ==
    /\ ~spec.all
    /\ PrimaryIndex(table) \cap Resolve(spec, table) # {}

\* Mutant: a wildcard covers the primary channel too.
PermitsAll(spec, table, i) ==
    spec.all \/ i \in Resolve(spec, table)

\* The gates a broadcast on channel i must pass.
Permits(spec, table, i) ==
    /\ spec.all \/ i \in Resolve(spec, table)
    /\ i \in PrimaryIndex(table) => PrimaryNamed(spec, table)

\* The channel a broadcast asks for; there is no default.
Wanted(args, table) ==
    IF args.name # {} THEN UNION {Reach(table, n) : n \in args.name}
    ELSE args.index \cap Nat

\* Mutant: the slot of a direct message is not checked.
DirectUnchecked(args) ==
    IF ~args.pki THEN {} ELSE IF args.index = {} THEN {0} ELSE args.index

\* The routing slot of a direct message, which must be encrypted to its node.
Direct(args) ==
    IF ~args.pki THEN {} ELSE IF args.index = {} THEN {0} ELSE args.index \cap Nat

\* validate_tool_send(): a target, or none.
Authorize(args, table, spec) ==
    IF args.dest # {} THEN Direct(args)
    ELSE IF args.pki \/ spec = NoSpec THEN {}
    ELSE {i \in Wanted(args, table) : Permits(spec, table, i)}

-----------------------------------------------------------------------------
\* The radio has one primary channel at most.
OnePrimary(table) == \A p, q \in Primary(table) : p = q

\* What the operator consented to, said of the channel that carries the
\* packet: it is listed by index, or bears a listed name, or is the unnamed
\* primary and an alias is listed; a wildcard consents to all but the primary.
Consented(spec, table, i) ==
    IF spec.all THEN \A p \in Primary(table) : table[p].index # i
    ELSE \/ i \in spec.indices
         \/ \E p \in DOMAIN table :
               /\ table[p].index = i
               /\ \/ table[p].name \in spec.names
                  \/ /\ table[p].primary /\ table[p].name = NoName
                     /\ spec.names \cap Alias # {}
=============================================================================
