------------------------------ MODULE MCGateway ------------------------------
(* Instances of Gateway for TLC. *)
EXTENDS Gateway

Channel(i, n) == [index |-> i, name |-> n, primary |-> FALSE]
Public == [index |-> 0, name |-> NoName, primary |-> TRUE]

\* The private channel changes its slot when the channels are reordered.
MCRadios ==
    {[table |-> <<Public, Channel(1, "ops"), Channel(2, "secure")>>,
      names |-> {<<"mesh">>, <<"mesh", "bot">>}],
     [table |-> <<Public, Channel(1, "secure"), Channel(2, "ops")>>,
      names |-> {<<"mesh">>, <<"mesh", "bot">>}]}

MCIdNames == {<<"!me">>, <<"me">>}

Text(to, i, text) ==
    [kind |-> "text", from |-> "peer", to |-> to, channel |-> i, text |-> text]
MCPackets ==
    {Text({"me"}, 2, <<"me", "hi">>),
     Text({}, 2, <<"mesh", "bot", "hi">>),
     Text({}, 1, <<"hi">>),
     [Text({}, 1, <<"me">>) EXCEPT !.from = "me"],
     [Text({}, 0, <<"me">>) EXCEPT !.kind = "opaque"]}

Names(ns) == [all |-> FALSE, names |-> ns, indices |-> {}]
\* Python 3.12 and later, where more can be waited for.
Settings(spec, mention, sidecar) ==
    [host |-> TRUE, spec |-> spec, mention |-> mention, sidecar |-> sidecar,
     waits |-> TRUE]
MCConfigs ==
    {Settings(Names({"secure"}), TRUE, {Names({"secure"})}),
     Settings([Names({"Primary"}) EXCEPT !.indices = {2}], FALSE, {}),
     Settings([NoSpec EXCEPT !.all = TRUE], TRUE, {}),
     [Settings(NoSpec, TRUE, {}) EXCEPT !.host = FALSE]}
=============================================================================
