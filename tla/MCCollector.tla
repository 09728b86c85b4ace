----------------------------- MODULE MCCollector -----------------------------
(***************************************************************************)
(* Small instances of Collector: a router with one or two observation      *)
(* domains and a stranger.  A router that restarts gives template 256 its  *)
(* fields in another order.                                                *)
(***************************************************************************)
EXTENDS Collector

CONSTANTS r1, stranger

Key1 == <<r1, 1>>
TwoKeys == {Key1, <<r1, 2>>}
Everyone == TwoKeys \cup {<<stranger, 1>>}

Layout(life) ==
    IF life = 1 THEN <<"source", "destination", "octets">> ELSE <<"octets", "source", "destination">>

Word(e) == [element |-> e, value |-> IF e = "interval" THEN 2 ELSE 1]

Set(id, body, records) == [id |-> id, body |-> body, records |-> records, malformed |-> FALSE]

Templates(id, fields) == Set(2, <<[id |-> id, scope |-> 0, fields |-> fields]>>, 0)
Options(id, fields) == Set(3, <<[id |-> id, scope |-> 1, fields |-> fields]>>, 0)
Data(id, fields) == Set(id, [i \in DOMAIN fields |-> Word(fields[i])], 1)
Broken == [id |-> 0, body |-> << >>, records |-> 0, malformed |-> TRUE]

Message(sets) == [header |-> TRUE, sets |-> sets, rate |-> Nothing]

Announce == [header |-> TRUE, rate |-> 2, sets |-> <<Options(257, <<"interval">>), Data(257, <<"interval">>)>>]

Plain(life) ==
    {Message(<<Templates(256, Layout(life))>>), Message(<<Data(256, Layout(life))>>), Announce}

\* Withdrawals of one and of all, a template past the limit, one of no
\* length, a reserved set, a redefinition in a message that breaks off.
Odd(life) ==
    {Message(<<Templates(256, << >>)>>), Message(<<Templates(2, << >>)>>),
     Message(<<Templates(258, <<"other", "other">>), Data(256, Layout(life))>>),
     Message(<<Templates(259, <<"empty">>)>>), Message(<<Set(4, << >>, 0), Data(256, Layout(life))>>),
     Message(<<Templates(257, <<"interval", "empty">>), Broken>>),
     [header |-> FALSE, sets |-> << >>, rate |-> Nothing]}

\* The second domain, or the stranger, sends only templates.
AllBodies(key, life) ==
    IF key = Key1 THEN Plain(life) \cup Odd(life) ELSE {Message(<<Templates(256, Layout(life))>>)}
=============================================================================
