---------------------------- MODULE MCDecisions -----------------------------
(***************************************************************************)
(* Four parts that share nothing, each in behaviours of its own: the      *)
(* guard, asked about every kind of request under every guard file with at *)
(* most two allowlist entries over two-bit IPv4 and one-bit IPv6           *)
(* addresses; the classifier under every list of at most two prefixes of   *)
(* the same addresses, with the aggregator and the detector's windows; the *)
(* collector of MCCollector; and documents of two policies, or of one with *)
(* a fault.                                                                *)
(***************************************************************************)
EXTENDS GuardCheck, Policies, MCCollector

S == INSTANCE SequencesExt

Bits == [ipv4 |-> 2, ipv6 |-> 1]
Widest == [ipv4 |-> 1, ipv6 |-> 0]
TwoTenants == {"acme", "beta"}

Entries ==
    [prefix : Prefixes, tenant : TwoTenants, actions : {{"rtbh"}, {"parent_prefix", "flowspec_rate_limit"}}]

WellTimed ==
    [dry_run : {TRUE}, bgp_enabled : {FALSE}, kill_switch : {FALSE}, max_duration : {2},
     approval_window : {1}, allow_self_approval : {FALSE}, min_length : {[ipv4 |-> 1, ipv6 |-> 1]},
     allowlist : {s \in S!BoundedSeq(Entries, 2) :
                     Len(s) = 2 => s[1].tenant = "acme" /\ "rtbh" \in s[1].actions}]

\* One more leaves no time to approve.
AllFiles ==
    WellTimed \cup
    {[file EXCEPT !.approval_window = 0] : file \in {f \in WellTimed : f.allowlist = <<>>}}

Matches ==
    {[protocol |-> 17, source |-> None, source_port |-> None, destination_port |-> 53],
     [protocol |-> None, source |-> [family |-> "ipv4", address |-> 0, length |-> 0],
      source_port |-> None, destination_port |-> None]}

AllQuestions ==
    {ask \in [prefix : Prefixes, kind : Kinds, flow : Matches \cup {None}, rate : {None, 1},
              duration : {1, 3}] : ValidAction(ask)}

Local(family, bits, hostgroup) == [family |-> family, bits |-> bits, tenant |-> "acme", hostgroup |-> hostgroup]

Locals ==
    {Local("ipv4", bits, IF Len(bits) = 1 THEN "web" ELSE "dns") : bits \in S!BoundedSeq({0, 1}, 3)} \cup {Local("ipv6", <<1>>, Nobody)}

Lists == {s \in S!BoundedSeq(Locals, 2) : Len(s) = 2 => s[1] # s[2] \/ s[1].bits = <<1>>}

V4(a, b) == [family |-> "ipv4", bits |-> <<a, b>>]
V6(a) == [family |-> "ipv6", bits |-> <<a>>]

Flow(source, destination, protocol, flags, fragmented, sampled) ==
    [source |-> source, destination |-> destination, bytes |-> 3, packets |-> 2,
     protocol |-> protocol, tcp_flags |-> flags, fragmented |-> fragmented,
     forwarding_status_known |-> fragmented, dropped |-> fragmented,
     sampling_rate |-> IF sampled THEN 4 ELSE 1, global_default |-> sampled, exporter |-> protocol]

TheFlows ==
    {Flow(V4(0, 0), V4(0, 1), "tcp", {"SYN"}, FALSE, FALSE),
     Flow(V4(1, 0), V4(0, 0), "udp", Nobody, TRUE, FALSE),
     Flow(V6(0), V6(1), Nobody, Nobody, FALSE, TRUE)}

ScopeLimits == [host |-> 2, prefix |-> 1, slash24 |-> 0, hostgroupTotal |-> 2]

Limits == [hosts |-> 2, networks |-> 1, hostgroups |-> 1]

\* One list sees the flows that fill the maps.
FlowsFor(list) == IF list = <<Local("ipv4", <<0>>, "web")>> THEN 3 ELSE 1

Any == [kind |-> "any"]
OfHost(a) == [kind |-> "host", addr |-> a]
OfNet(a, len) == [kind |-> "network", addr |-> a, len |-> len]
OfGroup(name) == [kind |-> "hostgroup", name |-> name]

For(value, unit) == [value |-> value, unit |-> unit]

Policy(id, tenant, type, selector, family, priority) ==
    [id |-> id, enabled |-> TRUE, tenant |-> tenant, scope_type |-> type, selector |-> selector,
     address_family |-> family, direction |-> "incoming", window |-> For(1, "s"),
     thresholds |-> [bytes |-> [value |-> 1, suffix |-> "k"]], clear_percent |-> Nobody,
     trigger_for |-> For(3, "ms"), clear_for |-> For(1, "m"), cooldown |-> Nobody, hold_down |-> For(0, "s"),
     event_update_interval |-> Nobody, execution_mode |-> Nobody, priority |-> priority]

\* With a network of no possible length, one too long for a /24, and one
\* with bits beyond its length.
Targets ==
    {<<"host", Any>>, <<"host", OfHost(V4(0, 0))>>, <<"host", OfHost(V6(1))>>, <<"prefix", Any>>,
     <<"prefix", OfNet(V4(0, 0), 1)>>, <<"prefix", OfNet(V4(0, 1), 1)>>, <<"prefix", OfNet(V4(0, 0), 3)>>,
     <<"slash24", OfNet(V4(0, 0), 1)>>, <<"slash24", OfNet(V4(0, 0), 2)>>, <<"hostgroupTotal", OfGroup("web")>>,
     <<"hostgroupTotal", OfHost(V4(0, 0))>>}

PoliciesWith(id, priorities) ==
    {Policy(id, tenant, target[1], target[2], family, priority) :
        tenant \in {"acme", "*"}, target \in Targets, family \in {Nobody, "ipv4"}, priority \in priorities}

Document(tenants, list) ==
    [readable |-> TRUE, schema_version |-> 1, defaults |-> [PolicyDefaults EXCEPT !.cooldown = For(1, "s")],
     tenants |-> tenants, policies |-> list]

Own(len) == <<[tenant |-> "acme", prefixes |-> <<[addr |-> V4(0, 1), len |-> len]>>]>>

Plainest == Policy(1, "acme", "host", Any, Nobody, 0)

\* One policy with one thing about it changed.
Changed ==
    {[Plainest EXCEPT !.enabled = FALSE], [Plainest EXCEPT !.direction = "unknown"],
     [Plainest EXCEPT !.clear_percent = 0], [Plainest EXCEPT !.clear_percent = 101],
     [Plainest EXCEPT !.execution_mode = "observe"], [Plainest EXCEPT !.cooldown = For(2, "h")]}
    \cup {[Plainest EXCEPT !.window = t] : t \in {For(0, "s"), For(1, "m"), For(5, "ms"), For(1, "x")}}
    \cup {[Plainest EXCEPT !.trigger_for = t] : t \in {For(1, "ms"), For(12, "ms"), For(9, "m")}}
    \cup {[Plainest EXCEPT !.event_update_interval = t] : t \in {For(0, "ms"), For(2, "s")}}
    \cup {[Plainest EXCEPT !.thresholds = t] :
              t \in {<< >>, [bytes |-> [value |-> 0, suffix |-> ""]], [bytes |-> [value |-> 9, suffix |-> "k"]],
                     [bytes |-> [value |-> 7, suffix |-> ""]], [bytes |-> [value |-> 1, suffix |-> "q"]]}}

OneDocument == Document(<< >>, <<Plainest>>)

AllDocuments ==
    {Document(tenants, <<a, b>>) : tenants \in {<< >>, Own(1)}, a \in PoliciesWith(1, {0, 1}), b \in PoliciesWith(2, {0})}
    \cup {Document(<< >>, <<p>>) : p \in Changed}
    \cup {[OneDocument EXCEPT !.readable = FALSE], [OneDocument EXCEPT !.schema_version = 2],
          Document(<< >>, <<Plainest, Plainest>>), Document(Own(3), <<Plainest>>),
          Document(Own(0) \o Own(1), <<Plainest>>),
          Document(<< >>, [id \in 1 .. 3 |-> [Plainest EXCEPT !.id = id]])}

KeyOf(type, id, family) ==
    [tenant |-> "acme", scope_type |-> type, scope_id |-> id, direction |-> "incoming", address_family |-> family]

SomeKeys ==
    {KeyOf("host", V4(0, 0), "ipv4"), KeyOf("host", V6(1), "ipv6"), KeyOf("prefix", mask(V4(0, 0), 1), "ipv4"),
     KeyOf("slash24", mask(V4(0, 0), 1), "ipv4"), KeyOf("hostgroupTotal", "web", "ipv4")}

UnitSizes == [ms |-> 1, s |-> 2, m |-> 4, h |-> 8]
SuffixSizes == [suffix \in {"", "k"} |-> IF suffix = "k" THEN 4 ELSE 1]

TrafficIdle == prefixes = << >> /\ arrivals = << >> /\ now = 0 /\ window_start = 0
GuardIdle == guard = None
PoliciesIdle == document = Nobody

Apart ==
    \/ GuardIdle /\ TrafficIdle /\ PoliciesIdle /\ CollectorNext /\ UNCHANGED <<gcvars, tvars, wvars, pvars>>
    \/ GuardIdle /\ PoliciesIdle /\ CollectorInit /\ WindowsNext /\ UNCHANGED <<gcvars, cvars, pvars>>
    \/ TrafficIdle /\ PoliciesIdle /\ CollectorInit /\ GCNext /\ UNCHANGED <<tvars, wvars, cvars, pvars>>
    \/ GuardIdle /\ TrafficIdle /\ CollectorInit /\ PoliciesIdle /\ PoliciesNext /\ UNCHANGED <<gcvars, tvars, wvars, cvars>>

DecisionsInit == GCInit /\ WindowsInit /\ CollectorInit /\ PoliciesInit

DecisionsSpec == DecisionsInit /\ [][Apart]_<<gcvars, tvars, wvars, cvars, pvars>>
=============================================================================
