------------------------------- MODULE Windows -------------------------------
(***************************************************************************)
(* The detector's own counters (crates/detector/src/window.rs and          *)
(* input.rs), beside the aggregator's: a flow counts for the scopes of its *)
(* local ends, with its direction; when a window has passed, every scope   *)
(* still counted becomes a snapshot of rates, and the counting starts      *)
(* anew.                                                                   *)
(***************************************************************************)
EXTENDS Traffic

Seqs == INSTANCE SequencesExt

CONSTANTS
    WindowLength,       \* WindowConfig::window
    MaxScopes,          \* WindowConfig::max_hosts and the others, by scope type
    Slash24Bits         \* how many bits of an IPv4 address a /24 keeps

ASSUME WindowsAssumption ==
    /\ WindowLength \in Nat
    /\ MaxScopes \in [{"host", "prefix", "slash24", "hostgroupTotal"} -> Nat]

VARIABLES
    scopes,             \* [scope type -> [map, evicted]], what is being counted
    window_start,
    inside,             \* history: the flows of the window in progress
    closed              \* the window last closed: its snapshots, and its flows

wvars == <<scopes, window_start, inside, closed>>

------------------------------------------------------------------------------
(* input.rs *)

ScopeType == {"host", "prefix", "slash24", "hostgroupTotal"}

\* A normalized flow.
ASSUME FlowsAssumption ==
    \A f \in SeenFlows : {f.source, f.destination} \subseteq Address /\ {f.bytes, f.packets} \subseteq Nat

\* UNATTRIBUTED_TENANT: an owner that names no tenant.
ScopeKey(type, id, side) ==
    [tenant |-> IF side.owner.tenant = Nobody THEN "unattributed" ELSE side.owner.tenant,
     scope_type |-> type, scope_id |-> id,
     direction |-> side.direction, address_family |-> side.addr.family]

Protocols == {"tcp", "udp", "icmp"}

\* What is counted; the rate of each is a metric.  There is no byte counter
\* of SYN, fragmented and dropped packets: their bit rates are zero.
MetricKind ==
    {"bytes", "packets", "flows", "syn packets", "fragmented packets", "dropped packets"}
    \cup {p \o " bytes" : p \in Protocols} \cup {p \o " packets" : p \in Protocols}

MetricUnit(k) == IF k \in {"bytes"} \cup {p \o " bytes" : p \in Protocols} THEN 8 ELSE 1

\* DataCompleteness: the optional fields a flow carried.  Of fragmentation
\* only a fragmented flow is evidence.
DataCompleteness(f) ==
    (IF f.protocol # Nobody THEN {"protocol"} ELSE {})
    \cup (IF f.tcp_flags # Nobody THEN {"tcp_flags"} ELSE {})
    \cup (IF f.fragmented THEN {"fragmentation"} ELSE {})
    \cup (IF f.forwarding_status_known THEN {"forwarding_status"} ELSE {})

SamplingStatus(f) ==
    [corrected |-> f.sampling_rate > 1, used_global_default |-> f.global_default,
     max_rate |-> f.sampling_rate]

merge(a, b) ==
    [corrected |-> a.corrected \/ b.corrected,
     used_global_default |-> a.used_global_default \/ b.used_global_default,
     max_rate |-> Max({a.max_rate, b.max_rate})]

------------------------------------------------------------------------------
(* window.rs *)

\* TrafficCounters::add, as what a flow adds to each counter.
is_tcp_syn(f) == f.protocol = "tcp" /\ f.tcp_flags # Nobody /\ "SYN" \in f.tcp_flags

Adds(f, k) ==
    CASE k = "flows" -> 1
      [] k = "bytes" -> f.bytes
      [] k = "packets" -> f.packets
      [] k = "syn packets" -> IF is_tcp_syn(f) THEN f.packets ELSE 0
      [] k = "fragmented packets" -> IF f.fragmented THEN f.packets ELSE 0
      [] k = "dropped packets" -> IF f.forwarding_status_known /\ f.dropped THEN f.packets ELSE 0
      [] OTHER -> IF f.protocol = Nobody THEN 0
                  ELSE IF k = f.protocol \o " bytes" THEN f.bytes
                  ELSE IF k = f.protocol \o " packets" THEN f.packets ELSE 0

\* The exporters are a sketch in the code, which may count two as one.
Accumulator ==
    [counters |-> [k \in MetricKind |-> 0], completeness |-> {},
     sampling |-> [corrected |-> FALSE, used_global_default |-> FALSE, max_rate |-> 0],
     exporters |-> {}]

add(acc, f) ==
    [counters |-> [k \in MetricKind |-> acc.counters[k] + Adds(f, k)],
     completeness |-> acc.completeness \cup DataCompleteness(f),
     sampling |-> merge(acc.sampling, SamplingStatus(f)),
     exporters |-> acc.exporters \cup {f.exporter}]

DetectionWindows_new == [type \in ScopeType |-> [map |-> << >>, evicted |-> 0]]

\* The directions in which a flow counts, and its end in each.
sides(class) ==
    CASE class.direction \in {"incoming", "outgoing"} -> {class.direction}
      [] class.direction = "internal" -> {"incoming", "outgoing"}
      [] OTHER -> {}

End(f, direction) == IF direction = "incoming" THEN f.destination ELSE f.source

side(f, class, direction) ==
    [addr |-> End(f, direction), direction |-> direction,
     owner |-> IF direction = "incoming" THEN class.destination ELSE class.source]

matched_prefix_len(a) ==
    Max({n \in 0 .. MaxBits[a.family] :
            LET node == SubSeq(a.bits, 1, n)
            IN  node \in DOMAIN registry[a.family] /\ registry[a.family][node] # Nobody})

\* The scope of each type that one side belongs to, if there is one.
Scoped(type, s) ==
    CASE type = "host" -> TRUE
      [] type = "prefix" -> lookup(registry, s.addr) # Nobody
      [] type = "slash24" -> s.addr.family = "ipv4"
      [] type = "hostgroupTotal" -> s.owner.hostgroup # Nobody

ScopeId(type, s) ==
    CASE type = "host" -> s.addr
      [] type = "prefix" -> mask(s.addr, matched_prefix_len(s.addr))
      [] type = "slash24" -> mask(s.addr, Slash24Bits)
      [] type = "hostgroupTotal" -> s.owner.hostgroup

accumulate(type, counted, key, f) ==
    LET map == counted.map
        full == key \notin DOMAIN map /\ Cardinality(DOMAIN map) = MaxScopes[type] /\ MaxScopes[type] > 0
    IN  {[map |-> after, evicted |-> counted.evicted + IF full THEN 1 ELSE 0] :
            after \in upsert(map, MaxScopes[type], key, add(Held(map, key, Accumulator), f))}

count(type, counted, f, class, direction) ==
    LET s == side(f, class, direction)
    IN  IF direction \in sides(class) /\ Scoped(type, s)
        THEN accumulate(type, counted, ScopeKey(type, ScopeId(type, s), s), f)
        ELSE {counted}

\* DetectionStage::ingest, before the aggregator gets the flow; inbound first.
stage_ingest(f) ==
    LET class == classify(registry, f.source, f.destination)
        after(type) == UNION {count(type, c, f, class, "outgoing") :
                                 c \in count(type, scopes[type], f, class, "incoming")}
    IN  /\ \E h \in after("host"), p \in after("prefix"), s \in after("slash24"),
              g \in after("hostgroupTotal") :
              scopes' = [host |-> h, prefix |-> p, slash24 |-> s, hostgroupTotal |-> g]
        /\ inside' = Append(inside, f)
        /\ UNCHANGED <<window_start, closed>>

per_second(value, elapsed) == IF elapsed = 0 THEN 0 ELSE value \div elapsed

snapshot(key, acc, elapsed) ==
    [key |-> key,
     rates |-> [k \in MetricKind |-> per_second(acc.counters[k] * MetricUnit(k), elapsed)],
     completeness |-> acc.completeness, sampling |-> acc.sampling,
     flows_observed |-> acc.counters["flows"], exporters_observed |-> Cardinality(acc.exporters)]

is_due == now - window_start >= WindowLength

\* The window is anchored to the time of the tick, late or not.
tick ==
    LET elapsed == now - window_start
    IN  /\ is_due
        /\ closed' = [elapsed |-> elapsed, flows |-> inside,
                      evicted |-> [type \in ScopeType |-> scopes[type].evicted],
                      snapshots |-> [type \in ScopeType |->
                          {snapshot(key, scopes[type].map[key].value, elapsed) :
                              key \in DOMAIN scopes[type].map}]]
        /\ scopes' = DetectionWindows_new
        /\ window_start' = now
        /\ inside' = << >>
        /\ UNCHANGED tvars

WindowsInit ==
    /\ TrafficInit
    /\ scopes = DetectionWindows_new
    /\ window_start = 0
    /\ inside = << >>
    /\ closed = Nobody

WindowsNext ==
    \/ \E f \in SeenFlows : ingest(f.source, f.destination) /\ stage_ingest(f)
    \/ (expire_inactive \/ Elapse) /\ UNCHANGED wvars
    \/ tick

WindowsSpec == WindowsInit /\ [][WindowsNext]_<<tvars, wvars>>

------------------------------------------------------------------------------
(* Properties *)

\* The scopes a flow belongs to, by the configured list.
Belongs(f, type, key) ==
    LET end == End(f, key.direction)
        owner == Owner(end)
        id == key.scope_id
    IN  /\ owner # Nobody
        /\ key.tenant = (IF owner.tenant = Nobody THEN "unattributed" ELSE owner.tenant)
        /\ key.scope_type = type /\ key.address_family = end.family
        /\ CASE type = "host" -> id = end
             [] type = "hostgroupTotal" -> id = owner.hostgroup
             [] type = "slash24" -> end.family = "ipv4" /\ id = mask(end, Slash24Bits)
             [] type = "prefix" -> id.family = end.family /\ \E p \in Seqs!ToSet(prefixes) :
                    /\ Covers(p, end) /\ p.bits = id.bits
                    /\ \A q \in Seqs!ToSet(prefixes) : Covers(q, end) => Len(q.bits) <= Len(p.bits)

\* The sum of w[1] to w[n].
Total(w, n) ==
    LET sum[i \in 0 .. n] == IF i = 0 THEN 0 ELSE sum[i - 1] + w[i] IN sum[n]

\* What the flows of a scope add to a counter, how many they are, and what
\* they carried.
Amount(flows, type, key, k) ==
    Total([i \in DOMAIN flows |-> IF Belongs(flows[i], type, key) THEN Adds(flows[i], k) ELSE 0], Len(flows))

HowMany(flows, type, key) ==
    Total([i \in DOMAIN flows |-> IF Belongs(flows[i], type, key) THEN 1 ELSE 0], Len(flows))

Carried(flows, type, key) ==
    UNION {DataCompleteness(flows[i]) : i \in {j \in DOMAIN flows : Belongs(flows[j], type, key)}}

\* A snapshot tells of its window: no rate is above what the window's flows
\* of its scope make it, over the time that really passed (if none has, the
\* rates are zero), and without an eviction in that window every flow of a scope is in its snapshot and every
\* scope with a flow has one.  The scope of a flow is that of the longest
\* configured prefix over its end, whatever the order of the list; with a
\* list that is refused there is none.  What was lost in one window is not
\* missing in the next.
SnapshotsAreTheWindow ==
    closed # Nobody => \A type \in ScopeType :
        LET total(key, k) == Amount(closed.flows, type, key, k) * MetricUnit(k)
            carried(key) == Carried(closed.flows, type, key)
            whole == closed.evicted[type] = 0 /\ MaxScopes[type] > 0
            accepted == build_registry(prefixes).ok
        IN  /\ ~accepted => closed.snapshots[type] = {}
            /\ \A s \in closed.snapshots[type] :
                  /\ \A k \in MetricKind : s.rates[k] * closed.elapsed <= total(s.key, k)
                  /\ s.completeness \subseteq carried(s.key)
                  /\ whole => /\ s.completeness = carried(s.key)
                              /\ s.flows_observed = HowMany(closed.flows, type, s.key)
                              /\ closed.elapsed > 0 =>
                                    \A k \in MetricKind : (s.rates[k] + 1) * closed.elapsed > total(s.key, k)
            /\ whole /\ accepted => \A i \in DOMAIN closed.flows : \A direction \in {"incoming", "outgoing"} :
                  LET end == End(closed.flows[i], direction)
                  IN  type = "host" /\ Owner(end) # Nobody =>
                        \E s \in closed.snapshots[type] : s.key.scope_id = end /\ s.key.direction = direction

\* Every rate is that of its window: what the aggregator shows is the last
\* whole window before the one in progress, also after a silence that spans
\* several (rate_window.rs, roll_if_elapsed), and what the detector compares
\* with its thresholds is the traffic of the scope, for its owner and its
\* direction, in the window just closed (window.rs, ingest and tick).
RatesAreOfTheirWindow == RateIsOfTheLastWindow /\ SnapshotsAreTheWindow
==============================================================================
