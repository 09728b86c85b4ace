------------------------------- MODULE Guard -------------------------------
(***************************************************************************)
(* The pure core of crates/mitigation: prefixes, actions, the safety guard *)
(* (guard.rs), and the route a mitigation becomes in GoBGP                 *)
(* (crates/mitigator/src/route.rs).  Address widths are parameters: IPv4   *)
(* and IPv6 are two families with their own number of bits, and a prefix   *)
(* is a canonical [family, address, length].                               *)
(***************************************************************************)
EXTENDS Integers, Sequences, FiniteSets

CONSTANTS
    MaxLength,    \* family -> bits of an address (32 and 128 in the code)
    Floor,        \* family -> the widest prefix any configuration may allow
    MinDuration, MaxDuration,   \* MIN_DURATION and MAX_DURATION
    MinApprovalWindow, MaxApprovalWindow,   \* the bounds of approval_window_seconds
    MaxRate,      \* MAX_RATE_BYTES_PER_SECOND
    None          \* an absent Option

Families == {"ipv4", "ipv6"}
Kinds == {"rtbh", "parent_prefix", "flowspec_discard", "flowspec_rate_limit"}

----------------------------------------------------------------------------
(* prefix.rs *)

PowerOfTwo[n \in Nat] == IF n = 0 THEN 1 ELSE 2 * PowerOfTwo[n - 1]

\* The bits of an address below a prefix length are cleared.
Mask(family, address, length) ==
    address - (address % PowerOfTwo[MaxLength[family] - length])

\* Prefix::new: only canonical prefixes exist.
Prefixes ==
    UNION { { p \in [family : {f}, address : 0 .. PowerOfTwo[MaxLength[f]] - 1,
                     length : 0 .. MaxLength[f]] :
                Mask(f, p.address, p.length) = p.address } : f \in Families }

IsHost(p) == p.length = MaxLength[p.family]

Contains(p, q) ==
    /\ p.family = q.family
    /\ q.length >= p.length
    /\ Mask(q.family, q.address, p.length) = p.address

----------------------------------------------------------------------------
(* action.rs.  An ask is what a requester chooses: the prefix, the action  *)
(* with its flow match (None for the two unicast actions) and rate, and    *)
(* the duration.                                                           *)

IsFlowspec(kind) == kind \in {"flowspec_discard", "flowspec_rate_limit"}

ValidateFlow(flow, prefix) ==
    /\ flow.source_port # None \/ flow.destination_port # None
           => flow.protocol \in {6, 17}
    /\ flow.source # None => flow.source.family = prefix.family

\* Action::from_parts, then Action::validate_for.
ValidAction(ask) ==
    /\ IsFlowspec(ask.kind) <=> ask.flow # None
    /\ (ask.kind = "flowspec_rate_limit") <=> ask.rate # None
    /\ ask.kind = "rtbh" => IsHost(ask.prefix)
    /\ ask.kind = "parent_prefix" => ~IsHost(ask.prefix)
    /\ ask.flow # None => ValidateFlow(ask.flow, ask.prefix)
    /\ ask.rate # None => ask.rate \in 1 .. MaxRate

\* Action::duplicate_key.  FlowMatch::canonical names every present field, so
\* two matches have the same text exactly when they are equal; the rate is
\* not part of the key.
DuplicateKey(ask) == [kind |-> ask.kind, prefix |-> ask.prefix, flow |-> ask.flow]

----------------------------------------------------------------------------
(* guard.rs.  A configuration is a record of the file's settings; its      *)
(* allowlist is a sequence of [prefix, tenant, actions].                   *)

\* Mutant: only a later, narrower entry is compared.
OverlapOneWay(a, b) == Contains(a.prefix, b.prefix)

Overlap(a, b) == Contains(a.prefix, b.prefix) \/ Contains(b.prefix, a.prefix)

\* Guard::new: what makes a configuration a guard.
ValidConfig(cfg) ==
    /\ \A f \in Families : cfg.min_length[f] \in Floor[f] .. MaxLength[f]
    /\ cfg.max_duration \in MinDuration .. MaxDuration
    /\ cfg.approval_window \in MinApprovalWindow .. MaxApprovalWindow
    /\ \A i \in DOMAIN cfg.allowlist :
          LET entry == cfg.allowlist[i] IN
          /\ entry.prefix.length >= Floor[entry.prefix.family]
          /\ entry.tenant # ""
          /\ entry.actions # {}
    /\ \A i, j \in DOMAIN cfg.allowlist :
          i < j /\ Overlap(cfg.allowlist[i], cfg.allowlist[j])
              => cfg.allowlist[i].tenant = cfg.allowlist[j].tenant

EffectiveDryRun(cfg) == cfg.dry_run \/ ~cfg.bgp_enabled

\* The most specific covering entry; of equally long ones, max_by_key
\* returns the last.
Decides(cfg, prefix, i) ==
    /\ i \in DOMAIN cfg.allowlist
    /\ Contains(cfg.allowlist[i].prefix, prefix)
    /\ \A j \in DOMAIN cfg.allowlist :
          Contains(cfg.allowlist[j].prefix, prefix)
              => \/ cfg.allowlist[j].prefix.length < cfg.allowlist[i].prefix.length
                 \/ /\ cfg.allowlist[j].prefix.length = cfg.allowlist[i].prefix.length
                    /\ j <= i

\* Guard::check.  kill is the runtime switch; the file's is always honoured.
Permits(cfg, tenant, ask, kill) ==
    /\ ~kill /\ ~cfg.kill_switch
    /\ \E i \in DOMAIN cfg.allowlist :
          /\ Decides(cfg, ask.prefix, i)
          /\ cfg.allowlist[i].tenant = tenant
          /\ ask.kind \in cfg.allowlist[i].actions
    /\ ~IsHost(ask.prefix) => ask.prefix.length >= cfg.min_length[ask.prefix.family]
    /\ ask.flow # None => (ask.flow.source # None => ask.flow.source.length > 0)
    /\ ask.duration <= cfg.max_duration

----------------------------------------------------------------------------
(* route.rs *)

\* nlri and family: what identifies a path in GoBGP's table.
Nlri(ask) == [flowspec |-> IsFlowspec(ask.kind), prefix |-> ask.prefix, flow |-> ask.flow]

\* The path announced: its NLRI, whether its traffic-rate is above zero, and
\* the ownership community every path carries.
Announcement(ask) ==
    [nlri |-> Nlri(ask), limits |-> ask.rate # None, owned |-> TRUE]

\* read_back: the key of the mitigation an owned path implements.
ReadBackKey(path) ==
    [kind |-> IF path.nlri.flowspec
                THEN IF path.limits THEN "flowspec_rate_limit" ELSE "flowspec_discard"
                ELSE IF IsHost(path.nlri.prefix) THEN "rtbh" ELSE "parent_prefix",
     prefix |-> path.nlri.prefix,
     flow |-> path.nlri.flow]
=============================================================================
