------------------------------ MODULE Policies ------------------------------
(***************************************************************************)
(* The detection policies of a document (crates/detector/src/config.rs,    *)
(* policy.rs and precedence.rs), loaded when the collector starts, and     *)
(* which of them governs a scope.  A duration is written as a number with  *)
(* a unit, a threshold as a number with a suffix; Nobody stands for a      *)
(* field that is not written, and for the result of a refusal.             *)
(***************************************************************************)
EXTENDS Windows

CONSTANTS
    PolicyDocuments,        \* the documents there may be
    ScopeKeys,              \* the scopes asked about
    Units, Magnitudes,        \* the sizes of units (with "ms") and suffixes (with "")
    MaxU64,
    MAX_WINDOW, MAX_TIMER, MAX_POLICIES, MAX_TENANT_PREFIXES,
    DefaultUpdateInterval   \* 60 s

\* Durations and thresholds are u64; a millisecond is the unit, and a number
\* without a suffix is itself.
ASSUME UnitsAssumption ==
    /\ MaxU64 \in Nat /\ DefaultUpdateInterval \in 0 .. MaxU64
    /\ "ms" \in DOMAIN Units /\ Units["ms"] = 1 /\ \A u \in DOMAIN Units : Units[u] \in 1 .. MaxU64
    /\ "" \in DOMAIN Magnitudes /\ Magnitudes[""] = 1 /\ \A m \in DOMAIN Magnitudes : Magnitudes[m] \in 1 .. MaxU64

ASSUME LimitsAssumption == {MAX_POLICIES, MAX_TENANT_PREFIXES} \subseteq Nat

ASSUME NobodyAssumption ==
    Nobody \notin {{}, "alert_only"} \cup Int /\ Nobody \notin [value : Nat, unit : DOMAIN Units]

VARIABLES
    document,               \* the document the collector was started with
    detection               \* the policies in force; Nobody with detection off

pvars == <<document, detection>>

WILDCARD_TENANT == "*"

----------------------------------------------------------------------------
(* config.rs: what is written, and how it reads *)

checked_mul(a, b) == IF a * b > MaxU64 THEN Nobody ELSE a * b

parse_duration(text) == IF text.unit \in DOMAIN Units THEN checked_mul(text.value, Units[text.unit]) ELSE Nobody

\* The largest unit that divides the duration.
ExactUnit(d) ==
    LET exact == {u \in DOMAIN Units : d % Units[u] = 0}
    IN  IF d = 0 THEN "ms" ELSE CHOOSE u \in exact : \A v \in exact : Units[v] <= Units[u]

render_duration(d) == [value |-> d \div Units[ExactUnit(d)], unit |-> ExactUnit(d)]

parse_magnitude(text) ==
    IF text.suffix \in DOMAIN Magnitudes THEN checked_mul(text.value, Magnitudes[text.suffix]) ELSE Nobody

parse_cidr(text) == IF text.len > MaxBits[text.addr.family] THEN Nobody ELSE text

DurationFields == {"window", "trigger_for", "clear_for"}
OptionalDurations == {"cooldown", "hold_down", "event_update_interval"}

PolicyFields ==
    {"id", "enabled", "tenant", "scope_type", "selector", "address_family", "direction", "thresholds",
     "clear_percent", "execution_mode", "priority"} \cup DurationFields \cup OptionalDurations

\* What serde lets through: the fields of a policy, and the types of those
\* that are read here.
PolicyEntry(e) ==
    /\ e = [f \in PolicyFields |-> e[f]]
    /\ e.id \in Int /\ e.priority \in Int
    /\ e.scope_type \in ScopeType
    /\ e.selector.kind \in {"any", "host", "network", "hostgroup"}
    /\ e.selector.kind \in {"host", "network"} => e.selector.addr \in Address
    /\ e.selector.kind = "network" => e.selector.len \in Nat
    /\ \A f \in DurationFields : e[f].value \in Nat
    /\ \A f \in OptionalDurations : e[f] # Nobody => e[f].value \in Nat
    /\ e.thresholds = [k \in DOMAIN e.thresholds |-> e.thresholds[k]]
    /\ \A k \in DOMAIN e.thresholds : e.thresholds[k].value \in Nat

TenantEntry(t) ==
    \A i \in DOMAIN t.prefixes : t.prefixes[i].addr \in Address /\ t.prefixes[i].len \in Nat

ASSUME DocumentsAssumption ==
    \A doc \in PolicyDocuments :
        /\ Len(doc.policies) \in Nat /\ DOMAIN doc.policies = 1 .. Len(doc.policies)
        /\ \A i \in DOMAIN doc.policies : PolicyEntry(doc.policies[i])
        /\ \A i \in DOMAIN doc.tenants : TenantEntry(doc.tenants[i])
        /\ \A f \in OptionalDurations : doc.defaults[f] # Nobody => doc.defaults[f].value \in Nat

PolicyDefaults ==
    [clear_percent |-> 80, cooldown |-> Nobody, hold_down |-> Nobody,
     event_update_interval |-> Nobody, execution_mode |-> Nobody]

Or(own, fallback) == IF own # Nobody THEN own ELSE fallback

\* An absent duration is zero, but for the update interval.
optional(f, own, fallback) ==
    IF Or(own, fallback) # Nobody THEN parse_duration(Or(own, fallback))
    ELSE IF f = "event_update_interval" THEN DefaultUpdateInterval ELSE 0

ReadField(e, defaults, f) ==
    CASE f \in DurationFields -> parse_duration(e[f])
      [] f \in OptionalDurations -> optional(f, e[f], defaults[f])
      [] f = "thresholds" -> [k \in DOMAIN e[f] |-> parse_magnitude(e[f][k])]
      [] f = "clear_percent" -> Or(e[f], defaults[f])
      [] f = "execution_mode" -> Or(Or(e[f], defaults[f]), "alert_only")
      [] OTHER -> e[f]

to_draft(e, defaults) ==
    LET draft == [f \in DOMAIN e |-> ReadField(e, defaults, f)]
        parsed == {draft["thresholds"][k] : k \in DOMAIN draft["thresholds"]}
                  \cup {draft[f] : f \in DurationFields \cup OptionalDurations}
    IN  IF Nobody \in parsed THEN Nobody ELSE draft

from_json(doc) == doc.readable /\ doc.schema_version = 1 /\ Len(doc.policies) <= MAX_POLICIES

\* The prefixes of each tenant that lists one.
tenant_prefixes(doc) ==
    LET listed == UNION {{[tenant |-> t.tenant, prefix |-> parse_cidr(p)] : p \in Seqs!ToSet(t.prefixes)} :
                            t \in Seqs!ToSet(doc.tenants)}
        total == Cardinality(UNION {{i} \X DOMAIN doc.tenants[i].prefixes : i \in DOMAIN doc.tenants})
    IN  IF total > MAX_TENANT_PREFIXES \/ \E o \in listed : o.prefix = Nobody THEN Nobody ELSE listed

----------------------------------------------------------------------------
(* policy.rs *)

prefix_contains(p, addr) ==
    p.addr.family = addr.family /\ SubSeq(p.addr.bits, 1, p.len) = SubSeq(addr.bits, 1, p.len)

\* TenantPrefixes::covers
covers(owned, tenant, addr, len) ==
    \E o \in owned : o.tenant = tenant /\ o.prefix.len <= len /\ prefix_contains(o.prefix, addr)

validate_selector(type, s) ==
    /\ \/ s.kind = "any"
       \/ <<type, s.kind>> \in {<<"host", "host">>, <<"prefix", "network">>, <<"hostgroupTotal", "hostgroup">>}
       \/ type = "slash24" /\ s.kind = "network" /\ s.len = Slash24Bits
    /\ s.kind = "network" => s.len <= MaxBits[s.addr.family]

validate_direction(direction) == direction # "unknown"

validate_prefix_ownership(tenant, s, owned) ==
    owned # {} /\ tenant # WILDCARD_TENANT /\ s.kind \in {"host", "network"} =>
        covers(owned, tenant, s.addr, IF s.kind = "host" THEN MaxBits[s.addr.family] ELSE s.len)

validate(d, owned) ==
    /\ d.window \in 1 .. MAX_WINDOW
    /\ DOMAIN d.thresholds # {} /\ \A k \in DOMAIN d.thresholds : d.thresholds[k] # 0
    /\ d.clear_percent \in 1 .. 100
    /\ d.trigger_for >= d.window /\ d.clear_for >= d.window
    /\ \A t \in {d.trigger_for, d.clear_for, d.cooldown, d.hold_down, d.event_update_interval} : t <= MAX_TIMER
    /\ d.event_update_interval # 0
    /\ validate_selector(d.scope_type, d.selector)
    /\ validate_direction(d.direction)
    /\ validate_prefix_ownership(d.tenant, d.selector, owned)

\* One fault and nothing of the document is loaded.
compile(doc) ==
    LET owned == tenant_prefixes(doc)
        drafts == [i \in DOMAIN doc.policies |-> to_draft(doc.policies[i], doc.defaults)]
    IN  IF \/ owned = Nobody
           \/ \E i, j \in DOMAIN doc.policies : i # j /\ doc.policies[i].id = doc.policies[j].id
           \/ \E i \in DOMAIN drafts : drafts[i] = Nobody \/ ~validate(drafts[i], owned)
        THEN Nobody ELSE Seqs!ToSet(drafts)

\* A snapshot's network has no bits beyond its length.
matches_scope(p, key) ==
    /\ p.enabled
    /\ p.tenant \in {WILDCARD_TENANT, key.tenant}
    /\ p.scope_type = key.scope_type /\ p.direction = key.direction
    /\ p.address_family \in {Nobody, key.address_family}
    /\ CASE p.selector.kind = "any" -> TRUE
         [] p.selector.kind = "host" -> key.scope_type = "host" /\ p.selector.addr = key.scope_id
         [] p.selector.kind = "network" ->
              /\ key.scope_type \in {"prefix", "slash24"}
              /\ mask(p.selector.addr, p.selector.len) = key.scope_id
              /\ \A i \in p.selector.len + 1 .. Len(p.selector.addr.bits) : p.selector.addr.bits[i] = 0
         [] p.selector.kind = "hostgroup" -> key.scope_type = "hostgroupTotal" /\ p.selector.name = key.scope_id

ScopeSpecificity == [host |-> 40, prefix |-> 30, slash24 |-> 20, hostgroupTotal |-> 10]

SelectorRank(s) ==
    CASE s.kind = "host" -> 900 [] s.kind = "network" -> 100 + s.len [] s.kind = "hostgroup" -> 50 [] OTHER -> 0

\* Mutant: the tenant counts for less than a selector may.
specificity_mixed(p) ==
    (IF p.tenant = WILDCARD_TENANT THEN 0 ELSE 500)
    + ScopeSpecificity[p.scope_type] * 1000 + SelectorRank(p.selector)
    + (IF p.address_family = Nobody THEN 0 ELSE 1)

specificity(p) ==
    (IF p.tenant = WILDCARD_TENANT THEN 0 ELSE 1000000)
    + ScopeSpecificity[p.scope_type] * 1000 + SelectorRank(p.selector)
    + (IF p.address_family = Nobody THEN 0 ELSE 1)

\* The order of the candidates: the first one governs.
better(a, b) ==
    \/ specificity(a) > specificity(b)
    \/ specificity(a) = specificity(b) /\ a.priority > b.priority
    \/ specificity(a) = specificity(b) /\ a.priority = b.priority /\ a.id < b.id

select(ps, key) ==
    LET candidates == {p \in ps : matches_scope(p, key)}
    IN  IF candidates = {} THEN Nobody
        ELSE CHOOSE p \in candidates : \A q \in candidates \ {p} : better(p, q)

\* What is loaded, as a document.
WriteField(p, f) ==
    CASE f \in DurationFields \cup OptionalDurations -> render_duration(p[f])
      [] f = "thresholds" -> [k \in DOMAIN p[f] |-> [value |-> p[f][k], suffix |-> ""]]
      [] OTHER -> p[f]

to_entry(p) == [f \in DOMAIN p |-> WriteField(p, f)]

to_document(ps) ==
    [readable |-> TRUE, schema_version |-> 1, defaults |-> PolicyDefaults, tenants |-> << >>,
     policies |-> Seqs!SetToSeq({to_entry(p) : p \in ps})]

\* A document that is refused turns detection off, not the collector.
load_policies(doc) == IF from_json(doc) THEN compile(doc) ELSE Nobody

PoliciesInit == document = Nobody /\ detection = Nobody

load_policy_file(doc) ==
    /\ document = Nobody
    /\ document' = doc
    /\ detection' = load_policies(doc)

PoliciesNext == \E doc \in PolicyDocuments : load_policy_file(doc)

PoliciesSpec == PoliciesInit /\ [][PoliciesNext]_pvars

----------------------------------------------------------------------------
(* Properties *)

Named(b) == IF b THEN 1 ELSE 0

\* The order policy.rs means its sum to have ("A policy naming its tenant
\* always outranks the global default, whatever their selectors"): the tenant
\* is named, then the target, then the family; then priority, then the lower
\* id.  The ladder listed at the head of precedence.rs is another one: there
\* a wildcard tenant's host policy stands above a tenant's `any`.
Ladder(p) ==
    <<Named(p.tenant # "*"), Named(p.selector.kind # "any"), Named(p.address_family # Nobody), p.priority, -p.id>>

Above(a, b) == \E i \in 1 .. 5 : a[i] > b[i] /\ \A j \in 1 .. i - 1 : a[j] = b[j]

AddressesIn(addr, len) ==
    {[family |-> addr.family, bits |-> b] :
        b \in {c \in [1 .. MaxBits[addr.family] -> {0, 1}] : \A i \in 1 .. len : c[i] = addr.bits[i]}}

\* A tenant's policy on addresses covers only addresses the document lists for
\* the tenant, where it lists any.
WithinItsTenant(doc, p) ==
    LET listed == UNION {{[tenant |-> t.tenant, prefix |-> c] : c \in Seqs!ToSet(t.prefixes)} :
                            t \in Seqs!ToSet(doc.tenants)}
        len == IF p.selector.kind = "host" THEN MaxBits[p.selector.addr.family] ELSE p.selector.len
    IN  p.selector.kind \in {"host", "network"} /\ p.tenant # "*" /\ listed # {} =>
            \E o \in listed :
                /\ o.tenant = p.tenant
                /\ AddressesIn(p.selector.addr, len) \subseteq AddressesIn(o.prefix.addr, o.prefix.len)

\* Policies apply as they are written: the one that governs a scope is the
\* first among those that match, by tenant, target, family, priority and id
\* and not by what their weights add up to; a tenant's policy on addresses
\* stays within addresses the document gives it, whatever the defaults and
\* the spelling; and what is loaded, written out, loads as the same policies
\* (policy.rs, specificity; config.rs, compile and to_document).
PoliciesApplyAsWritten ==
    detection # Nobody =>
        /\ \A key \in ScopeKeys : \A p \in {q \in detection : matches_scope(q, key)} :
              LET winner == select(detection, key)
              IN  p = winner \/ Above(Ladder(winner), Ladder(p))
        /\ \A p \in detection : WithinItsTenant(document, p)
        /\ load_policies(to_document(detection)) = detection
=============================================================================
