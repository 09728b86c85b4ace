------------------------------- MODULE Traffic -------------------------------
(***************************************************************************)
(* What the collector does with a flow (crates/classifier,                 *)
(* crates/aggregator): the direction and the owner of its ends by longest  *)
(* prefix, then counters in maps of bounded size and rates over tumbling   *)
(* windows.  An address is its family and its bits, most significant       *)
(* first; a network of the configuration too.                              *)
(***************************************************************************)
EXTENDS Integers, Sequences, FiniteSetsExt

CONSTANTS
    Nobody,             \* no tenant, no hostgroup, no registry entry
    MaxBits,            \* the width of each family's addresses
    PrefixLists,        \* local-prefix configurations
    SeenFlows,              \* the flows there may be: their ends, and what they carry
    MaxEntries,         \* the size limit of each map
    WINDOW_DURATIONS,
    Ttl,                \* inactivity_ttl
    MaxTime, MaxFlows(_)    \* bounds, on flows by list

ASSUME TrafficAssumption ==
    /\ WINDOW_DURATIONS \subseteq Nat \ {0} /\ IsFiniteSet(WINDOW_DURATIONS)
    /\ {Ttl, MaxTime} \subseteq Nat
    /\ MaxEntries \in [{"hosts", "networks", "hostgroups"} -> Nat]

\* An address is a u128 at most.
ASSUME WidthsAssumption == \A family \in DOMAIN MaxBits : MaxBits[family] \in 0 .. 128

ASSUME ListsAssumption ==
    \A list \in PrefixLists :
        /\ Len(list) \in Nat /\ DOMAIN list = 1 .. Len(list)
        /\ \A i \in DOMAIN list : /\ list[i].family \in DOMAIN MaxBits /\ list[i].bits \in Seq({0, 1})
                                  /\ Nobody # [tenant |-> list[i].tenant, hostgroup |-> list[i].hostgroup]

VARIABLES
    prefixes,           \* the configured list
    registry,           \* PrefixRegistry, built from it
    maps,               \* the aggregator's bounded maps, by dimension
    windows,            \* RateWindowSet
    now,
    arrivals            \* history: the flows so far, with their times

tvars == <<prefixes, registry, maps, windows, now, arrivals>>

(***************************************************************************)
(* The prefix registry: a trie per family, as the function from its nodes, *)
(* named by the bits that lead to them, to their entries.                  *)
(***************************************************************************)
PrefixTrie_new == [node \in {<< >>} |-> Nobody]

PrefixRegistry_new == [f \in DOMAIN MaxBits |-> PrefixTrie_new]

is_empty(reg) == \A f \in DOMAIN MaxBits : \A node \in DOMAIN reg[f] : reg[f][node] = Nobody

PathTo(bits) == {SubSeq(bits, 1, n) : n \in 0 .. Len(bits)}

\* Nodes are made on the way down.
insert_prefix(reg, p) ==
    LET trie == reg[p.family]
        grown == [node \in DOMAIN trie \cup PathTo(p.bits) |->
                     IF node \in DOMAIN trie THEN trie[node] ELSE Nobody]
    IN  [reg EXCEPT ![p.family] = [grown EXCEPT ![p.bits] = [tenant |-> p.tenant, hostgroup |-> p.hostgroup]]]

InsertError(reg, p) ==
    \/ Len(p.bits) > MaxBits[p.family]
    \/ p.bits \in DOMAIN reg[p.family] /\ reg[p.family][p.bits] # Nobody

TryInsert(acc, p) ==
    IF InsertError(acc.reg, p) THEN [ok |-> FALSE, reg |-> acc.reg]
    ELSE [ok |-> acc.ok, reg |-> insert_prefix(acc.reg, p)]

\* Every entry is tried; one error and the list is refused.
build_registry(list) ==
    LET after[n \in 0 .. Len(list)] ==
            IF n = 0 THEN [ok |-> TRUE, reg |-> PrefixRegistry_new] ELSE TryInsert(after[n - 1], list[n])
    IN  after[Len(list)]

EntryAt(trie, node, above) == IF node \in DOMAIN trie /\ trie[node] # Nobody THEN trie[node] ELSE above

\* The walk down the address's bits, keeping the last entry met.
lookup(reg, a) ==
    LET best[depth \in 0 .. MaxBits[a.family]] ==
            EntryAt(reg[a.family], SubSeq(a.bits, 1, depth), IF depth = 0 THEN Nobody ELSE best[depth - 1])
    IN  best[MaxBits[a.family]]

Direction(source, destination) ==
    CASE source = Nobody /\ destination # Nobody -> "incoming"
      [] source # Nobody /\ destination = Nobody -> "outgoing"
      [] source # Nobody /\ destination # Nobody -> "internal"
      [] OTHER -> "other"

classify(reg, source, destination) ==
    IF is_empty(reg) THEN [direction |-> "unknown", source |-> Nobody, destination |-> Nobody]
    ELSE [direction |-> Direction(lookup(reg, source), lookup(reg, destination)),
          source |-> lookup(reg, source), destination |-> lookup(reg, destination)]

(***************************************************************************)
(* The aggregator.                                                         *)
(***************************************************************************)
Dims == {"hosts", "networks", "hostgroups"}

mask(a, length) == [a EXCEPT !.bits = SubSeq(@, 1, length)]

track_address(dim, a) == IF dim = "hosts" THEN a ELSE mask(a, MaxBits[a.family] - 1)

\* The key of an end, or Nobody: an end outside every hostgroup has none.
EndKey(dim, a, entry) ==
    IF dim = "hostgroups" THEN IF entry = Nobody THEN Nobody ELSE entry.hostgroup
    ELSE track_address(dim, a)

least_recently_updated_keys(map) ==
    {k \in DOMAIN map : \A l \in DOMAIN map : map[k].last_updated <= map[l].last_updated}

\* Mutant: an update does not count as activity.
upsert_unnoticed(map, max, key, value) ==
    LET entry == [value |-> value, last_updated |-> now]
    IN  IF max = 0 THEN {map}
        ELSE IF key \in DOMAIN map THEN {[map EXCEPT ![key].value = value]}
        ELSE LET kept == IF Cardinality(DOMAIN map) < max THEN {DOMAIN map}
                         ELSE {DOMAIN map \ {victim} : victim \in least_recently_updated_keys(map)}
             IN  {[k \in keys \cup {key} |-> IF k = key THEN entry ELSE map[k]] : keys \in kept}

\* What a map may become when a key's value becomes this one: which of the
\* equally old entries goes depends on the hash order.
upsert(map, max, key, value) ==
    LET entry == [value |-> value, last_updated |-> now]
    IN  IF max = 0 THEN {map}
        ELSE IF key \in DOMAIN map THEN {[map EXCEPT ![key] = entry]}
        ELSE LET kept == IF Cardinality(DOMAIN map) < max THEN {DOMAIN map}
                         ELSE {DOMAIN map \ {victim} : victim \in least_recently_updated_keys(map)}
             IN  {[k \in keys \cup {key} |-> IF k = key THEN entry ELSE map[k]] : keys \in kept}

Held(map, key, default) == IF key \in DOMAIN map THEN map[key].value ELSE default

track(dim, map, key) ==
    IF key = Nobody THEN {map} ELSE upsert(map, MaxEntries[dim], key, Held(map, key, 0) + 1)

\* Mutant: a window that missed several turns rolls once.
roll_if_elapsed_once(w, d) ==
    IF now - w.start < d THEN w
    ELSE [start |-> w.start + d, bytes |-> 0, last_finalized |-> w.bytes]

\* The loop finalizes every window that has elapsed, the later ones empty.
roll_if_elapsed(w, d) ==
    LET turns == (now - w.start) \div d
    IN  IF turns = 0 THEN w
        ELSE [start |-> w.start + turns * d, bytes |-> 0, last_finalized |-> IF turns = 1 THEN w.bytes ELSE 0]

record(w, d) == [roll_if_elapsed(w, d) EXCEPT !.bytes = @ + 1]

(***************************************************************************)
(* The collector.                                                          *)
(***************************************************************************)
\* A list with an error is replaced by none at all.
TrafficInit ==
    /\ prefixes \in PrefixLists
    /\ registry = IF build_registry(prefixes).ok THEN build_registry(prefixes).reg ELSE PrefixRegistry_new
    /\ maps = [dim \in Dims |-> << >>]
    /\ windows = [d \in WINDOW_DURATIONS |-> [start |-> 0, bytes |-> 0, last_finalized |-> Nobody]]
    /\ now = 0
    /\ arrivals = << >>

\* A flow counts for both its ends, the source first.
ingest(source, destination) ==
    LET class == classify(registry, source, destination)
        after(dim) == UNION {track(dim, map, EndKey(dim, destination, class.destination)) :
                                map \in track(dim, maps[dim], EndKey(dim, source, class.source))}
    IN  /\ Len(arrivals) < MaxFlows(prefixes)
        /\ \E hosts \in after("hosts"), networks \in after("networks"), groups \in after("hostgroups") :
              maps' = [hosts |-> hosts, networks |-> networks, hostgroups |-> groups]
        /\ windows' = [d \in WINDOW_DURATIONS |-> record(windows[d], d)]
        /\ arrivals' = Append(arrivals, [at |-> now, source |-> source, destination |-> destination, class |-> class])
        /\ UNCHANGED <<prefixes, registry, now>>

\* Every 30 seconds.
expire_inactive ==
    /\ maps' = [dim \in Dims |->
                  LET fresh == {k \in DOMAIN maps[dim] : now - maps[dim][k].last_updated <= Ttl}
                  IN  [k \in fresh |-> maps[dim][k]]]
    /\ windows' = [d \in WINDOW_DURATIONS |-> roll_if_elapsed(windows[d], d)]
    /\ UNCHANGED <<prefixes, registry, now, arrivals>>

Elapse ==
    /\ now < MaxTime
    /\ now' = now + 1
    /\ UNCHANGED <<prefixes, registry, maps, windows, arrivals>>

TrafficNext ==
    \/ \E f \in SeenFlows : ingest(f.source, f.destination)
    \/ expire_inactive
    \/ Elapse

TrafficSpec == TrafficInit /\ [][TrafficNext]_tvars

(***************************************************************************)
(* Properties.                                                             *)
(***************************************************************************)
Covers(p, a) == p.family = a.family /\ SubSeq(a.bits, 1, Len(p.bits)) = p.bits

Owner(a) ==
    LET covering == {p \in {prefixes[i] : i \in DOMAIN prefixes} : Covers(p, a)}
    IN  IF covering = {} THEN Nobody
        ELSE LET p == CHOOSE p \in covering : \A q \in covering : Len(q.bits) <= Len(p.bits)
             IN  [tenant |-> p.tenant, hostgroup |-> p.hostgroup]

Address == UNION {[family : {f}, bits : [1 .. MaxBits[f] -> {0, 1}]] : f \in DOMAIN MaxBits}

\* The owner of every address is that of the longest configured prefix over
\* it, whatever the order of the list; a list that is refused owns nothing
\* (trie.rs, insert and lookup; registry.rs, build_registry).
OwnedByLongestMatch ==
    \A a \in Address : lookup(registry, a) = IF build_registry(prefixes).ok THEN Owner(a) ELSE Nobody

\* When each key of a map last had a flow.
KeysOf(dim, a) == {EndKey(dim, a.source, a.class.source), EndKey(dim, a.destination, a.class.destination)} \ {Nobody}

KeysSeen(dim) == UNION {KeysOf(dim, arrivals[i]) : i \in DOMAIN arrivals}

TimesSeen(dim, key) == {arrivals[i].at : i \in {j \in DOMAIN arrivals : key \in KeysOf(dim, arrivals[j])}}

LastSeen(dim) == [key \in KeysSeen(dim) |-> Max(TimesSeen(dim, key))]

\* A bounded map holds the keys with the most recent flows: one that is gone
\* is no fresher than any that is kept, and within the time to live only a
\* full map has dropped it (bounded_map.rs, upsert and expire_inactive).
MostRecentAreKept ==
    \A dim \in Dims :
        LET seen == LastSeen(dim)
            kept == DOMAIN maps[dim]
        IN  /\ kept \subseteq DOMAIN seen /\ Cardinality(kept) <= MaxEntries[dim]
            /\ \A gone \in DOMAIN seen \ kept :
                  /\ \A k \in kept : seen[gone] <= seen[k]
                  /\ now - seen[gone] <= Ttl => Cardinality(kept) = MaxEntries[dim]

\* The rate a window shows is that of the last whole window before the one
\* in progress, also after a silence that spans several
\* (rate_window.rs, roll_if_elapsed).
RateIsOfTheLastWindow ==
    \A d \in WINDOW_DURATIONS :
        LET w == windows[d]
            within == {i \in DOMAIN arrivals : arrivals[i].at \in (w.start - d) .. (w.start - 1)}
        IN  /\ w.start % d = 0 /\ w.start <= now
            /\ w.last_finalized = IF w.start = 0 THEN Nobody ELSE Cardinality(within)
=============================================================================
