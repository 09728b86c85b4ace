------------------------------ MODULE Collector ------------------------------
(***************************************************************************)
(* The collector's way from datagrams to flows (crates/collector/src):     *)
(* routers send IPFIX over UDP, which may lose a datagram; one task moves  *)
(* datagrams to a bounded queue, another decodes them with a template      *)
(* cache per exporter, and forgets exporters that stay silent.  Datagrams  *)
(* arrive in the order sent: one that overtakes another looks to the       *)
(* collector as a restart (observe_sequence).                              *)
(***************************************************************************)
EXTENDS Ipfix

CONSTANTS
    Keys,               \* exporters: source address and observation domain
    Allowed,            \* the source networks the collector accepts; empty for any
    max_exporters, queue_capacity,
    SeqSpace,           \* sequence numbers (2^32 in the code)
    Bodies(_, _),       \* the messages a router sends in each of its lives
    MaxSends, MaxLives, MaxLosses, MaxInFlight       \* bounds

\* The templates with a word or more that a router announces in a life.
Announced(k, life) ==
    {t \in UNION {Range(set.body) : set \in {s \in UNION {Range(body.sets) : body \in Bodies(k, life)} :
                                             TemplateSet(s)}} :
        min_record_len(t) # 0}

\* A template reads the words of a set as they are meant, and an interval
\* among them is the rate its message announces.
Reads(template, words, rate) ==
    \A record \in Range(decode_data_set(template, words)) : \A f \in Range(record) :
        f.element = f.meant /\ (f.element = "interval" => f.value = rate)

\* What a router sends in one life, its templates of that life read.
ASSUME CollectorAssumption ==
    /\ {max_exporters, queue_capacity, SeqSpace, MaxSends, MaxLives, MaxLosses, MaxInFlight} \subseteq Nat \ {0}
    /\ \A k \in Keys, life \in 1 .. MaxLives : \A body \in Bodies(k, life) :
          /\ body.sets \in Seq(Range(body.sets))
          /\ \A set \in Range(body.sets) :
                /\ set.body \in Seq(Range(set.body))
                /\ TemplateSet(set) => set.body \in Seq(Template)
                /\ ~TemplateSet(set) =>
                      \A t \in Announced(k, life) : t.id = set.id => Reads(t, set.body, body.rate)

VARIABLES
    routers,        \* each router's life and next sequence number (external)
    net,            \* datagrams on their way
    queue,          \* the bounded channel between the two tasks
    exporters,      \* ExporterRegistry
    idle,           \* the exporters whose idle timeout has passed
    heard,          \* history: what was processed of each router's lives
    misread,        \* history: whether a record was read with another life's template
                    \*   or scaled by another life's rate, although the restart had shown
    spent           \* datagrams sent and lost

cvars == <<routers, net, queue, exporters, idle, heard, misread, spent>>

Source(key) == key[1]

ExporterState_new == [cache |-> TemplateCache_new, last |-> Nothing]

Unheard == [life |-> 0, shown |-> FALSE, clean |-> TRUE, rates |-> {}]

CollectorInit ==
    /\ routers = [k \in Keys |-> [life |-> 1, seq |-> 0]]
    /\ net = << >> /\ queue = << >>
    /\ exporters = << >>
    /\ idle = {}
    /\ heard = [k \in Keys |-> Unheard]
    /\ misread = FALSE
    /\ spent = [sent |-> 0, lost |-> 0]

(***************************************************************************)
(* Routers and the network.                                                *)
(***************************************************************************)
DataRecords(sets) ==
    LET after[n \in 0 .. Len(sets)] == IF n = 0 THEN 0 ELSE after[n - 1] + sets[n].records
    IN  after[Len(sets)]

Send(k, body) ==
    LET r == routers[k]
    IN  /\ spent.sent < MaxSends /\ Len(net) < MaxInFlight
        /\ net' = Append(net, [key |-> k, life |-> r.life, seq |-> r.seq, header |-> body.header,
                               sets |-> body.sets, rate |-> body.rate])
        /\ routers' = [routers EXCEPT ![k].seq = (@ + DataRecords(body.sets)) % SeqSpace]
        /\ spent' = [spent EXCEPT !.sent = @ + 1]
        /\ UNCHANGED <<queue, exporters, idle, heard, misread>>

\* A restarted router counts from zero and numbers its templates anew.
RouterRestart(k) ==
    /\ routers[k].life < MaxLives
    /\ routers' = [routers EXCEPT ![k] = [life |-> @.life + 1, seq |-> 0]]
    /\ UNCHANGED <<net, queue, exporters, idle, heard, misread, spent>>

Lose(i) ==
    /\ spent.lost < MaxLosses
    /\ net' = SubSeq(net, 1, i - 1) \o SubSeq(net, i + 1, Len(net))
    /\ spent' = [spent EXCEPT !.lost = @ + 1]
    /\ UNCHANGED <<routers, queue, exporters, idle, heard, misread>>

\* The receiving task waits while the queue is full.
receive_loop ==
    /\ net # << >> /\ Len(queue) < queue_capacity
    /\ queue' = Append(queue, Head(net))
    /\ net' = Tail(net)
    /\ UNCHANGED <<routers, exporters, idle, heard, misread, spent>>

(***************************************************************************)
(* Processing a datagram.                                                  *)
(***************************************************************************)
permits(source) == Allowed = {} \/ source \in Allowed

\* Nothing for a new exporter when max_exporters are tracked.
get_or_create(k) ==
    IF k \in DOMAIN exporters THEN exporters[k]
    ELSE IF Cardinality(DOMAIN exporters) >= max_exporters THEN Nothing ELSE ExporterState_new

\* Mutant: the templates of before a restart stay.
observe_sequence_keeping(state, seq) ==
    [state EXCEPT !.last = seq]

\* A sequence number below the last one means a restart.
observe_sequence(state, seq) ==
    [cache |-> IF state.last # Nothing /\ seq < state.last THEN clear(state.cache) ELSE state.cache,
     last |-> seq]

\* What a datagram adds to what was heard of its router: whether a sequence
\* number of this life was below the one before it, or nothing was heard
\* before this life, and the rates announced in this life.
Hearing(h, state, d) ==
    LET again == h.life = d.life
        below == state.last # Nothing /\ d.seq < state.last
    IN  [life |-> d.life,
         shown |-> below \/ (again /\ h.shown),
         clean |-> (again /\ h.clean) \/ state = ExporterState_new,
         rates |-> (IF again THEN h.rates ELSE {}) \cup {d.rate}]

\* Flows of a decoded datagram, with the sampling learnt by its end.
Flows(decoded) ==
    {normalize_ipfix_record(decoded.records[i], decoded.cache.sampling) : i \in DOMAIN decoded.records} \ {Nothing}

Misread(decoded) == \E i \in DOMAIN decoded.records : \E f \in Range(decoded.records[i]) : f.element # f.meant

\* A flow is scaled by a rate its router announced in this life, or by the
\* configured one.
Misscaled(decoded, announced) ==
    \E f \in Flows(decoded) : f.rate \notin announced \cup {resolve(Nothing, Nothing)}

process_datagram ==
    /\ queue # << >>
    /\ queue' = Tail(queue)
    /\ LET d == Head(queue)
           known == get_or_create(d.key)
           state == observe_sequence(known, d.seq)
           decoded == decode_message(state.cache, d)
           h == Hearing(heard[d.key], known, d)
       IN  IF ~permits(Source(d.key)) \/ ~MessageHeader_parse(d) \/ known = Nothing
           THEN UNCHANGED <<exporters, idle, heard, misread>>
           ELSE /\ exporters' = [k \in DOMAIN exporters \cup {d.key} |->
                                   IF k = d.key THEN [state EXCEPT !.cache = decoded.cache] ELSE exporters[k]]
                /\ idle' = idle \ {d.key}
                /\ heard' = [heard EXCEPT ![d.key] = h]
                /\ misread' = (misread \/ ((h.shown \/ h.clean) /\ (Misread(decoded) \/ Misscaled(decoded, h.rates))))
    /\ UNCHANGED <<routers, net, spent>>

\* An hour of silence, and the tick that forgets who was silent.
Silence(k) ==
    /\ k \in DOMAIN exporters \ idle
    /\ idle' = idle \cup {k}
    /\ UNCHANGED <<routers, net, queue, exporters, heard, misread, spent>>

evict_idle ==
    /\ idle # {}
    /\ exporters' = Restrict(exporters, DOMAIN exporters \ idle)
    /\ idle' = {}
    /\ heard' = [k \in Keys |-> IF k \in idle THEN Unheard ELSE heard[k]]
    /\ UNCHANGED <<routers, net, queue, misread, spent>>

CollectorNext ==
    \/ \E k \in Keys : \E body \in Bodies(k, routers[k].life) : Send(k, body)
    \/ \E k \in Keys : RouterRestart(k) \/ Silence(k)
    \/ \E i \in DOMAIN net : Lose(i)
    \/ receive_loop
    \/ process_datagram
    \/ evict_idle

CollectorSpec == CollectorInit /\ [][CollectorNext]_cvars

(***************************************************************************)
(* Properties.                                                             *)
(***************************************************************************)
\* The fields of the templates in a cache.
FieldsHeld(cache) ==
    UNION {{id} \X DOMAIN cache.templates[id].fields : id \in DOMAIN cache.templates}

\* What a cache says it holds is what it holds, and within the limits, through
\* redefinitions, withdrawals, restarts and messages that fail half-way
\* (template_cache.rs, `fields` against MAX_TEMPLATE_FIELDS).
CacheAccounted ==
    \A k \in DOMAIN exporters :
        LET cache == exporters[k].cache
        IN  /\ cache.fields = Cardinality(FieldsHeld(cache))
            /\ cache.fields <= MAX_TEMPLATE_FIELDS
            /\ Cardinality(DOMAIN cache.templates) <= MAX_TEMPLATES

\* No record is read with a template of its router's former life, and no flow
\* is scaled by a sampling rate only that life announced, once a sequence
\* number has shown the restart (exporter.rs, observe_sequence).
RestartShownIsHeeded == ~misread
=============================================================================
