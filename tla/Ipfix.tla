-------------------------------- MODULE Ipfix --------------------------------
(***************************************************************************)
(* The IPFIX decoder (crates/protocol-ipfix) and what a decoded record     *)
(* becomes (crates/collector/src/normalize.rs, crates/common).  Every      *)
(* field is one word long; a word remembers, beside its value, the element *)
(* its sender meant.                                                       *)
(***************************************************************************)
EXTENDS Naturals, Sequences, FiniteSets, FiniteSetsExt, Functions

CONSTANTS
    Nothing,
    MAX_TEMPLATES, MAX_TEMPLATE_FIELDS,
    MaxCount,           \* bound: the largest count (2^64 - 1 in the code)
    ExporterConfigured, GlobalDefault       \* the operator's sampling rates, or Nothing

ASSUME IpfixAssumption ==
    /\ {MAX_TEMPLATES, MAX_TEMPLATE_FIELDS, MaxCount} \subseteq Nat
    /\ {ExporterConfigured, GlobalDefault} \subseteq Nat \cup {Nothing}

TEMPLATE_SET_ID == 2
OPTIONS_TEMPLATE_SET_ID == 3
MIN_DATA_SET_ID == 256

Element == {"source", "destination", "octets", "packets", "interval", "other", "empty"}

\* A template, as its record gives it; no fields means a withdrawal, and an
\* "empty" field has length zero.
Template == [id : Nat, scope : Nat, fields : Seq(Element)]

\* The fields of a template that take a word of the record.
Wide(template) == {j \in DOMAIN template.fields : template.fields[j] # "empty"}

min_record_len(template) == Cardinality(Wide(template))

(***************************************************************************)
(* One exporter's template cache.                                          *)
(***************************************************************************)
TemplateCache_new == [templates |-> << >>, fields |-> 0, sampling |-> Nothing]

clear(cache) == TemplateCache_new

FieldsOf(cache, id) == IF id \in DOMAIN cache.templates THEN Len(cache.templates[id].fields) ELSE 0

insert(cache, template) ==
    LET id == template.id
        ids == DOMAIN cache.templates \cup {id}
        fields == cache.fields - FieldsOf(cache, id) + Len(template.fields)
    IN  IF Cardinality(ids) > MAX_TEMPLATES \/ fields > MAX_TEMPLATE_FIELDS
        THEN [ok |-> FALSE, cache |-> cache]
        ELSE [ok |-> TRUE,
              cache |-> [cache EXCEPT !.fields = fields,
                                      !.templates = [i \in ids |-> IF i = id THEN template ELSE @[i]]]]

\* Mutant: a withdrawn template's fields stay counted.
remove_uncounted(cache, id) ==
    [cache EXCEPT !.templates = Restrict(@, DOMAIN @ \ {id})]

remove(cache, id) ==
    [cache EXCEPT !.templates = Restrict(@, DOMAIN @ \ {id}),
                  !.fields = @ - FieldsOf(cache, id)]

\* The last field of an element is the one that counts.
ValueOf(record, element, default) ==
    LET said == {j \in DOMAIN record : record[j].element = element}
    IN  IF said = {} THEN default ELSE record[Max(said)].value

\* Of the records of an options set the last interval is remembered.
observe_options_data(cache, records) ==
    LET said == {i \in DOMAIN records : \E f \in Range(records[i]) : f.element = "interval"}
    IN  IF said = {} THEN cache
        ELSE [cache EXCEPT !.sampling = ValueOf(records[Max(said)], "interval", Nothing)]

(***************************************************************************)
(* A message is decoded set by set.  An error fails all of it, and leaves  *)
(* in the cache what the sets before it put there.                         *)
(***************************************************************************)
ParseTemplate(acc, t) ==
    IF ~acc.ok THEN acc
    ELSE IF t.fields = << >>
    THEN [ok |-> TRUE, cache |-> IF t.id \in {TEMPLATE_SET_ID, OPTIONS_TEMPLATE_SET_ID}
                                 THEN clear(acc.cache) ELSE remove(acc.cache, t.id)]
    ELSE IF min_record_len(t) = 0 THEN [ok |-> FALSE, cache |-> acc.cache]
    ELSE insert(acc.cache, t)

parse_template_records(cache, records) ==
    LET after[n \in 0 .. Len(records)] ==
            IF n = 0 THEN [ok |-> TRUE, cache |-> cache] ELSE ParseTemplate(after[n - 1], records[n])
    IN  after[Len(records)]

\* The i-th record of a set body read with a template: the fields take the
\* words in turn, whatever their sender meant.
decode_data_record(template, body, i) ==
    LET wide == Wide(template)
        at(j) == (i - 1) * Cardinality(wide) + Cardinality({h \in wide : h <= j})
    IN  [j \in wide |-> [element |-> template.fields[j], value |-> body[at(j)].value,
                         meant |-> body[at(j)].element]]

\* Words too few for another record are padding.
decode_data_set(template, body) ==
    [i \in 1 .. Len(body) \div min_record_len(template) |-> decode_data_record(template, body, i)]

\* MessageHeader::parse, before anything else: the version and the length.
MessageHeader_parse(message) == message.header

TemplateSet(set) == set.id \in {TEMPLATE_SET_ID, OPTIONS_TEMPLATE_SET_ID}

\* One set: templates, options templates, a reserved id, or data, decoded if
\* its template is known.
DecodeSet(acc, set) ==
    CASE ~acc.ok -> acc
      [] acc.ok /\ set.malformed -> [acc EXCEPT !.ok = FALSE]
      [] acc.ok /\ ~set.malformed /\ TemplateSet(set) ->
            LET parsed == parse_template_records(acc.cache, set.body)
            IN  [acc EXCEPT !.ok = parsed.ok, !.cache = parsed.cache]
      [] OTHER ->
            IF set.id < MIN_DATA_SET_ID \/ set.id \notin DOMAIN acc.cache.templates THEN acc
            ELSE LET template == acc.cache.templates[set.id]
                     records == decode_data_set(template, set.body)
                 IN  [acc EXCEPT
                        !.records = @ \o records,
                        !.cache = IF template.scope > 0 THEN observe_options_data(@, records) ELSE @]

\* What decoding leaves: the cache and, unless a set was malformed, the data
\* records of the known templates, options records among them.
decode_message(cache, message) ==
    LET after[n \in 0 .. Len(message.sets)] ==
            IF n = 0 THEN [ok |-> TRUE, cache |-> cache, records |-> << >>]
            ELSE DecodeSet(after[n - 1], message.sets[n])
        end == after[Len(message.sets)]
    IN  [end EXCEPT !.records = IF end.ok THEN @ ELSE << >>]

(***************************************************************************)
(* A record becomes a flow.                                                *)
(***************************************************************************)
\* The most specific rate that is given and not zero.
resolve(record_level, options_template) ==
    LET rates == <<record_level, options_template, ExporterConfigured, GlobalDefault>>
        given == {i \in 1 .. 4 : rates[i] \notin {Nothing, 0}}
    IN  IF given = {} THEN 1 ELSE rates[Min(given)]

\* A count of the sampled packets, corrected; Nothing past what a u64 holds.
apply(rate, count) == IF rate * count > MaxCount THEN Nothing ELSE rate * count

\* NormalizedFlowBuilder::build refuses an empty flow and an overflow.
build(source, destination, raw_bytes, raw_packets, rate) ==
    LET bytes == apply(rate, raw_bytes)
        packets == apply(rate, raw_packets)
    IN  IF (raw_bytes = 0 /\ raw_packets = 0) \/ Nothing \in {bytes, packets} THEN Nothing
        ELSE [source |-> source, destination |-> destination, bytes |-> bytes, packets |-> packets,
              raw |-> raw_bytes, rate |-> rate]

\* The flow of a record, or Nothing.
normalize_ipfix_record(record, options_sampling) ==
    LET source == ValueOf(record, "source", Nothing)
        destination == ValueOf(record, "destination", Nothing)
    IN  IF Nothing \in {source, destination} THEN Nothing
        ELSE build(source, destination, ValueOf(record, "octets", 0), ValueOf(record, "packets", 0),
                   resolve(ValueOf(record, "interval", Nothing), options_sampling))
=============================================================================
