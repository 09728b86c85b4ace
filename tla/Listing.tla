------------------------------ MODULE Listing -------------------------------
(***************************************************************************)
(* Reading the API page by page (apps/api/src/list.rs and history.rs over  *)
(* incident-postgres/src/queries.rs): the filtered list of incidents, and  *)
(* one incident's timeline, audit records and detection links.  A page is  *)
(* one statement; between two pages incidents open, move and change, and   *)
(* transactions write history.  The cursor is all a reader keeps.          *)
(***************************************************************************)
EXTENDS RateLimit, Sequences

CONSTANTS
    IncidentIds,                \* a set of numbers: ids are ordered
    TenantOf,                   \* [IncidentIds -> the tenant of each]
    Reader,                     \* the reader's tenant
    Queries,                    \* the queries a reader may walk through
    Writers,                    \* transactions that write one incident's history
    MAX_PAGE_SIZE, MAX_RANGE,
    MaxMoment, MaxEntries       \* bounds of the model

VARIABLES
    incidents,  \* [IncidentIds -> None or the row]
    history,    \* the committed rows of one incident's histories
    sequence,   \* the ids handed out for them so far
    lock,       \* the writer that holds the incident's row, or None
    writing,    \* [Writers -> None or the rows it has inserted]
    walk        \* the reader: None, or how far it is

lvars == <<incidents, history, sequence, lock, writing, walk>>

Moments == 0..MaxMoment

ListingInit ==
    /\ incidents = [i \in IncidentIds |-> None]
    /\ history = {} /\ sequence = 0
    /\ lock = None /\ writing = [w \in Writers |-> None]
    /\ walk = None

------------------------------------------------------------------------------
(* The query parameters: a sequence of <<name, value>> pairs.              *)

STATES == {"open", "acknowledged", "investigating", "monitoring", "recovering", "resolved", "closed"}
SORTS == {"opened_at", "last_detected_at"}
ORDERS == {"desc", "asc"}

(* Only state, severity and priority may repeat.                           *)
repeatable == {"state", "severity", "priority"}
single == {"direction", "target_type", "incident_number", "opened_from", "opened_to", "sort",
           "order", "limit", "cursor", "include_total"}

(* one_of, and what the other parameters take.  Times and the page size    *)
(* are numbers once parsed; anything that is not one is None.              *)
one_of(name, value) ==
    CASE name = "state" -> value \in STATES
      [] name = "sort" -> value \in SORTS
      [] name = "order" -> value \in ORDERS
      [] name = "include_total" -> value \in BOOLEAN
      [] name = "limit" -> value # None /\ value > 0
      [] name \in {"opened_from", "opened_to"} -> value # None
      [] OTHER -> TRUE

Named(pairs, name) == {n \in DOMAIN pairs : pairs[n][1] = name}
Given(pairs, name) == Named(pairs, name) # {}
Value(pairs, name, default) ==
    IF Given(pairs, name) THEN pairs[CHOOSE n \in Named(pairs, name) : TRUE][2] ELSE default

(* A cursor holds the format, the tenant, the order it continues and the   *)
(* last row's position; on the wire it is opaque text.  A text that is not *)
(* one is None.                                                            *)
encode_cursor(sort, order, key, id) == [hex |-> <<1, Reader, sort, order, key, id>>]

decode_cursor(text) ==
    IF text = None THEN None
    ELSE [v |-> text.hex[1], t |-> text.hex[2], s |-> text.hex[3], o |-> text.hex[4],
          k |-> text.hex[5], i |-> text.hex[6]]

ListFilter(pairs) ==
    [states |-> {pairs[n][2] : n \in Named(pairs, "state")},
     from |-> Value(pairs, "opened_from", None), to |-> Value(pairs, "opened_to", None),
     sort |-> Value(pairs, "sort", "opened_at"), order |-> Value(pairs, "order", "desc"),
     limit |-> LET size == Value(pairs, "limit", MAX_PAGE_SIZE)
               IN  IF size > MAX_PAGE_SIZE THEN MAX_PAGE_SIZE ELSE size,
     after |-> IF Given(pairs, "cursor") THEN decode_cursor(Value(pairs, "cursor", None)) ELSE None]

(* parse: None stands for the problem it answers with.                     *)
parse_query(pairs) ==
    LET filter == ListFilter(pairs)
        well_formed ==
            /\ \A n \in DOMAIN pairs :
                pairs[n][1] \in repeatable \cup single /\ one_of(pairs[n][1], pairs[n][2])
            /\ \A name \in single : \A m, n \in Named(pairs, name) : m = n
        range == IF Given(pairs, "opened_from") /\ Given(pairs, "opened_to")
                 THEN filter.from < filter.to /\ filter.to - filter.from <= MAX_RANGE
                 ELSE ~Given(pairs, "opened_from") /\ ~Given(pairs, "opened_to")
        cursor == Given(pairs, "cursor") =>
                    /\ filter.after # None
                    /\ filter.after.v = 1 /\ filter.after.t = Reader
                    /\ filter.after.s = filter.sort /\ filter.after.o = filter.order
    IN  IF well_formed /\ range /\ cursor THEN filter ELSE None

(* paging, for the histories: the page size is bounded, and none is 0.     *)
paging(limit) == IF limit <= 0 THEN None ELSE IF limit > MAX_PAGE_SIZE THEN MAX_PAGE_SIZE ELSE limit

(* Ids and times are numbers, a query is a sequence of pairs, a page holds *)
(* at least one row, and no cursor is taken for the absence of one.        *)
ASSUME ListingAssumption ==
    /\ IncidentIds \subseteq Int /\ IsFiniteSet(IncidentIds)
    /\ MAX_PAGE_SIZE \in Nat \ {0} /\ MaxMoment \in Nat
    /\ \A q \in Queries :
        IF q.table = "incidents"
        THEN /\ q.pairs \in Seq(Range(q.pairs))
             /\ \A n \in Named(q.pairs, "limit") : q.pairs[n][2] \in Int \cup {None}
        ELSE q.limit \in Int
    /\ None \notin Writers \cup (Int \X Int)
    /\ None \notin [hex : {1} \X {Reader} \X SORTS \X ORDERS \X Int \X Int]
    /\ None \notin [v : {1}, t : {Reader}, s : SORTS, o : ORDERS, k : Int, i : Int]

------------------------------------------------------------------------------
(* The statement.                                                          *)

sort_key(i, sort) == IF sort = "opened_at" THEN incidents[i].opened ELSE incidents[i].detected

(* (column, incident_id) compared as a row, in the order asked for.        *)
RowBefore(a, b, order) ==
    LET less(x, y) == x[1] < y[1] \/ (x[1] = y[1] /\ x[2] < y[2])
    IN  IF order = "asc" THEN less(a, b) ELSE less(b, a)

(* The cursor's predicate, and one that compares the column alone.         *)
after_by_key(position, filter) ==
    filter.after # None => IF filter.order = "asc" THEN position[1] > filter.after.k
                                                   ELSE position[1] < filter.after.k

after_cursor(position, filter) ==
    filter.after # None => RowBefore(<<filter.after.k, filter.after.i>>, position, filter.order)

where_clause(filter, with_cursor) ==
    {i \in IncidentIds :
        /\ incidents[i] # None
        /\ TenantOf[i] = Reader
        /\ filter.states # {} => incidents[i].state \in filter.states
        /\ filter.from # None => incidents[i].opened >= filter.from /\ incidents[i].opened < filter.to
        /\ with_cursor => after_cursor(<<sort_key(i, filter.sort), i>>, filter)}

(* page: the rows in the order of their positions, up to the limit; one    *)
(* row more is fetched, to tell whether more follow.                       *)
Rank(rows, order, at) == Cardinality({x \in rows : RowBefore(x.at, at, order)})

page(rows, order, limit) ==
    LET size == Cardinality(rows)
    IN  [items |-> [n \in 1..(IF size > limit THEN limit ELSE size) |->
                        CHOOSE r \in rows : Rank(rows, order, r.at) = n - 1],
         has_more |-> size > limit]

(* The rows of a list with their positions in it.                          *)
Incidents(filter, with_cursor) ==
    {[row |-> i, at |-> <<sort_key(i, filter.sort), i>>] : i \in where_clause(filter, with_cursor)}

select_incidents(filter) == page(Incidents(filter, TRUE), filter.order, filter.limit)

(* TIMELINE, AUDIT and DETECTIONS: the rows after the cursor, oldest       *)
(* first.  Timeline and audit are in the order of their ids, detections in *)
(* the order of (detected_at, event id).                                   *)
Position(table, row) == IF table = "detections" THEN <<row.detected, row.id>> ELSE <<row.id, 0>>

Entries(table) == {[row |-> r, at |-> Position(table, r)] : r \in {r \in history : r.table = table}}

select_history(table, after, limit) ==
    page({e \in Entries(table) : after # None => RowBefore(after, e.at, "asc")}, "asc", limit)

------------------------------------------------------------------------------
(* The reader.                                                             *)

(* Every row of the list a query reads, where it stands in it.             *)
Rows(q) ==
    IF q.table = "incidents" THEN Incidents(parse_query(q.pairs), FALSE) ELSE Entries(q.table)

(* A walk begins with a query without a cursor; whole is what has stayed   *)
(* as it was since.                                                        *)
Readable(q) == IF q.table = "incidents" THEN parse_query(q.pairs) # None ELSE paging(q.limit) # None

Begin(q) ==
    /\ walk = None
    /\ Readable(q)
    /\ q.table = "incidents" => ~Given(q.pairs, "cursor")
    /\ walk' = [query |-> q, cursor |-> None, listed |-> <<>>, whole |-> Rows(q), done |-> FALSE]
    /\ UNCHANGED <<incidents, history, sequence, lock, writing>>

(* A query that does not parse is answered 400.                            *)
Refused(q) ==
    /\ walk = None
    /\ ~Readable(q)
    /\ walk' = [query |-> q, cursor |-> None, listed |-> <<>>, whole |-> {}, done |-> TRUE]
    /\ UNCHANGED <<incidents, history, sequence, lock, writing>>

Listed(p, cursor) ==
    walk' = [walk EXCEPT !.listed = @ \o [n \in DOMAIN p.items |-> p.items[n].row],
                         !.cursor = cursor, !.done = ~p.has_more]

(* list_incidents, for the same query with the cursor of the last page.    *)
list_incidents ==
    LET pairs == walk.query.pairs
        filter == parse_query(IF walk.cursor = None THEN pairs
                              ELSE Append(pairs, <<"cursor", walk.cursor>>))
        p == select_incidents(filter)
        last == p.items[Len(p.items)]
    IN  /\ walk # None /\ ~walk.done /\ walk.query.table = "incidents"
        /\ Listed(p, IF p.has_more
                     THEN encode_cursor(filter.sort, filter.order, last.at[1], last.at[2])
                     ELSE None)
        /\ UNCHANGED <<incidents, history, sequence, lock, writing>>

(* timeline, audit and detections (history.rs): the cursor is the last     *)
(* row's id, or its detection time and event id.                           *)
read_history ==
    LET table == walk.query.table
        p == select_history(table, walk.cursor, paging(walk.query.limit))
    IN  /\ walk # None /\ ~walk.done /\ table # "incidents"
        /\ Listed(p, IF p.has_more THEN p.items[Len(p.items)].at ELSE None)
        /\ UNCHANGED <<incidents, history, sequence, lock, writing>>

------------------------------------------------------------------------------
(* Everyone else.                                                          *)

(* What is left of the rows that did not move once the others have acted.  *)
(* The model ends with the walk.                                           *)
Still ==
    IF walk = None THEN UNCHANGED walk
    ELSE ~walk.done /\ \E q \in {walk.query} : walk' = [walk EXCEPT !.whole = @ \cap Rows(q)']

(* An incident opens: opened_at is the time its transaction began, so it   *)
(* need not be later than what is already there.                           *)
Opens(i, at) ==
    /\ incidents[i] = None
    /\ incidents' = [incidents EXCEPT ![i] = [state |-> "open", opened |-> at, detected |-> at]]
    /\ Still
    /\ UNCHANGED <<history, sequence, lock, writing>>

(* A further detection moves last_detected_at; a transition the state.     *)
Detected(i) ==
    /\ incidents[i] # None /\ incidents[i].detected < MaxMoment
    /\ incidents' = [incidents EXCEPT ![i].detected = @ + 1]
    /\ Still
    /\ UNCHANGED <<history, sequence, lock, writing>>

Transition(i) ==
    /\ incidents[i] # None /\ incidents[i].state = "open"
    /\ incidents' = [incidents EXCEPT ![i].state = "closed"]
    /\ Still
    /\ UNCHANGED <<history, sequence, lock, writing>>

(* load_for_incident takes the incident FOR UPDATE; flush inserts the rows *)
(* of its histories, which get their ids then; they are seen at commit.    *)
load_for_incident(w) == writing[w] = None /\ lock = None

flush(w) ==
    /\ load_for_incident(w) /\ sequence < MaxEntries
    /\ sequence' = sequence + 1
    /\ lock' = w
    /\ \E detected \in Moments :
        writing' = [writing EXCEPT ![w] =
            {[table |-> t, id |-> sequence', detected |-> IF t = "detections" THEN detected ELSE 0] :
                t \in {"timeline", "audit", "detections"}}]
    /\ UNCHANGED <<incidents, history, walk>>

Commit(w) ==
    /\ writing[w] # None
    /\ history' = history \cup writing[w]
    /\ writing' = [writing EXCEPT ![w] = None]
    /\ lock' = IF lock = w THEN None ELSE lock
    /\ Still
    /\ UNCHANGED <<incidents, sequence>>

(* A failed transaction leaves a gap in the ids, and no row.               *)
Rollback(w) ==
    /\ writing[w] # None
    /\ writing' = [writing EXCEPT ![w] = None]
    /\ lock' = IF lock = w THEN None ELSE lock
    /\ UNCHANGED <<incidents, history, sequence, walk>>

ListNext ==
    \/ \E q \in Queries : q.table = "incidents" /\ (Begin(q) \/ Refused(q))
    \/ list_incidents
    \/ \E i \in IncidentIds : (\E at \in Moments : Opens(i, at)) \/ Detected(i) \/ Transition(i)

HistoryNext ==
    \/ \E q \in Queries : q.table # "incidents" /\ (Begin(q) \/ Refused(q))
    \/ read_history
    \/ \E w \in Writers : flush(w) \/ Commit(w) \/ Rollback(w)

ListingNext == ListNext \/ HistoryNext

ListingSpec == ListingInit /\ [][ListingNext]_lvars

------------------------------------------------------------------------------
(* A walk is complete: when it ends, every row that was there from its     *)
(* first page to its last and did not move is listed exactly once,         *)
(* whatever opened, moved or closed between the pages; and a timeline or   *)
(* audit walk has no gap: no row appears behind the last one listed,       *)
(* although rows get their ids before they are committed (queries.rs says  *)
(* that keyset pagination never skips or repeats; the histories rely on    *)
(* the lock of the incident's row).                                       *)
WalkIsComplete ==
    walk # None =>
        /\ walk.done => \A r \in walk.whole :
                Cardinality({n \in DOMAIN walk.listed : walk.listed[n] = r.row}) = 1
        /\ walk.query.table \in {"timeline", "audit"} =>
            \A row \in history : \A n \in DOMAIN walk.listed :
                row.table = walk.query.table /\ row.id < walk.listed[n].id
                => \E m \in 1..n : walk.listed[m] = row
=============================================================================
