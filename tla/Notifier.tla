------------------------------ MODULE Notifier ------------------------------
(***************************************************************************)
(* The notifier (crates/notification): processes that claim outbox         *)
(* messages, work out the channels their tenant's routes name, vet and     *)
(* send to each, and mark the message published or failed.  What a process *)
(* remembers (channels done, recent sends, rate buckets) dies with it.     *)
(* A batch that meets a database error is dropped where it stands: its     *)
(* leases stay until they expire.                                          *)
(***************************************************************************)
EXTENDS Outbox, Destination

CONSTANTS
    File,           \* the notification file: channels, routes, allowed_hosts, rate_limit_per_minute
    Content,        \* what each message says
    RateLimited,    \* whether a channel may be at its limit
    REMEMBERED_MESSAGES,    \* messages whose channels a process remembers
    MaxFaults       \* bound: crashes, database errors, sends that arrived although they
                    \*   timed out, and leases that run out under a batch still at work

VARIABLES
    mem,            \* each process's memory
    accounted,      \* the messages something became of on a channel (history)
    spent           \* faults so far

nvars == <<outbox, letters, mem, accounted, spent>>

Channels == DOMAIN File.channels

ChannelKind == {"webhook", "slack", "teams", "telegram", "email"}

SEVERITIES == <<"info", "minor", "major", "critical">>

\* The fields of a channel that are given, and what its kind needs of them.
ChannelSpec ==
    [kind : ChannelKind,
     given : SUBSET {"url", "url_file", "secret_file", "bot_token_file", "chat_id", "smtp_host",
                     "username", "password_file", "from", "to"},
     smtp_tls : {"starttls", "implicit", "none"}, scheme : {"http", "https"}, host : STRING,
     allow_private : BOOLEAN]

Complete(spec) ==
    LET has(field) == field \in spec.given
    IN  CASE spec.kind = "webhook" -> has("url") # has("url_file") /\ has("secret_file")
          [] spec.kind \in {"slack", "teams"} -> has("url_file") /\ ~has("url")
          [] spec.kind = "telegram" -> has("bot_token_file") /\ has("chat_id")
          [] spec.kind = "email" -> /\ {"smtp_host", "from", "to"} \subseteq spec.given
                                    /\ has("username") = has("password_file")
                                    /\ spec.smtp_tls # "none" \/ spec.allow_private

\* What parse_file accepts.
ValidFile(f) ==
    /\ \A ch \in DOMAIN f.channels : f.channels[ch] \in ChannelSpec /\ Complete(f.channels[ch])
    /\ \A i \in DOMAIN f.routes :
          /\ f.routes[i].channels \in Seq(DOMAIN f.channels) \ {<<>>} /\ f.routes[i].events # {}
          /\ f.routes[i].min_severity \in {None} \cup {SEVERITIES[j] : j \in DOMAIN SEVERITIES}
    /\ f.rate_limit_per_minute \in Nat \ {0}

\* A claimed row: what the message is about, and what reading it meets.
ClaimedMessage ==
    [aggregate : {"incident", "mitigation", "mitigation_controls", "bgp_peer", "other"},
     subject : STRING, tenant : STRING, event : STRING, payload : {"json", "garbled"},
     severity : {SEVERITIES[i] : i \in DOMAIN SEVERITIES}, cause : {None, "kill_switch"},
     incident : {"there", "gone", "unreadable", "none"}]

ASSUME FileAssumption == ValidFile(File)
ASSUME MemoryAssumption == REMEMBERED_MESSAGES \in Nat \ {0}
ASSUME ContentAssumption == Content \in [Messages -> ClaimedMessage]

rank(severity) == CHOOSE i \in DOMAIN SEVERITIES : SEVERITIES[i] = severity

\* Where the routes that apply name channels, and which one a place names.
Applies(route, tenant, event, severity) ==
    /\ route.tenant = tenant /\ event \in route.events
    /\ route.min_severity = None \/ rank(severity) >= rank(route.min_severity)

Places(tenant, event, severity) ==
    UNION {{<<i, j>> : j \in DOMAIN File.routes[i].channels} :
             i \in {k \in DOMAIN File.routes : Applies(File.routes[k], tenant, event, severity)}}

Named(p) == File.routes[p[1]].channels[p[2]]

channels_for(tenant, event, severity) == {Named(p) : p \in Places(tenant, event, severity)}

MITIGATION_AGGREGATES == {"mitigation", "mitigation_controls", "bgp_peer"}

\* The fixed severity of a mitigation's, the switch's or a session's news.
severity(event, cause) ==
    CASE event \in {"mitigation.failed", "mitigation.kill_switch_engaged", "bgp.peer_down"} -> "critical"
      [] event \in {"mitigation.proposed", "mitigation.requested", "mitigation.active",
                    "mitigation.kill_switch_released"} -> "major"
      [] event = "mitigation.withdrawn" /\ cause = "kill_switch" -> "major"
      [] OTHER -> "minor"

SeverityOf(msg) ==
    IF msg.aggregate \in MITIGATION_AGGREGATES THEN severity(msg.event, msg.cause) ELSE msg.severity

\* A mitigation message is told from its payload, if that is JSON; an
\* incident message from the incident as it is now, if it is still there.
handle_mitigation(msg) == IF msg.payload = "garbled" THEN {} ELSE channels_for(msg.tenant, msg.event, SeverityOf(msg))

Audience(m) ==
    LET msg == Content[m]
    IN  IF msg.aggregate \in MITIGATION_AGGREGATES THEN handle_mitigation(msg)
        ELSE IF msg.aggregate = "incident" /\ msg.incident # "gone"
             THEN channels_for(msg.tenant, msg.event, SeverityOf(msg))
             ELSE {}

\* What DNS may answer, and what a POST or an SMTP exchange comes to: "lost"
\* arrived and timed out.
lookup_host == {<<>>, <<"public">>, <<"private">>, <<"public", "private">>, <<"private", "public">>}

post == {"delivered", "transient", "permanent", "lost"}

send == {"delivered", "transient", "permanent", "lost"}

\* What may come of a channel: a destination that is not vetted is refused.
Outcomes ==
    [ch \in Channels |->
        LET spec == File.channels[ch]
            sent == IF spec.kind = "email" THEN send ELSE post
        IN  UNION {IF vet(spec, File.allowed_hosts, answers) THEN sent ELSE {"refused"} : answers \in lookup_host}]

(***************************************************************************)
(* A process.  Time is not kept: a remembered send may or may not be       *)
(* within the dedup window, and a bucket may or may not hold a token.      *)
(***************************************************************************)
\* The batch and where it is, the channels done and the sends seen; and
\* (history) the channels that acknowledged a message to this life, and those
\* of them that it had to forget.
Notifier_new ==
    [batch |-> {}, cur |-> None, left |-> {}, failed |-> FALSE, done |-> {}, seen |-> {},
     told |-> {}, forgotten |-> {}]

Key(ch, m) == <<ch, Content[m].subject, Content[m].event>>

Drop(memory) == [memory EXCEPT !.batch = {}, !.cur = None, !.left = {}, !.failed = FALSE]

Faults == spent.crashes + spent.errors + spent.lost + spent.slow

NotifierInit ==
    /\ OutboxInit
    /\ mem = [c \in Consumers |-> Notifier_new]
    /\ accounted = {}
    /\ spent = [crashes |-> 0, errors |-> 0, lost |-> 0, slow |-> 0]

Write(m) ==
    /\ append(m)
    /\ UNCHANGED <<mem, accounted, spent>>

Claim(c) ==
    /\ mem[c].batch = {} /\ claim(c) # {}
    /\ Lease(c, claim(c))
    /\ mem' = [mem EXCEPT ![c].batch = claim(c)]
    /\ UNCHANGED <<accounted, spent>>

\* A stored incident that no longer reads back ends the batch (`?`).
Unreadable(m) == Content[m].aggregate = "incident" /\ Content[m].incident = "unreadable"

handle(c, m) ==
    /\ m \in mem[c].batch /\ mem[c].cur = None
    /\ \A n \in mem[c].batch : m <= n
    /\ mem' = [mem EXCEPT ![c] = IF Unreadable(m) THEN Drop(@)
                                 ELSE [@ EXCEPT !.cur = m, !.left = Audience(m), !.failed = FALSE]]
    /\ UNCHANGED <<outbox, letters, accounted, spent>>

PlacesOf ==
    [m \in Messages |-> Places(Content[m].tenant, Content[m].event, SeverityOf(Content[m]))]

\* The channels of a message have their turn in the order the routes name
\* them, each once.
Turn(c, ch) ==
    LET places == PlacesOf[mem[c].cur]
        before(p, q) == p[1] < q[1] \/ (p[1] = q[1] /\ p[2] < q[2])
    IN  /\ mem[c].cur # None /\ ch \in mem[c].left
        /\ \E p \in places : Named(p) = ch /\ \A q \in places : before(q, p) => Named(q) \notin mem[c].left

\* A channel that has the message is passed over.
Skip(c, ch) ==
    LET m == mem[c].cur
    IN  /\ Turn(c, ch) /\ <<m, ch>> \in mem[c].done
        /\ mem' = [mem EXCEPT ![c].left = @ \ {ch}]
        /\ UNCHANGED <<outbox, letters, accounted, spent>>

\* So is one that had the same news within the window, or is at its limit.
is_duplicate(c, ch) == Key(ch, mem[c].cur) \in mem[c].seen

Spare(c, ch) ==
    LET m == mem[c].cur
    IN  /\ Turn(c, ch) /\ <<m, ch>> \notin mem[c].done
        /\ is_duplicate(c, ch) \/ RateLimited
        /\ mem' = [mem EXCEPT ![c].left = @ \ {ch}]
        /\ accounted' = accounted \cup {<<m, ch>>}
        /\ UNCHANGED <<outbox, letters, spent>>

\* A channel that is done is remembered; a memory that is full is emptied
\* first, of all its messages.
Full(done) == Cardinality({x[1] : x \in done}) >= REMEMBERED_MESSAGES

\* A delivery and the result recorded on the incident's timeline, whose
\* database error drops the batch after the channel was remembered.
deliver(c, ch, outcome, recorded) ==
    LET m == mem[c].cur
        retry == outcome \in {"transient", "lost"}
        dropped == IF ~retry /\ Full(mem[c].done) THEN mem[c].done ELSE {}
        added == IF retry THEN {} ELSE {<<m, ch>>}
        after == [mem[c] EXCEPT
                    !.left = @ \ {ch},
                    !.failed = @ \/ retry,
                    !.done = (@ \ dropped) \cup added,
                    !.seen = IF outcome = "delivered" THEN @ \cup {Key(ch, m)} ELSE @,
                    !.told = IF outcome = "delivered" THEN @ \cup {<<m, ch>>} ELSE @,
                    !.forgotten = (@ \cup dropped) \ added]
        faults == (IF outcome = "lost" THEN 1 ELSE 0) + (IF recorded THEN 0 ELSE 1)
    IN  /\ Turn(c, ch) /\ <<m, ch>> \notin mem[c].done
        /\ recorded \/ Content[m].incident # "none"
        /\ faults > 0 => Faults + faults <= MaxFaults
        /\ mem' = [mem EXCEPT ![c] = IF recorded THEN after ELSE Drop(after)]
        /\ accounted' = IF outcome = "transient" THEN accounted ELSE accounted \cup {<<m, ch>>}
        /\ spent' = [spent EXCEPT !.lost = IF outcome = "lost" THEN @ + 1 ELSE @,
                                  !.errors = IF recorded THEN @ ELSE @ + 1]
        /\ UNCHANGED <<outbox, letters>>

Sends(c, ch) == \E outcome \in Outcomes[ch], recorded \in BOOLEAN : deliver(c, ch, outcome, recorded)

\* Mutant: a retry forgets which channels have the message.
Finished_always(c, m) == TRUE

\* Whether a message's progress is forgotten: published (whether or not the
\* lease still held) or dead-lettered by this process.
Finished(c, m) == ~mem[c].failed \/ FailureOutcome(c, m) = "DeadLettered"

\* What is forgotten of a message that is not settled: it was told in time,
\* and its row is no longer this process's to publish.
LostTrack(c, m) == IF ~mem[c].failed /\ ~Holds(c, m) THEN {x \in mem[c].done : x[1] = m} ELSE {}

mark(c) ==
    LET m == mem[c].cur
    IN  /\ m # None /\ mem[c].left = {}
        /\ IF mem[c].failed THEN mark_failed(c, m) ELSE mark_published(c, m)
        /\ mem' = [mem EXCEPT ![c] =
                     [mem[c] EXCEPT !.batch = @ \ {m}, !.cur = None, !.failed = FALSE,
                                    !.done = IF Finished(c, m) THEN {x \in @ : x[1] # m} ELSE @,
                                    !.forgotten = @ \cup LostTrack(c, m)]]
        /\ UNCHANGED <<accounted, spent>>

(***************************************************************************)
(* Faults and time.                                                        *)
(***************************************************************************)
DatabaseError(c) ==
    /\ mem[c].batch # {} /\ Faults < MaxFaults
    /\ mem' = [mem EXCEPT ![c] = Drop(@)]
    /\ spent' = [spent EXCEPT !.errors = @ + 1]
    /\ UNCHANGED <<outbox, letters, accounted>>

Crash(c) ==
    /\ mem[c].batch # {} /\ Faults < MaxFaults
    /\ mem' = [mem EXCEPT ![c] = Notifier_new]
    /\ spent' = [spent EXCEPT !.crashes = @ + 1]
    /\ UNCHANGED <<outbox, letters, accounted>>

\* A lease runs out; under a batch still at work, it is a fault.
Expire(m) ==
    LET slow == \E c \in Consumers : outbox[m].locked_by = c /\ m \in mem[c].batch
    IN  /\ LeaseExpires(m)
        /\ slow => Faults < MaxFaults
        /\ spent' = IF slow THEN [spent EXCEPT !.slow = @ + 1] ELSE spent
        /\ UNCHANGED <<mem, accounted>>

Backoff(m) == BackoffElapses(m) /\ UNCHANGED <<mem, accounted, spent>>

Tend(m) == (review(m) \/ run_retention(m)) /\ UNCHANGED <<mem, accounted, spent>>

Work(c) ==
    \/ Claim(c) \/ mark(c)
    \/ \E m \in Messages : handle(c, m)
    \/ \E ch \in Channels : Skip(c, ch) \/ Spare(c, ch) \/ Sends(c, ch)

NotifierNext ==
    \/ \E c \in Consumers : Work(c) \/ DatabaseError(c) \/ Crash(c)
    \/ \E m \in Messages : Write(m) \/ Expire(m) \/ Backoff(m) \/ Tend(m)

\* A live process runs batch after batch (lib.rs run), and time passes.
NotifierSpec ==
    /\ NotifierInit /\ [][NotifierNext]_nvars
    /\ \A c \in Consumers : WF_nvars(Work(c))
    /\ \A m \in Messages : WF_nvars(Expire(m)) /\ WF_nvars(Backoff(m))

(***************************************************************************)
(* Properties.                                                             *)
(***************************************************************************)
P == INSTANCE OutboxPromise WITH
        AudienceOf <- [m \in Messages |-> Audience(m)],
        status <- [m \in Messages |->
                     CASE outbox[m].status \in {"pending", "retrying"} -> "waiting"
                       [] outbox[m].status = "dead_letter" -> "buried"
                       [] OTHER -> outbox[m].status],
        attempts <- [m \in Messages |-> outbox[m].attempts]

\* Two processes, leases that run out under a batch, crashes, lost answers
\* and database errors: the outbox still keeps its promise (ADR 0033, outbox.rs).
Promised == P!PSpec

\* Whatever leases run out under it, crash beside it or fail to be recorded,
\* one life of a process does not send a message again to a channel that
\* acknowledged it: except where its memory was full and was emptied of that
\* channel, or it had told the whole audience of a message whose row another
\* process had by then (worker.rs, `done`).
RetriesOnlyTheFailed ==
    [][\A c \in Consumers, ch \in Channels :
          <<mem[c].cur, ch>> \in mem[c].told \ mem[c].forgotten => ~Sends(c, ch)]_nvars
=============================================================================
