# Verification of Tidegard

TLA+ models of this repository, the TLC configurations that check them on small
instances, and TLAPS proofs of what matters most. Every definition is translated from
the Rust source; `PROJECT.json` (`map`) names the lines behind each one, `mutants` the
plausible bug that makes each property fail, and `hazards` the places in the code that
the properties are about.

Paths below are relative to `src/`.

## 1. The system

Tidegard receives flow telemetry, detects volumetric attacks, turns detections into
incidents for operators, and announces BGP mitigations (RTBH, FlowSpec) under human
approval.

```
 exporters --UDP--> collector: decode -> normalise -> classify -> aggregate -> detect
                                                                     |          |
                                                         ClickHouse <-          | detection events
                                                                                v
                                          detection_event_inbox (PostgreSQL)
                                                                                |
 operators --HTTP--> API --> stores <--- incident manager (workers, timers) <---
 (web, CLI)                   |  |
                              |  `----> outbox --> notification worker --> e-mail, webhook
                              `-------> mitigator --> GoBGP --> routers
```

| component | state it keeps | operations | what makes it correct |
| --- | --- | --- | --- |
| safety guard (`crates/mitigation/src/guard.rs`, `prefix.rs`, `action.rs`) | a guard file, read at start | validate an action, verdict on a request | a permitted route touches only the asker's own, listed addresses |
| routes (`crates/mitigator/src/route.rs`) | none | NLRI and path of an action, reading a path back | a route names the mitigation it was built for, and no other |
| mitigation record (`crates/mitigation/src/mitigation.rs`, `state.rs`) | ten states, version, approver, dry_run, cause | request, propose, approve, reject, withdraw, announce, fail, expire | only legal moves, four eyes, nothing rewritten |
| mitigation store (`crates/incident-postgres/src/mitigation.rs`) | mitigations, history, kill switch, idempotency keys | the same, as transactions of concurrent connections | one live mitigation per key, retries create one, history = record |
| mitigator (`crates/mitigator`) | advisory lock, a work list, GoBGP's table | reconcile, pass, propose | GoBGP's table follows the store through crashes, lost answers and restarts |
| collector, IPFIX decoding (`crates/collector`, `crates/protocol-ipfix`) | a template cache per exporter, a bounded queue | datagrams, restarts, idle eviction | no data read with another life's template; caches within their limits |
| classifier, aggregator (`crates/classifier`, `crates/aggregator`) | prefix tries, bounded maps, tumbling windows | look up, record, expire | longest match; the most recent are kept; rates are those of the window |
| detector (`crates/detector`) | policy set, one state machine per scope, windows | load, cycle, swap of policies, sweep | the policy written applies; whole detections, timers kept, nothing open for ever |
| delivery (`crates/collector/src/detection.rs`, `crates/incident-postgres/src/producer.rs`, `crates/storage`) | event buffer, tenant queues, batches, retry queue | publish, drain, export tick, shutdown | nothing doubled, skipped or lost without a count |
| incident aggregate (`crates/incident`) | lifecycle, evidence, version, notes | correlate an event, timers, operator commands | evidence counted once, stale commands refused |
| incident store and inbox (`crates/incident-postgres`) | incidents, links, inbox, locks | claim, ingest, mark, sweep, command | the same, under reruns, deadlocks, leases and crashes |
| outbox, notifications (`crates/notification`) | outbox rows, leases, channels done | claim, vet, send, retry, dead-letter, purge | every message is settled, once, within its attempts |
| API (`apps/api`) | tokens, sessions, rate limits, idempotency records | middleware, sign-in, commands, lists | who may stays in, a lockout ends, a retry is one call, a walk misses nothing |
| CLI (`apps/cli`) | one command at a time | parse, confirm, send, retry | a retry repeats the same call |
| web, tools, common | | presentation, test traffic, shared types | |

`crates/configuration`, `crates/protocol-netflow` and `crates/protocol-sflow` hold a README
and no code.

Interactions. The collector and the incident manager meet only in the inbox table, the
manager and the notification worker only in the outbox, the API and the mitigator only
in the mitigation tables. All of it is at-least-once delivery between processes that
crash and restart, so what is hard is the same everywhere: state read before a
transaction and used in it, work lists read long before they are acted on, leases that
run out under a slow worker, calls whose answer is lost, and timers that must fire
although nothing arrives. PostgreSQL's row locks, partial unique indexes and Read
Committed isolation are part of the argument and part of the models.

## 2. Modules

| module | models | extends |
| --- | --- | --- |
| `Guard` | prefixes, actions, the guard file and its verdict, announcements and their reading back (pure operators) | |
| `GuardCheck` | loading a file, asking and answering | `Guard` |
| `Mitigation` | the record and its store, under API sessions and mitigator connections | `Guard` |
| `Mitigator` | mitigator processes over the store and GoBGP | `Mitigation` |
| `MitigationProofs` | theorems about `Mitigation` | `Mitigation` |
| `MitigatorProofs` | theorems about `Mitigator`, the refinement of `MSpec` among them | `Mitigator`, `MitigationProofs` |
| `Ipfix` | template cache, set-by-set decoding, normalisation, sampling (pure operators) | |
| `Collector` | routers, UDP, the two tasks, the exporter registry | `Ipfix` |
| `Traffic` | classifier, bounded maps, tumbling windows of the aggregator | |
| `Windows` | the detector's scopes, counters and snapshots | `Traffic` |
| `Policies` | policy documents, validation, precedence | `Windows` |
| `Detector` | evaluation, the state machine per scope, the engine's cycle | |
| `Events` | detection events, their keys, sinks and rows (pure operators) | |
| `Storage` | the ClickHouse writer: batch, retry queue, tick (pure operators) | |
| `Delivery` | publishing, drains, export tick, shutdown, crash | `Events`, `Storage` |
| `Incident` | the incident aggregate (operators on one row) | |
| `Incidents` | inbox, correlation workers, timers and operators over the incident store | `Incident` |
| `OutboxPromise` | abstract: what the outbox promises its writers | |
| `Outbox` | the outbox tables: claim, publish, fail, purge | |
| `Destination` | vetting of a destination's addresses (pure operators) | |
| `Notifier` | notifier processes over the outbox; implements `OutboxPromise` | `Outbox`, `Destination` |
| `RateLimit` | the GCRA limiter (pure operators) | |
| `Identity` | tokens, sessions, middleware, failed-authentication limit | `RateLimit` |
| `Tidegardctl` | command lines, confirmation, exit codes (pure operators) | |
| `Requests` | the bodies the client sends and the API takes (pure operators) | `Tidegardctl` |
| `Commands` | one command from the client to the record, with retries | `RateLimit`, `Requests` |
| `Listing` | pages of incidents and histories under concurrent writers | `RateLimit` |
| `IncidentsProofs`, `NotifierProofs`, `DetectorProofs`, `DeliveryProofs` | theorems about the module each is named after | that module |
| `ApiProofs` | theorems about sessions, commands and listings | `Identity`, `Commands`, `Listing` |
| `DecisionsProofs` | theorems about the guard, the classifier, the aggregator's maps and windows, the detector's windows, the policies and the collector's template caches | `GuardCheck`, `Policies`, `Collector` |
| `MC...` | the constants of the runs, and the runs that put several parts into one model | the modules they instantiate |

### Guard, GuardCheck

A prefix is a family, an address and a length; the number of address bits is a
constant, so that TLC can enumerate every prefix. `ValidAction` and `ValidConfig` are
what validation lets through, `Permits` is `Guard::check`, `Nlri`, `Announcement` and
`ReadBackKey` are the route, its path and its reading back of `route.rs`. Communities,
next hops and text forms are dropped; what reconciliation compares is kept. `GuardCheck`
loads a file (or refuses it) and answers requests, over all files of up to two entries.

### Mitigation

`rec` is the mitigations table, `history` the history table, `kill` the kill switch row,
`idem` the idempotency table, `pending` what a connection has read before it commits,
`reply` what a keyed request was answered. A command is one transaction that locks the
row and therefore one step, except when it depends on the kill switch: that is another
row, read without a lock, so `create`, `propose`, `approve` and `begin_announcing` are
two steps, and the switch may turn between them. A refused command changes nothing but
the audit trail and is no step. `Command` is `MitigationStore::change` (lock, permission,
transition) and `Change` its writes: the columns, one version up, and the history row.
Whether a duration has passed is the flag `due`, set by the clock once.

### Mitigator

A process is down, standby or at one of the places of `service.rs` between two database
calls or RPCs; its record holds exactly what it carries from one to the next (the kill
switch it read, the work list, the stale and missing routes). `rib` is GoBGP's table,
one path per NLRI. Every RPC may fail, fail after taking effect, or (`late`) take effect
after its caller gave up; a process may crash anywhere; the connection that holds the
advisory lock may drop without the process noticing; gobgpd may restart empty.
GoBGP and the advisory lock are external and modelled from how the code uses them.
`Mitigator` keeps every variable of `Mitigation`, and its specification implies
`MSpec`: no process changes the store in a way the store's specification forbids.

### Ipfix, Collector

A message is a sequence of sets and a template a sequence of elements, each one word
long, so field lengths are gone and everything that depends on the *order* of fields and
sets is kept: redefinition, withdrawal of one and of all, the two limits, a message that
breaks off after its first sets were cached, and options data that announces a sampling
rate. Templates and sets are taken one after the other, as the code's loops do. In `Collector`
routers (external) restart, count from zero and give template 256
another layout; datagrams get lost; `receive_loop` and `process_datagram` are the two
tasks around the bounded queue. A record carries what its router *meant* by each word;
`misread` remembers whether any was ever read as something else, or scaled by a rate the router
had not announced in that life (`heard.rates`). One of the router's messages redefines a template
and breaks off in a later set: what came before stays cached.

### Traffic, Windows, Policies

An address is its family and its bits. `Traffic` has the prefix registry, direction and
owner of a flow, the bounded maps with their eviction and expiry, and the tumbling windows;
`Windows` the detector's own counters beside them, from a flow (`stage_ingest`) to the snapshots
of a closed window (`tick`).
The reference of `RatesAreOfTheirWindow` is a history of the flows themselves: counters
and snapshots must equal a sum over it. `Policies` takes a document through parsing of
durations and thresholds, defaults, every refusal of `config.rs`, and gives the winner of
a scope by the code's weighted specificity. The reference is a definition by single
addresses and by the order the comments of `specificity` give (`Ladder`): tenant, target,
family, priority, id. The list at the head of `precedence.rs` is another (section 7).

### Detector

Only differences of instants matter to the code, so an instant is kept as its age, which
stops counting at `Horizon`, past every timer. A tick closes the windows, evaluates each
scope with a snapshot (`todo`) and sweeps; between ticks a snapshot may be delivered
again or late (`Redeliver`), and the policy document may be swapped. `heard` is an
observer of the events, `seen` an observer of the snapshots applied; neither influences
the machine.

### Events, Storage, Delivery

An event is its identifying columns; a dedup key is the tuple of what the code hashes.
`emit` offers an event to the ClickHouse buffer (oldest dropped) and to its tenant's
queue (newest refused). A drain is a task with a statement in flight while the queue goes
on filling; the statement may succeed, fail, or succeed with its answer lost.
`Storage`'s `tick` is one step of the collector's loop, as in the code, and answers of
ClickHouse are chosen per insert; what is due is taken from the retry queue as a whole and then
tried batch by batch (`retry_due`). `Shutdown`, `AwaitDrain`, `Exit` and `Restart` are the graceful stop with
its grace period, and the crash.

### Incident, Incidents

A call (ingest an event, create by hand, an operator's command, a timer) is one Read
Committed transaction. Its decision time is the start of the transaction (Postgres'
`now()`), so a call that waits for a lock decides with an old clock: the age of that
instant is `call[p].now`, bounded by `MaxLag`. Each statement is a step: look up the active
incident of the key under `FOR UPDATE`, lock the allocator, look for a candidate to reopen;
the writes and the commit are one step. `TakeRow` re-evaluates the query's condition after
waiting, as Read Committed does, and refuses a row that `reconstitute.rs` rejects. A call
that hits a unique index or is a deadlock's victim is rerun from a fresh load, at most
`Reruns` times. The inbox has leases, attempts and dead letters; a lease that runs out under
a living worker, a crash and a failing statement are `Disturb`ances, bounded together with
the operators' commands. The three sweeps of a maintenance pass are taken in any order,
and their LIMITs are larger than the number of incidents.

### OutboxPromise, Outbox, Destination, Notifier

`OutboxPromise` is the contract of ADR 0033 and ADR 0045: a message waits until it is
published or buried, once; it is published only after something became of it on every
channel of its audience; it fails at most `MaxAttempts` times; and it is settled in the
end. `Notifier` is the implementation: processes claim batches under leases, work out the
channels from the routes, vet the destination again before every connection, apply dedup
and rate limit, take the channels in the order the routes name them, remember the channels done, and
mark the outcome. What a process remembers dies with it, and is emptied when it holds
`REMEMBERED_MESSAGES` messages (10,000 in the code). The histories `told` and `forgotten` are
what channels acknowledged to a life of the process, and what of it the life no longer knows:
because its memory was full, or because it finished with a message whose row another process
had by then. `RetriesOnlyTheFailed` is about the rest. An address is public or private in
`Destination`: `vet` decides what may come of a channel, and nothing is claimed about the
ranges themselves.
`Promised` is the refinement, with the status and attempts columns mapped to the abstract
ones and the liveness of the contract included.

### RateLimit, Identity, Tidegardctl, Requests, Commands, Listing

A request to the API is handled by a task that suspends at every statement, so the
middleware of `auth.rs` is several steps (`Identity`), with the time it captured and the
limiter it looked at possibly stale. `Commands` follows one command line through
`tidegardctl`'s parsing, confirmation and lookups, its attempts with one body and one
Idempotency-Key, and each attempt's own transaction, answer and re-read at the server; an
attempt the client gave up on goes on. `Requests` gives the fields of every request type
and `fingerprint` what is compared on a retry. `Listing` is a reader with nothing but a cursor,
among writers whose history rows get ids before they commit; a page is stated by ranks, which is
what `ORDER BY ... LIMIT` promises, and one row more is fetched to tell whether more follow.

## 3. What the runs check

| run | instance | shows |
| --- | --- | --- |
| `decisions` | four parts that share nothing, each in behaviours of its own: the guard with 2-bit IPv4 and 1-bit IPv6, every file of at most two entries and every valid request; the classifier with every list of at most two prefixes, maps of one or two entries, windows of one and two ticks; documents of two policies or of one with a fault; a router with two domains and a stranger, two lives, four datagrams, two losses | `OnlyOwnTraffic`: every address a permitted route touches is the asker's and nobody else's, and the route is no wider than the built-in floor. `MostRecentAreKept`, `RatesAreOfTheirWindow`: maps, rates and snapshots against the flows themselves. `PoliciesApplyAsWritten`: what is loaded is what was written, and the winner is the first by tenant, target, family, priority and id, not by what weights happen to add up to. `CacheAccounted`, `RestartShownIsHeeded`: the caches' books balance, and a restart that has shown leaves no template and no sampling rate behind |
| `lifecycle` | one mitigation, three requests (one outside the allowlist), two people, two sessions that race for one idempotency key; then (`RacesComeFirst`) one session and two mitigator processes, the lock connection may drop, a late AddPath, one fault | `FourEyes`, `HistoryIsTheRecord`, `WrittenOnce`; `RouteIsApproved` even when two processes act |
| `routes` | two mitigations, proposals from two incidents, one process, live or dry-run at each start, one fault anywhere | `RouteHasCause`, `ActiveHasItsRoute`, `OneLivePerKey`, and the refinement `MSpec` |
| `liveness` | two mitigations, one fault, late AddPath, two turns of the switch | `EveryMitigationEnds`, `SwitchDrains`, `StaleRoutesGo`, `LostRoutesReturn` |
| `detector` | two scopes and room for one, two metrics (one of them may be absent), three policy documents, snapshots late by one or repeated | `EventsAreDetections`, `TrackedUnderItsWinner`, `OpensInTime`, `ClosesInTime`, `DetectionsEnd` |
| `delivery` | two tenants with one scope each, either sink, a buffer of one, queues of two, two tables, failed and lost answers, two lives of the collector | `InboxInOrder`, `RowsAccounted`, `LossIsReported`, `BacklogDrains` |
| `incidents` | two workers, one maintainer, one operator, one target, two events out of four (started, ended, a second detection that is critical, unreadable), one disturbance, transactions that stay open for one tick | `LedgerMatchesLinks`, `ProcessedIsLinked`, `VersionProtects`, `TimersActWhenDue` |
| `settling` | two workers, one maintainer, two events out of three, one disturbance | `EventsSettle`, `IncidentsSettle` |
| `notifications` | two notifier processes, one message to two channels (one of them vetted), a memory for one message (so the second channel done empties it), two attempts, two faults of any kind | `Promised`: the notifier implements `OutboxPromise`. `RetriesOnlyTheFailed`: a channel that acknowledged a message and is not forgotten is not sent it again, also when leases run out under a batch and answers are lost |
| `api` | four scenes that share nothing: callers of a session and failing callers of two sources; one command line of each shape through up to three attempts; walks through three incidents; walks through a history with two writers | `InUseStaysIn`, `LockoutEnds`, `RetriedCallIsOneCall`, `WalkIsComplete` |
| `shared_nlri` | a discard and a rate limit of the same match | violated: see below |
| `suppress_retry` | a suppress call whose answer is lost | violated: see below |

Parts that share no state are checked in one run where they fit together
(`MCDecisions`, `MCApi`): a behaviour plays one part while the variables of the others
stand still, so nothing is interleaved that the program does not interleave, and nothing
is left out that it does.

`TypeOK`, `ProcTypeOK`, `DetectorTypeOK` and `IncidentsTypeOK` state the types of the
variables for the reader; they and `KeyedOnce` are proved (section 5) and no run repeats them.

Why the bounds are enough. The races in this code are between two parties (two requests
on one key, a pass and an operator, a slow worker and its successor, a drain and its
producer, a reader and a writer) over one or two rows, so two of each let every one of them
happen; one fault lets a crash or a lost answer fall between any two steps, and two are used
where the second hits the recovery of the first (`notifications`). Limits (maps, queues,
caches, batches, exporters) are one or two, so that they are reached. Address spaces of two
bits have nested, equal and disjoint prefixes. Timers of one to three ticks with `Horizon` 5
keep all of the detector's timers apart. `BATCH` is never reached (see section 7). In
`incidents`, N = 3 is `MaxEvents + MaxDisturbances`, as many incidents as can arise (assumed
in the module). `MaxSwitch`, `MaxFaults`, `MaxDisturbances`, `MaxEvents`, `MaxSends`,
`MaxLives`, `MaxLosses`, `MaxInFlight`, `MaxTime`, `MaxFlows`, `MaxInstances`,
`MaxRequests`, `MaxClock`, `MaxElsewhere`, `MaxMoment`, `MaxEntries` (of `Listing`) and
`Sequences` are the bounds that are not the code's; each is a guard of the actions it
bounds. Workers are interchangeable in `incidents`, sessions and processes in `lifecycle`;
neither has a liveness property, so their symmetry is used there. In `lifecycle` the action
constraint `RacesComeFirst` lets the two sessions race before any process runs and keeps to
one session afterwards: the races of requests are over the key and the unique index alone,
and the processes' races are with any one session. `decisions`, `detector`, `delivery`,
`notifications` and `api` stop when their bounds are used up and therefore do not ask about
deadlock; what must go on is stated as liveness.

### Disagreements the runs show

- `shared_nlri`. A discard and a rate limit of one match have different keys, so both may
  be live, but FlowSpec's NLRI is the match alone: the second announcement replaces the
  first one's route, and either's withdrawal removes it.
- `suppress_retry`. `tidegardctl` and the API promise that a retry with the same key and
  body is replayed. The handler of suppress (`apps/api/src/transitions.rs:432`) puts the time
  that remains until `expires_at` into the command, and the command's serialisation is the
  fingerprint, so a retry a moment later is refused as a reuse of the key although the
  first attempt was applied.

## 4. Fairness

- `Mitigator`: strong fairness for a process's next step, since a command that waits for a row
  lock is in PostgreSQL's queue and is served; weak fairness for its timer (a tokio
  interval), for the end of a session's transaction and for a late AddPath. Nothing is
  assumed of operators, faults or restarts of gobgpd.
- `Detector`: weak fairness of the tick; the collector's loop ticks once a second.
- `Delivery`: weak fairness for a drain task's steps and the end of its sleep, strong for a
  write that is tried again and again (the database comes back).
- `Incidents`: strong fairness for taking a lock (queued likewise), weak for committing, for
  PostgreSQL's deadlock detector, for the loops of workers and maintainer, for a backoff or
  a dead worker's lease running out, and for the clock.
- `Notifier`: weak fairness for each process's next step (a failed send is a step too), for
  leases that expire and for backoffs that end. The contract's own liveness (`Settle`)
  follows from it by TLC.

## 5. What is proved

TLAPS checks every proof below. Each holds for every value of the constants the assumptions
allow, so for any number of rows, processes, people, messages, scopes or flows and any
number of faults; the counters that bound the runs are arbitrary numbers in the proofs.

| module | theorem | states |
| --- | --- | --- |
| `MitigationProofs` | `TypeCorrect` | `MSpec => []TypeOK` |
| | `OneLivePerKeyHolds` | `MSpec => []OneLivePerKey` |
| | `WrittenOnceHolds` | `MSpec => WrittenOnce` |
| | `HistoryIsTheRecordHolds` | `MSpec => []HistoryIsTheRecord` |
| | `FourEyesHolds` | `MSpec => []FourEyes` |
| | `KeyedOnceHolds` | `MSpec => []KeyedOnce` |
| `MitigatorProofs` | `ProcTypeCorrect` | `Spec => [](TypeOK /\ ProcTypeOK)` |
| | `MitigatorImplementsStore` | `Spec => MSpec` |
| | `StorePromises` | the five properties of the store, of `Spec` |
| | `RouteIsApprovedHolds` | `Spec => []RouteIsApproved` |
| | `RouteHasCauseHolds` | `Spec => [](~LockMayDrop /\ ~LateAdds => RouteHasCause)` |
| | `ActiveHasItsRouteHolds` | `Spec => [](Distinct => ActiveHasItsRoute)` |
| `IncidentsProofs` | `StoreSound`, `IncidentsTypeCorrect` | `Spec => []Sound`, `Spec => []IncidentsTypeOK` |
| | `ProcessedIsLinkedHolds` | `Spec => []ProcessedIsLinked` |
| | `LedgerMatchesLinksHolds` | `Spec => []LedgerMatchesLinks` |
| | `VersionProtectsHolds` | `Spec => VersionProtects` |
| | `TimersActWhenDueHolds` | `Spec => TimersActWhenDue` |
| `NotifierProofs` | `NotifierTypeCorrect`, `NotifierAccounts` | types, and what each process has accounted for |
| | `RetriesOnlyTheFailedHolds` | `NotifierSpec => RetriesOnlyTheFailed` |
| | `OutboxPromiseKept` | `NotifierSpec => P!PSafety` |
| `DetectorProofs` | `DetectorInvHolds`, `DetectorTypeCorrect` | `DSpec => []DetectorInv`, `DSpec => []DetectorTypeOK` |
| | `TrackedUnderItsWinnerHolds` | `DSpec => []TrackedUnderItsWinner` |
| | `EventsAreDetectionsHolds` | `DSpec => [](Prompt => EventsAreDetections)` |
| | `OpensInTimeHolds`, `ClosesInTimeHolds` | `DSpec => OpensInTime`, `DSpec => ClosesInTime` |
| `DeliveryProofs` | `DeliveryInductive` | `DeliverySpec => []DeliveryInv` |
| | `InboxIsInOrder` | `DeliverySpec => []InboxInOrder` |
| | `EveryLossIsReported` | `DeliverySpec => []LossIsReported` |
| | `EveryRowIsAccounted` | `DeliverySpec => []RowsAccounted` |
| `ApiProofs` | `IdentityInvHolds` | `IdentitySpec => []IdentityInv` |
| | `InUseStaysInHolds`, `LockoutEndsHolds` | `IdentitySpec => []InUseStaysIn`, `IdentitySpec => []LockoutEnds` |
| | `CallInvHolds` | `CommandsSpec => []CallInv` |
| | `RetriedCallIsOneCallHolds` | `CommandsSpec => []RetriedCallIsOneCall` |
| | `ListingIsComplete` | `ListingSpec => []WalkIsComplete` |
| `DecisionsProofs` | `GuardInvHolds`, `OnlyOwnTrafficHolds` | `GCSpec => []GuardInv`, `GCSpec => []OnlyOwnTraffic` |
| | `RoutesReadBack` | the path of a valid action reads back as its key |
| | `MostRecentAreKeptHolds` | `TrafficSpec => []MostRecentAreKept` |
| | `RateIsOfTheLastWindowHolds` | `TrafficSpec => []RateIsOfTheLastWindow`, the aggregator's half of `RatesAreOfTheirWindow` |
| | `OwnerIsLongestMatch` | `TrafficSpec => []OwnedByLongestMatch` |
| | `RatesAreOfTheirWindowHolds` | `WindowsSpec => []RatesAreOfTheirWindow` |
| | `PoliciesApply` | `PoliciesSpec => []PoliciesApplyAsWritten` |
| | `CacheIsAccounted` | `CollectorSpec => []CacheAccounted` |
| | `RestartIsHeeded` | `CollectorSpec => []RestartShownIsHeeded` |

Assumptions. They are named in the module that declares the constants, and TLC evaluates them
in every run of it. They say that numbers are numbers, that `None` is no value, that the sets
of processes are disjoint, and that what the constants hold has passed the validation the code
applies to it (`AsksAssumption`, `ConfigsAssumption`, `FileAssumption`, `PoliciesAssumption`,
`GuardCheckAssumption`): policies of one document have different ids, the files and requests are
about prefixes of the family's width. `ListingAssumption` says that a query's limit is a number or
absent and that a cursor is not taken for its absence; `CollectorAssumption` that a router means
what it sends: with the templates it announces in a life, the data it sends in that life reads as
meant, and a sampling interval in it is the message's rate; `DocumentsAssumption` and
`ListsAssumption` are what deserialisation lets through (a policy has its fields, a prefix is of a
family), before any validation, `FlowsAssumption` that a flow's ends are addresses and its counts
numbers, and `UnitsAssumption` that units and suffixes have sizes that fit
what they are multiplied into, with `ms` and the empty suffix of size one. Nothing is assumed of the order in
which messages arrive or restarts happen. `MAX_ATTEMPTS` and the batch sizes are positive, as in
the code. Three theorems carry a condition of their own, because the property is false without it:

- `RouteHasCause` needs that a process keeps the lock it took and that no AddPath takes effect
  after its caller gave it up; with either, a second mitigator can put back what the first one
  removed. `routes` is the instance with both switched off, `lifecycle` with both on.
- `ActiveHasItsRoute` needs `Distinct`: no two requests share an NLRI without sharing a key, which
  `shared_nlri` shows the code does not ensure, and `N <= BATCH`, since a pass looks at no more
  (section 7). The property itself speaks of the time before the first fault.
- `EventsAreDetections` needs `Prompt`: no snapshot is late by as much as some policy's
  trigger time. The collector hands its own windows over at once; with `MaxLag` and a trigger
  time both two, TLC finds a scope that was swept and opens again at an instant before its end.

### The arguments

*Mitigation.* `TypeOK` is inductive because it says which columns each state has (`Shape`):
`ChangeOK` shows that one `Change` keeps the shape if the new row has it, `CommandOK` and the
lemmas after it discharge the shapes of each command, and `TypeStep` goes through the actions.
`Effects` then classifies every step once, for each mitigation: it leaves the row and its
history alone, creates the row, moves it by a legal command, or only sets `due`. The other
theorems follow from that classification instead of from the actions. `HistoryIsTheRecord` is
split per mitigation (`Tells`) with the chain of rows (`Chained`) extended by `ChainExtends`.
`FourEyes` is not inductive: it speaks of rows of history, while the guard of an announcement
looks at the record. The strengthening `EyesOn` adds that a record in `approved` already has its
approval row and that the first row names the requester. `OneLivePerKey` follows since only a
creation makes a row live, and `insert` (V19's partial unique index) refuses a taken key.
`KeyedOnce` speaks of answers alone and is strengthened by what the idempotency table says of
the mitigations (`KeyNamesIt`) and by the fact that every success told is the one the table
names (`ToldByKey`).

*Mitigator.* `Simulates` takes every action of a process to a step of `MNext` or to none, with
the types of what the process carries (`ProcOK`); `MSpec`, and with it everything proved of the
store, follows. For the routes, what a process read is compared with what the store says now.
`RoutesGrounded` (behind `RouteIsApproved`) says that a record whose `dry_run` was decided has an
approver, that what a process is about to announce is such a record, and that every path in
GoBGP or on its way belongs to one; approval is written once, so a stale work list does no harm.
`RoutesCaused` says, while there is one holder of the lock, which states the records on a work
list can have moved to meanwhile. `RoutesKept` says that no process takes the route of an active
mitigation for a stale one.

*Incidents.* The invariant `Sound` says for every call in progress what it is about (`Role`,
`Subject`), which row it has aimed at and holds (`Aims`, `Holds`), and what it has read of that
row (`Reads`, `Looks`): as long as it holds the row nobody else changes it, which is what makes a
decision on loaded state safe. With it a change of an incident is one of a few (`Changes`), and
`LedgerMatchesLinks` needs to be looked at only where an event is linked. `VersionProtects` and
`TimersActWhenDue` are about the step in which a call writes; both rest on `Holds`.

*Notifier.* `KeepsAccounts` says that what a process takes for done has an outcome in `accounted`,
whoever processed the message before; marking a message published then needs no more than the
process's own memory, and `OutboxPromiseKept` is a step simulation with the mapping of the run.
`RetriesOnlyTheFailed` is about the step that sends; it follows from `Remembers`, which holds for
every process (`TellsOnce`): what a channel acknowledged and the process did not have to forget is
done, or its message is settled and in no batch of the process. A claim keeps it because what is
claimed is open, marking because a row the process still held is settled by it, a delivery
because what it drops from a full memory it counts as forgotten. Nothing is asked of leases or
answers, so it covers the slow batch whose row another process has claimed.

*Detector.* `ScopeSound` relates, for one scope, the state, its timers, the observer of
snapshots (`InStep`) and the observer of events (`Follows`, `Orderly`); the policy behind it is
the winner for the scope (`UnderItsWinner`), and `SomeoneWins` shows that there is one.

*Identity.* `SeenInTime`: what a session's row says it was last seen at is at most one touch
interval before its last use. `FailuresBounded`: a source's
limiter is never further ahead than its tolerance and one interval after the latest failure, in
whatever order failures that passed `peek` together are counted.

*Commands.* `CallInv` says of every attempt what it can still do: with a record under the key it
can only replay, and with a version it can only fail once the version has moved; versions grow.
So the effects are counted by the record or by the version, not by the attempts.

*Listing.* A page is the rows of its query by rank: the n-th row is the one with n - 1 rows before
it. `ListedUpTo` says that, of the rows that did not move since the walk began, those up to the
cursor are listed once and those after it not yet; a page moves the cursor over exactly the rows it
lists. For a history this is not enough, since rows appear while the walk goes on: `HistoryInOrder`
says that whoever holds the incident's lock writes the latest ids, so that no row appears behind a
cursor, and `NoGap` that every row behind the last one listed is listed.

*Delivery.* The queue of a tenant is the end of what it accepted and the inbox the beginning, and
they meet or overlap (`Ordered`): a write whose answer was lost leaves an overlap, and its repetition
adds nothing, because no two accepted events have one key (`Distinct`). That rests on `KeysPast`:
a detection is named by the process, the scope and its start, its events by their sequence, and
everything that may still be named lies in the future. `DrainsCount` and `ReportCounts` relate what
a drain counted to what its queue holds, through every end of a drain. For the rows of ClickHouse,
`Flows` says of one pipeline that its batches (waiting, due, being tried, and the one in the making)
have no row in common, that a row that was never sent is not stored, and that a row was stored at
most as often as its batch was tried; it is carried through every attempt of a tick (`RetryLoop`)
and through `requeue_after_failure`, which counts what it drops. A row that joins a batch is new
(`TotalPast`, `EventsPast`), by the keys again.

*Collector.* `Accounted` says that a cache's count of fields is the number of fields of its
templates, which a redefinition changes by the difference and a withdrawal by its own share
(`Others`); it holds after every set of a message, also of one that breaks off. `Heeded` says that
the templates and the sampling rate of a cache are of the life heard last once the restart has
shown; decoding such a message with such a cache reads every word as it was meant
(`DecodeOfLife`), so `misread` stays false.

*Guard.* Masking an address twice is masking it with the shorter length (`MaskShorter`), hence two
prefixes that share an address are nested (`SharedIsNested`); a valid file gives nested entries to
one tenant, and a permitted prefix lies in an entry of the asker's.

*Traffic.* `KeepsRecent`: a map's `last_updated` is when its key was last seen, and nothing
outside the map was seen later than anything inside; an eviction takes a least recent key and an
expiry takes exactly the old ones. `WindowOK`: a window has counted what arrived since its start,
and nothing has arrived after its end, so the windows a silence spans are empty. For the
classifier, `Entered` says after each round of `build_registry` that the entries of the trie are the
prefixes read so far, each under its own bits, and `Deepest` after each bit of `lookup` that the walk
holds the deepest entry on the address's path; the deepest entry is the longest prefix.

*Windows.* `CountersOK` says of the window in progress what `SnapshotsAreTheWindow` says of a closed
one: a map holds no more of a scope than the flows of the window that belong to it (`Amount`,
`Carried`), and, as long as nothing was evicted, all of it, for every scope with a flow (`Accounts`).
It needs the registry to be that of the list (`ListOK`): then a flow belongs to a scope by the
configured list just if `count` finds that scope for one of its ends (`ScopeOfFlow`), and no key is
counted for both, since they differ in direction. A flow adds the same to the counter and to the
sum (`AccumulateAccounts`, `TotalGrows`); a tick divides, and the quotient is within one of the rate
(`RateBounds`). A step of the windows is one of `Traffic` or leaves its variables alone
(`TrafficGoesOn`), so what is proved of `TrafficSpec` holds here.

*Policies.* `Compiles` says what a document that was not refused was compiled to (`CompiledTo`):
drafts that passed validation, with different ids. The order then follows from the numbers: a
candidate that names its target has a rank of 50 to 900, two candidates of one scope that name theirs
have the same rank (`SameRung`), so a sum with steps of 1 and 1,000,000 around it orders as `Ladder`
does (`BetterIsAbove`), and of finitely many candidates one is before all others (`OneIsBest`). For
the round trip, the unit `render_duration` picks divides the duration, and what it wrote is read back
without overflow (`DurationReadsBack`); field by field this gives the same policy
(`PolicyReadsBack`), in whatever order the set is written (`Enumerated`, `LoadsBack`). Ownership is
`covers` read bit by bit (`StaysWithinTenant`).

Statements about every number (the laws of `PowerOfTwo`, a recursive function; the largest of some
moments) are shown by way of a least counterexample (`LeastNumber`, `TablesExist`), since the
provers cannot instantiate the library's induction theorems.

### Only model-checked

- All liveness: `EveryMitigationEnds`, `SwitchDrains`, `StaleRoutesGo`, `LostRoutesReturn`,
  `DetectionsEnd`, `BacklogDrains`, `EventsSettle`, `IncidentsSettle`, and `Settle` of the outbox contract
  (`Promised` is `PSafety` and that). Fairness and `ENABLED` are out of the prover's reach.

## 6. What is not modelled

- Web UI, tools, common helpers, and the API's traffic queries, OpenAPI document, assets
  and TLS: presentation, shared types and I/O around an external service. Configuration files
  are modelled where they decide something (guard, policies, notification file); their other
  values are constants.
- Field lengths and variable-length encodings inside an IPFIX record; reordered
  datagrams (the collector takes one for a restart, which is modelled); three of the
  aggregator's eleven maps stand for all; two of the nine ClickHouse tables stand for all.
- Rendering, signatures and headers of notifications; SMTP and HTTP as protocols; how a URL is
  parsed, which address ranges are public (`destination.rs`, `Target::parse`, `is_public`), and
  the spelling of channel names (`config.rs:211-220`).
- `Traffic` has one map of hosts with one limit where the aggregator has one for each family
  (`aggregator.rs:77-78`), and counters are unbounded where the code saturates at 2^64
  (`counters.rs:34`, `window.rs:457-470`).
- In `Delivery`, an event of a tenant without a producer (`producer.rs:247`: refused and counted,
  it reaches no queue) and a drain task that panics (`incident_inbox.rs:174`: logged, and its
  events missing from the report).
- A candidate for reopening that no longer qualifies once its row lock is granted: PostgreSQL goes
  on to the statement's next row (`sql.rs:318`), the model to none, that is to a new incident.
- Errors no operation reaches: `ClockSkew` comes from the ingest and timer paths alone, never from
  `apply_command`, so no operator command has it recorded under its key; and `principal_from`
  cannot fail after a session's touch, since the schema admits only the actor types and roles it
  parses (`V15__api_tokens.sql:28-30`).
- In the modelled parts: `check_peers`/`record_peers` (display), texts (reasons, titles,
  categories, notes), tags, assignments and suppression inside the incident aggregate
  (the commands are in `Commands`, where their keys and versions are), timeline and audit rows
  except as rows of `Listing`, incident retention, incident permissions inside `Incidents`;
  peaks and labels of detections. `StateTable::manual_reset` and `abort_recovery` have no
  caller.

## 7. Observations without a run of their own

Found while translating or exploring; each is in the model unless it says otherwise.

Mitigations
- The kill switch. `create` reads it before its transaction
  (`crates/incident-postgres/src/mitigation.rs:438`), `approve` and `begin_announcing`
  without a lock, so each can commit after it was engaged, while ADR 0049 (83-85) says a
  request that races the switch loses. `SwitchDrains` shows what remains true: a switch
  that stays on empties GoBGP.
- Dry-run. A mitigator in dry-run "announces nothing" (`crates/mitigator/src/service.rs:17`,
  ADR 0049:36-38), but whether to send is taken from the record's `dry_run`, written
  under the file in force when announcing began (`service.rs:201`, `:388`): a process restarted in dry-run with BGP
  enabled finishes or restores live announcements.
- The lock's connection is never checked again (`crates/mitigator/src/lib.rs:91`): two
  processes may act. `lifecycle` shows what holds even so.
- A keyed retry is guard-checked before its key is looked up, so a retry may be refused
  what was granted; refusals are not recorded under the key.
- With BGP switched off after a live run, `take_down` fails for ever.
- A pass and a reconciliation see the 500 oldest live mitigations only
  (`mitigation.rs:1100`); routes of newer ones would be taken for stale. Not modelled: the
  work lists of the model are not cut off.

Collector, traffic, policies
- A wraparound of the sequence number, or a datagram that overtakes another, is taken for a
  restart (`crates/collector/src/exporter.rs:62`) and clears the announced sampling rate
  with the templates (`template_cache.rs:127`): after the next template refresh flows are
  counted at the configured rate until the next options record. The comment at `exporter.rs:50`
  calls the consequence "safe, not silent data corruption".
- The rates for `tcpSynBps`, `fragmentedBps` and `droppedBps` are always zero
  (`crates/detector/src/window.rs`, `snapshot`), so a threshold on them never triggers,
  although `docs/architecture/detection-engine.md:109` lists them.
- Precedence. The ladder at the head of `crates/detector/src/precedence.rs` (10-16) has "an
  explicit host policy" first and "the tenant's default" fourth, whoever's policies they are.
  `specificity` (`policy.rs:312-319`) puts any policy that names its tenant above every wildcard
  policy, and says so in its comment: a tenant's `any` default wins over the wildcard tenant's
  policy for that very host. TLC finds it with two policies when the rungs of that list are
  compared; `docs/architecture/detection-engine.md:122-125` can be read either way.
  `PoliciesApplyAsWritten` follows the comment at the code.
- A network selector with host bits set, or one that is not a configured local prefix, and a
  policy with direction internal or other are accepted and can never match a scope. A
  tenant entry with an empty prefix list does not turn the ownership check on.

Delivery
- A drain still writing when its grace runs out is left out of the shutdown report
  (`crates/collector/src/incident_inbox.rs:167`): `LossIsReported` is stated for stops in
  which every drain finished. ClickHouse buffers are not flushed at shutdown.
- `ClickHouseEventSink::dropped` is exported nowhere; the retry backoff starts at twice its
  initial value; "drop oldest" drops the front of the retry queue, which is not the oldest
  after a requeue; `written_total` undercounts after a lost answer.

Detector
- `PendingTrigger` is confirmed by the time in the state; a window without traffic yields no
  snapshot. Two one-window spikes with silence between them open a detection
  (`crates/detector/src/state.rs:733`), where the documentation asks for the trigger
  threshold "continuously". `OpensInTime` states what holds: every snapshot was over.
- A swept scope forgets its cooldown, and a restart forgets everything; a detection clears
  when the field behind its metric is no longer reported.

Incidents
- A backdated row. `link_event` (`crates/incident/src/unit_of_work.rs:945`) writes the
  transaction's start as `last_updated_at`, which may precede the `opened_at` another call
  committed meanwhile; `reconstitute.rs:352` then refuses the row on every later load,
  although `reconstitute.rs:60-66` says it does not reject what the domain itself wrote.
  TLC finds it with two workers and two events. `IncidentsSettle` is therefore stated for
  readable incidents.
- A resolution note is added without the cap check (`unit_of_work.rs:1483`, `limits.rs:1-2`).
- `abort_recovery` (`unit_of_work.rs:1303`) has no caller, although the state machine's
  document has a qualifying event abort a recovery.
- The host-group partial index omits the address family: events of the second family of an
  active host group are rerun, fail and are dead-lettered. `SlotOf` is the parameter for it.
- An end processed before its start is quarantined and lost; an event may be dead-lettered and
  nevertheless linked (a slow worker past its lease); a reopened incident keeps its old
  `last_detected_at` and is soon swept into recovery.

Notifications
- An incident that cannot be read back ends the batch with `?`
  (`crates/notification/src/worker.rs:256`) before an attempt is counted: the message is
  claimed again for ever and those behind it in its batches starve, where ADR 0033:112 has it
  dead-lettered rather than "retrying indefinitely". `Promised` is checked for incidents that
  read back.
- "Channels that already succeeded for that message are not sent again while the process runs"
  (ADR 0045:74-75), but `done.clear()` (`worker.rs:469-471`) forgets every message when 10,000 are
  remembered: at the next retry of one of them its channels are sent it again, unless the dedup
  window (300 s by default) still covers them. The default backoffs of ten attempts add up to 511 s.
  The other way is a batch slower than its lease: what was told of a message that another
  process claimed meanwhile is dropped with `done.remove` although the row was not marked
  (`mark_published`'s answer is not looked at, `worker.rs:258-262`). `RetriesOnlyTheFailed`
  excepts these two and nothing else; without the exceptions TLC finds a counterexample.

API and CLI
- Approving, rejecting, withdrawing and the kill switch ignore the client's
  Idempotency-Key, so a retry after a lost answer reports a version conflict although it was
  applied, and a late attempt can engage the switch again after it was released. An export
  carries no key: a retried one is audited twice.
- Concurrent attempts of one mitigation request can answer "duplicate"; a 401 or 429 on a
  retry can be reported although an earlier attempt commits later.
- `check`'s Saturated answer is ignored for failed authentication; session audit `record`
  failures are lost. A traffic summary over an unaligned range can give one point more than
  `apps/api/src/traffic.rs:30` allows (not modelled).

## 8. Plan

Done, in this order: `Guard`, `Mitigation` and its proofs, `Mitigator` (composition and
refinement), `Detector`, `Incident`/`Incidents`; then the notifier with its abstract
specification, the collector with IPFIX, classifier, aggregator, windows and policies,
delivery with storage, and the API with the command line.

Proved since: the mitigator's refinement and its routes, the incident store, the notifier's
safety, the detector, the API's sessions, commands and listings, the guard, the classifier, the
aggregator, the detector's windows, the policies, the delivery of events and rows, and the
collector's caches.

Next
1. Work lists cut off at `BATCH`, and two address families in `Incidents`.
2. Delivery, `Incidents` and `Notifier` as one composition through the inbox and the outbox.
