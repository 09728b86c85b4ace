------------------------------ MODULE Delivery ------------------------------
(***************************************************************************)
(* How the collector delivers detection events: the engine publishes each  *)
(* one to the ClickHouse event buffer and to its tenant's inbox producer   *)
(* (crates/incident-postgres/src/producer.rs), the export tick moves the   *)
(* buffer into the ClickHouse writers (Storage), and one drain task per    *)
(* tenant writes its queue into the detection-event inbox of PostgreSQL,   *)
(* with retries, a closing flush at shutdown and a grace period.           *)
(*                                                                         *)
(* Interleaving: the collector's loop is one task, so a publish and an     *)
(* export tick are single steps; the drains are tasks of their own and     *)
(* suspend while a statement is in flight.  A crash may come at any time.  *)
(***************************************************************************)
EXTENDS Events, Storage

CONSTANTS
    None,
    Configurations,       \* the sets of sinks the collector may be configured with
    EventBuffer,          \* DetectionStageConfig.event_buffer
    QueueCapacity, BatchSize, FinalAttempts,    \* ProducerPolicy
    MaxTime, MaxEvents, MaxInstances             \* bounds of the model, the first two
                                                 \* for each configuration

ASSUME DeliveryAssumption ==
    {EventBuffer, QueueCapacity, BatchSize, FinalAttempts} \subseteq Nat

Tenants == {TenantOf[s] : s \in Scopes}

Tables == {"total_traffic", "detection_events"}

VARIABLES
    sinks,      \* the configured sinks: config.clickhouse, config.incident_database
    now,        \* the collector's clock
    phase,      \* "running", "stopping" (inbox.shutdown), "stopped"
    instance,   \* EventFactory's instance id: one per process
    failed,     \* the events some sink refused: EngineReport.events_failed
    open,       \* [Scopes -> None or the open detection]
    emitted,    \* how many events there were, for the bound
    opened,     \* when each scope last opened a detection
    buffer,     \* ClickHouseEventSink: rows waiting for the export tick
    dropped,    \* rows the buffer gave up to make room
    exporters,  \* [Tables -> the writer and its table]
    exported,   \* when the export tick last ran
    queue,      \* [Tenants -> events accepted and not yet removed]
    closed,     \* [Tenants -> whether the sink stopped accepting]
    drain,      \* [Tenants -> the drain task]
    inbox,      \* [Tenants -> rows of the inbox, in order] (external)
    report,     \* what shutdown returned about the drains
    accepted,   \* history: the events each queue of this process took
    offered     \* history: the rows handed to each table's pipeline

engineVars == <<instance, failed, open, emitted, opened>>
clickhouseVars == <<buffer, dropped, exporters, exported, offered>>
inboxVars == <<queue, closed, drain, inbox, report, accepted>>
dvars == <<sinks, now, phase, instance, failed, open, emitted, opened, buffer, dropped, exporters,
           exported, queue, closed, drain, inbox, report, accepted, offered>>

(* A drain task: idle between flushes, writing while its statement is in   *)
(* flight, waiting in the select, done once run_observed returned.         *)
NewDrain == [pc |-> "idle", batch |-> <<>>, final |-> FALSE, attempts |-> 0,
             abandoned |-> 0]

(* IncidentInbox::start and ClickHouseExporters::new, for a new process.   *)
NewQueues == [t \in Tenants |-> <<>>]

DeliveryInit ==
    /\ sinks \in Configurations
    /\ now = 1 /\ phase = "running" /\ instance = 1 /\ failed = {} /\ emitted = 0
    /\ open = [s \in Scopes |-> None]
    /\ opened = [s \in Scopes |-> 0]
    /\ buffer = <<>> /\ dropped = 0 /\ exported = 0
    /\ exporters = [b \in Tables |-> [writer |-> NewWriter(1), table |-> EmptyBag]]
    /\ queue = NewQueues
    /\ closed = [t \in Tenants |-> FALSE]
    /\ drain = [t \in Tenants |-> NewDrain]
    /\ inbox = [t \in Tenants |-> <<>>]
    /\ report = [awaited |-> {}, timed_out |-> {}, abandoned |-> 0]
    /\ accepted = [t \in Tenants |-> <<>>]
    /\ offered = {}

------------------------------------------------------------------------------
(* ThresholdDetectionEngine::emit: an event that its mode publishes goes   *)
(* through the fan-out to the buffer and to its tenant's queue.            *)
emit(e) ==
    LET t == e.target.tenant
        row == BufferEvent(buffer, EventBuffer, e)
        put == QueueEvent(queue[t], QueueCapacity, closed[t], t, e)
        result == FanOut(<<IF "clickhouse" \in sinks THEN row.result ELSE Accepted,
                           IF "inbox" \in sinks THEN put.result ELSE Accepted>>)
    IN  IF ~is_publishable(e)
        THEN UNCHANGED <<buffer, dropped, offered, queue, accepted, failed>>
        ELSE /\ IF "clickhouse" \in sinks
                THEN /\ buffer' = row.rows
                     /\ dropped' = dropped + row.dropped
                     /\ offered' = IF row.result = Accepted
                                   THEN offered \union {DetectionEventRow(e)} ELSE offered
                ELSE UNCHANGED <<buffer, dropped, offered>>
             /\ IF "inbox" \in sinks /\ put.result = Accepted
                THEN /\ queue' = [queue EXCEPT ![t] = put.queue]
                     /\ accepted' = [accepted EXCEPT ![t] = Append(@, e)]
                ELSE UNCHANGED <<queue, accepted>>
             /\ failed' = IF result = Accepted THEN failed ELSE failed \union {e.dedup_key}

EngineStep ==
    /\ phase = "running" /\ emitted < MaxEvents[sinks] /\ emitted' = emitted + 1
    /\ UNCHANGED <<sinks, now, phase, instance, exporters, exported, closed, drain,
                   inbox, report>>

(* A detection opens: at most one per scope and snapshot.                  *)
Started(s) ==
    LET d == [started |-> now, sequence |-> 0]
    IN  /\ EngineStep /\ open[s] = None /\ opened[s] < now
        /\ ModeOf[s] # "disabled"
        /\ open' = [open EXCEPT ![s] = d]
        /\ opened' = [opened EXCEPT ![s] = now]
        /\ emit(build(instance, s, d, "started"))

(* Every further event of the detection takes the next sequence number.    *)
Updated(s) ==
    /\ EngineStep /\ open[s] # None
    /\ LET d == [open[s] EXCEPT !.sequence = @ + 1]
       IN  /\ open' = [open EXCEPT ![s] = d]
           /\ emit(build(instance, s, d, "updated"))
    /\ UNCHANGED opened

(* It ends on a snapshot, or is swept because its data stopped.            *)
Ended(s) ==
    /\ EngineStep /\ open[s] # None
    /\ LET d == [open[s] EXCEPT !.sequence = @ + 1]
       IN  \/ emit(build(instance, s, d, "ended"))
           \/ emit(build_closing(instance, s, d))
    /\ open' = [open EXCEPT ![s] = None]
    /\ UNCHANGED opened

(* ClickHouseExporters::snapshot reads the aggregator: one row per entry,  *)
(* here the total's, stamped with the time.                                *)
TotalTrafficRow == [timestamp |-> now, instance |-> instance]

snapshot(p) == [p EXCEPT !.writer = push(@, TotalTrafficRow)]

drain_rows(p) == [p EXCEPT !.writer.rows = @ \o buffer]

(* The export tick of the collector's loop: the snapshot, the buffered     *)
(* events, then every writer's tick.                                       *)
ExportTick ==
    /\ phase = "running" /\ exported < now /\ "clickhouse" \in sinks
    /\ \E total \in tick(snapshot(exporters["total_traffic"]), now),
          events \in tick(drain_rows(exporters["detection_events"]), now) :
            exporters' = [b \in Tables |-> IF b = "total_traffic" THEN total
                                           ELSE events]
    /\ offered' = offered \union {TotalTrafficRow}
    /\ buffer' = <<>> /\ exported' = now
    /\ UNCHANGED <<sinks, now, phase, engineVars, dropped, inboxVars>>

TimePasses ==
    /\ now < MaxTime[sinks] /\ now' = now + 1
    /\ UNCHANGED <<sinks, phase, engineVars, clickhouseVars, inboxVars>>

------------------------------------------------------------------------------
Batch(q) == SubSeq(q, 1, IF Len(q) < BatchSize THEN Len(q) ELSE BatchSize)

(* ENQUEUE inserts the rows whose key the inbox does not hold.             *)
Enqueue(rows, batch) ==
    rows \o AtIndexes(batch, {i \in DOMAIN batch :
                                \A r \in ToSet(rows) : r.dedup_key # batch[i].dedup_key})

DrainStep(t) ==
    /\ phase # "stopped" /\ "inbox" \in sinks
    /\ UNCHANGED <<sinks, now, phase, engineVars, clickhouseVars, report, accepted>>

(* flush_from_pool: nothing to write ends a closing drain and lets a       *)
(* running one wait; otherwise the head of the queue is sent.              *)
FlushBegins(t) ==
    /\ DrainStep(t) /\ drain[t].pc = "idle"
    /\ drain' = [drain EXCEPT ![t] =
                    IF queue[t] = <<>>
                    THEN [drain[t] EXCEPT !.pc = IF drain[t].final THEN "done" ELSE "waiting"]
                    ELSE [drain[t] EXCEPT !.pc = "writing", !.batch = Batch(queue[t])]]
    /\ UNCHANGED <<queue, closed, inbox>>

(* A mutant: the flush removes a batch's worth, not what it wrote.         *)
FlushSucceedsFull(t) ==
    /\ DrainStep(t) /\ drain[t].pc = "writing"
    /\ inbox' = [inbox EXCEPT ![t] = Enqueue(@, drain[t].batch)]
    /\ queue' = [queue EXCEPT ![t] = SubSeq(@, BatchSize + 1, Len(@))]
    /\ drain' = [drain EXCEPT ![t] = [drain[t] EXCEPT !.pc = "idle", !.batch = <<>>]]
    /\ UNCHANGED closed

(* The batch leaves the queue only once its write succeeded.               *)
FlushSucceeds(t) ==
    /\ DrainStep(t) /\ drain[t].pc = "writing"
    /\ inbox' = [inbox EXCEPT ![t] = Enqueue(@, drain[t].batch)]
    /\ queue' = [queue EXCEPT ![t] = SubSeq(@, Len(drain[t].batch) + 1, Len(@))]
    /\ drain' = [drain EXCEPT ![t] = [drain[t] EXCEPT !.pc = "idle", !.batch = <<>>]]
    /\ UNCHANGED closed

(* A mutant: the closing flush stops without looking at what is left.      *)
AfterFailureUncounted(t) ==
    LET d == drain[t]
    IN  [d EXCEPT !.batch = <<>>,
                  !.pc = IF d.final /\ d.attempts + 1 >= FinalAttempts THEN "done"
                         ELSE "waiting",
                  !.attempts = IF d.final THEN @ + 1 ELSE @]

(* After a failed write: a running drain waits and tries again, a closing  *)
(* one stops at its last attempt and reports what is left.                 *)
AfterFailure(t) ==
    LET d == drain[t]
        last == d.final /\ d.attempts + 1 >= FinalAttempts
    IN  [d EXCEPT !.batch = <<>>,
                  !.pc = IF last THEN "done" ELSE "waiting",
                  !.attempts = IF d.final THEN @ + 1 ELSE @,
                  !.abandoned = IF last THEN Len(queue[t]) ELSE @]

(* The write fails, or is stored and its answer lost.                      *)
FlushFails(t) ==
    /\ DrainStep(t) /\ drain[t].pc = "writing"
    /\ \/ UNCHANGED inbox
       \/ inbox' = [inbox EXCEPT ![t] = Enqueue(@, drain[t].batch)]
    /\ drain' = [drain EXCEPT ![t] = AfterFailure(t)]
    /\ UNCHANGED <<queue, closed>>

(* A mutant: after a wait only the closing flush goes on.                  *)
WaitEndsFinal(t) ==
    /\ DrainStep(t) /\ drain[t].pc = "waiting" /\ drain[t].final
    /\ drain' = [drain EXCEPT ![t].pc = "idle"]
    /\ UNCHANGED <<queue, closed, inbox>>

(* The sleep of the select, or of the closing flush, ends.                 *)
WaitEnds(t) ==
    /\ DrainStep(t) /\ drain[t].pc = "waiting"
    /\ drain' = [drain EXCEPT ![t].pc = "idle"]
    /\ UNCHANGED <<queue, closed, inbox>>

(* The select of a running drain sees the stop: the sink closes and the    *)
(* final flush begins.                                                     *)
DrainStops(t) ==
    /\ DrainStep(t) /\ phase = "stopping"
    /\ drain[t].pc = "waiting" /\ ~drain[t].final
    /\ closed' = [closed EXCEPT ![t] = TRUE]
    /\ drain' = [drain EXCEPT ![t] = [drain[t] EXCEPT !.pc = "idle", !.final = TRUE]]
    /\ UNCHANGED <<queue, inbox>>

------------------------------------------------------------------------------
(* The collector's loop ends on a signal; no event is published after it.  *)
Shutdown ==
    /\ phase = "running" /\ phase' = "stopping"
    /\ UNCHANGED <<sinks, now, engineVars, clickhouseVars, inboxVars>>

(* IncidentInbox::shutdown awaits each drain for SHUTDOWN_GRACE.  A drain  *)
(* that finished is added to the report; one that did not is only logged.  *)
AwaitDrain(t) ==
    /\ phase = "stopping" /\ t \notin report.awaited /\ "inbox" \in sinks
    /\ \/ /\ drain[t].pc = "done"
          /\ report' = [report EXCEPT !.awaited = @ \union {t},
                                      !.abandoned = @ + drain[t].abandoned]
       \/ /\ drain[t].pc # "done"
          /\ report' = [report EXCEPT !.awaited = @ \union {t},
                                      !.timed_out = @ \union {t}]
    /\ UNCHANGED <<sinks, now, phase, engineVars, clickhouseVars, queue, closed, drain,
                   inbox, accepted>>

Exit ==
    /\ phase = "stopping" /\ phase' = "stopped"
    /\ "inbox" \in sinks => report.awaited = Tenants
    /\ UNCHANGED <<sinks, now, engineVars, clickhouseVars, inboxVars>>

(* The process starts again, after a stop or at any time after a crash:    *)
(* what was only in memory is gone, and identifiers get a new instance.    *)
Restart ==
    /\ instance < MaxInstances /\ instance' = instance + 1
    /\ phase' = "running" /\ failed' = {}
    /\ open' = [s \in Scopes |-> None]
    /\ opened' = [s \in Scopes |-> 0]
    /\ buffer' = <<>> /\ dropped' = 0 /\ exported' = now
    /\ exporters' = [b \in Tables |->
                        [exporters[b] EXCEPT !.writer = NewWriter(now)]]
    /\ queue' = NewQueues
    /\ closed' = [t \in Tenants |-> FALSE]
    /\ drain' = [t \in Tenants |-> NewDrain]
    /\ report' = [awaited |-> {}, timed_out |-> {}, abandoned |-> 0]
    /\ accepted' = inbox
    /\ offered' = UNION {BagToSet(exporters[b].table) : b \in Tables}
    /\ UNCHANGED <<sinks, now, emitted, inbox>>

------------------------------------------------------------------------------
DeliveryNext ==
    \/ \E s \in Scopes : Started(s) \/ Updated(s) \/ Ended(s)
    \/ \E t \in Tenants :
          \/ FlushBegins(t) \/ FlushSucceeds(t) \/ FlushFails(t)
          \/ WaitEnds(t) \/ DrainStops(t) \/ AwaitDrain(t)
    \/ ExportTick \/ TimePasses \/ Shutdown \/ Exit \/ Restart

(* A drain task is scheduled, its sleep ends, and the database answers     *)
(* sooner or later: a write that is tried again and again succeeds.        *)
DeliveryFairness ==
    \A t \in Tenants :
        /\ WF_dvars(FlushBegins(t))
        /\ WF_dvars(FlushSucceeds(t) \/ FlushFails(t))
        /\ SF_dvars(FlushSucceeds(t))
        /\ WF_dvars(WaitEnds(t))

DeliverySpec == DeliveryInit /\ [][DeliveryNext]_dvars /\ DeliveryFairness

------------------------------------------------------------------------------
(* Where a queue holds an event that the inbox lacks.                      *)
Unwritten(t) == {i \in DOMAIN queue[t] : queue[t][i] \notin ToSet(inbox[t])}

(* Every event a tenant's queue took is in the inbox once or still queued, *)
(* and the inbox followed by the queue is the order in which they were     *)
(* accepted: a failed write skips nothing, an answer lost after the write  *)
(* doubles nothing, and no key stands for two events (producer.rs          *)
(* flush_batch, inbox.rs ENQUEUE, event.rs dedup_key).  An event of an     *)
(* open detection whose mode publishes it and that no queue took was       *)
(* reported as failed.                                                     *)
InboxInOrder ==
    /\ \A t \in Tenants : inbox[t] \o AtIndexes(queue[t], Unwritten(t)) = accepted[t]
    /\ "inbox" \in sinks => \A s \in {x \in Scopes : open[x] # None /\ publishes(ModeOf[x])} :
          \A n \in 0 .. open[s].sequence :
              \E k \in failed \union {e.dedup_key : e \in ToSet(accepted[TenantOf[s]])} :
                 k[1] = detection_id(instance, s, open[s].started) /\ k[Len(k)] = n

(* The rows of a table's pipeline that are nowhere.                        *)
Missing(b) ==
    LET own == IF b = "total_traffic" THEN {r \in offered : "timestamp" \in DOMAIN r}
               ELSE {r \in offered : "key" \in DOMAIN r} \ ToSet(buffer)
    IN  own \ (HeldBy(exporters[b].writer) \union BagToSet(exporters[b].table))

(* Every row handed to ClickHouse is buffered, batched, waiting for a      *)
(* retry or stored, and no two batches hold the same row; one that is      *)
(* nowhere was counted by the buffer or by a writer's report; and no row   *)
(* is sent more often than the attempts of its batch (writer.rs tick,      *)
(* retry.rs take_due and requeue_after_failure).                           *)
RowsAccounted ==
    \A b \in Tables :
        LET w == exporters[b].writer
            buffered_away == IF b = "total_traffic" THEN 0 ELSE dropped
        IN  /\ \A i, j \in DOMAIN w.pending :
                  i # j => ToSet(w.pending[i].rows) \intersect ToSet(w.pending[j].rows) = {}
            /\ \A i \in DOMAIN w.pending :
                  ToSet(w.pending[i].rows) \intersect (ToSet(w.rows) \union ToSet(buffer)) = {}
            /\ Missing(b) # {} => buffered_away + w.report.retry_queue_dropped
                                     + w.report.permanently_dropped > 0
            /\ \A r \in BagToSet(exporters[b].table) :
                  exporters[b].table[r] <= MaxWriteAttempts

(* A stop in which every drain finished within its grace reports at least  *)
(* every event it leaves behind (incident_inbox.rs shutdown).              *)
LossIsReported ==
    phase = "stopped" /\ report.timed_out = {}
        => Cardinality(UNION {{t} \X Unwritten(t) : t \in Tenants}) <= report.abandoned

(* While the collector runs, a backlog is drained: no number of failed     *)
(* writes makes a drain give up (producer.rs run_observed).                *)
BacklogDrains ==
    \A t \in Tenants :
        queue[t] # <<>> ~> (queue[t] = <<>> \/ phase # "running")
==============================================================================
