------------------------------- MODULE Events -------------------------------
(***************************************************************************)
(* Detection events and where the engine hands them: the event factory of  *)
(* crates/detector/src/event.rs, the sinks of sink.rs and of the           *)
(* collector's detection.rs, and the ClickHouse row an event becomes       *)
(* (crates/storage/src/schema.rs).                                         *)
(*                                                                         *)
(* An identifier is the tuple of what the code hashes or formats into it,  *)
(* so two identifiers are equal when the code's inputs are.  Figures       *)
(* (rates, peaks, thresholds, texts) are left out.                         *)
(***************************************************************************)
EXTENDS Integers, Sequences, SequencesExt

CONSTANTS
    Scopes,        \* what a policy watches: scope key of a detection
    TenantOf,      \* [Scopes -> tenant], the tenant of the scope's policy
    ModeOf         \* [Scopes -> ExecutionMode], the policy's execution mode

ExecutionMode == {"disabled", "observe", "alertOnly", "dryRun"}

ASSUME EventsAssumption == ModeOf \in [Scopes -> ExecutionMode]

(* What a mode records on its events; "disabled" builds no event.          *)
ActionTaken(mode) ==
    CASE mode = "disabled"  -> "none"
      [] mode = "observe"   -> "observed"
      [] mode = "alertOnly" -> "alerted"
      [] mode = "dryRun"    -> "dryRun"

(* No action of this phase touches traffic.                                *)
executed(action) == action \notin {"observed", "alerted", "dryRun"}

(* The modes whose events leave the engine.                                *)
publishes(mode) == mode \in {"alertOnly", "dryRun"}

is_publishable(e) == publishes(e.execution_mode)

(* Stable from the start event of a detection to its end event.            *)
detection_id(instance, s, started) == <<instance, s, started>>

dedup_key(id, kind, sequence) == <<id, kind, sequence>>

EventTarget(s) == [tenant |-> TenantOf[s], scope_id |-> s]

(* The event for a signal the state machine raised on a snapshot.          *)
build(instance, s, open, kind) ==
    LET id == detection_id(instance, s, open.started)
        action == ActionTaken(ModeOf[s])
    IN  [detection_id   |-> id,
         kind           |-> kind,
         sequence       |-> open.sequence,
         dedup_key      |-> dedup_key(id, kind, open.sequence),
         execution_mode |-> ModeOf[s],
         action         |-> action,
         executed       |-> executed(action),
         target         |-> EventTarget(s)]

(* The end event of a detection closed without a snapshot: its data        *)
(* stopped, or its policy went away.  It differs from one built on a       *)
(* snapshot in its figures alone, which are all zero.                      *)
build_closing(instance, s, open) == build(instance, s, open, "ended")

(* The row of the detection_events table: the event's own columns.         *)
DetectionEventRow(e) ==
    [key |-> e.dedup_key, tenant |-> e.target.tenant, kind |-> e.kind]

------------------------------------------------------------------------------
(* A sink takes an event and answers with an error or with nothing.        *)
SinkError == {"Full", "Closed", "Backend"}
Accepted == "Ok"

(* ClickHouseEventSink: bounded, the oldest row makes room.                *)
BufferEvent(rows, capacity, e) ==
    CASE capacity = 0 -> [rows |-> rows, dropped |-> 0, result |-> "Full"]
      [] capacity > 0 /\ Len(rows) >= capacity ->
            [rows    |-> Append(Tail(rows), DetectionEventRow(e)),
             dropped |-> 1, result |-> Accepted]
      [] OTHER ->
            [rows    |-> Append(rows, DetectionEventRow(e)),
             dropped |-> 0, result |-> Accepted]

(* InboxSink::publish: bounded, and full refuses the newest event.         *)
QueueEvent(queue, capacity, closed, serves, e) ==
    LET refused(why) == [queue |-> queue, result |-> why]
    IN  CASE closed -> refused("Closed")
          [] ~closed /\ e.target.tenant # serves -> refused("Backend")
          [] ~closed /\ e.target.tenant = serves /\ Len(queue) >= capacity ->
                refused("Full")
          [] OTHER -> [queue |-> Append(queue, e), result |-> Accepted]

(* FanOutSink: every sink is offered the event; the first error, in the    *)
(* order of the sinks, is what the engine is told.                         *)
FanOut(results) ==
    IF \A i \in DOMAIN results : results[i] = Accepted
    THEN Accepted
    ELSE results[CHOOSE i \in DOMAIN results :
                    /\ results[i] \in SinkError
                    /\ \A j \in 1 .. (i - 1) : results[j] = Accepted]
==============================================================================
