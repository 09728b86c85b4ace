------------------------------ MODULE Incident ------------------------------
(***************************************************************************)
(* The incident aggregate (crates/incident): what each call of the unit of *)
(* work makes of one incident.                                             *)
(*                                                                         *)
(* Instants are kept as ages.  A timestamp column holds how long ago it is *)
(* and the decision time of a call how long ago its transaction started,   *)
(* so `now < at' is Precedes(now, at), and the column is set to `now' as   *)
(* it stands.  Severity is kept as far as closure asks for it, notes as    *)
(* their number, and last_updated_at as whether it lies before opened_at,  *)
(* the one thing the code ever asks of it.  Titles, categories, policy     *)
(* references, tags, assignments, suppression, and the timeline and audit  *)
(* entries a change appends decide nothing and are left out.               *)
(***************************************************************************)
EXTENDS Naturals, FiniteSets

CONSTANTS
    None,
    Events,          \* detection events, numbered as the inbox numbers them
    KeyOf,           \* correlation key of an event
    DetectionOf,     \* the detection episode it belongs to
    KindOf,          \* "started", "updated" or "ended"
    ClassOf,         \* "plain", "future" (schema or executed), "observe" or "garbled"
    CriticalOf,      \* whether it reports critical severity
    SilentAfter, Confirmation, ClosureDelay, Window,
    EvidenceMax, NotesMax,
    MaxLag           \* how long a transaction may be open

ASSUME TimerAssumption ==
    {SilentAfter, Confirmation, ClosureDelay, Window, EvidenceMax, NotesMax, MaxLag} \subseteq Nat

Active == {"open", "acknowledged", "investigating", "monitoring", "recovering"}
Settled == {"resolved", "closed"}
IncidentState == Active \cup Settled

can_automatic_transition_to ==
    ((Active \ {"recovering"}) \X {"recovering"})
    \cup ({"recovering"} \X ((Active \ {"recovering"}) \cup {"resolved"}))
    \cup {<<"resolved", "closed">>, <<"resolved", "open">>, <<"closed", "open">>}

can_operator_transition_to ==
    {<<"open", "acknowledged">>, <<"open", "investigating">>, <<"acknowledged", "investigating">>,
     <<"monitoring", "investigating">>, <<"acknowledged", "monitoring">>,
     <<"investigating", "monitoring">>, <<"resolved", "closed">>, <<"resolved", "open">>,
     <<"closed", "open">>}
    \cup (Active \X {"resolved"})

-----------------------------------------------------------------------------
(* Instants.                                                               *)

Precedes(now, at) == now > at
Elapsed(now, at) == at - now

\* Old enough to be past every comparison the code makes with it.
Later(at, horizon) == IF at = None THEN None ELSE IF at < horizon THEN at + 1 ELSE at
WindowHorizon == (IF ClosureDelay > Window THEN ClosureDelay ELSE Window + 1) + MaxLag

Aged(r) ==
    [r EXCEPT !.opened = Later(@, MaxLag),
              !.detected = Later(@, SilentAfter + MaxLag),
              !.recovering = Later(@, Confirmation + MaxLag),
              !.resolved = Later(@, WindowHorizon),
              !.closed = Later(@, WindowHorizon)]

-----------------------------------------------------------------------------
(* Changes of one incident.                                                *)

\* Every change takes the next version and sets last_updated_at.
Touch(r, now) == [r EXCEPT !.version = @ + 1, !.backdated = Precedes(now, r.opened)]

Record(r, e) ==
    [r EXCEPT !.observed = @ + 1,
              !.retained = IF Cardinality(@) < EvidenceMax THEN @ \cup {e} ELSE @]

NewIncident(key, critical, now) ==
    [key |-> key, state |-> "open", prior |-> None, version |-> 1, critical |-> critical,
     opened |-> now, detected |-> now, recovering |-> None, resolved |-> None, closed |-> None,
     retained |-> {}, observed |-> 0, notes |-> 0, backdated |-> FALSE]

create_incident_internal(e, now) == Record(NewIncident(KeyOf[e], CriticalOf[e], now), e)

IsLate(r, now) == Precedes(now, r.detected)

\* Mutant: evidence is not a change of the incident.
link_event_silently(r, e, now, late) ==
    [Record(r, e) EXCEPT !.detected = IF late \/ IsLate(r, now) THEN @ ELSE now]

link_event(r, e, now, late) ==
    [Touch(Record(r, e), now) EXCEPT !.detected = IF late \/ IsLate(r, now) THEN @ ELSE now]

reopen_incident_internal(r, e, now) ==
    [Touch(Record(r, e), now) EXCEPT !.state = "open", !.detected = now,
                                     !.resolved = None, !.closed = None]

CanRecover(r) == <<r.state, "recovering">> \in can_automatic_transition_to
enter_recovering(r, now) ==
    [Touch(r, now) EXCEPT !.prior = r.state, !.state = "recovering", !.recovering = now]

resolve_internal(r, now, note) ==
    [Touch(r, now) EXCEPT !.state = "resolved", !.resolved = now, !.recovering = None,
                          !.prior = None, !.notes = IF note THEN @ + 1 ELSE @]

close_internal(r, now) == [Touch(r, now) EXCEPT !.state = "closed", !.closed = now]

operator_reopen(r, now) ==
    [Touch(r, now) EXCEPT !.state = "open", !.resolved = None, !.closed = None]

\* A detection event on an active incident: an end that is not late also starts recovery.
link_event_to_open_incident(r, e, now) ==
    LET linked == link_event(r, e, now, FALSE)
    IN  IF KindOf[e] = "ended" /\ ~IsLate(r, now) /\ CanRecover(r)
        THEN enter_recovering(linked, now) ELSE linked

reopen_reference_timestamp(r) == IF r.state = "resolved" THEN r.resolved ELSE r.closed
Skewed(r, now) == Window > 0 /\ Precedes(now, reopen_reference_timestamp(r))
evaluate_reopen(r, now) == Window > 0 /\ Elapsed(now, reopen_reference_timestamp(r)) <= Window
AlreadyHeld(r, e) == \E held \in r.retained : DetectionOf[held] = DetectionOf[e]

-----------------------------------------------------------------------------
(* The timers, on the incident as their own transaction reads it.          *)

Timers == {"silent", "confirm", "expire"}

\* Mutant: the query that proposed the incident is believed.
TimerTrusted(kind, r, now) ==
    CASE kind = "silent"  -> CanRecover(r)
      [] kind = "confirm" -> r.state = "recovering"
      [] kind = "expire"  -> r.state = "resolved" /\ ~r.critical

\* Mutant: the difference is taken the wrong way round.
TimerNever(kind, r, now) ==
    CASE kind = "silent"  -> CanRecover(r) /\ Elapsed(r.detected, now) >= SilentAfter
      [] kind = "confirm" -> r.state = "recovering" /\ Elapsed(r.recovering, now) >= Confirmation
      [] kind = "expire"  -> r.state = "resolved" /\ ~r.critical
                             /\ Elapsed(r.resolved, now) >= ClosureDelay

TimerDue(kind, r, now) ==
    CASE kind = "silent"  -> CanRecover(r) /\ ~IsLate(r, now)
                             /\ Elapsed(now, r.detected) >= SilentAfter
      [] kind = "confirm" -> r.state = "recovering" /\ ~Precedes(now, r.recovering)
                             /\ Elapsed(now, r.recovering) >= Confirmation
      [] kind = "expire"  -> r.state = "resolved" /\ ~r.critical /\ ~Precedes(now, r.resolved)
                             /\ Elapsed(now, r.resolved) >= ClosureDelay

TimerEffect(kind, r, now) ==
    CASE kind = "silent"  -> enter_recovering(r, now)
      [] kind = "confirm" -> resolve_internal(r, now, FALSE)
      [] kind = "expire"  -> close_internal(r, now)

-----------------------------------------------------------------------------
(* Operator commands.  Those that only move the state are named by where   *)
(* they move it; "edit" stands for assignment, priority, suppression and   *)
(* a severity below critical, "tag" for tags and redactions, "note" for    *)
(* adding and editing a note.                                              *)

Moves == {"acknowledged", "investigating", "monitoring"}
Versioned == Moves \cup {"resolve", "resolve_with_note", "close", "reopen", "edit", "escalate"}
Commands == Versioned \cup {"note", "tag"}

Target(command) ==
    CASE command \in Moves -> command
      [] command \in {"resolve", "resolve_with_note"} -> "resolved"
      [] command = "close" -> "closed"
      [] command = "reopen" -> "open"

Allowed(command, r) ==
    CASE command \in {"edit", "escalate", "tag"} -> TRUE
      [] command = "note" -> r.notes < NotesMax
      [] OTHER -> <<r.state, Target(command)>> \in can_operator_transition_to

assign(r, now) == Touch(r, now)
change_severity(r, now) == [Touch(r, now) EXCEPT !.critical = TRUE]
add_note(r, now) == [Touch(r, now) EXCEPT !.notes = @ + 1]
add_tag(r, now) == Touch(r, now)
guarded_operator_transition(r, state, now) == [Touch(r, now) EXCEPT !.state = state]

apply_command(command, r, now) ==
    CASE command \in Moves -> guarded_operator_transition(r, command, now)
      [] command \in {"resolve", "resolve_with_note"} ->
            resolve_internal(r, now, command = "resolve_with_note")
      [] command = "close" -> close_internal(r, now)
      [] command = "reopen" -> operator_reopen(r, now)
      [] command = "escalate" -> change_severity(r, now)
      [] command = "note" -> add_note(r, now)
      [] command = "edit" -> assign(r, now)
      [] command = "tag" -> add_tag(r, now)

-----------------------------------------------------------------------------
(* What a load demands of a stored incident before the domain sees it.     *)
(* The instant a change writes into any column is the last_updated_at it   *)
(* sets, so `backdated' stands for every column compared with opened_at.   *)

Reconstitutes(r) ==
    /\ r.notes <= NotesMax
    /\ Cardinality(r.retained) <= EvidenceMax /\ r.observed >= Cardinality(r.retained)
    /\ (r.prior # None) = (r.state = "recovering") /\ r.prior # "recovering"
    /\ (r.recovering # None) = (r.state = "recovering")
    /\ (r.resolved # None) = (r.state \in Settled)
    /\ (r.closed # None) = (r.state = "closed")
    /\ ~r.backdated
    /\ r.resolved # None /\ r.closed # None => ~Precedes(r.closed, r.resolved)
=============================================================================
