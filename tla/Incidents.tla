----------------------------- MODULE Incidents ------------------------------
(***************************************************************************)
(* The incident store and the processes that work on it: the correlation   *)
(* workers over the detection-event inbox, the maintenance timers, and     *)
(* operators (crates/incident-postgres, crates/incident-manager).          *)
(*                                                                         *)
(* Every call is one Read Committed transaction: it takes its decision     *)
(* time as it begins, loads what it needs under row locks and the          *)
(* allocator's, decides, writes and commits.  A statement is one step; the *)
(* writes and the commit are one step, Decide.  A call that loses a race   *)
(* for a unique index or is chosen as a deadlock's victim is rerun.        *)
(***************************************************************************)
EXTENDS Incident

CONSTANTS
    Keys,            \* correlation keys of one tenant
    SlotOf,          \* the entry a key takes in the partial unique indexes
    N,               \* incidents that can be stored
    Workers, Maintainers, Operators,
    Offered,         \* commands the operators issue
    Severities,      \* whether an incident they create is critical
    Batch,           \* events a worker claims at once
    MaxAttempts,     \* failed attempts before an event is dead-lettered
    Reruns,          \* attempts of one call
    MaxEvents,       \* events that reach the inbox
    MaxDisturbances  \* commands, crashes, statement timeouts and leases that run out

ASSUME IncidentsAssumption ==
    /\ {Batch, MaxAttempts, Reruns} \subseteq Nat \ {0}
    /\ Offered \subseteq Commands /\ Severities \subseteq BOOLEAN
    /\ {MaxEvents, MaxDisturbances} \subseteq Nat
    /\ Events \subseteq Nat /\ IsFiniteSet(Events)
    /\ N \in Nat /\ N >= MaxEvents + MaxDisturbances

Procs == Workers \cup Maintainers \cup Operators
Ids == 1..N

ASSUME ProcsAssumption ==
    /\ Workers \cap Maintainers = {} /\ Workers \cap Operators = {} /\ Maintainers \cap Operators = {}
    /\ None \notin Procs \cup Events \cup Nat
ASSUME DetectionsAssumption ==
    \A e \in Events :
        KeyOf[e] \in Keys /\ CriticalOf[e] \in BOOLEAN
        /\ ClassOf[e] \in {"plain", "future", "observe", "garbled"}

VARIABLES
    inc,       \* the incidents table
    links,     \* incident_detection_events: the incident an event is linked to
    inbox,     \* detection_event_inbox
    rowLock,   \* who holds FOR UPDATE on an incident
    alloc,     \* who holds the tenant's number allocator
    call,      \* the call each process is making
    todo,      \* claimed events of a worker, proposed timers of a maintainer
    disturbances

vars == <<inc, links, inbox, rowLock, alloc, call, todo, disturbances>>

Stored == {i \in Ids : inc[i] # None}

\* Bound: the table takes one more incident (always so: IncidentsAssumption).
HasRoom == Stored # Ids
ActiveIds(key) == {i \in Stored : inc[i].key = key /\ inc[i].state \in Active}
SlotTaken(key, i) ==
    \E j \in Stored \ {i} : SlotOf[inc[j].key] = SlotOf[key] /\ inc[j].state \in Active
FreshId == CHOOSE i \in Ids : inc[i] = None

\* Most recently resolved or closed; instants past every horizon are alike.
Candidates(key) ==
    LET settled == {i \in Stored : inc[i].key = key /\ inc[i].state \in Settled}
    IN  {i \in settled : \A j \in settled :
            reopen_reference_timestamp(inc[i]) <= reopen_reference_timestamp(inc[j])}

\* subject: an event, an incident or a key; arg: expected version, severity or outcome;
\* known: the load found the event linked, or an active incident where there may be none;
\* seen: auxiliary, what the author of a command was looking at.
Idle == [op |-> "none", subject |-> None, arg |-> None, step |-> "idle", aim |-> None,
         row |-> None, now |-> 0, tries |-> 1, known |-> FALSE, seen |-> None]
Call(op, subject, arg) ==
    [Idle EXCEPT !.op = op, !.subject = subject, !.arg = arg, !.step = "begin"]

InTransaction(c) == c.step \in {"active", "allocate", "again", "candidate", "reopen", "row", "decide"}

Init ==
    /\ inc = [i \in Ids |-> None]
    /\ links = [e \in Events |-> None]
    /\ inbox = [e \in Events |-> [status |-> "absent", attempts |-> 0, holder |-> None,
                                  due |-> TRUE, outcome |-> None]]
    /\ rowLock = [i \in Ids |-> None]
    /\ alloc = None
    /\ call = [p \in Procs |-> Idle]
    /\ todo = [p \in Workers \cup Maintainers |-> {}]
    /\ disturbances = 0

-----------------------------------------------------------------------------
(* Locks and the ways a call ends.                                         *)

Release(p) ==
    /\ rowLock' = [i \in Ids |-> IF rowLock[i] = p THEN None ELSE rowLock[i]]
    /\ alloc' = IF alloc = p THEN None ELSE alloc

KeepLocks == UNCHANGED <<rowLock, alloc>>
Elsewhere == UNCHANGED <<inbox, todo, disturbances>>

Disturb == disturbances < MaxDisturbances /\ disturbances' = disturbances + 1

Goto(p, step) == call' = [call EXCEPT ![p].step = step]

\* A worker still has to record how the call ended.
Ended(p, step, outcome) ==
    call' = [call EXCEPT ![p] =
                IF p \in Workers THEN [Idle EXCEPT !.op = "ingest", !.subject = call[p].subject,
                                                   !.arg = outcome, !.step = step]
                ELSE Idle]

\* Mutant: an error is taken for the end of the call.
FailQuietly(p) == Release(p) /\ Ended(p, "done", "updated")

\* Rolled back for good.
Fail(p) == Release(p) /\ Ended(p, "failed", None)

\* Rolled back and run again from a fresh load, while attempts remain.
Rerun(p) ==
    /\ Release(p)
    /\ IF call[p].tries < Reruns
       THEN call' = [call EXCEPT ![p] =
                [Call(call[p].op, call[p].subject, call[p].arg) EXCEPT
                    !.tries = call[p].tries + 1, !.seen = call[p].seen]]
       ELSE Ended(p, "failed", None)

-----------------------------------------------------------------------------
(* The load.                                                               *)

\* Where a call stands once its transaction has begun and its first statements ran.
Begun(c) ==
    CASE c.op = "ingest" /\ links[c.subject] # None -> {[c EXCEPT !.step = "decide", !.known = TRUE]}
      [] c.op = "ingest" /\ links[c.subject] = None ->
            IF ActiveIds(KeyOf[c.subject]) = {} THEN {[c EXCEPT !.step = "allocate"]}
            ELSE {[c EXCEPT !.step = "active", !.aim = i] : i \in ActiveIds(KeyOf[c.subject])}
      [] c.op = "create" -> {[c EXCEPT !.step = "allocate"]}
      [] OTHER -> {[c EXCEPT !.step = "row", !.aim = c.subject]}

Begin(p) ==
    /\ call[p].step = "begin"
    /\ \E c \in Begun(call[p]) : call' = [call EXCEPT ![p] = c]
    /\ KeepLocks /\ Elsewhere /\ UNCHANGED <<inc, links>>

lock_allocator(p) ==
    /\ call[p].step = "allocate"
    /\ alloc = None
    /\ alloc' = p
    /\ IF call[p].op = "create"
       THEN call' = [call EXCEPT ![p].step = "decide", ![p].known = ActiveIds(call[p].subject) # {}]
       ELSE IF ActiveIds(KeyOf[call[p].subject]) = {} THEN Goto(p, "candidate")
       ELSE \E i \in ActiveIds(KeyOf[call[p].subject]) :
                call' = [call EXCEPT ![p].step = "again", ![p].aim = i]
    /\ Elsewhere /\ UNCHANGED <<inc, links, rowLock>>

load_reopen_candidate(p) ==
    /\ call[p].step = "candidate"
    /\ LET found == Candidates(KeyOf[call[p].subject])
       IN  IF found = {} THEN Goto(p, "decide")
           ELSE \E i \in found : call' = [call EXCEPT ![p].step = "reopen", ![p].aim = i]
    /\ KeepLocks /\ Elsewhere /\ UNCHANGED <<inc, links>>

\* SELECT ... FOR UPDATE returns once the row is free, checks its condition again
\* on the row as it is now, and keeps the lock even if the condition fails.
StillWanted(c) ==
    CASE c.step \in {"active", "again"} -> inc[c.aim].state \in Active
      [] c.step = "reopen" -> inc[c.aim].state \in Settled
      [] c.step = "row" -> TRUE

TakeRow(p) ==
    /\ call[p].step \in {"active", "again", "reopen", "row"}
    /\ rowLock[call[p].aim] \in {None, p}
    /\ IF ~StillWanted(call[p])
       THEN /\ Goto(p, CASE call[p].step = "active" -> "allocate"
                         [] call[p].step = "again" -> "candidate"
                         [] call[p].step = "reopen" -> "decide")
            /\ rowLock' = [rowLock EXCEPT ![call[p].aim] = p]
            /\ UNCHANGED alloc
       ELSE IF ~Reconstitutes(inc[call[p].aim]) THEN Fail(p)
       ELSE /\ call' = [call EXCEPT ![p].step = "decide", ![p].row = call[p].aim,
                ![p].known = call[p].op = "reopen" /\ ActiveIds(inc[call[p].aim].key) # {}]
            /\ rowLock' = [rowLock EXCEPT ![call[p].aim] = p]
            /\ UNCHANGED alloc
    /\ Elsewhere /\ UNCHANGED <<inc, links>>

-----------------------------------------------------------------------------
(* The decision, the flush and the commit.                                 *)

Commit(p, i, r) == inc' = [inc EXCEPT ![i] = r] /\ Release(p)

\* Mutant: the dedup row is written over.
LinkAgain(p, i, r, outcome) ==
    /\ Commit(p, i, r)
    /\ links' = [links EXCEPT ![call[p].subject] = i]
    /\ Ended(p, "done", outcome)

\* The event is linked to the incident: the dedup row is unique, so a link made
\* since the load costs a rerun.
Link(p, i, r, outcome) ==
    LET e == call[p].subject
    IN  IF links[e] # None THEN Rerun(p) /\ UNCHANGED <<inc, links>>
        ELSE /\ Commit(p, i, r)
             /\ links' = [links EXCEPT ![e] = i]
             /\ Ended(p, "done", outcome)

NoChange(p, step, outcome) == Release(p) /\ Ended(p, step, outcome) /\ UNCHANGED <<inc, links>>

Lookup(p) ==
    LET e == call[p].subject
        i == call[p].row
        now == call[p].now
    IN  IF i # None /\ inc[i].state \in Active
        THEN Link(p, i, link_event_to_open_incident(inc[i], e, now),
                  IF IsLate(inc[i], now) THEN "linked_late" ELSE "updated")
        ELSE IF i # None /\ (KindOf[e] = "ended" \/ AlreadyHeld(inc[i], e))
        THEN Link(p, i, link_event(inc[i], e, now, TRUE), "linked_late")
        ELSE IF i # None /\ Skewed(inc[i], now)
        THEN NoChange(p, "failed", None)
        ELSE IF i # None /\ evaluate_reopen(inc[i], now)
        THEN IF SlotTaken(KeyOf[e], i) THEN Rerun(p) /\ UNCHANGED <<inc, links>>
             ELSE Link(p, i, reopen_incident_internal(inc[i], e, now), "reopened")
        ELSE IF KindOf[e] = "ended"
        THEN NoChange(p, "done", "quarantined")
        ELSE IF SlotTaken(KeyOf[e], None) THEN Rerun(p) /\ UNCHANGED <<inc, links>>
        ELSE HasRoom /\ Link(p, FreshId, create_incident_internal(e, now), "created")

ingest_detection_event(p) ==
    /\ call[p].step = "decide" /\ call[p].op = "ingest"
    /\ LET class == ClassOf[call[p].subject]
       IN  CASE class = "future" -> NoChange(p, "done", "quarantined")
             [] class # "future" /\ call[p].known -> NoChange(p, "done", "duplicate")
             [] class = "observe" /\ ~call[p].known -> NoChange(p, "done", "observe_only")
             [] class = "plain" /\ ~call[p].known -> Lookup(p)
    /\ Elsewhere

create_manual_incident(p) ==
    /\ call[p].step = "decide" /\ call[p].op = "create"
    /\ IF call[p].known THEN NoChange(p, "done", None)
       ELSE IF SlotTaken(call[p].subject, None) THEN Rerun(p) /\ UNCHANGED <<inc, links>>
       ELSE /\ HasRoom
            /\ Commit(p, FreshId, NewIncident(call[p].subject, call[p].arg, call[p].now))
            /\ Ended(p, "done", None)
            /\ UNCHANGED links
    /\ Elsewhere

handle_command(p) ==
    /\ call[p].step = "decide" /\ call[p].op \in Commands
    /\ LET i == call[p].row
           r == inc[i]
           op == call[p].op
       IN  IF \/ op \in Versioned /\ call[p].arg # r.version
              \/ ~Allowed(op, r)
              \/ op = "reopen" /\ call[p].known
           THEN NoChange(p, "done", None)
           ELSE IF op = "reopen" /\ SlotTaken(r.key, i) THEN Rerun(p) /\ UNCHANGED <<inc, links>>
           ELSE /\ Commit(p, i, apply_command(op, r, call[p].now))
                /\ Ended(p, "done", None)
                /\ UNCHANGED links
    /\ Elsewhere

RunTimer(p) ==
    /\ call[p].step = "decide" /\ call[p].op \in Timers
    /\ LET i == call[p].row
       IN  IF ~TimerDue(call[p].op, inc[i], call[p].now) THEN NoChange(p, "done", None)
           ELSE /\ Commit(p, i, TimerEffect(call[p].op, inc[i], call[p].now))
                /\ Ended(p, "done", None)
                /\ UNCHANGED links
    /\ Elsewhere

-----------------------------------------------------------------------------
(* The correlation worker.                                                 *)

Pending(e) == inbox[e].status \in {"pending", "retrying"}

Arrived == {e \in Events : inbox[e].status # "absent"}

\* The detector's producer adds an event.
enqueue(e) ==
    /\ Cardinality(Arrived) < MaxEvents
    /\ \A d \in Arrived : d < e
    /\ inbox' = [inbox EXCEPT ![e].status = "pending"]
    /\ UNCHANGED <<inc, links, rowLock, alloc, call, todo, disturbances>>

\* Mutant: only events that never failed are claimed.
ClaimableFresh == {e \in Events : inbox[e].status = "pending" /\ inbox[e].due}

Claimable == {e \in Events : Pending(e) /\ inbox[e].due}

claim(w) ==
    /\ call[w].step = "idle" /\ todo[w] = {}
    /\ Claimable # {}
    /\ LET batch == {e \in Claimable : Cardinality({d \in Claimable : d < e}) < Batch}
       IN  /\ todo' = [todo EXCEPT ![w] = batch]
           /\ inbox' = [e \in Events |->
                IF e \in batch THEN [inbox[e] EXCEPT !.holder = w, !.due = FALSE] ELSE inbox[e]]
    /\ UNCHANGED <<inc, links, rowLock, alloc, call, disturbances>>

\* The batch is worked through in inbox order; a payload nobody can read is not ingested.
process_next(w) ==
    /\ call[w].step = "idle"
    /\ \E e \in todo[w] :
        /\ \A d \in todo[w] : e <= d
        /\ \E c \in IF ClassOf[e] = "garbled" THEN {[Call("ingest", e, None) EXCEPT !.step = "failed"]}
                    ELSE Begun(Call("ingest", e, None)) : call' = [call EXCEPT ![w] = c]
        /\ todo' = [todo EXCEPT ![w] = @ \ {e}]
    /\ UNCHANGED <<inc, links, inbox, rowLock, alloc, disturbances>>

Settle(w, row) ==
    LET e == call[w].subject
    IN  /\ inbox' = [inbox EXCEPT ![e] = IF @.holder = w /\ Pending(e) THEN row ELSE @]
        /\ call' = [call EXCEPT ![w] = Idle]
        /\ UNCHANGED <<inc, links, rowLock, alloc, todo, disturbances>>

mark_processed(w) ==
    /\ call[w].step = "done"
    /\ Settle(w, [inbox[call[w].subject] EXCEPT !.status = "processed", !.outcome = call[w].arg,
                                               !.holder = None, !.due = FALSE])

mark_failed(w) ==
    /\ call[w].step = "failed"
    /\ LET e == call[w].subject
           attempts == inbox[e].attempts + 1
           dead == ClassOf[e] = "garbled" \/ attempts >= MaxAttempts
       IN  Settle(w, [inbox[e] EXCEPT !.status = IF dead THEN "dead_letter" ELSE "retrying",
                                      !.attempts = attempts, !.holder = None, !.due = FALSE])

\* The backoff of a failed event ends, or the lease of a worker that is gone runs out.
BecomesDue(e) ==
    /\ Pending(e) /\ ~inbox[e].due
    /\ inbox[e].holder # None =>
          e \notin todo[inbox[e].holder] /\ call[inbox[e].holder].subject # e
    /\ inbox' = [inbox EXCEPT ![e].due = TRUE]
    /\ UNCHANGED <<inc, links, rowLock, alloc, call, todo, disturbances>>

-----------------------------------------------------------------------------
(* The maintenance pass: each timer's query proposes, then each incident   *)
(* it found is a call of its own.                                          *)

Proposed(kind) ==
    {i \in Stored :
        CASE kind = "silent"  -> CanRecover(inc[i]) /\ inc[i].detected >= SilentAfter
          [] kind = "confirm" -> inc[i].state = "recovering" /\ inc[i].recovering >= Confirmation
          [] kind = "expire"  -> inc[i].state = "resolved" /\ ~inc[i].critical
                                 /\ inc[i].resolved >= ClosureDelay}

propose(m) ==
    /\ call[m].step = "idle" /\ todo[m] = {}
    /\ \E kind \in Timers :
        /\ Proposed(kind) # {}
        /\ todo' = [todo EXCEPT ![m] = {kind} \X Proposed(kind)]
    /\ UNCHANGED <<inc, links, inbox, rowLock, alloc, call, disturbances>>

run_next(m) ==
    /\ call[m].step = "idle"
    /\ \E timer \in todo[m] :
        /\ \E c \in Begun(Call(timer[1], timer[2], None)) : call' = [call EXCEPT ![m] = c]
        /\ todo' = [todo EXCEPT ![m] = @ \ {timer}]
    /\ UNCHANGED <<inc, links, inbox, rowLock, alloc, disturbances>>

-----------------------------------------------------------------------------
(* Operators act on the version of the incident they last looked at.       *)

Substance(r) == <<r.key, r.state, r.prior, r.critical, r.retained, r.observed, r.notes>>

Command(o) ==
    /\ call[o].step = "idle"
    /\ Disturb
    /\ \/ \E i \in Stored, op \in Offered :
            call' = [call EXCEPT ![o] = [Call(op, i, inc[i].version) EXCEPT !.seen = Substance(inc[i])]]
       \/ \E key \in Keys, critical \in Severities : call' = [call EXCEPT ![o] = Call("create", key, critical)]
    /\ UNCHANGED <<inc, links, inbox, rowLock, alloc, todo>>

-----------------------------------------------------------------------------
(* Time and faults.                                                        *)

Tick ==
    /\ \A p \in Procs : InTransaction(call[p]) => call[p].now < MaxLag
    /\ inc' = [i \in Ids |-> IF inc[i] = None THEN None ELSE Aged(inc[i])]
    /\ call' = [p \in Procs |->
          IF InTransaction(call[p]) THEN [call[p] EXCEPT !.now = @ + 1] ELSE call[p]]
    /\ UNCHANGED <<links, inbox, rowLock, alloc, todo, disturbances>>

HolderFor(p) ==
    CASE call[p].step = "allocate" -> alloc
      [] call[p].step \in {"active", "again", "reopen", "row"} -> rowLock[call[p].aim]
      [] OTHER -> None

\* PostgreSQL ends a circle of waiting transactions by aborting one of them.
Deadlock(p) ==
    /\ HolderFor(p) \notin {None, p}
    /\ \E S \in SUBSET Procs : p \in S /\ {HolderFor(q) : q \in S} = S
    /\ Rerun(p)
    /\ Elsewhere /\ UNCHANGED <<inc, links>>

\* A statement is cancelled or refused: the call fails, nothing is written.
StatementFails(p) ==
    /\ Disturb
    /\ InTransaction(call[p])
    /\ Fail(p)
    /\ UNCHANGED <<inc, links, inbox, todo>>

\* The process dies or loses its connection, at any point.
Crash(p) ==
    /\ Disturb
    /\ p \in Workers \cup Maintainers
    /\ call[p].step # "idle" \/ todo[p] # {}
    /\ Release(p)
    /\ call' = [call EXCEPT ![p] = Idle]
    /\ todo' = [todo EXCEPT ![p] = {}]
    /\ UNCHANGED <<inc, links, inbox>>

\* A worker is so slow that its lease runs out under it.
LeaseRunsOut(e) ==
    /\ Disturb
    /\ Pending(e) /\ ~inbox[e].due /\ inbox[e].holder # None
    /\ inbox' = [inbox EXCEPT ![e].due = TRUE]
    /\ UNCHANGED <<inc, links, rowLock, alloc, call, todo>>

-----------------------------------------------------------------------------
Load(p) == Begin(p) \/ lock_allocator(p) \/ load_reopen_candidate(p) \/ TakeRow(p)
Decide(p) == ingest_detection_event(p) \/ create_manual_incident(p) \/ handle_command(p) \/ RunTimer(p)
WorkerStep(w) == claim(w) \/ process_next(w) \/ mark_processed(w) \/ mark_failed(w)
MaintainerStep(m) == propose(m) \/ run_next(m)

Next ==
    \/ \E p \in Procs : Load(p) \/ Decide(p) \/ Deadlock(p) \/ StatementFails(p) \/ Crash(p)
    \/ \E w \in Workers : WorkerStep(w)
    \/ \E m \in Maintainers : MaintainerStep(m)
    \/ \E o \in Operators : Command(o)
    \/ \E e \in Events : enqueue(e) \/ BecomesDue(e) \/ LeaseRunsOut(e)
    \/ Tick

Spec == Init /\ [][Next]_vars

\* A waiting lock request is served in turn, so it is taken if it is possible again
\* and again; the loops of the services and the clock go on.
Fairness ==
    /\ \A p \in Procs : SF_vars(Load(p)) /\ WF_vars(Decide(p)) /\ WF_vars(Deadlock(p))
    /\ \A w \in Workers : WF_vars(WorkerStep(w))
    /\ \A m \in Maintainers : WF_vars(MaintainerStep(m))
    /\ \A e \in Events : WF_vars(BecomesDue(e))
    /\ WF_vars(Tick)

FairSpec == Spec /\ Fairness

-----------------------------------------------------------------------------
(* Properties.                                                             *)

Age == Nat \cup {None}
Rows ==
    [key : Keys, state : IncidentState, prior : Active \cup {None}, version : Nat,
     critical : BOOLEAN, opened : Nat, detected : Nat, recovering : Age, resolved : Age,
     closed : Age, retained : SUBSET Events, observed : Nat, notes : Nat, backdated : BOOLEAN]

ASSUME RowsAssumption == None \notin Rows

\* Every variable has its type, and a row lock is held only inside a transaction
\* that has aimed at that row (load.rs takes no other).
IncidentsTypeOK ==
    /\ \A i \in Ids : inc[i] = None \/ inc[i] \in Rows
    /\ links \in [Events -> Ids \cup {None}]
    /\ \A e \in Events :
          /\ inbox[e].status \in {"absent", "pending", "retrying", "processed", "dead_letter"}
          /\ inbox[e].attempts \in 0..MaxAttempts
          /\ inbox[e].holder \in Workers \cup {None}
    /\ rowLock \in [Ids -> Procs \cup {None}]
    /\ alloc \in Procs \cup {None}
    /\ \A i \in Ids : rowLock[i] # None => inc[i] # None /\ InTransaction(call[rowLock[i]])
    /\ alloc # None => InTransaction(call[alloc])

\* An incident's evidence ledger counts exactly the events linked to it, each once,
\* whatever was rerun, claimed twice or cut off by a crash (evidence.rs, flush.rs).
LedgerMatchesLinks ==
    \A i \in Stored :
        LET linked == {e \in Events : links[e] = i}
        IN  /\ inc[i].observed = Cardinality(linked)
            /\ inc[i].retained \subseteq linked
            /\ Cardinality(inc[i].retained) =
                  IF Cardinality(linked) < EvidenceMax THEN Cardinality(linked) ELSE EvidenceMax

\* An event recorded as processed with an outcome that names an incident is linked
\* to one of its own key: a worker never reports work that was rolled back (inbox.rs).
ProcessedIsLinked ==
    \A e \in Events :
        inbox[e].status = "processed" /\ inbox[e].outcome \notin {"quarantined", "observe_only"} =>
            links[e] # None /\ inc[links[e]].key = KeyOf[e]

\* A command that names a version acts on exactly the incident its author was looking
\* at: had anybody changed it since, the version would differ (unit_of_work.rs).
VersionProtects ==
    [][\A o \in Operators, i \in Stored :
          /\ call[o].row = i /\ call[o].op \in Versioned
          /\ inc'[i].version # inc[i].version
          => Substance(inc[i]) = call[o].seen]_vars

\* A timer acts only on an incident that is due when the timer commits, however old
\* the query that proposed it is: news since then keeps it open (maintenance.rs).
TimersActWhenDue ==
    [][\A m \in Maintainers, i \in Stored :
          call[m].row = i /\ inc[i].state # inc'[i].state =>
              i \in Proposed(call[m].op)]_vars

\* Every event that reached the inbox is processed or dead-lettered (inbox.rs).
EventsSettle ==
    \A e \in Events :
        Pending(e) ~> inbox[e].status \in {"processed", "dead_letter"}

\* Once detections stop, every incident that can still be read is resolved, and closed
\* unless it was critical (maintenance.rs).
IncidentsSettle ==
    \A i \in Ids :
        <>[](inc[i] # None /\ Reconstitutes(inc[i]) =>
                inc[i].state = IF inc[i].critical /\ inc[i].state # "closed" THEN "resolved" ELSE "closed")
=============================================================================
