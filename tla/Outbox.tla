------------------------------- MODULE Outbox -------------------------------
(***************************************************************************)
(* incident_outbox and incident_dead_letter                                *)
(* (crates/incident-postgres/src/outbox.rs, retention.rs): consumers claim *)
(* rows under a lease and mark each published or failed.  Every statement  *)
(* is one transaction, decided by PostgreSQL's clock; a lease and a        *)
(* backoff are flags that time clears.                                     *)
(***************************************************************************)
EXTENDS Naturals, FiniteSets

CONSTANTS
    None,
    Messages,      \* outbox_ids
    Consumers,     \* consumer ids, one per process
    BatchSize, MaxAttempts

ASSUME OutboxAssumption ==
    /\ Messages \subseteq Nat /\ IsFiniteSet(Messages)
    /\ {BatchSize, MaxAttempts} \subseteq Nat \ {0}
    /\ None \notin Consumers \cup Messages

VARIABLES
    outbox,        \* the rows of incident_outbox
    letters        \* the rows of incident_dead_letter: message -> "none", "unreviewed", "reviewed"

ovars == <<outbox, letters>>

Unwritten == [status |-> "absent", attempts |-> 0, locked_by |-> None, lease |-> FALSE, due |-> TRUE]

OutboxInit ==
    /\ outbox = [m \in Messages |-> Unwritten]
    /\ letters = [m \in Messages |-> "none"]

\* The change that a message tells of commits, and the message with it.
append(m) ==
    /\ outbox[m].status = "absent"
    /\ outbox' = [outbox EXCEPT ![m].status = "pending"]
    /\ UNCHANGED letters

Open(m) == outbox[m].status \in {"pending", "retrying"}

Claimable(m) == Open(m) /\ outbox[m].due /\ ~outbox[m].lease

\* The rows one CLAIM takes: the oldest claimable ones.
claim(c) ==
    {m \in Messages : Claimable(m) /\ Cardinality({n \in Messages : n < m /\ Claimable(n)}) < BatchSize}

Lease(c, batch) ==
    /\ outbox' = [m \in Messages |->
                    IF m \in batch THEN [outbox[m] EXCEPT !.locked_by = c, !.lease = TRUE] ELSE outbox[m]]
    /\ UNCHANGED letters

Holds(c, m) == Open(m) /\ outbox[m].locked_by = c

\* Mutant: an outcome is written whoever holds the row.
mark_published_anyway(c, m) ==
    /\ outbox' = [outbox EXCEPT ![m] = [@ EXCEPT !.status = "published", !.locked_by = None, !.lease = FALSE]]
    /\ UNCHANGED letters

\* Nothing changes unless the consumer still holds the row.
mark_published(c, m) ==
    /\ outbox' = IF Holds(c, m)
                 THEN [outbox EXCEPT ![m] = [@ EXCEPT !.status = "published", !.locked_by = None, !.lease = FALSE]]
                 ELSE outbox
    /\ UNCHANGED letters

FailureOutcome(c, m) ==
    IF ~Holds(c, m) THEN "LeaseLost"
    ELSE IF outbox[m].attempts + 1 >= MaxAttempts THEN "DeadLettered" ELSE "Retrying"

\* Retried after a backoff, or at the limit copied to the dead letters.
mark_failed(c, m) ==
    LET limit == FailureOutcome(c, m) = "DeadLettered"
    IN  IF FailureOutcome(c, m) = "LeaseLost" THEN UNCHANGED ovars
        ELSE /\ outbox' = [outbox EXCEPT ![m] =
                             [outbox[m] EXCEPT !.status = IF limit THEN "dead_letter" ELSE "retrying",
                                               !.attempts = @ + 1, !.locked_by = None, !.lease = FALSE,
                                               !.due = limit]]
             /\ letters' = IF limit THEN [letters EXCEPT ![m] = "unreviewed"] ELSE letters

\* available_at or locked_at + lease is reached.
BackoffElapses(m) ==
    /\ ~outbox[m].due
    /\ outbox' = [outbox EXCEPT ![m].due = TRUE]
    /\ UNCHANGED letters

LeaseExpires(m) ==
    /\ outbox[m].lease
    /\ outbox' = [outbox EXCEPT ![m].lease = FALSE]
    /\ UNCHANGED letters

\* Somebody looks at a dead letter (operators do, with SQL).
review(m) ==
    /\ letters[m] = "unreviewed"
    /\ letters' = [letters EXCEPT ![m] = "reviewed"]
    /\ UNCHANGED outbox

\* The incident manager's retention pass reaches a row past its age.
run_retention(m) ==
    \/ /\ outbox[m].status = "published"
       /\ outbox' = [outbox EXCEPT ![m].status = "purged"]
       /\ UNCHANGED letters
    \/ /\ letters[m] = "reviewed"
       /\ letters' = [letters EXCEPT ![m] = "none"]
       /\ UNCHANGED outbox
=============================================================================
