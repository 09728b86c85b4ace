------------------------------ MODULE Storage -------------------------------
(***************************************************************************)
(* The ClickHouse writer of crates/storage: a batch that is flushed by     *)
(* size or age, a bounded retry queue with exponential backoff, and the    *)
(* tick that ties them to the server.  A writer is a record; the tables of *)
(* the collector's exporter each have one.                                 *)
(*                                                                         *)
(* The server (external) answers an insert with "ok" or "failed"; "lost"   *)
(* is an insert that was stored and whose answer never came, which the     *)
(* client cannot tell from a failure.  MergeTree keeps every copy, so a    *)
(* table is a bag of rows.                                                 *)
(***************************************************************************)
EXTENDS Integers, Sequences, SequencesExt, FiniteSetsExt

CONSTANTS
    MaxRows, MaxInterval,                    \* BatchConfig
    MaxPendingBatches, InitialBackoff,       \* RetryConfig
    MaxBackoff, MaxWriteAttempts

ASSUME StorageAssumption ==
    /\ {MaxRows, MaxPendingBatches, MaxWriteAttempts} \subseteq Nat \ {0}
    /\ {MaxInterval, InitialBackoff, MaxBackoff} \subseteq Nat

WriteOutcome == {"ok", "failed", "lost"}

NewWriter(now) ==
    [rows |-> <<>>, window_start |-> now,    \* BatchQueue
     pending |-> <<>>,                       \* RetryQueue
     report |-> [retry_queue_dropped |-> 0, permanently_dropped |-> 0]]

push(w, row) == [w EXCEPT !.rows = Append(@, row)]

should_flush(w, now) ==
    /\ w.rows # <<>>
    /\ Len(w.rows) >= MaxRows \/ now - w.window_start >= MaxInterval

take(w, now) == [w EXCEPT !.rows = <<>>, !.window_start = now]

(* The elements of a sequence at some of its indexes, in their order.      *)
AtIndexes(seq, S) ==
    [n \in 1 .. Cardinality(S) |-> seq[CHOOSE i \in S : Cardinality({j \in S : j < i}) = n - 1]]

DueAt(w, now) == {i \in DOMAIN w.pending : w.pending[i].next_attempt_at <= now}

Due(w, now) == AtIndexes(w.pending, DueAt(w, now))

(* What take_due leaves: the batches whose backoff still runs.             *)
take_due(w, now) ==
    [w EXCEPT !.pending = AtIndexes(@, DOMAIN @ \ DueAt(w, now))]

backoff(attempts) ==
    LET delay == InitialBackoff * 2 ^ attempts
    IN  IF delay < MaxBackoff THEN delay ELSE MaxBackoff

(* A mutant: a full queue gives up its front batch and reports nothing.    *)
requeue_after_failureSilently(w, rows, previous_attempts, now) ==
    LET entry == [rows |-> rows, attempts |-> previous_attempts + 1,
                  next_attempt_at |-> now + backoff(previous_attempts + 1)]
    IN  IF previous_attempts + 1 >= MaxWriteAttempts
        THEN [w EXCEPT !.report.permanently_dropped = @ + 1]
        ELSE [w EXCEPT !.pending = Append(IF Len(@) >= MaxPendingBatches THEN Tail(@)
                                          ELSE @, entry)]

(* A batch that failed again goes to the back with its backoff doubled; a  *)
(* full queue gives up the batch at its front, and the last attempt gives  *)
(* up the batch itself.                                                    *)
requeue_after_failure(w, rows, previous_attempts, now) ==
    LET attempts == previous_attempts + 1
        entry == [rows |-> rows, attempts |-> attempts,
                  next_attempt_at |-> now + backoff(attempts)]
    IN  CASE attempts >= MaxWriteAttempts ->
                [w EXCEPT !.report.permanently_dropped = @ + 1]
          [] attempts < MaxWriteAttempts /\ Len(w.pending) >= MaxPendingBatches ->
                [w EXCEPT !.pending = Append(Tail(@), entry),
                          !.report.retry_queue_dropped = @ + 1]
          [] OTHER ->
                [w EXCEPT !.pending = Append(@, entry)]

(* The server's side of an insert.                                         *)
write_rows(table, rows, outcome) ==
    IF outcome = "failed" THEN table ELSE table (+) SetToBag(ToSet(rows))

(* One insert, and what the writer makes of the answer.  A pair of a       *)
(* writer and its table.                                                   *)
attempt_write(p, rows, attempts, now, outcome) ==
    [writer |-> IF rows = <<>> \/ outcome = "ok" THEN p.writer
                ELSE requeue_after_failure(p.writer, rows, attempts, now),
     table  |-> write_rows(p.table, rows, outcome)]

(* The first half of a tick: the batch, when it is due.                    *)
flush(p, now, outcome) ==
    IF should_flush(p.writer, now)
    THEN attempt_write([p EXCEPT !.writer = take(@, now)], p.writer.rows, 0,
                       now, outcome)
    ELSE p

(* The second half: every retry that is due once the batch was tried (the  *)
(* batch's own failure waits, and may have pushed a due one out).          *)
retry_due(p, now, outcomes) ==
    LET due == Due(p.writer, now)
        after[n \in 0 .. Len(due)] ==
            IF n = 0 THEN [p EXCEPT !.writer = take_due(@, now)]
            ELSE attempt_write(after[n - 1], due[n].rows, due[n].attempts, now, outcomes[n])
    IN  after[Len(due)]

(* A tick, for every answer the server may give to each of its inserts.    *)
tick(p, now) ==
    LET first == IF should_flush(p.writer, now) THEN WriteOutcome ELSE {"ok"}
    IN  UNION {LET f == flush(p, now, o)
               IN  {retry_due(f, now, os) :
                      os \in [DOMAIN Due(f.writer, now) -> WriteOutcome]} :
               o \in first}

(* Every row the writer still holds.                                       *)
HeldBy(w) ==
    ToSet(w.rows) \union UNION {ToSet(b.rows) : b \in ToSet(w.pending)}
==============================================================================
