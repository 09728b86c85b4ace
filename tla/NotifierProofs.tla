--------------------------- MODULE NotifierProofs ---------------------------
(***************************************************************************)
(* What holds of Notifier for any notification file, any number of         *)
(* processes and messages, any size of memory and any number of faults:    *)
(* when a channel may be told twice, and that the outbox keeps what        *)
(* OutboxPromise promises, but for its liveness.                           *)
(***************************************************************************)
EXTENDS Notifier, TLAPS

\* The values each variable may have.
Memories ==
    [batch : SUBSET Messages, cur : Messages \cup {None}, left : SUBSET Channels, failed : BOOLEAN,
     done : SUBSET (Messages \X Channels), seen : SUBSET (Channels \X STRING \X STRING),
     told : SUBSET (Messages \X Channels), forgotten : SUBSET (Messages \X Channels)]

Rows ==
    [status : {"absent", "pending", "retrying", "published", "dead_letter", "purged"},
     attempts : Nat, locked_by : Consumers \cup {None}, lease : BOOLEAN, due : BOOLEAN]

NotifierTypeOK ==
    /\ outbox \in [Messages -> Rows]
    /\ mem \in [Consumers -> Memories]
    /\ spent \in [crashes : Nat, errors : Nat, lost : Nat, slow : Nat]

\* A message's routes name channels of the file.
LEMMA AudienceIsChannels ==
    ASSUME NEW m \in Messages
    PROVE  Audience(m) \subseteq Channels
<1>1. ASSUME NEW tenant, NEW event, NEW sev PROVE channels_for(tenant, event, sev) \subseteq Channels
  <2>1. ASSUME NEW p \in Places(tenant, event, sev) PROVE Named(p) \in Channels
    <3>1. PICK i \in DOMAIN File.routes : \E j \in DOMAIN File.routes[i].channels : p = <<i, j>>
      BY DEF Places
    <3>2. File.routes[i].channels \in Seq(Channels)
      BY FileAssumption DEF ValidFile, Channels
    <3> QED BY <3>1, <3>2 DEF Named
  <2> QED BY <2>1 DEF channels_for
<1> QED BY <1>1 DEF Audience, handle_mitigation

\* Of a process's steps, the claim and the mark write to the outbox.
LEMMA WorkOnRows ==
    ASSUME NEW c \in Consumers, Work(c)
    PROVE  Claim(c) \/ mark(c) \/ UNCHANGED outbox
<1>1. ASSUME NEW m \in Messages, handle(c, m) PROVE UNCHANGED outbox
  BY <1>1 DEF handle
<1>2. ASSUME NEW ch \in Channels, Skip(c, ch) \/ Spare(c, ch) PROVE UNCHANGED outbox
  BY <1>2 DEF Skip, Spare
<1>3. ASSUME NEW ch, NEW outcome, NEW recorded, deliver(c, ch, outcome, recorded)
      PROVE  UNCHANGED outbox
  BY <1>3 DEF deliver
<1> QED BY <1>1, <1>2, <1>3 DEF Work, Sends

\* What the store does to a row keeps it a row.
LEMMA RowsStay ==
    ASSUME NotifierTypeOK, NotifierNext
    PROVE  outbox' \in [Messages -> Rows]
<1> DEFINE Goal == outbox' \in [Messages -> Rows]
<1>rows. outbox \in [Messages -> Rows]
  BY DEF NotifierTypeOK
<1>one. ASSUME NEW m \in Messages, NEW r \in Rows, outbox' = [outbox EXCEPT ![m] = r] PROVE Goal
  BY <1>rows, <1>one
<1>1. ASSUME NEW c \in Consumers, Claim(c) PROVE Goal
  <2>1. \A m \in Messages : [outbox[m] EXCEPT !.locked_by = c, !.lease = TRUE] \in Rows
    BY <1>rows DEF Rows
  <2> QED BY <1>1, <1>rows, <2>1 DEF Claim, Lease
<1>2. ASSUME NEW c \in Consumers, mark(c) PROVE Goal
  <2> DEFINE m == mem[c].cur
  <2>1. m \in Messages
    BY <1>2 DEF mark, NotifierTypeOK, Memories
  <2>2. [outbox[m] EXCEPT !.status = "published", !.locked_by = None, !.lease = FALSE] \in Rows
    BY <1>rows, <2>1 DEF Rows
  <2> DEFINE limit == FailureOutcome(c, m) = "DeadLettered"
             failed == [outbox[m] EXCEPT !.status = IF limit THEN "dead_letter" ELSE "retrying",
                                         !.attempts = @ + 1, !.locked_by = None, !.lease = FALSE,
                                         !.due = limit]
  <2>3. failed \in Rows
    <3>1. limit \in BOOLEAN
      OBVIOUS
    <3> HIDE DEF limit
    <3>2. outbox[m] \in Rows /\ outbox[m].attempts + 1 \in Nat
      BY <1>rows, <2>1 DEF Rows
    <3> QED BY <3>1, <3>2 DEF Rows
  <2>4. CASE mark_published(c, m)
    BY <2>1, <2>2, <2>4, <1>rows, <1>one DEF mark_published
  <2>5. CASE mark_failed(c, m)
    <3>1. outbox' = outbox \/ outbox' = [outbox EXCEPT ![m] = failed]
      <4>1. CASE FailureOutcome(c, m) = "LeaseLost"
        BY <2>5, <4>1 DEF mark_failed, ovars
      <4>2. CASE FailureOutcome(c, m) # "LeaseLost"
        BY <2>5, <4>2 DEF mark_failed
      <4> QED BY <4>1, <4>2
    <3> HIDE DEF failed
    <3> QED BY <2>1, <2>3, <3>1, <1>rows, <1>one
  <2> QED BY <1>2, <2>4, <2>5 DEF mark
<1>3. ASSUME NEW m \in Messages, Write(m) \/ Expire(m) \/ Backoff(m) \/ Tend(m) PROVE Goal
  <2>1. /\ [outbox[m] EXCEPT !.status = "pending"] \in Rows /\ [outbox[m] EXCEPT !.lease = FALSE] \in Rows
        /\ [outbox[m] EXCEPT !.due = TRUE] \in Rows /\ [outbox[m] EXCEPT !.status = "purged"] \in Rows
    BY <1>rows DEF Rows
  <2> QED BY <1>3, <2>1, <1>rows, <1>one
          DEF Write, append, Expire, LeaseExpires, Backoff, BackoffElapses, Tend, review, run_retention
<1>4. CASE UNCHANGED outbox
  BY <1>4, <1>rows
<1>5. ASSUME NEW c \in Consumers, Work(c) PROVE Claim(c) \/ mark(c) \/ UNCHANGED outbox
  BY <1>5, WorkOnRows
<1> QED BY <1>1, <1>2, <1>3, <1>4, <1>5 DEF NotifierNext, DatabaseError, Crash

\* What a full memory drops when a channel is done, and what is put in it.
Dropped(c, outcome) ==
    IF outcome \notin {"transient", "lost"} /\ Full(mem[c].done) THEN mem[c].done ELSE {}

Added(c, ch, outcome) == IF outcome \in {"transient", "lost"} THEN {} ELSE {<<mem[c].cur, ch>>}

Confirmed(c, ch, outcome) == IF outcome = "delivered" THEN {<<mem[c].cur, ch>>} ELSE {}

\* What a process remembers after a delivery.
After(c, ch, outcome) ==
    LET m == mem[c].cur
    IN  [mem[c] EXCEPT
            !.left = @ \ {ch},
            !.failed = @ \/ outcome \in {"transient", "lost"},
            !.done = (@ \ Dropped(c, outcome)) \cup Added(c, ch, outcome),
            !.seen = IF outcome = "delivered" THEN @ \cup {Key(ch, m)} ELSE @,
            !.told = @ \cup Confirmed(c, ch, outcome),
            !.forgotten = (@ \cup Dropped(c, outcome)) \ Added(c, ch, outcome)]

\* A process drops its batch and keeps the rest, or forgets everything.
LEMMA DropIsMemory ==
    ASSUME NEW r \in Memories
    PROVE  /\ Drop(r) \in Memories /\ Drop(r).batch = {} /\ Drop(r).cur = None
           /\ Drop(r).done = r.done /\ Drop(r).told = r.told /\ Drop(r).forgotten = r.forgotten
           /\ Notifier_new \in Memories
BY DEF Memories, Drop, Notifier_new

\* It is at the same message still, with one channel less.
AfterFields(c, ch, outcome) ==
    LET r == After(c, ch, outcome)
    IN  /\ r \in Memories
        /\ r.batch = mem[c].batch /\ r.cur = mem[c].cur /\ r.left = mem[c].left \ {ch}
        /\ r.failed = (mem[c].failed \/ outcome \in {"transient", "lost"})
        /\ r.done = (mem[c].done \ Dropped(c, outcome)) \cup Added(c, ch, outcome)
        /\ r.told = mem[c].told \cup Confirmed(c, ch, outcome)
        /\ r.forgotten = (mem[c].forgotten \cup Dropped(c, outcome)) \ Added(c, ch, outcome)

\* That is what a delivery leaves, whatever came of it.
LEMMA AfterIsMemory ==
    ASSUME NotifierTypeOK, NEW c \in Consumers, NEW ch \in Channels, NEW outcome, mem[c].cur # None
    PROVE  AfterFields(c, ch, outcome)
<1>1. mem[c] \in Memories /\ mem[c].cur \in Messages
  BY DEF NotifierTypeOK, Memories
<1>2. Content[mem[c].cur] \in ClaimedMessage
  BY <1>1, ContentAssumption
<1>3. Key(ch, mem[c].cur) \in Channels \X STRING \X STRING
  BY <1>2 DEF Key, ClaimedMessage
<1> DEFINE m == mem[c].cur
           failed == mem[c].failed \/ outcome \in {"transient", "lost"}
           done == (mem[c].done \ Dropped(c, outcome)) \cup Added(c, ch, outcome)
           seen == IF outcome = "delivered" THEN mem[c].seen \cup {Key(ch, m)} ELSE mem[c].seen
           told == mem[c].told \cup Confirmed(c, ch, outcome)
           forgotten == (mem[c].forgotten \cup Dropped(c, outcome)) \ Added(c, ch, outcome)
           r == [mem[c] EXCEPT !.left = @ \ {ch}, !.failed = failed, !.done = done, !.seen = seen,
                               !.told = told, !.forgotten = forgotten]
<1>4. After(c, ch, outcome) = r
  BY Zenon DEF After
<1>5. failed \in BOOLEAN /\ seen \in SUBSET (Channels \X STRING \X STRING)
  BY <1>1, <1>3 DEF Memories
<1>6. /\ done \in SUBSET (Messages \X Channels) /\ told \in SUBSET (Messages \X Channels)
      /\ forgotten \in SUBSET (Messages \X Channels)
  BY <1>1 DEF Memories, Dropped, Added, Confirmed
<1>7. /\ r \in Memories /\ r.batch = mem[c].batch /\ r.cur = m /\ r.left = mem[c].left \ {ch}
      /\ r.failed = failed /\ r.done = done /\ r.told = told /\ r.forgotten = forgotten
  <2> HIDE DEF failed, done, seen, told, forgotten
  <2> QED BY <1>1, <1>5, <1>6 DEF Memories
<1> QED BY <1>4, <1>7 DEF AfterFields

\* A process is told of in one step: its memory becomes r, no other's moves.
LEMMA MemoryMoves ==
    ASSUME NotifierTypeOK, NEW c \in Consumers, NEW r \in Memories, mem' = [mem EXCEPT ![c] = r]
    PROVE  /\ mem' \in [Consumers -> Memories] /\ mem'[c] = r
           /\ \A d \in Consumers \ {c} : mem'[d] = mem[d]
BY DEF NotifierTypeOK

\* The memory of a process after each of its steps.
LEMMA ClaimMoves ==
    ASSUME NotifierTypeOK, NEW c \in Consumers, Claim(c)
    PROVE  /\ mem' = [mem EXCEPT ![c] = [mem[c] EXCEPT !.batch = claim(c)]]
           /\ [mem[c] EXCEPT !.batch = claim(c)] \in Memories
BY DEF Claim, claim, NotifierTypeOK, Memories

\* Taking up a message makes it the current one, or drops the batch.
LEMMA HandleMoves ==
    ASSUME NotifierTypeOK, NEW c \in Consumers, NEW m \in Messages, handle(c, m)
    PROVE  LET r == IF Unreadable(m) THEN Drop(mem[c])
                    ELSE [mem[c] EXCEPT !.cur = m, !.left = Audience(m), !.failed = FALSE]
           IN  r \in Memories /\ mem' = [mem EXCEPT ![c] = r]
<1>1. mem[c] \in Memories
  BY DEF NotifierTypeOK
<1>2. [mem[c] EXCEPT !.cur = m, !.left = Audience(m), !.failed = FALSE] \in Memories
  BY <1>1, AudienceIsChannels DEF Memories
<1> QED BY <1>1, <1>2, DropIsMemory DEF handle

\* Passing over a channel, done or spared, takes it off the list.
LEMMA PassMoves ==
    ASSUME NotifierTypeOK, NEW c \in Consumers, NEW ch \in Channels, Skip(c, ch) \/ Spare(c, ch)
    PROVE  /\ mem' = [mem EXCEPT ![c] = [mem[c] EXCEPT !.left = @ \ {ch}]]
           /\ [mem[c] EXCEPT !.left = @ \ {ch}] \in Memories
<1>1. mem[c] \in Memories
  BY DEF NotifierTypeOK
<1>2. [mem[c] EXCEPT !.left = @ \ {ch}] \in Memories
  BY <1>1 DEF Memories
<1>3. mem' = [mem EXCEPT ![c] = [mem[c] EXCEPT !.left = @ \ {ch}]]
  BY Zenon DEF Skip, Spare
<1> QED BY <1>2, <1>3

\* A delivery leaves what After says, or drops the batch after it.
LEMMA DeliverMoves ==
    ASSUME NotifierTypeOK, NEW c \in Consumers, NEW ch \in Channels, NEW outcome,
           NEW recorded, deliver(c, ch, outcome, recorded)
    PROVE  LET r == IF recorded THEN After(c, ch, outcome) ELSE Drop(After(c, ch, outcome))
           IN  r \in Memories /\ mem' = [mem EXCEPT ![c] = r]
<1>1. mem[c].cur # None
  BY DEF deliver, Turn
<1>2. After(c, ch, outcome) \in Memories /\ Drop(After(c, ch, outcome)) \in Memories
  BY <1>1, AfterIsMemory, DropIsMemory DEF AfterFields
<1>3. mem' = [mem EXCEPT ![c] = IF recorded THEN After(c, ch, outcome) ELSE Drop(After(c, ch, outcome))]
  <2> DEFINE retry == outcome \in {"transient", "lost"}
             m == mem[c].cur
             r == [mem[c] EXCEPT
                    !.left = @ \ {ch},
                    !.failed = @ \/ retry,
                    !.done = (@ \ (IF ~retry /\ Full(mem[c].done) THEN mem[c].done ELSE {}))
                                \cup (IF retry THEN {} ELSE {<<m, ch>>}),
                    !.seen = IF outcome = "delivered" THEN @ \cup {Key(ch, m)} ELSE @,
                    !.told = IF outcome = "delivered" THEN @ \cup {<<m, ch>>} ELSE @,
                    !.forgotten = (@ \cup (IF ~retry /\ Full(mem[c].done) THEN mem[c].done ELSE {}))
                                     \ (IF retry THEN {} ELSE {<<m, ch>>})]
  <2>1. mem' = [mem EXCEPT ![c] = IF recorded THEN r ELSE Drop(r)]
    BY Zenon DEF deliver
  <2>2. r = After(c, ch, outcome)
    <3>1. Dropped(c, outcome) = IF ~retry /\ Full(mem[c].done) THEN mem[c].done ELSE {}
      BY DEF Dropped
    <3>2. Added(c, ch, outcome) = IF retry THEN {} ELSE {<<m, ch>>}
      BY DEF Added
    <3>3. mem[c].told \cup Confirmed(c, ch, outcome)
            = IF outcome = "delivered" THEN mem[c].told \cup {<<m, ch>>} ELSE mem[c].told
      BY DEF Confirmed
    <3> QED BY <3>1, <3>2, <3>3, Zenon DEF After
  <2> QED BY <2>1, <2>2
<1> QED BY <1>2, <1>3

\* What marking leaves of a process's memory.
Marked(c) ==
    LET m == mem[c].cur
    IN  [mem[c] EXCEPT !.batch = @ \ {m}, !.cur = None, !.failed = FALSE,
                       !.done = IF Finished(c, m) THEN {x \in @ : x[1] # m} ELSE @,
                       !.forgotten = @ \cup LostTrack(c, m)]

\* Marking takes the message out of the batch, and out of what is done when
\* it is finished with.
LEMMA MarkMoves ==
    ASSUME NotifierTypeOK, NEW c \in Consumers, mark(c)
    PROVE  /\ Marked(c) \in Memories /\ mem' = [mem EXCEPT ![c] = Marked(c)]
           /\ Marked(c).batch = mem[c].batch \ {mem[c].cur} /\ Marked(c).cur = None
           /\ Marked(c).told = mem[c].told
           /\ Marked(c).forgotten = mem[c].forgotten \cup LostTrack(c, mem[c].cur)
           /\ Marked(c).done = IF Finished(c, mem[c].cur) THEN {x \in mem[c].done : x[1] # mem[c].cur}
                               ELSE mem[c].done
<1>1. mem[c] \in Memories
  BY DEF NotifierTypeOK
<1>2. mem' = [mem EXCEPT ![c] = Marked(c)]
  BY Zenon DEF mark, Marked
<1> DEFINE done == IF Finished(c, mem[c].cur) THEN {x \in mem[c].done : x[1] # mem[c].cur}
                   ELSE mem[c].done
           forgotten == mem[c].forgotten \cup LostTrack(c, mem[c].cur)
           r == [mem[c] EXCEPT !.batch = @ \ {mem[c].cur}, !.cur = None, !.failed = FALSE, !.done = done,
                               !.forgotten = forgotten]
<1>3. Marked(c) = r
  BY Zenon DEF Marked
<1>4. done \in SUBSET (Messages \X Channels) /\ forgotten \in SUBSET (Messages \X Channels)
  BY <1>1 DEF Memories, LostTrack
<1>5. /\ r \in Memories /\ r.batch = mem[c].batch \ {mem[c].cur} /\ r.cur = None
      /\ r.told = mem[c].told /\ r.done = done /\ r.forgotten = forgotten
  <2> HIDE DEF done, forgotten
  <2> QED BY <1>1, <1>4 DEF Memories
<1> QED BY <1>2, <1>3, <1>5

\* Faults are counted.
Spends == spent' \in [crashes : Nat, errors : Nat, lost : Nat, slow : Nat]

\* Every step leaves a count of them.
LEMMA SpentCounts ==
    ASSUME NotifierTypeOK, NotifierNext
    PROVE  Spends
<1> DEFINE Counts == [crashes : Nat, errors : Nat, lost : Nat, slow : Nat]
<1>s. spent \in Counts
  BY DEF NotifierTypeOK
<1>u. CASE UNCHANGED spent
  BY <1>s, <1>u DEF Spends
<1>1. ASSUME NEW c \in Consumers, Work(c) PROVE Spends
  <2>1. ASSUME NEW ch, NEW outcome, NEW recorded, deliver(c, ch, outcome, recorded)
        PROVE  Spends
    <3> DEFINE lost == IF outcome = "lost" THEN spent.lost + 1 ELSE spent.lost
               errors == IF recorded THEN spent.errors ELSE spent.errors + 1
    <3>1. spent' = [spent EXCEPT !.lost = lost, !.errors = errors]
      BY <2>1 DEF deliver
    <3>2. lost \in Nat /\ errors \in Nat
      BY <1>s
    <3> HIDE DEF lost, errors
    <3> QED BY <1>s, <3>1, <3>2 DEF Spends
  <2>2. \/ UNCHANGED spent
        \/ \E ch, outcome, recorded : deliver(c, ch, outcome, recorded)
    BY <1>1 DEF Work, Sends, Claim, mark, handle, Skip, Spare
  <2> QED BY <2>1, <2>2, <1>u
<1>2. ASSUME NEW c \in Consumers, DatabaseError(c) \/ Crash(c) PROVE Spends
  BY <1>s, <1>2 DEF DatabaseError, Crash, Spends
<1>3. ASSUME NEW m \in Messages, Write(m) \/ Expire(m) \/ Backoff(m) \/ Tend(m) PROVE Spends
  <2>1. \/ UNCHANGED spent
        \/ spent' = [spent EXCEPT !.slow = @ + 1]
    BY <1>3 DEF Write, Expire, Backoff, Tend
  <2> QED BY <1>s, <2>1 DEF Spends
<1> QED BY <1>1, <1>2, <1>3 DEF NotifierNext

\* A step keeps the types.
LEMMA TypeStep ==
    ASSUME NotifierTypeOK, [NotifierNext]_nvars
    PROVE  NotifierTypeOK'
<1>u. CASE UNCHANGED nvars
  BY <1>u DEF NotifierTypeOK, nvars
<1> SUFFICES ASSUME NotifierNext PROVE NotifierTypeOK'
  BY <1>u
<1>1. outbox' \in [Messages -> Rows]
  BY RowsStay
<1>2. spent' \in [crashes : Nat, errors : Nat, lost : Nat, slow : Nat]
  BY SpentCounts DEF Spends
<1> DEFINE Goal == mem' \in [Consumers -> Memories]
<1>3. ASSUME NEW c \in Consumers, NEW r \in Memories, mem' = [mem EXCEPT ![c] = r] PROVE Goal
  BY <1>3, MemoryMoves
<1>4. ASSUME NEW c \in Consumers, NEW ch \in Channels, NEW outcome, NEW recorded,
             deliver(c, ch, outcome, recorded)
      PROVE  Goal
  BY <1>4, DeliverMoves, MemoryMoves
<1>5. ASSUME NEW c \in Consumers, Work(c) PROVE Goal
  <2>1. CASE Claim(c)
    BY <2>1, ClaimMoves, <1>3 DEF Claim
  <2>2. CASE mark(c)
    BY <2>2, MarkMoves, <1>3 DEF mark
  <2>3. ASSUME NEW m \in Messages, handle(c, m) PROVE Goal
    <3> DEFINE r == IF Unreadable(m) THEN Drop(mem[c])
                    ELSE [mem[c] EXCEPT !.cur = m, !.left = Audience(m), !.failed = FALSE]
    <3>2. r \in Memories /\ mem' = [mem EXCEPT ![c] = r]
      BY <2>3, HandleMoves
    <3> HIDE DEF r
    <3> QED BY <3>2, <1>3
  <2>4. ASSUME NEW ch \in Channels, Skip(c, ch) \/ Spare(c, ch) PROVE Goal
    BY <2>4, PassMoves, <1>3
  <2> QED BY <1>5, <2>1, <2>2, <2>3, <2>4, <1>4 DEF Work, Sends
<1>6. ASSUME NEW c \in Consumers, DatabaseError(c) \/ Crash(c) PROVE Goal
  <2>1. Drop(mem[c]) \in Memories /\ Notifier_new \in Memories
    BY DropIsMemory DEF NotifierTypeOK
  <2>2. mem' = [mem EXCEPT ![c] = Drop(mem[c])] \/ mem' = [mem EXCEPT ![c] = Notifier_new]
    BY <1>6 DEF DatabaseError, Crash
  <2> QED BY <2>1, <2>2, <1>3
<1>7. ASSUME NEW m \in Messages, Write(m) \/ Expire(m) \/ Backoff(m) \/ Tend(m) PROVE Goal
  BY <1>7 DEF Write, Expire, Backoff, Tend, NotifierTypeOK
<1>8. Goal
  BY <1>5, <1>6, <1>7 DEF NotifierNext
<1> QED BY <1>1, <1>2, <1>8 DEF NotifierTypeOK

\* The outbox starts empty, and every process with nothing in memory.
LEMMA TypeInit ==
    ASSUME NotifierInit
    PROVE  NotifierTypeOK
<1>1. Unwritten \in Rows
  BY DEF Unwritten, Rows
<1>2. Notifier_new \in Memories
  BY DEF Notifier_new, Memories
<1>3. outbox \in [Messages -> Rows] /\ mem \in [Consumers -> Memories]
  BY <1>1, <1>2 DEF NotifierInit, OutboxInit
<1> QED BY <1>3 DEF NotifierInit, NotifierTypeOK

\* The rows, the processes' memories and the counters have their types,
\* whatever order the processes, the faults and the clock come in.
THEOREM NotifierTypeCorrect == NotifierSpec => []NotifierTypeOK
BY TypeInit, TypeStep, PTL DEF NotifierSpec

\* The rows no consumer will be given again.
Settled == {"published", "dead_letter", "purged"}

\* What a process is at belongs to its batch, and what it has claimed was
\* written.
AtWork(c) ==
    /\ mem[c].cur # None => mem[c].cur \in mem[c].batch
    /\ \A m \in mem[c].batch : outbox[m].status # "absent"

\* A channel is done with a message, or passed over on the way to publishing
\* it, only when something became of the message there.
Accounts(c) ==
    /\ mem[c].done \subseteq accounted
    /\ mem[c].cur # None /\ ~mem[c].failed =>
          \A ch \in Audience(mem[c].cur) \ mem[c].left : <<mem[c].cur, ch>> \in accounted

\* Strengthened from the promise: what each process knows and has accounted for.
KeepsAccounts == \A c \in Consumers : AtWork(c) /\ Accounts(c)

\* What a channel acknowledged, and the process did not have to forget, is
\* done, or its message is settled and not in the batch.
Remembers(c) ==
    \A x \in mem[c].told \ mem[c].forgotten :
        x \in mem[c].done \/ (outbox[x[1]].status \in Settled /\ x[1] \notin mem[c].batch)

\* Strengthened from RetriesOnlyTheFailed: so it is in every process.
TellsOnce == \A c \in Consumers : Remembers(c)

\* What marking a row that the process holds comes to.
MarkEnds(c) ==
    LET m == mem[c].cur
    IN  /\ outbox'[m].status \in {"published", "dead_letter", "retrying"}
        /\ Finished(c, m) => outbox'[m].status \in Settled

\* What is forgotten of a message that was held is settled.
LEMMA MarkEndsHolds ==
    ASSUME NotifierTypeOK, NEW c \in Consumers, mark(c), Holds(c, mem[c].cur)
    PROVE  MarkEnds(c)
<1> DEFINE m == mem[c].cur
<1>1. m \in Messages
  BY DEF mark, NotifierTypeOK, Memories
<1>rows. outbox \in [Messages -> Rows] /\ outbox[m] \in Rows
  BY <1>1 DEF NotifierTypeOK
<1>2. CASE ~mem[c].failed
  <2>1. outbox' = [outbox EXCEPT ![m] = [outbox[m] EXCEPT !.status = "published", !.locked_by = None,
                                                          !.lease = FALSE]]
    BY <1>2 DEF mark, mark_published
  <2> QED BY <2>1, <1>1, <1>rows DEF Rows, Settled, MarkEnds
<1>3. CASE mem[c].failed
  <2> DEFINE limit == FailureOutcome(c, m) = "DeadLettered"
             status == IF limit THEN "dead_letter" ELSE "retrying"
  <2>1. FailureOutcome(c, m) # "LeaseLost"
    BY DEF FailureOutcome
  <2>2. outbox' = [outbox EXCEPT ![m] =
                     [outbox[m] EXCEPT !.status = status, !.attempts = @ + 1, !.locked_by = None,
                                       !.lease = FALSE, !.due = limit]]
    BY <1>3, <2>1 DEF mark, mark_failed
  <2>3. Finished(c, m) <=> limit
    BY <1>3 DEF Finished
  <2> HIDE DEF limit
  <2>4. outbox'[m].status = status
    BY <2>2, <1>1, <1>rows DEF Rows
  <2> QED BY <2>3, <2>4 DEF Settled, MarkEnds
<1> QED BY <1>2, <1>3

\* What a step may do to a row: write it, settle or retry it while it is
\* open, or take it away once it is published.
StatusMoves(m) ==
    \/ outbox'[m].status = outbox[m].status
    \/ outbox[m].status = "absent" /\ outbox'[m].status = "pending"
    \/ Open(m) /\ outbox'[m].status \in {"published", "dead_letter", "retrying"}
    \/ outbox[m].status = "published" /\ outbox'[m].status = "purged"

\* Every step does that, or leaves the row where it stands.
LEMMA StatusMovesHolds ==
    ASSUME NotifierTypeOK, NotifierNext, NEW m \in Messages
    PROVE  StatusMoves(m)
<1>rows. outbox \in [Messages -> Rows] /\ outbox[m] \in Rows
  BY DEF NotifierTypeOK
<1>u. CASE outbox'[m] = outbox[m]
  BY <1>u DEF StatusMoves
<1>1. ASSUME NEW c \in Consumers, Claim(c) PROVE StatusMoves(m)
  <2>1. CASE m \in claim(c)
    <3>1. outbox'[m] = [outbox[m] EXCEPT !.locked_by = c, !.lease = TRUE]
      BY <1>1, <2>1 DEF Claim, Lease
    <3> QED BY <3>1, <1>rows DEF StatusMoves, Rows
  <2>2. CASE m \notin claim(c)
    BY <1>1, <2>2, <1>u DEF Claim, Lease
  <2> QED BY <2>1, <2>2
<1>2. ASSUME NEW c \in Consumers, mark(c) PROVE StatusMoves(m)
  <2> DEFINE n == mem[c].cur
  <2>1. n \in Messages
    BY <1>2 DEF mark, NotifierTypeOK, Memories
  <2>2. CASE outbox' = outbox \/ n # m
    <3>1. outbox' = outbox \/ \E r : outbox' = [outbox EXCEPT ![n] = r]
      BY <1>2 DEF mark, mark_published, mark_failed, ovars
    <3> QED BY <2>2, <3>1, <2>1, <1>rows, <1>u
  <2>3. CASE outbox' # outbox /\ n = m
    <3>1. Holds(c, m)
      BY <1>2, <2>3 DEF mark, mark_published, mark_failed, FailureOutcome, ovars
    <3>2. MarkEnds(c)
      BY <1>2, <2>3, <3>1, MarkEndsHolds
    <3> QED BY <2>3, <3>1, <3>2 DEF StatusMoves, MarkEnds, Holds
  <2> QED BY <2>2, <2>3
<1>3. ASSUME NEW n \in Messages, Write(n) \/ Expire(n) \/ Backoff(n) \/ Tend(n) PROVE StatusMoves(m)
  BY <1>3, <1>rows DEF Write, append, Expire, LeaseExpires, Backoff, BackoffElapses, Tend, review,
                       run_retention, StatusMoves, Rows
<1>4. ASSUME NEW c \in Consumers, Work(c) PROVE Claim(c) \/ mark(c) \/ UNCHANGED outbox
  BY <1>4, WorkOnRows
<1> QED BY <1>u, <1>1, <1>2, <1>3, <1>4 DEF NotifierNext, DatabaseError, Crash

\* A row once written stays written, and a settled row settled.
LEMMA RowsLast ==
    ASSUME NotifierTypeOK, NotifierNext, NEW m \in Messages
    PROVE  /\ outbox[m].status # "absent" => outbox'[m].status # "absent"
           /\ outbox[m].status \in Settled => outbox'[m].status \in Settled
BY StatusMovesHolds DEF StatusMoves, Settled, Open

\* What was accounted for stays so.
LEMMA AccountedGrows ==
    ASSUME NotifierNext
    PROVE  accounted \subseteq accounted'
<1>1. ASSUME NEW c, NEW ch, NEW outcome, NEW recorded,
             deliver(c, ch, outcome, recorded)
      PROVE  accounted \subseteq accounted'
  BY <1>1 DEF deliver
<1>2. ASSUME NEW c \in Consumers, Work(c) PROVE accounted \subseteq accounted'
  BY <1>1, <1>2 DEF Work, Sends, Claim, mark, handle, Skip, Spare
<1> QED BY <1>2 DEF NotifierNext, DatabaseError, Crash, Write, Expire, Backoff, Tend

\* A process whose memory does not move keeps its accounts.
LEMMA BystandersKeep ==
    ASSUME NotifierTypeOK, NotifierNext, NEW d \in Consumers, AtWork(d), Accounts(d), mem'[d] = mem[d]
    PROVE  AtWork(d)' /\ Accounts(d)'
<1>1. mem[d].batch \subseteq Messages
  BY DEF NotifierTypeOK, Memories
<1> QED BY <1>1, RowsLast, AccountedGrows DEF AtWork, Accounts

\* So does one that drops its batch, whatever it remembers of it.
LEMMA DroppersKeep ==
    ASSUME NEW d \in Consumers, mem'[d].batch = {}, mem'[d].cur = None, mem'[d].done \subseteq accounted'
    PROVE  AtWork(d)' /\ Accounts(d)'
BY DEF AtWork, Accounts

\* A delivery accounts for the channel, or leaves the message failed.
LEMMA DeliveryAccounts ==
    ASSUME NotifierTypeOK, NotifierNext, NEW c \in Consumers, AtWork(c), Accounts(c),
           NEW ch \in Channels, NEW outcome, NEW recorded \in BOOLEAN,
           deliver(c, ch, outcome, recorded)
    PROVE  AtWork(c)' /\ Accounts(c)'
<1> DEFINE r == After(c, ch, outcome)
           m == mem[c].cur
           retry == outcome \in {"transient", "lost"}
<1>1. /\ r \in Memories /\ r.batch = mem[c].batch /\ r.cur = m /\ r.left = mem[c].left \ {ch}
      /\ r.failed = (mem[c].failed \/ retry)
      /\ r.done = (mem[c].done \ Dropped(c, outcome)) \cup Added(c, ch, outcome)
  <2>1. mem[c].cur # None
    BY DEF deliver, Turn
  <2>2. AfterFields(c, ch, outcome)
    BY <2>1, AfterIsMemory
  <2> QED BY <2>2, Zenon DEF AfterFields
<1>2. accounted \subseteq accounted' /\ (~retry => <<m, ch>> \in accounted')
  BY DEF deliver
<1>3. r.done \subseteq accounted'
  BY <1>1, <1>2 DEF Accounts, Added
<1>4. CASE recorded
  <2>1. mem'[c] = r
    <3>1. mem' = [mem EXCEPT ![c] = IF recorded THEN r ELSE Drop(r)]
      BY DeliverMoves
    <3>2. mem' = [mem EXCEPT ![c] = r]
      BY <1>4, <3>1
    <3> HIDE DEF r
    <3> QED BY <1>1, <3>2, MemoryMoves
  <2>2. m \in mem[c].batch /\ mem[c].batch \subseteq Messages /\ m # None
    BY DEF deliver, Turn, AtWork, NotifierTypeOK, Memories
  <2>3. AtWork(c)'
    BY <2>1, <2>2, <1>1, RowsLast DEF AtWork
  <2>4. ASSUME ~r.failed, NEW x \in Audience(m) \ r.left PROVE <<m, x>> \in accounted'
    <3>1. ~mem[c].failed /\ ~retry
      BY <1>1, <2>4
    <3> HIDE DEF retry
    <3>2. CASE x = ch
      BY <3>1, <3>2, <1>2
    <3>3. CASE x # ch
      BY <3>1, <3>3, <1>1, <1>2, <2>2, <2>4 DEF Accounts
    <3> QED BY <3>2, <3>3
  <2> HIDE DEF r
  <2> QED BY <2>1, <2>3, <2>4, <1>1, <1>3 DEF Accounts
<1>5. CASE ~recorded
  <2>1. mem'[c] = Drop(r)
    BY <1>1, <1>5, DeliverMoves, MemoryMoves, DropIsMemory
  <2> HIDE DEF r
  <2> QED BY <2>1, <1>1, <1>3, DropIsMemory, DroppersKeep
<1> QED BY <1>4, <1>5

\* Each of the other steps of a process keeps its accounts.
LEMMA WorkAccounts ==
    ASSUME NotifierTypeOK, NotifierNext, NEW c \in Consumers, AtWork(c), Accounts(c),
           Work(c) \/ DatabaseError(c) \/ Crash(c)
    PROVE  AtWork(c)' /\ Accounts(c)'
<1> DEFINE Goal == AtWork(c)' /\ Accounts(c)'
<1>m. mem[c] \in Memories
  BY DEF NotifierTypeOK
<1>1. CASE Claim(c)
  <2> DEFINE r == [mem[c] EXCEPT !.batch = claim(c)]
  <2>1. mem'[c] = r /\ r \in Memories
    BY <1>1, ClaimMoves, MemoryMoves
  <2>2. /\ r.batch = claim(c) /\ r.cur = mem[c].cur /\ r.left = mem[c].left
        /\ r.failed = mem[c].failed /\ r.done = mem[c].done
    BY <1>m DEF Memories
  <2>3. mem[c].cur = None
    BY <1>1 DEF Claim, AtWork
  <2>4. \A m \in claim(c) : m \in Messages /\ outbox[m].status # "absent"
    BY DEF claim, Claimable, Open
  <2> HIDE DEF r
  <2> QED BY <2>1, <2>2, <2>3, <2>4, RowsLast, AccountedGrows DEF AtWork, Accounts
<1>2. CASE mark(c)
  <2>1. mem'[c] = Marked(c)
    BY <1>2, MarkMoves, MemoryMoves
  <2>2. /\ mem'[c].batch = mem[c].batch \ {mem[c].cur} /\ mem'[c].cur = None
        /\ mem'[c].done \subseteq mem[c].done
    BY <1>2, <2>1, MarkMoves
  <2>3. mem[c].batch \subseteq Messages
    BY <1>m DEF Memories
  <2> QED BY <2>2, <2>3, RowsLast, AccountedGrows DEF AtWork, Accounts
<1>3. ASSUME NEW m \in Messages, handle(c, m) PROVE Goal
  <2> DEFINE r == [mem[c] EXCEPT !.cur = m, !.left = Audience(m), !.failed = FALSE]
  <2>1. mem' = [mem EXCEPT ![c] = IF Unreadable(m) THEN Drop(mem[c]) ELSE r]
    BY <1>3, HandleMoves
  <2>2. CASE Unreadable(m)
    <3>1. mem'[c] = Drop(mem[c])
      BY <2>1, <2>2, <1>m, DropIsMemory, MemoryMoves
    <3> QED BY <3>1, <1>m, DropIsMemory, DroppersKeep, AccountedGrows DEF Accounts
  <2>3. CASE ~Unreadable(m)
    <3>1. mem'[c] = r
      BY <2>1, <2>3 DEF NotifierTypeOK
    <3>2. /\ r.batch = mem[c].batch /\ r.cur = m /\ r.left = Audience(m) /\ r.done = mem[c].done
      BY <1>m DEF Memories
    <3>3. m \in mem[c].batch /\ mem[c].batch \subseteq Messages
      BY <1>3, <1>m DEF handle, Memories
    <3> HIDE DEF r
    <3> QED BY <3>1, <3>2, <3>3, RowsLast, AccountedGrows DEF AtWork, Accounts
  <2> QED BY <2>2, <2>3
<1>4. ASSUME NEW ch \in Channels, Skip(c, ch) \/ Spare(c, ch) PROVE Goal
  <2> DEFINE r == [mem[c] EXCEPT !.left = @ \ {ch}]
             m == mem[c].cur
  <2>1. mem'[c] = r
    BY <1>4, PassMoves, MemoryMoves
  <2>2. /\ r.batch = mem[c].batch /\ r.cur = m /\ r.left = mem[c].left \ {ch}
        /\ r.failed = mem[c].failed /\ r.done = mem[c].done
    BY <1>m DEF Memories
  <2>3. <<m, ch>> \in accounted'
    BY <1>4, AccountedGrows DEF Skip, Spare, Accounts
  <2>4. mem[c].batch \subseteq Messages
    BY <1>m DEF Memories
  <2> HIDE DEF r
  <2>5. AtWork(c)'
    BY <2>1, <2>2, <2>4, RowsLast DEF AtWork
  <2> QED BY <2>1, <2>2, <2>3, <2>5, AccountedGrows DEF Accounts
<1>5. CASE DatabaseError(c) \/ Crash(c)
  <2>1. mem'[c] = Drop(mem[c]) \/ mem'[c] = Notifier_new
    BY <1>5 DEF DatabaseError, Crash, NotifierTypeOK
  <2>2. mem'[c].batch = {} /\ mem'[c].cur = None /\ mem'[c].done \subseteq mem[c].done
    BY <2>1, <1>m, DropIsMemory DEF Notifier_new
  <2> QED BY <2>2, DroppersKeep, AccountedGrows DEF Accounts
<1>6. CASE Work(c)
  BY <1>1, <1>2, <1>3, <1>4, <1>6, DeliveryAccounts DEF Work, Sends
<1> QED BY <1>5, <1>6

\* No step of one process moves the memory of another.
LEMMA OthersStill ==
    ASSUME NotifierTypeOK, NEW c \in Consumers, Work(c) \/ DatabaseError(c) \/ Crash(c)
    PROVE  \A d \in Consumers \ {c} : mem'[d] = mem[d]
<1> SUFFICES ASSUME NEW d \in Consumers \ {c} PROVE mem'[d] = mem[d]
  OBVIOUS
<1>1. ASSUME NEW r, mem' = [mem EXCEPT ![c] = r] PROVE mem'[d] = mem[d]
  BY <1>1 DEF NotifierTypeOK
<1>2. CASE Claim(c) \/ mark(c)
  BY <1>2 DEF Claim, mark, NotifierTypeOK
<1>3. ASSUME NEW m \in Messages, handle(c, m) PROVE mem'[d] = mem[d]
  BY <1>1, <1>3, HandleMoves
<1>4. ASSUME NEW ch \in Channels, Skip(c, ch) \/ Spare(c, ch) PROVE mem'[d] = mem[d]
  BY <1>1, <1>4, PassMoves
<1>5. ASSUME NEW ch \in Channels, NEW outcome, NEW recorded,
             deliver(c, ch, outcome, recorded)
      PROVE  mem'[d] = mem[d]
  BY <1>1, <1>5, DeliverMoves
<1>6. CASE DatabaseError(c) \/ Crash(c)
  BY <1>1, <1>6 DEF DatabaseError, Crash
<1> QED BY <1>2, <1>3, <1>4, <1>5, <1>6 DEF Work, Sends

\* Every step keeps the accounts of every process.
LEMMA AccountsStep ==
    ASSUME NotifierTypeOK, KeepsAccounts, [NotifierNext]_nvars
    PROVE  KeepsAccounts'
<1>u. CASE UNCHANGED nvars
  BY <1>u DEF KeepsAccounts, AtWork, Accounts, nvars
<1> SUFFICES ASSUME NotifierNext, NEW d \in Consumers PROVE AtWork(d)' /\ Accounts(d)'
  BY <1>u DEF KeepsAccounts
<1>1. AtWork(d) /\ Accounts(d)
  BY DEF KeepsAccounts
<1>2. CASE Work(d) \/ DatabaseError(d) \/ Crash(d)
  BY <1>1, <1>2, WorkAccounts
<1>3. CASE mem'[d] = mem[d]
  BY <1>1, <1>3, BystandersKeep
<1>4. CASE \E m \in Messages : Write(m) \/ Expire(m) \/ Backoff(m) \/ Tend(m)
  BY <1>3, <1>4 DEF Write, Expire, Backoff, Tend
<1> QED BY <1>2, <1>3, <1>4, OthersStill DEF NotifierNext

\* A process whose memory does not move still remembers.
LEMMA BystandersRemember ==
    ASSUME NotifierTypeOK, NotifierNext, NEW d \in Consumers, Remembers(d), mem'[d] = mem[d]
    PROVE  Remembers(d)'
<1>1. \A x \in mem[d].told : x[1] \in Messages
  BY DEF NotifierTypeOK, Memories
<1> QED BY <1>1, RowsLast DEF Remembers

\* So does one that claims: what it claims is open, so nothing settled.
LEMMA ClaimRemembers ==
    ASSUME NotifierTypeOK, NotifierNext, NEW d \in Consumers, Remembers(d), Claim(d)
    PROVE  Remembers(d)'
<1>m. mem[d] \in Memories /\ \A x \in mem[d].told : x[1] \in Messages
  BY DEF NotifierTypeOK, Memories
<1> DEFINE r == [mem[d] EXCEPT !.batch = claim(d)]
<1>1. mem'[d] = r
  BY ClaimMoves, MemoryMoves
<1>2. r.batch = claim(d) /\ r.told = mem[d].told /\ r.done = mem[d].done /\ r.forgotten = mem[d].forgotten
  BY <1>m DEF Memories
<1> HIDE DEF r
<1>3. \A m \in claim(d) : outbox[m].status \notin Settled
  BY DEF claim, Claimable, Open, Settled
<1> QED BY <1>1, <1>2, <1>3, <1>m, RowsLast DEF Remembers

\* What marking forgets is settled, unless the row was another's by then.
LEMMA MarkRemembers ==
    ASSUME NotifierTypeOK, NotifierNext, NEW d \in Consumers, Remembers(d), mark(d)
    PROVE  Remembers(d)'
<1>m. \A x \in mem[d].told : x[1] \in Messages
  BY DEF NotifierTypeOK, Memories
<1> DEFINE m == mem[d].cur
<1>1. /\ mem'[d].batch = mem[d].batch \ {m} /\ mem'[d].told = mem[d].told
      /\ mem'[d].forgotten = mem[d].forgotten \cup LostTrack(d, m)
      /\ mem'[d].done = IF Finished(d, m) THEN {x \in mem[d].done : x[1] # m} ELSE mem[d].done
  BY MarkMoves, MemoryMoves
<1>2. ASSUME NEW x \in mem'[d].told \ mem'[d].forgotten
      PROVE  x \in mem'[d].done \/ (outbox'[x[1]].status \in Settled /\ x[1] \notin mem'[d].batch)
  <2>1. CASE x \notin mem[d].done
    BY <1>1, <1>2, <1>m, <2>1, RowsLast DEF Remembers
  <2>2. CASE x \in mem[d].done /\ Finished(d, m) /\ x[1] = m
    <3>1. Holds(d, m)
      BY <1>1, <1>2, <2>2 DEF LostTrack, Finished, FailureOutcome
    <3>2. outbox'[m].status \in Settled
      BY <2>2, <3>1, MarkEndsHolds DEF MarkEnds
    <3> QED BY <1>1, <2>2, <3>2
  <2>3. CASE x \in mem[d].done /\ ~(Finished(d, m) /\ x[1] = m)
    BY <1>1, <2>3
  <2> QED BY <2>1, <2>2, <2>3
<1> QED BY <1>2 DEF Remembers

\* What a delivery drops from a full memory it counts as forgotten, and what
\* it is told of it remembers.
LEMMA DeliveryRemembers ==
    ASSUME NotifierTypeOK, NEW c \in Consumers, Remembers(c), NEW ch \in Channels, NEW outcome,
           NEW recorded \in BOOLEAN, deliver(c, ch, outcome, recorded)
    PROVE  Remembers(c)'
<1> DEFINE r == After(c, ch, outcome)
<1>1. mem[c].cur # None /\ UNCHANGED outbox
  BY DEF deliver, Turn
<1>2. AfterFields(c, ch, outcome)
  BY <1>1, AfterIsMemory
<1>3. /\ r \in Memories /\ r.batch = mem[c].batch
      /\ r.done = (mem[c].done \ Dropped(c, outcome)) \cup Added(c, ch, outcome)
      /\ r.told = mem[c].told \cup Confirmed(c, ch, outcome)
      /\ r.forgotten = (mem[c].forgotten \cup Dropped(c, outcome)) \ Added(c, ch, outcome)
  BY <1>2, Zenon DEF AfterFields
<1>4. mem' = [mem EXCEPT ![c] = IF recorded THEN r ELSE Drop(r)]
  BY DeliverMoves
<1> HIDE DEF r
<1>5. mem'[c] = IF recorded THEN r ELSE Drop(r)
  BY <1>4 DEF NotifierTypeOK
<1>6. /\ mem'[c].batch \subseteq mem[c].batch /\ mem'[c].done = r.done /\ mem'[c].told = r.told
      /\ mem'[c].forgotten = r.forgotten
  BY <1>3, <1>5, DropIsMemory
<1>7. Confirmed(c, ch, outcome) \subseteq Added(c, ch, outcome)
  BY DEF Confirmed, Added
<1>8. ASSUME NEW x \in r.told \ r.forgotten
      PROVE  x \in r.done \/ (outbox[x[1]].status \in Settled /\ x[1] \notin mem[c].batch)
  <2>1. CASE x \in Added(c, ch, outcome)
    BY <2>1, <1>3
  <2>2. CASE x \notin Added(c, ch, outcome)
    <3>1. x \in mem[c].told \ mem[c].forgotten /\ x \notin Dropped(c, outcome)
      BY <1>3, <1>7, <1>8, <2>2
    <3> QED BY <1>3, <3>1 DEF Remembers
  <2> QED BY <2>1, <2>2
<1> QED BY <1>1, <1>6, <1>8 DEF Remembers

\* The steps that leave what is done as it is, or forget the whole life.
LEMMA QuietRemembers ==
    ASSUME NotifierTypeOK, NEW d \in Consumers, Remembers(d),
           \/ DatabaseError(d) \/ Crash(d)
           \/ \E m \in Messages : handle(d, m)
           \/ \E ch \in Channels : Skip(d, ch) \/ Spare(d, ch)
    PROVE  Remembers(d)'
<1>m. mem[d] \in Memories
  BY DEF NotifierTypeOK
<1>o. UNCHANGED outbox
  BY DEF DatabaseError, Crash, handle, Skip, Spare
<1>same. ASSUME mem'[d].batch \subseteq mem[d].batch, mem'[d].done = mem[d].done,
                mem'[d].told = mem[d].told, mem'[d].forgotten = mem[d].forgotten
         PROVE  Remembers(d)'
  BY <1>same, <1>o DEF Remembers
<1>1. ASSUME NEW m \in Messages, handle(d, m) PROVE Remembers(d)'
  <2> DEFINE r == [mem[d] EXCEPT !.cur = m, !.left = Audience(m), !.failed = FALSE]
  <2>1. mem'[d] = Drop(mem[d]) \/ mem'[d] = r
    <3>1. mem' = [mem EXCEPT ![d] = IF Unreadable(m) THEN Drop(mem[d]) ELSE r]
      BY <1>1, HandleMoves
    <3> HIDE DEF r
    <3> QED BY <3>1 DEF NotifierTypeOK
  <2>2. /\ r.batch = mem[d].batch /\ r.told = mem[d].told /\ r.done = mem[d].done
        /\ r.forgotten = mem[d].forgotten
    BY <1>m DEF Memories
  <2> HIDE DEF r
  <2> QED BY <2>1, <2>2, <1>m, DropIsMemory, <1>same
<1>2. ASSUME NEW ch \in Channels, Skip(d, ch) \/ Spare(d, ch) PROVE Remembers(d)'
  <2> DEFINE r == [mem[d] EXCEPT !.left = @ \ {ch}]
  <2>1. mem'[d] = r
    BY <1>2, PassMoves, MemoryMoves
  <2>2. /\ r.batch = mem[d].batch /\ r.told = mem[d].told /\ r.done = mem[d].done
        /\ r.forgotten = mem[d].forgotten
    BY <1>m DEF Memories
  <2> HIDE DEF r
  <2> QED BY <2>1, <2>2, <1>same
<1>3. CASE DatabaseError(d)
  <2>1. mem'[d] = Drop(mem[d])
    BY <1>3 DEF DatabaseError, NotifierTypeOK
  <2> QED BY <2>1, <1>m, DropIsMemory, <1>same
<1>4. CASE Crash(d)
  <2>1. mem'[d].told = {}
    BY <1>4 DEF Crash, Notifier_new, NotifierTypeOK
  <2> QED BY <2>1 DEF Remembers
<1> QED BY <1>1, <1>2, <1>3, <1>4

\* Every step keeps what was told remembered.
LEMMA TellsOnceStep ==
    ASSUME NotifierTypeOK, TellsOnce, [NotifierNext]_nvars
    PROVE  TellsOnce'
<1>u. CASE UNCHANGED nvars
  BY <1>u DEF TellsOnce, Remembers, nvars
<1> SUFFICES ASSUME NotifierNext, NEW d \in Consumers PROVE Remembers(d)'
  BY <1>u DEF TellsOnce
<1>1. Remembers(d)
  BY DEF TellsOnce
<1>2. CASE Work(d) \/ DatabaseError(d) \/ Crash(d)
  <2>1. ASSUME NEW ch \in Channels, Sends(d, ch) PROVE Remembers(d)'
    BY <1>1, <2>1, DeliveryRemembers DEF Sends
  <2> QED BY <1>1, <1>2, <2>1, ClaimRemembers, MarkRemembers, QuietRemembers DEF Work
<1>3. CASE mem'[d] = mem[d]
  BY <1>1, <1>3, BystandersRemember
<1>4. CASE \E m \in Messages : Write(m) \/ Expire(m) \/ Backoff(m) \/ Tend(m)
  BY <1>3, <1>4 DEF Write, Expire, Backoff, Tend
<1> QED BY <1>2, <1>3, <1>4, OthersStill DEF NotifierNext

\* A process that starts has claimed, done and told nothing.
LEMMA NotifierInvInit ==
    ASSUME NotifierInit
    PROVE  KeepsAccounts /\ TellsOnce
BY DEF NotifierInit, Notifier_new, KeepsAccounts, AtWork, Accounts, TellsOnce, Remembers

\* Along every behaviour, what each process counts as done is accounted for,
\* and what it claimed was written.
THEOREM NotifierAccounts == NotifierSpec => [](NotifierTypeOK /\ KeepsAccounts)
BY TypeInit, TypeStep, NotifierInvInit, AccountsStep, PTL DEF NotifierSpec

\* A channel that acknowledged a message is not sent it again by the same
\* life of a process, however many processes share the outbox, whatever
\* leases run out under them and however often they fail and claim again:
\* unless the process emptied its full memory of that channel, or finished
\* with a message whose row it no longer held.
THEOREM RetriesOnlyTheFailedHolds == NotifierSpec => RetriesOnlyTheFailed
<1> DEFINE Again(c, ch) == <<mem[c].cur, ch>> \in mem[c].told \ mem[c].forgotten /\ Sends(c, ch)
<1>1. ASSUME KeepsAccounts, TellsOnce, NEW c \in Consumers, NEW ch \in Channels PROVE ~Again(c, ch)
  <2> SUFFICES ASSUME Again(c, ch) PROVE FALSE
    OBVIOUS
  <2>1. mem[c].cur # None /\ <<mem[c].cur, ch>> \notin mem[c].done
    BY DEF Sends, deliver, Turn
  <2>2. mem[c].cur \in mem[c].batch
    BY <1>1, <2>1 DEF KeepsAccounts, AtWork
  <2> QED BY <1>1, <2>1, <2>2 DEF TellsOnce, Remembers
<1>2. KeepsAccounts /\ TellsOnce /\ [NotifierNext]_nvars =>
        [\A c \in Consumers, ch \in Channels :
            <<mem[c].cur, ch>> \in mem[c].told \ mem[c].forgotten => ~Sends(c, ch)]_nvars
  BY <1>1
<1> QED BY <1>2, TypeInit, TypeStep, NotifierInvInit, AccountsStep, TellsOnceStep, PTL
        DEF NotifierSpec, RetriesOnlyTheFailed

(***************************************************************************)
(* The outbox keeps the promise.                                           *)
(***************************************************************************)
\* The refinement mapping of P, by name.
Stands(row) ==
    CASE row.status \in {"pending", "retrying"} -> "waiting"
      [] row.status = "dead_letter" -> "buried"
      [] OTHER -> row.status

Standing == [m \in Messages |-> Stands(outbox[m])]

Failures == [m \in Messages |-> outbox[m].attempts]

\* A row that moves moves its message, and no other's.
LEMMA OneMessageMoves ==
    ASSUME NotifierTypeOK, NEW m \in Messages, NEW r \in Rows, outbox' = [outbox EXCEPT ![m] = r]
    PROVE  /\ Standing' = [Standing EXCEPT ![m] = Stands(r)]
           /\ Failures' = [Failures EXCEPT ![m] = r.attempts]
<1>1. \A n \in Messages : outbox'[n] = IF n = m THEN r ELSE outbox[n]
  BY DEF NotifierTypeOK
<1>2. Standing' = [n \in Messages |-> Stands(outbox'[n])] /\ Failures' = [n \in Messages |-> outbox'[n].attempts]
  BY Zenon DEF Standing, Failures, Stands
<1>3. /\ [Standing EXCEPT ![m] = Stands(r)] = [n \in Messages |-> IF n = m THEN Stands(r) ELSE Stands(outbox[n])]
      /\ [Failures EXCEPT ![m] = r.attempts] =
            [n \in Messages |-> IF n = m THEN r.attempts ELSE outbox[n].attempts]
  BY DEF Standing, Failures
<1>4. \A n \in Messages : /\ Stands(outbox'[n]) = IF n = m THEN Stands(r) ELSE Stands(outbox[n])
                          /\ outbox'[n].attempts = IF n = m THEN r.attempts ELSE outbox[n].attempts
  BY <1>1
<1> QED BY <1>2, <1>3, <1>4

\* The abstract steps, over the mapping by name.
LEMMA AbstractSteps ==
    ASSUME NEW m \in Messages
    PROVE  /\ (/\ Standing[m] = "absent" /\ Standing' = [Standing EXCEPT ![m] = "waiting"]
               /\ UNCHANGED <<Failures, accounted>>) => P!Write(m)
           /\ (/\ Standing[m] = "waiting" /\ \A ch \in Audience(m) : <<m, ch>> \in accounted
               /\ Standing' = [Standing EXCEPT ![m] = "published"]
               /\ UNCHANGED <<Failures, accounted>>) => P!Publish(m)
           /\ (/\ Standing[m] = "waiting" /\ Failures' = [Failures EXCEPT ![m] = @ + 1]
               /\ Standing' = [Standing EXCEPT ![m] = IF Failures'[m] < MaxAttempts THEN @ ELSE "buried"]
               /\ UNCHANGED accounted) => P!Fail(m)
           /\ (/\ Standing[m] = "published" /\ Standing' = [Standing EXCEPT ![m] = "purged"]
               /\ UNCHANGED <<Failures, accounted>>) => P!Purge(m)
           /\ \A ch \in Channels :
                 (/\ Standing[m] # "absent" /\ accounted' = accounted \cup {<<m, ch>>}
                  /\ UNCHANGED <<Standing, Failures>>) => P!Reach(m, ch)
           /\ UNCHANGED <<Standing, Failures, accounted>> => UNCHANGED P!pvars
<1>1. [n \in Messages |-> Audience(n)][m] = Audience(m)
  OBVIOUS
<1> DEFINE s == [n \in Messages |->
                     CASE outbox[n].status \in {"pending", "retrying"} -> "waiting"
                       [] outbox[n].status = "dead_letter" -> "buried"
                       [] OTHER -> outbox[n].status]
           f == [n \in Messages |-> outbox[n].attempts]
<1>2. Standing = s /\ Failures = f /\ Standing' = s' /\ Failures' = f'
  BY Zenon DEF Standing, Failures, Stands
<1> QED BY <1>1, <1>2 DEF P!Write, P!Publish, P!Fail, P!Purge, P!Reach, P!pvars

\* Marking a message settles it as promised, or is too late and does nothing.
LEMMA MarkKeepsPromise ==
    ASSUME NotifierTypeOK, NEW c \in Consumers, AtWork(c), Accounts(c), mark(c),
           NEW m \in Messages, m = mem[c].cur
    PROVE  P!Publish(m) \/ P!Fail(m) \/ UNCHANGED <<outbox, accounted>>
<1>1. outbox[m] \in Rows
  BY DEF NotifierTypeOK
<1>2. CASE ~Holds(c, m)
  BY <1>2 DEF mark, mark_published, mark_failed, FailureOutcome, ovars
<1>3. CASE Holds(c, m) /\ ~mem[c].failed
  <2> DEFINE r == [outbox[m] EXCEPT !.status = "published", !.locked_by = None, !.lease = FALSE]
  <2>1. outbox' = [outbox EXCEPT ![m] = r] /\ UNCHANGED accounted
    BY <1>3 DEF mark, mark_published
  <2>2. r \in Rows /\ r.status = "published" /\ r.attempts = outbox[m].attempts
    BY <1>1 DEF Rows
  <2> HIDE DEF r
  <2>3. Standing' = [Standing EXCEPT ![m] = "published"] /\ Failures' = [Failures EXCEPT ![m] = Failures[m]]
    <3>1. Stands(r) = "published" /\ r.attempts = Failures[m]
      BY <2>2 DEF Stands, Failures
    <3>2. /\ Standing' = [Standing EXCEPT ![m] = Stands(r)]
          /\ Failures' = [Failures EXCEPT ![m] = r.attempts]
      BY <2>1, <2>2, OneMessageMoves
    <3> QED BY <3>1, <3>2
  <2>4. UNCHANGED Failures
    BY <2>3 DEF Failures
  <2>5. Standing[m] = "waiting"
    BY <1>1, <1>3 DEF Standing, Stands, Holds, Open
  <2>6. \A ch \in Audience(m) : <<m, ch>> \in accounted
    BY <1>3 DEF mark, Accounts
  <2> QED BY <2>1, <2>3, <2>4, <2>5, <2>6, AbstractSteps
<1>4. CASE Holds(c, m) /\ mem[c].failed
  <2> DEFINE limit == FailureOutcome(c, m) = "DeadLettered"
             r == [outbox[m] EXCEPT !.status = IF limit THEN "dead_letter" ELSE "retrying",
                                    !.attempts = @ + 1, !.locked_by = None, !.lease = FALSE, !.due = limit]
  <2>1. limit <=> ~(outbox[m].attempts + 1 < MaxAttempts)
    BY <1>1, <1>4, OutboxAssumption DEF FailureOutcome, Rows
  <2>2. outbox' = [outbox EXCEPT ![m] = r] /\ UNCHANGED accounted
    <3>1. FailureOutcome(c, m) # "LeaseLost"
      BY <1>4 DEF FailureOutcome
    <3> QED BY <1>4, <3>1 DEF mark, mark_failed
  <2>3. limit \in BOOLEAN
    OBVIOUS
  <2> HIDE DEF limit
  <2>4. /\ r \in Rows /\ r.attempts = outbox[m].attempts + 1
        /\ r.status = IF limit THEN "dead_letter" ELSE "retrying"
    <3>1. outbox[m].attempts + 1 \in Nat
      BY <1>1 DEF Rows
    <3> QED BY <1>1, <2>3, <3>1 DEF Rows
  <2> HIDE DEF r
  <2>5. /\ Standing' = [Standing EXCEPT ![m] = Stands(r)]
        /\ Failures' = [Failures EXCEPT ![m] = r.attempts]
    BY <1>1, <2>2, <2>4, OneMessageMoves
  <2>6. Standing[m] = "waiting" /\ Failures[m] = outbox[m].attempts
    BY <1>1, <1>4 DEF Standing, Stands, Failures, Holds, Open
  <2>7. Failures' = [Failures EXCEPT ![m] = @ + 1] /\ Failures'[m] = outbox[m].attempts + 1
    BY <1>1, <2>4, <2>5, <2>6 DEF Failures
  <2>8. Stands(r) = IF Failures'[m] < MaxAttempts THEN "waiting" ELSE "buried"
    BY <2>1, <2>4, <2>7 DEF Stands
  <2>9. Standing' = [Standing EXCEPT ![m] = IF Failures'[m] < MaxAttempts THEN @ ELSE "buried"]
    BY <2>5, <2>6, <2>8
  <2> QED BY <2>2, <2>6, <2>7, <2>9, AbstractSteps
<1> QED BY <1>2, <1>3, <1>4

\* Every step of the processes, of the faults and of the clock is a step of
\* the promise, or none.
LEMMA StepKeepsPromise ==
    ASSUME NotifierTypeOK, KeepsAccounts, [NotifierNext]_nvars
    PROVE  P!PNext \/ UNCHANGED P!pvars
<1> DEFINE Goal == P!PNext \/ UNCHANGED P!pvars
<1>same. ASSUME UNCHANGED <<outbox, accounted>> PROVE Goal
  BY <1>same DEF P!pvars
<1>reach. ASSUME UNCHANGED outbox, NEW m \in Messages, outbox[m].status # "absent", NEW ch \in Channels,
                 accounted' = accounted \cup {<<m, ch>>}
          PROVE  Goal
  <2>1. Standing[m] # "absent"
    BY <1>reach DEF Standing, Stands
  <2>2. UNCHANGED <<Standing, Failures>>
    BY <1>reach DEF Standing, Failures
  <2>3. P!Reach(m, ch)
    BY <1>reach, <2>1, <2>2, AbstractSteps
  <2> QED BY <2>3 DEF P!PNext
<1>still. ASSUME NEW m \in Messages, NEW r \in Rows, outbox' = [outbox EXCEPT ![m] = r],
                 r.status = outbox[m].status, r.attempts = outbox[m].attempts, UNCHANGED accounted
          PROVE  Goal
  <2>1. Stands(r) = Standing[m] /\ r.attempts = Failures[m]
    BY <1>still DEF Standing, Failures, Stands
  <2>2. UNCHANGED <<Standing, Failures>>
    BY <1>still, <2>1, OneMessageMoves DEF Standing, Failures
  <2> QED BY <1>still, <2>2, AbstractSteps
<1>u. CASE UNCHANGED nvars
  BY <1>u, <1>same DEF nvars
<1>1. ASSUME NEW c \in Consumers, Claim(c) PROVE Goal
  <2>1. \A n \in Messages : outbox'[n] = IF n \in claim(c) THEN [outbox[n] EXCEPT !.locked_by = c, !.lease = TRUE]
                                         ELSE outbox[n]
    BY <1>1 DEF Claim, Lease
  <2>2. \A n \in Messages : outbox'[n].status = outbox[n].status /\ outbox'[n].attempts = outbox[n].attempts
    BY <2>1 DEF NotifierTypeOK, Rows
  <2>3. UNCHANGED <<Standing, Failures>>
    BY <2>2 DEF Standing, Failures, Stands
  <2>4. UNCHANGED accounted
    BY <1>1 DEF Claim
  <2>5. CASE Messages = {}
    <3>1. UNCHANGED outbox
      BY <1>1, <2>5 DEF Claim, claim
    <3> QED BY <2>4, <3>1, <1>same
  <2> QED BY <2>3, <2>4, <2>5, AbstractSteps
<1>2. ASSUME NEW c \in Consumers, mark(c) PROVE Goal
  <2>1. PICK m \in Messages : m = mem[c].cur
    BY <1>2 DEF mark, NotifierTypeOK, Memories
  <2>2. AtWork(c) /\ Accounts(c)
    BY DEF KeepsAccounts
  <2>3. P!Publish(m) \/ P!Fail(m) \/ UNCHANGED <<outbox, accounted>>
    BY <1>2, <2>1, <2>2, MarkKeepsPromise
  <2> QED BY <2>3, <1>same DEF P!PNext, P!Settle
<1>3. ASSUME NEW c \in Consumers, NEW ch \in Channels, NEW outcome, NEW recorded,
             deliver(c, ch, outcome, recorded)
      PROVE  Goal
  <2>1. mem[c].cur \in Messages /\ outbox[mem[c].cur].status # "absent"
    BY <1>3 DEF deliver, Turn, KeepsAccounts, AtWork, NotifierTypeOK, Memories
  <2>2. UNCHANGED outbox /\ (accounted' = accounted \cup {<<mem[c].cur, ch>>} \/ UNCHANGED accounted)
    BY <1>3 DEF deliver
  <2> QED BY <2>1, <2>2, <1>same, <1>reach
<1>4. ASSUME NEW c \in Consumers, NEW ch \in Channels, Spare(c, ch) PROVE Goal
  <2>1. mem[c].cur \in Messages /\ outbox[mem[c].cur].status # "absent"
    BY <1>4 DEF Spare, Turn, KeepsAccounts, AtWork, NotifierTypeOK, Memories
  <2>2. UNCHANGED outbox /\ accounted' = accounted \cup {<<mem[c].cur, ch>>}
    BY <1>4 DEF Spare
  <2> QED BY <2>1, <2>2, <1>reach
<1>5. ASSUME NEW c \in Consumers, Work(c) \/ DatabaseError(c) \/ Crash(c) PROVE Goal
  BY <1>1, <1>2, <1>3, <1>4, <1>5, <1>same DEF Work, Sends, handle, Skip, DatabaseError, Crash
<1>6. ASSUME NEW m \in Messages, Write(m) PROVE Goal
  <2> DEFINE r == [outbox[m] EXCEPT !.status = "pending"]
  <2>1. r \in Rows /\ r.status = "pending" /\ r.attempts = outbox[m].attempts /\ outbox[m].status = "absent"
    BY <1>6 DEF NotifierTypeOK, Rows, Write, append
  <2>2. outbox' = [outbox EXCEPT ![m] = r] /\ UNCHANGED accounted
    BY <1>6 DEF Write, append
  <2> HIDE DEF r
  <2>3. Standing' = [Standing EXCEPT ![m] = "waiting"] /\ Failures' = [Failures EXCEPT ![m] = Failures[m]]
    BY <2>1, <2>2, OneMessageMoves DEF Stands, Failures
  <2>4. UNCHANGED Failures
    BY <2>3 DEF Failures
  <2>5. Standing[m] = "absent"
    BY <2>1 DEF Standing, Stands
  <2>6. P!Write(m)
    BY <2>2, <2>3, <2>4, <2>5, AbstractSteps
  <2> QED BY <2>6 DEF P!PNext
<1>7. ASSUME NEW m \in Messages, Expire(m) \/ Backoff(m) PROVE Goal
  <2> DEFINE r == [outbox[m] EXCEPT !.lease = FALSE]
             s == [outbox[m] EXCEPT !.due = TRUE]
  <2>1. /\ r \in Rows /\ r.status = outbox[m].status /\ r.attempts = outbox[m].attempts
        /\ s \in Rows /\ s.status = outbox[m].status /\ s.attempts = outbox[m].attempts
    BY DEF NotifierTypeOK, Rows
  <2>2. outbox' = [outbox EXCEPT ![m] = r] \/ outbox' = [outbox EXCEPT ![m] = s]
    BY <1>7 DEF Expire, LeaseExpires, Backoff, BackoffElapses
  <2>3. UNCHANGED accounted
    BY <1>7 DEF Expire, Backoff
  <2> HIDE DEF r, s
  <2> QED BY <2>1, <2>2, <2>3, <1>still
<1>8. ASSUME NEW m \in Messages, Tend(m) PROVE Goal
  <2> DEFINE r == [outbox[m] EXCEPT !.status = "purged"]
  <2>1. r \in Rows /\ r.status = "purged" /\ r.attempts = outbox[m].attempts
    BY DEF NotifierTypeOK, Rows
  <2>2. \/ UNCHANGED <<outbox, accounted>>
        \/ outbox[m].status = "published" /\ outbox' = [outbox EXCEPT ![m] = r] /\ UNCHANGED accounted
    BY <1>8 DEF Tend, review, run_retention
  <2> HIDE DEF r
  <2>3. CASE outbox[m].status = "published" /\ outbox' = [outbox EXCEPT ![m] = r] /\ UNCHANGED accounted
    <3>1. Standing' = [Standing EXCEPT ![m] = "purged"] /\ Failures' = [Failures EXCEPT ![m] = Failures[m]]
      <4>1. Stands(r) = "purged" /\ r.attempts = Failures[m]
        BY <2>1 DEF Stands, Failures
      <4> QED BY <2>1, <2>3, <4>1, OneMessageMoves
    <3>2. UNCHANGED Failures
      BY <3>1 DEF Failures
    <3>3. Standing[m] = "published"
      BY <2>3 DEF Standing, Stands
    <3>4. P!Purge(m)
      BY <2>3, <3>1, <3>2, <3>3, AbstractSteps
    <3> QED BY <3>4 DEF P!PNext
  <2> QED BY <2>2, <2>3, <1>same
<1> QED BY <1>u, <1>5, <1>6, <1>7, <1>8 DEF NotifierNext

\* The safety of the promise (ADR 0033), for every notification file, any
\* number of processes and faults, and leases that run out at any time: a
\* message is published only when something became of it on every channel of
\* its audience, is settled once, and fails at most MaxAttempts times.
THEOREM OutboxPromiseKept == NotifierSpec => P!PSafety
<1>1. ASSUME NotifierInit PROVE P!PInit
  BY <1>1 DEF NotifierInit, OutboxInit, Unwritten, P!PInit
<1>2. NotifierTypeOK /\ KeepsAccounts /\ [NotifierNext]_nvars => [P!PNext]_(P!pvars)
  BY StepKeepsPromise
<1> QED BY <1>1, <1>2, NotifierAccounts, PTL DEF NotifierSpec, P!PSafety
=============================================================================
