--------------------------- MODULE DeliveryProofs ---------------------------
(***************************************************************************)
(* What holds of the delivery of detection events for every value of its   *)
(* constants: the inbox of a tenant followed by what its queue still has   *)
(* to write is what the queue took, in that order and each event once; an  *)
(* event that no queue took was reported as failed; a stop in which every  *)
(* drain finished reports at least what it leaves behind; and no row       *)
(* handed to ClickHouse is lost uncounted, held twice or sent too often.   *)
(*                                                                         *)
(* The argument: the queue is the end of what was accepted and the inbox   *)
(* its beginning, and they meet or overlap (Ordered).  A write that is     *)
(* repeated after its answer was lost adds nothing, because no two         *)
(* accepted events have one key (Distinct): a detection is named by the    *)
(* process, the scope and its start, and its events by their sequence, all *)
(* of which only grow (KeysPast).  For the same reason a row that joins a  *)
(* ClickHouse batch was never sent before, so the batches of a writer stay *)
(* disjoint and no row was stored more often than its batch was tried      *)
(* (Flows), through every attempt of a tick, whatever the server answers.  *)
(***************************************************************************)
EXTENDS Delivery, FiniteSetTheorems, TLAPS

Kinds == {"started", "updated", "ended"}

Detection == [started : Nat, sequence : Nat]

\* The events the engine can build.
Built ==
    {build(i, s, d, k) : i \in Nat, s \in Scopes, d \in Detection, k \in Kinds}

\* A queue is the end of what it accepted and the inbox the beginning, with no gap.
Ordered(q, rows, taken) ==
    /\ Len(q) <= Len(taken) /\ Len(rows) <= Len(taken) /\ Len(taken) <= Len(q) + Len(rows)
    /\ \A i \in 1 .. Len(q) : q[i] = taken[Len(taken) - Len(q) + i]
    /\ \A i \in 1 .. Len(rows) : rows[i] = taken[i]

\* No two events have one deduplication key.
Distinct(taken) ==
    \A i, j \in 1 .. Len(taken) : i # j => taken[i].dedup_key # taken[j].dedup_key

\* A batch is the head of its queue.
Heads(batch, q) ==
    /\ Len(batch) <= Len(q)
    /\ \A i \in 1 .. Len(batch) : batch[i] = q[i]

(***************************************************************************)
(* Sequences: what the queue, the batch and the inbox of a tenant do.      *)
(***************************************************************************)
\* The elements at an interval of indexes are the elements after its lower end.
LEMMA Interval ==
    ASSUME NEW seq, NEW lo \in Nat, NEW hi \in Nat, lo <= hi
    PROVE  AtIndexes(seq, (lo + 1) .. hi) = [n \in 1 .. (hi - lo) |-> seq[lo + n]]
<1> DEFINE S == (lo + 1) .. hi
<1> DEFINE Below(i) == {j \in S : j < i}
<1>1. IsFiniteSet(S) /\ Cardinality(S) = hi - lo
  <2>1. lo + 1 \in Int /\ hi \in Int
    OBVIOUS
  <2>2. /\ IsFiniteSet((lo + 1) .. hi)
        /\ Cardinality((lo + 1) .. hi) = IF lo + 1 > hi THEN 0 ELSE hi - (lo + 1) + 1
    BY <2>1, FS_Interval
  <2> QED BY <2>2
<1>2. \A i \in S : Cardinality(Below(i)) = i - lo - 1
  <2> TAKE i \in S
  <2>1. Below(i) = (lo + 1) .. (i - 1)
    OBVIOUS
  <2>2. i - 1 \in Int /\ lo + 1 \in Int
    OBVIOUS
  <2>3. Cardinality((lo + 1) .. (i - 1)) = IF lo + 1 > i - 1 THEN 0 ELSE (i - 1) - (lo + 1) + 1
    BY <2>2, FS_Interval
  <2> HIDE DEF S, Below
  <2>4. i \in Int /\ lo + 1 <= i
    BY DEF S
  <2> QED BY <2>1, <2>3, <2>4
<1>3. \A n \in 1 .. (hi - lo) : (CHOOSE i \in S : Cardinality(Below(i)) = n - 1) = lo + n
  <2> TAKE n \in 1 .. (hi - lo)
  <2>1. lo + n \in S
    OBVIOUS
  <2>2. \A i \in S : i \in Int
    OBVIOUS
  <2> HIDE DEF S, Below
  <2>3. \A i \in S : Cardinality(Below(i)) = n - 1 <=> i = lo + n
    BY <1>2, <2>2
  <2>4. \E i \in S : Cardinality(Below(i)) = n - 1
    BY <2>1, <2>3
  <2> QED BY <2>3, <2>4
<1>4. AtIndexes(seq, S) = [n \in 1 .. Cardinality(S) |->
                              seq[CHOOSE i \in S : Cardinality(Below(i)) = n - 1]]
  BY DEF AtIndexes
<1> HIDE DEF S, Below
<1>5. AtIndexes(seq, S) = [n \in 1 .. (hi - lo) |-> seq[lo + n]]
  BY <1>1, <1>3, <1>4
<1> QED BY <1>5 DEF S

\* A queue that takes an event takes it at the end of what it accepted.
LEMMA OrderedAppend ==
    ASSUME NEW T, NEW q \in Seq(T), NEW rows \in Seq(T), NEW taken \in Seq(T), NEW e \in T,
           Ordered(q, rows, taken)
    PROVE  Ordered(Append(q, e), rows, Append(taken, e))
<1> DEFINE q2 == Append(q, e)
           taken2 == Append(taken, e)
<1>1. /\ q2 \in Seq(T) /\ Len(q2) = Len(q) + 1 /\ q2[Len(q) + 1] = e
      /\ \A i \in 1 .. Len(q) : q2[i] = q[i]
  OBVIOUS
<1>2. /\ taken2 \in Seq(T) /\ Len(taken2) = Len(taken) + 1 /\ taken2[Len(taken) + 1] = e
      /\ \A i \in 1 .. Len(taken) : taken2[i] = taken[i]
  OBVIOUS
<1> HIDE DEF q2, taken2
<1>3. \A i \in 1 .. Len(q2) : q2[i] = taken2[Len(taken2) - Len(q2) + i]
  <2> TAKE i \in 1 .. Len(q2)
  <2>1. Len(taken2) - Len(q2) + i = Len(taken) - Len(q) + i
    BY <1>1, <1>2
  <2>2. CASE i = Len(q) + 1
    <3>1. Len(taken) - Len(q) + i = Len(taken) + 1
      BY <2>2
    <3> QED BY <1>1, <1>2, <2>1, <2>2, <3>1
  <2>3. CASE i \in 1 .. Len(q)
    <3>1. Len(taken) - Len(q) + i \in 1 .. Len(taken)
      BY <2>3 DEF Ordered
    <3> QED BY <1>1, <1>2, <2>1, <2>3, <3>1 DEF Ordered
  <2> QED BY <1>1, <2>2, <2>3
<1>4. \A i \in 1 .. Len(rows) : rows[i] = taken2[i]
  BY <1>2 DEF Ordered
<1>5. Ordered(q2, rows, taken2)
  BY <1>1, <1>2, <1>3, <1>4 DEF Ordered
<1> QED BY <1>5 DEF q2, taken2

\* The key of an event that was never taken is no other event's.
LEMMA DistinctAppend ==
    ASSUME NEW T, NEW taken \in Seq(T), NEW e \in T, Distinct(taken),
           \A i \in 1 .. Len(taken) : taken[i].dedup_key # e.dedup_key
    PROVE  Distinct(Append(taken, e))
  BY DEF Distinct

\* A batch that was written leaves its queue from the front.
LEMMA OrderedRemove ==
    ASSUME NEW T, NEW q \in Seq(T), NEW rows \in Seq(T), NEW taken \in Seq(T), NEW k \in Nat,
           Ordered(q, rows, taken), k <= Len(q), Len(taken) - Len(q) + k <= Len(rows)
    PROVE  /\ SubSeq(q, k + 1, Len(q)) \in Seq(T)
           /\ Len(SubSeq(q, k + 1, Len(q))) = Len(q) - k
           /\ Ordered(SubSeq(q, k + 1, Len(q)), rows, taken)
<1> DEFINE left == SubSeq(q, k + 1, Len(q))
<1>1. left \in Seq(T) /\ Len(left) = Len(q) - k
  OBVIOUS
<1>2. \A i \in 1 .. Len(left) : left[i] = q[k + i]
  BY <1>1, SMTT(30)
<1> HIDE DEF left
<1>3. \A i \in 1 .. Len(left) : left[i] = taken[Len(taken) - Len(left) + i]
  <2> TAKE i \in 1 .. Len(left)
  <2>1. k + i \in 1 .. Len(q) /\ Len(taken) - Len(q) + (k + i) = Len(taken) - Len(left) + i
    BY <1>1
  <2>2. q[k + i] = taken[Len(taken) - Len(q) + (k + i)]
    BY <2>1 DEF Ordered
  <2> QED BY <1>2, <2>1, <2>2
<1>4. Ordered(left, rows, taken)
  BY <1>1, <1>3 DEF Ordered
<1> QED BY <1>1, <1>4 DEF left

\* A process that starts again has accepted what the inbox holds.
LEMMA OrderedRestart ==
    ASSUME NEW T, NEW q \in Seq(T), NEW rows \in Seq(T), NEW taken \in Seq(T),
           Ordered(q, rows, taken), Distinct(taken)
    PROVE  Ordered(<<>>, rows, rows) /\ Distinct(rows)
  BY DEF Ordered, Distinct

\* The events of a queue that the inbox lacks are those after the ones it holds.
LEMMA Lacking ==
    ASSUME NEW T, NEW q \in Seq(T), NEW rows \in Seq(T), NEW taken \in Seq(T),
           Ordered(q, rows, taken), Distinct(taken),
           NEW i \in 1 .. Len(q)
    PROVE  /\ (\A r \in ToSet(rows) : r.dedup_key # q[i].dedup_key)
                 <=> i > Len(rows) - (Len(taken) - Len(q))
           /\ q[i] \notin ToSet(rows) <=> i > Len(rows) - (Len(taken) - Len(q))
<1> DEFINE at == Len(taken) - Len(q) + i
<1>1. at \in 1 .. Len(taken) /\ q[i] = taken[at]
  BY DEF Ordered
<1>2. i > Len(rows) - (Len(taken) - Len(q)) <=> at > Len(rows)
  OBVIOUS
<1> HIDE DEF at
<1>3. ASSUME at <= Len(rows)
      PROVE  q[i] \in ToSet(rows)
  <2>1. at \in 1 .. Len(rows) /\ rows[at] = taken[at]
    BY <1>1, <1>3 DEF Ordered
  <2>2. rows[at] \in ToSet(rows)
    BY <2>1 DEF ToSet
  <2> QED BY <1>1, <2>1, <2>2
<1>4. ASSUME at > Len(rows), NEW r \in ToSet(rows)
      PROVE  r.dedup_key # q[i].dedup_key
  <2>1. PICK j \in 1 .. Len(rows) : r = rows[j]
    BY DEF ToSet
  <2>2. j \in 1 .. Len(taken) /\ r = taken[j] /\ j # at
    BY <1>4, <1>1, <2>1 DEF Ordered
  <2> QED BY <1>1, <2>2 DEF Distinct
<1>5. at <= Len(rows) \/ at > Len(rows)
  BY <1>1
<1> QED BY <1>2, <1>3, <1>4, <1>5

\* A function on 1 .. n is a sequence of its values.
LEMMA IsSequence ==
    ASSUME NEW T, NEW n \in Nat, NEW f \in [1 .. n -> T]
    PROVE  f \in Seq(T) /\ Len(f) = n
  OBVIOUS

\* A concatenation holds the one sequence and then the other.
LEMMA Concatenated ==
    ASSUME NEW T, NEW s \in Seq(T), NEW u \in Seq(T), NEW all, all = s \o u
    PROVE  /\ all \in Seq(T) /\ Len(all) = Len(s) + Len(u)
           /\ \A i \in 1 .. Len(s) : all[i] = s[i]
           /\ \A i \in 1 .. Len(u) : all[Len(s) + i] = u[i]
  OBVIOUS

\* The inbox and what its queue has left to write are what the queue accepted.
LEMMA RowsThenQueue ==
    ASSUME NEW T, NEW q \in Seq(T), NEW rows \in Seq(T), NEW taken \in Seq(T),
           Ordered(q, rows, taken), Distinct(taken)
    PROVE  rows \o AtIndexes(q, {i \in DOMAIN q : q[i] \notin ToSet(rows)}) = taken
<1> DEFINE lo == Len(rows) - (Len(taken) - Len(q))
<1>1. lo \in Nat /\ lo <= Len(q)
  BY DEF Ordered
<1>2. {i \in DOMAIN q : q[i] \notin ToSet(rows)} = (lo + 1) .. Len(q)
  <2>1. DOMAIN q = 1 .. Len(q)
    OBVIOUS
  <2>2. \A i \in 1 .. Len(q) : q[i] \notin ToSet(rows) <=> i > lo
    BY Lacking
  <2> HIDE DEF lo
  <2> QED BY <1>1, <2>1, <2>2
<1>0. PICK rest : rest = AtIndexes(q, (lo + 1) .. Len(q))
  OBVIOUS
<1>3. rest = [n \in 1 .. (Len(q) - lo) |-> q[lo + n]]
  <2> HIDE DEF lo
  <2>1. Len(q) \in Nat
    OBVIOUS
  <2> QED BY <1>0, <1>1, <2>1, Interval
<1>4. rest \in Seq(T) /\ Len(rest) = Len(q) - lo
  <2> HIDE DEF lo
  <2>1. Len(q) - lo \in Nat
    BY <1>1
  <2>2. rest \in [1 .. (Len(q) - lo) -> T]
    BY <1>1, <1>3
  <2> QED BY <2>1, <2>2, IsSequence
<1>5. \A n \in 1 .. Len(rest) : rest[n] = taken[Len(rows) + n]
  <2> TAKE n \in 1 .. Len(rest)
  <2>1. lo + n \in 1 .. Len(q) /\ Len(taken) - Len(q) + (lo + n) = Len(rows) + n
    BY <1>1, <1>4
  <2>2. rest[n] = q[lo + n]
    BY <1>3, <1>4
  <2> HIDE DEF lo
  <2> QED BY <2>1, <2>2 DEF Ordered
<1>6. Len(rows) + Len(rest) = Len(taken)
  BY <1>4
<1> HIDE DEF lo
<1>7. rows \o rest = taken
  <2>0. PICK all : all = rows \o rest
    OBVIOUS
  <2>5. rest \in Seq(T)
    BY <1>4
  <2>1. /\ all \in Seq(T) /\ Len(all) = Len(rows) + Len(rest)
        /\ \A i \in 1 .. Len(rows) : all[i] = rows[i]
        /\ \A i \in 1 .. Len(rest) : all[Len(rows) + i] = rest[i]
    BY <2>0, <2>5, Concatenated
  <2>2. \A i \in 1 .. Len(taken) : all[i] = taken[i]
    <3> TAKE i \in 1 .. Len(taken)
    <3>1. CASE i <= Len(rows)
      BY <3>1, <2>1 DEF Ordered
    <3>2. CASE i > Len(rows)
      <4>1. i - Len(rows) \in 1 .. Len(rest) /\ Len(rows) + (i - Len(rows)) = i
        BY <3>2, <1>4, <1>6
      <4> QED BY <1>5, <2>1, <4>1
    <3>3. i \in Int /\ Len(rows) \in Int
      OBVIOUS
    <3> QED BY <3>1, <3>2, <3>3
  <2>3. all \in [1 .. Len(taken) -> T] /\ taken \in [1 .. Len(taken) -> T]
    BY <2>1, <1>6
  <2>4. all = taken
    BY <2>2, <2>3
  <2> QED BY <2>0, <2>4
<1> QED BY <1>0, <1>2, <1>7

\* ENQUEUE inserts the part of a batch that the inbox lacks: writing the head of a queue,
\* for the first time or again, extends the inbox along what was accepted.
LEMMA OrderedWrite ==
    ASSUME NEW T, NEW q \in Seq(T), NEW rows \in Seq(T), NEW taken \in Seq(T),
           NEW batch \in Seq(T), Ordered(q, rows, taken), Distinct(taken), Heads(batch, q)
    PROVE  /\ Enqueue(rows, batch) \in Seq(T)
           /\ Ordered(q, Enqueue(rows, batch), taken)
           /\ Len(taken) - Len(q) + Len(batch) <= Len(Enqueue(rows, batch))
<1> DEFINE lo == Len(rows) - (Len(taken) - Len(q))
           hi == IF Len(batch) < lo THEN lo ELSE Len(batch)
           S == {i \in DOMAIN batch : \A r \in ToSet(rows) : r.dedup_key # batch[i].dedup_key}
<1>1. lo \in Nat /\ lo <= Len(q) /\ hi \in Nat /\ lo <= hi /\ hi <= Len(q)
  BY DEF Ordered, Heads
<1>2. S = (lo + 1) .. hi
  <2>1. DOMAIN batch = 1 .. Len(batch) /\ Len(batch) \in Nat
    OBVIOUS
  <2>2. ASSUME NEW i \in 1 .. Len(batch)
        PROVE  (\A r \in ToSet(rows) : r.dedup_key # batch[i].dedup_key) <=> i > lo
    <3>1. i \in 1 .. Len(q) /\ batch[i] = q[i]
      BY DEF Heads
    <3> QED BY <3>1, Lacking
  <2>3. \A i : i \in S <=> i \in 1 .. Len(batch) /\ i > lo
    BY <2>1, <2>2
  <2>4. \A i : i \in (lo + 1) .. hi <=> i \in 1 .. Len(batch) /\ i > lo
    BY <1>1, <2>1
  <2> HIDE DEF S, lo, hi
  <2> QED BY <2>3, <2>4
<1>3. PICK rest : rest = AtIndexes(batch, S)
  OBVIOUS
<1>4. rest = [n \in 1 .. (hi - lo) |-> batch[lo + n]]
  <2> HIDE DEF S, lo, hi
  <2> QED BY <1>1, <1>2, <1>3, Interval
<1>5. \A n \in 1 .. (hi - lo) : lo + n \in 1 .. Len(batch) /\ batch[lo + n] \in T
  BY <1>1
<1>6. rest \in Seq(T) /\ Len(rest) = hi - lo
  <2> HIDE DEF lo, hi
  <2>1. hi - lo \in Nat
    BY <1>1
  <2>2. rest \in [1 .. (hi - lo) -> T]
    BY <1>4, <1>5
  <2> QED BY <2>1, <2>2, IsSequence
<1>7. PICK all : all = rows \o rest
  OBVIOUS
<1>8. /\ all \in Seq(T) /\ Len(all) = Len(rows) + Len(rest)
      /\ \A i \in 1 .. Len(rows) : all[i] = rows[i]
      /\ \A i \in 1 .. Len(rest) : all[Len(rows) + i] = rest[i]
  BY <1>6, <1>7, Concatenated
<1>9. Len(all) = Len(taken) - Len(q) + hi
  BY <1>6, <1>8
<1>10. \A i \in 1 .. Len(all) : all[i] = taken[i]
  <2> TAKE i \in 1 .. Len(all)
  <2>1. CASE i <= Len(rows)
    BY <2>1, <1>8 DEF Ordered
  <2>2. CASE i > Len(rows)
    <3>1. PICK n : n = i - Len(rows)
      OBVIOUS
    <3>2. n \in 1 .. Len(rest) /\ i = Len(rows) + n /\ n \in 1 .. (hi - lo)
      BY <2>2, <3>1, <1>6, <1>8
    <3>3. all[i] = rest[n] /\ rest[n] = batch[lo + n]
      <4> HIDE DEF lo, hi
      <4> QED BY <1>4, <1>8, <3>2
    <3>4. lo + n \in 1 .. Len(batch) /\ lo + n \in 1 .. Len(q)
      <4> HIDE DEF lo, hi
      <4> QED BY <1>5, <3>2 DEF Heads
    <3>5. Len(taken) - Len(q) + (lo + n) = i
      BY <3>2
    <3> HIDE DEF lo, hi
    <3>6. batch[lo + n] = q[lo + n] /\ q[lo + n] = taken[Len(taken) - Len(q) + (lo + n)]
      BY <3>4 DEF Heads, Ordered
    <3> QED BY <3>3, <3>5, <3>6
  <2>3. i \in Int /\ Len(rows) \in Int
    BY <1>8
  <2> QED BY <2>1, <2>2, <2>3
<1>11. Ordered(q, all, taken)
  <2>1. Len(q) <= Len(taken) /\ Len(all) <= Len(taken) /\ Len(taken) <= Len(q) + Len(all)
    <3> HIDE DEF lo, hi
    <3> QED BY <1>1, <1>9 DEF Ordered
  <2> HIDE DEF lo, hi
  <2> QED BY <1>10, <2>1 DEF Ordered
<1>12. Len(taken) - Len(q) + Len(batch) <= Len(all)
  BY <1>1, <1>9
<1>13. all = Enqueue(rows, batch)
  BY <1>3, <1>7 DEF Enqueue
<1> HIDE DEF lo, hi, S
<1> QED BY <1>8, <1>11, <1>12, <1>13

(***************************************************************************)
(* The invariant.                                                          *)
(***************************************************************************)
Drains ==
    [pc : {"idle", "writing", "waiting", "done"}, batch : Seq(Built), final : BOOLEAN,
     attempts : Nat, abandoned : Nat]

EngineTypeOK ==
    /\ now \in Nat /\ instance \in Nat
    /\ open \in [Scopes -> Detection \cup {None}]
    /\ opened \in [Scopes -> Nat]

InboxTypeOK ==
    /\ queue \in [Tenants -> Seq(Built)]
    /\ inbox \in [Tenants -> Seq(Built)]
    /\ accepted \in [Tenants -> Seq(Built)]
    /\ closed \in [Tenants -> BOOLEAN]
    /\ drain \in [Tenants -> Drains]
    /\ report \in [awaited : SUBSET Tenants, timed_out : SUBSET Tenants, abandoned : Nat]

\* An open detection started when its scope last opened one.
OpenedAtStart == \A s \in Scopes : open[s] # None => open[s].started <= opened[s]

\* What the identifiers of an event say: an earlier process made it, or this one did,
\* for a detection no later than the last of its scope and, while that one is open, with
\* a sequence number it has reached.
Past(i, s, n, q) ==
    \/ i < instance
    \/ /\ i = instance /\ n <= opened[s]
       /\ open[s] # None /\ n = open[s].started => q <= open[s].sequence

PastKey(k) ==
    \E i \in Nat, s \in Scopes, n \in Nat, q \in Nat, kind \in Kinds :
        k = <<<<i, s, n>>, kind, q>> /\ Past(i, s, n, q)

KeysPast ==
    \A t \in Tenants : \A i \in 1 .. Len(accepted[t]) : PastKey(accepted[t][i].dedup_key)

InOrder ==
    \A t \in Tenants :
        /\ Ordered(queue[t], inbox[t], accepted[t]) /\ Distinct(accepted[t])
        /\ drain[t].pc = "writing" => Heads(drain[t].batch, queue[t])

\* Every event of an open detection that its mode publishes was refused by a sink and
\* reported, or was accepted.
Told(s, n) ==
    \E kind \in Kinds :
        LET k == <<<<instance, s, open[s].started>>, kind, n>>
        IN  \/ k \in failed
            \/ \E i \in 1 .. Len(accepted[TenantOf[s]]) : accepted[TenantOf[s]][i].dedup_key = k

Reported ==
    "inbox" \in sinks =>
        \A s \in Scopes : open[s] # None /\ publishes(ModeOf[s]) =>
            \A n \in 0 .. open[s].sequence : Told(s, n)

\* A drain is closing only once the collector stops, and one that is done has counted
\* what its queue still holds.
DrainsCount ==
    \A t \in Tenants :
        /\ drain[t].final => phase # "running"
        /\ drain[t].pc = "done" => drain[t].final /\ Len(queue[t]) <= drain[t].abandoned

\* What the queues of some tenants hold.
Left(T) == UNION {{t} \X (1 .. Len(queue[t])) : t \in T}

\* While no drain ran out of its grace, the ones awaited are done, and the report has
\* counted what they leave.
ReportCounts ==
    /\ report.awaited # {} => phase # "running"
    /\ report.timed_out = {} =>
          /\ \A t \in report.awaited : drain[t].pc = "done"
          /\ IsFiniteSet(Left(report.awaited))
          /\ Cardinality(Left(report.awaited)) <= report.abandoned
    /\ phase = "stopped" /\ "inbox" \in sinks => report.awaited = Tenants

\* A collector without an incident database queues nothing.
NoInbox == "inbox" \notin sinks => \A t \in Tenants : queue[t] = <<>>

DeliveryInv ==
    /\ EngineTypeOK /\ InboxTypeOK /\ OpenedAtStart /\ KeysPast /\ InOrder /\ Reported
    /\ DrainsCount /\ ReportCounts /\ NoInbox

(***************************************************************************)
(* The events the engine makes.                                            *)
(***************************************************************************)
\* What an event carries of the detection it belongs to.
LEMMA BuildCarries ==
    ASSUME NEW i \in Nat, NEW s \in Scopes, NEW d \in Detection, NEW k \in Kinds,
           NEW e, e = build(i, s, d, k)
    PROVE  /\ e \in Built
           /\ e.dedup_key = <<<<i, s, d.started>>, k, d.sequence>>
           /\ e.target.tenant = TenantOf[s]
           /\ is_publishable(e) <=> publishes(ModeOf[s])
<1>1. e \in Built
  BY DEF Built
<1>2. e.dedup_key = <<<<i, s, d.started>>, k, d.sequence>> /\ e.target.tenant = TenantOf[s]
  BY DEF build, dedup_key, detection_id, EventTarget
<1>3. e.execution_mode = ModeOf[s]
  BY DEF build
<1> QED BY <1>1, <1>2, <1>3 DEF is_publishable

\* The fan-out answers with no error when no sink has one.
LEMMA FanOutTells ==
    ASSUME NEW r1 \in SinkError \cup {Accepted}, NEW r2 \in SinkError \cup {Accepted}
    PROVE  FanOut(<<r1, r2>>) = Accepted <=> r1 = Accepted /\ r2 = Accepted
<1> DEFINE rs == <<r1, r2>>
           First(i) == rs[i] \in SinkError /\ \A j \in 1 .. (i - 1) : rs[j] = Accepted
<1>1. DOMAIN rs = 1 .. 2 /\ rs[1] = r1 /\ rs[2] = r2
  OBVIOUS
<1>2. Accepted \notin SinkError
  BY DEF Accepted, SinkError
<1>3. CASE r1 = Accepted /\ r2 = Accepted
  BY <1>1, <1>3 DEF FanOut
<1>4. CASE ~(r1 = Accepted /\ r2 = Accepted)
  <2>1. FanOut(rs) = rs[CHOOSE i \in DOMAIN rs : First(i)]
    BY <1>1, <1>4 DEF FanOut
  <2>2. \E i \in DOMAIN rs : First(i)
    <3>1. CASE r1 # Accepted
      <4>1. First(1)
        BY <1>1, <3>1
      <4> QED BY <1>1, <4>1
    <3>2. CASE r1 = Accepted
      <4>1. First(2)
        BY <1>1, <1>4, <3>2
      <4> QED BY <1>1, <4>1
    <3> QED BY <3>1, <3>2
  <2>3. PICK c : c = CHOOSE i \in DOMAIN rs : First(i)
    OBVIOUS
  <2>4. First(c)
    BY <2>2, <2>3
  <2>5. rs[c] \in SinkError
    BY <2>4
  <2> HIDE DEF First
  <2>6. FanOut(rs) \in SinkError
    BY <2>1, <2>3, <2>5
  <2> QED BY <1>2, <1>4, <2>6
<1> QED BY <1>3, <1>4

\* The buffer of ClickHouse rows answers as a sink does.
LEMMA BufferAnswers ==
    ASSUME NEW rows, NEW e
    PROVE  BufferEvent(rows, EventBuffer, e).result \in SinkError \cup {Accepted}
<1>1. EventBuffer \in Nat
  BY DeliveryAssumption
<1>2. CASE EventBuffer = 0
  BY <1>2 DEF BufferEvent, SinkError
<1>3. CASE EventBuffer > 0 /\ Len(rows) >= EventBuffer
  BY <1>3 DEF BufferEvent
<1>4. CASE EventBuffer > 0 /\ ~(Len(rows) >= EventBuffer)
  BY <1>4 DEF BufferEvent
<1> QED BY <1>1, <1>2, <1>3, <1>4

\* So does the queue, and what it accepts it appends.
LEMMA QueueAnswers ==
    ASSUME NEW q \in Seq(Built), NEW shut \in BOOLEAN, NEW t, NEW e,
           NEW put, put = QueueEvent(q, QueueCapacity, shut, t, e)
    PROVE  /\ put.result \in SinkError \cup {Accepted}
           /\ put.result = Accepted => put.queue = Append(q, e)
<1>1. QueueCapacity \in Nat /\ Len(q) \in Nat
  BY DeliveryAssumption
<1>2. Accepted \notin {"Closed", "Backend", "Full"}
  BY DEF Accepted
<1>3. CASE shut
  BY <1>2, <1>3 DEF QueueEvent, SinkError
<1>4. CASE ~shut /\ e.target.tenant # t
  BY <1>2, <1>4 DEF QueueEvent, SinkError
<1>5. CASE ~shut /\ e.target.tenant = t /\ Len(q) >= QueueCapacity
  BY <1>2, <1>5 DEF QueueEvent, SinkError
<1>6. CASE ~shut /\ e.target.tenant = t /\ ~(Len(q) >= QueueCapacity)
  BY <1>2, <1>6 DEF QueueEvent, SinkError
<1> QED BY <1>3, <1>4, <1>5, <1>6

\* What publishing an event does to its tenant's queue: nothing, or it is accepted; and an
\* event that its mode publishes and the queue refuses is reported as failed.
Takes(s, e) ==
    LET t == TenantOf[s]
    IN  /\ "inbox" \in sinks
        /\ queue' = [queue EXCEPT ![t] = Append(queue[t], e)]
        /\ accepted' = [accepted EXCEPT ![t] = Append(accepted[t], e)]

Publishes(s, e) ==
    /\ failed \subseteq failed'
    /\ Takes(s, e) \/ UNCHANGED <<queue, accepted>>
    /\ publishes(ModeOf[s]) /\ "inbox" \in sinks => Takes(s, e) \/ e.dedup_key \in failed'

LEMMA EmitPublishes ==
    ASSUME DeliveryInv, NEW s \in Scopes, NEW d \in Detection, NEW k \in Kinds,
           emit(build(instance, s, d, k))
    PROVE  Publishes(s, build(instance, s, d, k))
<1>1. PICK e : e = build(instance, s, d, k)
  OBVIOUS
<1>2. instance \in Nat
  BY DEF DeliveryInv, EngineTypeOK
<1>3. e.target.tenant = TenantOf[s] /\ (is_publishable(e) <=> publishes(ModeOf[s]))
  BY <1>1, <1>2, BuildCarries
<1>4. PICK t : t = TenantOf[s]
  OBVIOUS
<1>5. t \in Tenants /\ e.target.tenant = t
  BY <1>3, <1>4 DEF Tenants
<1>6. PICK row : row = BufferEvent(buffer, EventBuffer, e)
  OBVIOUS
<1>7. PICK put : put = QueueEvent(queue[t], QueueCapacity, closed[t], t, e)
  OBVIOUS
<1>8. queue[t] \in Seq(Built) /\ closed[t] \in BOOLEAN
  BY <1>5 DEF DeliveryInv, InboxTypeOK
<1>9. row.result \in SinkError \cup {Accepted}
  BY <1>6, BufferAnswers
<1>10. /\ put.result \in SinkError \cup {Accepted}
       /\ put.result = Accepted => put.queue = Append(queue[t], e)
  BY <1>7, <1>8, QueueAnswers
<1>11. PICK r1 : r1 = IF "clickhouse" \in sinks THEN row.result ELSE Accepted
  OBVIOUS
<1>12. PICK r2 : r2 = IF "inbox" \in sinks THEN put.result ELSE Accepted
  OBVIOUS
<1>13. r1 \in SinkError \cup {Accepted} /\ r2 \in SinkError \cup {Accepted}
  BY <1>9, <1>10, <1>11, <1>12
<1>14. FanOut(<<r1, r2>>) = Accepted <=> r1 = Accepted /\ r2 = Accepted
  BY <1>13, FanOutTells
<1>15. CASE ~is_publishable(e)
  <2>1. UNCHANGED <<queue, accepted, failed>>
    BY <1>1, <1>15 DEF emit
  <2> QED BY <1>1, <1>3, <1>15, <2>1 DEF Publishes, Takes
<1>16. CASE is_publishable(e)
  <2>1. emit(e)
    BY <1>1
  <2>2. /\ IF "inbox" \in sinks /\ put.result = Accepted
           THEN /\ queue' = [queue EXCEPT ![t] = put.queue]
                /\ accepted' = [accepted EXCEPT ![t] = Append(accepted[t], e)]
           ELSE UNCHANGED <<queue, accepted>>
        /\ failed' = IF FanOut(<<r1, r2>>) = Accepted THEN failed ELSE failed \union {e.dedup_key}
    BY <1>5, <1>6, <1>7, <1>11, <1>12, <1>16, <2>1 DEF emit
  <2>3. failed \subseteq failed'
    BY <2>2
  <2>4. CASE "inbox" \in sinks /\ put.result = Accepted
    <3>1. /\ queue' = [queue EXCEPT ![t] = Append(queue[t], e)]
          /\ accepted' = [accepted EXCEPT ![t] = Append(accepted[t], e)]
      BY <1>10, <2>2, <2>4
    <3> QED BY <1>1, <1>4, <2>3, <2>4, <3>1 DEF Publishes, Takes
  <2>5. CASE ~("inbox" \in sinks /\ put.result = Accepted)
    <3>1. UNCHANGED <<queue, accepted>>
      BY <2>2, <2>5
    <3>2. "inbox" \in sinks => e.dedup_key \in failed'
      BY <1>12, <1>14, <2>2, <2>5
    <3> QED BY <1>1, <2>3, <3>1, <3>2 DEF Publishes, Takes
  <2> QED BY <2>4, <2>5
<1> QED BY <1>15, <1>16

(***************************************************************************)
(* A step of the engine.                                                   *)
(***************************************************************************)
\* A detection moves on: it opens later than the last of its scope did, or the open one
\* takes its next sequence number; after that it is open or over.
MovesOn(s, d) ==
    /\ \/ opened[s] < d.started /\ d.sequence = 0
       \/ /\ open[s] # None /\ d.started = open[s].started
          /\ d.sequence = open[s].sequence + 1
    /\ open' \in [Scopes -> Detection \cup {None}]
    /\ opened' \in [Scopes -> Nat]
    /\ open'[s] = d \/ open'[s] = None
    /\ opened[s] <= opened'[s] /\ d.started <= opened'[s]
    /\ \A x \in Scopes \ {s} : open'[x] = open[x] /\ opened'[x] = opened[x]

\* The key of the event it makes is new, and the keys made before stay in the past.
LEMMA KeysMoveOn ==
    ASSUME DeliveryInv, NEW s \in Scopes, NEW d \in Detection, NEW kind \in Kinds,
           MovesOn(s, d), instance' = instance, NEW k, PastKey(k)
    PROVE  PastKey(k)' /\ k # <<<<instance, s, d.started>>, kind, d.sequence>>
<1>1. /\ instance \in Nat /\ opened \in [Scopes -> Nat]
      /\ open \in [Scopes -> Detection \cup {None}] /\ OpenedAtStart
  BY DEF DeliveryInv, EngineTypeOK
<1>2. PICK i \in Nat, x \in Scopes, n \in Nat, q \in Nat, kd \in Kinds :
          k = <<<<i, x, n>>, kd, q>> /\ Past(i, x, n, q)
  BY DEF PastKey
<1>3. d.started \in Nat /\ d.sequence \in Nat
  BY DEF Detection
<1>4. opened[s] \in Nat /\ opened'[s] \in Nat /\ opened[x] \in Nat
  BY <1>1 DEF MovesOn
<1>5. open[s] # None => open[s].started \in Nat /\ open[s].sequence \in Nat
  BY <1>1 DEF Detection
<1>6. Past(i, x, n, q)'
  <2>1. CASE i < instance
    BY <2>1 DEF Past
  <2>2. CASE i = instance /\ x # s
    BY <1>2, <2>2 DEF Past, MovesOn
  <2>3. CASE i = instance /\ x = s
    <3>1. n <= opened[s] /\ (open[s] # None /\ n = open[s].started => q <= open[s].sequence)
      BY <1>1, <1>2, <2>3 DEF Past
    <3>2. n <= opened'[s]
      BY <1>4, <3>1 DEF MovesOn
    <3>3. ASSUME open'[s] # None, n = open'[s].started
          PROVE  q <= open'[s].sequence
      <4>1. open'[s] = d
        BY <3>3 DEF MovesOn
      <4>2. open[s] # None /\ d.started = open[s].started /\ d.sequence = open[s].sequence + 1
        BY <1>3, <1>4, <3>1, <3>3, <4>1 DEF MovesOn
      <4> QED BY <1>5, <3>1, <3>3, <4>1, <4>2
    <3> QED BY <2>3, <3>2, <3>3 DEF Past
  <2> QED BY <1>1, <1>2, <2>1, <2>2, <2>3 DEF Past
<1>7. ~(i = instance /\ x = s /\ n = d.started /\ q = d.sequence)
  BY <1>1, <1>2, <1>3, <1>4, <1>5 DEF Past, MovesOn
<1>8. PastKey(k)'
  BY <1>2, <1>6 DEF PastKey
<1> QED BY <1>2, <1>7, <1>8

\* The key it makes is in the past from then on.
LEMMA KeyMade ==
    ASSUME DeliveryInv, NEW s \in Scopes, NEW d \in Detection, NEW kind \in Kinds,
           MovesOn(s, d), instance' = instance, NEW k,
           k = <<<<instance, s, d.started>>, kind, d.sequence>>
    PROVE  PastKey(k)'
<1>1. instance \in Nat
  BY DEF DeliveryInv, EngineTypeOK
<1>2. d.started \in Nat /\ d.sequence \in Nat
  BY DEF Detection
<1>3. PICK i, n, q : i = instance /\ n = d.started /\ q = d.sequence
  OBVIOUS
<1>4. Past(i, s, n, q)'
  BY <1>1, <1>2, <1>3 DEF Past, MovesOn
<1> QED BY <1>1, <1>2, <1>3, <1>4 DEF PastKey

LEMMA EngineKeepsOrder ==
    ASSUME DeliveryInv, NEW s \in Scopes, NEW d \in Detection, NEW k \in Kinds,
           EngineStep, MovesOn(s, d), Publishes(s, build(instance, s, d, k))
    PROVE  InboxTypeOK' /\ KeysPast' /\ InOrder' /\ NoInbox'
<1> DEFINE t == TenantOf[s]
<1>1. PICK e : e = build(instance, s, d, k)
  OBVIOUS
<1>2. instance \in Nat /\ instance' = instance
  BY DEF DeliveryInv, EngineTypeOK, EngineStep
<1>3. e \in Built /\ e.dedup_key = <<<<instance, s, d.started>>, k, d.sequence>>
  BY <1>1, <1>2, BuildCarries
<1>4. t \in Tenants
  BY DEF Tenants
<1>5. InboxTypeOK
  BY DEF DeliveryInv
<1>6. UNCHANGED <<sinks, closed, drain, inbox, report>>
  BY DEF EngineStep
<1>7. \A x \in Tenants : \A i \in 1 .. Len(accepted[x]) :
          /\ PastKey(accepted[x][i].dedup_key)
          /\ accepted[x][i].dedup_key # e.dedup_key
  <2> TAKE x \in Tenants
  <2> TAKE i \in 1 .. Len(accepted[x])
  <2>1. PICK key : key = accepted[x][i].dedup_key
    OBVIOUS
  <2>2. PastKey(key)
    BY <2>1 DEF DeliveryInv, KeysPast
  <2>3. key # e.dedup_key
    BY <1>2, <1>3, <2>2, KeysMoveOn
  <2> QED BY <2>1, <2>2, <2>3
<1>8. \A x \in Tenants : \A i \in 1 .. Len(accepted[x]) : \A key :
          key = accepted[x][i].dedup_key => PastKey(key)'
  <2> TAKE x \in Tenants
  <2> TAKE i \in 1 .. Len(accepted[x])
  <2> TAKE key
  <2> HAVE key = accepted[x][i].dedup_key
  <2>1. PastKey(key)
    BY DEF DeliveryInv, KeysPast
  <2> QED BY <1>2, <2>1, KeysMoveOn
<1>9. \A key : key = e.dedup_key => PastKey(key)'
  <2> TAKE key
  <2> HAVE key = e.dedup_key
  <2> QED BY <1>2, <1>3, KeyMade
<1>10. CASE UNCHANGED <<queue, accepted>>
  <2>1. InboxTypeOK'
    BY <1>5, <1>6, <1>10 DEF InboxTypeOK
  <2>2. KeysPast'
    BY <1>8, <1>10 DEF KeysPast
  <2>3. InOrder'
    BY <1>6, <1>10 DEF DeliveryInv, InOrder
  <2>4. NoInbox'
    BY <1>6, <1>10 DEF DeliveryInv, NoInbox
  <2> QED BY <2>1, <2>2, <2>3, <2>4
<1>11. CASE Takes(s, e)
  <2>1. PICK q, a : q = Append(queue[t], e) /\ a = Append(accepted[t], e)
    OBVIOUS
  <2>2. queue[t] \in Seq(Built) /\ accepted[t] \in Seq(Built) /\ inbox[t] \in Seq(Built)
    BY <1>4, <1>5 DEF InboxTypeOK
  <2>3. q \in Seq(Built) /\ a \in Seq(Built)
    BY <1>3, <2>1, <2>2
  <2>4. queue' = [queue EXCEPT ![t] = q] /\ accepted' = [accepted EXCEPT ![t] = a]
    BY <1>11, <2>1 DEF Takes
  <2>5. InboxTypeOK'
    BY <1>4, <1>5, <1>6, <2>3, <2>4 DEF InboxTypeOK
  <2>6. queue'[t] = q /\ accepted'[t] = a
    BY <1>4, <1>5, <2>4 DEF InboxTypeOK
  <2>7. \A x \in Tenants : x # t => queue'[x] = queue[x] /\ accepted'[x] = accepted[x]
    BY <1>4, <1>5, <2>4 DEF InboxTypeOK
  <2>8. Ordered(queue[t], inbox[t], accepted[t]) /\ Distinct(accepted[t])
    BY <1>4 DEF DeliveryInv, InOrder
  <2>9. Ordered(q, inbox[t], a)
    BY <1>3, <2>1, <2>2, <2>8, OrderedAppend
  <2>10. Distinct(a)
    BY <1>3, <1>4, <1>7, <2>1, <2>2, <2>8, DistinctAppend
  <2>11. /\ Len(q) = Len(queue[t]) + 1 /\ \A i \in 1 .. Len(queue[t]) : q[i] = queue[t][i]
         /\ Len(a) = Len(accepted[t]) + 1 /\ a[Len(accepted[t]) + 1] = e
         /\ \A i \in 1 .. Len(accepted[t]) : a[i] = accepted[t][i]
    BY <1>3, <2>1, <2>2
  <2>12. drain[t].pc = "writing" => Heads(drain[t].batch, q)
    <3> HAVE drain[t].pc = "writing"
    <3>1. Heads(drain[t].batch, queue[t]) /\ drain[t].batch \in Seq(Built)
      BY <1>4, <1>5 DEF DeliveryInv, InOrder, InboxTypeOK, Drains
    <3> HIDE DEF t
    <3> QED BY <2>2, <2>11, <3>1 DEF Heads
  <2> HIDE DEF t
  <2>13. InOrder'
    <3> SUFFICES ASSUME NEW x \in Tenants
                 PROVE  /\ Ordered(queue'[x], inbox'[x], accepted'[x]) /\ Distinct(accepted'[x])
                        /\ drain'[x].pc = "writing" => Heads(drain'[x].batch, queue'[x])
      BY DEF InOrder
    <3>1. CASE x = t
      BY <1>6, <2>6, <2>9, <2>10, <2>12, <3>1
    <3>2. CASE x # t
      BY <1>6, <2>7, <3>2 DEF DeliveryInv, InOrder
    <3> QED BY <3>1, <3>2
  <2>14. KeysPast'
    <3> SUFFICES ASSUME NEW x \in Tenants, NEW i \in 1 .. Len(accepted'[x]),
                        NEW key, key = accepted'[x][i].dedup_key
                 PROVE  PastKey(key)'
      BY DEF KeysPast
    <3>1. CASE x # t
      BY <1>8, <2>7, <3>1
    <3>2. CASE x = t /\ i = Len(accepted[t]) + 1
      BY <1>9, <2>6, <2>11, <3>2
    <3>3. CASE x = t /\ i \in 1 .. Len(accepted[t])
      BY <1>4, <1>8, <2>6, <2>11, <3>3
    <3>4. Len(accepted[t]) \in Nat
      BY <2>2
    <3> QED BY <2>6, <2>11, <3>1, <3>2, <3>3, <3>4
  <2>15. NoInbox'
    BY <1>6, <1>11 DEF NoInbox, Takes
  <2> QED BY <2>5, <2>13, <2>14, <2>15
<1> QED BY <1>1, <1>10, <1>11 DEF Publishes

\* What was reported or accepted stays so, and the event of this step is one or the other.
LEMMA EngineKeepsReports ==
    ASSUME DeliveryInv, NEW s \in Scopes, NEW d \in Detection, NEW k \in Kinds,
           EngineStep, MovesOn(s, d), Publishes(s, build(instance, s, d, k))
    PROVE  Reported'
<1> DEFINE Key(key, x) == \/ key \in failed
                          \/ \E i \in 1 .. Len(accepted[TenantOf[x]]) :
                                accepted[TenantOf[x]][i].dedup_key = key
<1>1. PICK e : e = build(instance, s, d, k)
  OBVIOUS
<1>2. instance \in Nat /\ instance' = instance /\ sinks' = sinks
  BY DEF DeliveryInv, EngineTypeOK, EngineStep
<1>3. e \in Built /\ e.dedup_key = <<<<instance, s, d.started>>, k, d.sequence>>
  BY <1>1, <1>2, BuildCarries
<1>4. InboxTypeOK /\ EngineTypeOK
  BY DEF DeliveryInv
<1>5. \A x \in Scopes : TenantOf[x] \in Tenants
  BY DEF Tenants
<1>6. ASSUME NEW x \in Scopes, NEW key, Key(key, x)
      PROVE  Key(key, x)'
  <2>1. failed \subseteq failed'
    BY <1>1 DEF Publishes
  <2>2. CASE UNCHANGED <<queue, accepted>>
    BY <1>6, <2>1, <2>2
  <2>3. CASE Takes(s, e)
    <3>1. PICK u : u = TenantOf[x]
      OBVIOUS
    <3>2. accepted[u] \in Seq(Built)
      BY <1>4, <1>5, <3>1 DEF InboxTypeOK
    <3>3. accepted'[u] = accepted[u] \/ accepted'[u] = Append(accepted[u], e)
      BY <1>4, <1>5, <2>3, <3>1 DEF Takes, InboxTypeOK
    <3>4. ASSUME NEW i \in 1 .. Len(accepted[u])
          PROVE  i \in 1 .. Len(accepted'[u]) /\ accepted'[u][i] = accepted[u][i]
      BY <1>3, <3>2, <3>3
    <3>5. CASE key \in failed
      BY <2>1, <3>5
    <3>6. CASE \E i \in 1 .. Len(accepted[u]) : accepted[u][i].dedup_key = key
      <4>1. PICK i \in 1 .. Len(accepted[u]) : accepted[u][i].dedup_key = key
        BY <3>6
      <4>2. i \in 1 .. Len(accepted'[u]) /\ accepted'[u][i].dedup_key = key
        BY <3>4, <4>1
      <4> QED BY <3>1, <4>2
    <3> QED BY <1>6, <3>1, <3>5, <3>6
  <2> QED BY <1>1, <2>2, <2>3 DEF Publishes
<1>7. publishes(ModeOf[s]) /\ "inbox" \in sinks => \A key : key = e.dedup_key => Key(key, s)'
  <2> HAVE publishes(ModeOf[s]) /\ "inbox" \in sinks
  <2> TAKE key
  <2> HAVE key = e.dedup_key
  <2>1. CASE e.dedup_key \in failed'
    BY <2>1
  <2>2. CASE Takes(s, e)
    <3>1. PICK u : u = TenantOf[s]
      OBVIOUS
    <3>2. accepted[u] \in Seq(Built)
      BY <1>4, <1>5, <3>1 DEF InboxTypeOK
    <3>3. accepted'[u] = Append(accepted[u], e)
      BY <1>4, <1>5, <2>2, <3>1 DEF Takes, InboxTypeOK
    <3>4. PICK i : i = Len(accepted[u]) + 1
      OBVIOUS
    <3>5. i \in 1 .. Len(accepted'[u]) /\ accepted'[u][i] = e
      BY <1>3, <3>2, <3>3, <3>4
    <3> QED BY <3>1, <3>5
  <2> QED BY <1>1, <2>1, <2>2 DEF Publishes
<1> HIDE DEF Key
<1> SUFFICES ASSUME "inbox" \in sinks, NEW x \in Scopes, open'[x] # None, publishes(ModeOf[x]),
                    NEW n \in 0 .. open'[x].sequence
             PROVE  Told(x, n)'
  BY <1>2 DEF Reported
<1>8. ASSUME NEW kind \in Kinds, NEW key,
             key = <<<<instance, x, open'[x].started>>, kind, n>>, Key(key, x)'
      PROVE  Told(x, n)'
  BY <1>2, <1>8 DEF Told, Key
<1>9. ASSUME open[x] # None, open[x].started = open'[x].started, n \in 0 .. open[x].sequence
      PROVE  Told(x, n)'
  <2>1. PICK kind, key : /\ kind \in Kinds /\ key = <<<<instance, x, open[x].started>>, kind, n>>
                         /\ Key(key, x)
    BY <1>9 DEF DeliveryInv, Reported, Told, Key
  <2>2. Key(key, x)'
    BY <1>6, <2>1
  <2> QED BY <1>8, <1>9, <2>1, <2>2
<1>10. CASE x # s
  <2>1. open'[x] = open[x]
    BY <1>10 DEF MovesOn
  <2> QED BY <1>9, <2>1
<1>11. CASE x = s
  <2>1. open'[s] = d
    BY <1>11 DEF MovesOn
  <2>2. d.sequence \in Nat /\ n \in 0 .. d.sequence
    BY <1>11, <2>1 DEF Detection
  <2>3. CASE n = d.sequence
    <3>1. PICK key : key = e.dedup_key
      OBVIOUS
    <3>2. Key(key, s)'
      BY <1>7, <1>11, <3>1
    <3> QED BY <1>3, <1>8, <1>11, <2>1, <2>3, <3>1, <3>2
  <2>4. CASE n # d.sequence
    <3>1. open[s] # None /\ d.started = open[s].started /\ d.sequence = open[s].sequence + 1
      BY <2>2, <2>4 DEF MovesOn
    <3>2. open[s].sequence \in Nat
      BY <1>4, <3>1 DEF EngineTypeOK, Detection
    <3>3. n \in 0 .. open[s].sequence
      BY <2>2, <2>4, <3>1, <3>2
    <3> QED BY <1>9, <1>11, <2>1, <3>1, <3>3
  <2> QED BY <2>3, <2>4
<1> QED BY <1>10, <1>11

\* While the collector runs no drain is closing and none is awaited.
LEMMA EngineKeeps ==
    ASSUME DeliveryInv, NEW s \in Scopes, NEW d \in Detection, NEW k \in Kinds,
           EngineStep, MovesOn(s, d), Publishes(s, build(instance, s, d, k))
    PROVE  DeliveryInv'
<1>1. /\ phase = "running" /\ phase' = phase
      /\ UNCHANGED <<sinks, now, instance, drain, report>>
  BY DEF EngineStep
<1>2. EngineTypeOK'
  BY <1>1 DEF DeliveryInv, EngineTypeOK, MovesOn
<1>3. OpenedAtStart'
  <2> SUFFICES ASSUME NEW x \in Scopes, open'[x] # None
               PROVE  open'[x].started <= opened'[x]
    BY DEF OpenedAtStart
  <2>1. CASE x = s
    BY <2>1 DEF MovesOn
  <2>2. CASE x # s
    BY <2>2 DEF MovesOn, DeliveryInv, OpenedAtStart
  <2> QED BY <2>1, <2>2
<1>4. InboxTypeOK' /\ KeysPast' /\ InOrder' /\ NoInbox'
  BY EngineKeepsOrder
<1>5. Reported'
  BY EngineKeepsReports
<1>6. \A t \in Tenants : ~drain[t].final /\ drain[t].pc # "done"
  BY <1>1 DEF DeliveryInv, DrainsCount
<1>7. DrainsCount'
  BY <1>1, <1>6 DEF DrainsCount
<1>8. report.awaited = {} /\ report \in [awaited : SUBSET Tenants, timed_out : SUBSET Tenants,
                                         abandoned : Nat]
  BY <1>1 DEF DeliveryInv, ReportCounts, InboxTypeOK
<1>9. Left(report.awaited)' = {}
  BY <1>1, <1>8 DEF Left
<1>10. ReportCounts'
  <2>1. IsFiniteSet(Left(report.awaited)') /\ Cardinality(Left(report.awaited)') <= report.abandoned
    BY <1>8, <1>9, FS_EmptySet
  <2> QED BY <1>1, <1>8, <2>1 DEF ReportCounts
<1> QED BY <1>2, <1>3, <1>4, <1>5, <1>7, <1>10 DEF DeliveryInv

\* What a detection that opens, moves on or ends has in common.
EngineMoves(s) ==
    EngineStep /\ \E d \in Detection, k \in Kinds :
                     MovesOn(s, d) /\ emit(build(instance, s, d, k))

LEMMA StartedMoves ==
    ASSUME DeliveryInv, NEW s \in Scopes, Started(s)
    PROVE  EngineMoves(s)
<1>1. PICK d : d = [started |-> now, sequence |-> 0]
  OBVIOUS
<1>2. /\ EngineStep /\ opened[s] < now
      /\ open' = [open EXCEPT ![s] = d] /\ opened' = [opened EXCEPT ![s] = now]
      /\ emit(build(instance, s, d, "started"))
  BY <1>1 DEF Started
<1>3. EngineTypeOK
  BY DEF DeliveryInv
<1>4. d \in Detection /\ d.started = now /\ d.sequence = 0
  BY <1>1, <1>3 DEF EngineTypeOK, Detection
<1>5. MovesOn(s, d)
  BY <1>2, <1>3, <1>4 DEF MovesOn, EngineTypeOK
<1>6. PICK k \in Kinds : k = "started"
  BY DEF Kinds
<1>7. emit(build(instance, s, d, k))
  BY <1>2, <1>6
<1> QED BY <1>2, <1>4, <1>5, <1>7 DEF EngineMoves

\* The next event of an open detection.
LEMMA NextOfOpen ==
    ASSUME DeliveryInv, NEW s \in Scopes, open[s] # None,
           NEW d, d = [open[s] EXCEPT !.sequence = open[s].sequence + 1]
    PROVE  /\ d \in Detection /\ d.started = open[s].started
           /\ d.sequence = open[s].sequence + 1
           /\ open[s].started <= opened[s]
  BY DEF DeliveryInv, EngineTypeOK, Detection, OpenedAtStart

LEMMA UpdatedMoves ==
    ASSUME DeliveryInv, NEW s \in Scopes, Updated(s)
    PROVE  EngineMoves(s)
<1>1. PICK d : d = [open[s] EXCEPT !.sequence = open[s].sequence + 1]
  OBVIOUS
<1>2. /\ EngineStep /\ open[s] # None
      /\ open' = [open EXCEPT ![s] = d] /\ opened' = opened
      /\ emit(build(instance, s, d, "updated"))
  BY <1>1 DEF Updated
<1>3. /\ d \in Detection /\ d.started = open[s].started
      /\ d.sequence = open[s].sequence + 1 /\ open[s].started <= opened[s]
  BY <1>1, <1>2, NextOfOpen
<1>4. MovesOn(s, d)
  BY <1>2, <1>3 DEF MovesOn, DeliveryInv, EngineTypeOK
<1>5. PICK k \in Kinds : k = "updated"
  BY DEF Kinds
<1>6. emit(build(instance, s, d, k))
  BY <1>2, <1>5
<1> QED BY <1>2, <1>3, <1>4, <1>6 DEF EngineMoves

LEMMA EndedMoves ==
    ASSUME DeliveryInv, NEW s \in Scopes, Ended(s)
    PROVE  EngineMoves(s)
<1>1. PICK d : d = [open[s] EXCEPT !.sequence = open[s].sequence + 1]
  OBVIOUS
<1>2. /\ EngineStep /\ open[s] # None
      /\ open' = [open EXCEPT ![s] = None] /\ opened' = opened
      /\ emit(build(instance, s, d, "ended"))
  BY <1>1 DEF Ended, build_closing
<1>3. /\ d \in Detection /\ d.started = open[s].started
      /\ d.sequence = open[s].sequence + 1 /\ open[s].started <= opened[s]
  BY <1>1, <1>2, NextOfOpen
<1>4. MovesOn(s, d)
  BY <1>2, <1>3 DEF MovesOn, DeliveryInv, EngineTypeOK
<1>5. PICK k \in Kinds : k = "ended"
  BY DEF Kinds
<1>6. emit(build(instance, s, d, k))
  BY <1>2, <1>5
<1> QED BY <1>2, <1>3, <1>4, <1>6 DEF EngineMoves

(***************************************************************************)
(* A step of a drain.                                                      *)
(***************************************************************************)
\* A key stays in the past while the engine rests, and when a new process starts.
LEMMA PastKeyStays ==
    ASSUME NEW k, PastKey(k), UNCHANGED <<instance, open, opened>>
    PROVE  PastKey(k)'
<1>1. PICK j \in Nat, s \in Scopes, n \in Nat, q \in Nat, kind \in Kinds :
          k = <<<<j, s, n>>, kind, q>> /\ Past(j, s, n, q)
  BY DEF PastKey
<1>2. Past(j, s, n, q)'
  BY <1>1 DEF Past
<1> QED BY <1>1, <1>2 DEF PastKey

LEMMA PastKeyRestarts ==
    ASSUME NEW k, PastKey(k), instance \in Nat, instance' = instance + 1
    PROVE  PastKey(k)'
<1>1. PICK j \in Nat, s \in Scopes, n \in Nat, q \in Nat, kind \in Kinds :
          k = <<<<j, s, n>>, kind, q>> /\ Past(j, s, n, q)
  BY DEF PastKey
<1>2. j < instance + 1
  BY <1>1 DEF Past
<1>3. Past(j, s, n, q)'
  BY <1>2 DEF Past
<1> QED BY <1>1, <1>3 DEF PastKey

LEMMA KeysPastStay ==
    ASSUME KeysPast, UNCHANGED <<instance, open, opened, accepted>>
    PROVE  KeysPast'
<1> SUFFICES ASSUME NEW t \in Tenants, NEW i \in 1 .. Len(accepted[t]),
                    NEW k, k = accepted[t][i].dedup_key
             PROVE  PastKey(k)'
  BY DEF KeysPast
<1>1. PastKey(k)
  BY DEF KeysPast
<1> QED BY <1>1, PastKeyStays

\* And what was told stays told.
LEMMA ReportedStays ==
    ASSUME Reported, UNCHANGED <<sinks, instance, open, failed, accepted>>
    PROVE  Reported'
<1> SUFFICES ASSUME "inbox" \in sinks, NEW s \in Scopes, open[s] # None, publishes(ModeOf[s]),
                    NEW n \in 0 .. open[s].sequence
             PROVE  Told(s, n)'
  BY DEF Reported
<1>1. Told(s, n)
  BY DEF Reported
<1>2. PICK kind, k :
          /\ kind \in Kinds /\ k = <<<<instance, s, open[s].started>>, kind, n>>
          /\ \/ k \in failed
             \/ \E i \in 1 .. Len(accepted[TenantOf[s]]) : accepted[TenantOf[s]][i].dedup_key = k
  BY <1>1 DEF Told
<1>3. \/ k \in failed'
      \/ \E i \in 1 .. Len(accepted'[TenantOf[s]]) : accepted'[TenantOf[s]][i].dedup_key = k
  BY <1>2
<1>4. k = <<<<instance', s, open'[s].started>>, kind, n>>
  BY <1>2
<1> QED BY <1>2, <1>3, <1>4 DEF Told

\* A drain leaves alone what the engine keeps, and its own tenant alone is touched.
LEMMA DrainKeepsEngine ==
    ASSUME DeliveryInv, NEW t \in Tenants, DrainStep(t)
    PROVE  /\ EngineTypeOK' /\ OpenedAtStart' /\ KeysPast' /\ Reported' /\ NoInbox'
<1>1. /\ "inbox" \in sinks
      /\ UNCHANGED <<sinks, now, phase, instance, failed, open, emitted, opened, report, accepted>>
  BY DEF DrainStep, engineVars
<1>2. EngineTypeOK' /\ OpenedAtStart'
  BY <1>1 DEF DeliveryInv, EngineTypeOK, OpenedAtStart
<1>3. KeysPast'
  BY <1>1, KeysPastStay DEF DeliveryInv
<1>4. Reported'
  BY <1>1, ReportedStays DEF DeliveryInv
<1>5. NoInbox'
  BY <1>1 DEF NoInbox
<1> QED BY <1>2, <1>3, <1>4, <1>5

\* What a step of a drain owes: an inbox and a queue in order, a batch that is the head of
\* its queue, and a count of what is left when it is done.
Owes(t, q, rows, d) ==
    /\ q \in Seq(Built) /\ rows \in Seq(Built) /\ d \in Drains
    /\ Ordered(q, rows, accepted[t])
    /\ d.pc = "writing" => Heads(d.batch, q)
    /\ d.final => phase # "running"
    /\ d.pc = "done" => d.final /\ Len(q) <= d.abandoned

LEMMA DrainKeeps ==
    ASSUME DeliveryInv, NEW t \in Tenants, DrainStep(t), drain[t].pc # "done",
           NEW q, NEW rows, NEW d, Owes(t, q, rows, d),
           queue' = [queue EXCEPT ![t] = q], inbox' = [inbox EXCEPT ![t] = rows],
           drain' = [drain EXCEPT ![t] = d], closed' \in [Tenants -> BOOLEAN]
    PROVE  DeliveryInv'
<1>1. UNCHANGED <<sinks, phase, report, accepted>> /\ "inbox" \in sinks /\ phase # "stopped"
  BY DEF DrainStep
<1>2. InboxTypeOK
  BY DEF DeliveryInv
<1>3. InboxTypeOK'
  BY <1>1, <1>2 DEF InboxTypeOK, Owes
<1>4. /\ queue'[t] = q /\ inbox'[t] = rows /\ drain'[t] = d
      /\ \A x \in Tenants : x # t => /\ queue'[x] = queue[x] /\ inbox'[x] = inbox[x]
                                     /\ drain'[x] = drain[x]
  BY <1>2 DEF InboxTypeOK
<1>5. InOrder'
  <2> SUFFICES ASSUME NEW x \in Tenants
               PROVE  /\ Ordered(queue'[x], inbox'[x], accepted'[x]) /\ Distinct(accepted'[x])
                      /\ drain'[x].pc = "writing" => Heads(drain'[x].batch, queue'[x])
    BY DEF InOrder
  <2>1. CASE x = t
    BY <1>1, <1>4, <2>1 DEF Owes, DeliveryInv, InOrder
  <2>2. CASE x # t
    BY <1>1, <1>4, <2>2 DEF DeliveryInv, InOrder
  <2> QED BY <2>1, <2>2
<1>6. DrainsCount'
  <2> SUFFICES ASSUME NEW x \in Tenants
               PROVE  /\ drain'[x].final => phase' # "running"
                      /\ drain'[x].pc = "done" => /\ drain'[x].final
                                                  /\ Len(queue'[x]) <= drain'[x].abandoned
    BY DEF DrainsCount
  <2>1. CASE x = t
    BY <1>1, <1>4, <2>1 DEF Owes
  <2>2. CASE x # t
    BY <1>1, <1>4, <2>2 DEF DeliveryInv, DrainsCount
  <2> QED BY <2>1, <2>2
<1>7. ReportCounts'
  <2>1. ReportCounts
    BY DEF DeliveryInv
  <2>2. CASE report.timed_out = {}
    <3>1. t \notin report.awaited /\ report.awaited \subseteq Tenants
      BY <1>2, <2>1, <2>2 DEF ReportCounts, InboxTypeOK
    <3>2. \A x \in report.awaited : queue'[x] = queue[x] /\ drain'[x] = drain[x]
      BY <1>4, <3>1
    <3>3. Left(report.awaited)' = Left(report.awaited)
      BY <1>1, <3>2 DEF Left
    <3> QED BY <1>1, <2>1, <2>2, <3>2, <3>3 DEF ReportCounts
  <2>3. CASE report.timed_out # {}
    BY <1>1, <2>1, <2>3 DEF ReportCounts
  <2> QED BY <2>2, <2>3
<1> QED BY <1>3, <1>5, <1>6, <1>7, DrainKeepsEngine DEF DeliveryInv

\* What the invariant says of one tenant.
LEMMA OfTenant ==
    ASSUME DeliveryInv, NEW t \in Tenants
    PROVE  /\ queue[t] \in Seq(Built) /\ inbox[t] \in Seq(Built) /\ accepted[t] \in Seq(Built)
           /\ drain[t] \in Drains /\ closed[t] \in BOOLEAN
           /\ Ordered(queue[t], inbox[t], accepted[t]) /\ Distinct(accepted[t])
           /\ drain[t].pc = "writing" => Heads(drain[t].batch, queue[t])
           /\ drain[t].final => phase # "running"
           /\ queue = [queue EXCEPT ![t] = queue[t]] /\ inbox = [inbox EXCEPT ![t] = inbox[t]]
  BY DEF DeliveryInv, InboxTypeOK, InOrder, DrainsCount

LEMMA FlushBeginsKeeps ==
    ASSUME DeliveryInv, NEW t \in Tenants, FlushBegins(t)
    PROVE  DeliveryInv'
<1>1. PICK q, rows : q = queue[t] /\ rows = inbox[t]
  OBVIOUS
<1>2. PICK d : d = IF queue[t] = <<>>
                   THEN [drain[t] EXCEPT !.pc = IF drain[t].final THEN "done" ELSE "waiting"]
                   ELSE [drain[t] EXCEPT !.pc = "writing", !.batch = Batch(queue[t])]
  OBVIOUS
<1>3. /\ DrainStep(t) /\ drain[t].pc = "idle" /\ drain' = [drain EXCEPT ![t] = d]
      /\ UNCHANGED <<queue, closed, inbox>>
  BY <1>2 DEF FlushBegins
<1>4. q \in Seq(Built) /\ rows \in Seq(Built) /\ drain[t] \in Drains
  BY <1>1, OfTenant
<1>5. d \in Drains /\ (d.final <=> drain[t].final) /\ d.abandoned \in Nat
      /\ (d.pc = "writing" => Heads(d.batch, q))
      /\ (d.pc = "done" => d.final /\ q = <<>>)
  <2>1. CASE queue[t] = <<>>
    BY <1>1, <1>2, <1>4, <2>1 DEF Drains
  <2>2. CASE queue[t] # <<>>
    <3>1. PICK b : b = Batch(q)
      OBVIOUS
    <3>2. b \in Seq(Built) /\ Heads(b, q)
      BY <1>4, <3>1, DeliveryAssumption DEF Batch, Heads
    <3>3. d = [drain[t] EXCEPT !.pc = "writing", !.batch = b]
      BY <1>1, <1>2, <2>2, <3>1
    <3> QED BY <1>4, <3>2, <3>3 DEF Drains
  <2> QED BY <2>1, <2>2
<1>6. Owes(t, q, rows, d)
  BY <1>1, <1>4, <1>5, OfTenant DEF Owes
<1>7. queue' = [queue EXCEPT ![t] = q] /\ inbox' = [inbox EXCEPT ![t] = rows]
      /\ closed' \in [Tenants -> BOOLEAN]
  BY <1>1, <1>3, OfTenant DEF DeliveryInv, InboxTypeOK
<1> QED BY <1>3, <1>6, <1>7, DrainKeeps

\* Writing a batch, for the first time or again, keeps the inbox in order.
LEMMA WriteInOrder ==
    ASSUME DeliveryInv, NEW t \in Tenants, drain[t].pc = "writing",
           NEW rows, rows = Enqueue(inbox[t], drain[t].batch)
    PROVE  /\ rows \in Seq(Built) /\ Ordered(queue[t], rows, accepted[t])
           /\ Len(accepted[t]) - Len(queue[t]) + Len(drain[t].batch) <= Len(rows)
<1>1. PICK q, old, a, b :
          q = queue[t] /\ old = inbox[t] /\ a = accepted[t] /\ b = drain[t].batch
  OBVIOUS
<1>2. /\ q \in Seq(Built) /\ old \in Seq(Built) /\ a \in Seq(Built) /\ b \in Seq(Built)
      /\ Ordered(q, old, a) /\ Distinct(a) /\ Heads(b, q)
  BY <1>1, OfTenant DEF Drains
<1>3. /\ Enqueue(old, b) \in Seq(Built) /\ Ordered(q, Enqueue(old, b), a)
      /\ Len(a) - Len(q) + Len(b) <= Len(Enqueue(old, b))
  BY <1>2, OrderedWrite
<1> QED BY <1>1, <1>3

LEMMA FlushSucceedsKeeps ==
    ASSUME DeliveryInv, NEW t \in Tenants, FlushSucceeds(t)
    PROVE  DeliveryInv'
<1>1. PICK q, rows, d :
          /\ q = SubSeq(queue[t], Len(drain[t].batch) + 1, Len(queue[t]))
          /\ rows = Enqueue(inbox[t], drain[t].batch)
          /\ d = [drain[t] EXCEPT !.pc = "idle", !.batch = <<>>]
  OBVIOUS
<1>2. /\ DrainStep(t) /\ drain[t].pc = "writing" /\ drain' = [drain EXCEPT ![t] = d]
      /\ queue' = [queue EXCEPT ![t] = q] /\ inbox' = [inbox EXCEPT ![t] = rows]
      /\ closed' = closed
  BY <1>1 DEF FlushSucceeds
<1>3. /\ rows \in Seq(Built) /\ Ordered(queue[t], rows, accepted[t])
      /\ Len(accepted[t]) - Len(queue[t]) + Len(drain[t].batch) <= Len(rows)
  BY <1>1, <1>2, WriteInOrder
<1>4. PICK n : n = Len(drain[t].batch)
  OBVIOUS
<1>5. n \in Nat /\ n <= Len(queue[t]) /\ q = SubSeq(queue[t], n + 1, Len(queue[t]))
      /\ Len(accepted[t]) - Len(queue[t]) + n <= Len(rows)
  <2>1. drain[t] \in Drains /\ Heads(drain[t].batch, queue[t])
    BY <1>2, OfTenant
  <2>2. drain[t].batch \in Seq(Built)
    BY <2>1 DEF Drains
  <2>3. n \in Nat /\ n <= Len(queue[t])
    BY <1>4, <2>1, <2>2 DEF Heads
  <2>4. q = SubSeq(queue[t], n + 1, Len(queue[t]))
    BY <1>1, <1>4, Zenon
  <2>5. Len(accepted[t]) - Len(queue[t]) + n <= Len(rows)
    BY <1>3, <1>4, Zenon
  <2> QED BY <2>3, <2>4, <2>5
<1>6. queue[t] \in Seq(Built) /\ accepted[t] \in Seq(Built)
  BY OfTenant
<1>7. q \in Seq(Built) /\ Ordered(q, rows, accepted[t])
  BY <1>3, <1>5, <1>6, OrderedRemove
<1>8. d \in Drains /\ d.pc = "idle" /\ d.final = drain[t].final
  <2>1. <<>> \in Seq(Built) /\ drain[t] \in Drains
    BY OfTenant
  <2> QED BY <1>1, <2>1 DEF Drains
<1>9. Owes(t, q, rows, d)
  BY <1>3, <1>7, <1>8, OfTenant DEF Owes
<1>10. closed' \in [Tenants -> BOOLEAN]
  BY <1>2 DEF DeliveryInv, InboxTypeOK
<1> QED BY <1>2, <1>9, <1>10, DrainKeeps

LEMMA FlushFailsKeeps ==
    ASSUME DeliveryInv, NEW t \in Tenants, FlushFails(t)
    PROVE  DeliveryInv'
<1>1. PICK q, rows, d :
          /\ q = queue[t]
          /\ rows = IF inbox' = inbox THEN inbox[t] ELSE Enqueue(inbox[t], drain[t].batch)
          /\ d = AfterFailure(t)
  OBVIOUS
<1>2. /\ DrainStep(t) /\ drain[t].pc = "writing" /\ drain' = [drain EXCEPT ![t] = d]
      /\ queue' = [queue EXCEPT ![t] = q] /\ inbox' = [inbox EXCEPT ![t] = rows]
      /\ closed' = closed
  BY <1>1, OfTenant DEF FlushFails
<1>3. rows \in Seq(Built) /\ Ordered(queue[t], rows, accepted[t])
  <2>1. CASE inbox' = inbox
    BY <1>1, <2>1, OfTenant
  <2>2. CASE inbox' # inbox
    BY <1>1, <1>2, <2>2, WriteInOrder
  <2> QED BY <2>1, <2>2
<1>4. drain[t] \in Drains /\ q \in Seq(Built) /\ Len(q) \in Nat
  BY <1>1, OfTenant
<1>5. /\ d \in Drains /\ d.pc \in {"done", "waiting"} /\ d.final = drain[t].final
      /\ (d.pc = "done" => d.final /\ Len(q) <= d.abandoned)
  <2> DEFINE last == drain[t].final /\ drain[t].attempts + 1 >= FinalAttempts
  <2>1. PICK pc, attempts, abandoned :
            /\ pc = IF last THEN "done" ELSE "waiting"
            /\ attempts = IF drain[t].final THEN drain[t].attempts + 1 ELSE drain[t].attempts
            /\ abandoned = IF last THEN Len(q) ELSE drain[t].abandoned
    OBVIOUS
  <2>2. d = [drain[t] EXCEPT !.batch = <<>>, !.pc = pc, !.attempts = attempts,
                             !.abandoned = abandoned]
    BY <1>1, <2>1 DEF AfterFailure
  <2>3. /\ pc \in {"done", "waiting"} /\ attempts \in Nat /\ abandoned \in Nat
        /\ pc = "done" => drain[t].final /\ Len(q) <= abandoned
    BY <1>4, <2>1 DEF Drains
  <2> HIDE DEF last
  <2>4. PICK b : b = <<>>
    OBVIOUS
  <2>5. b \in Seq(Built) /\ d = [drain[t] EXCEPT !.batch = b, !.pc = pc, !.attempts = attempts,
                                                 !.abandoned = abandoned]
    BY <2>2, <2>4
  <2>6. d \in Drains /\ d.pc = pc /\ d.final = drain[t].final /\ d.abandoned = abandoned
    BY <1>4, <2>3, <2>5 DEF Drains
  <2> QED BY <2>3, <2>6
<1>6. Owes(t, q, rows, d)
  BY <1>1, <1>3, <1>4, <1>5, OfTenant DEF Owes
<1>7. closed' \in [Tenants -> BOOLEAN]
  BY <1>2 DEF DeliveryInv, InboxTypeOK
<1> QED BY <1>2, <1>6, <1>7, DrainKeeps

LEMMA WaitEndsKeeps ==
    ASSUME DeliveryInv, NEW t \in Tenants, WaitEnds(t)
    PROVE  DeliveryInv'
<1>1. PICK q, rows, d : q = queue[t] /\ rows = inbox[t] /\ d = [drain[t] EXCEPT !.pc = "idle"]
  OBVIOUS
<1>2. /\ DrainStep(t) /\ drain[t].pc = "waiting" /\ drain' = [drain EXCEPT ![t] = d]
      /\ queue' = [queue EXCEPT ![t] = q] /\ inbox' = [inbox EXCEPT ![t] = rows]
      /\ closed' = closed
  BY <1>1, OfTenant DEF WaitEnds
<1>3. d \in Drains /\ d.pc = "idle" /\ d.final = drain[t].final
  BY <1>1, OfTenant DEF Drains
<1>4. Owes(t, q, rows, d)
  BY <1>1, <1>3, OfTenant DEF Owes
<1>5. closed' \in [Tenants -> BOOLEAN]
  BY <1>2 DEF DeliveryInv, InboxTypeOK
<1> QED BY <1>2, <1>4, <1>5, DrainKeeps

LEMMA DrainStopsKeeps ==
    ASSUME DeliveryInv, NEW t \in Tenants, DrainStops(t)
    PROVE  DeliveryInv'
<1>1. PICK q, rows, d :
          /\ q = queue[t] /\ rows = inbox[t]
          /\ d = [drain[t] EXCEPT !.pc = "idle", !.final = TRUE]
  OBVIOUS
<1>2. /\ DrainStep(t) /\ phase = "stopping" /\ drain[t].pc = "waiting"
      /\ drain' = [drain EXCEPT ![t] = d]
      /\ queue' = [queue EXCEPT ![t] = q] /\ inbox' = [inbox EXCEPT ![t] = rows]
      /\ closed' = [closed EXCEPT ![t] = TRUE]
  BY <1>1, OfTenant DEF DrainStops
<1>3. d \in Drains /\ d.pc = "idle"
  BY <1>1, OfTenant DEF Drains
<1>4. Owes(t, q, rows, d)
  BY <1>1, <1>2, <1>3, OfTenant DEF Owes
<1>5. closed' \in [Tenants -> BOOLEAN]
  BY <1>2 DEF DeliveryInv, InboxTypeOK
<1> QED BY <1>2, <1>4, <1>5, DrainKeeps

(***************************************************************************)
(* The collector's other steps.                                            *)
(***************************************************************************)
\* A finished drain is added to the report.
LEMMA AwaitDrainKeeps ==
    ASSUME DeliveryInv, NEW t \in Tenants, AwaitDrain(t)
    PROVE  DeliveryInv'
<1>1. /\ phase = "stopping" /\ t \notin report.awaited
      /\ UNCHANGED <<sinks, now, phase, instance, failed, open, emitted, opened, queue, closed,
                     drain, inbox, accepted>>
  BY DEF AwaitDrain, engineVars
<1>2. InboxTypeOK /\ ReportCounts
  BY DEF DeliveryInv
<1>3. PICK r : r = report
  OBVIOUS
<1>4. r \in [awaited : SUBSET Tenants, timed_out : SUBSET Tenants, abandoned : Nat]
  BY <1>2, <1>3 DEF InboxTypeOK
<1>5. drain[t].abandoned \in Nat /\ queue[t] \in Seq(Built)
  BY OfTenant DEF Drains
<1>6. \/ /\ drain[t].pc = "done"
         /\ report' = [r EXCEPT !.awaited = r.awaited \union {t},
                                !.abandoned = r.abandoned + drain[t].abandoned]
      \/ /\ drain[t].pc # "done"
         /\ report' = [r EXCEPT !.awaited = r.awaited \union {t},
                                !.timed_out = r.timed_out \union {t}]
  BY <1>3 DEF AwaitDrain
<1>7. InboxTypeOK'
  <2>1. report' \in [awaited : SUBSET Tenants, timed_out : SUBSET Tenants, abandoned : Nat]
    <3>1. PICK more, late, n : /\ more = r.awaited \union {t} /\ late = r.timed_out \union {t}
                               /\ n = r.abandoned + drain[t].abandoned
      OBVIOUS
    <3>2. more \in SUBSET Tenants /\ late \in SUBSET Tenants /\ n \in Nat
      BY <1>4, <1>5, <3>1
    <3>3. CASE report' = [r EXCEPT !.awaited = more, !.abandoned = n]
      BY <1>4, <3>2, <3>3
    <3>4. CASE report' = [r EXCEPT !.awaited = more, !.timed_out = late]
      BY <1>4, <3>2, <3>4
    <3> QED BY <1>6, <3>1, <3>3, <3>4
  <2> QED BY <1>1, <1>2, <2>1 DEF InboxTypeOK
<1>8. ReportCounts'
  <2>1. CASE drain[t].pc # "done"
    <3>1. report'.timed_out # {} /\ phase' = "stopping"
      BY <1>1, <1>4, <1>6, <2>1
    <3> QED BY <3>1 DEF ReportCounts
  <2>2. CASE drain[t].pc = "done"
    <3>1. /\ report'.awaited = r.awaited \union {t} /\ report'.timed_out = r.timed_out
          /\ report'.abandoned = r.abandoned + drain[t].abandoned
      BY <1>4, <1>6, <2>2
    <3>2. CASE r.timed_out = {}
      <4> DEFINE mine == {t} \X (1 .. Len(queue[t]))
      <4>1. Left(report.awaited)' = Left(r.awaited) \union mine
        BY <1>1, <3>1 DEF Left
      <4>2. IsFiniteSet(Left(r.awaited)) /\ Cardinality(Left(r.awaited)) <= r.abandoned
        BY <1>2, <1>3, <3>2 DEF ReportCounts
      <4>3. IsFiniteSet(mine) /\ Cardinality(mine) = Len(queue[t])
        <5>1. PICK n : n = Len(queue[t])
          OBVIOUS
        <5>2. n \in Nat
          BY <1>5, <5>1
        <5>3. IsFiniteSet(1 .. n) /\ Cardinality(1 .. n) = n
          BY <5>2, FS_Interval
        <5>4. IsFiniteSet({t}) /\ Cardinality({t}) = 1
          BY FS_Singleton
        <5>5. IsFiniteSet({t} \X (1 .. n)) /\ Cardinality({t} \X (1 .. n)) = 1 * n
          <6>1. PICK one, many : one = {t} /\ many = 1 .. n
            OBVIOUS
          <6>2. IsFiniteSet(one \X many) /\ Cardinality(one \X many) = Cardinality(one) * Cardinality(many)
            BY <5>3, <5>4, <6>1, FS_Product
          <6> QED BY <5>3, <5>4, <6>1, <6>2
        <5>6. 1 * n = n
          BY <5>2
        <5> QED BY <5>1, <5>5, <5>6, Zenon
      <4>4. Len(queue[t]) <= drain[t].abandoned
        BY <2>2 DEF DeliveryInv, DrainsCount
      <4> HIDE DEF mine
      <4>5. PICK A, B : A = Left(r.awaited) /\ B = mine
        OBVIOUS
      <4>6. IsFiniteSet(A \union B) /\
            Cardinality(A \union B) = Cardinality(A) + Cardinality(B) - Cardinality(A \cap B)
        BY <4>2, <4>3, <4>5, FS_Union
      <4>7. IsFiniteSet(A \cap B)
        BY <4>2, <4>5, FS_Subset
      <4>8. Cardinality(A) \in Nat /\ Cardinality(B) \in Nat /\ Cardinality(A \cap B) \in Nat
        BY <4>2, <4>3, <4>5, <4>7, FS_CardinalityType
      <4>9. /\ IsFiniteSet(Left(report.awaited)')
            /\ Cardinality(Left(report.awaited)') <= report'.abandoned
        <5>1. Cardinality(A) <= r.abandoned /\ Cardinality(B) = Len(queue[t])
              /\ Len(queue[t]) \in Nat /\ r.abandoned \in Nat
          BY <1>4, <1>5, <4>2, <4>3, <4>5
        <5>2. Cardinality(A \union B) <= r.abandoned + drain[t].abandoned
          BY <1>5, <4>4, <4>6, <4>8, <5>1
        <5> QED BY <3>1, <4>1, <4>5, <4>6, <5>2
      <4>10. \A x \in report'.awaited : drain'[x].pc = "done"
        BY <1>1, <1>2, <1>3, <2>2, <3>1, <3>2 DEF ReportCounts
      <4> QED BY <1>1, <4>9, <4>10 DEF ReportCounts
    <3>3. CASE r.timed_out # {}
      BY <1>1, <3>1, <3>3 DEF ReportCounts
    <3> QED BY <3>2, <3>3
  <2> QED BY <2>1, <2>2
<1>9. EngineTypeOK' /\ OpenedAtStart' /\ NoInbox'
  BY <1>1 DEF DeliveryInv, EngineTypeOK, OpenedAtStart, NoInbox
<1>10. KeysPast'
  BY <1>1, KeysPastStay DEF DeliveryInv
<1>11. Reported'
  BY <1>1, ReportedStays DEF DeliveryInv
<1>12. InOrder' /\ DrainsCount'
  BY <1>1 DEF DeliveryInv, InOrder, DrainsCount
<1> QED BY <1>7, <1>8, <1>9, <1>10, <1>11, <1>12 DEF DeliveryInv

\* A step that leaves the engine and the inbox alone keeps the invariant when the phase
\* stays or moves towards a stop of which every drain was awaited.
LEMMA PhaseKeeps ==
    ASSUME DeliveryInv, now' \in Nat,
           UNCHANGED <<sinks, instance, failed, open, opened, queue, closed, drain, inbox,
                       report, accepted>>,
           phase' # "running" \/ phase' = phase,
           phase' = "stopped" /\ "inbox" \in sinks => report.awaited = Tenants
    PROVE  DeliveryInv'
<1>1. EngineTypeOK' /\ InboxTypeOK' /\ OpenedAtStart' /\ NoInbox'
  BY DEF DeliveryInv, EngineTypeOK, InboxTypeOK, OpenedAtStart, NoInbox
<1>2. KeysPast'
  BY KeysPastStay DEF DeliveryInv
<1>3. Reported'
  BY ReportedStays DEF DeliveryInv
<1>4. InOrder'
  BY DEF DeliveryInv, InOrder
<1>5. DrainsCount'
  BY DEF DeliveryInv, DrainsCount
<1>6. Left(report.awaited)' = Left(report.awaited)
  BY DEF Left
<1>7. ReportCounts'
  BY <1>6 DEF DeliveryInv, ReportCounts
<1> QED BY <1>1, <1>2, <1>3, <1>4, <1>5, <1>7 DEF DeliveryInv

\* A new process has taken what the inbox holds, under identifiers no earlier one made.
LEMMA RestartKeeps ==
    ASSUME DeliveryInv, Restart
    PROVE  DeliveryInv'
<1>1. /\ instance' = instance + 1 /\ phase' = "running" /\ now' = now
      /\ open' = [s \in Scopes |-> None] /\ opened' = [s \in Scopes |-> 0]
      /\ queue' = [t \in Tenants |-> <<>>] /\ closed' = [t \in Tenants |-> FALSE]
      /\ drain' = [t \in Tenants |-> NewDrain]
      /\ report' = [awaited |-> {}, timed_out |-> {}, abandoned |-> 0]
      /\ accepted' = inbox /\ inbox' = inbox /\ sinks' = sinks
  BY DEF Restart, NewQueues
<1>2. EngineTypeOK /\ InboxTypeOK
  BY DEF DeliveryInv
<1>3. EngineTypeOK' /\ OpenedAtStart'
  BY <1>1, <1>2 DEF EngineTypeOK, OpenedAtStart
<1>4. NewDrain \in Drains /\ NewDrain.pc = "idle" /\ NewDrain.final = FALSE
  BY DEF NewDrain, Drains
<1>5. InboxTypeOK'
  <2>1. report' \in [awaited : SUBSET Tenants, timed_out : SUBSET Tenants, abandoned : Nat]
    BY <1>1
  <2>2. queue' \in [Tenants -> Seq(Built)] /\ drain' \in [Tenants -> Drains]
        /\ closed' \in [Tenants -> BOOLEAN]
    BY <1>1, <1>4
  <2> QED BY <1>1, <1>2, <2>1, <2>2 DEF InboxTypeOK
<1>6. KeysPast'
  <2> SUFFICES ASSUME NEW t \in Tenants, NEW i \in 1 .. Len(inbox[t]),
                      NEW k, k = inbox[t][i].dedup_key
               PROVE  PastKey(k)'
    BY <1>1 DEF KeysPast
  <2>1. i \in 1 .. Len(accepted[t]) /\ inbox[t][i] = accepted[t][i]
    <3>1. Ordered(queue[t], inbox[t], accepted[t]) /\ inbox[t] \in Seq(Built)
          /\ accepted[t] \in Seq(Built)
      BY OfTenant
    <3> QED BY <3>1 DEF Ordered
  <2>2. PastKey(k)
    BY <2>1 DEF DeliveryInv, KeysPast
  <2> QED BY <1>1, <1>2, <2>2, PastKeyRestarts DEF EngineTypeOK
<1>7. InOrder'
  <2> SUFFICES ASSUME NEW t \in Tenants
               PROVE  /\ Ordered(queue'[t], inbox'[t], accepted'[t]) /\ Distinct(accepted'[t])
                      /\ drain'[t].pc = "writing" => Heads(drain'[t].batch, queue'[t])
    BY DEF InOrder
  <2>1. Ordered(<<>>, inbox[t], inbox[t]) /\ Distinct(inbox[t])
    BY OfTenant, OrderedRestart
  <2>2. queue'[t] = <<>> /\ drain'[t].pc = "idle"
    BY <1>1, <1>4
  <2> QED BY <1>1, <2>1, <2>2
<1>8. Reported'
  BY <1>1 DEF Reported
<1>9. DrainsCount' /\ NoInbox'
  BY <1>1, <1>4 DEF DrainsCount, NoInbox
<1>10. ReportCounts'
  <2>1. Left(report.awaited)' = {} /\ report'.awaited = {} /\ report'.abandoned = 0
    BY <1>1 DEF Left
  <2>2. IsFiniteSet(Left(report.awaited)') /\ Cardinality(Left(report.awaited)') <= 0
    BY <2>1, FS_EmptySet
  <2> QED BY <1>1, <2>1, <2>2 DEF ReportCounts
<1> QED BY <1>3, <1>5, <1>6, <1>7, <1>8, <1>9, <1>10 DEF DeliveryInv

(***************************************************************************)
(* The theorems.                                                           *)
(***************************************************************************)
LEMMA DeliveryInitHolds == DeliveryInit => DeliveryInv
<1> HAVE DeliveryInit
<1>1. EngineTypeOK /\ OpenedAtStart
  BY DEF DeliveryInit, EngineTypeOK, OpenedAtStart
<1>2. NewDrain \in Drains /\ NewDrain.pc = "idle" /\ NewDrain.final = FALSE
  BY DEF NewDrain, Drains
<1>3. /\ queue = [t \in Tenants |-> <<>>] /\ inbox = [t \in Tenants |-> <<>>]
      /\ accepted = [t \in Tenants |-> <<>>] /\ drain = [t \in Tenants |-> NewDrain]
      /\ report = [awaited |-> {}, timed_out |-> {}, abandoned |-> 0]
  BY DEF DeliveryInit, NewQueues
<1>4. InboxTypeOK
  <2>1. closed \in [Tenants -> BOOLEAN]
    BY DEF DeliveryInit
  <2> QED BY <1>2, <1>3, <2>1 DEF InboxTypeOK
<1>5. KeysPast /\ Reported
  BY <1>3 DEF DeliveryInit, KeysPast, Reported
<1>6. InOrder
  BY <1>2, <1>3 DEF InOrder, Ordered, Distinct
<1>7. DrainsCount /\ NoInbox
  BY <1>2, <1>3 DEF DrainsCount, NoInbox
<1>8. ReportCounts
  <2>1. Left(report.awaited) = {} /\ report.awaited = {} /\ report.abandoned = 0
    BY <1>3 DEF Left
  <2>2. IsFiniteSet(Left(report.awaited)) /\ Cardinality(Left(report.awaited)) <= 0
    BY <2>1, FS_EmptySet
  <2> QED BY <2>1, <2>2 DEF ReportCounts, DeliveryInit
<1> QED BY <1>1, <1>4, <1>5, <1>6, <1>7, <1>8 DEF DeliveryInv

LEMMA DeliveryStep == DeliveryInv /\ [DeliveryNext]_dvars => DeliveryInv'
<1> HAVE DeliveryInv /\ [DeliveryNext]_dvars
<1>1. now \in Nat
  BY DEF DeliveryInv, EngineTypeOK
<1>2. DeliveryInv /\ (phase = "stopped" /\ "inbox" \in sinks => report.awaited = Tenants)
  BY DEF DeliveryInv, ReportCounts
<1>3. ASSUME NEW s \in Scopes, Started(s) \/ Updated(s) \/ Ended(s)
      PROVE  DeliveryInv'
  <2>1. EngineMoves(s)
    BY <1>2, <1>3, StartedMoves, UpdatedMoves, EndedMoves
  <2>2. PICK d \in Detection, k \in Kinds : MovesOn(s, d) /\ emit(build(instance, s, d, k))
    BY <2>1 DEF EngineMoves
  <2>3. EngineStep /\ Publishes(s, build(instance, s, d, k))
    BY <1>2, <2>1, <2>2, EmitPublishes DEF EngineMoves
  <2> QED BY <1>2, <2>2, <2>3, EngineKeeps
<1>4. ASSUME NEW t \in Tenants,
             \/ FlushBegins(t) \/ FlushSucceeds(t) \/ FlushFails(t)
             \/ WaitEnds(t) \/ DrainStops(t) \/ AwaitDrain(t)
      PROVE  DeliveryInv'
  BY <1>2, <1>4, FlushBeginsKeeps, FlushSucceedsKeeps, FlushFailsKeeps, WaitEndsKeeps,
     DrainStopsKeeps, AwaitDrainKeeps
<1>5. CASE ExportTick
  <2>1. UNCHANGED <<sinks, now, phase, instance, failed, open, opened, queue, closed, drain, inbox,
                    report, accepted>>
    BY <1>5 DEF ExportTick, engineVars, inboxVars
  <2> QED BY <1>1, <1>2, <2>1, PhaseKeeps
<1>6. CASE TimePasses
  <2>1. /\ UNCHANGED <<sinks, phase, instance, failed, open, opened, queue, closed, drain, inbox,
                       report, accepted>>
        /\ now' \in Nat
    BY <1>1, <1>6 DEF TimePasses, engineVars, inboxVars
  <2> QED BY <1>2, <2>1, PhaseKeeps
<1>7. CASE Shutdown
  <2>1. /\ UNCHANGED <<sinks, now, instance, failed, open, opened, queue, closed, drain, inbox,
                       report, accepted>>
        /\ phase' = "stopping"
    BY <1>7 DEF Shutdown, engineVars, inboxVars
  <2> QED BY <1>1, <1>2, <2>1, PhaseKeeps
<1>8. CASE Exit
  <2>1. /\ UNCHANGED <<sinks, now, instance, failed, open, opened, queue, closed, drain, inbox,
                       report, accepted>>
        /\ phase' = "stopped" /\ ("inbox" \in sinks => report.awaited = Tenants)
    BY <1>8 DEF Exit, engineVars, inboxVars
  <2> QED BY <1>1, <1>2, <2>1, PhaseKeeps
<1>9. CASE Restart
  BY <1>2, <1>9, RestartKeeps
<1>10. CASE UNCHANGED dvars
  <2>1. UNCHANGED <<sinks, now, phase, instance, failed, open, opened, queue, closed, drain, inbox,
                    report, accepted>>
    BY <1>10 DEF dvars
  <2> QED BY <1>1, <1>2, <2>1, PhaseKeeps
<1> QED BY <1>3, <1>4, <1>5, <1>6, <1>7, <1>8, <1>9, <1>10 DEF DeliveryNext

\* Queue, batch and inbox of every tenant stay in step with what the queue accepted, no
\* two accepted events share a key, and drains and report count what they leave.
THEOREM DeliveryInductive == DeliverySpec => []DeliveryInv
<1>1. DeliveryInit => DeliveryInv
  BY DeliveryInitHolds
<1>2. DeliveryInv /\ [DeliveryNext]_dvars => DeliveryInv'
  BY DeliveryStep
<1> QED BY <1>1, <1>2, PTL DEF DeliverySpec

LEMMA InboxInOrderHolds == DeliveryInv => InboxInOrder
<1> HAVE DeliveryInv
<1>1. ASSUME NEW t \in Tenants
      PROVE  inbox[t] \o AtIndexes(queue[t], Unwritten(t)) = accepted[t]
  <2>1. PICK q, rows, a : q = queue[t] /\ rows = inbox[t] /\ a = accepted[t]
    OBVIOUS
  <2>2. /\ q \in Seq(Built) /\ rows \in Seq(Built) /\ a \in Seq(Built)
        /\ Ordered(q, rows, a) /\ Distinct(a)
    BY <2>1, OfTenant
  <2>3. rows \o AtIndexes(q, {i \in DOMAIN q : q[i] \notin ToSet(rows)}) = a
    BY <2>2, RowsThenQueue
  <2> QED BY <2>1, <2>3 DEF Unwritten
<1>2. ASSUME "inbox" \in sinks, NEW s \in {x \in Scopes : open[x] # None /\ publishes(ModeOf[x])},
             NEW n \in 0 .. open[s].sequence
      PROVE  \E k \in failed \union {e.dedup_key : e \in ToSet(accepted[TenantOf[s]])} :
                 k[1] = detection_id(instance, s, open[s].started) /\ k[Len(k)] = n
  <2>1. Told(s, n)
    BY <1>2 DEF DeliveryInv, Reported
  <2>2. PICK kind, k :
            /\ kind \in Kinds /\ k = <<<<instance, s, open[s].started>>, kind, n>>
            /\ \/ k \in failed
               \/ \E i \in 1 .. Len(accepted[TenantOf[s]]) :
                     accepted[TenantOf[s]][i].dedup_key = k
    BY <2>1 DEF Told
  <2>3. k[1] = detection_id(instance, s, open[s].started) /\ k[Len(k)] = n
    BY <2>2 DEF detection_id
  <2>4. k \in failed \union {e.dedup_key : e \in ToSet(accepted[TenantOf[s]])}
    <3>1. CASE k \in failed
      BY <3>1
    <3>2. CASE \E i \in 1 .. Len(accepted[TenantOf[s]]) : accepted[TenantOf[s]][i].dedup_key = k
      <4>1. PICK a : a = accepted[TenantOf[s]]
        OBVIOUS
      <4>2. a \in Seq(Built)
        BY <1>2, <4>1 DEF DeliveryInv, InboxTypeOK, Tenants
      <4>3. PICK i \in 1 .. Len(a) : a[i].dedup_key = k
        BY <3>2, <4>1
      <4>4. a[i] \in ToSet(a)
        BY <4>2 DEF ToSet
      <4> QED BY <4>1, <4>3, <4>4
    <3> QED BY <2>2, <3>1, <3>2
  <2> QED BY <2>3, <2>4
<1> QED BY <1>1, <1>2 DEF InboxInOrder

\* The inbox followed by what a queue has left to write is what the queue took, in its
\* order and each event once, through failed writes, lost answers, stops and crashes;
\* and an event of an open detection that no queue took was reported (producer.rs
\* flush_batch, inbox.rs ENQUEUE).
THEOREM InboxIsInOrder == DeliverySpec => []InboxInOrder
<1>1. DeliverySpec => []DeliveryInv
  BY DeliveryInductive
<1>2. DeliveryInv => InboxInOrder
  BY InboxInOrderHolds
<1> QED BY <1>1, <1>2, PTL

LEMMA LossIsReportedHolds == DeliveryInv => LossIsReported
<1> SUFFICES ASSUME DeliveryInv, phase = "stopped", report.timed_out = {}
             PROVE  Cardinality(UNION {{t} \X Unwritten(t) : t \in Tenants}) <= report.abandoned
  BY DEF LossIsReported
<1> DEFINE Lost == UNION {{t} \X Unwritten(t) : t \in Tenants}
<1>1. InboxTypeOK /\ ReportCounts
  BY DEF DeliveryInv
<1>2. \A t \in Tenants : Unwritten(t) \subseteq 1 .. Len(queue[t])
  BY <1>1 DEF InboxTypeOK, Unwritten
<1>3. report.abandoned \in Nat
  BY <1>1 DEF InboxTypeOK
<1>4. CASE "inbox" \in sinks
  <2>1. report.awaited = Tenants
    BY <1>1, <1>4 DEF ReportCounts
  <2>2. IsFiniteSet(Left(Tenants)) /\ Cardinality(Left(Tenants)) <= report.abandoned
    BY <1>1, <2>1 DEF ReportCounts
  <2>3. Lost \subseteq Left(Tenants)
    BY <1>2 DEF Left
  <2> HIDE DEF Lost
  <2>4. IsFiniteSet(Lost) /\ Cardinality(Lost) <= Cardinality(Left(Tenants))
    BY <2>2, <2>3, FS_Subset
  <2>5. Cardinality(Lost) \in Nat /\ Cardinality(Left(Tenants)) \in Nat
    BY <2>2, <2>4, FS_CardinalityType
  <2>6. Cardinality(Lost) <= report.abandoned
    BY <1>3, <2>2, <2>4, <2>5
  <2> QED BY <2>6 DEF Lost
<1>5. CASE "inbox" \notin sinks
  <2>1. \A t \in Tenants : Unwritten(t) = {}
    BY <1>5 DEF DeliveryInv, NoInbox, Unwritten
  <2>2. Lost = {}
    BY <2>1
  <2> HIDE DEF Lost
  <2>3. Cardinality(Lost) <= report.abandoned
    BY <1>3, <2>2, FS_EmptySet
  <2> QED BY <2>3 DEF Lost
<1> QED BY <1>4, <1>5

\* A stop in which every drain finished within its grace reports at least every event it
\* leaves out of the inbox, whatever the tenants and however many attempts each drain has
\* (incident_inbox.rs shutdown, producer.rs run_observed).
THEOREM EveryLossIsReported == DeliverySpec => []LossIsReported
<1>1. DeliverySpec => []DeliveryInv
  BY DeliveryInductive
<1>2. DeliveryInv => LossIsReported
  BY LossIsReportedHolds
<1> QED BY <1>1, <1>2, PTL

(***************************************************************************)
(* The pipeline of a ClickHouse table.                                     *)
(***************************************************************************)
LEMMA LeastNumber ==
    ASSUME NEW T, T \subseteq Nat, T # {}
    PROVE  \E x \in T : \A y \in T : x <= y
<1> DEFINE R == {ss \in Nat \X Nat : ss[1] < ss[2]}
<1>1. IsWellFoundedOn(R, Nat)
  BY NatLessThanWellFounded DEF OpToRel
<1>2. \E x \in T : \A y \in T : ~ (<<y, x>> \in R)
  <2> HIDE DEF R
  <2> QED BY <1>1, WFMin
<1>3. PICK x \in T : \A y \in T : ~ (<<y, x>> \in R)
  BY <1>2
<1>4. ASSUME NEW y \in T PROVE x <= y
  <2>1. y \in Nat /\ x \in Nat
    OBVIOUS
  <2>2. ~ (y < x)
    BY <2>1, <1>3
  <2> QED BY <2>1, <2>2
<1> QED BY <1>4

\* Where the elements of AtIndexes come from.
Places(f, seq, S) ==
    /\ IsFiniteSet(S) /\ Cardinality(S) \in Nat
    /\ f \in [1 .. Cardinality(S) -> S]
    /\ \A m, n \in 1 .. Cardinality(S) : f[m] = f[n] => m = n
    /\ \A i \in S : \E n \in 1 .. Cardinality(S) : f[n] = i
    /\ AtIndexes(seq, S) = [n \in 1 .. Cardinality(S) |-> seq[f[n]]]

\* AtIndexes takes each of its indexes once.
LEMMA Picked ==
    ASSUME NEW seq, NEW L \in Nat, NEW S \in SUBSET (1 .. L)
    PROVE  \E f : Places(f, seq, S)
<1> DEFINE Below(i) == {j \in S : j < i}
           N == Cardinality(S)
<1>1. IsFiniteSet(S) /\ N \in Nat
  <2>1. IsFiniteSet(1 .. L)
    BY FS_Interval
  <2> QED BY <2>1, FS_Subset, FS_CardinalityType
<1>2. ASSUME NEW i \in S PROVE IsFiniteSet(Below(i)) /\ Cardinality(Below(i)) \in 0 .. N - 1
  <2>1. Below(i) \in SUBSET S /\ i \notin Below(i)
    OBVIOUS
  <2>2. /\ IsFiniteSet(Below(i)) /\ Cardinality(Below(i)) <= N
        /\ N = Cardinality(Below(i)) => S = Below(i)
    BY <1>1, <2>1, FS_Subset
  <2>3. Cardinality(Below(i)) \in Nat
    BY <2>2, FS_CardinalityType
  <2> QED BY <1>1, <2>1, <2>2, <2>3
<1>3. ASSUME NEW i \in S, NEW j \in S, i < j
      PROVE  Cardinality(Below(i)) # Cardinality(Below(j))
  <2>0. \A k \in S : k \in Int
    OBVIOUS
  <2>3. i \in Below(j) /\ i \notin Below(i)
    BY <1>3, <2>0
  <2>4. \A k \in S : k < i => k < j
    BY <1>3, <2>0
  <2>1. Below(i) \in SUBSET Below(j) /\ i \in Below(j) /\ i \notin Below(i)
    BY <2>3, <2>4
  <2>2. Cardinality(Below(j)) = Cardinality(Below(i)) => Below(j) = Below(i)
    BY <1>2, <2>1, FS_Subset
  <2> HIDE DEF Below
  <2> QED BY <2>1, <2>2
<1>4. \A i, j \in S : Cardinality(Below(i)) = Cardinality(Below(j)) => i = j
  <2>1. \A i, j \in S : i < j \/ j < i \/ i = j
    OBVIOUS
  <2> HIDE DEF Below
  <2> QED BY <1>3, <2>1
<1> DEFINE ranks == [i \in S |-> Cardinality(Below(i))]
<1>5. \A k \in 0 .. N - 1 : \E i \in S : Cardinality(Below(i)) = k
  <2>1. ranks \in Injection(S, 0 .. N - 1)
    <3> HIDE DEF Below, N
    <3> QED BY <1>2, <1>4 DEF Injection, IsInjective
  <2>2. IsFiniteSet(0 .. N - 1) /\ Cardinality(0 .. N - 1) = N
    <3>1. PICK m \in Int : m = N - 1
      BY <1>1
    <3>2. /\ IsFiniteSet(0 .. m)
          /\ Cardinality(0 .. m) = IF 0 > m THEN 0 ELSE m - 0 + 1
      BY FS_Interval
    <3> QED BY <1>1, <3>1, <3>2
  <2>3. ranks \in Surjection(S, 0 .. N - 1)
    BY <1>1, <2>1, <2>2, FS_Injection
  <2> QED BY <2>3 DEF Surjection
<1> DEFINE At(n) == CHOOSE i \in S : Cardinality(Below(i)) = n - 1
<1>6. \A n \in 1 .. N : At(n) \in S /\ Cardinality(Below(At(n))) = n - 1
  <2> TAKE n \in 1 .. N
  <2>1. n - 1 \in 0 .. N - 1
    BY <1>1
  <2>2. \E i \in S : Cardinality(Below(i)) = n - 1
    BY <1>5, <2>1
  <2> HIDE DEF Below, N
  <2> QED BY <2>2
<1>7. PICK f : f = [n \in 1 .. N |-> At(n)]
  OBVIOUS
<1>8. AtIndexes(seq, S) = [n \in 1 .. N |-> seq[At(n)]]
  BY DEF AtIndexes
<1>9. \A i \in S : \E n \in 1 .. N : At(n) = i
  <2> TAKE i \in S
  <2>1. PICK n : n = Cardinality(Below(i)) + 1
    OBVIOUS
  <2>2. n \in 1 .. N /\ Cardinality(Below(i)) = n - 1
    BY <1>1, <1>2, <2>1
  <2>3. At(n) \in S /\ Cardinality(Below(At(n))) = n - 1
    BY <1>6, <2>2
  <2>4. At(n) = i
    <3> HIDE DEF At, Below
    <3> QED BY <1>4, <2>2, <2>3
  <2> QED BY <2>2, <2>4
<1> HIDE DEF At, Below, N
<1>10. f \in [1 .. N -> S] /\ \A n \in 1 .. N : f[n] = At(n)
  BY <1>6, <1>7
<1>11. \A m, n \in 1 .. N : f[m] = f[n] => m = n
  BY <1>1, <1>6, <1>10
<1>12. AtIndexes(seq, S) = [n \in 1 .. N |-> seq[f[n]]]
  BY <1>8, <1>10
<1>13. Places(f, seq, S)
  BY <1>1, <1>9, <1>10, <1>11, <1>12 DEF Places, N
<1> QED BY <1>13

\* When a retry may be due.
Times == {n + backoff(a) : n \in Nat, a \in Nat}

BatchOf(R) == [rows : Seq(R), attempts : Nat, next_attempt_at : Times]

WriterOf(R) ==
    [rows : Seq(R), window_start : Nat, pending : Seq(BatchOf(R)),
     report : [retry_queue_dropped : Nat, permanently_dropped : Nat]]

\* The batches a writer gave up.
Counted(p) == p.writer.report.retry_queue_dropped + p.writer.report.permanently_dropped

\* A batch may be sent again, and no row of it was stored more often than it was sent.
Fits(b, table) ==
    /\ b.attempts \in Nat /\ b.attempts < MaxWriteAttempts
    /\ \A r \in ToSet(b.rows) : r \in DOMAIN table => table[r] <= b.attempts

\* A writer and its table while the batches of due after the n-th are in its hands: no row
\* is held twice, and one that was never sent is not stored.
PipelineTypeOK(p, R) ==
    /\ p = [writer |-> p.writer, table |-> p.table]
    /\ p.writer \in WriterOf(R)
    /\ DOMAIN p.table \subseteq R
    /\ p.table \in [DOMAIN p.table -> 1 .. MaxWriteAttempts]

Held(p) ==
    LET w == p.writer
    IN  /\ \A r \in ToSet(w.rows) : r \notin DOMAIN p.table
        /\ \A i \in 1 .. Len(w.pending) :
              Fits(w.pending[i], p.table) /\ ToSet(w.pending[i].rows) \cap ToSet(w.rows) = {}
        /\ \A i, j \in 1 .. Len(w.pending) :
              i # j => ToSet(w.pending[i].rows) \cap ToSet(w.pending[j].rows) = {}

InHand(p, R, due, n) ==
    LET w == p.writer
    IN  /\ \A i \in n + 1 .. Len(due) :
              /\ due[i].rows \in Seq(R) /\ Fits(due[i], p.table)
              /\ ToSet(due[i].rows) \cap ToSet(w.rows) = {}
        /\ \A i, j \in n + 1 .. Len(due) :
              i # j => ToSet(due[i].rows) \cap ToSet(due[j].rows) = {}
        /\ \A i \in 1 .. Len(w.pending), j \in n + 1 .. Len(due) :
              ToSet(w.pending[i].rows) \cap ToSet(due[j].rows) = {}

Flows(p, R, due, n) == PipelineTypeOK(p, R) /\ Held(p) /\ InHand(p, R, due, n)

\* Where a row may be.
Somewhere(r, p, due, n) ==
    \/ r \in ToSet(p.writer.rows) \/ r \in DOMAIN p.table
    \/ \E i \in 1 .. Len(p.writer.pending) : r \in ToSet(p.writer.pending[i].rows)
    \/ \E i \in n + 1 .. Len(due) : r \in ToSet(due[i].rows)

LEMMA HeldOrStored ==
    ASSUME NEW p, NEW R, PipelineTypeOK(p, R), NEW r
    PROVE  Somewhere(r, p, <<>>, 0) <=> r \in HeldBy(p.writer) \union BagToSet(p.table)
<1>1. PICK w : w = p.writer
  OBVIOUS
<1>2. w.pending \in Seq(BatchOf(R))
  BY <1>1 DEF PipelineTypeOK, WriterOf
<1>3. Len(<<>>) = 0
  OBVIOUS
<1>4. DOMAIN w.pending = 1 .. Len(w.pending)
  BY <1>2
<1>5. (\E b \in ToSet(w.pending) : r \in ToSet(b.rows))
        <=> \E i \in 1 .. Len(w.pending) : r \in ToSet(w.pending[i].rows)
  <2>1. ToSet(w.pending) = {w.pending[i] : i \in 1 .. Len(w.pending)}
    BY <1>4 DEF ToSet
  <2> QED BY <2>1
<1>6. r \in HeldBy(w) <=> r \in ToSet(w.rows) \/ \E b \in ToSet(w.pending) : r \in ToSet(b.rows)
  BY DEF HeldBy
<1> QED BY <1>1, <1>3, <1>5, <1>6 DEF Somewhere, BagToSet

\* What a writer makes of a batch that failed.
Requeued(q, w, rows, attempts, R) ==
    /\ q \in WriterOf(R) /\ q.rows = w.rows
    /\ w.report.retry_queue_dropped + w.report.permanently_dropped
         <= q.report.retry_queue_dropped + q.report.permanently_dropped
    /\ \/ /\ attempts + 1 >= MaxWriteAttempts /\ q.pending = w.pending
          /\ q.report.retry_queue_dropped + q.report.permanently_dropped > 0
       \/ /\ attempts + 1 < MaxWriteAttempts
          /\ \E e \in BatchOf(R) :
                /\ e.rows = rows /\ e.attempts = attempts + 1
                /\ \/ q.pending = Append(w.pending, e)
                   \/ /\ w.pending # <<>> /\ q.pending = Append(Tail(w.pending), e)
                      /\ q.report.retry_queue_dropped + q.report.permanently_dropped > 0

LEMMA RequeueKeeps ==
    ASSUME NEW R, NEW w \in WriterOf(R), NEW rows \in Seq(R), NEW attempts \in Nat, NEW t \in Nat,
           NEW q, q = requeue_after_failure(w, rows, attempts, t)
    PROVE  Requeued(q, w, rows, attempts, R)
<1>1. PICK e : e = [rows |-> rows, attempts |-> attempts + 1,
                    next_attempt_at |-> t + backoff(attempts + 1)]
  OBVIOUS
<1>2. e \in BatchOf(R) /\ e.rows = rows /\ e.attempts = attempts + 1
  <2>1. attempts + 1 \in Nat
    OBVIOUS
  <2>2. t + backoff(attempts + 1) \in Times
    BY <2>1 DEF Times
  <2> QED BY <1>1, <2>1, <2>2 DEF BatchOf
<1>3. /\ MaxPendingBatches \in Nat \ {0} /\ MaxWriteAttempts \in Nat \ {0}
  BY StorageAssumption
<1>4. /\ w.rows \in Seq(R) /\ w.pending \in Seq(BatchOf(R)) /\ w.window_start \in Nat
      /\ w.report.retry_queue_dropped \in Nat /\ w.report.permanently_dropped \in Nat
      /\ w = [rows |-> w.rows, window_start |-> w.window_start, pending |-> w.pending,
              report |-> w.report]
      /\ w.report \in [retry_queue_dropped : Nat, permanently_dropped : Nat]
  BY DEF WriterOf
<1>5. CASE attempts + 1 >= MaxWriteAttempts
  <2>1. q = [w EXCEPT !.report.permanently_dropped = @ + 1]
    BY <1>3, <1>5 DEF requeue_after_failure
  <2>2. /\ q.rows = w.rows /\ q.pending = w.pending /\ q.window_start = w.window_start
        /\ q.report = [w.report EXCEPT !.permanently_dropped = @ + 1]
        /\ q = [rows |-> q.rows, window_start |-> q.window_start, pending |-> q.pending,
                report |-> q.report]
    BY <1>4, <2>1
  <2>3. /\ q.report \in [retry_queue_dropped : Nat, permanently_dropped : Nat]
        /\ q.report.permanently_dropped = w.report.permanently_dropped + 1
        /\ q.report.retry_queue_dropped = w.report.retry_queue_dropped
    BY <1>4, <2>2
  <2>4. q \in WriterOf(R)
    BY <1>4, <2>2, <2>3 DEF WriterOf
  <2> QED BY <1>4, <1>5, <2>2, <2>3, <2>4 DEF Requeued
<1>6. CASE attempts + 1 < MaxWriteAttempts
  <2>1. CASE Len(w.pending) >= MaxPendingBatches
    <3>0. w.pending # <<>>
      BY <1>3, <1>4, <2>1
    <3>1. q = [w EXCEPT !.pending = Append(Tail(w.pending), e),
                        !.report.retry_queue_dropped = w.report.retry_queue_dropped + 1]
      BY <1>1, <1>3, <1>6, <2>1 DEF requeue_after_failure
    <3>2. /\ q.rows = w.rows /\ q.window_start = w.window_start
          /\ q.pending = Append(Tail(w.pending), e)
          /\ q.report = [w.report EXCEPT !.retry_queue_dropped = w.report.retry_queue_dropped + 1]
          /\ q = [rows |-> q.rows, window_start |-> q.window_start, pending |-> q.pending,
                  report |-> q.report]
      BY <1>4, <3>1
    <3>3. /\ q.report \in [retry_queue_dropped : Nat, permanently_dropped : Nat]
          /\ q.report.permanently_dropped = w.report.permanently_dropped
          /\ q.report.retry_queue_dropped = w.report.retry_queue_dropped + 1
      BY <1>4, <3>2
    <3>4. q.pending \in Seq(BatchOf(R))
      BY <1>2, <1>4, <3>0, <3>2
    <3>5. q \in WriterOf(R)
      BY <1>4, <3>2, <3>3, <3>4 DEF WriterOf
    <3>6. /\ w.report.retry_queue_dropped + w.report.permanently_dropped
               <= q.report.retry_queue_dropped + q.report.permanently_dropped
          /\ q.report.retry_queue_dropped + q.report.permanently_dropped > 0
      BY <1>4, <3>3
    <3> QED BY <1>2, <1>6, <3>0, <3>2, <3>5, <3>6 DEF Requeued
  <2>2. CASE ~(Len(w.pending) >= MaxPendingBatches)
    <3>1. q = [w EXCEPT !.pending = Append(w.pending, e)]
      BY <1>1, <1>3, <1>6, <2>2 DEF requeue_after_failure
    <3>2. /\ q.rows = w.rows /\ q.window_start = w.window_start
          /\ q.pending = Append(w.pending, e) /\ q.report = w.report
          /\ q = [rows |-> q.rows, window_start |-> q.window_start, pending |-> q.pending,
                  report |-> q.report]
      BY <1>4, <3>1
    <3>3. q.pending \in Seq(BatchOf(R))
      BY <1>2, <1>4, <3>2
    <3>4. q \in WriterOf(R)
      BY <1>4, <3>2, <3>3 DEF WriterOf
    <3> QED BY <1>2, <1>4, <1>6, <3>2, <3>4 DEF Requeued
  <2> QED BY <2>1, <2>2
<1> QED BY <1>3, <1>5, <1>6

\* Where the batches of a writer come from once it tried one: they waited before, or (0)
\* the tried one waits now; one that is missing was counted.
Comes(g, w2, w, b, R, outcome) ==
    LET counted == w2.report.retry_queue_dropped + w2.report.permanently_dropped
    IN  /\ w2 \in WriterOf(R) /\ w2.rows = w.rows
        /\ w.report.retry_queue_dropped + w.report.permanently_dropped <= counted
        /\ g \in [1 .. Len(w2.pending) -> 0 .. Len(w.pending)]
        /\ \A i, j \in 1 .. Len(w2.pending) : g[i] = g[j] => i = j
        /\ \A i \in 1 .. Len(w2.pending) : g[i] # 0 => w2.pending[i] = w.pending[g[i]]
        /\ \A i \in 1 .. Len(w2.pending) : g[i] = 0 =>
              /\ w2.pending[i].rows = b.rows /\ w2.pending[i].attempts = b.attempts + 1
              /\ b.attempts + 1 < MaxWriteAttempts
        /\ \/ counted > 0
           \/ /\ \A k \in 1 .. Len(w.pending) : \E i \in 1 .. Len(w2.pending) : g[i] = k
              /\ \/ outcome = "ok" \/ b.rows = <<>>
                 \/ \E i \in 1 .. Len(w2.pending) : g[i] = 0

LEMMA AnswerKeeps ==
    ASSUME NEW R, NEW w \in WriterOf(R), NEW b, b.rows \in Seq(R), b.attempts \in Nat,
           NEW t \in Nat, NEW outcome, NEW w2,
           w2 = IF b.rows = <<>> \/ outcome = "ok" THEN w
                ELSE requeue_after_failure(w, b.rows, b.attempts, t)
    PROVE  \E g : Comes(g, w2, w, b, R, outcome)
<1>1. /\ w.pending \in Seq(BatchOf(R)) /\ Len(w.pending) \in Nat
      /\ w.report.retry_queue_dropped \in Nat /\ w.report.permanently_dropped \in Nat
  BY DEF WriterOf
<1>2. PICK L : L = Len(w.pending)
  OBVIOUS
<1>3. CASE b.rows = <<>> \/ outcome = "ok"
  <2>1. PICK g : g = [i \in 1 .. L |-> i]
    OBVIOUS
  <2>2. w2 = w
    BY <1>3
  <2>3. /\ g \in [1 .. L -> 0 .. L]
        /\ \A i \in 1 .. L : g[i] = i /\ i # 0
    BY <1>1, <1>2, <2>1
  <2>4. Comes(g, w2, w, b, R, outcome)
    BY <1>1, <1>2, <1>3, <2>2, <2>3 DEF Comes
  <2> QED BY <2>4
<1>4. CASE ~(b.rows = <<>> \/ outcome = "ok")
  <2>1. Requeued(w2, w, b.rows, b.attempts, R)
    BY <1>4, RequeueKeeps
  <2>2. CASE /\ b.attempts + 1 >= MaxWriteAttempts /\ w2.pending = w.pending
             /\ w2.report.retry_queue_dropped + w2.report.permanently_dropped > 0
    <3>1. PICK g : g = [i \in 1 .. L |-> i]
      OBVIOUS
    <3>2. /\ g \in [1 .. L -> 0 .. L]
          /\ \A i \in 1 .. L : g[i] = i /\ i # 0
      BY <1>1, <1>2, <3>1
    <3>3. Comes(g, w2, w, b, R, outcome)
      <4>1. /\ w2 \in WriterOf(R) /\ w2.rows = w.rows
            /\ w.report.retry_queue_dropped + w.report.permanently_dropped
                 <= w2.report.retry_queue_dropped + w2.report.permanently_dropped
        BY <2>1 DEF Requeued
      <4> QED BY <1>2, <2>2, <3>2, <4>1 DEF Comes
    <3> QED BY <3>3
  <2>3. ASSUME b.attempts + 1 < MaxWriteAttempts,
               NEW e \in BatchOf(R), e.rows = b.rows, e.attempts = b.attempts + 1,
               w2.pending = Append(w.pending, e)
        PROVE  \E g : Comes(g, w2, w, b, R, outcome)
    <3>1. PICK g : g = [i \in 1 .. L + 1 |-> IF i = L + 1 THEN 0 ELSE i]
      OBVIOUS
    <3>2. /\ Len(w2.pending) = L + 1 /\ w2.pending[L + 1] = e
          /\ \A i \in 1 .. L : w2.pending[i] = w.pending[i]
      BY <1>1, <1>2, <2>3
    <3>3. /\ g \in [1 .. L + 1 -> 0 .. L] /\ g[L + 1] = 0 /\ L + 1 \in 1 .. L + 1
          /\ \A i \in 1 .. L : g[i] = i /\ i # 0 /\ i \in 1 .. L + 1
          /\ \A i \in 1 .. L + 1 : i = L + 1 \/ i \in 1 .. L
      BY <1>1, <1>2, <3>1
    <3>4. \A i, j \in 1 .. L + 1 : g[i] = g[j] => i = j
      BY <3>3
    <3>5. \A i \in 1 .. L + 1 : (g[i] # 0 => w2.pending[i] = w.pending[g[i]])
                                /\ (g[i] = 0 => w2.pending[i] = e)
      BY <3>2, <3>3
    <3>6. /\ w2 \in WriterOf(R) /\ w2.rows = w.rows
          /\ w.report.retry_queue_dropped + w.report.permanently_dropped
               <= w2.report.retry_queue_dropped + w2.report.permanently_dropped
      BY <2>1 DEF Requeued
    <3>7. Comes(g, w2, w, b, R, outcome)
      BY <1>2, <2>3, <3>2, <3>3, <3>4, <3>5, <3>6 DEF Comes
    <3> QED BY <3>7
  <2>4. ASSUME b.attempts + 1 < MaxWriteAttempts,
               NEW e \in BatchOf(R), e.rows = b.rows, e.attempts = b.attempts + 1,
               w.pending # <<>>, w2.pending = Append(Tail(w.pending), e),
               w2.report.retry_queue_dropped + w2.report.permanently_dropped > 0
        PROVE  \E g : Comes(g, w2, w, b, R, outcome)
    <3>1. PICK g : g = [i \in 1 .. L |-> IF i = L THEN 0 ELSE i + 1]
      OBVIOUS
    <3>2. /\ L \in Nat \ {0} /\ Len(w2.pending) = L /\ w2.pending[L] = e
          /\ \A i \in 1 .. L - 1 : w2.pending[i] = w.pending[i + 1]
      <4>1. PICK rest : rest = Tail(w.pending)
        OBVIOUS
      <4>2. /\ L \in Nat \ {0} /\ rest \in Seq(BatchOf(R)) /\ Len(rest) = L - 1
            /\ \A i \in 1 .. L - 1 : rest[i] = w.pending[i + 1]
        BY <1>1, <1>2, <2>4, <4>1
      <4>3. w2.pending = Append(rest, e)
        BY <2>4, <4>1
      <4>4. /\ Len(w2.pending) = Len(rest) + 1 /\ w2.pending[Len(rest) + 1] = e
            /\ \A i \in 1 .. Len(rest) : w2.pending[i] = rest[i]
        <5>1. rest \in Seq(BatchOf(R)) /\ e \in BatchOf(R)
          BY <4>2
        <5> HIDE DEF BatchOf
        <5> QED BY <4>3, <5>1
      <4>5. Len(rest) + 1 = L
        BY <4>2
      <4> QED BY <4>2, <4>4, <4>5
    <3>3. /\ g \in [1 .. L -> 0 .. L] /\ g[L] = 0 /\ L \in 1 .. L
          /\ \A i \in 1 .. L - 1 : g[i] = i + 1 /\ i + 1 # 0 /\ i \in 1 .. L
          /\ \A i \in 1 .. L : i = L \/ i \in 1 .. L - 1
      BY <3>1, <3>2
    <3>4. \A i, j \in 1 .. L : g[i] = g[j] => i = j
      BY <3>3
    <3>5. \A i \in 1 .. L : (g[i] # 0 => w2.pending[i] = w.pending[g[i]])
                            /\ (g[i] = 0 => w2.pending[i] = e)
      BY <3>2, <3>3
    <3>6. /\ w2 \in WriterOf(R) /\ w2.rows = w.rows
          /\ w.report.retry_queue_dropped + w.report.permanently_dropped
               <= w2.report.retry_queue_dropped + w2.report.permanently_dropped
      BY <2>1 DEF Requeued
    <3>8. /\ g \in [1 .. Len(w2.pending) -> 0 .. Len(w.pending)]
          /\ \A i, j \in 1 .. Len(w2.pending) : g[i] = g[j] => i = j
          /\ \A i \in 1 .. Len(w2.pending) : g[i] # 0 => w2.pending[i] = w.pending[g[i]]
          /\ \A i \in 1 .. Len(w2.pending) : g[i] = 0 => w2.pending[i] = e
      <4>1. Len(w2.pending) = L /\ Len(w.pending) = L
        BY <1>2, <3>2
      <4> QED BY <3>3, <3>4, <3>5, <4>1
    <3>7. Comes(g, w2, w, b, R, outcome)
      BY <2>4, <3>6, <3>8 DEF Comes
    <3> QED BY <3>7
  <2> QED BY <2>1, <2>2, <2>3, <2>4 DEF Requeued
<1> QED BY <1>3, <1>4

\* What the table holds after an insert of a batch.
Stored(T2, T, b, outcome, R) ==
    /\ DOMAIN T \subseteq DOMAIN T2 /\ DOMAIN T2 \subseteq DOMAIN T \cup ToSet(b.rows)
    /\ DOMAIN T2 \subseteq R /\ T2 \in [DOMAIN T2 -> 1 .. MaxWriteAttempts]
    /\ \A r \in DOMAIN T2 : r \notin ToSet(b.rows) => T2[r] = T[r]
    /\ \A r \in DOMAIN T2 : r \in ToSet(b.rows) => T2[r] <= b.attempts + 1
    /\ outcome # "failed" => ToSet(b.rows) \subseteq DOMAIN T2

LEMMA WriteStores ==
    ASSUME NEW R, NEW T, DOMAIN T \subseteq R, T \in [DOMAIN T -> 1 .. MaxWriteAttempts],
           NEW b, b.rows \in Seq(R), Fits(b, T), NEW outcome,
           NEW T2, T2 = write_rows(T, b.rows, outcome)
    PROVE  Stored(T2, T, b, outcome, R)
<1>0. MaxWriteAttempts \in Nat /\ b.attempts \in Nat /\ b.attempts < MaxWriteAttempts
  BY StorageAssumption DEF Fits
<1>1. CASE outcome = "failed"
  <2>1. T2 = T
    BY <1>1 DEF write_rows
  <2> QED BY <1>0, <1>1, <2>1 DEF Stored, Fits
<1>2. CASE outcome # "failed"
  <2>1. PICK S : S = ToSet(b.rows)
    OBVIOUS
  <2>2. S \subseteq R
    BY <2>1 DEF ToSet
  <2>3. T2 = T (+) SetToBag(S)
    BY <1>2, <2>1 DEF write_rows
  <2>4. PICK B : B = SetToBag(S)
    OBVIOUS
  <2>5. DOMAIN B = S /\ \A r \in S : B[r] = 1
    BY <2>4 DEF SetToBag
  <2>6. T2 = [r \in DOMAIN T \cup DOMAIN B |->
                (IF r \in DOMAIN T THEN T[r] ELSE 0) + (IF r \in DOMAIN B THEN B[r] ELSE 0)]
    BY <2>3, <2>4 DEF (+)
  <2>7. DOMAIN T2 = DOMAIN T \cup S
    BY <2>5, <2>6
  <2>8. \A r \in DOMAIN T2 : T2[r] \in 1 .. MaxWriteAttempts
        /\ (r \notin S => T2[r] = T[r]) /\ (r \in S => T2[r] <= b.attempts + 1)
    <3> TAKE r \in DOMAIN T2
    <3>1. CASE r \in S /\ r \in DOMAIN T
      <4>1. T2[r] = T[r] + 1 /\ T[r] <= b.attempts /\ T[r] \in 1 .. MaxWriteAttempts
        BY <2>1, <2>5, <2>6, <3>1 DEF Fits
      <4> QED BY <1>0, <3>1, <4>1
    <3>2. CASE r \in S /\ r \notin DOMAIN T
      <4>1. T2[r] = 0 + 1
        BY <2>5, <2>6, <3>2
      <4> QED BY <1>0, <3>2, <4>1
    <3>3. CASE r \notin S
      <4>1. T2[r] = T[r] + 0 /\ T[r] \in 1 .. MaxWriteAttempts
        BY <2>5, <2>6, <2>7, <3>3
      <4> QED BY <1>0, <3>3, <4>1
    <3> QED BY <3>1, <3>2, <3>3
  <2>9. T2 = [r \in DOMAIN T2 |-> T2[r]]
    BY <2>6
  <2>10. T2 \in [DOMAIN T2 -> 1 .. MaxWriteAttempts]
    BY <2>8, <2>9
  <2> QED BY <2>1, <2>2, <2>7, <2>8, <2>10 DEF Stored
<1> QED BY <1>1, <1>2

\* A row goes nowhere uncounted, and comes from nowhere.
Accounts(q, m, p, n, due) ==
    /\ Counted(q) \in Nat /\ Counted(p) <= Counted(q)
    /\ \A r : Somewhere(r, q, due, m) => Somewhere(r, p, due, n)
    /\ \A r : Somewhere(r, p, due, n) => Somewhere(r, q, due, m) \/ Counted(q) > 0

LEMMA AttemptKeeps ==
    ASSUME NEW R, NEW p, NEW due, Len(due) \in Nat, NEW n \in 1 .. Len(due),
           Flows(p, R, due, n - 1), NEW t \in Nat, NEW outcome,
           NEW q, q = attempt_write(p, due[n].rows, due[n].attempts, t, outcome)
    PROVE  Flows(q, R, due, n) /\ Accounts(q, n, p, n - 1, due)
<1>1. PICK w, T, b : w = p.writer /\ T = p.table /\ b = due[n]
  OBVIOUS
<1>2. PICK w2, T2 : w2 = q.writer /\ T2 = q.table
  OBVIOUS
<1>3. /\ w2 = IF b.rows = <<>> \/ outcome = "ok" THEN w
              ELSE requeue_after_failure(w, b.rows, b.attempts, t)
      /\ T2 = write_rows(T, b.rows, outcome)
      /\ q = [writer |-> w2, table |-> T2]
  BY <1>1, <1>2 DEF attempt_write
<1>4. /\ w \in WriterOf(R) /\ DOMAIN T \subseteq R /\ T \in [DOMAIN T -> 1 .. MaxWriteAttempts]
  BY <1>1 DEF Flows, PipelineTypeOK
<1>5. /\ (n - 1) + 1 = n /\ n \in n .. Len(due) /\ n + 1 .. Len(due) \subseteq n .. Len(due)
      /\ \A i \in n .. Len(due) : i = n \/ i \in n + 1 .. Len(due)
      /\ \A i \in n + 1 .. Len(due) : i # n
  OBVIOUS
<1> DEFINE S(x) == ToSet(x.rows)
<1>6. /\ \A r \in ToSet(w.rows) : r \notin DOMAIN T
      /\ \A i \in 1 .. Len(w.pending) : Fits(w.pending[i], T) /\ S(w.pending[i]) \cap ToSet(w.rows) = {}
      /\ \A i, j \in 1 .. Len(w.pending) : i # j => S(w.pending[i]) \cap S(w.pending[j]) = {}
  BY <1>1 DEF Flows, Held
<1>7. /\ \A i \in n .. Len(due) : due[i].rows \in Seq(R) /\ Fits(due[i], T)
                                  /\ S(due[i]) \cap ToSet(w.rows) = {}
      /\ \A i, j \in n .. Len(due) : i # j => S(due[i]) \cap S(due[j]) = {}
      /\ \A i \in 1 .. Len(w.pending), j \in n .. Len(due) : S(w.pending[i]) \cap S(due[j]) = {}
  BY <1>1, <1>5 DEF Flows, InHand
<1>8. b.rows \in Seq(R) /\ Fits(b, T) /\ b.attempts \in Nat /\ S(b) \cap ToSet(w.rows) = {}
  BY <1>1, <1>5, <1>7 DEF Fits
<1>9. PICK g : Comes(g, w2, w, b, R, outcome)
  BY <1>3, <1>4, <1>8, AnswerKeeps
<1>10. Stored(T2, T, b, outcome, R)
  BY <1>3, <1>4, <1>8, WriteStores
<1>11. PICK L, L2 : L = Len(w.pending) /\ L2 = Len(w2.pending)
  OBVIOUS
<1>12. /\ w2 \in WriterOf(R) /\ w2.rows = w.rows
       /\ g \in [1 .. L2 -> 0 .. L]
       /\ \A i, j \in 1 .. L2 : g[i] = g[j] => i = j
       /\ \A i \in 1 .. L2 : g[i] # 0 => w2.pending[i] = w.pending[g[i]]
       /\ \A i \in 1 .. L2 : g[i] = 0 => /\ S(w2.pending[i]) = S(b)
                                         /\ w2.pending[i].attempts = b.attempts + 1
                                         /\ b.attempts + 1 < MaxWriteAttempts
  BY <1>9, <1>11 DEF Comes
<1>13. L \in Nat /\ L2 \in Nat /\ \A i \in 1 .. L2 : g[i] # 0 => g[i] \in 1 .. L
  <2>1. L \in Nat /\ L2 \in Nat
    BY <1>4, <1>11, <1>12 DEF WriterOf
  <2> QED BY <1>12, <2>1
<1> HIDE DEF S
<1>14. \A i \in 1 .. L : S(w.pending[i]) \cap S(b) = {}
  BY <1>1, <1>5, <1>7, <1>11
<1>15. PipelineTypeOK(q, R)
  BY <1>2, <1>3, <1>10, <1>12 DEF PipelineTypeOK, Stored
<1>16. ASSUME NEW x, Fits(x, T), S(x) \cap S(b) = {} PROVE Fits(x, T2)
  BY <1>10, <1>16 DEF Stored, Fits, S
<1>17. \A i \in 1 .. L2 : Fits(w2.pending[i], T2) /\ S(w2.pending[i]) \cap ToSet(w.rows) = {}
  <2> TAKE i \in 1 .. L2
  <2>1. CASE g[i] = 0
    <3>1. /\ S(w2.pending[i]) = S(b) /\ w2.pending[i].attempts = b.attempts + 1
          /\ b.attempts + 1 < MaxWriteAttempts
      BY <1>12, <2>1
    <3>2. Fits(w2.pending[i], T2)
      BY <1>8, <1>10, <3>1 DEF Fits, Stored, S
    <3> QED BY <1>8, <3>1, <3>2
  <2>2. CASE g[i] # 0
    BY <1>6, <1>11, <1>12, <1>13, <1>14, <1>16, <2>2 DEF S
  <2> QED BY <2>1, <2>2
<1>18. \A i, j \in 1 .. L2 : i # j => S(w2.pending[i]) \cap S(w2.pending[j]) = {}
  <2> TAKE i, j \in 1 .. L2
  <2> SUFFICES ASSUME i # j PROVE S(w2.pending[i]) \cap S(w2.pending[j]) = {}
    OBVIOUS
  <2>1. CASE g[i] = 0
    <3>1. g[j] # 0 /\ g[j] \in 1 .. L
      BY <1>12, <1>13, <2>1
    <3>2. S(w2.pending[i]) = S(b) /\ w2.pending[j] = w.pending[g[j]]
      BY <1>12, <2>1, <3>1
    <3> QED BY <1>14, <3>1, <3>2
  <2>2. CASE g[i] # 0 /\ g[j] = 0
    <3>1. g[i] \in 1 .. L /\ S(w2.pending[j]) = S(b) /\ w2.pending[i] = w.pending[g[i]]
      BY <1>12, <1>13, <2>2
    <3> QED BY <1>14, <3>1
  <2>3. CASE g[i] # 0 /\ g[j] # 0
    <3>1. /\ g[i] \in 1 .. L /\ g[j] \in 1 .. L /\ g[i] # g[j]
          /\ w2.pending[i] = w.pending[g[i]] /\ w2.pending[j] = w.pending[g[j]]
      BY <1>12, <1>13, <2>3
    <3> QED BY <1>6, <1>11, <3>1 DEF S
  <2> QED BY <2>1, <2>2, <2>3
<1>19. \A r \in ToSet(w.rows) : r \notin DOMAIN T2
  BY <1>6, <1>8, <1>10 DEF Stored, S
<1>20. Held(q)
  <2>1. q.writer.rows = w.rows /\ q.writer.pending = w2.pending /\ q.table = T2
        /\ Len(w2.pending) = L2
    BY <1>2, <1>11, <1>12
  <2> QED BY <1>17, <1>18, <1>19, <2>1 DEF Held, S
<1>21. InHand(q, R, due, n)
  <2>1. \A i \in n + 1 .. Len(due) : due[i].rows \in Seq(R) /\ Fits(due[i], T2)
                                     /\ S(due[i]) \cap ToSet(w.rows) = {}
    <3> TAKE i \in n + 1 .. Len(due)
    <3>1. S(due[i]) \cap S(b) = {}
      BY <1>1, <1>5, <1>7 DEF S
    <3> QED BY <1>5, <1>7, <1>16, <3>1 DEF S
  <2>2. \A i, j \in n + 1 .. Len(due) : i # j => S(due[i]) \cap S(due[j]) = {}
    BY <1>5, <1>7 DEF S
  <2>3. \A i \in 1 .. L2, j \in n + 1 .. Len(due) : S(w2.pending[i]) \cap S(due[j]) = {}
    <3> TAKE i \in 1 .. L2, j \in n + 1 .. Len(due)
    <3>1. CASE g[i] = 0
      <4>1. S(w2.pending[i]) = S(b)
        BY <1>12, <3>1
      <4> QED BY <1>1, <1>5, <1>7, <4>1 DEF S
    <3>2. CASE g[i] # 0
      <4>1. g[i] \in 1 .. L /\ w2.pending[i] = w.pending[g[i]]
        BY <1>12, <1>13, <3>2
      <4> QED BY <1>5, <1>7, <1>11, <4>1 DEF S
    <3> QED BY <3>1, <3>2
  <2> QED BY <1>2, <1>11, <1>12, <2>1, <2>2, <2>3 DEF InHand, S
<1>22. Counted(q) \in Nat /\ Counted(p) <= Counted(q)
  <2>1. w2.report.retry_queue_dropped \in Nat /\ w2.report.permanently_dropped \in Nat
    BY <1>12 DEF WriterOf
  <2>2. w.report.retry_queue_dropped + w.report.permanently_dropped
          <= w2.report.retry_queue_dropped + w2.report.permanently_dropped
    BY <1>9 DEF Comes
  <2>3. /\ Counted(q) = w2.report.retry_queue_dropped + w2.report.permanently_dropped
        /\ Counted(p) = w.report.retry_queue_dropped + w.report.permanently_dropped
    BY <1>1, <1>2 DEF Counted
  <2> QED BY <2>1, <2>2, <2>3
<1>23. ASSUME NEW r, Somewhere(r, q, due, n) PROVE Somewhere(r, p, due, n - 1)
  <2>1. CASE r \in ToSet(w2.rows)
    BY <1>1, <1>12, <2>1 DEF Somewhere
  <2>2. ASSUME r \in S(b) PROVE Somewhere(r, p, due, n - 1)
    BY <1>1, <1>5, <2>2 DEF Somewhere, S
  <2>3. CASE r \in DOMAIN T2
    <3>1. r \in DOMAIN T \/ r \in S(b)
      BY <1>10, <2>3 DEF Stored, S
    <3> QED BY <1>1, <2>2, <3>1 DEF Somewhere
  <2>4. CASE \E i \in 1 .. L2 : r \in S(w2.pending[i])
    <3>1. PICK i \in 1 .. L2 : r \in S(w2.pending[i])
      BY <2>4
    <3>2. CASE g[i] = 0
      BY <1>12, <2>2, <3>1, <3>2
    <3>3. CASE g[i] # 0
      <4>1. g[i] \in 1 .. L /\ r \in S(w.pending[g[i]])
        BY <1>12, <1>13, <3>1, <3>3
      <4> QED BY <1>1, <1>11, <4>1 DEF Somewhere, S
    <3> QED BY <3>2, <3>3
  <2>5. CASE \E i \in n + 1 .. Len(due) : r \in S(due[i])
    BY <1>5, <2>5 DEF Somewhere, S
  <2> QED BY <1>2, <1>11, <1>23, <2>1, <2>3, <2>4, <2>5 DEF Somewhere, S
<1>24. ASSUME NEW r, Somewhere(r, p, due, n - 1), ~(Counted(q) > 0) PROVE Somewhere(r, q, due, n)
  <2>1. /\ \A k \in 1 .. L : \E i \in 1 .. L2 : g[i] = k
        /\ \/ outcome = "ok" \/ b.rows = <<>>
           \/ \E i \in 1 .. L2 : g[i] = 0
    BY <1>2, <1>9, <1>11, <1>24 DEF Comes, Counted
  <2>2. CASE r \in ToSet(w.rows)
    BY <1>2, <1>12, <2>2 DEF Somewhere
  <2>3. CASE r \in DOMAIN T
    BY <1>2, <1>10, <2>3 DEF Somewhere, Stored
  <2>4. CASE \E k \in 1 .. L : r \in S(w.pending[k])
    <3>1. PICK k \in 1 .. L : r \in S(w.pending[k])
      BY <2>4
    <3>2. PICK i \in 1 .. L2 : g[i] = k
      BY <2>1, <3>1
    <3>3. r \in S(w2.pending[i])
      BY <1>12, <3>1, <3>2
    <3> QED BY <1>2, <1>11, <3>3 DEF Somewhere, S
  <2>5. CASE r \in S(b)
    <3>1. CASE outcome = "ok"
      <4>1. r \in DOMAIN T2
        BY <1>10, <2>5, <3>1 DEF Stored, S
      <4> QED BY <1>2, <4>1 DEF Somewhere
    <3>2. CASE b.rows = <<>>
      BY <2>5, <3>2 DEF S, ToSet
    <3>3. CASE \E i \in 1 .. L2 : g[i] = 0
      <4>1. PICK i \in 1 .. L2 : r \in S(w2.pending[i])
        BY <1>12, <2>5, <3>3
      <4> QED BY <1>2, <1>11, <4>1 DEF Somewhere, S
    <3> QED BY <2>1, <3>1, <3>2, <3>3
  <2>6. CASE \E i \in n + 1 .. Len(due) : r \in S(due[i])
    BY <2>6 DEF Somewhere, S
  <2> QED BY <1>1, <1>5, <1>11, <1>24, <2>2, <2>3, <2>4, <2>5, <2>6 DEF Somewhere, S
<1>25. Accounts(q, n, p, n - 1, due)
  BY <1>22, <1>23, <1>24 DEF Accounts
<1> QED BY <1>15, <1>20, <1>21, <1>25 DEF Flows

\* A loop over a sequence: what the start satisfies and every round keeps holds at the end.
LEMMA LoopKeeps ==
    ASSUME NEW L \in Nat, NEW good \in SUBSET (0 .. L), 0 \in good,
           \A n \in 1 .. L : n - 1 \in good => n \in good
    PROVE  L \in good
<1> DEFINE T == (0 .. L) \ good
<1> SUFFICES ASSUME T # {} PROVE FALSE
  OBVIOUS
<1>0. T \subseteq Nat
  OBVIOUS
<1>1. PICK n \in T : \A m \in T : n <= m
  <2> HIDE DEF T
  <2> QED BY <1>0, LeastNumber
<1>2. n \in 1 .. L /\ n - 1 \in 0 .. L /\ n - 1 \notin T
  BY <1>1
<1> QED BY <1>2

\* What the loop of a tick has after each retry.
Retries(after, p, due, t, outcomes) ==
    /\ after[0] = [p EXCEPT !.writer = take_due(p.writer, t)]
    /\ \A n \in 1 .. Len(due) :
          after[n] = attempt_write(after[n - 1], due[n].rows, due[n].attempts, t, outcomes[n])
    /\ retry_due(p, t, outcomes) = after[Len(due)]

\* The loop of a tick does what its definition says.
LEMMA RetryLoop ==
    ASSUME NEW p, NEW t, NEW outcomes, NEW due, due = Due(p.writer, t), Len(due) \in Nat
    PROVE  \E after : Retries(after, p, due, t, outcomes)
<1>0. PICK start : start = [p EXCEPT !.writer = take_due(p.writer, t)]
  OBVIOUS
<1>00. PICK L : L = Len(due)
  OBVIOUS
<1> DEFINE Try(q, n) == attempt_write(q, due[n].rows, due[n].attempts, t, outcomes[n])
           Round(f, n) == IF n = 0 THEN start ELSE Try(f[n - 1], n)
           Runs(m) == \E f : f = [n \in 0 .. m |-> Round(f, n)]
           after == CHOOSE f : f = [n \in 0 .. L |-> Round(f, n)]
<1>1. Runs(L)
  <2> DEFINE T == {m \in Nat : ~Runs(m)}
  <2> SUFFICES ASSUME T # {} PROVE FALSE
    BY <1>00
  <2>0. T \subseteq Nat
    OBVIOUS
  <2>1. PICK m \in T : \A k \in T : m <= k
    <3> HIDE DEF T
    <3> QED BY <2>0, LeastNumber
  <2>2. CASE m = 0
    <3>1. PICK f : f = [n \in 0 .. 0 |-> start]
      OBVIOUS
    <3>2. f = [n \in 0 .. 0 |-> Round(f, n)]
      <4> HIDE DEF Try
      <4> QED BY <3>1
    <3> QED BY <2>2, <3>2
  <2>3. CASE m # 0
    <3>1. m - 1 \in Nat /\ m - 1 \notin T
      <4> HIDE DEF T
      <4> QED BY <2>0, <2>1, <2>3
    <3>2. PICK f : f = [n \in 0 .. m - 1 |-> Round(f, n)]
      BY <3>1
    <3> HIDE DEF Try
    <3>3. PICK g : g = [n \in 0 .. m |-> IF n = m THEN Try(f[m - 1], m) ELSE f[n]]
      OBVIOUS
    <3>4. ASSUME NEW n \in 0 .. m PROVE g[n] = Round(g, n)
      <4>1. CASE n = m
        <5>1. g[m - 1] = f[m - 1]
          BY <3>1, <3>3
        <5> QED BY <2>3, <3>3, <4>1, <5>1
      <4>2. CASE n # m
        <5>1. n \in 0 .. m - 1 /\ g[n] = f[n] /\ f[n] = Round(f, n)
          <6> HIDE DEF Round
          <6> QED BY <2>0, <3>2, <3>3, <4>2
        <5>2. n # 0 => g[n - 1] = f[n - 1]
          BY <3>3, <4>2
        <5> QED BY <5>1, <5>2
      <4> QED BY <4>1, <4>2
    <3>5. g = [n \in 0 .. m |-> Round(g, n)]
      <4> HIDE DEF Round
      <4> QED BY <3>3, <3>4
    <3> HIDE DEF Round
    <3> QED BY <2>1, <3>5
  <2> QED BY <2>2, <2>3
<1>2. after = [n \in 0 .. L |-> Round(after, n)]
  <2> HIDE DEF Round
  <2> QED BY <1>1
<1>3. \A n \in 0 .. L : after[n] = Round(after, n)
  <2> HIDE DEF Round, after
  <2> QED BY <1>2
<1>4. retry_due(p, t, outcomes) = after[L]
  BY <1>0, <1>00 DEF retry_due
<1> HIDE DEF after
<1>5. after[0] = Round(after, 0) /\ \A n \in 1 .. L : after[n] = Round(after, n) /\ n # 0
  <2> HIDE DEF Round
  <2> QED BY <1>00, <1>3
<1>6. Retries(after, p, due, t, outcomes)
  BY <1>0, <1>00, <1>4, <1>5 DEF Retries
<1> QED BY <1>6

\* take_due splits the queue: each batch is due, and in hand, or still waits.
Splits(q, due, p, R) ==
    /\ Len(due) \in Nat /\ Flows(q, R, due, 0) /\ Counted(q) = Counted(p)
    /\ \A r : Somewhere(r, q, due, 0) <=> Somewhere(r, p, <<>>, 0)

LEMMA TakeDueKeeps ==
    ASSUME NEW R, NEW p, Flows(p, R, <<>>, 0), NEW t,
           NEW due, due = Due(p.writer, t),
           NEW q, q = [p EXCEPT !.writer = take_due(p.writer, t)]
    PROVE  Splits(q, due, p, R)
<1>1. PICK w, T, L, D : w = p.writer /\ T = p.table /\ L = Len(w.pending) /\ D = DueAt(w, t)
  OBVIOUS
<1>2. /\ p = [writer |-> w, table |-> T] /\ w \in WriterOf(R) /\ DOMAIN T \subseteq R
      /\ T \in [DOMAIN T -> 1 .. MaxWriteAttempts]
  BY <1>1 DEF Flows, PipelineTypeOK
<1>3. w.pending \in Seq(BatchOf(R)) /\ L \in Nat /\ DOMAIN w.pending = 1 .. L
      /\ \A i \in 1 .. L : w.pending[i] \in BatchOf(R)
  BY <1>1, <1>2 DEF WriterOf
<1>4. PICK E : E = (1 .. L) \ D
  OBVIOUS
<1>5. D \in SUBSET (1 .. L) /\ E \in SUBSET (1 .. L)
  BY <1>1, <1>3, <1>4 DEF DueAt
<1>6. PICK f : Places(f, w.pending, D)
  BY <1>3, <1>5, Picked
<1>7. PICK h : Places(h, w.pending, E)
  BY <1>3, <1>5, Picked
<1>8. PICK M, N : M = Cardinality(D) /\ N = Cardinality(E)
  OBVIOUS
<1>9. PICK rest : rest = AtIndexes(w.pending, E)
  OBVIOUS
<1>10. due = AtIndexes(w.pending, D) /\ take_due(w, t) = [w EXCEPT !.pending = rest]
  BY <1>1, <1>3, <1>4, <1>9 DEF Due, take_due
<1>11. /\ M \in Nat /\ f \in [1 .. M -> D]
       /\ \A m, n \in 1 .. M : f[m] = f[n] => m = n
       /\ \A i \in D : \E n \in 1 .. M : f[n] = i
       /\ due = [n \in 1 .. M |-> w.pending[f[n]]]
  BY <1>6, <1>8, <1>10 DEF Places
<1>12. /\ N \in Nat /\ h \in [1 .. N -> E]
       /\ \A m, n \in 1 .. N : h[m] = h[n] => m = n
       /\ \A i \in E : \E n \in 1 .. N : h[n] = i
       /\ rest = [n \in 1 .. N |-> w.pending[h[n]]]
  BY <1>7, <1>8, <1>9 DEF Places
<1>13. Len(due) = M /\ \A n \in 1 .. M : f[n] \in 1 .. L /\ f[n] \in D /\ due[n] = w.pending[f[n]]
  BY <1>5, <1>11
<1>14. /\ Len(rest) = N /\ \A n \in 1 .. N : h[n] \in 1 .. L /\ h[n] \in E /\ rest[n] = w.pending[h[n]]
  BY <1>5, <1>12
<1>15. rest \in Seq(BatchOf(R))
  BY <1>3, <1>12, <1>14, IsSequence
<1>16. PICK w2 : w2 = [w EXCEPT !.pending = rest]
  OBVIOUS
<1>17. /\ q = [writer |-> w2, table |-> T] /\ w2 \in WriterOf(R)
       /\ w2.rows = w.rows /\ w2.pending = rest /\ w2.report = w.report
  <2>1. w2 \in WriterOf(R) /\ w2.rows = w.rows /\ w2.pending = rest /\ w2.report = w.report
    BY <1>2, <1>15, <1>16 DEF WriterOf
  <2>2. q = [p EXCEPT !.writer = w2]
    BY <1>1, <1>10, <1>16
  <2> QED BY <1>2, <2>1, <2>2
<1>18. q.writer = w2 /\ q.table = T
  BY <1>17
<1> DEFINE S(x) == ToSet(x.rows)
<1>19. /\ \A r \in ToSet(w.rows) : r \notin DOMAIN T
       /\ \A i \in 1 .. L : Fits(w.pending[i], T) /\ S(w.pending[i]) \cap ToSet(w.rows) = {}
       /\ \A i, j \in 1 .. L : i # j => S(w.pending[i]) \cap S(w.pending[j]) = {}
  BY <1>1 DEF Flows, Held
<1>20. \A i \in 1 .. L : w.pending[i].rows \in Seq(R)
  BY <1>3 DEF BatchOf
<1> HIDE DEF S
<1>21. PipelineTypeOK(q, R)
  BY <1>2, <1>17, <1>18 DEF PipelineTypeOK
<1>22. Held(q)
  <2>1. \A i, j \in 1 .. N : i # j => S(rest[i]) \cap S(rest[j]) = {}
    <3> TAKE i, j \in 1 .. N
    <3> SUFFICES ASSUME i # j PROVE S(rest[i]) \cap S(rest[j]) = {}
      OBVIOUS
    <3>1. h[i] # h[j] /\ h[i] \in 1 .. L /\ h[j] \in 1 .. L
      BY <1>12, <1>14
    <3> QED BY <1>14, <1>19, <3>1
  <2>2. \A i \in 1 .. N : Fits(rest[i], T) /\ S(rest[i]) \cap ToSet(w.rows) = {}
    BY <1>14, <1>19
  <2> QED BY <1>14, <1>17, <1>18, <1>19, <2>1, <2>2 DEF Held, S
<1>23. InHand(q, R, due, 0)
  <2>1. \A i, j \in 1 .. M : i # j => S(due[i]) \cap S(due[j]) = {}
    <3> TAKE i, j \in 1 .. M
    <3> SUFFICES ASSUME i # j PROVE S(due[i]) \cap S(due[j]) = {}
      OBVIOUS
    <3>1. f[i] # f[j] /\ f[i] \in 1 .. L /\ f[j] \in 1 .. L
      BY <1>11, <1>13
    <3> QED BY <1>13, <1>19, <3>1
  <2>2. \A i \in 1 .. M : due[i].rows \in Seq(R) /\ Fits(due[i], T) /\ S(due[i]) \cap ToSet(w.rows) = {}
    BY <1>13, <1>19, <1>20
  <2>3. \A i \in 1 .. N, j \in 1 .. M : S(rest[i]) \cap S(due[j]) = {}
    <3> TAKE i \in 1 .. N, j \in 1 .. M
    <3>1. h[i] # f[j] /\ h[i] \in 1 .. L /\ f[j] \in 1 .. L
      BY <1>4, <1>13, <1>14
    <3> QED BY <1>13, <1>14, <1>19, <3>1
  <2>4. 0 + 1 = 1
    OBVIOUS
  <2>5. Len(due) = M /\ Len(q.writer.pending) = N /\ q.writer.pending = rest
        /\ q.writer.rows = w.rows /\ q.table = T
    BY <1>13, <1>14, <1>17, <1>18
  <2>6. 0 + 1 .. Len(due) = 1 .. M
    BY <2>4, <2>5
  <2>7. \A i \in 0 + 1 .. Len(due) :
            /\ due[i].rows \in Seq(R) /\ Fits(due[i], q.table)
            /\ S(due[i]) \cap ToSet(q.writer.rows) = {}
    BY <2>2, <2>5, <2>6
  <2>8. \A i, j \in 0 + 1 .. Len(due) : i # j => S(due[i]) \cap S(due[j]) = {}
    BY <2>1, <2>6
  <2>9. \A i \in 1 .. Len(q.writer.pending), j \in 0 + 1 .. Len(due) :
            S(q.writer.pending[i]) \cap S(due[j]) = {}
    BY <2>3, <2>5, <2>6
  <2> QED BY <2>7, <2>8, <2>9 DEF InHand, S
<1>24. ASSUME NEW r PROVE Somewhere(r, q, due, 0) <=> Somewhere(r, p, <<>>, 0)
  <2>1. (\E i \in 1 .. L : r \in S(w.pending[i]))
          <=> (\E i \in 1 .. N : r \in S(rest[i])) \/ (\E i \in 1 .. M : r \in S(due[i]))
    <3>1. ASSUME NEW i \in 1 .. L, r \in S(w.pending[i])
          PROVE  (\E n \in 1 .. N : r \in S(rest[n])) \/ (\E n \in 1 .. M : r \in S(due[n]))
      <4>1. CASE i \in D
        <5>1. PICK n \in 1 .. M : f[n] = i
          BY <1>11, <4>1
        <5> QED BY <1>13, <3>1, <5>1
      <4>2. CASE i \in E
        <5>1. PICK n \in 1 .. N : h[n] = i
          BY <1>12, <4>2
        <5> QED BY <1>14, <3>1, <5>1
      <4> QED BY <1>4, <4>1, <4>2
    <3>2. ASSUME NEW n \in 1 .. N, r \in S(rest[n]) PROVE \E i \in 1 .. L : r \in S(w.pending[i])
      BY <1>14, <3>2
    <3>3. ASSUME NEW n \in 1 .. M, r \in S(due[n]) PROVE \E i \in 1 .. L : r \in S(w.pending[i])
      BY <1>13, <3>3
    <3> QED BY <3>1, <3>2, <3>3
  <2>2. Somewhere(r, p, <<>>, 0) <=> \/ r \in ToSet(w.rows) \/ r \in DOMAIN T
                                     \/ \E i \in 1 .. L : r \in S(w.pending[i])
    <3>1. Len(<<>>) = 0 /\ ~ \E i \in 0 + 1 .. 0 : TRUE
      OBVIOUS
    <3> QED BY <1>1, <3>1 DEF Somewhere, S
  <2>3. Somewhere(r, q, due, 0) <=> \/ r \in ToSet(w.rows) \/ r \in DOMAIN T
                                    \/ \E i \in 1 .. N : r \in S(rest[i])
                                    \/ \E i \in 1 .. M : r \in S(due[i])
    <3>1. 0 + 1 = 1
      OBVIOUS
    <3>2. Len(due) = M /\ Len(q.writer.pending) = N /\ q.writer.pending = rest
          /\ q.writer.rows = w.rows /\ q.table = T
      BY <1>13, <1>14, <1>17, <1>18
    <3> QED BY <3>1, <3>2 DEF Somewhere, S
  <2> QED BY <2>1, <2>2, <2>3
<1>25. Counted(q) = Counted(p)
  BY <1>1, <1>17, <1>18 DEF Counted
<1> QED BY <1>11, <1>13, <1>21, <1>22, <1>23, <1>24, <1>25 DEF Flows, Splits

\* The retries of a tick.
LEMMA RetryKeeps ==
    ASSUME NEW R, NEW p, Flows(p, R, <<>>, 0), NEW t \in Nat, NEW outcomes,
           NEW q, q = retry_due(p, t, outcomes)
    PROVE  Flows(q, R, <<>>, 0) /\ Accounts(q, 0, p, 0, <<>>)
<1>1. PICK due : due = Due(p.writer, t)
  OBVIOUS
<1>2. PICK s : s = [p EXCEPT !.writer = take_due(p.writer, t)]
  OBVIOUS
<1>3. /\ Len(due) \in Nat /\ Flows(s, R, due, 0) /\ Counted(s) = Counted(p)
      /\ \A r : Somewhere(r, s, due, 0) <=> Somewhere(r, p, <<>>, 0)
  <2>1. Splits(s, due, p, R)
    BY <1>1, <1>2, TakeDueKeeps
  <2> QED BY <2>1 DEF Splits
<1>4. PICK after : Retries(after, p, due, t, outcomes)
  BY <1>1, <1>3, RetryLoop
<1>5. PICK L : L = Len(due)
  OBVIOUS
<1>6. Counted(s) \in Nat
  BY <1>3 DEF Flows, PipelineTypeOK, WriterOf, Counted
<1> DEFINE good == {n \in 0 .. L : Flows(after[n], R, due, n) /\ Accounts(after[n], n, s, 0, due)}
<1>7. 0 \in good
  <2>1. after[0] = s
    BY <1>2, <1>4 DEF Retries
  <2>2. Accounts(s, 0, s, 0, due)
    BY <1>6 DEF Accounts
  <2> QED BY <1>3, <1>5, <2>1, <2>2
<1>8. ASSUME NEW n \in 1 .. L, n - 1 \in good PROVE n \in good
  <2>1. PICK x, y : x = after[n - 1] /\ y = after[n]
    OBVIOUS
  <2>2. Flows(x, R, due, n - 1) /\ Accounts(x, n - 1, s, 0, due)
    BY <1>8, <2>1
  <2>3. y = attempt_write(x, due[n].rows, due[n].attempts, t, outcomes[n])
    BY <1>4, <1>5, <2>1 DEF Retries
  <2>4. Flows(y, R, due, n) /\ Accounts(y, n, x, n - 1, due)
    BY <1>3, <1>5, <2>2, <2>3, AttemptKeeps
  <2>5. Accounts(y, n, s, 0, due)
    BY <1>6, <2>2, <2>4 DEF Accounts
  <2>6. n \in 0 .. L
    BY <1>3, <1>5
  <2> QED BY <2>1, <2>4, <2>5, <2>6
<1>9. L \in good
  <2>1. good \in SUBSET (0 .. L) /\ L \in Nat
    BY <1>3, <1>5
  <2> HIDE DEF good
  <2> QED BY <1>7, <1>8, <2>1, LoopKeeps
<1>10. q = after[L]
  BY <1>4, <1>5 DEF Retries
<1>11. Flows(q, R, due, L) /\ Accounts(q, L, s, 0, due)
  BY <1>9, <1>10
<1> HIDE DEF good
<1>12. Len(<<>>) = 0 /\ 0 + 1 .. 0 = {} /\ L + 1 .. L = {}
  BY <1>3, <1>5
<1>13. Flows(q, R, <<>>, 0)
  BY <1>11, <1>12 DEF Flows, InHand
<1>14. \A r : Somewhere(r, q, due, L) <=> Somewhere(r, q, <<>>, 0)
  BY <1>5, <1>12 DEF Somewhere
<1> QED BY <1>3, <1>11, <1>13, <1>14 DEF Accounts

\* The batch of a tick: its rows were never sent, so none of them is stored.
LEMMA FlushKeeps ==
    ASSUME NEW R, NEW p, Flows(p, R, <<>>, 0), NEW t \in Nat, NEW outcome,
           NEW q, q = flush(p, t, outcome)
    PROVE  Flows(q, R, <<>>, 0) /\ Accounts(q, 0, p, 0, <<>>)
<1>1. PICK w, T : w = p.writer /\ T = p.table
  OBVIOUS
<1>2. /\ p = [writer |-> w, table |-> T] /\ w \in WriterOf(R) /\ DOMAIN T \subseteq R
      /\ T \in [DOMAIN T -> 1 .. MaxWriteAttempts]
  BY <1>1 DEF Flows, PipelineTypeOK
<1>3. Counted(p) \in Nat
  BY <1>1, <1>2 DEF Counted, WriterOf
<1>4. CASE ~should_flush(w, t)
  <2>1. q = p
    BY <1>1, <1>4 DEF flush
  <2> QED BY <1>3, <2>1 DEF Accounts
<1>5. CASE should_flush(w, t)
  <2>1. PICK w1 : w1 = take(w, t)
    OBVIOUS
  <2>2. PICK s : s = [writer |-> w1, table |-> T]
    OBVIOUS
  <2>3. PICK b : b = [rows |-> w.rows, attempts |-> 0]
    OBVIOUS
  <2>4. PICK due : due = <<b>>
    OBVIOUS
  <2>5. Len(due) = 1 /\ due[1] = b /\ b.rows = w.rows /\ b.attempts = 0 /\ w.rows \in Seq(R)
    BY <1>2, <2>3, <2>4 DEF WriterOf
  <2>6. /\ w1 \in WriterOf(R) /\ w1.rows = <<>> /\ w1.pending = w.pending /\ w1.report = w.report
    <3>1. w1 = [w EXCEPT !.rows = <<>>, !.window_start = t]
      BY <2>1 DEF take
    <3>2. <<>> \in Seq(R)
      OBVIOUS
    <3> QED BY <1>2, <3>1, <3>2 DEF WriterOf
  <2>7. s.writer = w1 /\ s.table = T
    BY <2>2
  <2>8. [p EXCEPT !.writer = take(w, t)] = s
    BY <1>2, <2>1, <2>2
  <2>9. q = attempt_write(s, due[1].rows, due[1].attempts, t, outcome)
    BY <1>1, <1>5, <2>5, <2>8 DEF flush
  <2>10. ToSet(<<>>) = {}
    BY DEF ToSet
  <2>11. /\ \A r \in ToSet(w.rows) : r \notin DOMAIN T
         /\ \A i \in 1 .. Len(w.pending) :
               Fits(w.pending[i], T) /\ ToSet(w.pending[i].rows) \cap ToSet(w.rows) = {}
         /\ \A i, j \in 1 .. Len(w.pending) :
               i # j => ToSet(w.pending[i].rows) \cap ToSet(w.pending[j].rows) = {}
    BY <1>1 DEF Flows, Held
  <2>12. PipelineTypeOK(s, R) /\ Held(s)
    BY <1>2, <2>2, <2>6, <2>7, <2>10, <2>11 DEF PipelineTypeOK, Held
  <2>13. Fits(b, T)
    BY <2>5, <2>11, StorageAssumption DEF Fits
  <2>14. (1 - 1) + 1 .. Len(due) = {1} /\ 1 \in 1 .. Len(due) /\ Len(due) \in Nat
    BY <2>5
  <2>15. InHand(s, R, due, 1 - 1)
    <3>1. \A i \in (1 - 1) + 1 .. Len(due) : i = 1
      BY <2>14
    <3>2. /\ due[1].rows \in Seq(R) /\ Fits(due[1], s.table)
          /\ ToSet(due[1].rows) \cap ToSet(s.writer.rows) = {}
      BY <2>5, <2>6, <2>7, <2>10, <2>13
    <3>3. \A i \in 1 .. Len(s.writer.pending) :
              ToSet(s.writer.pending[i].rows) \cap ToSet(due[1].rows) = {}
      BY <2>5, <2>6, <2>7, <2>11
    <3> QED BY <3>1, <3>2, <3>3 DEF InHand
  <2>16. Flows(q, R, due, 1) /\ Accounts(q, 1, s, 1 - 1, due)
    <3>1. PICK n : n = 1
      OBVIOUS
    <3>2. n \in 1 .. Len(due) /\ Flows(s, R, due, n - 1)
          /\ q = attempt_write(s, due[n].rows, due[n].attempts, t, outcome)
      BY <2>9, <2>12, <2>14, <2>15, <3>1 DEF Flows
    <3>3. Flows(q, R, due, n) /\ Accounts(q, n, s, n - 1, due)
      BY <2>14, <3>2, AttemptKeeps
    <3> QED BY <3>1, <3>3
  <2>17. Len(<<>>) = 0 /\ 0 + 1 .. 0 = {} /\ 1 + 1 .. 1 = {}
    OBVIOUS
  <2>18. Flows(q, R, <<>>, 0)
    BY <2>5, <2>16, <2>17 DEF Flows, InHand
  <2>19. \A r : Somewhere(r, q, due, 1) <=> Somewhere(r, q, <<>>, 0)
    BY <2>5, <2>17 DEF Somewhere
  <2>20. \A r : Somewhere(r, s, due, 1 - 1) <=> Somewhere(r, p, <<>>, 0)
    <3> TAKE r
    <3>1. (\E i \in (1 - 1) + 1 .. Len(due) : r \in ToSet(due[i].rows)) <=> r \in ToSet(w.rows)
      BY <2>5, <2>14
    <3>2. Somewhere(r, s, due, 1 - 1) <=>
            \/ r \in DOMAIN T \/ r \in ToSet(w.rows)
            \/ \E i \in 1 .. Len(w.pending) : r \in ToSet(w.pending[i].rows)
      BY <2>6, <2>7, <2>10, <3>1 DEF Somewhere
    <3>3. Somewhere(r, p, <<>>, 0) <=>
            \/ r \in DOMAIN T \/ r \in ToSet(w.rows)
            \/ \E i \in 1 .. Len(w.pending) : r \in ToSet(w.pending[i].rows)
      BY <1>1, <2>17 DEF Somewhere
    <3> QED BY <3>2, <3>3
  <2>21. Counted(s) = Counted(p)
    BY <1>1, <2>6, <2>7 DEF Counted
  <2> QED BY <2>16, <2>18, <2>19, <2>20, <2>21 DEF Accounts
<1> QED BY <1>4, <1>5

\* A tick loses no row that it does not count, holds none twice and sends none too often,
\* whatever the server answers to each insert.
LEMMA TickKeeps ==
    ASSUME NEW R, NEW p, Flows(p, R, <<>>, 0), NEW t \in Nat, NEW q \in tick(p, t)
    PROVE  Flows(q, R, <<>>, 0) /\ Accounts(q, 0, p, 0, <<>>)
<1>1. PICK o, os : q = retry_due(flush(p, t, o), t, os)
  BY DEF tick
<1>2. PICK f : f = flush(p, t, o)
  OBVIOUS
<1>3. Flows(f, R, <<>>, 0) /\ Accounts(f, 0, p, 0, <<>>)
  BY <1>2, FlushKeeps
<1>4. q = retry_due(f, t, os)
  BY <1>1, <1>2
<1>5. Flows(q, R, <<>>, 0) /\ Accounts(q, 0, f, 0, <<>>)
  BY <1>3, <1>4, RetryKeeps
<1>6. Counted(p) \in Nat
  BY DEF Flows, PipelineTypeOK, WriterOf, Counted
<1> QED BY <1>3, <1>5, <1>6 DEF Accounts

(***************************************************************************)
(* The two tables of the collector.                                        *)
(***************************************************************************)
TotalRow == [timestamp : Nat, instance : Nat]

EventRow == {DetectionEventRow(e) : e \in Built}

\* Where a row of a table may be, between two steps.
In(r, p) == Somewhere(r, p, <<>>, 0)

RowTypeOK ==
    /\ buffer \in Seq(EventRow) /\ dropped \in Nat
    /\ exported \in Nat /\ exported <= now
    /\ offered \subseteq TotalRow \cup EventRow

BothFlow ==
    /\ Flows(exporters["total_traffic"], TotalRow, <<>>, 0)
    /\ Flows(exporters["detection_events"], EventRow, <<>>, 0)

\* A traffic row is of an earlier process, or of an export tick that was.
TotalPast ==
    \A r : In(r, exporters["total_traffic"]) =>
        r.instance < instance \/ (r.instance = instance /\ r.timestamp <= exported)

\* A detection row is of an event the engine made.
EventsPast ==
    /\ \A r : In(r, exporters["detection_events"]) => PastKey(r.key)
    /\ \A r \in ToSet(buffer) : PastKey(r.key)

\* What the buffer holds was not handed on.
BufferApart == \A r \in ToSet(buffer) : ~In(r, exporters["detection_events"])

Known ==
    /\ \A r \in offered \cap TotalRow :
          In(r, exporters["total_traffic"]) \/ Counted(exporters["total_traffic"]) > 0
    /\ \A r \in offered \cap EventRow :
          \/ r \in ToSet(buffer) \/ In(r, exporters["detection_events"])
          \/ dropped > 0 \/ Counted(exporters["detection_events"]) > 0

RowsInv ==
    RowTypeOK /\ BothFlow /\ TotalPast /\ EventsPast /\ BufferApart /\ Known

\* The rows of the two tables are told apart by their columns.
LEMMA RowsDiffer ==
    /\ \A r \in TotalRow : "timestamp" \in DOMAIN r /\ "key" \notin DOMAIN r
    /\ \A r \in EventRow : "key" \in DOMAIN r /\ "timestamp" \notin DOMAIN r
    /\ TotalRow \cap EventRow = {}
<1>1. \A r \in TotalRow : DOMAIN r = {"timestamp", "instance"}
  BY DEF TotalRow
<1>2. \A r \in EventRow : DOMAIN r = {"key", "tenant", "kind"}
  BY DEF EventRow, DetectionEventRow
<1>3. /\ \A r \in TotalRow : "timestamp" \in DOMAIN r /\ "key" \notin DOMAIN r
      /\ \A r \in EventRow : "key" \in DOMAIN r /\ "timestamp" \notin DOMAIN r
  BY <1>1, <1>2
<1> QED BY <1>3

\* The rows of a sequence that grows or loses its front.
LEMMA ToSetOf ==
    ASSUME NEW R, NEW s \in Seq(R)
    PROVE  /\ ToSet(s) \subseteq R /\ (s = <<>> => ToSet(s) = {})
           /\ \A r \in R : ToSet(Append(s, r)) = ToSet(s) \cup {r}
           /\ \A u \in Seq(R) : ToSet(s \o u) = ToSet(s) \cup ToSet(u)
           /\ s # <<>> => ToSet(Tail(s)) \subseteq ToSet(s)
<1>1. ToSet(s) \subseteq R /\ (s = <<>> => ToSet(s) = {})
  BY DEF ToSet
<1>2. ASSUME NEW r \in R PROVE ToSet(Append(s, r)) = ToSet(s) \cup {r}
  <2>1. PICK u : u = Append(s, r)
    OBVIOUS
  <2>2. /\ DOMAIN u = 1 .. Len(s) + 1 /\ DOMAIN s = 1 .. Len(s) /\ u[Len(s) + 1] = r
        /\ \A i \in 1 .. Len(s) : u[i] = s[i]
    BY <2>1
  <2>3. Len(s) \in Nat
    OBVIOUS
  <2>4. \A i \in 1 .. Len(s) + 1 : i \in 1 .. Len(s) \/ i = Len(s) + 1
    BY <2>3
  <2>5. ToSet(u) \subseteq ToSet(s) \cup {r}
    BY <2>2, <2>4 DEF ToSet
  <2>6. ToSet(s) \cup {r} \subseteq ToSet(u)
    <3>1. \A i \in 1 .. Len(s) : i \in DOMAIN u
      BY <2>2, <2>3
    <3>2. Len(s) + 1 \in DOMAIN u
      BY <2>2, <2>3
    <3> QED BY <2>2, <3>1, <3>2 DEF ToSet
  <2> QED BY <2>1, <2>5, <2>6
<1>3. ASSUME NEW u \in Seq(R) PROVE ToSet(s \o u) = ToSet(s) \cup ToSet(u)
  <2>1. PICK v : v = s \o u
    OBVIOUS
  <2>2. PICK m, n : m = Len(s) /\ n = Len(u)
    OBVIOUS
  <2>3. /\ m \in Nat /\ n \in Nat /\ DOMAIN v = 1 .. m + n /\ DOMAIN s = 1 .. m /\ DOMAIN u = 1 .. n
        /\ \A i \in 1 .. m : v[i] = s[i]
        /\ \A i \in 1 .. n : v[m + i] = u[i]
    BY <2>1, <2>2
  <2>4. \A i \in 1 .. m + n : i \in 1 .. m \/ (i - m \in 1 .. n /\ m + (i - m) = i)
    BY <2>3
  <2>5. ToSet(v) \subseteq ToSet(s) \cup ToSet(u)
    <3> SUFFICES ASSUME NEW i \in 1 .. m + n PROVE v[i] \in ToSet(s) \cup ToSet(u)
      BY <2>3 DEF ToSet
    <3>1. CASE i \in 1 .. m
      BY <2>3, <3>1 DEF ToSet
    <3>2. CASE i \notin 1 .. m
      <4>1. PICK j \in 1 .. n : m + j = i
        BY <2>4, <3>2
      <4>2. v[i] = u[j]
        BY <2>3, <4>1
      <4> QED BY <2>3, <4>1, <4>2 DEF ToSet
    <3> QED BY <3>1, <3>2
  <2>6. ToSet(s) \cup ToSet(u) \subseteq ToSet(v)
    <3>1. \A i \in 1 .. m : i \in DOMAIN v
      BY <2>3
    <3>2. \A i \in 1 .. n : m + i \in DOMAIN v
      BY <2>3
    <3> QED BY <2>3, <3>1, <3>2 DEF ToSet
  <2> QED BY <2>1, <2>5, <2>6
<1>4. ASSUME s # <<>> PROVE ToSet(Tail(s)) \subseteq ToSet(s)
  <2>1. PICK u, n : u = Tail(s) /\ n = Len(s)
    OBVIOUS
  <2>2. /\ n \in Nat \ {0} /\ DOMAIN u = 1 .. n - 1 /\ DOMAIN s = 1 .. n
        /\ \A i \in 1 .. n - 1 : u[i] = s[i + 1]
    BY <1>4, <2>1
  <2>3. \A i \in 1 .. n - 1 : i + 1 \in 1 .. n
    BY <2>2
  <2> QED BY <2>1, <2>2, <2>3 DEF ToSet
<1> QED BY <1>1, <1>2, <1>3, <1>4

\* What handing rows to a writer does: they join its batch.
Joins(q, p, R, rows) ==
    /\ Flows(q, R, <<>>, 0) /\ Counted(q) = Counted(p)
    /\ \A r : In(r, q) <=> In(r, p) \/ r \in rows

LEMMA JoinKeeps ==
    ASSUME NEW R, NEW p, Flows(p, R, <<>>, 0), NEW rows, NEW x \in Seq(R),
           ToSet(x) = ToSet(p.writer.rows) \cup rows, \A r \in rows : ~In(r, p),
           NEW w2, w2 = [p.writer EXCEPT !.rows = x],
           NEW q, q = [writer |-> w2, table |-> p.table]
    PROVE  Joins(q, p, R, rows)
<1>1. PICK w, T : w = p.writer /\ T = p.table
  OBVIOUS
<1>2. w \in WriterOf(R) /\ DOMAIN T \subseteq R /\ T \in [DOMAIN T -> 1 .. MaxWriteAttempts]
  BY <1>1 DEF Flows, PipelineTypeOK
<1>3. /\ w2 \in WriterOf(R) /\ w2.rows = x /\ w2.pending = w.pending /\ w2.report = w.report
  BY <1>1, <1>2 DEF WriterOf
<1>4. q.writer = w2 /\ q.table = T
  BY <1>1
<1>5. Len(<<>>) = 0 /\ 0 + 1 .. 0 = {}
  OBVIOUS
<1>6. \A r : In(r, p) <=> \/ r \in ToSet(w.rows) \/ r \in DOMAIN T
                          \/ \E i \in 1 .. Len(w.pending) : r \in ToSet(w.pending[i].rows)
  BY <1>1, <1>5 DEF In, Somewhere
<1>7. \A r : In(r, q) <=> \/ r \in ToSet(x) \/ r \in DOMAIN T
                          \/ \E i \in 1 .. Len(w.pending) : r \in ToSet(w.pending[i].rows)
  BY <1>3, <1>4, <1>5 DEF In, Somewhere
<1>8. PipelineTypeOK(q, R)
  BY <1>1, <1>2, <1>3, <1>4 DEF PipelineTypeOK
<1>9. /\ \A r \in ToSet(w.rows) : r \notin DOMAIN T
      /\ \A i \in 1 .. Len(w.pending) :
            Fits(w.pending[i], T) /\ ToSet(w.pending[i].rows) \cap ToSet(w.rows) = {}
      /\ \A i, j \in 1 .. Len(w.pending) :
            i # j => ToSet(w.pending[i].rows) \cap ToSet(w.pending[j].rows) = {}
  BY <1>1 DEF Flows, Held
<1>10. \A r \in ToSet(x) : r \notin DOMAIN T
  BY <1>1, <1>6, <1>9
<1>11. \A i \in 1 .. Len(w.pending) : ToSet(w.pending[i].rows) \cap ToSet(x) = {}
  BY <1>1, <1>6, <1>9
<1>12. Held(q)
  BY <1>3, <1>4, <1>9, <1>10, <1>11 DEF Held
<1>13. InHand(q, R, <<>>, 0)
  BY <1>5 DEF InHand
<1>14. Counted(q) = Counted(p)
  BY <1>1, <1>3, <1>4 DEF Counted
<1> QED BY <1>1, <1>6, <1>7, <1>8, <1>12, <1>13, <1>14 DEF Flows, Joins

\* What publishing an event does to the buffer: nothing, or the event's row is in it and
\* one that made room is counted.
Buffers(row) ==
    \/ UNCHANGED <<buffer, dropped, offered>>
    \/ /\ buffer' \in Seq(EventRow) /\ dropped' \in Nat /\ dropped <= dropped'
       /\ ToSet(buffer') \subseteq ToSet(buffer) \cup {row} /\ row \in ToSet(buffer')
       /\ ToSet(buffer) \subseteq ToSet(buffer') \/ dropped' > 0
       /\ offered' = offered \cup {row}

LEMMA EmitBuffers ==
    ASSUME RowTypeOK, NEW e \in Built, emit(e), NEW row, row = DetectionEventRow(e)
    PROVE  Buffers(row)
<1>0. row \in EventRow
  BY DEF EventRow
<1>1. PICK put : put = BufferEvent(buffer, EventBuffer, e)
  OBVIOUS
<1>2. \/ UNCHANGED <<buffer, dropped, offered>>
      \/ /\ buffer' = put.rows /\ dropped' = dropped + put.dropped
         /\ offered' = IF put.result = Accepted THEN offered \cup {row} ELSE offered
  <2>1. CASE ~is_publishable(e)
    BY <2>1 DEF emit
  <2>2. CASE is_publishable(e)
    BY <1>1, <2>2 DEF emit
  <2> QED BY <2>1, <2>2
<1>3. EventBuffer \in Nat /\ buffer \in Seq(EventRow) /\ dropped \in Nat
  BY DeliveryAssumption DEF RowTypeOK
<1>4. ASSUME buffer' = put.rows /\ dropped' = dropped + put.dropped
             /\ offered' = IF put.result = Accepted THEN offered \cup {row} ELSE offered
      PROVE  Buffers(row)
  <2>1. CASE EventBuffer = 0
    <3>1. put.rows = buffer /\ put.dropped = 0 /\ put.result # Accepted
      BY <1>1, <2>1 DEF BufferEvent, Accepted
    <3> QED BY <1>3, <1>4, <3>1 DEF Buffers
  <2>2. CASE EventBuffer > 0 /\ Len(buffer) >= EventBuffer
    <3>1. put.rows = Append(Tail(buffer), row) /\ put.dropped = 1 /\ put.result = Accepted
      BY <1>1, <2>2 DEF BufferEvent
    <3>2. buffer # <<>>
      BY <1>3, <2>2
    <3>3. PICK rest : rest = Tail(buffer)
      OBVIOUS
    <3>4. rest \in Seq(EventRow) /\ ToSet(rest) \subseteq ToSet(buffer)
      BY <1>3, <3>2, <3>3, ToSetOf
    <3>5. ToSet(Append(rest, row)) = ToSet(rest) \cup {row} /\ Append(rest, row) \in Seq(EventRow)
      BY <1>0, <3>4, ToSetOf
    <3>6. buffer' = Append(rest, row) /\ dropped' = dropped + 1 /\ offered' = offered \cup {row}
      BY <1>4, <3>1, <3>3
    <3>7. dropped' \in Nat /\ dropped <= dropped' /\ dropped' > 0
      BY <1>3, <3>6
    <3> QED BY <3>4, <3>5, <3>6, <3>7 DEF Buffers
  <2>3. CASE EventBuffer > 0 /\ ~(Len(buffer) >= EventBuffer)
    <3>1. put.rows = Append(buffer, row) /\ put.dropped = 0 /\ put.result = Accepted
      BY <1>1, <2>3 DEF BufferEvent
    <3>2. ToSet(Append(buffer, row)) = ToSet(buffer) \cup {row} /\ Append(buffer, row) \in Seq(EventRow)
      BY <1>0, <1>3, ToSetOf
    <3>3. buffer' = Append(buffer, row) /\ dropped' = dropped /\ offered' = offered \cup {row}
      BY <1>3, <1>4, <3>1
    <3> QED BY <1>3, <3>2, <3>3 DEF Buffers
  <2> QED BY <1>3, <2>1, <2>2, <2>3
<1> QED BY <1>2, <1>4 DEF Buffers

\* An event the engine makes has a new row.
LEMMA EngineKeepsRows ==
    ASSUME DeliveryInv, RowsInv, NEW s \in Scopes, EngineMoves(s)
    PROVE  RowsInv'
<1>1. PICK d \in Detection, k \in Kinds : MovesOn(s, d) /\ emit(build(instance, s, d, k))
  BY DEF EngineMoves
<1>2. UNCHANGED <<now, instance, exporters, exported>>
  BY DEF EngineMoves, EngineStep
<1>3. PICK e : e = build(instance, s, d, k)
  OBVIOUS
<1>4. e \in Built /\ e.dedup_key = <<<<instance, s, d.started>>, k, d.sequence>>
  <2>1. instance \in Nat
    BY DEF DeliveryInv, EngineTypeOK
  <2> QED BY <1>3, <2>1, BuildCarries
<1>5. PICK row : row = DetectionEventRow(e)
  OBVIOUS
<1>6. row \in EventRow /\ row.key = e.dedup_key
  BY <1>4, <1>5 DEF EventRow, DetectionEventRow
<1>7. Buffers(row)
  BY <1>1, <1>3, <1>4, <1>5, EmitBuffers DEF RowsInv
<1>8. ASSUME NEW key, PastKey(key) PROVE PastKey(key)' /\ key # row.key
  BY <1>1, <1>2, <1>4, <1>6, <1>8, KeysMoveOn
<1>9. ASSUME NEW key, key = row.key PROVE PastKey(key)'
  BY <1>1, <1>2, <1>4, <1>6, <1>9, KeyMade
<1>10. PICK p, t : p = exporters["detection_events"] /\ t = exporters["total_traffic"]
  OBVIOUS
<1>11. exporters'["detection_events"] = p /\ exporters'["total_traffic"] = t
  BY <1>2, <1>10
<1>12. ~In(row, p)
  BY <1>8, <1>10 DEF RowsInv, EventsPast
<1>13. \A r \in ToSet(buffer') : r \in ToSet(buffer) \/ r = row
  BY <1>7 DEF Buffers
<1>14. RowTypeOK'
  BY <1>2, <1>6, <1>7 DEF RowsInv, RowTypeOK, Buffers
<1>15. BothFlow'
  BY <1>10, <1>11 DEF RowsInv, BothFlow
<1>16. TotalPast'
  BY <1>2, <1>10, <1>11 DEF RowsInv, TotalPast
<1>17. EventsPast'
  <2>1. ASSUME NEW r, In(r, p) PROVE PastKey(r.key)'
    <3>1. PICK key : key = r.key
      OBVIOUS
    <3>2. PastKey(key)
      BY <1>10, <2>1, <3>1 DEF RowsInv, EventsPast
    <3>3. PastKey(key)'
      BY <1>8, <3>2
    <3> QED BY <3>1, <3>3
  <2>2. ASSUME NEW r \in ToSet(buffer') PROVE PastKey(r.key)'
    <3>1. PICK key : key = r.key
      OBVIOUS
    <3>2. PastKey(key)'
      <4>1. CASE r = row
        BY <1>9, <3>1, <4>1
      <4>2. CASE r \in ToSet(buffer)
        <5>1. PastKey(key)
          BY <3>1, <4>2 DEF RowsInv, EventsPast
        <5> QED BY <1>8, <5>1
      <4> QED BY <1>13, <4>1, <4>2
    <3> QED BY <3>1, <3>2
  <2> QED BY <1>11, <2>1, <2>2 DEF EventsPast
<1>18. BufferApart'
  BY <1>10, <1>11, <1>12, <1>13 DEF RowsInv, BufferApart
<1>19. Known'
  <2>1. CASE UNCHANGED <<buffer, dropped, offered>>
    BY <1>10, <1>11, <2>1 DEF RowsInv, Known
  <2>2. CASE /\ dropped' \in Nat /\ dropped <= dropped' /\ row \in ToSet(buffer')
             /\ ToSet(buffer) \subseteq ToSet(buffer') \/ dropped' > 0
             /\ offered' = offered \cup {row}
    <3>1. \A r \in offered' \cap TotalRow : In(r, t) \/ Counted(t) > 0
      BY <1>6, <1>10, <2>2, RowsDiffer DEF RowsInv, Known
    <3>2. \A r \in offered' \cap EventRow :
              r \in ToSet(buffer') \/ In(r, p) \/ dropped' > 0 \/ Counted(p) > 0
      <4> TAKE r \in offered' \cap EventRow
      <4>1. CASE r = row
        BY <2>2, <4>1
      <4>2. CASE r # row
        <5>1. r \in ToSet(buffer) \/ In(r, p) \/ dropped > 0 \/ Counted(p) > 0
          BY <1>10, <2>2, <4>2 DEF RowsInv, Known
        <5>2. dropped > 0 => dropped' > 0
          BY <2>2 DEF RowsInv, RowTypeOK
        <5> QED BY <2>2, <5>1, <5>2
      <4> QED BY <4>1, <4>2
    <3> QED BY <1>11, <3>1, <3>2 DEF Known
  <2> QED BY <1>7, <2>1, <2>2 DEF Buffers
<1> QED BY <1>14, <1>15, <1>16, <1>17, <1>18, <1>19 DEF RowsInv

\* A step that leaves the engine and the pipelines alone.
LEMMA OthersKeepRows ==
    ASSUME DeliveryInv, RowsInv, now' \in Nat, now <= now',
           UNCHANGED <<instance, open, opened, buffer, dropped, exporters, exported, offered>>
    PROVE  RowsInv'
<1>1. RowTypeOK'
  BY DEF RowsInv, RowTypeOK, DeliveryInv, EngineTypeOK
<1>2. BothFlow' /\ TotalPast' /\ BufferApart' /\ Known'
  BY DEF RowsInv, BothFlow, TotalPast, BufferApart, Known
<1>3. EventsPast'
  <2>1. PICK p : p = exporters["detection_events"]
    OBVIOUS
  <2>2. ASSUME NEW r, In(r, p) \/ r \in ToSet(buffer) PROVE PastKey(r.key)'
    <3>1. PICK key : key = r.key
      OBVIOUS
    <3>2. PastKey(key)
      BY <2>1, <2>2, <3>1 DEF RowsInv, EventsPast
    <3>3. PastKey(key)'
      BY <3>2, PastKeyStays
    <3> QED BY <3>1, <3>3
  <2> QED BY <2>1, <2>2 DEF EventsPast
<1> QED BY <1>1, <1>2, <1>3 DEF RowsInv

\* A pipeline holds rows of its table.
LEMMA HeldAre ==
    ASSUME NEW R, NEW p, Flows(p, R, <<>>, 0), NEW r, In(r, p)
    PROVE  r \in R
<1>1. /\ p.writer.rows \in Seq(R) /\ p.writer.pending \in Seq(BatchOf(R)) /\ DOMAIN p.table \subseteq R
  BY DEF Flows, PipelineTypeOK, WriterOf
<1>2. Len(<<>>) = 0 /\ 0 + 1 .. 0 = {}
  OBVIOUS
<1>3. CASE r \in ToSet(p.writer.rows)
  BY <1>1, <1>3, ToSetOf
<1>4. CASE r \in DOMAIN p.table
  BY <1>1, <1>4
<1>5. CASE \E i \in 1 .. Len(p.writer.pending) : r \in ToSet(p.writer.pending[i].rows)
  <2>1. PICK i \in 1 .. Len(p.writer.pending) : r \in ToSet(p.writer.pending[i].rows)
    BY <1>5
  <2>2. PICK x : x = p.writer.pending[i].rows
    OBVIOUS
  <2>3. p.writer.pending[i] \in BatchOf(R)
    BY <1>1, <2>1
  <2>4. x \in Seq(R)
    BY <2>2, <2>3 DEF BatchOf
  <2> QED BY <2>1, <2>2, <2>4, ToSetOf
<1> QED BY <1>2, <1>3, <1>4, <1>5 DEF In, Somewhere

\* A new writer over a table.
LEMMA NewFlows ==
    ASSUME NEW R, NEW p, Flows(p, R, <<>>, 0), NEW c \in Nat,
           NEW q, q = [writer |-> NewWriter(c), table |-> p.table]
    PROVE  Flows(q, R, <<>>, 0) /\ \A r : In(r, q) <=> r \in DOMAIN p.table
<1>1. PICK w, T : w = NewWriter(c) /\ T = p.table
  OBVIOUS
<1>2. /\ w = [rows |-> <<>>, window_start |-> c, pending |-> <<>>,
              report |-> [retry_queue_dropped |-> 0, permanently_dropped |-> 0]]
  BY <1>1 DEF NewWriter
<1>3. w.rows = <<>> /\ w.pending = <<>> /\ q.writer = w /\ q.table = T /\ q = [writer |-> w, table |-> T]
  BY <1>1, <1>2
<1>4. w \in WriterOf(R)
  <2>1. <<>> \in Seq(R) /\ <<>> \in Seq(BatchOf(R))
    OBVIOUS
  <2>2. [retry_queue_dropped |-> 0, permanently_dropped |-> 0]
          \in [retry_queue_dropped : Nat, permanently_dropped : Nat]
    OBVIOUS
  <2> QED BY <1>2, <2>1, <2>2 DEF WriterOf
<1>5. DOMAIN T \subseteq R /\ T \in [DOMAIN T -> 1 .. MaxWriteAttempts]
  BY <1>1 DEF Flows, PipelineTypeOK
<1>6. Len(<<>>) = 0 /\ 0 + 1 .. 0 = {} /\ 1 .. 0 = {} /\ ToSet(<<>>) = {}
  BY DEF ToSet
<1>7. PipelineTypeOK(q, R)
  BY <1>3, <1>4, <1>5 DEF PipelineTypeOK
<1>8. Held(q) /\ InHand(q, R, <<>>, 0)
  BY <1>3, <1>6 DEF Held, InHand
<1>9. \A r : In(r, q) <=> r \in DOMAIN T
  BY <1>3, <1>6 DEF In, Somewhere
<1> QED BY <1>1, <1>7, <1>8, <1>9 DEF Flows

\* The export tick: new rows join the batches, the buffer is empty, and the writers tick.
LEMMA ExportKeepsRows ==
    ASSUME DeliveryInv, RowsInv, ExportTick
    PROVE  RowsInv'
<1>1. PICK p, t : p = exporters["detection_events"] /\ t = exporters["total_traffic"]
  OBVIOUS
<1>2. PICK total \in tick(snapshot(t), now), events \in tick(drain_rows(p), now) :
          exporters' = [b \in Tables |-> IF b = "total_traffic" THEN total ELSE events]
  BY <1>1 DEF ExportTick
<1>3. exporters'["detection_events"] = events /\ exporters'["total_traffic"] = total
  BY <1>2 DEF Tables
<1>4. /\ exported < now /\ offered' = offered \cup {TotalTrafficRow} /\ buffer' = <<>>
      /\ exported' = now /\ UNCHANGED <<now, instance, open, opened, dropped>>
  BY DEF ExportTick, engineVars
<1>5. /\ now \in Nat /\ instance \in Nat /\ exported \in Nat /\ buffer \in Seq(EventRow)
      /\ dropped \in Nat
  BY DEF DeliveryInv, EngineTypeOK, RowsInv, RowTypeOK
<1>6. PICK c : c = now
  OBVIOUS
<1>7. PICK row : row = TotalTrafficRow
  OBVIOUS
<1>8. row \in TotalRow /\ row.timestamp = now /\ row.instance = instance
  BY <1>5, <1>7 DEF TotalTrafficRow, TotalRow
<1>9. Flows(t, TotalRow, <<>>, 0) /\ Flows(p, EventRow, <<>>, 0)
  BY <1>1 DEF RowsInv, BothFlow
<1>10. ~In(row, t)
  BY <1>1, <1>4, <1>5, <1>8 DEF RowsInv, TotalPast
<1>11. PICK t1 : t1 = snapshot(t)
  OBVIOUS
<1>12. Joins(t1, t, TotalRow, {row})
  <2>1. PICK w : w = t.writer
    OBVIOUS
  <2>2. w \in WriterOf(TotalRow) /\ t = [writer |-> w, table |-> t.table]
    BY <1>9, <2>1 DEF Flows, PipelineTypeOK
  <2>3. PICK x : x = Append(w.rows, row)
    OBVIOUS
  <2>4. w.rows \in Seq(TotalRow)
    BY <2>2 DEF WriterOf
  <2>5. x \in Seq(TotalRow) /\ ToSet(x) = ToSet(w.rows) \cup {row}
    BY <1>8, <2>3, <2>4, ToSetOf
  <2>6. PICK w2 : w2 = [t.writer EXCEPT !.rows = x]
    OBVIOUS
  <2>7. t1 = [t EXCEPT !.writer = w2]
    BY <1>7, <1>11, <2>1, <2>3, <2>6 DEF snapshot, push
  <2>8. t1 = [writer |-> w2, table |-> t.table]
    BY <2>2, <2>7
  <2> QED BY <1>9, <1>10, <2>1, <2>5, <2>6, <2>8, JoinKeeps
<1>13. PICK p1 : p1 = drain_rows(p)
  OBVIOUS
<1>14. Joins(p1, p, EventRow, ToSet(buffer))
  <2>1. PICK w, u, new : w = p.writer /\ u = buffer /\ new = ToSet(buffer)
    OBVIOUS
  <2>2. w \in WriterOf(EventRow) /\ p = [writer |-> w, table |-> p.table]
    BY <1>9, <2>1 DEF Flows, PipelineTypeOK
  <2>3. PICK x : x = w.rows \o u
    OBVIOUS
  <2>4. w.rows \in Seq(EventRow) /\ u \in Seq(EventRow)
    BY <1>5, <2>1, <2>2 DEF WriterOf
  <2>5. x \in Seq(EventRow) /\ ToSet(x) = ToSet(w.rows) \cup new
    BY <2>1, <2>3, <2>4, ToSetOf
  <2>6. PICK w2 : w2 = [p.writer EXCEPT !.rows = x]
    OBVIOUS
  <2>7. p1 = [p EXCEPT !.writer = w2]
    BY <1>13, <2>1, <2>3, <2>6 DEF drain_rows
  <2>8. p1 = [writer |-> w2, table |-> p.table]
    BY <2>2, <2>7
  <2>9. \A r \in new : ~In(r, p)
    BY <1>1, <2>1 DEF RowsInv, BufferApart
  <2>10. Joins(p1, p, EventRow, new)
    BY <1>9, <2>1, <2>5, <2>6, <2>8, <2>9, JoinKeeps
  <2> QED BY <2>1, <2>10
<1>15. Flows(total, TotalRow, <<>>, 0) /\ Accounts(total, 0, t1, 0, <<>>)
  <2>1. total \in tick(t1, c) /\ c \in Nat /\ Flows(t1, TotalRow, <<>>, 0)
    BY <1>2, <1>5, <1>6, <1>11, <1>12 DEF Joins
  <2> QED BY <2>1, TickKeeps
<1>16. Flows(events, EventRow, <<>>, 0) /\ Accounts(events, 0, p1, 0, <<>>)
  <2>1. events \in tick(p1, c) /\ c \in Nat /\ Flows(p1, EventRow, <<>>, 0)
    BY <1>2, <1>5, <1>6, <1>13, <1>14 DEF Joins
  <2> QED BY <2>1, TickKeeps
<1>17. /\ \A r : In(r, total) => In(r, t) \/ r = row
       /\ \A r : In(r, t) \/ r = row => In(r, total) \/ Counted(total) > 0
       /\ Counted(total) \in Nat /\ Counted(t) <= Counted(total)
  BY <1>12, <1>15 DEF Joins, Accounts, In
<1>18. /\ \A r : In(r, events) => In(r, p) \/ r \in ToSet(buffer)
       /\ \A r : In(r, p) \/ r \in ToSet(buffer) => In(r, events) \/ Counted(events) > 0
       /\ Counted(events) \in Nat /\ Counted(p) <= Counted(events)
  BY <1>14, <1>16 DEF Joins, Accounts, In
<1>19. Counted(t) \in Nat /\ Counted(p) \in Nat
  BY <1>9 DEF Flows, PipelineTypeOK, WriterOf, Counted
<1>20. ToSet(buffer') = {} /\ buffer' \in Seq(EventRow)
  BY <1>4 DEF ToSet
<1>21. RowTypeOK'
  BY <1>4, <1>5, <1>7, <1>8, <1>20 DEF RowsInv, RowTypeOK
<1>22. BothFlow' /\ BufferApart'
  BY <1>3, <1>15, <1>16, <1>20 DEF BothFlow, BufferApart
<1>23. TotalPast'
  <2> SUFFICES ASSUME NEW r, In(r, total)
               PROVE  r.instance < instance \/ (r.instance = instance /\ r.timestamp <= now)
    BY <1>3, <1>4 DEF TotalPast
  <2>1. CASE r = row
    BY <1>5, <1>8, <2>1
  <2>2. CASE In(r, t)
    <3>1. r.instance < instance \/ (r.instance = instance /\ r.timestamp <= exported)
      BY <1>1, <2>2 DEF RowsInv, TotalPast
    <3>2. r \in TotalRow
      BY <1>9, <2>2, HeldAre
    <3>3. r.timestamp \in Nat
      BY <3>2 DEF TotalRow
    <3> QED BY <1>4, <1>5, <3>1, <3>3
  <2> QED BY <1>17, <2>1, <2>2
<1>24. EventsPast'
  <2>1. ASSUME NEW r, In(r, events) PROVE PastKey(r.key)'
    <3>1. PICK key : key = r.key
      OBVIOUS
    <3>2. PastKey(key)
      BY <1>1, <1>18, <2>1, <3>1 DEF RowsInv, EventsPast
    <3>3. PastKey(key)'
      BY <1>4, <3>2, PastKeyStays
    <3> QED BY <3>1, <3>3
  <2> QED BY <1>3, <1>20, <2>1 DEF EventsPast
<1>25. Known'
  <2>1. \A r \in offered' \cap TotalRow : In(r, total) \/ Counted(total) > 0
    <3> TAKE r \in offered' \cap TotalRow
    <3>1. r = row \/ In(r, t) \/ Counted(t) > 0
      BY <1>1, <1>4, <1>7 DEF RowsInv, Known
    <3> QED BY <1>17, <1>19, <3>1
  <2>2. \A r \in offered' \cap EventRow : In(r, events) \/ dropped > 0 \/ Counted(events) > 0
    <3> TAKE r \in offered' \cap EventRow
    <3>1. r \in offered \cap EventRow
      BY <1>4, <1>7, <1>8, RowsDiffer
    <3>2. r \in ToSet(buffer) \/ In(r, p) \/ dropped > 0 \/ Counted(p) > 0
      BY <1>1, <3>1 DEF RowsInv, Known
    <3> QED BY <1>18, <1>19, <3>2
  <2> QED BY <1>3, <1>4, <2>1, <2>2 DEF Known
<1> QED BY <1>21, <1>22, <1>23, <1>24, <1>25 DEF RowsInv

\* A new process: only what the tables store is left, and that is what was offered.
LEMMA RestartKeepsRows ==
    ASSUME DeliveryInv, RowsInv, Restart
    PROVE  RowsInv'
<1>1. PICK p, t : p = exporters["detection_events"] /\ t = exporters["total_traffic"]
  OBVIOUS
<1>2. PICK w, c : w = NewWriter(now) /\ c = now
  OBVIOUS
<1>3. /\ instance' = instance + 1 /\ buffer' = <<>> /\ dropped' = 0 /\ exported' = now /\ now' = now
      /\ exporters' = [b \in Tables |-> [exporters[b] EXCEPT !.writer = w]]
      /\ offered' = UNION {BagToSet(exporters[b].table) : b \in Tables}
  BY <1>2 DEF Restart
<1>4. now \in Nat /\ instance \in Nat
  BY DEF DeliveryInv, EngineTypeOK
<1>5. Flows(t, TotalRow, <<>>, 0) /\ Flows(p, EventRow, <<>>, 0)
  BY <1>1 DEF RowsInv, BothFlow
<1>6. PICK t2, p2 : t2 = [writer |-> w, table |-> t.table] /\ p2 = [writer |-> w, table |-> p.table]
  OBVIOUS
<1>7. exporters'["detection_events"] = p2 /\ exporters'["total_traffic"] = t2
  <2>1. /\ exporters'["detection_events"] = [p EXCEPT !.writer = w]
        /\ exporters'["total_traffic"] = [t EXCEPT !.writer = w]
    BY <1>1, <1>3 DEF Tables
  <2>2. p = [writer |-> p.writer, table |-> p.table] /\ t = [writer |-> t.writer, table |-> t.table]
    BY <1>5 DEF Flows, PipelineTypeOK
  <2> QED BY <1>6, <2>1, <2>2
<1>8. Flows(t2, TotalRow, <<>>, 0) /\ \A r : In(r, t2) <=> r \in DOMAIN t.table
  BY <1>2, <1>4, <1>5, <1>6, NewFlows
<1>9. Flows(p2, EventRow, <<>>, 0) /\ \A r : In(r, p2) <=> r \in DOMAIN p.table
  BY <1>2, <1>4, <1>5, <1>6, NewFlows
<1>10. offered' = DOMAIN p.table \cup DOMAIN t.table
  BY <1>1, <1>3 DEF Tables, BagToSet
<1>11. \A r : (r \in DOMAIN t.table => In(r, t)) /\ (r \in DOMAIN p.table => In(r, p))
  BY DEF In, Somewhere
<1>12. DOMAIN t.table \subseteq TotalRow /\ DOMAIN p.table \subseteq EventRow
  BY <1>5 DEF Flows, PipelineTypeOK
<1>13. ToSet(buffer') = {} /\ buffer' \in Seq(EventRow)
  BY <1>3 DEF ToSet
<1>14. RowTypeOK'
  BY <1>3, <1>4, <1>10, <1>12, <1>13 DEF RowTypeOK
<1>15. BothFlow' /\ BufferApart'
  BY <1>7, <1>8, <1>9, <1>13 DEF BothFlow, BufferApart
<1>16. TotalPast'
  <2> SUFFICES ASSUME NEW r, In(r, t2)
               PROVE  r.instance < instance + 1
    BY <1>3, <1>7 DEF TotalPast
  <2>1. r \in TotalRow /\ In(r, t)
    BY <1>8, <1>11, <1>12
  <2>2. r.instance < instance \/ r.instance = instance
    BY <1>1, <2>1 DEF RowsInv, TotalPast
  <2>3. r.instance \in Nat
    BY <2>1 DEF TotalRow
  <2> QED BY <1>4, <2>2, <2>3
<1>17. EventsPast'
  <2>1. ASSUME NEW r, In(r, p2) PROVE PastKey(r.key)'
    <3>1. PICK key : key = r.key
      OBVIOUS
    <3>2. PastKey(key)
      BY <1>1, <1>9, <1>11, <2>1, <3>1 DEF RowsInv, EventsPast
    <3>3. PastKey(key)'
      BY <1>3, <1>4, <3>2, PastKeyRestarts
    <3> QED BY <3>1, <3>3
  <2> QED BY <1>7, <1>13, <2>1 DEF EventsPast
<1>18. Known'
  <2>1. \A r \in offered' \cap TotalRow : In(r, t2)
    BY <1>8, <1>10, <1>12, RowsDiffer
  <2>2. \A r \in offered' \cap EventRow : In(r, p2)
    BY <1>9, <1>10, <1>12, RowsDiffer
  <2> QED BY <1>7, <2>1, <2>2 DEF Known
<1> QED BY <1>14, <1>15, <1>16, <1>17, <1>18 DEF RowsInv

LEMMA RowsInitHolds == DeliveryInit => RowsInv
<1> HAVE DeliveryInit
<1>1. PICK p : p = [writer |-> NewWriter(1), table |-> EmptyBag]
  OBVIOUS
<1>2. exporters["detection_events"] = p /\ exporters["total_traffic"] = p
  BY <1>1 DEF DeliveryInit, Tables
<1>3. now = 1 /\ buffer = <<>> /\ dropped = 0 /\ exported = 0 /\ offered = {}
  BY DEF DeliveryInit
<1>4. ASSUME NEW R PROVE Flows(p, R, <<>>, 0)
  <2>1. PICK w, T : w = NewWriter(1) /\ T = EmptyBag
    OBVIOUS
  <2>2. w = [rows |-> <<>>, window_start |-> 1, pending |-> <<>>,
             report |-> [retry_queue_dropped |-> 0, permanently_dropped |-> 0]]
    BY <2>1 DEF NewWriter
  <2>3. w \in WriterOf(R)
    <3>1. <<>> \in Seq(R) /\ <<>> \in Seq(BatchOf(R))
      OBVIOUS
    <3>2. [retry_queue_dropped |-> 0, permanently_dropped |-> 0]
            \in [retry_queue_dropped : Nat, permanently_dropped : Nat]
      OBVIOUS
    <3> QED BY <2>2, <3>1, <3>2 DEF WriterOf
  <2>4. DOMAIN T = {} /\ T = [r \in {} |-> 1]
    BY <2>1 DEF EmptyBag, SetToBag
  <2>5. Len(<<>>) = 0 /\ 0 + 1 .. 0 = {} /\ 1 .. 0 = {} /\ ToSet(<<>>) = {}
    BY DEF ToSet
  <2>6. T \in [DOMAIN T -> 1 .. MaxWriteAttempts]
    BY <2>4
  <2>7. p.writer = w /\ p.table = T /\ p = [writer |-> w, table |-> T] /\ w.rows = <<>>
        /\ w.pending = <<>>
    BY <1>1, <2>1, <2>2
  <2>8. PipelineTypeOK(p, R)
    BY <2>3, <2>4, <2>6, <2>7 DEF PipelineTypeOK
  <2>9. Held(p) /\ InHand(p, R, <<>>, 0)
    BY <2>5, <2>7 DEF Held, InHand
  <2> QED BY <2>8, <2>9 DEF Flows
<1>5. ASSUME NEW r PROVE ~In(r, p)
  <2>1. Flows(p, {}, <<>>, 0)
    BY <1>4
  <2> QED BY <2>1, HeldAre
<1>6. ToSet(buffer) = {} /\ buffer \in Seq(EventRow)
  BY <1>3 DEF ToSet
<1>7. RowTypeOK
  BY <1>3, <1>6 DEF RowTypeOK
<1>8. BothFlow
  BY <1>2, <1>4 DEF BothFlow
<1>9. TotalPast /\ EventsPast /\ BufferApart /\ Known
  BY <1>2, <1>3, <1>5, <1>6 DEF TotalPast, EventsPast, BufferApart, Known
<1> QED BY <1>7, <1>8, <1>9 DEF RowsInv

LEMMA RowsStep == DeliveryInv /\ RowsInv /\ [DeliveryNext]_dvars => RowsInv'
<1> HAVE DeliveryInv /\ RowsInv /\ [DeliveryNext]_dvars
<1>0. DeliveryInv /\ RowsInv
  OBVIOUS
<1>1. now \in Nat /\ now <= now
  BY DEF DeliveryInv, EngineTypeOK
<1>2. ASSUME NEW s \in Scopes, Started(s) \/ Updated(s) \/ Ended(s)
      PROVE  RowsInv'
  <2>1. EngineMoves(s)
    BY <1>0, <1>2, StartedMoves, UpdatedMoves, EndedMoves
  <2> QED BY <1>0, <2>1, EngineKeepsRows
<1>3. ASSUME NEW t \in Tenants,
             \/ FlushBegins(t) \/ FlushSucceeds(t) \/ FlushFails(t)
             \/ WaitEnds(t) \/ DrainStops(t) \/ AwaitDrain(t)
      PROVE  RowsInv'
  <2>1. DrainStep(t) \/ AwaitDrain(t)
    BY <1>3 DEF FlushBegins, FlushSucceeds, FlushFails, WaitEnds, DrainStops
  <2>2. UNCHANGED <<now, engineVars, clickhouseVars>>
    BY <2>1 DEF DrainStep, AwaitDrain
  <2>3. UNCHANGED <<now, instance, open, opened, buffer, dropped, exporters, exported, offered>>
    BY <2>2 DEF engineVars, clickhouseVars
  <2> QED BY <1>0, <1>1, <2>3, OthersKeepRows
<1>4. CASE ExportTick
  BY <1>0, <1>4, ExportKeepsRows
<1>5. CASE TimePasses
  <2>1. /\ UNCHANGED <<instance, open, opened, buffer, dropped, exporters, exported, offered>>
        /\ now' \in Nat /\ now <= now'
    BY <1>1, <1>5 DEF TimePasses, engineVars, clickhouseVars
  <2> QED BY <1>0, <2>1, OthersKeepRows
<1>6. CASE Shutdown \/ Exit
  <2>1. UNCHANGED <<now, instance, open, opened, buffer, dropped, exporters, exported, offered>>
    BY <1>6 DEF Shutdown, Exit, engineVars, clickhouseVars
  <2> QED BY <1>0, <1>1, <2>1, OthersKeepRows
<1>7. CASE Restart
  BY <1>0, <1>7, RestartKeepsRows
<1>8. CASE UNCHANGED dvars
  <2>1. UNCHANGED <<now, instance, open, opened, buffer, dropped, exporters, exported, offered>>
    BY <1>8 DEF dvars
  <2> QED BY <1>0, <1>1, <2>1, OthersKeepRows
<1> QED BY <1>2, <1>3, <1>4, <1>5, <1>6, <1>7, <1>8 DEF DeliveryNext

\* What RowsAccounted says of one table.
AccountedIn(b) ==
    LET w == exporters[b].writer
        buffered_away == IF b = "total_traffic" THEN 0 ELSE dropped
    IN  /\ \A i, j \in DOMAIN w.pending :
              i # j => ToSet(w.pending[i].rows) \intersect ToSet(w.pending[j].rows) = {}
        /\ \A i \in DOMAIN w.pending :
              ToSet(w.pending[i].rows) \intersect (ToSet(w.rows) \union ToSet(buffer)) = {}
        /\ Missing(b) # {} => buffered_away + w.report.retry_queue_dropped
                                 + w.report.permanently_dropped > 0
        /\ \A r \in BagToSet(exporters[b].table) :
              exporters[b].table[r] <= MaxWriteAttempts

LEMMA RowsAccountedHolds == RowsInv => RowsAccounted
<1> HAVE RowsInv
<1>1. ASSUME NEW b \in Tables, NEW R, NEW p, p = exporters[b], Flows(p, R, <<>>, 0),
             R \cap ToSet(buffer) = {} \/ b = "detection_events",
             Missing(b) # {} => (IF b = "total_traffic" THEN 0 ELSE dropped) + Counted(p) > 0
      PROVE  AccountedIn(b)
  <2>1. PICK w : w = p.writer
    OBVIOUS
  <2>2. /\ w.pending \in Seq(BatchOf(R)) /\ DOMAIN w.pending = 1 .. Len(w.pending)
        /\ w.report.retry_queue_dropped \in Nat /\ w.report.permanently_dropped \in Nat
    BY <1>1, <2>1 DEF Flows, PipelineTypeOK, WriterOf
  <2>3. /\ \A i \in 1 .. Len(w.pending) : ToSet(w.pending[i].rows) \cap ToSet(w.rows) = {}
        /\ \A i, j \in 1 .. Len(w.pending) :
              i # j => ToSet(w.pending[i].rows) \cap ToSet(w.pending[j].rows) = {}
    BY <1>1, <2>1 DEF Flows, Held
  <2>4. \A i \in 1 .. Len(w.pending) : ToSet(w.pending[i].rows) \cap ToSet(buffer) = {}
    <3> SUFFICES ASSUME NEW i \in 1 .. Len(w.pending), NEW r \in ToSet(w.pending[i].rows)
                 PROVE  r \notin ToSet(buffer)
      OBVIOUS
    <3>1. In(r, p)
      BY <2>1 DEF In, Somewhere
    <3>2. r \in R
      BY <1>1, <3>1, HeldAre
    <3> QED BY <1>1, <3>1, <3>2 DEF RowsInv, BufferApart
  <2>5. \A r \in BagToSet(exporters[b].table) : exporters[b].table[r] <= MaxWriteAttempts
    <3>1. PICK T : T = p.table
      OBVIOUS
    <3>2. T \in [DOMAIN T -> 1 .. MaxWriteAttempts] /\ MaxWriteAttempts \in Nat
      BY <1>1, <3>1, StorageAssumption DEF Flows, PipelineTypeOK
    <3> QED BY <1>1, <3>1, <3>2 DEF BagToSet
  <2>6. dropped \in Nat
    BY DEF RowsInv, RowTypeOK
  <2>7. PICK away : away = IF b = "total_traffic" THEN 0 ELSE dropped
    OBVIOUS
  <2>8. Missing(b) # {} => away + w.report.retry_queue_dropped + w.report.permanently_dropped > 0
    BY <1>1, <2>1, <2>2, <2>6, <2>7 DEF Counted
  <2> QED BY <1>1, <2>1, <2>2, <2>3, <2>4, <2>5, <2>7, <2>8 DEF AccountedIn
<1>2. PICK p, t : p = exporters["detection_events"] /\ t = exporters["total_traffic"]
  OBVIOUS
<1>3. Flows(t, TotalRow, <<>>, 0) /\ Flows(p, EventRow, <<>>, 0)
  BY <1>2 DEF RowsInv, BothFlow
<1>4. /\ \A r : In(r, t) <=> r \in HeldBy(t.writer) \union BagToSet(t.table)
      /\ \A r : In(r, p) <=> r \in HeldBy(p.writer) \union BagToSet(p.table)
  BY <1>3, HeldOrStored DEF Flows, In
<1>5. offered \subseteq TotalRow \cup EventRow /\ ToSet(buffer) \subseteq EventRow /\ dropped \in Nat
  BY ToSetOf DEF RowsInv, RowTypeOK
<1>6. Counted(t) \in Nat /\ Counted(p) \in Nat
  BY <1>3 DEF Flows, PipelineTypeOK, WriterOf, Counted
<1>7. ASSUME Missing("total_traffic") # {} PROVE 0 + Counted(t) > 0
  <2>1. PICK r \in offered : "timestamp" \in DOMAIN r /\ ~In(r, t)
    BY <1>2, <1>4, <1>7 DEF Missing
  <2>2. r \in TotalRow
    BY <1>5, <2>1, RowsDiffer
  <2> QED BY <1>2, <1>6, <2>1, <2>2 DEF RowsInv, Known
<1>8. ASSUME Missing("detection_events") # {} PROVE dropped + Counted(p) > 0
  <2>1. PICK r \in offered : "key" \in DOMAIN r /\ r \notin ToSet(buffer) /\ ~In(r, p)
    BY <1>2, <1>4, <1>8 DEF Missing
  <2>2. r \in EventRow
    BY <1>5, <2>1, RowsDiffer
  <2> QED BY <1>2, <1>5, <1>6, <2>1, <2>2 DEF RowsInv, Known
<1>9. TotalRow \cap ToSet(buffer) = {}
  BY <1>5, RowsDiffer
<1>10. ASSUME NEW b \in Tables
       PROVE  AccountedIn(b)
  <2>1. CASE b = "total_traffic"
    BY <1>1, <1>2, <1>3, <1>7, <1>9, <2>1
  <2>2. CASE b = "detection_events"
    BY <1>1, <1>2, <1>3, <1>8, <2>2
  <2> QED BY <2>1, <2>2 DEF Tables
<1> QED BY <1>10 DEF RowsAccounted, AccountedIn

\* Every row handed to ClickHouse is buffered, batched, waiting for a retry or stored, or a
\* drop was counted; no row is in two batches, and none is sent more often than allowed.
THEOREM EveryRowIsAccounted == DeliverySpec => []RowsAccounted
<1>1. DeliveryInit => DeliveryInv /\ RowsInv
  BY DeliveryInitHolds, RowsInitHolds
<1>2. DeliveryInv /\ RowsInv /\ [DeliveryNext]_dvars => DeliveryInv' /\ RowsInv'
  BY DeliveryStep, RowsStep
<1>3. RowsInv => RowsAccounted
  BY RowsAccountedHolds
<1> QED BY <1>1, <1>2, <1>3, PTL DEF DeliverySpec
==============================================================================
