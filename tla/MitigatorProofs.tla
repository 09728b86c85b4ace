-------------------------- MODULE MitigatorProofs ---------------------------
(***************************************************************************)
(* What holds of Mitigator for any number of processes, mitigations and    *)
(* faults, and every guard file: it implements Mitigation, and what may be *)
(* in GoBGP's table.                                                       *)
(***************************************************************************)
EXTENDS Mitigator, MitigationProofs, FiniteSetTheorems

\* route.rs read_back undoes announcement: what GoBGP shows of a path gives
\* back the duplicate key of the mitigation that it was made from.
LEMMA ReadBack ==
    ASSUME NEW ask \in Asks
    PROVE  ReadBackKey(Announcement(ask)) = DuplicateKey(ask)
BY AsksAssumption
   DEF ReadBackKey, Announcement, DuplicateKey, Nlri, IsFlowspec, ValidAction, Kinds

\* What is announced is a path of its own NLRI.
LEMMA PathOfAsk ==
    ASSUME NEW ask \in Asks
    PROVE  /\ Announcement(ask) \in Paths /\ Nlri(ask) \in Nlris
           /\ Announcement(ask).nlri = Nlri(ask) /\ Announcement(ask) # None
BY MitigatorAssumption DEF Announcement, Paths, Nlris

\* The API's steps leave the connections of the mitigators alone.
LEMMA ApiLeavesWorkers ==
    ASSUME TypeOK, ApiNext
    PROVE  \A w \in Workers : pending'[w] = pending[w]
<1> SUFFICES ASSUME NEW w \in Workers PROVE pending'[w] = pending[w]
  OBVIOUS
<1>1. w \notin Sessions /\ w \in DOMAIN pending
  BY ActorsAssumption DEF TypeOK, PendingOK
<1>close. ASSUME NEW s \in Sessions, Close(s) PROVE pending'[w] = pending[w]
  BY <1>1, <1>close DEF Close
<1>2. ASSUME NEW s \in Sessions, NEW a \in Actors, NEW ask \in Asks, NEW key \in IdemKeys,
             Request(s, a, ask, key) \/ RequestRefused(s, a, ask, key)
      PROVE  pending'[w] = pending[w]
  BY <1>1, <1>2 DEF Request, RequestRefused
<1>3. ASSUME NEW s \in Sessions,
             \/ CreateReplay(s) \/ CreateDuplicate(s) \/ CreateKeyTaken(s)
             \/ ApproveCommit(s) \/ ApproveRollback(s) \/ \E m \in Ids : CreateInsert(s, m)
      PROVE  pending'[w] = pending[w]
  BY <1>close, <1>3
     DEF CreateReplay, CreateDuplicate, CreateKeyTaken, ApproveCommit, ApproveRollback, CreateInsert
<1>4. ASSUME NEW s \in Sessions, CreateLookup(s) PROVE pending'[w] = pending[w]
  BY <1>1, <1>4 DEF CreateLookup
<1>5. ASSUME NEW s \in Sessions, NEW a \in Actors, NEW m \in Ids,
             ApproveRead(s, a, m) \/ Reject(s, a, m) \/ Withdraw(s, a, m)
      PROVE  pending'[w] = pending[w]
  BY <1>1, <1>5 DEF ApproveRead, Reject, Withdraw
<1>6. ASSUME NEW cfg \in ApiConfigs, ApiRestart(cfg) PROVE pending'[w] = pending[w]
  BY <1>1, <1>6 DEF ApiRestart
<1>7. ASSUME NEW a \in Actors, NEW engaged \in BOOLEAN, SetKillSwitch(a, engaged)
      PROVE  pending'[w] = pending[w]
  BY <1>7 DEF SetKillSwitch
<1>8. ASSUME NEW m \in Ids, TimePasses(m) PROVE pending'[w] = pending[w]
  BY <1>8 DEF TimePasses
<1>9. ASSUME NEW x \in DOMAIN idem, IdemExpires(x[1], x[2]) PROVE pending'[w] = pending[w]
  BY <1>9 DEF IdemExpires
<1> QED BY <1>2, <1>3, <1>4, <1>5, <1>6, <1>7, <1>8, <1>9 DEF ApiNext

\* What a pass or a reconciliation reads is a set of items, of records that
\* are live at that moment.
LEMMA WorkIsItems ==
    ASSUME TypeOK
    PROVE  /\ Work \in SUBSET Items
           /\ \A i \in Work : i = Item(i.m) /\ Live(i.m)
<1> SUFFICES ASSUME NEW m \in Ids, Live(m)
             PROVE  Item(m) \in Items /\ Item(m) = Item(Item(m).m) /\ Live(Item(m).m)
  BY DEF Work
<1>1. rec[m] \in Records
  BY DEF TypeOK, TableOK
<1>2. Item(m).m = m
  BY DEF Item
<1> QED BY <1>1, <1>2 DEF Item, Items, Records, Live

\* A mitigation that exists keeps existing, with the ask it was created with.
LEMMA ExistsStays ==
    ASSUME TypeOK, [MNext]_mvars, NEW m \in Ids, Exists(m)
    PROVE  Exists(m)' /\ rec'[m].ask = rec[m].ask
<1>1. CASE UNCHANGED recVars
  BY <1>1 DEF recVars, Exists
<1>2. ASSUME NEW n \in Ids, Creates(n) PROVE Exists(m)' /\ rec'[m].ask = rec[m].ask
  BY <1>2 DEF Creates, Change, Exists, TypeOK, TableOK
<1>3. ASSUME NEW n \in Ids, Moves(n) PROVE Exists(m)' /\ rec'[m].ask = rec[m].ask
  <2>1. PICK to \in States, a \in People, new \in Records :
           Keeps(n, to, a, new) /\ Change(n, to, a, new)
    BY <1>3 DEF Moves
  <2>2. \A k \in Ids \ {n} : rec'[k] = rec[k]
    BY <2>1, Changed
  <2>3. rec'[n].state = to /\ rec'[n].ask = rec[n].ask
    BY <2>1, Changed DEF Keeps
  <2> QED BY <2>2, <2>3 DEF Exists, States
<1>4. ASSUME NEW n \in Ids, TimePasses(n) PROVE Exists(m)' /\ rec'[m].ask = rec[m].ask
  BY <1>4 DEF TimePasses, Exists, TypeOK, TableOK, Records
<1> QED BY <1>1, <1>2, <1>3, <1>4, Effects

\* A step on another connection leaves what is said of a process true.
LEMMA ProcStays ==
    ASSUME TypeOK, ProcTypeOK, [MNext]_mvars, NEW q \in Workers,
           proc'[q] = proc[q], pending'[q] = pending[q]
    PROVE  ProcOK(q)'
<1>1. \A i \in proc[q].work : i.m \in Ids
  BY DEF ProcTypeOK, Processes, Items
<1>2. \A m \in proc[q].missing : m \in Ids
  BY DEF ProcTypeOK, Processes
<1>3. \A m \in Ids : Exists(m) => Exists(m)'
  BY ExistsStays
<1> QED BY <1>1, <1>2, <1>3 DEF ProcOK, ProcTypeOK, Exists

\* Every step of the composed system is, for the store, one of its commands
\* or nothing at all: what the processes call is what MitigationStore offers.
LEMMA Simulates ==
    ASSUME TypeOK, ProcTypeOK, [Next]_vars
    PROVE  [MNext]_mvars
<1> DEFINE Goal == [MNext]_mvars
<1>ids. \A p \in Workers : \A i \in proc[p].work : i.m \in Ids
  BY DEF ProcTypeOK, Processes, Items
<1>cfg. \A p \in Workers : proc[p].pc # "down" => proc[p].cfg \in Configs
  BY DEF ProcTypeOK, ProcOK
<1>worker. WorkerNext => Goal
  BY DEF MNext
<1>1. CASE UNCHANGED vars \/ LockDrops \/ GobgpRestarts \/ \E path \in Paths : LateAdd(path)
  BY <1>1 DEF vars, LockDrops, GobgpRestarts, LateAdd
<1>2. CASE Operators
  BY <1>2 DEF Operators, MNext
<1>3. ASSUME NEW p \in Workers, TimerFires(p) PROVE Goal
  BY <1>3 DEF TimerFires
<1>lost. ASSUME NEW p \in Workers, Rollback(p) PROVE Goal
  BY <1>lost, <1>worker DEF Rollback, WorkerNext
<1>4. ASSUME NEW p \in Workers, Failures(p) PROVE Goal
  BY <1>4, <1>lost
     DEF Failures, ReconcileFails, AddFails, CleanupFails, DeleteFails, DatabaseFails, Crash
<1>5. ASSUME NEW p \in Workers, NEW i \in proc[p].work, Step(p, i) PROVE Goal
  <2>1. CASE StepExpire(p, i)
    BY <2>1, <1>ids, <1>worker DEF StepExpire, Refused, WorkerNext
  <2>2. CASE StepWithdrawApproved(p, i)
    BY <2>2, <1>ids, <1>worker DEF StepWithdrawApproved, Refused, WorkerNext
  <2>3. CASE StepBeginWithdrawal(p, i)
    BY <2>3, <1>ids, <1>worker DEF StepBeginWithdrawal, Refused, WorkerNext
  <2>4. CASE StepAnnounce(p, i)
    <3>1. proc[p].cfg \in Configs /\ EffectiveDryRun(proc[p].cfg) \in BOOLEAN
      BY <2>4, <1>cfg DEF StepAnnounce, At, EffectiveDryRun
    <3> QED BY <2>4, <3>1, <1>ids, <1>worker DEF StepAnnounce, WorkerNext
  <2>5. CASE Announcing(p, i) \/ AnnounceRefused(p, i)
    BY <2>5, <1>worker DEF Announcing, AnnounceRefused, WorkerNext
  <2>6. CASE EndActive(p, i)
    BY <2>6, <1>ids, <1>worker DEF EndActive, Refused, WorkerNext
  <2>7. CASE EndFailed(p, i)
    BY <2>7, <1>ids, <1>worker DEF EndFailed, Refused, WorkerNext
  <2>8. CASE EndWithdrawn(p, i)
    BY <2>8, <1>ids, <1>worker DEF EndWithdrawn, Refused, WorkerNext
  <2>9. CASE \/ StepResume(p, i) \/ StepTakeDown(p, i) \/ StepNothing(p, i)
             \/ Add(p, i) \/ Cleanup(p, i) \/ Delete(p, i)
    BY <2>9 DEF StepResume, StepTakeDown, StepNothing, Add, Cleanup, Delete
  <2> QED BY <1>5, <2>1, <2>2, <2>3, <2>4, <2>5, <2>6, <2>7, <2>8, <2>9 DEF Step
<1>6. ASSUME NEW p \in Workers,
             \/ \E cfg \in Configs : Start(p, cfg)
             \/ AcquireLock(p) \/ ReconcileBegin(p) \/ ReconcileList(p)
             \/ \E n \in Nlris : ReconcileWithdraw(p, n)
             \/ \E m \in Ids : ReconcileRestore(p, m)
             \/ ReconcileEnd(p) \/ PassBegin(p) \/ PassRead(p) \/ PassEnd(p)
             \/ \E c \in Incidents : ProposeSkip(p, c) \/ ProposeRefused(p, c)
             \/ ProposeEnd(p)
      PROVE  Goal
  BY <1>6 DEF Start, AcquireLock, ReconcileBegin, ReconcileList, ReconcileWithdraw,
              ReconcileRestore, ReconcileEnd, PassBegin, PassRead, PassEnd, ProposeSkip,
              ProposeRefused, ProposeEnd
<1>7. ASSUME NEW p \in Workers, NEW c \in Incidents, ProposeStart(p, c) PROVE Goal
  <2>1. proc[p].cfg \in Configs
    BY <1>7, <1>cfg DEF ProposeStart
  <2> QED BY <1>7, <2>1, <1>worker, MitigatorAssumption DEF ProposeStart, WorkerNext
<1>8. ASSUME NEW p \in Workers, Proposing(p) \/ ProposeNoRoom(p) PROVE Goal
  BY <1>8, <1>worker DEF Proposing, ProposeNoRoom, WorkerNext
<1>9. ASSUME NEW p \in Workers, ProcessNext(p) PROVE Goal
  BY <1>9, <1>5, <1>6, <1>7, <1>8 DEF ProcessNext
<1> QED BY <1>1, <1>2, <1>3, <1>4, <1>9 DEF Next

\* A process that steps.
Steps(p) ==
    /\ proc' \in [Workers -> Processes]
    /\ \A q \in Workers \ {p} : proc'[q] = proc[q] /\ pending'[q] = pending[q]

\* A step that gives process p another memory.
LEMMA StepTo ==
    ASSUME ProcTypeOK, NEW p \in Workers, NEW r \in Processes, proc' = [proc EXCEPT ![p] = r],
           \A q \in Workers \ {p} : pending'[q] = pending[q]
    PROVE  Steps(p) /\ proc'[p] = r
BY DEF ProcTypeOK, Steps

\* ... of the same file, with no more work than before, is well formed if it
\* is where its transaction says it is.
LEMMA StepOn ==
    ASSUME TypeOK, ProcTypeOK, [MNext]_mvars, NEW p \in Workers, NEW r \in Processes,
           proc' = [proc EXCEPT ![p] = r],
           \A q \in Workers \ {p} : pending'[q] = pending[q],
           proc[p].pc # "down", r.cfg = proc[p].cfg,
           r.work \subseteq proc[p].work, r.missing \subseteq proc[p].missing,
           pending'[p].op = "announce" <=> r.pc = "announce",
           pending'[p].op \in {"create", "insert"} <=> r.pc = "proposing"
    PROVE  Steps(p) /\ ProcOK(p)'
<1>1. Steps(p) /\ proc'[p] = r
  BY StepTo
<1>2. \A i \in proc[p].work : i.m \in Ids /\ Exists(i.m)'
  BY ExistsStays DEF ProcTypeOK, ProcOK, Processes, Items
<1>3. \A m \in proc[p].missing : m \in Ids /\ Exists(m)'
  BY ExistsStays DEF ProcTypeOK, ProcOK, Processes
<1>4. ProcOK(p)
  BY DEF ProcTypeOK
<1> QED BY <1>1, <1>2, <1>3, <1>4 DEF ProcOK, Exists

\* The two ways a step on an item ends: the process goes on to another place
\* with the same memory ...
LEMMA GotoOn ==
    ASSUME TypeOK, ProcTypeOK, [MNext]_mvars, NEW p \in Workers, NEW pc \in Pcs, Goto(p, pc),
           \A q \in Workers \ {p} : pending'[q] = pending[q],
           proc[p].pc # "down",
           pending'[p].op = "announce" <=> pc = "announce",
           pending'[p].op \in {"create", "insert"} <=> pc = "proposing"
    PROVE  Steps(p) /\ ProcOK(p)'
<1> DEFINE r == [proc[p] EXCEPT !.pc = pc]
<1>1. proc[p] \in Processes
  BY DEF ProcTypeOK
<1>2. r \in Processes /\ r.pc = pc /\ r.cfg = proc[p].cfg
      /\ r.work = proc[p].work /\ r.missing = proc[p].missing
  BY <1>1 DEF Processes
<1>3. proc' = [proc EXCEPT ![p] = r]
  BY DEF Goto
<1> HIDE DEF r
<1> QED BY <1>2, <1>3, StepOn

\* ... or is done with the item.
LEMMA DoneOn ==
    ASSUME TypeOK, ProcTypeOK, [MNext]_mvars, NEW p \in Workers, NEW i, Done(p, i),
           \A q \in Workers \ {p} : pending'[q] = pending[q],
           proc[p].pc # "down", pending'[p].op \notin {"announce", "create", "insert"}
    PROVE  Steps(p) /\ ProcOK(p)'
<1> DEFINE r == [proc[p] EXCEPT !.pc = "items", !.work = @ \ {i}]
<1>1. proc[p] \in Processes
  BY DEF ProcTypeOK
<1>2. r \in Processes /\ r.pc = "items" /\ r.cfg = proc[p].cfg
      /\ r.work \subseteq proc[p].work /\ r.missing = proc[p].missing
  BY <1>1 DEF Processes, Pcs
<1>3. proc' = [proc EXCEPT ![p] = r]
  BY DEF Done
<1> HIDE DEF r
<1> QED BY <1>2, <1>3, StepOn

\* The step of a process gives it another well-formed memory, and touches
\* the memory and the transaction of no other.
LEMMA ProcessSteps ==
    ASSUME TypeOK, ProcTypeOK, NEW p \in Workers, ProcessNext(p) \/ TimerFires(p) \/ Failures(p)
    PROVE  Steps(p) /\ ProcOK(p)'
<1> DEFINE Goal == Steps(p) /\ ProcOK(p)'
<1>types. /\ proc \in [Workers -> Processes] /\ ProcOK(p) /\ proc[p] \in Processes
          /\ pending \in [Sessions \cup Workers -> {Idle} \cup Creations \cup Approvals \cup Announcements]
  BY DEF ProcTypeOK, TypeOK, PendingOK
<1>p. /\ proc[p].pc \in Pcs /\ proc[p].cfg \in Maybe(Configs) /\ proc[p].timer \in BOOLEAN
      /\ proc[p].ks \in BOOLEAN /\ proc[p].work \in SUBSET Items /\ proc[p].stale \in SUBSET Nlris
      /\ proc[p].missing \in SUBSET Ids /\ proc[p].cands \in SUBSET Incidents
  BY <1>types DEF Processes
<1>down. Down \in Processes /\ Down.pc = "down" /\ Down.work = {} /\ Down.missing = {}
  BY DEF Down, Processes, Pcs, Maybe
<1>1. ASSUME NEW cfg \in Configs, Start(p, cfg) PROVE Goal
  <2> DEFINE r == [Down EXCEPT !.pc = "standby", !.cfg = cfg]
  <2>1. r \in Processes
    BY DEF Down, Processes, Pcs, Maybe
  <2>2. proc' = [proc EXCEPT ![p] = r] /\ UNCHANGED mvars
    BY <1>1 DEF Start
  <2>3. Steps(p) /\ proc'[p] = r
    BY <2>1, <2>2, StepTo DEF mvars
  <2>4. ProcOK(p)'
    BY <1>1, <1>types, <2>2, <2>3 DEF Start, Down, ProcOK, mvars
  <2> QED BY <2>3, <2>4
<1>2. CASE AcquireLock(p)
  <2> DEFINE r == [proc[p] EXCEPT !.pc = "loop", !.timer = TRUE]
  <2>1. r \in Processes
    BY <1>p, <1>types DEF Processes, Pcs
  <2>2. proc' = [proc EXCEPT ![p] = r] /\ UNCHANGED mvars
    BY <1>2 DEF AcquireLock
  <2>3. Steps(p) /\ proc'[p] = r
    BY <2>1, <2>2, StepTo DEF mvars
  <2>4. ProcOK(p)'
    BY <1>2, <2>2, <2>3, <1>types DEF AcquireLock, ProcOK, mvars, Exists
  <2> QED BY <2>3, <2>4
<1>3. CASE TimerFires(p)
  <2> DEFINE r == [proc[p] EXCEPT !.timer = TRUE]
  <2>1. r \in Processes
    BY <1>p, <1>types DEF Processes, Pcs
  <2>2. proc' = [proc EXCEPT ![p] = r] /\ UNCHANGED mvars
    BY <1>3 DEF TimerFires
  <2>3. Steps(p) /\ proc'[p] = r
    BY <2>1, <2>2, StepTo DEF mvars
  <2>4. ProcOK(p)'
    BY <1>3, <2>2, <2>3, <1>types DEF TimerFires, ProcOK, mvars, Exists
  <2> QED BY <2>3, <2>4
<1>4. CASE ReconcileBegin(p)
  <2> DEFINE r == [proc[p] EXCEPT !.pc = "list", !.work = Work]
  <2>1. r \in Processes
    BY WorkIsItems, <1>types DEF Processes, Pcs
  <2>2. proc' = [proc EXCEPT ![p] = r] /\ UNCHANGED mvars
    BY <1>4 DEF ReconcileBegin
  <2>3. Steps(p) /\ proc'[p] = r
    BY <2>1, <2>2, StepTo DEF mvars
  <2>4. ProcOK(p)'
    BY <1>4, <2>2, <2>3, <1>types, WorkIsItems DEF ReconcileBegin, ProcOK, mvars, Exists, Live
  <2> QED BY <2>3, <2>4
<1>5. CASE ReconcileList(p)
  <2> DEFINE owned == {n \in Nlris : rib[n] # None}
             stale == {n \in owned : ReadBackKey(rib[n]) \notin ClaimedKeys(proc[p].work)}
             lost == {j \in Claims(proc[p].work) :
                        j.state = "active" /\ Key(j.m) \notin {ReadBackKey(rib[n]) : n \in owned}}
             missing == {i.m : i \in lost}
             r == [proc[p] EXCEPT !.pc = "fix", !.work = {}, !.stale = stale, !.missing = missing]
  <2>0. stale \in SUBSET Nlris /\ \A m \in missing : m \in Ids /\ Exists(m)
    BY <1>p, <1>types DEF Claims, Items, ProcOK
  <2> HIDE DEF stale, missing
  <2>1. r \in Processes
    BY <2>0, <1>types DEF Processes, Pcs
  <2>2. proc' = [proc EXCEPT ![p] = r] /\ UNCHANGED mvars
    BY <1>5 DEF ReconcileList, stale, missing
  <2>3. Steps(p) /\ proc'[p] = r
    BY <2>1, <2>2, StepTo DEF mvars
  <2>4. r.pc = "fix" /\ r.cfg = proc[p].cfg /\ r.work = {} /\ r.missing = missing
    BY <1>types DEF Processes
  <2>5. proc[p].pc = "list" /\ rec' = rec /\ pending' = pending
    BY <1>5 DEF ReconcileList, mvars
  <2>6. ProcOK(p)'
    BY <1>types, <2>0, <2>3, <2>4, <2>5 DEF ProcOK, Exists
  <2> QED BY <2>3, <2>6
<1>6. ASSUME NEW n \in Nlris, ReconcileWithdraw(p, n) PROVE Goal
  <2> DEFINE r == [proc[p] EXCEPT !.stale = @ \ {n}]
  <2>1. r \in Processes
    BY <1>p, <1>types DEF Processes, Pcs
  <2>2. proc' = [proc EXCEPT ![p] = r] /\ UNCHANGED mvars
    BY <1>6 DEF ReconcileWithdraw
  <2>3. Steps(p) /\ proc'[p] = r
    BY <2>1, <2>2, StepTo DEF mvars
  <2>4. ProcOK(p)'
    BY <1>6, <2>2, <2>3, <1>types DEF ReconcileWithdraw, ProcOK, mvars, Exists
  <2> QED BY <2>3, <2>4
<1>7. ASSUME NEW m \in Ids, ReconcileRestore(p, m) PROVE Goal
  <2> DEFINE r == [proc[p] EXCEPT !.missing = @ \ {m}]
  <2>1. r \in Processes
    BY <1>p, <1>types DEF Processes, Pcs
  <2>2. proc' = [proc EXCEPT ![p] = r] /\ UNCHANGED mvars
    BY <1>7 DEF ReconcileRestore
  <2>3. Steps(p) /\ proc'[p] = r
    BY <2>1, <2>2, StepTo DEF mvars
  <2>4. ProcOK(p)'
    BY <1>7, <2>2, <2>3, <1>types DEF ReconcileRestore, ProcOK, mvars, Exists
  <2> QED BY <2>3, <2>4
<1>8. CASE ReconcileEnd(p) \/ ReconcileFails(p)
  <2> DEFINE r == [proc[p] EXCEPT !.pc = "pass", !.timer = FALSE, !.work = {}, !.stale = {},
                                 !.missing = {}]
  <2>1. r \in Processes
    BY <1>p, <1>types DEF Processes, Pcs
  <2>2. proc' = [proc EXCEPT ![p] = r] /\ UNCHANGED mvars
    BY <1>8 DEF ReconcileEnd, ReconcileFails, AfterReconcile
  <2>3. Steps(p) /\ proc'[p] = r
    BY <2>1, <2>2, StepTo DEF mvars
  <2>4. ProcOK(p)'
    BY <1>8, <2>2, <2>3, <1>types DEF ReconcileEnd, ReconcileFails, AfterReconcile, ProcOK, mvars, Exists
  <2> QED BY <2>3, <2>4
<1>9. CASE PassBegin(p)
  <2> DEFINE r == [proc[p] EXCEPT !.pc = "read", !.ks = kill.engaged \/ proc[p].cfg.kill_switch]
  <2>1. r \in Processes
    BY <1>p, <1>types DEF Processes, Pcs
  <2>2. proc' = [proc EXCEPT ![p] = r] /\ UNCHANGED mvars
    BY <1>9 DEF PassBegin
  <2>3. Steps(p) /\ proc'[p] = r
    BY <2>1, <2>2, StepTo DEF mvars
  <2>4. ProcOK(p)'
    BY <1>9, <2>2, <2>3, <1>types DEF PassBegin, ProcOK, mvars, Exists
  <2> QED BY <2>3, <2>4
<1>10. CASE PassRead(p)
  <2> DEFINE r == [proc[p] EXCEPT !.pc = "items", !.work = Work]
  <2>1. r \in Processes
    BY WorkIsItems, <1>types DEF Processes, Pcs
  <2>2. proc' = [proc EXCEPT ![p] = r] /\ UNCHANGED mvars
    BY <1>10 DEF PassRead
  <2>3. Steps(p) /\ proc'[p] = r
    BY <2>1, <2>2, StepTo DEF mvars
  <2>4. ProcOK(p)'
    BY <1>10, <2>2, <2>3, <1>types, WorkIsItems DEF PassRead, ProcOK, mvars, Exists, Live
  <2> QED BY <2>3, <2>4
<1>step. [MNext]_mvars
  <2>1. [Next]_vars
    BY DEF Next
  <2> QED BY <2>1, Simulates
<1>quiet. ASSUME pending' = pending, proc[p].pc \notin {"down", "announce", "proposing"}
          PROVE  /\ \A pc \in Pcs \ {"announce", "proposing"} : Goto(p, pc) => Goal
                 /\ \A i : Done(p, i) => Goal
  <2>1. pending'[p].op \notin {"announce", "create", "insert"}
    BY <1>quiet, <1>types DEF ProcOK
  <2>2. ASSUME NEW pc \in Pcs \ {"announce", "proposing"}, Goto(p, pc) PROVE Goal
    BY <2>1, <2>2, <1>quiet, <1>step, GotoOn
  <2>3. ASSUME NEW i, Done(p, i) PROVE Goal
    BY <2>1, <2>3, <1>quiet, <1>step, DoneOn
  <2> QED BY <2>2, <2>3
<1>closed. ASSUME Close(p), proc[p].pc # "down"
           PROVE  /\ \A pc \in Pcs \ {"announce", "proposing"} : Goto(p, pc) => Goal
                  /\ \A i : Done(p, i) => Goal
  <2>1. pending'[p].op = "idle" /\ \A q \in Workers \ {p} : pending'[q] = pending[q]
    BY <1>closed, <1>types DEF Close, Idle
  <2>2. ASSUME NEW pc \in Pcs \ {"announce", "proposing"}, Goto(p, pc) PROVE Goal
    BY <2>1, <2>2, <1>closed, <1>step, GotoOn
  <2>3. ASSUME NEW i, Done(p, i) PROVE Goal
    BY <2>1, <2>3, <1>closed, <1>step, DoneOn
  <2> QED BY <2>2, <2>3
<1>11. ASSUME NEW i \in proc[p].work, Step(p, i) PROVE Goal
  <2>1. CASE StepExpire(p, i) \/ StepWithdrawApproved(p, i)
    <3>1. pending' = pending /\ proc[p].pc = "items" /\ Done(p, i)
      BY <2>1 DEF StepExpire, StepWithdrawApproved, At, Refused, Expire, BeginWithdrawal, Execute, mvars
    <3> QED BY <3>1, <1>quiet
  <2>2. CASE StepBeginWithdrawal(p, i)
    <3>1. pending' = pending /\ proc[p].pc = "items" /\ (Done(p, i) \/ Goto(p, "del"))
      BY <2>2 DEF StepBeginWithdrawal, At, Refused, BeginWithdrawal, Execute, mvars
    <3> QED BY <3>1, <1>quiet DEF Pcs
  <2>3. CASE StepResume(p, i) \/ StepTakeDown(p, i) \/ StepNothing(p, i)
    <3>1. pending' = pending /\ proc[p].pc = "items"
          /\ (Done(p, i) \/ Goto(p, "del") \/ Goto(p, "resume") \/ Goto(p, "mark_active"))
      BY <2>3 DEF StepResume, StepTakeDown, StepNothing, At, mvars
    <3> QED BY <3>1, <1>quiet DEF Pcs
  <2>4. CASE StepAnnounce(p, i)
    <3>1. Goto(p, "announce") /\ proc[p].pc = "items" /\ AnnounceRead(p, i.m, proc[p].cfg, EffectiveDryRun(proc[p].cfg))
      BY <2>4 DEF StepAnnounce, At
    <3>2. pending'[p].op = "announce" /\ \A q \in Workers \ {p} : pending'[q] = pending[q]
      BY <3>1, <1>types DEF AnnounceRead
    <3> QED BY <3>1, <3>2, <1>step, GotoOn DEF Pcs
  <2>5. CASE Announcing(p, i) \/ AnnounceRefused(p, i)
    <3>1. Close(p) /\ proc[p].pc = "announce"
          /\ (Done(p, i) \/ Goto(p, "mark_failed") \/ Goto(p, "mark_active") \/ Goto(p, "add"))
      BY <2>5 DEF Announcing, AnnounceRefused, AnnounceCommit, AnnounceRollback, At
    <3> QED BY <3>1, <1>closed DEF Pcs
  <2>6. CASE Add(p, i) \/ Cleanup(p, i)
    <3>1. pending' = pending /\ proc[p].pc \in {"add", "resume", "cleanup"}
          /\ (Goto(p, "mark_failed") \/ Goto(p, "mark_active"))
      BY <2>6 DEF Add, Cleanup, At, mvars
    <3> QED BY <3>1, <1>quiet DEF Pcs
  <2>7. CASE EndActive(p, i) \/ EndFailed(p, i) \/ EndWithdrawn(p, i)
    <3>1. pending' = pending /\ proc[p].pc \in {"mark_active", "mark_failed", "mark_withdrawn"} /\ Done(p, i)
      BY <2>7 DEF EndActive, EndFailed, EndWithdrawn, At, Refused, MarkActive, MarkFailed, MarkWithdrawn, Execute, mvars
    <3> QED BY <3>1, <1>quiet
  <2>8. CASE Delete(p, i)
    <3>1. pending' = pending /\ proc[p].pc = "del" /\ (Done(p, i) \/ Goto(p, "mark_withdrawn"))
      BY <2>8 DEF Delete, At, mvars
    <3> QED BY <3>1, <1>quiet DEF Pcs
  <2> QED BY <1>11, <2>1, <2>2, <2>3, <2>4, <2>5, <2>6, <2>7, <2>8 DEF Step
<1>12. CASE PassEnd(p)
  <2>1. CASE Goto(p, "loop")
    BY <2>1, <1>12, <1>quiet DEF PassEnd, Pcs, mvars
  <2>2. CASE proc' = [proc EXCEPT ![p].pc = "propose", ![p].cands = Candidates]
    <3> DEFINE r == [proc[p] EXCEPT !.pc = "propose", !.cands = Candidates]
    <3>1. r \in Processes /\ r.pc = "propose" /\ r.cfg = proc[p].cfg
          /\ r.work = proc[p].work /\ r.missing = proc[p].missing
      BY <1>types DEF Processes, Candidates, Pcs
    <3>2. proc' = [proc EXCEPT ![p] = r]
      BY <2>2
    <3>3. pending' = pending /\ proc[p].pc = "items"
      BY <1>12 DEF PassEnd, mvars
    <3>4. pending'[p].op \notin {"announce", "create", "insert"}
      BY <3>3, <1>types DEF ProcOK
    <3> HIDE DEF r
    <3> QED BY <3>1, <3>2, <3>3, <3>4, <1>step, StepOn
  <2> QED BY <1>12, <2>1, <2>2 DEF PassEnd, Goto
<1>cands. ASSUME NEW pc \in Pcs, NEW left \in SUBSET proc[p].cands,
                 proc' = [proc EXCEPT ![p].pc = pc, ![p].cands = left],
                 proc[p].pc # "down", \A q \in Workers \ {p} : pending'[q] = pending[q],
                 pending'[p].op = "announce" <=> pc = "announce",
                 pending'[p].op \in {"create", "insert"} <=> pc = "proposing"
          PROVE  Goal
  <2> DEFINE r == [proc[p] EXCEPT !.pc = pc, !.cands = left]
  <2>1. r \in Processes /\ r.pc = pc /\ r.cfg = proc[p].cfg
        /\ r.work = proc[p].work /\ r.missing = proc[p].missing
    BY <1>types, <1>p DEF Processes
  <2>2. proc' = [proc EXCEPT ![p] = r]
    BY <1>cands
  <2> HIDE DEF r
  <2> QED BY <1>cands, <1>step, <2>1, <2>2, StepOn
<1>13. ASSUME NEW c \in Incidents, ProposeSkip(p, c) PROVE Goal
  <2>1. /\ proc' = [proc EXCEPT ![p].pc = "propose", ![p].cands = proc[p].cands \ {c}]
        /\ pending' = pending /\ proc[p].pc = "propose"
    BY <1>13, <1>types DEF ProposeSkip, mvars, Processes
  <2>2. pending'[p].op \notin {"announce", "create", "insert"}
    BY <2>1, <1>types DEF ProcOK
  <2>3. "propose" \in Pcs /\ proc[p].cands \ {c} \in SUBSET proc[p].cands
    BY DEF Pcs
  <2> QED BY <2>1, <2>2, <2>3, <1>cands
<1>14. ASSUME NEW c \in Incidents, ProposeRefused(p, c) PROVE Goal
  <2>1. /\ proc' = [proc EXCEPT ![p].pc = "loop", ![p].cands = {}]
        /\ pending' = pending /\ proc[p].pc = "propose"
    BY <1>14 DEF ProposeRefused, mvars
  <2>2. pending'[p].op \notin {"announce", "create", "insert"}
    BY <2>1, <1>types DEF ProcOK
  <2>3. "loop" \in Pcs /\ {} \in SUBSET proc[p].cands
    BY DEF Pcs
  <2> QED BY <2>1, <2>2, <2>3, <1>cands
<1>15. ASSUME NEW c \in Incidents, ProposeStart(p, c) PROVE Goal
  <2>1. /\ proc' = [proc EXCEPT ![p].pc = "proposing", ![p].cands = proc[p].cands \ {c}]
        /\ proc[p].pc = "propose"
        /\ Propose(p, proc[p].cfg, CandidateOf[c].tenant, CandidateOf[c].ask, c)
    BY <1>15 DEF ProposeStart
  <2>2. pending'[p].op = "create" /\ \A q \in Workers \ {p} : pending'[q] = pending[q]
    BY <2>1, <1>types DEF Propose, Creation
  <2>3. "proposing" \in Pcs /\ proc[p].cands \ {c} \in SUBSET proc[p].cands
    BY DEF Pcs
  <2> QED BY <2>1, <2>2, <2>3, <1>cands
<1>16. CASE Proposing(p) \/ ProposeNoRoom(p)
  <2>1. CASE CreateLookup(p) /\ UNCHANGED proc
    <3>1. pending[p] \in Creations
      BY <2>1, <1>types DEF CreateLookup, Idle, Approvals, Announcements
    <3>2. pending'[p].op = "insert" /\ \A q \in Workers \ {p} : pending'[q] = pending[q]
      BY <2>1, <3>1, <1>types DEF CreateLookup, Creations
    <3>3. proc[p].pc = "proposing"
      BY <1>16 DEF Proposing, ProposeNoRoom
    <3>4. proc' = [proc EXCEPT ![p] = proc[p]]
      BY <2>1, <1>types
    <3> QED BY <3>2, <3>3, <3>4, <1>types, <1>step, StepOn
  <2>2. CASE Close(p) /\ Goto(p, "propose")
    BY <2>2, <1>16, <1>closed DEF Proposing, ProposeNoRoom, Pcs
  <2> QED BY <1>16, <2>1, <2>2
          DEF Proposing, ProposeNoRoom, CreateDuplicate, CreateInsert, WorkerLost
<1>17. CASE ProposeEnd(p)
  BY <1>17, <1>quiet DEF ProposeEnd, Pcs, mvars
<1>18. ASSUME NEW i \in proc[p].work, AddFails(p, i) \/ CleanupFails(p, i) \/ DeleteFails(p, i)
       PROVE  Goal
  <2>1. /\ pending' = pending /\ proc[p].pc \in {"add", "resume", "cleanup", "del"}
        /\ Done(p, i) \/ Goto(p, "cleanup") \/ Goto(p, "mark_failed")
    BY <1>18 DEF AddFails, CleanupFails, DeleteFails, At, mvars
  <2> QED BY <2>1, <1>quiet DEF Pcs
<1>rolled. ASSUME Rollback(p)
           PROVE  pending'[p].op = "idle" /\ \A q \in Workers \ {p} : pending'[q] = pending[q]
  BY <1>rolled, <1>types DEF Rollback, WorkerLost, Close, Idle, mvars
<1>19. CASE DatabaseFails(p)
  <2>1. Rollback(p) /\ proc[p].pc # "down"
    BY <1>19 DEF DatabaseFails
  <2>2. ASSUME NEW i, Done(p, i) PROVE Goal
    BY <2>1, <2>2, <1>rolled, <1>step, DoneOn
  <2>3. CASE proc' = [proc EXCEPT ![p].pc = "loop", ![p].work = {}, ![p].cands = {}]
    <3> DEFINE r == [proc[p] EXCEPT !.pc = "loop", !.work = {}, !.cands = {}]
    <3>1. r \in Processes /\ r.pc = "loop" /\ r.cfg = proc[p].cfg
          /\ r.work = {} /\ r.missing = proc[p].missing
      BY <1>types DEF Processes, Pcs
    <3>2. proc' = [proc EXCEPT ![p] = r]
      BY <2>3
    <3> HIDE DEF r
    <3> QED BY <2>1, <3>1, <3>2, <1>rolled, <1>step, StepOn
  <2> QED BY <1>19, <2>2, <2>3 DEF DatabaseFails
<1>20. CASE Crash(p)
  <2>1. proc' = [proc EXCEPT ![p] = Down] /\ Rollback(p)
    BY <1>20 DEF Crash
  <2>2. Steps(p) /\ proc'[p] = Down
    BY <2>1, <1>down, <1>rolled, StepTo
  <2> QED BY <2>1, <2>2, <1>down, <1>rolled DEF ProcOK
<1> QED BY <1>1, <1>2, <1>3, <1>4, <1>5, <1>6, <1>7, <1>8, <1>9, <1>10, <1>11, <1>12, <1>13, <1>14,
           <1>15, <1>16, <1>17, <1>18, <1>19, <1>20 DEF ProcessNext, Failures
----------------------------------------------------------------------------
(* What a step does to GoBGP's table. *)

\* What process p may be withdrawing, and what it may be announcing.
Deletes(p, n) ==
    \/ n \in proc[p].stale
    \/ \E i \in proc[p].work :
          /\ At(p, "cleanup", i) \/ (At(p, "del", i) /\ i.dry = FALSE)
          /\ n = Nlri(rec[i.m].ask)

Announces(p, m) ==
    \/ m \in proc[p].missing
    \/ \E i \in proc[p].work : (At(p, "add", i) \/ At(p, "resume", i)) /\ m = i.m

\* The answer of an AddPath arrived, or it did not and that is a fault.
AddsPath(ask) == AddPath(ask) \/ (Fault /\ AddPathFails(ask))

\* The table changes only when gobgpd restarts, a late AddPath takes effect,
\* or a process withdraws or announces what it works on, and the store does
\* not change in that step.
LEMMA TableSteps ==
    ASSUME TypeOK, ProcTypeOK, [Next]_vars
    PROVE  \/ UNCHANGED gvars
           \/ GobgpRestarts
           \/ \E path \in Paths : LateAdd(path)
           \/ /\ UNCHANGED mvars
              /\ \E p \in Workers :
                    \/ \E n \in Nlris : Deletes(p, n) /\ DeletePath(n)
                    \/ \E m \in Ids : Exists(m) /\ Announces(p, m) /\ AddsPath(rec[m].ask)
<1> DEFINE Touches(p) ==
               \/ \E n \in Nlris : Deletes(p, n) /\ DeletePath(n)
               \/ \E m \in Ids : Exists(m) /\ Announces(p, m) /\ AddsPath(rec[m].ask)
           Goal(p) == UNCHANGED gvars \/ (UNCHANGED mvars /\ Touches(p))
<1>asks. \A m \in Ids : Exists(m) => Nlri(rec[m].ask) \in Nlris
  BY PathOfAsk DEF TypeOK, TableOK, Shape, Exists
<1>work. \A p \in Workers :
            /\ \A i \in proc[p].work : i.m \in Ids /\ Exists(i.m)
            /\ \A m \in proc[p].missing : m \in Ids /\ Exists(m)
            /\ proc[p].stale \subseteq Nlris
  BY DEF ProcTypeOK, ProcOK, Processes, Items
<1>1. CASE UNCHANGED vars \/ Operators \/ LockDrops
  BY <1>1 DEF vars, svars, Operators, LockDrops, gvars
<1>2. ASSUME NEW p \in Workers, TimerFires(p) PROVE UNCHANGED gvars
  BY <1>2 DEF TimerFires
<1>3. ASSUME NEW p \in Workers, NEW n \in Nlris, ReconcileWithdraw(p, n) PROVE Goal(p)
  BY <1>3 DEF ReconcileWithdraw, Deletes
<1>4. ASSUME NEW p \in Workers, NEW m \in Ids, ReconcileRestore(p, m) PROVE Goal(p)
  BY <1>4, <1>work DEF ReconcileRestore, Announces, AddsPath
<1>5. ASSUME NEW p \in Workers, ReconcileFails(p) PROVE Goal(p)
  <2>1. UNCHANGED mvars
    BY <1>5 DEF ReconcileFails
  <2>2. CASE \E n \in proc[p].stale : DeletePathFails(n)
    BY <2>1, <2>2, <1>work DEF DeletePathFails, Deletes
  <2>3. CASE \E m \in proc[p].missing : AddPathFails(rec[m].ask)
    BY <2>1, <2>3, <1>5, <1>work DEF Announces, AddsPath, ReconcileFails
  <2> QED BY <1>5, <2>2, <2>3 DEF ReconcileFails
<1>6. ASSUME NEW p \in Workers, NEW i \in proc[p].work, Step(p, i) PROVE Goal(p)
  <2>1. CASE Add(p, i)
    BY <2>1, <1>work DEF Add, Announces, AddsPath
  <2>2. CASE Cleanup(p, i)
    <3>1. i.m \in Ids /\ Nlri(rec[i.m].ask) \in Nlris
      BY <1>work, <1>asks
    <3> QED BY <2>2, <3>1 DEF Cleanup, Deletes
  <2>3. CASE Delete(p, i)
    BY <2>3, <1>work, <1>asks DEF Delete, Deletes
  <2> QED BY <1>6, <2>1, <2>2, <2>3
          DEF Step, StepExpire, StepWithdrawApproved, StepBeginWithdrawal, StepResume, StepTakeDown,
              StepNothing, StepAnnounce, Announcing, AnnounceRefused, EndActive, EndFailed,
              EndWithdrawn
<1>7. ASSUME NEW p \in Workers, NEW i \in proc[p].work,
             AddFails(p, i) \/ CleanupFails(p, i) \/ DeleteFails(p, i)
      PROVE  Goal(p)
  <2>1. CASE AddFails(p, i)
    BY <2>1, <1>work DEF AddFails, Announces, AddsPath
  <2>2. CASE CleanupFails(p, i)
    BY <2>2 DEF CleanupFails
  <2>3. CASE DeleteFails(p, i)
    BY <2>3, <1>work, <1>asks DEF DeleteFails, DeletePathFails, Deletes
  <2> QED BY <1>7, <2>1, <2>2, <2>3
<1>8. ASSUME NEW p \in Workers, ProcessNext(p) PROVE Goal(p)
  BY <1>8, <1>3, <1>4, <1>6
     DEF ProcessNext, Start, AcquireLock, ReconcileBegin, ReconcileList, ReconcileEnd, PassBegin,
         PassRead, PassEnd, ProposeSkip, ProposeStart, ProposeRefused, Proposing, ProposeNoRoom,
         ProposeEnd
<1>9. ASSUME NEW p \in Workers, Failures(p) PROVE Goal(p)
  BY <1>9, <1>5, <1>7 DEF Failures, DatabaseFails, Crash
<1> QED BY <1>1, <1>2, <1>8, <1>9 DEF Next

\* The lock is held by a process or by none, and faults are counted.
LEMMA FaultsCount ==
    ASSUME [Next]_vars
    PROVE  lock' \in {lock, None} \cup Workers /\ (Fault \/ faults' = faults)
<1> DEFINE Same == lock' \in {lock, None} \cup Workers /\ (Fault \/ faults' = faults)
<1>1. ASSUME NEW p \in Workers, NEW i \in proc[p].work, Step(p, i) PROVE Same
  BY <1>1 DEF Step, StepExpire, StepWithdrawApproved, StepBeginWithdrawal, StepResume, StepTakeDown,
              StepNothing, StepAnnounce, Announcing, AnnounceRefused, Add, Cleanup, EndActive,
              EndFailed, Delete, EndWithdrawn
<1>2. ASSUME NEW p \in Workers, ProcessNext(p) PROVE Same
  BY <1>1, <1>2
     DEF ProcessNext, Start, AcquireLock, ReconcileBegin, ReconcileList, ReconcileWithdraw,
         ReconcileRestore, ReconcileEnd, PassBegin, PassRead, PassEnd, ProposeSkip,
         ProposeStart, ProposeRefused, Proposing, ProposeNoRoom, ProposeEnd
<1>3. ASSUME NEW p \in Workers, Failures(p) PROVE Same
  BY <1>3 DEF Failures, ReconcileFails, AddFails, CleanupFails, DeleteFails, DatabaseFails, Crash
<1> QED BY <1>2, <1>3 DEF Next, vars, svars, Operators, TimerFires, LockDrops, GobgpRestarts, LateAdd

\* Every step keeps the types of the processes, the lock and the table.
LEMMA ProcTypeStep ==
    ASSUME TypeOK, ProcTypeOK, [Next]_vars
    PROVE  ProcTypeOK'
<1>asks. \A m \in Ids : Exists(m) => rec[m].ask \in Asks
  BY DEF TypeOK, TableOK, Shape, Exists
<1>1. proc' \in [Workers -> Processes] /\ \A q \in Workers : ProcOK(q)'
  <2>1. CASE \E p \in Workers : ProcessNext(p) \/ TimerFires(p) \/ Failures(p)
    BY <2>1, ProcessSteps, ProcStays, Simulates DEF Steps
  <2>2. CASE proc' = proc /\ \A q \in Workers : pending'[q] = pending[q]
    BY <2>2, ProcStays, Simulates DEF ProcTypeOK
  <2>3. CASE Operators
    BY <2>2, <2>3, ApiLeavesWorkers DEF Operators, svars
  <2>4. CASE UNCHANGED vars \/ LockDrops \/ GobgpRestarts \/ \E path \in Paths : LateAdd(path)
    BY <2>2, <2>4 DEF vars, svars, mvars, LockDrops, GobgpRestarts, LateAdd
  <2> QED BY <2>1, <2>3, <2>4 DEF Next
<1> DEFINE Table == /\ rib \in [Nlris -> Maybe(Paths)] /\ late \in SUBSET Paths
                    /\ \A n \in Nlris : rib[n] # None => rib[n].nlri = n
<1>2. Table'
  <2> USE DEF ProcTypeOK, Maybe
  <2>1. CASE UNCHANGED gvars
    BY <2>1 DEF gvars
  <2>2. CASE GobgpRestarts
    BY <2>2 DEF GobgpRestarts
  <2>3. ASSUME NEW path \in Paths, LateAdd(path) PROVE Table'
    BY <2>3, PathOfAsk DEF LateAdd, Paths
  <2>4. ASSUME NEW n \in Nlris, DeletePath(n) PROVE Table'
    BY <2>4 DEF DeletePath
  <2>5. ASSUME NEW m \in Ids, Exists(m), AddPathFails(rec[m].ask) PROVE Table'
    BY <2>5, <1>asks, PathOfAsk DEF AddPathFails, AddPath, gvars
  <2> QED BY <2>1, <2>2, <2>3, <2>4, <2>5, TableSteps DEF AddsPath, AddPathFails
<1>3. lock' \in Maybe(Workers) /\ faults' \in 0 .. MaxFaults
  BY FaultsCount, MitigatorAssumption DEF ProcTypeOK, Maybe, Fault
<1> QED BY <1>1, <1>2, <1>3 DEF ProcTypeOK

\* The types of the store, of the processes and of the table, and what a
\* process's place in its loop says of its transaction and its work.
THEOREM ProcTypeCorrect == Spec => [](TypeOK /\ ProcTypeOK)
<1>1. Init => TypeOK /\ ProcTypeOK
  <2> SUFFICES ASSUME Init PROVE TypeOK /\ ProcTypeOK
    OBVIOUS
  <2>1. TypeOK
    BY TypeInit DEF Init
  <2>2. Down \in Processes
    BY DEF Down, Processes, Pcs, Maybe
  <2>3. \A p \in Workers : ProcOK(p)
    BY DEF Init, MInit, Idle, ProcOK, Down
  <2> QED BY <2>1, <2>2, <2>3, MitigatorAssumption DEF Init, ProcTypeOK, Maybe
<1>2. TypeOK /\ ProcTypeOK /\ [Next]_vars => (TypeOK /\ ProcTypeOK)'
  BY Simulates, TypeStep, ProcTypeStep
<1> QED BY <1>1, <1>2, PTL DEF Spec

\* The mitigators and the API together implement the store: whatever the
\* processes, GoBGP and their failures do, mitigations change only by the
\* commands of MitigationStore.
THEOREM MitigatorImplementsStore == Spec => MSpec
<1>1. Init => MInit
  BY DEF Init
<1>2. TypeOK /\ ProcTypeOK /\ [Next]_vars => [MNext]_mvars
  BY Simulates
<1> QED BY <1>1, <1>2, ProcTypeCorrect, PTL DEF Spec, MSpec

\* What is proved of the store holds of the whole system: four eyes, one
\* history that is the record's past, one live mitigation per action, one
\* mitigation per keyed request, and columns that are written once.
COROLLARY StorePromises ==
    Spec => [](FourEyes /\ HistoryIsTheRecord /\ OneLivePerKey /\ KeyedOnce) /\ WrittenOnce
BY MitigatorImplementsStore, FourEyesHolds, HistoryIsTheRecordHolds, OneLivePerKeyHolds,
   KeyedOnceHolds, WrittenOnceHolds, PTL
----------------------------------------------------------------------------
(* How a process moves through its loop. *)

\* The places of a process that is in the middle of an item.
AtItem == {"announce", "add", "resume", "cleanup", "mark_active", "mark_failed", "del",
           "mark_withdrawn"}

\* It is at no item afterwards, has no more on its hands than before, and
\* a list it is through with is empty.
Leaves(p) ==
    /\ proc'[p].pc \notin AtItem \cup {"list"}
    /\ proc'[p].work \subseteq proc[p].work
    /\ proc'[p].work = {} \/ proc'[p].pc = "items" \/ proc[p].pc \notin AtItem \cup {"list", "items"}
    /\ proc'[p].pc = "fix" => proc[p].pc = "fix"
    /\ proc'[p].missing \subseteq proc[p].missing /\ proc'[p].stale \subseteq proc[p].stale
    /\ (proc'[p].missing = {} /\ proc'[p].stale = {}) \/ proc'[p].pc = "fix" \/ proc[p].pc # "fix"

\* It goes on with item i.
Goes(p, i) ==
    \/ /\ StepBeginWithdrawal(p, i) /\ Goto(p, "del")
       /\ \E cause \in Causes : BeginWithdrawal(p, i.m, cause)
    \/ StepTakeDown(p, i)
    \/ StepResume(p, i) /\ Goto(p, IF i.dry = FALSE THEN "resume" ELSE "mark_active")
    \/ StepAnnounce(p, i)
    \/ Announcing(p, i)
    \/ AnnounceRefused(p, i) /\ Goto(p, "mark_failed")
    \/ Add(p, i)
    \/ AddFails(p, i) /\ Goto(p, "cleanup")
    \/ Cleanup(p, i) \/ CleanupFails(p, i)
    \/ Delete(p, i) /\ Goto(p, "mark_withdrawn")

\* Every step of a process leaves its item, goes on with it, reads a new work
\* list, compares one with GoBGP, or only notes that the timer fired.
LEMMA ProcessMoves ==
    ASSUME TypeOK, ProcTypeOK, NEW p \in Workers, ProcessNext(p) \/ TimerFires(p) \/ Failures(p)
    PROVE  \/ Leaves(p)
           \/ TimerFires(p) \/ ReconcileBegin(p) \/ ReconcileList(p) \/ PassRead(p)
           \/ \E i \in proc[p].work : Goes(p, i)
<1>types. proc \in [Workers -> Processes] /\ proc[p] \in Processes
  BY DEF ProcTypeOK
<1> DEFINE Goal == Leaves(p) \/ \E i \in proc[p].work : Goes(p, i)
<1>done. ASSUME NEW i, proc[p].pc # "fix", Done(p, i) PROVE Leaves(p)
  BY <1>done, <1>types DEF Done, Leaves, AtItem, Processes
<1>goto. ASSUME proc[p].pc \in {"propose", "proposing"},
                NEW pc \in {"propose", "loop"}, Goto(p, pc)
         PROVE  Leaves(p)
  BY <1>goto, <1>types DEF Goto, Leaves, AtItem, Processes
<1>1. ASSUME NEW cfg \in Configs, Start(p, cfg) PROVE Goal
  BY <1>1, <1>types DEF Start, Down, Leaves, AtItem
<1>2. CASE AcquireLock(p) \/ PassBegin(p)
  BY <1>2, <1>types DEF AcquireLock, PassBegin, Leaves, AtItem, Processes
<1>3. ASSUME NEW n \in Nlris, ReconcileWithdraw(p, n) PROVE Goal
  BY <1>3, <1>types DEF ReconcileWithdraw, Leaves, AtItem, Processes
<1>4. ASSUME NEW m \in Ids, ReconcileRestore(p, m) PROVE Goal
  BY <1>4, <1>types DEF ReconcileRestore, Leaves, AtItem, Processes
<1>5. CASE ReconcileEnd(p) \/ ReconcileFails(p)
  BY <1>5, <1>types DEF ReconcileEnd, ReconcileFails, AfterReconcile, Leaves, AtItem, Processes
<1>6. ASSUME NEW i \in proc[p].work, Step(p, i) PROVE Goal
  <2>1. CASE StepBeginWithdrawal(p, i)
    <3>1. CASE Done(p, i)
      BY <2>1, <3>1, <1>done DEF StepBeginWithdrawal, At
    <3> QED BY <2>1, <3>1 DEF StepBeginWithdrawal, Refused, Goes, Causes
  <2>2. CASE StepResume(p, i)
    BY <2>2, <1>done DEF StepResume, Goes, At
  <2>3. CASE AnnounceRefused(p, i) \/ Delete(p, i)
    BY <2>3, <1>done DEF AnnounceRefused, Delete, Goes, At
  <2>4. CASE \/ StepExpire(p, i) \/ StepWithdrawApproved(p, i) \/ StepNothing(p, i)
             \/ EndActive(p, i) \/ EndFailed(p, i) \/ EndWithdrawn(p, i)
    BY <2>4, <1>done DEF StepExpire, StepWithdrawApproved, StepNothing, EndActive, EndFailed,
                         EndWithdrawn, Refused, At
  <2> QED BY <1>6, <2>1, <2>2, <2>3, <2>4 DEF Step, Goes
<1>7. CASE PassEnd(p)
  BY <1>7, <1>types DEF PassEnd, Leaves, AtItem, Processes
<1>8. ASSUME NEW c \in Incidents, ProposeSkip(p, c) \/ ProposeStart(p, c) \/ ProposeRefused(p, c)
      PROVE  Goal
  BY <1>8, <1>types DEF ProposeSkip, ProposeStart, ProposeRefused, Leaves, AtItem, Processes
<1>9. CASE Proposing(p) \/ ProposeNoRoom(p) \/ ProposeEnd(p)
  <2>1. proc[p].pc \in {"propose", "proposing"}
        /\ (proc' = proc \/ Goto(p, "propose") \/ Goto(p, "loop"))
    BY <1>9 DEF Proposing, ProposeNoRoom, ProposeEnd
  <2>2. CASE proc' = proc
    BY <2>1, <2>2 DEF Leaves, AtItem
  <2> QED BY <2>1, <2>2, <1>goto
<1>10. ASSUME NEW i \in proc[p].work, AddFails(p, i) \/ CleanupFails(p, i) \/ DeleteFails(p, i)
       PROVE  Goal
  BY <1>10, <1>done DEF AddFails, DeleteFails, Goes, At
<1>11. CASE DatabaseFails(p)
  <2>1. CASE proc' = [proc EXCEPT ![p].pc = "loop", ![p].work = {}, ![p].cands = {}]
    BY <1>11, <2>1, <1>types DEF DatabaseFails, Leaves, AtItem, Processes
  <2> QED BY <1>11, <2>1, <1>done DEF DatabaseFails
<1>12. CASE Crash(p)
  BY <1>12, <1>types DEF Crash, Down, Leaves, AtItem
<1> QED BY <1>1, <1>2, <1>3, <1>4, <1>5, <1>6, <1>7, <1>8, <1>9, <1>10, <1>11, <1>12
        DEF ProcessNext, Failures

----------------------------------------------------------------------------
(* Every route is that of an approved mitigation.                          *)

\* m's route is path, and somebody approved it.
IsApproved(path) == \E m \in Ids : IsRouteOf(path, m) /\ rec[m].approved_by \in Actors

\* What a process remembers of dry-run is what the record says, and what it
\* is about to announce was announced live.
Grounded(p) ==
    /\ \A i \in proc[p].work : i.dry # None => rec[i.m].dry_run = i.dry
    /\ \A m \in proc[p].missing : rec[m].dry_run = FALSE
    /\ proc[p].pc = "announce" =>
          /\ pending[p].dry = EffectiveDryRun(proc[p].cfg)
          /\ \A i \in proc[p].work : Current(p, i) => i.m = pending[p].m
    /\ proc[p].pc \in {"add", "resume"} =>
          \A i \in proc[p].work : Current(p, i) => rec[i.m].dry_run = FALSE

\* The strengthening of RouteIsApproved.
RoutesGrounded ==
    /\ \A m \in Ids : rec[m].dry_run # None => rec[m].approved_by \in Actors
    /\ \A p \in Workers : Grounded(p)
    /\ \A n \in Nlris : rib[n] # None => IsApproved(rib[n])
    /\ \A path \in late : IsApproved(path)

\* Whose route a path is does not change, nor that it was approved.
LEMMA ApprovedStays ==
    ASSUME TypeOK, [MNext]_mvars, NEW path, IsApproved(path)
    PROVE  IsApproved(path)'
<1>1. PICK m \in Ids : IsRouteOf(path, m) /\ rec[m].approved_by \in Actors
  BY DEF IsApproved
<1>2. Exists(m)' /\ rec'[m].ask = rec[m].ask
  BY <1>1, ExistsStays DEF IsRouteOf
<1>3. rec'[m].dry_run = rec[m].dry_run /\ rec'[m].approved_by = rec[m].approved_by
  BY <1>1, FixedStep, NoneAssumption, ActorsAssumption DEF FixedOnceSet, IsRouteOf
<1>4. IsRouteOf(path, m)' /\ rec'[m].approved_by \in Actors
  BY <1>1, <1>2, <1>3 DEF IsRouteOf, Key, Exists
<1> QED BY <1>4 DEF IsApproved

\* The route of a mitigation that was announced live is an approved one.
LEMMA LiveIsApproved ==
    ASSUME TypeOK, NEW m \in Ids, rec[m].dry_run = FALSE, rec[m].approved_by \in Actors
    PROVE  IsApproved(Announcement(rec[m].ask))
<1>1. Exists(m) /\ rec[m].ask \in Asks
  <2>1. FALSE # None
    BY NoneAssumption
  <2>2. Shape(rec[m])
    BY DEF TypeOK, TableOK
  <2>3. rec[m].dry_run # None /\ Absent.dry_run = None
    BY <2>1 DEF Absent
  <2> QED BY <2>2, <2>3 DEF Shape, Exists
<1>2. ReadBackKey(Announcement(rec[m].ask)) = Key(m)
  BY <1>1, ReadBack DEF Key
<1> QED BY <1>1, <1>2 DEF IsApproved, IsRouteOf

\* What is known of dry-run stays true of a process that has no more work
\* than it had.
LEMMA GroundedStays ==
    ASSUME TypeOK, ProcTypeOK, [MNext]_mvars, NEW p \in Workers, Grounded(p),
           proc'[p].work \subseteq proc[p].work, proc'[p].missing \subseteq proc[p].missing
    PROVE  /\ \A i \in proc'[p].work : i.dry # None => rec'[i.m].dry_run = i.dry
           /\ \A m \in proc'[p].missing : rec'[m].dry_run = FALSE
<1>1. \A i \in proc[p].work : i.m \in Ids
  BY DEF ProcTypeOK, Processes, Items
<1>2. \A m \in proc[p].missing : m \in Ids
  BY DEF ProcTypeOK, Processes
<1>3. \A m \in Ids : rec[m].dry_run # None => rec'[m].dry_run = rec[m].dry_run
  BY FixedStep DEF FixedOnceSet
<1>4. FALSE # None
  BY NoneAssumption
<1> QED BY <1>1, <1>2, <1>3, <1>4 DEF Grounded

\* A process's own step keeps what it knows of dry-run: it goes to announce
\* only what begin_announcing, or the record it read, says was sent live.
LEMMA GroundedStep ==
    ASSUME TypeOK, ProcTypeOK, NEW p \in Workers, Grounded(p),
           ProcessNext(p) \/ TimerFires(p) \/ Failures(p)
    PROVE  Grounded(p)'
<1>step. [MNext]_mvars
  BY Simulates DEF Next
<1>types. proc \in [Workers -> Processes] /\ proc[p] \in Processes
  BY DEF ProcTypeOK
<1>ids. \A i \in proc[p].work : i.m \in Ids
  BY <1>types DEF Processes, Items
<1>1. CASE Leaves(p)
  BY <1>1, <1>step, GroundedStays DEF Leaves, AtItem, Grounded
<1>2. CASE TimerFires(p)
  <2>1. /\ proc'[p].work = proc[p].work /\ proc'[p].missing = proc[p].missing
        /\ proc'[p].pc = proc[p].pc /\ proc'[p].cfg = proc[p].cfg
        /\ rec' = rec /\ pending' = pending
    BY <1>2, <1>types DEF TimerFires, Processes, mvars
  <2> QED BY <2>1 DEF Grounded, Current
<1>3. CASE ReconcileBegin(p) \/ PassRead(p)
  <2>1. /\ proc'[p].work = Work /\ proc'[p].missing = proc[p].missing
        /\ proc'[p].pc \in {"list", "items"} /\ rec' = rec
    BY <1>3, <1>types DEF ReconcileBegin, PassRead, Processes, mvars
  <2>2. \A i \in Work : i.dry = rec[i.m].dry_run
    BY WorkIsItems DEF Item
  <2> QED BY <2>1, <2>2 DEF Grounded
<1>4. CASE ReconcileList(p)
  <2>1. /\ proc'[p].work = {} /\ proc'[p].pc = "fix" /\ rec' = rec
        /\ \A m \in proc'[p].missing : \E i \in Claims(proc[p].work) : m = i.m
    BY <1>4, <1>types DEF ReconcileList, Processes, mvars
  <2>2. \A i \in Claims(proc[p].work) : rec[i.m].dry_run = FALSE
    BY NoneAssumption DEF Claims, Grounded
  <2> QED BY <2>1, <2>2 DEF Grounded
<1>5. ASSUME NEW i \in proc[p].work, Goes(p, i) PROVE Grounded(p)'
  <2>cur. Current(p, i) /\ \E pc \in AtItem : Goto(p, pc)
    BY <1>5 DEF Goes, StepBeginWithdrawal, StepTakeDown, StepResume, StepAnnounce, Announcing,
                AnnounceRefused, Add, AddFails, Cleanup, CleanupFails, Delete, At, AtItem
  <2>same. /\ proc'[p].work = proc[p].work /\ proc'[p].missing = proc[p].missing
           /\ proc'[p].cfg = proc[p].cfg
           /\ \A j \in proc[p].work : Current(p, j)' <=> Current(p, j)
    BY <2>cur, <1>types DEF Goto, Processes, Current
  <2>one. \A j \in proc[p].work : Current(p, j) => j.m = i.m
    BY <2>cur, <1>ids DEF Current, Ids
  <2>kept. /\ \A j \in proc'[p].work : j.dry # None => rec'[j.m].dry_run = j.dry
           /\ \A m \in proc'[p].missing : rec'[m].dry_run = FALSE
    BY <2>same, <1>step, GroundedStays
  <2>pc. ASSUME NEW pc, Goto(p, pc) PROVE proc'[p].pc = pc
    BY <2>pc, <1>types DEF Goto, Processes
  <2>1. CASE proc'[p].pc \notin {"announce", "add", "resume"}
    BY <2>1, <2>kept DEF Grounded
  <2>2. CASE StepAnnounce(p, i)
    <3>1. /\ proc'[p].pc = "announce" /\ pending'[p].m = i.m
          /\ pending'[p].dry = EffectiveDryRun(proc[p].cfg)
      BY <2>2, <2>pc DEF StepAnnounce, AnnounceRead, TypeOK, PendingOK
    <3> QED BY <3>1, <2>kept, <2>same, <2>one DEF Grounded
  <2>3. CASE Announcing(p, i) /\ proc'[p].pc = "add"
    <3>1. ~EffectiveDryRun(proc[p].cfg) /\ proc[p].pc = "announce" /\ AnnounceCommit(p)
      BY <2>3, <2>pc DEF Announcing, At
    <3>2. pending[p].m = i.m /\ pending[p].dry = FALSE
      BY <3>1, <2>cur DEF Grounded, EffectiveDryRun
    <3>3. rec'[i.m].dry_run = FALSE
      BY <3>1, <3>2, <1>ids DEF AnnounceCommit, Change, TypeOK, TableOK, Records
    <3> QED BY <2>3, <3>3, <2>kept, <2>same, <2>one DEF Grounded
  <2>4. CASE StepResume(p, i) /\ proc'[p].pc = "resume"
    <3>1. i.dry = FALSE
      BY <1>5, <2>4, <2>pc DEF StepResume, Done, At
    <3>2. rec'[i.m].dry_run = FALSE
      BY <3>1, <2>kept, <2>same, NoneAssumption
    <3> QED BY <2>4, <3>2, <2>kept, <2>same, <2>one DEF Grounded
  <2> QED
    <3>1. \/ proc'[p].pc \notin {"announce", "add", "resume"} \/ StepAnnounce(p, i)
          \/ Announcing(p, i) \/ StepResume(p, i)
      BY <1>5, <2>pc DEF Goes, StepBeginWithdrawal, StepTakeDown, Add, Cleanup, CleanupFails
    <3>2. Announcing(p, i) => proc'[p].pc \in {"add", "mark_active"}
      BY <2>pc DEF Announcing
    <3>3. StepResume(p, i) => proc'[p].pc \in {"items", "resume", "mark_active"}
      BY <2>pc, <1>types DEF StepResume, Done, Processes
    <3> QED BY <3>1, <3>2, <3>3, <2>1, <2>2, <2>3, <2>4
<1> QED BY <1>1, <1>2, <1>3, <1>4, <1>5, ProcessMoves

\* The strengthened invariant holds at every step.
LEMMA RoutesGroundedStep ==
    ASSUME TypeOK, ProcTypeOK, RoutesGrounded, [Next]_vars
    PROVE  RoutesGrounded'
<1>step. [MNext]_mvars
  BY Simulates
<1>1. \A m \in Ids : rec'[m].dry_run # None => rec'[m].approved_by \in Actors
  <2> SUFFICES ASSUME NEW m \in Ids, rec'[m].dry_run # None PROVE rec'[m].approved_by \in Actors
    OBVIOUS
  <2>1. CASE rec[m].dry_run # None
    BY <2>1, <1>step, FixedStep, ActorsAssumption DEF RoutesGrounded, FixedOnceSet
  <2>2. CASE rec[m].dry_run = None
    <3>1. rec'[m].state \notin AwaitsApproval \cup {"absent", "approved"}
      <4>1. Shape(rec'[m])
        BY <1>step, TypeStep DEF TypeOK, TableOK
      <4> QED BY <4>1 DEF Shape, Absent
    <3>2. PICK to \in States, a \in People, new \in Records :
             /\ Exists(m) /\ CanTransition(rec[m].state, to)
             /\ Keeps(m, to, a, new) /\ Change(m, to, a, new)
      <4>1. ASSUME NEW n \in Ids, Creates(n) PROVE rec'[m].dry_run = None
        BY <2>2, <4>1 DEF Creates, Change, TypeOK, TableOK, Absent
      <4>5. ASSUME NEW n \in Ids, TimePasses(n) PROVE rec'[m].dry_run = None
        BY <2>2, <4>5 DEF TimePasses, TypeOK, TableOK, Records
      <4>2. ASSUME NEW n \in Ids, Moves(n), n # m PROVE rec'[m].dry_run = None
        BY ZenonT(30), <2>2, <4>2, Changed DEF Moves
      <4>3. UNCHANGED recVars => rec'[m].dry_run = None
        BY <2>2 DEF recVars
      <4>4. Moves(m)
        BY <1>step, <4>1, <4>2, <4>3, <4>5, Effects
      <4> QED BY <4>4 DEF Moves
    <3>3. to = "announcing"
      BY <2>2, <3>2, Changed DEF Keeps
    <3>4. rec[m].approved_by \in Actors
      BY <3>2, <3>3 DEF CanTransition, AwaitsApproval, TypeOK, TableOK, Shape
    <3> QED BY <3>2, <3>3, <3>4, Changed DEF Keeps
  <2> QED BY <2>1, <2>2
<1>2. \A q \in Workers : Grounded(q)'
  <2>same. ASSUME NEW q \in Workers, proc'[q] = proc[q], pending'[q] = pending[q] PROVE Grounded(q)'
    <3>1. /\ \A i \in proc'[q].work : i.dry # None => rec'[i.m].dry_run = i.dry
          /\ \A m \in proc'[q].missing : rec'[m].dry_run = FALSE
      BY <1>step, <2>same, GroundedStays DEF RoutesGrounded
    <3>2. \A i \in proc[q].work : i.m \in Ids
      BY DEF ProcTypeOK, Processes, Items
    <3>3. \A m \in Ids : rec[m].dry_run = FALSE => rec'[m].dry_run = FALSE
      BY <1>step, FixedStep, NoneAssumption DEF FixedOnceSet
    <3> QED BY <2>same, <3>1, <3>2, <3>3 DEF RoutesGrounded, Grounded, Current
  <2>1. CASE \E p \in Workers : ProcessNext(p) \/ TimerFires(p) \/ Failures(p)
    BY <2>1, <2>same, GroundedStep, ProcessSteps DEF RoutesGrounded, Steps
  <2>2. CASE Operators
    BY <2>2, <2>same, ApiLeavesWorkers DEF Operators, svars
  <2>3. CASE UNCHANGED vars \/ LockDrops \/ GobgpRestarts \/ \E path \in Paths : LateAdd(path)
    BY <2>3, <2>same DEF vars, svars, mvars, LockDrops, GobgpRestarts, LateAdd
  <2> QED BY <2>1, <2>2, <2>3 DEF Next
<1>3. /\ \A n \in Nlris : rib'[n] # None => IsApproved(rib'[n])
      /\ \A path \in late' : IsApproved(path)
  <2> USE DEF RoutesGrounded, ProcTypeOK
  <2>1. CASE UNCHANGED gvars
    BY <2>1 DEF gvars
  <2>2. CASE GobgpRestarts
    BY <2>2 DEF GobgpRestarts
  <2>3. ASSUME NEW path \in Paths, LateAdd(path) PROVE <1>3
    BY <2>3 DEF LateAdd
  <2>4. ASSUME NEW n \in Nlris, DeletePath(n) PROVE <1>3
    BY <2>4 DEF DeletePath
  <2>5. ASSUME NEW p \in Workers, NEW m \in Ids, Announces(p, m), AddPathFails(rec[m].ask)
        PROVE  <1>3
    <3>1. rec[m].dry_run = FALSE
      BY <2>5 DEF Announces, Grounded, At
    <3>2. IsApproved(Announcement(rec[m].ask))
      BY <3>1, LiveIsApproved, NoneAssumption
    <3> QED BY <2>5, <3>2 DEF AddPathFails, AddPath, gvars
  <2> QED BY <2>1, <2>2, <2>3, <2>4, <2>5, TableSteps DEF AddsPath, AddPathFails
<1>4. ASSUME NEW path, IsApproved(path) PROVE IsApproved(path)'
  BY <1>step, <1>4, ApprovedStays
<1> QED BY <1>1, <1>2, <1>3, <1>4 DEF RoutesGrounded, IsApproved, IsRouteOf, Key, Exists

\* Every route in GoBGP is that of a mitigation somebody approved and a
\* process then began to announce live, with any number of processes, of
\* faults and of late calls.
THEOREM RouteIsApprovedHolds == Spec => []RouteIsApproved
<1>1. Init => RoutesGrounded
  BY DEF Init, MInit, Absent, Down, RoutesGrounded, Grounded
<1>2. TypeOK /\ ProcTypeOK /\ RoutesGrounded /\ [Next]_vars => RoutesGrounded'
  BY RoutesGroundedStep
<1>3. RoutesGrounded => RouteIsApproved
  BY DEF RoutesGrounded, RouteIsApproved, IsApproved
<1> QED BY <1>1, <1>2, <1>3, ProcTypeCorrect, PTL DEF Spec

----------------------------------------------------------------------------
(* One process at a time. *)

Carrying == {"announcing", "active", "withdrawing"}

\* m has been announced live and not been withdrawn.
IsCaused(path) == \E m \in Ids : IsRouteOf(path, m) /\ rec[m].state \in Carrying \cup {"failed"}

\* What a process's own step does to the records: nothing, it inserts a
\* proposal, or it gives one command on the item it is at.
LEMMA OwnCommands ==
    ASSUME TypeOK, ProcTypeOK, NEW p \in Workers, ProcessNext(p) \/ TimerFires(p) \/ Failures(p)
    PROVE  \/ rec' = rec
           \/ proc[p].pc = "proposing" /\ \E m \in Ids : CreateInsert(p, m)
           \/ \E i \in proc[p].work : Goes(p, i) /\ (StepBeginWithdrawal(p, i) \/ Announcing(p, i))
           \/ \E i \in proc[p].work :
                 /\ Current(p, i) /\ Done(p, i) /\ proc[p].pc \in AtItem \cup {"items"}
                 /\ \E to \in States, new \in Records :
                       /\ Command(p, Mitigator, i.m, "execute", to, new)
                       /\ to = "withdrawn" /\ rec[i.m].state = "withdrawing"
                             => proc[p].pc = "mark_withdrawn"
                       /\ to = "active" => proc[p].pc = "mark_active"
<1> DEFINE Ends(i) ==
               /\ Current(p, i) /\ Done(p, i) /\ proc[p].pc \in AtItem \cup {"items"}
               /\ \E to \in States, new \in Records :
                     /\ Command(p, Mitigator, i.m, "execute", to, new)
                     /\ to = "withdrawn" /\ rec[i.m].state = "withdrawing"
                           => proc[p].pc = "mark_withdrawn"
                     /\ to = "active" => proc[p].pc = "mark_active"
           Goal == \/ rec' = rec
                   \/ proc[p].pc = "proposing" /\ \E m \in Ids : CreateInsert(p, m)
                   \/ \E i \in proc[p].work : Goes(p, i) /\ (StepBeginWithdrawal(p, i) \/ Announcing(p, i))
                   \/ \E i \in proc[p].work : Ends(i)
<1>rows. \A i \in proc[p].work : i.m \in Ids /\ rec[i.m] \in Records
  BY DEF ProcTypeOK, Processes, Items, TypeOK, TableOK
<1>1. ASSUME NEW i \in proc[p].work, Step(p, i) PROVE Goal
  <2>1. CASE StepExpire(p, i) \/ EndActive(p, i) \/ EndFailed(p, i) \/ EndWithdrawn(p, i)
    <3>1. CASE UNCHANGED mvars
      BY <3>1 DEF mvars
    <3>2. CASE ~UNCHANGED mvars
      <4>1. PICK to \in States : /\ Command(p, Mitigator, i.m, "execute", to, rec[i.m])
                                 /\ Current(p, i) /\ Done(p, i) /\ proc[p].pc \in AtItem \cup {"items"}
                                 /\ to = "withdrawn" => proc[p].pc = "mark_withdrawn"
                                 /\ to = "active" => proc[p].pc = "mark_active"
        BY <2>1, <3>2 DEF StepExpire, EndActive, EndFailed, EndWithdrawn, Refused, Expire, MarkActive,
                          MarkFailed, MarkWithdrawn, Execute, At, States, AtItem
      <4> QED BY <4>1, <1>rows
    <3> QED BY <3>1, <3>2
  <2>2. ASSUME NEW cause \in Causes, BeginWithdrawal(p, i.m, cause), At(p, "items", i), Done(p, i)
        PROVE  Goal
    <3> DEFINE new == [rec[i.m] EXCEPT !.cause = cause]
    <3>1. new \in Records /\ DownState(i.m) \in States
      BY <1>rows DEF Records, Maybe, DownState, States
    <3>2. Command(p, Mitigator, i.m, "execute", DownState(i.m), new)
      BY <2>2 DEF BeginWithdrawal, Execute
    <3>3. /\ ~(DownState(i.m) = "withdrawn" /\ rec[i.m].state = "withdrawing")
          /\ DownState(i.m) # "active"
      BY DEF DownState
    <3>4. Ends(i)
      BY <2>2, <3>1, <3>2, <3>3, Zenon DEF At
    <3> QED BY <3>4
  <2>3. CASE StepWithdrawApproved(p, i)
    BY <2>2, <2>3 DEF StepWithdrawApproved, Refused, Causes, mvars
  <2>4. CASE StepBeginWithdrawal(p, i)
    BY <2>4 DEF StepBeginWithdrawal, Goes, Refused, Causes, mvars
  <2>5. CASE Announcing(p, i)
    BY <2>5 DEF Goes
  <2>6. CASE \/ StepResume(p, i) \/ StepTakeDown(p, i) \/ StepNothing(p, i) \/ StepAnnounce(p, i)
             \/ AnnounceRefused(p, i) \/ Add(p, i) \/ Cleanup(p, i) \/ Delete(p, i)
    BY <2>6 DEF StepResume, StepTakeDown, StepNothing, StepAnnounce, AnnounceRead, AnnounceRefused,
                AnnounceRollback, Add, Cleanup, Delete, mvars, recVars
  <2> QED BY <1>1, <2>1, <2>3, <2>4, <2>5, <2>6 DEF Step
<1>2. CASE Proposing(p) \/ ProposeNoRoom(p)
  BY <1>2 DEF Proposing, ProposeNoRoom, CreateLookup, CreateDuplicate, WorkerLost, recVars
<1>3. CASE Failures(p)
  BY <1>3 DEF Failures, ReconcileFails, AddFails, CleanupFails, DeleteFails, DatabaseFails, Crash,
              Rollback, WorkerLost, mvars, recVars
<1>4. CASE TimerFires(p)
  BY <1>4 DEF TimerFires, mvars
<1>5. CASE ProcessNext(p)
  BY <1>5, <1>1, <1>2
     DEF ProcessNext, Start, AcquireLock, ReconcileBegin, ReconcileList, ReconcileWithdraw,
         ReconcileRestore, ReconcileEnd, PassBegin, PassRead, PassEnd, ProposeSkip, ProposeStart,
         Propose, ProposeRefused, ProposeEnd, mvars, recVars
<1> QED BY <1>3, <1>4, <1>5

\* Nothing but a legal transition changes the state of a mitigation.
LEMMA LegalMoves ==
    ASSUME TypeOK, [MNext]_mvars, NEW m \in Ids
    PROVE  \/ rec'[m].state = rec[m].state
           \/ CanTransition(rec[m].state, rec'[m].state)
           \/ ~Exists(m) /\ rec'[m].state \in AwaitsApproval
<1>1. CASE UNCHANGED recVars
  BY <1>1 DEF recVars
<1>2. ASSUME NEW n \in Ids, Creates(n)
      PROVE  rec'[m].state = rec[m].state \/ (~Exists(m) /\ rec'[m].state \in AwaitsApproval)
  BY <1>2 DEF Creates, Change, Exists, TypeOK, TableOK, AwaitsApproval, Absent
<1>3. ASSUME NEW n \in Ids, Moves(n)
      PROVE  rec'[m].state = rec[m].state \/ CanTransition(rec[m].state, rec'[m].state)
  <2>1. PICK to \in States, a \in People, new \in Records :
           CanTransition(rec[n].state, to) /\ Change(n, to, a, new)
    BY <1>3 DEF Moves
  <2>2. rec'[n].state = to /\ \A k \in Ids \ {n} : rec'[k] = rec[k]
    BY <2>1, Changed
  <2> QED BY <2>1, <2>2
<1>4. ASSUME NEW n \in Ids, TimePasses(n) PROVE rec'[m].state = rec[m].state
  BY <1>4 DEF TimePasses, TypeOK, TableOK, Records
<1> QED BY <1>1, <1>2, <1>3, <1>4, Effects

\* Operators do nothing to a mitigation that is announced but begin its
\* withdrawal, and end none: only mark_withdrawn does.
LEMMA OperatorsEndNone ==
    ASSUME TypeOK, ApiNext, NEW m \in Ids, rec[m].state \in Carrying
    PROVE  rec'[m].state \in {rec[m].state, "withdrawing"}
<1> DEFINE Goal == rec'[m].state \in {rec[m].state, "withdrawing"}
<1>rows. rec \in [Ids -> Records]
  BY DEF TypeOK, TableOK
<1>change. ASSUME NEW n \in Ids, NEW to \in {"approved", "rejected"}, NEW a, NEW new \in Records,
                  Change(n, to, a, new), CanTransition(rec[n].state, to)
           PROVE  Goal
  BY <1>change, Changed DEF CanTransition, AwaitsApproval, Carrying
<1>1. ASSUME NEW s \in Sessions, NEW n \in Ids, CreateInsert(s, n) PROVE Goal
  BY <1>1, <1>rows DEF CreateInsert, Exists, Change, Carrying
<1>2. ASSUME NEW s \in Sessions, ApproveCommit(s) PROVE Goal
  <2> DEFINE p == pending[s]
  <2>1. p \in Approvals
    BY <1>2 DEF ApproveCommit, TypeOK, PendingOK, Idle, Creations, Announcements
  <2>2. p.m \in Ids /\ [rec[p.m] EXCEPT !.approved_by = p.actor] \in Records
    BY <2>1, <1>rows, ApproverRecorded DEF Approvals
  <2> QED BY <1>2, <2>2, <1>change DEF ApproveCommit, ApproveAllowed
<1>3. ASSUME NEW s \in Sessions, NEW a \in Actors, NEW n \in Ids, Reject(s, a, n) PROVE Goal
  BY <1>3, <1>rows, <1>change DEF Reject, Command
<1>4. ASSUME NEW s \in Sessions, NEW a \in Actors, NEW n \in Ids, Withdraw(s, a, n) PROVE Goal
  <2>1. Change(n, DownState(n), a, [rec[n] EXCEPT !.cause = "operator"])
    BY <1>4 DEF Withdraw, Command
  <2>2. CASE n # m
    BY <2>1, <2>2, <1>rows DEF Change
  <2>3. CASE n = m
    <3>1. DownState(m) = "withdrawing"
      BY DEF DownState, Carrying
    <3>2. [rec[m] EXCEPT !.cause = "operator"] \in Records
      BY <1>rows DEF Records, Causes, Maybe
    <3> QED BY <2>1, <2>3, <3>1, <3>2, Changed
  <2> QED BY <2>2, <2>3
<1>5. ASSUME NEW n \in Ids, TimePasses(n) PROVE Goal
  BY <1>5, <1>rows DEF TimePasses, Records
<1>6. UNCHANGED recVars => Goal
  BY DEF recVars
<1> QED BY <1>1, <1>2, <1>3, <1>4, <1>5, <1>6
        DEF ApiNext, Request, RequestRefused, CreateReplay, CreateLookup, CreateDuplicate,
            CreateKeyTaken, ApproveRollback, ApproveRead, SetKillSwitch, ApiRestart, IdemExpires

\* The lock holder's view of the store is only ever behind by what operators did.
Tracks(p) ==
    /\ Acting(p) => lock = p
    /\ proc[p].work # {} => proc[p].pc \in AtItem \cup {"list", "items"}
    /\ proc[p].missing # {} => proc[p].pc = "fix"
    /\ proc[p].stale # {} => proc[p].pc = "fix"
    /\ \A i, j \in proc[p].work : i.m = j.m => i = j
    /\ \A i \in proc[p].work : i.state \in Carrying =>
          /\ i.dry \in BOOLEAN
          /\ rec[i.m].state \in IF i.state = "withdrawing" THEN {"withdrawing"} ELSE Carrying
    /\ \A m \in proc[p].missing : rec[m].state \in Carrying
    /\ \A i \in proc[p].work : Current(p, i) =>
          /\ proc[p].pc \in {"announce", "add", "cleanup", "mark_failed"} => i.state = "approved"
          /\ proc[p].pc = "resume" => i.state = "announcing"
          /\ proc[p].pc = "add" => rec[i.m].state \in Carrying
          /\ proc[p].pc \in {"del", "mark_withdrawn"} =>
                i.state \in Carrying /\ rec[i.m].state = "withdrawing"
          /\ proc[p].pc = "mark_withdrawn" /\ i.dry = FALSE => rib[Nlri(rec[i.m].ask)] = None

RoutesCaused ==
    /\ late = {}
    /\ \A p \in Workers : Tracks(p)
    /\ \A n \in Nlris : rib[n] # None => IsCaused(rib[n])

\* Two paths of one key have one NLRI.
LEMMA KeyGivesNlri ==
    ASSUME NEW ask \in Asks, NEW path \in Paths, ReadBackKey(path) = DuplicateKey(ask)
    PROVE  path.nlri = Nlri(ask)
<1>1. PICK b \in Asks : path = Announcement(b)
  BY DEF Paths
<1>2. DuplicateKey(b) = DuplicateKey(ask)
  BY <1>1, ReadBack
<1>3. b.kind = ask.kind /\ b.prefix = ask.prefix /\ b.flow = ask.flow
  BY <1>2 DEF DuplicateKey
<1> QED BY <1>1, <1>3 DEF Announcement, Nlri

\* A withdrawal ends only by mark_withdrawn, of the process that is at it.
LEMMA WithdrawalEnds ==
    ASSUME TypeOK, ProcTypeOK, [Next]_vars, NEW m \in Ids,
           rec[m].state = "withdrawing", rec'[m].state # "withdrawing"
    PROVE  \E p \in Workers : \E i \in proc[p].work :
               At(p, "mark_withdrawn", i) /\ i.m = m /\ Done(p, i)
<1>rows. rec \in [Ids -> Records] /\ \A p \in Workers : \A i \in proc[p].work : i.m \in Ids
  BY DEF TypeOK, TableOK, ProcTypeOK, Processes, Items
<1>1. PICK p \in Workers : ProcessNext(p) \/ TimerFires(p) \/ Failures(p)
  BY OperatorsEndNone
     DEF Next, Operators, LockDrops, GobgpRestarts, LateAdd, vars, mvars, Carrying
<1>2. ~\E n \in Ids : CreateInsert(p, n)
  BY <1>rows DEF CreateInsert, Exists, Change
<1>3. ASSUME NEW i \in proc[p].work, Goes(p, i), StepBeginWithdrawal(p, i) \/ Announcing(p, i)
      PROVE  FALSE
  <2>1. CASE Announcing(p, i)
    <3>1. AnnounceCommit(p)
      BY <2>1 DEF Announcing
    <3>2. pending[p] \in Announcements
      BY <3>1 DEF AnnounceCommit, TypeOK, PendingOK, Idle, Creations, Approvals
    <3> QED BY <3>1, <3>2, <1>rows
            DEF AnnounceCommit, Announcements, Change, CanTransition, AwaitsApproval
  <2>2. CASE StepBeginWithdrawal(p, i)
    <3>1. CASE UNCHANGED mvars
      BY <3>1 DEF mvars
    <3>2. CASE \E cause \in Causes : BeginWithdrawal(p, i.m, cause)
      <4>1. PICK cause \in Causes : BeginWithdrawal(p, i.m, cause)
        BY <3>2
      <4>2. /\ CanTransition(rec[i.m].state, DownState(i.m))
            /\ Change(i.m, DownState(i.m), Mitigator, [rec[i.m] EXCEPT !.cause = cause])
        BY <4>1 DEF BeginWithdrawal, Execute, Command
      <4>3. i.m # m
        BY <4>2 DEF CanTransition, DownState, AwaitsApproval
      <4> QED BY <4>2, <4>3, <1>rows DEF Change
    <3> QED BY <2>2, <3>1, <3>2 DEF StepBeginWithdrawal, Refused, Causes
  <2> QED BY <1>3, <2>1, <2>2
<1>4. PICK i \in proc[p].work :
         /\ Current(p, i) /\ Done(p, i)
         /\ \E to \in States, new \in Records :
               /\ Command(p, Mitigator, i.m, "execute", to, new)
               /\ to = "withdrawn" /\ rec[i.m].state = "withdrawing" => proc[p].pc = "mark_withdrawn"
  BY <1>1, <1>2, <1>3, OwnCommands
<1>5. PICK to \in States, new \in Records :
         /\ CanTransition(rec[i.m].state, to) /\ Change(i.m, to, Mitigator, new)
         /\ to = "withdrawn" /\ rec[i.m].state = "withdrawing" => proc[p].pc = "mark_withdrawn"
  BY <1>4 DEF Command
<1>6. i.m = m
  BY <1>5, <1>rows DEF Change
<1>7. to = "withdrawn"
  BY <1>5, <1>6 DEF CanTransition, AwaitsApproval
<1> QED BY <1>4, <1>5, <1>6, <1>7 DEF At

\* Who holds the lock changes only by a process that takes it while it is
\* free, or that stops.
LEMMA LockSteps ==
    ASSUME ProcTypeOK, NEW p \in Workers, ProcessNext(p) \/ TimerFires(p) \/ Failures(p)
    PROVE  \/ lock' = lock /\ (Acting(p)' => Acting(p))
           \/ lock = None /\ lock' = p
           \/ lock = p /\ lock' = None /\ ~Acting(p)'
<1>types. proc \in [Workers -> Processes] /\ proc[p] \in Processes
  BY DEF ProcTypeOK
<1>1. CASE Crash(p)
  BY <1>1, <1>types DEF Crash, Acting, Down
<1>2. CASE AcquireLock(p)
  BY <1>2 DEF AcquireLock
<1>3. CASE \E cfg \in Configs : Start(p, cfg)
  BY <1>3, <1>types DEF Start, Acting, Down
<1>4. CASE Acting(p) /\ lock' = lock
  BY <1>4
<1>5. ASSUME NEW i \in proc[p].work, Step(p, i) PROVE Acting(p) /\ lock' = lock
  BY <1>5 DEF Step, StepExpire, StepWithdrawApproved, StepBeginWithdrawal, StepResume, StepTakeDown,
              StepNothing, StepAnnounce, Announcing, AnnounceRefused, Add, Cleanup, EndActive,
              EndFailed, Delete, EndWithdrawn, At, Acting
<1>6. CASE ProcessNext(p)
  BY <1>2, <1>3, <1>4, <1>5, <1>6
     DEF ProcessNext, ReconcileBegin, ReconcileList, ReconcileWithdraw, ReconcileRestore,
         ReconcileEnd, PassBegin, PassRead, PassEnd, ProposeSkip, ProposeStart, ProposeRefused,
         Proposing, ProposeNoRoom, ProposeEnd, Acting
<1>7. CASE TimerFires(p)
  BY <1>4, <1>7 DEF TimerFires
<1>8. CASE Failures(p)
  BY <1>1, <1>4, <1>8
     DEF Failures, ReconcileFails, AddFails, CleanupFails, DeleteFails, DatabaseFails, At, Acting
<1> QED BY <1>6, <1>7, <1>8

\* A process that waits for the lock touches neither the records nor GoBGP.
LEMMA StandbySteps ==
    ASSUME NEW p \in Workers, ProcessNext(p) \/ TimerFires(p) \/ Failures(p), ~Acting(p)
    PROVE  rec' = rec /\ UNCHANGED gvars
<1>1. proc[p].pc \in {"down", "standby"}
  BY DEF Acting
<1>2. CASE ProcessNext(p)
  BY <1>1, <1>2
     DEF ProcessNext, Start, AcquireLock, ReconcileBegin, ReconcileList, ReconcileWithdraw,
         ReconcileRestore, ReconcileEnd, PassBegin, PassRead, PassEnd, ProposeSkip, ProposeStart,
         ProposeRefused, Proposing, ProposeNoRoom, ProposeEnd, mvars, Step, StepExpire,
         StepWithdrawApproved, StepBeginWithdrawal, StepResume, StepTakeDown, StepNothing,
         StepAnnounce, Announcing, AnnounceRefused, Add, Cleanup, EndActive, EndFailed, Delete,
         EndWithdrawn, At
<1>3. CASE Failures(p)
  BY <1>1, <1>3
     DEF Failures, ReconcileFails, AddFails, CleanupFails, DeleteFails, DatabaseFails, Crash, At,
         Rollback, WorkerLost, mvars, recVars
<1> QED BY <1>2, <1>3 DEF TimerFires, Acting

\* What is said of a process stays true as long as neither it, nor the
\* records, nor the table change, and it keeps the lock if it has it.
LEMMA TracksStays ==
    ASSUME NEW q \in Workers, Tracks(q), proc'[q] = proc[q], Acting(q) => lock' = q,
           (rec' = rec /\ rib' = rib) \/ ~Acting(q)
    PROVE  Tracks(q)'
<1>1. CASE rec' = rec /\ rib' = rib
  BY <1>1 DEF Tracks, Acting, Current
<1>2. CASE ~Acting(q)
  <2>1. proc[q].work = {} /\ proc[q].missing = {} /\ proc[q].stale = {}
    BY <1>2 DEF Tracks, Acting, AtItem
  <2> QED BY <1>2, <2>1 DEF Tracks, Acting
<1> QED BY <1>1, <1>2

\* The work list a process reads is what the records say.
LEMMA WorkTracks ==
    ASSUME TypeOK, ProcTypeOK, NEW p \in Workers, Tracks(p), ReconcileBegin(p) \/ PassRead(p)
    PROVE  Tracks(p)'
<1>types. proc \in [Workers -> Processes] /\ proc[p] \in Processes
  BY DEF ProcTypeOK
<1>1. /\ proc'[p].work = Work /\ proc'[p].missing = proc[p].missing
      /\ proc'[p].stale = proc[p].stale /\ proc'[p].pc \in {"list", "items"}
      /\ rec' = rec /\ lock' = lock
  BY <1>types DEF ReconcileBegin, PassRead, Processes, mvars
<1>2. Acting(p) /\ proc[p].missing = {} /\ proc[p].stale = {}
  BY DEF ReconcileBegin, PassRead, Acting, Tracks
<1>3. \A i \in Work : i = Item(i.m) /\ i.m \in Ids /\ i.state = rec[i.m].state /\ i.dry = rec[i.m].dry_run
  BY WorkIsItems DEF Item, Items
<1>4. \A i, j \in Work : i.m = j.m => i = j
  BY <1>3
<1>5. \A m \in Ids : rec[m].state \in Carrying => rec[m].dry_run \in BOOLEAN
  BY DEF TypeOK, TableOK, Shape, Carrying
<1>6. \A i \in Work : i.state \in Carrying =>
          /\ i.dry \in BOOLEAN
          /\ rec[i.m].state \in IF i.state = "withdrawing" THEN {"withdrawing"} ELSE Carrying
  BY <1>3, <1>5
<1> QED BY <1>1, <1>2, <1>4, <1>6 DEF Tracks, Acting

\* A process goes on with its item: what it knows of it is still right.
LEMMA GoesTracks ==
    ASSUME TypeOK, ProcTypeOK, NEW p \in Workers, Grounded(p), Tracks(p), lock' = lock,
           NEW i \in proc[p].work, Goes(p, i)
    PROVE  Tracks(p)'
<1>types. proc \in [Workers -> Processes] /\ proc[p] \in Processes /\ rec \in [Ids -> Records]
  BY DEF ProcTypeOK, TypeOK, TableOK
<1>ids. \A j \in proc[p].work : j.m \in Ids /\ Exists(j.m)
  BY <1>types DEF ProcTypeOK, ProcOK, Processes, Items
<1>cur. Current(p, i) /\ Acting(p) /\ \E pc \in AtItem : Goto(p, pc)
  BY DEF Goes, StepBeginWithdrawal, StepTakeDown, StepResume, StepAnnounce, Announcing,
         AnnounceRefused, Add, AddFails, Cleanup, CleanupFails, Delete, At, AtItem, Acting
<1>same. /\ proc'[p].work = proc[p].work /\ proc'[p].missing = proc[p].missing
         /\ proc'[p].stale = proc[p].stale /\ proc'[p].pc \in AtItem
         /\ \A j \in proc[p].work : Current(p, j)' <=> Current(p, j)
  BY <1>cur, <1>types DEF Goto, Processes, Current
<1>pc. ASSUME NEW pc, Goto(p, pc) PROVE proc'[p].pc = pc
  BY <1>pc, <1>types DEF Goto, Processes
<1>one. \A j \in proc[p].work : Current(p, j) => j = i
  BY <1>cur, <1>ids DEF Current, Ids, Tracks
<1>none. proc[p].missing = {} /\ proc[p].stale = {}
  <2>1. proc[p].pc # "fix"
    BY DEF Goes, StepBeginWithdrawal, StepTakeDown, StepResume, StepAnnounce, Announcing,
           AnnounceRefused, Add, AddFails, Cleanup, CleanupFails, Delete, At
  <2> QED BY <2>1 DEF Tracks
<1> DEFINE Known(j) == j.state \in Carrying =>
               /\ j.dry \in BOOLEAN
               /\ rec'[j.m].state \in IF j.state = "withdrawing" THEN {"withdrawing"} ELSE Carrying
           Here == /\ proc'[p].pc \in {"announce", "add", "cleanup", "mark_failed"} => i.state = "approved"
                   /\ proc'[p].pc = "resume" => i.state = "announcing"
                   /\ proc'[p].pc = "add" => rec'[i.m].state \in Carrying
                   /\ proc'[p].pc \in {"del", "mark_withdrawn"} =>
                         i.state \in Carrying /\ rec'[i.m].state = "withdrawing"
                   /\ proc'[p].pc = "mark_withdrawn" /\ i.dry = FALSE => rib'[Nlri(rec'[i.m].ask)] = None
<1>known. rec' = rec => \A j \in proc[p].work : Known(j)
  BY DEF Tracks
<1>1. CASE StepBeginWithdrawal(p, i) /\ Goto(p, "del")
  <2>1. i.state \in {"announcing", "active"}
    BY <1>1 DEF StepBeginWithdrawal
  <2>2. rec[i.m].state \in Carrying
    BY <2>1 DEF Tracks, Carrying
  <2>3. proc'[p].pc = "del"
    BY <1>1, <1>pc
  <2>4. ~Done(p, i)
    BY <2>3, <1>types DEF Done, Processes
  <2>5. PICK cause \in Causes : Change(i.m, DownState(i.m), Mitigator, [rec[i.m] EXCEPT !.cause = cause])
    BY <1>1, <2>4 DEF StepBeginWithdrawal, Refused, BeginWithdrawal, Execute, Command, Causes
  <2>6. DownState(i.m) = "withdrawing"
    BY <2>2 DEF DownState, Carrying
  <2>7. rec'[i.m].state = "withdrawing" /\ \A j \in proc[p].work \ {i} : rec'[j.m] = rec[j.m]
    <3>1. \A j \in proc[p].work \ {i} : j.m # i.m
      BY DEF Tracks
    <3> QED BY <2>5, <2>6, <3>1, <1>types, <1>ids DEF Change, Records
  <2>8. Here
    BY <2>1, <2>3, <2>7 DEF Carrying
  <2>9. \A j \in proc[p].work : Known(j)
    BY <2>1, <2>7 DEF Tracks, Carrying
  <2> QED BY <2>8, <2>9, <1>same, <1>one, <1>none, <1>cur DEF Tracks, Acting, AtItem
<1>2. CASE Announcing(p, i)
  <2>1. AnnounceCommit(p) /\ proc[p].pc = "announce" /\ proc'[p].pc \in {"mark_active", "add"}
    BY <1>2, <1>pc DEF Announcing, At
  <2>2. pending[p].m = i.m /\ i.state = "approved"
    BY <2>1, <1>cur DEF Grounded, Tracks
  <2>3. rec'[i.m].state = "announcing" /\ \A j \in proc[p].work \ {i} : rec'[j.m] = rec[j.m]
    <3>1. \A j \in proc[p].work \ {i} : j.m # i.m
      BY DEF Tracks
    <3> QED BY <2>1, <2>2, <3>1, <1>types, <1>ids DEF AnnounceCommit, Change, Records
  <2>4. Here
    BY <2>1, <2>2, <2>3 DEF Carrying
  <2>5. \A j \in proc[p].work : Known(j)
    BY <2>2, <2>3 DEF Tracks, Carrying
  <2> QED BY <2>4, <2>5, <1>same, <1>one, <1>none, <1>cur DEF Tracks, Acting, AtItem
<1>3. CASE rec' = rec /\ Here
  BY <1>3, <1>known, <1>same, <1>one, <1>none, <1>cur DEF Tracks, Acting, AtItem
<1>4. CASE StepTakeDown(p, i)
  <2>1. proc'[p].pc = "del" /\ i.state = "withdrawing" /\ rec' = rec
    BY <1>4, <1>pc DEF StepTakeDown, mvars
  <2> QED BY <1>3, <2>1 DEF Tracks, Carrying
<1>5. CASE StepResume(p, i) /\ Goto(p, IF i.dry = FALSE THEN "resume" ELSE "mark_active")
  <2>1. proc'[p].pc \in {"resume", "mark_active"} /\ i.state = "announcing" /\ rec' = rec
    BY <1>5, <1>pc DEF StepResume, mvars
  <2> QED BY <1>3, <2>1
<1>6. CASE StepAnnounce(p, i)
  <2>1. proc'[p].pc = "announce" /\ i.state = "approved" /\ rec' = rec
    BY <1>6, <1>pc DEF StepAnnounce, AnnounceRead, recVars
  <2> QED BY <1>3, <2>1
<1>7. CASE \/ AnnounceRefused(p, i) /\ Goto(p, "mark_failed")
           \/ AddFails(p, i) /\ Goto(p, "cleanup")
           \/ Cleanup(p, i) \/ CleanupFails(p, i)
  <2>1. /\ proc'[p].pc \in {"mark_failed", "cleanup"} /\ rec' = rec
        /\ proc[p].pc \in {"announce", "add", "cleanup"}
    <3>1. proc'[p].pc \in {"mark_failed", "cleanup"}
      BY <1>7, <1>pc DEF Cleanup, CleanupFails
    <3>2. ~Done(p, i)
      BY <3>1, <1>types DEF Done, Processes
    <3> QED BY <1>7, <3>1, <3>2
            DEF AnnounceRefused, AnnounceRollback, AddFails, Cleanup, CleanupFails, At, mvars, recVars
  <2>2. i.state = "approved"
    BY <2>1, <1>cur DEF Tracks
  <2> QED BY <1>3, <2>1, <2>2
<1>8. CASE Add(p, i)
  <2>1. proc'[p].pc = "mark_active" /\ rec' = rec
    BY <1>8, <1>pc DEF Add, mvars
  <2> QED BY <1>3, <2>1
<1>9. CASE Delete(p, i) /\ Goto(p, "mark_withdrawn")
  <2>1. proc'[p].pc = "mark_withdrawn" /\ rec' = rec /\ proc[p].pc = "del"
    BY <1>9, <1>pc DEF Delete, At, mvars
  <2>2. ~Done(p, i)
    BY <2>1, <1>types DEF Done, Processes
  <2>3. i.dry = FALSE => DeletePath(Nlri(rec[i.m].ask))
    BY <1>9, <2>2 DEF Delete
  <2>4. Nlri(rec[i.m].ask) \in Nlris
    BY <1>ids, PathOfAsk DEF TypeOK, TableOK, Shape, Exists
  <2>5. i.dry = FALSE => rib'[Nlri(rec'[i.m].ask)] = None
    BY <2>1, <2>3, <2>4 DEF DeletePath, ProcTypeOK
  <2> QED BY <1>3, <1>cur, <2>1, <2>5 DEF Tracks
<1> QED BY <1>1, <1>2, <1>4, <1>5, <1>6, <1>7, <1>8, <1>9 DEF Goes

\* A process leaves its item: what it knows of the others is still right.
LEMMA LeavesTracks ==
    ASSUME TypeOK, ProcTypeOK, NEW p \in Workers, Tracks(p), Acting(p)' => lock' = p,
           ProcessNext(p) \/ TimerFires(p) \/ Failures(p), Leaves(p)
    PROVE  Tracks(p)'
<1>types. proc \in [Workers -> Processes] /\ proc[p] \in Processes /\ rec \in [Ids -> Records]
  BY DEF ProcTypeOK, TypeOK, TableOK
<1>ids. \A j \in proc[p].work : j.m \in Ids
  BY <1>types DEF Processes, Items
<1>1. ASSUME NEW i \in proc[p].work, Goes(p, i) PROVE FALSE
  <2>1. \E pc \in AtItem : Goto(p, pc)
    BY <1>1 DEF Goes, StepBeginWithdrawal, StepTakeDown, StepResume, StepAnnounce, Announcing,
                AnnounceRefused, Add, AddFails, Cleanup, CleanupFails, Delete, AtItem
  <2> QED BY <2>1, <1>types DEF Goto, Leaves, Processes
<1>2. \A j \in proc'[p].work : j \in proc[p].work /\ rec'[j.m].state = rec[j.m].state
  <2>1. CASE rec' = rec
    BY <2>1 DEF Leaves
  <2>2. CASE proc[p].pc = "proposing"
    BY <2>2 DEF Leaves, Tracks, AtItem
  <2>3. CASE \E i \in proc[p].work :
                 Done(p, i) /\ \E to \in States, new \in Records :
                                   Command(p, Mitigator, i.m, "execute", to, new)
    <3>1. PICK i \in proc[p].work, to \in States, new \in Records :
             Done(p, i) /\ Change(i.m, to, Mitigator, new)
      BY <2>3 DEF Command
    <3>2. proc'[p].work = proc[p].work \ {i}
      BY <3>1, <1>types DEF Done, Processes
    <3>3. \A j \in proc[p].work \ {i} : j.m # i.m
      BY DEF Tracks
    <3> QED BY <3>1, <3>2, <3>3, <1>types, <1>ids DEF Change
  <2> QED BY <1>1, <2>1, <2>2, <2>3, OwnCommands
<1>3. \A m \in proc'[p].missing : m \in proc[p].missing /\ rec' = rec
  <2> SUFFICES ASSUME NEW m \in proc'[p].missing PROVE m \in proc[p].missing /\ rec' = rec
    OBVIOUS
  <2>1. proc[p].missing # {} /\ m \in proc[p].missing
    BY DEF Leaves
  <2>2. proc[p].pc = "fix" /\ proc[p].work = {}
    BY <2>1 DEF Tracks, AtItem
  <2> QED BY <2>1, <2>2, OwnCommands
<1>4. /\ proc'[p].work # {} => proc'[p].pc = "items"
      /\ proc'[p].missing # {} => proc'[p].pc = "fix"
      /\ proc'[p].stale # {} => proc'[p].pc = "fix"
      /\ proc'[p].pc \notin AtItem
  BY DEF Leaves, Tracks
<1> QED BY <1>2, <1>3, <1>4 DEF Tracks, AtItem

\* One step of the process that moves, or of the operators.
LEMMA TracksStep ==
    ASSUME TypeOK, ProcTypeOK, ~LockDrops, \A p \in Workers : Grounded(p) /\ Tracks(p),
           late = {}, [Next]_vars, NEW q \in Workers
    PROVE  Tracks(q)'
<1>types. proc \in [Workers -> Processes] /\ \A p \in Workers : proc[p] \in Processes
  BY DEF ProcTypeOK
<1>1. ASSUME NEW p \in Workers, ProcessNext(p) \/ TimerFires(p) \/ Failures(p), q # p
      PROVE  Tracks(q)'
  <2>1. proc'[q] = proc[q]
    BY <1>1, ProcessSteps DEF Steps
  <2>2. Acting(q) => lock = q /\ ~Acting(p)
    BY <1>1 DEF Tracks
  <2>3. Acting(q) => lock' = q
    BY <1>1, <2>2, LockSteps, MitigatorAssumption
  <2>4. Acting(q) => rec' = rec /\ rib' = rib
    BY <1>1, <2>2, StandbySteps DEF gvars
  <2> QED BY <2>1, <2>3, <2>4, TracksStays
<1>2. CASE ProcessNext(q) \/ TimerFires(q) \/ Failures(q)
  <2>lock. Acting(q)' => lock' = q
    BY <1>2, LockSteps DEF Tracks
  <2>1. CASE Leaves(q)
    BY <1>2, <2>1, <2>lock, LeavesTracks
  <2>2. CASE TimerFires(q)
    <3>1. /\ proc'[q].work = proc[q].work /\ proc'[q].missing = proc[q].missing
          /\ proc'[q].stale = proc[q].stale /\ proc'[q].pc = proc[q].pc
          /\ rec' = rec /\ rib' = rib
      BY <2>2, <1>types DEF TimerFires, Processes, mvars, gvars
    <3> QED BY <3>1, <2>lock DEF Tracks, Current
  <2>3. CASE ReconcileBegin(q) \/ PassRead(q)
    BY <2>3, WorkTracks
  <2>4. CASE ReconcileList(q)
    <3>1. /\ proc'[q].work = {} /\ proc'[q].pc = "fix" /\ rec' = rec
          /\ \A m \in proc'[q].missing : \E i \in Claims(proc[q].work) : m = i.m
      BY <2>4, <1>types DEF ReconcileList, Processes, mvars
    <3>2. \A i \in Claims(proc[q].work) : rec[i.m].state \in Carrying
      BY DEF Claims, Tracks, Carrying
    <3> QED BY <3>1, <3>2, <2>lock DEF Tracks
  <2>5. ASSUME NEW i \in proc[q].work, Goes(q, i) PROVE Tracks(q)'
    <3>1. lock' = lock
      BY <2>5 DEF Goes, StepBeginWithdrawal, StepTakeDown, StepResume, StepAnnounce, Announcing,
                  AnnounceRefused, Add, AddFails, Cleanup, CleanupFails, Delete
    <3> QED BY <2>5, <3>1, GoesTracks
  <2> QED BY <1>2, <2>1, <2>2, <2>3, <2>4, <2>5, ProcessMoves
<1>3. CASE Operators
  <2>1. /\ proc' = proc /\ lock' = lock /\ rib' = rib
    BY <1>3 DEF Operators, svars
  <2>2. \A m \in Ids : rec[m].state \in Carrying => rec'[m].state \in {rec[m].state, "withdrawing"}
    BY <1>3, OperatorsEndNone DEF Operators
  <2>3. \A m \in Ids : Exists(m) => rec'[m].ask = rec[m].ask
    BY ExistsStays, Simulates
  <2>4. /\ \A i \in proc[q].work : i.m \in Ids /\ Exists(i.m)
        /\ proc[q].missing \subseteq Ids
    BY <1>types DEF ProcTypeOK, ProcOK, Processes, Items
  <2> QED BY <2>1, <2>2, <2>3, <2>4 DEF Tracks, Acting, Current, Carrying
<1>4. CASE UNCHANGED vars
  BY <1>4, TracksStays DEF vars, svars, mvars, Tracks
<1>5. CASE GobgpRestarts
  <2>1. proc' = proc /\ lock' = lock /\ rec' = rec /\ rib' = [n \in Nlris |-> None]
    BY <1>5 DEF GobgpRestarts, mvars
  <2>2. \A i \in proc[q].work : Nlri(rec[i.m].ask) \in Nlris
    BY <1>types, PathOfAsk DEF ProcTypeOK, ProcOK, Processes, Items, TypeOK, TableOK, Shape, Exists
  <2> QED BY <2>1, <2>2 DEF Tracks, Acting, Current
<1>6. ~LockDrops /\ ~\E path \in Paths : LateAdd(path)
  BY DEF LateAdd
<1> QED BY <1>1, <1>2, <1>3, <1>4, <1>5, <1>6 DEF Next

\* A route that has a cause keeps it, unless it is the one that is deleted.
LEMMA CauseStays ==
    ASSUME TypeOK, ProcTypeOK, [Next]_vars, \A p \in Workers : Grounded(p) /\ Tracks(p),
           NEW path \in Paths, IsCaused(path), rib[path.nlri] # None
    PROVE  IsCaused(path)'
<1>1. PICK m \in Ids : IsRouteOf(path, m) /\ rec[m].state \in Carrying \cup {"failed"}
  BY DEF IsCaused
<1>step. [MNext]_mvars
  BY Simulates
<1>2. Exists(m)' /\ rec'[m].ask = rec[m].ask /\ rec'[m].dry_run = FALSE
  BY <1>1, <1>step, ExistsStays, FixedStep, NoneAssumption DEF IsRouteOf, FixedOnceSet
<1>3. IsRouteOf(path, m)'
  BY <1>1, <1>2 DEF IsRouteOf, Key, Exists
<1>4. rec'[m].state \in Carrying \cup {"failed"}
  <2>1. CASE rec[m].state = "withdrawing" /\ rec'[m].state # "withdrawing"
    <3>1. PICK p \in Workers : \E i \in proc[p].work : At(p, "mark_withdrawn", i) /\ i.m = m
      BY <2>1, WithdrawalEnds
    <3>2. PICK i \in proc[p].work : At(p, "mark_withdrawn", i) /\ i.m = m
      BY <3>1
    <3>3. i.state \in Carrying /\ i.dry \in BOOLEAN
      BY <3>2 DEF Tracks, At
    <3>4. i.dry = FALSE
      BY <1>1, <3>2, <3>3, NoneAssumption DEF Grounded, IsRouteOf
    <3>5. rib[Nlri(rec[m].ask)] = None
      BY <3>2, <3>4 DEF Tracks, At
    <3>6. path.nlri = Nlri(rec[m].ask)
      BY <1>1, KeyGivesNlri DEF IsRouteOf, Key, TypeOK, TableOK, Shape, Exists
    <3> QED BY <3>5, <3>6
  <2>2. rec'[m].state = rec[m].state \/ CanTransition(rec[m].state, rec'[m].state)
    BY <1>1, <1>step, LegalMoves DEF IsRouteOf, Carrying, Exists
  <2> QED BY <1>1, <2>1, <2>2 DEF CanTransition, Carrying, AwaitsApproval
<1> QED BY <1>3, <1>4 DEF IsCaused

\* What a process announces is the route of a mitigation that carries one.
LEMMA AnnouncedIsCaused ==
    ASSUME TypeOK, ProcTypeOK, NEW p \in Workers, Grounded(p), Tracks(p),
           NEW m \in Ids, Exists(m), Announces(p, m)
    PROVE  IsCaused(Announcement(rec[m].ask))
<1>1. rec[m].dry_run = FALSE
  BY DEF Announces, Grounded, At
<1>2. rec[m].state \in Carrying
  BY DEF Announces, Tracks, At, Carrying
<1>3. ReadBackKey(Announcement(rec[m].ask)) = Key(m)
  BY ReadBack DEF Key, TypeOK, TableOK, Shape, Exists
<1> QED BY <1>1, <1>2, <1>3 DEF IsCaused, IsRouteOf

\* Processes keep their lock and a call ends when its caller gives it up, or
\* there has been no fault yet.
Calm == (~LockMayDrop /\ ~LateAdds) \/ faults = 0

\* A fault is never undone.
LEMMA CalmBefore ==
    ASSUME ProcTypeOK, [Next]_vars, Calm'
    PROVE  Calm
BY FaultsCount DEF Calm, Fault, ProcTypeOK

\* As long as that is so, the strengthened invariant holds at every step.
LEMMA RoutesCausedStep ==
    ASSUME TypeOK, ProcTypeOK, RoutesGrounded, RoutesCaused, Calm', [Next]_vars
    PROVE  RoutesCaused'
<1>calm. ~LockDrops /\ (Fault => ~LateAdds)
  BY DEF Calm, Fault, LockDrops, ProcTypeOK
<1>known. \A p \in Workers : Grounded(p) /\ Tracks(p)
  BY DEF RoutesGrounded, RoutesCaused
<1>1. \A p \in Workers : Tracks(p)'
  BY <1>known, <1>calm, TracksStep DEF RoutesCaused
<1> DEFINE Caused(n) == rib'[n] = None \/ \E path \in Paths : path = rib'[n] /\ IsCaused(path)'
<1>stays. ASSUME NEW n \in Nlris, rib'[n] = rib[n] PROVE Caused(n)
  <2>1. rib[n] = None \/ (rib[n] \in Paths /\ rib[n].nlri = n)
    BY DEF ProcTypeOK, Maybe
  <2>2. \A path \in Paths : IsCaused(path) /\ rib[path.nlri] # None => IsCaused(path)'
    BY <1>known, CauseStays
  <2>3. rib[n] # None => IsCaused(rib[n])
    BY DEF RoutesCaused
  <2> QED BY <1>stays, <2>1, <2>2, <2>3
<1>2. late' = {} /\ \A n \in Nlris : Caused(n)
  <2>1. CASE UNCHANGED gvars
    BY <2>1, <1>stays DEF gvars, RoutesCaused
  <2>2. CASE GobgpRestarts
    BY <2>2 DEF GobgpRestarts
  <2>3. ASSUME NEW path \in Paths, LateAdd(path) PROVE FALSE
    BY <2>3 DEF LateAdd, RoutesCaused
  <2>4. ASSUME NEW o \in Nlris, DeletePath(o) PROVE <1>2
    <3>1. rib'[o] = None /\ \A n \in Nlris \ {o} : rib'[n] = rib[n]
      BY <2>4 DEF DeletePath, ProcTypeOK
    <3> QED BY <2>4, <3>1, <1>stays DEF DeletePath, RoutesCaused
  <2>5. ASSUME NEW p \in Workers, NEW m \in Ids, Exists(m), Announces(p, m), UNCHANGED mvars,
               AddPath(rec[m].ask)
        PROVE  <1>2
    <3> DEFINE o == Nlri(rec[m].ask)
    <3>1. rec[m].ask \in Asks /\ o \in Nlris /\ Announcement(rec[m].ask) \in Paths
      BY <2>5, PathOfAsk DEF TypeOK, TableOK, Shape, Exists
    <3>2. rib'[o] = Announcement(rec[m].ask) /\ \A n \in Nlris \ {o} : rib'[n] = rib[n]
      BY <2>5, <3>1 DEF AddPath, ProcTypeOK
    <3>3. IsCaused(Announcement(rec[m].ask))
      BY <2>5, <1>known, AnnouncedIsCaused
    <3>4. ASSUME NEW path, IsCaused(path) PROVE IsCaused(path)'
      BY <2>5, <3>4 DEF IsCaused, IsRouteOf, Key, Exists, mvars
    <3>5. Caused(o)
      BY <3>1, <3>2, <3>3, <3>4
    <3> QED BY <2>5, <3>2, <3>5, <1>stays DEF AddPath, RoutesCaused
  <2> QED BY <2>1, <2>2, <2>3, <2>4, <2>5, <1>calm, TableSteps DEF AddsPath, AddPathFails
<1> QED BY <1>1, <1>2 DEF RoutesCaused

\* What the processes know while it is calm, and that every route has a cause.
LEMMA CausesKnown == Spec => [](TypeOK /\ ProcTypeOK /\ RoutesGrounded /\ (Calm => RoutesCaused))
<1> DEFINE Inv == RoutesGrounded /\ (Calm => RoutesCaused)
<1>1. Init => Inv
  BY DEF Init, MInit, Absent, Down, RoutesGrounded, Grounded, RoutesCaused, Tracks, Acting
<1>2. TypeOK /\ ProcTypeOK /\ Inv /\ [Next]_vars => Inv'
  BY RoutesGroundedStep, RoutesCausedStep, CalmBefore
<1> QED BY <1>1, <1>2, ProcTypeCorrect, PTL DEF Spec

\* A route in GoBGP is that of a mitigation that holds one, or failed: with
\* any number of mitigators, crashes and failed calls, as long as a process
\* keeps the lock it took and no AddPath outlives its caller.  An AddPath that
\* does, or a second mitigator that takes the lock of one still working, leaves a
\* route without a cause.
THEOREM RouteHasCauseHolds == Spec => [](~LockMayDrop /\ ~LateAdds => RouteHasCause)
<1>1. (Calm => RoutesCaused) => (~LockMayDrop /\ ~LateAdds => RouteHasCause)
  BY DEF RoutesCaused, RouteHasCause, IsCaused, Carrying, Calm
<1> QED BY <1>1, CausesKnown, PTL

----------------------------------------------------------------------------
(* Every active mitigation has its route, until the first fault. *)

\* A pass sees every live mitigation, and an NLRI stands for one key.
Distinct ==
    /\ N <= BATCH
    /\ \A a, b \in Asks : Nlri(a) = Nlri(b) => DuplicateKey(a) = DuplicateKey(b)

Sent(m) == rec[m].state = "active" /\ rec[m].dry_run = FALSE

\* A process marks active what it announced, finds every active mitigation
\* in the list it compares with GoBGP, and withdraws the route of none.
Spares(p) ==
    /\ proc[p].pc # "cleanup"
    /\ proc[p].pc = "mark_active" =>
          \A i \in proc[p].work : Current(p, i) =>
              /\ rec[i.m].state \in Carrying
              /\ rec[i.m].state = "announcing" /\ rec[i.m].dry_run = FALSE =>
                    rib[Nlri(rec[i.m].ask)] # None
    /\ proc[p].pc = "list" => \A m \in Ids : Sent(m) => \E i \in Claims(proc[p].work) : i.m = m
    /\ proc[p].pc = "fix" => \A m \in Ids : Sent(m) => Nlri(rec[m].ask) \notin proc[p].stale

RoutesKept ==
    /\ \A p \in Workers : Spares(p)
    /\ \A m \in Ids : Sent(m) => rib[Nlri(rec[m].ask)] # None

\* A mitigation becomes active only by mark_active, of the process that is
\* at it.
LEMMA ActiveBegins ==
    ASSUME TypeOK, ProcTypeOK, [Next]_vars, NEW m \in Ids,
           rec[m].state # "active", rec'[m].state = "active"
    PROVE  /\ rec[m].state = "announcing"
           /\ \E p \in Workers : \E i \in proc[p].work :
                  At(p, "mark_active", i) /\ i.m = m /\ Done(p, i)
<1>rows. rec \in [Ids -> Records] /\ \A p \in Workers : \A i \in proc[p].work : i.m \in Ids
  BY DEF TypeOK, TableOK, ProcTypeOK, Processes, Items
<1>from. rec[m].state = "announcing"
  BY LegalMoves, Simulates DEF CanTransition, AwaitsApproval
<1>1. PICK p \in Workers : ProcessNext(p) \/ TimerFires(p) \/ Failures(p)
  BY <1>from, OperatorsEndNone
     DEF Next, Operators, LockDrops, GobgpRestarts, LateAdd, vars, mvars, Carrying
<1>2. ~\E n \in Ids : CreateInsert(p, n)
  BY <1>rows, <1>from DEF CreateInsert, Exists, Change
<1>3. ASSUME NEW i \in proc[p].work, Goes(p, i), StepBeginWithdrawal(p, i) \/ Announcing(p, i)
      PROVE  FALSE
  <2>1. CASE Announcing(p, i)
    <3>1. AnnounceCommit(p)
      BY <2>1 DEF Announcing
    <3>2. pending[p] \in Announcements
      BY <3>1 DEF AnnounceCommit, TypeOK, PendingOK, Idle, Creations, Approvals
    <3> QED BY <3>1, <3>2, <1>rows DEF AnnounceCommit, Announcements, Change, Records
  <2>2. CASE StepBeginWithdrawal(p, i)
    <3>1. CASE UNCHANGED mvars
      BY <3>1 DEF mvars
    <3>2. CASE \E cause \in Causes : BeginWithdrawal(p, i.m, cause)
      <4>1. PICK cause \in Causes : BeginWithdrawal(p, i.m, cause)
        BY <3>2
      <4>2. Change(i.m, DownState(i.m), Mitigator, [rec[i.m] EXCEPT !.cause = cause])
        BY <4>1 DEF BeginWithdrawal, Execute, Command
      <4> QED BY <4>2, <1>rows DEF Change, DownState, Records
    <3> QED BY <2>2, <3>1, <3>2 DEF StepBeginWithdrawal, Refused, Causes
  <2> QED BY <1>3, <2>1, <2>2
<1>4. PICK i \in proc[p].work :
         /\ Current(p, i) /\ Done(p, i)
         /\ \E to \in States, new \in Records :
               /\ Command(p, Mitigator, i.m, "execute", to, new)
               /\ to = "active" => proc[p].pc = "mark_active"
  BY <1>1, <1>2, <1>3, OwnCommands
<1>5. PICK to \in States, new \in Records :
         Change(i.m, to, Mitigator, new) /\ (to = "active" => proc[p].pc = "mark_active")
  BY <1>4 DEF Command
<1>6. i.m = m
  BY <1>5, <1>rows DEF Change
<1>7. to = "active"
  BY <1>5, <1>6, <1>rows, Changed
<1> QED BY <1>from, <1>4, <1>5, <1>6, <1>7 DEF At

\* What is active after a step was so before it, or was being marked active.
LEMMA SentAfter ==
    ASSUME TypeOK, ProcTypeOK, [Next]_vars, NEW m \in Ids, Sent(m)'
    PROVE  /\ rec[m].dry_run = FALSE /\ Exists(m) /\ rec'[m].ask = rec[m].ask
           /\ \/ Sent(m)
              \/ /\ rec[m].state = "announcing"
                 /\ \E p \in Workers : \E i \in proc[p].work :
                        At(p, "mark_active", i) /\ i.m = m /\ Done(p, i)
<1>1. rec[m].state \in {"active", "announcing"}
  BY ActiveBegins DEF Sent
<1>2. rec[m].dry_run \in BOOLEAN /\ Exists(m)
  BY <1>1 DEF TypeOK, TableOK, Shape, Exists
<1>3. rec[m].dry_run # None
  BY <1>2, NoneAssumption
<1>4. rec'[m].dry_run = rec[m].dry_run /\ rec'[m].ask = rec[m].ask
  BY <1>2, <1>3, Simulates, FixedStep DEF FixedOnceSet
<1> QED BY <1>1, <1>2, <1>4, ActiveBegins DEF Sent

\* With no more mitigations than a batch, the work list names every live one.
LEMMA WorkIsComplete ==
    ASSUME N <= BATCH, NEW m \in Ids, Live(m)
    PROVE  Item(m) \in Work
<1> DEFINE Older == {k \in Ids : k < m /\ Live(k)}
<1>0. m \in Nat /\ m >= 1 /\ m <= N /\ N \in Nat /\ BATCH \in Nat
  BY NAssumption, MitigatorAssumption DEF Ids
<1>1. Older \subseteq 1 .. (m - 1)
  BY <1>0 DEF Ids
<1>2. IsFiniteSet(1 .. (m - 1)) /\ Cardinality(1 .. (m - 1)) = m - 1
  BY <1>0, FS_Interval
<1>3. Cardinality(Older) <= m - 1 /\ Cardinality(Older) \in Nat
  BY <1>0, <1>1, <1>2, FS_Subset, FS_CardinalityType
<1>4. Cardinality(Older) < BATCH
  BY <1>0, <1>3
<1> QED BY <1>4 DEF Work

\* Where an NLRI stands for one key, the route at a mitigation's NLRI is its
\* own.
LEMMA RouteIsItsOwn ==
    ASSUME TypeOK, ProcTypeOK, Distinct, NEW m \in Ids, Exists(m), rib[Nlri(rec[m].ask)] # None
    PROVE  ReadBackKey(rib[Nlri(rec[m].ask)]) = Key(m)
<1> DEFINE n == Nlri(rec[m].ask)
<1>1. rec[m].ask \in Asks /\ n \in Nlris
  BY PathOfAsk DEF TypeOK, TableOK, Shape, Exists
<1>2. rib[n] \in Paths /\ rib[n].nlri = n
  BY <1>1 DEF ProcTypeOK, Maybe
<1>3. PICK b \in Asks : rib[n] = Announcement(b)
  BY <1>2 DEF Paths
<1>4. Nlri(b) = n
  BY <1>2, <1>3 DEF Announcement
<1> QED BY <1>1, <1>3, <1>4, ReadBack DEF Distinct, Key

\* Until the first fault, no step takes the route of an active mitigation.
LEMMA SentKeepsRoute ==
    ASSUME TypeOK, ProcTypeOK, RoutesCaused, RoutesKept, OneLivePerKey, Distinct, ~Fault,
           [Next]_vars, NEW m \in Ids, Sent(m)'
    PROVE  rib'[Nlri(rec'[m].ask)] # None
<1> DEFINE n == Nlri(rec[m].ask)
<1>1. Exists(m) /\ rec'[m].ask = rec[m].ask
  BY SentAfter
<1>2. n \in Nlris
  BY <1>1, PathOfAsk DEF TypeOK, TableOK, Shape, Exists
<1>3. rib[n] # None
  <2>1. CASE Sent(m)
    BY <2>1 DEF RoutesKept
  <2>2. CASE ~Sent(m)
    <3>1. /\ rec[m].state = "announcing" /\ rec[m].dry_run = FALSE
          /\ \E p \in Workers : \E i \in proc[p].work : At(p, "mark_active", i) /\ i.m = m
      BY <2>2, SentAfter
    <3>2. PICK p \in Workers : \E i \in proc[p].work : At(p, "mark_active", i) /\ i.m = m
      BY <3>1
    <3>3. Spares(p)
      BY DEF RoutesKept
    <3> QED BY <3>1, <3>2, <3>3 DEF Spares, At
  <2> QED BY <2>1, <2>2
<1>4. CASE UNCHANGED gvars
  BY <1>1, <1>3, <1>4 DEF gvars
<1>5. ~GobgpRestarts /\ ~\E path \in Paths : LateAdd(path)
  BY DEF GobgpRestarts, LateAdd, RoutesCaused
<1>6. ASSUME NEW p \in Workers, NEW o \in Nlris, Deletes(p, o), DeletePath(o), UNCHANGED mvars
      PROVE  rib'[n] # None
  <2>1. Sent(m)
    BY <1>6 DEF mvars, Sent
  <2>2. o # n
    <3>1. CASE o \in proc[p].stale
      BY <2>1, <3>1 DEF RoutesCaused, Tracks, RoutesKept, Spares
    <3>2. ASSUME NEW i \in proc[p].work, At(p, "del", i), o = Nlri(rec[i.m].ask), o = n PROVE FALSE
      <4>1. rec[i.m].state = "withdrawing" /\ i.m \in Ids
        BY <3>2 DEF RoutesCaused, Tracks, At, ProcTypeOK, Processes, Items
      <4>2. rec[i.m].ask \in Asks /\ rec[m].ask \in Asks
        BY <1>1, <4>1 DEF TypeOK, TableOK, Shape, Exists
      <4>3. Key(i.m) = Key(m)
        BY <3>2, <4>2 DEF Distinct, Key
      <4>4. Live(i.m) /\ Live(m)
        BY <2>1, <4>1 DEF Live, Sent, Terminal
      <4>5. i.m = m
        BY <4>1, <4>3, <4>4 DEF OneLivePerKey
      <4> QED BY <2>1, <4>1, <4>5 DEF Sent
    <3>3. ASSUME NEW i \in proc[p].work PROVE ~At(p, "cleanup", i)
      BY DEF RoutesKept, Spares, At
    <3> QED BY <1>6, <3>1, <3>2, <3>3 DEF Deletes
  <2> QED BY <1>2, <1>3, <1>6, <2>2 DEF DeletePath, ProcTypeOK
<1>7. ASSUME NEW k \in Ids, Exists(k), AddPath(rec[k].ask) PROVE rib'[n] # None
  <2>1. Announcement(rec[k].ask) # None
    BY <1>7, PathOfAsk DEF TypeOK, TableOK, Shape, Exists
  <2> QED BY <1>2, <1>3, <1>7, <2>1 DEF AddPath, ProcTypeOK
<1> QED BY <1>1, <1>4, <1>5, <1>6, <1>7, TableSteps DEF AddsPath

\* What is active is still what was, unless a process is marking.
LEMMA NoneBecomesActive ==
    ASSUME TypeOK, ProcTypeOK, RoutesCaused, [Next]_vars, NEW q \in Workers, Acting(q),
           proc[q].pc # "mark_active", NEW m \in Ids, Sent(m)'
    PROVE  Sent(m) /\ rec'[m].ask = rec[m].ask
<1>1. ASSUME NEW p \in Workers, NEW i \in proc[p].work, At(p, "mark_active", i) PROVE FALSE
  BY <1>1 DEF RoutesCaused, Tracks, Acting, At
<1> QED BY <1>1, SentAfter

\* Until the first fault, a process goes on with its item and spares every
\* active mitigation.
LEMMA GoesSpares ==
    ASSUME TypeOK, ProcTypeOK, RoutesGrounded, RoutesCaused, RoutesKept, ~Fault,
           NEW q \in Workers, NEW i \in proc[q].work, Goes(q, i)
    PROVE  Spares(q)'
<1>types. proc \in [Workers -> Processes] /\ proc[q] \in Processes /\ rec \in [Ids -> Records]
  BY DEF ProcTypeOK, TypeOK, TableOK
<1>ids. \A j \in proc[q].work : j.m \in Ids /\ Exists(j.m)
  BY <1>types DEF ProcTypeOK, ProcOK, Processes, Items
<1>known. Grounded(q) /\ Tracks(q)
  BY DEF RoutesGrounded, RoutesCaused
<1>cur. Current(q, i) /\ \E pc \in AtItem : Goto(q, pc)
  BY DEF Goes, StepBeginWithdrawal, StepTakeDown, StepResume, StepAnnounce, Announcing,
         AnnounceRefused, Add, AddFails, Cleanup, CleanupFails, Delete, At, AtItem
<1>same. /\ proc'[q].work = proc[q].work /\ proc'[q].pc \in AtItem
         /\ \A j \in proc[q].work : Current(q, j)' <=> Current(q, j)
  BY <1>cur, <1>types DEF Goto, Processes, Current
<1>pc. ASSUME NEW pc, Goto(q, pc) PROVE proc'[q].pc = pc
  BY <1>pc, <1>types DEF Goto, Processes
<1>one. \A j \in proc[q].work : Current(q, j) => j = i
  BY <1>cur, <1>ids, <1>known DEF Current, Ids, Tracks
<1> DEFINE Marks == /\ rec'[i.m].state \in Carrying
                    /\ rec'[i.m].state = "announcing" /\ rec'[i.m].dry_run = FALSE =>
                          rib'[Nlri(rec'[i.m].ask)] # None
<1>1. CASE proc'[q].pc \notin {"cleanup", "mark_active"}
  BY <1>1, <1>same DEF Spares, AtItem
<1>2. CASE proc'[q].pc = "mark_active" /\ Marks
  BY <1>2, <1>same, <1>one DEF Spares
<1>3. CASE Add(q, i)
  <2>1. rec[i.m].ask \in Asks /\ rec' = rec /\ AddPath(rec[i.m].ask) /\ proc'[q].pc = "mark_active"
    BY <1>3, <1>ids, <1>pc DEF Add, mvars, TypeOK, TableOK, Shape, Exists
  <2>2. rib'[Nlri(rec[i.m].ask)] # None
    BY <2>1, PathOfAsk DEF AddPath, ProcTypeOK
  <2>3. rec[i.m].state \in Carrying
    BY <1>3, <1>known DEF Add, At, Tracks, Carrying
  <2> QED BY <1>2, <2>1, <2>2, <2>3
<1>4. CASE Announcing(q, i)
  <2>1. AnnounceCommit(q) /\ proc[q].pc = "announce" /\ proc'[q].pc \in {"add", "mark_active"}
        /\ (proc'[q].pc = "mark_active" => EffectiveDryRun(proc[q].cfg))
    BY <1>4, <1>pc DEF Announcing, At
  <2>2. pending[q].m = i.m /\ pending[q].dry = EffectiveDryRun(proc[q].cfg)
    BY <2>1, <1>cur, <1>known DEF Grounded
  <2>3. rec'[i.m].state = "announcing" /\ rec'[i.m].dry_run = EffectiveDryRun(proc[q].cfg)
    BY <2>1, <2>2, <1>types, <1>ids DEF AnnounceCommit, Change, Records
  <2>4. EffectiveDryRun(proc[q].cfg) => Marks
    BY <2>3 DEF Carrying
  <2> QED BY <1>1, <1>2, <2>1, <2>4
<1>5. CASE StepResume(q, i) /\ Goto(q, IF i.dry = FALSE THEN "resume" ELSE "mark_active")
  <2>1. i.state = "announcing" /\ rec' = rec
    BY <1>5 DEF StepResume, mvars
  <2>2. i.dry \in BOOLEAN /\ rec[i.m].state \in Carrying
    BY <2>1, <1>known DEF Tracks, Carrying
  <2>3. rec[i.m].dry_run = i.dry
    BY <2>2, <1>known, NoneAssumption DEF Grounded
  <2>4. CASE i.dry = FALSE
    BY <1>1, <1>5, <1>pc, <2>4
  <2>5. CASE i.dry = TRUE
    <3>1. proc'[q].pc = "mark_active"
      BY <1>5, <1>pc, <2>5
    <3>2. Marks
      BY <2>1, <2>2, <2>3, <2>5
    <3> QED BY <1>2, <3>1, <3>2
  <2> QED BY <2>2, <2>4, <2>5
<1>6. CASE Cleanup(q, i) \/ CleanupFails(q, i) \/ AddFails(q, i)
  BY <1>6 DEF Cleanup, CleanupFails, AddFails, At, RoutesKept, Spares
<1>7. ASSUME NEW pc \in {"del", "announce", "mark_failed", "mark_withdrawn"}, Goto(q, pc)
      PROVE  Spares(q)'
  BY <1>1, <1>7, <1>pc
<1> QED BY <1>3, <1>4, <1>5, <1>6, <1>7 DEF Goes, StepTakeDown, StepAnnounce

\* Until the first fault, every process spares every active mitigation.
LEMMA SparesStep ==
    ASSUME TypeOK, ProcTypeOK, RoutesGrounded, RoutesCaused, RoutesKept, Distinct, ~Fault,
           [Next]_vars, NEW q \in Workers
    PROVE  Spares(q)'
<1>types. proc \in [Workers -> Processes] /\ proc[q] \in Processes /\ rec \in [Ids -> Records]
  BY DEF ProcTypeOK, TypeOK, TableOK
<1>known. Tracks(q) /\ Spares(q)
  BY DEF RoutesCaused, RoutesKept
<1>idle. ~Acting(q) /\ proc'[q] = proc[q] => Spares(q)'
  BY DEF Acting, Spares
<1>same. ASSUME rec' = rec, rib' = rib, proc'[q].pc = proc[q].pc, proc'[q].work = proc[q].work,
                proc'[q].stale = proc[q].stale
         PROVE  Spares(q)'
  BY <1>same, <1>known DEF Spares, Sent, Current
<1>1. ASSUME NEW p \in Workers, ProcessNext(p) \/ TimerFires(p) \/ Failures(p), q # p
      PROVE  Spares(q)'
  <2>1. proc'[q] = proc[q]
    BY <1>1, ProcessSteps DEF Steps
  <2>2. Acting(q) => rec' = rec /\ rib' = rib
    BY <1>1, StandbySteps DEF gvars, RoutesCaused, Tracks
  <2> QED BY <2>1, <2>2, <1>idle, <1>same
<1>2. CASE ProcessNext(q) \/ TimerFires(q) \/ Failures(q)
  <2>1. CASE Leaves(q)
    <3>1. CASE proc'[q].pc # "fix"
      BY <2>1, <3>1 DEF Leaves, Spares, AtItem
    <3>2. CASE proc'[q].pc = "fix"
      <4>1. proc[q].pc = "fix" /\ proc'[q].stale \subseteq proc[q].stale
        BY <2>1, <3>2 DEF Leaves
      <4>2. Acting(q)
        BY <4>1 DEF Acting
      <4>3. \A m \in Ids : Sent(m)' => Sent(m) /\ rec'[m].ask = rec[m].ask
        BY <4>1, <4>2, NoneBecomesActive
      <4> QED BY <3>2, <4>1, <4>3, <1>known DEF Spares
    <3> QED BY <3>1, <3>2
  <2>2. CASE TimerFires(q)
    BY <2>2, <1>same, <1>types DEF TimerFires, Processes, mvars, gvars
  <2>3. CASE PassRead(q)
    BY <2>3, <1>types DEF PassRead, Spares, Processes
  <2>4. CASE ReconcileBegin(q)
    <3>1. proc'[q].pc = "list" /\ proc'[q].work = Work /\ rec' = rec
      BY <2>4, <1>types DEF ReconcileBegin, Processes, mvars
    <3>2. ASSUME NEW m \in Ids, Sent(m) PROVE \E i \in Claims(Work) : i.m = m
      <4>1. Item(m) \in Work
        BY <3>2, WorkIsComplete DEF Distinct, Sent, Live, Terminal
      <4>2. Item(m) \in Claims(Work) /\ Item(m).m = m
        BY <3>2, <4>1 DEF Claims, Item, Sent
      <4> QED BY <4>2
    <3> QED BY <3>1, <3>2 DEF Spares, Sent
  <2>5. CASE ReconcileList(q)
    <3>1. /\ proc'[q].pc = "fix" /\ rec' = rec /\ proc[q].pc = "list"
          /\ \A n \in proc'[q].stale : ReadBackKey(rib[n]) \notin ClaimedKeys(proc[q].work)
      BY <2>5, <1>types DEF ReconcileList, Processes, mvars
    <3>2. ASSUME NEW m \in Ids, Sent(m) PROVE Nlri(rec[m].ask) \notin proc'[q].stale
      <4>1. Exists(m) /\ rib[Nlri(rec[m].ask)] # None
        BY <3>2 DEF Sent, Exists, RoutesKept
      <4>2. ReadBackKey(rib[Nlri(rec[m].ask)]) = Key(m)
        BY <4>1, RouteIsItsOwn
      <4>3. Key(m) \in ClaimedKeys(proc[q].work)
        BY <3>1, <3>2, <1>known DEF Spares, ClaimedKeys
      <4> QED BY <3>1, <4>2, <4>3
    <3> QED BY <3>1, <3>2 DEF Spares, Sent
  <2>6. ASSUME NEW i \in proc[q].work, Goes(q, i) PROVE Spares(q)'
    BY <2>6, GoesSpares
  <2> QED BY <1>2, <2>1, <2>2, <2>3, <2>4, <2>5, <2>6, ProcessMoves
<1>3. CASE Operators
  <2>1. proc' = proc /\ rib' = rib
    BY <1>3 DEF Operators, svars
  <2>2. CASE ~Acting(q)
    BY <2>1, <2>2, <1>idle
  <2>3. CASE Acting(q)
    <3>1. \A m \in Ids : rec[m].state \in Carrying => rec'[m].state \in {rec[m].state, "withdrawing"}
      BY <1>3, OperatorsEndNone DEF Operators
    <3>2. \A i \in proc[q].work : i.m \in Ids /\ Exists(i.m)
      BY <1>types DEF ProcTypeOK, ProcOK, Processes, Items
    <3>3. CASE proc[q].pc = "mark_active"
      <4> SUFFICES ASSUME NEW i \in proc[q].work, Current(q, i)
                   PROVE  /\ rec'[i.m].state \in Carrying
                          /\ rec'[i.m].state = "announcing" /\ rec'[i.m].dry_run = FALSE =>
                                rib'[Nlri(rec'[i.m].ask)] # None
        BY <2>1, <3>3 DEF Spares, Current
      <4>1. rec[i.m].state \in Carrying /\ rec[i.m].dry_run \in BOOLEAN
        BY <3>2, <3>3, <1>known DEF Spares, TypeOK, TableOK, Shape, Carrying
      <4>2. rec'[i.m].dry_run = rec[i.m].dry_run /\ rec'[i.m].ask = rec[i.m].ask
        BY <3>2, <4>1, Simulates, FixedStep, NoneAssumption DEF FixedOnceSet
      <4> QED BY <2>1, <3>1, <3>2, <3>3, <4>1, <4>2, <1>known DEF Spares, Carrying
    <3>4. CASE proc[q].pc # "mark_active"
      <4>1. \A m \in Ids : Sent(m)' => Sent(m) /\ rec'[m].ask = rec[m].ask
        BY <2>3, <3>4, NoneBecomesActive
      <4> QED BY <2>1, <3>4, <4>1, <1>known DEF Spares
    <3> QED BY <3>3, <3>4
  <2> QED BY <2>2, <2>3
<1>4. CASE UNCHANGED vars
  BY <1>4, <1>same DEF vars, svars, mvars
<1>5. ~LockDrops /\ ~GobgpRestarts /\ ~\E path \in Paths : LateAdd(path)
  BY DEF LockDrops, GobgpRestarts, LateAdd, RoutesCaused
<1> QED BY <1>1, <1>2, <1>3, <1>4, <1>5 DEF Next

\* As long as nothing fails, an active mitigation that was announced live has
\* its own route in GoBGP, with any number of processes and whatever the
\* operators and reconciliation do: if there are no more mitigations than a
\* batch (reconciliation withdraws what it did not list), and no two keys
\* share an NLRI.
THEOREM ActiveHasItsRouteHolds == Spec => [](Distinct => ActiveHasItsRoute)
<1> DEFINE Known == TypeOK /\ ProcTypeOK /\ RoutesGrounded /\ (Calm => RoutesCaused)
           Inv == Distinct /\ faults = 0 => RoutesKept
<1>1. Init => Inv
  BY NoneAssumption DEF Init, MInit, Absent, Down, RoutesKept, Spares, Sent
<1>2. Known /\ OneLivePerKey /\ Inv /\ [Next]_vars => Inv'
  <2> SUFFICES ASSUME Known, OneLivePerKey, Inv, [Next]_vars, Distinct, faults' = 0
               PROVE  RoutesKept'
    BY DEF Distinct
  <2>1. ~Fault /\ faults = 0
    BY FaultsCount DEF Fault, ProcTypeOK
  <2>2. RoutesCaused /\ RoutesKept
    BY <2>1 DEF Calm
  <2> QED BY <2>1, <2>2, SparesStep, SentKeepsRoute DEF RoutesKept
<1>3. Known /\ Inv => (Distinct => ActiveHasItsRoute)
  BY RouteIsItsOwn DEF ActiveHasItsRoute, RoutesKept, Sent, Exists
<1> QED BY <1>1, <1>2, <1>3, CausesKnown, StorePromises, PTL DEF Spec
=============================================================================
