----------------------------- MODULE Mitigator ------------------------------
(***************************************************************************)
(* crates/mitigator: the processes that announce and withdraw routes, over *)
(* the store of Mitigation and GoBGP's table.                              *)
(*                                                                         *)
(* One mitigator acts at a time, by a PostgreSQL advisory lock.  The one   *)
(* that holds it loops: reconcile GoBGP with the store when the timer says *)
(* so, then one pass over the live mitigations.  Everything it decides on  *)
(* was read earlier (the kill switch, the work list, GoBGP's table), and   *)
(* operators keep changing the store meanwhile.  Every database command    *)
(* and every RPC is a step of its own, and may fail, or succeed without    *)
(* its answer arriving.                                                    *)
(***************************************************************************)
EXTENDS Mitigation

CONSTANTS
    BATCH,             \* how many live mitigations a pass looks at
    CandidateOf,       \* incident -> the [tenant, ask] it suggests
    ProposalsEnabled,
    LockMayDrop,       \* the connection that holds the lock may be lost
    LateAdds,          \* an AddPath may take effect after its caller gave up
    MaxFaults          \* bounds crashes, lost connections and failed calls

ASSUME MitigatorAssumption ==
    /\ BATCH \in Nat \ {0}
    /\ MaxFaults \in Nat
    /\ ProposalsEnabled \in BOOLEAN /\ LockMayDrop \in BOOLEAN /\ LateAdds \in BOOLEAN
    /\ \A i \in Incidents : CandidateOf[i].tenant \in Tenants /\ CandidateOf[i].ask \in Asks
    /\ None \notin Workers \cup {Announcement(ask) : ask \in Asks}

VARIABLES
    proc,              \* the mitigator processes
    lock,              \* who holds SINGLE_MITIGATOR_LOCK
    rib,               \* GoBGP's global table: NLRI -> owned path, or None
    late,              \* paths of AddPath calls given up on, still under way
    faults             \* how many faults have happened

gvars == <<rib, late>>
svars == <<proc, lock, rib, late, faults>>
vars == <<mvars, svars>>

Nlris == {Nlri(ask) : ask \in Asks}
Paths == {Announcement(ask) : ask \in Asks}

Down == [pc |-> "down", cfg |-> None, timer |-> FALSE, ks |-> FALSE,
         work |-> {}, stale |-> {}, missing |-> {}, cands |-> {}]

\* The states of a process that holds, or believes it holds, the lock.
Acting(p) == proc[p].pc \notin {"down", "standby"}

----------------------------------------------------------------------------
(* What a pass reads. *)

Item(m) == [m |-> m, state |-> rec[m].state, due |-> rec[m].due, dry |-> rec[m].dry_run]

\* MitigationStore::work: the oldest live mitigations, up to a limit.
Work ==
    {Item(m) : m \in {n \in Ids :
        Live(n) /\ Cardinality({k \in Ids : k < n /\ Live(k)}) < BATCH}}

\* The item a pass is at: the oldest one left.
Current(p, i) == i \in proc[p].work /\ \A j \in proc[p].work : i.m <= j.m

At(p, pc, i) == proc[p].pc = pc /\ Current(p, i)

Goto(p, pc) == proc' = [proc EXCEPT ![p].pc = pc]

\* The step on item i is over, or failed and will be retried by a later pass.
Done(p, i) == proc' = [proc EXCEPT ![p].pc = "items", ![p].work = @ \ {i}]

HasBgp(p) == proc[p].cfg.bgp_enabled

AddPath(ask) == rib' = [rib EXCEPT ![Nlri(ask)] = Announcement(ask)] /\ UNCHANGED late
DeletePath(n) == rib' = [rib EXCEPT ![n] = None] /\ UNCHANGED late

Fault == faults < MaxFaults /\ faults' = faults + 1

\* A failed AddPath took effect, or did not, or may yet.
AddPathFails(ask) ==
    \/ AddPath(ask)
    \/ UNCHANGED gvars
    \/ LateAdds /\ late' = late \cup {Announcement(ask)} /\ UNCHANGED rib

DeletePathFails(n) == DeletePath(n) \/ UNCHANGED gvars

----------------------------------------------------------------------------
(* lib.rs: run *)

Start(p, cfg) ==
    /\ proc[p].pc = "down"
    /\ proc' = [proc EXCEPT ![p] = [Down EXCEPT !.pc = "standby", !.cfg = cfg]]
    /\ UNCHANGED <<mvars, lock, gvars, faults>>

\* pg_try_advisory_lock succeeds; the first reconciliation is due at once.
AcquireLock(p) ==
    /\ proc[p].pc = "standby"
    /\ lock = None
    /\ lock' = p
    /\ proc' = [proc EXCEPT ![p].pc = "loop", ![p].timer = TRUE]
    /\ UNCHANGED <<mvars, gvars, faults>>

TimerFires(p) ==
    /\ Acting(p)
    /\ HasBgp(p) /\ ~proc[p].timer
    /\ proc' = [proc EXCEPT ![p].timer = TRUE]
    /\ UNCHANGED <<mvars, lock, gvars, faults>>

----------------------------------------------------------------------------
(* service.rs: reconcile *)

\* The work list is read.
ReconcileBegin(p) ==
    /\ proc[p].pc = "loop"
    /\ HasBgp(p) /\ proc[p].timer
    /\ proc' = [proc EXCEPT ![p].pc = "list", ![p].work = Work]
    /\ UNCHANGED <<mvars, lock, gvars, faults>>

\* Mutant: what is active is taken for settled.
ClaimsUnsettled(work) == {i \in work : i.state = "announcing" /\ i.dry = FALSE}

\* Only routes that were really sent should be in GoBGP.
Claims(work) ==
    {i \in work : i.state \in {"announcing", "active"} /\ i.dry = FALSE}

ClaimedKeys(work) == {Key(i.m) : i \in Claims(work)}

\* Mutants: a reconciliation that only restores, and one that only withdraws.
ReconcileRestoresOnly(p) ==
    LET ownedKeys == {ReadBackKey(rib[n]) : n \in {o \in Nlris : rib[o] # None}}
    IN
    /\ proc[p].pc = "list"
    /\ proc' = [proc EXCEPT
          ![p].pc = "fix",
          ![p].work = {},
          ![p].missing = {i.m : i \in {j \in Claims(proc[p].work) :
                                  j.state = "active" /\ Key(j.m) \notin ownedKeys}}]
    /\ UNCHANGED <<mvars, lock, gvars, faults>>

ReconcileWithdrawsOnly(p) ==
    /\ proc[p].pc = "list"
    /\ proc' = [proc EXCEPT
          ![p].pc = "fix",
          ![p].work = {},
          ![p].stale = {n \in Nlris : rib[n] # None
                          /\ ReadBackKey(rib[n]) \notin ClaimedKeys(proc[p].work)}]
    /\ UNCHANGED <<mvars, lock, gvars, faults>>

\* owned_routes, and the comparison: what nothing claims, what is missing.
ReconcileList(p) ==
    LET owned == {n \in Nlris : rib[n] # None}
        ownedKeys == {ReadBackKey(rib[n]) : n \in owned}
        work == proc[p].work
    IN
    /\ proc[p].pc = "list"
    /\ proc' = [proc EXCEPT
          ![p].pc = "fix",
          ![p].work = {},
          ![p].stale = {n \in owned : ReadBackKey(rib[n]) \notin ClaimedKeys(work)},
          ![p].missing = {i.m : i \in {j \in Claims(work) :
                                  j.state = "active" /\ Key(j.m) \notin ownedKeys}}]
    /\ UNCHANGED <<mvars, lock, gvars, faults>>

ReconcileWithdraw(p, n) ==
    /\ proc[p].pc = "fix"
    /\ n \in proc[p].stale
    /\ DeletePath(n)
    /\ proc' = [proc EXCEPT ![p].stale = @ \ {n}]
    /\ UNCHANGED <<mvars, lock, faults>>

\* The withdrawals come first.
ReconcileRestore(p, m) ==
    /\ proc[p].pc = "fix"
    /\ proc[p].stale = {}
    /\ m \in proc[p].missing
    /\ AddPath(rec[m].ask)
    /\ proc' = [proc EXCEPT ![p].missing = @ \ {m}]
    /\ UNCHANGED <<mvars, lock, faults>>

\* Reconciled, or given up at the first error (any call of it may fail):
\* the pass comes next and the timer starts again.
AfterReconcile(p) ==
    proc' = [proc EXCEPT ![p].pc = "pass", ![p].timer = FALSE, ![p].work = {},
                         ![p].stale = {}, ![p].missing = {}]

ReconcileEnd(p) ==
    /\ proc[p].pc = "fix"
    /\ proc[p].stale = {} /\ proc[p].missing = {}
    /\ AfterReconcile(p)
    /\ UNCHANGED <<mvars, lock, gvars, faults>>

ReconcileFails(p) ==
    /\ \/ proc[p].pc \in {"list", "fix"}
       \/ proc[p].pc = "loop" /\ HasBgp(p) /\ proc[p].timer
    /\ Fault
    /\ IF \E n \in proc[p].stale : TRUE
         THEN \E n \in proc[p].stale : DeletePathFails(n)
         ELSE (\E m \in proc[p].missing : AddPathFails(rec[m].ask)) \/ UNCHANGED gvars
    /\ AfterReconcile(p)
    /\ UNCHANGED <<mvars, lock>>

----------------------------------------------------------------------------
(* service.rs: run_once and step *)

\* Mutant: only the configured switch is looked at.
PassBeginConfigured(p) ==
    /\ \/ proc[p].pc = "loop" /\ ~(HasBgp(p) /\ proc[p].timer)
       \/ proc[p].pc = "pass"
    /\ proc' = [proc EXCEPT ![p].pc = "read", ![p].ks = proc[p].cfg.kill_switch]
    /\ UNCHANGED <<mvars, lock, gvars, faults>>

\* The kill switch is read; the configured one counts as well.
PassBegin(p) ==
    /\ \/ proc[p].pc = "loop" /\ ~(HasBgp(p) /\ proc[p].timer)
       \/ proc[p].pc = "pass"
    /\ proc' = [proc EXCEPT ![p].pc = "read",
                            ![p].ks = kill.engaged \/ proc[p].cfg.kill_switch]
    /\ UNCHANGED <<mvars, lock, gvars, faults>>

PassRead(p) ==
    /\ proc[p].pc = "read"
    /\ proc' = [proc EXCEPT ![p].pc = "items", ![p].work = Work]
    /\ UNCHANGED <<mvars, lock, gvars, faults>>

\* A command the record's state no longer allows is refused, and the step ends.
Refused(p, i, to) ==
    /\ Unlocked(i.m, p)
    /\ ~CanTransition(rec[i.m].state, to)
    /\ Done(p, i)
    /\ UNCHANGED mvars

\* Mutant: the record is written as the work list had it.
StepExpireBlind(p, i) ==
    /\ At(p, "items", i)
    /\ i.state \in AwaitsApproval /\ i.due
    /\ Change(i.m, "expired", Mitigator, rec[i.m])
    /\ Done(p, i)
    /\ UNCHANGED <<kill, idem, apiCfg, pending, reply, lock, gvars, faults>>

StepExpire(p, i) ==
    /\ At(p, "items", i)
    /\ i.state \in AwaitsApproval /\ i.due
    /\ \/ Expire(p, i.m) /\ Done(p, i)
       \/ Refused(p, i, "expired")
    /\ UNCHANGED <<lock, gvars, faults>>

StepWithdrawApproved(p, i) ==
    /\ At(p, "items", i)
    /\ i.state = "approved" /\ proc[p].ks
    /\ \/ BeginWithdrawal(p, i.m, "kill_switch") /\ Done(p, i)
       \/ Refused(p, i, DownState(i.m))
    /\ UNCHANGED <<lock, gvars, faults>>

\* The kill switch, or the duration; then the route is taken down.
StepBeginWithdrawal(p, i) ==
    /\ At(p, "items", i)
    /\ \/ i.state \in {"announcing", "active"} /\ proc[p].ks
       \/ i.state = "active" /\ ~proc[p].ks /\ i.due
    /\ \/ /\ BeginWithdrawal(p, i.m, IF proc[p].ks THEN "kill_switch" ELSE "duration_reached")
          /\ Goto(p, "del")
       \/ Refused(p, i, DownState(i.m))
    /\ UNCHANGED <<lock, gvars, faults>>

\* Left half-way by a restart: announce again if it was live, then mark it.
StepResume(p, i) ==
    /\ At(p, "items", i)
    /\ i.state = "announcing" /\ ~proc[p].ks
    /\ IF i.dry = FALSE
         THEN IF HasBgp(p) THEN Goto(p, "resume") ELSE Done(p, i)
         ELSE Goto(p, "mark_active")
    /\ UNCHANGED <<mvars, lock, gvars, faults>>

\* Mutant: a withdrawal under way is left to whoever began it.
StepTakeDownOnce(p, i) ==
    /\ At(p, "items", i)
    /\ i.state = "withdrawing"
    /\ Done(p, i)
    /\ UNCHANGED <<mvars, lock, gvars, faults>>

StepTakeDown(p, i) ==
    /\ At(p, "items", i)
    /\ i.state = "withdrawing"
    /\ Goto(p, "del")
    /\ UNCHANGED <<mvars, lock, gvars, faults>>

StepNothing(p, i) ==
    /\ At(p, "items", i)
    /\ \/ i.state \in AwaitsApproval /\ ~i.due
       \/ i.state = "active" /\ ~proc[p].ks /\ ~i.due
    /\ Done(p, i)
    /\ UNCHANGED <<mvars, lock, gvars, faults>>

----------------------------------------------------------------------------
(* service.rs: announce *)

StepAnnounce(p, i) ==
    /\ At(p, "items", i)
    /\ i.state = "approved" /\ ~proc[p].ks
    /\ AnnounceRead(p, i.m, proc[p].cfg, EffectiveDryRun(proc[p].cfg))
    /\ Goto(p, "announce")
    /\ UNCHANGED <<lock, gvars, faults>>

Announcing(p, i) ==
    /\ At(p, "announce", i)
    /\ AnnounceCommit(p)
    /\ Goto(p, IF EffectiveDryRun(proc[p].cfg) THEN "mark_active" ELSE "add")
    /\ UNCHANGED <<lock, gvars, faults>>

\* Mutant: the answer of begin_announcing is not looked at.
AnnounceAnyway(p, i) ==
    /\ At(p, "announce", i)
    /\ AnnounceRollback(p)
    /\ Goto(p, "add")
    /\ UNCHANGED <<lock, gvars, faults>>

\* Refused by the guard: it ends as failed.  Any other refusal ends the step.
AnnounceRefused(p, i) ==
    /\ At(p, "announce", i)
    /\ AnnounceRollback(p)
    /\ IF CanTransition(rec[i.m].state, "announcing")
         THEN Goto(p, "mark_failed")
         ELSE Done(p, i)
    /\ UNCHANGED <<lock, gvars, faults>>

Add(p, i) ==
    /\ At(p, "add", i) \/ At(p, "resume", i)
    /\ AddPath(rec[i.m].ask)
    /\ Goto(p, "mark_active")
    /\ UNCHANGED <<mvars, lock, faults>>

\* While announcing, what may be partial is taken down and the mitigation
\* marked failed; while resuming, the step ends and is retried.
AddFails(p, i) ==
    /\ Fault
    /\ AddPathFails(rec[i.m].ask)
    /\ \/ At(p, "add", i) /\ Goto(p, "cleanup")
       \/ At(p, "resume", i) /\ Done(p, i)
    /\ UNCHANGED <<mvars, lock>>

\* The outcome of the cleanup is ignored.
Cleanup(p, i) ==
    /\ At(p, "cleanup", i)
    /\ DeletePath(Nlri(rec[i.m].ask))
    /\ Goto(p, "mark_failed")
    /\ UNCHANGED <<mvars, lock, faults>>

CleanupFails(p, i) ==
    /\ At(p, "cleanup", i)
    /\ Fault
    /\ UNCHANGED gvars
    /\ Goto(p, "mark_failed")
    /\ UNCHANGED <<mvars, lock>>

EndActive(p, i) ==
    /\ At(p, "mark_active", i)
    /\ \/ MarkActive(p, i.m) /\ Done(p, i)
       \/ Refused(p, i, "active")
    /\ UNCHANGED <<lock, gvars, faults>>

EndFailed(p, i) ==
    /\ At(p, "mark_failed", i)
    /\ \/ MarkFailed(p, i.m) /\ Done(p, i)
       \/ Refused(p, i, "failed")
    /\ UNCHANGED <<lock, gvars, faults>>

----------------------------------------------------------------------------
(* service.rs: take_down.  Only what was announced live is in GoBGP. *)

Delete(p, i) ==
    /\ At(p, "del", i)
    /\ IF i.dry = FALSE
         THEN IF HasBgp(p)
                THEN DeletePath(Nlri(rec[i.m].ask)) /\ Goto(p, "mark_withdrawn")
                ELSE UNCHANGED gvars /\ Done(p, i)
         ELSE UNCHANGED gvars /\ Goto(p, "mark_withdrawn")
    /\ UNCHANGED <<mvars, lock, faults>>

\* Mutant: a failed DeletePath is ignored.
DeleteIgnored(p, i) ==
    /\ At(p, "del", i)
    /\ i.dry = FALSE /\ HasBgp(p)
    /\ Fault
    /\ DeletePathFails(Nlri(rec[i.m].ask))
    /\ Goto(p, "mark_withdrawn")
    /\ UNCHANGED <<mvars, lock>>

DeleteFails(p, i) ==
    /\ At(p, "del", i)
    /\ i.dry = FALSE /\ HasBgp(p)
    /\ Fault
    /\ DeletePathFails(Nlri(rec[i.m].ask))
    /\ Done(p, i)
    /\ UNCHANGED <<mvars, lock>>

EndWithdrawn(p, i) ==
    /\ At(p, "mark_withdrawn", i)
    /\ \/ MarkWithdrawn(p, i.m) /\ Done(p, i)
       \/ Refused(p, i, "withdrawn")
    /\ UNCHANGED <<lock, gvars, faults>>

----------------------------------------------------------------------------
(* service.rs: propose, and the end of a pass *)

\* proposal_candidates: open incidents that no mitigation answers.
Candidates == {c \in Incidents : \A m \in Ids : rec[m].incident # c}

PassEnd(p) ==
    /\ proc[p].pc = "items" /\ proc[p].work = {}
    /\ proc' = IF ProposalsEnabled /\ ~proc[p].ks
                 THEN [proc EXCEPT ![p].pc = "propose", ![p].cands = Candidates]
                 ELSE [proc EXCEPT ![p].pc = "loop"]
    /\ UNCHANGED <<mvars, lock, gvars, faults>>

\* The candidate is allowlisted, whatever the switch says.
Proposable(p, c) == Permits(proc[p].cfg, CandidateOf[c].tenant, CandidateOf[c].ask, FALSE)

ProposeSkip(p, c) ==
    /\ proc[p].pc = "propose"
    /\ c \in proc[p].cands
    /\ ~Proposable(p, c)
    /\ proc' = [proc EXCEPT ![p].cands = @ \ {c}]
    /\ UNCHANGED <<mvars, lock, gvars, faults>>

ProposeStart(p, c) ==
    /\ proc[p].pc = "propose"
    /\ c \in proc[p].cands
    /\ Proposable(p, c)
    /\ Propose(p, proc[p].cfg, CandidateOf[c].tenant, CandidateOf[c].ask, c)
    /\ proc' = [proc EXCEPT ![p].pc = "proposing", ![p].cands = @ \ {c}]
    /\ UNCHANGED <<lock, gvars, faults>>

\* Refused by the kill switch engaged since the pass began: the pass fails.
ProposeRefused(p, c) ==
    /\ proc[p].pc = "propose"
    /\ c \in proc[p].cands
    /\ Proposable(p, c)
    /\ kill.engaged
    /\ proc' = [proc EXCEPT ![p].pc = "loop", ![p].cands = {}]
    /\ UNCHANGED <<mvars, lock, gvars, faults>>

Proposing(p) ==
    /\ proc[p].pc = "proposing"
    /\ \/ CreateLookup(p) /\ UNCHANGED proc
       \/ CreateDuplicate(p) /\ Goto(p, "propose")
       \/ \E m \in Ids : CreateInsert(p, m) /\ Goto(p, "propose")
    /\ UNCHANGED <<lock, gvars, faults>>

\* The bound N: with no number left the proposal is dropped.
ProposeNoRoom(p) ==
    /\ proc[p].pc = "proposing"
    /\ pending[p].op = "insert" /\ ~LiveTwin(pending[p].ask)
    /\ \A m \in Ids : Exists(m)
    /\ WorkerLost(p)
    /\ Goto(p, "propose")
    /\ UNCHANGED <<lock, gvars, faults>>

ProposeEnd(p) ==
    /\ proc[p].pc = "propose" /\ proc[p].cands = {}
    /\ Goto(p, "loop")
    /\ UNCHANGED <<mvars, lock, gvars, faults>>

----------------------------------------------------------------------------
(* What goes wrong around the steps *)

\* A database call fails, before or after it took effect: the step is given
\* up, or the whole pass.
Rollback(p) ==
    IF pending[p] = Idle THEN UNCHANGED mvars ELSE WorkerLost(p)

DatabaseFails(p) ==
    /\ proc[p].pc \in {"read", "items", "announce", "add", "mark_active", "mark_failed",
                       "del", "mark_withdrawn", "propose", "proposing"}
    /\ Fault
    /\ Rollback(p)
    /\ \/ proc' = [proc EXCEPT ![p].pc = "loop", ![p].work = {}, ![p].cands = {}]
       \/ \E i \in proc[p].work : Current(p, i) /\ Done(p, i)
    /\ UNCHANGED <<lock, gvars>>

\* The process stops anywhere, and its connections with it.
Crash(p) ==
    /\ proc[p].pc # "down"
    /\ Fault
    /\ proc' = [proc EXCEPT ![p] = Down]
    /\ lock' = IF lock = p THEN None ELSE lock
    /\ Rollback(p)
    /\ UNCHANGED gvars

\* The connection that took the lock is never used again: when the server
\* drops it the lock is free, and the process does not notice.
LockDrops ==
    /\ LockMayDrop /\ lock # None
    /\ Fault
    /\ lock' = None
    /\ UNCHANGED <<mvars, proc, gvars>>

\* gobgpd restarts with an empty table; calls under way are lost.
GobgpRestarts ==
    /\ Fault
    /\ rib' = [n \in Nlris |-> None]
    /\ late' = {}
    /\ UNCHANGED <<mvars, proc, lock>>

LateAdd(path) ==
    /\ path \in late
    /\ rib' = [rib EXCEPT ![path.nlri] = path]
    /\ late' = late \ {path}
    /\ UNCHANGED <<mvars, proc, lock, faults>>

----------------------------------------------------------------------------
Init ==
    /\ MInit
    /\ proc = [p \in Workers |-> Down]
    /\ lock = None
    /\ rib = [n \in Nlris |-> None]
    /\ late = {}
    /\ faults = 0

Step(p, i) ==
    \/ StepExpire(p, i)
    \/ StepWithdrawApproved(p, i)
    \/ StepBeginWithdrawal(p, i)
    \/ StepResume(p, i)
    \/ StepTakeDown(p, i)
    \/ StepNothing(p, i)
    \/ StepAnnounce(p, i)
    \/ Announcing(p, i)
    \/ AnnounceRefused(p, i)
    \/ Add(p, i)
    \/ Cleanup(p, i)
    \/ EndActive(p, i)
    \/ EndFailed(p, i)
    \/ Delete(p, i)
    \/ EndWithdrawn(p, i)

\* What process p does when nothing fails.
ProcessNext(p) ==
    \/ \E cfg \in Configs : Start(p, cfg)
    \/ AcquireLock(p)
    \/ ReconcileBegin(p)
    \/ ReconcileList(p)
    \/ \E n \in Nlris : ReconcileWithdraw(p, n)
    \/ \E m \in Ids : ReconcileRestore(p, m)
    \/ ReconcileEnd(p)
    \/ PassBegin(p)
    \/ PassRead(p)
    \/ \E i \in proc[p].work : Step(p, i)
    \/ PassEnd(p)
    \/ \E c \in Incidents :
          \/ ProposeSkip(p, c)
          \/ ProposeStart(p, c)
          \/ ProposeRefused(p, c)
    \/ Proposing(p)
    \/ ProposeNoRoom(p)
    \/ ProposeEnd(p)

Failures(p) ==
    \/ ReconcileFails(p)
    \/ \E i \in proc[p].work :
          \/ AddFails(p, i)
          \/ CleanupFails(p, i)
          \/ DeleteFails(p, i)
    \/ DatabaseFails(p)
    \/ Crash(p)

Operators == ApiNext /\ UNCHANGED svars

Next ==
    \/ Operators
    \/ \E p \in Workers : ProcessNext(p) \/ TimerFires(p) \/ Failures(p)
    \/ LockDrops
    \/ GobgpRestarts
    \/ \E path \in Paths : LateAdd(path)

Spec == Init /\ [][Next]_vars

\* The runtime schedules every process; a command that waits for a row lock is
\* in PostgreSQL's queue and gets it (hence strong fairness); a transaction
\* that holds a lock ends; an AddPath under way takes effect.
Fairness ==
    /\ \A p \in Workers :
          SF_vars(ProcessNext(p)) /\ WF_vars(TimerFires(p))
    /\ \A s \in Sessions : WF_vars((ApproveCommit(s) \/ ApproveRollback(s)) /\ UNCHANGED svars)
    /\ \A path \in Paths : WF_vars(LateAdd(path))

FairSpec == Spec /\ Fairness

----------------------------------------------------------------------------
(* Properties *)

Pcs == {"down", "standby", "loop", "list", "fix", "pass", "read", "items", "announce",
        "add", "resume", "cleanup", "mark_active", "mark_failed", "del", "mark_withdrawn",
        "propose", "proposing"}

Items == [m : Ids, state : States, due : BOOLEAN, dry : Maybe(BOOLEAN)]

Processes ==
    [pc : Pcs, cfg : Maybe(Configs), timer : BOOLEAN, ks : BOOLEAN, work : SUBSET Items,
     stale : SUBSET Nlris, missing : SUBSET Ids, cands : SUBSET Incidents]

\* Only a process at an announcement or a proposal has a transaction open
\* between two steps; what it works on exists.
ProcOK(p) ==
    /\ proc[p].pc # "down" => proc[p].cfg \in Configs
    /\ pending[p].op = "announce" <=> proc[p].pc = "announce"
    /\ pending[p].op \in {"create", "insert"} <=> proc[p].pc = "proposing"
    /\ \A i \in proc[p].work : Exists(i.m)
    /\ \A m \in proc[p].missing : Exists(m)

ProcTypeOK ==
    /\ proc \in [Workers -> Processes]
    /\ \A p \in Workers : ProcOK(p)
    /\ lock \in Maybe(Workers)
    /\ rib \in [Nlris -> Maybe(Paths)]
    /\ \A n \in Nlris : rib[n] # None => rib[n].nlri = n
    /\ late \in SUBSET Paths
    /\ faults \in 0 .. MaxFaults

\* m was announced live and its route is path.
IsRouteOf(path, m) ==
    Exists(m) /\ Key(m) = ReadBackKey(path) /\ rec[m].dry_run = FALSE

\* Every route in GoBGP is that of a mitigation somebody approved and a
\* process then began to announce live, through crashes, failed and late
\* calls, stale work lists, and even a second process (ADR 0049).
RouteIsApproved ==
    \A n \in Nlris : rib[n] # None =>
        \E m \in Ids : IsRouteOf(rib[n], m) /\ rec[m].approved_by \in Actors

\* state.rs: only announcing, active and withdrawing mitigations hold a route,
\* and a failed one may have left one behind.  A mitigation that reached
\* withdrawn has none: take_down deletes before it marks, and no later step
\* of a pass or of a reconciliation on older data puts it back.
RouteHasCause ==
    \A n \in Nlris : rib[n] # None =>
        \E m \in Ids : /\ IsRouteOf(rib[n], m)
                       /\ rec[m].state \in {"announcing", "active", "withdrawing", "failed"}

\* As long as nothing fails, an active mitigation that was announced live has
\* its own route in GoBGP, whatever reconciliation and operators do meanwhile
\* (rtbh-guide: one route per mitigation).
ActiveHasItsRoute ==
    \A m \in Ids : faults = 0 /\ rec[m].state = "active" /\ rec[m].dry_run = FALSE =>
        rib[Nlri(rec[m].ask)] # None /\ ReadBackKey(rib[Nlri(rec[m].ask)]) = Key(m)

\* A mitigation past its duration, or being withdrawn, ends: a failed
\* withdrawal is retried by later passes, and by another process after a crash.
EveryMitigationEnds ==
    \A m \in Ids :
        (rec[m].state = "withdrawing" \/ (rec[m].state = "active" /\ rec[m].due))
            ~> rec[m].state \in Terminal

\* A kill switch that stays on empties GoBGP of every route, those of
\* announcements that raced it and those that nothing claims included.
SwitchDrains == <>[](kill.engaged) => <>[](\A n \in Nlris : rib[n] = None)

\* Reconciliation keeps coming back to a table in which a live mitigation
\* claims every route.
StaleRoutesGo ==
    []<>(\A n \in Nlris : rib[n] # None => \E m \in Ids : Live(m) /\ IsRouteOf(rib[n], m))

\* A route lost with gobgpd's table comes back while its mitigation is active.
LostRoutesReturn ==
    \A m \in Ids :
        (rec[m].state = "active" /\ rec[m].dry_run = FALSE)
            ~> (rec[m].state # "active" \/ rib[Nlri(rec[m].ask)] # None)
=============================================================================
