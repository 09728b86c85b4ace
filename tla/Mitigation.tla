----------------------------- MODULE Mitigation -----------------------------
(***************************************************************************)
(* The mitigation record: its lifecycle (crates/mitigation), and the store *)
(* that persists it (crates/incident-postgres/src/mitigation.rs), under    *)
(* concurrent API requests and the mitigator's commands.                   *)
(*                                                                         *)
(* A command of the store is one PostgreSQL transaction that locks the     *)
(* mitigation's row, except that the kill switch is another row, read      *)
(* without a lock: a command whose outcome depends on it is two steps, a   *)
(* read and a commit, and the switch may change in between.  `pending`     *)
(* holds what each connection has read.  A refused command changes nothing *)
(* but the audit trail, and is a stuttering step here.                     *)
(***************************************************************************)
EXTENDS Guard

CONSTANTS
    N,            \* at most N mitigations, numbered in order of creation
    Asks,         \* what may be asked for
    Actors,       \* people, with a role and a tenant each
    RoleOf, TenantOf,
    Mitigator,    \* the mitigator's service account
    Sessions,     \* database connections of the API
    Workers,      \* database connections of mitigator processes
    ApiConfigs,   \* the guard files the API may be (re)started with
    Configs,      \* the guard files a mitigator may be (re)started with
    IdemKeys,     \* idempotency keys of clients; None is a request without one
    Incidents,    \* incidents a proposal may answer, in order of opening
    MaxSwitch     \* bounds how often the kill switch is turned

Ids == 1 .. N
Causes == {"operator", "kill_switch", "duration_reached"}
Tenants == {TenantOf[a] : a \in Actors}

ASSUME NAssumption == N \in Nat \ {0}
ASSUME SwitchAssumption == MaxSwitch \in Nat
ASSUME ActorsAssumption ==
    /\ Mitigator \notin Actors
    /\ None \notin Actors \cup {Mitigator} \cup Ids
    /\ Sessions \cap Workers = {}
ASSUME NoneAssumption ==
    /\ None \notin Asks /\ None \notin BOOLEAN /\ None \notin Causes
    /\ None \notin [ask : Asks, m : Ids]
ASSUME AsksAssumption == \A ask \in Asks : ask.kind \in Kinds /\ ValidAction(ask)
ASSUME ConfigsAssumption == \A cfg \in ApiConfigs \cup Configs : ValidConfig(cfg)

VARIABLES
    rec,          \* the mitigations table
    history,      \* mitigation_history: a row per change
    kill,         \* mitigation_controls: [engaged, version]
    idem,         \* incident_idempotency: (tenant, key) -> what it recorded
    apiCfg,       \* the guard the API was started with
    pending,      \* what a connection read before its transaction commits
    reply         \* what the last keyed request on a session was answered

recVars == <<rec, history>>
mvars == <<rec, history, kill, idem, apiCfg, pending, reply>>

----------------------------------------------------------------------------
(* state.rs *)

States == {"proposed", "requested", "approved", "announcing", "active",
           "withdrawing", "withdrawn", "rejected", "expired", "failed"}
Terminal == {"withdrawn", "rejected", "expired", "failed"}
AwaitsApproval == {"proposed", "requested"}

\* Mutant: a request that expired may still be decided on.
CanTransitionLate(from, to) ==
    \/ from \in AwaitsApproval \cup {"expired"} /\ to \in {"approved", "rejected", "expired"}
    \/ from = "approved" /\ to \in {"announcing", "withdrawn", "failed"}
    \/ from = "announcing" /\ to \in {"active", "failed", "withdrawing"}
    \/ from = "active" /\ to = "withdrawing"
    \/ from = "withdrawing" /\ to = "withdrawn"

CanTransition(from, to) ==
    \/ from \in AwaitsApproval /\ to \in {"approved", "rejected", "expired"}
    \/ from = "approved" /\ to \in {"announcing", "withdrawn", "failed"}
    \/ from = "announcing" /\ to \in {"active", "failed", "withdrawing"}
    \/ from = "active" /\ to = "withdrawing"
    \/ from = "withdrawing" /\ to = "withdrawn"

\* A mitigation that does not exist yet has the state "absent".
Absent == [state |-> "absent", version |-> 0, ask |-> None, tenant |-> None,
           incident |-> None, requested_by |-> None, approved_by |-> None,
           dry_run |-> None, cause |-> None, due |-> FALSE]

Exists(m) == rec[m].state # "absent"
Live(m) == rec[m].state \notin Terminal \cup {"absent"}
Key(m) == DuplicateKey(rec[m].ask)

----------------------------------------------------------------------------
(* authorization.rs: the mitigation permissions of each role's bundle. *)

Bundle(role) ==
    (IF role \in {"senior_operator", "noc_lead", "platform_admin"}
       THEN {"request", "withdraw"} ELSE {})
    \cup (IF role \in {"noc_lead", "platform_admin"} THEN {"approve", "engage"} ELSE {})
    \cup (IF role = "platform_admin" THEN {"release"} ELSE {})

\* AuthorizationContext::mitigator is granted these in any tenant.
MitigatorGrants == {"propose", "execute"}

May(a, permission, tenant) ==
    IF a = Mitigator
      THEN permission \in MitigatorGrants
      ELSE TenantOf[a] = tenant /\ permission \in Bundle(RoleOf[a])

----------------------------------------------------------------------------
(* mitigation.rs: a change of state, and its history row. *)

\* Nobody else holds m's row lock.
Unlocked(m, conn) ==
    \A c \in (Sessions \cup Workers) \ {conn} :
        pending[c].op \in {"approve", "announce"} => pending[c].m # m

\* Mutant: an UPDATE that does not count the version up.
ChangeUnversioned(m, to, actor, new) ==
    /\ rec' = [rec EXCEPT ![m] = [new EXCEPT !.state = to, !.due = FALSE]]
    /\ history' = [history EXCEPT ![m] =
                       Append(@, [from |-> rec[m].state, to |-> to, actor |-> actor])]

\* Mitigation::apply and record_change: the new state, one version up, and
\* the history row (with the audit row and the outbox event beside it).  due
\* is whether the approval window or the duration has run out; every change
\* starts a new clock or needs none.
Change(m, to, actor, new) ==
    /\ rec' = [rec EXCEPT ![m] = [new EXCEPT !.state = to,
                                             !.version = rec[m].version + 1,
                                             !.due = FALSE]]
    /\ history' = [history EXCEPT ![m] =
                       Append(@, [from |-> rec[m].state, to |-> to, actor |-> actor])]

\* MitigationStore::change on a row nobody else has locked.
Command(conn, a, m, permission, to, new) ==
    /\ Exists(m)
    /\ Unlocked(m, conn)
    /\ May(a, permission, rec[m].tenant)
    /\ CanTransition(rec[m].state, to)
    /\ Change(m, to, a, new)

Idle == [op |-> "idle"]

Close(conn) == pending' = [pending EXCEPT ![conn] = Idle]

----------------------------------------------------------------------------
(* MitigationStore::create, for a request and for a proposal. *)

\* What a keyed request on session s is answered.
Answer(s, p, outcome, m) ==
    reply' = IF p.key = None THEN reply
             ELSE [reply EXCEPT ![s] = [tenant |-> p.tenant, key |-> p.key, ask |-> p.ask,
                                        outcome |-> outcome, m |-> m]]

\* The domain's checks, then the guard with the kill switch as it is now.
\* (The switch is read before the transaction begins.)
CreatePasses(cfg, a, tenant, permission, ask, engaged) ==
    /\ May(a, permission, tenant)
    /\ ask.duration \in MinDuration .. MaxDuration
    /\ Permits(cfg, tenant, ask, engaged)

Creation(a, tenant, ask, key, incident) ==
    [op |-> "create", actor |-> a, tenant |-> tenant, ask |-> ask,
     key |-> key, incident |-> incident]

Request(s, a, ask, key) ==
    /\ pending[s] = Idle
    /\ CreatePasses(apiCfg, a, TenantOf[a], "request", ask, kill.engaged)
    /\ pending' = [pending EXCEPT ![s] = Creation(a, TenantOf[a], ask, key, None)]
    /\ UNCHANGED <<recVars, kill, idem, apiCfg, reply>>

RequestRefused(s, a, ask, key) ==
    /\ pending[s] = Idle
    /\ key # None
    /\ ~CreatePasses(apiCfg, a, TenantOf[a], "request", ask, kill.engaged)
    /\ Answer(s, Creation(a, TenantOf[a], ask, key, None), "refused", None)
    /\ UNCHANGED <<recVars, kill, idem, apiCfg, pending>>

Propose(w, cfg, tenant, ask, incident) ==
    /\ pending[w] = Idle
    /\ CreatePasses(cfg, Mitigator, tenant, "propose", ask, kill.engaged)
    /\ pending' = [pending EXCEPT ![w] = Creation(Mitigator, tenant, ask, None, incident)]
    /\ UNCHANGED <<recVars, kill, idem, apiCfg, reply>>

\* An idempotency row that has not expired; None for a request without a key.
Recorded(p) == IF p.key = None THEN None ELSE idem[<<p.tenant, p.key>>]

\* The transaction finds the key of an earlier request: it replays, or refuses.
CreateReplay(c) ==
    LET p == pending[c] IN
    /\ p.op = "create"
    /\ Recorded(p) # None
    /\ IF Recorded(p).ask = p.ask
         THEN Answer(c, p, "ok", Recorded(p).m)
         ELSE Answer(c, p, "mismatch", None)
    /\ Close(c)
    /\ UNCHANGED <<recVars, kill, idem, apiCfg>>

\* It finds none, and goes on to insert; another transaction may commit first.
CreateLookup(c) ==
    /\ pending[c].op = "create"
    /\ Recorded(pending[c]) = None
    /\ pending' = [pending EXCEPT ![c].op = "insert"]
    /\ UNCHANGED <<recVars, kill, idem, apiCfg, reply>>

\* Mutant: an index over the mitigations that wait for approval only.
WaitingTwin(ask) ==
    \E m \in Ids : rec[m].state \in AwaitsApproval /\ Key(m) = DuplicateKey(ask)

\* mitigations_one_live_per_action: the unique index over live rows.
LiveTwin(ask) == \E m \in Ids : Live(m) /\ Key(m) = DuplicateKey(ask)

CreateDuplicate(c) ==
    LET p == pending[c] IN
    /\ p.op = "insert"
    /\ LiveTwin(p.ask)
    /\ Answer(c, p, "duplicate", None)
    /\ Close(c)
    /\ UNCHANGED <<recVars, kill, idem, apiCfg>>

\* The idempotency upsert touches no row: another request took the key since
\* the lookup, and this transaction is rolled back.
CreateKeyTaken(c) ==
    LET p == pending[c] IN
    /\ p.op = "insert"
    /\ ~LiveTwin(p.ask)
    /\ Recorded(p) # None
    /\ Answer(c, p, "taken", None)
    /\ Close(c)
    /\ UNCHANGED <<recVars, kill, idem, apiCfg>>

\* The insert of m, its history row, and the idempotency row.
CreateInsert(c, m) ==
    LET p == pending[c] IN
    /\ p.op = "insert"
    /\ ~LiveTwin(p.ask)
    /\ Recorded(p) = None
    /\ ~Exists(m)
    /\ \A n \in Ids : n < m => Exists(n)
    /\ Change(m, IF p.actor = Mitigator THEN "proposed" ELSE "requested", p.actor,
              [Absent EXCEPT !.ask = p.ask, !.tenant = p.tenant,
                             !.incident = p.incident, !.requested_by = p.actor])
    /\ idem' = IF p.key = None THEN idem
               ELSE [idem EXCEPT ![<<p.tenant, p.key>>] = [ask |-> p.ask, m |-> m]]
    /\ Answer(c, p, "ok", m)
    /\ Close(c)
    /\ UNCHANGED <<kill, apiCfg>>

\* A day later the key is free again, and what its requests were answered
\* binds nobody.
IdemExpires(tenant, key) ==
    /\ idem[<<tenant, key>>] # None
    /\ idem' = [idem EXCEPT ![<<tenant, key>>] = None]
    /\ reply' = [s \in Sessions |->
                   IF reply[s] # None /\ reply[s].tenant = tenant /\ reply[s].key = key
                     THEN None ELSE reply[s]]
    /\ UNCHANGED <<recVars, kill, apiCfg, pending>>

----------------------------------------------------------------------------
(* Operators' commands.  Each names the version its caller saw, and is     *)
(* refused with a conflict when the record has another one.                *)

\* approve: the row is locked and the switch read; then the domain and the
\* guard decide and the transaction commits, or rolls back.
ApproveRead(s, a, m) ==
    /\ pending[s] = Idle
    /\ Exists(m) /\ TenantOf[a] = rec[m].tenant
    /\ Unlocked(m, s)
    /\ pending' = [pending EXCEPT ![s] =
                      [op |-> "approve", actor |-> a, m |-> m, engaged |-> kill.engaged]]
    /\ UNCHANGED <<recVars, kill, idem, apiCfg, reply>>

\* Mutant: the requester is not told apart from the approver.
ApproveAllowedSelf(p) ==
    /\ May(p.actor, "approve", rec[p.m].tenant)
    /\ CanTransition(rec[p.m].state, "approved")
    /\ Permits(apiCfg, rec[p.m].tenant, rec[p.m].ask, p.engaged)

ApproveAllowed(p) ==
    /\ May(p.actor, "approve", rec[p.m].tenant)
    /\ CanTransition(rec[p.m].state, "approved")
    /\ apiCfg.allow_self_approval \/ rec[p.m].requested_by # p.actor
    /\ Permits(apiCfg, rec[p.m].tenant, rec[p.m].ask, p.engaged)

ApproveCommit(s) ==
    LET p == pending[s] IN
    /\ p.op = "approve"
    /\ ApproveAllowed(p)
    /\ Change(p.m, "approved", p.actor, [rec[p.m] EXCEPT !.approved_by = p.actor])
    /\ Close(s)
    /\ UNCHANGED <<kill, idem, apiCfg, reply>>

ApproveRollback(s) ==
    /\ pending[s].op = "approve"
    /\ ~ApproveAllowed(pending[s])
    /\ Close(s)
    /\ UNCHANGED <<recVars, kill, idem, apiCfg, reply>>

Reject(s, a, m) ==
    /\ pending[s] = Idle
    /\ Command(s, a, m, "approve", "rejected", rec[m])
    /\ UNCHANGED <<kill, idem, apiCfg, pending, reply>>

\* take_down: an approved mitigation has announced nothing and ends at once.
DownState(m) == IF rec[m].state = "approved" THEN "withdrawn" ELSE "withdrawing"

Withdraw(s, a, m) ==
    /\ pending[s] = Idle
    /\ Command(s, a, m, "withdraw", DownState(m), [rec[m] EXCEPT !.cause = "operator"])
    /\ UNCHANGED <<kill, idem, apiCfg, pending, reply>>

\* set_kill_switch.  Setting it to what it is writes nothing.
SetKillSwitch(a, engaged) ==
    /\ (IF engaged THEN "engage" ELSE "release") \in Bundle(RoleOf[a])
    /\ kill.engaged # engaged
    /\ kill.version < MaxSwitch
    /\ kill' = [engaged |-> engaged, version |-> kill.version + 1]
    /\ UNCHANGED <<recVars, idem, apiCfg, pending, reply>>

\* The API process is restarted, with whatever the guard file then says: the
\* transactions under way are rolled back.
ApiRestart(cfg) ==
    /\ apiCfg' = cfg
    /\ pending' = [c \in DOMAIN pending |-> IF c \in Sessions THEN Idle ELSE pending[c]]
    /\ UNCHANGED <<recVars, kill, idem, reply>>

\* The approval window of m, or its duration, runs out.
TimePasses(m) ==
    /\ rec[m].state \in AwaitsApproval \cup {"active"}
    /\ ~rec[m].due
    /\ rec' = [rec EXCEPT ![m].due = TRUE]
    /\ UNCHANGED <<history, kill, idem, apiCfg, pending, reply>>

----------------------------------------------------------------------------
(* The mitigator's commands, each on the mitigation as it is now. *)

\* begin_announcing locks the row and reads the switch; cfg is the guard of
\* the mitigator process on connection w.
AnnounceRead(w, m, cfg, dry) ==
    /\ pending[w] = Idle
    /\ Exists(m)
    /\ Unlocked(m, w)
    /\ pending' = [pending EXCEPT ![w] =
                      [op |-> "announce", m |-> m, cfg |-> cfg, dry |-> dry,
                       engaged |-> kill.engaged]]
    /\ UNCHANGED <<recVars, kill, idem, apiCfg, reply>>

AnnouncePermitted(p) == Permits(p.cfg, rec[p.m].tenant, rec[p.m].ask, p.engaged)

AnnounceCommit(w) ==
    LET p == pending[w] IN
    /\ p.op = "announce"
    /\ CanTransition(rec[p.m].state, "announcing")
    /\ AnnouncePermitted(p)
    /\ Change(p.m, "announcing", Mitigator, [rec[p.m] EXCEPT !.dry_run = p.dry])
    /\ Close(w)
    /\ UNCHANGED <<kill, idem, apiCfg, reply>>

AnnounceRollback(w) ==
    /\ pending[w].op = "announce"
    /\ ~(CanTransition(rec[pending[w].m].state, "announcing") /\ AnnouncePermitted(pending[w]))
    /\ Close(w)
    /\ UNCHANGED <<recVars, kill, idem, apiCfg, reply>>

\* A worker's connection is lost with what it had read.
WorkerLost(w) ==
    /\ pending[w] # Idle
    /\ Close(w)
    /\ UNCHANGED <<recVars, kill, idem, apiCfg, reply>>

Execute(w, m, to, new) ==
    /\ pending[w] = Idle
    /\ Command(w, Mitigator, m, "execute", to, new)
    /\ UNCHANGED <<kill, idem, apiCfg, pending, reply>>

MarkActive(w, m) == Execute(w, m, "active", rec[m])

MarkFailed(w, m) == Execute(w, m, "failed", rec[m])

Expire(w, m) == Execute(w, m, "expired", rec[m])

BeginWithdrawal(w, m, cause) ==
    Execute(w, m, DownState(m), [rec[m] EXCEPT !.cause = cause])

\* mark_withdrawn refuses an approved mitigation: only take_down ends one.
MarkWithdrawn(w, m) ==
    /\ rec[m].state # "approved"
    /\ Execute(w, m, "withdrawn", rec[m])

----------------------------------------------------------------------------
MInit ==
    /\ rec = [m \in Ids |-> Absent]
    /\ history = [m \in Ids |-> << >>]
    /\ kill = [engaged |-> FALSE, version |-> 1]
    /\ idem = [x \in Tenants \X (IdemKeys \ {None}) |-> None]
    /\ apiCfg \in ApiConfigs
    /\ pending = [c \in Sessions \cup Workers |-> Idle]
    /\ reply = [s \in Sessions |-> None]

ApiNext ==
    \/ \E s \in Sessions, a \in Actors, ask \in Asks, key \in IdemKeys :
          \/ Request(s, a, ask, key)
          \/ RequestRefused(s, a, ask, key)
    \/ \E s \in Sessions :
          \/ CreateReplay(s)
          \/ CreateLookup(s)
          \/ CreateDuplicate(s)
          \/ CreateKeyTaken(s)
          \/ \E m \in Ids : CreateInsert(s, m)
          \/ ApproveCommit(s)
          \/ ApproveRollback(s)
    \/ \E s \in Sessions, a \in Actors, m \in Ids :
          \/ ApproveRead(s, a, m)
          \/ Reject(s, a, m)
          \/ Withdraw(s, a, m)
    \/ \E a \in Actors, engaged \in BOOLEAN : SetKillSwitch(a, engaged)
    \/ \E cfg \in ApiConfigs : ApiRestart(cfg)
    \/ \E m \in Ids : TimePasses(m)
    \/ \E x \in DOMAIN idem : IdemExpires(x[1], x[2])

WorkerNext ==
    \/ \E w \in Workers, cfg \in Configs, tenant \in Tenants, ask \in Asks, i \in Incidents :
          Propose(w, cfg, tenant, ask, i)
    \/ \E w \in Workers :
          \/ CreateLookup(w)
          \/ CreateDuplicate(w)
          \/ \E m \in Ids : CreateInsert(w, m)
    \/ \E w \in Workers, m \in Ids, cfg \in Configs, dry \in BOOLEAN :
          AnnounceRead(w, m, cfg, dry)
    \/ \E w \in Workers :
          \/ AnnounceCommit(w)
          \/ AnnounceRollback(w)
          \/ WorkerLost(w)
    \/ \E w \in Workers, m \in Ids :
          \/ MarkActive(w, m)
          \/ MarkFailed(w, m)
          \/ Expire(w, m)
          \/ MarkWithdrawn(w, m)
          \/ \E cause \in {"kill_switch", "duration_reached"} : BeginWithdrawal(w, m, cause)

MNext == ApiNext \/ WorkerNext

MSpec == MInit /\ [][MNext]_mvars

----------------------------------------------------------------------------
(* Properties *)

Maybe(S) == S \cup {None}
People == Actors \cup {Mitigator}

Records ==
    [state : States \cup {"absent"}, version : Nat, ask : Maybe(Asks),
     tenant : Maybe(Tenants), incident : Maybe(Incidents),
     requested_by : Maybe(People), approved_by : Maybe(Actors), dry_run : Maybe(BOOLEAN),
     cause : Maybe(Causes), due : BOOLEAN]

\* What a state says of the other columns: who approved what runs, and
\* whether what has been announced was announced live.
Shape(r) ==
    /\ r.state = "absent" => r = Absent
    /\ r.state # "absent" => r.ask \in Asks /\ r.tenant \in Tenants /\ r.requested_by \in People
    /\ r.state \in AwaitsApproval => r.approved_by = None /\ r.dry_run = None
    /\ r.state = "approved" => r.approved_by \in Actors /\ r.dry_run = None
    /\ r.state \in {"announcing", "active", "withdrawing"}
           => r.approved_by \in Actors /\ r.dry_run \in BOOLEAN
    /\ r.state \in {"withdrawing", "withdrawn"} => r.cause # None

Creations ==
    [op : {"create", "insert"}, actor : People, tenant : Tenants, ask : Asks,
     key : IdemKeys \cup {None}, incident : Maybe(Incidents)]
Approvals == [op : {"approve"}, actor : Actors, m : Ids, engaged : BOOLEAN]
Announcements ==
    [op : {"announce"}, m : Ids, cfg : Configs, dry : BOOLEAN, engaged : BOOLEAN]

TableOK ==
    /\ rec \in [Ids -> Records]
    /\ \A m \in Ids : Shape(rec[m])
    /\ history \in [Ids -> Seq([from : States \cup {"absent"}, to : States, actor : People])]

ControlsOK ==
    /\ kill \in [engaged : BOOLEAN, version : Nat]
    /\ apiCfg \in ApiConfigs

RequestsOK ==
    /\ idem \in [Tenants \X (IdemKeys \ {None}) -> Maybe([ask : Asks, m : Ids])]
    /\ reply \in [Sessions ->
                    Maybe([tenant : Tenants, key : IdemKeys, ask : Asks,
                           outcome : {"ok", "refused", "mismatch", "duplicate", "taken"},
                           m : Maybe(Ids)])]

PendingOK ==
    pending \in [Sessions \cup Workers ->
                   {Idle} \cup Creations \cup Approvals \cup Announcements]

\* The columns of a record agree with its state at every moment: a mitigation
\* that may hold a route has an approver and says whether it was sent live
\* (from_row and take_down rely on both).
TypeOK == TableOK /\ ControlsOK /\ RequestsOK /\ PendingOK

\* Nothing is announced that a second person has not approved: before the
\* history row "announcing" of a mitigation there is one row "approved", by
\* somebody who may approve in its tenant and who did not ask for it, unless
\* some guard file of the API allows self-approval (ADR 0046, MitigationStore::approve
\* and begin_announcing).
FourEyes ==
    \A m \in Ids : \A i \in DOMAIN history[m] :
        history[m][i].to = "announcing" =>
            \E j \in 1 .. (i - 1) :
                /\ history[m][j].to = "approved"
                /\ history[m][j].actor \in Actors
                /\ May(history[m][j].actor, "approve", rec[m].tenant)
                /\ \/ history[m][j].actor # history[m][1].actor
                   \/ \E cfg \in ApiConfigs : cfg.allow_self_approval

\* At most one live mitigation per action, prefix and match, whatever the
\* races between requests and proposals (V19's unique index).
OneLivePerKey ==
    \A m, n \in Ids : Live(m) /\ Live(n) /\ Key(m) = Key(n) => m = n

\* The history is the record's own past: as many rows as versions, each from
\* the state the row before it reached by a legal transition, ending in the
\* record's state (record_change in the transaction of the UPDATE).
HistoryIsTheRecord ==
    \A m \in Ids :
        /\ Len(history[m]) = rec[m].version
        /\ rec[m].version = 0 <=> ~Exists(m)
        /\ Exists(m) => history[m][rec[m].version].to = rec[m].state
        /\ \A i \in DOMAIN history[m] :
              IF i = 1
                THEN history[m][1].from = "absent" /\ history[m][1].to \in AwaitsApproval
                ELSE /\ history[m][i].from = history[m][i - 1].to
                     /\ CanTransition(history[m][i].from, history[m][i].to)

\* However its retries race, a keyed request creates one mitigation: all that
\* were answered with success name the same one, of the caller's tenant, and
\* it is what they asked for (MitigationStore::create).
KeyedOnce ==
    LET Succeeded == {s \in Sessions : reply[s] # None /\ reply[s].outcome = "ok"} IN
    /\ \A s \in Succeeded :
          /\ rec[reply[s].m].ask = reply[s].ask
          /\ rec[reply[s].m].tenant = reply[s].tenant
    /\ \A s, t \in Succeeded :
          <<reply[s].tenant, reply[s].key>> = <<reply[t].tenant, reply[t].key>>
              => reply[s].m = reply[t].m

\* What was asked for, by whom, who approved it and whether it was announced
\* live never change once set: take_down and reconcile decide by dry_run what
\* is in GoBGP, long after begin_announcing wrote it.  An ended mitigation
\* never changes at all.
FixedOnceSet(m) ==
    /\ Exists(m) => /\ rec'[m].ask = rec[m].ask
                    /\ rec'[m].tenant = rec[m].tenant
                    /\ rec'[m].requested_by = rec[m].requested_by
    /\ rec[m].approved_by # None => rec'[m].approved_by = rec[m].approved_by
    /\ rec[m].dry_run # None => rec'[m].dry_run = rec[m].dry_run
    /\ rec[m].state \in Terminal => rec'[m] = rec[m]

WrittenOnce == [][\A m \in Ids : FixedOnceSet(m)]_mvars
=============================================================================
