-------------------------- MODULE MitigationProofs --------------------------
(***************************************************************************)
(* What holds of Mitigation for every number of mitigations, of API        *)
(* sessions and of mitigators, every guard file and every set of people.   *)
(***************************************************************************)
EXTENDS Mitigation, TLAPS

HistoryRows == [from : States \cup {"absent"}, to : States, actor : People]

\* A row of the table has the type of its columns and the shape of its state.
LEMMA RowOK ==
    ASSUME NEW new \in Records, NEW to \in States, NEW v \in Nat
    PROVE  [new EXCEPT !.state = to, !.version = v, !.due = FALSE] \in Records
BY DEF Records

\* Mitigation::apply with record_change keeps the table well formed when the
\* new row has the shape its new state requires.
LEMMA ChangeOK ==
    ASSUME TableOK,
           NEW m \in Ids, NEW to \in States, NEW a \in People, NEW new \in Records,
           Shape([new EXCEPT !.state = to, !.version = rec[m].version + 1, !.due = FALSE]),
           Change(m, to, a, new)
    PROVE  TableOK'
<1> DEFINE row == [new EXCEPT !.state = to, !.version = rec[m].version + 1, !.due = FALSE]
<1>1. rec[m].version \in Nat /\ rec[m].state \in States \cup {"absent"}
  BY DEF TableOK, Records
<1>2. row \in Records
  <2>1. rec[m].version + 1 \in Nat
    BY <1>1
  <2> QED BY <2>1, RowOK
<1>3. rec' = [rec EXCEPT ![m] = row]
  BY DEF Change
<1>4. rec' \in [Ids -> Records]
  BY <1>2, <1>3 DEF TableOK
<1>5. \A n \in Ids : Shape(rec'[n])
  BY <1>3, Zenon DEF TableOK
<1>6. history' \in [Ids -> Seq(HistoryRows)]
  <2> DEFINE h == [from |-> rec[m].state, to |-> to, actor |-> a]
  <2>1. h \in HistoryRows
    BY <1>1 DEF HistoryRows
  <2>2. history \in [Ids -> Seq(HistoryRows)]
    BY DEF TableOK, HistoryRows
  <2>3. Append(history[m], h) \in Seq(HistoryRows)
    BY <2>1, <2>2
  <2> QED BY <2>2, <2>3 DEF Change
<1> QED BY <1>4, <1>5, <1>6 DEF TableOK, HistoryRows

\* A command of the store on an existing record, with whatever it writes
\* beside the state.
LEMMA CommandOK ==
    ASSUME TableOK,
           NEW c, NEW m \in Ids, NEW a \in People, NEW permission, NEW to \in States,
           NEW new \in Records,
           Command(c, a, m, permission, to, new),
           Shape([new EXCEPT !.state = to, !.version = rec[m].version + 1, !.due = FALSE])
    PROVE  TableOK'
BY ChangeOK DEF Command

\* The shape of a row after a legal change that writes no other column.
LEMMA PlainShape ==
    ASSUME NEW r \in Records, Shape(r), NEW to \in States, NEW v,
           CanTransition(r.state, to),
           to \in {"rejected", "expired", "failed", "active"}
              \/ (to = "withdrawn" /\ r.state = "withdrawing")
    PROVE  Shape([r EXCEPT !.state = to, !.version = v, !.due = FALSE])
BY DEF Shape, CanTransition, Records, States, AwaitsApproval

\* take_down: from approved, announcing or active.
LEMMA DownShape ==
    ASSUME NEW r \in Records, Shape(r), NEW v,
           NEW cause \in Causes,
           NEW to \in States, to \in {"withdrawn", "withdrawing"},
           to = (IF r.state = "approved" THEN "withdrawn" ELSE "withdrawing"),
           CanTransition(r.state, to)
    PROVE  Shape([[r EXCEPT !.cause = cause]
                     EXCEPT !.state = to, !.version = v, !.due = FALSE])
BY NoneAssumption DEF Shape, CanTransition, Records, States, AwaitsApproval, Causes

\* approve: the row names its approver, and has not been announced.
LEMMA ApproverRecorded ==
    ASSUME NEW r \in Records, NEW a \in Actors
    PROVE  [r EXCEPT !.approved_by = a] \in Records
BY DEF Records, Maybe

\* begin_announcing: the row keeps its approver and says whether it is live.
LEMMA DryRunRecorded ==
    ASSUME NEW r \in Records, NEW dry \in BOOLEAN
    PROVE  [r EXCEPT !.dry_run = dry] \in Records
BY DEF Records, Maybe

\* One step of the API, of a mitigator or of time keeps every type.
LEMMA TypeStep ==
    ASSUME TypeOK, [MNext]_mvars
    PROVE  TypeOK'
<1> USE DEF TypeOK
<1> DEFINE Conns == Sessions \cup Workers
<1>actors. \A a \in Actors : a \in People /\ TenantOf[a] \in Tenants
  BY DEF People, Tenants
<1>mit. Mitigator \in People
  BY DEF People
<1>1. ASSUME NEW s \in Sessions, NEW a \in Actors, NEW ask \in Asks, NEW key \in IdemKeys,
             Request(s, a, ask, key)
      PROVE  TypeOK'
  <2>1. Creation(a, TenantOf[a], ask, key, None) \in Creations
    BY <1>actors DEF Creation, Creations, Maybe
  <2>2. PendingOK'
    BY <1>1, <2>1 DEF PendingOK, Request
  <2> QED BY <1>1, <2>2 DEF Request, recVars, TableOK, ControlsOK, RequestsOK
<1>2. ASSUME NEW s \in Sessions, NEW a \in Actors, NEW ask \in Asks, NEW key \in IdemKeys,
             RequestRefused(s, a, ask, key)
      PROVE  TypeOK'
  <2>1. RequestsOK'
    BY <1>2, <1>actors DEF RequestRefused, Answer, Creation, RequestsOK, Maybe
  <2> QED BY <1>2, <2>1 DEF RequestRefused, recVars, TableOK, ControlsOK, PendingOK
<1>3. ASSUME NEW c \in Conns, NEW cfg \in Configs, NEW tenant \in Tenants, NEW ask \in Asks,
             NEW i \in Incidents, Propose(c, cfg, tenant, ask, i)
      PROVE  TypeOK'
  <2>1. Creation(Mitigator, tenant, ask, None, i) \in Creations
    BY <1>mit DEF Creation, Creations, Maybe
  <2>2. PendingOK'
    BY <1>3, <2>1 DEF PendingOK, Propose
  <2> QED BY <1>3, <2>2 DEF Propose, recVars, TableOK, ControlsOK, RequestsOK
<1>close. ASSUME NEW c \in Conns, Close(c) PROVE PendingOK'
  BY <1>close DEF Close, PendingOK
<1>created. ASSUME NEW c \in Conns, pending[c].op \in {"create", "insert"}
            PROVE  pending[c] \in Creations
  BY <1>created DEF PendingOK, Idle, Approvals, Announcements
<1>answer. ASSUME NEW c \in Conns, pending[c] \in Creations,
                  NEW outcome \in {"ok", "refused", "mismatch", "duplicate", "taken"},
                  NEW m \in Ids \cup {None}, Answer(c, pending[c], outcome, m)
           PROVE  reply' \in [Sessions ->
                    Maybe([tenant : Tenants, key : IdemKeys, ask : Asks,
                           outcome : {"ok", "refused", "mismatch", "duplicate", "taken"},
                           m : Maybe(Ids)])]
  BY <1>answer DEF Answer, Creations, Maybe, RequestsOK
<1>recorded. ASSUME NEW c \in Conns, pending[c] \in Creations, Recorded(pending[c]) # None
             PROVE  Recorded(pending[c]) \in [ask : Asks, m : Ids]
  BY <1>recorded DEF Recorded, RequestsOK, Creations, Maybe
<1>4. ASSUME NEW c \in Conns, CreateReplay(c) PROVE TypeOK'
  <2>1. pending[c] \in Creations /\ Recorded(pending[c]).m \in Ids
    BY <1>4, <1>created, <1>recorded DEF CreateReplay
  <2>2. RequestsOK'
    BY <1>4, <2>1, <1>answer DEF CreateReplay, RequestsOK
  <2> QED BY <1>4, <2>2, <1>close DEF CreateReplay, recVars, TableOK, ControlsOK
<1>5. ASSUME NEW c \in Conns, CreateLookup(c) PROVE TypeOK'
  <2>1. pending[c] \in Creations
    BY <1>5, <1>created DEF CreateLookup
  <2>2. [pending[c] EXCEPT !.op = "insert"] \in Creations
    BY <2>1 DEF Creations
  <2>3. PendingOK'
    BY <1>5, <2>2 DEF CreateLookup, PendingOK
  <2> QED BY <1>5, <2>3 DEF CreateLookup, recVars, TableOK, ControlsOK, RequestsOK
<1>6. ASSUME NEW c \in Conns, CreateDuplicate(c) \/ CreateKeyTaken(c) PROVE TypeOK'
  <2>1. pending[c] \in Creations
    BY <1>6, <1>created DEF CreateDuplicate, CreateKeyTaken
  <2>2. RequestsOK'
    BY <1>6, <2>1, <1>answer DEF CreateDuplicate, CreateKeyTaken, RequestsOK
  <2> QED BY <1>6, <2>2, <1>close
          DEF CreateDuplicate, CreateKeyTaken, recVars, TableOK, ControlsOK
<1>7. ASSUME NEW c \in Conns, NEW m \in Ids, CreateInsert(c, m) PROVE TypeOK'
  <2> DEFINE p == pending[c]
             to == IF p.actor = Mitigator THEN "proposed" ELSE "requested"
             new == [Absent EXCEPT !.ask = p.ask, !.tenant = p.tenant,
                                   !.incident = p.incident, !.requested_by = p.actor]
  <2>1. p \in Creations
    BY <1>7, <1>created DEF CreateInsert
  <2>2. new \in Records
    BY <2>1 DEF Creations, Absent, Records, Maybe, States
  <2>3. to \in States
    BY DEF States
  <2>4. \A v : Shape([new EXCEPT !.state = to, !.version = v, !.due = FALSE])
    BY <2>1 DEF Shape, Absent, Creations, AwaitsApproval
  <2>5. TableOK'
    BY <1>7, <2>1, <2>2, <2>3, <2>4, ChangeOK DEF CreateInsert, Creations
  <2>6. idem' \in [Tenants \X (IdemKeys \ {None}) -> Maybe([ask : Asks, m : Ids])]
    BY <1>7, <2>1 DEF CreateInsert, Creations, RequestsOK, Maybe
  <2>7. RequestsOK'
    BY <1>7, <2>1, <2>6, <1>answer DEF CreateInsert, RequestsOK
  <2> QED BY <1>7, <2>5, <2>7, <1>close DEF CreateInsert, ControlsOK
<1>8. ASSUME NEW s \in Sessions, NEW a \in Actors, NEW m \in Ids, ApproveRead(s, a, m)
      PROVE  TypeOK'
  <2>1. [op |-> "approve", actor |-> a, m |-> m, engaged |-> kill.engaged] \in Approvals
    BY DEF Approvals, ControlsOK
  <2>2. PendingOK'
    BY <1>8, <2>1 DEF ApproveRead, PendingOK
  <2> QED BY <1>8, <2>2 DEF ApproveRead, recVars, TableOK, ControlsOK, RequestsOK
<1>9. ASSUME NEW s \in Sessions, ApproveCommit(s) PROVE TypeOK'
  <2> DEFINE p == pending[s]
             new == [rec[p.m] EXCEPT !.approved_by = p.actor]
  <2>1. p \in Approvals
    BY <1>9 DEF ApproveCommit, PendingOK, Idle, Creations, Announcements
  <2>2. p.actor \in Actors /\ p.actor \in People /\ p.m \in Ids
    BY <2>1, <1>actors DEF Approvals
  <2>r. new \in Records
    BY <2>2, ApproverRecorded DEF TableOK
  <2>3. \A v : Shape([new EXCEPT !.state = "approved", !.version = v, !.due = FALSE])
    BY <1>9, <2>1 DEF ApproveCommit, ApproveAllowed, CanTransition, Approvals, TableOK,
                      Shape, Records, AwaitsApproval
  <2>4. TableOK'
    BY <1>9, <2>2, <2>r, <2>3, ChangeOK DEF ApproveCommit, States
  <2> QED BY <1>9, <2>4, <1>close DEF ApproveCommit, ControlsOK, RequestsOK
<1>10. ASSUME NEW s \in Sessions, ApproveRollback(s) PROVE TypeOK'
  BY <1>10, <1>close DEF ApproveRollback, recVars, TableOK, ControlsOK, RequestsOK
<1>rows. \A m \in Ids : rec[m] \in Records /\ Shape(rec[m]) /\ rec[m].version \in Nat
  BY DEF TableOK, Records
<1>11. ASSUME NEW s \in Sessions, NEW a \in Actors, NEW m \in Ids, Reject(s, a, m)
       PROVE  TypeOK'
  <2>1. \A v : Shape([rec[m] EXCEPT !.state = "rejected", !.version = v, !.due = FALSE])
    BY <1>11, <1>rows, PlainShape DEF Reject, Command, States
  <2>2. TableOK'
    BY <1>11, <2>1, <1>rows, <1>actors, CommandOK DEF Reject, States
  <2> QED BY <1>11, <2>2 DEF Reject, ControlsOK, RequestsOK, PendingOK
<1>down. ASSUME NEW c \in Conns, NEW a \in People, NEW m \in Ids, NEW permission,
                NEW cause \in Causes,
                Command(c, a, m, permission, DownState(m), [rec[m] EXCEPT !.cause = cause])
         PROVE  TableOK'
  <2>1. DownState(m) \in States /\ DownState(m) \in {"withdrawn", "withdrawing"}
    BY DEF DownState, States
  <2>2. \A v : Shape([[rec[m] EXCEPT !.cause = cause]
                        EXCEPT !.state = DownState(m), !.version = v, !.due = FALSE])
    BY <1>down, <2>1, <1>rows, DownShape DEF Command, DownState
  <2>3. [rec[m] EXCEPT !.cause = cause] \in Records
    BY <1>rows DEF Records, Maybe
  <2> QED BY <1>down, <2>1, <2>2, <2>3, CommandOK
<1>12. ASSUME NEW s \in Sessions, NEW a \in Actors, NEW m \in Ids, Withdraw(s, a, m)
       PROVE  TypeOK'
  <2>1. TableOK'
    BY <1>12, <1>down, <1>actors DEF Withdraw, Causes
  <2> QED BY <1>12, <2>1 DEF Withdraw, ControlsOK, RequestsOK, PendingOK
<1>13. ASSUME NEW a \in Actors, NEW engaged \in BOOLEAN, SetKillSwitch(a, engaged)
       PROVE  TypeOK'
  <2>1. ControlsOK'
    BY <1>13 DEF SetKillSwitch, ControlsOK
  <2> QED BY <1>13, <2>1 DEF SetKillSwitch, recVars, TableOK, RequestsOK, PendingOK
<1>14. ASSUME NEW cfg \in ApiConfigs, ApiRestart(cfg) PROVE TypeOK'
  <2>1. PendingOK'
    BY <1>14 DEF ApiRestart, PendingOK
  <2> QED BY <1>14, <2>1 DEF ApiRestart, recVars, TableOK, ControlsOK, RequestsOK
<1>15. ASSUME NEW m \in Ids, TimePasses(m) PROVE TypeOK'
  <2>1. [rec[m] EXCEPT !.due = TRUE] \in Records
    BY <1>rows DEF Records
  <2>2. Shape([rec[m] EXCEPT !.due = TRUE])
    BY <1>15, <1>rows DEF TimePasses, Shape, AwaitsApproval, Records
  <2>3. rec' = [rec EXCEPT ![m] = [rec[m] EXCEPT !.due = TRUE]]
    BY <1>15 DEF TimePasses
  <2>4. rec' \in [Ids -> Records] /\ \A n \in Ids : Shape(rec'[n])
    BY <2>1, <2>2, <2>3, <1>rows, Zenon DEF TableOK
  <2> QED BY <1>15, <2>4 DEF TimePasses, TableOK, ControlsOK, RequestsOK, PendingOK
<1>16. ASSUME NEW x \in DOMAIN idem, IdemExpires(x[1], x[2]) PROVE TypeOK'
  <2>1. RequestsOK'
    BY <1>16 DEF IdemExpires, RequestsOK, Maybe
  <2> QED BY <1>16, <2>1 DEF IdemExpires, recVars, TableOK, ControlsOK, PendingOK
<1>17. ASSUME NEW w \in Workers, NEW m \in Ids, NEW cfg \in Configs, NEW dry \in BOOLEAN,
              AnnounceRead(w, m, cfg, dry)
       PROVE  TypeOK'
  <2>1. [op |-> "announce", m |-> m, cfg |-> cfg, dry |-> dry, engaged |-> kill.engaged]
            \in Announcements
    BY DEF Announcements, ControlsOK
  <2>2. PendingOK'
    BY <1>17, <2>1 DEF AnnounceRead, PendingOK
  <2> QED BY <1>17, <2>2 DEF AnnounceRead, recVars, TableOK, ControlsOK, RequestsOK
<1>18. ASSUME NEW w \in Workers, AnnounceCommit(w) PROVE TypeOK'
  <2> DEFINE p == pending[w]
             new == [rec[p.m] EXCEPT !.dry_run = p.dry]
  <2>1. p \in Announcements
    BY <1>18 DEF AnnounceCommit, PendingOK, Idle, Creations, Approvals
  <2>2. p.m \in Ids /\ p.dry \in BOOLEAN
    BY <2>1 DEF Announcements
  <2>r. new \in Records
    BY <2>2, DryRunRecorded DEF TableOK
  <2>3. \A v : Shape([new EXCEPT !.state = "announcing", !.version = v, !.due = FALSE])
    BY <1>18, <2>1 DEF AnnounceCommit, CanTransition, Announcements, TableOK,
                       Shape, Records, AwaitsApproval
  <2>4. TableOK'
    BY <1>18, <1>mit, <2>2, <2>r, <2>3, ChangeOK DEF AnnounceCommit, States
  <2> QED BY <1>18, <2>4, <1>close DEF AnnounceCommit, ControlsOK, RequestsOK
<1>19. ASSUME NEW w \in Workers, AnnounceRollback(w) \/ WorkerLost(w) PROVE TypeOK'
  BY <1>19, <1>close DEF AnnounceRollback, WorkerLost, recVars, TableOK, ControlsOK, RequestsOK
<1>20. ASSUME NEW w \in Workers, NEW m \in Ids, NEW to \in States,
              Execute(w, m, to, rec[m]),
              \/ to \in {"expired", "failed", "active"}
              \/ to = "withdrawn" /\ rec[m].state # "approved"
       PROVE  TypeOK'
  <2>1. to = "withdrawn" => rec[m].state = "withdrawing"
    BY <1>20 DEF Execute, Command, CanTransition
  <2>2. \A v : Shape([rec[m] EXCEPT !.state = to, !.version = v, !.due = FALSE])
    BY <1>20, <2>1, <1>rows, PlainShape DEF Execute, Command
  <2>3. TableOK'
    BY <1>20, <2>2, <1>rows, <1>mit, CommandOK DEF Execute
  <2> QED BY <1>20, <2>3 DEF Execute, ControlsOK, RequestsOK, PendingOK
<1>21. ASSUME NEW w \in Workers, NEW m \in Ids, NEW cause \in {"kill_switch", "duration_reached"},
              BeginWithdrawal(w, m, cause)
       PROVE  TypeOK'
  <2>1. TableOK'
    BY <1>21, <1>down, <1>mit DEF BeginWithdrawal, Execute, Causes
  <2> QED BY <1>21, <2>1 DEF BeginWithdrawal, Execute, ControlsOK, RequestsOK, PendingOK
<1>22. CASE UNCHANGED mvars
  BY <1>22 DEF mvars, TableOK, ControlsOK, RequestsOK, PendingOK
<1>23. CASE ApiNext
  BY <1>23, <1>1, <1>2, <1>4, <1>5, <1>6, <1>7, <1>8, <1>9, <1>10, <1>11, <1>12, <1>13,
     <1>14, <1>15, <1>16 DEF ApiNext
<1>24. CASE WorkerNext
  <2>1. ASSUME NEW w \in Workers, NEW m \in Ids,
               MarkActive(w, m) \/ MarkFailed(w, m) \/ Expire(w, m) \/ MarkWithdrawn(w, m)
        PROVE  TypeOK'
    BY <2>1, <1>20 DEF MarkActive, MarkFailed, Expire, MarkWithdrawn, States
  <2> QED BY <1>24, <2>1, <1>3, <1>5, <1>6, <1>7, <1>17, <1>18, <1>19, <1>21 DEF WorkerNext
<1> QED BY <1>22, <1>23, <1>24 DEF MNext

\* The empty store is well formed.
LEMMA TypeInit == MInit => TypeOK
<1> SUFFICES ASSUME MInit PROVE TypeOK
  OBVIOUS
<1>1. Absent \in Records /\ Shape(Absent)
  BY DEF Absent, Records, Shape, Maybe, AwaitsApproval
<1>2. TableOK
  BY <1>1 DEF MInit, TableOK
<1>3. ControlsOK /\ RequestsOK /\ PendingOK
  BY DEF MInit, ControlsOK, RequestsOK, PendingOK, Maybe
<1> QED BY <1>2, <1>3 DEF TypeOK

\* The columns of every mitigation agree with its state, in every reachable
\* state of the store.
THEOREM TypeCorrect == MSpec => []TypeOK
BY TypeInit, TypeStep, PTL DEF MSpec

----------------------------------------------------------------------------
(* Every step does one of four things to the tables: nothing, it creates a *)
(* record, it lets time pass, or it moves one record along a legal edge.   *)

SelfApprovalAllowed == \E cfg \in ApiConfigs : cfg.allow_self_approval

Creates(m) ==
    \E a \in People, ask \in Asks, tenant \in Tenants,
       incident \in Maybe(Incidents), to \in AwaitsApproval :
        /\ ~Exists(m)
        /\ ~LiveTwin(ask)
        /\ Change(m, to, a, [Absent EXCEPT !.ask = ask, !.tenant = tenant,
                                           !.incident = incident, !.requested_by = a])

\* What a move may write beside the state.
Keeps(m, to, a, new) ==
    /\ new.ask = rec[m].ask
    /\ new.tenant = rec[m].tenant
    /\ new.requested_by = rec[m].requested_by
    /\ to # "announcing" => new.dry_run = rec[m].dry_run
    /\ to # "approved" => new.approved_by = rec[m].approved_by
    /\ to = "approved" =>
          /\ a \in Actors
          /\ May(a, "approve", rec[m].tenant)
          /\ a # rec[m].requested_by \/ SelfApprovalAllowed

Moves(m) ==
    \E to \in States, a \in People, new \in Records :
        /\ Exists(m)
        /\ CanTransition(rec[m].state, to)
        /\ Keeps(m, to, a, new)
        /\ Change(m, to, a, new)

\* Every step leaves the table alone, creates one mitigation (CreateInsert),
\* moves one along a legal transition, or lets time pass for one.
LEMMA Effects ==
    ASSUME TypeOK, [MNext]_mvars
    PROVE  \/ UNCHANGED recVars
           \/ \E m \in Ids : Creates(m) \/ Moves(m) \/ TimePasses(m)
<1> DEFINE Goal == \/ UNCHANGED recVars
                   \/ \E m \in Ids : Creates(m) \/ Moves(m) \/ TimePasses(m)
<1>rows. \A m \in Ids : rec[m] \in Records /\ Shape(rec[m])
  BY DEF TypeOK, TableOK
<1>people. Actors \subseteq People /\ Mitigator \in People
  BY DEF People
<1>1. ASSUME NEW c \in Sessions \cup Workers, NEW m \in Ids, CreateInsert(c, m)
      PROVE  Creates(m)
  <2>1. pending[c] \in Creations
    BY <1>1 DEF CreateInsert, TypeOK, PendingOK, Idle, Approvals, Announcements
  <2>2. /\ pending[c].actor \in People /\ pending[c].ask \in Asks
        /\ pending[c].tenant \in Tenants /\ pending[c].incident \in Maybe(Incidents)
        /\ (IF pending[c].actor = Mitigator THEN "proposed" ELSE "requested") \in AwaitsApproval
    BY <2>1 DEF Creations, AwaitsApproval
  <2>3. /\ ~Exists(m) /\ ~LiveTwin(pending[c].ask)
        /\ Change(m, IF pending[c].actor = Mitigator THEN "proposed" ELSE "requested",
                  pending[c].actor,
                  [Absent EXCEPT !.ask = pending[c].ask, !.tenant = pending[c].tenant,
                                 !.incident = pending[c].incident,
                                 !.requested_by = pending[c].actor])
    BY <1>1 DEF CreateInsert
  <2> QED BY <2>2, <2>3, Zenon DEF Creates
<1>plain. ASSUME NEW c, NEW a \in People, NEW m \in Ids, NEW permission, NEW to \in States,
                 to \notin {"approved", "announcing"},
                 Command(c, a, m, permission, to, rec[m])
          PROVE  Moves(m)
  BY <1>plain, <1>rows DEF Command, Moves, Keeps
<1>down. ASSUME NEW c, NEW a \in People, NEW m \in Ids, NEW permission, NEW cause \in Causes,
                Command(c, a, m, permission, DownState(m), [rec[m] EXCEPT !.cause = cause])
         PROVE  Moves(m)
  <2> DEFINE new == [rec[m] EXCEPT !.cause = cause]
  <2>1. new \in Records /\ Keeps(m, DownState(m), a, new) /\ DownState(m) \in States
    BY <1>rows DEF Records, Maybe, Keeps, DownState, States
  <2> QED BY <1>down, <2>1 DEF Command, Moves
<1>2. ASSUME NEW s \in Sessions, ApproveCommit(s) PROVE \E m \in Ids : Moves(m)
  <2> DEFINE p == pending[s]
             new == [rec[p.m] EXCEPT !.approved_by = p.actor]
  <2>1. p \in Approvals
    BY <1>2 DEF ApproveCommit, TypeOK, PendingOK, Idle, Creations, Announcements
  <2>2. p.actor \in Actors /\ p.actor \in People /\ p.m \in Ids
    BY <2>1, <1>people DEF Approvals
  <2>3. new \in Records
    BY <2>2, <1>rows, ApproverRecorded
  <2>4. SelfApprovalAllowed \/ rec[p.m].requested_by # p.actor
    BY <1>2 DEF ApproveCommit, ApproveAllowed, SelfApprovalAllowed, TypeOK, ControlsOK
  <2>5. Keeps(p.m, "approved", p.actor, new)
    BY <1>2, <1>rows, <2>2, <2>4 DEF ApproveCommit, ApproveAllowed, Keeps, Records
  <2>6. Exists(p.m)
    BY <1>2 DEF ApproveCommit, ApproveAllowed, CanTransition, AwaitsApproval, Exists
  <2>7. CanTransition(rec[p.m].state, "approved") /\ Change(p.m, "approved", p.actor, new)
    BY <1>2 DEF ApproveCommit, ApproveAllowed
  <2>8. Moves(p.m)
    BY <2>2, <2>3, <2>5, <2>6, <2>7 DEF Moves, States
  <2> QED BY <2>2, <2>8
<1>3. ASSUME NEW w \in Workers, AnnounceCommit(w) PROVE \E m \in Ids : Moves(m)
  <2> DEFINE p == pending[w]
             new == [rec[p.m] EXCEPT !.dry_run = p.dry]
  <2>1. p \in Announcements
    BY <1>3 DEF AnnounceCommit, TypeOK, PendingOK, Idle, Creations, Approvals
  <2>2. p.m \in Ids /\ p.dry \in BOOLEAN
    BY <2>1 DEF Announcements
  <2>3. new \in Records
    BY <2>2, <1>rows, DryRunRecorded
  <2>4. Keeps(p.m, "announcing", Mitigator, new)
    BY <1>rows, <2>2 DEF Keeps, Records
  <2>5. Exists(p.m)
    BY <1>3 DEF AnnounceCommit, CanTransition, AwaitsApproval, Exists
  <2>6. CanTransition(rec[p.m].state, "announcing") /\ Change(p.m, "announcing", Mitigator, new)
    BY <1>3 DEF AnnounceCommit
  <2>7. Moves(p.m)
    BY <1>people, <2>2, <2>3, <2>4, <2>5, <2>6 DEF Moves, States
  <2> QED BY <2>2, <2>7
<1>4. CASE UNCHANGED mvars
  BY <1>4 DEF mvars, recVars
<1>5. CASE ApiNext
  <2>1. ASSUME NEW s \in Sessions, NEW a \in Actors, NEW m \in Ids,
               Reject(s, a, m) \/ Withdraw(s, a, m)
        PROVE  Moves(m)
    BY <2>1, <1>people, <1>plain, <1>down DEF Reject, Withdraw, States, Causes
  <2>2. ASSUME NEW s \in Sessions, NEW a \in Actors, NEW ask \in Asks, NEW key \in IdemKeys,
               Request(s, a, ask, key) \/ RequestRefused(s, a, ask, key)
        PROVE  UNCHANGED recVars
    BY <2>2 DEF Request, RequestRefused
  <2>3. ASSUME NEW s \in Sessions,
               CreateReplay(s) \/ CreateLookup(s) \/ CreateDuplicate(s) \/ CreateKeyTaken(s)
               \/ ApproveRollback(s)
        PROVE  UNCHANGED recVars
    BY <2>3 DEF CreateReplay, CreateLookup, CreateDuplicate, CreateKeyTaken, ApproveRollback
  <2>4. ASSUME NEW s \in Sessions, NEW a \in Actors, NEW m \in Ids, ApproveRead(s, a, m)
        PROVE  UNCHANGED recVars
    BY <2>4 DEF ApproveRead
  <2>5. ASSUME NEW a \in Actors, NEW engaged \in BOOLEAN, SetKillSwitch(a, engaged)
        PROVE  UNCHANGED recVars
    BY <2>5 DEF SetKillSwitch
  <2>6. ASSUME NEW cfg \in ApiConfigs, ApiRestart(cfg) PROVE UNCHANGED recVars
    BY <2>6 DEF ApiRestart
  <2>7. ASSUME NEW x \in DOMAIN idem, IdemExpires(x[1], x[2]) PROVE UNCHANGED recVars
    BY <2>7 DEF IdemExpires
  <2> QED BY <1>5, <1>1, <1>2, <2>1, <2>2, <2>3, <2>4, <2>5, <2>6, <2>7 DEF ApiNext
<1>6. CASE WorkerNext
  <2>1. ASSUME NEW w \in Workers, NEW m \in Ids,
               \/ MarkActive(w, m) \/ MarkFailed(w, m) \/ Expire(w, m) \/ MarkWithdrawn(w, m)
               \/ \E cause \in {"kill_switch", "duration_reached"} : BeginWithdrawal(w, m, cause)
        PROVE  Moves(m)
    BY <2>1, <1>people, <1>plain, <1>down
       DEF MarkActive, MarkFailed, Expire, MarkWithdrawn, BeginWithdrawal, Execute, States, Causes
  <2>2. ASSUME NEW w \in Workers,
               \/ CreateLookup(w) \/ CreateDuplicate(w) \/ AnnounceRollback(w) \/ WorkerLost(w)
               \/ \E cfg \in Configs, tenant \in Tenants, ask \in Asks, i \in Incidents :
                     Propose(w, cfg, tenant, ask, i)
               \/ \E m \in Ids, cfg \in Configs, dry \in BOOLEAN : AnnounceRead(w, m, cfg, dry)
        PROVE  UNCHANGED recVars
    BY <2>2 DEF CreateLookup, CreateDuplicate, AnnounceRollback, WorkerLost, Propose, AnnounceRead
  <2> QED BY <1>6, <1>1, <1>3, <2>1, <2>2 DEF WorkerNext
<1> QED BY <1>4, <1>5, <1>6 DEF MNext

\* What a change does to its record and to its history, field by field.
LEMMA Changed ==
    ASSUME TypeOK, NEW m \in Ids, NEW to, NEW a, NEW new \in Records, Change(m, to, a, new)
    PROVE  /\ \A n \in Ids \ {m} : rec'[n] = rec[n] /\ history'[n] = history[n]
           /\ rec'[m].state = to
           /\ rec'[m].version = rec[m].version + 1
           /\ rec'[m].ask = new.ask
           /\ rec'[m].tenant = new.tenant
           /\ rec'[m].requested_by = new.requested_by
           /\ rec'[m].approved_by = new.approved_by
           /\ rec'[m].dry_run = new.dry_run
           /\ history'[m] = Append(history[m], [from |-> rec[m].state, to |-> to, actor |-> a])
BY DEF Change, TypeOK, TableOK, Records


\* However requests and proposals race, no two live mitigations have the same
\* action, prefix and match (V19's unique index).
THEOREM OneLivePerKeyHolds == MSpec => []OneLivePerKey
<1>1. MInit => OneLivePerKey
  BY DEF MInit, OneLivePerKey, Live, Absent
<1>2. TypeOK /\ OneLivePerKey /\ [MNext]_mvars => OneLivePerKey'
  <2> SUFFICES ASSUME TypeOK, OneLivePerKey, [MNext]_mvars PROVE OneLivePerKey'
    OBVIOUS
  <2>1. CASE UNCHANGED recVars
    BY <2>1 DEF recVars, OneLivePerKey, Live, Key
  <2>2. ASSUME NEW m \in Ids, Moves(m) PROVE OneLivePerKey'
    <3>1. PICK to \in States, a \in People, new \in Records :
             /\ Exists(m) /\ CanTransition(rec[m].state, to)
             /\ Keeps(m, to, a, new) /\ Change(m, to, a, new)
      BY <2>2 DEF Moves
    <3>2. Live(m)
      BY <3>1 DEF Exists, CanTransition, Live, Terminal, AwaitsApproval
    <3>3. \A n \in Ids : (Live(n)' => Live(n)) /\ Key(n)' = Key(n)
      <4>1. rec'[m].ask = rec[m].ask /\ \A n \in Ids \ {m} : rec'[n] = rec[n]
        BY <3>1, Changed DEF Keeps
      <4> QED BY <3>2, <4>1 DEF Live, Key
    <3> QED BY <3>3 DEF OneLivePerKey
  <2>3. ASSUME NEW m \in Ids, TimePasses(m) PROVE OneLivePerKey'
    <3>1. \A n \in Ids : rec'[n].state = rec[n].state /\ rec'[n].ask = rec[n].ask
      BY <2>3 DEF TimePasses, TypeOK, TableOK, Records
    <3> QED BY <3>1 DEF OneLivePerKey, Live, Key
  <2>4. ASSUME NEW m \in Ids, Creates(m) PROVE OneLivePerKey'
    <3>1. PICK a \in People, ask \in Asks, tenant \in Tenants,
       incident \in Maybe(Incidents), to \in AwaitsApproval :
             /\ ~LiveTwin(ask)
             /\ Change(m, to, a, [Absent EXCEPT !.ask = ask, !.tenant = tenant,
                                                !.incident = incident, !.requested_by = a])
      BY <2>4 DEF Creates
    <3>2. /\ rec' = [rec EXCEPT ![m] = rec'[m]]
          /\ rec'[m].ask = ask
      BY <3>1 DEF Change, Absent, TypeOK, TableOK
    <3>3. \A n \in Ids \ {m} : Live(n)' = Live(n) /\ Key(n)' = Key(n)
      BY <3>2 DEF Live, Key, TypeOK, TableOK
    <3>4. Key(m)' = DuplicateKey(ask)
      BY <3>2 DEF Key
    <3> QED BY <3>1, <3>3, <3>4 DEF OneLivePerKey, LiveTwin
  <2> QED BY <2>1, <2>2, <2>3, <2>4, Effects
<1> QED BY <1>1, <1>2, TypeCorrect, PTL DEF MSpec

\* One step of the store leaves what is settled of a mitigation as it was.
LEMMA FixedStep ==
    ASSUME TypeOK, [MNext]_mvars, NEW m \in Ids
    PROVE  FixedOnceSet(m)
<1>row. Shape(rec[m]) /\ rec[m] \in Records
  BY DEF TypeOK, TableOK
<1>1. CASE UNCHANGED recVars
  BY <1>1 DEF recVars, FixedOnceSet
<1>2. ASSUME NEW n \in Ids, Creates(n) PROVE FixedOnceSet(m)
  <2>1. CASE n = m
    BY <1>2, <2>1, <1>row DEF Creates, FixedOnceSet, Exists, Shape, Absent, Terminal
  <2>2. CASE n # m
    BY <1>2, <2>2 DEF Creates, Change, FixedOnceSet, TypeOK, TableOK
  <2> QED BY <2>1, <2>2
<1>3. ASSUME NEW n \in Ids, Moves(n) PROVE FixedOnceSet(m)
  <2>1. PICK to \in States, a \in People, new \in Records :
           /\ Exists(n) /\ CanTransition(rec[n].state, to)
           /\ Keeps(n, to, a, new) /\ Change(n, to, a, new)
    BY <1>3 DEF Moves
  <2>2. CASE n # m
    BY <2>1, <2>2, Changed DEF FixedOnceSet
  <2>3. CASE n = m
    <3>1. rec[m].state \notin Terminal
      BY <2>1, <2>3 DEF CanTransition, Terminal, AwaitsApproval
    <3>2. to = "approved" => rec[m].approved_by = None
      BY <2>1, <2>3, <1>row DEF CanTransition, Shape, AwaitsApproval
    <3>3. to = "announcing" => rec[m].dry_run = None
      BY <2>1, <2>3, <1>row DEF CanTransition, Shape, AwaitsApproval
    <3>4. /\ rec'[m].ask = rec[m].ask /\ rec'[m].tenant = rec[m].tenant
          /\ rec'[m].requested_by = rec[m].requested_by
          /\ to # "approved" => rec'[m].approved_by = rec[m].approved_by
          /\ to # "announcing" => rec'[m].dry_run = rec[m].dry_run
      BY ZenonT(30), <2>1, <2>3, Changed DEF Keeps
    <3> QED BY <3>1, <3>2, <3>3, <3>4 DEF FixedOnceSet
  <2> QED BY <2>2, <2>3
<1>4. ASSUME NEW n \in Ids, TimePasses(n) PROVE FixedOnceSet(m)
  BY <1>4, <1>row DEF TimePasses, FixedOnceSet, TypeOK, TableOK, Records, AwaitsApproval, Terminal
<1> QED BY <1>1, <1>2, <1>3, <1>4, Effects

\* What was asked for, by whom, who approved it and whether it was announced
\* live never change once set, and an ended mitigation never changes.
THEOREM WrittenOnceHolds == MSpec => WrittenOnce
<1>1. TypeOK /\ [MNext]_mvars => [\A m \in Ids : FixedOnceSet(m)]_mvars
  BY FixedStep
<1> QED BY <1>1, TypeCorrect, PTL DEF MSpec, WrittenOnce

----------------------------------------------------------------------------
(* The history. *)

\* HistoryIsTheRecord, of one mitigation.
Chained(h) ==
    \A i \in DOMAIN h :
        IF i = 1
          THEN h[1].from = "absent" /\ h[1].to \in AwaitsApproval
          ELSE h[i].from = h[i - 1].to /\ CanTransition(h[i].from, h[i].to)

Tells(m) ==
    /\ Len(history[m]) = rec[m].version
    /\ rec[m].version = 0 <=> ~Exists(m)
    /\ Exists(m) => history[m][rec[m].version].to = rec[m].state
    /\ Chained(history[m])

\* HistoryIsTheRecord, one mitigation at a time.
LEMMA TellsAll == HistoryIsTheRecord <=> \A m \in Ids : Tells(m)
BY DEF HistoryIsTheRecord, Tells, Chained

\* Appending a row keeps the chain.
LEMMA ChainExtends ==
    ASSUME NEW S, NEW h \in Seq(S), NEW row \in S, Chained(h),
           IF h = << >>
             THEN row.from = "absent" /\ row.to \in AwaitsApproval
             ELSE row.from = h[Len(h)].to /\ CanTransition(row.from, row.to)
    PROVE  Chained(Append(h, row))
<1> DEFINE g == Append(h, row)
<1>1. /\ Len(h) \in Nat /\ Len(g) = Len(h) + 1 /\ DOMAIN g = 1 .. (Len(h) + 1)
      /\ DOMAIN h = 1 .. Len(h)
      /\ \A i \in 1 .. Len(h) : g[i] = h[i]
      /\ g[Len(h) + 1] = row
  OBVIOUS
<1>2. SUFFICES ASSUME NEW i \in DOMAIN g
               PROVE  IF i = 1
                        THEN g[1].from = "absent" /\ g[1].to \in AwaitsApproval
                        ELSE g[i].from = g[i - 1].to /\ CanTransition(g[i].from, g[i].to)
  BY Zenon DEF Chained
<1> HIDE DEF g
<1>3. CASE i \in DOMAIN h
  <2>1. g[i] = h[i] /\ (i # 1 => i - 1 \in 1 .. Len(h) /\ g[i - 1] = h[i - 1])
    BY <1>1, <1>3
  <2> QED BY <1>3, <2>1 DEF Chained
<1>4. CASE i = Len(h) + 1
  <2>1. CASE h = << >>
    BY <1>1, <1>4, <2>1
  <2>2. CASE h # << >>
    <3>1. Len(h) \in 1 .. Len(h) /\ i # 1 /\ i - 1 = Len(h)
      BY <1>1, <1>4, <2>2
    <3> QED BY <1>1, <1>4, <2>2, <3>1
  <2> QED BY <2>1, <2>2
<1> QED BY <1>1, <1>3, <1>4

\* A change that is legal, or the first, keeps the history of its record and
\* leaves the others alone.
LEMMA TellsStep ==
    ASSUME TypeOK, NEW m \in Ids, NEW to \in States, NEW a \in People, NEW new \in Records,
           Change(m, to, a, new), \A n \in Ids : Tells(n),
           IF Exists(m) THEN CanTransition(rec[m].state, to) ELSE to \in AwaitsApproval
    PROVE  \A n \in Ids : Tells(n)'
<1> DEFINE row == [from |-> rec[m].state, to |-> to, actor |-> a]
<1>1. history \in [Ids -> Seq(HistoryRows)] /\ rec[m].version \in Nat
      /\ rec[m].state \in States \cup {"absent"}
  BY DEF TypeOK, TableOK, HistoryRows, Records
<1>h. history[m] \in Seq(HistoryRows)
  BY <1>1
<1>2. row \in HistoryRows
  BY <1>1 DEF HistoryRows
<1>3. /\ \A n \in Ids \ {m} : rec'[n] = rec[n] /\ history'[n] = history[n]
      /\ rec'[m].state = to /\ rec'[m].version = rec[m].version + 1
      /\ history'[m] = Append(history[m], row)
  BY Changed
<1>4. \A n \in Ids \ {m} : Tells(n)'
  BY <1>3 DEF Tells, Exists
<1>5. Chained(history[m]) /\ Len(history[m]) = rec[m].version
      /\ (rec[m].version = 0 <=> ~Exists(m))
      /\ (Exists(m) => history[m][rec[m].version].to = rec[m].state)
  BY DEF Tells
<1>6. Chained(history'[m])
  <2>1. CASE Exists(m)
    <3>1. history[m] # << >>
      BY <2>1, <1>1, <1>5
    <3>2. row.from = history[m][Len(history[m])].to /\ CanTransition(row.from, row.to)
      BY <2>1, <1>5
    <3> HIDE DEF row
    <3>3. Chained(Append(history[m], row))
      BY <1>2, <1>5, <1>h, <3>1, <3>2, ChainExtends
    <3> QED BY <1>3, <3>3
  <2>2. CASE ~Exists(m)
    <3>1. history[m] = << >>
      BY <2>2, <1>1, <1>5
    <3>2. row.from = "absent" /\ row.to \in AwaitsApproval
      BY <2>2 DEF Exists
    <3> HIDE DEF row
    <3>3. Chained(Append(history[m], row))
      BY <1>2, <1>5, <1>h, <3>1, <3>2, ChainExtends
    <3> QED BY <1>3, <3>3
  <2> QED BY <2>1, <2>2
<1>7. /\ Len(history'[m]) = rec'[m].version
      /\ history'[m][rec'[m].version].to = to
      /\ rec'[m].version # 0
  <2>1. Len(Append(history[m], row)) = Len(history[m]) + 1
        /\ Append(history[m], row)[Len(history[m]) + 1] = row
    BY <1>1, <1>2
  <2> QED BY <2>1, <1>1, <1>3, <1>5
<1>8. Exists(m)'
  BY <1>3 DEF Exists, States
<1>9. Tells(m)'
  BY <1>3, <1>6, <1>7, <1>8 DEF Tells
<1> QED BY <1>4, <1>9

\* What CreateInsert does to the record and the history of a new mitigation.
LEMMA CreatesRow ==
    ASSUME TypeOK, NEW m \in Ids, Creates(m)
    PROVE  \E to \in AwaitsApproval, a \in People, new \in Records :
              /\ ~Exists(m) /\ to \in States /\ Change(m, to, a, new)
              /\ new.requested_by = a
<1>1. PICK a \in People, ask \in Asks, tenant \in Tenants,
           incident \in Maybe(Incidents), to \in AwaitsApproval :
         /\ ~Exists(m)
         /\ Change(m, to, a, [Absent EXCEPT !.ask = ask, !.tenant = tenant,
                                            !.incident = incident, !.requested_by = a])
  BY DEF Creates
<1> DEFINE new == [Absent EXCEPT !.ask = ask, !.tenant = tenant,
                                 !.incident = incident, !.requested_by = a]
<1>2. new \in Records
  BY DEF Absent, Records, Maybe, States
<1>3. new.requested_by = a /\ to \in States
  BY DEF Absent, AwaitsApproval, States
<1> QED BY <1>1, <1>2, <1>3

\* The history of a mitigation is its own past, row by row.
THEOREM HistoryIsTheRecordHolds == MSpec => []HistoryIsTheRecord
<1>1. MInit => HistoryIsTheRecord
  BY DEF MInit, HistoryIsTheRecord, Absent, Exists
<1>2. TypeOK /\ HistoryIsTheRecord /\ [MNext]_mvars => HistoryIsTheRecord'
  <2> SUFFICES ASSUME TypeOK, HistoryIsTheRecord, [MNext]_mvars PROVE HistoryIsTheRecord'
    OBVIOUS
  <2>0. \A n \in Ids : Tells(n)
    BY TellsAll
  <2>all. (\A n \in Ids : Tells(n)') => HistoryIsTheRecord'
    BY DEF HistoryIsTheRecord, Tells, Chained
  <2>1. CASE UNCHANGED recVars
    BY <2>1, <2>0, <2>all DEF recVars, Tells, Exists
  <2>2. ASSUME NEW m \in Ids, Creates(m) PROVE HistoryIsTheRecord'
    BY <2>2, <2>0, <2>all, CreatesRow, TellsStep
  <2>3. ASSUME NEW m \in Ids, Moves(m) PROVE HistoryIsTheRecord'
    BY <2>3, <2>0, <2>all, TellsStep DEF Moves
  <2>4. ASSUME NEW m \in Ids, TimePasses(m) PROVE HistoryIsTheRecord'
    <3>1. \A n \in Ids : rec'[n].state = rec[n].state /\ rec'[n].version = rec[n].version
                         /\ history'[n] = history[n]
      BY <2>4 DEF TimePasses, TypeOK, TableOK, Records
    <3> QED BY <3>1, <2>0, <2>all DEF Tells, Exists
  <2> QED BY <2>1, <2>2, <2>3, <2>4, Effects
<1> QED BY <1>1, <1>2, TypeCorrect, PTL DEF MSpec

----------------------------------------------------------------------------
(* Four eyes.  The property speaks of the rows before "announcing"; what   *)
(* carries it is that a record in "approved" already has its approval row, *)
(* and that the first row names the requester.                             *)

ApprovalRow(m, j) ==
    /\ history[m][j].to = "approved"
    /\ history[m][j].actor \in Actors
    /\ May(history[m][j].actor, "approve", rec[m].tenant)
    /\ history[m][j].actor # history[m][1].actor \/ SelfApprovalAllowed

EyesOn(m) ==
    /\ Exists(m) => history[m] # << >> /\ history[m][1].actor = rec[m].requested_by
    /\ ~Exists(m) => history[m] = << >>
    /\ rec[m].state = "approved" => \E j \in DOMAIN history[m] : ApprovalRow(m, j)
    /\ \A i \in DOMAIN history[m] :
          history[m][i].to = "announcing" => \E j \in 1 .. (i - 1) : ApprovalRow(m, j)

\* A record whose rows and whose tenant, requester and state stay the same
\* keeps the property.
LEMMA EyesStay ==
    ASSUME NEW n \in Ids, EyesOn(n), history'[n] = history[n],
           rec'[n].state = rec[n].state, rec'[n].tenant = rec[n].tenant,
           rec'[n].requested_by = rec[n].requested_by
    PROVE  EyesOn(n)'
BY DEF EyesOn, ApprovalRow, Exists, May, SelfApprovalAllowed, Bundle, MitigatorGrants

\* A legal change of one mitigation keeps FourEyes: only an approved one can
\* become announcing, and its history then ends with the approval.
LEMMA EyesMove ==
    ASSUME TypeOK, NEW m \in Ids, EyesOn(m), Moves(m)
    PROVE  EyesOn(m)'
<1>1. PICK to \in States, a \in People, new \in Records :
         /\ Exists(m) /\ CanTransition(rec[m].state, to)
         /\ Keeps(m, to, a, new) /\ Change(m, to, a, new)
  BY DEF Moves
<1> DEFINE row == [from |-> rec[m].state, to |-> to, actor |-> a]
           L == Len(history[m])
<1>2. /\ rec'[m].state = to /\ rec'[m].tenant = rec[m].tenant
      /\ rec'[m].requested_by = rec[m].requested_by
      /\ history'[m] = Append(history[m], row)
  BY <1>1, Changed DEF Keeps
<1>3. history[m] \in Seq(HistoryRows) /\ rec[m].state \in States \cup {"absent"}
  BY DEF TypeOK, TableOK, HistoryRows, Records
<1>4. row \in HistoryRows
  BY <1>3 DEF HistoryRows
<1>5. /\ L \in Nat \ {0} /\ DOMAIN history[m] = 1 .. L
      /\ DOMAIN history'[m] = 1 .. (L + 1)
      /\ \A i \in 1 .. L : history'[m][i] = history[m][i]
      /\ history'[m][L + 1] = row
      /\ history'[m] # << >>
  <2>1. history[m] # << >>
    BY <1>1 DEF EyesOn
  <2> QED BY <1>2, <1>3, <1>4, <2>1
<1>6. history'[m][1] = history[m][1] /\ history[m][1].actor = rec[m].requested_by
  BY <1>1, <1>5 DEF EyesOn
<1>7. \A j \in 1 .. L : ApprovalRow(m, j) => ApprovalRow(m, j)'
  BY <1>2, <1>5, <1>6 DEF ApprovalRow, May, SelfApprovalAllowed, Bundle, MitigatorGrants
<1>8. ASSUME to = "approved" PROVE \E j \in 1 .. (L + 1) : ApprovalRow(m, j)'
  <2>1. a \in Actors /\ May(a, "approve", rec[m].tenant)
        /\ (a # rec[m].requested_by \/ SelfApprovalAllowed)
    BY <1>1, <1>8 DEF Keeps
  <2>2. PICK k \in 1 .. (L + 1) : k = L + 1
    <3>1. \A n \in Nat : \E k \in 1 .. (n + 1) : k = n + 1
      OBVIOUS
    <3>2. L \in Nat
      BY <1>5
    <3> HIDE DEF L
    <3> QED BY ONLY <3>1, <3>2
  <2>3. history'[m][k].to = "approved" /\ history'[m][k].actor = a
    BY <1>5, <1>8, <2>2
  <2>4. ApprovalRow(m, k)'
    BY <2>1, <2>3, <1>2, <1>6
       DEF ApprovalRow, May, SelfApprovalAllowed, Bundle, MitigatorGrants
  <2> QED BY <2>4
<1>9. to = "announcing" => \E j \in 1 .. L : ApprovalRow(m, j)
  BY <1>1, <1>5 DEF CanTransition, EyesOn, AwaitsApproval
<1>10. ASSUME NEW i \in 1 .. (L + 1), history'[m][i].to = "announcing"
       PROVE  \E j \in 1 .. (i - 1) : ApprovalRow(m, j)'
  <2>1. CASE i = L + 1
    <3>1. \E j \in 1 .. L : ApprovalRow(m, j)
      BY <1>5, <1>9, <1>10, <2>1
    <3> QED BY <3>1, <1>5, <1>7, <2>1
  <2>2. CASE i \in 1 .. L
    <3>1. \E j \in 1 .. (i - 1) : ApprovalRow(m, j)
      BY <1>5, <1>10, <2>2 DEF EyesOn
    <3> QED BY <3>1, <1>5, <1>7, <2>2
  <2> QED BY <1>5, <2>1, <2>2
<1>11. Exists(m)'
  BY <1>2 DEF Exists, States
<1>12. rec'[m].state = "approved" => \E j \in DOMAIN history'[m] : ApprovalRow(m, j)'
  BY <1>2, <1>5, <1>8
<1>13. \A i \in DOMAIN history'[m] :
          history'[m][i].to = "announcing" => \E j \in 1 .. (i - 1) : ApprovalRow(m, j)'
  BY <1>5, <1>10
<1>14. history'[m] # << >> /\ history'[m][1].actor = rec'[m].requested_by
  BY <1>2, <1>5, <1>6
<1> QED BY <1>11, <1>12, <1>13, <1>14 DEF EyesOn

\* A new mitigation has one history row, and has announced nothing.
LEMMA EyesCreate ==
    ASSUME TypeOK, NEW m \in Ids, EyesOn(m), Creates(m)
    PROVE  EyesOn(m)'
<1>1. PICK to \in AwaitsApproval, a \in People, new \in Records :
         /\ ~Exists(m) /\ to \in States /\ Change(m, to, a, new) /\ new.requested_by = a
  BY CreatesRow
<1> DEFINE row == [from |-> rec[m].state, to |-> to, actor |-> a]
<1>2. history[m] = << >>
  BY <1>1 DEF EyesOn
<1>3. /\ history'[m] = << row >> /\ rec'[m].state = to /\ rec'[m].requested_by = a
  BY <1>1, <1>2, Changed
<1>4. Exists(m)' /\ to \notin {"announcing", "approved"}
  BY <1>1, <1>3 DEF Exists, AwaitsApproval
<1>5. DOMAIN << row >> = {1} /\ << row >>[1] = row /\ << row >> # << >>
  OBVIOUS
<1> QED BY <1>3, <1>4, <1>5 DEF EyesOn

\* Nothing is announced that a second person, with the right to, has not
\* approved before, unless some guard file allows self-approval.
THEOREM FourEyesHolds == MSpec => []FourEyes
<1> DEFINE Eyes == \A m \in Ids : EyesOn(m)
<1>1. MInit => Eyes
  BY DEF MInit, EyesOn, Absent, Exists
<1>2. TypeOK /\ Eyes /\ [MNext]_mvars => Eyes'
  <2> SUFFICES ASSUME TypeOK, Eyes, [MNext]_mvars, NEW n \in Ids PROVE EyesOn(n)'
    OBVIOUS
  <2>1. CASE UNCHANGED recVars
    BY <2>1, EyesStay DEF recVars
  <2>2. ASSUME NEW m \in Ids, Creates(m) PROVE EyesOn(n)'
    <3>1. CASE m = n
      BY <2>2, <3>1, EyesCreate
    <3>2. CASE m # n
      <4>0. PICK to \in AwaitsApproval, a \in People, new \in Records : Change(m, to, a, new)
        BY <2>2, CreatesRow
      <4>1. rec'[n] = rec[n] /\ history'[n] = history[n]
        BY <3>2, <4>0 DEF Change, TypeOK, TableOK
      <4> QED BY <4>1, EyesStay
    <3> QED BY <3>1, <3>2
  <2>3. ASSUME NEW m \in Ids, Moves(m) PROVE EyesOn(n)'
    <3>1. CASE m = n
      BY <2>3, <3>1, EyesMove
    <3>2. CASE m # n
      <4>0. PICK to \in States, a \in People, new \in Records : Change(m, to, a, new)
        BY <2>3 DEF Moves
      <4>1. rec'[n] = rec[n] /\ history'[n] = history[n]
        BY <3>2, <4>0 DEF Change, TypeOK, TableOK
      <4> QED BY <4>1, EyesStay
    <3> QED BY <3>1, <3>2
  <2>4. ASSUME NEW m \in Ids, TimePasses(m) PROVE EyesOn(n)'
    <3>1. /\ rec'[n].state = rec[n].state /\ rec'[n].tenant = rec[n].tenant
          /\ rec'[n].requested_by = rec[n].requested_by /\ history'[n] = history[n]
      BY <2>4 DEF TimePasses, TypeOK, TableOK, Records
    <3> QED BY <3>1, EyesStay
  <2> QED BY <2>1, <2>2, <2>3, <2>4, Effects
<1>3. Eyes => FourEyes
  BY DEF EyesOn, ApprovalRow, FourEyes, SelfApprovalAllowed
<1> QED BY <1>1, <1>2, <1>3, TypeCorrect, PTL DEF MSpec
----------------------------------------------------------------------------
(* Retries of a keyed request. *)

\* A key names a mitigation that exists, is the tenant's and is what was
\* asked for under the key.
KeyNamesIt ==
    \A x \in DOMAIN idem : idem[x] # None =>
        /\ Exists(idem[x].m)
        /\ rec[idem[x].m].ask = idem[x].ask
        /\ rec[idem[x].m].tenant = x[1]

Succeeded(s) == reply[s] # None /\ reply[s].outcome = "ok"

\* Whoever was told of a success was told what the key names.
ToldByKey ==
    \A s \in Sessions : Succeeded(s) =>
        /\ reply[s].key # None
        /\ idem[<<reply[s].tenant, reply[s].key>>] # None
        /\ idem[<<reply[s].tenant, reply[s].key>>] = [ask |-> reply[s].ask, m |-> reply[s].m]

\* A mitigation that exists keeps what was asked and for whom.
LEMMA RowsStay ==
    ASSUME TypeOK, [MNext]_mvars, NEW m \in Ids, Exists(m)
    PROVE  Exists(m)' /\ rec'[m].ask = rec[m].ask /\ rec'[m].tenant = rec[m].tenant
<1>1. CASE UNCHANGED recVars
  BY <1>1 DEF recVars, Exists
<1>2. ASSUME NEW n \in Ids, Creates(n)
      PROVE  Exists(m)' /\ rec'[m].ask = rec[m].ask /\ rec'[m].tenant = rec[m].tenant
  <2>1. n # m
    BY <1>2 DEF Creates
  <2> QED BY <1>2, <2>1 DEF Creates, Change, Exists, TypeOK, TableOK
<1>3. ASSUME NEW n \in Ids, Moves(n)
      PROVE  Exists(m)' /\ rec'[m].ask = rec[m].ask /\ rec'[m].tenant = rec[m].tenant
  <2>1. PICK to \in States, a \in People, new \in Records :
           Keeps(n, to, a, new) /\ Change(n, to, a, new)
    BY <1>3 DEF Moves
  <2>2. to # "absent"
    BY DEF States
  <2>3. CASE n = m
    BY ZenonT(30), <2>1, <2>2, <2>3, Changed DEF Keeps, Exists
  <2>4. CASE n # m
    BY ZenonT(30), <2>1, <2>4, Changed DEF Exists
  <2> QED BY <2>3, <2>4
<1>4. ASSUME NEW n \in Ids, TimePasses(n)
      PROVE  Exists(m)' /\ rec'[m].ask = rec[m].ask /\ rec'[m].tenant = rec[m].tenant
  BY <1>4 DEF TimePasses, Exists, TypeOK, TableOK, Records
<1> QED BY <1>1, <1>2, <1>3, <1>4, Effects

\* Refused: a request is told no, and its key is left as it was.
ToldNo ==
    \E c \in Sessions \cup Workers, p \in Creations,
       outcome \in {"refused", "mismatch", "duplicate", "taken"} :
        Answer(c, p, outcome, None) /\ idem' = idem

\* Every step leaves keys and answers alone, lets a key expire, refuses,
\* replays, or creates.
LEMMA KeyEffects ==
    ASSUME TypeOK, [MNext]_mvars
    PROVE  \/ UNCHANGED <<idem, reply>>
           \/ \E x \in DOMAIN idem : IdemExpires(x[1], x[2])
           \/ ToldNo
           \/ \E c \in Sessions \cup Workers :
                 \/ /\ CreateReplay(c)
                    /\ Recorded(pending[c]).ask = pending[c].ask
                 \/ \E m \in Ids : CreateInsert(c, m)
<1>1. ASSUME NEW s \in Sessions, NEW a \in Actors, NEW ask \in Asks, NEW key \in IdemKeys,
             RequestRefused(s, a, ask, key)
      PROVE  ToldNo
  <2>1. Creation(a, TenantOf[a], ask, key, None) \in Creations
    BY DEF Creation, Creations, Maybe, People, Tenants
  <2> QED BY <1>1, <2>1 DEF RequestRefused, ToldNo
<1>created. ASSUME NEW c \in Sessions \cup Workers, pending[c].op \in {"create", "insert"}
            PROVE  pending[c] \in Creations
  BY <1>created DEF TypeOK, PendingOK, Idle, Approvals, Announcements
<1>2. ASSUME NEW c \in Sessions \cup Workers,
             CreateReplay(c), Recorded(pending[c]).ask # pending[c].ask
      PROVE  ToldNo
  BY <1>2, <1>created DEF CreateReplay, ToldNo
<1>3. ASSUME NEW c \in Sessions \cup Workers, CreateDuplicate(c) \/ CreateKeyTaken(c)
      PROVE  ToldNo
  BY <1>3, <1>created DEF CreateDuplicate, CreateKeyTaken, ToldNo
<1>4. CASE UNCHANGED mvars
  BY <1>4 DEF mvars
<1>5. CASE ApiNext
  BY <1>5, <1>1, <1>2, <1>3
     DEF ApiNext, Request, CreateLookup, ApproveCommit, ApproveRollback, ApproveRead, Reject,
         Withdraw, SetKillSwitch, ApiRestart, TimePasses
<1>6. CASE WorkerNext
  BY <1>6, <1>3
     DEF WorkerNext, Propose, CreateLookup, AnnounceRead, AnnounceCommit, AnnounceRollback,
         WorkerLost, MarkActive, MarkFailed, Expire, MarkWithdrawn, BeginWithdrawal, Execute
<1> QED BY <1>4, <1>5, <1>6 DEF MNext

\* However its retries race, a keyed request creates one mitigation, and
\* everyone told of its success is told of that one (MitigationStore::create).
THEOREM KeyedOnceHolds == MSpec => []KeyedOnce
<1> DEFINE Inv == KeyNamesIt /\ ToldByKey
<1>1. MInit => Inv
  BY DEF MInit, KeyNamesIt, ToldByKey, Succeeded
<1>2. TypeOK /\ Inv /\ [MNext]_mvars => Inv'
  <2> SUFFICES ASSUME TypeOK, KeyNamesIt, ToldByKey, [MNext]_mvars
               PROVE  KeyNamesIt' /\ ToldByKey'
    OBVIOUS
  <2>types. RequestsOK
    BY DEF TypeOK
  <2>named. \A x \in DOMAIN idem : idem[x] # None =>
               /\ rec'[idem[x].m].state # "absent"
               /\ rec'[idem[x].m].ask = idem[x].ask
               /\ rec'[idem[x].m].tenant = x[1]
    <3> SUFFICES ASSUME NEW x \in DOMAIN idem, idem[x] # None
                 PROVE  /\ rec'[idem[x].m].state # "absent"
                        /\ rec'[idem[x].m].ask = idem[x].ask
                        /\ rec'[idem[x].m].tenant = x[1]
      OBVIOUS
    <3>1. idem[x].m \in Ids
      BY <2>types DEF RequestsOK, Maybe
    <3>2. Exists(idem[x].m) /\ rec[idem[x].m].ask = idem[x].ask /\ rec[idem[x].m].tenant = x[1]
      BY DEF KeyNamesIt
    <3>3. \A m \in Ids : Exists(m) =>
             Exists(m)' /\ rec'[m].ask = rec[m].ask /\ rec'[m].tenant = rec[m].tenant
      BY RowsStay
    <3> QED BY <3>1, <3>2, <3>3 DEF Exists
  <2>kept. idem' = idem => KeyNamesIt'
    BY <2>named DEF KeyNamesIt, Exists
  <2>1. CASE UNCHANGED <<idem, reply>>
    BY <2>1, <2>kept DEF ToldByKey, Succeeded
  <2>2. ASSUME NEW x \in DOMAIN idem, IdemExpires(x[1], x[2])
        PROVE  KeyNamesIt' /\ ToldByKey'
    <3>x. x = <<x[1], x[2]>>
      BY <2>types DEF RequestsOK
    <3>1. \A y \in DOMAIN idem : idem'[y] = IF y = x THEN None ELSE idem[y]
      BY <2>2, <2>types, <3>x DEF IdemExpires, RequestsOK
    <3>2. DOMAIN idem' = DOMAIN idem
      BY <2>2, <2>types DEF IdemExpires, RequestsOK
    <3>3. KeyNamesIt'
      BY <3>1, <3>2, <2>named DEF KeyNamesIt, Exists
    <3>4. ASSUME NEW s \in Sessions, Succeeded(s)'
          PROVE  /\ reply'[s].key # None
                 /\ idem'[<<reply'[s].tenant, reply'[s].key>>] # None
                 /\ idem'[<<reply'[s].tenant, reply'[s].key>>]
                      = [ask |-> reply'[s].ask, m |-> reply'[s].m]
      <4>1. reply'[s] = reply[s] /\ Succeeded(s)
        BY <2>2, <3>4 DEF IdemExpires, Succeeded
      <4>2. ~(reply[s].tenant = x[1] /\ reply[s].key = x[2])
        BY <2>2, <3>4 DEF IdemExpires, Succeeded
      <4>3. /\ reply[s].key # None
            /\ idem[<<reply[s].tenant, reply[s].key>>] # None
            /\ idem[<<reply[s].tenant, reply[s].key>>] = [ask |-> reply[s].ask, m |-> reply[s].m]
        BY <4>1 DEF ToldByKey
      <4>4. <<reply[s].tenant, reply[s].key>> \in DOMAIN idem
        BY <4>1, <4>3, <2>types DEF RequestsOK, Succeeded, Maybe
      <4> QED BY <3>1, <3>x, <4>1, <4>2, <4>3, <4>4
    <3> QED BY <3>3, <3>4 DEF ToldByKey
  <2>3. CASE ToldNo
    BY <2>3, <2>kept, <2>types DEF ToldNo, Answer, ToldByKey, Succeeded, RequestsOK
  <2>4. ASSUME NEW c \in Sessions \cup Workers, CreateReplay(c),
               Recorded(pending[c]).ask = pending[c].ask
        PROVE  KeyNamesIt' /\ ToldByKey'
    <3> DEFINE p == pending[c]
    <3>1. p \in Creations /\ p.key # None /\ idem[<<p.tenant, p.key>>] # None
      BY <2>4 DEF CreateReplay, Recorded, TypeOK, PendingOK, Idle, Approvals, Announcements
    <3>2. idem[<<p.tenant, p.key>>] = [ask |-> p.ask, m |-> Recorded(p).m]
      BY <2>4, <3>1, <2>types DEF Recorded, RequestsOK, Creations, Maybe
    <3>3. /\ idem' = idem
          /\ reply' = [reply EXCEPT ![c] = [tenant |-> p.tenant, key |-> p.key, ask |-> p.ask,
                                            outcome |-> "ok", m |-> Recorded(p).m]]
      BY <2>4, <3>1 DEF CreateReplay, Answer
    <3> HIDE DEF p
    <3> QED BY <3>1, <3>2, <3>3, <2>kept, <2>types DEF ToldByKey, Succeeded, RequestsOK
  <2>5. ASSUME NEW c \in Sessions \cup Workers, NEW m \in Ids, CreateInsert(c, m)
        PROVE  KeyNamesIt' /\ ToldByKey'
    <3> DEFINE p == pending[c]
               k == <<p.tenant, p.key>>
    <3>1. p \in Creations
      BY <2>5 DEF CreateInsert, TypeOK, PendingOK, Idle, Approvals, Announcements
    <3>2. CASE p.key = None
      BY <2>5, <3>2, <2>kept DEF CreateInsert, Answer, ToldByKey, Succeeded
    <3>3. CASE p.key # None
      <4>1. k \in DOMAIN idem /\ idem[k] = None
        BY <2>5, <3>1, <3>3, <2>types DEF CreateInsert, Recorded, RequestsOK, Creations, Maybe
      <4>2. idem' = [idem EXCEPT ![k] = [ask |-> p.ask, m |-> m]]
        BY <2>5, <3>3 DEF CreateInsert
      <4>3. Exists(m)' /\ rec'[m].ask = p.ask /\ rec'[m].tenant = p.tenant
        BY <2>5, <3>1 DEF CreateInsert, Change, Exists, Absent, TypeOK, TableOK, Creations
      <4>4. [ask |-> p.ask, m |-> m] # None
        BY <3>1, NoneAssumption DEF Creations
      <4>5. KeyNamesIt'
        BY <4>1, <4>2, <4>3, <2>named, <2>types DEF KeyNamesIt, RequestsOK, Exists
      <4>6. reply' = [reply EXCEPT ![c] = [tenant |-> p.tenant, key |-> p.key, ask |-> p.ask,
                                           outcome |-> "ok", m |-> m]]
        BY <2>5, <3>3 DEF CreateInsert, Answer
      <4>7. ToldByKey'
        <5> SUFFICES ASSUME NEW s \in Sessions, Succeeded(s)'
                     PROVE  /\ reply'[s].key # None
                            /\ idem'[<<reply'[s].tenant, reply'[s].key>>] # None
                            /\ idem'[<<reply'[s].tenant, reply'[s].key>>]
                                 = [ask |-> reply'[s].ask, m |-> reply'[s].m]
          BY DEF ToldByKey
        <5>1. CASE s = c
          BY <5>1, <3>3, <4>1, <4>2, <4>4, <4>6, <2>types DEF RequestsOK
        <5>2. CASE s # c
          <6>1. reply'[s] = reply[s] /\ Succeeded(s)
            BY <5>2, <4>6, <2>types DEF RequestsOK, Succeeded
          <6>2. /\ reply[s].key # None
                /\ idem[<<reply[s].tenant, reply[s].key>>] # None
                /\ idem[<<reply[s].tenant, reply[s].key>>]
                     = [ask |-> reply[s].ask, m |-> reply[s].m]
            BY <6>1 DEF ToldByKey
          <6>3. <<reply[s].tenant, reply[s].key>> \in DOMAIN idem
            BY <6>1, <6>2, <2>types DEF RequestsOK, Succeeded, Maybe
          <6>4. <<reply[s].tenant, reply[s].key>> # k
            BY <6>2, <4>1
          <6> QED BY <6>1, <6>2, <6>3, <6>4, <4>2
        <5> QED BY <5>1, <5>2
      <4> QED BY <4>5, <4>7
    <3> QED BY <3>2, <3>3
  <2> QED BY <2>1, <2>2, <2>3, <2>4, <2>5, KeyEffects
<1>3. TypeOK /\ Inv => KeyedOnce
  <2> SUFFICES ASSUME TypeOK, KeyNamesIt, ToldByKey PROVE KeyedOnce
    OBVIOUS
  <2>1. ASSUME NEW s \in Sessions, Succeeded(s)
        PROVE  /\ <<reply[s].tenant, reply[s].key>> \in DOMAIN idem
               /\ idem[<<reply[s].tenant, reply[s].key>>]
                    = [ask |-> reply[s].ask, m |-> reply[s].m]
               /\ idem[<<reply[s].tenant, reply[s].key>>] # None
    BY <2>1 DEF ToldByKey, TypeOK, RequestsOK, Succeeded, Maybe
  <2>2. ASSUME NEW s \in Sessions, Succeeded(s)
        PROVE  rec[reply[s].m].ask = reply[s].ask /\ rec[reply[s].m].tenant = reply[s].tenant
    <3> DEFINE x == <<reply[s].tenant, reply[s].key>>
    <3>1. x \in DOMAIN idem /\ idem[x] # None /\ idem[x] = [ask |-> reply[s].ask, m |-> reply[s].m]
      BY <2>1, <2>2
    <3>2. rec[idem[x].m].ask = idem[x].ask /\ rec[idem[x].m].tenant = x[1]
      BY <3>1 DEF KeyNamesIt
    <3> QED BY <3>1, <3>2
  <2>3. ASSUME NEW s \in Sessions, NEW t \in Sessions, Succeeded(s), Succeeded(t),
               <<reply[s].tenant, reply[s].key>> = <<reply[t].tenant, reply[t].key>>
        PROVE  reply[s].m = reply[t].m
    <3>1. [ask |-> reply[s].ask, m |-> reply[s].m] = [ask |-> reply[t].ask, m |-> reply[t].m]
      BY <2>1, <2>3
    <3> QED BY <3>1
  <2> QED BY <2>2, <2>3 DEF KeyedOnce, Succeeded
<1> QED BY <1>1, <1>2, <1>3, TypeCorrect, PTL DEF MSpec
============================================================================
