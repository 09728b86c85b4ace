-------------------------- MODULE IncidentsProofs ---------------------------
(***************************************************************************)
(* What holds of Incidents for any number of workers, timers, operators    *)
(* and detection events, whatever order their statements come in: an       *)
(* incident is changed only by the call that holds its row, the evidence   *)
(* it counts is what is linked to it, a version names what its author saw, *)
(* and a timer that waited does not act on what it was told.               *)
(***************************************************************************)
EXTENDS Incidents, FiniteSetTheorems, TLAPS

\* The values a call's fields may have.
Steps == {"idle", "begin", "active", "allocate", "again", "candidate", "reopen", "row", "decide",
          "done", "failed"}

Outcomes == {"updated", "linked_late", "reopened", "created", "duplicate", "quarantined", "observe_only"}

Ops == {"none", "ingest", "create"} \cup Timers \cup Commands
Subjects == Events \cup Ids \cup Keys \cup {None}
Arguments == Nat \cup BOOLEAN \cup Outcomes \cup {None}

Calls ==
    [op : Ops, subject : Subjects, arg : Arguments, step : Steps, aim : Ids \cup {None},
     row : Ids \cup {None}, now : Nat, tries : Nat, known : BOOLEAN,
     seen : {Substance(r) : r \in Rows} \cup {None}]

InboxRows ==
    [status : {"absent", "pending", "retrying", "processed", "dead_letter"}, attempts : Nat,
     holder : Workers \cup {None}, due : BOOLEAN, outcome : Outcomes \cup {None}]

StoreTypeOK ==
    /\ inc \in [Ids -> Rows \cup {None}]
    /\ links \in [Events -> Ids \cup {None}]
    /\ inbox \in [Events -> InboxRows]
    /\ rowLock \in [Ids -> Procs \cup {None}]
    /\ call \in [Procs -> Calls]
    /\ todo \in [Workers \cup Maintainers -> SUBSET (Events \cup (Timers \X Ids))]

\* Which calls a process makes.
Role(p, c) ==
    /\ p \in Workers => c.op \in {"none", "ingest"}
    /\ p \in Maintainers => c.op \in {"none"} \cup Timers
    /\ p \in Operators => c.op \in {"none", "create"} \cup Commands

\* A call is about something that exists, and can be read if it is an event, ...
Subject(c) ==
    /\ c.op = "none" => c.step = "idle"
    /\ c.op = "ingest" => /\ c.subject \in Events /\ c.arg \in Outcomes \cup {None}
                          /\ c.step # "failed" => ClassOf[c.subject] # "garbled"
    /\ c.op = "create" => c.subject \in Keys /\ c.arg \in BOOLEAN
    /\ c.op \in Commands \cup Timers => c.subject \in Stored

\* ... aims at an incident of its key, ...
Aims(c) ==
    /\ c.op \in Commands \cup Timers /\ InTransaction(c) => c.step \in {"row", "decide"} /\ c.aim = c.subject
    /\ c.step \in {"active", "again", "candidate", "reopen"} => c.op = "ingest"
    /\ c.step = "row" => c.op \in Commands \cup Timers
    /\ c.step \in {"active", "again", "reopen", "row"} => c.aim # None
    /\ c.aim # None => c.aim \in Stored /\ (c.op = "ingest" => inc[c.aim].key = KeyOf[c.subject])

\* ... and decides on the one it aimed at.
Reads(c) ==
    /\ c.op \in Commands \cup Timers /\ c.step = "decide" => c.row = c.subject
    /\ c.row # None => c.step = "decide" /\ c.row = c.aim

\* It holds the row of that one, and could read it.
Holds(p, c) == c.row # None => rowLock[c.row] = p /\ Reconstitutes(inc[c.row])

\* A worker that found the event linked, or is done with it, left a link.
Reports(c) ==
    c.op = "ingest" /\ (c.known \/ (c.step = "done" /\ c.arg \notin {"quarantined", "observe_only"})) =>
        links[c.subject] # None

\* A command's version is one the incident had; while it has it still, it is
\* the incident its author was looking at.
Looks(c) ==
    c.op \in Commands =>
        /\ c.arg \in Nat /\ c.arg <= inc[c.subject].version
        /\ c.arg = inc[c.subject].version => c.seen = Substance(inc[c.subject])

Sensible(p, c) == Role(p, c) /\ Subject(c) /\ Aims(c) /\ Reads(c) /\ Reports(c) /\ Looks(c)

\* A timer is proposed for something stored.
Proposals ==
    \A m \in Maintainers : todo[m] \subseteq Timers \X Stored

\* What a worker still has to do is an event.
Claims == \A w \in Workers : todo[w] \subseteq Events

\* An event is linked to an incident of its key, and one reported to have an
\* incident is linked.
Linked ==
    /\ \A e \in Events : links[e] # None => links[e] \in Stored /\ inc[links[e]].key = KeyOf[e]
    /\ \A e \in Events :
          inbox[e].status = "processed" /\ inbox[e].outcome \notin {"quarantined", "observe_only"} =>
              links[e] # None

Sound ==
    /\ StoreTypeOK
    /\ \A p \in Procs : Sensible(p, call[p]) /\ Holds(p, call[p])
    /\ Proposals /\ Claims
    /\ Linked

(***************************************************************************)
(* What a change makes of one incident.                                    *)
(***************************************************************************)
\* A change keeps the key and takes a later version.
Changes(r, s) == s \in Rows /\ s.key = r.key /\ s.version > r.version

\* It leaves the evidence alone, or adds one event to it.
SameEvidence(r, s) == s.observed = r.observed /\ s.retained = r.retained

Evidence(r, e, s) ==
    /\ s.observed = r.observed + 1
    /\ s.retained = IF Cardinality(r.retained) < EvidenceMax THEN r.retained \cup {e} ELSE r.retained

\* Touch and Record, field by field.
LEMMA TouchFields ==
    ASSUME NEW r \in Rows, NEW now \in Nat
    PROVE  /\ Changes(r, Touch(r, now)) /\ SameEvidence(r, Touch(r, now))
           /\ Touch(r, now).state = r.state /\ Touch(r, now).detected = r.detected
           /\ Touch(r, now).notes = r.notes
<1> DEFINE backdated == Precedes(now, r.opened)
           version == r.version + 1
           s == [r EXCEPT !.version = version, !.backdated = backdated]
<1>1. backdated \in BOOLEAN /\ version \in Nat /\ version > r.version
  BY DEF Precedes, Rows
<1>2. Touch(r, now) = s
  BY DEF Touch
<1> HIDE DEF backdated, version
<1>3. /\ s \in Rows /\ s.key = r.key /\ s.version = version /\ s.observed = r.observed
      /\ s.retained = r.retained /\ s.state = r.state /\ s.detected = r.detected /\ s.notes = r.notes
  BY <1>1 DEF Rows
<1> HIDE DEF s
<1> QED BY <1>1, <1>2, <1>3 DEF Changes, SameEvidence

\* Evidence is one more observation, and one more event held while there is room.
LEMMA RecordFields ==
    ASSUME NEW r \in Rows, NEW e \in Events
    PROVE  /\ Record(r, e) \in Rows /\ Evidence(r, e, Record(r, e))
           /\ Record(r, e).key = r.key /\ Record(r, e).version = r.version /\ Record(r, e).state = r.state
           /\ Record(r, e).detected = r.detected /\ Record(r, e).opened = r.opened
<1> DEFINE retained == IF Cardinality(r.retained) < EvidenceMax THEN r.retained \cup {e} ELSE r.retained
           observed == r.observed + 1
           s == [r EXCEPT !.observed = observed, !.retained = retained]
<1>1. retained \in SUBSET Events /\ observed \in Nat
  BY DEF Rows
<1>2. Record(r, e) = s
  BY DEF Record
<1> HIDE DEF retained, observed
<1>3. /\ s \in Rows /\ s.key = r.key /\ s.version = r.version /\ s.observed = observed
      /\ s.retained = retained /\ s.state = r.state /\ s.detected = r.detected /\ s.opened = r.opened
  BY <1>1 DEF Rows
<1>4. Evidence(r, e, s)
  BY <1>3 DEF Evidence, retained, observed
<1> QED BY <1>2, <1>3, <1>4

\* Recording evidence and touching the incident.
LEMMA TouchRecord ==
    ASSUME NEW r \in Rows, NEW e \in Events, NEW now \in Nat
    PROVE  LET s == Touch(Record(r, e), now)
           IN  Changes(r, s) /\ Evidence(r, e, s) /\ s.state = r.state /\ s.detected = r.detected
<1> DEFINE q == Record(r, e)
           s == Touch(q, now)
<1>1. /\ q \in Rows /\ Evidence(r, e, q) /\ q.key = r.key /\ q.version = r.version
      /\ q.state = r.state /\ q.detected = r.detected
  BY RecordFields
<1> HIDE DEF q
<1>2. Changes(q, s) /\ SameEvidence(q, s) /\ s.state = q.state /\ s.detected = q.detected
  BY <1>1, TouchFields
<1> HIDE DEF s
<1>3. Changes(r, s) /\ Evidence(r, e, s) /\ s.state = r.state /\ s.detected = r.detected
  BY <1>1, <1>2 DEF Changes, Evidence, SameEvidence
<1> QED BY <1>3 DEF q, s

\* Linking an event adds it to the evidence and leaves the state.
LEMMA LinkEventFields ==
    ASSUME NEW r \in Rows, NEW e \in Events, NEW now \in Nat, NEW late \in BOOLEAN
    PROVE  LET s == link_event(r, e, now, late)
           IN  Changes(r, s) /\ Evidence(r, e, s) /\ s.state = r.state
<1> DEFINE q == Touch(Record(r, e), now)
           detected == IF late \/ IsLate(r, now) THEN q.detected ELSE now
           s == [q EXCEPT !.detected = detected]
<1>1. Changes(r, q) /\ Evidence(r, e, q) /\ q.state = r.state /\ q.detected = r.detected
  BY TouchRecord
<1>2. link_event(r, e, now, late) = s
  BY DEF link_event
<1> HIDE DEF q
<1>3. detected \in Nat
  BY <1>1 DEF Changes, Rows
<1> HIDE DEF detected
<1>4. Changes(r, s) /\ Evidence(r, e, s) /\ s.state = r.state
  BY <1>1, <1>3 DEF Changes, Evidence, Rows
<1> HIDE DEF s
<1> QED BY <1>2, <1>4

\* Recovery remembers where it came from, and leaves the evidence alone.
LEMMA RecoveringFields ==
    ASSUME NEW r \in Rows, NEW now \in Nat, r.state \in Active
    PROVE  LET s == enter_recovering(r, now) IN Changes(r, s) /\ SameEvidence(r, s)
<1> DEFINE q == Touch(r, now)
           s == [q EXCEPT !.prior = r.state, !.state = "recovering", !.recovering = now]
<1>1. Changes(r, q) /\ SameEvidence(r, q)
  BY TouchFields
<1>2. enter_recovering(r, now) = s
  BY DEF enter_recovering
<1> HIDE DEF q
<1>3. "recovering" \in IncidentState /\ now \in Age
  BY DEF IncidentState, Active, Age
<1>4. Changes(r, s) /\ SameEvidence(r, s)
  BY <1>1, <1>3 DEF Changes, SameEvidence, Rows
<1> HIDE DEF s
<1> QED BY <1>2, <1>4

\* Only an active incident can recover.
LEMMA RecoversFromActive ==
    ASSUME NEW r, CanRecover(r)
    PROVE  r.state \in Active
BY DEF CanRecover, can_automatic_transition_to, Active

\* Linking to an open incident adds the event once, also when it starts recovery.
LEMMA LinkOpenFields ==
    ASSUME NEW r \in Rows, NEW e \in Events, NEW now \in Nat
    PROVE  LET s == link_event_to_open_incident(r, e, now) IN Changes(r, s) /\ Evidence(r, e, s)
<1> DEFINE q == link_event(r, e, now, FALSE)
<1>1. Changes(r, q) /\ Evidence(r, e, q) /\ q.state = r.state
  BY LinkEventFields
<1>2. link_event_to_open_incident(r, e, now) =
          IF KindOf[e] = "ended" /\ ~IsLate(r, now) /\ CanRecover(r) THEN enter_recovering(q, now) ELSE q
  BY DEF link_event_to_open_incident
<1> HIDE DEF q
<1>3. CASE CanRecover(r)
  <2> DEFINE s == enter_recovering(q, now)
  <2>1. Changes(q, s) /\ SameEvidence(q, s)
    BY <1>1, <1>3, RecoversFromActive, RecoveringFields DEF Changes
  <2> HIDE DEF s
  <2>2. Changes(r, s) /\ Evidence(r, e, s)
    BY <1>1, <2>1 DEF Changes, Evidence, SameEvidence, Rows
  <2> QED BY <1>1, <1>2, <2>2 DEF s
<1> QED BY <1>1, <1>2, <1>3

\* Reopening adds the event that caused it.
LEMMA ReopenFields ==
    ASSUME NEW r \in Rows, NEW e \in Events, NEW now \in Nat
    PROVE  LET s == reopen_incident_internal(r, e, now) IN Changes(r, s) /\ Evidence(r, e, s)
<1> DEFINE q == Touch(Record(r, e), now)
           s == [q EXCEPT !.state = "open", !.detected = now, !.resolved = None, !.closed = None]
<1>1. Changes(r, q) /\ Evidence(r, e, q)
  BY TouchRecord
<1>2. reopen_incident_internal(r, e, now) = s
  BY DEF reopen_incident_internal
<1> HIDE DEF q
<1>3. "open" \in IncidentState /\ None \in Age
  BY DEF IncidentState, Active, Age
<1>4. Changes(r, s) /\ Evidence(r, e, s)
  BY <1>1, <1>3 DEF Changes, Evidence, Rows
<1> HIDE DEF s
<1> QED BY <1>2, <1>4

\* A new incident has no evidence but the event that made it.
LEMMA NewFields ==
    ASSUME NEW key \in Keys, NEW critical \in BOOLEAN, NEW now \in Nat
    PROVE  LET s == NewIncident(key, critical, now)
           IN  s \in Rows /\ s.key = key /\ s.observed = 0 /\ s.retained = {}
<1>1. "open" \in IncidentState /\ None \in Age
  BY DEF IncidentState, Active, Age
<1> QED BY <1>1 DEF NewIncident, Rows

\* An incident made by an event has the event for its evidence.
LEMMA CreatedFields ==
    ASSUME NEW e \in Events, NEW now \in Nat
    PROVE  LET s == create_incident_internal(e, now)
           IN  /\ s \in Rows /\ s.key = KeyOf[e] /\ s.observed = 1
               /\ s.retained = IF Cardinality({}) < EvidenceMax THEN {e} ELSE {}
<1> DEFINE q == NewIncident(KeyOf[e], CriticalOf[e], now)
<1>1. q \in Rows /\ q.key = KeyOf[e] /\ q.observed = 0 /\ q.retained = {}
  BY DetectionsAssumption, NewFields
<1> HIDE DEF q
<1>2. Record(q, e) \in Rows /\ Record(q, e).key = q.key /\ Evidence(q, e, Record(q, e))
  BY <1>1, RecordFields
<1>3. create_incident_internal(e, now) = Record(q, e)
  BY DEF create_incident_internal, q
<1> QED BY <1>1, <1>2, <1>3 DEF Evidence

\* Commands and timers leave the evidence alone.
LEMMA CommandFields ==
    ASSUME NEW r \in Rows, NEW op \in Commands, NEW now \in Nat
    PROVE  LET s == apply_command(op, r, now) IN Changes(r, s) /\ SameEvidence(r, s)
<1> DEFINE q == Touch(r, now)
           Goal(s) == Changes(r, s) /\ SameEvidence(r, s)
<1>1. Goal(q) /\ q.notes = r.notes
  BY TouchFields
<1>t. /\ "resolved" \in IncidentState /\ "closed" \in IncidentState /\ "open" \in IncidentState
      /\ Moves \subseteq IncidentState /\ None \in Age /\ now \in Age
  BY DEF IncidentState, Active, Settled, Moves, Age
<1>2. CASE op \in Moves
  <2>1. apply_command(op, r, now) = [q EXCEPT !.state = op]
    BY <1>2 DEF apply_command, guarded_operator_transition, Moves
  <2> HIDE DEF q
  <2> QED BY <1>1, <1>2, <1>t, <2>1 DEF Changes, SameEvidence, Rows
<1>3. CASE op \in {"resolve", "resolve_with_note"}
  <2> DEFINE note == op = "resolve_with_note"
             notes == IF note THEN q.notes + 1 ELSE q.notes
             s == [q EXCEPT !.state = "resolved", !.resolved = now, !.recovering = None, !.prior = None,
                            !.notes = notes]
  <2>1. apply_command(op, r, now) = s
    BY <1>3 DEF apply_command, resolve_internal, Moves
  <2> HIDE DEF q
  <2>2. notes \in Nat
    BY <1>1 DEF Changes, Rows
  <2> HIDE DEF notes
  <2>3. Goal(s)
    BY <1>1, <1>t, <2>2 DEF Changes, SameEvidence, Rows
  <2> HIDE DEF s
  <2> QED BY <2>1, <2>3
<1>4. CASE op = "close"
  <2>1. apply_command(op, r, now) = [q EXCEPT !.state = "closed", !.closed = now]
    BY <1>4 DEF apply_command, close_internal, Moves
  <2> HIDE DEF q
  <2> QED BY <1>1, <1>t, <2>1 DEF Changes, SameEvidence, Rows
<1>5. CASE op = "reopen"
  <2>1. apply_command(op, r, now) = [q EXCEPT !.state = "open", !.resolved = None, !.closed = None]
    BY <1>5 DEF apply_command, operator_reopen, Moves
  <2> HIDE DEF q
  <2> QED BY <1>1, <1>t, <2>1 DEF Changes, SameEvidence, Rows
<1>6. CASE op = "escalate"
  <2>1. apply_command(op, r, now) = [q EXCEPT !.critical = TRUE]
    BY <1>6 DEF apply_command, change_severity, Moves
  <2> HIDE DEF q
  <2> QED BY <1>1, <2>1 DEF Changes, SameEvidence, Rows
<1>7. CASE op = "note"
  <2> DEFINE notes == q.notes + 1
  <2>1. apply_command(op, r, now) = [q EXCEPT !.notes = notes]
    BY <1>7 DEF apply_command, add_note, Moves
  <2> HIDE DEF q
  <2>2. notes \in Nat
    BY <1>1 DEF Changes, Rows
  <2> HIDE DEF notes
  <2> QED BY <1>1, <2>1, <2>2 DEF Changes, SameEvidence, Rows
<1>8. CASE op \in {"edit", "tag"}
  BY <1>1, <1>8 DEF apply_command, assign, add_tag, Moves
<1> QED BY <1>2, <1>3, <1>4, <1>5, <1>6, <1>7, <1>8 DEF Commands, Versioned

\* So do timers: recovery, resolution and closure add no evidence.
LEMMA TimerFields ==
    ASSUME NEW r \in Rows, NEW kind \in Timers, NEW now \in Nat, TimerDue(kind, r, now)
    PROVE  LET s == TimerEffect(kind, r, now) IN Changes(r, s) /\ SameEvidence(r, s)
<1> DEFINE q == Touch(r, now)
           Goal(s) == Changes(r, s) /\ SameEvidence(r, s)
<1>1. Goal(q)
  BY TouchFields
<1>t. "resolved" \in IncidentState /\ "closed" \in IncidentState /\ None \in Age /\ now \in Age
  BY DEF IncidentState, Settled, Age
<1>2. CASE kind = "silent"
  <2>1. r.state \in Active
    BY <1>2, RecoversFromActive DEF TimerDue
  <2>2. TimerEffect(kind, r, now) = enter_recovering(r, now)
    BY <1>2 DEF TimerEffect
  <2> QED BY <2>1, <2>2, RecoveringFields
<1>3. CASE kind = "confirm"
  <2> DEFINE s == [q EXCEPT !.state = "resolved", !.resolved = now, !.recovering = None, !.prior = None,
                            !.notes = @]
  <2>1. TimerEffect(kind, r, now) = s
    BY <1>3 DEF TimerEffect, resolve_internal
  <2> HIDE DEF q
  <2>2. Goal(s)
    BY <1>1, <1>t DEF Changes, SameEvidence, Rows
  <2> HIDE DEF s
  <2> QED BY <2>1, <2>2
<1>4. CASE kind = "expire"
  <2>1. TimerEffect(kind, r, now) = [q EXCEPT !.state = "closed", !.closed = now]
    BY <1>4 DEF TimerEffect, close_internal
  <2> HIDE DEF q
  <2> QED BY <1>1, <1>t, <2>1 DEF Changes, SameEvidence, Rows
<1> QED BY <1>2, <1>3, <1>4 DEF Timers

\* Time moves no more of an incident than its ages, and keeps it readable.
LEMMA LaterAge ==
    ASSUME NEW at \in Age, NEW horizon \in Nat
    PROVE  Later(at, horizon) \in Age /\ (Later(at, horizon) = None <=> at = None)
BY ProcsAssumption DEF Later, Age

\* What an aged incident still is.
LEMMA AgedFields ==
    ASSUME NEW r \in Rows
    PROVE  /\ Aged(r) \in Rows /\ Aged(r).key = r.key /\ Aged(r).version = r.version
           /\ SameEvidence(r, Aged(r)) /\ Substance(Aged(r)) = Substance(r)
           /\ Reconstitutes(r) => Reconstitutes(Aged(r))
<1> DEFINE opened == Later(r.opened, MaxLag)
           detected == Later(r.detected, SilentAfter + MaxLag)
           recovering == Later(r.recovering, Confirmation + MaxLag)
           resolved == Later(r.resolved, WindowHorizon)
           closed == Later(r.closed, WindowHorizon)
           s == [r EXCEPT !.opened = opened, !.detected = detected, !.recovering = recovering,
                          !.resolved = resolved, !.closed = closed]
<1>h. WindowHorizon \in Nat /\ MaxLag \in Nat /\ SilentAfter + MaxLag \in Nat /\ Confirmation + MaxLag \in Nat
  BY TimerAssumption DEF WindowHorizon
<1>0. Aged(r) = s
  BY DEF Aged
<1>1. opened \in Nat /\ detected \in Nat
  BY <1>h, ProcsAssumption DEF Later, Rows
<1>2. /\ recovering \in Age /\ (recovering = None <=> r.recovering = None)
      /\ resolved \in Age /\ (resolved = None <=> r.resolved = None)
      /\ closed \in Age /\ (closed = None <=> r.closed = None)
  BY <1>h, LaterAge DEF Rows
<1>3. r.resolved # None /\ r.closed # None /\ ~Precedes(r.closed, r.resolved) => ~Precedes(closed, resolved)
  BY <1>h DEF Rows, Later, Precedes, Age
<1> HIDE DEF opened, detected, recovering, resolved, closed
<1>4. /\ s \in Rows /\ s.key = r.key /\ s.version = r.version /\ s.state = r.state /\ s.prior = r.prior
      /\ s.critical = r.critical /\ s.retained = r.retained /\ s.observed = r.observed
      /\ s.notes = r.notes /\ s.backdated = r.backdated /\ s.recovering = recovering
      /\ s.resolved = resolved /\ s.closed = closed
  BY <1>1, <1>2 DEF Rows
<1> HIDE DEF s
<1>5. Reconstitutes(r) => Reconstitutes(s)
  BY <1>2, <1>3, <1>4 DEF Reconstitutes
<1> QED BY <1>0, <1>4, <1>5 DEF SameEvidence, Substance

(***************************************************************************)
(* What a call becomes.                                                    *)
(***************************************************************************)
\* A call as it is begun or rerun.
Fresh(c) ==
    c \in Calls /\ c.step = "begin" /\ c.aim = None /\ c.row = None /\ ~c.known

\* A process that makes no call.
LEMMA IdleFields ==
    /\ Idle \in Calls /\ Idle.op = "none" /\ Idle.subject = None /\ Idle.step = "idle" /\ Idle.aim = None
    /\ Idle.row = None /\ Idle.known = FALSE /\ Idle.seen = None
BY DEF Idle, Calls, Steps, Ops, Subjects, Arguments

\* Call builds one.
LEMMA CallFields ==
    ASSUME NEW op \in Ops, NEW subject \in Subjects, NEW arg \in Arguments
    PROVE  LET c == Call(op, subject, arg)
           IN  Fresh(c) /\ c.op = op /\ c.subject = subject /\ c.arg = arg /\ c.seen = None
<1> DEFINE c == [Idle EXCEPT !.op = op, !.subject = subject, !.arg = arg, !.step = "begin"]
<1>1. Idle \in Calls /\ Idle.aim = None /\ Idle.row = None /\ Idle.known = FALSE /\ Idle.seen = None
  BY IdleFields
<1>2. "begin" \in Steps
  BY DEF Steps
<1>3. /\ c \in Calls /\ c.op = op /\ c.subject = subject /\ c.arg = arg /\ c.step = "begin"
      /\ c.aim = None /\ c.row = None /\ ~c.known /\ c.seen = None
  <2>1. c \in Calls
    BY <1>1, <1>2 DEF Calls
  <2>2. DOMAIN Idle = {"op", "subject", "arg", "step", "aim", "row", "now", "tries", "known", "seen"}
    BY DEF Idle
  <2>3. /\ c.op = op /\ c.subject = subject /\ c.arg = arg /\ c.step = "begin"
        /\ c.aim = None /\ c.row = None /\ ~c.known /\ c.seen = None
    BY <1>1, <2>2
  <2> QED BY <2>1, <2>3
<1>4. Call(op, subject, arg) = c
  BY DEF Call
<1> HIDE DEF c
<1> QED BY <1>1, <1>3, <1>4 DEF Fresh

\* An idle process makes no call that could be wrong.
LEMMA IdleGood ==
    ASSUME NEW p
    PROVE  Sensible(p, Idle)
<1>1. "none" \notin Commands \cup Timers /\ "none" # "ingest" /\ "none" # "create"
  BY DEF Commands, Versioned, Moves, Timers
<1> QED BY <1>1, IdleFields DEF Sensible, Role, Subject, Aims, Reads, Reports, Looks

\* What the first statements find.
LEMMA BegunGood ==
    ASSUME StoreTypeOK, NEW p \in Procs, NEW c \in Calls, Sensible(p, c), c.step = "begin",
           NEW d \in Begun(c)
    PROVE  Sensible(p, d) /\ d \in Calls /\ d.row = None
<1>o. /\ "ingest" \notin Commands \cup Timers /\ "create" \notin Commands \cup Timers
      /\ "begin" # "idle" /\ c.op # "none"
  BY DEF Commands, Versioned, Moves, Timers, Sensible, Subject
<1>s. {"decide", "allocate", "active", "row"} \subseteq Steps
  BY DEF Steps
<1>r. c.row = None
  BY DEF Sensible, Reads
<1>1. CASE c.op = "ingest" /\ links[c.subject] # None
  <2>1. d = [c EXCEPT !.step = "decide", !.known = TRUE]
    BY <1>1 DEF Begun
  <2>2. /\ d \in Calls /\ d.op = c.op /\ d.subject = c.subject /\ d.arg = c.arg /\ d.row = c.row
        /\ d.aim = c.aim /\ d.step = "decide"
    BY <2>1, <1>s DEF Calls
  <2> QED BY <1>1, <1>o, <1>r, <2>2 DEF Sensible, Role, Subject, Aims, Reads, Reports, Looks
<1>2. CASE (c.op = "ingest" /\ links[c.subject] = None /\ ActiveIds(KeyOf[c.subject]) = {}) \/ c.op = "create"
  <2>1. d = [c EXCEPT !.step = "allocate"]
    BY <1>2 DEF Begun
  <2>2. /\ d \in Calls /\ d.op = c.op /\ d.subject = c.subject /\ d.arg = c.arg /\ d.row = c.row
        /\ d.aim = c.aim /\ d.step = "allocate" /\ d.known = c.known /\ d.seen = c.seen
    BY <2>1, <1>s DEF Calls
  <2> QED BY <1>2, <1>o, <1>r, <2>2 DEF Sensible, Role, Subject, Aims, Reads, Reports, Looks
<1>3. CASE c.op = "ingest" /\ links[c.subject] = None /\ ActiveIds(KeyOf[c.subject]) # {}
  <2>1. PICK i \in ActiveIds(KeyOf[c.subject]) : d = [c EXCEPT !.step = "active", !.aim = i]
    BY <1>3 DEF Begun
  <2>2. i \in Stored /\ i \in Ids /\ i # None /\ inc[i].key = KeyOf[c.subject]
    BY ProcsAssumption DEF ActiveIds, Stored, Ids
  <2>3. /\ d \in Calls /\ d.op = c.op /\ d.subject = c.subject /\ d.arg = c.arg /\ d.row = c.row
        /\ d.aim = i /\ d.step = "active" /\ d.known = c.known /\ d.seen = c.seen
    BY <2>1, <2>2, <1>s DEF Calls
  <2> QED BY <1>3, <1>o, <1>r, <2>2, <2>3 DEF Sensible, Role, Subject, Aims, Reads, Reports, Looks
<1>4. CASE c.op \in Commands \cup Timers
  <2>1. d = [c EXCEPT !.step = "row", !.aim = c.subject]
    BY <1>4, <1>o DEF Begun
  <2>2. c.subject \in Stored /\ c.subject \in Ids /\ c.subject # None
    BY <1>4, ProcsAssumption DEF Sensible, Subject, Stored, Ids
  <2>3. /\ d \in Calls /\ d.op = c.op /\ d.subject = c.subject /\ d.arg = c.arg /\ d.row = c.row
        /\ d.aim = c.subject /\ d.step = "row" /\ d.known = c.known /\ d.seen = c.seen
    BY <2>1, <2>2, <1>s DEF Calls
  <2> QED BY <1>4, <1>o, <1>r, <2>2, <2>3 DEF Sensible, Role, Subject, Aims, Reads, Reports, Looks
<1> QED BY <1>1, <1>2, <1>3, <1>4, <1>o DEF Calls, Ops

\* An incident that is there stays, under its key, and either takes a later
\* version or is what it was.
Follows(r, s) ==
    /\ s \in Rows /\ s.key = r.key
    /\ s.version > r.version \/ (s.version = r.version /\ Substance(s) = Substance(r))

StoreGrows ==
    /\ inc' \in [Ids -> Rows \cup {None}]
    /\ \A i \in Stored : Follows(inc[i], inc'[i])
    /\ \A e \in Events : links[e] # None => links'[e] # None

\* A call that made sense makes sense of the store as it grew.
LEMMA SenseCarries ==
    ASSUME StoreTypeOK, StoreGrows, NEW q \in Procs, NEW d \in Calls, Sensible(q, d), call'[q] = d
    PROVE  Sensible(q, call[q])'
<1>1. \A i \in Stored : i \in Stored'
  BY RowsAssumption DEF StoreGrows, Follows, Stored
<1>2. Role(q, call[q])' /\ Reads(call[q])'
  BY DEF Sensible, Role, Reads
<1>3. Subject(call[q])'
  BY <1>1 DEF Sensible, Subject
<1>4. Aims(call[q])'
  BY <1>1 DEF Sensible, Aims, StoreGrows, Follows, InTransaction
<1>5. Reports(call[q])'
  BY DEF Sensible, Reports, Subject, StoreGrows
<1>6. Looks(call[q])'
  <2> SUFFICES ASSUME d.op \in Commands
               PROVE  /\ d.arg \in Nat /\ d.arg <= inc'[d.subject].version
                      /\ d.arg = inc'[d.subject].version => d.seen = Substance(inc'[d.subject])
    BY DEF Looks, Substance
  <2>1. /\ d.subject \in Stored /\ d.arg \in Nat /\ d.arg <= inc[d.subject].version
        /\ d.arg = inc[d.subject].version => d.seen = Substance(inc[d.subject])
    BY DEF Sensible, Subject, Looks
  <2>2. Follows(inc[d.subject], inc'[d.subject]) /\ inc[d.subject].version \in Nat
    BY <2>1 DEF StoreGrows, StoreTypeOK, Stored, Rows
  <2> QED BY <2>1, <2>2 DEF Follows, Rows
<1> QED BY <1>2, <1>3, <1>4, <1>5, <1>6 DEF Sensible

\* Of the processes whose call does not move, when p's does.
LEMMA OthersSense ==
    ASSUME Sound, StoreGrows, NEW p \in Procs, NEW d \in Calls, Sensible(p, d), call' = [call EXCEPT ![p] = d],
           d.row # None => rowLock'[d.row] = p /\ Reconstitutes(inc'[d.row]),
           \A q \in Procs \ {p} :
              call[q].row # None => rowLock'[call[q].row] = q /\ Reconstitutes(inc'[call[q].row])
    PROVE  \A q \in Procs : Sensible(q, call[q])' /\ Holds(q, call[q])'
<1> SUFFICES ASSUME NEW q \in Procs PROVE Sensible(q, call[q])' /\ Holds(q, call[q])'
  OBVIOUS
<1>1. CASE q = p
  <2>1. call'[q] = d
    BY <1>1 DEF Sound, StoreTypeOK
  <2> QED BY <1>1, <2>1, SenseCarries DEF Sound, Holds, Reconstitutes, Precedes
<1>2. CASE q # p
  <2>1. call'[q] = call[q] /\ call[q] \in Calls
    BY <1>2 DEF Sound, StoreTypeOK
  <2>2. Sensible(q, call[q])'
    <3>1. PICK c \in Calls : c = call[q]
      BY <2>1
    <3> QED BY <2>1, <3>1, SenseCarries DEF Sound
  <2>3. Holds(q, call[q])'
    BY <1>2, <2>1 DEF Holds, Reconstitutes, Precedes
  <2> QED BY <2>2, <2>3
<1> QED BY <1>1, <1>2

\* A step that leaves the incidents and the links alone: what is left to show
\* is that p's call still makes sense and nobody else loses a row.
LEMMA SoundStep ==
    ASSUME Sound, UNCHANGED <<inc, links>>, NEW p \in Procs, NEW d \in Calls, Sensible(p, d),
           call' = [call EXCEPT ![p] = d],
           rowLock' \in [Ids -> Procs \cup {None}],
           d.row # None => rowLock'[d.row] = p /\ Reconstitutes(inc[d.row]),
           \A i \in Ids : rowLock[i] \notin {None, p} => rowLock'[i] = rowLock[i],
           inbox' \in [Events -> InboxRows],
           \A e \in Events :
              inbox'[e].status = "processed" /\ inbox'[e].outcome \notin {"quarantined", "observe_only"} =>
                  links[e] # None,
           todo' \in [Workers \cup Maintainers -> SUBSET (Events \cup (Timers \X Ids))],
           Proposals', Claims'
    PROVE  Sound'
<1>1. StoreTypeOK'
  BY DEF Sound, StoreTypeOK
<1>2. StoreGrows
  BY DEF StoreGrows, Follows, Sound, StoreTypeOK, Stored
<1>3. ASSUME NEW q \in Procs \ {p}, call[q].row # None
      PROVE  rowLock'[call[q].row] = q /\ Reconstitutes(inc[call[q].row])
  <2>1. call[q].row \in Ids /\ q # None
    BY <1>3, ProcsAssumption DEF Sound, StoreTypeOK, Calls, Procs
  <2>2. rowLock[call[q].row] = q /\ Reconstitutes(inc[call[q].row])
    BY <1>3 DEF Sound, Holds
  <2> QED BY <1>3, <2>1, <2>2
<1>4. \A q \in Procs : Sensible(q, call[q])' /\ Holds(q, call[q])'
  BY <1>2, <1>3, OthersSense
<1>5. Linked'
  <2>1. Stored' = Stored
    BY DEF Stored
  <2> QED BY <2>1 DEF Sound, Linked
<1> QED BY <1>1, <1>4, <1>5 DEF Sound

\* The inbox and the work lists stay as well.
LEMMA QuietStep ==
    ASSUME Sound, UNCHANGED <<inc, links, inbox, todo>>, NEW p \in Procs, NEW d \in Calls, Sensible(p, d),
           call' = [call EXCEPT ![p] = d],
           rowLock' \in [Ids -> Procs \cup {None}],
           d.row # None => rowLock'[d.row] = p /\ Reconstitutes(inc[d.row]),
           \A i \in Ids : rowLock[i] \notin {None, p} => rowLock'[i] = rowLock[i]
    PROVE  Sound'
<1>1. /\ inbox' \in [Events -> InboxRows]
      /\ todo' \in [Workers \cup Maintainers -> SUBSET (Events \cup (Timers \X Ids))]
  BY DEF Sound, StoreTypeOK
<1>2. \A e \in Events :
          inbox'[e].status = "processed" /\ inbox'[e].outcome \notin {"quarantined", "observe_only"} =>
              links[e] # None
  BY DEF Sound, Linked
<1>3. Proposals' /\ Claims'
  BY DEF Sound, Proposals, Claims, Stored
<1> QED BY <1>1, <1>2, <1>3, SoundStep

\* Release gives up p's rows and nobody else's.
LEMMA ReleaseRows ==
    ASSUME Sound, NEW p \in Procs, Release(p)
    PROVE  /\ rowLock' \in [Ids -> Procs \cup {None}]
           /\ \A i \in Ids : rowLock[i] \notin {None, p} => rowLock'[i] = rowLock[i]
BY DEF Sound, StoreTypeOK, Release

\* How a call ends: forgotten, or left for a worker to record.
EndRecord(p, step, outcome) ==
    IF p \in Workers THEN [Idle EXCEPT !.op = "ingest", !.subject = call[p].subject,
                                       !.arg = outcome, !.step = step]
    ELSE Idle

EndsAs(p, step, outcome) ==
    LET d == EndRecord(p, step, outcome)
    IN  /\ d \in Calls /\ d.row = None /\ d.aim = None /\ d.known = FALSE
        /\ p \in Workers => /\ d.op = "ingest" /\ d.subject = call[p].subject
                            /\ d.arg = outcome /\ d.step = step
        /\ p \notin Workers => d = Idle

\* The record a call leaves is a call, of the event that was ingested.
LEMMA EndFields ==
    ASSUME Sound, NEW p \in Procs, NEW step \in {"done", "failed"}, NEW outcome \in Outcomes \cup {None}
    PROVE  EndsAs(p, step, outcome)
<1>1. CASE p \in Workers
  <2> DEFINE subject == call[p].subject
             d == [Idle EXCEPT !.op = "ingest", !.subject = subject, !.arg = outcome, !.step = step]
  <2>1. EndRecord(p, step, outcome) = d
    BY <1>1 DEF EndRecord
  <2>2. /\ "ingest" \in Ops /\ subject \in Subjects /\ outcome \in Arguments /\ step \in Steps
    BY DEF Ops, Sound, StoreTypeOK, Calls, Arguments, Steps
  <2> HIDE DEF subject
  <2>3. Idle \in Calls /\ Idle.row = None /\ Idle.aim = None /\ Idle.known = FALSE
    BY IdleFields
  <2>4. /\ d \in Calls /\ d.row = None /\ d.aim = None /\ d.known = FALSE
        /\ d.op = "ingest" /\ d.subject = subject /\ d.arg = outcome /\ d.step = step
    BY <2>2, <2>3 DEF Calls
  <2> HIDE DEF d
  <2> QED BY <1>1, <2>1, <2>4 DEF subject, EndsAs
<1>2. CASE p \notin Workers
  BY <1>2, IdleFields DEF EndRecord, EndsAs
<1> QED BY <1>1, <1>2

\* Ended leaves that record.
LEMMA EndMoves ==
    ASSUME NEW p \in Procs, NEW step, NEW outcome, Ended(p, step, outcome)
    PROVE  call' = [call EXCEPT ![p] = EndRecord(p, step, outcome)]
BY DEF Ended, EndRecord

\* Workers make no calls but ingestions.
LEMMA WorkersIngest ==
    ASSUME Sound, NEW p \in Workers, InTransaction(call[p])
    PROVE  call[p].op = "ingest" /\ call[p].subject \in Events /\ ClassOf[call[p].subject] # "garbled"
BY DEF Sound, Sensible, Role, Subject, Procs, InTransaction

\* A call that ends without a link makes sense afterwards.
LEMMA EndSense ==
    ASSUME Sound, NEW p \in Procs, NEW step \in {"done", "failed"}, NEW outcome \in Outcomes \cup {None},
           InTransaction(call[p]),
           p \in Workers /\ step = "done" /\ outcome \notin {"quarantined", "observe_only"} =>
              links[call[p].subject] # None
    PROVE  Sensible(p, EndRecord(p, step, outcome))
<1>1. CASE p \in Workers
  <2> DEFINE d == EndRecord(p, step, outcome)
  <2>1. /\ d.row = None /\ d.aim = None /\ d.known = FALSE
        /\ d.op = "ingest" /\ d.subject = call[p].subject /\ d.arg = outcome /\ d.step = step
    <3>1. EndsAs(p, step, outcome)
      BY EndFields
    <3> QED BY <1>1, <3>1 DEF EndsAs
  <2> HIDE DEF d
  <2>2. /\ "ingest" \notin Commands \cup Timers /\ "ingest" \notin {"none", "create"}
        /\ p \notin Maintainers /\ p \notin Operators
        /\ step \notin {"active", "again", "reopen", "row"}
    BY <1>1, ProcsAssumption DEF Commands, Versioned, Moves, Timers
  <2>3. Sensible(p, d)
    BY <1>1, <2>1, <2>2, WorkersIngest DEF Sensible, Role, Subject, Aims, Reads, Reports, Looks
  <2> QED BY <2>3 DEF d
<1>2. CASE p \notin Workers
  BY ZenonT(30), <1>2, EndFields, IdleGood DEF EndsAs
<1> QED BY <1>1, <1>2

\* A call that ends writing nothing.
LEMMA EndSound ==
    ASSUME Sound, UNCHANGED <<inc, links, inbox, todo>>, NEW p \in Procs, InTransaction(call[p]), Release(p),
           NEW step \in {"done", "failed"}, NEW outcome \in Outcomes \cup {None}, Ended(p, step, outcome),
           p \in Workers /\ step = "done" /\ outcome \notin {"quarantined", "observe_only"} =>
              links[call[p].subject] # None
    PROVE  Sound'
<1>1. EndsAs(p, step, outcome) /\ Sensible(p, EndRecord(p, step, outcome))
  BY EndFields, EndSense
<1>2. PICK d : d = EndRecord(p, step, outcome)
  OBVIOUS
<1>3. d \in Calls /\ d.row = None /\ Sensible(p, d)
  BY <1>1, <1>2 DEF EndsAs
<1>4. call' = [call EXCEPT ![p] = d]
  BY <1>2, EndMoves
<1> QED BY <1>3, <1>4, ReleaseRows, QuietStep

\* A call that is rolled back for good writes nothing and gives up its rows.
LEMMA FailSound ==
    ASSUME Sound, UNCHANGED <<inc, links, inbox, todo>>, NEW p \in Procs, InTransaction(call[p]), Fail(p)
    PROVE  Sound'
<1>1. Release(p) /\ Ended(p, "failed", None)
  BY DEF Fail
<1> QED BY <1>1, EndSound

\* A call that is rerun starts over, with what it was about.
LEMMA RerunSound ==
    ASSUME Sound, UNCHANGED <<inc, links, inbox, todo>>, NEW p \in Procs, InTransaction(call[p]), Rerun(p)
    PROVE  Sound'
<1>1. CASE ~(call[p].tries < Reruns)
  BY <1>1, FailSound DEF Rerun, Fail
<1>2. CASE call[p].tries < Reruns
  <2> DEFINE c == call[p]
             q == Call(c.op, c.subject, c.arg)
             tries == c.tries + 1
  <2>1. c \in Calls /\ tries \in Nat /\ Sensible(p, c)
    BY DEF Sound, StoreTypeOK, Calls
  <2>2. Fresh(q) /\ q.op = c.op /\ q.subject = c.subject /\ q.arg = c.arg
    BY <2>1, CallFields DEF Calls
  <2>3. PICK d : d = [q EXCEPT !.tries = tries, !.seen = c.seen]
    OBVIOUS
  <2>4. call' = [call EXCEPT ![p] = d]
    BY <1>2, <2>3 DEF Rerun
  <2> HIDE DEF q, tries
  <2>5. /\ d \in Calls /\ d.op = c.op /\ d.subject = c.subject /\ d.arg = c.arg /\ d.seen = c.seen
        /\ d.step = "begin" /\ d.aim = None /\ d.row = None /\ ~d.known
    BY <2>1, <2>2, <2>3 DEF Fresh, Calls
  <2>6. Sensible(p, d)
    <3>1. d.op # "none"
      BY <2>1, <2>5 DEF Sensible, Subject, InTransaction
    <3>2. ~InTransaction(d)
      BY <2>5 DEF InTransaction
    <3> QED BY <2>1, <2>5, <3>1, <3>2 DEF Sensible, Role, Subject, Aims, Reads, Reports, Looks, InTransaction
  <2>7. Release(p)
    BY DEF Rerun
  <2> QED BY <2>4, <2>5, <2>6, <2>7, ReleaseRows, QuietStep
<1> QED BY <1>1, <1>2

\* The statements of the load.
LEMMA BeginSound ==
    ASSUME Sound, NEW p \in Procs, Begin(p)
    PROVE  Sound'
<1>1. call[p] \in Calls /\ Sensible(p, call[p]) /\ call[p].step = "begin"
  BY DEF Sound, StoreTypeOK, Begin
<1>2. PICK d \in Begun(call[p]) : call' = [call EXCEPT ![p] = d]
  BY DEF Begin
<1>3. Sensible(p, d) /\ d \in Calls /\ d.row = None
  <2>1. PICK c \in Calls : c = call[p]
    BY <1>1
  <2> QED BY <1>1, <2>1, BegunGood DEF Sound
<1>4. UNCHANGED <<inc, links, inbox, todo, rowLock>>
  BY DEF Begin, KeepLocks, Elsewhere
<1> QED BY <1>2, <1>3, <1>4, QuietStep DEF Sound, StoreTypeOK

\* A call of a worker moves on in its load, aiming at an incident of its key
\* or at what it aimed at before.
LEMMA IngestMoves ==
    ASSUME Sound, NEW p \in Procs, NEW step \in Steps \ {"idle", "done", "row"}, NEW aim \in Ids \cup {None},
           call[p].op = "ingest", call[p].row = None, InTransaction(call[p]),
           aim # None => aim \in Stored /\ inc[aim].key = KeyOf[call[p].subject],
           step \in {"active", "again", "reopen"} => aim # None
    PROVE  LET d == [call[p] EXCEPT !.step = step, !.aim = aim]
           IN  d \in Calls /\ d.row = None /\ Sensible(p, d)
<1>1. PICK c \in Calls : c = call[p] /\ Sensible(p, c)
  BY DEF Sound, StoreTypeOK
<1>2. PICK d : d = [c EXCEPT !.step = step, !.aim = aim]
  OBVIOUS
<1>3. /\ d \in Calls /\ d.op = "ingest" /\ d.subject = c.subject /\ d.step = step /\ d.aim = aim
      /\ d.row = None /\ d.known = c.known /\ d.arg = c.arg
  BY <1>1, <1>2 DEF Calls
<1>4. "ingest" \notin Commands \cup Timers /\ "ingest" \notin {"none", "create"}
  BY DEF Commands, Versioned, Moves, Timers
<1>5. Sensible(p, d)
  BY <1>1, <1>3, <1>4 DEF Sensible, Role, Subject, Aims, Reads, Reports, Looks, InTransaction
<1> QED BY <1>1, <1>2, <1>3, <1>5

\* Where ingestions and creations alone can be.
LEMMA AllocatingCalls ==
    ASSUME Sound, NEW p \in Procs, call[p].step \in {"active", "allocate", "again", "candidate", "reopen"}
    PROVE  /\ call[p].op \in {"ingest", "create"} /\ call[p].row = None /\ InTransaction(call[p])
           /\ call[p].step # "allocate" => call[p].op = "ingest"
           /\ call[p].op = "ingest" => call[p].subject \in Events
BY DEF Sound, StoreTypeOK, Calls, Ops, Sensible, Subject, Aims, Reads, InTransaction

\* The allocator: an active incident seen now is aimed at, or a candidate is looked for.
LEMMA AllocateSound ==
    ASSUME Sound, NEW p \in Procs, lock_allocator(p)
    PROVE  Sound'
<1>1. /\ call[p] \in Calls /\ Sensible(p, call[p]) /\ call[p].row = None
      /\ call[p].op \in {"ingest", "create"} /\ InTransaction(call[p])
  BY AllocatingCalls DEF Sound, StoreTypeOK, lock_allocator
<1>2. UNCHANGED <<inc, links, inbox, todo, rowLock>>
  BY DEF lock_allocator, Elsewhere
<1>3. ASSUME NEW d \in Calls, d.row = None, Sensible(p, d), call' = [call EXCEPT ![p] = d] PROVE Sound'
  BY <1>2, <1>3, QuietStep DEF Sound, StoreTypeOK
<1>4. CASE call[p].op = "create"
  <2> DEFINE known == ActiveIds(call[p].subject) # {}
  <2>1. PICK c \in Calls : c = call[p]
    BY <1>1
  <2>2. PICK d : d = [c EXCEPT !.step = "decide", !.known = known]
    OBVIOUS
  <2>3. call' = [call EXCEPT ![p] = d]
    BY <1>4, <2>1, <2>2 DEF lock_allocator, Sound, StoreTypeOK
  <2>4. known \in BOOLEAN /\ "decide" \in Steps
    BY DEF Steps
  <2> HIDE DEF known
  <2>5. /\ d \in Calls /\ d.op = "create" /\ d.subject = c.subject /\ d.arg = c.arg /\ d.step = "decide"
        /\ d.aim = c.aim /\ d.row = None
    BY <1>1, <1>4, <2>1, <2>2, <2>4 DEF Calls
  <2>6. "create" \notin Commands \cup Timers /\ "create" \notin {"none", "ingest"}
    BY DEF Commands, Versioned, Moves, Timers
  <2>7. Sensible(p, d)
    BY <1>1, <1>4, <2>1, <2>5, <2>6 DEF Sensible, Role, Subject, Aims, Reads, Reports, Looks
  <2> QED BY <1>3, <2>3, <2>5, <2>7
<1>5. CASE call[p].op = "ingest"
  <2>1. CASE ActiveIds(KeyOf[call[p].subject]) = {}
    <3>1. PICK d : d = [call[p] EXCEPT !.step = "candidate", !.aim = call[p].aim]
      OBVIOUS
    <3>2. "candidate" \in Steps \ {"idle", "done", "row"} /\ call[p].aim \in Ids \cup {None}
          /\ (call[p].aim # None => call[p].aim \in Stored /\ inc[call[p].aim].key = KeyOf[call[p].subject])
      BY <1>1, <1>5 DEF Steps, Calls, Sensible, Aims
    <3>3. d \in Calls /\ d.row = None /\ Sensible(p, d)
      BY <1>1, <1>5, <3>1, <3>2, IngestMoves
    <3>4. call' = [call EXCEPT ![p] = d]
      <4>1. d = [call[p] EXCEPT !.step = "candidate"]
        BY <1>1, <3>1 DEF Calls
      <4> QED BY <1>5, <2>1, <4>1 DEF lock_allocator, Goto
    <3> QED BY <1>3, <3>3, <3>4
  <2>2. CASE ActiveIds(KeyOf[call[p].subject]) # {}
    <3>1. PICK i \in ActiveIds(KeyOf[call[p].subject]) : call' = [call EXCEPT ![p].step = "again", ![p].aim = i]
      BY <1>5, <2>2 DEF lock_allocator
    <3>2. PICK d : d = [call[p] EXCEPT !.step = "again", !.aim = i]
      OBVIOUS
    <3>3. "again" \in Steps \ {"idle", "done", "row"} /\ i \in Ids /\ i # None
          /\ i \in Stored /\ inc[i].key = KeyOf[call[p].subject]
      BY <3>1, ProcsAssumption DEF Steps, ActiveIds, Stored, Ids
    <3>4. d \in Calls /\ d.row = None /\ Sensible(p, d)
      BY <1>1, <1>5, <3>2, <3>3, IngestMoves
    <3>5. call' = [call EXCEPT ![p] = d]
      BY <3>1, <3>2 DEF Sound, StoreTypeOK
    <3> QED BY <1>3, <3>4, <3>5
  <2> QED BY <2>1, <2>2
<1> QED BY <1>1, <1>4, <1>5

\* The candidate for reopening has the key of the event.
LEMMA CandidateSound ==
    ASSUME Sound, NEW p \in Procs, load_reopen_candidate(p)
    PROVE  Sound'
<1>1. /\ call[p] \in Calls /\ Sensible(p, call[p]) /\ call[p].row = None /\ call[p].op = "ingest"
      /\ InTransaction(call[p])
  BY AllocatingCalls DEF Sound, StoreTypeOK, load_reopen_candidate
<1>2. UNCHANGED <<inc, links, inbox, todo, rowLock>>
  BY DEF load_reopen_candidate, Elsewhere, KeepLocks
<1>3. ASSUME NEW d \in Calls, d.row = None, Sensible(p, d), call' = [call EXCEPT ![p] = d] PROVE Sound'
  BY <1>2, <1>3, QuietStep DEF Sound, StoreTypeOK
<1> DEFINE found == Candidates(KeyOf[call[p].subject])
<1>4. CASE found = {}
  <2>1. PICK d : d = [call[p] EXCEPT !.step = "decide", !.aim = call[p].aim]
    OBVIOUS
  <2>2. "decide" \in Steps \ {"idle", "done", "row"} /\ call[p].aim \in Ids \cup {None}
        /\ (call[p].aim # None => call[p].aim \in Stored /\ inc[call[p].aim].key = KeyOf[call[p].subject])
    BY <1>1 DEF Steps, Calls, Sensible, Aims
  <2>3. d \in Calls /\ d.row = None /\ Sensible(p, d)
    BY <1>1, <2>1, <2>2, IngestMoves
  <2>4. call' = [call EXCEPT ![p] = d]
    <3>1. d = [call[p] EXCEPT !.step = "decide"]
      BY <1>1, <2>1 DEF Calls
    <3> QED BY <1>4, <3>1 DEF load_reopen_candidate, Goto
  <2> QED BY <1>3, <2>3, <2>4
<1>5. CASE found # {}
  <2>1. PICK i \in found : call' = [call EXCEPT ![p].step = "reopen", ![p].aim = i]
    BY <1>5 DEF load_reopen_candidate
  <2>2. PICK d : d = [call[p] EXCEPT !.step = "reopen", !.aim = i]
    OBVIOUS
  <2>3. "reopen" \in Steps \ {"idle", "done", "row"} /\ i \in Ids /\ i # None
        /\ i \in Stored /\ inc[i].key = KeyOf[call[p].subject]
    BY <2>1, ProcsAssumption DEF Steps, Candidates, Stored, Ids
  <2>4. d \in Calls /\ d.row = None /\ Sensible(p, d)
    BY <1>1, <2>2, <2>3, IngestMoves
  <2>5. call' = [call EXCEPT ![p] = d]
    BY <2>1, <2>2 DEF Sound, StoreTypeOK
  <2> QED BY <1>3, <2>4, <2>5
<1> QED BY <1>4, <1>5

\* FOR UPDATE: the row is p's, whether or not it is still wanted, unless the
\* incident cannot be read.
LEMMA TakeRowSound ==
    ASSUME Sound, NEW p \in Procs, TakeRow(p)
    PROVE  Sound'
<1>1. PICK c \in Calls : c = call[p]
  BY DEF Sound, StoreTypeOK
<1>2. /\ Sensible(p, c) /\ c.step \in {"active", "again", "reopen", "row"} /\ c.row = None
      /\ InTransaction(call[p]) /\ c.aim \in Stored /\ c.aim \in Ids /\ c.aim # None
  BY <1>1 DEF Sound, TakeRow, Sensible, Aims, Reads, Stored, InTransaction
<1>3. UNCHANGED <<inc, links, inbox, todo>>
  BY DEF TakeRow, Elsewhere
<1>4. CASE StillWanted(c) /\ ~Reconstitutes(inc[c.aim])
  <2>1. Fail(p)
    BY <1>1, <1>4 DEF TakeRow
  <2> QED BY <1>1, <1>2, <1>3, <2>1, FailSound
<1>5. ASSUME rowLock' = [rowLock EXCEPT ![c.aim] = p]
      PROVE  /\ rowLock' \in [Ids -> Procs \cup {None}] /\ rowLock'[c.aim] = p
             /\ \A i \in Ids : rowLock[i] \notin {None, p} => rowLock'[i] = rowLock[i]
  BY <1>1, <1>2, <1>5 DEF TakeRow, Sound, StoreTypeOK
<1>6. CASE ~StillWanted(c)
  <2> DEFINE step == CASE c.step = "active" -> "allocate"
                       [] c.step = "again" -> "candidate"
                       [] c.step = "reopen" -> "decide"
  <2>1. c.op = "ingest" /\ c.step # "row" /\ step \in {"allocate", "candidate", "decide"}
    BY <1>2, <1>6 DEF StillWanted, Sensible, Aims
  <2>2. PICK d : d = [c EXCEPT !.step = step, !.aim = c.aim]
    OBVIOUS
  <2>3. call' = [call EXCEPT ![p] = d] /\ rowLock' = [rowLock EXCEPT ![c.aim] = p]
    <3>1. d = [c EXCEPT !.step = step]
      BY <2>2 DEF Calls
    <3> QED BY <1>1, <1>6, <3>1 DEF TakeRow, Goto
  <2> HIDE DEF step
  <2>4. step \in Steps \ {"idle", "done", "row"} /\ inc[c.aim].key = KeyOf[c.subject]
    BY <1>2, <2>1 DEF Steps, Sensible, Aims
  <2>5. d \in Calls /\ d.row = None /\ Sensible(p, d)
    <3>1. PICK aim \in Ids \cup {None} : aim = c.aim
      BY <1>2
    <3>2. /\ call[p].op = "ingest" /\ call[p].row = None /\ aim # None /\ aim \in Stored
          /\ inc[aim].key = KeyOf[call[p].subject]
      BY <1>1, <1>2, <2>1, <2>4, <3>1
    <3>3. d = [call[p] EXCEPT !.step = step, !.aim = aim]
      BY <1>1, <2>2, <3>1
    <3> QED BY <1>2, <2>4, <3>2, <3>3, IngestMoves
  <2> QED BY <1>3, <1>5, <2>3, <2>5, QuietStep
<1>7. CASE StillWanted(c) /\ Reconstitutes(inc[c.aim])
  <2> DEFINE known == c.op = "reopen" /\ ActiveIds(inc[c.aim].key) # {}
  <2>1. PICK d : d = [c EXCEPT !.step = "decide", !.row = c.aim, !.known = known]
    OBVIOUS
  <2>2. call' = [call EXCEPT ![p] = d] /\ rowLock' = [rowLock EXCEPT ![c.aim] = p]
    BY <1>1, <1>7, <2>1 DEF TakeRow, Sound, StoreTypeOK
  <2>3. known \in BOOLEAN /\ "decide" \in Steps /\ (c.op = "ingest" => ~known)
    BY DEF Steps
  <2> HIDE DEF known
  <2>4. /\ d \in Calls /\ d.op = c.op /\ d.subject = c.subject /\ d.arg = c.arg /\ d.seen = c.seen
        /\ d.step = "decide" /\ d.aim = c.aim /\ d.row = c.aim /\ (d.op = "ingest" => ~d.known)
    BY <1>2, <2>1, <2>3 DEF Calls
  <2>5. c.op # "none"
    BY <1>2 DEF Sensible, Subject
  <2>6. c.op \in Commands \cup Timers => c.aim = c.subject
    BY <1>2 DEF Sensible, Aims, InTransaction
  <2>7. Sensible(p, d)
    BY <1>2, <2>4, <2>5, <2>6 DEF Sensible, Role, Subject, Aims, Reads, Reports, Looks
  <2> QED BY <1>3, <1>5, <1>7, <2>2, <2>4, <2>7, QuietStep
<1> QED BY <1>4, <1>6, <1>7

(***************************************************************************)
(* The decision and the commit.                                            *)
(***************************************************************************)
\* A commit links the event of an ingestion, which was not linked, ...
Links(p, i) ==
    /\ call[p].op = "ingest" /\ links[call[p].subject] = None
    /\ links' = [links EXCEPT ![call[p].subject] = i]

\* ... and writes one incident: the one whose row the call holds, or a new one.
Rewrites(p, i, r) ==
    /\ i = call[p].row /\ i \in Stored /\ Changes(inc[i], r)
    /\ \/ Links(p, i) /\ Evidence(inc[i], call[p].subject, r)
       \/ UNCHANGED links /\ SameEvidence(inc[i], r) /\ call[p].op \in Commands \cup Timers

Inserts(p, i, r) ==
    /\ i \notin Stored
    /\ \/ /\ Links(p, i) /\ r.key = KeyOf[call[p].subject] /\ r.observed = 1
          /\ r.retained = IF Cardinality({}) < EvidenceMax THEN {call[p].subject} ELSE {}
       \/ UNCHANGED links /\ r.observed = 0 /\ r.retained = {} /\ call[p].op = "create"

Writes(p) ==
    /\ Release(p) /\ UNCHANGED <<inbox, todo>>
    /\ \E outcome \in Outcomes \cup {None} : Ended(p, "done", outcome)
    /\ \E i \in Ids, r \in Rows : inc' = [inc EXCEPT ![i] = r] /\ (Rewrites(p, i, r) \/ Inserts(p, i, r))

\* A decision writes so, or leaves everything as sound as it was.
Decides(p) == Writes(p) \/ (UNCHANGED <<inc, links>> /\ Sound')

\* Link, with what it writes.
LEMMA LinkMoves ==
    ASSUME Sound, NEW p \in Procs, call[p].step = "decide", call[p].op = "ingest", UNCHANGED <<inbox, todo>>,
           NEW i \in Ids, NEW r \in Rows, NEW outcome \in Outcomes,
           \/ links[call[p].subject] # None /\ Rerun(p) /\ UNCHANGED <<inc, links>>
           \/ /\ links[call[p].subject] = None
              /\ inc' = [inc EXCEPT ![i] = r] /\ Release(p)
              /\ links' = [links EXCEPT ![call[p].subject] = i]
              /\ Ended(p, "done", outcome),
           \/ i = call[p].row /\ i \in Stored /\ Changes(inc[i], r) /\ Evidence(inc[i], call[p].subject, r)
           \/ /\ i \notin Stored /\ r.key = KeyOf[call[p].subject] /\ r.observed = 1
              /\ r.retained = IF Cardinality({}) < EvidenceMax THEN {call[p].subject} ELSE {}
    PROVE  Decides(p)
<1>1. CASE links[call[p].subject] # None /\ Rerun(p) /\ UNCHANGED <<inc, links>>
  BY <1>1, RerunSound DEF Decides, InTransaction
<1>2. CASE /\ links[call[p].subject] = None
           /\ inc' = [inc EXCEPT ![i] = r] /\ Release(p)
           /\ links' = [links EXCEPT ![call[p].subject] = i]
           /\ Ended(p, "done", outcome)
  <2>1. Rewrites(p, i, r) \/ Inserts(p, i, r)
    BY <1>2 DEF Rewrites, Inserts, Links
  <2> QED BY <1>2, <2>1 DEF Decides, Writes
<1> QED BY <1>1, <1>2

\* What a call that decides has read.
LEMMA DecidersRead ==
    ASSUME Sound, NEW p \in Procs, call[p].step = "decide"
    PROVE  /\ call[p].now \in Nat
           /\ call[p].op = "ingest" => call[p].subject \in Events /\ ClassOf[call[p].subject] # "garbled"
           /\ call[p].op \in Commands \cup Timers => call[p].row \in Ids
           /\ call[p].row # None =>
                 /\ call[p].row \in Ids /\ call[p].row \in Stored /\ inc[call[p].row] \in Rows
                 /\ rowLock[call[p].row] = p /\ Reconstitutes(inc[call[p].row])
<1>1. call[p] \in Calls /\ Sensible(p, call[p]) /\ Holds(p, call[p])
  BY DEF Sound, StoreTypeOK
<1>2. call[p].now \in Nat /\ call[p].row \in Ids \cup {None}
  BY <1>1 DEF Calls
<1>3. call[p].row # None => call[p].row \in Stored
  BY <1>1 DEF Sensible, Reads, Aims
<1> QED BY <1>1, <1>2, <1>3 DEF Sensible, Subject, Reads, Holds, Stored, Sound, StoreTypeOK

\* An insertion takes an identifier that is free.
LEMMA FreshIsFree ==
    ASSUME HasRoom
    PROVE  FreshId \in Ids /\ FreshId \notin Stored
<1>1. \E i \in Ids : inc[i] = None
  BY DEF HasRoom, Stored
<1> QED BY <1>1 DEF FreshId, Stored

\* Each branch of the lookup writes so, is rerun or changes nothing.
LEMMA LookupMoves ==
    ASSUME Sound, NEW p \in Procs, call[p].step = "decide", call[p].op = "ingest", UNCHANGED <<inbox, todo>>,
           Lookup(p)
    PROVE  Decides(p)
<1>1. PICK e, i, now : e = call[p].subject /\ i = call[p].row /\ now = call[p].now
  OBVIOUS
<1>2. /\ e \in Events /\ now \in Nat
      /\ i # None => i \in Ids /\ i \in Stored /\ inc[i] \in Rows
  BY <1>1, DecidersRead
<1>link. ASSUME NEW j \in Ids, NEW r \in Rows, NEW outcome \in Outcomes,
                \/ links[e] # None /\ Rerun(p) /\ UNCHANGED <<inc, links>>
                \/ /\ links[e] = None
                   /\ inc' = [inc EXCEPT ![j] = r] /\ Release(p)
                   /\ links' = [links EXCEPT ![e] = j]
                   /\ Ended(p, "done", outcome),
                \/ j = i /\ j \in Stored /\ Changes(inc[j], r) /\ Evidence(inc[j], e, r)
                \/ /\ j \notin Stored /\ r.key = KeyOf[e] /\ r.observed = 1
                   /\ r.retained = IF Cardinality({}) < EvidenceMax THEN {e} ELSE {}
         PROVE  Decides(p)
  BY <1>1, <1>link, LinkMoves
<1>rerun. ASSUME Rerun(p), UNCHANGED <<inc, links>> PROVE Decides(p)
  BY <1>rerun, RerunSound DEF Decides, InTransaction
<1>none. ASSUME NEW step \in {"done", "failed"}, NEW outcome \in {"quarantined", None},
                NoChange(p, step, outcome), step = "done" => outcome = "quarantined"
         PROVE  Decides(p)
  <2>1. outcome \in Outcomes \cup {None} /\ UNCHANGED <<inc, links>> /\ Release(p) /\ Ended(p, step, outcome)
    BY <1>none DEF NoChange, Outcomes
  <2>2. Sound'
    BY <1>none, <2>1, EndSound DEF InTransaction
  <2> QED BY <2>1, <2>2 DEF Decides
<1>3. CASE i # None /\ inc[i].state \in Active
  <2>1. PICK r, outcome : /\ r = link_event_to_open_incident(inc[i], e, now)
                          /\ outcome = IF IsLate(inc[i], now) THEN "linked_late" ELSE "updated"
    OBVIOUS
  <2>2. r \in Rows /\ Changes(inc[i], r) /\ Evidence(inc[i], e, r) /\ outcome \in Outcomes
    BY <1>2, <1>3, <2>1, LinkOpenFields DEF Changes, Outcomes
  <2>3. \/ links[e] # None /\ Rerun(p) /\ UNCHANGED <<inc, links>>
        \/ /\ links[e] = None
           /\ inc' = [inc EXCEPT ![i] = r] /\ Release(p)
           /\ links' = [links EXCEPT ![e] = i]
           /\ Ended(p, "done", outcome)
    BY <1>1, <1>3, <2>1 DEF Lookup, Link, Commit, Ended
  <2> QED BY <1>2, <1>3, <1>link, <2>2, <2>3
<1>4. CASE i # None /\ inc[i].state \notin Active /\ (KindOf[e] = "ended" \/ AlreadyHeld(inc[i], e))
  <2>1. PICK r : r = link_event(inc[i], e, now, TRUE)
    OBVIOUS
  <2>2. r \in Rows /\ Changes(inc[i], r) /\ Evidence(inc[i], e, r) /\ "linked_late" \in Outcomes
    BY <1>2, <1>4, <2>1, LinkEventFields DEF Changes, Outcomes
  <2>3. \/ links[e] # None /\ Rerun(p) /\ UNCHANGED <<inc, links>>
        \/ /\ links[e] = None
           /\ inc' = [inc EXCEPT ![i] = r] /\ Release(p)
           /\ links' = [links EXCEPT ![e] = i]
           /\ Ended(p, "done", "linked_late")
    BY <1>1, <1>4, <2>1 DEF Lookup, Link, Commit
  <2> QED BY <1>2, <1>4, <1>link, <2>2, <2>3
<1>5. CASE /\ i # None => inc[i].state \notin Active /\ ~(KindOf[e] = "ended" \/ AlreadyHeld(inc[i], e))
           /\ i # None /\ Skewed(inc[i], now)
  <2>1. NoChange(p, "failed", None)
    BY <1>1, <1>5 DEF Lookup
  <2> QED BY <2>1, <1>none
<1>6. CASE /\ i # None => inc[i].state \notin Active /\ ~(KindOf[e] = "ended" \/ AlreadyHeld(inc[i], e))
           /\ i # None /\ ~Skewed(inc[i], now) /\ evaluate_reopen(inc[i], now)
  <2>1. PICK r : r = reopen_incident_internal(inc[i], e, now)
    OBVIOUS
  <2>2. r \in Rows /\ Changes(inc[i], r) /\ Evidence(inc[i], e, r) /\ "reopened" \in Outcomes
    BY <1>2, <1>6, <2>1, ReopenFields DEF Changes, Outcomes
  <2>3. \/ Rerun(p) /\ UNCHANGED <<inc, links>>
        \/ /\ links[e] = None
           /\ inc' = [inc EXCEPT ![i] = r] /\ Release(p)
           /\ links' = [links EXCEPT ![e] = i]
           /\ Ended(p, "done", "reopened")
    BY <1>1, <1>6, <2>1 DEF Lookup, Link, Commit
  <2> QED BY <1>2, <1>6, <1>link, <1>rerun, <2>2, <2>3
<1>7. CASE /\ i # None => inc[i].state \notin Active /\ ~(KindOf[e] = "ended" \/ AlreadyHeld(inc[i], e))
           /\ i # None => ~Skewed(inc[i], now) /\ ~evaluate_reopen(inc[i], now)
  <2>1. PICK r, j : r = create_incident_internal(e, now) /\ j = FreshId
    OBVIOUS
  <2>2. /\ r \in Rows /\ r.key = KeyOf[e] /\ r.observed = 1 /\ "created" \in Outcomes
        /\ r.retained = IF Cardinality({}) < EvidenceMax THEN {e} ELSE {}
    BY <1>2, <2>1, CreatedFields DEF Outcomes
  <2>3. \/ NoChange(p, "done", "quarantined")
        \/ Rerun(p) /\ UNCHANGED <<inc, links>>
        \/ /\ links[e] = None /\ HasRoom
           /\ inc' = [inc EXCEPT ![j] = r] /\ Release(p)
           /\ links' = [links EXCEPT ![e] = j]
           /\ Ended(p, "done", "created")
    BY <1>1, <1>7, <2>1 DEF Lookup, Link, Commit
  <2>4. HasRoom => j \in Ids /\ j \notin Stored
    BY <2>1, FreshIsFree
  <2>5. CASE NoChange(p, "done", "quarantined")
    BY <2>5, <1>none
  <2>6. CASE /\ links[e] = None /\ HasRoom
             /\ inc' = [inc EXCEPT ![j] = r] /\ Release(p)
             /\ links' = [links EXCEPT ![e] = j]
             /\ Ended(p, "done", "created")
    BY <1>link, <2>2, <2>4, <2>6
  <2> QED BY <1>rerun, <2>3, <2>5, <2>6
<1> QED BY <1>3, <1>4, <1>5, <1>6, <1>7

\* A call that decides to change nothing.
LEMMA NoChangeDecides ==
    ASSUME Sound, NEW p \in Procs, call[p].step = "decide", UNCHANGED <<inbox, todo>>,
           NEW outcome \in Outcomes \cup {None}, NoChange(p, "done", outcome),
           p \in Workers /\ outcome \notin {"quarantined", "observe_only"} => links[call[p].subject] # None
    PROVE  Decides(p)
<1>1. UNCHANGED <<inc, links>> /\ Release(p) /\ Ended(p, "done", outcome)
  BY DEF NoChange
<1>2. Sound'
  BY <1>1, EndSound DEF InTransaction
<1> QED BY <1>1, <1>2 DEF Decides

\* A call that lost a race for a unique index.
LEMMA RerunDecides ==
    ASSUME Sound, NEW p \in Procs, call[p].step = "decide", UNCHANGED <<inbox, todo>>,
           Rerun(p), UNCHANGED <<inc, links>>
    PROVE  Decides(p)
BY RerunSound DEF Decides, InTransaction

\* An incident of the row that the call holds, written over.
LEMMA CommitDecides ==
    ASSUME Sound, NEW p \in Procs, call[p].step = "decide", UNCHANGED <<inbox, todo, links>>,
           NEW i \in Ids, i = call[p].row, i \in Stored, NEW r \in Rows, Changes(inc[i], r),
           SameEvidence(inc[i], r), call[p].op \in Commands \cup Timers,
           inc' = [inc EXCEPT ![i] = r], Release(p), Ended(p, "done", None)
    PROVE  Decides(p)
BY DEF Decides, Writes, Rewrites

\* Every decision is of that form.
LEMMA DecideMoves ==
    ASSUME Sound, NEW p \in Procs, Decide(p)
    PROVE  Decides(p)
<1>0. call[p].step = "decide" /\ InTransaction(call[p]) /\ UNCHANGED <<inbox, todo>>
  BY DEF InTransaction, Decide, ingest_detection_event, create_manual_incident, handle_command, RunTimer, Elsewhere
<1>w. p \in Workers => call[p].op = "ingest"
  BY <1>0, WorkersIngest
<1>1. CASE ingest_detection_event(p)
  <2> DEFINE class == ClassOf[call[p].subject]
  <2>1. /\ call[p].op = "ingest" /\ call[p].subject \in Events
        /\ class \in {"plain", "future", "observe"}
    BY <1>0, <1>1, DecidersRead, DetectionsAssumption DEF ingest_detection_event
  <2>2. {"quarantined", "duplicate", "observe_only"} \subseteq Outcomes
    BY DEF Outcomes
  <2>3. CASE class = "future"
    <3>1. NoChange(p, "done", "quarantined")
      BY <1>1, <2>3 DEF ingest_detection_event
    <3> QED BY <1>0, <2>2, <3>1, NoChangeDecides
  <2>4. CASE class # "future" /\ call[p].known
    <3>1. NoChange(p, "done", "duplicate")
      BY <1>1, <2>4 DEF ingest_detection_event
    <3>2. links[call[p].subject] # None
      BY <2>1, <2>4 DEF Sound, Sensible, Reports
    <3> QED BY <1>0, <2>2, <3>1, <3>2, NoChangeDecides
  <2>5. CASE class = "observe" /\ ~call[p].known
    <3>1. NoChange(p, "done", "observe_only")
      BY <1>1, <2>5 DEF ingest_detection_event
    <3> QED BY <1>0, <2>2, <3>1, NoChangeDecides
  <2>6. CASE class = "plain" /\ ~call[p].known
    <3>1. Lookup(p)
      BY <1>1, <2>6 DEF ingest_detection_event
    <3> QED BY <1>0, <2>1, <3>1, LookupMoves
  <2> QED BY <2>1, <2>3, <2>4, <2>5, <2>6
<1>2. CASE create_manual_incident(p)
  <2>0. /\ call[p].op = "create" /\ call[p].subject \in Keys /\ call[p].arg \in BOOLEAN
        /\ call[p].now \in Nat /\ p \notin Workers
    BY <1>0, <1>2, <1>w, DecidersRead DEF create_manual_incident, Sound, Sensible, Subject
  <2>1. PICK r, j : r = NewIncident(call[p].subject, call[p].arg, call[p].now) /\ j = FreshId
    OBVIOUS
  <2>2. r \in Rows /\ r.observed = 0 /\ r.retained = {}
    BY <2>0, <2>1, NewFields
  <2>3. \/ NoChange(p, "done", None)
        \/ Rerun(p) /\ UNCHANGED <<inc, links>>
        \/ HasRoom /\ inc' = [inc EXCEPT ![j] = r] /\ Release(p) /\ Ended(p, "done", None) /\ UNCHANGED links
    BY <1>2, <2>1 DEF create_manual_incident, Commit
  <2>4. CASE NoChange(p, "done", None)
    BY <1>0, <2>0, <2>4, NoChangeDecides
  <2>5. CASE Rerun(p) /\ UNCHANGED <<inc, links>>
    BY <1>0, <2>5, RerunDecides
  <2>6. CASE HasRoom /\ inc' = [inc EXCEPT ![j] = r] /\ Release(p) /\ Ended(p, "done", None) /\ UNCHANGED links
    <3>1. j \in Ids /\ j \notin Stored
      BY <2>1, <2>6, FreshIsFree
    <3> QED BY <1>0, <2>0, <2>2, <2>6, <3>1 DEF Decides, Writes, Inserts
  <2> QED BY <2>3, <2>4, <2>5, <2>6
<1>3. CASE handle_command(p)
  <2>0. PICK i, op, now : i = call[p].row /\ op = call[p].op /\ now = call[p].now
    OBVIOUS
  <2>1. op \in Commands /\ now \in Nat /\ p \notin Workers /\ i \in Ids /\ i # None /\ i \in Stored /\ inc[i] \in Rows
    <3>1. op \in Commands /\ op # "ingest"
      BY <1>3, <2>0 DEF handle_command, Commands, Versioned, Moves
    <3>2. i \in Ids /\ i # None
      BY <1>0, <2>0, <3>1, DecidersRead, ProcsAssumption DEF Ids
    <3> QED BY <1>0, <1>w, <2>0, <3>1, <3>2, DecidersRead
  <2>2. PICK r : r = apply_command(op, inc[i], now)
    OBVIOUS
  <2>3. r \in Rows /\ Changes(inc[i], r) /\ SameEvidence(inc[i], r)
    BY <2>1, <2>2, CommandFields DEF Changes
  <2>4. \/ NoChange(p, "done", None)
        \/ Rerun(p) /\ UNCHANGED <<inc, links>>
        \/ inc' = [inc EXCEPT ![i] = r] /\ Release(p) /\ Ended(p, "done", None) /\ UNCHANGED links
    BY <1>3, <2>0, <2>2 DEF handle_command, Commit
  <2>5. CASE NoChange(p, "done", None)
    BY <1>0, <2>1, <2>5, NoChangeDecides
  <2>6. CASE Rerun(p) /\ UNCHANGED <<inc, links>>
    BY <1>0, <2>6, RerunDecides
  <2>7. CASE inc' = [inc EXCEPT ![i] = r] /\ Release(p) /\ Ended(p, "done", None) /\ UNCHANGED links
    BY <1>0, <2>0, <2>1, <2>3, <2>7, CommitDecides
  <2> QED BY <2>4, <2>5, <2>6, <2>7
<1>4. CASE RunTimer(p)
  <2>0. PICK i, op, now : i = call[p].row /\ op = call[p].op /\ now = call[p].now
    OBVIOUS
  <2>1. op \in Timers /\ now \in Nat /\ p \notin Workers /\ i \in Ids /\ i # None /\ i \in Stored /\ inc[i] \in Rows
    <3>1. op \in Timers /\ op # "ingest"
      BY <1>4, <2>0 DEF RunTimer, Timers
    <3>2. i \in Ids /\ i # None
      BY <1>0, <2>0, <3>1, DecidersRead, ProcsAssumption DEF Ids
    <3> QED BY <1>0, <1>w, <2>0, <3>1, <3>2, DecidersRead
  <2>2. PICK r : r = TimerEffect(op, inc[i], now)
    OBVIOUS
  <2>3. TimerDue(op, inc[i], now) => r \in Rows /\ Changes(inc[i], r) /\ SameEvidence(inc[i], r)
    BY <2>1, <2>2, TimerFields DEF Changes
  <2>4. \/ NoChange(p, "done", None)
        \/ /\ TimerDue(op, inc[i], now)
           /\ inc' = [inc EXCEPT ![i] = r] /\ Release(p) /\ Ended(p, "done", None) /\ UNCHANGED links
    BY <1>4, <2>0, <2>2 DEF RunTimer, Commit
  <2>5. CASE NoChange(p, "done", None)
    BY <1>0, <2>1, <2>5, NoChangeDecides
  <2>6. CASE /\ TimerDue(op, inc[i], now)
             /\ inc' = [inc EXCEPT ![i] = r] /\ Release(p) /\ Ended(p, "done", None) /\ UNCHANGED links
    BY <1>0, <2>0, <2>1, <2>3, <2>6, CommitDecides
  <2> QED BY <2>4, <2>5, <2>6
<1> QED BY <1>1, <1>2, <1>3, <1>4 DEF Decide

\* A commit leaves every incident but one as it was, and that one was nobody
\* else's: the store stays sound.
LEMMA WritesGrow ==
    ASSUME Sound, NEW p \in Procs, call[p].step = "decide", Writes(p),
           NEW i \in Ids, NEW r \in Rows, inc' = [inc EXCEPT ![i] = r], Rewrites(p, i, r) \/ Inserts(p, i, r)
    PROVE  /\ StoreGrows
           /\ inc'[i] = r /\ \A j \in Ids \ {i} : inc'[j] = inc[j]
           /\ \A q \in Procs \ {p} : call[q].row # i
           /\ links' \in [Events -> Ids \cup {None}]
           /\ r # None /\ (Rewrites(p, i, r) => rowLock[i] = p)
<1>1. inc \in [Ids -> Rows \cup {None}] /\ links \in [Events -> Ids \cup {None}] /\ r # None
  BY RowsAssumption DEF Sound, StoreTypeOK
<1>2. inc'[i] = r /\ \A j \in Ids \ {i} : inc'[j] = inc[j]
  BY <1>1
<1>3. ASSUME NEW j \in Stored PROVE Follows(inc[j], inc'[j])
  <2>1. j \in Ids /\ inc[j] \in Rows
    BY <1>1 DEF Stored
  <2>2. CASE j = i
    BY <1>2, <2>1, <2>2 DEF Rewrites, Inserts, Changes, Follows
  <2>3. CASE j # i
    BY <1>2, <2>1, <2>3 DEF Follows
  <2> QED BY <2>2, <2>3
<1>4. \/ UNCHANGED links
      \/ call[p].subject \in Events /\ links[call[p].subject] = None
         /\ links' = [links EXCEPT ![call[p].subject] = i]
  BY DecidersRead DEF Rewrites, Inserts, Links
<1>5. i # None
  BY ProcsAssumption DEF Ids
<1>6. /\ links' \in [Events -> Ids \cup {None}]
      /\ \A e \in Events : links[e] # None => links'[e] # None
  BY <1>1, <1>4, <1>5
<1>7. Rewrites(p, i, r) => rowLock[i] = p
  BY <1>5, DecidersRead DEF Rewrites
<1>8. ASSUME NEW q \in Procs \ {p}, call[q].row = i PROVE FALSE
  <2>1. rowLock[i] = q /\ i \in Stored
    BY <1>5, <1>8 DEF Sound, Sensible, Reads, Aims, Holds
  <2> QED BY <1>7, <2>1 DEF Inserts
<1>9. inc' \in [Ids -> Rows \cup {None}]
  BY <1>1
<1> QED BY <1>1, <1>2, <1>3, <1>6, <1>7, <1>8, <1>9 DEF StoreGrows

\* A commit keeps the store sound: what was held is still what its holder read.
LEMMA WritesSound ==
    ASSUME Sound, NEW p \in Procs, call[p].step = "decide", Writes(p)
    PROVE  Sound'
<1>1. PICK i \in Ids, r \in Rows : inc' = [inc EXCEPT ![i] = r] /\ (Rewrites(p, i, r) \/ Inserts(p, i, r))
  BY DEF Writes
<1>2. PICK outcome \in Outcomes \cup {None} : Ended(p, "done", outcome)
  BY DEF Writes
<1>3. /\ StoreGrows /\ inc'[i] = r /\ r # None /\ \A j \in Ids \ {i} : inc'[j] = inc[j]
      /\ \A q \in Procs \ {p} : call[q].row # i
      /\ links' \in [Events -> Ids \cup {None}]
  BY ZenonT(30), <1>1, WritesGrow
<1>4. UNCHANGED <<inbox, todo>> /\ Release(p)
  BY DEF Writes
<1>5. /\ rowLock' \in [Ids -> Procs \cup {None}]
      /\ \A j \in Ids : rowLock[j] \notin {None, p} => rowLock'[j] = rowLock[j]
  BY <1>4, ReleaseRows
<1>6. PICK d : d = EndRecord(p, "done", outcome)
  OBVIOUS
<1>7. /\ d \in Calls /\ d.row = None /\ d.aim = None /\ d.known = FALSE
      /\ p \in Workers => d.op = "ingest" /\ d.subject = call[p].subject /\ d.step = "done" /\ d.arg = outcome
      /\ p \notin Workers => d = Idle
  <2>1. EndsAs(p, "done", outcome)
    BY EndFields
  <2> QED BY <1>6, <2>1 DEF EndsAs
<1>8. call' = [call EXCEPT ![p] = d]
  BY <1>2, <1>6, EndMoves
<1>9. StoreTypeOK'
  BY <1>3, <1>4, <1>5, <1>7, <1>8 DEF Sound, StoreTypeOK, StoreGrows
<1>10. \A j \in Stored : j \in Stored'
  BY <1>3, RowsAssumption DEF StoreGrows, Follows, Stored
<1>11. Sensible(p, call[p])' /\ Holds(p, call[p])'
  <2>1. call'[p] = d
    BY <1>8 DEF Sound, StoreTypeOK
  <2>2. CASE p \in Workers
    <3>1. /\ d.op = "ingest" /\ d.subject = call[p].subject /\ d.subject \in Events
          /\ ClassOf[d.subject] # "garbled" /\ call[p].op = "ingest" /\ d.step = "done"
      BY <1>7, <2>2, WorkersIngest DEF InTransaction
    <3>2. /\ "ingest" \notin Commands \cup Timers /\ "ingest" \notin {"none", "create"}
          /\ p \notin Maintainers /\ p \notin Operators /\ i # None
      BY <2>2, ProcsAssumption DEF Commands, Versioned, Moves, Timers, Ids
    <3>3. links'[d.subject] # None
      BY <1>1, <3>1, <3>2 DEF Rewrites, Inserts, Links, Sound, StoreTypeOK
    <3> QED BY <1>7, <2>1, <2>2, <3>1, <3>2, <3>3
            DEF Sensible, Role, Subject, Aims, Reads, Reports, Looks, Holds
  <2>3. CASE p \notin Workers
    BY <1>3, <1>7, <2>1, <2>3, IdleGood, SenseCarries DEF Sound, Holds
  <2> QED BY <2>2, <2>3
<1>12. ASSUME NEW q \in Procs \ {p} PROVE Sensible(q, call[q])' /\ Holds(q, call[q])'
  <2>1. call'[q] = call[q] /\ call[q] \in Calls
    BY <1>8 DEF Sound, StoreTypeOK
  <2>2. Sensible(q, call[q])'
    <3>1. PICK c \in Calls : c = call[q]
      BY <2>1
    <3> QED BY <1>3, <2>1, <3>1, SenseCarries DEF Sound
  <2>3. ASSUME call[q].row # None
        PROVE  rowLock'[call[q].row] = q /\ Reconstitutes(inc'[call[q].row])
    <3>1. call[q].row \in Ids /\ q # None /\ rowLock[call[q].row] = q /\ Reconstitutes(inc[call[q].row])
      BY <2>1, <2>3, ProcsAssumption DEF Sound, Calls, Procs, Holds
    <3>2. call[q].row # i
      BY <1>3
    <3> QED BY <1>3, <1>5, <3>1, <3>2
  <2> QED BY <2>1, <2>2, <2>3 DEF Holds, Reconstitutes, Precedes
<1>13. Proposals' /\ Claims'
  BY <1>4, <1>10 DEF Sound, Proposals, Claims
<1>14. Linked'
  <2>1. ASSUME NEW e \in Events, links'[e] # None
        PROVE  links'[e] \in Stored' /\ inc'[links'[e]].key = KeyOf[e]
    <3>1. CASE links'[e] = links[e]
      <4>1. links[e] \in Stored /\ inc[links[e]].key = KeyOf[e]
        BY <2>1, <3>1 DEF Sound, Linked
      <4> QED BY <1>3, <1>10, <3>1, <4>1 DEF StoreGrows, Follows
    <3>2. CASE links'[e] # links[e]
      <4>1. Links(p, i) /\ e = call[p].subject /\ links'[e] = i
        BY <1>1, <3>2 DEF Rewrites, Inserts, Links, Sound, StoreTypeOK
      <4>2. i \in Stored'
        BY <1>3 DEF Stored
      <4>3. r.key = KeyOf[e]
        <5>1. CASE Inserts(p, i, r)
          <6>1. "ingest" # "create"
            OBVIOUS
          <6> QED BY <4>1, <5>1, <6>1 DEF Inserts, Links
        <5>2. CASE Rewrites(p, i, r)
          <6>1. i # None /\ i = call[p].row /\ r.key = inc[i].key
            BY <5>2, ProcsAssumption DEF Rewrites, Changes, Ids
          <6> QED BY <4>1, <6>1 DEF Links, Sound, Sensible, Reads, Aims
        <5> QED BY <1>1, <5>1, <5>2
      <4> QED BY <1>3, <4>1, <4>2, <4>3
    <3> QED BY <3>1, <3>2
  <2> QED BY <1>3, <1>4, <2>1 DEF Linked, Sound, StoreGrows
<1> QED BY <1>9, <1>11, <1>12, <1>13, <1>14 DEF Sound

\* So does every decision.
LEMMA DecideSound ==
    ASSUME Sound, NEW p \in Procs, Decide(p)
    PROVE  Sound'
<1>1. call[p].step = "decide"
  BY DEF Decide, ingest_detection_event, create_manual_incident, handle_command, RunTimer
<1> QED BY <1>1, DecideMoves, WritesSound DEF Decides

(***************************************************************************)
(* Faults, the loops of the services, operators and the clock.             *)
(***************************************************************************)
\* A statement that fails, and a deadlock that is broken, roll the call back.
LEMMA FaultSound ==
    ASSUME Sound, NEW p \in Procs, StatementFails(p) \/ Deadlock(p)
    PROVE  Sound'
<1>1. CASE StatementFails(p)
  BY <1>1, FailSound DEF StatementFails
<1>2. CASE Deadlock(p)
  <2>1. HolderFor(p) # None /\ Rerun(p) /\ UNCHANGED <<inc, links, inbox, todo>>
    BY <1>2 DEF Deadlock, Elsewhere
  <2>2. InTransaction(call[p])
    BY <2>1 DEF HolderFor, InTransaction
  <2> QED BY <2>1, <2>2, RerunSound
<1> QED BY <1>1, <1>2

\* The loops have a work list; what becomes of it and of the inbox is all there is
\* to show when a call ends, or is begun, outside a transaction.
LEMMA LoopSound ==
    ASSUME Sound, UNCHANGED <<inc, links, rowLock>>, NEW p \in Workers \cup Maintainers,
           NEW d \in Calls, Sensible(p, d), d.row = None, call' = [call EXCEPT ![p] = d],
           NEW list, list \subseteq todo[p], todo' = [todo EXCEPT ![p] = list], UNCHANGED inbox
    PROVE  Sound'
<1>1. todo' \in [Workers \cup Maintainers -> SUBSET (Events \cup (Timers \X Ids))]
  BY DEF Sound, StoreTypeOK
<1>2. \A e \in Events :
          inbox'[e].status = "processed" /\ inbox'[e].outcome \notin {"quarantined", "observe_only"} =>
              links[e] # None
  BY DEF Sound, Linked
<1>3. Proposals' /\ Claims'
  <2>1. \A q \in Workers \cup Maintainers : todo'[q] \subseteq todo[q]
    BY DEF Sound, StoreTypeOK
  <2>2. Stored' = Stored
    BY DEF Stored
  <2> QED BY <2>1, <2>2 DEF Sound, Proposals, Claims
<1>4. p \in Procs /\ inbox' \in [Events -> InboxRows] /\ rowLock' \in [Ids -> Procs \cup {None}]
  BY DEF Procs, Sound, StoreTypeOK
<1> QED BY <1>1, <1>2, <1>3, <1>4, SoundStep

\* A process that dies loses its rows, its call and its list, and no more.
LEMMA CrashSound ==
    ASSUME Sound, NEW p \in Procs, Crash(p)
    PROVE  Sound'
<1>1. /\ UNCHANGED <<inc, links, inbox>> /\ call' = [call EXCEPT ![p] = Idle] /\ Release(p)
      /\ p \in Workers \cup Maintainers /\ todo' = [todo EXCEPT ![p] = {}]
  BY DEF Crash
<1>2. Idle \in Calls /\ Idle.row = None /\ Sensible(p, Idle)
  BY IdleFields, IdleGood
<1>3. todo' \in [Workers \cup Maintainers -> SUBSET (Events \cup (Timers \X Ids))]
  BY <1>1 DEF Sound, StoreTypeOK
<1>4. \A e \in Events :
          inbox'[e].status = "processed" /\ inbox'[e].outcome \notin {"quarantined", "observe_only"} =>
              links[e] # None
  BY <1>1 DEF Sound, Linked
<1>5. Proposals' /\ Claims'
  <2>1. \A q \in Workers \cup Maintainers : todo'[q] \subseteq todo[q]
    BY <1>1 DEF Sound, StoreTypeOK
  <2>2. Stored' = Stored
    BY <1>1 DEF Stored
  <2> QED BY <2>1, <2>2 DEF Sound, Proposals, Claims
<1>6. inbox' \in [Events -> InboxRows]
  BY <1>1 DEF Sound, StoreTypeOK
<1>7. PICK d \in Calls : d = Idle
  BY <1>2
<1> QED BY <1>1, <1>2, <1>3, <1>4, <1>5, <1>6, <1>7, ReleaseRows, SoundStep

\* A claim marks events and takes them on the list; it reports nothing.
LEMMA ClaimSound ==
    ASSUME Sound, NEW w \in Workers, claim(w)
    PROVE  Sound'
<1> DEFINE batch == {e \in Claimable : Cardinality({d \in Claimable : d < e}) < Batch}
<1>1. /\ todo' = [todo EXCEPT ![w] = batch] /\ UNCHANGED <<inc, links, rowLock, call>>
      /\ inbox' = [e \in Events |->
            IF e \in batch THEN [inbox[e] EXCEPT !.holder = w, !.due = FALSE] ELSE inbox[e]]
  BY DEF claim
<1>2. batch \subseteq Events
  BY DEF Claimable
<1> HIDE DEF batch
<1>3. ASSUME NEW e \in Events
      PROVE  inbox'[e] \in InboxRows /\ inbox'[e].status = inbox[e].status /\ inbox'[e].outcome = inbox[e].outcome
  <2>1. inbox[e] \in InboxRows
    BY DEF Sound, StoreTypeOK
  <2> QED BY <1>1, <2>1 DEF InboxRows
<1>4. inbox' \in [Events -> InboxRows]
  BY <1>1, <1>3
<1>5. \A e \in Events :
          inbox'[e].status = "processed" /\ inbox'[e].outcome \notin {"quarantined", "observe_only"} =>
              links[e] # None
  BY <1>3 DEF Sound, Linked
<1>6. todo' \in [Workers \cup Maintainers -> SUBSET (Events \cup (Timers \X Ids))]
  BY <1>1, <1>2 DEF Sound, StoreTypeOK
<1>7. Proposals' /\ Claims'
  <2>1. Stored' = Stored
    BY <1>1 DEF Stored
  <2> QED BY <1>1, <1>2, <2>1, ProcsAssumption DEF Sound, StoreTypeOK, Proposals, Claims
<1>8. w \in Procs /\ call[w] \in Calls /\ Sensible(w, call[w]) /\ Holds(w, call[w])
  BY DEF Procs, Sound, StoreTypeOK
<1>9. PICK d \in Calls : d = call[w]
  BY <1>8
<1>10. call' = [call EXCEPT ![w] = d] /\ rowLock' \in [Ids -> Procs \cup {None}]
  BY <1>1, <1>8, <1>9 DEF Sound, StoreTypeOK
<1>11. /\ Sensible(w, d) /\ (d.row # None => rowLock'[d.row] = w /\ Reconstitutes(inc[d.row]))
       /\ \A i \in Ids : rowLock[i] \notin {None, w} => rowLock'[i] = rowLock[i]
  BY <1>1, <1>8, <1>9 DEF Holds
<1> QED BY <1>1, <1>4, <1>5, <1>6, <1>7, <1>8, <1>10, <1>11, SoundStep

\* A claimed event is ingested, unless it cannot be read.
LEMMA ProcessSound ==
    ASSUME Sound, NEW w \in Workers, process_next(w)
    PROVE  Sound'
<1>1. PICK e \in todo[w] :
        /\ \E c \in IF ClassOf[e] = "garbled" THEN {[Call("ingest", e, None) EXCEPT !.step = "failed"]}
                    ELSE Begun(Call("ingest", e, None)) : call' = [call EXCEPT ![w] = c]
        /\ todo' = [todo EXCEPT ![w] = todo[w] \ {e}]
  BY DEF process_next, Sound, StoreTypeOK
<1>2. e \in Events /\ w \in Procs /\ UNCHANGED <<inc, links, inbox, rowLock>>
  BY <1>1 DEF Sound, Claims, Procs, process_next
<1>3. /\ w \notin Maintainers /\ w \notin Operators
      /\ "ingest" \notin Commands \cup Timers /\ "ingest" \notin {"none", "create"}
  BY ProcsAssumption DEF Commands, Versioned, Moves, Timers
<1>4. PICK c : c = Call("ingest", e, None)
  OBVIOUS
<1>5. Fresh(c) /\ c.op = "ingest" /\ c.subject = e /\ c.arg = None
  <2>1. "ingest" \in Ops /\ e \in Subjects /\ None \in Arguments
    BY <1>2 DEF Ops, Subjects, Arguments
  <2> QED BY <1>4, <2>1, CallFields
<1>6. ASSUME NEW d \in Calls, Sensible(w, d), d.row = None, call' = [call EXCEPT ![w] = d] PROVE Sound'
  <2>1. PICK list : list = todo[w] \ {e}
    OBVIOUS
  <2>2. list \subseteq todo[w] /\ todo' = [todo EXCEPT ![w] = list] /\ w \in Workers \cup Maintainers
    BY <1>1, <2>1
  <2> QED BY <1>2, <1>6, <2>2, LoopSound
<1>7. CASE ClassOf[e] = "garbled"
  <2>1. PICK d : d = [c EXCEPT !.step = "failed"] /\ call' = [call EXCEPT ![w] = d]
    BY <1>1, <1>4, <1>7
  <2>2. /\ d \in Calls /\ d.op = "ingest" /\ d.subject = e /\ d.step = "failed" /\ d.aim = None
        /\ d.row = None /\ ~d.known /\ d.arg = None
    <3>1. "failed" \in Steps
      BY DEF Steps
    <3> QED BY <1>5, <2>1, <3>1 DEF Fresh, Calls
  <2>3. Sensible(w, d)
    BY <1>2, <1>3, <2>2 DEF Sensible, Role, Subject, Aims, Reads, Reports, Looks
  <2> QED BY <1>6, <2>1, <2>2, <2>3
<1>8. CASE ClassOf[e] # "garbled"
  <2>1. PICK d \in Begun(c) : call' = [call EXCEPT ![w] = d]
    BY <1>1, <1>4, <1>8
  <2>2. c \in Calls /\ c.step = "begin" /\ Sensible(w, c)
    BY <1>2, <1>3, <1>5, <1>8 DEF Fresh, Sensible, Role, Subject, Aims, Reads, Reports, Looks
  <2>3. Sensible(w, d) /\ d \in Calls /\ d.row = None
    BY <1>2, <2>1, <2>2, BegunGood DEF Sound
  <2> QED BY <1>6, <2>1, <2>3
<1> QED BY <1>7, <1>8

\* One event of the inbox changes, and nothing else.
LEMMA InboxSound ==
    ASSUME Sound, UNCHANGED <<inc, links, rowLock, call, todo>>, NEW e \in Events, NEW row \in InboxRows,
           inbox' = [inbox EXCEPT ![e] = row], row.status # "processed"
    PROVE  Sound'
<1>1. StoreTypeOK'
  BY DEF Sound, StoreTypeOK
<1>2. StoreGrows
  BY DEF StoreGrows, Follows, Sound, StoreTypeOK, Stored
<1>3. ASSUME NEW q \in Procs PROVE Sensible(q, call[q])' /\ Holds(q, call[q])'
  <2>1. PICK c \in Calls : c = call[q]
    BY DEF Sound, StoreTypeOK
  <2>2. Sensible(q, call[q])'
    BY <1>2, <2>1, SenseCarries DEF Sound
  <2> QED BY <2>2 DEF Sound, Holds, Reconstitutes, Precedes
<1>4. Stored' = Stored
  BY DEF Stored
<1>5. Proposals' /\ Claims' /\ Linked'
  BY <1>4 DEF Sound, StoreTypeOK, Proposals, Claims, Linked
<1> QED BY <1>1, <1>3, <1>5 DEF Sound

\* An event arrives, or can be claimed again.
LEMMA ArrivalSound ==
    ASSUME Sound, NEW e \in Events, enqueue(e) \/ BecomesDue(e) \/ LeaseRunsOut(e)
    PROVE  Sound'
<1>1. inbox[e] \in InboxRows /\ inbox \in [Events -> InboxRows]
  BY DEF Sound, StoreTypeOK
<1>2. UNCHANGED <<inc, links, rowLock, call, todo>>
  BY DEF enqueue, BecomesDue, LeaseRunsOut
<1>3. CASE enqueue(e)
  <2>1. PICK row : row = [inbox[e] EXCEPT !.status = "pending"]
    OBVIOUS
  <2>2. inbox' = [inbox EXCEPT ![e] = row]
    BY <1>3, <2>1 DEF enqueue
  <2>3. row \in InboxRows /\ row.status # "processed"
    BY <1>1, <2>1 DEF InboxRows
  <2> QED BY <1>2, <2>2, <2>3, InboxSound
<1>4. CASE BecomesDue(e) \/ LeaseRunsOut(e)
  <2>1. PICK row : row = [inbox[e] EXCEPT !.due = TRUE]
    OBVIOUS
  <2>2. inbox' = [inbox EXCEPT ![e] = row] /\ inbox[e].status # "processed"
    BY <1>4, <2>1 DEF BecomesDue, LeaseRunsOut, Pending
  <2>3. row \in InboxRows /\ row.status # "processed"
    BY <1>1, <2>1, <2>2 DEF InboxRows
  <2> QED BY <1>2, <2>2, <2>3, InboxSound
<1> QED BY <1>3, <1>4

\* What a worker records of a call that ended.
LEMMA SettleSound ==
    ASSUME Sound, NEW w \in Workers, NEW row \in InboxRows, Settle(w, row), call[w].subject \in Events,
           row.status = "processed" /\ row.outcome \notin {"quarantined", "observe_only"} =>
              links[call[w].subject] # None
    PROVE  Sound'
<1>1. PICK e \in Events : e = call[w].subject
  OBVIOUS
<1>2. /\ inbox' = [inbox EXCEPT ![e] = IF @.holder = w /\ Pending(e) THEN row ELSE @]
      /\ call' = [call EXCEPT ![w] = Idle] /\ UNCHANGED <<inc, links, rowLock, todo>>
  BY <1>1 DEF Settle
<1>3. inbox' \in [Events -> InboxRows] /\ \A f \in Events : inbox'[f] = inbox[f] \/ (f = e /\ inbox'[f] = row)
  BY <1>2 DEF Sound, StoreTypeOK
<1>4. \A f \in Events :
          inbox'[f].status = "processed" /\ inbox'[f].outcome \notin {"quarantined", "observe_only"} =>
              links[f] # None
  BY <1>1, <1>3 DEF Sound, Linked
<1>5. PICK d \in Calls : d = Idle
  BY IdleFields
<1>6. Sensible(w, d) /\ d.row = None /\ w \in Procs
  BY <1>5, IdleFields, IdleGood DEF Procs
<1>7. /\ Proposals' /\ Claims' /\ rowLock' \in [Ids -> Procs \cup {None}]
      /\ todo' \in [Workers \cup Maintainers -> SUBSET (Events \cup (Timers \X Ids))]
  BY <1>2 DEF Sound, StoreTypeOK, Proposals, Claims, Stored
<1> QED BY <1>2, <1>3, <1>4, <1>5, <1>6, <1>7, SoundStep

\* An event is marked processed only with what its call reported.
LEMMA MarkSound ==
    ASSUME Sound, NEW w \in Workers, mark_processed(w) \/ mark_failed(w)
    PROVE  Sound'
<1>1. w \in Procs /\ call[w] \in Calls /\ Sensible(w, call[w]) /\ call[w].step \in {"done", "failed"}
  BY DEF Procs, Sound, StoreTypeOK, mark_processed, mark_failed
<1>2. call[w].op = "ingest" /\ call[w].subject \in Events
  BY <1>1 DEF Sensible, Role, Subject
<1>3. PICK e \in Events : e = call[w].subject
  BY <1>2
<1>4. inbox[e] \in InboxRows
  BY DEF Sound, StoreTypeOK
<1>5. CASE mark_processed(w)
  <2>1. PICK row : row = [inbox[e] EXCEPT !.status = "processed", !.outcome = call[w].arg,
                                          !.holder = None, !.due = FALSE]
    OBVIOUS
  <2>2. Settle(w, row)
    BY <1>3, <1>5, <2>1 DEF mark_processed
  <2>3. call[w].arg \in Outcomes \cup {None}
    BY <1>1, <1>2 DEF Sensible, Subject
  <2>4. row \in InboxRows /\ row.outcome = call[w].arg
    BY <1>4, <2>1, <2>3 DEF InboxRows
  <2>5. call[w].arg \notin {"quarantined", "observe_only"} => links[call[w].subject] # None
    BY <1>1, <1>2, <1>5 DEF Sensible, Reports, mark_processed
  <2> QED BY <1>2, <2>2, <2>4, <2>5, SettleSound
<1>6. CASE mark_failed(w)
  <2> DEFINE attempts == inbox[e].attempts + 1
             dead == ClassOf[e] = "garbled" \/ attempts >= MaxAttempts
             status == IF dead THEN "dead_letter" ELSE "retrying"
  <2>1. PICK row : row = [inbox[e] EXCEPT !.status = status, !.attempts = attempts, !.holder = None,
                                          !.due = FALSE]
    OBVIOUS
  <2>2. Settle(w, row)
    BY <1>3, <1>6, <2>1 DEF mark_failed
  <2>3. attempts \in Nat /\ status \in {"dead_letter", "retrying"}
    BY <1>4 DEF InboxRows
  <2> HIDE DEF attempts, status
  <2>4. row \in InboxRows /\ row.status = status
    BY <1>4, <2>1, <2>3 DEF InboxRows
  <2> QED BY <1>2, <2>2, <2>3, <2>4, SettleSound
<1> QED BY <1>5, <1>6

\* A maintainer's query and the calls it leads to.
LEMMA ProposeSound ==
    ASSUME Sound, NEW m \in Maintainers, propose(m)
    PROVE  Sound'
<1>1. PICK kind \in Timers : todo' = [todo EXCEPT ![m] = {kind} \X Proposed(kind)]
  BY DEF propose
<1>2. UNCHANGED <<inc, links, inbox, rowLock, call>> /\ Stored' = Stored
  BY DEF propose, Stored
<1>3. {kind} \X Proposed(kind) \subseteq Timers \X Stored /\ Stored \subseteq Ids
  BY DEF Proposed, Stored
<1>4. todo' \in [Workers \cup Maintainers -> SUBSET (Events \cup (Timers \X Ids))]
  BY <1>1, <1>3 DEF Sound, StoreTypeOK
<1>5. Proposals' /\ Claims'
  BY <1>1, <1>2, <1>3, ProcsAssumption DEF Sound, StoreTypeOK, Proposals, Claims
<1>6. m \in Procs /\ call[m] \in Calls /\ Sensible(m, call[m]) /\ Holds(m, call[m])
  BY DEF Procs, Sound, StoreTypeOK
<1>7. PICK d \in Calls : d = call[m]
  BY <1>6
<1>8. /\ call' = [call EXCEPT ![m] = d] /\ rowLock' \in [Ids -> Procs \cup {None}]
      /\ inbox' \in [Events -> InboxRows]
  BY <1>2, <1>6, <1>7 DEF Sound, StoreTypeOK
<1>9. /\ Sensible(m, d) /\ (d.row # None => rowLock'[d.row] = m /\ Reconstitutes(inc[d.row]))
      /\ \A i \in Ids : rowLock[i] \notin {None, m} => rowLock'[i] = rowLock[i]
  BY <1>2, <1>6, <1>7 DEF Holds
<1>10. \A e \in Events :
          inbox'[e].status = "processed" /\ inbox'[e].outcome \notin {"quarantined", "observe_only"} =>
              links[e] # None
  BY <1>2 DEF Sound, Linked
<1> QED BY <1>2, <1>4, <1>5, <1>6, <1>8, <1>9, <1>10, SoundStep

\* A timer that was proposed is a call on an incident that is stored.
LEMMA RunNextSound ==
    ASSUME Sound, NEW m \in Maintainers, run_next(m)
    PROVE  Sound'
<1>1. PICK timer \in todo[m] :
        /\ \E c \in Begun(Call(timer[1], timer[2], None)) : call' = [call EXCEPT ![m] = c]
        /\ todo' = [todo EXCEPT ![m] = todo[m] \ {timer}]
  BY DEF run_next, Sound, StoreTypeOK
<1>2. /\ timer[1] \in Timers /\ timer[2] \in Stored /\ timer[2] \in Ids
      /\ m \in Procs /\ UNCHANGED <<inc, links, inbox, rowLock>>
  BY <1>1 DEF Sound, Proposals, Procs, run_next, Stored
<1>3. PICK c : c = Call(timer[1], timer[2], None)
  OBVIOUS
<1>4. Fresh(c) /\ c.op = timer[1] /\ c.subject = timer[2] /\ c.arg = None
  <2>1. timer[1] \in Ops /\ timer[2] \in Subjects /\ None \in Arguments
    BY <1>2 DEF Ops, Subjects, Arguments
  <2> QED BY <1>3, <2>1, CallFields
<1>5. /\ m \notin Workers /\ m \notin Operators
      /\ c.op \notin {"none", "ingest", "create"} /\ c.op \notin Commands
  BY <1>2, <1>4, ProcsAssumption DEF Commands, Versioned, Moves, Timers
<1>6. c \in Calls /\ c.step = "begin" /\ Sensible(m, c)
  BY <1>2, <1>4, <1>5 DEF Fresh, Sensible, Role, Subject, Aims, Reads, Reports, Looks, InTransaction
<1>7. PICK d \in Begun(c) : call' = [call EXCEPT ![m] = d]
  BY <1>1, <1>3
<1>8. Sensible(m, d) /\ d \in Calls /\ d.row = None
  BY <1>2, <1>6, <1>7, BegunGood DEF Sound
<1>9. PICK list : list = todo[m] \ {timer}
  OBVIOUS
<1>10. list \subseteq todo[m] /\ todo' = [todo EXCEPT ![m] = list] /\ m \in Workers \cup Maintainers
  BY <1>1, <1>9
<1> QED BY <1>2, <1>7, <1>8, <1>10, LoopSound

\* An operator's command names the incident as it is, and its version.
LEMMA CommandSound ==
    ASSUME Sound, NEW o \in Operators, Command(o)
    PROVE  Sound'
<1>1. /\ o \in Procs /\ o \notin Workers /\ o \notin Maintainers
      /\ UNCHANGED <<inc, links, inbox, rowLock, todo>>
  BY ProcsAssumption DEF Procs, Command
<1>2. ASSUME NEW d \in Calls, Sensible(o, d), d.row = None, call' = [call EXCEPT ![o] = d] PROVE Sound'
  BY <1>1, <1>2, QuietStep DEF Sound, StoreTypeOK
<1>3. CASE \E i \in Stored, op \in Offered :
              call' = [call EXCEPT ![o] = [Call(op, i, inc[i].version) EXCEPT !.seen = Substance(inc[i])]]
  <2>1. PICK i \in Stored, op \in Offered :
              call' = [call EXCEPT ![o] = [Call(op, i, inc[i].version) EXCEPT !.seen = Substance(inc[i])]]
    BY <1>3
  <2>2. PICK r : r = inc[i]
    OBVIOUS
  <2>3. r \in Rows /\ r.version \in Nat /\ i \in Ids
    BY <2>1, <2>2 DEF Sound, StoreTypeOK, Stored, Rows
  <2>4. op \in Commands /\ op \notin {"none", "ingest", "create"} /\ op \notin Timers /\ op \in Ops
    BY IncidentsAssumption DEF Commands, Versioned, Moves, Timers, Ops
  <2>5. PICK c : c = Call(op, i, r.version)
    OBVIOUS
  <2>6. Fresh(c) /\ c.op = op /\ c.subject = i /\ c.arg = r.version
    <3>1. i \in Subjects /\ r.version \in Arguments
      BY <2>3 DEF Subjects, Arguments
    <3> QED BY <2>4, <2>5, <3>1, CallFields
  <2>7. PICK d, seen : seen = Substance(r) /\ d = [c EXCEPT !.seen = seen]
    OBVIOUS
  <2>8. call' = [call EXCEPT ![o] = d]
    BY <2>1, <2>2, <2>5, <2>7 DEF Substance
  <2>9. /\ d \in Calls /\ d.op = op /\ d.subject = i /\ d.arg = r.version /\ d.seen = Substance(r)
        /\ d.step = "begin" /\ d.aim = None /\ d.row = None /\ ~d.known
    <3>1. seen \in {Substance(s) : s \in Rows}
      BY <2>3, <2>7
    <3> QED BY <2>6, <2>7, <3>1 DEF Fresh, Calls
  <2>10. Sensible(o, d)
    BY <1>1, <2>1, <2>2, <2>3, <2>4, <2>9
       DEF Sensible, Role, Subject, Aims, Reads, Reports, Looks, InTransaction, Substance
  <2> QED BY <1>2, <2>8, <2>9, <2>10
<1>4. CASE \E key \in Keys, critical \in Severities : call' = [call EXCEPT ![o] = Call("create", key, critical)]
  <2>1. PICK key \in Keys, critical \in Severities : call' = [call EXCEPT ![o] = Call("create", key, critical)]
    BY <1>4
  <2>2. PICK d : d = Call("create", key, critical)
    OBVIOUS
  <2>3. Fresh(d) /\ d.op = "create" /\ d.subject = key /\ d.arg = critical /\ critical \in BOOLEAN
    <3>1. "create" \in Ops /\ key \in Subjects /\ critical \in BOOLEAN
      BY IncidentsAssumption DEF Ops, Subjects
    <3>2. critical \in Arguments
      BY <3>1 DEF Arguments
    <3> QED BY <2>2, <3>1, <3>2, CallFields
  <2>4. "create" \notin Commands \cup Timers /\ "create" \notin {"none", "ingest"}
    BY DEF Commands, Versioned, Moves, Timers
  <2>5. Sensible(o, d)
    BY <1>1, <2>3, <2>4 DEF Fresh, Sensible, Role, Subject, Aims, Reads, Reports, Looks, InTransaction
  <2> QED BY <1>2, <2>1, <2>2, <2>3, <2>5 DEF Fresh
<1> QED BY <1>3, <1>4 DEF Command

\* The clock.
LEMMA TickGrows ==
    ASSUME Sound, Tick
    PROVE  /\ StoreGrows /\ \A i \in Ids : inc'[i] = IF inc[i] = None THEN None ELSE Aged(inc[i])
           /\ \A i \in Stored : inc[i] \in Rows /\ inc'[i] = Aged(inc[i])
<1>1. inc' = [i \in Ids |-> IF inc[i] = None THEN None ELSE Aged(inc[i])] /\ UNCHANGED links
  BY DEF Tick
<1>2. ASSUME NEW i \in Stored
      PROVE  inc[i] \in Rows /\ inc'[i] = Aged(inc[i]) /\ Follows(inc[i], inc'[i])
  <2>1. i \in Ids /\ inc[i] \in Rows /\ inc'[i] = Aged(inc[i])
    BY <1>1 DEF Stored, Sound, StoreTypeOK
  <2> QED BY <2>1, AgedFields DEF Follows
<1>3. inc' \in [Ids -> Rows \cup {None}]
  BY <1>1, <1>2 DEF Follows, Stored
<1> QED BY <1>1, <1>2, <1>3 DEF StoreGrows

\* Time ages what is stored and lets every call go on where it is.
LEMMA TickSound ==
    ASSUME Sound, Tick
    PROVE  Sound'
<1>1. StoreGrows /\ \A i \in Stored : inc[i] \in Rows /\ inc'[i] = Aged(inc[i])
  BY TickGrows
<1>2. /\ UNCHANGED <<links, inbox, rowLock, todo>>
      /\ call' = [p \in Procs |-> IF InTransaction(call[p]) THEN [call[p] EXCEPT !.now = @ + 1] ELSE call[p]]
  BY DEF Tick
<1>3. ASSUME NEW q \in Procs
      PROVE  call'[q] \in Calls /\ Sensible(q, call[q])' /\ Holds(q, call[q])'
  <2>1. PICK c \in Calls : c = call[q] /\ Sensible(q, c) /\ Holds(q, c)
    BY DEF Sound, StoreTypeOK
  <2>2. PICK d : d = IF InTransaction(c) THEN [c EXCEPT !.now = @ + 1] ELSE c
    OBVIOUS
  <2>3. call'[q] = d
    BY <1>2, <2>1, <2>2
  <2>4. /\ d \in Calls /\ d.op = c.op /\ d.subject = c.subject /\ d.arg = c.arg /\ d.step = c.step
        /\ d.aim = c.aim /\ d.row = c.row /\ d.known = c.known /\ d.seen = c.seen
    BY <2>2 DEF Calls
  <2>5. Sensible(q, d)
    BY <2>1, <2>4 DEF Sensible, Role, Subject, Aims, Reads, Reports, Looks, InTransaction
  <2>6. Sensible(q, call[q])'
    BY <1>1, <2>3, <2>4, <2>5, SenseCarries DEF Sound
  <2>7. ASSUME d.row # None PROVE rowLock'[d.row] = q /\ Reconstitutes(inc'[d.row])
    <3>1. PICK i : i = d.row
      OBVIOUS
    <3>2. i \in Stored /\ rowLock[i] = q /\ Reconstitutes(inc[i])
      BY <2>1, <2>4, <2>7, <3>1 DEF Holds, Sensible, Reads, Aims
    <3> QED BY <1>1, <1>2, <3>1, <3>2, AgedFields
  <2>8. Holds(q, call[q])'
    BY <2>3, <2>7 DEF Holds, Reconstitutes, Precedes
  <2> QED BY <2>3, <2>4, <2>6, <2>8
<1>4. call' \in [Procs -> Calls]
  BY <1>2, <1>3
<1>5. StoreTypeOK'
  BY <1>1, <1>2, <1>4 DEF Sound, StoreTypeOK, StoreGrows
<1>6. \A j \in Stored : j \in Stored'
  BY <1>1, RowsAssumption DEF StoreGrows, Follows, Stored
<1>7. Proposals' /\ Claims'
  BY <1>2, <1>6 DEF Sound, Proposals, Claims
<1>8. Linked'
  BY <1>1, <1>2, <1>6 DEF Sound, Linked, StoreGrows, Follows
<1> QED BY <1>3, <1>5, <1>7, <1>8 DEF Sound

\* An empty store is sound.
LEMMA InitSound == Init => Sound
<1> SUFFICES ASSUME Init PROVE Sound
  OBVIOUS
<1>1. Stored = {} /\ Idle \in Calls /\ Idle.row = None
  BY IdleFields DEF Init, Stored
<1>2. StoreTypeOK
  <2>1. inbox \in [Events -> InboxRows]
    BY DEF Init, InboxRows
  <2> QED BY <1>1, <2>1 DEF Init, StoreTypeOK
<1>3. ASSUME NEW p \in Procs PROVE Sensible(p, call[p]) /\ Holds(p, call[p])
  <2>1. call[p] = Idle
    BY DEF Init
  <2> QED BY <1>1, <2>1, IdleGood DEF Holds
<1>4. Proposals /\ Claims /\ Linked
  BY DEF Init, Proposals, Claims, Linked
<1> QED BY <1>2, <1>3, <1>4 DEF Sound

\* Every step keeps the store sound.
LEMMA NextSound ==
    ASSUME Sound, [Next]_vars
    PROVE  Sound'
<1>1. CASE UNCHANGED vars
  BY SMTT(20), <1>1 DEF vars, Sound, StoreTypeOK, Sensible, Role, Subject, Aims, Reads, Reports, Looks, Holds, Proposals,
              Claims, Linked, Stored, InTransaction, Substance, Reconstitutes, Precedes
<1>2. ASSUME NEW p \in Procs, Load(p) PROVE Sound'
  BY <1>2, BeginSound, AllocateSound, CandidateSound, TakeRowSound DEF Load
<1>3. ASSUME NEW p \in Procs, Decide(p) PROVE Sound'
  BY <1>3, DecideSound
<1>4. ASSUME NEW p \in Procs, Deadlock(p) \/ StatementFails(p) \/ Crash(p) PROVE Sound'
  BY <1>4, FaultSound, CrashSound
<1>5. ASSUME NEW w \in Workers, WorkerStep(w) PROVE Sound'
  BY <1>5, ClaimSound, ProcessSound, MarkSound DEF WorkerStep
<1>6. ASSUME NEW m \in Maintainers, MaintainerStep(m) PROVE Sound'
  BY <1>6, ProposeSound, RunNextSound DEF MaintainerStep
<1>7. ASSUME NEW e \in Events, enqueue(e) \/ BecomesDue(e) \/ LeaseRunsOut(e) PROVE Sound'
  BY <1>7, ArrivalSound
<1> QED BY <1>1, <1>2, <1>3, <1>4, <1>5, <1>6, <1>7, CommandSound, TickSound DEF Next

\* The store is sound in every reachable state: every variable has its type, a call
\* is about what exists, decides on the incident whose row it holds, and reports a
\* link only where there is one.
THEOREM StoreSound == Spec => []Sound
<1>1. Init => Sound
  BY InitSound
<1>2. Sound /\ [Next]_vars => Sound'
  BY NextSound
<1> QED BY <1>1, <1>2, PTL DEF Spec

\* ProcessedIsLinked for any number of workers: an event is reported to have an
\* incident only once the link was committed, whatever was rerun, claimed twice or
\* cut off (inbox.rs, worker.rs).
THEOREM ProcessedIsLinkedHolds == Spec => []ProcessedIsLinked
<1>1. Sound => ProcessedIsLinked
  BY DEF Sound, Linked, ProcessedIsLinked
<1> QED BY <1>1, StoreSound, PTL

(***************************************************************************)
(* The evidence ledger.                                                    *)
(***************************************************************************)
\* Incidents and links are written by a commit and aged by the clock, and by
\* nothing else.
LEMMA WhoWrites ==
    ASSUME [Next]_vars
    PROVE  UNCHANGED <<inc, links>> \/ Tick \/ \E p \in Procs : Decide(p)
<1>1. ASSUME NEW p \in Procs, Load(p) \/ Deadlock(p) \/ StatementFails(p) \/ Crash(p)
      PROVE  UNCHANGED <<inc, links>>
  BY <1>1 DEF Load, Begin, lock_allocator, load_reopen_candidate, TakeRow, Deadlock, StatementFails, Crash
<1>2. ASSUME NEW w \in Workers, WorkerStep(w) PROVE UNCHANGED <<inc, links>>
  BY <1>2 DEF WorkerStep, claim, process_next, mark_processed, mark_failed, Settle
<1>3. ASSUME NEW m \in Maintainers, MaintainerStep(m) PROVE UNCHANGED <<inc, links>>
  BY <1>3 DEF MaintainerStep, propose, run_next
<1>4. ASSUME NEW o \in Operators, Command(o) PROVE UNCHANGED <<inc, links>>
  BY <1>4 DEF Command
<1>5. ASSUME NEW e \in Events, enqueue(e) \/ BecomesDue(e) \/ LeaseRunsOut(e) PROVE UNCHANGED <<inc, links>>
  BY <1>5 DEF enqueue, BecomesDue, LeaseRunsOut
<1>6. CASE UNCHANGED vars
  BY <1>6 DEF vars
<1>7. CASE Next
  BY <1>1, <1>2, <1>3, <1>4, <1>5, <1>7 DEF Next
<1> QED BY <1>6, <1>7

\* Sets of events can be counted.
LEMMA EventsCount ==
    ASSUME NEW S, S \subseteq Events
    PROVE  /\ IsFiniteSet(S) /\ Cardinality(S) \in Nat
           /\ \A e \in Events \ S : Cardinality(S \cup {e}) = Cardinality(S) + 1
<1>1. IsFiniteSet(S)
  BY IncidentsAssumption, FS_Subset
<1> QED BY <1>1, FS_CardinalityType, FS_AddElement

\* A ledger of an incident's links.
LedgerOf(r, linked) ==
    /\ r.observed = Cardinality(linked)
    /\ r.retained \subseteq linked
    /\ Cardinality(r.retained) =
          IF Cardinality(linked) < EvidenceMax THEN Cardinality(linked) ELSE EvidenceMax

\* One more link is one more piece of evidence.
LEMMA LedgerGrows ==
    ASSUME NEW linked, linked \subseteq Events, NEW e \in Events \ linked, NEW r, NEW s,
           LedgerOf(r, linked), Evidence(r, e, s)
    PROVE  LedgerOf(s, linked \cup {e})
<1>1. /\ Cardinality(linked) \in Nat /\ Cardinality(linked \cup {e}) = Cardinality(linked) + 1
      /\ EvidenceMax \in Nat
  BY EventsCount, TimerAssumption
<1>2. r.retained \subseteq linked /\ r.retained \subseteq Events /\ e \notin r.retained
  BY DEF LedgerOf
<1>3. Cardinality(r.retained) \in Nat /\ Cardinality(r.retained \cup {e}) = Cardinality(r.retained) + 1
  BY <1>2, EventsCount
<1>4. s.observed = Cardinality(linked \cup {e}) /\ s.retained \subseteq linked \cup {e}
  BY <1>1, <1>2 DEF LedgerOf, Evidence
<1>5. CASE Cardinality(linked) < EvidenceMax
  BY <1>1, <1>3, <1>4, <1>5 DEF LedgerOf, Evidence
<1>6. CASE ~(Cardinality(linked) < EvidenceMax)
  BY <1>1, <1>3, <1>4, <1>6 DEF LedgerOf, Evidence
<1> QED BY <1>5, <1>6

\* A new incident's ledger.
LEMMA LedgerBegins ==
    ASSUME NEW s
    PROVE  /\ s.observed = 0 /\ s.retained = {} => LedgerOf(s, {})
           /\ \A e \in Events :
                /\ s.observed = 1
                /\ s.retained = IF Cardinality({}) < EvidenceMax THEN {e} ELSE {}
                => LedgerOf(s, {e})
<1>1. Cardinality({}) = 0 /\ EvidenceMax \in Nat
  BY FS_EmptySet, TimerAssumption
<1>2. \A e \in Events : Cardinality({e}) = 1
  BY FS_Singleton
<1>3. s.observed = 0 /\ s.retained = {} => LedgerOf(s, {})
  BY <1>1 DEF LedgerOf
<1>4. ASSUME NEW e \in Events, s.observed = 1,
             s.retained = IF Cardinality({}) < EvidenceMax THEN {e} ELSE {}
      PROVE  LedgerOf(s, {e})
  <2>1. CASE EvidenceMax = 0
    BY <1>1, <1>2, <1>4, <2>1 DEF LedgerOf
  <2>2. CASE EvidenceMax > 0
    BY <1>1, <1>2, <1>4, <2>2 DEF LedgerOf
  <2> QED BY <1>1, <2>1, <2>2
<1> QED BY <1>3, <1>4

\* Every step keeps the ledgers in agreement with the links.
LEMMA LedgerStep ==
    ASSUME Sound, LedgerMatchesLinks, [Next]_vars
    PROVE  LedgerMatchesLinks'
<1> DEFINE Of(i) == {e \in Events : links[e] = i}
<1>1. \A i \in Stored : LedgerOf(inc[i], Of(i))
  BY DEF LedgerMatchesLinks, LedgerOf
<1>g. SUFFICES ASSUME NEW j \in Stored'
               PROVE  LedgerOf(inc'[j], {e \in Events : links'[e] = j})
  BY DEF LedgerMatchesLinks, LedgerOf
<1>j. j \in Ids /\ inc'[j] # None /\ j # None
  BY ProcsAssumption DEF Stored, Ids
<1>2. CASE UNCHANGED <<inc, links>>
  BY <1>1, <1>2 DEF Stored
<1>3. CASE Tick
  <2>1. j \in Stored /\ inc[j] \in Rows /\ inc'[j] = Aged(inc[j]) /\ UNCHANGED links
    BY <1>3, <1>j, TickGrows DEF Stored, Tick
  <2>2. SameEvidence(inc[j], inc'[j])
    BY <2>1, AgedFields
  <2> QED BY <1>1, <2>1, <2>2 DEF LedgerOf, SameEvidence
<1>4. ASSUME NEW p \in Procs, Decide(p) PROVE LedgerOf(inc'[j], {e \in Events : links'[e] = j})
  <2>0. call[p].step = "decide"
    BY <1>4 DEF Decide, ingest_detection_event, create_manual_incident, handle_command, RunTimer
  <2>1. CASE ~Writes(p)
    BY <1>2, <1>4, <2>1, DecideMoves DEF Decides
  <2>2. CASE Writes(p)
    <3>1. PICK i \in Ids, r \in Rows : inc' = [inc EXCEPT ![i] = r] /\ (Rewrites(p, i, r) \/ Inserts(p, i, r))
      BY <2>2 DEF Writes
    <3>2. inc'[i] = r /\ \A k \in Ids \ {i} : inc'[k] = inc[k]
      BY ZenonT(30), <2>0, <2>2, <3>1, WritesGrow
    <3>3. PICK e : e = call[p].subject
      OBVIOUS
    <3>4. links \in [Events -> Ids \cup {None}] /\ (Links(p, i) => e \in Events)
      BY <2>0, <3>3, DecidersRead DEF Sound, StoreTypeOK, Links
    <3>5. Links(p, i) => links[e] = None /\ links' = [links EXCEPT ![e] = i]
      BY <3>3 DEF Links
    <3>6. Links(p, i) \/ UNCHANGED links
      BY <3>1 DEF Rewrites, Inserts
    <3>7. CASE j # i
      <4>1. {f \in Events : links'[f] = j} = Of(j)
        BY <1>j, <3>4, <3>5, <3>6, <3>7
      <4> QED BY <1>1, <1>j, <3>2, <3>7, <4>1 DEF Stored
    <3>8. CASE j = i
      <4>1. Links(p, i) => {f \in Events : links'[f] = j} = Of(j) \cup {e} /\ e \in Events \ Of(j)
        BY <1>j, <3>4, <3>5, <3>8
      <4>2. CASE Rewrites(p, i, r)
        <5>1. LedgerOf(inc[i], Of(i))
          BY <1>1, <4>2 DEF Rewrites
        <5>2. CASE Links(p, i) /\ Evidence(inc[i], e, r)
          <6>1. PICK S, s : S = Of(i) /\ s = inc[i]
            OBVIOUS
          <6>2. S \subseteq Events /\ e \in Events \ S
            BY <3>8, <4>1, <5>2, <6>1
          <6>3. LedgerOf(s, S) /\ Evidence(s, e, r)
            BY <5>1, <5>2, <6>1
          <6>4. LedgerOf(r, S \cup {e})
            BY <6>2, <6>3, LedgerGrows
          <6> QED BY <3>2, <3>8, <4>1, <5>2, <6>1, <6>4
        <5>3. CASE UNCHANGED links /\ SameEvidence(inc[i], r)
          BY <3>2, <3>8, <5>1, <5>3 DEF LedgerOf, SameEvidence
        <5> QED BY <3>3, <4>2, <5>2, <5>3 DEF Rewrites
      <4>3. CASE Inserts(p, i, r)
        <5>1. Of(i) = {}
          BY <1>j, <3>8, <4>3 DEF Inserts, Sound, Linked
        <5>2. CASE Links(p, i)
          <6>1. "ingest" # "create"
            OBVIOUS
          <6>2. r.observed = 1 /\ r.retained = IF Cardinality({}) < EvidenceMax THEN {e} ELSE {}
            BY <3>3, <4>3, <5>2, <6>1 DEF Inserts, Links
          <6>3. LedgerOf(r, {e})
            BY <3>4, <5>2, <6>2, LedgerBegins
          <6>4. {f \in Events : links'[f] = j} = {e}
            BY <3>8, <4>1, <5>1, <5>2
          <6> QED BY <3>2, <3>8, <6>3, <6>4
        <5>3. CASE ~Links(p, i)
          <6>1. UNCHANGED links /\ r.observed = 0 /\ r.retained = {}
            BY <4>3, <5>3 DEF Inserts
          <6>2. LedgerOf(r, {})
            BY <6>1, LedgerBegins
          <6>3. {f \in Events : links'[f] = j} = {}
            BY <3>8, <5>1, <6>1
          <6> QED BY <3>2, <3>8, <6>2, <6>3
        <5> QED BY <5>2, <5>3
      <4> QED BY <3>1, <4>2, <4>3
    <3> QED BY <3>7, <3>8
  <2> QED BY <2>1, <2>2
<1> QED BY <1>2, <1>3, <1>4, WhoWrites

\* LedgerMatchesLinks for any number of events and processes: an incident's evidence
\* counts each event linked to it once, up to the bound on what is retained
\* (evidence.rs, flush.rs).
THEOREM LedgerMatchesLinksHolds == Spec => []LedgerMatchesLinks
<1>1. Init => LedgerMatchesLinks
  BY DEF Init, LedgerMatchesLinks, Stored
<1>2. Sound /\ LedgerMatchesLinks /\ [Next]_vars => LedgerMatchesLinks'
  BY LedgerStep
<1> QED BY <1>1, <1>2, StoreSound, PTL DEF Spec

(***************************************************************************)
(* What a decision may do.                                                 *)
(***************************************************************************)
\* The clock changes no version and no state.
LEMMA TickKeeps ==
    ASSUME Sound, Tick, NEW i \in Stored
    PROVE  inc'[i].version = inc[i].version /\ inc'[i].state = inc[i].state
<1>1. inc[i] \in Rows /\ inc'[i] = Aged(inc[i])
  BY TickGrows
<1>2. Aged(inc[i]).version = inc[i].version /\ Substance(Aged(inc[i])) = Substance(inc[i])
  BY <1>1, AgedFields
<1> QED BY <1>1, <1>2 DEF Substance

\* The process whose decision changes an incident is the one that holds its row.
LEMMA HolderWrites ==
    ASSUME Sound, NEW p \in Procs, Decide(p), NEW q \in Procs, NEW i \in Stored, call[q].row = i,
           inc'[i] # inc[i]
    PROVE  q = p
<1>1. call[p].step = "decide"
  BY DEF Decide, ingest_detection_event, create_manual_incident, handle_command, RunTimer
<1>2. Writes(p)
  BY DecideMoves DEF Decides
<1>3. PICK j \in Ids, r \in Rows : inc' = [inc EXCEPT ![j] = r] /\ (Rewrites(p, j, r) \/ Inserts(p, j, r))
  BY <1>2 DEF Writes
<1>4. (\A k \in Ids \ {j} : inc'[k] = inc[k]) /\ \A k \in Procs \ {p} : call[k].row # j
  BY <1>1, <1>2, <1>3, WritesGrow
<1> QED BY <1>4 DEF Stored

\* VersionProtects for any number of processes: nobody writes an incident whose row a
\* command holds, and the command compares its version with the row it holds before it
\* writes (unit_of_work.rs).
THEOREM VersionProtectsHolds == Spec => VersionProtects
<1> DEFINE Step == \A o \in Operators, i \in Stored :
                      /\ call[o].row = i /\ call[o].op \in Versioned
                      /\ inc'[i].version # inc[i].version
                      => Substance(inc[i]) = call[o].seen
<1>1. ASSUME Sound, [Next]_vars PROVE Step
  <2> SUFFICES ASSUME NEW o \in Operators, NEW i \in Stored, call[o].row = i, call[o].op \in Versioned,
                      inc'[i].version # inc[i].version
               PROVE  Substance(inc[i]) = call[o].seen
    OBVIOUS
  <2>1. ~UNCHANGED <<inc, links>> /\ ~Tick
    BY <1>1, TickKeeps
  <2>2. PICK p \in Procs : Decide(p)
    BY <1>1, <2>1, WhoWrites
  <2>3. o = p
    BY <1>1, <2>2, HolderWrites DEF Procs
  <2>4. call[p].op \in Commands /\ call[p].op \notin {"ingest", "create"} /\ call[p].op \notin Timers
    BY <2>3 DEF Commands, Versioned, Moves, Timers
  <2>5. handle_command(p)
    BY <2>2, <2>4 DEF Decide, ingest_detection_event, create_manual_incident, RunTimer
  <2>6. call[p].arg = inc[i].version
    BY <2>3, <2>5 DEF handle_command, NoChange
  <2>7. call[p].row = call[p].subject
    BY <1>1, <2>2, <2>4, <2>5 DEF handle_command, Sound, Sensible, Reads
  <2> QED BY <1>1, <2>2, <2>3, <2>4, <2>6, <2>7 DEF Sound, Sensible, Looks
<1>2. Sound /\ [Next]_vars => [Step]_vars
  BY <1>1
<1>3. Spec => [][Step]_vars
  BY <1>2, StoreSound, PTL DEF Spec
<1> QED BY <1>3 DEF VersionProtects

\* TimersActWhenDue for any number of processes: the incident a timer changes meets the
\* timer's query as it commits, since the timer decides on the row it holds
\* (maintenance.rs).
THEOREM TimersActWhenDueHolds == Spec => TimersActWhenDue
<1> DEFINE Step == \A m \in Maintainers, i \in Stored :
                      call[m].row = i /\ inc[i].state # inc'[i].state => i \in Proposed(call[m].op)
<1>1. ASSUME Sound, [Next]_vars PROVE Step
  <2> SUFFICES ASSUME NEW m \in Maintainers, NEW i \in Stored, call[m].row = i, inc[i].state # inc'[i].state
               PROVE  i \in Proposed(call[m].op)
    OBVIOUS
  <2>1. ~UNCHANGED <<inc, links>> /\ ~Tick
    BY <1>1, TickKeeps
  <2>2. PICK p \in Procs : Decide(p)
    BY <1>1, <2>1, WhoWrites
  <2>3. m = p
    BY <1>1, <2>2, HolderWrites DEF Procs
  <2>4. call[p].step = "decide"
    BY <2>2 DEF Decide, ingest_detection_event, create_manual_incident, handle_command, RunTimer
  <2>5. call[p].op \in Timers /\ call[p].op \notin {"ingest", "create"} /\ call[p].op \notin Commands
    <3>1. call[p].op \in Timers
      BY <1>1, <2>3, <2>4 DEF Sound, Sensible, Role, Subject, Procs
    <3> QED BY <3>1 DEF Commands, Versioned, Moves, Timers
  <2>6. RunTimer(p)
    BY <2>2, <2>5 DEF Decide, ingest_detection_event, create_manual_incident, handle_command
  <2>7. TimerDue(call[p].op, inc[i], call[p].now)
    BY <2>1, <2>3, <2>6 DEF RunTimer, NoChange
  <2>8. i # None /\ inc[i] \in Rows /\ Reconstitutes(inc[i]) /\ call[p].now \in Nat
    <3>1. i # None
      BY ProcsAssumption DEF Stored, Ids
    <3> QED BY <1>1, <2>3, <2>4, <3>1, DecidersRead
  <2>9. PICK r, now, kind : r = inc[i] /\ now = call[p].now /\ kind = call[p].op
    OBVIOUS
  <2>10. r.detected \in Nat /\ r.recovering \in Nat \cup {None} /\ r.resolved \in Nat \cup {None}
    BY <2>8, <2>9 DEF Rows, Age
  <2>11. /\ r.state = "recovering" => r.recovering \in Nat
         /\ r.state = "resolved" => r.resolved \in Nat
    BY <2>8, <2>9, <2>10 DEF Reconstitutes, Settled
  <2>12. SilentAfter \in Nat /\ Confirmation \in Nat /\ ClosureDelay \in Nat /\ kind \in Timers
    BY <2>5, <2>9, TimerAssumption
  <2>13. CASE kind = "silent"
    <3>1. CanRecover(r) /\ r.detected - now >= SilentAfter
      BY <2>7, <2>9, <2>13 DEF TimerDue, Elapsed
    <3>2. r.detected >= SilentAfter
      BY <2>8, <2>9, <2>10, <2>12, <3>1
    <3> QED BY <2>3, <2>9, <2>13, <3>1, <3>2 DEF Proposed
  <2>14. CASE kind = "confirm"
    <3>1. r.state = "recovering" /\ r.recovering - now >= Confirmation
      BY <2>7, <2>9, <2>14 DEF TimerDue, Elapsed
    <3>2. r.recovering >= Confirmation
      BY <2>8, <2>9, <2>11, <2>12, <3>1
    <3> QED BY <2>3, <2>9, <2>14, <3>1, <3>2 DEF Proposed
  <2>15. CASE kind = "expire"
    <3>1. r.state = "resolved" /\ ~r.critical /\ r.resolved - now >= ClosureDelay
      BY <2>7, <2>9, <2>15 DEF TimerDue, Elapsed
    <3>2. r.resolved >= ClosureDelay
      BY <2>8, <2>9, <2>11, <2>12, <3>1
    <3> QED BY <2>3, <2>9, <2>15, <3>1, <3>2 DEF Proposed
  <2> QED BY <2>12, <2>13, <2>14, <2>15 DEF Timers
<1>2. Sound /\ [Next]_vars => [Step]_vars
  BY <1>1
<1>3. Spec => [][Step]_vars
  BY <1>2, StoreSound, PTL DEF Spec
<1> QED BY <1>3 DEF TimersActWhenDue

(***************************************************************************)
(* Locks and attempts.                                                     *)
(***************************************************************************)
\* A lock is held inside a transaction, and on a row that is there.
Locks ==
    /\ alloc \in Procs \cup {None}
    /\ alloc # None => InTransaction(call[alloc])
    /\ \A i \in Ids : rowLock[i] # None => i \in Stored /\ InTransaction(call[rowLock[i]])

\* Only an event that has attempts left is claimed again.
Attempts ==
    \A e \in Events :
        /\ inbox[e].attempts <= MaxAttempts
        /\ inbox[e].status \in {"absent", "pending", "retrying"} => inbox[e].attempts < MaxAttempts

\* p's call moves: it gives up its locks, or stays in its transaction, or had none.
MovesOn(p) ==
    \E d :
        /\ call' = [call EXCEPT ![p] = d]
        /\ \/ Release(p)
           \/ UNCHANGED <<rowLock, alloc>> /\ ~InTransaction(call[p])
           \/ /\ InTransaction(d) /\ alloc' \in {alloc, p}
              /\ \A i \in Ids : rowLock'[i] = rowLock[i] \/ (rowLock'[i] = p /\ i \in Stored)

\* Such a move leaves no lock behind.
LEMMA LocksMove ==
    ASSUME Sound, Sound', Locks, NEW p \in Procs, MovesOn(p), \A i \in Stored : i \in Stored'
    PROVE  Locks'
<1>1. PICK d : /\ call' = [call EXCEPT ![p] = d]
               /\ \/ Release(p)
                  \/ UNCHANGED <<rowLock, alloc>> /\ ~InTransaction(call[p])
                  \/ /\ InTransaction(d) /\ alloc' \in {alloc, p}
                     /\ \A i \in Ids : rowLock'[i] = rowLock[i] \/ (rowLock'[i] = p /\ i \in Stored)
  BY DEF MovesOn
<1>2. /\ call'[p] = d /\ (\A q \in Procs \ {p} : call'[q] = call[q]) /\ p # None
      /\ rowLock \in [Ids -> Procs \cup {None}]
  BY <1>1, ProcsAssumption DEF Sound, StoreTypeOK, Procs
<1>3. CASE Release(p)
  BY <1>1, <1>2, <1>3 DEF Locks, Release, InTransaction
<1>4. CASE UNCHANGED <<rowLock, alloc>> /\ ~InTransaction(call[p])
  BY <1>1, <1>2, <1>4 DEF Locks, InTransaction
<1>5. CASE /\ InTransaction(d) /\ alloc' \in {alloc, p}
           /\ \A i \in Ids : rowLock'[i] = rowLock[i] \/ (rowLock'[i] = p /\ i \in Stored)
  BY <1>1, <1>2, <1>5 DEF Locks, InTransaction
<1> QED BY <1>1, <1>3, <1>4, <1>5

\* How a call ends or is rerun.
LEMMA EndMovesOn ==
    ASSUME NEW p \in Procs, Release(p), (\E step, outcome : Ended(p, step, outcome)) \/ Rerun(p)
    PROVE  MovesOn(p)
BY DEF MovesOn, Ended, Rerun

\* The load of a call stays in its transaction.
LEMMA LoadMovesOn ==
    ASSUME Sound, NEW p \in Procs, Load(p)
    PROVE  MovesOn(p)
<1>0. PICK c \in Calls : c = call[p]
  BY DEF Sound, StoreTypeOK
<1>1. CASE Begin(p)
  BY <1>1 DEF Begin, MovesOn, KeepLocks, InTransaction
<1>2. CASE lock_allocator(p)
  <2>1. ASSUME NEW d, InTransaction(d), call' = [call EXCEPT ![p] = d] PROVE MovesOn(p)
    BY <1>2, <2>1 DEF MovesOn, lock_allocator
  <2>2. CASE call[p].op = "create"
    <3>1. PICK d : d = [c EXCEPT !.step = "decide", !.known = ActiveIds(call[p].subject) # {}]
      OBVIOUS
    <3>2. call' = [call EXCEPT ![p] = d]
      BY <1>0, <1>2, <2>2, <3>1 DEF lock_allocator, Sound, StoreTypeOK
    <3>3. InTransaction(d)
      BY <3>1 DEF Calls, InTransaction
    <3> QED BY <2>1, <3>2, <3>3
  <2>3. CASE call[p].op # "create" /\ ActiveIds(KeyOf[call[p].subject]) = {}
    <3>1. PICK d : d = [c EXCEPT !.step = "candidate"]
      OBVIOUS
    <3>2. call' = [call EXCEPT ![p] = d]
      BY <1>0, <1>2, <2>3, <3>1 DEF lock_allocator, Goto
    <3>3. InTransaction(d)
      BY <3>1 DEF Calls, InTransaction
    <3> QED BY <2>1, <3>2, <3>3
  <2>4. CASE call[p].op # "create" /\ ActiveIds(KeyOf[call[p].subject]) # {}
    <3>1. PICK i \in ActiveIds(KeyOf[call[p].subject]) : call' = [call EXCEPT ![p].step = "again", ![p].aim = i]
      BY <1>2, <2>4 DEF lock_allocator
    <3>2. PICK d : d = [c EXCEPT !.step = "again", !.aim = i]
      OBVIOUS
    <3>3. call' = [call EXCEPT ![p] = d]
      BY <1>0, <3>1, <3>2 DEF Sound, StoreTypeOK
    <3>4. InTransaction(d)
      BY <3>2 DEF Calls, InTransaction
    <3> QED BY <2>1, <3>3, <3>4
  <2> QED BY <2>2, <2>3, <2>4
<1>3. CASE load_reopen_candidate(p)
  <2>1. ASSUME NEW d, InTransaction(d), call' = [call EXCEPT ![p] = d] PROVE MovesOn(p)
    BY <1>3, <2>1 DEF MovesOn, load_reopen_candidate, KeepLocks
  <2>2. CASE Candidates(KeyOf[call[p].subject]) = {}
    <3>1. PICK d : d = [c EXCEPT !.step = "decide"]
      OBVIOUS
    <3>2. call' = [call EXCEPT ![p] = d]
      BY <1>0, <1>3, <2>2, <3>1 DEF load_reopen_candidate, Goto
    <3>3. InTransaction(d)
      BY <3>1 DEF Calls, InTransaction
    <3> QED BY <2>1, <3>2, <3>3
  <2>3. CASE Candidates(KeyOf[call[p].subject]) # {}
    <3>1. PICK i : call' = [call EXCEPT ![p].step = "reopen", ![p].aim = i]
      BY <1>3, <2>3 DEF load_reopen_candidate
    <3>2. PICK d : d = [c EXCEPT !.step = "reopen", !.aim = i]
      OBVIOUS
    <3>3. call' = [call EXCEPT ![p] = d]
      BY <1>0, <3>1, <3>2 DEF Sound, StoreTypeOK
    <3>4. InTransaction(d)
      BY <3>2 DEF Calls, InTransaction
    <3> QED BY <2>1, <3>3, <3>4
  <2> QED BY <2>2, <2>3
<1>4. CASE TakeRow(p)
  <2>1. c.aim \in Stored /\ c.aim \in Ids /\ c.step \in {"active", "again", "reopen", "row"}
    BY <1>0, <1>4 DEF Sound, TakeRow, Sensible, Aims, Stored
  <2>2. ASSUME NEW d, InTransaction(d), call' = [call EXCEPT ![p] = d],
               rowLock' = [rowLock EXCEPT ![c.aim] = p], UNCHANGED alloc
        PROVE  MovesOn(p)
    <3>1. \A i \in Ids : rowLock'[i] = rowLock[i] \/ (rowLock'[i] = p /\ i \in Stored)
      BY <2>1, <2>2 DEF Sound, StoreTypeOK
    <3> QED BY <2>2, <3>1 DEF MovesOn
  <2>3. CASE ~StillWanted(c)
    <3> DEFINE step == CASE c.step = "active" -> "allocate"
                         [] c.step = "again" -> "candidate"
                         [] c.step = "reopen" -> "decide"
    <3>1. PICK d : d = [c EXCEPT !.step = step]
      OBVIOUS
    <3>2. step \in {"allocate", "candidate", "decide"}
      BY <2>1, <2>3 DEF StillWanted
    <3>3. call' = [call EXCEPT ![p] = d] /\ rowLock' = [rowLock EXCEPT ![c.aim] = p] /\ UNCHANGED alloc
      BY <1>0, <1>4, <2>3, <3>1 DEF TakeRow, Goto
    <3> HIDE DEF step
    <3>4. InTransaction(d)
      BY <3>1, <3>2 DEF Calls, InTransaction
    <3> QED BY <2>2, <3>3, <3>4
  <2>4. CASE StillWanted(c) /\ ~Reconstitutes(inc[c.aim])
    <3>1. Release(p) /\ Ended(p, "failed", None)
      BY <1>0, <1>4, <2>4 DEF TakeRow, Fail
    <3> QED BY <3>1, EndMovesOn
  <2>5. CASE StillWanted(c) /\ Reconstitutes(inc[c.aim])
    <3> DEFINE known == c.op = "reopen" /\ ActiveIds(inc[c.aim].key) # {}
    <3>1. PICK d : d = [c EXCEPT !.step = "decide", !.row = c.aim, !.known = known]
      OBVIOUS
    <3>2. call' = [call EXCEPT ![p] = d] /\ rowLock' = [rowLock EXCEPT ![c.aim] = p] /\ UNCHANGED alloc
      BY <1>0, <1>4, <2>5, <3>1 DEF TakeRow, Sound, StoreTypeOK
    <3> HIDE DEF known
    <3>3. InTransaction(d)
      BY <3>1 DEF Calls, InTransaction
    <3> QED BY <2>2, <3>2, <3>3
  <2> QED BY <2>3, <2>4, <2>5
<1> QED BY <1>1, <1>2, <1>3, <1>4 DEF Load

\* A decision ends the call or reruns it.
LEMMA DecideMovesOn ==
    ASSUME Sound, NEW p \in Procs, Decide(p)
    PROVE  MovesOn(p)
<1> DEFINE Over == Release(p) /\ ((\E step, outcome : Ended(p, step, outcome)) \/ Rerun(p))
<1>1. ASSUME NEW step, NEW outcome, NoChange(p, step, outcome) PROVE Over
  BY <1>1 DEF NoChange
<1>2. ASSUME Rerun(p) PROVE Over
  BY <1>2 DEF Rerun
<1>3. ASSUME NEW i, NEW r, NEW outcome, Link(p, i, r, outcome) PROVE Over
  BY <1>3, <1>2 DEF Link, Commit
<1>4. Over
  <2>1. CASE ingest_detection_event(p)
    <3>1. ClassOf[call[p].subject] \in {"plain", "future", "observe"}
      BY <2>1, DecidersRead, DetectionsAssumption DEF ingest_detection_event
    <3>2. CASE Lookup(p)
      <4> HIDE DEF Over
      <4> QED BY <1>1, <1>2, <1>3, <3>2 DEF Lookup
    <3> HIDE DEF Over
    <3> QED BY <1>1, <2>1, <3>1, <3>2 DEF ingest_detection_event
  <2>2. CASE create_manual_incident(p) \/ handle_command(p) \/ RunTimer(p)
    <3>1. \/ NoChange(p, "done", None) \/ Rerun(p)
          \/ Release(p) /\ Ended(p, "done", None)
      BY <2>2 DEF create_manual_incident, handle_command, RunTimer, Commit
    <3> QED BY <1>1, <1>2, <3>1
  <2> QED BY <2>1, <2>2 DEF Decide
<1> QED BY <1>4, EndMovesOn

\* Every step keeps the locks in order.
LEMMA LocksStep ==
    ASSUME Sound, Locks, [Next]_vars
    PROVE  Locks'
<1>0. Sound'
  BY NextSound
<1>1. \A i \in Stored : i \in Stored'
  <2>1. CASE UNCHANGED <<inc, links>>
    BY <2>1 DEF Stored
  <2>2. CASE Tick
    <3>1. StoreGrows
      BY <2>2, TickGrows
    <3> QED BY <3>1, RowsAssumption DEF StoreGrows, Follows, Stored
  <2>3. ASSUME NEW p \in Procs, Decide(p), ~UNCHANGED <<inc, links>> PROVE \A i \in Stored : i \in Stored'
    <3>1. call[p].step = "decide" /\ Writes(p)
      BY <2>3, DecideMoves
         DEF Decides, Decide, ingest_detection_event, create_manual_incident, handle_command, RunTimer
    <3>2. StoreGrows
      BY <3>1, WritesGrow DEF Writes
    <3> QED BY <3>2, RowsAssumption DEF StoreGrows, Follows, Stored
  <2> QED BY <2>1, <2>2, <2>3, WhoWrites
<1>2. ASSUME NEW p \in Procs, MovesOn(p) PROVE Locks'
  BY <1>0, <1>1, <1>2, LocksMove
<1>3. CASE UNCHANGED <<call, rowLock, alloc>>
  BY <1>1, <1>3 DEF Locks, InTransaction
<1>4. ASSUME NEW p \in Procs, Load(p) \/ Decide(p) PROVE MovesOn(p)
  BY <1>4, LoadMovesOn, DecideMovesOn
<1>5. ASSUME NEW p \in Procs, Deadlock(p) \/ StatementFails(p) \/ Crash(p) PROVE MovesOn(p)
  <2>1. CASE Deadlock(p)
    BY <2>1, EndMovesOn DEF Deadlock, Rerun
  <2>2. CASE StatementFails(p)
    BY <2>2, EndMovesOn DEF StatementFails, Fail
  <2>3. CASE Crash(p)
    BY <2>3 DEF Crash, MovesOn
  <2> QED BY <1>5, <2>1, <2>2, <2>3
<1>6. ASSUME NEW w \in Workers, WorkerStep(w) PROVE MovesOn(w) \/ UNCHANGED <<call, rowLock, alloc>>
  <2>1. CASE claim(w)
    BY <2>1 DEF claim
  <2>2. CASE process_next(w)
    <3>1. PICK d : call' = [call EXCEPT ![w] = d]
      BY <2>2 DEF process_next
    <3> QED BY <2>2, <3>1 DEF process_next, MovesOn, InTransaction
  <2>3. CASE mark_processed(w) \/ mark_failed(w)
    BY <2>3 DEF mark_processed, mark_failed, Settle, MovesOn, InTransaction
  <2> QED BY <1>6, <2>1, <2>2, <2>3 DEF WorkerStep
<1>7. ASSUME NEW m \in Maintainers, MaintainerStep(m) PROVE MovesOn(m) \/ UNCHANGED <<call, rowLock, alloc>>
  <2>1. CASE propose(m)
    BY <2>1 DEF propose
  <2>2. CASE run_next(m)
    <3>1. PICK d : call' = [call EXCEPT ![m] = d]
      BY <2>2 DEF run_next
    <3> QED BY <2>2, <3>1 DEF run_next, MovesOn, InTransaction
  <2> QED BY <1>7, <2>1, <2>2 DEF MaintainerStep
<1>8. ASSUME NEW o \in Operators, Command(o) PROVE MovesOn(o)
  <2>1. PICK d : call' = [call EXCEPT ![o] = d]
    BY <1>8 DEF Command
  <2> QED BY <1>8, <2>1 DEF Command, MovesOn, InTransaction
<1>9. CASE Tick
  <2>1. \A p \in Procs : InTransaction(call[p]) => InTransaction(call'[p])
    <3> SUFFICES ASSUME NEW p \in Procs, InTransaction(call[p]) PROVE InTransaction(call'[p])
      OBVIOUS
    <3>1. PICK c \in Calls : c = call[p]
      BY DEF Sound, StoreTypeOK
    <3>2. call'[p] = [c EXCEPT !.now = @ + 1]
      BY <1>9, <3>1 DEF Tick
    <3>3. call'[p].step = c.step
      BY <3>2 DEF Calls
    <3> QED BY <3>1, <3>3 DEF InTransaction
  <2>2. UNCHANGED <<rowLock, alloc>>
    BY <1>9 DEF Tick
  <2> QED BY <1>1, <2>1, <2>2 DEF Locks, Sound, StoreTypeOK, InTransaction
<1>10. ASSUME NEW e \in Events, enqueue(e) \/ BecomesDue(e) \/ LeaseRunsOut(e)
       PROVE  UNCHANGED <<call, rowLock, alloc>>
  BY <1>10 DEF enqueue, BecomesDue, LeaseRunsOut
<1>11. CASE UNCHANGED vars
  BY <1>3, <1>11 DEF vars
<1>12. CASE Next
  BY <1>2, <1>3, <1>4, <1>5, <1>6, <1>7, <1>8, <1>9, <1>10, <1>12 DEF Next, Procs
<1> QED BY <1>11, <1>12

\* Attempts are counted on events that have one left.
LEMMA AttemptsStep ==
    ASSUME Sound, Attempts, [Next]_vars
    PROVE  Attempts'
<1> DEFINE Fine(row) == /\ row.attempts <= MaxAttempts
                        /\ row.status \in {"absent", "pending", "retrying"} => row.attempts < MaxAttempts
<1>0. /\ \A e \in Events : inbox[e] \in InboxRows /\ inbox[e].attempts \in Nat /\ Fine(inbox[e])
      /\ inbox \in [Events -> InboxRows] /\ MaxAttempts \in Nat
  BY IncidentsAssumption DEF Sound, StoreTypeOK, Attempts, InboxRows
<1>1. SUFFICES ASSUME NEW e \in Events PROVE Fine(inbox'[e])
  BY DEF Attempts
<1>2. CASE UNCHANGED inbox
  BY <1>0, <1>2
<1>3. ASSUME NEW f \in Events, enqueue(f) \/ BecomesDue(f) \/ LeaseRunsOut(f) PROVE Fine(inbox'[e])
  <2>1. CASE enqueue(f)
    <3>2. inbox[f].status = "absent"
      <4>1. ASSUME f \in Arrived PROVE FALSE
        <5>1. f < f /\ f \in Nat
          BY <2>1, <4>1, IncidentsAssumption DEF enqueue
        <5> QED BY <5>1
      <4> QED BY <4>1 DEF Arrived
    <3>3. /\ inbox'[e].attempts = inbox[e].attempts
          /\ inbox'[e].status = IF e = f THEN "pending" ELSE inbox[e].status
      BY <1>0, <2>1 DEF enqueue, InboxRows
    <3> QED BY <1>0, <3>2, <3>3
  <2>2. CASE BecomesDue(f) \/ LeaseRunsOut(f)
    <3>1. inbox'[e].attempts = inbox[e].attempts /\ inbox'[e].status = inbox[e].status
      BY <1>0, <2>2 DEF BecomesDue, LeaseRunsOut, InboxRows
    <3> QED BY <1>0, <3>1
  <2> QED BY <1>3, <2>1, <2>2
<1>4. ASSUME NEW w \in Workers, claim(w) PROVE Fine(inbox'[e])
  <2>1. inbox'[e] \in {inbox[e], [inbox[e] EXCEPT !.holder = w, !.due = FALSE]}
    BY <1>4 DEF claim
  <2>2. inbox'[e].attempts = inbox[e].attempts /\ inbox'[e].status = inbox[e].status
    BY <1>0, <2>1 DEF InboxRows
  <2> QED BY <1>0, <2>2
<1>5. ASSUME NEW w \in Workers, NEW row, Settle(w, row),
             call[w].subject = e /\ Pending(e) => Fine(row)
      PROVE  Fine(inbox'[e])
  <2>1. inbox'[e] = inbox[e] \/ (call[w].subject = e /\ Pending(e) /\ inbox'[e] = row)
    BY <1>0, <1>5 DEF Settle
  <2> QED BY <1>0, <1>5, <2>1
<1>6. ASSUME NEW w \in Workers, mark_processed(w) PROVE Fine(inbox'[e])
  <2>1. PICK row : row = [inbox[call[w].subject] EXCEPT !.status = "processed", !.outcome = call[w].arg,
                                                        !.holder = None, !.due = FALSE]
    OBVIOUS
  <2>2. Settle(w, row)
    BY <1>6, <2>1 DEF mark_processed
  <2>3. call[w].subject = e => row.attempts = inbox[e].attempts /\ row.status = "processed"
    BY <1>0, <2>1 DEF InboxRows
  <2> QED BY <1>0, <1>5, <2>2, <2>3
<1>7. ASSUME NEW w \in Workers, mark_failed(w) PROVE Fine(inbox'[e])
  <2> DEFINE attempts == inbox[call[w].subject].attempts + 1
             dead == ClassOf[call[w].subject] = "garbled" \/ attempts >= MaxAttempts
             status == IF dead THEN "dead_letter" ELSE "retrying"
  <2>1. PICK row : row = [inbox[call[w].subject] EXCEPT !.status = status, !.attempts = attempts,
                                                        !.holder = None, !.due = FALSE]
    OBVIOUS
  <2>2. Settle(w, row)
    BY <1>7, <2>1 DEF mark_failed
  <2>3. call[w].subject = e => attempts = inbox[e].attempts + 1 /\ (status # "dead_letter" => ~(attempts >= MaxAttempts))
    OBVIOUS
  <2> HIDE DEF attempts, status
  <2>4. call[w].subject = e => row.attempts = attempts /\ row.status = status
    BY <1>0, <2>1 DEF InboxRows
  <2>5. call[w].subject = e /\ Pending(e) => Fine(row)
    BY <1>0, <2>3, <2>4 DEF Pending
  <2> QED BY <1>5, <2>2, <2>5
<1>8. ASSUME NEW p \in Procs, Load(p) \/ Decide(p) \/ Deadlock(p) \/ StatementFails(p) \/ Crash(p)
      PROVE  UNCHANGED inbox
  BY <1>8 DEF Load, Begin, lock_allocator, load_reopen_candidate, TakeRow, Decide, ingest_detection_event,
              create_manual_incident, handle_command, RunTimer, Deadlock, StatementFails, Crash, Elsewhere
<1>9. ASSUME NEW w \in Workers, process_next(w) PROVE UNCHANGED inbox
  BY <1>9 DEF process_next
<1>10. ASSUME NEW m \in Maintainers, MaintainerStep(m) PROVE UNCHANGED inbox
  BY <1>10 DEF MaintainerStep, propose, run_next
<1>11. ASSUME NEW o \in Operators, Command(o) PROVE UNCHANGED inbox
  BY <1>11 DEF Command
<1>12. CASE UNCHANGED vars \/ Tick
  BY <1>2, <1>12 DEF vars, Tick
<1> HIDE DEF Fine
<1> QED BY <1>2, <1>3, <1>4, <1>6, <1>7, <1>8, <1>9, <1>10, <1>11, <1>12 DEF Next, WorkerStep

\* IncidentsTypeOK: every variable has its type, no event is tried more often than it
\* may be (inbox.rs), and no lock outlives the transaction that took it, whatever was
\* rerun, cancelled or cut off (load.rs).
THEOREM IncidentsTypeCorrect == Spec => []IncidentsTypeOK
<1>1. Init => Locks /\ Attempts
  BY IncidentsAssumption DEF Init, Locks, Attempts
<1>2. Sound /\ Locks /\ Attempts /\ [Next]_vars => Locks' /\ Attempts'
  BY LocksStep, AttemptsStep
<1>3. Sound /\ Locks /\ Attempts => IncidentsTypeOK
  <2> SUFFICES ASSUME Sound, Locks, Attempts PROVE IncidentsTypeOK
    OBVIOUS
  <2>1. \A e \in Events :
          /\ inbox[e].status \in {"absent", "pending", "retrying", "processed", "dead_letter"}
          /\ inbox[e].attempts \in 0..MaxAttempts
          /\ inbox[e].holder \in Workers \cup {None}
    BY IncidentsAssumption DEF Sound, StoreTypeOK, InboxRows, Attempts
  <2> QED BY <2>1 DEF Sound, StoreTypeOK, Locks, IncidentsTypeOK, Stored
<1> QED BY <1>1, <1>2, <1>3, StoreSound, PTL DEF Spec
=============================================================================
