------------------------------ MODULE Detector ------------------------------
(***************************************************************************)
(* crates/detector: from the counters of one window to detection events.   *)
(* A policy is chosen for each scope (precedence.rs), its thresholds are   *)
(* compared with the window's rates (evaluate.rs), and a state machine per *)
(* scope with four timers turns the outcome into events (state.rs), inside *)
(* the engine's cycle (engine.rs) that the collector calls once a second.  *)
(*                                                                         *)
(* Only differences of instants matter to the code, so an instant is kept  *)
(* as its age, which stops counting at Horizon, beyond every timer.        *)
(***************************************************************************)
EXTENDS Integers, FiniteSets

CONSTANTS
    None,
    NScopes,        \* scopes 1 .. NScopes, in the order of their keys
    Metrics,        \* what a threshold may be about
    Reported,       \* the metrics whose source field an exporter may leave out
    PolicySets,     \* the policy documents the engine may be given
    Traffics,       \* what one window may count for a scope: [rates, seen]
    Window,         \* the collector's window
    MaxDelay,       \* at most this long between two ticks
    MaxLag,         \* how old a snapshot may be that is delivered late, or again
    MaxEntries,     \* the capacity of the state table
    IdleTtl, StaleAfter,
    Horizon,
    Sequences       \* sequence numbers are counted modulo this

Scopes == 1 .. NScopes
Modes == {"disabled", "observe", "alert_only", "dry_run"}

\* PolicyDraft::validate, and what is left of a policy: the scopes it
\* matches, how specifically, and its settings.
ValidPolicy(p) ==
    /\ p.scopes \subseteq Scopes /\ p.mode \in Modes
    /\ {p.specificity, p.priority, p.id} \subseteq Int
    /\ p.window \in Nat \ {0}
    /\ DOMAIN p.thresholds \subseteq Metrics /\ DOMAIN p.thresholds # {}
    /\ \A k \in DOMAIN p.thresholds : p.thresholds[k] > 0
    /\ p.clear_percent \in 1 .. 100
    /\ p.trigger_for >= p.window /\ p.clear_for >= p.window
    /\ p.event_update_interval > 0
    /\ \A t \in {p.trigger_for, p.clear_for, p.cooldown, p.hold_down, p.event_update_interval} :
          t \in 0 .. (Horizon - MaxLag)

Ident(p) == <<p.id, p.version>>

ASSUME TimesAssumption ==
    /\ NScopes \in Nat \ {0} /\ MaxEntries \in Nat \ {0} /\ Sequences \in Nat \ {0, 1}
    /\ Window \in Nat \ {0} /\ MaxDelay \in Nat \ {0} /\ MaxLag \in Nat
    /\ {IdleTtl, StaleAfter} \subseteq 1 .. Horizon
    /\ Horizon \in Nat /\ MaxLag < Horizon
    /\ None \notin 0 .. Horizon /\ None \notin Traffics /\ None \notin Modes

\* A set has one policy of each id, and an operator who changes what a
\* policy means counts its version up (DetectionPolicy::version).
ASSUME PoliciesAssumption ==
    /\ \A ps \in PolicySets : \A p \in ps :
          ValidPolicy(p) /\ p # None /\ \A q \in ps : p.id = q.id => p = q
    /\ \A ps \in PolicySets : IsFiniteSet(ps)
    /\ \A ps, qs \in PolicySets : \A p \in ps, q \in qs : Ident(p) = Ident(q) => p = q

VARIABLES
    policies,       \* the policy set in force
    entries,        \* the state table: scope -> ScopeState
    window,         \* the age of the window being counted
    batch,          \* what was last delivered: scope -> traffic, or None
    todo,           \* the scopes of the batch still to be evaluated
    pc,             \* "idle", or "cycle" between a tick's windows and its sweep
    heard,          \* what a consumer of the events makes of them
    seen            \* how long the snapshots applied to a scope have been alike

dvars == <<policies, entries, window, batch, todo, pc, heard, seen>>

----------------------------------------------------------------------------
(* precedence.rs and evaluate.rs *)

\* a comes before b: more specific, then of higher priority, then lower id.
Beats(a, b) ==
    \/ a.specificity > b.specificity
    \/ a.specificity = b.specificity /\ a.priority > b.priority
    \/ a.specificity = b.specificity /\ a.priority = b.priority /\ a.id < b.id

Candidates(ps, s) == {p \in ps : s \in p.scopes}

WinnerFor(ps, s) ==
    IF Candidates(ps, s) = {} THEN None
    ELSE CHOOSE p \in Candidates(ps, s) : \A q \in Candidates(ps, s) \ {p} : Beats(p, q)

\* A metric whose source field was absent is skipped, not compared with zero.
Evaluable(p, t) == {k \in DOMAIN p.thresholds : k \in Reported => k \in t.seen}

Over(p, t) == \E k \in Evaluable(p, t) : t.rates[k] >= p.thresholds[k]

BelowClear(p, t) ==
    /\ Evaluable(p, t) # {}
    /\ \A k \in Evaluable(p, t) : t.rates[k] <= (p.thresholds[k] * p.clear_percent) \div 100

----------------------------------------------------------------------------
(* state.rs: one scope *)

DetectionStates == {"idle", "pending_trigger", "active", "pending_clear", "cooldown"}

Untracked == [state |-> "untracked", policy |-> None, entered |-> 0, since |-> None,
              snapshot |-> None, event |-> None, events |-> 0]

Tracked(e) == e.state # "untracked"
IsOpen(e) == e.state \in {"active", "pending_clear"}

NewScope(p, lag) ==
    [Untracked EXCEPT !.state = "idle", !.policy = Ident(p), !.entered = lag]

\* Mutants: the edge back from a recovery, and the edge of an aborted trigger,
\* are missing.
CanMoveNoReturn(from, to) ==
    \/ to = "idle" /\ from # "idle"
    \/ <<from, to>> \in {<<"idle", "pending_trigger">>, <<"pending_trigger", "active">>,
                         <<"active", "pending_clear">>, <<"pending_clear", "cooldown">>}

CanMoveNoAbort(from, to) ==
    \/ to = "idle" /\ from \notin {"idle", "pending_trigger"}
    \/ <<from, to>> \in {<<"idle", "pending_trigger">>, <<"pending_trigger", "active">>,
                         <<"active", "pending_clear">>, <<"pending_clear", "active">>,
                         <<"active", "cooldown">>, <<"pending_clear", "cooldown">>}

CanMove(from, to) ==
    \/ to = "idle" /\ from # "idle"
    \/ <<from, to>> \in {<<"idle", "pending_trigger">>, <<"idle", "active">>,
                         <<"pending_trigger", "active">>, <<"active", "pending_clear">>,
                         <<"active", "cooldown">>, <<"pending_clear", "active">>,
                         <<"pending_clear", "cooldown">>}

\* Mutant: a wobble starts a new one.
TransitionAnew(e, to, lag) ==
    IF ~CanMove(e.state, to) THEN e
    ELSE [e EXCEPT !.state = to, !.entered = lag,
                   !.since = CASE to = "active" -> lag
                               [] to \in {"idle", "cooldown"} -> None
                               [] OTHER -> @,
                   !.events = IF to = "active" THEN 0 ELSE @]

\* ScopeState::transition, at an instant of age lag.  An illegal edge is
\* refused.  A detection that is open already keeps its start.
Transition(e, to, lag) ==
    IF ~CanMove(e.state, to) THEN e
    ELSE [e EXCEPT
            !.state = to,
            !.entered = lag,
            !.since = CASE to = "active" -> (IF @ = None THEN lag ELSE @)
                        [] to \in {"idle", "cooldown"} -> None
                        [] OTHER -> @,
            !.events = IF to = "active" /\ e.since = None THEN 0 ELSE @]

\* saturating_duration_since, from an instant of that age to one lag ago.
Elapsed(age, lag) == IF age > lag THEN age - lag ELSE 0

\* A signal, with the context it was produced in: which detection (when it
\* opened) and the how-manieth event of it.
Signal(kind, e, since) == [kind |-> kind, since |-> since, sequence |-> e.events]

Signals == [kind : {"started", "updated", "ended"}, since : 0 .. Horizon, sequence : 0 .. (Sequences - 1)]

ASSUME SignalsAssumption == None \notin Signals

Counted(e) == [e EXCEPT !.events = (@ + 1) % Sequences]

\* A scope and the signal its step has produced so far.
Quietly(e) == [entry |-> e, signal |-> None]

\* The detection of e, if it is open, ends with entry f.
Ending(e, f) ==
    IF IsOpen(e) THEN [entry |-> Counted(f), signal |-> Signal("ended", f, e.since)]
                 ELSE Quietly(f)

\* The snapshot's policy is not the one the timers were measured under.
UnderPolicy(e, p, lag) ==
    IF e.policy = Ident(p) THEN Quietly(e)
    ELSE LET r == Ending(e, Transition(e, "idle", lag)) IN
         [r EXCEPT !.entry.policy = Ident(p), !.entry.event = None]

\* The only exit that time alone takes.
CooledDown(e, p, lag) ==
    IF e.state = "cooldown" /\ Elapsed(e.entered, lag) >= p.cooldown
      THEN Transition(e, "idle", lag) ELSE e

Opened(e, lag) ==
    LET f == [Transition(e, "active", lag) EXCEPT !.event = lag] IN
    [entry |-> Counted(f), signal |-> Signal("started", f, f.since)]

Closed(e, p, lag) ==
    Ending(e, [Transition(e, IF p.cooldown = 0 THEN "idle" ELSE "cooldown", lag)
                 EXCEPT !.event = lag])

\* The evaluation moves the machine.
Judged(r, p, t, lag) ==
    LET e == r.entry
        Go(to) == [r EXCEPT !.entry = Transition(e, to, lag)]
        InState == Elapsed(e.entered, lag)
    IN
    CASE e.state = "idle" /\ Over(p, t) ->
            IF p.trigger_for = 0 THEN Opened(e, lag) ELSE Go("pending_trigger")
      [] e.state = "pending_trigger" /\ Over(p, t) /\ InState >= p.trigger_for -> Opened(e, lag)
      [] e.state = "pending_trigger" /\ ~Over(p, t) -> Go("idle")
      [] e.state = "active" /\ BelowClear(p, t) /\ Elapsed(e.since, lag) >= p.hold_down ->
            IF p.clear_for = 0 THEN Closed(e, p, lag) ELSE Go("pending_clear")
      [] e.state = "pending_clear" /\ BelowClear(p, t) /\ InState >= p.clear_for ->
            Closed(e, p, lag)
      [] e.state = "pending_clear" /\ ~BelowClear(p, t) -> Go("active")
      [] OTHER -> r

\* A detection that is still open reports so from time to time.
Paced(r, p, t, lag) ==
    LET e == r.entry IN
    IF /\ IsOpen(e) /\ r.signal = None /\ Over(p, t)
       /\ e.event = None \/ Elapsed(e.event, lag) >= p.event_update_interval
      THEN [entry |-> Counted([e EXCEPT !.event = lag]), signal |-> Signal("updated", e, e.since)]
      ELSE r

\* Neither older than the newest snapshot applied, nor that one again.
InOrder(e, lag) == e.snapshot = None \/ lag < e.snapshot

\* StateTable::step on a tracked scope.
StepEntry(e, p, t, lag) ==
    IF ~InOrder(e, lag) THEN Quietly(e)
    ELSE LET u == UnderPolicy(e, p, lag)
             c == CooledDown([u.entry EXCEPT !.snapshot = lag], p, lag)
         IN Paced(Judged([entry |-> c, signal |-> u.signal], p, t, lag), p, t, lag)

----------------------------------------------------------------------------
(* What the events tell: a consumer follows each scope's detections. *)

Silent == [open |-> FALSE, next |-> 0, since |-> None, mode |-> None, sound |-> TRUE]

\* An event of scope s, built with policy p's mode.  A detection starts when
\* none is open and later than the one before, every event of it has the next
\* number and names the same start and mode, and its end is the last.
Hear(h, signal, mode) ==
    IF signal = None THEN h
    ELSE [open |-> signal.kind # "ended",
          next |-> (signal.sequence + 1) % Sequences,
          since |-> signal.since,
          mode |-> mode,
          sound |-> /\ h.sound
                    /\ IF signal.kind = "started"
                         THEN /\ ~h.open /\ signal.sequence = 0
                              /\ h.since = None \/ h.since > signal.since
                         ELSE /\ h.open /\ signal.sequence = h.next
                              /\ signal.since = h.since /\ mode = h.mode]

\* How long every snapshot applied to a scope was over the threshold, how
\* long every one was below the clear level, and how long ago a detection
\* of it cleared; None when the last one was not.
Unseen == [over |-> None, below |-> None, cleared |-> None]

Lasting(age, holds, lag) == IF ~holds THEN None ELSE IF age = None THEN lag ELSE age

See(w, p, t, lag, cleared) ==
    [over |-> Lasting(w.over, Over(p, t), lag),
     below |-> Lasting(w.below, BelowClear(p, t), lag),
     cleared |-> IF cleared THEN lag ELSE w.cleared]

----------------------------------------------------------------------------
(* engine.rs *)

\* A new scope is admitted while there is room; a tracked one is never evicted.
Admitted(s) ==
    \/ Tracked(entries[s])
    \/ Cardinality({x \in Scopes : Tracked(entries[x])}) < MaxEntries

\* evaluate on one snapshot of scope s.
EvaluateSnapshot(s, t, lag) ==
    LET p == WinnerFor(policies, s)
        e == IF Tracked(entries[s]) THEN entries[s] ELSE NewScope(p, lag)
        r == StepEntry(e, p, t, lag)
        applied == InOrder(e, lag)
        cleared == r.signal # None /\ r.signal.kind = "ended"
    IN IF /\ p # None
          /\ p.mode # "disabled"
          /\ p.window = Window
          /\ Admitted(s)
         THEN /\ entries' = [entries EXCEPT ![s] = r.entry]
              /\ heard' = [heard EXCEPT ![s] = Hear(@, r.signal, p.mode)]
              /\ seen' = [seen EXCEPT ![s] = IF applied THEN See(@, p, t, lag, cleared) ELSE @]
         ELSE UNCHANGED <<entries, heard, seen>>

\* The end events of scopes that are dropped, built from a policy set; one
\* whose policy is not in it gets none.
CloseExpired(dropped, ps) ==
    /\ entries' = [s \in Scopes |-> IF s \in dropped THEN Untracked ELSE entries[s]]
    /\ heard' = [s \in Scopes |->
          LET e == entries[s]
              known == {p \in ps : p.id = e.policy[1]}
          IN IF s \in dropped /\ IsOpen(e) /\ known # {}
               THEN Hear(heard[s], Ending(e, Transition(e, "idle", 0)).signal,
                         (CHOOSE p \in known : TRUE).mode)
               ELSE heard[s]]
    /\ seen' = [s \in Scopes |-> IF s \in dropped THEN Unseen ELSE seen[s]]

\* Mutant: what is open is never stale.
TtlOpenNever(e) == IF IsOpen(e) THEN Horizon + 1 ELSE IdleTtl

TtlOf(e) == IF e.state = "idle" THEN IdleTtl ELSE StaleAfter

\* StateTable::sweep: idle scopes are forgotten, and what has not been heard
\* of for StaleAfter is closed.
Stale(s) ==
    LET e == entries[s]
        quiet == IF e.snapshot = None THEN e.entered ELSE e.snapshot
    IN Tracked(e) /\ quiet >= TtlOf(e)

Sweep ==
    /\ pc = "cycle" /\ todo = {}
    /\ CloseExpired({s \in Scopes : Stale(s)}, policies)
    /\ pc' = "idle"
    /\ UNCHANGED <<policies, window, batch, todo>>

\* The batch is sorted by key.
Evaluate(s) ==
    /\ pc = "cycle"
    /\ s \in todo /\ \A x \in todo : s <= x
    /\ EvaluateSnapshot(s, batch[s], 0)
    /\ todo' = todo \ {s}
    /\ UNCHANGED <<policies, window, batch, pc>>

\* A snapshot delivered late, or once more (the engine's contract; the
\* collector's own windows never do).
Redeliver(s, t, lag) ==
    /\ pc = "idle"
    /\ EvaluateSnapshot(s, t, lag)
    /\ batch' = [batch EXCEPT ![s] = t]
    /\ UNCHANGED <<policies, window, todo, pc>>

\* Mutant: a policy that still wins keeps its scopes, whatever its version.
StillWinsById(ps, s) ==
    WinnerFor(ps, s) # None /\ WinnerFor(ps, s).id = entries[s].policy[1]

\* withdraw_stale_selection: the policy s is tracked under wins it in ps too.
StillWins(ps, s) ==
    WinnerFor(ps, s) # None /\ Ident(WinnerFor(ps, s)) = entries[s].policy

\* replace_policies: scopes that another policy, or none, wins now are reset,
\* and their end events built from the outgoing set.
ReplacePolicies(ps) ==
    /\ pc = "idle"
    /\ policies' = ps
    /\ CloseExpired({s \in Scopes : Tracked(entries[s]) /\ ~StillWins(ps, s)}, policies)
    /\ UNCHANGED <<window, batch, todo, pc>>

----------------------------------------------------------------------------
(* window.rs and the collector's tick *)

Older(age, d) == IF age = None THEN None ELSE IF age + d > Horizon THEN Horizon ELSE age + d

\* Time passes until the next tick.
Pass(d) ==
    /\ entries' = [s \in Scopes |->
          IF Tracked(entries[s])
            THEN [entries[s] EXCEPT !.entered = Older(@, d), !.since = Older(@, d),
                                    !.snapshot = Older(@, d), !.event = Older(@, d)]
            ELSE Untracked]
    /\ heard' = [s \in Scopes |-> [heard[s] EXCEPT !.since = Older(@, d)]]
    /\ seen' = [s \in Scopes |-> [seen[s] EXCEPT !.over = Older(@, d), !.below = Older(@, d),
                                                 !.cleared = Older(@, d)]]

\* The window is due: a snapshot for each scope it counted traffic of, and a
\* new window.  A scope without traffic, or evicted, has none.
TickDue(d, b) ==
    /\ pc = "idle"
    /\ window + d >= Window
    /\ Pass(d)
    /\ window' = 0
    /\ batch' = b
    /\ todo' = {s \in Scopes : b[s] # None}
    /\ pc' = "cycle"
    /\ UNCHANGED policies

TickEarly(d) ==
    /\ pc = "idle"
    /\ window + d < Window
    /\ Pass(d)
    /\ window' = window + d
    /\ pc' = "cycle"
    /\ UNCHANGED <<policies, batch, todo>>

----------------------------------------------------------------------------
Batches == [Scopes -> Traffics \cup {None}]

DInit ==
    /\ policies \in PolicySets
    /\ entries = [s \in Scopes |-> Untracked]
    /\ window = 0
    /\ batch = [s \in Scopes |-> None]
    /\ todo = {}
    /\ pc = "idle"
    /\ heard = [s \in Scopes |-> Silent]
    /\ seen = [s \in Scopes |-> Unseen]

Ticking ==
    \/ \E d \in 1 .. MaxDelay : TickEarly(d) \/ \E b \in Batches : TickDue(d, b)
    \/ \E s \in Scopes : Evaluate(s)
    \/ Sweep

DNext ==
    \/ Ticking
    \/ \E s \in Scopes, t \in Traffics, lag \in 0 .. MaxLag : Redeliver(s, t, lag)
    \/ \E ps \in PolicySets : ReplacePolicies(ps)

DSpec == DInit /\ [][DNext]_dvars

\* The collector's loop ticks once a second, for as long as it runs.
DFairSpec == DSpec /\ WF_dvars(Ticking)

----------------------------------------------------------------------------
(* Properties *)

Ages == 0 .. Horizon
MaybeAge == Ages \cup {None}
Policies == UNION PolicySets
Idents == {Ident(p) : p \in Policies} \cup {None}
Phases == DetectionStates \cup {"untracked"}
Numbers == 0 .. (Sequences - 1)
MaybeMode == Modes \cup {None}

ScopeStates == [state : Phases, policy : Idents, entered : Ages, since : MaybeAge,
                snapshot : MaybeAge, event : MaybeAge, events : Numbers]
Listeners == [open : BOOLEAN, next : Numbers, since : MaybeAge, mode : MaybeMode, sound : BOOLEAN]
Sights == [over : MaybeAge, below : MaybeAge, cleared : MaybeAge]

\* The types; an entry holds a start exactly while a detection is open.
DetectorTypeOK ==
    /\ policies \in PolicySets
    /\ entries \in [Scopes -> ScopeStates]
    /\ \A s \in Scopes : IsOpen(entries[s]) <=> entries[s].since # None
    /\ window \in 0 .. (Window - 1)
    /\ batch \in Batches /\ todo \subseteq Scopes /\ pc \in {"idle", "cycle"}
    /\ heard \in [Scopes -> Listeners]
    /\ seen \in [Scopes -> Sights]

\* The events of a scope are whole detections, one after the other: one
\* start, updates numbered without gaps, one end, all with the same identity
\* and the same mode, no two detections with the same start, and a detection
\* is open for the consumer exactly while it is for the machine.  So no end
\* is lost or doubled by clears, policy swaps, sweeps and replays
\* (StateTable, close_expired, EventFactory::detection_id).
EventsAreDetections ==
    \A s \in Scopes :
        /\ heard[s].sound
        /\ heard[s].open <=> IsOpen(entries[s])
        /\ heard[s].open => /\ heard[s].next = entries[s].events
                            /\ heard[s].since = entries[s].since

\* Every scope tracked is tracked under the policy that wins it now, which
\* evaluates it: replace_policies leaves nothing for a later step to reset
\* or for a sweep to find without its policy.
TrackedUnderItsWinner ==
    \A s \in Scopes : Tracked(entries[s]) =>
        LET p == WinnerFor(policies, s) IN
        /\ p # None /\ Ident(p) = entries[s].policy
        /\ p.mode # "disabled" /\ p.window = Window

Opens(s) == ~IsOpen(entries[s]) /\ IsOpen(entries'[s])

\* A detection opens only when every snapshot of at least triggerFor was over
\* the threshold, and a cooldown that its scope did not outlive in silence
\* has passed (step, sweep).
OpensInTime ==
    [][\A s \in Scopes : Opens(s) =>
          LET p == WinnerFor(policies, s) IN
          /\ seen'[s].over # None
          /\ Elapsed(seen'[s].over, entries'[s].snapshot) >= p.trigger_for
          /\ seen'[s].cleared = None
             \/ Elapsed(seen'[s].cleared, entries'[s].snapshot) >= p.cooldown]_dvars

\* While its policy stands and snapshots come, an open detection closes only
\* when every snapshot of at least clearFor was below the clear level, and not
\* before holdDown (step, StateTable::close).
ClosesInTime ==
    [][\A s \in Scopes :
          IsOpen(entries[s]) /\ ~IsOpen(entries'[s]) /\ Tracked(entries'[s]) =>
              LET p == WinnerFor(policies, s) IN
              /\ seen'[s].below # None
              /\ Elapsed(seen'[s].below, entries'[s].snapshot) >= p.clear_for
              /\ Elapsed(entries[s].since, entries'[s].snapshot) >= p.hold_down]_dvars

\* The last window of s was empty, or below the clear level of its policy.
Recovering(s) ==
    batch[s] = None \/ (WinnerFor(policies, s) # None /\ BelowClear(WinnerFor(policies, s), batch[s]))

\* A detection whose traffic stays down, or stops, does not stay open: by the
\* clear timers or by the sweep it ends (cycle).
DetectionsEnd ==
    \A s \in Scopes : <>[](Recovering(s)) => []<>(~IsOpen(entries[s]))
=============================================================================
