--------------------------- MODULE DetectorProofs ---------------------------
(***************************************************************************)
(* What holds of the detector for any number of scopes, any policies and   *)
(* timers and any traffic: who a scope is tracked under, that the events   *)
(* of a scope are whole detections, and that they open and close in time.  *)
(***************************************************************************)
EXTENDS Detector, FiniteSetTheorems, TLAPS

(***************************************************************************)
(* Precedence.                                                             *)
(***************************************************************************)
\* Those that come before a policy.
Ahead(C, p) == {q \in C : Beats(q, p)}

\* Of finitely many policies with different ids, one comes before all others.
LEMMA SomeoneWins ==
    ASSUME NEW C, IsFiniteSet(C), C # {},
           \A p \in C : {p.specificity, p.priority, p.id} \subseteq Int,
           \A p, q \in C : p.id = q.id => p = q
    PROVE  \E p \in C : \A q \in C \ {p} : Beats(p, q)
<1> DEFINE R == StrictSubsetOrdering(C)
           T == {Ahead(C, p) : p \in C}
<1>1. IsWellFoundedOn(R, SUBSET C)
  BY FS_StrictSubsetOrderingWellFounded, FS_FiniteSubsetsOfFinite
<1>2. T \subseteq SUBSET C /\ T # {}
  <2>1. \A p \in C : Ahead(C, p) \in SUBSET C
    BY DEF Ahead
  <2>2. PICK p \in C : TRUE
    OBVIOUS
  <2>3. Ahead(C, p) \in T
    BY <2>2
  <2> QED BY <2>1, <2>3
<1>3. \E x \in T : \A y \in T : <<y, x>> \notin R
  <2> HIDE DEF R, T
  <2> QED BY <1>1, <1>2, WFMin
<1>4. PICK p \in C : \A y \in T : <<y, Ahead(C, p)>> \notin R
  BY <1>3
<1>5. ASSUME NEW q \in C \ {p} PROVE Beats(p, q)
  <2>1. Beats(p, q) \/ Beats(q, p)
    BY DEF Beats
  <2>2. ASSUME Beats(q, p) PROVE FALSE
    <3>1. Ahead(C, q) \subseteq Ahead(C, p)
      BY <2>2 DEF Ahead, Beats
    <3>2. q \in Ahead(C, p) /\ q \notin Ahead(C, q)
      BY <2>2 DEF Ahead, Beats
    <3>3. <<Ahead(C, q), Ahead(C, p)>> \in R
      BY <3>1, <3>2 DEF StrictSubsetOrdering, Ahead
    <3> QED BY <1>4, <3>3
  <2> QED BY <2>1, <2>2
<1> QED BY <1>5

\* The winner of a scope is a policy of the set that covers it.
LEMMA WinnerIsThere ==
    ASSUME NEW ps \in PolicySets, NEW s \in Scopes, WinnerFor(ps, s) # None
    PROVE  WinnerFor(ps, s) \in ps /\ ValidPolicy(WinnerFor(ps, s))
<1> DEFINE C == Candidates(ps, s)
<1>1. C \subseteq ps /\ C # {}
  BY DEF Candidates, WinnerFor
<1>2. IsFiniteSet(C)
  BY <1>1, FS_Subset, PoliciesAssumption
<1>3. \A p \in C : {p.specificity, p.priority, p.id} \subseteq Int
  BY <1>1, PoliciesAssumption DEF ValidPolicy
<1>4. \A p, q \in C : p.id = q.id => p = q
  BY <1>1, PoliciesAssumption
<1> HIDE DEF C
<1>5. \E p \in C : \A q \in C \ {p} : Beats(p, q)
  BY <1>1, <1>2, <1>3, <1>4, SomeoneWins
<1>6. WinnerFor(ps, s) \in C
  BY <1>1, <1>5 DEF WinnerFor, C
<1> QED BY <1>1, <1>6, PoliciesAssumption

(***************************************************************************)
(* The invariant, scope by scope: an entry e under policy p, what was      *)
(* heard of it (h), and what was seen of its traffic (w).                  *)
(***************************************************************************)
\* At least d passed between two instants of these ages; an age stops at Horizon.
Lapsed(age, at, d) == age = Horizon \/ Elapsed(age, at) >= d

\* Snapshots are not delivered so late that a scope reset in the meantime could
\* open again at an instant before the reset.
Prompt == \A p \in Policies : MaxLag < p.trigger_for

\* A timer that is running has run for as long as the snapshots were alike, and
\* the timers that ended had run out when the snapshot of age at was applied.
InStep(e, w, p, at) ==
    /\ w.over # None => w.over >= at
    /\ w.below # None => w.below >= at
    /\ IsOpen(e) => e.since # None /\ e.since >= at
    /\ e.state = "pending_trigger" => w.over # None /\ w.over >= e.entered
    /\ e.state = "pending_clear" =>
          w.below # None /\ w.below >= e.entered /\ Lapsed(e.since, at, p.hold_down)
    /\ e.state = "cooldown" => w.cleared # None /\ w.cleared >= e.entered
    /\ e.state \in {"idle", "pending_trigger"} /\ w.cleared # None => Lapsed(w.cleared, at, p.cooldown)

\* The consumer follows the machine.
Follows(e, h, p) ==
    /\ h.open <=> IsOpen(e)
    /\ h.open => h.next = e.events /\ h.since = e.since /\ h.mode = p.mode

\* What it heard are detections, and what may open next starts later than what
\* it heard last.
Orderly(e, h, p, at) ==
    /\ h.sound
    /\ ~h.open /\ h.since # None =>
          /\ h.since + p.trigger_for > at
          /\ e.state = "pending_trigger" => h.since + p.trigger_for > e.entered

\* A scope is tracked under the policy that wins it.
UnderItsWinner(e, p) ==
    Tracked(e) => /\ p # None /\ Ident(p) = e.policy
                  /\ p.mode # "disabled" /\ p.window = Window

ScopeSound(e, h, w, p) ==
    /\ e \in ScopeStates /\ h \in Listeners /\ w \in Sights
    /\ IsOpen(e) <=> e.since # None
    /\ UnderItsWinner(e, p)
    /\ Follows(e, h, p)
    /\ Prompt => h.sound
    /\ IF Tracked(e)
         THEN /\ e.snapshot # None
              /\ InStep(e, w, p, e.snapshot)
              /\ Prompt => Orderly(e, h, p, e.snapshot)
         ELSE e = Untracked /\ w = Unseen

(***************************************************************************)
(* One step of a scope.                                                    *)
(***************************************************************************)
\* What a transition leaves.
MovedTo(e, f, to, lag) ==
    /\ f \in ScopeStates
    /\ f.state = to /\ f.entered = lag
    /\ f.policy = e.policy /\ f.snapshot = e.snapshot /\ f.event = e.event
    /\ to = "active" => f.since = IF e.since = None THEN lag ELSE e.since
    /\ to \in {"idle", "cooldown"} => f.since = None
    /\ to \in {"pending_trigger", "pending_clear"} => f.since = e.since
    /\ f.events = IF to = "active" /\ e.since = None THEN 0 ELSE e.events

\* An edge that is allowed is taken.
LEMMA Transitions ==
    ASSUME NEW e \in ScopeStates, NEW to \in DetectionStates, NEW lag \in Ages, CanMove(e.state, to)
    PROVE  MovedTo(e, Transition(e, to, lag), to, lag)
<1> DEFINE since == CASE to = "active" -> (IF e.since = None THEN lag ELSE e.since)
                      [] to \in {"idle", "cooldown"} -> None
                      [] OTHER -> e.since
           events == IF to = "active" /\ e.since = None THEN 0 ELSE e.events
<1>1. since \in MaybeAge
  BY DEF ScopeStates, MaybeAge
<1>2. events \in Numbers
  BY TimesAssumption DEF ScopeStates, Numbers
<1>3. to \in Phases
  BY DEF Phases
<1>4. Transition(e, to, lag) = [e EXCEPT !.state = to, !.entered = lag, !.since = since, !.events = events]
  BY DEF Transition, ScopeStates
<1>5. /\ to = "active" => since = IF e.since = None THEN lag ELSE e.since
      /\ to \in {"idle", "cooldown"} => since = None
      /\ to \in {"pending_trigger", "pending_clear"} => since = e.since
  OBVIOUS
<1> HIDE DEF since
<1>6. events = IF to = "active" /\ e.since = None THEN 0 ELSE e.events
  OBVIOUS
<1> HIDE DEF events
<1> QED BY <1>1, <1>2, <1>3, <1>4, <1>5, <1>6 DEF MovedTo, ScopeStates

\* An age, and an event number, counted on.
Later(n) == (n + 1) % Sequences

LEMMA Numbered ==
    /\ 0 \in Numbers
    /\ \A n \in Numbers : Later(n) \in Numbers
BY TimesAssumption DEF Numbers, Later

\* The outcomes of a step of entry e with entry f and a signal.
Rests(e, f, signal, p, t, lag) ==
    /\ ~IsOpen(e) /\ signal = None /\ f.since = None
    /\ \/ f.state = "idle" /\ e.state \in {"idle", "pending_trigger"}
       \/ f.state = "pending_trigger" /\ e.state = "idle" /\ Over(p, t) /\ f.entered = lag
       \/ f.state = "pending_trigger" /\ e.state = "pending_trigger" /\ Over(p, t)
          /\ f.entered = e.entered
       \/ f.state = "cooldown" /\ e.state = "cooldown" /\ f.entered = e.entered
       \/ /\ f.state = "idle" \/ (f.state = "pending_trigger" /\ Over(p, t) /\ f.entered = lag)
          /\ e.state = "cooldown" /\ Elapsed(e.entered, lag) >= p.cooldown

Starts(e, f, signal, p, t, lag) ==
    /\ e.state = "pending_trigger" /\ Over(p, t) /\ Elapsed(e.entered, lag) >= p.trigger_for
    /\ f.state = "active" /\ f.since = lag /\ f.events = Later(0)
    /\ signal = [kind |-> "started", since |-> lag, sequence |-> 0]

Continues(e, f, signal, p, t, lag) ==
    /\ IsOpen(e) /\ f.since = e.since
    /\ \/ f.state = "active"
       \/ /\ f.state = "pending_clear" /\ BelowClear(p, t)
          /\ \/ e.state = "active" /\ f.entered = lag /\ Elapsed(e.since, lag) >= p.hold_down
             \/ e.state = "pending_clear" /\ f.entered = e.entered
    /\ \/ signal = None /\ f.events = e.events
       \/ /\ signal = [kind |-> "updated", since |-> e.since, sequence |-> e.events]
          /\ f.events = Later(e.events)

Ends(e, f, signal, p, t, lag) ==
    /\ e.state = "pending_clear" /\ BelowClear(p, t) /\ Elapsed(e.entered, lag) >= p.clear_for
    /\ f.since = None
    /\ \/ f.state = "idle" /\ p.cooldown = 0
       \/ f.state = "cooldown" /\ f.entered = lag
    /\ signal = [kind |-> "ended", since |-> e.since, sequence |-> e.events]

Outcome(e, f, signal, p, t, lag) ==
    /\ f \in ScopeStates /\ f.policy = e.policy /\ f.snapshot = lag
    /\ \/ Rests(e, f, signal, p, t, lag)
       \/ Starts(e, f, signal, p, t, lag)
       \/ Continues(e, f, signal, p, t, lag)
       \/ Ends(e, f, signal, p, t, lag)

\* Times are natural numbers.
LEMMA PolicyTimes ==
    ASSUME NEW p, ValidPolicy(p)
    PROVE  /\ p.trigger_for \in Nat /\ p.clear_for \in Nat /\ p.cooldown \in Nat /\ p.hold_down \in Nat
           /\ p.trigger_for > 0 /\ p.clear_for > 0
           /\ p.cooldown <= Horizon - MaxLag /\ p.hold_down <= Horizon - MaxLag
<1>1. Horizon \in Nat /\ MaxLag \in Nat /\ p.window \in Nat \ {0}
  BY TimesAssumption DEF ValidPolicy
<1>2. \A x \in {p.trigger_for, p.clear_for, p.cooldown, p.hold_down, p.event_update_interval} :
         x \in 0 .. (Horizon - MaxLag)
  BY DEF ValidPolicy
<1>3. p.trigger_for >= p.window /\ p.clear_for >= p.window
  BY DEF ValidPolicy
<1> QED BY <1>1, <1>2, <1>3

\* The snapshot is noted, and a cooldown that has run out is left.
CooledFrom(e, c, p, lag) ==
    /\ c \in ScopeStates /\ c.policy = e.policy /\ c.snapshot = lag
    /\ \/ /\ e.state = "cooldown" /\ Elapsed(e.entered, lag) >= p.cooldown
          /\ c.state = "idle" /\ c.since = None
       \/ c.state = e.state /\ c.entered = e.entered /\ c.since = e.since /\ c.events = e.events

\* The two together.
LEMMA Cools ==
    ASSUME NEW e \in ScopeStates, NEW p, NEW lag \in Ages
    PROVE  CooledFrom(e, CooledDown([e EXCEPT !.snapshot = lag], p, lag), p, lag)
<1>1. PICK f : f = [e EXCEPT !.snapshot = lag]
  OBVIOUS
<1>2. /\ f \in ScopeStates /\ f.policy = e.policy /\ f.snapshot = lag
      /\ f.state = e.state /\ f.entered = e.entered /\ f.since = e.since /\ f.events = e.events
  BY <1>1 DEF ScopeStates, MaybeAge
<1>3. CASE f.state = "cooldown" /\ Elapsed(f.entered, lag) >= p.cooldown
  <2>1. CooledDown(f, p, lag) = Transition(f, "idle", lag)
    BY <1>3 DEF CooledDown
  <2>2. MovedTo(f, Transition(f, "idle", lag), "idle", lag)
    BY <1>2, <1>3, Transitions DEF CanMove, DetectionStates
  <2> QED BY <1>1, <1>2, <1>3, <2>1, <2>2 DEF CooledFrom, MovedTo
<1>4. CASE ~(f.state = "cooldown" /\ Elapsed(f.entered, lag) >= p.cooldown)
  BY <1>1, <1>2, <1>4 DEF CooledFrom, CooledDown
<1> QED BY <1>3, <1>4

\* A signal is something.
LEMMA SignalsAreSome ==
    ASSUME NEW kind \in {"started", "updated", "ended"}, NEW since \in Ages, NEW n \in Numbers
    PROVE  [kind |-> kind, since |-> since, sequence |-> n] # None
BY SignalsAssumption DEF Signals, Ages, Numbers

\* One more event is counted.
LEMMA Counting ==
    ASSUME NEW f \in ScopeStates
    PROVE  /\ Counted(f) \in ScopeStates /\ Counted(f).events = Later(f.events)
           /\ Counted(f).state = f.state /\ Counted(f).policy = f.policy /\ Counted(f).entered = f.entered
           /\ Counted(f).since = f.since /\ Counted(f).snapshot = f.snapshot
<1>1. Later(f.events) \in Numbers
  BY Numbered DEF ScopeStates
<1>2. Counted(f) = [f EXCEPT !.events = Later(f.events)]
  BY DEF Counted, Later, ScopeStates
<1> QED BY <1>1, <1>2 DEF ScopeStates

\* An event is noted.
LEMMA Noting ==
    ASSUME NEW f \in ScopeStates, NEW lag \in Ages
    PROVE  LET g == [f EXCEPT !.event = lag] IN
           /\ g \in ScopeStates /\ g.events = f.events
           /\ g.state = f.state /\ g.policy = f.policy /\ g.entered = f.entered
           /\ g.since = f.since /\ g.snapshot = f.snapshot
BY DEF ScopeStates, MaybeAge

\* The detection of e opens.
LEMMA Opening ==
    ASSUME NEW e \in ScopeStates, e.state = "pending_trigger", e.since = None, NEW lag \in Ages
    PROVE  LET r == Opened(e, lag) IN
           /\ r.entry \in ScopeStates /\ r.entry.policy = e.policy /\ r.entry.snapshot = e.snapshot
           /\ r.entry.state = "active" /\ r.entry.since = lag /\ r.entry.events = Later(0)
           /\ r.signal = [kind |-> "started", since |-> lag, sequence |-> 0]
<1>1. PICK m : m = Transition(e, "active", lag)
  OBVIOUS
<1>2. /\ m \in ScopeStates /\ m.state = "active" /\ m.since = lag /\ m.events = 0
      /\ m.policy = e.policy /\ m.snapshot = e.snapshot
  BY <1>1, Transitions DEF CanMove, DetectionStates, MovedTo
<1>3. PICK f : f = [m EXCEPT !.event = lag]
  OBVIOUS
<1>4. /\ f \in ScopeStates /\ f.state = "active" /\ f.since = lag /\ f.events = 0
      /\ f.policy = e.policy /\ f.snapshot = e.snapshot
  BY <1>2, <1>3, Noting
<1>5. Opened(e, lag) = [entry |-> Counted(f), signal |-> Signal("started", f, f.since)]
  BY <1>1, <1>3 DEF Opened
<1> QED BY <1>4, <1>5, Counting DEF Signal

\* The detection of e closes.
ClosedFrom(e, r, p, lag) ==
    /\ r.entry \in ScopeStates /\ r.entry.policy = e.policy /\ r.entry.snapshot = e.snapshot
    /\ r.entry.since = None /\ r.entry.entered = lag
    /\ r.entry.state = IF p.cooldown = 0 THEN "idle" ELSE "cooldown"
    /\ r.signal = [kind |-> "ended", since |-> e.since, sequence |-> e.events]

LEMMA Closing ==
    ASSUME NEW e \in ScopeStates, IsOpen(e), NEW p, NEW lag \in Ages
    PROVE  ClosedFrom(e, Closed(e, p, lag), p, lag)
<1>0. PICK to \in {"idle", "cooldown"} : to = IF p.cooldown = 0 THEN "idle" ELSE "cooldown"
  OBVIOUS
<1>1. PICK m : m = Transition(e, to, lag)
  OBVIOUS
<1>2. CanMove(e.state, to)
  BY DEF IsOpen, CanMove
<1>3. /\ m \in ScopeStates /\ m.state = to /\ m.since = None /\ m.events = e.events
      /\ m.policy = e.policy /\ m.snapshot = e.snapshot /\ m.entered = lag
  BY <1>1, <1>2, Transitions DEF DetectionStates, MovedTo
<1>4. PICK f : f = [m EXCEPT !.event = lag]
  OBVIOUS
<1>5. /\ f \in ScopeStates /\ f.state = to /\ f.since = None /\ f.events = e.events
      /\ f.policy = e.policy /\ f.snapshot = e.snapshot /\ f.entered = lag
  BY <1>3, <1>4, Noting
<1>6. Closed(e, p, lag) = [entry |-> Counted(f), signal |-> Signal("ended", f, e.since)]
  BY <1>0, <1>1, <1>4 DEF Closed, Ending
<1> QED BY <1>0, <1>5, <1>6, Counting DEF Signal, ClosedFrom

\* The evaluation's outcome.
LEMMA Judging ==
    ASSUME NEW e \in ScopeStates, Tracked(e), IsOpen(e) <=> e.since # None,
           NEW p, ValidPolicy(p), NEW t, NEW lag \in Ages,
           NEW c, CooledFrom(e, c, p, lag)
    PROVE  LET r == Judged(Quietly(c), p, t, lag) IN Outcome(e, r.entry, r.signal, p, t, lag)
<1> DEFINE r == Judged(Quietly(c), p, t, lag)
<1>0. /\ c \in ScopeStates /\ c.policy = e.policy /\ c.snapshot = lag
      /\ IsOpen(c) <=> c.since # None
      /\ e.state \in DetectionStates /\ c.state \in DetectionStates
  BY DEF CooledFrom, IsOpen, Tracked, ScopeStates, Phases, DetectionStates
<1>1. p.trigger_for # 0 /\ p.clear_for # 0
  BY PolicyTimes
<1>2. CASE c.state = "idle" /\ Over(p, t)
  <2>1. r = [entry |-> Transition(c, "pending_trigger", lag), signal |-> None]
    BY <1>1, <1>2 DEF Judged, Quietly
  <2>2. MovedTo(c, Transition(c, "pending_trigger", lag), "pending_trigger", lag)
    BY <1>0, <1>2, Transitions DEF CanMove, DetectionStates
  <2>3. Rests(e, r.entry, r.signal, p, t, lag)
    BY <1>0, <1>2, <2>1, <2>2 DEF Rests, MovedTo, CooledFrom, IsOpen
  <2> QED BY <1>0, <2>1, <2>2, <2>3 DEF Outcome, MovedTo
<1>3. CASE c.state = "pending_trigger" /\ Over(p, t) /\ Elapsed(c.entered, lag) >= p.trigger_for
  <2>1. r = Opened(c, lag)
    BY <1>3 DEF Judged, Quietly
  <2>2. c.since = None
    BY <1>0, <1>3 DEF IsOpen
  <2>3. Starts(e, r.entry, r.signal, p, t, lag)
    BY <1>0, <1>3, <2>1, <2>2, Opening DEF Starts, CooledFrom
  <2>4. LET o == Opened(c, lag) IN
        o.entry \in ScopeStates /\ o.entry.policy = e.policy /\ o.entry.snapshot = lag
    BY <1>0, <1>3, <2>2, Opening
  <2> QED BY <2>1, <2>3, <2>4 DEF Outcome
<1>4. CASE c.state = "pending_trigger" /\ ~Over(p, t)
  <2>1. r = [entry |-> Transition(c, "idle", lag), signal |-> None]
    BY <1>4 DEF Judged, Quietly
  <2>2. MovedTo(c, Transition(c, "idle", lag), "idle", lag)
    BY <1>0, <1>4, Transitions DEF CanMove, DetectionStates
  <2>3. Rests(e, r.entry, r.signal, p, t, lag)
    BY <1>0, <1>4, <2>1, <2>2 DEF Rests, MovedTo, CooledFrom, IsOpen
  <2> QED BY <1>0, <2>1, <2>2, <2>3 DEF Outcome, MovedTo
<1>5. CASE c.state = "active" /\ BelowClear(p, t) /\ Elapsed(c.since, lag) >= p.hold_down
  <2>1. r = [entry |-> Transition(c, "pending_clear", lag), signal |-> None]
    BY <1>1, <1>5 DEF Judged, Quietly
  <2>2. MovedTo(c, Transition(c, "pending_clear", lag), "pending_clear", lag)
    BY <1>0, <1>5, Transitions DEF CanMove, DetectionStates
  <2>3. Continues(e, r.entry, r.signal, p, t, lag)
    BY <1>0, <1>5, <2>1, <2>2 DEF Continues, MovedTo, CooledFrom, IsOpen
  <2> QED BY <1>0, <2>1, <2>2, <2>3 DEF Outcome, MovedTo
<1>6. CASE c.state = "pending_clear" /\ BelowClear(p, t) /\ Elapsed(c.entered, lag) >= p.clear_for
  <2>1. IsOpen(c)
    BY <1>6 DEF IsOpen
  <2>2. PICK o : o = Closed(c, p, lag)
    OBVIOUS
  <2>3. ClosedFrom(c, o, p, lag)
    BY <1>0, <2>1, <2>2, Closing
  <2>4. Ends(e, o.entry, o.signal, p, t, lag)
    BY <1>0, <1>6, <2>3 DEF Ends, CooledFrom, ClosedFrom
  <2>5. Outcome(e, o.entry, o.signal, p, t, lag)
    BY <1>0, <2>3, <2>4 DEF Outcome, ClosedFrom
  <2>6. r = o
    BY <1>6, <2>2 DEF Judged, Quietly
  <2> QED BY <2>5, <2>6
<1>7. CASE c.state = "pending_clear" /\ ~BelowClear(p, t)
  <2>1. r = [entry |-> Transition(c, "active", lag), signal |-> None]
    BY <1>7 DEF Judged, Quietly
  <2>2. MovedTo(c, Transition(c, "active", lag), "active", lag)
    BY <1>0, <1>7, Transitions DEF CanMove, DetectionStates
  <2>3. Continues(e, r.entry, r.signal, p, t, lag)
    BY <1>0, <1>7, <2>1, <2>2 DEF Continues, MovedTo, CooledFrom, IsOpen
  <2> QED BY <1>0, <2>1, <2>2, <2>3 DEF Outcome, MovedTo
<1>8. CASE /\ ~(c.state = "idle" /\ Over(p, t))
           /\ ~(c.state = "pending_trigger" /\ Over(p, t) /\ Elapsed(c.entered, lag) >= p.trigger_for)
           /\ ~(c.state = "pending_trigger" /\ ~Over(p, t))
           /\ ~(c.state = "active" /\ BelowClear(p, t) /\ Elapsed(c.since, lag) >= p.hold_down)
           /\ ~(c.state = "pending_clear" /\ BelowClear(p, t) /\ Elapsed(c.entered, lag) >= p.clear_for)
           /\ ~(c.state = "pending_clear" /\ ~BelowClear(p, t))
  <2>1. r = [entry |-> c, signal |-> None]
    BY <1>8 DEF Judged, Quietly
  <2>2. CASE IsOpen(c)
    BY <1>0, <1>8, <2>1, <2>2 DEF Outcome, Continues, CooledFrom, IsOpen
  <2>3. CASE ~IsOpen(c)
    BY <1>0, <1>8, <2>1, <2>3 DEF Outcome, Rests, CooledFrom, IsOpen, DetectionStates
  <2> QED BY <2>2, <2>3
<1> QED BY <1>2, <1>3, <1>4, <1>5, <1>6, <1>7, <1>8

\* StateTable::step on a snapshot that is in order, under the policy in force.
LEMMA Stepping ==
    ASSUME NEW e \in ScopeStates, Tracked(e), IsOpen(e) <=> e.since # None,
           NEW p, ValidPolicy(p), e.policy = Ident(p),
           NEW t, NEW lag \in Ages, InOrder(e, lag)
    PROVE  LET r == StepEntry(e, p, t, lag) IN Outcome(e, r.entry, r.signal, p, t, lag)
<1>1. PICK c : c = CooledDown([e EXCEPT !.snapshot = lag], p, lag)
  OBVIOUS
<1>2. CooledFrom(e, c, p, lag)
  BY <1>1, Cools
<1>3. PICK j : j = Judged(Quietly(c), p, t, lag)
  OBVIOUS
<1>4. Outcome(e, j.entry, j.signal, p, t, lag)
  BY <1>2, <1>3, Judging
<1>5. StepEntry(e, p, t, lag) = Paced(j, p, t, lag)
  BY <1>1, <1>3 DEF StepEntry, UnderPolicy, Quietly
<1>6. CASE /\ IsOpen(j.entry) /\ j.signal = None /\ Over(p, t)
           /\ j.entry.event = None \/ Elapsed(j.entry.event, lag) >= p.event_update_interval
  <2>1. PICK f : f = [j.entry EXCEPT !.event = lag]
    OBVIOUS
  <2>2. /\ f \in ScopeStates /\ f.events = j.entry.events
        /\ f.state = j.entry.state /\ f.policy = j.entry.policy /\ f.entered = j.entry.entered
        /\ f.since = j.entry.since /\ f.snapshot = j.entry.snapshot
    BY <1>4, <2>1, Noting DEF Outcome
  <2>3. Paced(j, p, t, lag) =
          [entry |-> Counted(f), signal |-> Signal("updated", j.entry, j.entry.since)]
    BY <1>6, <2>1 DEF Paced
  <2>4. Continues(e, j.entry, j.signal, p, t, lag)
    <3>1. ~Rests(e, j.entry, j.signal, p, t, lag)
      BY <1>6 DEF Rests, IsOpen
    <3>2. lag \in Ages /\ e.since \in MaybeAge /\ e.events \in Numbers
      BY DEF ScopeStates
    <3>3. ~Starts(e, j.entry, j.signal, p, t, lag)
      BY <1>6, <3>2, Numbered, SignalsAreSome DEF Starts
    <3>4. ~Ends(e, j.entry, j.signal, p, t, lag)
      BY <1>6 DEF Ends, IsOpen
    <3> QED BY <1>4, <3>1, <3>3, <3>4 DEF Outcome
  <2>5. j.signal # [kind |-> "updated", since |-> e.since, sequence |-> e.events]
    <3>1. e.since \in Ages /\ e.events \in Numbers
      BY <2>4 DEF Continues, ScopeStates, MaybeAge
    <3> QED BY <1>6, <3>1, SignalsAreSome
  <2>6. j.entry.events = e.events /\ j.entry.since = e.since
    BY <2>4, <2>5 DEF Continues
  <2>7. Continues(e, Counted(f), Signal("updated", j.entry, j.entry.since), p, t, lag)
    BY <2>2, <2>4, <2>6, Counting DEF Continues, Signal
  <2>8. Counted(f) \in ScopeStates /\ Counted(f).policy = e.policy /\ Counted(f).snapshot = lag
    BY <1>4, <2>2, Counting DEF Outcome
  <2> QED BY <1>5, <2>3, <2>7, <2>8 DEF Outcome
<1>7. CASE ~(/\ IsOpen(j.entry) /\ j.signal = None /\ Over(p, t)
             /\ j.entry.event = None \/ Elapsed(j.entry.event, lag) >= p.event_update_interval)
  <2>1. Paced(j, p, t, lag) = j
    BY <1>7 DEF Paced
  <2> QED BY <1>4, <1>5, <2>1
<1> QED BY <1>6, <1>7

(***************************************************************************)
(* A snapshot is applied.                                                  *)
(***************************************************************************)
\* A scope that the snapshot of age lag finds, tracked already or new.
Ready(e, h, w, p, lag) ==
    /\ e \in ScopeStates /\ h \in Listeners /\ w \in Sights
    /\ Tracked(e) /\ (IsOpen(e) <=> e.since # None)
    /\ p # None /\ Ident(p) = e.policy /\ p.mode # "disabled" /\ p.window = Window
    /\ InOrder(e, lag)
    /\ Follows(e, h, p)
    /\ InStep(e, w, p, lag)
    /\ Prompt => Orderly(e, h, p, lag)

\* A snapshot that is in order is newer than the last.
LEMMA TrackedIsReady ==
    ASSUME NEW e, NEW h, NEW w, NEW p, ValidPolicy(p), NEW lag \in 0 .. MaxLag,
           ScopeSound(e, h, w, p), Tracked(e), InOrder(e, lag)
    PROVE  Ready(e, h, w, p, lag)
<1>1. /\ e.snapshot \in Ages /\ e.entered \in Ages /\ e.since \in MaybeAge
      /\ w.over \in MaybeAge /\ w.below \in MaybeAge /\ w.cleared \in MaybeAge /\ h.since \in MaybeAge
      /\ lag < e.snapshot
  BY DEF ScopeSound, ScopeStates, Sights, Listeners, MaybeAge, InOrder
<1>2. /\ Horizon \in Nat /\ MaxLag \in Nat /\ p.trigger_for \in Nat /\ p.hold_down \in Nat /\ p.cooldown \in Nat
      /\ lag \in Ages
  BY PolicyTimes, TimesAssumption DEF Ages
<1>3. InStep(e, w, p, lag)
  <2>1. InStep(e, w, p, e.snapshot)
    BY DEF ScopeSound
  <2> QED BY <1>1, <1>2, <2>1 DEF InStep, IsOpen, Lapsed, Elapsed, Ages, MaybeAge
<1>4. Orderly(e, h, p, e.snapshot) => Orderly(e, h, p, lag)
  BY <1>1, <1>2 DEF Orderly, Ages, MaybeAge
<1> QED BY <1>3, <1>4 DEF ScopeSound, Ready, UnderItsWinner

\* A new scope has not been seen before, though a detection of it may have been
\* heard of.
LEMMA NewIsReady ==
    ASSUME NEW h, NEW w, NEW ps \in PolicySets, NEW p \in ps, NEW lag \in 0 .. MaxLag,
           ScopeSound(Untracked, h, w, p), p.mode # "disabled", p.window = Window
    PROVE  Ready(NewScope(p, lag), h, w, p, lag)
<1>1. PICK e : e = NewScope(p, lag)
  OBVIOUS
<1>2. /\ e.state = "idle" /\ e.policy = Ident(p) /\ e.since = None /\ e.snapshot = None
      /\ e = [state |-> "idle", policy |-> Ident(p), entered |-> lag, since |-> None,
              snapshot |-> None, event |-> None, events |-> 0]
  BY <1>1 DEF NewScope, Untracked
<1>3. e \in ScopeStates
  <2>1. "idle" \in Phases /\ Ident(p) \in Idents /\ lag \in Ages /\ None \in MaybeAge
    BY TimesAssumption DEF Phases, DetectionStates, Idents, Policies, Ages, MaybeAge
  <2> QED BY <1>2, <2>1, Numbered DEF ScopeStates
<1>4. h \in Listeners /\ w \in Sights /\ w = Unseen /\ ~h.open /\ (Prompt => h.sound)
  BY DEF ScopeSound, Follows, IsOpen, Tracked, Untracked
<1>5. ValidPolicy(p) /\ p # None
  BY PoliciesAssumption
<1>6. Prompt => Orderly(e, h, p, lag)
  <2>1. p \in Policies
    BY DEF Policies
  <2>2. h.since \in MaybeAge /\ lag \in Nat /\ MaxLag \in Nat /\ Horizon \in Nat /\ p.trigger_for \in Nat
    BY <1>4, <1>5, PolicyTimes, TimesAssumption DEF Listeners
  <2> QED BY <1>2, <1>4, <2>1, <2>2 DEF Prompt, Orderly, MaybeAge, Ages
<1>7. InStep(e, w, p, lag) /\ Follows(e, h, p) /\ InOrder(e, lag) /\ Tracked(e) /\ ~IsOpen(e)
  BY <1>2, <1>4 DEF InStep, Unseen, Follows, InOrder, Tracked, IsOpen
<1> QED BY <1>1, <1>2, <1>3, <1>4, <1>5, <1>6, <1>7 DEF Ready

\* What a consumer makes of an event.
HeardWith(h, g, kind, since, n, mode) ==
    /\ g \in Listeners
    /\ g.open = (kind # "ended") /\ g.next = Later(n) /\ g.since = since /\ g.mode = mode
    /\ kind = "started" /\ h.sound /\ ~h.open /\ n = 0 /\ (h.since = None \/ h.since > since) => g.sound
    /\ kind # "started" /\ h.sound /\ h.open /\ n = h.next /\ since = h.since /\ mode = h.mode => g.sound

LEMMA Hearing ==
    ASSUME NEW h \in Listeners, NEW kind \in {"started", "updated", "ended"}, NEW since \in Ages,
           NEW n \in Numbers, NEW mode \in Modes
    PROVE  HeardWith(h, Hear(h, [kind |-> kind, since |-> since, sequence |-> n], mode), kind, since, n, mode)
<1> DEFINE x == [kind |-> kind, since |-> since, sequence |-> n]
           open == kind # "ended"
           sound == /\ h.sound
                    /\ IF kind = "started"
                         THEN /\ ~h.open /\ n = 0
                              /\ h.since = None \/ h.since > since
                         ELSE /\ h.open /\ n = h.next
                              /\ since = h.since /\ mode = h.mode
<1>1. x # None
  BY SignalsAreSome
<1>2. Hear(h, x, mode) = [open |-> open, next |-> Later(n), since |-> since, mode |-> mode, sound |-> sound]
  BY <1>1 DEF Hear, Later
<1>3. open \in BOOLEAN /\ sound \in BOOLEAN
  BY DEF Listeners
<1>4. /\ kind = "started" /\ h.sound /\ ~h.open /\ n = 0 /\ (h.since = None \/ h.since > since) => sound
      /\ kind # "started" /\ h.sound /\ h.open /\ n = h.next /\ since = h.since /\ mode = h.mode => sound
  OBVIOUS
<1>5. open = (kind # "ended")
  OBVIOUS
<1> HIDE DEF open, sound
<1>6. since \in MaybeAge /\ mode \in MaybeMode /\ Later(n) \in Numbers
  BY Numbered DEF MaybeAge, MaybeMode
<1>7. PICK g : g = [open |-> open, next |-> Later(n), since |-> since, mode |-> mode, sound |-> sound]
  OBVIOUS
<1>8. g \in Listeners
  BY <1>3, <1>6, <1>7 DEF Listeners
<1>9. g.open = open /\ g.next = Later(n) /\ g.since = since /\ g.mode = mode /\ g.sound = sound
  BY <1>7
<1> QED BY <1>2, <1>4, <1>5, <1>7, <1>8, <1>9, Zenon DEF HeardWith

\* What was seen, with one more snapshot.
SeenWith(w, v, p, t, lag, cleared) ==
    /\ v \in Sights
    /\ v.over = IF ~Over(p, t) THEN None ELSE IF w.over = None THEN lag ELSE w.over
    /\ v.below = IF ~BelowClear(p, t) THEN None ELSE IF w.below = None THEN lag ELSE w.below
    /\ v.cleared = IF cleared THEN lag ELSE w.cleared

LEMMA Seeing ==
    ASSUME NEW w \in Sights, NEW p, NEW t, NEW lag \in Ages, NEW cleared \in BOOLEAN
    PROVE  SeenWith(w, See(w, p, t, lag, cleared), p, t, lag, cleared)
<1> DEFINE over == IF ~Over(p, t) THEN None ELSE IF w.over = None THEN lag ELSE w.over
           below == IF ~BelowClear(p, t) THEN None ELSE IF w.below = None THEN lag ELSE w.below
           gone == IF cleared THEN lag ELSE w.cleared
<1>1. See(w, p, t, lag, cleared) = [over |-> over, below |-> below, cleared |-> gone]
  BY DEF See, Lasting
<1>2. over \in MaybeAge /\ below \in MaybeAge /\ gone \in MaybeAge
  BY DEF Sights, MaybeAge
<1> HIDE DEF over, below, gone
<1>3. LET v == See(w, p, t, lag, cleared) IN
      v \in Sights /\ v.over = over /\ v.below = below /\ v.cleared = gone
  BY <1>1, <1>2 DEF Sights
<1> QED BY <1>3 DEF over, below, gone, SeenWith

\* A detection opened in time, and closed in time.
OpenedInTime(v, p, lag) ==
    /\ v.over # None /\ Elapsed(v.over, lag) >= p.trigger_for
    /\ v.cleared = None \/ Elapsed(v.cleared, lag) >= p.cooldown

ClosedInTime(e, v, p, lag) ==
    /\ v.below # None /\ Elapsed(v.below, lag) >= p.clear_for
    /\ Elapsed(e.since, lag) >= p.hold_down

\* What is left of a scope after the snapshot.
Applied(e, f, g, v, p, lag) ==
    /\ ScopeSound(f, g, v, p)
    /\ Tracked(f) /\ f.snapshot = lag
    /\ ~IsOpen(e) /\ IsOpen(f) => OpenedInTime(v, p, lag)
    /\ IsOpen(e) /\ ~IsOpen(f) => ClosedInTime(e, v, p, lag)

\* No timer is longer than the age at which counting stops.
LEMMA LapsedIsElapsed ==
    ASSUME NEW age \in Ages, NEW lag \in 0 .. MaxLag, NEW d \in 0 .. (Horizon - MaxLag),
           Lapsed(age, lag, d)
    PROVE  Elapsed(age, lag) >= d
BY TimesAssumption DEF Lapsed, Elapsed, Ages

\* The parts of it.
LEMMA Parts ==
    ASSUME NEW e, NEW h, NEW w, NEW p, ValidPolicy(p), NEW t, NEW lag \in 0 .. MaxLag,
           Ready(e, h, w, p, lag), NEW f, NEW x, Outcome(e, f, x, p, t, lag),
           NEW g \in Listeners, NEW v \in Sights,
           IsOpen(f) <=> f.since # None, Tracked(f), Follows(f, g, p), InStep(f, v, p, lag),
           Prompt => Orderly(f, g, p, lag)
    PROVE  ScopeSound(f, g, v, p)
<1>1. f \in ScopeStates /\ f.policy = e.policy /\ f.snapshot = lag
  BY DEF Outcome
<1>2. UnderItsWinner(f, p)
  BY <1>1 DEF Ready, UnderItsWinner
<1>3. f.snapshot # None
  BY <1>1, TimesAssumption
<1> QED BY <1>1, <1>2, <1>3 DEF ScopeSound, Orderly

\* Nothing is open, before and after.
LEMMA RestsHolds ==
    ASSUME NEW e, NEW h, NEW w, NEW p, ValidPolicy(p), NEW t, NEW lag \in 0 .. MaxLag,
           Ready(e, h, w, p, lag), NEW f, NEW x, Outcome(e, f, x, p, t, lag),
           Rests(e, f, x, p, t, lag)
    PROVE  Applied(e, f, Hear(h, x, p.mode),
                   See(w, p, t, lag, x # None /\ x.kind = "ended"), p, lag)
<1>1. x = None /\ Hear(h, x, p.mode) = h
  BY DEF Rests, Hear
<1>2. PICK v : v = See(w, p, t, lag, x # None /\ x.kind = "ended")
  OBVIOUS
<1>3. w \in Sights /\ h \in Listeners /\ e \in ScopeStates /\ lag \in Ages
  BY TimesAssumption DEF Ready, Ages
<1>4. /\ v \in Sights /\ v.cleared = w.cleared
      /\ v.over = IF ~Over(p, t) THEN None ELSE IF w.over = None THEN lag ELSE w.over
      /\ v.below = IF ~BelowClear(p, t) THEN None ELSE IF w.below = None THEN lag ELSE w.below
  <2>1. v = See(w, p, t, lag, FALSE)
    BY <1>1, <1>2
  <2>2. SeenWith(w, v, p, t, lag, FALSE)
    BY <1>3, <2>1, Seeing
  <2> QED BY <2>2 DEF SeenWith
<1>5. /\ f \in ScopeStates /\ f.policy = e.policy /\ f.snapshot = lag
      /\ ~IsOpen(f) /\ f.since = None /\ Tracked(f)
  BY DEF Outcome, Rests, IsOpen, Tracked
<1>6. ~h.open /\ Follows(f, h, p) /\ ~IsOpen(e)
  BY <1>5 DEF Ready, Rests, Follows
<1>7. /\ e.entered \in Ages /\ f.entered \in Ages /\ h.since \in MaybeAge
      /\ w.over \in MaybeAge /\ w.below \in MaybeAge /\ w.cleared \in MaybeAge
      /\ Horizon \in Nat /\ MaxLag \in Nat /\ p.trigger_for \in Nat /\ p.trigger_for > 0
      /\ p.cooldown \in Nat /\ p.cooldown <= Horizon - MaxLag
  BY <1>3, <1>5, PolicyTimes, TimesAssumption DEF ScopeStates, Sights, Listeners
<1>8. InStep(f, v, p, lag)
  <2>1. InStep(e, w, p, lag)
    BY DEF Ready
  <2>2. f.state = "pending_trigger" => v.over # None /\ v.over >= f.entered
    BY <1>3, <1>4, <1>7, <2>1, TimesAssumption DEF Rests, InStep, MaybeAge, Ages
  <2>3. f.state = "cooldown" => v.cleared # None /\ v.cleared >= f.entered
    BY <1>4, <2>1 DEF Rests, InStep
  <2>4. f.state \in {"idle", "pending_trigger"} /\ v.cleared # None => Lapsed(v.cleared, lag, p.cooldown)
    <3>1. CASE e.state = "cooldown" /\ Elapsed(e.entered, lag) >= p.cooldown
      BY <1>4, <1>7, <2>1, <3>1 DEF InStep, Lapsed, Elapsed, MaybeAge, Ages
    <3>2. CASE e.state \in {"idle", "pending_trigger"}
      BY <1>4, <2>1, <3>2 DEF InStep
    <3> QED BY <3>1, <3>2 DEF Rests
  <2>5. (v.over # None => v.over >= lag) /\ (v.below # None => v.below >= lag)
    BY <1>4, <1>7, <2>1 DEF InStep, MaybeAge, Ages
  <2> QED BY <1>5, <2>2, <2>3, <2>4, <2>5 DEF InStep, IsOpen
<1>9. Orderly(e, h, p, lag) => Orderly(f, h, p, lag)
  BY <1>7, <1>6 DEF Orderly, Rests, MaybeAge, Ages
<1> QED BY <1>1, <1>2, <1>3, <1>4, <1>5, <1>6, <1>8, <1>9, Parts DEF Applied, Ready

\* What a step hears and sees when it says something.
LEMMA Spoken ==
    ASSUME NEW h \in Listeners, NEW w \in Sights, NEW p, ValidPolicy(p), NEW t, NEW lag \in 0 .. MaxLag,
           NEW kind \in {"started", "updated", "ended"}, NEW since \in Ages, NEW n \in Numbers,
           NEW x, x = [kind |-> kind, since |-> since, sequence |-> n]
    PROVE  /\ SeenWith(w, See(w, p, t, lag, x # None /\ x.kind = "ended"), p, t, lag, kind = "ended")
           /\ p.mode \in Modes
<1>1. x # None /\ x.kind = kind /\ lag \in Ages
  BY SignalsAreSome, TimesAssumption DEF Ages
<1>2. See(w, p, t, lag, x # None /\ x.kind = "ended") = See(w, p, t, lag, kind = "ended")
  BY <1>1 DEF See
<1>3. SeenWith(w, See(w, p, t, lag, kind = "ended"), p, t, lag, kind = "ended")
  BY <1>1, Seeing
<1> QED BY <1>2, <1>3 DEF ValidPolicy

\* A detection opens: the timers say since when, and it is heard as a new one.
LEMMA StartsHolds ==
    ASSUME NEW e, NEW h, NEW w, NEW p, ValidPolicy(p), NEW t, NEW lag \in 0 .. MaxLag,
           Ready(e, h, w, p, lag), NEW f, NEW x, Outcome(e, f, x, p, t, lag),
           Starts(e, f, x, p, t, lag)
    PROVE  Applied(e, f, Hear(h, x, p.mode),
                   See(w, p, t, lag, x # None /\ x.kind = "ended"), p, lag)
<1>1. w \in Sights /\ h \in Listeners /\ e \in ScopeStates /\ lag \in Ages /\ 0 \in Numbers
  BY TimesAssumption, Numbered DEF Ready, Ages
<1>2. PICK v : v = See(w, p, t, lag, x # None /\ x.kind = "ended")
  OBVIOUS
<1>3. SeenWith(w, v, p, t, lag, FALSE) /\ p.mode \in Modes
  <2>1. SeenWith(w, v, p, t, lag, "started" = "ended") /\ p.mode \in Modes
    BY <1>1, <1>2, Spoken DEF Starts
  <2> QED BY <2>1 DEF SeenWith
<1>4. /\ v \in Sights /\ v.cleared = w.cleared
      /\ v.over = IF w.over = None THEN lag ELSE w.over
      /\ v.below = IF ~BelowClear(p, t) THEN None ELSE IF w.below = None THEN lag ELSE w.below
  BY <1>3 DEF SeenWith, Starts
<1>5. /\ f \in ScopeStates /\ f.policy = e.policy /\ f.snapshot = lag
      /\ IsOpen(f) /\ f.since = lag /\ f.since # None /\ Tracked(f) /\ f.events = Later(0)
      /\ ~IsOpen(e) /\ e.state = "pending_trigger"
  BY TimesAssumption DEF Outcome, Starts, IsOpen, Tracked
<1>6. PICK g : g = Hear(h, x, p.mode)
  OBVIOUS
<1>7. /\ g \in Listeners /\ g.open /\ g.next = Later(0) /\ g.since = lag /\ g.mode = p.mode
      /\ h.sound /\ ~h.open /\ (h.since = None \/ h.since > lag) => g.sound
  <2>1. HeardWith(h, g, "started", lag, 0, p.mode)
    BY <1>1, <1>3, <1>6, Hearing DEF Starts
  <2> QED BY <2>1 DEF HeardWith
<1>8. Follows(f, g, p)
  BY <1>5, <1>7 DEF Follows
<1>9. /\ e.entered \in Ages /\ h.since \in MaybeAge
      /\ w.over \in MaybeAge /\ w.below \in MaybeAge /\ w.cleared \in MaybeAge
      /\ Horizon \in Nat /\ MaxLag \in Nat /\ p.trigger_for \in Nat /\ p.trigger_for > 0
      /\ p.cooldown \in 0 .. (Horizon - MaxLag)
  BY <1>1, PolicyTimes, TimesAssumption DEF ScopeStates, Sights, Listeners
<1>10. InStep(e, w, p, lag)
  BY DEF Ready
<1>11. InStep(f, v, p, lag)
  <2>1. (v.over # None => v.over >= lag) /\ (v.below # None => v.below >= lag)
    BY <1>4, <1>9, <1>10 DEF InStep, MaybeAge, Ages
  <2>2. f.state = "active" /\ f.since >= lag
    BY <1>5 DEF Starts
  <2> QED BY <1>5, <2>1, <2>2 DEF InStep
<1>12. Prompt => Orderly(f, g, p, lag)
  <2>1. Orderly(e, h, p, lag) => h.sound /\ (h.since = None \/ h.since > lag)
    BY <1>5, <1>7, <1>9 DEF Orderly, Starts, Elapsed, MaybeAge, Ages, Ready, Follows
  <2>2. ~h.open
    BY <1>5 DEF Ready, Follows
  <2> QED BY <1>7, <2>1, <2>2 DEF Orderly, Ready
<1>13. OpenedInTime(v, p, lag)
  <2>1. w.over \in Ages /\ w.over >= e.entered
    BY <1>5, <1>9, <1>10 DEF InStep, MaybeAge
  <2>2. v.over = w.over /\ v.over # None /\ Elapsed(v.over, lag) >= p.trigger_for
    BY <1>4, <1>9, <2>1, TimesAssumption DEF Starts, Elapsed, Ages
  <2>3. v.cleared = None \/ Lapsed(v.cleared, lag, p.cooldown)
    BY <1>4, <1>5, <1>10 DEF InStep
  <2>4. v.cleared = None \/ Elapsed(v.cleared, lag) >= p.cooldown
    BY <1>4, <1>9, <2>3, LapsedIsElapsed DEF MaybeAge
  <2> QED BY <2>2, <2>4 DEF OpenedInTime
<1>14. ScopeSound(f, g, v, p)
  BY <1>4, <1>5, <1>7, <1>8, <1>11, <1>12, Parts
<1> QED BY <1>2, <1>5, <1>6, <1>13, <1>14 DEF Applied

\* A detection stays open, and may say so.
LEMMA ContinuesHolds ==
    ASSUME NEW e, NEW h, NEW w, NEW p, ValidPolicy(p), NEW t, NEW lag \in 0 .. MaxLag,
           Ready(e, h, w, p, lag), NEW f, NEW x, Outcome(e, f, x, p, t, lag),
           Continues(e, f, x, p, t, lag)
    PROVE  Applied(e, f, Hear(h, x, p.mode),
                   See(w, p, t, lag, x # None /\ x.kind = "ended"), p, lag)
<1>1. /\ w \in Sights /\ h \in Listeners /\ e \in ScopeStates /\ lag \in Ages
      /\ e.since \in Ages /\ e.events \in Numbers /\ p.mode \in Modes
  BY TimesAssumption DEF Ready, Ages, Continues, ScopeStates, MaybeAge, ValidPolicy
<1>2. PICK v : v = See(w, p, t, lag, x # None /\ x.kind = "ended")
  OBVIOUS
<1>3. SeenWith(w, v, p, t, lag, FALSE)
  <2>1. CASE x = None
    <3>1. v = See(w, p, t, lag, FALSE)
      BY <1>2, <2>1
    <3> QED BY <1>1, <3>1, Seeing
  <2>2. CASE x = [kind |-> "updated", since |-> e.since, sequence |-> e.events]
    <3>1. SeenWith(w, v, p, t, lag, "updated" = "ended")
      BY <1>1, <1>2, <2>2, Spoken
    <3> QED BY <3>1 DEF SeenWith
  <2> QED BY <2>1, <2>2 DEF Continues
<1>4. /\ v \in Sights /\ v.cleared = w.cleared
      /\ v.over = IF ~Over(p, t) THEN None ELSE IF w.over = None THEN lag ELSE w.over
      /\ v.below = IF ~BelowClear(p, t) THEN None ELSE IF w.below = None THEN lag ELSE w.below
  BY <1>3 DEF SeenWith
<1>5. /\ f \in ScopeStates /\ f.policy = e.policy /\ f.snapshot = lag
      /\ IsOpen(f) /\ f.since = e.since /\ f.since # None /\ Tracked(f) /\ IsOpen(e)
  BY <1>1, TimesAssumption DEF Outcome, Continues, IsOpen, Tracked, Ages
<1>6. PICK g : g = Hear(h, x, p.mode)
  OBVIOUS
<1>7. h.open /\ h.next = e.events /\ h.since = e.since /\ h.mode = p.mode
  BY <1>5 DEF Ready, Follows
<1>8. g \in Listeners /\ g.open /\ Follows(f, g, p) /\ (h.sound => g.sound)
  <2>1. CASE x = None
    <3>1. g = h
      BY <1>6, <2>1 DEF Hear
    <3>2. x # [kind |-> "updated", since |-> e.since, sequence |-> e.events]
      BY <1>1, <2>1, SignalsAreSome
    <3>3. f.events = e.events
      BY <3>2 DEF Continues
    <3> QED BY <1>1, <1>5, <1>7, <3>1, <3>3 DEF Follows
  <2>2. CASE x = [kind |-> "updated", since |-> e.since, sequence |-> e.events]
    <3>1. HeardWith(h, g, "updated", e.since, e.events, p.mode)
      BY <1>1, <1>6, <2>2, Hearing
    <3>2. x # None
      BY <1>1, <2>2, SignalsAreSome
    <3>3. f.events = Later(e.events)
      BY <3>2 DEF Continues
    <3>4. g \in Listeners /\ g.open /\ (h.sound => g.sound)
      BY <1>7, <3>1 DEF HeardWith
    <3>5. g.next = f.events /\ g.since = f.since /\ g.mode = p.mode
      BY <1>5, <3>1, <3>3 DEF HeardWith
    <3> QED BY <1>5, <3>4, <3>5 DEF Follows
  <2> QED BY <2>1, <2>2 DEF Continues
<1>9. /\ e.entered \in Ages /\ f.entered \in Ages
      /\ w.over \in MaybeAge /\ w.below \in MaybeAge
      /\ Horizon \in Nat /\ MaxLag \in Nat /\ p.hold_down \in Nat
  BY <1>1, <1>5, PolicyTimes, TimesAssumption DEF ScopeStates, Sights
<1>10. InStep(e, w, p, lag)
  BY DEF Ready
<1>11. InStep(f, v, p, lag)
  <2>1. (v.over # None => v.over >= lag) /\ (v.below # None => v.below >= lag)
    BY <1>4, <1>9, <1>10 DEF InStep, MaybeAge, Ages
  <2>2. f.since >= lag
    BY <1>5, <1>10 DEF InStep
  <2>3. ASSUME f.state = "pending_clear"
        PROVE  v.below # None /\ v.below >= f.entered /\ Lapsed(f.since, lag, p.hold_down)
    <3>1. v.below = IF w.below = None THEN lag ELSE w.below
      BY <1>4, <2>3 DEF Continues
    <3>2. v.below # None
      BY <1>1, <3>1, TimesAssumption DEF Ages
    <3>3. CASE e.state = "active" /\ f.entered = lag /\ Elapsed(e.since, lag) >= p.hold_down
      BY <1>5, <2>1, <3>2, <3>3 DEF Lapsed
    <3>4. CASE e.state = "pending_clear" /\ f.entered = e.entered
      BY <1>5, <1>10, <3>1, <3>2, <3>4 DEF InStep
    <3> QED BY <2>3, <3>3, <3>4 DEF Continues
  <2>4. f.state \in {"active", "pending_clear"}
    BY <1>5 DEF IsOpen
  <2> QED BY <1>5, <2>1, <2>2, <2>3, <2>4 DEF InStep
<1>12. Prompt => Orderly(f, g, p, lag)
  BY <1>8 DEF Orderly, Ready
<1>14. ScopeSound(f, g, v, p)
  BY <1>4, <1>5, <1>8, <1>11, <1>12, Parts
<1> QED BY <1>2, <1>5, <1>6, <1>14 DEF Applied

\* A detection closes.
LEMMA EndsHolds ==
    ASSUME NEW e, NEW h, NEW w, NEW p, ValidPolicy(p), NEW t, NEW lag \in 0 .. MaxLag,
           Ready(e, h, w, p, lag), NEW f, NEW x, Outcome(e, f, x, p, t, lag),
           Ends(e, f, x, p, t, lag)
    PROVE  Applied(e, f, Hear(h, x, p.mode),
                   See(w, p, t, lag, x # None /\ x.kind = "ended"), p, lag)
<1>1. /\ w \in Sights /\ h \in Listeners /\ e \in ScopeStates /\ lag \in Ages /\ IsOpen(e)
      /\ e.since \in Ages /\ e.events \in Numbers /\ p.mode \in Modes
  BY TimesAssumption DEF Ready, Ages, Ends, ScopeStates, MaybeAge, ValidPolicy, IsOpen
<1>2. PICK v : v = See(w, p, t, lag, x # None /\ x.kind = "ended")
  OBVIOUS
<1>3. SeenWith(w, v, p, t, lag, TRUE)
  <2>1. SeenWith(w, v, p, t, lag, "ended" = "ended")
    BY <1>1, <1>2, Spoken DEF Ends
  <2> QED BY <2>1 DEF SeenWith
<1>4. /\ v \in Sights /\ v.cleared = lag
      /\ v.over = IF ~Over(p, t) THEN None ELSE IF w.over = None THEN lag ELSE w.over
      /\ v.below = IF w.below = None THEN lag ELSE w.below
  BY <1>3 DEF SeenWith, Ends
<1>5. /\ f \in ScopeStates /\ f.policy = e.policy /\ f.snapshot = lag
      /\ ~IsOpen(f) /\ f.since = None /\ Tracked(f)
  BY DEF Outcome, Ends, IsOpen, Tracked
<1>6. PICK g : g = Hear(h, x, p.mode)
  OBVIOUS
<1>7. h.open /\ h.next = e.events /\ h.since = e.since /\ h.mode = p.mode
  BY <1>1 DEF Ready, Follows
<1>8. g \in Listeners /\ ~g.open /\ Follows(f, g, p) /\ (h.sound => g.sound) /\ g.since = e.since
  <2>1. HeardWith(h, g, "ended", e.since, e.events, p.mode)
    BY <1>1, <1>6, Hearing DEF Ends
  <2>2. g \in Listeners /\ ~g.open /\ (h.sound => g.sound) /\ g.since = e.since
    BY <1>7, <2>1 DEF HeardWith
  <2> QED BY <1>5, <2>2 DEF Follows
<1>9. /\ e.entered \in Ages
      /\ w.over \in MaybeAge /\ w.below \in MaybeAge
      /\ Horizon \in Nat /\ MaxLag \in Nat /\ p.hold_down \in 0 .. (Horizon - MaxLag)
      /\ p.cooldown \in Nat /\ p.clear_for \in Nat /\ p.trigger_for \in Nat /\ p.trigger_for > 0
  BY <1>1, PolicyTimes, TimesAssumption DEF ScopeStates, Sights
<1>10. InStep(e, w, p, lag) /\ e.state = "pending_clear"
  BY DEF Ready, Ends
<1>11. InStep(f, v, p, lag)
  <2>1. (v.over # None => v.over >= lag) /\ (v.below # None => v.below >= lag)
    BY <1>4, <1>9, <1>10 DEF InStep, MaybeAge, Ages
  <2>2. f.state = "cooldown" => v.cleared # None /\ v.cleared >= f.entered
    BY <1>1, <1>4, TimesAssumption DEF Ends, Ages
  <2>3. f.state = "idle" => Lapsed(v.cleared, lag, p.cooldown)
    BY <1>4, <1>9 DEF Ends, Lapsed, Elapsed
  <2>4. f.state \in {"idle", "cooldown"}
    BY DEF Ends
  <2> QED BY <1>5, <2>1, <2>2, <2>3, <2>4 DEF InStep
<1>12. Prompt => Orderly(f, g, p, lag)
  <2>1. g.since + p.trigger_for > lag /\ f.state # "pending_trigger"
    BY <1>1, <1>8, <1>9, <1>10 DEF InStep, Ends, Ages
  <2> QED BY <1>8, <2>1 DEF Orderly, Ready
<1>13. ClosedInTime(e, v, p, lag)
  <2>1. w.below \in Ages /\ w.below >= e.entered
    BY <1>9, <1>10 DEF InStep, MaybeAge
  <2>2. v.below = w.below /\ v.below # None /\ Elapsed(v.below, lag) >= p.clear_for
    BY <1>4, <1>9, <2>1, TimesAssumption DEF Ends, Elapsed, Ages
  <2>3. Lapsed(e.since, lag, p.hold_down)
    BY <1>10 DEF InStep
  <2>4. Elapsed(e.since, lag) >= p.hold_down
    BY <1>1, <1>9, <2>3, LapsedIsElapsed
  <2> QED BY <2>2, <2>4 DEF ClosedInTime
<1>14. ScopeSound(f, g, v, p)
  BY <1>4, <1>5, <1>8, <1>11, <1>12, Parts
<1> QED BY <1>1, <1>2, <1>5, <1>6, <1>13, <1>14 DEF Applied

\* A snapshot that is in order leaves the scope sound, and what it opens or closes
\* is opened or closed in time.
LEMMA SnapshotHolds ==
    ASSUME NEW e, NEW h, NEW w, NEW p, ValidPolicy(p), NEW t, NEW lag \in 0 .. MaxLag,
           Ready(e, h, w, p, lag)
    PROVE  LET r == StepEntry(e, p, t, lag) IN
           Applied(e, r.entry, Hear(h, r.signal, p.mode),
                   See(w, p, t, lag, r.signal # None /\ r.signal.kind = "ended"), p, lag)
<1>1. PICK r : r = StepEntry(e, p, t, lag)
  OBVIOUS
<1>2. lag \in Ages
  BY TimesAssumption DEF Ages
<1>3. Outcome(e, r.entry, r.signal, p, t, lag)
  BY <1>1, <1>2, Stepping DEF Ready
<1>4. PICK f : f = r.entry
  OBVIOUS
<1>5. PICK x : x = r.signal
  OBVIOUS
<1>6. Outcome(e, f, x, p, t, lag)
  BY <1>3, <1>4, <1>5
<1>7. Applied(e, f, Hear(h, x, p.mode), See(w, p, t, lag, x # None /\ x.kind = "ended"), p, lag)
  <2>1. CASE Rests(e, f, x, p, t, lag)
    BY <1>6, <2>1, RestsHolds
  <2>2. CASE Starts(e, f, x, p, t, lag)
    BY <1>6, <2>2, StartsHolds
  <2>3. CASE Continues(e, f, x, p, t, lag)
    BY <1>6, <2>3, ContinuesHolds
  <2>4. CASE Ends(e, f, x, p, t, lag)
    BY <1>6, <2>4, EndsHolds
  <2> QED BY <1>6, <2>1, <2>2, <2>3, <2>4 DEF Outcome
<1> QED BY <1>1, <1>4, <1>5, <1>7

(***************************************************************************)
(* A scope is dropped, or grows older, or changes its policy set.          *)
(***************************************************************************)
\* What is known of a scope that is not tracked does not depend on a policy.
LEMMA UntrackedHolds ==
    ASSUME NEW h, NEW w, NEW p, NEW q, ScopeSound(Untracked, h, w, p)
    PROVE  ScopeSound(Untracked, h, w, q)
<1>1. ~Tracked(Untracked) /\ ~IsOpen(Untracked)
  BY DEF Tracked, Untracked, IsOpen
<1> QED BY <1>1 DEF ScopeSound, Follows, UnderItsWinner

\* The policy a scope is tracked under is in the set it was chosen from.
LEMMA PolicyIsKnown ==
    ASSUME NEW ps \in PolicySets, NEW s \in Scopes, NEW e, UnderItsWinner(e, WinnerFor(ps, s)), Tracked(e)
    PROVE  /\ WinnerFor(ps, s) \in ps /\ ValidPolicy(WinnerFor(ps, s))
           /\ {p \in ps : p.id = e.policy[1]} = {WinnerFor(ps, s)}
<1> DEFINE q == WinnerFor(ps, s)
<1>1. q \in ps /\ ValidPolicy(q) /\ Ident(q) = e.policy
  BY WinnerIsThere DEF UnderItsWinner
<1>2. q.id = e.policy[1]
  BY <1>1 DEF Ident
<1>3. \A p \in ps : p.id = q.id => p = q
  BY <1>1, PoliciesAssumption
<1> HIDE DEF q
<1>4. {p \in ps : p.id = e.policy[1]} = {q}
  BY <1>1, <1>2, <1>3
<1> QED BY <1>1, <1>4 DEF q

\* A scope is dropped, and its end heard if it was open.
DroppedHeard(e, h, ps) ==
    LET known == {p \in ps : p.id = e.policy[1]} IN
    IF IsOpen(e) /\ known # {}
      THEN Hear(h, Ending(e, Transition(e, "idle", 0)).signal, (CHOOSE p \in known : TRUE).mode)
      ELSE h

LEMMA DroppedHolds ==
    ASSUME NEW ps \in PolicySets, NEW s \in Scopes, NEW e, NEW h, NEW w,
           ScopeSound(e, h, w, WinnerFor(ps, s)), Tracked(e), NEW q
    PROVE  ScopeSound(Untracked, DroppedHeard(e, h, ps), Unseen, q)
<1>0. PICK p : p = WinnerFor(ps, s)
  OBVIOUS
<1>1. /\ e \in ScopeStates /\ h \in Listeners /\ Follows(e, h, p) /\ (Prompt => h.sound)
      /\ UnderItsWinner(e, p) /\ (IsOpen(e) <=> e.since # None)
  BY <1>0 DEF ScopeSound
<1>2. {x \in ps : x.id = e.policy[1]} = {p} /\ ValidPolicy(p)
  BY <1>0, <1>1, PolicyIsKnown
<1>3. PICK g : g = DroppedHeard(e, h, ps)
  OBVIOUS
<1>4. g \in Listeners /\ ~g.open /\ (h.sound => g.sound)
  <2>1. CASE ~IsOpen(e)
    BY <1>1, <1>3, <2>1 DEF DroppedHeard, Follows
  <2>2. CASE IsOpen(e)
    <3>1. 0 \in Ages /\ e.since \in Ages /\ e.events \in Numbers /\ p.mode \in Modes
      BY <1>1, <1>2, <2>2, TimesAssumption DEF ScopeStates, MaybeAge, Ages, ValidPolicy
    <3>2. MovedTo(e, Transition(e, "idle", 0), "idle", 0)
      BY <1>1, <2>2, <3>1, Transitions DEF CanMove, DetectionStates, IsOpen
    <3>3. Transition(e, "idle", 0).events = e.events
      BY <3>2 DEF MovedTo
    <3>4. Ending(e, Transition(e, "idle", 0)).signal =
            [kind |-> "ended", since |-> e.since, sequence |-> e.events]
      BY <2>2, <3>3 DEF Ending, Signal
    <3>5. (CHOOSE x \in {p} : TRUE) = p
      OBVIOUS
    <3>6. g = Hear(h, [kind |-> "ended", since |-> e.since, sequence |-> e.events], p.mode)
      BY <1>2, <1>3, <2>2, <3>4, <3>5 DEF DroppedHeard
    <3>7. HeardWith(h, g, "ended", e.since, e.events, p.mode)
      BY <1>1, <3>1, <3>6, Hearing
    <3> QED BY <1>1, <2>2, <3>7 DEF HeardWith, Follows
  <2> QED BY <2>1, <2>2
<1>5. Untracked \in ScopeStates /\ Unseen \in Sights /\ Untracked.since = None
  <2>1. "untracked" \in Phases /\ None \in Idents /\ 0 \in Ages /\ None \in MaybeAge /\ 0 \in Numbers
    BY TimesAssumption, Numbered DEF Phases, Idents, Ages, MaybeAge
  <2> QED BY <2>1 DEF Untracked, ScopeStates, Unseen, Sights
<1>6. ~Tracked(Untracked) /\ ~IsOpen(Untracked)
  BY DEF Tracked, Untracked, IsOpen
<1> QED BY <1>1, <1>3, <1>4, <1>5, <1>6 DEF ScopeSound, Follows, UnderItsWinner

\* Ages grow alike, until they stop.
LEMMA GrowingOlder ==
    ASSUME NEW d \in Nat
    PROVE  /\ Older(None, d) = None
           /\ \A a \in Ages : Older(a, d) \in Ages
           /\ \A a \in MaybeAge : Older(a, d) \in MaybeAge /\ (Older(a, d) = None <=> a = None)
           /\ \A a, b \in Ages : a >= b => Older(a, d) >= Older(b, d)
           /\ \A a, b \in Ages, k \in Nat : Lapsed(a, b, k) => Lapsed(Older(a, d), Older(b, d), k)
           /\ \A a, b \in Ages, k \in Nat : k > 0 /\ a + k > b => Older(a, d) + k > Older(b, d)
<1>1. Horizon \in Nat /\ None \notin Ages
  BY TimesAssumption DEF Ages
<1>2. \A a \in Ages : Older(a, d) = IF a + d > Horizon THEN Horizon ELSE a + d
  BY <1>1 DEF Older
<1>3. Older(None, d) = None
  BY DEF Older
<1>4. \A a \in Ages : Older(a, d) \in Ages
  BY <1>1, <1>2 DEF Ages
<1>5. \A a \in MaybeAge : Older(a, d) \in MaybeAge /\ (Older(a, d) = None <=> a = None)
  BY <1>1, <1>3, <1>4 DEF MaybeAge
<1>6. \A a, b \in Ages : a >= b => Older(a, d) >= Older(b, d)
  BY <1>1, <1>2 DEF Ages
<1>7. \A a, b \in Ages, k \in Nat : Lapsed(a, b, k) => Lapsed(Older(a, d), Older(b, d), k)
  BY <1>1, <1>2 DEF Ages, Lapsed, Elapsed
<1>8. \A a, b \in Ages, k \in Nat : k > 0 /\ a + k > b => Older(a, d) + k > Older(b, d)
  BY <1>1, <1>2 DEF Ages
<1> QED BY <1>3, <1>4, <1>5, <1>6, <1>7, <1>8

OlderEntry(e, d) ==
    IF Tracked(e)
      THEN [e EXCEPT !.entered = Older(@, d), !.since = Older(@, d),
                     !.snapshot = Older(@, d), !.event = Older(@, d)]
      ELSE Untracked

OlderHeard(h, d) == [h EXCEPT !.since = Older(@, d)]

OlderSeen(w, d) == [w EXCEPT !.over = Older(@, d), !.below = Older(@, d), !.cleared = Older(@, d)]

LEMMA OlderFields ==
    ASSUME NEW e \in ScopeStates, NEW h \in Listeners, NEW w \in Sights, NEW d \in Nat
    PROVE  /\ OlderEntry(e, d) \in ScopeStates /\ OlderHeard(h, d) \in Listeners /\ OlderSeen(w, d) \in Sights
           /\ Tracked(e) => /\ OlderEntry(e, d).state = e.state /\ OlderEntry(e, d).policy = e.policy
                            /\ OlderEntry(e, d).entered = Older(e.entered, d)
                            /\ OlderEntry(e, d).since = Older(e.since, d)
                            /\ OlderEntry(e, d).snapshot = Older(e.snapshot, d)
                            /\ OlderEntry(e, d).events = e.events
           /\ OlderHeard(h, d).since = Older(h.since, d) /\ OlderHeard(h, d).open = h.open
           /\ OlderHeard(h, d).next = h.next /\ OlderHeard(h, d).mode = h.mode
           /\ OlderHeard(h, d).sound = h.sound
           /\ OlderSeen(w, d).over = Older(w.over, d) /\ OlderSeen(w, d).below = Older(w.below, d)
           /\ OlderSeen(w, d).cleared = Older(w.cleared, d)
<1>1. ASSUME Tracked(e)
      PROVE  /\ OlderEntry(e, d) \in ScopeStates
             /\ OlderEntry(e, d).state = e.state /\ OlderEntry(e, d).policy = e.policy
             /\ OlderEntry(e, d).entered = Older(e.entered, d)
             /\ OlderEntry(e, d).since = Older(e.since, d)
             /\ OlderEntry(e, d).snapshot = Older(e.snapshot, d)
             /\ OlderEntry(e, d).events = e.events
  <2>1. /\ Older(e.entered, d) \in Ages /\ Older(e.since, d) \in MaybeAge
        /\ Older(e.snapshot, d) \in MaybeAge /\ Older(e.event, d) \in MaybeAge
    BY GrowingOlder DEF ScopeStates
  <2> QED BY <1>1, <2>1 DEF OlderEntry, ScopeStates
<1>2. ASSUME ~Tracked(e) PROVE OlderEntry(e, d) \in ScopeStates
  <2>1. "untracked" \in Phases /\ None \in Idents /\ 0 \in Ages /\ None \in MaybeAge /\ 0 \in Numbers
    BY TimesAssumption, Numbered DEF Phases, Idents, Ages, MaybeAge
  <2> QED BY <1>2, <2>1 DEF OlderEntry, Untracked, ScopeStates
<1>3. Older(h.since, d) \in MaybeAge
  BY GrowingOlder DEF Listeners
<1>4. /\ OlderHeard(h, d) \in Listeners
      /\ OlderHeard(h, d).since = Older(h.since, d) /\ OlderHeard(h, d).open = h.open
      /\ OlderHeard(h, d).next = h.next /\ OlderHeard(h, d).mode = h.mode
      /\ OlderHeard(h, d).sound = h.sound
  BY <1>3 DEF OlderHeard, Listeners
<1>5. Older(w.over, d) \in MaybeAge /\ Older(w.below, d) \in MaybeAge /\ Older(w.cleared, d) \in MaybeAge
  BY GrowingOlder DEF Sights
<1>6. /\ OlderSeen(w, d) \in Sights
      /\ OlderSeen(w, d).over = Older(w.over, d) /\ OlderSeen(w, d).below = Older(w.below, d)
      /\ OlderSeen(w, d).cleared = Older(w.cleared, d)
  BY <1>5 DEF OlderSeen, Sights
<1> QED BY <1>1, <1>2, <1>4, <1>6

\* A scope that grows older stays sound.
LEMMA OlderHolds ==
    ASSUME NEW e, NEW h, NEW w, NEW p, Tracked(e) => ValidPolicy(p), NEW d \in Nat, ScopeSound(e, h, w, p)
    PROVE  ScopeSound(OlderEntry(e, d), OlderHeard(h, d), OlderSeen(w, d), p)
<1>1. e \in ScopeStates /\ h \in Listeners /\ w \in Sights
  BY DEF ScopeSound
<1>2. PICK f : f = OlderEntry(e, d)
  OBVIOUS
<1>3. PICK g : g = OlderHeard(h, d)
  OBVIOUS
<1>4. PICK v : v = OlderSeen(w, d)
  OBVIOUS
<1>5. /\ f \in ScopeStates /\ g \in Listeners /\ v \in Sights
      /\ g.since = Older(h.since, d) /\ g.open = h.open /\ g.next = h.next /\ g.mode = h.mode
      /\ g.sound = h.sound
      /\ v.over = Older(w.over, d) /\ v.below = Older(w.below, d) /\ v.cleared = Older(w.cleared, d)
  BY <1>1, <1>2, <1>3, <1>4, OlderFields
<1>6. CASE ~Tracked(e)
  <2>1. e = Untracked /\ f = Untracked /\ w = Unseen /\ ~Tracked(Untracked)
    BY <1>2, <1>6 DEF ScopeSound, OlderEntry
  <2>2. v = Unseen
    <3>1. v = [over |-> v.over, below |-> v.below, cleared |-> v.cleared]
      BY <1>5 DEF Sights
    <3>2. v.over = None /\ v.below = None /\ v.cleared = None
      BY <1>5, <2>1, GrowingOlder DEF Unseen
    <3> QED BY <3>1, <3>2 DEF Unseen
  <2>3. (Prompt => g.sound) /\ Follows(f, g, p) /\ UnderItsWinner(f, p) /\ ~IsOpen(f) /\ f.since = None
    BY <1>5, <2>1 DEF ScopeSound, Follows, UnderItsWinner, IsOpen, Untracked
  <2> QED BY <1>2, <1>3, <1>4, <1>5, <2>1, <2>2, <2>3 DEF ScopeSound
<1>7. CASE Tracked(e)
  <2>1. /\ f.state = e.state /\ f.policy = e.policy /\ f.entered = Older(e.entered, d)
        /\ f.since = Older(e.since, d) /\ f.snapshot = Older(e.snapshot, d) /\ f.events = e.events
    BY <1>1, <1>2, <1>7, OlderFields
  <2>2. /\ e.entered \in Ages /\ e.since \in MaybeAge /\ e.snapshot \in Ages /\ h.since \in MaybeAge
        /\ w.over \in MaybeAge /\ w.below \in MaybeAge /\ w.cleared \in MaybeAge
        /\ e.snapshot # None
    BY <1>1, <1>7 DEF ScopeSound, ScopeStates, Listeners, Sights, MaybeAge
  <2>3. /\ f.snapshot # None
        /\ \A x \in {w.over, w.below, w.cleared, e.since, h.since} :
              /\ Older(x, d) = None <=> x = None
              /\ x # None => x \in Ages
    BY <2>1, <2>2, GrowingOlder DEF MaybeAge
  <2>4. Tracked(f) /\ (IsOpen(f) <=> IsOpen(e)) /\ UnderItsWinner(f, p)
    BY <1>7, <2>1 DEF Tracked, IsOpen, ScopeSound, UnderItsWinner
  <2>5. Follows(f, g, p) /\ (Prompt => g.sound) /\ (IsOpen(f) <=> f.since # None)
    BY <1>5, <2>1, <2>3, <2>4 DEF ScopeSound, Follows
  <2>6. p.trigger_for \in Nat /\ p.trigger_for > 0 /\ p.hold_down \in Nat /\ p.cooldown \in Nat
    BY <1>7, PolicyTimes
  <2>7. InStep(f, v, p, f.snapshot)
    <3>1. InStep(e, w, p, e.snapshot)
      BY <1>7 DEF ScopeSound
    <3>2. v.over # None => v.over >= f.snapshot
      BY <1>5, <2>1, <2>2, <2>3, <3>1, GrowingOlder DEF InStep
    <3>3. v.below # None => v.below >= f.snapshot
      BY <1>5, <2>1, <2>2, <2>3, <3>1, GrowingOlder DEF InStep
    <3>4. IsOpen(f) => f.since # None /\ f.since >= f.snapshot
      BY <2>1, <2>2, <2>3, <2>4, <3>1, GrowingOlder DEF InStep
    <3>5. f.state = "pending_trigger" => v.over # None /\ v.over >= f.entered
      BY <1>5, <2>1, <2>2, <2>3, <3>1, GrowingOlder DEF InStep
    <3>6. f.state = "pending_clear" => v.below # None /\ v.below >= f.entered
      BY <1>5, <2>1, <2>2, <2>3, <3>1, GrowingOlder DEF InStep
    <3>7. f.state = "pending_clear" => Lapsed(f.since, f.snapshot, p.hold_down)
      <4>1. ASSUME f.state = "pending_clear"
            PROVE  Lapsed(e.since, e.snapshot, p.hold_down) /\ e.since \in Ages
        BY <2>1, <2>3, <2>4, <3>1, <4>1 DEF InStep, IsOpen
      <4> QED BY <2>1, <2>2, <2>6, <4>1, GrowingOlder
    <3>8. f.state = "cooldown" => v.cleared # None /\ v.cleared >= f.entered
      BY <1>5, <2>1, <2>2, <2>3, <3>1, GrowingOlder DEF InStep
    <3>9. f.state \in {"idle", "pending_trigger"} /\ v.cleared # None =>
            Lapsed(v.cleared, f.snapshot, p.cooldown)
      BY <1>5, <2>1, <2>2, <2>3, <2>6, <3>1, GrowingOlder DEF InStep
    <3> QED BY <3>2, <3>3, <3>4, <3>5, <3>6, <3>7, <3>8, <3>9 DEF InStep
  <2>8. Prompt => Orderly(f, g, p, f.snapshot)
    <3>1. Orderly(e, h, p, e.snapshot) => Orderly(f, g, p, f.snapshot)
      <4> SUFFICES ASSUME Orderly(e, h, p, e.snapshot) PROVE Orderly(f, g, p, f.snapshot)
        OBVIOUS
      <4>1. ASSUME ~g.open, g.since # None
            PROVE  /\ h.since + p.trigger_for > e.snapshot /\ h.since \in Ages
                   /\ e.state = "pending_trigger" => h.since + p.trigger_for > e.entered
        BY <1>5, <2>3, <4>1 DEF Orderly
      <4>2. ASSUME ~g.open, g.since # None
            PROVE  /\ g.since + p.trigger_for > f.snapshot
                   /\ f.state = "pending_trigger" => g.since + p.trigger_for > f.entered
        <5>1. g.since = Older(h.since, d) /\ f.snapshot = Older(e.snapshot, d)
              /\ f.entered = Older(e.entered, d) /\ f.state = e.state
          BY <1>5, <2>1, <2>2
        <5>2. {h.since, e.snapshot, e.entered} \subseteq Ages /\ p.trigger_for \in Nat /\ p.trigger_for > 0
          BY <1>5, <2>1, <2>2, <2>6, <4>1, <4>2
        <5>3. \A a, b \in Ages, k \in Nat : k > 0 /\ a + k > b => Older(a, d) + k > Older(b, d)
          BY GrowingOlder
        <5>4. h.since + p.trigger_for > e.snapshot
              /\ (f.state = "pending_trigger" => h.since + p.trigger_for > e.entered)
          BY <4>1, <4>2, <5>1
        <5>5. g.since + p.trigger_for > f.snapshot
          BY <5>1, <5>2, <5>3, <5>4
        <5>6. f.state = "pending_trigger" => g.since + p.trigger_for > f.entered
          BY <5>1, <5>2, <5>3, <5>4
        <5> QED BY <5>5, <5>6
      <4> QED BY <1>5, <4>2 DEF Orderly
    <3> QED BY <1>7, <3>1 DEF ScopeSound
  <2>9. ScopeSound(f, g, v, p)
    BY <1>5, <2>3, <2>4, <2>5, <2>7, <2>8 DEF ScopeSound
  <2> QED BY <1>2, <1>3, <1>4, <2>9
<1> QED BY <1>6, <1>7

(***************************************************************************)
(* Steps of the engine.                                                    *)
(***************************************************************************)
ScopesSound ==
    /\ entries \in [Scopes -> ScopeStates] /\ heard \in [Scopes -> Listeners] /\ seen \in [Scopes -> Sights]
    /\ \A s \in Scopes : ScopeSound(entries[s], heard[s], seen[s], WinnerFor(policies, s))

\* A detection of s opens, or closes, only in time.
InTime(s) ==
    LET p == WinnerFor(policies, s) IN
    /\ ~IsOpen(entries[s]) /\ IsOpen(entries'[s]) => OpenedInTime(seen'[s], p, entries'[s].snapshot)
    /\ IsOpen(entries[s]) /\ ~IsOpen(entries'[s]) /\ Tracked(entries'[s]) =>
          ClosedInTime(entries[s], seen'[s], p, entries'[s].snapshot)

\* Nothing changes for the scopes.
LEMMA ScopesStay ==
    ASSUME ScopesSound, UNCHANGED <<policies, entries, heard, seen>>
    PROVE  ScopesSound' /\ \A s \in Scopes : InTime(s)
BY DEF ScopesSound, InTime

\* The snapshot of one scope.
LEMMA EvaluateSnapshotHolds ==
    ASSUME policies \in PolicySets, ScopesSound, NEW s \in Scopes, NEW t, NEW lag \in 0 .. MaxLag,
           EvaluateSnapshot(s, t, lag), UNCHANGED policies
    PROVE  ScopesSound' /\ \A x \in Scopes : InTime(x)
<1>1. PICK p : p = WinnerFor(policies, s)
  OBVIOUS
<1>2. PICK e : e = IF Tracked(entries[s]) THEN entries[s] ELSE NewScope(p, lag)
  OBVIOUS
<1>3. PICK r : r = StepEntry(e, p, t, lag)
  OBVIOUS
<1>4. PICK h : h = heard[s]
  OBVIOUS
<1>5. PICK w : w = seen[s]
  OBVIOUS
<1>6. CASE UNCHANGED <<entries, heard, seen>>
  BY <1>6, ScopesStay
<1>7. CASE /\ p # None /\ p.mode # "disabled" /\ p.window = Window
           /\ entries' = [entries EXCEPT ![s] = r.entry]
           /\ heard' = [heard EXCEPT ![s] = Hear(h, r.signal, p.mode)]
           /\ seen' = [seen EXCEPT ![s] =
                 IF InOrder(e, lag) THEN See(w, p, t, lag, r.signal # None /\ r.signal.kind = "ended")
                 ELSE w]
  <2>1. p \in policies /\ ValidPolicy(p)
    BY <1>1, <1>7, WinnerIsThere
  <2>2. ScopeSound(entries[s], h, w, p)
    BY <1>1, <1>4, <1>5 DEF ScopesSound
  <2>3. CASE ~InOrder(e, lag)
    <3>1. Tracked(entries[s]) /\ e = entries[s]
      BY <1>2, <2>3 DEF InOrder, NewScope, Untracked
    <3>2. r.entry = e /\ r.signal = None
      BY <1>3, <2>3 DEF StepEntry, Quietly
    <3>3. UNCHANGED <<entries, heard, seen>>
      BY <1>4, <1>5, <1>7, <2>3, <3>1, <3>2 DEF ScopesSound, Hear
    <3> QED BY <3>3, ScopesStay
  <2>4. CASE InOrder(e, lag)
    <3>1. Ready(e, h, w, p, lag)
      <4>1. CASE Tracked(entries[s])
        BY <1>2, <2>1, <2>2, <2>4, <4>1, TrackedIsReady
      <4>2. CASE ~Tracked(entries[s])
        <5>1. ScopeSound(Untracked, h, w, p) /\ e = NewScope(p, lag)
          BY <1>2, <2>2, <4>2 DEF ScopeSound
        <5> QED BY <1>7, <2>1, <5>1, NewIsReady
      <4> QED BY <4>1, <4>2
    <3>2. PICK f : f = r.entry
      OBVIOUS
    <3>3. PICK g : g = Hear(h, r.signal, p.mode)
      OBVIOUS
    <3>4. PICK v : v = See(w, p, t, lag, r.signal # None /\ r.signal.kind = "ended")
      OBVIOUS
    <3>5. Applied(e, f, g, v, p, lag)
      BY <1>3, <2>1, <3>1, <3>2, <3>3, <3>4, SnapshotHolds
    <3>6. /\ entries' = [entries EXCEPT ![s] = f] /\ heard' = [heard EXCEPT ![s] = g]
          /\ seen' = [seen EXCEPT ![s] = v]
      BY <1>7, <2>4, <3>2, <3>3, <3>4
    <3>7. f \in ScopeStates /\ g \in Listeners /\ v \in Sights
      BY <3>5 DEF Applied, ScopeSound
    <3>8. /\ entries'[s] = f /\ heard'[s] = g /\ seen'[s] = v
          /\ \A x \in Scopes \ {s} : entries'[x] = entries[x] /\ heard'[x] = heard[x] /\ seen'[x] = seen[x]
      BY <3>6 DEF ScopesSound
    <3>9. entries' \in [Scopes -> ScopeStates] /\ heard' \in [Scopes -> Listeners] /\ seen' \in [Scopes -> Sights]
      BY <3>6, <3>7 DEF ScopesSound
    <3>10. ScopeSound(entries'[s], heard'[s], seen'[s], WinnerFor(policies', s))
      BY <1>1, <3>5, <3>8 DEF Applied
    <3>11. ASSUME NEW x \in Scopes \ {s}
           PROVE  ScopeSound(entries'[x], heard'[x], seen'[x], WinnerFor(policies', x)) /\ InTime(x)
      BY <3>8 DEF ScopesSound, InTime
    <3>12. IsOpen(e) <=> IsOpen(entries[s])
      BY <1>2 DEF IsOpen, NewScope, Untracked, Tracked
    <3>13. InTime(s)
      <4>1. f.snapshot = lag
        BY <3>5 DEF Applied
      <4>2. ~IsOpen(entries[s]) /\ IsOpen(f) => OpenedInTime(v, p, lag)
        BY <3>5, <3>12 DEF Applied
      <4>3. IsOpen(entries[s]) /\ ~IsOpen(f) => ClosedInTime(entries[s], v, p, lag)
        <5>1. IsOpen(entries[s]) => e = entries[s]
          BY <1>2 DEF IsOpen, Tracked
        <5> QED BY <3>5, <5>1 DEF Applied
      <4> QED BY <1>1, <3>8, <4>1, <4>2, <4>3 DEF InTime
    <3> QED BY <3>9, <3>10, <3>11, <3>13 DEF ScopesSound
  <2> QED BY <2>3, <2>4
<1> QED BY <1>1, <1>2, <1>3, <1>4, <1>5, <1>6, <1>7 DEF EvaluateSnapshot

\* Scopes that are dropped, the others under the policies they were under.
LEMMA CloseExpiredHolds ==
    ASSUME policies \in PolicySets, ScopesSound,
           NEW dropped, \A s \in dropped : Tracked(entries[s]),
           CloseExpired(dropped, policies),
           \A s \in Scopes \ dropped : Tracked(entries[s]) =>
               WinnerFor(policies', s) = WinnerFor(policies, s)
    PROVE  ScopesSound' /\ \A s \in Scopes : InTime(s)
<1>1. ASSUME NEW s \in Scopes
      PROVE  /\ ScopeSound(entries'[s], heard'[s], seen'[s], WinnerFor(policies', s))
             /\ InTime(s)
  <2>0. ScopeSound(entries[s], heard[s], seen[s], WinnerFor(policies, s))
    BY DEF ScopesSound
  <2>1. CASE s \in dropped
    <3>1. entries'[s] = Untracked /\ seen'[s] = Unseen
      BY <2>1 DEF CloseExpired
    <3>2. heard'[s] = DroppedHeard(entries[s], heard[s], policies)
      BY <2>1 DEF CloseExpired, DroppedHeard
    <3>3. ScopeSound(Untracked, DroppedHeard(entries[s], heard[s], policies), Unseen, WinnerFor(policies', s))
      BY <2>0, <2>1, DroppedHolds
    <3>4. InTime(s)
      BY <3>1 DEF InTime, IsOpen, Tracked, Untracked
    <3> QED BY <3>1, <3>2, <3>3, <3>4
  <2>2. CASE s \notin dropped
    <3>1. entries'[s] = entries[s] /\ seen'[s] = seen[s] /\ heard'[s] = heard[s]
      BY <2>2 DEF CloseExpired
    <3>2. CASE Tracked(entries[s])
      BY <2>0, <2>2, <3>1, <3>2 DEF InTime
    <3>3. CASE ~Tracked(entries[s])
      <4>1. entries[s] = Untracked
        BY <2>0, <3>3 DEF ScopeSound
      <4>2. ScopeSound(Untracked, heard[s], seen[s], WinnerFor(policies', s))
        BY <2>0, <4>1, UntrackedHolds
      <4> QED BY <3>1, <4>1, <4>2 DEF InTime
    <3> QED BY <3>2, <3>3
  <2> QED BY <2>1, <2>2
<1>2. /\ entries' = [s \in Scopes |-> entries'[s]] /\ heard' = [s \in Scopes |-> heard'[s]]
      /\ seen' = [s \in Scopes |-> seen'[s]]
  BY DEF CloseExpired
<1>3. \A s \in Scopes : entries'[s] \in ScopeStates /\ heard'[s] \in Listeners /\ seen'[s] \in Sights
  BY <1>1 DEF ScopeSound
<1>4. entries' \in [Scopes -> ScopeStates] /\ heard' \in [Scopes -> Listeners] /\ seen' \in [Scopes -> Sights]
  BY <1>2, <1>3
<1> QED BY <1>1, <1>4 DEF ScopesSound

\* Time passes.
LEMMA PassHolds ==
    ASSUME policies \in PolicySets, ScopesSound, NEW d \in Nat, Pass(d), UNCHANGED policies
    PROVE  ScopesSound' /\ \A s \in Scopes : InTime(s)
<1>1. ASSUME NEW s \in Scopes
      PROVE  /\ ScopeSound(entries'[s], heard'[s], seen'[s], WinnerFor(policies', s))
             /\ InTime(s)
  <2>0. ScopeSound(entries[s], heard[s], seen[s], WinnerFor(policies, s))
    BY DEF ScopesSound
  <2>1. /\ entries'[s] = OlderEntry(entries[s], d) /\ heard'[s] = OlderHeard(heard[s], d)
        /\ seen'[s] = OlderSeen(seen[s], d)
    BY DEF Pass, OlderEntry, OlderHeard, OlderSeen
  <2>2. Tracked(entries[s]) => ValidPolicy(WinnerFor(policies, s))
    BY <2>0, PolicyIsKnown DEF ScopeSound
  <2>3. ScopeSound(entries'[s], heard'[s], seen'[s], WinnerFor(policies, s))
    BY <2>0, <2>1, <2>2, OlderHolds
  <2>4. IsOpen(entries'[s]) <=> IsOpen(entries[s])
    <3>1. entries[s] \in ScopeStates /\ heard[s] \in Listeners /\ seen[s] \in Sights
      BY DEF ScopesSound
    <3>2. CASE Tracked(entries[s])
      BY <2>1, <3>1, <3>2, OlderFields DEF IsOpen
    <3>3. CASE ~Tracked(entries[s])
      BY <2>1, <3>3 DEF OlderEntry, Tracked, IsOpen, Untracked
    <3> QED BY <3>2, <3>3
  <2> QED BY <2>3, <2>4 DEF InTime
<1>2. /\ entries' = [s \in Scopes |-> entries'[s]] /\ heard' = [s \in Scopes |-> heard'[s]]
      /\ seen' = [s \in Scopes |-> seen'[s]]
  BY DEF Pass
<1>3. \A s \in Scopes : entries'[s] \in ScopeStates /\ heard'[s] \in Listeners /\ seen'[s] \in Sights
  BY <1>1 DEF ScopeSound
<1>4. entries' \in [Scopes -> ScopeStates] /\ heard' \in [Scopes -> Listeners] /\ seen' \in [Scopes -> Sights]
  BY <1>2, <1>3
<1> QED BY <1>1, <1>4 DEF ScopesSound

\* The rest of the state: the window, its batch and what is left of it.
CycleOK ==
    /\ policies \in PolicySets
    /\ window \in 0 .. (Window - 1)
    /\ batch \in Batches /\ todo \subseteq Scopes /\ pc \in {"idle", "cycle"}

\* The inductive invariant.
DetectorInv == CycleOK /\ ScopesSound

\* Nothing is tracked at first.
LEMMA DetectorInit == DInit => DetectorInv
<1> SUFFICES ASSUME DInit PROVE DetectorInv
  OBVIOUS
<1>1. CycleOK
  BY TimesAssumption DEF DInit, CycleOK, Batches
<1>2. Untracked \in ScopeStates /\ Silent \in Listeners /\ Unseen \in Sights
  <2>1. /\ "untracked" \in Phases /\ None \in Idents /\ 0 \in Ages /\ None \in MaybeAge /\ 0 \in Numbers
        /\ None \in MaybeMode
    BY TimesAssumption, Numbered DEF Phases, Idents, Ages, MaybeAge, MaybeMode
  <2> QED BY <2>1 DEF Untracked, ScopeStates, Unseen, Sights, Silent, Listeners
<1>3. \A s \in Scopes : entries[s] = Untracked /\ heard[s] = Silent /\ seen[s] = Unseen
  BY DEF DInit
<1>4. ASSUME NEW p PROVE ScopeSound(Untracked, Silent, Unseen, p)
  <2>1. ~Tracked(Untracked) /\ ~IsOpen(Untracked) /\ Untracked.since = None /\ Silent.sound /\ ~Silent.open
    BY DEF Tracked, IsOpen, Untracked, Silent
  <2> QED BY <1>2, <2>1 DEF ScopeSound, Follows, UnderItsWinner
<1>5. ScopesSound
  <2>1. entries \in [Scopes -> ScopeStates] /\ heard \in [Scopes -> Listeners] /\ seen \in [Scopes -> Sights]
    BY <1>2 DEF DInit
  <2> QED BY <1>3, <1>4, <2>1 DEF ScopesSound
<1> QED BY <1>1, <1>5 DEF DetectorInv

\* Every step keeps it, and opens and closes in time.
LEMMA DetectorStep ==
    DetectorInv /\ [DNext]_dvars => DetectorInv' /\ \A s \in Scopes : InTime(s)
<1> SUFFICES ASSUME DetectorInv, [DNext]_dvars PROVE DetectorInv' /\ \A s \in Scopes : InTime(s)
  OBVIOUS
<1>0. CycleOK /\ ScopesSound /\ policies \in PolicySets
  BY DEF DetectorInv, CycleOK
<1>1. CASE UNCHANGED dvars
  BY <1>0, <1>1, ScopesStay DEF dvars, DetectorInv, CycleOK
<1>2. ASSUME NEW d \in 1 .. MaxDelay, TickEarly(d) PROVE DetectorInv' /\ \A s \in Scopes : InTime(s)
  <2>1. d \in Nat
    BY TimesAssumption
  <2>2. CycleOK'
    BY <1>0, <1>2, TimesAssumption DEF TickEarly, CycleOK
  <2> QED BY <1>0, <1>2, <2>1, <2>2, PassHolds DEF TickEarly, DetectorInv
<1>3. ASSUME NEW d \in 1 .. MaxDelay, NEW b \in Batches, TickDue(d, b)
      PROVE  DetectorInv' /\ \A s \in Scopes : InTime(s)
  <2>1. d \in Nat
    BY TimesAssumption
  <2>2. CycleOK'
    BY <1>0, <1>3, TimesAssumption DEF TickDue, CycleOK
  <2> QED BY <1>0, <1>3, <2>1, <2>2, PassHolds DEF TickDue, DetectorInv
<1>4. ASSUME NEW s \in Scopes, Evaluate(s) PROVE DetectorInv' /\ \A x \in Scopes : InTime(x)
  <2>1. CycleOK'
    BY <1>0, <1>4 DEF Evaluate, CycleOK
  <2>2. PICK t : t = batch[s]
    OBVIOUS
  <2>3. EvaluateSnapshot(s, t, 0) /\ UNCHANGED policies /\ 0 \in 0 .. MaxLag
    BY <1>4, <2>2, TimesAssumption DEF Evaluate
  <2> QED BY <1>0, <2>1, <2>3, EvaluateSnapshotHolds DEF DetectorInv
<1>5. ASSUME Sweep PROVE DetectorInv' /\ \A s \in Scopes : InTime(s)
  <2>1. CycleOK'
    BY <1>0, <1>5 DEF Sweep, CycleOK
  <2>2. PICK dropped : dropped = {s \in Scopes : Stale(s)}
    OBVIOUS
  <2>3. CloseExpired(dropped, policies) /\ UNCHANGED policies /\ \A s \in dropped : Tracked(entries[s])
    BY <1>5, <2>2 DEF Sweep, Stale
  <2> QED BY <1>0, <2>1, <2>3, CloseExpiredHolds DEF DetectorInv
<1>6. ASSUME NEW s \in Scopes, NEW t \in Traffics, NEW lag \in 0 .. MaxLag, Redeliver(s, t, lag)
      PROVE  DetectorInv' /\ \A x \in Scopes : InTime(x)
  <2>1. CycleOK'
    BY <1>0, <1>6 DEF Redeliver, CycleOK, Batches
  <2> QED BY <1>0, <1>6, <2>1, EvaluateSnapshotHolds DEF DetectorInv, Redeliver
<1>7. ASSUME NEW ps \in PolicySets, ReplacePolicies(ps) PROVE DetectorInv' /\ \A s \in Scopes : InTime(s)
  <2>1. CycleOK'
    BY <1>0, <1>7 DEF ReplacePolicies, CycleOK
  <2>2. PICK dropped : dropped = {s \in Scopes : Tracked(entries[s]) /\ ~StillWins(ps, s)}
    OBVIOUS
  <2>3. CloseExpired(dropped, policies) /\ policies' = ps /\ \A s \in dropped : Tracked(entries[s])
    BY <1>7, <2>2 DEF ReplacePolicies
  <2>4. ASSUME NEW s \in Scopes \ dropped, Tracked(entries[s])
        PROVE  WinnerFor(policies', s) = WinnerFor(policies, s)
    <3>1. WinnerFor(ps, s) # None /\ Ident(WinnerFor(ps, s)) = entries[s].policy
      BY <2>2, <2>4 DEF StillWins
    <3>2. WinnerFor(policies, s) # None /\ Ident(WinnerFor(policies, s)) = entries[s].policy
      BY <1>0, <2>4 DEF ScopesSound, ScopeSound, UnderItsWinner
    <3>3. WinnerFor(ps, s) \in ps /\ WinnerFor(policies, s) \in policies
      BY <1>0, <3>1, <3>2, WinnerIsThere
    <3> QED BY <1>0, <2>3, <3>1, <3>2, <3>3, PoliciesAssumption
  <2> QED BY <1>0, <2>1, <2>3, <2>4, CloseExpiredHolds DEF DetectorInv
<1> QED BY <1>1, <1>2, <1>3, <1>4, <1>5, <1>6, <1>7 DEF DNext, Ticking

(***************************************************************************)
(* Theorems.                                                               *)
(***************************************************************************)
\* The invariant: every scope is sound.
THEOREM DetectorInvHolds == DSpec => []DetectorInv
<1>1. DetectorInv /\ [DNext]_dvars => DetectorInv'
  BY DetectorStep
<1> QED BY <1>1, DetectorInit, PTL DEF DSpec

\* The types, and that an entry holds a start exactly while a detection is open.
THEOREM DetectorTypeCorrect == DSpec => []DetectorTypeOK
<1>1. DetectorInv => DetectorTypeOK
  BY DEF DetectorInv, CycleOK, ScopesSound, ScopeSound, DetectorTypeOK
<1> QED BY <1>1, DetectorInvHolds, PTL

\* TrackedUnderItsWinner, for any policy documents that an operator numbers as the code
\* expects: replace_policies resets what another policy wins, and nothing else does.
THEOREM TrackedUnderItsWinnerHolds == DSpec => []TrackedUnderItsWinner
<1>1. DetectorInv => TrackedUnderItsWinner
  BY DEF DetectorInv, ScopesSound, ScopeSound, UnderItsWinner, TrackedUnderItsWinner
<1> QED BY <1>1, DetectorInvHolds, PTL

\* EventsAreDetections, as long as no snapshot comes later than the shortest trigger
\* timer: with one that does, a scope that was reset while a detection was open opens
\* again at the same instant, and two detections have one identity.
THEOREM EventsAreDetectionsHolds == DSpec => [](Prompt => EventsAreDetections)
<1>1. DetectorInv => (Prompt => EventsAreDetections)
  BY DEF DetectorInv, ScopesSound, ScopeSound, Follows, EventsAreDetections
<1> QED BY <1>1, DetectorInvHolds, PTL

\* OpensInTime, whatever the timers, the traffic, late snapshots and policy changes.
THEOREM OpensInTimeHolds == DSpec => OpensInTime
<1> DEFINE Step == \A s \in Scopes : Opens(s) =>
                     LET p == WinnerFor(policies, s) IN
                     /\ seen'[s].over # None
                     /\ Elapsed(seen'[s].over, entries'[s].snapshot) >= p.trigger_for
                     /\ seen'[s].cleared = None
                        \/ Elapsed(seen'[s].cleared, entries'[s].snapshot) >= p.cooldown
<1>1. DetectorInv /\ [DNext]_dvars => [Step]_dvars
  BY DetectorStep DEF InTime, Opens, OpenedInTime
<1>2. DSpec => [][Step]_dvars
  BY <1>1, DetectorInvHolds, PTL DEF DSpec
<1> QED BY <1>2 DEF OpensInTime

\* ClosesInTime, likewise.
THEOREM ClosesInTimeHolds == DSpec => ClosesInTime
<1> DEFINE Step == \A s \in Scopes :
                     IsOpen(entries[s]) /\ ~IsOpen(entries'[s]) /\ Tracked(entries'[s]) =>
                         LET p == WinnerFor(policies, s) IN
                         /\ seen'[s].below # None
                         /\ Elapsed(seen'[s].below, entries'[s].snapshot) >= p.clear_for
                         /\ Elapsed(entries[s].since, entries'[s].snapshot) >= p.hold_down
<1>1. DetectorInv /\ [DNext]_dvars => [Step]_dvars
  BY DetectorStep DEF InTime, ClosedInTime
<1>2. DSpec => [][Step]_dvars
  BY <1>1, DetectorInvHolds, PTL DEF DSpec
<1> QED BY <1>2 DEF ClosesInTime
=============================================================================
