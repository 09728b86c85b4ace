---------------------------- MODULE MCIncidents -----------------------------
(***************************************************************************)
(* Small instances of Incidents: an attack on one target that starts, ends *)
(* and comes back, and the ways an event can be of no use.                 *)
(***************************************************************************)
EXTENDS Incidents, TLC

CONSTANTS host, w1, w2, m, o

Pool == 1..4
Useful == 1..3
OneKey == {host}
OwnSlot == host :> host
HostOf == [e \in Events |-> host]

\* Detection A starts and ends, detection B starts with critical severity; of no use:
\* an event nobody can read.
Episodes == <<"A", "A", "B", "C">>
Kinds == <<"started", "ended", "started", "started">>
Classes == <<"plain", "plain", "plain", "garbled">>
Critical == [e \in Events |-> e = 3]

\* A move, a resolution, a reopening and a change of severity.
OfEachKind == {"acknowledged", "resolve_with_note", "reopen", "escalate"}

Symmetric == Permutations(Workers)
=============================================================================
