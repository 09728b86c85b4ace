----------------------------- MODULE MCDetector -----------------------------
(* Instances of Detector for TLC: two metrics, one of which needs a field  *)
(* that exporters may leave out, and policies that differ in every timer.  *)
EXTENDS Detector

TheMetrics == {"bits", "syn"}
TheReported == {"syn"}

Counts(bits, syn, fields) == [rates |-> [bits |-> bits, syn |-> syn], seen |-> fields]

\* Over, in the band, below, and below as far as can be told.
AllTraffics == {Counts(4, 0, {"syn"}), Counts(3, 0, {}), Counts(0, 0, {"syn"})}

Default ==
    [id |-> 1, version |-> 1, scopes |-> Scopes, specificity |-> 0, priority |-> 0,
     mode |-> "alert_only", window |-> 2, thresholds |-> [bits |-> 4, syn |-> 2],
     clear_percent |-> 50, trigger_for |-> 3, clear_for |-> 2, cooldown |-> 3,
     hold_down |-> 3, event_update_interval |-> 2]

\* One host's own policy, on the field that may be absent.
Host ==
    [Default EXCEPT !.id = 2, !.scopes = {1}, !.specificity = 900, !.mode = "observe",
                    !.thresholds = [syn |-> 1], !.trigger_for = 2, !.cooldown = 0, !.hold_down = 0]

Rewritten == [Default EXCEPT !.version = 2, !.window = 1]
Off == [Default EXCEPT !.id = 0, !.mode = "disabled", !.priority = 1]

Documents == {{Default, Host}, {Rewritten, Host}, {Default, Off}}
=============================================================================
