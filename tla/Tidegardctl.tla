---------------------------- MODULE Tidegardctl -----------------------------
(***************************************************************************)
(* tidegardctl, the operator's command line (apps/cli): what a command     *)
(* line means, what it asks before it acts, and what the exit code says.   *)
(* A line is                                                               *)
(*   [verb, flags, yes, ref, tty]                                          *)
(* the words before the arguments, the value flags in the order given, the *)
(* --yes switch, how the incident or mitigation is named, and whether      *)
(* there is a terminal to ask at.                                          *)
(***************************************************************************)
EXTENDS Integers, Sequences, FiniteSets

SUCCESS == 0
FAILURE == 1
USAGE == 2
AUTH == 3
CONFLICT == 4
NOT_FOUND == 5
RATE_LIMITED == 6
UNAVAILABLE == 7

(* exit::for_status, for an answer that was not a success.                 *)
for_status(status) ==
    CASE status \in {400, 413, 415, 422} -> USAGE
      [] status \in {401, 403} -> AUTH
      [] status = 404 -> NOT_FOUND
      [] status = 409 -> CONFLICT
      [] status = 429 -> RATE_LIMITED
      [] status \in 500..599 \ {501} -> UNAVAILABLE
      [] OTHER -> FAILURE

is_server_error(status) == status \in 500..599

------------------------------------------------------------------------------
(* The commands that change something, by the words that name them.        *)

(* is_change_verb: the incident changes of one word.                       *)
change_verbs ==
    {"acknowledge", "investigate", "monitor", "unassign", "release", "unsuppress", "resolve",
     "close", "reopen", "suppress", "assign", "claim"}

(* The other words of Action, and whether the API wants expected_version.  *)
note_verbs == {"note add", "note edit", "note redact"}
Action == change_verbs \cup note_verbs \cup {"severity set", "priority set"}
is_versioned(verb) == verb \in Action \ note_verbs

MitigationAction == {"approve", "reject", "withdraw"}

(* Command: the ones that read are left to the reading side of the API.    *)
Command ==
    Action \cup MitigationAction
    \cup {"open", "export", "tag set", "tag remove", "request", "engage"}

------------------------------------------------------------------------------
(* Parsing.                                                                *)

VALUE_FLAGS ==
    {"expected_version", "note", "reason", "detail", "until", "for", "user", "team", "message",
     "file", "title", "description", "severity", "priority", "target_scope", "target",
     "direction", "address_family", "prefix", "action", "incident", "protocol", "source",
     "source_port", "destination_port", "rate"}

CREDENTIAL_FLAGS == {"token", "api_token", "password", "secret"}

(* The flags a command must have (Flags::require), may have (Flags::take), *)
(* and of which it must have exactly one.                                  *)
require(verb) ==
    CASE verb \in {"note add", "note edit"} -> {"message"}
      [] verb \in {"note redact", "close", "reopen", "suppress", "reject", "withdraw", "engage"} -> {"reason"}
      [] verb = "open" -> {"title", "severity", "target_scope", "target", "direction"}
      [] verb = "request" -> {"prefix", "action", "reason", "for"}
      [] OTHER -> {}

take(verb) ==
    (CASE verb = "resolve" -> {"note"}
       [] verb = "close" -> {"detail"}
       [] verb = "severity set" -> {"reason"}
       [] verb = "open" -> {"description", "priority", "address_family"}
       [] verb = "export" -> {"file"}
       [] verb = "request" ->
            {"incident", "protocol", "source", "source_port", "destination_port", "rate"}
       [] OTHER -> {})
    \cup IF is_versioned(verb) \/ verb \in MitigationAction THEN {"expected_version"} ELSE {}

either(verb) ==
    CASE verb = "suppress" -> {"until", "for"}
      [] verb = "assign" -> {"user", "team"}
      [] OTHER -> {}

(* Flags::finish refuses whatever the command did not take, and --yes on a *)
(* command that asks nothing by its kind.                                  *)
allows_yes(verb) == verb \in Action \cup MitigationAction \cup {"engage"}

finish(line) ==
    LET given == {line.flags[i] : i \in DOMAIN line.flags}
    IN  /\ given \subseteq require(line.verb) \cup take(line.verb) \cup either(line.verb)
        /\ line.yes => allows_yes(line.verb)

(* change: an incident or a note is named by an id or a number; the words  *)
(* of a mitigation take an id only (mitigation_command).                   *)
named(line) == line.verb \in MitigationAction => line.ref = "id"

(* parse: a flag is given once, the required ones are there, one of the    *)
(* alternatives, nothing is left over, and no credential is on the line.   *)
parse(line) ==
    LET given == {line.flags[i] : i \in DOMAIN line.flags}
    IN  /\ line.verb \in Command
        /\ given \cap CREDENTIAL_FLAGS = {}
        /\ given \subseteq VALUE_FLAGS
        /\ Cardinality(given) = Len(line.flags)
        /\ require(line.verb) \subseteq given
        /\ either(line.verb) # {} => Cardinality(either(line.verb) \cap given) = 1
        /\ finish(line)
        /\ named(line)

------------------------------------------------------------------------------
(* Before a change is sent.                                                *)

pinned(line) == "expected_version" \in {line.flags[i] : i \in DOMAIN line.flags}

(* confirmation and question: the changes worth asking about; lowering a   *)
(* severity depends on the one just read.                                  *)
confirmation(verb, lowers) ==
    \/ verb \in {"close", "reopen", "suppress", "note redact"}
    \/ verb = "severity set" /\ lowers

question(verb) == verb \in {"approve", "withdraw"}

asks(line, lowers) ==
    /\ ~line.yes
    /\ confirmation(line.verb, lowers) \/ question(line.verb) \/ line.verb = "engage"

(* What must be read first: the version, unless it is pinned; a severity,  *)
(* to tell whether it is lowered; a mitigation, to ask about it.           *)
needs_current(line) ==
    \/ is_versioned(line.verb) /\ ~pinned(line)
    \/ line.verb = "severity set"
    \/ line.verb \in MitigationAction /\ (~pinned(line) \/ (line.verb # "reject" /\ ~line.yes))

(* resolve_id: a number, or a word that is neither, costs a lookup or the  *)
(* command.  A mitigation request resolves the incident it names, and      *)
(* claim looks up its caller.                                              *)
resolves(line) ==
    line.verb = "claim" \/ (line.ref = "number" /\ line.verb \notin {"open", "engage"} \cup MitigationAction)
unresolvable(line) == line.ref = "bad" /\ line.verb \notin {"open", "engage"} \cup MitigationAction

writes_file(line) == line.verb = "export" /\ line.flags # << >>

(* Which calls carry an idempotency key: every change but an export.       *)
idempotency_key(verb) == verb # "export"
=============================================================================
