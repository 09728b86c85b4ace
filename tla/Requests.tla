------------------------------ MODULE Requests ------------------------------
(***************************************************************************)
(* The bodies tidegardctl sends (apps/cli/src/lib.rs and mitigations.rs)   *)
(* and the bodies the API takes (the request types of apps/api/src, all of *)
(* them deny_unknown_fields).  A body is the set of its fields.            *)
(***************************************************************************)
EXTENDS Tidegardctl

(* A request type: the fields it must have and those it may have.          *)
LOCAL Type(must, may) == [must |-> must, may |-> may]

VersionOnly == Type({"expected_version"}, {})
ResolveRequest == Type({"expected_version"}, {"resolution_note"})
CloseRequest == Type({"expected_version", "closure_reason"}, {"detail"})
ReopenRequest == Type({"expected_version", "reason"}, {})
SuppressRequest == Type({"expected_version", "reason", "expires_at"}, {})
AssignRequest == Type({"expected_version"}, {"user_id", "team_id"})
SeverityRequest == Type({"expected_version", "severity"}, {"reason"})
PriorityRequest == Type({"expected_version", "priority"}, {})
NoteRequest == Type({"body"}, {"visibility"})
NoteEditRequest == Type({"body"}, {})
NoteRedactRequest == Type({"reason"}, {})
TagRequest == Type({"value"}, {})
CreateIncidentRequest ==
    Type({"title", "severity", "target_scope", "target", "direction"},
         {"description", "priority", "address_family"})
MitigationRequestBody ==
    Type({"prefix", "action", "reason", "duration_seconds"}, {"flow", "bytes_per_second", "incident_id"})
ReasonBody == Type({"expected_version", "reason"}, {})
KillSwitchBody == Type({"engaged", "reason"}, {})
NoBody == Type({}, {})

(* Which endpoint a command is sent to: Action::path, and the paths of the *)
(* other commands.                                                         *)
path(verb) ==
    CASE verb = "release" -> "unassign"
      [] verb = "claim" -> "assign"
      [] OTHER -> verb

(* The request type of each endpoint (the transition! table, and the other *)
(* handlers).                                                              *)
transition(endpoint) ==
    CASE endpoint = "resolve" -> ResolveRequest
      [] endpoint = "close" -> CloseRequest
      [] endpoint = "reopen" -> ReopenRequest
      [] endpoint = "suppress" -> SuppressRequest
      [] endpoint = "assign" -> AssignRequest
      [] endpoint = "severity set" -> SeverityRequest
      [] endpoint = "priority set" -> PriorityRequest
      [] OTHER -> VersionOnly

request(endpoint) ==
    CASE endpoint = "note add" -> NoteRequest
      [] endpoint = "note edit" -> NoteEditRequest
      [] endpoint = "note redact" -> NoteRedactRequest
      [] endpoint = "tag set" -> TagRequest
      [] endpoint \in {"tag remove", "export"} -> NoBody
      [] endpoint = "open" -> CreateIncidentRequest
      [] endpoint = "request" -> MitigationRequestBody
      [] endpoint = "approve" -> VersionOnly
      [] endpoint \in {"reject", "withdraw"} -> ReasonBody
      [] endpoint = "engage" -> KillSwitchBody
      [] OTHER -> transition(endpoint)

(* body::json, and assignee, which wants exactly one of its two.           *)
json(endpoint, body) ==
    LET type == request(endpoint)
    IN  /\ type.must \subseteq body /\ body \subseteq type.must \cup type.may
        /\ endpoint = "assign" => Cardinality(body \cap {"user_id", "team_id"}) = 1

------------------------------------------------------------------------------
(* The client's side: flags under their names in the body, what stands in  *)
(* the words themselves, and the version where one is sent.  A field left  *)
(* out is omitted.                                                         *)

field(verb, flag) ==
    CASE flag = "note" -> "resolution_note"
      [] flag = "reason" /\ verb = "close" -> "closure_reason"
      [] flag \in {"until", "for"} /\ verb = "suppress" -> "expires_at"
      [] flag = "user" -> "user_id"
      [] flag = "team" -> "team_id"
      [] flag = "message" -> "body"
      [] flag = "for" -> "duration_seconds"
      [] flag = "rate" -> "bytes_per_second"
      [] flag = "incident" -> "incident_id"
      [] flag \in {"protocol", "source", "source_port", "destination_port"} -> "flow"
      [] OTHER -> flag

words(verb) ==
    CASE verb = "severity set" -> {"severity"}
      [] verb = "priority set" -> {"priority"}
      [] verb = "tag set" -> {"value"}
      [] verb = "claim" -> {"user_id"}
      [] verb = "engage" -> {"engaged"}
      [] OTHER -> {}

body(line) ==
    LET given == {line.flags[i] : i \in DOMAIN line.flags} \ {"expected_version", "file"}
    IN  {field(line.verb, f) : f \in given}
        \cup words(line.verb)
        \cup IF is_versioned(line.verb) \/ line.verb \in MitigationAction THEN {"expected_version"} ELSE {}
=============================================================================
