------------------------------ MODULE Commands ------------------------------
(***************************************************************************)
(* One operator command from the command line to the record and back:      *)
(* tidegardctl (apps/cli) reads what it needs, asks, sends the call and    *)
(* retries it up to MAX_ATTEMPTS times with the same body and the same     *)
(* Idempotency-Key; the API (apps/api/src/transitions.rs, create.rs,       *)
(* export.rs, mitigations.rs) decides each attempt in a transaction of its *)
(* own and re-reads what it answers with.  An attempt the client gave up   *)
(* on goes on at the server until the server notices.                      *)
(*                                                                         *)
(* The row lock (for `open`, the allocator's) serialises the transactions  *)
(* of one resource, so loading, deciding and flushing are one step.        *)
(***************************************************************************)
EXTENDS RateLimit, Requests

CONSTANTS
    Lines,              \* the command lines an operator may give
    CallerRoles,        \* the roles their token may carry
    MAX_ATTEMPTS,
    MUTATION_QUOTA,
    MaxClock, MaxElsewhere    \* bounds of the model

ASSUME AttemptsAssumption == MAX_ATTEMPTS \in Nat \ {0}

Attempts == 1..MAX_ATTEMPTS

(* RequestFingerprint and IdempotencyRecord, which None is not.            *)
Fingerprints == {<<verb>> : verb \in Command} \cup ({"suppress"} \X Int)
Outcomes == {"ok", "InvalidTransition", "ValidationError", "DuplicateActiveIncident"}
KeyRecords == [fingerprint : Fingerprints, error : Outcomes]

ASSUME KeyRecordsAssumption == None \notin KeyRecords

VARIABLES
    cli,        \* the command
    attempts,   \* [Attempts -> what became of each attempt at the server]
    version,    \* the incident's or mitigation's version
    keys,       \* the idempotency record of the command's key, or None
    engaged,    \* the kill switch
    revoked,    \* whether the caller's token was revoked meanwhile
    mutations,  \* Limits.mutations, for this caller
    clock,
    elsewhere,  \* how often others changed something, for the bound
    applied     \* history: how often the command took effect

cvars == <<cli, attempts, version, keys, engaged, revoked, mutations, clock, elsewhere, applied>>
serverVars == <<version, keys, engaged, revoked, mutations, clock, elsewhere, applied>>

CommandsInit ==
    /\ cli = [pc |-> "shell"]
    /\ attempts = [a \in Attempts |-> [pc |-> "none"]]
    /\ version = 1 /\ keys = None
    /\ engaged = FALSE /\ revoked = FALSE
    /\ mutations = NoKeys
    /\ clock = 0 /\ elsewhere = 0 /\ applied = 0

------------------------------------------------------------------------------
(* Permissions: each role has what the one before it has (permissions_for).*)
RoleOrder == <<"viewer", "operator", "senior_operator", "noc_lead">>

rank(role) == CHOOSE i \in DOMAIN RoleOrder : RoleOrder[i] = role

(* Command::required_permission, as the least role that holds it.          *)
required_permission(verb) ==
    CASE verb \in {"acknowledge", "investigate", "monitor", "assign", "claim", "unassign", "release",
                   "note add", "note edit"} -> "operator"
      [] verb \in {"resolve", "close", "reopen", "severity set", "priority set", "open", "request",
                   "withdraw"} -> "senior_operator"
      [] OTHER -> "noc_lead"

may(role, verb) == rank(role) >= rank(required_permission(verb))

------------------------------------------------------------------------------
(* The client.                                                             *)

Exits(code) == cli' = [cli EXCEPT !.pc = "done", !.exit = code]

(* run_with: a line that does not parse does nothing.                      *)
run_with(line, role) ==
    /\ cli.pc = "shell"
    /\ cli' = [pc |-> IF ~parse(line) \/ unresolvable(line) THEN "done"
                      ELSE IF needs_current(line) \/ resolves(line) THEN "reading" ELSE "asking",
               line |-> line, role |-> role, version |-> 1, lowers |-> FALSE, until |-> None,
               attempt |-> 0, exit |-> USAGE]
    /\ UNCHANGED <<attempts, serverVars>>

(* fetch, for what must be read first: its own retries and failures come   *)
(* down to an exit code.  claim also asks who the caller is, and stops for *)
(* one who is not an operator (caller).                                    *)
fetch ==
    /\ cli.pc = "reading"
    /\ \/ \E lowers \in BOOLEAN :
            /\ lowers => cli.line.verb = "severity set"
            /\ cli' = [cli EXCEPT !.pc = "asking", !.version = version, !.lowers = lowers]
       \/ \E code \in {AUTH, NOT_FOUND, RATE_LIMITED, UNAVAILABLE} : Exits(code)
       \/ cli.line.verb = "claim" /\ Exits(USAGE)
    /\ UNCHANGED <<attempts, serverVars>>

(* confirm: nobody to ask is an error; anything but yes aborts.  Then the  *)
(* body is built, once: `--for` becomes a moment now (body).               *)
confirm ==
    /\ cli.pc = "asking"
    /\ \/ /\ asks(cli.line, cli.lowers)
          /\ Exits(IF cli.line.tty THEN FAILURE ELSE USAGE)
       \/ /\ asks(cli.line, cli.lowers) => cli.line.tty
          /\ cli' = [cli EXCEPT !.pc = "sending", !.until = clock + 2, !.attempt = 1]
    /\ UNCHANGED <<attempts, serverVars>>

(* Client::once: the attempt reaches the server, or no connection is made. *)
once ==
    /\ cli.pc = "sending"
    /\ \/ /\ attempts' = [attempts EXCEPT ![cli.attempt] = [pc |-> "arrived"]]
          /\ cli' = [cli EXCEPT !.pc = "waiting"]
       \/ /\ cli' = IF cli.attempt < MAX_ATTEMPTS
                    THEN [cli EXCEPT !.attempt = @ + 1]
                    ELSE [cli EXCEPT !.pc = "done", !.exit = UNAVAILABLE]
          /\ UNCHANGED attempts
    /\ UNCHANGED serverVars

(* Client::send, on an answer: only a server error is tried again.  An     *)
(* export that came may still fail to be written: a file is never          *)
(* overwritten.                                                            *)
send ==
    LET reply == attempts[cli.attempt]
    IN  /\ cli.pc = "waiting" /\ reply.pc = "answered"
        /\ IF is_server_error(reply.status) /\ cli.attempt < MAX_ATTEMPTS
           THEN cli' = [cli EXCEPT !.pc = "sending", !.attempt = @ + 1]
           ELSE \/ Exits(IF reply.status < 300 THEN SUCCESS ELSE for_status(reply.status))
                \/ /\ reply.status < 300 /\ writes_file(cli.line)
                   /\ \E code \in {USAGE, FAILURE} : Exits(code)
        /\ UNCHANGED <<attempts, serverVars>>

(* Client::send, on ATTEMPT_TIMEOUT or a broken connection.                *)
give_up ==
    /\ cli.pc = "waiting"
    /\ IF cli.attempt < MAX_ATTEMPTS
       THEN cli' = [cli EXCEPT !.pc = "sending", !.attempt = @ + 1]
       ELSE Exits(UNAVAILABLE)
    /\ UNCHANGED <<attempts, serverVars>>

------------------------------------------------------------------------------
(* The API.                                                                *)

(* ErrorCode::status.                                                      *)
status_of(code) ==
    CASE code = "InvalidRequest" -> 400
      [] code = "Unauthenticated" -> 401
      [] code \in {"Forbidden", "SelfApproval"} -> 403
      [] code \in {"IllegalTransition", "VersionConflict", "IdempotencyKeyReuse", "DuplicateActive",
                   "KillSwitch"} -> 409
      [] code = "ValidationFailed" -> 422
      [] code = "RateLimited" -> 429
      [] code = "Internal" -> 500
      [] code = "Unavailable" -> 503

(* Problem::from: the code an error of the domain or of the store is       *)
(* answered with; the others are raised as codes.                          *)
Problem(error) ==
    CASE error = "Unauthorized" -> "Forbidden"
      [] error = "InvalidTransition" -> "IllegalTransition"
      [] error = "IdempotencyConflict" -> "IdempotencyKeyReuse"
      [] error \in {"DuplicateActiveIncident", "Duplicate"} -> "DuplicateActive"
      [] error = "ValidationError" -> "ValidationFailed"
      [] error = "InternalInvariantViolation" -> "Internal"
      [] OTHER -> error

Status(error) == IF error = "ok" THEN 200 ELSE status_of(Problem(error))

Answer(a, status) == attempts' = [attempts EXCEPT ![a] = [pc |-> "answered", status |-> status]]

(* RequestFingerprint::of: what is compared is the domain command, not the *)
(* body.  suppress carries suppression_duration, the time left from now.   *)
suppression_duration(until) == until - clock

fingerprint(verb) ==
    IF verb = "suppress" THEN <<verb, suppression_duration(cli.until)>> ELSE <<verb>>

(* optional_key: a note, a tag, an export and the changes of a mitigation  *)
(* do without one.                                                         *)
key_required(verb) == verb \in (Action \ note_verbs) \cup {"open", "request"}

(* What reading the values of a well-formed body may still refuse: a       *)
(* target that is no address, a family that does not fit it, a prefix or   *)
(* an action that makes no sense (MitigationInvalid is a 422 too).         *)
manual_incident == {"InvalidRequest"}
request_from == {"ValidationError"}

(* What a handler does before its first await: the limit, the key and the  *)
(* body (apply, note_change, tag_command, create_incident, change).        *)
apply(a) ==
    LET counted == check(mutations, MUTATION_QUOTA, 1, "caller", clock)
        verb == cli.line.verb
        shaped == (key_required(verb) => idempotency_key(verb)) /\ json(path(verb), body(cli.line))
        refusals == IF verb = "open" THEN manual_incident
                    ELSE IF verb = "request" THEN request_from ELSE {}
    IN  /\ mutations' = counted.tats
        /\ IF counted.result # Counted THEN Answer(a, Status("RateLimited"))
           ELSE IF ~shaped THEN Answer(a, Status("InvalidRequest"))
           ELSE IF verb = "suppress" /\ suppression_duration(cli.until) <= 0
           THEN Answer(a, Status("ValidationError"))
           ELSE \/ \E e \in refusals : Answer(a, Status(e))
                \/ attempts' = [attempts EXCEPT ![a] =
                                  [pc |-> "deciding", fingerprint |-> fingerprint(verb)]]

(* The middleware in front of it.                                          *)
handle(a) ==
    /\ attempts[a].pc = "arrived"
    /\ IF revoked THEN Answer(a, Status("Unauthenticated")) /\ UNCHANGED mutations
       ELSE \/ apply(a)
            \/ Answer(a, Status("Unavailable")) /\ UNCHANGED mutations
    /\ UNCHANGED <<cli, version, keys, engaged, revoked, clock, elsewhere, applied>>

------------------------------------------------------------------------------
(* What a transaction decides: the error or "ok", whether the change takes *)
(* effect, and the idempotency record it leaves.                           *)

Decision(error, effect, record) == [error |-> error, effect |-> effect, keys |-> record]
Refuses(error) == Decision(error, FALSE, keys)

(* IdempotencyStore::check, and one that finds no record.                  *)
check_finds_nothing(print) == "new"

check_key(print) ==
    IF keys = None THEN "new" ELSE IF keys.fingerprint = print THEN "replay" ELSE "conflict"

(* An outcome the domain reached is recorded, a failure too - all but an   *)
(* internal one, so that a retry may succeed.                              *)
Recorded(error, print) ==
    Decision(error, error = "ok",
             IF error = "InternalInvariantViolation" THEN keys
             ELSE [fingerprint |-> print, error |-> error])

(* handle_command, on an operator that may: the key before the version.    *)
handle_command(verb, print) ==
    IF ~may(cli.role, verb) THEN {Refuses("Unauthorized")}
    ELSE CASE check_key(print) = "replay" -> {Refuses(keys.error)}
           [] check_key(print) = "conflict" -> {Refuses("IdempotencyConflict")}
           [] OTHER ->
                IF is_versioned(verb) /\ cli.version # version THEN {Refuses("VersionConflict")}
                ELSE {Recorded(e, print) :
                        e \in {"ok", "InvalidTransition", "ValidationError", "InternalInvariantViolation"}}

(* create_manual_incident.                                                 *)
create_manual_incident(print) ==
    IF ~may(cli.role, "open") THEN {Refuses("Unauthorized")}
    ELSE CASE check_key(print) = "replay" -> {Refuses(keys.error)}
           [] check_key(print) = "conflict" -> {Refuses("IdempotencyConflict")}
           [] OTHER -> {Recorded(e, print) :
                          e \in {"ok", "DuplicateActiveIncident", "ValidationError"}}

(* MitigationStore::create: the guard is asked before the key is looked    *)
(* up, and only a success is recorded.                                     *)
request_mitigation(print) ==
    IF ~may(cli.role, "request") THEN {Refuses("Forbidden")}
    ELSE IF engaged THEN {Refuses("KillSwitch")}
    ELSE IF keys # None THEN {Refuses(IF keys.fingerprint = print THEN "ok" ELSE "IdempotencyConflict")}
    ELSE {Refuses("Duplicate"), Recorded("ok", print)}

(* change: the key is not looked at; the version is.                       *)
change(verb) ==
    IF ~may(cli.role, verb) THEN {Refuses("Forbidden")}
    ELSE IF cli.version # version THEN {Refuses("VersionConflict")}
    ELSE {Refuses("InvalidTransition"), Decision("ok", TRUE, keys)}
         \cup IF verb = "approve" THEN {Refuses("SelfApproval")} ELSE {}

(* set_kill_switch: already on is a success that changes nothing.          *)
set_kill_switch ==
    IF ~may(cli.role, "engage") THEN {Refuses("Forbidden")}
    ELSE {Decision("ok", ~engaged, keys)}

(* record_export: every call leaves an audit entry, before anything is     *)
(* read.                                                                   *)
record_export ==
    IF ~may(cli.role, "export") THEN {Refuses("Unauthorized")}
    ELSE {Decision("ok", TRUE, keys)}

decide(verb, print) ==
    CASE verb \in Action \cup {"tag set", "tag remove"} -> handle_command(verb, print)
      [] verb = "open" -> create_manual_incident(print)
      [] verb = "request" -> request_mitigation(print)
      [] verb \in MitigationAction -> change(verb)
      [] verb = "engage" -> set_kill_switch
      [] OTHER -> record_export

(* Every effect on an incident or a mitigation makes a new version.        *)
Commits(verb, d) ==
    /\ keys' = d.keys
    /\ version' = IF d.effect /\ verb \notin {"engage", "export"} THEN version + 1 ELSE version
    /\ engaged' = (engaged \/ (verb = "engage" /\ d.effect))
    /\ applied' = IF d.effect THEN applied + 1 ELSE applied

(* execute: the transaction commits and its answer is known; or it commits *)
(* and the connection breaks first, which is a 500; or nothing commits.    *)
execute(a) ==
    LET verb == cli.line.verb
    IN  /\ attempts[a].pc = "deciding"
        /\ \/ \E d \in decide(verb, attempts[a].fingerprint) :
                /\ Commits(verb, d)
                /\ \/ IF d.error # "ok" THEN Answer(a, Status(d.error))
                      ELSE IF verb = "engage" THEN Answer(a, 200)
                      ELSE attempts' = [attempts EXCEPT ![a] = [pc |-> "committed"]]
                   \/ Answer(a, Status("InternalInvariantViolation"))
           \/ Answer(a, Status("Unavailable")) /\ UNCHANGED <<version, keys, engaged, applied>>
        /\ UNCHANGED <<cli, revoked, mutations, clock, elsewhere>>

(* The re-read the answer is made of: get_incident, detail, export.        *)
get_incident(a) ==
    /\ attempts[a].pc = "committed"
    /\ Answer(a, 200) \/ Answer(a, Status("Unavailable"))
    /\ UNCHANGED <<cli, serverVars>>

(* A client that closed its connection: the handler is dropped at an await.*)
Dropped(a) ==
    /\ attempts[a].pc \in {"arrived", "deciding"}
    /\ cli.pc = "done" \/ a < cli.attempt
    /\ attempts' = [attempts EXCEPT ![a] = [pc |-> "none"]]
    /\ UNCHANGED <<cli, serverVars>>

------------------------------------------------------------------------------
(* Meanwhile: others change the resource, the token is revoked, the host's *)
(* administrator turns the kill switch (host_admin_context).               *)
Elsewhere ==
    /\ cli.pc # "shell" /\ elsewhere < MaxElsewhere
    /\ elsewhere' = elsewhere + 1
    /\ \/ version' = version + 1 /\ UNCHANGED <<revoked, engaged>>
       \/ ~revoked /\ revoked' = TRUE /\ UNCHANGED <<version, engaged>>
       \/ cli.line.verb \in {"request", "engage"} /\ engaged' = ~engaged /\ UNCHANGED <<version, revoked>>
    /\ UNCHANGED <<cli, attempts, keys, mutations, clock, applied>>

ClockTicks ==
    /\ cli.pc \in {"waiting", "sending"} /\ clock < MaxClock
    /\ clock' = clock + 1
    /\ UNCHANGED <<cli, attempts, version, keys, engaged, revoked, mutations, elsewhere, applied>>

CommandsNext ==
    \/ \E line \in Lines, role \in CallerRoles : run_with(line, role)
    \/ fetch \/ confirm \/ once \/ send \/ give_up
    \/ \E a \in Attempts : handle(a) \/ execute(a) \/ get_incident(a) \/ Dropped(a)
    \/ Elsewhere
    \/ ClockTicks

CommandsSpec == CommandsInit /\ [][CommandsNext]_cvars

------------------------------------------------------------------------------
(* The commands a retry of which the API answers from the record.          *)
Replayable ==
    (Action \cup {"open", "tag set", "tag remove"}) \ {"suppress"}

(* A retried call is one call: a command that carries a key or a version   *)
(* takes effect at most once, however many attempts of it are in flight    *)
(* and however late they land; one that reports success did; and where the *)
(* outcome is recorded under the key, one that reports a conflict did not  *)
(* and never will (Client::send resends the same Call; handle_command and  *)
(* create_manual_incident look the key up before they look at the version).*)
RetriedCallIsOneCall ==
    cli.pc # "shell" =>
        LET verb == cli.line.verb
        IN  /\ verb \notin {"engage", "export"} => applied <= 1
            /\ cli.pc = "done" /\ cli.exit = SUCCESS /\ verb # "engage" => applied >= 1
            /\ cli.pc = "done" /\ cli.exit = CONFLICT /\ verb \in Replayable => applied = 0

(* What the API promises of an Idempotency-Key: a command that took effect *)
(* is not reported as a conflict, because a retry with the same key and    *)
(* body replays the first outcome (transitions.rs, the parameter's         *)
(* description of every transition endpoint).                              *)
RetryIsReplayed ==
    cli.pc = "done" /\ cli.exit = CONFLICT => applied = 0
=============================================================================
