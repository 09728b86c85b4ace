------------------------------ MODULE Identity ------------------------------
(***************************************************************************)
(* Who a caller of the API is (apps/api/src/auth.rs, session.rs and        *)
(* token_admin.rs): API tokens, the browser sessions made from them, the   *)
(* middleware in front of every endpoint, signing in and out, and the      *)
(* limit on failed authentications per source address.                     *)
(*                                                                         *)
(* A request is handled by a task that suspends at every statement: what   *)
(* it read (and the time it captured) before an await may be stale after   *)
(* it.  A statement itself is one step, and takes the time it runs at.     *)
(***************************************************************************)
EXTENDS RateLimit, FiniteSetsExt

CONSTANTS
    Slots,                      \* requests that can be in flight at once
    Tokens, SessionIds, Sources,
    Callers,                    \* the sets of requests that may be made together
    Lifetimes,                  \* token lifetimes an administrator may ask for
    MAX_LIFETIME,               \* token_admin::MAX_LIFETIME_DAYS
    IDLE_TIMEOUT, ABSOLUTE_LIFETIME, TOUCH_INTERVAL,
    FAILED_AUTH_QUOTA, FAILED_AUTH_MAX_KEYS,
    MaxTime, MaxRequests        \* bounds of the model

ASSUME IdentityAssumption ==
    /\ {IDLE_TIMEOUT, TOUCH_INTERVAL, ABSOLUTE_LIFETIME, MAX_LIFETIME} \subseteq Nat
    /\ {FAILED_AUTH_QUOTA.limit, FAILED_AUTH_QUOTA.window} \subseteq Nat
    /\ None \notin Nat
    /\ \A crowd \in Callers : \A q \in crowd : q.source \in Sources

VARIABLES
    callers,    \* the requests callers make: one of Callers
    now,        \* the database's clock and the process's
    tokens,     \* api_tokens: [Tokens -> None or the row]
    sessions,   \* api_sessions: [SessionIds -> None or the row]
    requests,   \* [Slots -> None or a request in flight]
    failures,   \* AuthLayerState.failures, a limiter in memory
    asked,      \* how many requests there were, for the bound
    issued,     \* the session ids ever generated
    used,       \* history: when each session last let a request through
    failed      \* history: when each source's latest refused request arrived

ivars == <<callers, now, tokens, sessions, requests, failures, asked, issued, used, failed>>

(* Role: the roles a token may carry, never platform_admin.                *)
Roles == {"viewer", "operator", "senior_operator", "noc_lead"}

(* principal_from: a row whose actor or role the API does not know is      *)
(* refused like a missing one.                                             *)
principal_from(row) == row.actor \in {"operator", "service_account"} /\ row.role \in Roles

------------------------------------------------------------------------------
(* The rows the lookups find.                                              *)

LiveToken(row) == row # None /\ ~row.revoked /\ row.expires > now

SessionLookup(s) ==
    LET row == sessions[s]
    IN  /\ row # None
        /\ row.expires > now
        /\ row.seen > now - IDLE_TIMEOUT
        /\ LiveToken(tokens[row.token])

(* last_seen_at is due a write, and (stale_late) a form with the bound at  *)
(* the wrong interval.                                                     *)
stale_late(row) == row.seen < now - IDLE_TIMEOUT
stale(row) == row.seen < now - TOUCH_INTERVAL

(* session_cookie: exactly one session cookie counts.                      *)
session_cookie(cookies) == IF Cardinality(cookies) = 1 THEN CHOOSE s \in cookies : TRUE ELSE None

needs_csrf(method) == method \notin {"GET", "HEAD", "OPTIONS"}

IdentityInit ==
    /\ callers \in Callers
    /\ now = 0
    /\ tokens = [t \in Tokens |-> None]
    /\ sessions = [s \in SessionIds |-> None]
    /\ requests = [r \in Slots |-> None]
    /\ failures = NoKeys
    /\ asked = 0 /\ issued = {}
    /\ used = [s \in SessionIds |-> None]
    /\ failed = [src \in Sources |-> None]

------------------------------------------------------------------------------
(* tidegard-api token create and revoke, run on the API host.              *)
create(t, actor, role, lifetime) ==
    /\ tokens[t] = None
    /\ lifetime \in 1..MAX_LIFETIME
    /\ tokens' = [tokens EXCEPT ![t] = [actor |-> actor, role |-> role, revoked |-> FALSE,
                                        expires |-> now + lifetime]]
    /\ UNCHANGED <<callers, now, sessions, requests, failures, asked, issued, used, failed>>

revoke(t) ==
    /\ tokens[t] # None /\ ~tokens[t].revoked
    /\ tokens' = [tokens EXCEPT ![t].revoked = TRUE]
    /\ UNCHANGED <<callers, now, sessions, requests, failures, asked, issued, used, failed>>

------------------------------------------------------------------------------
(* A request arrives: the time is captured once, and a source over its     *)
(* failures is refused before any work.  bearer: a bearer credential wins  *)
(* over a cookie.                                                          *)
bearer(q) == q.bearer # None

Arrive(r, q) ==
    /\ requests[r] = None /\ asked < MaxRequests
    /\ q.bearer \in Tokens => tokens[q.bearer] # None
    /\ q.cookies \subseteq issued
    /\ asked' = asked + 1
    /\ requests' = IF peek(failures, FAILED_AUTH_QUOTA, q.source, now)
                   THEN [requests EXCEPT ![r] = [ask |-> q, at |-> now, pc |-> "authenticate"]]
                   ELSE requests
    /\ UNCHANGED <<callers, now, tokens, sessions, failures, issued, used, failed>>

Answered(r) == requests' = [requests EXCEPT ![r] = None]

(* 401: the failure is counted at the time the request arrived.            *)
Rejected(r) ==
    LET source == requests[r].ask.source
        at == requests[r].at
        counted == check(failures, FAILED_AUTH_QUOTA, FAILED_AUTH_MAX_KEYS, source, at)
    IN  /\ failures' = counted.tats
        /\ failed' = [failed EXCEPT ![source] = IF @ = None THEN at ELSE Max({@, at})]
        /\ Answered(r)
        /\ UNCHANGED <<callers, now, tokens, sessions, asked, issued, used>>

(* 503, and a request whose client went away: nothing is counted.          *)
Unavailable(r) ==
    /\ requests[r] # None
    /\ Answered(r)
    /\ UNCHANGED <<callers, now, tokens, sessions, failures, asked, issued, used, failed>>

At(r, pc) == requests[r] # None /\ requests[r].pc = pc

Goes(r, pc) == requests' = [requests EXCEPT ![r].pc = pc]

(* authenticate: a bearer token goes straight to the handler.  A string    *)
(* that is no token is refused by its shape, without a lookup.             *)
authenticate(r) ==
    LET q == requests[r].ask
    IN  /\ At(r, "authenticate") /\ q.endpoint # "sign_in" /\ bearer(q)
        /\ IF q.bearer \in Tokens /\ LiveToken(tokens[q.bearer]) /\ principal_from(tokens[q.bearer])
           THEN /\ Goes(r, "handle")
                /\ UNCHANGED <<callers, now, tokens, sessions, failures, asked, issued, used, failed>>
           ELSE Rejected(r)

(* authenticate_session, up to its second statement: a session seen        *)
(* recently enough is not written.                                         *)
authenticate_session(r) ==
    LET q == requests[r].ask
        s == session_cookie(q.cookies)
    IN  /\ At(r, "authenticate") /\ q.endpoint # "sign_in" /\ ~bearer(q)
        /\ IF s = None \/ ~SessionLookup(s) THEN Rejected(r)
           ELSE /\ IF stale(sessions[s])
                   THEN Goes(r, "touch") /\ UNCHANGED used
                   ELSE Goes(r, "csrf") /\ used' = [used EXCEPT ![s] = now]
                /\ UNCHANGED <<callers, now, tokens, sessions, failures, asked, issued, failed>>

(* SESSION_TOUCH updates the row if it is still there; a row deleted in    *)
(* the meantime is not put back.                                           *)
touch(r) ==
    LET s == session_cookie(requests[r].ask.cookies)
    IN  /\ At(r, "touch")
        /\ sessions' = [sessions EXCEPT ![s] = IF @ = None THEN @ ELSE [@ EXCEPT !.seen = now]]
        /\ used' = [used EXCEPT ![s] = now]
        /\ Goes(r, "csrf")
        /\ UNCHANGED <<callers, now, tokens, failures, asked, issued, failed>>

(* require_principal, after a session was accepted.  What is audited is    *)
(* decided by then, and left out here as elsewhere in this module.         *)
require_principal(r) ==
    LET q == requests[r].ask
    IN  /\ At(r, "csrf")
        /\ IF needs_csrf(q.method) /\ ~q.csrf
           THEN Answered(r)
           ELSE Goes(r, "handle")
        /\ UNCHANGED <<callers, now, tokens, sessions, failures, asked, issued, used, failed>>

------------------------------------------------------------------------------
(* Signing in: TOKEN_FOR_SIGN_IN reads when the session will end, and a    *)
(* second statement creates it.                                            *)
token_for_sign_in(r) ==
    LET q == requests[r].ask
    IN  /\ At(r, "authenticate") /\ q.endpoint = "sign_in"
        /\ IF q.body \in Tokens /\ LiveToken(tokens[q.body]) /\ principal_from(tokens[q.body])
           THEN /\ requests' = [requests EXCEPT ![r] = [pc |-> "create", ask |-> q, at |-> @.at,
                                  expires |-> Min({tokens[q.body].expires, now + ABSOLUTE_LIFETIME})]]
                /\ UNCHANGED <<callers, now, tokens, sessions, failures, asked, issued, used, failed>>
           ELSE Rejected(r)

(* generate_session_id never repeats itself.                               *)
sign_in(r) ==
    /\ At(r, "create")
    /\ \E s \in SessionIds \ issued :
        /\ sessions' = [sessions EXCEPT ![s] = [token |-> requests[r].ask.body, seen |-> now,
                                                expires |-> requests[r].expires]]
        /\ issued' = issued \cup {s}
        /\ used' = [used EXCEPT ![s] = now]
    /\ Answered(r)
    /\ UNCHANGED <<callers, now, tokens, failures, asked, failed>>

(* sign_out: 404 without a session, else the row goes.                     *)
sign_out(r) ==
    LET q == requests[r].ask
        s == session_cookie(q.cookies)
    IN  /\ At(r, "handle") /\ q.endpoint = "sign_out"
        /\ Answered(r)
        /\ sessions' = IF bearer(q) THEN sessions ELSE [sessions EXCEPT ![s] = None]
        /\ UNCHANGED <<callers, now, tokens, failures, asked, issued, used, failed>>

(* current re-reads the session's end; it may be gone by now (401, which   *)
(* the handler does not count).  Any other endpoint runs here.             *)
current(r) ==
    /\ At(r, "handle") /\ requests[r].ask.endpoint # "sign_out"
    /\ Answered(r)
    /\ UNCHANGED <<callers, now, tokens, sessions, failures, asked, issued, used, failed>>

------------------------------------------------------------------------------
TimeGoes ==
    /\ now < MaxTime /\ now' = now + 1
    /\ UNCHANGED <<callers, tokens, sessions, requests, failures, asked, issued, used, failed>>

(* A new process starts with no requests and an empty limiter.             *)
ApiRestarts ==
    /\ requests # [r \in Slots |-> None] \/ failures # NoKeys
    /\ requests' = [r \in Slots |-> None]
    /\ failures' = NoKeys
    /\ UNCHANGED <<callers, now, tokens, sessions, asked, issued, used, failed>>

IdentityNext ==
    \/ \E t \in Tokens, l \in Lifetimes : create(t, "operator", "noc_lead", l)
    \/ \E t \in Tokens : revoke(t)
    \/ \E r \in Slots, q \in callers : Arrive(r, q)
    \/ \E r \in Slots :
        \/ Unavailable(r) \/ authenticate(r) \/ authenticate_session(r) \/ touch(r)
        \/ require_principal(r) \/ token_for_sign_in(r) \/ sign_in(r) \/ sign_out(r) \/ current(r)
    \/ TimeGoes
    \/ ApiRestarts

IdentitySpec == IdentityInit /\ [][IdentityNext]_ivars

------------------------------------------------------------------------------
(* A session in use stays in: last_seen_at is written at most once per     *)
(* TOUCH_INTERVAL, and still a session that let a request through less     *)
(* than IDLE_TIMEOUT - TOUCH_INTERVAL ago is found, until it is signed     *)
(* out, its token ends or its absolute lifetime does - whatever requests   *)
(* ran side by side (SESSION_LOOKUP and SESSION_TOUCH are separate         *)
(* statements).                                                            *)
InUseStaysIn ==
    \A s \in SessionIds :
        /\ sessions[s] # None /\ sessions[s].expires > now /\ LiveToken(tokens[sessions[s].token])
        /\ used[s] # None /\ now - used[s] < IDLE_TIMEOUT - TOUCH_INTERVAL
        => SessionLookup(s)

(* A lockout ends: one emission interval after the latest failed request   *)
(* of a source arrived, the source is let in again, however many failures  *)
(* were in flight together (they all passed peek, and each is counted with *)
(* the time it arrived at).                                                *)
LockoutEnds ==
    \A src \in Sources :
        failed[src] # None /\ now >= failed[src] + emission_interval(FAILED_AUTH_QUOTA)
        => peek(failures, FAILED_AUTH_QUOTA, src, now)
=============================================================================
