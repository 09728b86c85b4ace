------------------------------ MODULE ApiProofs ------------------------------
(***************************************************************************)
(* What holds of the API for every value of its constants: of callers      *)
(* (Identity), a session in use is not lost to the idle timeout and a      *)
(* source that stopped failing is let in again; of commands (Commands), a  *)
(* retried call is one call, whatever its attempts, its line and what      *)
(* others do; of readers (Listing), a walk through a list or a history is  *)
(* complete.                                                               *)
(***************************************************************************)
EXTENDS Identity, Commands, Listing, FiniteSetTheorems, TLAPS

(***************************************************************************)
(* Types.                                                                  *)
(***************************************************************************)
TokenRows ==
    [actor : {"operator"}, role : {"noc_lead"}, revoked : BOOLEAN, expires : Nat]

SessionRows == [token : Tokens, seen : Nat, expires : Nat]

Asks == UNION Callers

RequestRows ==
    [ask : Asks, at : Nat, pc : {"authenticate", "touch", "csrf", "handle"}]
    \cup [ask : Asks, at : Nat, pc : {"create"}, expires : Nat]

\* A token a session is to be made of was looked up before.
SignsIn(row) == row.pc = "create" => row.ask.body \in Tokens

IdentityTypeOK ==
    /\ callers \in Callers /\ now \in Nat
    /\ tokens \in [Tokens -> TokenRows \cup {None}]
    /\ sessions \in [SessionIds -> SessionRows \cup {None}]
    /\ requests \in [Slots -> RequestRows \cup {None}]
    /\ \A r \in Slots : requests[r] # None => SignsIn(requests[r])
    /\ issued \subseteq SessionIds
    /\ used \in [SessionIds -> Nat \cup {None}]
    /\ failed \in [Sources -> Nat \cup {None}]

\* A session that is there was used no later than TOUCH_INTERVAL after it was last
\* seen: a use that is not written down follows one that was.
SeenInTime ==
    \A s \in SessionIds :
        sessions[s] # None => used[s] \in Nat /\ used[s] <= sessions[s].seen + TOUCH_INTERVAL

\* The failures a source is held to account for are those it made: its arrival time is
\* no further ahead than one more failure, made when the latest one was, would put it.
Debt == tolerance(FAILED_AUTH_QUOTA) + emission_interval(FAILED_AUTH_QUOTA)

FailuresBounded ==
    /\ failures = [src \in DOMAIN failures |-> failures[src]]
    /\ \A src \in DOMAIN failures :
          /\ src \in Sources /\ failures[src] \in Nat /\ failed[src] \in Nat
          /\ failures[src] <= failed[src] + Debt

IdentityInv == IdentityTypeOK /\ SeenInTime /\ FailuresBounded

(***************************************************************************)
(* The limiter.                                                            *)
(***************************************************************************)
\* An emission interval and a tolerance are times.
LEMMA QuotaTimes ==
    /\ emission_interval(FAILED_AUTH_QUOTA) \in Nat
    /\ tolerance(FAILED_AUTH_QUOTA) \in Nat
    /\ Debt \in Nat
<1> DEFINE n == Larger(FAILED_AUTH_QUOTA.limit, 1)
<1>1. n \in Nat /\ n >= 1
  BY IdentityAssumption DEF Larger
<1>2. emission_interval(FAILED_AUTH_QUOTA) = FAILED_AUTH_QUOTA.window \div n
  BY DEF emission_interval
<1>3. FAILED_AUTH_QUOTA.window \in Nat
  BY IdentityAssumption
<1>4. PICK w, m : w = FAILED_AUTH_QUOTA.window /\ m = n
  OBVIOUS
<1> HIDE DEF n
<1>5. w \div m \in Nat
  BY <1>1, <1>3, <1>4
<1>6. PICK i : i = emission_interval(FAILED_AUTH_QUOTA)
  OBVIOUS
<1>7. i \in Nat
  BY <1>2, <1>4, <1>5, <1>6
<1>8. tolerance(FAILED_AUTH_QUOTA) = i * (m - 1)
  BY <1>4, <1>6 DEF tolerance, n
<1>9. i * (m - 1) \in Nat
  BY <1>1, <1>4, <1>7
<1> QED BY <1>6, <1>7, <1>8, <1>9 DEF Debt

\* What check makes of the arrival times: keys may go, and only the one asked about
\* gets a new time, within the debt a failure at that time allows.
CheckedWithin(tats, key, at, c) ==
    /\ c = [k \in DOMAIN c |-> c[k]]
    /\ \A k \in DOMAIN c :
          \/ k \in DOMAIN tats /\ c[k] = tats[k]
          \/ k = key /\ c[k] \in Nat /\ c[k] <= at + Debt

\* A check stays within that.
LEMMA CheckBounds ==
    ASSUME NEW tats, tats = [k \in DOMAIN tats |-> tats[k]], NEW key, NEW at \in Nat,
           \A k \in DOMAIN tats : tats[k] \in Nat
    PROVE  CheckedWithin(tats, key, at, check(tats, FAILED_AUTH_QUOTA, FAILED_AUTH_MAX_KEYS, key, at).tats)
<1> DEFINE full(t) == key \notin DOMAIN t /\ Cardinality(DOMAIN t) >= FAILED_AUTH_MAX_KEYS
           swept == IF full(tats) THEN Restrict(tats, {k \in DOMAIN tats : tats[k] > at}) ELSE tats
           tat == IF key \in DOMAIN swept THEN Larger(swept[key], at) ELSE at
           c == check(tats, FAILED_AUTH_QUOTA, FAILED_AUTH_MAX_KEYS, key, at).tats
<1>1. /\ swept = [k \in DOMAIN swept |-> swept[k]] /\ DOMAIN swept \subseteq DOMAIN tats
      /\ \A k \in DOMAIN swept : swept[k] = tats[k]
  <2>1. CASE full(tats)
    <3>1. swept = [k \in {k \in DOMAIN tats : tats[k] > at} |-> tats[k]]
      BY <2>1 DEF Restrict
    <3> HIDE DEF swept
    <3> QED BY <3>1
  <2>2. CASE ~full(tats)
    BY <2>2
  <2> QED BY <2>1, <2>2
<1>2. c \in {swept} \/ (~(at < tat - tolerance(FAILED_AUTH_QUOTA))
                        /\ c = Put(swept, key, tat + emission_interval(FAILED_AUTH_QUOTA)))
  BY DEF check
<1>3. PICK tol, ei : /\ tol = tolerance(FAILED_AUTH_QUOTA) /\ ei = emission_interval(FAILED_AUTH_QUOTA)
                     /\ tol \in Nat /\ ei \in Nat /\ Debt = tol + ei
  BY QuotaTimes DEF Debt
<1>4. tat \in Nat
  BY <1>1 DEF Larger
<1> HIDE DEF swept, tat, c, full
<1>5. CASE c = swept
  BY <1>1, <1>5 DEF CheckedWithin, c
<1>6. CASE ~(at < tat - tol) /\ c = Put(swept, key, tat + ei)
  <2>1. PICK new : new = tat + ei
    OBVIOUS
  <2>2. new \in Nat /\ new <= at + Debt
    BY <1>3, <1>4, <1>6, <2>1
  <2>3. c = [k \in DOMAIN swept \cup {key} |-> IF k = key THEN new ELSE swept[k]]
    BY <1>6, <2>1 DEF Put
  <2>4. CheckedWithin(tats, key, at, c)
    BY <1>1, <2>2, <2>3 DEF CheckedWithin
  <2> QED BY <2>4 DEF c
<1> QED BY <1>2, <1>3, <1>5, <1>6

\* The later of two times, and the earlier.
LEMMA Extremes ==
    ASSUME NEW a \in Nat, NEW b \in Nat
    PROVE  /\ Max({a, b}) \in Nat /\ Max({a, b}) >= a /\ Max({a, b}) >= b
           /\ Min({a, b}) \in Nat
<1>1. \E x \in {a, b} : \A y \in {a, b} : x >= y
  OBVIOUS
<1>2. \E x \in {a, b} : \A y \in {a, b} : x =< y
  OBVIOUS
<1>3. Max({a, b}) \in {a, b} /\ \A y \in {a, b} : Max({a, b}) >= y
  BY <1>1 DEF Max
<1>4. Min({a, b}) \in {a, b}
  BY <1>2 DEF Min
<1> QED BY <1>3, <1>4

(***************************************************************************)
(* Steps.                                                                  *)
(***************************************************************************)
\* Nothing is there at first.
LEMMA InitHolds == IdentityInit => IdentityInv
<1> SUFFICES ASSUME IdentityInit PROVE IdentityInv
  OBVIOUS
<1>1. IdentityTypeOK /\ SeenInTime
  BY DEF IdentityInit, IdentityTypeOK, SeenInTime
<1>2. FailuresBounded
  BY DEF IdentityInit, FailuresBounded, NoKeys
<1> QED BY <1>1, <1>2 DEF IdentityInv

\* A request is answered, or goes on to its next statement.
LEMMA RequestGoesOn ==
    ASSUME IdentityTypeOK, NEW r \in Slots, requests[r] # None,
           NEW pc \in {"touch", "csrf", "handle"}, requests[r].pc \in {"authenticate", "touch", "csrf"},
           Answered(r) \/ Goes(r, pc)
    PROVE  /\ requests' \in [Slots -> RequestRows \cup {None}]
           /\ \A q \in Slots : requests'[q] # None => SignsIn(requests'[q])
<1>1. PICK row : row = requests[r]
  OBVIOUS
<1>2. row \in [ask : Asks, at : Nat, pc : {"authenticate", "touch", "csrf", "handle"}]
  BY <1>1 DEF IdentityTypeOK, RequestRows
<1>3. PICK next : next = [row EXCEPT !.pc = pc]
  OBVIOUS
<1>4. next \in RequestRows /\ next.pc = pc
  BY <1>2, <1>3 DEF RequestRows
<1>5. requests' = [requests EXCEPT ![r] = None] \/ requests' = [requests EXCEPT ![r] = next]
  BY <1>1, <1>3 DEF Answered, Goes
<1>6. SignsIn(next)
  BY <1>4 DEF SignsIn
<1> QED BY <1>4, <1>5, <1>6 DEF IdentityTypeOK, SignsIn

\* An answer forgets the request.
LEMMA AnsweredForgets ==
    ASSUME IdentityTypeOK, NEW r \in Slots, Answered(r)
    PROVE  /\ requests' \in [Slots -> RequestRows \cup {None}]
           /\ \A q \in Slots : requests'[q] # None => SignsIn(requests'[q])
BY DEF Answered, IdentityTypeOK, SignsIn

\* A refused request is counted with the time it arrived at.
LEMMA RejectedHolds ==
    ASSUME IdentityInv, NEW r \in Slots, requests[r] # None, Rejected(r)
    PROVE  IdentityInv'
<1>1. PICK source, at : source = requests[r].ask.source /\ at = requests[r].at
  OBVIOUS
<1>2. at \in Nat /\ source \in Sources
  <2>1. requests[r] \in RequestRows
    BY DEF IdentityInv, IdentityTypeOK
  <2>2. requests[r].ask \in Asks /\ requests[r].at \in Nat
    BY <2>1 DEF RequestRows
  <2> QED BY <1>1, <2>2, IdentityAssumption DEF Asks
<1>3. PICK c : c = check(failures, FAILED_AUTH_QUOTA, FAILED_AUTH_MAX_KEYS, source, at).tats
  OBVIOUS
<1>4. /\ failures' = c
      /\ failed' = [failed EXCEPT ![source] = IF @ = None THEN at ELSE Max({@, at})]
      /\ Answered(r) /\ UNCHANGED <<callers, now, tokens, sessions, issued, used>>
  BY <1>1, <1>3 DEF Rejected
<1>5. CheckedWithin(failures, source, at, c)
  <2>1. PICK tats : tats = failures
    OBVIOUS
  <2>2. tats = [k \in DOMAIN tats |-> tats[k]] /\ \A k \in DOMAIN tats : tats[k] \in Nat
    BY <2>1 DEF IdentityInv, FailuresBounded
  <2> QED BY <1>2, <1>3, <2>1, <2>2, CheckBounds
<1>6. PICK latest : latest = IF failed[source] = None THEN at ELSE Max({failed[source], at})
  OBVIOUS
<1>7. /\ latest \in Nat /\ latest >= at /\ (failed[source] \in Nat => latest >= failed[source])
      /\ failed' = [failed EXCEPT ![source] = latest]
  <2>1. failed[source] \in Nat \cup {None} /\ failed \in [Sources -> Nat \cup {None}]
    BY <1>2 DEF IdentityInv, IdentityTypeOK
  <2>2. CASE failed[source] = None
    BY <1>2, <1>4, <1>6, <2>1, <2>2, IdentityAssumption
  <2>3. CASE failed[source] # None
    <3>1. PICK old \in Nat : old = failed[source]
      BY <2>1, <2>3
    <3>2. latest = Max({old, at})
      BY <1>6, <2>3, <3>1
    <3>3. latest \in Nat /\ latest >= old /\ latest >= at
      BY <1>2, <3>2, Extremes
    <3>4. failed' = [failed EXCEPT ![source] = latest]
      BY <1>2, <1>4, <2>1, <2>3, <3>1, <3>2
    <3> QED BY <3>1, <3>3, <3>4
  <2> QED BY <2>2, <2>3
<1>8. IdentityTypeOK'
  <2>1. /\ requests' \in [Slots -> RequestRows \cup {None}]
        /\ \A q \in Slots : requests'[q] # None => SignsIn(requests'[q])
    BY <1>4, AnsweredForgets DEF IdentityInv
  <2> QED BY <1>2, <1>4, <1>7, <2>1 DEF IdentityInv, IdentityTypeOK, SignsIn
<1>9. SeenInTime'
  BY <1>4 DEF IdentityInv, SeenInTime
<1>10. FailuresBounded'
  <2>1. ASSUME NEW src \in DOMAIN c
        PROVE  /\ src \in Sources /\ c[src] \in Nat /\ failed'[src] \in Nat
               /\ c[src] <= failed'[src] + Debt
    <3>1. CASE src \in DOMAIN failures /\ c[src] = failures[src]
      <4>1. src \in Sources /\ c[src] \in Nat /\ failed[src] \in Nat /\ c[src] <= failed[src] + Debt
        BY <3>1 DEF IdentityInv, FailuresBounded
      <4>2. failed'[src] \in Nat /\ failed'[src] >= failed[src]
        BY <1>7, <4>1 DEF IdentityInv, IdentityTypeOK
      <4> QED BY <4>1, <4>2, QuotaTimes
    <3>2. CASE src = source /\ c[src] \in Nat /\ c[src] <= at + Debt
      <4>1. failed'[src] = latest
        BY <1>2, <1>7, <3>2 DEF IdentityInv, IdentityTypeOK
      <4> QED BY <1>2, <1>7, <3>2, <4>1, QuotaTimes
    <3> QED BY <1>5, <2>1, <3>1, <3>2 DEF CheckedWithin
  <2>2. c = [k \in DOMAIN c |-> c[k]]
    BY <1>5 DEF CheckedWithin
  <2> QED BY <1>4, <2>1, <2>2 DEF FailuresBounded, Debt
<1> QED BY <1>8, <1>9, <1>10 DEF IdentityInv

\* The sessions, their uses and the failures stay; a request or a token changes.
LEMMA QuietHolds ==
    ASSUME IdentityInv, UNCHANGED <<callers, sessions, issued, used, failures, failed>>,
           now' \in Nat, tokens' \in [Tokens -> TokenRows \cup {None}],
           requests' \in [Slots -> RequestRows \cup {None}],
           \A q \in Slots : requests'[q] # None => SignsIn(requests'[q])
    PROVE  IdentityInv'
<1>1. IdentityTypeOK' /\ SeenInTime'
  BY DEF IdentityInv, IdentityTypeOK, SeenInTime, SignsIn
<1>2. FailuresBounded'
  BY DEF IdentityInv, FailuresBounded, Debt
<1> QED BY <1>1, <1>2 DEF IdentityInv

\* Tokens are issued and revoked.
LEMMA TokenHolds ==
    ASSUME IdentityInv, NEW t \in Tokens,
           (\E l \in Lifetimes : create(t, "operator", "noc_lead", l)) \/ revoke(t)
    PROVE  IdentityInv'
<1>1. /\ UNCHANGED <<callers, now, sessions, requests, issued, used, failures, failed>>
      /\ now \in Nat /\ requests \in [Slots -> RequestRows \cup {None}]
      /\ \A q \in Slots : requests[q] # None => SignsIn(requests[q])
  BY DEF create, revoke, IdentityInv, IdentityTypeOK
<1>2. CASE revoke(t)
  <2>1. PICK row : row = [tokens[t] EXCEPT !.revoked = TRUE]
    OBVIOUS
  <2>2. row \in TokenRows /\ tokens' = [tokens EXCEPT ![t] = row]
    BY <1>2, <2>1 DEF revoke, IdentityInv, IdentityTypeOK, TokenRows
  <2>3. tokens' \in [Tokens -> TokenRows \cup {None}]
    BY <2>2 DEF IdentityInv, IdentityTypeOK
  <2> QED BY <1>1, <2>3, QuietHolds
<1>3. CASE \E l \in Lifetimes : create(t, "operator", "noc_lead", l)
  <2>1. PICK l \in 1 .. MAX_LIFETIME :
          tokens' = [tokens EXCEPT ![t] = [actor |-> "operator", role |-> "noc_lead", revoked |-> FALSE,
                                           expires |-> now + l]]
    BY <1>3 DEF create
  <2>2. now + l \in Nat
    BY <1>1, <2>1, IdentityAssumption
  <2>3. tokens' \in [Tokens -> TokenRows \cup {None}]
    BY <2>1, <2>2 DEF IdentityInv, IdentityTypeOK, TokenRows
  <2> QED BY <1>1, <2>3, QuietHolds
<1> QED BY <1>2, <1>3

\* A request arrives.
LEMMA ArriveHolds ==
    ASSUME IdentityInv, NEW r \in Slots, NEW q \in callers, Arrive(r, q)
    PROVE  IdentityInv'
<1>1. /\ UNCHANGED <<callers, now, tokens, sessions, issued, used, failures, failed>>
      /\ now \in Nat /\ tokens \in [Tokens -> TokenRows \cup {None}] /\ q \in Asks
  BY DEF Arrive, IdentityInv, IdentityTypeOK, Asks
<1>2. PICK row : row = [ask |-> q, at |-> now, pc |-> "authenticate"]
  OBVIOUS
<1>3. row \in RequestRows /\ row.pc = "authenticate"
  BY <1>1, <1>2 DEF RequestRows
<1>4. requests' = requests \/ requests' = [requests EXCEPT ![r] = row]
  BY <1>2 DEF Arrive
<1>5. requests' \in [Slots -> RequestRows \cup {None}]
  BY <1>3, <1>4 DEF IdentityInv, IdentityTypeOK
<1>6. \A x \in Slots : requests'[x] # None => SignsIn(requests'[x])
  BY <1>3, <1>4 DEF IdentityInv, IdentityTypeOK, SignsIn
<1> QED BY <1>1, <1>5, <1>6, QuietHolds

\* The statements that write neither a session nor its use.
LEMMA AnswerHolds ==
    ASSUME IdentityInv, NEW r \in Slots,
           Unavailable(r) \/ authenticate(r) \/ require_principal(r) \/ current(r)
    PROVE  IdentityInv'
<1>0. now \in Nat /\ tokens \in [Tokens -> TokenRows \cup {None}] /\ requests[r] # None
  BY DEF IdentityInv, IdentityTypeOK, Unavailable, authenticate, require_principal, current, At
<1>1. ASSUME Answered(r), UNCHANGED <<callers, now, tokens, sessions, failures, issued, used, failed>>
      PROVE  IdentityInv'
  <2>1. /\ requests' \in [Slots -> RequestRows \cup {None}]
        /\ \A q \in Slots : requests'[q] # None => SignsIn(requests'[q])
    BY <1>1, AnsweredForgets DEF IdentityInv
  <2> QED BY <1>0, <1>1, <2>1, QuietHolds
<1>2. ASSUME Goes(r, "handle"), requests[r].pc \in {"authenticate", "csrf"},
             UNCHANGED <<callers, now, tokens, sessions, failures, issued, used, failed>>
      PROVE  IdentityInv'
  <2>1. /\ requests' \in [Slots -> RequestRows \cup {None}]
        /\ \A q \in Slots : requests'[q] # None => SignsIn(requests'[q])
    BY <1>0, <1>2, RequestGoesOn DEF IdentityInv
  <2> QED BY <1>0, <1>2, <2>1, QuietHolds
<1>3. CASE Unavailable(r) \/ current(r)
  BY <1>1, <1>3 DEF Unavailable, current
<1>4. CASE authenticate(r)
  <2>1. CASE Rejected(r)
    BY <1>0, <2>1, RejectedHolds
  <2>2. CASE ~Rejected(r)
    BY <1>2, <1>4, <2>2 DEF authenticate, At
  <2> QED BY <2>1, <2>2
<1>5. CASE require_principal(r)
  BY <1>1, <1>2, <1>5 DEF require_principal, At
<1> QED BY <1>3, <1>4, <1>5

\* A session is used, and its row written if it was not lately.
LEMMA UseHolds ==
    ASSUME IdentityInv, NEW r \in Slots, authenticate_session(r) \/ touch(r)
    PROVE  IdentityInv'
<1> DEFINE s == session_cookie(requests[r].ask.cookies)
<1>0. /\ requests[r] # None /\ now \in Nat /\ tokens \in [Tokens -> TokenRows \cup {None}]
      /\ TOUCH_INTERVAL \in Nat /\ requests[r].pc \in {"authenticate", "touch"}
  BY IdentityAssumption DEF IdentityInv, IdentityTypeOK, authenticate_session, touch, At
<1>1. ASSUME NEW pc \in {"touch", "csrf"}, Goes(r, pc)
      PROVE  /\ requests' \in [Slots -> RequestRows \cup {None}]
             /\ \A q \in Slots : requests'[q] # None => SignsIn(requests'[q])
  BY <1>0, <1>1, RequestGoesOn DEF IdentityInv
<1>2. CASE authenticate_session(r)
  <2>1. CASE Rejected(r)
    BY <1>0, <2>1, RejectedHolds
  <2>2. CASE ~Rejected(r) /\ stale(sessions[s])
    <3>1. Goes(r, "touch") /\ UNCHANGED <<callers, now, tokens, sessions, issued, used, failures, failed>>
      BY <1>2, <2>2 DEF authenticate_session
    <3> QED BY <1>0, <1>1, <3>1, QuietHolds
  <2>3. CASE ~Rejected(r) /\ ~stale(sessions[s])
    <3>1. /\ Goes(r, "csrf") /\ used' = [used EXCEPT ![s] = now]
          /\ UNCHANGED <<callers, now, tokens, sessions, failures, issued, failed>>
      BY <1>2, <2>3 DEF authenticate_session
    <3>2. PICK x : x = s
      OBVIOUS
    <3>3. used' = [used EXCEPT ![x] = now] /\ ~(sessions[x].seen < now - TOUCH_INTERVAL)
      BY <2>3, <3>1, <3>2 DEF stale
    <3>4. IdentityTypeOK'
      BY <1>0, <1>1, <3>1, <3>3 DEF IdentityInv, IdentityTypeOK, SignsIn
    <3>5. SeenInTime'
      <4> SUFFICES ASSUME NEW y \in SessionIds, sessions'[y] # None
                   PROVE  used'[y] \in Nat /\ used'[y] <= sessions'[y].seen + TOUCH_INTERVAL
        BY DEF SeenInTime
      <4>1. sessions'[y] = sessions[y] /\ sessions[y] \in SessionRows /\ sessions[y].seen \in Nat
        BY <3>1 DEF IdentityInv, IdentityTypeOK, SessionRows
      <4>2. CASE y = x
        <5>1. used'[y] = now
          BY <3>3, <4>2 DEF IdentityInv, IdentityTypeOK
        <5> QED BY <1>0, <3>3, <4>1, <4>2, <5>1
      <4>3. CASE y # x
        <5>1. used'[y] = used[y]
          BY <3>3, <4>3 DEF IdentityInv, IdentityTypeOK
        <5> QED BY <4>1, <5>1 DEF IdentityInv, SeenInTime
      <4> QED BY <4>2, <4>3
    <3>6. FailuresBounded'
      BY <3>1 DEF IdentityInv, FailuresBounded, Debt
    <3> QED BY <3>4, <3>5, <3>6 DEF IdentityInv
  <2> QED BY <2>1, <2>2, <2>3
<1>3. CASE touch(r)
  <2>1. PICK x : x = s
    OBVIOUS
  <2>2. /\ sessions' = [sessions EXCEPT ![x] = IF @ = None THEN @ ELSE [@ EXCEPT !.seen = now]]
        /\ used' = [used EXCEPT ![x] = now] /\ Goes(r, "csrf")
        /\ UNCHANGED <<callers, now, tokens, failures, issued, failed>>
    BY <1>3, <2>1 DEF touch
  <2>3. ASSUME NEW y \in SessionIds
        PROVE  /\ sessions'[y] \in SessionRows \cup {None} /\ used'[y] \in Nat \cup {None}
               /\ sessions'[y] # None =>
                     used'[y] \in Nat /\ used'[y] <= sessions'[y].seen + TOUCH_INTERVAL
    <3>0. sessions[y] \in SessionRows \cup {None} /\ used[y] \in Nat \cup {None}
      BY DEF IdentityInv, IdentityTypeOK
    <3>1. CASE y # x
      BY <2>2, <3>0, <3>1 DEF IdentityInv, IdentityTypeOK, SeenInTime
    <3>2. CASE y = x /\ sessions[y] = None
      BY <1>0, <2>2, <3>2 DEF IdentityInv, IdentityTypeOK
    <3>3. CASE y = x /\ sessions[y] # None
      <4>1. PICK row : row = [sessions[y] EXCEPT !.seen = now]
        OBVIOUS
      <4>2. row \in SessionRows /\ row.seen = now
        BY <1>0, <3>0, <3>3, <4>1 DEF SessionRows
      <4>3. sessions'[y] = row /\ used'[y] = now
        BY <2>2, <3>3, <4>1 DEF IdentityInv, IdentityTypeOK
      <4> QED BY <1>0, <4>2, <4>3
    <3> QED BY <3>1, <3>2, <3>3
  <2>4. IdentityTypeOK'
    <3>1. sessions' \in [SessionIds -> SessionRows \cup {None}] /\ used' \in [SessionIds -> Nat \cup {None}]
      BY <2>2, <2>3 DEF IdentityInv, IdentityTypeOK
    <3> QED BY <1>1, <2>2, <3>1 DEF IdentityInv, IdentityTypeOK, SignsIn
  <2>5. SeenInTime'
    BY <2>3 DEF SeenInTime
  <2>6. FailuresBounded'
    BY <2>2 DEF IdentityInv, FailuresBounded, Debt
  <2> QED BY <2>4, <2>5, <2>6 DEF IdentityInv
<1> QED BY <1>2, <1>3

\* Signing in reads the token, and makes a session that was just used.
LEMMA SignInHolds ==
    ASSUME IdentityInv, NEW r \in Slots, token_for_sign_in(r) \/ sign_in(r)
    PROVE  IdentityInv'
<1>0. /\ requests[r] # None /\ now \in Nat /\ tokens \in [Tokens -> TokenRows \cup {None}]
      /\ TOUCH_INTERVAL \in Nat /\ ABSOLUTE_LIFETIME \in Nat /\ requests[r] \in RequestRows
  BY IdentityAssumption DEF IdentityInv, IdentityTypeOK, token_for_sign_in, sign_in, At
<1>1. CASE token_for_sign_in(r)
  <2>1. CASE Rejected(r)
    BY <1>0, <2>1, RejectedHolds
  <2>2. CASE ~Rejected(r)
    <3>1. PICK q, at : q = requests[r].ask /\ at = requests[r].at
      OBVIOUS
    <3>2. q \in Asks /\ at \in Nat /\ q.body \in Tokens /\ LiveToken(tokens[q.body])
      BY <1>0, <1>1, <2>2, <3>1 DEF token_for_sign_in, RequestRows
    <3>3. PICK a \in Nat, b \in Nat : a = tokens[q.body].expires /\ b = now + ABSOLUTE_LIFETIME
      BY <1>0, <3>2 DEF LiveToken, TokenRows
    <3>4. PICK row : row = [pc |-> "create", ask |-> q, at |-> at, expires |-> Min({a, b})]
      OBVIOUS
    <3>5. row \in RequestRows /\ SignsIn(row)
      BY <3>2, <3>4, Extremes DEF RequestRows, SignsIn
    <3>6. /\ requests' = [requests EXCEPT ![r] = row]
          /\ UNCHANGED <<callers, now, tokens, sessions, failures, issued, used, failed>>
      BY <1>1, <2>2, <3>1, <3>3, <3>4 DEF token_for_sign_in, IdentityInv, IdentityTypeOK
    <3>7. /\ requests' \in [Slots -> RequestRows \cup {None}]
          /\ \A x \in Slots : requests'[x] # None => SignsIn(requests'[x])
      BY <3>5, <3>6 DEF IdentityInv, IdentityTypeOK, SignsIn
    <3> QED BY <1>0, <3>6, <3>7, QuietHolds
  <2> QED BY <2>1, <2>2
<1>2. CASE sign_in(r)
  <2>1. PICK s \in SessionIds \ issued :
          /\ sessions' = [sessions EXCEPT ![s] = [token |-> requests[r].ask.body, seen |-> now,
                                                  expires |-> requests[r].expires]]
          /\ issued' = issued \cup {s}
          /\ used' = [used EXCEPT ![s] = now]
    BY <1>2 DEF sign_in
  <2>2. Answered(r) /\ UNCHANGED <<callers, now, tokens, failures, failed>> /\ requests[r].pc = "create"
    BY <1>2 DEF sign_in, At
  <2>3. requests[r].ask.body \in Tokens /\ requests[r].expires \in Nat
    <3>1. SignsIn(requests[r])
      BY <1>0 DEF IdentityInv, IdentityTypeOK
    <3> QED BY <1>0, <2>2, <3>1 DEF SignsIn, RequestRows
  <2>4. PICK row : row = [token |-> requests[r].ask.body, seen |-> now, expires |-> requests[r].expires]
    OBVIOUS
  <2>5. row \in SessionRows /\ row.seen = now
    BY <1>0, <2>3, <2>4 DEF SessionRows
  <2>6. sessions' = [sessions EXCEPT ![s] = row]
    BY <2>1, <2>4
  <2>7. IdentityTypeOK'
    <3>1. /\ requests' \in [Slots -> RequestRows \cup {None}]
          /\ \A q \in Slots : requests'[q] # None => SignsIn(requests'[q])
      BY <2>2, AnsweredForgets DEF IdentityInv
    <3> QED BY <1>0, <2>1, <2>2, <2>5, <2>6, <3>1 DEF IdentityInv, IdentityTypeOK, SignsIn
  <2>8. SeenInTime'
    <3> SUFFICES ASSUME NEW y \in SessionIds, sessions'[y] # None
                 PROVE  used'[y] \in Nat /\ used'[y] <= sessions'[y].seen + TOUCH_INTERVAL
      BY DEF SeenInTime
    <3>1. CASE y = s
      <4>1. used'[y] = now /\ sessions'[y] = row
        BY <2>1, <2>6, <3>1 DEF IdentityInv, IdentityTypeOK
      <4> QED BY <1>0, <2>5, <4>1
    <3>2. CASE y # s
      <4>1. used'[y] = used[y] /\ sessions'[y] = sessions[y]
        BY <2>1, <2>6, <3>2 DEF IdentityInv, IdentityTypeOK
      <4> QED BY <4>1 DEF IdentityInv, SeenInTime
    <3> QED BY <3>1, <3>2
  <2>9. FailuresBounded'
    BY <2>2 DEF IdentityInv, FailuresBounded, Debt
  <2> QED BY <2>7, <2>8, <2>9 DEF IdentityInv
<1> QED BY <1>1, <1>2

\* Signing out: the session is there no more.
LEMMA SignOutHolds ==
    ASSUME IdentityInv, NEW r \in Slots, sign_out(r)
    PROVE  IdentityInv'
<1>1. PICK s : sessions' = sessions \/ sessions' = [sessions EXCEPT ![s] = None]
  BY DEF sign_out
<1>2. Answered(r) /\ UNCHANGED <<callers, now, tokens, failures, issued, used, failed>>
  BY DEF sign_out
<1>3. sessions' \in [SessionIds -> SessionRows \cup {None}] /\ \A y \in SessionIds : sessions'[y] \in {None, sessions[y]}
  BY <1>1 DEF IdentityInv, IdentityTypeOK
<1>4. IdentityTypeOK'
  <2>1. /\ requests' \in [Slots -> RequestRows \cup {None}]
        /\ \A q \in Slots : requests'[q] # None => SignsIn(requests'[q])
    BY <1>2, AnsweredForgets DEF IdentityInv
  <2> QED BY <1>2, <1>3, <2>1 DEF IdentityInv, IdentityTypeOK, SignsIn
<1>5. SeenInTime'
  BY <1>2, <1>3 DEF IdentityInv, SeenInTime
<1>6. FailuresBounded'
  BY <1>2 DEF IdentityInv, FailuresBounded, Debt
<1> QED BY <1>4, <1>5, <1>6 DEF IdentityInv

\* Time passes; a restart forgets the failures counted in memory.
LEMMA ClockHolds ==
    ASSUME IdentityInv, TimeGoes \/ ApiRestarts
    PROVE  IdentityInv'
<1>1. CASE TimeGoes
  <2>1. now' \in Nat
    BY <1>1 DEF TimeGoes, IdentityInv, IdentityTypeOK
  <2> QED BY <1>1, <2>1, QuietHolds DEF TimeGoes, IdentityInv, IdentityTypeOK
<1>2. CASE ApiRestarts
  <2>1. IdentityTypeOK' /\ SeenInTime'
    BY <1>2 DEF ApiRestarts, IdentityInv, IdentityTypeOK, SeenInTime
  <2>2. FailuresBounded'
    BY <1>2 DEF ApiRestarts, FailuresBounded, NoKeys
  <2> QED BY <2>1, <2>2 DEF IdentityInv
<1> QED BY <1>1, <1>2

(***************************************************************************)
(* Theorems.                                                               *)
(***************************************************************************)
\* The invariant: types, what a session's row says of its use, and what a limiter
\* holds of a source.
THEOREM IdentityInvHolds == IdentitySpec => []IdentityInv
<1>1. IdentityInv /\ [IdentityNext]_ivars => IdentityInv'
  <2> SUFFICES ASSUME IdentityInv, [IdentityNext]_ivars PROVE IdentityInv'
    OBVIOUS
  <2>1. CASE UNCHANGED ivars
    BY <2>1, QuietHolds DEF ivars, IdentityInv, IdentityTypeOK
  <2>2. CASE IdentityNext
    BY <2>2, TokenHolds, ArriveHolds, AnswerHolds, UseHolds, SignInHolds, SignOutHolds, ClockHolds
       DEF IdentityNext
  <2> QED BY <2>1, <2>2
<1> QED BY <1>1, InitHolds, PTL DEF IdentitySpec

\* InUseStaysIn for any timeouts: a session used less than IDLE_TIMEOUT - TOUCH_INTERVAL
\* ago is found, though most uses are not written down (SESSION_LOOKUP, SESSION_TOUCH).
THEOREM InUseStaysInHolds == IdentitySpec => []InUseStaysIn
<1>1. IdentityInv => InUseStaysIn
  <2> SUFFICES ASSUME IdentityInv, NEW s \in SessionIds,
                      sessions[s] # None, sessions[s].expires > now, LiveToken(tokens[sessions[s].token]),
                      used[s] # None, now - used[s] < IDLE_TIMEOUT - TOUCH_INTERVAL
               PROVE  SessionLookup(s)
    BY DEF InUseStaysIn
  <2>1. /\ now \in Nat /\ used[s] \in Nat /\ sessions[s].seen \in Nat /\ IDLE_TIMEOUT \in Nat
        /\ TOUCH_INTERVAL \in Nat /\ used[s] <= sessions[s].seen + TOUCH_INTERVAL
    BY IdentityAssumption DEF IdentityInv, IdentityTypeOK, SessionRows, SeenInTime
  <2>2. sessions[s].seen > now - IDLE_TIMEOUT
    BY <2>1
  <2> QED BY <2>2 DEF SessionLookup
<1> QED BY <1>1, IdentityInvHolds, PTL

\* LockoutEnds for any quota: one emission interval after a source's latest failure
\* arrived it is let in, however many were counted together (rate_limit.rs check, peek).
THEOREM LockoutEndsHolds == IdentitySpec => []LockoutEnds
<1>1. IdentityInv => LockoutEnds
  <2> SUFFICES ASSUME IdentityInv, NEW src \in Sources, failed[src] # None,
                      now >= failed[src] + emission_interval(FAILED_AUTH_QUOTA), src \in DOMAIN failures
               PROVE  now >= failures[src] - tolerance(FAILED_AUTH_QUOTA)
    BY DEF LockoutEnds, peek
  <2>1. /\ failures[src] \in Nat /\ failed[src] \in Nat /\ now \in Nat
        /\ failures[src] <= failed[src] + (tolerance(FAILED_AUTH_QUOTA) + emission_interval(FAILED_AUTH_QUOTA))
    BY DEF IdentityInv, IdentityTypeOK, FailuresBounded, Debt
  <2> QED BY <2>1, QuotaTimes
<1> QED BY <1>1, IdentityInvHolds, PTL

(* The verbs whose outcome the server keeps under the command's key.       *)
Keyed == Action \cup {"tag set", "tag remove", "open", "request"}

(* A command after its line was read.                                      *)
GivenCommands ==
    [pc : {"reading", "asking", "sending", "waiting", "done"}, line : Lines, role : CallerRoles,
     version : Nat, lowers : BOOLEAN, until : Int \cup {None}, attempt : Nat, exit : 0..7]

(* What a transaction may end with.                                        *)
Conflicts ==
    {"IdempotencyConflict", "VersionConflict", "InvalidTransition", "DuplicateActiveIncident",
     "Duplicate", "KillSwitch"}

Errors ==
    Conflicts \cup {"ok", "Unauthorized", "Forbidden", "SelfApproval", "ValidationError",
                    "InternalInvariantViolation"}

CommandsTypes ==
    /\ cli = [pc |-> "shell"] \/ cli \in GivenCommands
    /\ attempts = [a \in Attempts |-> attempts[a]]
    /\ \A a \in Attempts : attempts[a].pc \in {"none", "arrived", "deciding", "committed", "answered"}
    /\ version \in Nat \ {0} /\ clock \in Nat /\ applied \in Nat
    /\ keys \in KeyRecords \cup {None}

(* Nothing of the command has left the client.                             *)
Unsent ==
    /\ \A a \in Attempts : attempts[a].pc = "none"
    /\ keys = None /\ applied = 0

(* The record and the version bound the effects.                           *)
EffectsCounted ==
    /\ cli.line.verb \in Keyed => applied = IF keys # None /\ keys.error = "ok" THEN 1 ELSE 0
    /\ cli.line.verb \in MitigationAction =>
          applied <= 1 /\ (applied = 1 => cli.version < version)
    /\ cli.line.verb = "request" /\ keys # None => keys.error = "ok"
    /\ cli.line.verb # "suppress" /\ keys # None => keys.fingerprint = <<cli.line.verb>>

(* The command has not taken effect and no attempt of it ever will.        *)
Settled ==
    \/ keys # None /\ keys.error # "ok"
    \/ keys = None /\ is_versioned(cli.line.verb) /\ cli.version < version

(* What an attempt knows.                                                  *)
AttemptSound(a) ==
    LET verb == cli.line.verb
    IN  /\ attempts[a].pc = "deciding" =>
              /\ attempts[a].fingerprint \in Fingerprints
              /\ verb # "suppress" => attempts[a].fingerprint = <<verb>>
        /\ attempts[a].pc = "committed" => verb # "engage" /\ applied >= 1
        /\ attempts[a].pc = "answered" =>
              /\ attempts[a].status \in Nat
              /\ attempts[a].status < 300 => verb = "engage" \/ applied >= 1
              /\ attempts[a].status = 409 /\ verb \in Replayable => Settled

(* What the exit code says.                                                *)
ExitSound ==
    cli.pc = "done" =>
        /\ cli.exit = SUCCESS => cli.line.verb = "engage" \/ applied >= 1
        /\ cli.exit = CONFLICT /\ cli.line.verb \in Replayable => Settled

(* A line that means no command goes nowhere.                              *)
LineSound ==
    \/ cli.line.verb \in Command
    \/ Unsent /\ cli.pc = "done" /\ cli.exit = USAGE

CallInv ==
    /\ CommandsTypes
    /\ cli.pc \in {"shell", "reading", "asking"} => Unsent
    /\ cli.pc # "shell" =>
          /\ cli.version <= version
          /\ cli.pc \in {"sending", "waiting"} => cli.attempt \in Attempts /\ cli.until \in Int
          /\ \A a \in Attempts : attempts[a].pc # "none" => cli.until \in Int
          /\ LineSound
          /\ EffectsCounted
          /\ \A a \in Attempts : AttemptSound(a)
          /\ ExitSound

------------------------------------------------------------------------------
(* What each error is answered with: only the conflicts are a 409, and     *)
(* only success is below 300 (status_of, Problem).                         *)
LEMMA StatusSays ==
    ASSUME NEW e \in Errors \cup {"InvalidRequest", "Unauthenticated", "RateLimited", "Unavailable"}
    PROVE  /\ Status(e) \in Nat
           /\ Status(e) < 300 => e = "ok"
           /\ Status(e) = 409 => e \in Conflicts
  <1>1. CASE e = "ok"
    BY <1>1 DEF Status
  <1>2. CASE e # "ok" /\ e \in Conflicts
    <2>1. Problem(e) \in {"IllegalTransition", "VersionConflict", "IdempotencyKeyReuse",
                         "DuplicateActive", "KillSwitch"}
      BY <1>2 DEF Conflicts, Problem
    <2>2. status_of(Problem(e)) = 409
      BY <2>1 DEF status_of
    <2> QED BY <1>2, <2>2 DEF Status
  <1>3. CASE e # "ok" /\ e \notin Conflicts
    <2>1. Problem(e) \in {"Forbidden", "SelfApproval", "ValidationFailed", "Internal",
                         "InvalidRequest", "Unauthenticated", "RateLimited", "Unavailable"}
      BY <1>3 DEF Errors, Problem
    <2>2. status_of(Problem(e)) \in {400, 401, 403, 422, 429, 500, 503}
      BY <2>1 DEF status_of
    <2> QED BY <1>3, <2>2 DEF Status
  <1> QED BY <1>1, <1>2, <1>3

(* The exit code of a refusal is CONFLICT for a 409 alone, and never       *)
(* SUCCESS (exit::for_status).                                             *)
LEMMA ExitSays ==
    ASSUME NEW status \in Nat
    PROVE  /\ for_status(status) \in 0..7
           /\ for_status(status) # SUCCESS
           /\ for_status(status) = CONFLICT => status = 409
  BY DEF for_status, SUCCESS, FAILURE, USAGE, AUTH, CONFLICT, NOT_FOUND, RATE_LIMITED, UNAVAILABLE

(* What a transaction's decision says of the record and of the effect.     *)
DecisionSound(d) ==
    /\ d.error \in Errors
    /\ d.effect \in BOOLEAN
    /\ d.keys \in KeyRecords \cup {None}
    /\ cli.line.verb \in Keyed =>
          \/ d.keys = keys /\ ~d.effect
          \/ /\ keys = None /\ d.keys # None
             /\ d.effect <=> d.keys.error = "ok"
             /\ d.keys.error = d.error
             /\ cli.line.verb # "suppress" => d.keys.fingerprint = <<cli.line.verb>>
             /\ cli.line.verb = "request" => d.error = "ok"
             /\ is_versioned(cli.line.verb) => cli.version = version
    /\ cli.line.verb \notin Keyed => d.keys = keys
    /\ cli.line.verb \in MitigationAction => (d.effect => cli.version = version)
    /\ d.error = "ok" /\ cli.line.verb # "engage" =>
          d.effect \/ (keys # None /\ keys.error = "ok" /\ cli.line.verb \in Keyed)
    /\ d.error \in Conflicts /\ cli.line.verb \in Replayable =>
          \/ d.keys # None /\ d.keys.error = d.error
          \/ d.keys = None /\ is_versioned(cli.line.verb) /\ cli.version # version

(* A decision on the command is sound, whichever handler takes it.         *)
LEMMA DecisionsAreSound ==
    ASSUME CommandsTypes, EffectsCounted, cli.line.verb \in Command, NEW print \in Fingerprints,
           cli.line.verb # "suppress" => print = <<cli.line.verb>>,
           NEW d \in decide(cli.line.verb, print)
    PROVE  DecisionSound(d)
  <1> DEFINE verb == cli.line.verb
  <1>0. /\ \A e \in Outcomes : [fingerprint |-> print, error |-> e] \in KeyRecords
        /\ \A e \in Outcomes : [fingerprint |-> print, error |-> e] # None
    <2>1. \A e \in Outcomes : [fingerprint |-> print, error |-> e] \in KeyRecords
      BY DEF KeyRecords
    <2> QED BY <2>1, KeyRecordsAssumption
  <1>s. Outcomes \subseteq Errors
    BY DEF Outcomes, Errors, Conflicts
  <1>k. keys # None => keys.error \in Outcomes /\ keys.error \in Errors
    BY <1>s DEF CommandsTypes, KeyRecords
  <1>1. CASE verb \in Action \cup {"tag set", "tag remove"}
    <2>0. d \in handle_command(verb, print)
      BY <1>1 DEF decide, Action, change_verbs, note_verbs, MitigationAction
    <2>v. verb \in Keyed /\ verb \notin MitigationAction /\ verb # "engage" /\ verb # "request"
      BY <1>1 DEF Keyed, MitigationAction, Action, change_verbs, note_verbs
    <2>1. CASE ~may(cli.role, verb)
      <3>1. d = [error |-> "Unauthorized", effect |-> FALSE, keys |-> keys]
        BY <2>0, <2>1 DEF handle_command, Refuses, Decision
      <3> QED BY <3>1, <2>v DEF DecisionSound, CommandsTypes, Errors, Conflicts
    <2>2. CASE may(cli.role, verb) /\ keys # None /\ keys.fingerprint = print
      <3>1. d = [error |-> keys.error, effect |-> FALSE, keys |-> keys]
        BY <2>0, <2>2 DEF handle_command, check_key, Refuses, Decision
      <3> QED BY <3>1, <2>2, <2>v, <1>k DEF DecisionSound, CommandsTypes
    <2>3. CASE may(cli.role, verb) /\ keys # None /\ keys.fingerprint # print
      <3>1. d = [error |-> "IdempotencyConflict", effect |-> FALSE, keys |-> keys]
        BY <2>0, <2>3 DEF handle_command, check_key, Refuses, Decision
      <3>2. verb = "suppress"
        BY <2>3 DEF EffectsCounted
      <3> QED BY <3>1, <3>2, <2>v DEF DecisionSound, CommandsTypes, Errors, Conflicts, Replayable
    <2>4. CASE may(cli.role, verb) /\ keys = None /\ is_versioned(verb) /\ cli.version # version
      <3>1. d = [error |-> "VersionConflict", effect |-> FALSE, keys |-> keys]
        BY <2>0, <2>4 DEF handle_command, check_key, Refuses, Decision
      <3> QED BY <3>1, <2>4, <2>v DEF DecisionSound, CommandsTypes, Errors, Conflicts
    <2>5. CASE may(cli.role, verb) /\ keys = None /\ (is_versioned(verb) => cli.version = version)
      <3>1. PICK e \in {"ok", "InvalidTransition", "ValidationError", "InternalInvariantViolation"} :
               d = Recorded(e, print)
        BY <2>0, <2>5 DEF handle_command, check_key
      <3>2. CASE e = "InternalInvariantViolation"
        <4>1. d = [error |-> e, effect |-> FALSE, keys |-> keys]
          BY <3>1, <3>2 DEF Recorded, Decision
        <4> QED BY <4>1, <3>2, <2>v DEF DecisionSound, CommandsTypes, Errors, Conflicts
      <3>3. CASE e # "InternalInvariantViolation"
        <4>1. d = [error |-> e, effect |-> (e = "ok"),
                   keys |-> [fingerprint |-> print, error |-> e]]
          BY <3>1, <3>3 DEF Recorded, Decision
        <4>2. e \in Outcomes /\ e \in Errors
          BY <3>3, <1>s DEF Outcomes
        <4> QED BY <4>1, <4>2, <1>0, <2>5, <2>v DEF DecisionSound, Conflicts
      <3> QED BY <3>2, <3>3
    <2> QED BY <2>1, <2>2, <2>3, <2>4, <2>5
  <1>2. CASE verb = "open"
    <2>0. d \in create_manual_incident(print)
      BY <1>2 DEF decide, Action, change_verbs, note_verbs, MitigationAction
    <2>v. /\ verb \in Keyed /\ verb \notin MitigationAction /\ verb # "engage" /\ verb # "request"
          /\ ~is_versioned(verb) /\ verb # "suppress"
      BY <1>2 DEF Keyed, MitigationAction, Action, change_verbs, note_verbs, is_versioned
    <2>1. CASE ~may(cli.role, "open")
      <3>1. d = [error |-> "Unauthorized", effect |-> FALSE, keys |-> keys]
        BY <2>0, <2>1 DEF create_manual_incident, Refuses, Decision
      <3> QED BY <3>1, <2>v DEF DecisionSound, CommandsTypes, Errors, Conflicts
    <2>2. CASE may(cli.role, "open") /\ keys # None
      <3>1. keys.fingerprint = print
        BY <2>2, <2>v DEF EffectsCounted
      <3>2. d = [error |-> keys.error, effect |-> FALSE, keys |-> keys]
        BY <2>0, <2>2, <3>1 DEF create_manual_incident, check_key, Refuses, Decision
      <3> QED BY <3>2, <2>2, <2>v, <1>k DEF DecisionSound, CommandsTypes
    <2>3. CASE may(cli.role, "open") /\ keys = None
      <3>1. PICK e \in {"ok", "DuplicateActiveIncident", "ValidationError"} : d = Recorded(e, print)
        BY <2>0, <2>3 DEF create_manual_incident, check_key
      <3>2. d = [error |-> e, effect |-> (e = "ok"),
                 keys |-> [fingerprint |-> print, error |-> e]]
        BY <3>1 DEF Recorded, Decision
      <3>3. e \in Outcomes /\ e \in Errors
        BY <1>s DEF Outcomes
      <3> QED BY <3>2, <3>3, <1>0, <2>3, <2>v DEF DecisionSound, Conflicts
    <2> QED BY <2>1, <2>2, <2>3
  <1>3. CASE verb = "request"
    <2>0. d \in request_mitigation(print)
      BY <1>3 DEF decide, Action, change_verbs, note_verbs, MitigationAction
    <2>v. /\ verb \in Keyed /\ verb \notin MitigationAction /\ verb # "engage" /\ verb \notin Replayable
          /\ ~is_versioned(verb) /\ verb # "suppress"
      BY <1>3 DEF Keyed, MitigationAction, Action, change_verbs, note_verbs, is_versioned, Replayable
    <2>1. CASE d \in {Refuses(e) : e \in Errors \ {"ok"}}
      <3>1. PICK e \in Errors \ {"ok"} : d = [error |-> e, effect |-> FALSE, keys |-> keys]
        BY <2>1 DEF Refuses, Decision
      <3> QED BY <3>1, <2>v DEF DecisionSound, CommandsTypes
    <2>2. CASE keys # None /\ d = Refuses("ok")
      <3>1. d = [error |-> "ok", effect |-> FALSE, keys |-> keys]
        BY <2>2 DEF Refuses, Decision
      <3> QED BY <3>1, <2>2, <2>v, <1>3 DEF DecisionSound, CommandsTypes, EffectsCounted, Errors, Conflicts
    <2>3. CASE keys = None /\ d = Recorded("ok", print)
      <3>1. d = [error |-> "ok", effect |-> TRUE, keys |-> [fingerprint |-> print, error |-> "ok"]]
        BY <2>3 DEF Recorded, Decision
      <3>2. "ok" \in Outcomes /\ "ok" \in Errors /\ "ok" \notin Conflicts
        BY DEF Outcomes, Errors, Conflicts
      <3>3. d.keys \in KeyRecords /\ d.keys # None
        BY <3>1, <3>2, <1>0
      <3>4. d.error = "ok" /\ d.effect = TRUE /\ d.keys.error = "ok" /\ d.keys.fingerprint = print
        BY <3>1
      <3> QED BY <3>2, <3>3, <3>4, <2>3, <2>v DEF DecisionSound
    <2>4. {"Forbidden", "KillSwitch", "IdempotencyConflict", "Duplicate"} \subseteq Errors \ {"ok"}
      BY DEF Errors, Conflicts
    <2> QED BY <2>0, <2>1, <2>2, <2>3, <2>4 DEF request_mitigation
  <1>4. CASE verb \in MitigationAction
    <2>0. d \in change(verb)
      BY <1>4 DEF decide, Action, change_verbs, note_verbs, MitigationAction
    <2>v. verb \notin Keyed /\ verb # "engage" /\ verb \notin Replayable
      BY <1>4 DEF Keyed, MitigationAction, Action, change_verbs, note_verbs, Replayable
    <2>1. CASE d \in {Refuses(e) : e \in Errors \ {"ok"}}
      <3>1. PICK e \in Errors \ {"ok"} : d = [error |-> e, effect |-> FALSE, keys |-> keys]
        BY <2>1 DEF Refuses, Decision
      <3> QED BY <3>1, <2>v DEF DecisionSound, CommandsTypes
    <2>2. CASE cli.version = version /\ d = Decision("ok", TRUE, keys)
      BY <2>2, <2>v DEF Decision, DecisionSound, CommandsTypes, Errors, Conflicts
    <2>4. {"Forbidden", "VersionConflict", "InvalidTransition", "SelfApproval"} \subseteq Errors \ {"ok"}
      BY DEF Errors, Conflicts
    <2> QED BY <2>0, <2>1, <2>2, <2>4 DEF change
  <1>5. CASE verb \in {"engage", "export"}
    <2>v. verb \notin Keyed /\ verb \notin MitigationAction /\ verb \notin Replayable
      BY <1>5 DEF Keyed, MitigationAction, Action, change_verbs, note_verbs, Replayable
    <2>0. d \in IF verb = "engage" THEN set_kill_switch ELSE record_export
      BY <1>5, <2>v DEF decide, Keyed
    <2>1. CASE d \in {Refuses(e) : e \in Errors \ {"ok"}}
      <3>1. PICK e \in Errors \ {"ok"} : d = [error |-> e, effect |-> FALSE, keys |-> keys]
        BY <2>1 DEF Refuses, Decision
      <3> QED BY <3>1, <2>v DEF DecisionSound, CommandsTypes
    <2>2. CASE verb = "engage" /\ d = Decision("ok", ~engaged, keys)
      BY <2>2, <2>v DEF Decision, DecisionSound, CommandsTypes, Errors, Conflicts
    <2>3. CASE verb = "export" /\ d = Decision("ok", TRUE, keys)
      BY <2>3, <2>v DEF Decision, DecisionSound, CommandsTypes, Errors, Conflicts
    <2>4. {"Forbidden", "Unauthorized"} \subseteq Errors \ {"ok"}
      BY DEF Errors, Conflicts
    <2> QED BY <2>0, <2>1, <2>2, <2>3, <2>4, <1>5 DEF set_kill_switch, record_export
  <1> QED BY <1>1, <1>2, <1>3, <1>4, <1>5 DEF Command

(* What every step of the server and of others leaves: effects are not     *)
(* taken back, and what is settled stays settled.                          *)
Onward ==
    /\ UNCHANGED cli
    /\ applied <= applied' /\ version <= version'
    /\ cli.line.verb \in Replayable /\ Settled => Settled'

LEMMA ReplayableIsKeyed == Replayable \subseteq Keyed
  BY DEF Replayable, Keyed

(* A committed decision keeps the record, the version and the effects in   *)
(* step, and its answer is true.                                           *)
LEMMA CommitSound ==
    ASSUME CommandsTypes, EffectsCounted, cli \in GivenCommands, cli.version <= version,
           NEW d, DecisionSound(d), Commits(cli.line.verb, d), UNCHANGED cli
    PROVE  /\ version' \in Nat \ {0} /\ applied' \in Nat /\ keys' \in KeyRecords \cup {None}
           /\ Onward /\ EffectsCounted'
           /\ d.error = "ok" /\ cli.line.verb # "engage" => applied' >= 1
           /\ d.error \in Conflicts /\ cli.line.verb \in Replayable => Settled'
  <1> DEFINE verb == cli.line.verb
  <1>c. cli' = cli /\ cli.version \in Nat
    BY DEF GivenCommands
  <1>n. version \in Nat \ {0} /\ applied \in Nat
    BY DEF CommandsTypes
  <1>b. d.effect \in BOOLEAN
    BY DEF DecisionSound
  <1>1. /\ version' = IF d.effect /\ verb \notin {"engage", "export"} THEN version + 1 ELSE version
        /\ applied' = IF d.effect THEN applied + 1 ELSE applied
        /\ keys' = d.keys
    BY DEF Commits
  <1>2. version' \in Nat \ {0} /\ applied' \in Nat /\ applied <= applied' /\ version <= version'
    BY <1>1, <1>n
  <1>3. keys' \in KeyRecords \cup {None}
    BY <1>1 DEF DecisionSound
  <1>d. verb \notin {"engage", "export"} \/ verb \notin Keyed \cup MitigationAction
    BY DEF Keyed, MitigationAction, Action, change_verbs, note_verbs
  <1>e. verb \notin Keyed \/ verb \notin MitigationAction
    BY DEF Keyed, MitigationAction, Action, change_verbs, note_verbs
  <1>4. verb \in Keyed =>
          \/ keys' = keys /\ applied' = applied
          \/ /\ keys = None /\ keys' # None /\ keys'.error = d.error
             /\ applied' = IF keys'.error = "ok" THEN applied + 1 ELSE applied
             /\ verb # "suppress" => keys'.fingerprint = <<verb>>
             /\ verb = "request" => keys'.error = "ok"
             /\ is_versioned(verb) => cli.version = version
    BY <1>1 DEF DecisionSound
  <1>5. verb \notin Keyed => keys' = keys
    BY <1>1 DEF DecisionSound
  <1>6. EffectsCounted'
    <2>1. verb \in Keyed => applied' = IF keys' # None /\ keys'.error = "ok" THEN 1 ELSE 0
      <3>1. ASSUME verb \in Keyed
            PROVE  applied = IF keys # None /\ keys.error = "ok" THEN 1 ELSE 0
        BY <3>1 DEF EffectsCounted
      <3> QED BY <3>1, <1>4, <1>n
    <2>2. verb \in MitigationAction => applied' <= 1 /\ (applied' = 1 => cli.version < version')
      <3>1. ASSUME verb \in MitigationAction
            PROVE  applied <= 1 /\ (applied = 1 => cli.version < version)
        BY <3>1 DEF EffectsCounted
      <3>2. ASSUME verb \in MitigationAction
            PROVE  d.effect => cli.version = version
        BY <3>2 DEF DecisionSound
      <3> QED BY <3>1, <3>2, <1>1, <1>n, <1>b, <1>c, <1>d
    <2>3. verb = "request" /\ keys' # None => keys'.error = "ok"
      BY <1>4 DEF EffectsCounted, Keyed
    <2>4. verb # "suppress" /\ keys' # None => keys'.fingerprint = <<verb>>
      BY <1>4, <1>5 DEF EffectsCounted
    <2> QED BY <2>1, <2>2, <2>3, <2>4, <1>c DEF EffectsCounted
  <1>7. verb \in Keyed /\ Settled => Settled'
    <2> SUFFICES ASSUME verb \in Keyed, Settled PROVE Settled'
      OBVIOUS
    <2>1. CASE keys' = keys
      BY <2>1, <1>2, <1>c, <1>n DEF Settled
    <2>2. CASE keys' # keys
      <3>1. keys = None /\ (is_versioned(verb) => cli.version = version)
        BY <2>2, <1>4
      <3> QED BY <3>1, <1>c, <1>n DEF Settled
    <2> QED BY <2>1, <2>2
  <1>8. d.error = "ok" /\ verb # "engage" => applied' >= 1
    <2> SUFFICES ASSUME d.error = "ok", verb # "engage" PROVE applied' >= 1
      OBVIOUS
    <2>1. d.effect \/ (keys # None /\ keys.error = "ok" /\ verb \in Keyed)
      BY DEF DecisionSound
    <2>2. keys # None /\ keys.error = "ok" /\ verb \in Keyed => applied = 1
      BY DEF EffectsCounted
    <2> QED BY <2>1, <2>2, <1>1, <1>2, <1>n
  <1>9. d.error \in Conflicts /\ verb \in Replayable => Settled'
    <2> SUFFICES ASSUME d.error \in Conflicts, verb \in Replayable PROVE Settled'
      OBVIOUS
    <2>1. \/ keys' # None /\ keys'.error = d.error
          \/ keys' = None /\ is_versioned(verb) /\ cli.version # version
      BY <1>1 DEF DecisionSound
    <2>2. d.error # "ok"
      BY DEF Conflicts
    <2> QED BY <2>1, <2>2, <1>2, <1>c, <1>n DEF Settled
  <1> QED BY <1>2, <1>3, <1>6, <1>7, <1>8, <1>9, <1>c, ReplayableIsKeyed DEF Onward

(* What an attempt knows stays true while others go on.                    *)
LEMMA AttemptKept ==
    ASSUME NEW a, AttemptSound(a), Onward, attempts'[a] = attempts[a],
           applied \in Nat, applied' \in Nat
    PROVE  AttemptSound(a)'
  BY DEF AttemptSound, Onward

(* So does what the exit code says.                                        *)
LEMMA ExitKept ==
    ASSUME ExitSound, Onward, applied \in Nat, applied' \in Nat
    PROVE  ExitSound'
  BY DEF ExitSound, Onward

------------------------------------------------------------------------------
(* The invariant holds before the command is given.                        *)
LEMMA CallInvInit == CommandsInit => CallInv
  <1> SUFFICES ASSUME CommandsInit PROVE CallInv
    OBVIOUS
  <1>1. CommandsTypes
    BY DEF CommandsInit, CommandsTypes
  <1> QED BY <1>1 DEF CommandsInit, CallInv, Unsent

(* A step of one attempt at the server: the others know what they knew.    *)
LEMMA ServerStep ==
    ASSUME CallInv, NEW a \in Attempts, attempts[a].pc # "none", NEW new,
           attempts' = [attempts EXCEPT ![a] = new],
           new.pc \in {"none", "deciding", "committed", "answered"},
           version' \in Nat \ {0}, applied' \in Nat, clock' \in Nat, keys' \in KeyRecords \cup {None},
           Onward, EffectsCounted', AttemptSound(a)'
    PROVE  CallInv'
  <1>0. /\ cli' = cli /\ cli.pc # "shell" /\ cli \in GivenCommands
        /\ cli.pc \notin {"reading", "asking"}
    BY DEF CallInv, CommandsTypes, Unsent, Onward
  <1>1. CommandsTypes'
    BY <1>0 DEF CallInv, CommandsTypes
  <1>2. cli.version <= version'
    BY <1>0 DEF CallInv, CommandsTypes, GivenCommands, Onward
  <1>3. cli.line.verb \in Command
    BY <1>0 DEF CallInv, LineSound, Unsent
  <1>4. ASSUME NEW b \in Attempts PROVE AttemptSound(b)'
    <2>1. CASE b = a
      BY <2>1
    <2>2. CASE b # a
      <3>1. attempts'[b] = attempts[b] /\ AttemptSound(b)
        BY <2>2, <1>0 DEF CallInv, CommandsTypes
      <3> QED BY <3>1, AttemptKept DEF CallInv, CommandsTypes
    <2> QED BY <2>1, <2>2
  <1>5. ExitSound'
    BY <1>0, ExitKept DEF CallInv, CommandsTypes
  <1>6. cli.until \in Int
    BY <1>0 DEF CallInv
  <1>7. cli.pc \in {"sending", "waiting"} => cli.attempt \in Attempts
    BY <1>0 DEF CallInv
  <1> QED BY <1>0, <1>1, <1>2, <1>3, <1>4, <1>5, <1>6, <1>7 DEF CallInv, LineSound

(* An attempt is answered with an error before anything is decided.        *)
LEMMA AnsweredStep ==
    ASSUME CallInv, NEW a \in Attempts, attempts[a].pc # "none",
           NEW status \in Nat, status >= 300, status # 409, Answer(a, status),
           UNCHANGED <<cli, version, keys, clock, applied>>
    PROVE  CallInv'
  <1> DEFINE new == [pc |-> "answered", status |-> status]
  <1>1. attempts' = [attempts EXCEPT ![a] = new] /\ attempts'[a] = new
    BY DEF Answer, CallInv, CommandsTypes
  <1>2. Onward
    BY DEF Onward, Settled, CallInv, CommandsTypes
  <1>3. cli.pc # "shell"
    BY DEF CallInv, Unsent
  <1>4. EffectsCounted'
    BY <1>3 DEF CallInv, EffectsCounted
  <1>5. AttemptSound(a)'
    BY <1>1 DEF AttemptSound
  <1> QED BY <1>1, <1>2, <1>4, <1>5, ServerStep DEF CallInv, CommandsTypes

LEMMA HandleStep ==
    ASSUME CallInv, NEW a \in Attempts, handle(a)
    PROVE  CallInv'
  <1> DEFINE verb == cli.line.verb
  <1>0. /\ attempts[a].pc # "none" /\ UNCHANGED <<cli, version, keys, clock, applied>>
        /\ cli.pc # "shell" /\ cli \in GivenCommands /\ verb \in Command /\ cli.until \in Int
        /\ clock \in Nat
    BY DEF handle, CallInv, CommandsTypes, Unsent, LineSound
  <1>1. ASSUME NEW e \in {"Unauthenticated", "Unavailable", "RateLimited", "InvalidRequest",
                          "ValidationError"},
               Answer(a, Status(e))
        PROVE  CallInv'
    <2>1. Status(e) \in Nat /\ Status(e) >= 300 /\ Status(e) # 409
      BY StatusSays, e \notin Conflicts, e # "ok" DEF Errors, Conflicts
    <2> QED BY <1>0, <1>1, <2>1, AnsweredStep
  <1>2. ASSUME attempts' = [attempts EXCEPT ![a] = [pc |-> "deciding", fingerprint |-> fingerprint(verb)]]
        PROVE  CallInv'
    <2> DEFINE new == [pc |-> "deciding", fingerprint |-> fingerprint(verb)]
    <2>1. attempts'[a] = new
      BY <1>2 DEF CallInv, CommandsTypes
    <2>2. Onward
      BY <1>0 DEF Onward, Settled, CallInv, CommandsTypes
    <2>3. EffectsCounted'
      BY <1>0 DEF CallInv, EffectsCounted
    <2>4. fingerprint(verb) \in Fingerprints /\ (verb # "suppress" => fingerprint(verb) = <<verb>>)
      BY <1>0 DEF fingerprint, Fingerprints, suppression_duration
    <2>5. AttemptSound(a)'
      BY <1>0, <2>1, <2>4 DEF AttemptSound
    <2> QED BY <1>0, <1>2, <2>1, <2>2, <2>3, <2>5, ServerStep DEF CallInv, CommandsTypes
  <1>3. ASSUME apply(a) PROVE CallInv'
    BY <1>1, <1>2, <1>3 DEF apply, manual_incident, request_from
  <1> QED BY <1>1, <1>3 DEF handle

LEMMA ExecuteStep ==
    ASSUME CallInv, NEW a \in Attempts, execute(a)
    PROVE  CallInv'
  <1> DEFINE verb == cli.line.verb
             print == attempts[a].fingerprint
  <1>0. /\ attempts[a].pc = "deciding" /\ UNCHANGED <<cli, clock>>
        /\ cli.pc # "shell" /\ cli \in GivenCommands /\ verb \in Command
        /\ cli.version <= version /\ EffectsCounted /\ CommandsTypes
        /\ print \in Fingerprints /\ (verb # "suppress" => print = <<verb>>)
        /\ attempts = [b \in Attempts |-> attempts[b]] /\ clock' \in Nat
    BY DEF execute, CallInv, CommandsTypes, Unsent, LineSound, AttemptSound
  <1>1. ASSUME Answer(a, Status("Unavailable")), UNCHANGED <<version, keys, engaged, applied>>
        PROVE  CallInv'
    <2>1. Status("Unavailable") \in Nat /\ Status("Unavailable") >= 300 /\ Status("Unavailable") # 409
      BY StatusSays DEF Errors, Conflicts
    <2> QED BY <1>0, <1>1, <2>1, AnsweredStep
  <1>2. ASSUME NEW d \in decide(verb, print), Commits(verb, d),
               \/ IF d.error # "ok" THEN Answer(a, Status(d.error))
                  ELSE IF verb = "engage" THEN Answer(a, 200)
                  ELSE attempts' = [attempts EXCEPT ![a] = [pc |-> "committed"]]
               \/ Answer(a, Status("InternalInvariantViolation"))
        PROVE  CallInv'
    <2>1. DecisionSound(d)
      <3>1. PICK f \in Fingerprints : f = print
        BY <1>0
      <3> QED BY <3>1, <1>0, <1>2, DecisionsAreSound
    <2>2. /\ version' \in Nat \ {0} /\ applied' \in Nat /\ keys' \in KeyRecords \cup {None}
          /\ Onward /\ EffectsCounted'
          /\ d.error = "ok" /\ verb # "engage" => applied' >= 1
          /\ d.error \in Conflicts /\ verb \in Replayable => Settled'
      BY <1>0, <1>2, <2>1, CommitSound
    <2>3. d.error \in Errors
      BY <2>1 DEF DecisionSound
    <2>4. ASSUME NEW e \in Errors, e # "ok",
                 e \in Conflicts /\ verb \in Replayable => Settled', Answer(a, Status(e))
          PROVE  CallInv'
      <3> DEFINE new == [pc |-> "answered", status |-> Status(e)]
      <3>1. attempts' = [attempts EXCEPT ![a] = new] /\ attempts'[a] = new
        BY <2>4, <1>0 DEF Answer
      <3>2. Status(e) \in Nat /\ Status(e) >= 300 /\ (Status(e) = 409 => e \in Conflicts)
        BY <2>4, StatusSays
      <3>3. AttemptSound(a)'
        BY <3>1, <3>2, <2>4, <1>0 DEF AttemptSound
      <3> QED BY <3>1, <3>3, <2>2, <1>0, ServerStep
    <2>5. CASE d.error # "ok" /\ Answer(a, Status(d.error))
      BY <2>2, <2>3, <2>4, <2>5
    <2>6. CASE Answer(a, Status("InternalInvariantViolation"))
      <3>1. "InternalInvariantViolation" \in Errors /\ "InternalInvariantViolation" \notin Conflicts
        BY DEF Errors, Conflicts
      <3> QED BY <3>1, <2>4, <2>6
    <2>7. CASE verb = "engage" /\ Answer(a, 200)
      <3> DEFINE new == [pc |-> "answered", status |-> 200]
      <3>1. attempts' = [attempts EXCEPT ![a] = new] /\ attempts'[a] = new
        BY <2>7, <1>0 DEF Answer
      <3>2. AttemptSound(a)'
        BY <3>1, <2>7, <1>0 DEF AttemptSound
      <3> QED BY <3>1, <3>2, <2>2, <1>0, ServerStep
    <2>8. CASE /\ d.error = "ok" /\ verb # "engage"
               /\ attempts' = [attempts EXCEPT ![a] = [pc |-> "committed"]]
      <3> DEFINE new == [pc |-> "committed"]
      <3>1. attempts' = [attempts EXCEPT ![a] = new] /\ attempts'[a] = new
        BY <2>8, <1>0
      <3>2. AttemptSound(a)'
        BY <3>1, <2>2, <2>8, <1>0 DEF AttemptSound
      <3> QED BY <3>1, <3>2, <2>2, <1>0, ServerStep
    <2> QED BY <1>2, <2>5, <2>6, <2>7, <2>8
  <1> QED BY <1>1, <1>2 DEF execute

LEMMA GetIncidentStep ==
    ASSUME CallInv, NEW a \in Attempts, get_incident(a)
    PROVE  CallInv'
  <1>0. /\ attempts[a].pc = "committed" /\ UNCHANGED <<cli, version, keys, clock, applied>>
        /\ cli.pc # "shell" /\ AttemptSound(a)
        /\ attempts = [b \in Attempts |-> attempts[b]]
    BY DEF get_incident, CallInv, CommandsTypes, Unsent, serverVars
  <1>1. CASE Answer(a, Status("Unavailable"))
    <2>1. Status("Unavailable") \in Nat /\ Status("Unavailable") >= 300 /\ Status("Unavailable") # 409
      BY StatusSays DEF Errors, Conflicts
    <2> QED BY <1>0, <1>1, <2>1, AnsweredStep
  <1>2. CASE Answer(a, 200)
    <2> DEFINE new == [pc |-> "answered", status |-> 200]
    <2>1. attempts' = [attempts EXCEPT ![a] = new] /\ attempts'[a] = new
      BY <1>2, <1>0 DEF Answer
    <2>2. Onward
      BY <1>0 DEF Onward, Settled, CallInv, CommandsTypes
    <2>3. EffectsCounted'
      BY <1>0 DEF CallInv, EffectsCounted
    <2>4. AttemptSound(a)'
      BY <2>1, <1>0 DEF AttemptSound
    <2> QED BY <1>0, <2>1, <2>2, <2>3, <2>4, ServerStep DEF CallInv, CommandsTypes
  <1> QED BY <1>1, <1>2 DEF get_incident

LEMMA DroppedStep ==
    ASSUME CallInv, NEW a \in Attempts, Dropped(a)
    PROVE  CallInv'
  <1>0. /\ attempts[a].pc # "none" /\ UNCHANGED <<cli, version, keys, clock, applied>>
        /\ cli.pc # "shell"
        /\ attempts = [b \in Attempts |-> attempts[b]]
    BY DEF Dropped, CallInv, CommandsTypes, Unsent, serverVars
  <1> DEFINE new == [pc |-> "none"]
  <1>1. attempts' = [attempts EXCEPT ![a] = new] /\ attempts'[a] = new
    BY <1>0 DEF Dropped
  <1>2. Onward
    BY <1>0 DEF Onward, Settled, CallInv, CommandsTypes
  <1>3. EffectsCounted'
    BY <1>0 DEF CallInv, EffectsCounted
  <1>4. AttemptSound(a)'
    BY <1>1 DEF AttemptSound
  <1> QED BY <1>0, <1>1, <1>2, <1>3, <1>4, ServerStep DEF CallInv, CommandsTypes

------------------------------------------------------------------------------
LEMMA RunWithStep ==
    ASSUME CallInv, NEW line \in Lines, NEW role \in CallerRoles, run_with(line, role)
    PROVE  CallInv'
  <1>0. cli.pc = "shell" /\ Unsent /\ UNCHANGED <<attempts, version, keys, clock, applied>>
    BY DEF run_with, CallInv, serverVars
  <1> DEFINE pc == IF ~parse(line) \/ unresolvable(line) THEN "done"
                   ELSE IF needs_current(line) \/ resolves(line) THEN "reading" ELSE "asking"
  <1>1. cli' = [pc |-> pc, line |-> line, role |-> role, version |-> 1, lowers |-> FALSE,
                until |-> None, attempt |-> 0, exit |-> USAGE]
    BY DEF run_with
  <1>2. pc \in {"reading", "asking", "done"} /\ (pc # "done" => line.verb \in Command)
    BY DEF parse
  <1> HIDE DEF pc
  <1>3. cli' \in GivenCommands
    BY <1>1, <1>2 DEF GivenCommands, USAGE
  <1>4. CommandsTypes'
    BY <1>0, <1>3 DEF CallInv, CommandsTypes
  <1>5. Unsent'
    BY <1>0 DEF Unsent
  <1>6. cli'.version <= version'
    BY <1>0, <1>1 DEF CallInv, CommandsTypes
  <1>7. LineSound'
    BY <1>1, <1>2, <1>5 DEF LineSound
  <1>8. EffectsCounted'
    BY <1>5 DEF EffectsCounted, Unsent
  <1>9. \A a \in Attempts : AttemptSound(a)'
    BY <1>5 DEF AttemptSound, Unsent
  <1>10. ExitSound'
    BY <1>1 DEF ExitSound, SUCCESS, CONFLICT, USAGE
  <1> QED BY <1>1, <1>2, <1>4, <1>5, <1>6, <1>7, <1>8, <1>9, <1>10 DEF CallInv, Unsent

(* A step of the client once the line is read: whatever is known of the    *)
(* attempts stays known while the line and the version sent stay.          *)
LEMMA ClientKept ==
    ASSUME CallInv, cli.pc # "shell", cli' \in GivenCommands,
           cli'.line = cli.line, cli'.version <= version, cli'.version \in Nat,
           Unsent \/ (cli'.version = cli.version /\ cli'.until = cli.until),
           UNCHANGED <<version, keys, clock, applied>>
    PROVE  /\ EffectsCounted'
           /\ \A a \in Attempts : attempts'[a] = attempts[a] => AttemptSound(a)'
           /\ ~Unsent => (Settled => Settled')
  <1>1. CASE Unsent
    BY <1>1 DEF Unsent, EffectsCounted, AttemptSound
  <1>2. CASE cli'.version = cli.version
    BY <1>2 DEF CallInv, EffectsCounted, AttemptSound, Settled
  <1> QED BY <1>1, <1>2

LEMMA FetchStep ==
    ASSUME CallInv, fetch
    PROVE  CallInv'
  <1>0. /\ cli.pc = "reading" /\ Unsent /\ UNCHANGED <<attempts, version, keys, clock, applied>>
        /\ cli \in GivenCommands /\ cli.line.verb \in Command /\ version \in Nat
    <2>1. cli.pc = "reading" /\ UNCHANGED <<attempts, version, keys, clock, applied>>
      BY DEF fetch, serverVars
    <2>2. cli \in GivenCommands /\ Unsent /\ version \in Nat /\ LineSound
      BY <2>1 DEF CallInv, CommandsTypes
    <2> QED BY <2>1, <2>2 DEF LineSound
  <1>1. PICK v \in Nat, pc \in {"asking", "done"}, lowers \in BOOLEAN, code \in 0..7 :
          /\ cli' = [cli EXCEPT !.pc = pc, !.version = v, !.lowers = lowers, !.exit = code]
          /\ v <= version /\ (pc = "done" => code \notin {SUCCESS, CONFLICT})
    <2>1. ASSUME NEW lowers \in BOOLEAN,
                 cli' = [cli EXCEPT !.pc = "asking", !.version = version, !.lowers = lowers]
          PROVE  cli' = [cli EXCEPT !.pc = "asking", !.version = version, !.lowers = lowers,
                                    !.exit = cli.exit]
      BY <2>1, <1>0 DEF GivenCommands
    <2>2. ASSUME NEW code \in {AUTH, NOT_FOUND, RATE_LIMITED, UNAVAILABLE, USAGE}, Exits(code)
          PROVE  /\ cli' = [cli EXCEPT !.pc = "done", !.version = cli.version, !.lowers = cli.lowers,
                                       !.exit = code]
                 /\ code \in 0..7 /\ code \notin {SUCCESS, CONFLICT}
      <3>1. code \in 0..7 /\ code \notin {SUCCESS, CONFLICT}
        BY DEF SUCCESS, CONFLICT, AUTH, NOT_FOUND, RATE_LIMITED, UNAVAILABLE, USAGE
      <3>2. cli' = [cli EXCEPT !.pc = "done", !.exit = code]
        BY <2>2 DEF Exits
      <3> QED BY <1>0, <3>1, <3>2 DEF GivenCommands
    <2>3. /\ cli.version \in Nat /\ cli.lowers \in BOOLEAN /\ cli.exit \in 0..7
          /\ cli.version <= version /\ version <= version
      BY <1>0 DEF GivenCommands, CallInv
    <2>4. \/ \E lowers \in BOOLEAN : cli' = [cli EXCEPT !.pc = "asking", !.version = version, !.lowers = lowers]
          \/ \E code \in {AUTH, NOT_FOUND, RATE_LIMITED, UNAVAILABLE, USAGE} : Exits(code)
      BY DEF fetch
    <2> QED BY ZenonT(30), <1>0, <2>1, <2>2, <2>3, <2>4
  <1>2. /\ cli' \in GivenCommands /\ cli'.line = cli.line /\ cli'.version = v /\ cli'.pc = pc
        /\ cli'.exit = code
    BY <1>0, <1>1 DEF GivenCommands
  <1>3. EffectsCounted' /\ \A a \in Attempts : AttemptSound(a)'
    BY <1>0, <1>1, <1>2, ClientKept
  <1>4. CommandsTypes'
    BY <1>0, <1>2 DEF CallInv, CommandsTypes
  <1>5. Unsent'
    BY <1>0 DEF Unsent
  <1>6. LineSound' /\ ExitSound'
    BY <1>0, <1>1, <1>2 DEF LineSound, ExitSound
  <1> QED BY <1>0, <1>1, <1>2, <1>3, <1>4, <1>5, <1>6 DEF CallInv, Unsent

LEMMA ConfirmStep ==
    ASSUME CallInv, confirm
    PROVE  CallInv'
  <1>0. /\ cli.pc = "asking" /\ Unsent /\ UNCHANGED <<attempts, version, keys, clock, applied>>
        /\ cli \in GivenCommands /\ cli.line.verb \in Command /\ clock \in Nat
        /\ cli.version \in Nat /\ cli.version <= version
    BY DEF confirm, CallInv, CommandsTypes, LineSound, serverVars, GivenCommands
  <1>1. CASE Exits(IF cli.line.tty THEN FAILURE ELSE USAGE)
    <2>1. PICK code \in {FAILURE, USAGE} : Exits(code)
      BY <1>1
    <2>2. /\ cli' \in GivenCommands /\ cli'.line = cli.line /\ cli'.version = cli.version
          /\ cli'.pc = "done" /\ cli'.exit \notin {SUCCESS, CONFLICT} /\ cli'.until = cli.until
      <3>1. code \in 0..7 /\ code \notin {SUCCESS, CONFLICT}
        BY DEF FAILURE, USAGE, SUCCESS, CONFLICT
      <3>2. cli' = [cli EXCEPT !.pc = "done", !.exit = code]
        BY <2>1 DEF Exits
      <3> QED BY <1>0, <3>1, <3>2 DEF GivenCommands
    <2>3. EffectsCounted' /\ \A a \in Attempts : AttemptSound(a)'
      BY <1>0, <2>2, ClientKept
    <2>4. CommandsTypes'
      BY <1>0, <2>2 DEF CallInv, CommandsTypes
    <2>5. LineSound' /\ ExitSound'
      BY <1>0, <2>2 DEF LineSound, ExitSound
    <2> QED BY <1>0, <2>2, <2>3, <2>4, <2>5 DEF CallInv, Unsent
  <1>2. CASE cli' = [cli EXCEPT !.pc = "sending", !.until = clock + 2, !.attempt = 1]
    <2>2. /\ cli' \in GivenCommands /\ cli'.line = cli.line /\ cli'.version = cli.version
          /\ cli'.pc = "sending" /\ cli'.until \in Int /\ cli'.attempt \in Attempts
      <3>1. clock + 2 \in Int /\ clock + 2 \in Int \cup {None} /\ 1 \in Attempts /\ 1 \in Nat
        BY <1>0, AttemptsAssumption DEF Attempts
      <3> QED BY <1>0, <1>2, <3>1 DEF GivenCommands
    <2>3. EffectsCounted' /\ \A a \in Attempts : AttemptSound(a)'
      BY <1>0, <2>2, ClientKept
    <2>4. CommandsTypes'
      BY <1>0, <2>2 DEF CallInv, CommandsTypes
    <2>5. LineSound' /\ ExitSound'
      BY <1>0, <2>2 DEF LineSound, ExitSound
    <2> QED BY <1>0, <2>2, <2>3, <2>4, <2>5 DEF CallInv, Unsent
  <1> QED BY <1>1, <1>2 DEF confirm

(* A step of the client while its call is under way.                       *)
LEMMA SendingStep ==
    ASSUME CallInv, cli.pc \in {"sending", "waiting"},
           NEW pc \in {"sending", "waiting", "done"}, NEW n \in Nat, NEW code \in 0..7,
           cli' = [cli EXCEPT !.pc = pc, !.attempt = n, !.exit = code],
           pc # "done" => n \in Attempts,
           pc = "done" /\ code = SUCCESS => cli.line.verb = "engage" \/ applied >= 1,
           pc = "done" /\ code = CONFLICT /\ cli.line.verb \in Replayable => Settled,
           \/ UNCHANGED attempts
           \/ \E a \in Attempts : attempts' = [attempts EXCEPT ![a] = [pc |-> "arrived"]],
           UNCHANGED <<version, keys, clock, applied>>
    PROVE  CallInv'
  <1>0. /\ cli \in GivenCommands /\ cli.line.verb \in Command /\ cli.version \in Nat
        /\ cli.version <= version /\ cli.until \in Int
        /\ attempts = [a \in Attempts |-> attempts[a]]
    BY DEF CallInv, CommandsTypes, LineSound, GivenCommands
  <1>1. /\ cli' \in GivenCommands /\ cli'.line = cli.line /\ cli'.version = cli.version
        /\ cli'.pc = pc /\ cli'.attempt = n /\ cli'.exit = code /\ cli'.until = cli.until
    BY <1>0 DEF GivenCommands
  <1>2. /\ EffectsCounted'
        /\ \A a \in Attempts : attempts'[a] = attempts[a] => AttemptSound(a)'
    BY <1>0, <1>1, ClientKept
  <1>3. \A a \in Attempts : attempts'[a] = attempts[a] \/ attempts'[a] = [pc |-> "arrived"]
    BY <1>0
  <1>4. \A a \in Attempts : AttemptSound(a)'
    BY <1>2, <1>3 DEF AttemptSound
  <1>5. CommandsTypes'
    <2>1. attempts' = [a \in Attempts |-> attempts'[a]]
      BY <1>0
    <2>2. \A a \in Attempts : attempts'[a].pc \in {"none", "arrived", "deciding", "committed", "answered"}
      BY <1>3 DEF CallInv, CommandsTypes
    <2> QED BY <1>1, <2>1, <2>2 DEF CallInv, CommandsTypes
  <1>6. LineSound'
    BY <1>0, <1>1 DEF LineSound
  <1>7. ExitSound'
    BY <1>1 DEF ExitSound, Settled
  <1> QED BY <1>0, <1>1, <1>2, <1>4, <1>5, <1>6, <1>7 DEF CallInv

LEMMA OnceStep ==
    ASSUME CallInv, once
    PROVE  CallInv'
  <1>0. /\ cli.pc = "sending" /\ cli \in GivenCommands /\ cli.attempt \in Attempts /\ cli.attempt \in Nat
        /\ cli.exit \in 0..7 /\ UNCHANGED <<version, keys, clock, applied>>
    BY DEF once, CallInv, CommandsTypes, GivenCommands, serverVars
  <1>1. CASE /\ attempts' = [attempts EXCEPT ![cli.attempt] = [pc |-> "arrived"]]
             /\ cli' = [cli EXCEPT !.pc = "waiting"]
    <2>1. cli' = [cli EXCEPT !.pc = "waiting", !.attempt = cli.attempt, !.exit = cli.exit]
      BY <1>0, <1>1 DEF GivenCommands
    <2>2. \E a \in Attempts : attempts' = [attempts EXCEPT ![a] = [pc |-> "arrived"]]
      BY <1>0, <1>1
    <2> QED BY <1>0, <2>1, <2>2, SendingStep
  <1>2. CASE cli.attempt < MAX_ATTEMPTS /\ cli' = [cli EXCEPT !.attempt = @ + 1] /\ UNCHANGED attempts
    <2>1. cli' = [cli EXCEPT !.pc = "sending", !.attempt = cli.attempt + 1, !.exit = cli.exit]
      BY <1>0, <1>2 DEF GivenCommands
    <2>2. cli.attempt + 1 \in Attempts /\ cli.attempt + 1 \in Nat
      BY <1>0, <1>2, AttemptsAssumption DEF Attempts
    <2> QED BY <1>0, <1>2, <2>1, <2>2, SendingStep
  <1>3. CASE cli' = [cli EXCEPT !.pc = "done", !.exit = UNAVAILABLE] /\ UNCHANGED attempts
    <2>1. cli' = [cli EXCEPT !.pc = "done", !.attempt = cli.attempt, !.exit = UNAVAILABLE]
      BY <1>0, <1>3 DEF GivenCommands
    <2>2. UNAVAILABLE \in 0..7 /\ UNAVAILABLE \notin {SUCCESS, CONFLICT}
      BY DEF UNAVAILABLE, SUCCESS, CONFLICT
    <2> QED BY <1>0, <1>3, <2>1, <2>2, SendingStep
  <1> QED BY <1>1, <1>2, <1>3 DEF once

LEMMA SendStep ==
    ASSUME CallInv, send
    PROVE  CallInv'
  <1> DEFINE reply == attempts[cli.attempt]
  <1>0. /\ cli.pc = "waiting" /\ cli \in GivenCommands /\ cli.attempt \in Attempts /\ cli.attempt \in Nat
        /\ cli.exit \in 0..7 /\ UNCHANGED <<attempts, version, keys, clock, applied>>
        /\ reply.pc = "answered" /\ AttemptSound(cli.attempt)
    BY DEF send, CallInv, CommandsTypes, GivenCommands, serverVars
  <1>r. /\ reply.status \in Nat
        /\ reply.status < 300 => cli.line.verb = "engage" \/ applied >= 1
        /\ reply.status = 409 /\ cli.line.verb \in Replayable => Settled
    BY <1>0 DEF AttemptSound
  <1>1. CASE cli.attempt < MAX_ATTEMPTS /\ cli' = [cli EXCEPT !.pc = "sending", !.attempt = @ + 1]
    <2>1. cli' = [cli EXCEPT !.pc = "sending", !.attempt = cli.attempt + 1, !.exit = cli.exit]
      BY <1>0, <1>1 DEF GivenCommands
    <2>2. cli.attempt + 1 \in Attempts /\ cli.attempt + 1 \in Nat
      BY <1>0, <1>1, AttemptsAssumption DEF Attempts
    <2> QED BY <1>0, <1>1, <2>1, <2>2, SendingStep
  <1>2. ASSUME NEW code \in 0..7, Exits(code),
               code = SUCCESS => reply.status < 300,
               code = CONFLICT => reply.status = 409
        PROVE  CallInv'
    <2>1. cli' = [cli EXCEPT !.pc = "done", !.attempt = cli.attempt, !.exit = code]
      BY <1>0, <1>2 DEF GivenCommands, Exits
    <2>2. /\ code = SUCCESS => cli.line.verb = "engage" \/ applied >= 1
          /\ code = CONFLICT /\ cli.line.verb \in Replayable => Settled
      BY <1>r, <1>2
    <2> QED BY <1>0, <2>1, <2>2, SendingStep
  <1>3. CASE Exits(IF reply.status < 300 THEN SUCCESS ELSE for_status(reply.status))
    <2>1. CASE reply.status < 300
      BY <1>2, <1>3, <2>1 DEF SUCCESS, CONFLICT
    <2>2. CASE ~(reply.status < 300)
      <3>1. PICK status \in Nat : status = reply.status
        BY <1>r
      <3>2. /\ for_status(status) \in 0..7 /\ for_status(status) # SUCCESS
            /\ for_status(status) = CONFLICT => status = 409
        BY ExitSays
      <3> QED BY <1>2, <1>3, <2>2, <3>1, <3>2
    <2> QED BY <2>1, <2>2
  <1>4. CASE \E code \in {USAGE, FAILURE} : Exits(code)
    BY <1>2, <1>4 DEF USAGE, FAILURE, SUCCESS, CONFLICT
  <1> QED BY <1>1, <1>3, <1>4 DEF send

LEMMA GiveUpStep ==
    ASSUME CallInv, give_up
    PROVE  CallInv'
  <1>0. /\ cli.pc = "waiting" /\ cli \in GivenCommands /\ cli.attempt \in Attempts /\ cli.attempt \in Nat
        /\ cli.exit \in 0..7 /\ UNCHANGED <<attempts, version, keys, clock, applied>>
    BY DEF give_up, CallInv, CommandsTypes, GivenCommands, serverVars
  <1>1. CASE cli.attempt < MAX_ATTEMPTS /\ cli' = [cli EXCEPT !.pc = "sending", !.attempt = @ + 1]
    <2>1. cli' = [cli EXCEPT !.pc = "sending", !.attempt = cli.attempt + 1, !.exit = cli.exit]
      BY <1>0, <1>1 DEF GivenCommands
    <2>2. cli.attempt + 1 \in Attempts /\ cli.attempt + 1 \in Nat
      BY <1>0, <1>1, AttemptsAssumption DEF Attempts
    <2> QED BY <1>0, <1>1, <2>1, <2>2, SendingStep
  <1>2. CASE Exits(UNAVAILABLE)
    <2>1. cli' = [cli EXCEPT !.pc = "done", !.attempt = cli.attempt, !.exit = UNAVAILABLE]
      BY <1>0, <1>2 DEF GivenCommands, Exits
    <2>2. UNAVAILABLE \in 0..7 /\ UNAVAILABLE \notin {SUCCESS, CONFLICT}
      BY DEF UNAVAILABLE, SUCCESS, CONFLICT
    <2> QED BY <1>0, <2>1, <2>2, SendingStep
  <1> QED BY <1>1, <1>2 DEF give_up

(* Others act, or time passes: the attempts, the record and the effects    *)
(* stay, the version only grows.                                           *)
LEMMA MeanwhileStep ==
    ASSUME CallInv, Elsewhere \/ ClockTicks \/ UNCHANGED cvars
    PROVE  CallInv'
  <1>0. /\ UNCHANGED <<cli, attempts, keys, applied>>
        /\ version' \in Nat \ {0} /\ version <= version' /\ clock' \in Nat
    BY DEF Elsewhere, ClockTicks, cvars, CallInv, CommandsTypes
  <1>1. CommandsTypes'
    BY <1>0 DEF CallInv, CommandsTypes
  <1>2. Unsent <=> Unsent'
    BY <1>0 DEF Unsent
  <1>3. CASE cli.pc = "shell"
    BY <1>0, <1>1, <1>2, <1>3 DEF CallInv
  <1>4. CASE cli.pc # "shell"
    <2>0. cli \in GivenCommands /\ cli.version \in Nat /\ version \in Nat /\ applied \in Nat
      BY <1>4 DEF CallInv, CommandsTypes, GivenCommands
    <2>1. Settled => Settled'
      BY <1>0, <2>0 DEF Settled
    <2>2. Onward
      BY <1>0, <2>0, <2>1 DEF Onward
    <2>3. EffectsCounted'
      BY <1>0, <1>4, <2>0 DEF CallInv, EffectsCounted
    <2>4. \A a \in Attempts : AttemptSound(a)'
      BY <1>0, <1>4, <2>0, <2>2, AttemptKept DEF CallInv
    <2>5. ExitSound'
      BY <1>0, <1>4, <2>0, <2>2, ExitKept DEF CallInv
    <2>6. LineSound'
      BY <1>0, <1>2, <1>4 DEF CallInv, LineSound
    <2>7. cli.version <= version'
      BY <1>0, <1>4, <2>0 DEF CallInv
    <2> QED BY <1>0, <1>1, <1>2, <1>4, <2>3, <2>4, <2>5, <2>6, <2>7 DEF CallInv
  <1> QED BY <1>3, <1>4

------------------------------------------------------------------------------
(* The record, the versions, the attempts and the exit code agree in every *)
(* state (CallInv).                                                        *)
THEOREM CallInvHolds == CommandsSpec => []CallInv
  <1>1. ASSUME CallInv, [CommandsNext]_cvars PROVE CallInv'
    BY <1>1, RunWithStep, FetchStep, ConfirmStep, OnceStep, SendStep, GiveUpStep, HandleStep,
       ExecuteStep, GetIncidentStep, DroppedStep, MeanwhileStep DEF CommandsNext
  <1> QED BY <1>1, CallInvInit, PTL DEF CommandsSpec

(* However many attempts of a call are in flight and however late they     *)
(* land, a command that carries a key or a version takes effect at most    *)
(* once, reported success means that it did, and a reported conflict of a  *)
(* command replayed from its record that it did not.                       *)
THEOREM RetriedCallIsOneCallHolds == CommandsSpec => []RetriedCallIsOneCall
  <1>1. ASSUME CallInv PROVE RetriedCallIsOneCall
    <2> SUFFICES ASSUME cli.pc # "shell" PROVE
          /\ cli.line.verb \notin {"engage", "export"} => applied <= 1
          /\ cli.pc = "done" /\ cli.exit = SUCCESS /\ cli.line.verb # "engage" => applied >= 1
          /\ cli.pc = "done" /\ cli.exit = CONFLICT /\ cli.line.verb \in Replayable => applied = 0
      BY DEF RetriedCallIsOneCall
    <2>0. LineSound /\ EffectsCounted /\ ExitSound
      BY <1>1 DEF CallInv
    <2>1. cli.line.verb \notin {"engage", "export"} => applied <= 1
      <3>1. CASE Unsent
        BY <3>1 DEF Unsent
      <3>2. CASE cli.line.verb \in Command /\ cli.line.verb \notin {"engage", "export"}
        <4>1. cli.line.verb \in Keyed \cup MitigationAction
          BY <3>2 DEF Command, Keyed
        <4> QED BY <4>1, <2>0 DEF EffectsCounted
      <3> QED BY <3>1, <3>2, <2>0 DEF LineSound
    <2>2. cli.pc = "done" /\ cli.exit = SUCCESS /\ cli.line.verb # "engage" => applied >= 1
      BY <2>0 DEF ExitSound
    <2>3. cli.pc = "done" /\ cli.exit = CONFLICT /\ cli.line.verb \in Replayable => applied = 0
      BY <2>0, ReplayableIsKeyed DEF ExitSound, Settled, EffectsCounted
    <2> QED BY <2>1, <2>2, <2>3
  <1> QED BY <1>1, CallInvHolds, PTL

(***************************************************************************)
(* Pages.                                                                  *)
(***************************************************************************)
Positions == Int \X Int

(* Positions are compared as rows are: a strict total order, either way.   *)
LEMMA RowOrder ==
    ASSUME NEW order
    PROVE  /\ \A a, b \in Positions : RowBefore(a, b, order) \in BOOLEAN
           /\ \A a \in Positions : ~RowBefore(a, a, order)
           /\ \A a, b, c \in Positions :
                RowBefore(a, b, order) /\ RowBefore(b, c, order) => RowBefore(a, c, order)
           /\ \A a, b \in Positions : RowBefore(a, b, order) \/ a = b \/ RowBefore(b, a, order)
  <1>1. \A a, b \in Positions : a[1] \in Int /\ a[2] \in Int /\ (a[1] = b[1] /\ a[2] = b[2] => a = b)
    BY DEF Positions
  <1>2. \A a, b \in Positions : RowBefore(a, b, order) \in BOOLEAN
    BY <1>1 DEF RowBefore
  <1>3. CASE order = "asc"
    <2>1. \A a, b \in Positions :
            RowBefore(a, b, order) <=> a[1] < b[1] \/ (a[1] = b[1] /\ a[2] < b[2])
      BY <1>3 DEF RowBefore
    <2> QED BY <1>1, <1>2, <2>1
  <1>4. CASE order # "asc"
    <2>1. \A a, b \in Positions :
            RowBefore(a, b, order) <=> b[1] < a[1] \/ (b[1] = a[1] /\ b[2] < a[2])
      BY <1>4 DEF RowBefore
    <2> QED BY <1>1, <1>2, <2>1
  <1> QED BY <1>3, <1>4

(* Rows of a list stand at positions, no two at the same one.              *)
IsList(rows) ==
    /\ IsFiniteSet(rows)
    /\ \A r \in rows : r.at \in Positions
    /\ \A r, s \in rows : r.at = s.at => r = s

(* The ranks of the rows of a list are 0, 1, 2, ... in their order.        *)
LEMMA Ranks ==
    ASSUME NEW rows, NEW order, IsList(rows)
    PROVE  /\ Cardinality(rows) \in Nat
           /\ \A r \in rows : Rank(rows, order, r.at) \in 0 .. Cardinality(rows) - 1
           /\ \A r, s \in rows :
                RowBefore(r.at, s.at, order) <=> Rank(rows, order, r.at) < Rank(rows, order, s.at)
           /\ \A r, s \in rows : Rank(rows, order, r.at) = Rank(rows, order, s.at) => r = s
  <1> DEFINE Below(r) == {x \in rows : RowBefore(x.at, r.at, order)}
             N == Cardinality(rows)
  <1>1. N \in Nat /\ IsFiniteSet(rows)
    BY FS_CardinalityType DEF IsList
  <1>2. ASSUME NEW r \in rows PROVE IsFiniteSet(Below(r)) /\ Cardinality(Below(r)) \in 0 .. N - 1
    <2>1. Below(r) \in SUBSET rows /\ r \notin Below(r)
      BY RowOrder DEF IsList
    <2>2. /\ IsFiniteSet(Below(r)) /\ Cardinality(Below(r)) <= N
          /\ N = Cardinality(Below(r)) => rows = Below(r)
      BY <1>1, <2>1, FS_Subset
    <2>3. Cardinality(Below(r)) \in Nat
      BY <2>2, FS_CardinalityType
    <2> QED BY <1>1, <2>1, <2>2, <2>3
  <1>3. \A r \in rows : Rank(rows, order, r.at) = Cardinality(Below(r))
    BY DEF Rank
  <1>4. ASSUME NEW r \in rows, NEW s \in rows, RowBefore(r.at, s.at, order)
        PROVE  Cardinality(Below(r)) < Cardinality(Below(s))
    <2>1. Below(r) \in SUBSET Below(s)
      BY <1>4, RowOrder DEF IsList
    <2>2. r \in Below(s) /\ r \notin Below(r)
      BY <1>4, RowOrder DEF IsList
    <2>3. /\ Cardinality(Below(r)) <= Cardinality(Below(s))
          /\ Cardinality(Below(s)) = Cardinality(Below(r)) => Below(s) = Below(r)
      BY <1>2, <2>1, FS_Subset
    <2>5. Below(s) # Below(r)
      BY <2>2
    <2>4. Cardinality(Below(r)) \in Nat /\ Cardinality(Below(s)) \in Nat
      <3> HIDE DEF Below, N
      <3> QED BY <1>1, <1>2
    <2> HIDE DEF Below
    <2> QED BY <2>3, <2>4, <2>5
  <1>5. \A r \in rows : Rank(rows, order, r.at) \in 0 .. N - 1
    BY <1>2, <1>3
  <1>6. ASSUME NEW r \in rows, NEW s \in rows
        PROVE  RowBefore(r.at, s.at, order) <=> Rank(rows, order, r.at) < Rank(rows, order, s.at)
    <2>1. Rank(rows, order, r.at) \in Int /\ Rank(rows, order, s.at) \in Int
      BY <1>1, <1>5
    <2>2. RowBefore(r.at, s.at, order) => Rank(rows, order, r.at) < Rank(rows, order, s.at)
      BY <1>3, <1>4
    <2>3. RowBefore(s.at, r.at, order) => Rank(rows, order, s.at) < Rank(rows, order, r.at)
      BY <1>3, <1>4
    <2>4. RowBefore(r.at, s.at, order) \/ r = s \/ RowBefore(s.at, r.at, order)
      BY RowOrder DEF IsList
    <2> QED BY <2>1, <2>2, <2>3, <2>4
  <1>7. ASSUME NEW r \in rows, NEW s \in rows, Rank(rows, order, r.at) = Rank(rows, order, s.at)
        PROVE  r = s
    <2>1. ~RowBefore(r.at, s.at, order) /\ ~RowBefore(s.at, r.at, order)
      BY <1>1, <1>5, <1>6, <1>7
    <2> QED BY <2>1, RowOrder DEF IsList
  <1> QED BY <1>1, <1>5, <1>6, <1>7

LEMMA EveryRank ==
    ASSUME NEW rows, NEW order, IsList(rows), NEW n \in 0 .. Cardinality(rows) - 1
    PROVE  \E r \in rows : Rank(rows, order, r.at) = n
  <1> DEFINE ranks == [r \in rows |-> Rank(rows, order, r.at)]
             N == Cardinality(rows)
  <1>1. N \in Nat /\ IsFiniteSet(rows)
    BY FS_CardinalityType DEF IsList
  <1>2. ranks \in Injection(rows, 0 .. N - 1)
    BY Ranks DEF Injection, IsInjective
  <1>3. IsFiniteSet(0 .. N - 1) /\ Cardinality(0 .. N - 1) = N
    BY <1>1, FS_Interval
  <1>4. ranks \in Surjection(rows, 0 .. N - 1)
    BY <1>2, <1>3, FS_Injection
  <1> QED BY <1>4 DEF Surjection

(* A page holds the first rows of a list, in their order, and the last     *)
(* one tells those on it from those after it.                              *)
LEMMA PageHolds ==
    ASSUME NEW rows, NEW order, NEW limit \in Nat \ {0}, IsList(rows),
           NEW p, p = page(rows, order, limit)
    PROVE  /\ p.has_more \in BOOLEAN
           /\ \E k \in Nat : /\ p.items \in [1 .. k -> rows] /\ p.items \in Seq(rows) /\ Len(p.items) = k
                             /\ p.has_more => k > 0
           /\ \A m, n \in DOMAIN p.items : p.items[m] = p.items[n] => m = n
           /\ \A r \in rows : \A n \in DOMAIN p.items :
                RowBefore(r.at, p.items[n].at, order) => \E m \in 1 .. n : p.items[m] = r
           /\ ~p.has_more => \A r \in rows : \E n \in DOMAIN p.items : p.items[n] = r
           /\ \A m, n \in DOMAIN p.items : m < n => RowBefore(p.items[m].at, p.items[n].at, order)
  <1> DEFINE N == Cardinality(rows)
             k == IF N > limit THEN limit ELSE N
             rk(r) == Rank(rows, order, r.at)
  <1>0. /\ N \in Nat
        /\ \A r \in rows : rk(r) \in 0 .. N - 1
        /\ \A r, s \in rows : RowBefore(r.at, s.at, order) <=> rk(r) < rk(s)
        /\ \A r, s \in rows : rk(r) = rk(s) => r = s
        /\ \A n \in 0 .. N - 1 : \E r \in rows : rk(r) = n
    <2>1. N \in Nat
      BY Ranks
    <2>2. \A r \in rows : rk(r) \in 0 .. N - 1
      BY Ranks
    <2>3. \A r, s \in rows : RowBefore(r.at, s.at, order) <=> rk(r) < rk(s)
      BY Ranks
    <2>4. \A r, s \in rows : rk(r) = rk(s) => r = s
      BY Ranks
    <2>5. \A n \in 0 .. N - 1 : \E r \in rows : rk(r) = n
      BY EveryRank
    <2> QED BY <2>1, <2>2, <2>3, <2>4, <2>5
  <1>1. N \in Nat /\ k \in Nat /\ k <= N /\ (N > limit => k > 0)
    BY <1>0
  <1>2. p.items = [n \in 1 .. k |-> CHOOSE r \in rows : rk(r) = n - 1] /\ p.has_more = (N > limit)
    BY DEF page
  <1> HIDE DEF rk, N
  <1>3. ASSUME NEW n \in 1 .. k PROVE p.items[n] \in rows /\ rk(p.items[n]) = n - 1
    <2>1. n - 1 \in 0 .. N - 1
      BY <1>1
    <2>2. \E r \in rows : rk(r) = n - 1
      BY <2>1, <1>0
    <2>3. p.items[n] = CHOOSE r \in rows : rk(r) = n - 1
      BY <1>2
    <2> QED BY <2>2, <2>3
  <1>4. p.items \in [1 .. k -> rows] /\ DOMAIN p.items = 1 .. k
    BY <1>2, <1>3
  <1>5. p.items \in Seq(rows) /\ Len(p.items) = k
    BY <1>1, <1>4
  <1>6. ASSUME NEW r \in rows, rk(r) < k PROVE \E m \in 1 .. k : m = rk(r) + 1 /\ p.items[m] = r
    <2>1. rk(r) \in Nat /\ rk(r) + 1 \in 1 .. k
      BY <1>1, <1>6, <1>0
    <2>2. p.items[rk(r) + 1] \in rows /\ rk(p.items[rk(r) + 1]) = rk(r)
      BY <1>3, <2>1
    <2>3. p.items[rk(r) + 1] = r
      BY <2>2, <1>0
    <2> QED BY <2>1, <2>3
  <1>7. ASSUME NEW r \in rows, NEW n \in 1 .. k, RowBefore(r.at, p.items[n].at, order)
        PROVE  \E m \in 1 .. n : p.items[m] = r
    <2>1. rk(r) < rk(p.items[n]) /\ rk(r) \in Nat
      BY <1>1, <1>3, <1>7, <1>0
    <2>2. rk(r) < n - 1
      BY <1>3, <2>1
    <2>3. rk(r) < k
      BY <2>1, <2>2, <1>1
    <2>4. PICK m \in 1 .. k : m = rk(r) + 1 /\ p.items[m] = r
      BY <1>6, <2>3
    <2>5. m \in 1 .. n
      BY <2>1, <2>2, <2>4
    <2> QED BY <2>4, <2>5
  <1>8. ASSUME NEW m \in 1 .. k, NEW n \in 1 .. k, m < n
        PROVE  RowBefore(p.items[m].at, p.items[n].at, order)
    <2>1. rk(p.items[m]) < rk(p.items[n])
      BY <1>1, <1>3, <1>8
    <2> QED BY <1>3, <2>1, <1>0
  <1>9. ASSUME ~p.has_more, NEW r \in rows PROVE \E n \in 1 .. k : p.items[n] = r
    <2>1. k = N
      BY <1>1, <1>2, <1>9
    <2>2. rk(r) < k
      BY <1>1, <2>1, <1>0
    <2> QED BY <1>6, <2>2
  <1>10. ASSUME NEW m \in 1 .. k, NEW n \in 1 .. k, p.items[m] = p.items[n] PROVE m = n
    BY <1>1, <1>3, <1>10
  <1>11. p.has_more \in BOOLEAN /\ (p.has_more => k > 0)
    <2>1. (N > limit) \in BOOLEAN
      BY <1>1
    <2>2. p.has_more = (N > limit)
      BY <1>2
    <2> QED BY <1>1, <2>1, <2>2
  <1> HIDE DEF k
  <1> QED BY <1>1, <1>4, <1>5, <1>7, <1>8, <1>9, <1>10, <1>11

(***************************************************************************)
(* Walks.  Once and Never: how often a row was listed.                     *)
(***************************************************************************)
Once(listed, row) ==
    \E n \in DOMAIN listed : listed[n] = row /\ \A m \in DOMAIN listed : listed[m] = row => m = n

Never(listed, row) == \A n \in DOMAIN listed : listed[n] # row

LEMMA IsSequence ==
    ASSUME NEW S, NEW k \in Nat, NEW f \in [1 .. k -> S]
    PROVE  f \in Seq(S) /\ Len(f) = k
  OBVIOUS

LEMMA Concatenated ==
    ASSUME NEW S, NEW s \in Seq(S), NEW t \in Seq(S), NEW m, m = Len(s), NEW k, k = Len(t),
           NEW u, u = s \o t
    PROVE  /\ m \in Nat /\ k \in Nat /\ DOMAIN s = 1 .. m /\ DOMAIN u = 1 .. m + k /\ Len(u) = m + k
           /\ \A n \in 1 .. m : u[n] = s[n]
           /\ \A n \in 1 .. k : u[m + n] = t[n]
  OBVIOUS

LEMMA OnceAndNever ==
    ASSUME NEW S, NEW s \in Seq(S), NEW t \in Seq(S), NEW row
    PROVE  /\ Once(s, row) /\ Never(t, row) => Once(s \o t, row)
           /\ Never(s, row) /\ Once(t, row) => Once(s \o t, row)
           /\ Never(s, row) /\ Never(t, row) => Never(s \o t, row)
  <1> DEFINE m == Len(s)
             k == Len(t)
             u == s \o t
  <1>1. m \in Nat /\ k \in Nat /\ DOMAIN s = 1 .. m /\ DOMAIN t = 1 .. k /\ DOMAIN u = 1 .. m + k
    OBVIOUS
  <1>2. /\ \A n \in 1 .. m : u[n] = s[n]
        /\ \A n \in 1 .. k : u[m + n] = t[n]
    OBVIOUS
  <1>3. ASSUME NEW n \in 1 .. m + k PROVE n \in 1 .. m \/ (n - m \in 1 .. k /\ n = m + (n - m))
    BY <1>1
  <1>4. \A n \in 1 .. m + k : (n \in 1 .. m /\ u[n] = s[n]) \/ (n - m \in 1 .. k /\ u[n] = t[n - m])
    BY <1>2, <1>3
  <1> HIDE DEF m, k, u
  <1>5. ASSUME Once(s, row), Never(t, row) PROVE Once(u, row)
    <2>1. PICK n \in 1 .. m : s[n] = row /\ \A i \in 1 .. m : s[i] = row => i = n
      BY <1>1, <1>5 DEF Once
    <2>2. n \in 1 .. m + k /\ u[n] = row
      BY <1>1, <1>2, <2>1
    <2>3. ASSUME NEW i \in 1 .. m + k, u[i] = row PROVE i = n
      BY <1>1, <1>4, <1>5, <2>1, <2>3 DEF Never
    <2> QED BY <1>1, <2>2, <2>3 DEF Once
  <1>6. ASSUME Never(s, row), Once(t, row) PROVE Once(u, row)
    <2>1. PICK n \in 1 .. k : t[n] = row /\ \A i \in 1 .. k : t[i] = row => i = n
      BY <1>1, <1>6 DEF Once
    <2>2. m + n \in 1 .. m + k /\ u[m + n] = row
      BY <1>1, <1>2, <2>1
    <2>3. ASSUME NEW i \in 1 .. m + k, u[i] = row PROVE i = m + n
      <3>1. i - m \in 1 .. k /\ t[i - m] = row
        BY <1>1, <1>4, <1>6, <2>3 DEF Never
      <3>2. i - m = n
        BY <2>1, <3>1
      <3> QED BY <1>1, <3>2
    <2> QED BY <1>1, <2>2, <2>3 DEF Once
  <1>7. ASSUME Never(s, row), Never(t, row) PROVE Never(u, row)
    BY <1>1, <1>4, <1>7 DEF Never
  <1> QED BY <1>5, <1>6, <1>7 DEF u

(* Rows of a list, no two of them for the same thing.                      *)
IsListing(rows, things) ==
    /\ IsList(rows)
    /\ \A r \in rows : r.row \in things
    /\ \A r, s \in rows : r.row = s.row => r = s

(* What is to be read: the rows after the cursor, or all of them.          *)
Rest(rows, begun, at, order) == {r \in rows : begun => RowBefore(at, r.at, order)}

Names(items) == [n \in DOMAIN items |-> items[n].row]

LEMMA RestIsList ==
    ASSUME NEW rows, NEW things, IsListing(rows, things), NEW begun, NEW at, NEW order
    PROVE  IsList(Rest(rows, begun, at, order))
  <1>1. Rest(rows, begun, at, order) \in SUBSET rows
    BY DEF Rest
  <1>2. IsFiniteSet(Rest(rows, begun, at, order))
    BY <1>1, FS_Subset DEF IsListing, IsList
  <1> QED BY <1>1, <1>2 DEF IsListing, IsList

(* One page further, the rows up to the new cursor are those listed once:  *)
(* whatever else happened, for rows that have stayed.                      *)
LEMMA OnePageFurther ==
    ASSUME NEW rows, NEW things, IsListing(rows, things), NEW whole \in SUBSET rows,
           NEW begun \in BOOLEAN, NEW at, begun => at \in Positions, NEW order,
           NEW limit \in Nat \ {0},
           NEW p, p = page(Rest(rows, begun, at, order), order, limit),
           NEW listed \in Seq(things),
           \A r \in whole : IF begun /\ ~RowBefore(at, r.at, order)
                            THEN Once(listed, r.row) ELSE Never(listed, r.row)
    PROVE  /\ listed \o Names(p.items) \in Seq(things)
           /\ p.has_more => p.items[Len(p.items)].at \in Positions
           /\ \A r \in whole : IF p.has_more => ~RowBefore(p.items[Len(p.items)].at, r.at, order)
                               THEN Once(listed \o Names(p.items), r.row)
                               ELSE Never(listed \o Names(p.items), r.row)
  <1> DEFINE rest == Rest(rows, begun, at, order)
             items == p.items
             k == Len(items)
             last == items[k]
             names == Names(items)
  <1>0. IsList(rest)
    BY RestIsList
  <1> HIDE DEF rest
  <1>1. /\ p.has_more \in BOOLEAN
        /\ k \in Nat /\ items \in [1 .. k -> rest] /\ DOMAIN items = 1 .. k
        /\ p.has_more => k \in 1 .. k
    <2>1. p = page(rest, order, limit)
      BY DEF rest
    <2> QED BY <1>0, <2>1, PageHolds
  <1>2. /\ \A m, n \in 1 .. k : items[m] = items[n] => m = n
        /\ \A r \in rest : \A n \in 1 .. k :
                RowBefore(r.at, items[n].at, order) => \E m \in 1 .. n : items[m] = r
        /\ ~p.has_more => \A r \in rest : \E n \in 1 .. k : items[n] = r
        /\ \A m, n \in 1 .. k : m < n => RowBefore(items[m].at, items[n].at, order)
    <2>1. p = page(rest, order, limit)
      BY DEF rest
    <2> QED BY <1>0, <1>1, <2>1, PageHolds, SMTT(30)
  <1>3. /\ rest \in SUBSET rows
        /\ \A r \in rows : r \in rest <=> (begun => RowBefore(at, r.at, order))
        /\ \A r \in rows : r.at \in Positions
        /\ \A r, s \in rows : (r.at = s.at => r = s) /\ (r.row = s.row => r = s)
        /\ \A r \in rows : r.row \in things
    BY DEF rest, Rest, IsListing, IsList
  <1>4. names \in [1 .. k -> things] /\ \A n \in 1 .. k : names[n] = items[n].row
    BY <1>1, <1>3 DEF Names
  <1>5. names \in Seq(things) /\ DOMAIN names = 1 .. k
    BY <1>1, <1>4
  <1> HIDE DEF k, items, names
  <1>6. p.has_more => last \in rest /\ last.at \in Positions
    BY <1>1, <1>3
  <1>7. ASSUME NEW r \in rest, NEW n \in 1 .. k, items[n] = r PROVE Once(names, r.row)
    <2>1. names[n] = r.row
      BY <1>4, <1>7
    <2>2. ASSUME NEW m \in 1 .. k, names[m] = r.row PROVE m = n
      <3>1. items[m] \in rows /\ items[m].row = r.row
        BY <1>1, <1>3, <1>4, <2>2
      <3>2. items[m] = r
        BY <1>3, <3>1
      <3> QED BY <1>2, <1>7, <3>2
    <2> QED BY <1>5, <2>1, <2>2 DEF Once
  <1>8. ASSUME NEW r \in rows, \A n \in 1 .. k : items[n] # r PROVE Never(names, r.row)
    <2>1. ASSUME NEW n \in 1 .. k, names[n] = r.row PROVE FALSE
      <3>1. items[n] \in rows /\ items[n].row = r.row
        BY <1>1, <1>3, <1>4, <2>1
      <3> QED BY <1>3, <1>8, <3>1
    <2> QED BY <1>5, <2>1 DEF Never
  <1>9. ASSUME NEW r \in whole
        PROVE  IF p.has_more => ~RowBefore(last.at, r.at, order)
               THEN Once(listed \o names, r.row) ELSE Never(listed \o names, r.row)
    <2>0. r \in rows
      OBVIOUS
    <2>1. CASE r \notin rest
      <3>1. begun /\ ~RowBefore(at, r.at, order)
        BY <1>3, <2>0, <2>1
      <3>2. Once(listed, r.row)
        BY <3>1
      <3>3. Never(names, r.row)
        BY <1>1, <1>8, <2>0, <2>1
      <3>4. p.has_more => ~RowBefore(last.at, r.at, order)
        <4>1. p.has_more => RowBefore(at, last.at, order)
          BY <1>3, <1>6, <3>1
        <4> QED BY <1>3, <1>6, <2>0, <3>1, <4>1, RowOrder
      <3>5. Once(listed \o names, r.row)
        BY <1>5, <3>2, <3>3, OnceAndNever
      <3> QED BY <3>4, <3>5
    <2>2. CASE r \in rest
      <3>1. Never(listed, r.row)
        BY <1>3, <2>0, <2>2
      <3>2. CASE p.has_more => ~RowBefore(last.at, r.at, order)
        <4>1. \E n \in 1 .. k : items[n] = r
          <5>1. CASE ~p.has_more
            BY <1>2, <2>2, <5>1
          <5>2. CASE p.has_more
            <6>1. r.at = last.at \/ RowBefore(r.at, last.at, order)
              BY <1>3, <1>6, <2>0, <3>2, <5>2, RowOrder
            <6>2. k \in 1 .. k /\ last = items[k]
              BY <1>1, <5>2
            <6>3. CASE r.at = last.at
              BY <1>3, <1>6, <2>0, <5>2, <6>2, <6>3
            <6>4. CASE RowBefore(r.at, last.at, order)
              BY <1>2, <2>2, <6>2, <6>4
            <6> QED BY <6>1, <6>3, <6>4
          <5> QED BY <1>1, <5>1, <5>2
        <4>2. Once(names, r.row)
          BY <1>7, <2>2, <4>1
        <4>3. Once(listed \o names, r.row)
          BY <1>5, <3>1, <4>2, OnceAndNever
        <4> QED BY <3>2, <4>3
      <3>3. CASE ~(p.has_more => ~RowBefore(last.at, r.at, order))
        <4>0. p.has_more /\ RowBefore(last.at, r.at, order) /\ k \in 1 .. k /\ last = items[k]
          BY <1>1, <3>3
        <4>1. ASSUME NEW n \in 1 .. k, items[n] = r PROVE FALSE
          <5>1. n = k \/ n < k
            BY <1>1
          <5>2. ~RowBefore(r.at, last.at, order) /\ r.at # last.at
            BY <1>3, <1>6, <2>0, <4>0, RowOrder
          <5> QED BY <1>2, <4>0, <4>1, <5>1, <5>2
        <4>2. Never(names, r.row)
          BY <1>8, <2>0, <4>1
        <4>3. Never(listed \o names, r.row)
          BY <1>5, <3>1, <4>2, OnceAndNever
        <4> QED BY <3>3, <4>3
      <3> QED BY <3>2, <3>3
    <2> QED BY <2>1, <2>2
  <1>10. listed \o names \in Seq(things)
    BY <1>5
  <1> QED BY <1>6, <1>9, <1>10 DEF k, items, names

(***************************************************************************)
(* Queries.                                                                *)
(***************************************************************************)
(* A query that parses asks for a page of at least one row, in an order.   *)
LEMMA ParsedQuery ==
    ASSUME NEW q \in Queries, q.table = "incidents", parse_query(q.pairs) # None
    PROVE  /\ parse_query(q.pairs) = ListFilter(q.pairs)
           /\ ListFilter(q.pairs).limit \in Nat \ {0}
           /\ ListFilter(q.pairs).sort \in SORTS /\ ListFilter(q.pairs).order \in ORDERS
           /\ \A n \in DOMAIN q.pairs :
                q.pairs[n][1] \in repeatable \cup single /\ one_of(q.pairs[n][1], q.pairs[n][2])
           /\ \A name \in single : \A m, n \in Named(q.pairs, name) : m = n
  <1> DEFINE pairs == q.pairs
  <1>1. parse_query(pairs) = ListFilter(pairs)
    BY DEF parse_query
  <1>2. /\ \A n \in DOMAIN pairs : pairs[n][1] \in repeatable \cup single /\ one_of(pairs[n][1], pairs[n][2])
        /\ \A name \in single : \A m, n \in Named(pairs, name) : m = n
    BY DEF parse_query
  <1>3. ASSUME NEW name, Given(pairs, name)
        PROVE  \E n \in Named(pairs, name) :
                 /\ \A default : Value(pairs, name, default) = pairs[n][2]
                 /\ one_of(name, pairs[n][2])
    <2>1. PICK n \in Named(pairs, name) : n = CHOOSE m \in Named(pairs, name) : TRUE
      BY <1>3 DEF Given
    <2>2. \A default : Value(pairs, name, default) = pairs[n][2]
      BY <1>3, <2>1 DEF Value
    <2>3. n \in DOMAIN pairs /\ pairs[n][1] = name
      BY DEF Named
    <2>4. one_of(name, pairs[n][2])
      BY <1>2, <2>3
    <2> QED BY <2>2, <2>4
  <1> DEFINE size == Value(pairs, "limit", MAX_PAGE_SIZE)
  <1>4. size \in Nat \ {0}
    <2>1. CASE ~Given(pairs, "limit")
      BY <2>1, ListingAssumption DEF Value
    <2>2. CASE Given(pairs, "limit")
      <3>1. PICK n \in Named(pairs, "limit") : size = pairs[n][2] /\ one_of("limit", pairs[n][2])
        BY <1>3, <2>2
      <3>2. one_of("limit", size) <=> size # None /\ size > 0
        BY DEF one_of
      <3>3. size \in Int \cup {None}
        BY <3>1, ListingAssumption
      <3> QED BY <3>1, <3>2, <3>3
    <2> QED BY <2>1, <2>2
  <1>5. Value(pairs, "sort", "opened_at") \in SORTS
    <2>1. \A value : one_of("sort", value) <=> value \in SORTS
      BY DEF one_of
    <2> QED BY <1>3, <2>1 DEF Value, SORTS
  <1>6. Value(pairs, "order", "desc") \in ORDERS
    <2>1. \A value : one_of("order", value) <=> value \in ORDERS
      BY DEF one_of
    <2> QED BY <1>3, <2>1 DEF Value, ORDERS
  <1>7. ListFilter(pairs).limit = IF size > MAX_PAGE_SIZE THEN MAX_PAGE_SIZE ELSE size
    BY DEF ListFilter
  <1>8. /\ ListFilter(pairs).sort = Value(pairs, "sort", "opened_at")
        /\ ListFilter(pairs).order = Value(pairs, "order", "desc")
    BY DEF ListFilter
  <1>9. ListFilter(pairs).limit \in Nat \ {0}
    BY <1>4, <1>7, ListingAssumption
  <1> QED BY <1>1, <1>2, <1>5, <1>6, <1>8, <1>9

(* The query continued with a cursor it was given is the same query, and   *)
(* goes on after the cursor's position.                                    *)
LEMMA ContinuedQuery ==
    ASSUME NEW q \in Queries, q.table = "incidents", parse_query(q.pairs) # None,
           ~Given(q.pairs, "cursor"), NEW key \in Int, NEW id \in Int,
           NEW f, f = ListFilter(q.pairs),
           NEW c, c = encode_cursor(f.sort, f.order, key, id),
           NEW g, g = parse_query(Append(q.pairs, <<"cursor", c>>))
    PROVE  /\ c # None
           /\ g.states = f.states /\ g.from = f.from /\ g.to = f.to /\ g.sort = f.sort
           /\ g.order = f.order /\ g.limit = f.limit
           /\ g.after # None /\ g.after.k = key /\ g.after.i = id
  <1> DEFINE pairs == q.pairs
             more == Append(pairs, <<"cursor", c>>)
             L == Len(pairs)
  <1>1. f.sort \in SORTS /\ f.order \in ORDERS
    BY ParsedQuery
  <1>2. c = [hex |-> <<1, Reader, f.sort, f.order, key, id>>]
    BY DEF encode_cursor
  <1>3. c \in [hex : {1} \X {Reader} \X SORTS \X ORDERS \X Int \X Int]
    BY <1>1, <1>2
  <1>4. c # None
    BY <1>3, ListingAssumption
  <1>5. decode_cursor(c) = [v |-> 1, t |-> Reader, s |-> f.sort, o |-> f.order, k |-> key, i |-> id]
    BY <1>2, <1>4 DEF decode_cursor
  <1>6. decode_cursor(c) # None
    BY <1>1, <1>5, ListingAssumption
  <1>7. L \in Nat /\ DOMAIN pairs = 1 .. L /\ DOMAIN more = 1 .. L + 1
    BY ListingAssumption
  <1>8. (\A n \in 1 .. L : more[n] = pairs[n]) /\ more[L + 1] = <<"cursor", c>>
    BY ListingAssumption
  <1>9. \A n \in DOMAIN pairs : pairs[n][1] # "cursor"
    BY DEF Given, Named
  <1>10. ASSUME NEW name, name # "cursor" PROVE Named(more, name) = Named(pairs, name)
    <2>1. more[L + 1][1] # name
      BY <1>8, <1>10
    <2>2. \A n \in 1 .. L + 1 : n \in 1 .. L \/ n = L + 1
      BY <1>7
    <2>3. 1 .. L \subseteq 1 .. L + 1
      BY <1>7
    <2> HIDE DEF L, more
    <2> QED BY <1>7, <1>8, <2>1, <2>2, <2>3 DEF Named
  <1>11. Named(more, "cursor") = {L + 1}
    <2>1. \A n \in 1 .. L + 1 : n \in 1 .. L \/ n = L + 1
      BY <1>7
    <2>2. L + 1 \in 1 .. L + 1 /\ more[L + 1][1] = "cursor"
      BY <1>7, <1>8
    <2> HIDE DEF L, more
    <2> QED BY <1>7, <1>8, <1>9, <2>1, <2>2 DEF Named
  <1>12. ASSUME NEW name, name # "cursor", NEW default
         PROVE  /\ Given(more, name) <=> Given(pairs, name)
                /\ Value(more, name, default) = Value(pairs, name, default)
    <2>1. Named(more, name) = Named(pairs, name)
      BY <1>10, <1>12
    <2>2. Given(more, name) <=> Given(pairs, name)
      BY <2>1 DEF Given
    <2>3. CASE Given(pairs, name)
      <3>1. PICK n \in Named(pairs, name) : n = CHOOSE m \in Named(pairs, name) : TRUE
        BY <2>3 DEF Given
      <3>2. n \in 1 .. L
        BY <1>7 DEF Named
      <3>3. more[n][2] = pairs[n][2]
        BY <1>8, <3>2
      <3>4. Value(pairs, name, default) = pairs[n][2]
        BY <2>3, <3>1 DEF Value
      <3>5. Value(more, name, default) = more[n][2]
        <4> HIDE DEF more
        <4> QED BY <2>1, <2>2, <2>3, <3>1 DEF Value
      <3> QED BY <2>2, <3>3, <3>4, <3>5
    <2>4. CASE ~Given(pairs, name)
      BY <2>2, <2>4 DEF Value
    <2> QED BY <2>3, <2>4
  <1>13. Given(more, "cursor") /\ Value(more, "cursor", None) = c
    <2>1. Given(more, "cursor")
      BY <1>11 DEF Given
    <2>2. Value(more, "cursor", None) = more[CHOOSE n \in Named(more, "cursor") : TRUE][2]
      BY <2>1 DEF Value
    <2>3. (CHOOSE n \in Named(more, "cursor") : TRUE) = L + 1
      BY <1>11
    <2>4. more[L + 1][2] = c
      <3> HIDE DEF more, L
      <3> QED BY <1>8
    <2> QED BY <2>1, <2>2, <2>3, <2>4
  <1> HIDE DEF L
  <1> DEFINE h == ListFilter(more)
  <1>14. h.states = f.states
    <2>1. h.states = {more[n][2] : n \in Named(more, "state")}
      BY DEF ListFilter
    <2>2. f.states = {pairs[n][2] : n \in Named(pairs, "state")}
      BY DEF ListFilter
    <2>3. \A n \in Named(pairs, "state") : more[n][2] = pairs[n][2]
      <3> HIDE DEF more
      <3> QED BY <1>7, <1>8 DEF Named
    <2>4. Named(more, "state") = Named(pairs, "state")
      BY <1>10
    <2> HIDE DEF more, h
    <2> QED BY <2>1, <2>2, <2>3, <2>4
  <1>15. /\ h.from = f.from /\ h.to = f.to /\ h.sort = f.sort /\ h.order = f.order
    <2> HIDE DEF more
    <2> QED BY <1>12 DEF ListFilter
  <1>16. h.limit = f.limit
    <2> HIDE DEF more
    <2>1. Value(more, "limit", MAX_PAGE_SIZE) = Value(pairs, "limit", MAX_PAGE_SIZE)
      BY <1>12
    <2> QED BY <2>1 DEF ListFilter
  <1>17. h.after = decode_cursor(c)
    <2> HIDE DEF more
    <2> QED BY <1>13 DEF ListFilter
  <1>18. \A n \in DOMAIN more : more[n][1] \in repeatable \cup single /\ one_of(more[n][1], more[n][2])
    <2>1. \A n \in 1 .. L : more[n][1] \in repeatable \cup single /\ one_of(more[n][1], more[n][2])
      BY <1>7, <1>8, ParsedQuery
    <2>2. one_of("cursor", c)
      BY DEF one_of
    <2>3. more[L + 1][1] = "cursor" /\ more[L + 1][2] = c /\ "cursor" \in repeatable \cup single
      <3> HIDE DEF more
      <3> QED BY <1>8 DEF single
    <2>4. \A n \in 1 .. L + 1 : n \in 1 .. L \/ n = L + 1
      BY <1>7
    <2> HIDE DEF more
    <2> QED BY <1>7, <2>1, <2>2, <2>3, <2>4
  <1>19. \A name \in single : \A m, n \in Named(more, name) : m = n
    <2> HIDE DEF more
    <2>1. ASSUME NEW name \in single PROVE \A m, n \in Named(more, name) : m = n
      <3>1. CASE name = "cursor"
        BY <1>11, <3>1
      <3>2. CASE name # "cursor"
        <4>1. Named(more, name) = Named(pairs, name)
          BY <1>10, <3>2
        <4>2. \A m, n \in Named(pairs, name) : m = n
          BY ParsedQuery
        <4> QED BY <4>1, <4>2
      <3> QED BY <3>1, <3>2
    <2> QED BY <2>1
  <1>20. /\ h.after # None
         /\ h.after.v = 1 /\ h.after.t = Reader /\ h.after.s = h.sort /\ h.after.o = h.order
    BY <1>5, <1>6, <1>15, <1>17
  <1>21. IF Given(pairs, "opened_from") /\ Given(pairs, "opened_to")
         THEN f.from < f.to /\ f.to - f.from <= MAX_RANGE
         ELSE ~Given(pairs, "opened_from") /\ ~Given(pairs, "opened_to")
    BY DEF parse_query
  <1>22. IF Given(more, "opened_from") /\ Given(more, "opened_to")
         THEN h.from < h.to /\ h.to - h.from <= MAX_RANGE
         ELSE ~Given(more, "opened_from") /\ ~Given(more, "opened_to")
    <2> HIDE DEF more, h
    <2> QED BY <1>12, <1>15, <1>21
  <1>23. g = h
    <2> HIDE DEF more
    <2>1. g = parse_query(more)
      BY DEF more
    <2> QED BY <1>18, <1>19, <1>20, <1>22, <2>1 DEF parse_query
  <1> HIDE DEF h
  <1> QED BY <1>4, <1>5, <1>14, <1>15, <1>16, <1>17, <1>20, <1>23

(***************************************************************************)
(* The invariant.                                                          *)
(***************************************************************************)
HistoryRow == [table : {"timeline", "audit", "detections"}, id : Nat, detected : Int]

IncidentsTyped ==
    /\ incidents = [i \in IncidentIds |-> incidents[i]]
    /\ \A i \in IncidentIds :
        incidents[i] # None => incidents[i] \in [state : STATES, opened : Int, detected : Int]

OneEach(rows) == \A r, s \in rows : r.table = s.table /\ r.id = s.id => r = s

(* Whoever writes holds the lock, and what it writes has the latest id.    *)
HistoryInOrder ==
    /\ sequence \in Nat
    /\ IsFiniteSet(history) /\ history \subseteq HistoryRow /\ OneEach(history)
    /\ \A r \in history : r.id <= sequence /\ (lock # None => r.id < sequence)
    /\ writing = [w \in Writers |-> writing[w]]
    /\ \A w \in Writers : writing[w] # None =>
        /\ lock = w
        /\ IsFiniteSet(writing[w]) /\ writing[w] \subseteq HistoryRow /\ OneEach(writing[w])
        /\ \A r \in writing[w] : r.id = sequence

Things(q) == IF q.table = "incidents" THEN IncidentIds ELSE HistoryRow

OrderOf(q) == IF q.table = "incidents" THEN ListFilter(q.pairs).order ELSE "asc"

(* What a cursor is for a query, and the position it stands for.           *)
CursorOf(q, c) ==
    IF q.table = "incidents"
    THEN \E key, id \in Int : c = encode_cursor(ListFilter(q.pairs).sort, ListFilter(q.pairs).order, key, id)
    ELSE c \in Positions

CursorAt(q, c) == IF q.table = "incidents" THEN <<c.hex[5], c.hex[6]>> ELSE c

Continues(q) == Readable(q) /\ (q.table = "incidents" => ~Given(q.pairs, "cursor"))

(* The rows that have stayed are listed once up to the cursor, and not     *)
(* after it.                                                               *)
ListedUpTo(q, begun, at, done, listed, whole) ==
    \A r \in whole : IF done \/ (begun /\ ~RowBefore(at, r.at, OrderOf(q)))
                     THEN Once(listed, r.row) ELSE Never(listed, r.row)

WalkInOrder ==
    walk # None =>
        /\ walk = [query |-> walk.query, cursor |-> walk.cursor, listed |-> walk.listed,
                   whole |-> walk.whole, done |-> walk.done]
        /\ walk.query \in Queries /\ walk.done \in BOOLEAN
        /\ walk.listed \in Seq(Things(walk.query))
        /\ walk.whole \subseteq Rows(walk.query)
        /\ ~walk.done => /\ Continues(walk.query)
                         /\ walk.cursor # None => CursorOf(walk.query, walk.cursor)
        /\ ListedUpTo(walk.query, walk.cursor # None, CursorAt(walk.query, walk.cursor), walk.done,
                      walk.listed, walk.whole)

(* A timeline or audit walk has every row behind the last one listed.      *)
NoGap(table, listed) ==
    \A row \in history : \A n \in DOMAIN listed :
        row.table = table /\ row.id < listed[n].id => \E m \in 1 .. n : listed[m] = row

WalkOfHistory ==
    walk # None /\ walk.query.table # "incidents" =>
        /\ \A n \in DOMAIN walk.listed :
            walk.listed[n] \in history /\ walk.listed[n].table = walk.query.table
        /\ ~walk.done /\ walk.cursor # None =>
            /\ Len(walk.listed) > 0
            /\ walk.cursor = Position(walk.query.table, walk.listed[Len(walk.listed)])
        /\ walk.query.table \in {"timeline", "audit"} => NoGap(walk.query.table, walk.listed)

ListingInv == IncidentsTyped /\ HistoryInOrder /\ WalkInOrder /\ WalkOfHistory

(***************************************************************************)
(* The lists.                                                              *)
(***************************************************************************)
LEMMA IncidentsListing ==
    ASSUME IncidentsTyped, NEW f, NEW b \in BOOLEAN
    PROVE  IsListing(Incidents(f, b), IncidentIds)
  <1> DEFINE W == where_clause(f, b)
             entry == [i \in W |-> [row |-> i, at |-> <<sort_key(i, f.sort), i>>]]
             E == Incidents(f, b)
  <1>1. W \in SUBSET IncidentIds /\ \A i \in W : incidents[i] # None
    BY DEF where_clause
  <1>2. IsFiniteSet(W)
    BY <1>1, FS_Subset, ListingAssumption
  <1>3. \A i \in W : sort_key(i, f.sort) \in Int /\ i \in Int /\ <<sort_key(i, f.sort), i>> \in Positions
    <2>1. \A i \in W : i \in IncidentIds /\ incidents[i] \in [state : STATES, opened : Int, detected : Int]
      BY <1>1 DEF IncidentsTyped
    <2>2. \A i \in W : sort_key(i, f.sort) \in Int
      BY <2>1 DEF sort_key
    <2>3. \A i \in W : i \in Int
      BY <1>1, ListingAssumption
    <2> HIDE DEF W
    <2> QED BY <2>2, <2>3 DEF Positions
  <1>4. E = {entry[i] : i \in W}
    BY DEF Incidents
  <1>5. entry \in Surjection(W, E)
    BY <1>4 DEF Surjection
  <1>6. IsFiniteSet(E)
    BY <1>2, <1>5, FS_Surjection
  <1>7. \A r \in E : \E i \in W : r.row = i /\ r.at = <<sort_key(i, f.sort), i>> /\ r = entry[i]
    BY <1>4
  <1> HIDE DEF E, W, entry
  <1>8. \A r \in E : r.row \in W /\ r.at = <<sort_key(r.row, f.sort), r.row>> /\ r = entry[r.row]
    BY <1>7
  <1>9. \A r \in E : r.at \in Positions /\ r.row \in IncidentIds
    BY <1>1, <1>3, <1>8
  <1>10. \A r, s \in E : r.at = s.at => r.row = s.row
    <2>1. \A r \in E : r.at[2] = r.row
      BY <1>8
    <2> QED BY <2>1
  <1>11. \A r, s \in E : r.row = s.row => r = s
    BY <1>8
  <1>12. IsList(E)
    BY <1>6, <1>9, <1>10, <1>11 DEF IsList
  <1> QED BY <1>9, <1>11, <1>12 DEF IsListing, E

LEMMA EntriesListing ==
    ASSUME HistoryInOrder, NEW table
    PROVE  IsListing(Entries(table), HistoryRow)
  <1> DEFINE W == {r \in history : r.table = table}
             entry == [r \in W |-> [row |-> r, at |-> Position(table, r)]]
             E == Entries(table)
  <1>1. W \in SUBSET history /\ \A r \in W : r.table = table
    OBVIOUS
  <1>2. IsFiniteSet(W)
    BY <1>1, FS_Subset DEF HistoryInOrder
  <1>3. \A r \in W : r \in HistoryRow /\ r.id \in Int /\ r.detected \in Int
    BY <1>1 DEF HistoryInOrder, HistoryRow
  <1>4. \A r \in W : Position(table, r) \in Positions
    BY <1>3 DEF Position, Positions
  <1>5. \A r, s \in W : Position(table, r) = Position(table, s) => r = s
    <2>1. \A r, s \in W : Position(table, r) = Position(table, s) => r.id = s.id
      BY <1>3 DEF Position
    <2> QED BY <1>1, <2>1 DEF HistoryInOrder, OneEach
  <1>6. E = {entry[r] : r \in W}
    BY DEF Entries
  <1>7. entry \in Surjection(W, E)
    BY <1>6 DEF Surjection
  <1>8. IsFiniteSet(E)
    BY <1>2, <1>7, FS_Surjection
  <1>9. \A r \in E : \E i \in W : r.row = i /\ r.at = Position(table, i) /\ r = entry[i]
    BY <1>6
  <1> HIDE DEF E, W, entry
  <1>10. \A r \in E : r.row \in W /\ r.at = Position(table, r.row) /\ r = entry[r.row]
    BY <1>9
  <1>11. \A r \in E : r.at \in Positions /\ r.row \in HistoryRow
    BY <1>3, <1>4, <1>10
  <1>12. \A r, s \in E : (r.at = s.at => r.row = s.row) /\ (r.row = s.row => r = s)
    BY <1>5, <1>10
  <1>13. IsList(E)
    BY <1>8, <1>11, <1>12 DEF IsList
  <1> QED BY <1>11, <1>12, <1>13 DEF IsListing, E

LEMMA RowsListing ==
    ASSUME IncidentsTyped, HistoryInOrder, NEW q
    PROVE  IsListing(Rows(q), Things(q))
  BY IncidentsListing, EntriesListing DEF Rows, Things

(* What the statement selects is the rest of the list.                     *)
LEMMA SelectsTheRest ==
    ASSUME NEW f, NEW g, NEW begun \in BOOLEAN, NEW at,
           g.states = f.states, g.from = f.from, g.to = f.to, g.sort = f.sort, g.order = f.order,
           begun <=> g.after # None, begun => at = <<g.after.k, g.after.i>>
    PROVE  Incidents(g, TRUE) = Rest(Incidents(f, FALSE), begun, at, f.order)
  <1>1. where_clause(g, TRUE) =
            {i \in where_clause(f, FALSE) : begun => RowBefore(at, <<sort_key(i, f.sort), i>>, f.order)}
    <2>1. \A i \in IncidentIds : sort_key(i, g.sort) = sort_key(i, f.sort)
      OBVIOUS
    <2>2. \A x : after_cursor(x, g) <=> (begun => RowBefore(at, x, f.order))
      BY DEF after_cursor
    <2> QED BY <2>1, <2>2 DEF where_clause
  <1>2. \A i : sort_key(i, g.sort) = sort_key(i, f.sort)
    OBVIOUS
  <1> DEFINE entry(i) == [row |-> i, at |-> <<sort_key(i, f.sort), i>>]
  <1>3. Incidents(g, TRUE) = {entry(i) : i \in where_clause(g, TRUE)}
    BY DEF Incidents
  <1>4. Incidents(f, FALSE) = {entry(i) : i \in where_clause(f, FALSE)}
    BY DEF Incidents
  <1>5. \A i : entry(i).at = <<sort_key(i, f.sort), i>>
    OBVIOUS
  <1> HIDE DEF entry
  <1>6. \A i : i \in where_clause(g, TRUE)
              <=> i \in where_clause(f, FALSE) /\ (begun => RowBefore(at, entry(i).at, f.order))
    BY <1>1, <1>5
  <1>7. ASSUME NEW r \in Incidents(g, TRUE) PROVE r \in Rest(Incidents(f, FALSE), begun, at, f.order)
    <2>1. PICK i \in where_clause(g, TRUE) : r = entry(i)
      BY <1>3
    <2> QED BY <1>4, <1>6, <2>1 DEF Rest
  <1>8. ASSUME NEW r \in Rest(Incidents(f, FALSE), begun, at, f.order) PROVE r \in Incidents(g, TRUE)
    <2>1. r \in Incidents(f, FALSE) /\ (begun => RowBefore(at, r.at, f.order))
      BY DEF Rest
    <2>2. PICK i \in where_clause(f, FALSE) : r = entry(i)
      BY <1>4, <2>1
    <2> QED BY <1>3, <1>6, <2>1, <2>2
  <1> QED BY <1>7, <1>8

(***************************************************************************)
(* The steps.                                                              *)
(***************************************************************************)
LEMMA RowsKept ==
    ASSUME NEW q, incidents' = incidents, history' = history
    PROVE  Rows(q)' = Rows(q)
  BY DEF Rows, Incidents, Entries, where_clause, sort_key, after_cursor, Position

(* Pages read by list_incidents.                                           *)
LEMMA ListIncidentsStep ==
    ASSUME ListingInv, list_incidents
    PROVE  ListingInv'
  <1>0. walk # None /\ ~walk.done /\ walk.query.table = "incidents"
        /\ UNCHANGED <<incidents, history, sequence, lock, writing>>
    BY DEF list_incidents
  <1>1. PICK q, listed, whole, cursor :
            /\ q = walk.query /\ listed = walk.listed /\ whole = walk.whole /\ cursor = walk.cursor
    OBVIOUS
  <1>2. /\ walk = [query |-> q, cursor |-> cursor, listed |-> listed, whole |-> whole, done |-> walk.done]
        /\ q \in Queries /\ q.table = "incidents" /\ listed \in Seq(IncidentIds)
        /\ whole \subseteq Rows(q) /\ Continues(q) /\ (cursor # None => CursorOf(q, cursor))
        /\ ListedUpTo(q, cursor # None, CursorAt(q, cursor), FALSE, listed, whole)
    BY <1>0, <1>1 DEF ListingInv, WalkInOrder, Things
  <1> DEFINE f == ListFilter(q.pairs)
             begun == cursor # None
             at == CursorAt(q, cursor)
             more == IF cursor = None THEN q.pairs ELSE Append(q.pairs, <<"cursor", cursor>>)
             g == parse_query(more)
             p == select_incidents(g)
             c == IF p.has_more THEN encode_cursor(g.sort, g.order, p.items[Len(p.items)].at[1],
                                                   p.items[Len(p.items)].at[2])
                  ELSE None
  <1>3. walk' = [walk EXCEPT !.listed = @ \o Names(p.items), !.cursor = c, !.done = ~p.has_more]
    BY <1>1 DEF list_incidents, Listed, Names
  <1>4. /\ parse_query(q.pairs) # None /\ ~Given(q.pairs, "cursor") /\ parse_query(q.pairs) = f
        /\ f.limit \in Nat \ {0} /\ f.sort \in SORTS /\ f.order \in ORDERS
    <2>1. parse_query(q.pairs) # None /\ ~Given(q.pairs, "cursor")
      BY <1>2 DEF Continues, Readable
    <2> QED BY <1>2, <2>1, ParsedQuery
  <1>5. /\ g.states = f.states /\ g.from = f.from /\ g.to = f.to /\ g.sort = f.sort
        /\ g.order = f.order /\ g.limit = f.limit
        /\ begun <=> g.after # None
        /\ begun => at = <<g.after.k, g.after.i>> /\ at \in Positions
    <2>1. CASE cursor = None
      <3>1. g = f
        BY <1>4, <2>1
      <3>2. f.after = None
        BY <1>4 DEF ListFilter
      <3> QED BY <2>1, <3>1, <3>2
    <2>2. CASE cursor # None
      <3>1. PICK key \in Int, id \in Int : cursor = encode_cursor(f.sort, f.order, key, id)
        BY <1>2, <2>2 DEF CursorOf
      <3>2. at = <<key, id>>
        BY <1>2, <3>1 DEF CursorAt, encode_cursor
      <3>3. g = parse_query(Append(q.pairs, <<"cursor", cursor>>))
        BY <2>2
      <3>4. /\ g.states = f.states /\ g.from = f.from /\ g.to = f.to /\ g.sort = f.sort
            /\ g.order = f.order /\ g.limit = f.limit
            /\ g.after # None /\ g.after.k = key /\ g.after.i = id
        <4> HIDE DEF f, g
        <4> QED BY <1>2, <1>4, <3>1, <3>3, ContinuedQuery DEF f
      <3>5. <<key, id>> \in Positions
        BY DEF Positions
      <3> HIDE DEF f, g, at
      <3> QED BY <2>2, <3>2, <3>4, <3>5
    <2> QED BY <2>1, <2>2
  <1> HIDE DEF g, at, more
  <1>6. /\ Rows(q) = Incidents(f, FALSE) /\ IsListing(Rows(q), IncidentIds)
        /\ OrderOf(q) = f.order
    <2>1. IncidentsTyped /\ HistoryInOrder
      BY DEF ListingInv
    <2> QED BY <1>2, <1>4, <2>1, RowsListing DEF Rows, OrderOf, Things
  <1> HIDE DEF f
  <1>7. Incidents(g, TRUE) = Rest(Incidents(f, FALSE), begun, at, f.order)
    BY <1>5, SelectsTheRest
  <1>8. p = page(Rest(Rows(q), begun, at, f.order), f.order, f.limit)
    BY <1>5, <1>6, <1>7 DEF select_incidents
  <1> HIDE DEF p
  <1>9. \A r \in whole : IF begun /\ ~RowBefore(at, r.at, f.order)
                         THEN Once(listed, r.row) ELSE Never(listed, r.row)
    BY <1>2, <1>6 DEF ListedUpTo, at
  <1> DEFINE new == listed \o Names(p.items)
             last == p.items[Len(p.items)]
  <1>10. /\ new \in Seq(IncidentIds)
         /\ p.has_more => last.at \in Positions
         /\ \A r \in whole : IF p.has_more => ~RowBefore(last.at, r.at, f.order)
                             THEN Once(new, r.row) ELSE Never(new, r.row)
    <2>1. begun \in BOOLEAN /\ (begun => at \in Positions)
      BY <1>5
    <2>2. whole \in SUBSET Rows(q)
      BY <1>2
    <2>3. IsListing(Rows(q), IncidentIds) /\ listed \in Seq(IncidentIds) /\ f.limit \in Nat \ {0}
      BY <1>2, <1>4, <1>6
    <2> HIDE DEF begun
    <2> QED BY <2>1, <2>2, <2>3, <1>8, <1>9, OnePageFurther
  <1>11. p.has_more \in BOOLEAN
    BY DEF p, select_incidents, page
  <1>12. p.has_more => /\ c = encode_cursor(f.sort, f.order, last.at[1], last.at[2])
                       /\ last.at[1] \in Int /\ last.at[2] \in Int
    BY <1>5, <1>10 DEF Positions
  <1> HIDE DEF c, new, last
  <1>13. walk' = [query |-> q, cursor |-> c, listed |-> new, whole |-> whole, done |-> ~p.has_more]
    BY <1>1, <1>2, <1>3 DEF new
  <1>14. Rows(q)' = Rows(q)
    BY <1>0, RowsKept
  <1>15. p.has_more => c # None /\ CursorOf(q, c) /\ CursorAt(q, c) = last.at
    <2> SUFFICES ASSUME p.has_more PROVE c # None /\ CursorOf(q, c) /\ CursorAt(q, c) = last.at
      OBVIOUS
    <2>1. c = encode_cursor(f.sort, f.order, last.at[1], last.at[2]) /\ last.at[1] \in Int /\ last.at[2] \in Int
      BY <1>12
    <2>2. c = [hex |-> <<1, Reader, f.sort, f.order, last.at[1], last.at[2]>>]
      BY <2>1 DEF encode_cursor
    <2>3. c \in [hex : {1} \X {Reader} \X SORTS \X ORDERS \X Int \X Int]
      BY <1>4, <2>1, <2>2
    <2>4. c # None
      BY <2>3, ListingAssumption
    <2>5. CursorOf(q, c)
      BY <1>2, <2>1 DEF CursorOf, f
    <2>6. <<last.at[1], last.at[2]>> = last.at
      BY <1>10 DEF Positions
    <2>7. CursorAt(q, c) = last.at
      BY <1>2, <2>2, <2>6 DEF CursorAt
    <2> QED BY <2>4, <2>5, <2>7
  <1>16. ListedUpTo(q, c # None, CursorAt(q, c), ~p.has_more, new, whole)
    <2>1. ASSUME NEW r \in whole
          PROVE  IF ~p.has_more \/ (c # None /\ ~RowBefore(CursorAt(q, c), r.at, OrderOf(q)))
                 THEN Once(new, r.row) ELSE Never(new, r.row)
      <3>1. CASE p.has_more
        BY <1>6, <1>10, <1>15, <3>1
      <3>2. CASE ~p.has_more
        BY <1>10, <3>2
      <3> QED BY <3>1, <3>2
    <2> QED BY <2>1 DEF ListedUpTo
  <1> HIDE DEF p
  <1>17. PICK w : w = walk'
    OBVIOUS
  <1>18. /\ w.query = q /\ w.cursor = c /\ w.listed = new /\ w.whole = whole /\ w.done = ~p.has_more
         /\ w = [query |-> w.query, cursor |-> w.cursor, listed |-> w.listed, whole |-> w.whole,
                 done |-> w.done]
    BY <1>13, <1>17
  <1>19. WalkInOrder'
    <2>1. w.listed \in Seq(Things(w.query)) /\ w.done \in BOOLEAN
      BY <1>2, <1>10, <1>11, <1>18 DEF Things
    <2>2. ListedUpTo(w.query, w.cursor # None, CursorAt(w.query, w.cursor), w.done, w.listed, w.whole)
      BY <1>16, <1>18
    <2>3. w.whole \subseteq Rows(w.query)'
      BY <1>2, <1>14, <1>18
    <2>4. ~w.done => Continues(w.query) /\ (w.cursor # None => CursorOf(w.query, w.cursor))
      BY <1>2, <1>15, <1>18
    <2>5. w.query \in Queries
      BY <1>2, <1>18
    <2> QED BY <1>17, <1>18, <2>1, <2>2, <2>3, <2>4, <2>5
            DEF WalkInOrder, Continues, Readable, CursorOf, CursorAt, ListedUpTo, OrderOf, Things
  <1>20. WalkOfHistory'
    BY <1>2, <1>17, <1>18 DEF WalkOfHistory
  <1>21. IncidentsTyped' /\ HistoryInOrder'
    BY <1>0 DEF ListingInv, IncidentsTyped, HistoryInOrder
  <1> QED BY <1>19, <1>20, <1>21 DEF ListingInv

(* A page of the timeline or the audit records leaves no row out.          *)
LEMMA NoGapFurther ==
    ASSUME HistoryInOrder, NEW table \in {"timeline", "audit"}, NEW listed \in Seq(HistoryRow),
           \A n \in DOMAIN listed : listed[n] \in history /\ listed[n].table = table,
           NoGap(table, listed), NEW begun \in BOOLEAN, NEW at,
           begun => Len(listed) > 0 /\ at = Position(table, listed[Len(listed)]),
           NEW limit \in Nat \ {0},
           NEW p, p = page(Rest(Entries(table), begun, at, "asc"), "asc", limit)
    PROVE  NoGap(table, listed \o Names(p.items))
  <1> DEFINE rest == Rest(Entries(table), begun, at, "asc")
             items == p.items
             k == Len(items)
             m == Len(listed)
             new == listed \o Names(items)
  <1>0. IsListing(Entries(table), HistoryRow)
    BY EntriesListing
  <1>1. /\ k \in Nat /\ items \in [1 .. k -> rest] /\ DOMAIN items = 1 .. k
        /\ \A r \in rest : \A n \in 1 .. k :
                RowBefore(r.at, items[n].at, "asc") => \E i \in 1 .. n : items[i] = r
    <2>1. IsList(rest)
      BY <1>0, RestIsList
    <2> HIDE DEF rest
    <2>2. p = page(rest, "asc", limit)
      BY DEF rest
    <2> QED BY <2>1, <2>2, PageHolds
  <1>2. \A e \in Entries(table) : /\ e.row \in history /\ e.row \in HistoryRow /\ e.row.table = table
                                  /\ e.at = Position(table, e.row)
                                  /\ e = [row |-> e.row, at |-> Position(table, e.row)]
    BY DEF Entries, HistoryInOrder
  <1>3. \A e \in rest : e \in Entries(table)
    BY DEF Rest
  <1>4. \A a, b \in HistoryRow : RowBefore(Position(table, a), Position(table, b), "asc") <=> a.id < b.id
    BY DEF RowBefore, Position, HistoryRow
  <1>5. m \in Nat /\ DOMAIN listed = 1 .. m
    OBVIOUS
  <1>6. /\ Names(items) \in [1 .. k -> HistoryRow]
        /\ \A n \in 1 .. k : Names(items)[n] = items[n].row
    BY <1>1, <1>2, <1>3 DEF Names
  <1>7. Names(items) \in Seq(HistoryRow) /\ Len(Names(items)) = k
    <2> HIDE DEF k
    <2> QED BY <1>1, <1>6, IsSequence
  <1>8. /\ DOMAIN new = 1 .. m + k
        /\ \A n \in 1 .. m : new[n] = listed[n]
        /\ \A n \in 1 .. k : new[m + n] = items[n].row
    <2>1. /\ DOMAIN new = 1 .. m + k
          /\ \A n \in 1 .. m : new[n] = listed[n]
          /\ \A n \in 1 .. k : new[m + n] = Names(items)[n]
      <3>1. m = Len(listed) /\ new = listed \o Names(items)
        OBVIOUS
      <3> HIDE DEF m, k, new
      <3> QED BY <1>7, <3>1, Concatenated
    <2> QED BY <1>6, <2>1
  <1> HIDE DEF new, k, m, items, rest
  <1>9. ASSUME NEW row \in history, NEW n \in 1 .. m + k, row.table = table, row.id < new[n].id
        PROVE  \E i \in 1 .. n : new[i] = row
    <2>0. row \in HistoryRow /\ row.id \in Nat
      BY DEF HistoryInOrder, HistoryRow
    <2>1. CASE n \in 1 .. m
      <3>1. PICK i \in 1 .. n : listed[i] = row
        BY <1>5, <1>8, <1>9, <2>1 DEF NoGap
      <3>2. i \in 1 .. m
        BY <1>5, <2>1
      <3> QED BY <1>8, <3>1, <3>2
    <2>2. CASE n \notin 1 .. m
      <3>1. PICK j \in 1 .. k : n = m + j
        <4>1. n - m \in 1 .. k /\ n = m + (n - m)
          BY <1>1, <1>5, <2>2
        <4> QED BY <4>1
      <3>2. new[n] = items[j].row /\ items[j] \in rest
        BY <1>1, <1>8, <3>1
      <3> DEFINE e == [row |-> row, at |-> Position(table, row)]
      <3>3. e \in Entries(table) /\ e.row = row /\ e.at = Position(table, row)
        BY <1>9 DEF Entries
      <3> HIDE DEF e
      <3>4. CASE e \in rest
        <4>1. items[j] \in Entries(table) /\ items[j].row \in HistoryRow
              /\ items[j].at = Position(table, items[j].row)
          BY <1>2, <1>3, <3>2
        <4>2. row.id < items[j].row.id
          BY <1>9, <3>2
        <4>3. RowBefore(e.at, items[j].at, "asc")
          BY <1>4, <2>0, <3>3, <4>1, <4>2
        <4>4. PICK i \in 1 .. j : items[i] = e
          BY <1>1, <3>4, <4>3
        <4>5. i \in 1 .. k /\ m + i \in 1 .. n
          BY <1>1, <1>5, <3>1
        <4>6. new[m + i] = row
          BY <1>8, <3>3, <4>4, <4>5
        <4> QED BY <4>5, <4>6
      <3>5. CASE e \notin rest
        <4>1. begun /\ ~RowBefore(at, e.at, "asc")
          BY <3>3, <3>5 DEF rest, Rest
        <4>2. m \in 1 .. m /\ at = Position(table, listed[m]) /\ listed[m] \in HistoryRow /\ listed[m] \in history
              /\ listed[m].table = table
          BY <1>5, <4>1 DEF m
        <4>3. listed[m].id \in Nat
          BY <4>2 DEF HistoryRow
        <4>4. ~(listed[m].id < row.id)
          BY <1>4, <2>0, <3>3, <4>1, <4>2
        <4>5. row.id = listed[m].id \/ row.id < listed[m].id
          BY <2>0, <4>3, <4>4
        <4>6. \E i \in 1 .. m : listed[i] = row
          <5>1. CASE row.id = listed[m].id
            <6>1. row = listed[m]
              BY <1>9, <4>2, <5>1 DEF HistoryInOrder, OneEach
            <6> QED BY <4>2, <6>1
          <5>2. CASE row.id < listed[m].id
            BY <1>5, <1>9, <4>2, <5>2 DEF NoGap
          <5> QED BY <4>5, <5>1, <5>2
        <4>7. PICK i \in 1 .. m : listed[i] = row
          BY <4>6
        <4>8. i \in 1 .. n /\ new[i] = row
          BY <1>1, <1>5, <1>8, <3>1, <4>7
        <4> QED BY <4>8
      <3> QED BY <3>4, <3>5
    <2> QED BY <2>1, <2>2
  <1>10. NoGap(table, new)
    BY <1>8, <1>9 DEF NoGap
  <1> QED BY <1>10 DEF new, items

LEMMA ReadHistoryStep ==
    ASSUME ListingInv, read_history
    PROVE  ListingInv'
  <1>0. walk # None /\ ~walk.done /\ walk.query.table # "incidents"
        /\ UNCHANGED <<incidents, history, sequence, lock, writing>>
    BY DEF read_history
  <1>1. PICK q, listed, whole, cursor :
            /\ q = walk.query /\ listed = walk.listed /\ whole = walk.whole /\ cursor = walk.cursor
    OBVIOUS
  <1>2. /\ walk = [query |-> q, cursor |-> cursor, listed |-> listed, whole |-> whole, done |-> walk.done]
        /\ q \in Queries /\ q.table # "incidents" /\ listed \in Seq(HistoryRow)
        /\ whole \subseteq Rows(q) /\ Continues(q) /\ (cursor # None => CursorOf(q, cursor))
        /\ ListedUpTo(q, cursor # None, CursorAt(q, cursor), FALSE, listed, whole)
    BY <1>0, <1>1 DEF ListingInv, WalkInOrder, Things
  <1>3. /\ \A n \in DOMAIN listed : listed[n] \in history /\ listed[n].table = q.table
        /\ cursor # None => Len(listed) > 0 /\ cursor = Position(q.table, listed[Len(listed)])
        /\ q.table \in {"timeline", "audit"} => NoGap(q.table, listed)
    BY <1>0, <1>1 DEF ListingInv, WalkOfHistory
  <1> DEFINE limit == paging(q.limit)
             begun == cursor # None
             p == select_history(q.table, cursor, limit)
             c == IF p.has_more THEN p.items[Len(p.items)].at ELSE None
             new == listed \o Names(p.items)
             last == p.items[Len(p.items)]
  <1>4. walk' = [walk EXCEPT !.listed = @ \o Names(p.items), !.cursor = c, !.done = ~p.has_more]
    BY <1>1 DEF read_history, Listed, Names
  <1>5. limit \in Nat \ {0}
    <2>1. q.limit \in Int
      BY <1>2, ListingAssumption
    <2>2. limit # None
      BY <1>2 DEF Continues, Readable
    <2> QED BY <2>1, <2>2, ListingAssumption DEF paging
  <1> HIDE DEF limit
  <1>6. /\ Rows(q) = Entries(q.table) /\ IsListing(Rows(q), HistoryRow)
        /\ OrderOf(q) = "asc" /\ \A x : CursorAt(q, x) = x
    <2>1. IncidentsTyped /\ HistoryInOrder
      BY DEF ListingInv
    <2> QED BY <1>2, <2>1, RowsListing DEF Rows, OrderOf, Things, CursorAt
  <1>7. p = page(Rest(Entries(q.table), begun, cursor, "asc"), "asc", limit)
    BY DEF select_history, Rest
  <1>8. p.has_more \in BOOLEAN
    BY DEF p, select_history, page
  <1> HIDE DEF p, begun
  <1>9. /\ begun \in BOOLEAN /\ begun = (cursor # None) /\ (begun => cursor \in Positions)
    BY <1>2 DEF CursorOf, begun
  <1>10. \A r \in whole : IF begun /\ ~RowBefore(cursor, r.at, "asc")
                          THEN Once(listed, r.row) ELSE Never(listed, r.row)
    <2>1. ListedUpTo(q, begun, cursor, FALSE, listed, whole)
      BY <1>2, <1>6 DEF begun
    <2> QED BY <1>6, <2>1 DEF ListedUpTo
  <1>11. /\ new \in Seq(HistoryRow)
         /\ p.has_more => last.at \in Positions
         /\ \A r \in whole : IF p.has_more => ~RowBefore(last.at, r.at, "asc")
                             THEN Once(new, r.row) ELSE Never(new, r.row)
    <2>1. whole \in SUBSET Entries(q.table) /\ IsListing(Entries(q.table), HistoryRow)
      BY <1>2, <1>6
    <2>2. PICK rows : rows = Entries(q.table)
      OBVIOUS
    <2>3. p = page(Rest(rows, begun, cursor, "asc"), "asc", limit)
      BY <1>7, <2>2
    <2>4. whole \in SUBSET rows /\ IsListing(rows, HistoryRow) /\ listed \in Seq(HistoryRow)
      BY <1>2, <2>1, <2>2
    <2>5. PICK order : order = "asc"
      OBVIOUS
    <2>6. begun \in BOOLEAN /\ (begun => cursor \in Positions)
      BY <1>9
    <2>7. p = page(Rest(rows, begun, cursor, order), order, limit)
      BY <2>3, <2>5
    <2>8. \A r \in whole : IF begun /\ ~RowBefore(cursor, r.at, order)
                           THEN Once(listed, r.row) ELSE Never(listed, r.row)
      BY <1>10, <2>5
    <2>9. /\ new \in Seq(HistoryRow)
          /\ p.has_more => last.at \in Positions
          /\ \A r \in whole : IF p.has_more => ~RowBefore(last.at, r.at, order)
                              THEN Once(new, r.row) ELSE Never(new, r.row)
      BY <1>5, <2>4, <2>6, <2>7, <2>8, OnePageFurther
    <2> QED BY <2>5, <2>9
  <1>12. p.has_more => c # None /\ CursorOf(q, c) /\ c = last.at
    <2>1. p.has_more => c \in Positions /\ c = last.at
      BY <1>11
    <2>2. None \notin Positions
      BY ListingAssumption DEF Positions
    <2> HIDE DEF c
    <2> QED BY <1>2, <2>1, <2>2 DEF CursorOf
  <1> DEFINE k == Len(p.items)
             m == Len(listed)
  <1>13. /\ k \in Nat /\ DOMAIN p.items = 1 .. k /\ (p.has_more => k > 0)
         /\ \A n \in 1 .. k : /\ p.items[n].row \in history /\ p.items[n].row.table = q.table
                              /\ p.items[n].at = Position(q.table, p.items[n].row)
    <2> DEFINE rest == Rest(Entries(q.table), begun, cursor, "asc")
    <2>1. IsList(rest)
      BY <1>6, RestIsList
    <2>2. \A e \in rest : e.row \in history /\ e.row.table = q.table /\ e.at = Position(q.table, e.row)
      BY DEF Rest, Entries
    <2> HIDE DEF rest
    <2>3. p = page(rest, "asc", limit)
      BY <1>7 DEF rest
    <2>4. k \in Nat /\ p.items \in [1 .. k -> rest] /\ (p.has_more => k > 0)
      BY <1>5, <2>1, <2>3, PageHolds
    <2> QED BY <2>2, <2>4
  <1>14. /\ m \in Nat /\ DOMAIN listed = 1 .. m /\ DOMAIN new = 1 .. m + k /\ Len(new) = m + k
         /\ \A n \in 1 .. m : new[n] = listed[n]
         /\ \A n \in 1 .. k : new[m + n] = p.items[n].row
    <2>1. /\ Names(p.items) \in [1 .. k -> history] /\ \A n \in 1 .. k : Names(p.items)[n] = p.items[n].row
      BY <1>13 DEF Names
    <2>2. Names(p.items) \in Seq(history) /\ Len(Names(p.items)) = k
      BY <1>13, <2>1
    <2>3. /\ m \in Nat /\ DOMAIN listed = 1 .. m /\ DOMAIN new = 1 .. m + k /\ Len(new) = m + k
          /\ \A n \in 1 .. m : new[n] = listed[n]
          /\ \A n \in 1 .. k : new[m + n] = Names(p.items)[n]
      <3>1. m = Len(listed) /\ new = listed \o Names(p.items) /\ Names(p.items) \in Seq(HistoryRow)
        BY <2>2 DEF ListingInv, HistoryInOrder
      <3>2. listed \in Seq(HistoryRow) /\ k = Len(Names(p.items))
        BY <1>2, <2>2
      <3> HIDE DEF m, k, new
      <3> QED BY <3>1, <3>2, Concatenated
    <2> HIDE DEF m, k, new
    <2> QED BY <2>1, <2>3
  <1>15. q.table \in {"timeline", "audit"} => NoGap(q.table, new)
    <2> SUFFICES ASSUME q.table \in {"timeline", "audit"} PROVE NoGap(q.table, new)
      OBVIOUS
    <2>1. HistoryInOrder
      BY DEF ListingInv
    <2>2. PICK t : t = q.table
      OBVIOUS
    <2> QED BY <1>2, <1>3, <1>5, <1>7, <1>9, <2>1, <2>2, NoGapFurther
  <1> HIDE DEF c, new, last, k, m
  <1>16. walk' = [query |-> q, cursor |-> c, listed |-> new, whole |-> whole, done |-> ~p.has_more]
    BY <1>1, <1>2, <1>4 DEF new
  <1>17. \A n \in DOMAIN new : new[n] \in history /\ new[n].table = q.table
    <2>1. ASSUME NEW n \in 1 .. m + k PROVE new[n] \in history /\ new[n].table = q.table
      <3>1. CASE n \in 1 .. m
        BY <1>3, <1>14, <3>1
      <3>2. CASE n \notin 1 .. m
        <4>1. n - m \in 1 .. k /\ n = m + (n - m)
          BY <1>13, <1>14, <3>2
        <4> QED BY <1>13, <1>14, <4>1
      <3> QED BY <3>1, <3>2
    <2> QED BY <1>14, <2>1
  <1>18. p.has_more => Len(new) > 0 /\ c = Position(q.table, new[Len(new)])
    <2> SUFFICES ASSUME p.has_more PROVE Len(new) > 0 /\ c = Position(q.table, new[Len(new)])
      OBVIOUS
    <2>1. k \in 1 .. k /\ m + k > 0
      BY <1>13, <1>14
    <2>2. c = p.items[k].at
      BY <1>12 DEF last, k
    <2> QED BY <1>13, <1>14, <2>1, <2>2
  <1>19. Rows(q)' = Rows(q)
    BY <1>0, RowsKept
  <1>20. ListedUpTo(q, c # None, CursorAt(q, c), ~p.has_more, new, whole)
    <2>1. ASSUME NEW r \in whole
          PROVE  IF ~p.has_more \/ (c # None /\ ~RowBefore(CursorAt(q, c), r.at, OrderOf(q)))
                 THEN Once(new, r.row) ELSE Never(new, r.row)
      <3>1. CASE p.has_more
        BY <1>6, <1>11, <1>12, <3>1
      <3>2. CASE ~p.has_more
        BY <1>11, <3>2
      <3> QED BY <3>1, <3>2
    <2> QED BY <2>1 DEF ListedUpTo
  <1>21. PICK w : w = walk'
    OBVIOUS
  <1>22. /\ w.query = q /\ w.cursor = c /\ w.listed = new /\ w.whole = whole /\ w.done = ~p.has_more
         /\ w = [query |-> w.query, cursor |-> w.cursor, listed |-> w.listed, whole |-> w.whole,
                 done |-> w.done]
    BY <1>16, <1>21
  <1>23. WalkInOrder'
    <2>1. w.listed \in Seq(Things(w.query)) /\ w.done \in BOOLEAN
      BY <1>2, <1>8, <1>11, <1>22 DEF Things
    <2>2. ListedUpTo(w.query, w.cursor # None, CursorAt(w.query, w.cursor), w.done, w.listed, w.whole)
      BY <1>20, <1>22
    <2>3. w.whole \subseteq Rows(w.query)'
      BY <1>2, <1>19, <1>22
    <2>4. ~w.done => Continues(w.query) /\ (w.cursor # None => CursorOf(w.query, w.cursor))
      BY <1>2, <1>12, <1>22
    <2>5. w.query \in Queries
      BY <1>2, <1>22
    <2> QED BY <1>21, <1>22, <2>1, <2>2, <2>3, <2>4, <2>5
            DEF WalkInOrder, Continues, Readable, CursorOf, CursorAt, ListedUpTo, OrderOf, Things
  <1>24. WalkOfHistory'
    <2>1. /\ \A n \in DOMAIN w.listed : w.listed[n] \in history' /\ w.listed[n].table = w.query.table
          /\ ~w.done /\ w.cursor # None =>
                Len(w.listed) > 0 /\ w.cursor = Position(w.query.table, w.listed[Len(w.listed)])
      BY <1>0, <1>17, <1>18, <1>22
    <2>2. w.query.table \in {"timeline", "audit"} => NoGap(w.query.table, w.listed)'
      BY <1>0, <1>15, <1>22 DEF NoGap
    <2> QED BY <1>21, <2>1, <2>2 DEF WalkOfHistory, Position, NoGap
  <1>25. IncidentsTyped' /\ HistoryInOrder'
    BY <1>0 DEF ListingInv, IncidentsTyped, HistoryInOrder
  <1> QED BY <1>23, <1>24, <1>25 DEF ListingInv

(* Fewer rows have stayed; the reader is where it was.                     *)
LEMMA StillStep ==
    ASSUME WalkInOrder, WalkOfHistory, Still, history \subseteq history',
           walk # None /\ walk.query.table \in {"timeline", "audit"} =>
               \A row \in history' \ history : \A n \in DOMAIN walk.listed : ~(row.id < walk.listed[n].id)
    PROVE  WalkInOrder' /\ WalkOfHistory'
  <1>1. CASE walk = None
    BY <1>1 DEF Still, WalkInOrder, WalkOfHistory
  <1>2. CASE walk # None
    <2>1. PICK q, listed, whole, cursor :
            /\ q = walk.query /\ listed = walk.listed /\ whole = walk.whole /\ cursor = walk.cursor
      OBVIOUS
    <2>2. /\ walk = [query |-> q, cursor |-> cursor, listed |-> listed, whole |-> whole, done |-> walk.done]
          /\ q \in Queries /\ listed \in Seq(Things(q))
          /\ ~walk.done /\ Continues(q) /\ (cursor # None => CursorOf(q, cursor))
          /\ ListedUpTo(q, cursor # None, CursorAt(q, cursor), walk.done, listed, whole)
      BY <1>2, <2>1 DEF WalkInOrder, Still
    <2>3. walk' = [walk EXCEPT !.whole = @ \cap Rows(q)']
      BY <1>2, <2>1 DEF Still
    <2>4. PICK w : w = walk'
      OBVIOUS
    <2>5. PICK rest : rest = whole \cap Rows(q)'
      OBVIOUS
    <2>6. PICK done : done = walk.done
      OBVIOUS
    <2>7. /\ w = [query |-> q, cursor |-> cursor, listed |-> listed, whole |-> rest, done |-> done]
          /\ w.query = q /\ w.cursor = cursor /\ w.listed = listed /\ w.whole = rest /\ w.done = done
      BY <2>1, <2>2, <2>3, <2>4, <2>5, <2>6
    <2>8. ListedUpTo(q, cursor # None, CursorAt(q, cursor), done, listed, rest)
      BY <2>2, <2>5, <2>6 DEF ListedUpTo
    <2>9. done \in BOOLEAN /\ ~done
      BY <1>2, <2>2, <2>6 DEF WalkInOrder
    <2>10. WalkInOrder'
      <3>1. rest \subseteq Rows(q)'
        BY <2>5
      <3>2. w = [query |-> w.query, cursor |-> w.cursor, listed |-> w.listed, whole |-> w.whole,
                 done |-> w.done]
        BY <2>7
      <3>3. w.listed \in Seq(Things(w.query)) /\ w.query \in Queries /\ w.done \in BOOLEAN
        BY <2>2, <2>7, <2>9
      <3>4. ListedUpTo(w.query, w.cursor # None, CursorAt(w.query, w.cursor), w.done, w.listed, w.whole)
        BY <2>7, <2>8
      <3>5. ~w.done => Continues(w.query) /\ (w.cursor # None => CursorOf(w.query, w.cursor))
        BY <2>2, <2>7
      <3>6. w.whole \subseteq Rows(w.query)'
        BY <2>7, <3>1
      <3> QED BY <2>4, <3>2, <3>3, <3>4, <3>5, <3>6
              DEF WalkInOrder, Continues, Readable, CursorOf, CursorAt, ListedUpTo, OrderOf, Things
    <2>11. WalkOfHistory'
      <3> SUFFICES ASSUME q.table # "incidents" PROVE WalkOfHistory'
        BY <2>4, <2>7 DEF WalkOfHistory
      <3>1. /\ \A n \in DOMAIN listed : listed[n] \in history /\ listed[n].table = q.table
            /\ cursor # None => Len(listed) > 0 /\ cursor = Position(q.table, listed[Len(listed)])
            /\ q.table \in {"timeline", "audit"} => NoGap(q.table, listed)
        BY <1>2, <2>1, <2>2 DEF WalkOfHistory
      <3>2. q.table \in {"timeline", "audit"} =>
                \A row \in history' \ history : \A n \in DOMAIN listed : ~(row.id < listed[n].id)
        BY <1>2, <2>1
      <3>3. q.table \in {"timeline", "audit"} => NoGap(q.table, listed)'
        BY <3>1, <3>2 DEF NoGap
      <3>4. \A n \in DOMAIN listed : listed[n] \in history' /\ listed[n].table = q.table
        BY <3>1
      <3>5. /\ \A n \in DOMAIN w.listed : w.listed[n] \in history' /\ w.listed[n].table = w.query.table
            /\ w.cursor # None => Len(w.listed) > 0 /\ w.cursor = Position(w.query.table, w.listed[Len(w.listed)])
            /\ w.query.table \in {"timeline", "audit"} => NoGap(w.query.table, w.listed)'
        BY <2>7, <3>1, <3>3, <3>4
      <3> QED BY <2>4, <3>5 DEF WalkOfHistory, Position, NoGap
    <2> QED BY <2>10, <2>11
  <1> QED BY <1>1, <1>2

LEMMA OthersStep ==
    ASSUME ListingInv, NEW i \in IncidentIds,
           (\E at \in Moments : Opens(i, at)) \/ Detected(i) \/ Transition(i)
    PROVE  ListingInv'
  <1>1. UNCHANGED <<history, sequence, lock, writing>> /\ Still
    BY DEF Opens, Detected, Transition
  <1>2. IncidentsTyped'
    <2>1. PICK row \in [state : STATES, opened : Int, detected : Int] : incidents' = [incidents EXCEPT ![i] = row]
      <3>1. CASE \E at \in Moments : Opens(i, at)
        <4>1. PICK at \in Moments : Opens(i, at)
          BY <3>1
        <4>2. [state |-> "open", opened |-> at, detected |-> at] \in [state : STATES, opened : Int, detected : Int]
          BY ListingAssumption DEF Moments, STATES
        <4> QED BY <4>1, <4>2 DEF Opens
      <3>2. CASE Detected(i)
        <4>1. PICK old \in [state : STATES, opened : Int, detected : Int] : old = incidents[i]
          BY <3>2 DEF Detected, ListingInv, IncidentsTyped
        <4>2. incidents' = [incidents EXCEPT ![i] = [old EXCEPT !.detected = @ + 1]]
          BY <3>2, <4>1 DEF Detected
        <4>3. [old EXCEPT !.detected = @ + 1] \in [state : STATES, opened : Int, detected : Int]
          OBVIOUS
        <4> QED BY <4>2, <4>3
      <3>3. CASE Transition(i)
        <4>1. PICK old \in [state : STATES, opened : Int, detected : Int] : old = incidents[i]
          BY <3>3 DEF Transition, ListingInv, IncidentsTyped
        <4>2. incidents' = [incidents EXCEPT ![i] = [old EXCEPT !.state = "closed"]]
          BY <3>3, <4>1 DEF Transition
        <4>3. [old EXCEPT !.state = "closed"] \in [state : STATES, opened : Int, detected : Int]
          BY DEF STATES
        <4> QED BY <4>2, <4>3
      <3> QED BY <3>1, <3>2, <3>3
    <2> QED BY <2>1 DEF ListingInv, IncidentsTyped
  <1>3. HistoryInOrder'
    BY <1>1 DEF ListingInv, HistoryInOrder
  <1>4. WalkInOrder' /\ WalkOfHistory'
    <2>1. history \subseteq history' /\ history' \ history = {}
      BY <1>1
    <2> QED BY <1>1, <2>1, StillStep DEF ListingInv
  <1> QED BY <1>2, <1>3, <1>4 DEF ListingInv

LEMMA BeginStep ==
    ASSUME ListingInv, NEW q \in Queries, Begin(q) \/ Refused(q)
    PROVE  ListingInv'
  <1>1. walk = None /\ UNCHANGED <<incidents, history, sequence, lock, writing>>
    BY DEF Begin, Refused
  <1>2. PICK w : w = walk'
    OBVIOUS
  <1>3. PICK whole, done :
            /\ w = [query |-> q, cursor |-> None, listed |-> <<>>, whole |-> whole, done |-> done]
            /\ done \in BOOLEAN /\ whole \subseteq Rows(q) /\ (~done => Continues(q)) /\ (done => whole = {})
    <2>1. CASE Begin(q)
      <3>1. PICK whole : whole = Rows(q)
        OBVIOUS
      <3>2. w = [query |-> q, cursor |-> None, listed |-> <<>>, whole |-> whole, done |-> FALSE]
        BY <1>2, <2>1, <3>1 DEF Begin
      <3>3. Continues(q)
        BY <2>1 DEF Begin, Continues
      <3> QED BY <3>1, <3>2, <3>3
    <2>2. CASE Refused(q)
      <3>1. w = [query |-> q, cursor |-> None, listed |-> <<>>, whole |-> {}, done |-> TRUE]
        BY <1>2, <2>2 DEF Refused
      <3> QED BY <3>1
    <2> QED BY <2>1, <2>2
  <1>4. Rows(q)' = Rows(q)
    BY <1>1, RowsKept
  <1>5. /\ w.query = q /\ w.cursor = None /\ w.listed = <<>> /\ w.whole = whole /\ w.done = done
        /\ w = [query |-> w.query, cursor |-> w.cursor, listed |-> w.listed, whole |-> w.whole,
                done |-> w.done]
    BY <1>3
  <1>6. WalkInOrder'
    <2>1. ListedUpTo(w.query, w.cursor # None, CursorAt(w.query, w.cursor), w.done, w.listed, w.whole)
      <3>1. \A x : Never(<<>>, x)
        BY DEF Never
      <3> QED BY <1>3, <1>5, <3>1 DEF ListedUpTo
    <2>2. w.listed \in Seq(Things(w.query)) /\ w.query \in Queries /\ w.done \in BOOLEAN
      BY <1>3, <1>5
    <2>3. w.whole \subseteq Rows(w.query)'
      BY <1>3, <1>4, <1>5
    <2>4. ~w.done => Continues(w.query) /\ (w.cursor # None => CursorOf(w.query, w.cursor))
      BY <1>3, <1>5
    <2> QED BY <1>2, <1>5, <2>1, <2>2, <2>3, <2>4
            DEF WalkInOrder, Continues, Readable, CursorOf, CursorAt, ListedUpTo, OrderOf, Things
  <1>7. WalkOfHistory'
    <2>1. DOMAIN w.listed = {} /\ w.cursor = None
      BY <1>5
    <2> QED BY <1>2, <2>1 DEF WalkOfHistory, NoGap
  <1>8. IncidentsTyped' /\ HistoryInOrder'
    BY <1>1 DEF ListingInv, IncidentsTyped, HistoryInOrder
  <1> QED BY <1>6, <1>7, <1>8 DEF ListingInv

(* Whatever of the walk is said holds of a walk, and of rows, unchanged.   *)
LEMMA WalkKept ==
    ASSUME WalkInOrder, WalkOfHistory, UNCHANGED <<incidents, history, walk>>
    PROVE  WalkInOrder' /\ WalkOfHistory'
  <1>1. PICK q : q = walk.query
    OBVIOUS
  <1>2. Rows(q)' = Rows(q)
    BY RowsKept
  <1>3. WalkInOrder'
    BY <1>1, <1>2 DEF WalkInOrder, Continues, Readable, CursorOf, CursorAt, ListedUpTo, OrderOf, Things
  <1>4. WalkOfHistory'
    BY DEF WalkOfHistory, NoGap, Position
  <1> QED BY <1>3, <1>4

LEMMA FlushStep ==
    ASSUME ListingInv, NEW w \in Writers, flush(w)
    PROVE  ListingInv'
  <1> DEFINE Row(t, detected) ==
                [table |-> t, id |-> sequence + 1, detected |-> IF t = "detections" THEN detected ELSE 0]
             T == {"timeline", "audit", "detections"}
  <1>1. /\ writing[w] = None /\ lock = None /\ sequence' = sequence + 1 /\ lock' = w
        /\ UNCHANGED <<incidents, history, walk>>
    BY DEF flush, load_for_incident
  <1>2. PICK detected \in Moments : writing' = [writing EXCEPT ![w] = {Row(t, detected) : t \in T}]
    BY DEF flush
  <1>3. HistoryInOrder
    BY DEF ListingInv
  <1>4. sequence \in Nat /\ detected \in Int
    BY <1>3, ListingAssumption DEF HistoryInOrder, Moments
  <1>5. PICK rows : rows = {Row(t, detected) : t \in T}
    OBVIOUS
  <1>6. \A t \in T : Row(t, detected) \in HistoryRow /\ Row(t, detected).table = t
                     /\ Row(t, detected).id = sequence + 1
    BY <1>4 DEF HistoryRow
  <1>7. /\ rows \subseteq HistoryRow /\ OneEach(rows) /\ \A r \in rows : r.id = sequence + 1
    BY <1>5, <1>6 DEF OneEach
  <1>8. IsFiniteSet(rows)
    <2> DEFINE a == {Row("timeline", detected)}
               b == a \cup {Row("audit", detected)}
               c == b \cup {Row("detections", detected)}
    <2>1. rows = c
      BY <1>5
    <2> HIDE DEF Row
    <2>2. IsFiniteSet(a)
      BY FS_Singleton
    <2> HIDE DEF a
    <2>3. IsFiniteSet(b)
      BY <2>2, FS_AddElement
    <2> HIDE DEF b
    <2>4. IsFiniteSet(c)
      BY <2>3, FS_AddElement
    <2> QED BY <2>1, <2>4
  <1>9. \A v \in Writers : writing[v] = None
    BY <1>1, <1>3, ListingAssumption DEF HistoryInOrder
  <1>10. writing' = [writing EXCEPT ![w] = rows] /\ DOMAIN writing = Writers
    BY <1>2, <1>3, <1>5 DEF HistoryInOrder
  <1>11. \A v \in Writers : writing'[v] # None => v = w /\ writing'[v] = rows
    BY <1>9, <1>10
  <1>12. HistoryInOrder'
    <2>1. \A r \in history : r.id \in Nat /\ r.id < sequence + 1
      BY <1>3, <1>4 DEF HistoryInOrder, HistoryRow
    <2>2. writing' = [v \in Writers |-> writing'[v]]
      BY <1>10
    <2>3. \A v \in Writers : writing'[v] # None =>
            /\ lock' = v
            /\ IsFiniteSet(writing'[v]) /\ writing'[v] \subseteq HistoryRow /\ OneEach(writing'[v])
            /\ \A r \in writing'[v] : r.id = sequence'
      BY <1>1, <1>7, <1>8, <1>11
    <2>4. \A r \in history' : r.id <= sequence' /\ r.id < sequence'
      BY <1>1, <1>4, <2>1
    <2>5. sequence' \in Nat /\ IsFiniteSet(history') /\ history' \subseteq HistoryRow /\ OneEach(history')
      BY <1>1, <1>3, <1>4 DEF HistoryInOrder
    <2> QED BY <2>2, <2>3, <2>4, <2>5 DEF HistoryInOrder, OneEach
  <1>13. WalkInOrder' /\ WalkOfHistory' /\ IncidentsTyped'
    BY <1>1, WalkKept DEF ListingInv, IncidentsTyped
  <1> QED BY <1>12, <1>13 DEF ListingInv

LEMMA EndStep ==
    ASSUME ListingInv, NEW w \in Writers, Commit(w) \/ Rollback(w)
    PROVE  ListingInv'
  <1>1. HistoryInOrder
    BY DEF ListingInv
  <1>2. /\ writing[w] # None /\ writing' = [writing EXCEPT ![w] = None]
        /\ lock' = IF lock = w THEN None ELSE lock
        /\ UNCHANGED <<incidents, sequence>>
    BY DEF Commit, Rollback
  <1>3. lock = w /\ lock # None /\ lock' = None
    BY <1>1, <1>2, ListingAssumption DEF HistoryInOrder
  <1>4. PICK rows : rows = writing[w]
    OBVIOUS
  <1>5. /\ IsFiniteSet(rows) /\ rows \subseteq HistoryRow /\ OneEach(rows) /\ \A r \in rows : r.id = sequence
    BY <1>1, <1>2, <1>4 DEF HistoryInOrder
  <1>6. \A v \in Writers : writing'[v] = None
    <2>1. \A v \in Writers : v # w => writing[v] = None
      BY <1>1, <1>3 DEF HistoryInOrder
    <2> QED BY <1>1, <1>2, <2>1 DEF HistoryInOrder
  <1>7. \A r \in history : r \in HistoryRow /\ r.id \in Nat /\ r.id < sequence
    BY <1>1, <1>3 DEF HistoryInOrder, HistoryRow
  <1>8. history' = history \/ history' = history \cup rows
    BY <1>4 DEF Commit, Rollback
  <1>9. HistoryInOrder'
    <2>1. sequence \in Nat /\ IsFiniteSet(history) /\ OneEach(history)
      BY <1>1 DEF HistoryInOrder
    <2>2. IsFiniteSet(history')
      BY <1>5, <1>8, <2>1, FS_Union
    <2>3. OneEach(history \cup rows)
      BY <1>5, <1>7, <2>1 DEF OneEach
    <2>4. OneEach(history')
      BY <1>8, <2>1, <2>3
    <2>5. history' \subseteq HistoryRow /\ \A r \in history' : r.id <= sequence'
      BY <1>2, <1>5, <1>7, <1>8, <2>1
    <2>6. writing' = [v \in Writers |-> writing'[v]]
      BY <1>1, <1>2 DEF HistoryInOrder
    <2> QED BY <1>2, <1>3, <1>6, <2>1, <2>2, <2>4, <2>5, <2>6 DEF HistoryInOrder, OneEach
  <1>10. WalkInOrder' /\ WalkOfHistory'
    <2>1. CASE Rollback(w)
      BY <2>1, WalkKept DEF Rollback, ListingInv
    <2>2. CASE Commit(w)
      <3>1. Still /\ history \subseteq history'
        BY <2>2 DEF Commit
      <3>2. ASSUME walk # None, walk.query.table \in {"timeline", "audit"},
                   NEW row \in history' \ history, NEW n \in DOMAIN walk.listed
            PROVE  ~(row.id < walk.listed[n].id)
        <4>1. row.id = sequence /\ sequence \in Nat
          BY <1>1, <1>5, <1>8 DEF HistoryInOrder
        <4>2. walk.listed[n] \in history
          BY <3>2 DEF ListingInv, WalkOfHistory
        <4> QED BY <1>7, <4>1, <4>2
      <3>3. walk # None /\ walk.query.table \in {"timeline", "audit"} =>
               \A row \in history' \ history : \A n \in DOMAIN walk.listed : ~(row.id < walk.listed[n].id)
        BY <3>2
      <3> QED BY <3>1, <3>3, StillStep DEF ListingInv
    <2> QED BY <2>1, <2>2
  <1>11. IncidentsTyped'
    BY <1>2 DEF ListingInv, IncidentsTyped
  <1> QED BY <1>9, <1>10, <1>11 DEF ListingInv

LEMMA ListingInit_Inv == ListingInit => ListingInv
  <1> SUFFICES ASSUME ListingInit PROVE ListingInv
    OBVIOUS
  <1>1. IncidentsTyped
    BY DEF ListingInit, IncidentsTyped
  <1>2. HistoryInOrder
    BY FS_EmptySet DEF ListingInit, HistoryInOrder, OneEach
  <1>3. WalkInOrder /\ WalkOfHistory
    BY DEF ListingInit, WalkInOrder, WalkOfHistory
  <1> QED BY <1>1, <1>2, <1>3 DEF ListingInv

LEMMA ListingNext_Inv == ListingInv /\ [ListingNext]_lvars => ListingInv'
  <1> SUFFICES ASSUME ListingInv, [ListingNext]_lvars PROVE ListingInv'
    OBVIOUS
  <1>1. CASE ListNext
    BY <1>1, BeginStep, ListIncidentsStep, OthersStep DEF ListNext
  <1>2. CASE HistoryNext
    BY <1>2, BeginStep, ReadHistoryStep, FlushStep, EndStep DEF HistoryNext
  <1>3. CASE UNCHANGED lvars
    <2>1. UNCHANGED <<incidents, history, sequence, lock, writing, walk>>
      BY <1>3 DEF lvars
    <2>2. WalkInOrder' /\ WalkOfHistory'
      BY <2>1, WalkKept DEF ListingInv
    <2>3. IncidentsTyped' /\ HistoryInOrder'
      BY <2>1 DEF ListingInv, IncidentsTyped, HistoryInOrder
    <2> QED BY <2>2, <2>3 DEF ListingInv
  <1> QED BY <1>1, <1>2, <1>3 DEF ListingNext

LEMMA ListingInv_Complete == ListingInv => WalkIsComplete
  <1> SUFFICES ASSUME ListingInv, walk # None
               PROVE  /\ walk.done => \A r \in walk.whole :
                            Cardinality({n \in DOMAIN walk.listed : walk.listed[n] = r.row}) = 1
                      /\ walk.query.table \in {"timeline", "audit"} =>
                            NoGap(walk.query.table, walk.listed)
    BY DEF WalkIsComplete, NoGap
  <1>1. ASSUME walk.done, NEW r \in walk.whole
        PROVE  Cardinality({n \in DOMAIN walk.listed : walk.listed[n] = r.row}) = 1
    <2>1. Once(walk.listed, r.row)
      BY <1>1 DEF ListingInv, WalkInOrder, ListedUpTo
    <2>2. PICK n \in DOMAIN walk.listed :
            walk.listed[n] = r.row /\ \A m \in DOMAIN walk.listed : walk.listed[m] = r.row => m = n
      BY <2>1 DEF Once
    <2>3. {m \in DOMAIN walk.listed : walk.listed[m] = r.row} = {n}
      BY <2>2
    <2> QED BY <2>3, FS_Singleton
  <1>2. walk.query.table \in {"timeline", "audit"} => NoGap(walk.query.table, walk.listed)
    BY DEF ListingInv, WalkOfHistory
  <1> QED BY <1>1, <1>2

(* A reader that walks a list page by page is shown every row that stayed  *)
(* where it was, exactly once, and a timeline or audit walk has no gap,    *)
(* whatever others write between the pages.                                *)
THEOREM ListingIsComplete == ListingSpec => []WalkIsComplete
  BY ListingInit_Inv, ListingNext_Inv, ListingInv_Complete, PTL DEF ListingSpec
==============================================================================
