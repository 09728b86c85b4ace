----------------------------- MODULE RateLimit ------------------------------
(***************************************************************************)
(* The API's GCRA rate limiter (apps/api/src/rate_limit.rs).  A limiter is *)
(* a function from the keys it holds to their theoretical arrival times.   *)
(***************************************************************************)
EXTENDS Integers, FiniteSets, Functions

CONSTANT None    \* what an optional value is without one

Larger(a, b) == IF a >= b THEN a ELSE b

(* A quota allows limit requests per window, in bursts of up to limit.     *)
emission_interval(quota) == quota.window \div Larger(quota.limit, 1)

tolerance(quota) == emission_interval(quota) * (Larger(quota.limit, 1) - 1)

(* RateLimiter::new holds no key.                                          *)
NoKeys == [k \in {} |-> 0]

(* What a limiter may answer: Refusal, or that the request was counted.    *)
Counted == "counted"
RetryAfter == "retry after"
Saturated == "saturated"

(* check's arrival time when a refused request is pushed back too.         *)
Put(tats, key, tat) == [k \in DOMAIN tats \cup {key} |-> IF k = key THEN tat ELSE tats[k]]

check_pushes_back(tats, quota, max_keys, key, now) ==
    LET tat == IF key \in DOMAIN tats THEN Larger(tats[key], now) ELSE now
    IN  [result |-> IF now < tat - tolerance(quota) THEN RetryAfter ELSE Counted,
         tats |-> Put(tats, key, tat + emission_interval(quota))]

(* RateLimiter::check: a full table is swept of the keys whose time has    *)
(* passed before a new key is taken in; a refused request changes nothing. *)
check(tats, quota, max_keys, key, now) ==
    LET full(t) == key \notin DOMAIN t /\ Cardinality(DOMAIN t) >= max_keys
        swept == IF full(tats) THEN Restrict(tats, {k \in DOMAIN tats : tats[k] > now}) ELSE tats
        tat == IF key \in DOMAIN swept THEN Larger(swept[key], now) ELSE now
    IN  IF full(swept) THEN [result |-> Saturated, tats |-> swept]
        ELSE IF now < tat - tolerance(quota) THEN [result |-> RetryAfter, tats |-> swept]
        ELSE [result |-> Counted, tats |-> Put(swept, key, tat + emission_interval(quota))]

(* RateLimiter::peek: would a request be let in, without counting it.      *)
peek(tats, quota, key, now) ==
    key \in DOMAIN tats => now >= tats[key] - tolerance(quota)
=============================================================================
