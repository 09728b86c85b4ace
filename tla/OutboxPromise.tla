--------------------------- MODULE OutboxPromise ----------------------------
(***************************************************************************)
(* What the outbox promises whoever writes to it (ADR 0033, ADR 0045): a   *)
(* message waits until it is published or dead-lettered, once; it is       *)
(* published only when something became of it on every channel of its      *)
(* audience; it fails a bounded number of times; and it does not wait for  *)
(* ever.                                                                   *)
(***************************************************************************)
EXTENDS Naturals

CONSTANTS Messages, Channels, AudienceOf, MaxAttempts

VARIABLES
    status,     \* "absent", "waiting", "published", "buried" or "purged"
    attempts,   \* failed publishes
    accounted   \* the messages something became of on a channel

pvars == <<status, attempts, accounted>>

PInit ==
    /\ status = [m \in Messages |-> "absent"]
    /\ attempts = [m \in Messages |-> 0]
    /\ accounted = {}

Write(m) ==
    /\ status[m] = "absent"
    /\ status' = [status EXCEPT ![m] = "waiting"]
    /\ UNCHANGED <<attempts, accounted>>

\* Told, refused, rate-limited or a duplicate.  A consumer that lost its
\* lease may still be sending what is settled.
Reach(m, ch) ==
    /\ status[m] # "absent"
    /\ accounted' = accounted \cup {<<m, ch>>}
    /\ UNCHANGED <<status, attempts>>

Publish(m) ==
    /\ status[m] = "waiting"
    /\ {m} \X AudienceOf[m] \subseteq accounted
    /\ status' = [status EXCEPT ![m] = "published"]
    /\ UNCHANGED <<attempts, accounted>>

Fail(m) ==
    /\ status[m] = "waiting"
    /\ attempts' = [attempts EXCEPT ![m] = @ + 1]
    /\ status' = [status EXCEPT ![m] = IF attempts'[m] < MaxAttempts THEN @ ELSE "buried"]
    /\ UNCHANGED accounted

Purge(m) ==
    /\ status[m] = "published"
    /\ status' = [status EXCEPT ![m] = "purged"]
    /\ UNCHANGED <<attempts, accounted>>

Settle(m) == Publish(m) \/ Fail(m)

PNext ==
    \E m \in Messages :
        \/ Write(m) \/ Settle(m) \/ Purge(m)
        \/ \E ch \in Channels : Reach(m, ch)

PSafety == PInit /\ [][PNext]_pvars

PSpec == PSafety /\ \A m \in Messages : WF_pvars(Settle(m))
=============================================================================
