----------------------------- MODULE GuardCheck -----------------------------
(***************************************************************************)
(* The guard in use: a process loads a guard file, which is refused unless *)
(* Guard::new accepts it, and then decides on requests.  The properties    *)
(* compare the verdicts with what they mean for single addresses.          *)
(***************************************************************************)
EXTENDS Guard

CONSTANTS
    Files,        \* guard files, valid or not
    Questions,    \* well-formed asks
    Askers        \* tenants

ASSUME GuardCheckAssumption ==
    /\ MaxLength \in [Families -> Nat] /\ Floor \in [Families -> Nat]
    /\ \A file \in Files : /\ DOMAIN file.allowlist \subseteq Nat
                           /\ \A i \in DOMAIN file.allowlist : file.allowlist[i].prefix \in Prefixes
    /\ \A ask \in Questions : ask.prefix \in Prefixes

VARIABLES
    guard,        \* the file in force, or None
    verdict       \* the last question and its answer, or None

gcvars == <<guard, verdict>>

Load(file) ==
    /\ guard = None
    /\ ValidConfig(file)
    /\ guard' = file
    /\ verdict' = None

\* A process with an invalid file does not start.
Refuse(file) ==
    /\ guard = None
    /\ ~ValidConfig(file)
    /\ UNCHANGED gcvars

Check(tenant, ask, kill) ==
    /\ guard # None
    /\ verdict = None
    /\ verdict' = [tenant |-> tenant, ask |-> ask,
                   permitted |-> Permits(guard, tenant, ask, kill)]
    /\ UNCHANGED guard

\* The caller has its verdict, and may ask again.
Return ==
    /\ verdict # None
    /\ verdict' = None
    /\ UNCHANGED guard

Restart == guard # None /\ guard' = None /\ verdict' = None

GCInit == guard = None /\ verdict = None

GCNext ==
    \/ guard = None /\ \E file \in Files : Load(file) \/ Refuse(file)
    \/ guard # None /\ \E tenant \in Askers, ask \in Questions, kill \in BOOLEAN : Check(tenant, ask, kill)
    \/ Return
    \/ Restart

GCSpec == GCInit /\ [][GCNext]_gcvars

----------------------------------------------------------------------------
Host(f, address) == [family |-> f, address |-> address, length |-> MaxLength[f]]

Addresses(p) ==
    {x \in 0 .. PowerOfTwo[MaxLength[p.family]] - 1 : Contains(p, Host(p.family, x))}

\* No permitted route touches an address that the allowlist gives to another
\* tenant, every address it touches is the asker's, and it is never wider than
\* the floor no file can lower (Guard::check after Guard::new; ADR 0047).
OnlyOwnTraffic ==
    verdict # None /\ verdict.permitted =>
        LET p == verdict.ask.prefix
            Owners(x) == {guard.allowlist[i].tenant : i \in {j \in DOMAIN guard.allowlist :
                            Contains(guard.allowlist[j].prefix, Host(p.family, x))}}
        IN /\ \A x \in Addresses(p) : Owners(x) = {verdict.tenant}
           /\ p.length >= Floor[p.family]
=============================================================================
