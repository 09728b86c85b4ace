---------------------------- MODULE MCMitigator -----------------------------
(***************************************************************************)
(* Small instances of Mitigator: one tenant, an operator who may do        *)
(* everything, and a guard file that may be live or in dry-run at the next *)
(* start of a mitigator process.                                           *)
(***************************************************************************)
EXTENDS Mitigator, TLC

CONSTANTS ann, bob, mitigator, inc1, inc2

Bits == [ipv4 |-> 2, ipv6 |-> 1]
Widest == [ipv4 |-> 1, ipv6 |-> 0]

V4(address, length) == [family |-> "ipv4", address |-> address, length |-> length]

Rtbh(address) ==
    [prefix |-> V4(address, 2), kind |-> "rtbh", flow |-> None, rate |-> None, duration |-> 1]

\* The same traffic, discarded or limited.
Udp == [protocol |-> 17, source |-> None, source_port |-> None, destination_port |-> None]
Discard ==
    [prefix |-> V4(0, 2), kind |-> "flowspec_discard", flow |-> Udp, rate |-> None, duration |-> 1]
Limit ==
    [prefix |-> V4(0, 2), kind |-> "flowspec_rate_limit", flow |-> Udp, rate |-> 1, duration |-> 1]

OneAsk == {Rtbh(0)}
AskOutside == {Rtbh(0), Rtbh(2)}
SameMatch == {Discard, Limit}
TwoAllowed == {Rtbh(0), Discard, Rtbh(2)}

Everything == {"rtbh", "parent_prefix", "flowspec_discard", "flowspec_rate_limit"}

LiveConfig ==
    [dry_run |-> FALSE, bgp_enabled |-> TRUE, kill_switch |-> FALSE, max_duration |-> 2,
     approval_window |-> 1, allow_self_approval |-> TRUE, min_length |-> [ipv4 |-> 1, ipv6 |-> 1],
     allowlist |-> << [prefix |-> V4(0, 1), tenant |-> "acme", actions |-> Everything] >>]
DryConfig == [LiveConfig EXCEPT !.dry_run = TRUE]

LiveOnly == {LiveConfig}
LiveOrDry == {LiveConfig, DryConfig}

\* A file that asks for two people.
FourEyed == [LiveConfig EXCEPT !.allow_self_approval = FALSE]
FourEyedOnly == {FourEyed}
TwoPeople == {ann, bob}
TwoRoles == ann :> "noc_lead" @@ bob :> "platform_admin"
BothAcme == ann :> "acme" @@ bob :> "acme"

OnePerson == {bob}
Roles == bob :> "platform_admin"
Acme == bob :> "acme"

\* The target of the second incident is in nobody's allowlist.
Suggests ==
    inc1 :> [tenant |-> "acme", ask |-> Rtbh(0)] @@ inc2 :> [tenant |-> "acme", ask |-> Rtbh(2)]

\* Two sessions race for a key before any process runs.  The key expires
\* before one does, and from then on a single session is in use.
RacesComeFirst ==
    \/ (\A w \in Workers : proc'[w] = Down) /\ (\A m \in Ids : rec'[m].version <= 1)
    \/ /\ \A s \in Sessions : reply'[s] = None /\ pending'[s].op \in {"idle", "approve"}
       /\ \A x \in DOMAIN idem : idem'[x] = None
       /\ Cardinality({s \in Sessions : pending'[s] # Idle}) <= 1

\* Sessions are interchangeable, and so are processes.
Alike == Permutations(Sessions) \cup Permutations(Workers)
=============================================================================
