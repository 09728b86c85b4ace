---------------------------- MODULE Destination -----------------------------
(***************************************************************************)
(* Vetting where a notification goes (crates/notification/src/             *)
(* destination.rs): what DNS answers for an allowed host must be public,   *)
(* unless the channel says otherwise.  An address is "public" or           *)
(* "private": which ranges are which (is_public) is not modelled.          *)
(***************************************************************************)
EXTENDS Sequences

host_allowed(host, allowed_hosts) ==
    \E pattern \in allowed_hosts :
        IF pattern.wildcard THEN host \in pattern.subdomains ELSE host = pattern.name

\* The scheme a channel is vetted under: an email relay's says only whether
\* TLS protects it.
Scheme(spec) == IF spec.kind # "email" THEN spec.scheme
                ELSE IF spec.smtp_tls = "none" THEN "http" ELSE "https"

\* Every answer must be public; one private address refuses the destination.
vet(spec, allowed_hosts, answers) ==
    /\ Scheme(spec) = "http" => spec.allow_private
    /\ host_allowed(spec.host, allowed_hosts) /\ answers # <<>>
    /\ ~spec.allow_private => \A i \in DOMAIN answers : answers[i] = "public"
=============================================================================
