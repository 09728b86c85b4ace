----------------------------- MODULE MCDelivery -----------------------------
(* A small instance of Delivery: two tenants with one watched scope each.  *)
EXTENDS Delivery, TLC

CONSTANTS s1, s2, acme, globex

MCTenantOf == (s1 :> acme) @@ (s2 :> globex)
MCModeOf == (s1 :> "alertOnly") @@ (s2 :> "dryRun")

(* The export tick needs time for a backoff; the drains need events.       *)
MCConfigurations == {{"clickhouse"}, {"inbox"}}
MCMaxTime == ({"clickhouse"} :> 3) @@ ({"inbox"} :> 1)
MCMaxEvents == ({"clickhouse"} :> 2) @@ ({"inbox"} :> 3)
==============================================================================
