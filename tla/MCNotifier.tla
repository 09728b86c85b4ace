----------------------------- MODULE MCNotifier -----------------------------
(***************************************************************************)
(* A small instance of Notifier: an incident's news to a vetted Slack      *)
(* channel, named by both routes, and a relay inside the network.          *)
(***************************************************************************)
EXTENDS Notifier

MCFile ==
    [channels |-> [slack |-> [kind |-> "slack", given |-> {"url_file"}, smtp_tls |-> "starttls",
                              scheme |-> "https", host |-> "hooks.slack.com", allow_private |-> FALSE],
                   mail |-> [kind |-> "email", given |-> {"smtp_host", "from", "to"}, smtp_tls |-> "none",
                             scheme |-> "http", host |-> "relay.noc", allow_private |-> TRUE]],
     routes |-> <<[tenant |-> "t1", events |-> {"incident.state_changed", "mitigation.failed"},
                   min_severity |-> None, channels |-> <<"slack">>],
                  [tenant |-> "t1", events |-> {"incident.state_changed"},
                   min_severity |-> "major", channels |-> <<"slack", "mail">>]>>,
     allowed_hosts |-> {[name |-> "hooks.slack.com", wildcard |-> FALSE, subdomains |-> {}],
                        [name |-> "noc", wildcard |-> TRUE, subdomains |-> {"relay.noc"}]},
     rate_limit_per_minute |-> 1]

MCContent ==
    [m \in Messages |->
        [aggregate |-> "incident", subject |-> "i1", tenant |-> "t1", event |-> "incident.state_changed",
         severity |-> "major", incident |-> "there", payload |-> "json", cause |-> None]]
=============================================================================
