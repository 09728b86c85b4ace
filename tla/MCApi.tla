------------------------------- MODULE MCApi --------------------------------
(***************************************************************************)
(* A small API for TLC.  Who a caller is, what becomes of a command, and   *)
(* what a reader is shown share no state the properties are about, so each *)
(* is a scene of its own: a behaviour plays one of them, and the state of  *)
(* the others keeps still.                                                 *)
(***************************************************************************)
EXTENDS Identity, Commands, Listing

VARIABLE scene

Scenes == {"callers", "command", "list", "history"}

MCQuota == [limit |-> 2, window |-> 2]

------------------------------------------------------------------------------
(* Two crowds of callers: a browser session in use beside its token, and   *)
(* failing authentications from two sources.                               *)

Ask(endpoint, method, source, token, cookies, csrf, posted) ==
    [endpoint |-> endpoint, method |-> method, source |-> source, bearer |-> token,
     cookies |-> cookies, csrf |-> csrf, body |-> posted]

MCToken == CHOOSE t \in Tokens : TRUE
MCSession == CHOOSE s \in SessionIds : TRUE

Browser ==
    {Ask("sign_in", "POST", 1, None, {}, FALSE, MCToken),
     Ask("current", "GET", 1, None, {MCSession}, FALSE, None),
     Ask("sign_out", "DELETE", 1, None, {MCSession}, TRUE, None),
     Ask("sign_out", "DELETE", 1, None, {MCSession}, FALSE, None),
     Ask("sign_out", "DELETE", 1, MCToken, {}, FALSE, None)}

Failing == {Ask("other", "GET", source, "junk", {}, FALSE, None) : source \in Sources}

MCCallers == {Browser, Failing}

------------------------------------------------------------------------------
(* Command lines: one of every shape the client and the API tell apart,    *)
(* some of them malformed.                                                 *)

Line(verb, flags, yes, ref, tty) ==
    [verb |-> verb, flags |-> flags, yes |-> yes, ref |-> ref, tty |-> tty]

MCSuppress == {Line("suppress", <<"reason", "for">>, TRUE, "id", TRUE)}

MCLines ==
    MCSuppress \cup
    {Line("acknowledge", <<>>, FALSE, "number", TRUE),
     Line("note add", <<"message">>, FALSE, "id", TRUE),
     Line("claim", <<>>, FALSE, "id", TRUE),
     Line("close", <<"reason", "expected_version">>, FALSE, "id", FALSE),
     Line("severity set", <<"expected_version">>, FALSE, "id", TRUE),
     Line("open", <<"title", "severity", "target_scope", "target", "direction">>, FALSE, "id", TRUE),
     Line("request", <<"prefix", "action", "reason", "for">>, FALSE, "id", TRUE),
     Line("approve", <<>>, FALSE, "id", TRUE),
     Line("reject", <<"reason">>, FALSE, "id", TRUE),
     Line("engage", <<"reason">>, TRUE, "id", TRUE),
     Line("export", <<"file">>, FALSE, "id", TRUE),
     Line("tag set", <<>>, FALSE, "bad", TRUE),
     Line("assign", <<"user", "team">>, FALSE, "id", TRUE)}

------------------------------------------------------------------------------
(* Queries: every order, a filter that rows fall out of, a range, queries  *)
(* that are refused, and the three histories.                              *)

MCTenantOf == [i \in IncidentIds |-> IF i = 1 THEN "other" ELSE "mine"]

MCQueries ==
    {[table |-> "incidents", pairs |-> pairs] : pairs \in
        {<<>>,
         <<<<"limit", 1>>, <<"order", "asc">>>>,
         <<<<"sort", "last_detected_at">>, <<"limit", 1>>>>,
         <<<<"state", "open">>, <<"state", "resolved">>, <<"limit", 1>>,
           <<"opened_from", 0>>, <<"opened_to", 2>>>>,
         <<<<"limit", 1>>, <<"limit", 2>>>>,
         <<<<"cursor", None>>>>,
         <<<<"opened_from", 1>>>>}}
    \cup {[table |-> t, limit |-> 1] : t \in {"timeline", "audit", "detections"}}
    \cup {[table |-> "audit", limit |-> 0]}

------------------------------------------------------------------------------
Init ==
    /\ IdentityInit /\ CommandsInit /\ ListingInit /\ scene \in Scenes
    /\ scene # "callers" => callers = Failing

Next ==
    /\ UNCHANGED scene
    /\ \/ scene = "callers" /\ IdentityNext /\ UNCHANGED <<cvars, lvars>>
       \/ scene = "command" /\ CommandsNext /\ UNCHANGED <<ivars, lvars>>
       \/ scene = "list" /\ ListNext /\ UNCHANGED <<ivars, cvars>>
       \/ scene = "history" /\ HistoryNext /\ UNCHANGED <<ivars, cvars>>

vars == <<ivars, cvars, lvars, scene>>

Spec == Init /\ [][Next]_vars

(* The command scene alone, for the run that follows one retried command.  *)
CommandScene == Init /\ scene = "command" /\ [][Next]_vars
=============================================================================
