------------------------------ MODULE NginxLimitRules ------------------------------
(***************************************************************************)
(* The rules for limits of nginx (local/nginx/rules/): timeouts and sizes,  *)
(* limit_req and limit_conn with the zones they refer to, and listings of   *)
(* directories that need both. A timeout or a size is "ok", "high", "zero"  *)
(* or "bad", which is not parsed; a zone is [zone, rate, key].              *)
(***************************************************************************)
EXTENDS NginxConfig

\* iter_direct_child_directives and iter_last_direct_child_directives
DirectIn(d, contexts) == {i \in Anywhere(d) : Context(dirs[i].in) \in contexts}
LastIn(d, contexts) == {i \in DirectIn(d, contexts) : i = Max(Here(dirs[i].in, d))}
OnAll(directives, values) == {On(i) : i \in {j \in directives : dirs[j].value \in values}}

\* Zero switches the limit off.
client_body_timeout_too_high ==
    OnAll(DirectIn("client_body_timeout", {"http", "server"}), {"high", "zero"})
client_header_timeout_too_high ==
    OnAll(DirectIn("client_header_timeout", {"http", "server"}), {"high", "zero"})
keepalive_timeout_too_high ==
    OnAll(DirectIn("keepalive_timeout", {"http", "server", "location"}), {"high", "zero"})
send_timeout_too_high ==
    OnAll(DirectIn("send_timeout", {"http", "server", "location"}), {"high", "zero"})
client_header_buffer_size_too_large ==
    OnAll(LastIn("client_header_buffer_size", {"http", "server"}), {"high"})
client_max_body_size_too_large ==
    OnAll(LastIn("client_max_body_size", {"http", "server", "location"}), {"high"})
client_max_body_size_unlimited ==
    OnAll(LastIn("client_max_body_size", {"http", "server", "location"}), {"zero"})
large_client_header_buffers_too_large ==
    OnAll(LastIn("large_client_header_buffers", {"http", "server"}), {"high"})
large_client_header_buffers_too_restrictive ==
    OnAll(DirectIn("large_client_header_buffers", {"http", "server"}), {"low", "zero"})

\* Reported once, at the first server, if no block at all says anything.
MissingEverywhere(d) ==
    IF Servers = {} \/ Anywhere(d) # {} THEN {} ELSE {At(Min(Servers))}
missing_client_body_timeout == MissingEverywhere("client_body_timeout")
missing_client_header_timeout == MissingEverywhere("client_header_timeout")
missing_keepalive_timeout == MissingEverywhere("keepalive_timeout")
missing_send_timeout == MissingEverywhere("send_timeout")
missing_client_max_body_size ==
    {At(s) : s \in {t \in Servers : ~OnlyRedirects(t) /\ Effective(t, "client_max_body_size") = {}}}

-----------------------------------------------------------------------------
(* Zones: _limit_utils. *)

Zones(d) == {dirs[i].value.zone : i \in Anywhere(d)}
limit_conn_invalid_limit ==
    {On(i) : i \in {j \in Anywhere("limit_conn") : dirs[j].value.limit = "zero"}}
limit_conn_zone_not_per_ip ==
    {On(i) : i \in {j \in Anywhere("limit_conn_zone") : dirs[j].value.key # "ip"}}
limit_req_zone_not_per_ip ==
    {On(i) : i \in {j \in Anywhere("limit_req_zone") : dirs[j].value.key # "ip"}}
limit_req_zone_invalid_rate ==
    {On(i) : i \in {j \in Anywhere("limit_req_zone") : dirs[j].value.rate = "bad"}}
MutantUnknownZone ==
    {On(i) : i \in {j \in Anywhere("limit_req") :
        /\ Anywhere("limit_req_zone") # {}
        /\ {dirs[k].value.zone : k \in Anywhere("limit_req")} \cap Zones("limit_req_zone") = {}}}
limit_req_unknown_zone ==
    {On(i) : i \in {j \in Anywhere("limit_req") :
        Anywhere("limit_req_zone") # {} /\ dirs[j].value.zone \notin Zones("limit_req_zone")}}
missing_limit_req_zone ==
    IF Anywhere("limit_req") = {} \/ Anywhere("limit_req_zone") # {} THEN {}
    ELSE {On(Min(Anywhere("limit_req")))}
missing_limit_conn_zone ==
    LET undefined == {i \in Anywhere("limit_conn") : dirs[i].value.zone \notin Zones("limit_conn_zone")}
    IN IF undefined = {} THEN {} ELSE {On(Min(undefined))}

\* For a person to look at: every zone with a rate, and every zone of connections.
limit_req_zone_rate_review == {On(i) : i \in Anywhere("limit_req_zone")}
limit_conn_zone_review == {On(i) : i \in Anywhere("limit_conn_zone")}

\* A server has a limit of its own, inherits it, or has it in some location.
LimitMissing(s, d) ==
    /\ ~OnlyRedirects(s) /\ Effective(s, d) = {}
    /\ \A c \in Inside(s) : blocks[c].name = "location" => Here(c, d) = {}
missing_limit_req == {At(s) : s \in {t \in Servers : LimitMissing(t, "limit_req")}}
missing_limit_conn == {At(s) : s \in {t \in Servers : LimitMissing(t, "limit_conn")}}

-----------------------------------------------------------------------------
(* public_autoindex_rate_limit_policy_weak *)

autoindex_on == OnAll(Anywhere("autoindex"), {"on"})

\* _public_autoindex_scopes: the server, and locations that say so themselves.
Public(c) == blocks[c].args # "@named" /\ Here(c, "internal") = {}
ListingScopes(s) ==
    (IF IsOn(Effective(s, "autoindex")) THEN {s} ELSE {})
    \cup {c \in Inside(s) : blocks[c].name = "location" /\ Public(c) /\ IsOn(Here(c, "autoindex"))}
ScopeLimits(b, s, d) == IF Here(b, d) # {} THEN Here(b, d) ELSE Effective(s, d)
Configured(s, d) == Inherited(s, d) # {} \/ \E i \in Anywhere(d) : s \in Around(dirs[i].in)

\* Of several zones of a name the last with a rate counts: _limit_req_zone_rates.
RateOf(zone) ==
    LET rated == {i \in Anywhere("limit_req_zone") : dirs[i].value.zone = zone /\ dirs[i].value.rate # "bad"}
    IN IF rated = {} THEN "none" ELSE dirs[Max(rated)].value.rate
WeakValues(found, configured) ==
    \/ configured /\ found = {}
    \/ found # {} /\ found \subseteq {"high"}
Weaknesses(b, s) ==
    {d \in {"limit_req", "limit_conn"} :
        LET limits == ScopeLimits(b, s, d)
            found == IF d = "limit_req" THEN {RateOf(dirs[i].value.zone) : i \in limits} \ {"none"}
                     ELSE {dirs[i].value.limit : i \in limits} \ {"zero"}
        IN WeakValues(found, Configured(s, d))}
ListingDirective(b, s) ==
    IF b = s THEN Max(Effective(s, "autoindex")) ELSE Max(Here(b, "autoindex"))
public_autoindex_rate_limit_policy_weak ==
    UNION {{On(ListingDirective(b, s)) : b \in {c \in ListingScopes(s) : Weaknesses(c, s) # {}}} :
               s \in Servers}

Check ==
    /\ findings = Unchecked
    /\ findings' =
        [client_body_timeout_too_high |-> client_body_timeout_too_high,
         client_header_timeout_too_high |-> client_header_timeout_too_high,
         keepalive_timeout_too_high |-> keepalive_timeout_too_high,
         send_timeout_too_high |-> send_timeout_too_high,
         client_header_buffer_size_too_large |-> client_header_buffer_size_too_large,
         client_max_body_size_too_large |-> client_max_body_size_too_large,
         client_max_body_size_unlimited |-> client_max_body_size_unlimited,
         large_client_header_buffers_too_large |-> large_client_header_buffers_too_large,
         large_client_header_buffers_too_restrictive |-> large_client_header_buffers_too_restrictive,
         missing_client_body_timeout |-> missing_client_body_timeout,
         missing_client_header_timeout |-> missing_client_header_timeout,
         missing_keepalive_timeout |-> missing_keepalive_timeout,
         missing_send_timeout |-> missing_send_timeout,
         missing_client_max_body_size |-> missing_client_max_body_size,
         limit_conn_invalid_limit |-> limit_conn_invalid_limit,
         limit_conn_zone_not_per_ip |-> limit_conn_zone_not_per_ip,
         limit_req_zone_not_per_ip |-> limit_req_zone_not_per_ip,
         limit_req_zone_invalid_rate |-> limit_req_zone_invalid_rate,
         limit_req_unknown_zone |-> limit_req_unknown_zone,
         missing_limit_req_zone |-> missing_limit_req_zone,
         missing_limit_conn_zone |-> missing_limit_conn_zone,
         limit_req_zone_rate_review |-> limit_req_zone_rate_review,
         limit_conn_zone_review |-> limit_conn_zone_review,
         missing_limit_req |-> missing_limit_req, missing_limit_conn |-> missing_limit_conn,
         autoindex_on |-> autoindex_on,
         public_autoindex_rate_limit_policy_weak |-> public_autoindex_rate_limit_policy_weak]
    /\ UNCHANGED <<blocks, dirs>>

-----------------------------------------------------------------------------
(* Properties. *)

Checked == findings # Unchecked
Silent(r) == findings[r] = {}

\* A configuration with its directives where nginx allows them; a rate is a number or it
\* is not, and a number of connections too.
LimitConfiguration ==
    /\ IsConfiguration
    /\ \A d \in {"client_max_body_size", "keepalive_timeout", "autoindex", "limit_req", "limit_conn"} :
          Only(d, {"http", "server", "location"})
    /\ Only("large_client_header_buffers", {"http", "server"})
    /\ \A i \in Anywhere("limit_req_zone") : dirs[i].value.rate \in {"ok", "high", "bad"}
    /\ \A i \in Anywhere("limit_conn") : dirs[i].value.limit \in {"ok", "high", "zero"}

\* The rules look once at any such configuration.
LimitSpec == LimitConfiguration /\ findings = Unchecked /\ [][Check]_vars

\* No server and no location runs with a body size, a header buffer or a keep-alive that
\* is unbounded or too large, whoever it has it from, unless the directive is reported.
NothingRunsUnbounded ==
    Checked => \A b \in Blocks :
        /\ Runs(b, "client_max_body_size") \in {"high", "zero"} =>
               Reported(b, {"client_max_body_size_too_large", "client_max_body_size_unlimited"})
        /\ Runs(b, "keepalive_timeout") \in {"high", "zero"} =>
               Reported(b, {"keepalive_timeout_too_high"})
        /\ Runs(b, "large_client_header_buffers") \in {"high", "low", "zero"} =>
               Reported(b, {"large_client_header_buffers_too_large",
                            "large_client_header_buffers_too_restrictive"})

\* A limit works or something of it is reported: the zone it refers to exists, counts by
\* client, and lets through a rate that is a number.
LimitsWork ==
    Checked /\ Silent("missing_limit_req_zone") /\ Silent("missing_limit_conn_zone") =>
        /\ \A i \in Anywhere("limit_req") : On(i) \notin findings["limit_req_unknown_zone"] =>
              \E z \in Anywhere("limit_req_zone") :
                 /\ dirs[z].value.zone = dirs[i].value.zone
                 /\ \/ On(z) \in findings["limit_req_zone_not_per_ip"] \cup
                                 findings["limit_req_zone_invalid_rate"]
                    \/ dirs[z].value.rate # "bad" /\ dirs[z].value.key = "ip"
        /\ \A i \in Anywhere("limit_conn") :
              \E z \in Anywhere("limit_conn_zone") : dirs[z].value.zone = dirs[i].value.zone

\* A server, or a location directly in it, that lists directories to the public is
\* limited, in requests and connections, to something that is not very high. (Of other
\* locations, that inherit the listing or the limit, this is not so.)
Limited(b, s) ==
    /\ \E i \in InForce(b, "limit_req") : RateOf(dirs[i].value.zone) = "ok"
    /\ \E i \in InForce(b, "limit_conn") : dirs[i].value.limit = "ok"
Unreported(b, s) ==
    /\ ~Reported(s, {"missing_limit_req", "missing_limit_conn"})
    /\ Max(InForce(b, "autoindex")) \notin
           {i \in DOMAIN dirs : On(i) \in findings["public_autoindex_rate_limit_policy_weak"]}
ListingsAreLimited ==
    Checked => \A s \in Servers : \A b \in ListingScopes(s) :
        /\ b = s \/ blocks[b].parent = s
        /\ Http(s) # {} /\ ~OnlyRedirects(s) /\ Unreported(b, s)
        => Limited(b, s)

=============================================================================
