------------------------------ MODULE MC_External ------------------------------
(***************************************************************************)
(* What is learned about a host from outside: the scan of its ports, the    *)
(* probe of one endpoint, the chain of redirects it starts, its TLS, the    *)
(* inventory of endpoints, and the analysis of the whole host. Each is run  *)
(* on its own, `part` says which; the others rest or stay where they begin.  *)
(***************************************************************************)
EXTENDS PortScan, ExternalProbe, RedirectChain, ExternalAnalysis, TlsObservation, TlsInventory

VARIABLE part

externalVars == <<part, vars, probeVars, chainVars, analysisVars, observationVars, inventoryVars>>

-----------------------------------------------------------------------------
(* Two workers and up to four ports, one of them twice and one invalid: more *)
(* ports than workers, as many, fewer, and none.                             *)

MCPortLists == {<<>>, <<80>>, <<443, 80>>, <<80, 443, 80, 99999>>}

(* All four kinds of target, and a status of each class _probe_target() tells *)
(* apart: body worth fetching, method refused, anything else.                 *)

MCTargets == [scheme : {"http", "https"}, root : BOOLEAN]

(* The code's limit of five hops and six URLs on two hosts: enough for a loop *)
(* that does not return to the source, a chain that leaves the host and comes *)
(* back, and one that is cut off.                                             *)

MCUrl == {"http://a/", "https://a/", "https://a/x", "http://b/", "https://b/", "https://b/x"}
MCHttpsUrl == MCUrl \ {"http://a/", "http://b/"}
MCHostOf == [u \in MCUrl |-> IF u \in {"http://b/", "https://b/", "https://b/x"} THEN "b" ELSE "a"]

-----------------------------------------------------------------------------
(* A host probed on 443 and 80. The https endpoint may be any server, with or   *)
(* without its version and the headers of ASP.NET; the http one may say the     *)
(* same or something else. Error pages and malformed requests may betray        *)
(* nothing, nginx or Apache, so that every tier of votes may be empty,          *)
(* unanimous or contradictory. The policy requires nothing, or every rule and   *)
(* one local rule besides.                                                      *)

HostEndpoints == <<[url |-> "https443", scheme |-> "https"], [url |-> "http80", scheme |-> "http"]>>
AnswerOf(name, version, aspnet, powered, cookie) ==
    [http |-> TRUE, server |-> name, version |-> version, aspnet |-> aspnet, powered |-> powered,
     cookie |-> cookie]
HostAnswers == [url \in {"https443", "http80"} |->
    IF url = "https443"
    THEN {AnswerOf("nginx", v, "none", p, FALSE) : v \in BOOLEAN, p \in {"none", "PHP/8.2"}}
         \cup {AnswerOf("iis", v, a, "none", FALSE) : v \in BOOLEAN, a \in {"none", "hidden", "4.0.30319"}}
         \cup {AnswerOf(s, TRUE, "none", "none", FALSE) : s \in {"apache", "lighttpd"}}
         \cup {AnswerOf("none", FALSE, a, "none", c) : a \in {"none", "4.0.30319"}, c \in BOOLEAN}
         \cup {AnswerOf("none", FALSE, "none", p, FALSE) : p \in {"ASP.NET", "ASP.NET/4.8", "Express"}}
    ELSE {AnswerOf("none", FALSE, "none", "none", FALSE), AnswerOf("nginx", TRUE, "none", "none", FALSE),
          AnswerOf("apache", TRUE, "none", "none", FALSE)}]
Replies == {[server |-> "none", body |-> "none"], [server |-> "apache", body |-> "none"],
            [server |-> "none", body |-> "apache"]}

\* Every rule of ExternalAnalysis and one that only a local analysis runs.
StageOfRule ==
    [r \in {"https_not_available", "http_not_redirected_to_https", "hsts_header_missing",
            "x_frame_options_missing", "server_version_disclosed", "x_powered_by_header_present",
            "x_aspnet_version_header_present",
            "nginx.redirect_target_unexpected", "iis.server_header_removal_not_applied",
            "cors_wildcard_origin", "unknown_host_runtime_response", "certificate_expired",
            "server_status_exposed", "nginx.version_disclosed_in_server_header",
            "apache.version_disclosed_in_server_header", "apache.mod_status_public",
            "iis.aspnet_version_header_present", "lighttpd.version_in_server_header",
            "lighttpd.mod_status_public", "tls_ct_log_evidence_missing", "nginx.local"}
        |-> IF r = "nginx.local" THEN "ast" ELSE "probe"]
Rules == DOMAIN StageOfRule
RulesInOrder ==
    <<"apache.mod_status_public", "apache.version_disclosed_in_server_header", "certificate_expired",
      "cors_wildcard_origin", "hsts_header_missing", "http_not_redirected_to_https",
      "https_not_available", "iis.aspnet_version_header_present", "iis.server_header_removal_not_applied",
      "lighttpd.mod_status_public", "lighttpd.version_in_server_header", "nginx.redirect_target_unexpected",
      "nginx.version_disclosed_in_server_header", "server_status_exposed", "server_version_disclosed",
      "tls_ct_log_evidence_missing", "unknown_host_runtime_response", "x_aspnet_version_header_present",
      "x_frame_options_missing", "x_powered_by_header_present", "nginx.local">>

RequirementSets == {{}, Rules}

-----------------------------------------------------------------------------
(* TLS endpoints that differ in what they speak, staple, order and serve, or in    *)
(* when their leaf expires, looked at while handshakes are lost and time passes.   *)

Cert(subject, issuer, weak) == [subject |-> subject, issuer |-> issuer, weak |-> weak]
Name(label) == <<label, "example">>
Address == <<"10.0.0.1">>
Fine ==
    [versions |-> {"TLSv1.2", "TLSv1.3"}, protocol |-> "TLSv1.3", cipher |-> "TLS-GCM", ordered |-> TRUE,
     staples |-> TRUE, renegotiation |-> TRUE, compresses |-> FALSE, notAfter |-> 2,
     chain |-> <<Cert("leaf", "ca", FALSE), Cert("ca", "root", FALSE)>>, trusted |-> TRUE,
     scts |-> TRUE, mustStaple |-> FALSE, san |-> {Name("api")}, addresses |-> {}]

Chains == {<<Cert("leaf", "ca", FALSE), Cert("ca", "root", TRUE)>>, <<Cert("leaf", "leaf", TRUE)>>,
           <<Cert("leaf", "ca", TRUE)>>, <<Cert("leaf", "ca", FALSE), Cert("root", "root", TRUE)>>,
           <<Cert("leaf", "a", FALSE), Cert("a", "b", FALSE), Cert("b", "root", FALSE)>>}
Sans == {{}, {Name("api")}, {Name("*")}, {<<"*", "api", "example">>}, {<<"*", "other">>}}
VersionSets == (SUBSET {"TLSv1", "TLSv1.1", "TLSv1.2", "TLSv1.3"}) \ {{}}
TlsServers ==
    {[Fine EXCEPT !.versions = v, !.ordered = o, !.staples = s, !.cipher = c, !.protocol = "TLSv1.2"] :
        v \in VersionSets, o \in BOOLEAN, s \in BOOLEAN, c \in {"ECDHE-GCM", "RSA-CBC", "RC4"}}
    \cup {[Fine EXCEPT !.chain = c, !.trusted = t, !.scts = s, !.san = n, !.mustStaple = m, !.staples = m] :
            c \in Chains, t \in BOOLEAN, s \in BOOLEAN, n \in Sans, m \in BOOLEAN}
    \cup {[Fine EXCEPT !.protocol = "TLSv1.2", !.renegotiation = r, !.compresses = ~r] : r \in BOOLEAN}
    \cup {[Fine EXCEPT !.san = {Name("*")}, !.addresses = {Address}]}
Expiring == {[Fine EXCEPT !.notAfter = n] : n \in 0 .. 4}
MCSites == TlsServers \cup Expiring
MCNames == {{Name("api")}, {Name("web"), Address}, {Address}}

(* An inventory of two hosts behind one name, of which the second is reached by its *)
(* address, without SNI, and should hold for a name of its own.                      *)

Entry(id, connect, sni, http, expected, na) ==
    [id |-> id, connect |-> connect, sni |-> sni, http |-> http, expected |-> expected, notApplicable |-> na]
InventoryEntries ==
    <<Entry("first", Name("a"), Name("api"), Name("api"), {}, {}),
      Entry("second", Address, <<>>, Name("api"), {Name("www")}, {"certificate_name", "ocsp_stapling"})>>
Listed == [Fine EXCEPT !.notAfter = 9, !.san = {Name("api"), Name("www")}, !.addresses = {Address}]
InventoryServers ==
    {Listed, [Listed EXCEPT !.san = {Name("api")}], [Listed EXCEPT !.san = {Name("www")}],
     [Listed EXCEPT !.san = {}], [Listed EXCEPT !.versions = {"TLSv1", "TLSv1.2", "TLSv1.3"}],
     [Listed EXCEPT !.versions = {"TLSv1.2"}, !.protocol = "TLSv1.2", !.cipher = "RSA-CBC"],
     [Listed EXCEPT !.trusted = FALSE], [Listed EXCEPT !.ordered = FALSE], [Listed EXCEPT !.staples = FALSE],
     [Listed EXCEPT !.chain = <<Cert("leaf", "root", FALSE)>>],
     [Listed EXCEPT !.notAfter = 0], [Listed EXCEPT !.notAfter = 2]}
Addresses == {Address}
ASSUME InventoryAssumption /\ ObservationAssumption /\ AnalysisAssumption

-----------------------------------------------------------------------------
(* One of them runs. *)

Resting == "resting"
ProbeRests == target = [scheme |-> "http", root |-> TRUE] /\ ProbeInit
ChainRests ==
    /\ current = [url |-> "http://a/", location |-> "https://a/", answered |-> TRUE]
    /\ ChainInit
HostRests == required = {} /\ AnalysisInit
TlsRests ==
    /\ site = Fine /\ called = {Name("api")} /\ day = 0
    /\ ObservationInit
InventoryRests == servers = [i \in DOMAIN Entries |-> Listed] /\ InventoryInit

\* A scan that is not asked for has no ports; a probe, a chain or an analysis that is
\* not stays where it begins.
ExternalInit ==
    /\ Init
    /\ \/ part = "ports" /\ ProbeRests /\ ChainRests /\ HostRests /\ TlsRests /\ InventoryRests
       \/ part = "probe" /\ ProbeInit /\ ChainRests /\ HostRests /\ TlsRests /\ InventoryRests
       \/ part = "chain" /\ ChainInit /\ ProbeRests /\ HostRests /\ TlsRests /\ InventoryRests
       \/ part = "host" /\ ProbeRests /\ ChainRests /\ AnalysisInit /\ TlsRests /\ InventoryRests
       \/ part = "tls" /\ ProbeRests /\ ChainRests /\ ObservationInit /\ HostRests /\ InventoryRests
       \/ part = "inventory" /\ ProbeRests /\ ChainRests /\ InventoryInit /\ HostRests /\ TlsRests
    /\ part # "ports" => ports = <<>>

ExternalNext ==
    /\ UNCHANGED part
    /\ \/ /\ part = "ports" /\ Next
          /\ UNCHANGED <<probeVars, chainVars, analysisVars, observationVars, inventoryVars>>
       \/ /\ part = "probe" /\ ProbeNext
          /\ UNCHANGED <<vars, chainVars, analysisVars, observationVars, inventoryVars>>
       \/ /\ part = "chain" /\ ChainNext
          /\ UNCHANGED <<vars, probeVars, analysisVars, observationVars, inventoryVars>>
       \/ /\ part = "host" /\ AnalysisNext
          /\ UNCHANGED <<vars, probeVars, chainVars, observationVars, inventoryVars>>
       \/ /\ part = "tls" /\ ObservationNext
          /\ UNCHANGED <<vars, probeVars, chainVars, analysisVars, inventoryVars>>
       \/ /\ part = "inventory" /\ InventoryNext
          /\ UNCHANGED <<vars, probeVars, chainVars, analysisVars, observationVars>>

\* The fairness of the parts that have a liveness property.
ExternalFairness ==
    /\ WF_vars(part = "ports" /\ Main)
    /\ \A w \in Worker : WF_vars(part = "ports" /\ Work(w))
    /\ WF_probeVars(part = "probe" /\ ProbeNext)
    /\ WF_chainVars(part = "chain" /\ ChainNext)

ExternalSpec == ExternalInit /\ [][ExternalNext]_externalVars /\ ExternalFairness

-----------------------------------------------------------------------------
(* Properties: those of the modules it extends.                                *)

\* Scans and chains end, and a probe does unless its handshake hangs (PortScan,
\* ExternalProbe, RedirectChain).
ScansAndChainsEnd ==
    /\ part = "ports" => ScanEnds
    /\ part = "probe" => OnlyHandshakeHangs
    /\ part = "chain" => ChainEnds
================================================================================
