------------------------------ MODULE LighttpdRules ------------------------------
(***************************************************************************)
(* The rules for lighttpd (local/lighttpd/rules/). Each asks one thing of  *)
(* a view, the directives as they look from one place of the               *)
(* configuration; the rules differ in the views that they are asked of: of *)
(* the host that was named, of the file, of each scope, with or without    *)
(* what scopes take from around them. A text is the set of words in it,    *)
(* as rules tell them apart. Findings are at statements, or at the file, 0. *)
(***************************************************************************)
EXTENDS LighttpdEffective

CONSTANT Topics     \* sets of Assignments, of which one is read

VARIABLES
    topic,      \* the one
    host,       \* the host that was asked for, if any
    findings    \* [rules that ran -> where they report]

Unchecked == [r \in {} |-> {}]

RulesInit == Init /\ topic \in Topics /\ host \in Hosts \cup {Unknown} /\ findings = Unchecked

-----------------------------------------------------------------------------
(* Directives: directive_value_utils, rule_utils, header_tuple_utils. *)

Modules == "server.modules"
Headers == "setenv.add-response-header"
Deny == "url.access-deny"
Conf == "ssl.openssl.ssl-conf-cmd"
DirectiveNames ==
    {Modules, Headers, Deny, Conf, "accesslog.filename", "accesslog.format", "server.errorlog", "server.tag",
     "server.name", "server.port", "server.max-connections", "server.max-request-size",
     "server.max-request-field-size", "server.max-keep-alive-idle", "server.max-read-idle",
     "server.max-write-idle", "server.max-keep-alive-requests", "url.redirect", "auth.require", "auth.backend",
     "auth.backend.htpasswd.userfile", "auth.backend.plain.userfile", "dir-listing.activate",
     "status.status-url", "ssl.engine", "ssl.honor-cipher-order", "ssl.disable-client-renegotiation",
     "ssl.use-sslv2", "ssl.use-sslv3", "webdav.activate", "webdav.is-readonly"}

Text(d) == UNION {statements[i].text : i \in ToSet(d.value)}
Is(d, value) == Len(d.value) = 1 /\ Text(d) = {value}
IsSet(d) == d # Absent
Enabled(d) == Is(d, "enable")
Has(d, things) == Text(d) \cap things # {}

\* Where a directive is: its last statement.
On(d) == IF d = Absent THEN {} ELSE {Last(d.value)}
When(condition, where) == IF condition THEN where ELSE {}
TheFile == {0}

-----------------------------------------------------------------------------
(* Views *)

View(At(_)) == [name \in DirectiveNames |-> At(name)]

\* effective_directive_for_scope: of the scopes whose conditions a scope's begin with,
\* the innermost and latest one that says something.
Takers(s, name) == {t \in DOMAIN scopes : Says(t, name) /\ IsPrefix(scopes[t].conditions, scopes[s].conditions)}
Nearer(t, u) ==
    LET depth(x) == Len(scopes[x].conditions)
    IN \/ depth(t) > depth(u)
       \/ depth(t) = depth(u) /\ t >= u
MutantEffectiveFor(s, name) == IF Says(s, name) THEN scopes[s].directives[name] ELSE Global(name)
EffectiveFor(s, name) ==
    IF Takers(s, name) = {} THEN Global(name)
    ELSE scopes[CHOOSE t \in Takers(s, name) : \A u \in Takers(s, name) : Nearer(t, u)].directives[name]

Own(s, name) == IF Says(s, name) THEN scopes[s].directives[name] ELSE Absent

FileView == View(Global)
ScopeView(s) == LET At(name) == EffectiveFor(s, name) IN View(At)
OwnView(s) == LET At(name) == Own(s, name) IN View(At)
\* What a scope itself says of one name, and what it is given of the others.
SaidView(s, said) ==
    LET At(name) == IF name = said THEN Own(s, name) ELSE EffectiveFor(s, name) IN View(At)
MergedView == LET At(name) == Merged(name, host) IN View(At)

-----------------------------------------------------------------------------
(* The whole configuration: collect_modules and iter_all_nodes. *)

Everywhere(name) == {i \in DOMAIN statements : statements[i].name = name}
Loading(module) == {i \in Everywhere(Modules) : module \in statements[i].text}
ModuleIsLoaded(module) == When(Loading(module) # {}, {Min(Loading(module))})

mod_cgi_enabled == ModuleIsLoaded("mod_cgi")
mod_webdav_enabled == ModuleIsLoaded("mod_webdav")
weak_ssl_cipher_list == {i \in Everywhere("ssl.cipher-list") : statements[i].text = {"weak"}}
ssl_pemfile_missing ==
    LET enabling == {i \in Everywhere("ssl.engine") : statements[i].text = {"enable"}}
    IN When(enabling # {} /\ Everywhere("ssl.pemfile") = {}, {Max(enabling)})

\* A method is covered by a block that asks for it and denies everything.
Dangerous == {"TRACE", "PUT"}
Denying == {b \in Blocks : \E i \in Everywhere(Deny) : statements[i].in = b /\ "everything" \in statements[i].text}
Asked(b) ==
    IF blocks[b].condition.variable = "method" /\ blocks[b].condition.operator = "=="
    THEN ToSet(blocks[b].condition.value) ELSE {}
missing_http_method_restrictions == When(~(Dangerous \subseteq UNION {Asked(b) : b \in Denying}), TheFile)

\* is_redirect_only_config
RedirectNames == {"server.bind", Modules, "server.port", "url.redirect"}
RedirectOnly ==
    /\ Loading("mod_redirect") # {} /\ blocks = <<>> /\ Everywhere("url.redirect") # {}
    /\ \A i \in DOMAIN statements : statements[i].name \in RedirectNames
    /\ \A i \in Everywhere("url.redirect") : statements[i].text = {"all to https"}

-----------------------------------------------------------------------------
(* Logs *)

access_log_missing(v) ==
    When("mod_accesslog" \in Text(v[Modules]) /\ ~IsSet(v["accesslog.filename"]), TheFile)
access_log_format_review(v) ==
    When("mod_accesslog" \in Text(v[Modules]) /\ IsSet(v["accesslog.filename"]),
         On(IF IsSet(v["accesslog.format"]) THEN v["accesslog.format"] ELSE v["accesslog.filename"]))
access_log_format_missing_fields(v) ==
    When("mod_accesslog" \in Text(v[Modules]) /\ IsSet(v["accesslog.filename"]) /\ Is(v["accesslog.format"], "partial"),
         On(v["accesslog.format"]))
error_log_missing(v) == When(~IsSet(v["server.errorlog"]), TheFile)

\* Scopes that say something of the log, over what the file says.
OverFile(s) == LET At(name) == IF Says(s, name) THEN Own(s, name) ELSE Global(name) IN View(At)
FormatsMissingFields ==
    IF host # Unknown THEN access_log_format_missing_fields(MergedView)
    ELSE access_log_format_missing_fields(FileView) \cup
         UNION {access_log_format_missing_fields(OverFile(s)) : s \in {t \in DOMAIN scopes :
             Says(t, "accesslog.filename") \/ Says(t, "accesslog.format") \/ "mod_accesslog" \in Text(Own(t, Modules))}}

(* Authentication and access *)

auth_backend_missing(v) == When(~IsSet(v["auth.backend"]), On(v["auth.require"]))
Userfile == [b \in {"htpasswd", "plain"} |->
                 IF b = "plain" THEN "auth.backend.plain.userfile" ELSE "auth.backend.htpasswd.userfile"]
auth_backend_userfile_missing(v) ==
    When(IsSet(v["auth.require"]) /\ \E b \in DOMAIN Userfile : Is(v["auth.backend"], b) /\ ~IsSet(v[Userfile[b]]),
         On(v["auth.backend"]))
basic_auth_over_http(v) == When("basic" \in Text(v["auth.require"]) /\ ~Enabled(v["ssl.engine"]), On(v["auth.require"]))
webdav_write_access_enabled(v) ==
    When(Enabled(v["webdav.activate"]) /\ ~Enabled(v["webdav.is-readonly"]), On(v["webdav.activate"]))
dir_listing_enabled(v) == When(Enabled(v["dir-listing.activate"]), On(v["dir-listing.activate"]))
server_tag_not_blank(v) ==
    IF ~IsSet(v["server.tag"]) THEN TheFile ELSE When(~Is(v["server.tag"], "blank"), On(v["server.tag"]))

\* _scope_is_remoteip_restricted: some condition around it looks at the address.
MutantRestricted(d) == d.conditions # <<>>
Restricted(d) == \E c \in ToSet(d.conditions) : c.variable = "remoteip"
mod_status_public(v) == When(~Restricted(v["status.status-url"]), On(v["status.status-url"]))
\* The file's view and its scopes', unless a host makes the merged view another one.
Status ==
    IF \E name \in DirectiveNames : Merged(name, host) # Merged(name, Unknown)
    THEN mod_status_public(MergedView)
    ELSE mod_status_public(FileView) \cup UNION {mod_status_public(OwnView(s)) : s \in DOMAIN scopes}

\* url_access_deny_texts: scopes are told apart by their branches, not by conditions.
DeniedIn(s) ==
    LET upto[t \in 0 .. s] ==
            IF t = 0 THEN Text(Global(Deny))
            ELSE IF ~Says(t, Deny) \/ ~IsPrefix(scopes[t].path, scopes[s].path) THEN upto[t - 1]
            ELSE IF Own(t, Deny).operator = "=" THEN Text(Own(t, Deny))
            ELSE upto[t - 1] \cup Text(Own(t, Deny))
    IN upto[s]
Denied ==
    IF host # Unknown THEN {Text(Merged(Deny, host))}
    ELSE {Text(Global(Deny))} \cup {DeniedIn(s) : s \in DOMAIN scopes}
NotDenied(markers, text) == When(~(markers \subseteq text), TheFile)
url_access_deny_missing(text) == NotDenied({"inc", "backup", "config", "generated"}, text)
backup_temp_files_access_not_denied(text) == NotDenied({"backup"}, text)
config_data_files_access_not_denied(text) == NotDenied({"config"}, text)
generated_artifacts_access_not_denied(text) == NotDenied({"generated"}, text)
vcs_metadata_access_not_denied(text) == NotDenied({"vcs"}, text)

(* Limits *)

max_connections_missing(v) == When(~IsSet(v["server.max-connections"]), TheFile)
max_request_size_missing(v) == When(~IsSet(v["server.max-request-size"]), TheFile)
TooHigh(d) == When(Is(d, "high"), On(d))
Unlimited(d) == When(Is(d, "zero"), On(d))
max_keep_alive_idle_too_high(v) == TooHigh(v["server.max-keep-alive-idle"])
max_read_idle_too_high(v) == TooHigh(v["server.max-read-idle"])
max_write_idle_too_high(v) == TooHigh(v["server.max-write-idle"])
max_keep_alive_requests_unlimited(v) == Unlimited(v["server.max-keep-alive-requests"])
max_request_size_unlimited(v) == Unlimited(v["server.max-request-size"])
max_request_size_too_large(v) == TooHigh(v["server.max-request-size"])
max_request_field_size_too_large(v) == TooHigh(v["server.max-request-field-size"])

(* Headers: each is sent as it should be, unsafe or not at all. *)

Unsafely == [csp |-> "unsafe csp", xfo |-> "unsafe xfo", referrer |-> "unsafe referrer",
             permissions |-> "unsafe permissions", hsts |-> "unsafe hsts", xcto |-> "unsafe xcto"]
Missing(header, v) == When(~Has(v[Headers], {header, Unsafely[header]}), TheFile)
Unsafe(header, v) == When(Has(v[Headers], {Unsafely[header]}), On(v[Headers]))
missing_content_security_policy(v) == Missing("csp", v)
missing_x_frame_options(v) == Missing("xfo", v)
missing_referrer_policy(v) == Missing("referrer", v)
missing_permissions_policy(v) == Missing("permissions", v)
missing_strict_transport_security(v) == Missing("hsts", v)
missing_x_content_type_options(v) == Missing("xcto", v)
content_security_policy_unsafe(v) == Unsafe("csp", v)
referrer_policy_unsafe(v) == Unsafe("referrer", v)
permissions_policy_unsafe(v) == Unsafe("permissions", v)
strict_transport_security_unsafe(v) == Unsafe("hsts", v)
x_frame_options_unsafe(v) == Unsafe("xfo", v)
\* A policy that is unsafe has no frame-ancestors and no endpoint either.
content_security_policy_missing_frame_ancestors(v) == Unsafe("csp", v)
content_security_policy_missing_reporting_endpoint(v) == When(Has(v[Headers], {"unsafe csp"}), TheFile)

(* TLS *)

missing_http_to_https_redirect(v) ==
    When(/\ IsSet(v["server.name"])
         /\ ~IsSet(v["server.port"]) \/ Is(v["server.port"], "80")
         /\ ~("mod_redirect" \in Text(v[Modules]) /\ Text(v["url.redirect"]) = {"all to https"}),
         TheFile)
ssl_compression_enabled(v) == When(Enabled(v["ssl.engine"]) /\ Has(v[Conf], {"compression"}), On(v[Conf]))
ssl_insecure_renegotiation_enabled(v) ==
    LET mitigation == v["ssl.disable-client-renegotiation"]
    IN When(Enabled(v["ssl.engine"]),
            IF Is(mitigation, "disable") THEN On(mitigation)
            ELSE When(Has(v[Conf], {"legacy renegotiation"}), On(v[Conf])))
ssl_honor_cipher_order_missing(v) ==
    When(Enabled(v["ssl.engine"]) /\ ~Enabled(v["ssl.honor-cipher-order"]), On(v["ssl.engine"]))

\* A port for TLS in the file itself may have its engine in a scope of that socket.
ssl_engine_not_enabled(v) == When(Is(v["server.port"], "443") /\ ~Enabled(v["ssl.engine"]), On(v["server.port"]))
MutantHttpsSocket(s) == \E c \in ToSet(scopes[s].conditions) : c.variable = "socket"
HttpsSocket(s) == \E c \in ToSet(scopes[s].conditions) : c.variable = "socket" /\ c.value = <<"443">>
EngineNotEnabled ==
    When(\A s \in DOMAIN scopes : HttpsSocket(s) => ~Enabled(EffectiveFor(s, "ssl.engine")),
         ssl_engine_not_enabled(FileView))
    \cup UNION {ssl_engine_not_enabled(SaidView(s, "server.port")) : s \in {t \in DOMAIN scopes : Says(t, "server.port")}}
CipherOrderMissing ==
    ssl_honor_cipher_order_missing(FileView) \cup
    UNION {ssl_honor_cipher_order_missing(SaidView(s, "ssl.engine")) : s \in {t \in DOMAIN scopes : Says(t, "ssl.engine")}}

\* _protocol_policy: a lowest version caps what else is enabled.
Rank == [p \in {"SSLv2", "SSLv3", "TLSv1", "TLSv1.2"} |->
             CASE p = "SSLv2" -> 0 [] p = "SSLv3" -> 1 [] p = "TLSv1" -> 2 [] p = "TLSv1.2" -> 4]
Lowest(v) == {p \in {"TLSv1", "TLSv1.2"} : Has(v[Conf], {IF p = "TLSv1" THEN "min TLSv1" ELSE "min TLSv1.2"})}
Above(v, p) == \A q \in Lowest(v) : Rank[p] > Rank[q]
Weak(versions) == {p \in versions : Rank[p] < Rank["TLSv1.2"]}
ByFlag(v) ==
    {p \in {"SSLv2", "SSLv3"} :
        Enabled(v[IF p = "SSLv2" THEN "ssl.use-sslv2" ELSE "ssl.use-sslv3"]) /\ Above(v, p)}
ByConf(v) ==
    Weak(Lowest(v)) \cup {p \in Text(v[Conf]) \cap DOMAIN Rank : Rank[p] < Rank["TLSv1.2"] /\ Above(v, p)}
PolicySource(v) ==
    On(v[IF "SSLv3" \in ByFlag(v) THEN "ssl.use-sslv3" ELSE IF "SSLv2" \in ByFlag(v) THEN "ssl.use-sslv2" ELSE Conf])
HasPolicy(v) == Lowest(v) # {} \/ Has(v[Conf], DOMAIN Rank)
ssl_protocol_policy_missing_or_weak(v) ==
    When(Enabled(v["ssl.engine"]),
         IF ByFlag(v) \cup ByConf(v) # {} THEN PolicySource(v) ELSE When(~HasPolicy(v), On(v["ssl.engine"])))
tls_legacy_versions_explicitly_enabled(v) ==
    When(Enabled(v["ssl.engine"]) /\ (ByFlag(v) \cup ByConf(v)) \ {"SSLv2"} # {}, PolicySource(v))
PolicyNames == {"ssl.engine", Conf, "ssl.use-sslv2", "ssl.use-sslv3"}

-----------------------------------------------------------------------------
(* What the rules are asked of *)

Asks(v) ==
    [access_log_missing |-> access_log_missing(v), access_log_format_review |-> access_log_format_review(v),
     error_log_missing |-> error_log_missing(v), max_connections_missing |-> max_connections_missing(v),
     max_request_size_missing |-> max_request_size_missing(v),
     missing_http_to_https_redirect |-> missing_http_to_https_redirect(v),
     missing_content_security_policy |-> missing_content_security_policy(v),
     missing_x_frame_options |-> missing_x_frame_options(v),
     missing_referrer_policy |-> missing_referrer_policy(v),
     missing_permissions_policy |-> missing_permissions_policy(v),
     missing_strict_transport_security |-> missing_strict_transport_security(v),
     missing_x_content_type_options |-> missing_x_content_type_options(v),
     content_security_policy_missing_reporting_endpoint |-> content_security_policy_missing_reporting_endpoint(v),
     max_keep_alive_idle_too_high |-> max_keep_alive_idle_too_high(v),
     max_read_idle_too_high |-> max_read_idle_too_high(v),
     max_write_idle_too_high |-> max_write_idle_too_high(v),
     max_keep_alive_requests_unlimited |-> max_keep_alive_requests_unlimited(v),
     max_request_size_unlimited |-> max_request_size_unlimited(v),
     max_request_size_too_large |-> max_request_size_too_large(v),
     max_request_field_size_too_large |-> max_request_field_size_too_large(v),
     content_security_policy_unsafe |-> content_security_policy_unsafe(v),
     referrer_policy_unsafe |-> referrer_policy_unsafe(v),
     permissions_policy_unsafe |-> permissions_policy_unsafe(v),
     x_frame_options_unsafe |-> x_frame_options_unsafe(v),
     content_security_policy_missing_frame_ancestors |-> content_security_policy_missing_frame_ancestors(v),
     strict_transport_security_unsafe |-> strict_transport_security_unsafe(v),
     auth_backend_missing |-> auth_backend_missing(v),
     auth_backend_userfile_missing |-> auth_backend_userfile_missing(v),
     basic_auth_over_http |-> basic_auth_over_http(v),
     webdav_write_access_enabled |-> webdav_write_access_enabled(v),
     ssl_compression_enabled |-> ssl_compression_enabled(v),
     ssl_insecure_renegotiation_enabled |-> ssl_insecure_renegotiation_enabled(v),
     ssl_protocol_policy_missing_or_weak |-> ssl_protocol_policy_missing_or_weak(v),
     tls_legacy_versions_explicitly_enabled |-> tls_legacy_versions_explicitly_enabled(v),
     dir_listing_enabled |-> dir_listing_enabled(v), server_tag_not_blank |-> server_tag_not_blank(v)]

\* The host's view if it is known, else the file's, whatever its scopes say.
LogRules == {"access_log_missing", "access_log_format_review", "error_log_missing"}
SettledRules ==
    LogRules \cup
    {"max_connections_missing", "max_request_size_missing", "missing_http_to_https_redirect",
     "missing_content_security_policy", "missing_x_frame_options", "missing_referrer_policy",
     "missing_permissions_policy", "missing_strict_transport_security", "missing_x_content_type_options",
     "content_security_policy_missing_reporting_endpoint"}
\* The host's view, or the file's and what each scope says itself.
AssignmentRules ==
    {"max_keep_alive_idle_too_high", "max_read_idle_too_high", "max_write_idle_too_high",
     "max_keep_alive_requests_unlimited", "max_request_size_unlimited", "max_request_size_too_large",
     "max_request_field_size_too_large", "content_security_policy_unsafe", "referrer_policy_unsafe",
     "permissions_policy_unsafe", "x_frame_options_unsafe", "content_security_policy_missing_frame_ancestors",
     "strict_transport_security_unsafe"}
\* The host's view, or the file's and each scope's that says something of these.
Interesting ==
    [basic_auth_over_http |-> {"auth.require", "ssl.engine"},
     auth_backend_missing |-> DirectiveNames, auth_backend_userfile_missing |-> DirectiveNames,
     webdav_write_access_enabled |-> DirectiveNames,
     ssl_compression_enabled |-> {"ssl.engine", Conf},
     ssl_insecure_renegotiation_enabled |-> {"ssl.engine", Conf, "ssl.disable-client-renegotiation"},
     ssl_protocol_policy_missing_or_weak |-> PolicyNames,
     tls_legacy_versions_explicitly_enabled |-> PolicyNames]
\* The merged view, for any request too.
MergedRules == {"dir_listing_enabled", "server_tag_not_blank"}

DenyRules(text) ==
    [url_access_deny_missing |-> url_access_deny_missing(text),
     backup_temp_files_access_not_denied |-> backup_temp_files_access_not_denied(text),
     config_data_files_access_not_denied |-> config_data_files_access_not_denied(text),
     generated_artifacts_access_not_denied |-> generated_artifacts_access_not_denied(text),
     vcs_metadata_access_not_denied |-> vcs_metadata_access_not_denied(text)]

\* Nothing is asked of a configuration that only redirects, but for these.
AlwaysAsked == LogRules \cup MergedRules \cup DOMAIN Interesting \cup {"strict_transport_security_unsafe"}
Spared(r) == RedirectOnly /\ r \notin AlwaysAsked

ViewFindings ==
    LET merged == Asks(MergedView)
        file == Asks(FileView)
        scope == [s \in DOMAIN scopes |-> Asks(ScopeView(s))]
        own == [s \in DOMAIN scopes |-> Asks(OwnView(s))]
        In(r) == {s \in DOMAIN scopes : \E name \in Interesting[r] : Says(s, name)}
    IN [r \in DOMAIN file |->
           IF Spared(r) THEN {}
           ELSE IF host # Unknown \/ r \in MergedRules THEN merged[r]
           ELSE CASE r \in SettledRules -> file[r]
                  [] r \in AssignmentRules -> file[r] \cup UNION {own[s][r] : s \in DOMAIN scopes}
                  [] OTHER -> file[r] \cup UNION {scope[s][r] : s \in In(r)}]

DenyFindings ==
    [r \in DOMAIN DenyRules({}) |-> IF RedirectOnly THEN {} ELSE UNION {DenyRules(text)[r] : text \in Denied}]

\* The rules that look for themselves where they look.
OtherFindings ==
    [access_log_format_missing_fields |-> FormatsMissingFields, mod_status_public |-> Status,
     ssl_engine_not_enabled |-> EngineNotEnabled, ssl_honor_cipher_order_missing |-> CipherOrderMissing,
     mod_cgi_enabled |-> mod_cgi_enabled, mod_webdav_enabled |-> mod_webdav_enabled,
     weak_ssl_cipher_list |-> weak_ssl_cipher_list, ssl_pemfile_missing |-> ssl_pemfile_missing,
     missing_http_method_restrictions |-> missing_http_method_restrictions]

Both(f, g) == [r \in DOMAIN f \cup DOMAIN g |-> IF r \in DOMAIN f THEN f[r] ELSE g[r]]

Check ==
    /\ Len(open) = 1 /\ findings = Unchecked
    /\ findings' = Both(ViewFindings, Both(DenyFindings, OtherFindings))
    /\ UNCHANGED <<vars, topic, host>>

ReadOn ==
    /\ findings = Unchecked
    /\ Block \/ \E d \in topic : Assign(d)
    /\ UNCHANGED <<topic, host, findings>>
RulesNext == ReadOn \/ Check
RulesSpec == RulesInit /\ [][RulesNext]_<<vars, topic, host, findings>>

-----------------------------------------------------------------------------
(* Properties. Rules are asked of the view that lighttpd has of a request. Where nothing *)
(* is known of it, only requests are looked at that nothing but nested blocks apply to:  *)
(* what several of them make of each other is a question of the effective configuration. *)

Checked == findings # Unchecked
Met(request) == LET At(name) == [Absent EXCEPT !.value = InForce(name, request)] IN View(At)

Around(b) ==
    LET up[c \in Blocks] == {c} \cup IF blocks[c].parent = 0 THEN {} ELSE up[blocks[c].parent]
    IN up[b]
OneLine(request) == \A b, c \in {d \in Blocks : Active(d, request)} : b \in Around(c) \/ c \in Around(b)
Plain == {request \in Requests : OneLine(request)}

Appending == \E i \in DOMAIN statements : statements[i].operator = "+="
GlobalsFirst == \A i, j \in DOMAIN statements : statements[i].in = 0 /\ j < i => statements[j].in = 0

SaidOnce ==
    \A i, j \in DOMAIN statements : statements[i].in = statements[j].in /\ statements[i].name = statements[j].name => i = j

Judged == Checked /\ InOrder /\ ~RedirectOnly
InAnyRequest == Judged /\ host = Unknown

\* For a host that is known a rule reports just what lighttpd does for it, as far as blocks
\* ask for the host only.
HostViewIsExact ==
    Judged /\ host # Unknown /\ Variables = {"host"} /\ IfsOnly(Parents) =>
        \A request \in Requests : request["host"] = host =>
            LET met == Asks(Met(request))
            IN \A r \in DOMAIN met : findings[r] = met[r]

\* Some scopes are passed over: one that only takes back the order of ciphers, where TLS is
\* on from around it, and one that only takes back TLS, for a port that is set around it. Any
\* condition on the address counts as one that lets local addresses in, and any that names
\* the socket as one for that socket.
OrderWithEngine ==
    \A s \in DOMAIN scopes : Says(s, "ssl.honor-cipher-order") => Says(s, "ssl.engine")
EngineStays == \A s \in DOMAIN scopes : Says(s, "ssl.engine") => Enabled(Own(s, "ssl.engine"))
LocalOnly == \A c \in Conditions : c.variable = "remoteip" => c.operator = "==" /\ c.value = <<"local">>
SocketsEqual == \A c \in Conditions : c.variable = "socket" => c.operator = "=="

\* Without a host, what is wrong for a request is reported, at the statement that decides.
\* Rules join what a block appends to what the file says, wherever the file says it and
\* whatever else the block says.
SilenceIsEarned ==
    InAnyRequest /\ IfsOnly(Blocks) /\ (Appending => GlobalsFirst /\ SaidOnce) =>
        \A request \in Plain :
            LET met == Met(request)
            IN /\ \A r \in AssignmentRules \cup DOMAIN Interesting : Asks(met)[r] \subseteq findings[r]
               /\ OrderWithEngine =>
                      ssl_honor_cipher_order_missing(met) \subseteq findings["ssl_honor_cipher_order_missing"]
               /\ \A r \in DOMAIN DenyRules({}) : DenyRules(Text(met[Deny]))[r] \subseteq findings[r]

\* A port for TLS is reported unless requests to it are served with TLS, whatever block of
\* its socket says so. Blocks within blocks are left out: an engine for one host is one for all.
EngineIsOn ==
    InAnyRequest /\ IfsOnly(Blocks) /\ Nested = {} /\ EngineStays /\ SocketsEqual => \A request \in Plain :
        request["socket"] = <<"443">> => ssl_engine_not_enabled(Met(request)) \subseteq findings["ssl_engine_not_enabled"]

\* Server status that others than local addresses can see is reported.
StatusIsRestricted ==
    InAnyRequest /\ IfsOnly(Blocks) /\ LocalOnly => \A request \in Plain :
        request["remoteip"] # <<"local">> =>
            On(Met(request)["status.status-url"]) \subseteq findings["mod_status_public"]

=============================================================================
