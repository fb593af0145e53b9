---------------------------- MODULE NginxServerRules ----------------------------
(***************************************************************************)
(* The rules for nginx servers (local/nginx/rules/): the settings of TLS,  *)
(* and which server answers a request and how. Each is a function of the   *)
(* configuration; what it reports is a set of blocks and directives.       *)
(***************************************************************************)
EXTENDS NginxConfig

(* The settings of TLS. Nearly all rules come in groups: one reports that a     *)
(* setting is missing, another that it is weak, a third that it is there but    *)
(* not what makes it work.                                                      *)

Weak(S) == {On(Max(directives)) : directives \in S}
EffectiveIn(servers, d) == {Effective(s, d) : s \in servers} \ {{}}

weak_ssl_protocols ==
    Weak({S \in EffectiveIn(TlsServers, "ssl_protocols") : Value(S) = "weak"})
missing_ssl_protocols ==
    {At(s) : s \in {t \in TlsServers : Effective(t, "ssl_protocols") = {}}}
ssl_ciphers_weak ==
    Weak({S \in EffectiveIn(TlsServers, "ssl_ciphers") : Value(S) = "weak"})

\* A server with ssl_protocols of its own counts, whatever it listens to.
missing_ssl_ciphers ==
    {At(s) : s \in {t \in Servers :
        (UsesTls(t) \/ Here(t, "ssl_protocols") # {}) /\ Effective(t, "ssl_ciphers") = {}}}
missing_ssl_prefer_server_ciphers ==
    {At(s) : s \in {t \in TlsServers :
        Effective(t, "ssl_ciphers") # {} /\ ~IsOn(Effective(t, "ssl_prefer_server_ciphers"))}}

\* Missing, disabled, or for too long: at the directive if there is one.
SessionFinding(s, d) ==
    IF Effective(s, d) = {} THEN At(s) ELSE On(Max(Effective(s, d)))
ssl_session_cache_missing ==
    {SessionFinding(s, "ssl_session_cache") : s \in
        {t \in TlsServers : Value(Effective(t, "ssl_session_cache")) # "shared"}}
ssl_session_timeout_missing_or_invalid ==
    {SessionFinding(s, "ssl_session_timeout") : s \in
        {t \in TlsServers : Value(Effective(t, "ssl_session_timeout")) # "10m"}}
ssl_session_tickets_disabled ==
    {On(i) : i \in {j \in Anywhere("ssl_session_tickets") :
        Context(dirs[j].in) \in {"http", "server"} /\ dirs[j].value = "off"}}

ssl_stapling_disabled ==
    {At(s) : s \in {t \in TlsServers : ~IsOn(Effective(t, "ssl_stapling"))}}
ssl_stapling_missing_resolver ==
    {At(s) : s \in {t \in TlsServers :
        IsOn(Effective(t, "ssl_stapling")) /\ Value(Effective(t, "resolver")) # "address"}}
ssl_stapling_without_verify ==
    {At(s) : s \in {t \in TlsServers :
        IsOn(Effective(t, "ssl_stapling")) /\ ~IsOn(Effective(t, "ssl_stapling_verify"))}}

\* `ssl_conf_command Options ...`: the last one that names the option decides. The
\* others leave it as it was: _effective_enabled_ssl_conf_command.
OptionDecides(s, option) ==
    {i \in Effective(s, "ssl_conf_command") : dirs[i].value \in {option, "-" \o option}}
OptionEnabled(option) ==
    Weak({S \in {OptionDecides(s, option) : s \in TlsServers} : Value(S) = option})
ssl_conf_command_tls_compression_enabled == OptionEnabled("Compression")
ssl_conf_command_unsafe_renegotiation_enabled == OptionEnabled("UnsafeLegacyRenegotiation")

missing_http2_on_tls_listener ==
    {On(i) : i \in {j \in Anywhere("listen") :
        /\ dirs[j].in \in Servers /\ ~IsOn(Effective(dirs[j].in, "http2"))
        /\ dirs[j].value \in {"443 ssl", "443 ssl default_server"}}}

\* Headers of the server replace all of http's, whatever their names.
Hsts(s) == {i \in Effective(s, "add_header") : dirs[i].value \in {"hsts", "hsts short"}}
missing_hsts_header == {At(s) : s \in {t \in TlsServers : Hsts(t) = {}}}
hsts_header_unsafe == Weak({S \in {Hsts(s) : s \in TlsServers} : Value(S) = "hsts short"})

missing_ssl_certificate ==
    {At(s) : s \in {t \in TlsServers : Here(t, "ssl_certificate") = {}}}
missing_ssl_certificate_key ==
    {At(s) : s \in {t \in TlsServers :
        Here(t, "ssl_certificate") # {} /\ Here(t, "ssl_certificate_key") = {}}}

\* iter_https_proxy_scopes: every scope that passes requests on by https, with what
\* is inherited by it.
ProxyScopes ==
    {b \in Blocks : blocks[b].name \in {"http", "server", "location"} /\ Has(b, "proxy_pass", {"https"})}
MutantProxyEffective(b, d) == Here(b, d)
ProxyEffective(b, d) ==
    LET up[c \in Blocks \cup {Main}] ==
            IF c = Main THEN {}
            ELSE IF blocks[c].name \in {"http", "server", "location"} /\ Here(c, d) # {} THEN Here(c, d)
            ELSE up[blocks[c].parent]
    IN up[b]
proxy_ssl_verify_disabled ==
    {At(b) : b \in {c \in ProxyScopes : ~IsOn(ProxyEffective(c, "proxy_ssl_verify"))}}
proxy_ssl_trusted_certificate_missing ==
    {At(b) : b \in {c \in ProxyScopes :
        /\ IsOn(ProxyEffective(c, "proxy_ssl_verify"))
        /\ ProxyEffective(c, "proxy_ssl_trusted_certificate") = {}}}

TlsCheck ==
    /\ findings = Unchecked
    /\ findings' =
        [weak_ssl_protocols |-> weak_ssl_protocols, missing_ssl_protocols |-> missing_ssl_protocols,
         ssl_ciphers_weak |-> ssl_ciphers_weak, missing_ssl_ciphers |-> missing_ssl_ciphers,
         missing_ssl_prefer_server_ciphers |-> missing_ssl_prefer_server_ciphers,
         ssl_session_cache_missing |-> ssl_session_cache_missing,
         ssl_session_timeout_missing_or_invalid |-> ssl_session_timeout_missing_or_invalid,
         ssl_session_tickets_disabled |-> ssl_session_tickets_disabled,
         ssl_stapling_disabled |-> ssl_stapling_disabled,
         ssl_stapling_missing_resolver |-> ssl_stapling_missing_resolver,
         ssl_stapling_without_verify |-> ssl_stapling_without_verify,
         ssl_conf_command_tls_compression_enabled |-> ssl_conf_command_tls_compression_enabled,
         ssl_conf_command_unsafe_renegotiation_enabled |->
             ssl_conf_command_unsafe_renegotiation_enabled,
         missing_http2_on_tls_listener |-> missing_http2_on_tls_listener,
         missing_hsts_header |-> missing_hsts_header, hsts_header_unsafe |-> hsts_header_unsafe,
         missing_ssl_certificate |-> missing_ssl_certificate,
         missing_ssl_certificate_key |-> missing_ssl_certificate_key,
         proxy_ssl_verify_disabled |-> proxy_ssl_verify_disabled,
         proxy_ssl_trusted_certificate_missing |-> proxy_ssl_trusted_certificate_missing]
    /\ UNCHANGED <<blocks, dirs>>

-----------------------------------------------------------------------------
(* Which server answers: unknown host names, the way from http to https,        *)
(* passwords sent in clear.                                                     *)

Default == {"80 default_server", "443 ssl default_server"}
IsDefault(s) == Has(s, "listen", Default)

\* listen_key: a bare port is that port of any address.
Key(value) ==
    CASE value \in {"80", "80 default_server"} -> "*:80"
      [] value \in {"443 ssl", "443 ssl default_server", "443 ssl http2", "*:443 ssl"} -> "*:443"
      [] OTHER -> value
SslListens(s) == {i \in Here(s, "listen") : dirs[i].value \in Ssl \cup {"*:443 ssl"}}

rejects_unknown_hosts(s) ==
    Has(s, "ssl_reject_handshake", {"on"}) \/ Has(s, "return", {"403", "444"})

default_server_not_rejecting_unknown_hosts ==
    {At(s) : s \in {t \in Servers : IsDefault(t) /\ ~rejects_unknown_hosts(t)}}

\* _default_tls_servers_by_listen_key: the first of several servers of a key, unless
\* one of them is the default explicitly.
TlsKeys(s) == {Key(dirs[i].value) : i \in SslListens(s)}
Sharing(key) == {s \in Servers : key \in TlsKeys(s)}
HasDefault(key) ==
    \E s \in Sharing(key) : \E i \in SslListens(s) : Key(dirs[i].value) = key /\ dirs[i].value \in Default
SharedKeys == {key \in UNION {TlsKeys(s) : s \in Servers} : \E s, t \in Sharing(key) : s # t}
MutantImplicitDefaults ==
    {Min(Sharing(key)) : key \in {k \in SharedKeys : \A s \in Sharing(k) : ~IsDefault(s)}}
ImplicitDefaults == {Min(Sharing(key)) : key \in {k \in SharedKeys : ~HasDefault(k)}}
default_tls_server_not_rejecting_unknown_hosts ==
    {At(s) : s \in {t \in ImplicitDefaults : ~rejects_unknown_hosts(t)}}

\* _has_loose_server_name, _has_host_guard_reject, _has_content_handler
LooseName(s) == Value(Here(s, "server_name")) \in {"none", "_", "*.name"}
HostGuard(s) ==
    \E c \in Children(s, "if") : blocks[c].args = "$host !=" /\ Has(c, "return", {"403", "444"})
HasHandler(s) == \E b \in Inside(s) \cup {s} : \E d \in Handlers \cup {"root"} : Here(b, d) # {}
server_block_accepts_unknown_host ==
    {At(s) : s \in {t \in Servers :
        /\ Http(t) # {} /\ ~IsDefault(t) /\ LooseName(t)
        /\ ~rejects_unknown_hosts(t) /\ ~HostGuard(t) /\ HasHandler(t)}}

\* _is_named_http_server: without `listen` a server is at port 80.
NamedHttp(s) ==
    /\ Here(s, "server_name") # {}
    /\ Here(s, "listen") = {} \/ Has(s, "listen", {"80"})
BlockHttps(b) == Has(b, "return", {"301 https", "https"}) \/ Has(b, "rewrite", {"all https"})
MutantHasHttpsRedirect(s) ==
    \/ BlockHttps(s)
    \/ \E c \in Locations(s) : CatchAll(c) /\ BlockHttps(c)
HasHttpsRedirect(s) ==
    \/ BlockHttps(s)
    \/ /\ \E c \in Locations(s) : CatchAll(c) /\ BlockHttps(c)
       /\ \A c \in Locations(s) : SafeException(c) \/ BlockHttps(c)
missing_http_to_https_redirect ==
    {At(s) : s \in {t \in Servers : NamedHttp(t) /\ ~HasHttpsRedirect(t)}}

\* _first_active_auth_basic: in the server, else in the first block below it that has
\* one, a location or what lies in one.
ActiveAuth(b) == Value(Here(b, "auth_basic")) \notin {"none", "off"}
MutantFirstAuth(s) == {b \in {s} : ActiveAuth(b)}
FirstAuth(s) ==
    LET below == {b \in Inside(s) : \E c \in Around(b) \cap Inside(s) :
                     blocks[c].parent = s /\ blocks[c].name \in {"location", "limit_except"}}
        active == {b \in below \cup {s} : ActiveAuth(b)}
    IN IF active = {} THEN {} ELSE {Min(active)}
auth_basic_over_http ==
    {On(Max(Here(b, "auth_basic"))) : b \in
        UNION {FirstAuth(s) : s \in {t \in Servers : ~UsesTls(t) /\ ~OnlyRedirects(t)}}}

missing_auth_basic_user_file ==
    {At(b) : b \in {c \in Blocks :
        /\ blocks[c].name \in {"server", "location"}
        /\ \E i \in Here(c, "auth_basic") : dirs[i].value # "off"
        /\ Here(c, "auth_basic_user_file") = {}}}
missing_server_name == {At(s) : s \in {t \in Servers : Here(t, "server_name") = {}}}

\* Once for every value: at the second of its kind.
duplicate_listen ==
    {On(i) : i \in {j \in Anywhere("listen") :
        /\ dirs[j].in \in Servers
        /\ Cardinality({h \in Here(dirs[j].in, "listen") : h < j /\ dirs[h].value = dirs[j].value}) = 1}}

AnsweringCheck ==
    /\ findings = Unchecked
    /\ findings' =
        [default_server_not_rejecting_unknown_hosts |-> default_server_not_rejecting_unknown_hosts,
         default_tls_server_not_rejecting_unknown_hosts |->
             default_tls_server_not_rejecting_unknown_hosts,
         server_block_accepts_unknown_host |-> server_block_accepts_unknown_host,
         missing_http_to_https_redirect |-> missing_http_to_https_redirect,
         auth_basic_over_http |-> auth_basic_over_http,
         missing_auth_basic_user_file |-> missing_auth_basic_user_file,
         missing_server_name |-> missing_server_name, duplicate_listen |-> duplicate_listen]
    /\ UNCHANGED <<blocks, dirs>>

-----------------------------------------------------------------------------
(* Properties. A server outside `http` is a fragment: what it inherits is not   *)
(* known, and its findings are marked as contextual.                            *)

Checked == findings # Unchecked
WholeTlsServers == {s \in TlsServers : Http(s) # {}}
Unset(s, d, good) == Runs(s, d) # good

\* What the last of the commands that name an option says.
CommandRuns(s, option) ==
    Value({i \in InForce(s, "ssl_conf_command") : dirs[i].value \in {option, "-" \o option}})
HstsRuns(s) == Value({i \in InForce(s, "add_header") : dirs[i].value \in {"hsts", "hsts short"}})

TlsSettings ==
    {"ssl_protocols", "ssl_ciphers", "ssl_prefer_server_ciphers", "ssl_stapling",
     "ssl_stapling_verify", "resolver", "ssl_session_cache", "ssl_session_timeout",
     "ssl_conf_command", "add_header"}

\* A configuration with its directives where nginx allows them; protocols and ciphers are
\* weak or they are not.
TlsConfiguration ==
    /\ IsConfiguration
    /\ \A d \in TlsSettings : Here(Main, d) = {}
    /\ \A d \in {"proxy_ssl_verify", "proxy_ssl_trusted_certificate"} : Only(d, {"http", "server", "location"})
    /\ \A i \in Anywhere("ssl_protocols") \cup Anywhere("ssl_ciphers") : dirs[i].value \in {"weak", "strong"}

\* The rules look once at any such configuration.
TlsSpec == TlsConfiguration /\ findings = Unchecked /\ [][TlsCheck]_vars

\* The rules of a group together miss nothing: a TLS server that none of them reports,
\* neither itself nor a directive in force in it, runs with the setting as it should be,
\* however it came by it.
SilenceIsEarned ==
    Checked => \A s \in WholeTlsServers :
        /\ ~Reported(s, {"weak_ssl_protocols", "missing_ssl_protocols"}) =>
               Runs(s, "ssl_protocols") = "strong"
        /\ ~Reported(s, {"ssl_ciphers_weak", "missing_ssl_ciphers", "missing_ssl_prefer_server_ciphers"}) =>
               Runs(s, "ssl_ciphers") = "strong" /\ Runs(s, "ssl_prefer_server_ciphers") = "on"
        /\ ~Reported(s, {"ssl_stapling_disabled", "ssl_stapling_missing_resolver",
                         "ssl_stapling_without_verify"}) =>
               /\ Runs(s, "ssl_stapling") = "on" /\ Runs(s, "ssl_stapling_verify") = "on"
               /\ Runs(s, "resolver") = "address"
        /\ ~Reported(s, {"ssl_session_cache_missing"}) => Runs(s, "ssl_session_cache") = "shared"
        /\ ~Reported(s, {"missing_hsts_header", "hsts_header_unsafe"}) => HstsRuns(s) = "hsts"
        /\ ~Reported(s, {"ssl_conf_command_tls_compression_enabled"}) =>
               CommandRuns(s, "Compression") # "Compression"
        /\ ~Reported(s, {"missing_ssl_certificate", "missing_ssl_certificate_key"}) =>
               Here(s, "ssl_certificate") # {} /\ Here(s, "ssl_certificate_key") # {}

\* And none of them cries wolf: a server with a setting as it should be, inherited or
\* its own, is not reported.
AlarmIsReal ==
    Checked => \A s \in WholeTlsServers :
        /\ Reported(s, {"weak_ssl_protocols", "missing_ssl_protocols"}) =>
               Unset(s, "ssl_protocols", "strong")
        /\ Reported(s, {"ssl_ciphers_weak", "missing_ssl_ciphers"}) => Unset(s, "ssl_ciphers", "strong")
        /\ Reported(s, {"ssl_session_timeout_missing_or_invalid"}) =>
               Unset(s, "ssl_session_timeout", "10m")
        /\ Reported(s, {"ssl_stapling_disabled", "ssl_stapling_missing_resolver",
                        "ssl_stapling_without_verify"}) =>
               \/ Unset(s, "ssl_stapling", "on") \/ Unset(s, "ssl_stapling_verify", "on")
               \/ Unset(s, "resolver", "address")
        /\ Reported(s, {"missing_hsts_header", "hsts_header_unsafe"}) => HstsRuns(s) # "hsts"
        /\ Reported(s, {"ssl_conf_command_unsafe_renegotiation_enabled"}) =>
               CommandRuns(s, "UnsafeLegacyRenegotiation") = "UnsafeLegacyRenegotiation"

\* Requests that are passed on by https verify the other side, unless the scope is
\* reported: also a location that inherits from its server or from http. (An `if` or a
\* limit_except that passes on by itself is not looked at.)
UpstreamIsVerified ==
    Checked => \A b \in Blocks :
        Context(b) \in {"http", "server", "location"} /\ Has(b, "proxy_pass", {"https"}) =>
            (Reported(b, {"proxy_ssl_verify_disabled", "proxy_ssl_trusted_certificate_missing"}) <=>
                \/ Runs(b, "proxy_ssl_verify") # "on"
                \/ InForce(b, "proxy_ssl_trusted_certificate") = {})

Says(r, b) == At(b) \in findings[r]

\* A configuration with its blocks and directives where nginx allows them, but for a
\* password that is asked for in `http`: no rule looks there.
AnsweringConfiguration ==
    /\ IsConfiguration /\ ServersAreApart
    /\ \A c \in Named("location") : Context(blocks[c].parent) \in {"server", "location"}
    /\ \A l \in Named("limit_except") : Context(blocks[l].parent) = "location"
    /\ Only("listen", {"server"}) /\ Only("auth_basic", {"server", "location", "limit_except"})
    /\ \A i \in Anywhere("listen") : dirs[i].value \in Ssl \cup {"*:443 ssl", "80", "80 default_server"}

\* The rules look once at any such configuration.
AnsweringSpec == AnsweringConfiguration /\ findings = Unchecked /\ [][AnsweringCheck]_vars

\* The server nginx takes for a host that none names: the one marked as default for the
\* address, else the first that listens on it.
Listening(key) == {i \in Anywhere("listen") : Key(dirs[i].value) = key}
Listeners(key) == {dirs[i].in : i \in Listening(key)}
AnswersUnknown(key) ==
    LET marked == {dirs[i].in : i \in {j \in Listening(key) : dirs[j].value \in Default}}
    IN IF marked # {} THEN Min(marked) ELSE Min(Listeners(key))
KeysInUse == {Key(dirs[i].value) : i \in Anywhere("listen")}

\* The two rules for defaults together find the server of an address that answers
\* requests for unknown hosts: where it is marked, and for TLS also where several
\* servers share the address and none is marked.
UnknownHostsAreRejected ==
    Checked => \A key \in KeysInUse : \E s \in Servers :
        /\ s = AnswersUnknown(key)
        /\ \/ rejects_unknown_hosts(s)
           \/ Says("default_server_not_rejecting_unknown_hosts", s)
           \/ Says("default_tls_server_not_rejecting_unknown_hosts", s)
           \/ /\ (\A t \in Listeners(key) : t = s) \/ key # "*:443"
              /\ \A i \in Here(s, "listen") : dirs[i].value \notin Default

\* The location of a server that answers a request: an exact one, the longest prefix if
\* it excludes expressions, a regular expression, the longest prefix.
Paths == {"/", "/app", "/app.php", "/.well-known/acme-challenge/x"}
Prefix(args, path) ==
    CASE args \in {"/", "^~ /"} -> 1
      [] args = "/app" /\ path \in {"/app", "/app.php"} -> 2
      [] args = "/.well-known/acme-challenge/" /\ path = "/.well-known/acme-challenge/x" -> 2
      [] OTHER -> 0
Answering(s, path) ==
    LET all == Children(s, "location")
        exact == {c \in all : <<blocks[c].args, path>> \in
                     {<<"= /", "/">>, <<"= /.well-known/acme-challenge/x", "/.well-known/acme-challenge/x">>}}
        longest == {c \in all : Prefix(blocks[c].args, path) > 0
                       /\ \A d \in all : Prefix(blocks[d].args, path) <= Prefix(blocks[c].args, path)}
        expression == {c \in all : blocks[c].args = "~ php" /\ path = "/app.php"}
    IN IF exact # {} THEN exact
       ELSE IF expression # {} /\ \A c \in longest : blocks[c].args # "^~ /" THEN {Min(expression)}
       ELSE longest

\* A named server at port 80 that is not reported sends every request to https, whatever
\* location answers it; only challenges for certificates are answered in clear.
RedirectIsComplete ==
    Checked => \A s \in Servers :
        NamedHttp(s) /\ ~Says("missing_http_to_https_redirect", s) =>
            \/ BlockHttps(s)
            \/ \A path \in Paths :
                  /\ Answering(s, path) # {}
                  /\ \A c \in Answering(s, path) :
                        BlockHttps(c) \/ path = "/.well-known/acme-challenge/x"

\* A server that has no TLS listener and serves content asks for no password: neither
\* itself nor any of its locations, whatever they inherit from the server or another one.
NoPasswordInClear ==
    Checked => \A s \in Servers :
        (\E i \in DOMAIN dirs : On(i) \in findings["auth_basic_over_http"] /\ s \in Around(dirs[i].in))
            <=> /\ ~UsesTls(s) /\ ~OnlyRedirects(s)
                /\ \E b \in {s} \cup {c \in Inside(s) : blocks[c].name \in {"location", "limit_except"}} :
                      Runs(b, "auth_basic") \notin {"none", "off"}

=============================================================================
