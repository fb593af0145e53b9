-------------------------------- MODULE MC_Nginx --------------------------------
(***************************************************************************)
(* What is said of a configuration of nginx: its scopes and their logging,  *)
(* and the rules. For the rules of a topic a configuration is a few blocks  *)
(* to start from and, anywhere in them, some directives of a vocabulary.    *)
(***************************************************************************)
EXTENDS NginxLogging, NginxRules, Integers

CONSTANTS line1, nameA, nameB

nginxVars == <<topic, ruleVars, vars>>

-----------------------------------------------------------------------------
(* Scopes: all configurations of up to four blocks, with an include that fails *)
(* in none of them, in one, or, in a file that two include, in two.            *)

MaxBlocks == 4

\* Blocks in the order of the document: one follows its parent, and does not lie in
\* a block that was left.
Ordered(shape) ==
    /\ shape[1] = Main
    /\ \A b \in 2 .. Len(shape) : shape[b] < b /\ shape[b] \in Upward(shape)[b - 1]
AllShapes == {s \in UNION {[1 .. n -> 1 .. n] : n \in 1 .. (MaxBlocks + 1)} : Ordered(s)}

Tree(shape, labels, failing) ==
    [b \in DOMAIN shape |-> [parent |-> shape[b], name |-> labels[b],
                             failed |-> IF b \in failing THEN {line1} ELSE {}]]
Labels(shape) ==
    {l \in [DOMAIN shape -> {"main", "http", "server", "location", "if", "stream"}] :
        \A b \in DOMAIN shape : l[b] = "main" <=> b = Main}
OnlyMain == {Tree(<<Main>>, <<"main">>, {})}

(* Logging: a server with a location, and in it an `if`; up to two access logs and *)
(* one profile. Then one access log, two error logs and two profiles that were     *)
(* accepted together: for different names, or one of them for a location. Then     *)
(* access logs that contradict each other, and an error log.                       *)

Nested(n) ==
    {Tree([b \in 1 .. n |-> IF b = Main THEN Main ELSE b - 1],
          <<"main", "http", "server", "location", "if">>, w) : w \in {{w} : w \in 1 .. n} \cup {{}, {3, 4}}}
Log(where, approved, cond, format) ==
    [where |-> where, approved |-> approved, cond |-> cond, format |-> format]
NginxDefault == Log("file", FALSE, "none", "good")
ManyLogs ==
    {Off, Log("file", TRUE, "none", "good"), Log("file", TRUE, "false", "good"),
     Log("file", TRUE, "unlisted", "good"), Log("syslog", TRUE, "listed", "good"),
     Log("syslog", FALSE, "true", "good"), Log("variable", FALSE, "none", "bad")}
MoreLogs ==
    {Log("variable", FALSE, "none", "good"), Log("unknown", FALSE, "none", "good"),
     Log("file", TRUE, "none", "undefined")}

Asks == [required : {TRUE}, allowOff : {FALSE}, restricted : {TRUE}, allowVariable : {TRUE},
         conditional : {"forbid", "allow_listed", "allow"}, remote : BOOLEAN, explicit : {TRUE}]
Lax == [required |-> FALSE, allowOff |-> TRUE, restricted |-> FALSE, allowVariable |-> FALSE,
        conditional |-> "allow", remote |-> FALSE, explicit |-> FALSE]
Asking(q, n, p) ==
    [names |-> n, patterns |-> p, required |-> q.required, allowOff |-> q.allowOff,
     restricted |-> q.restricted, allowVariable |-> q.allowVariable, conditional |-> q.conditional,
     remote |-> q.remote, explicit |-> q.explicit]
OnePolicies ==
    {[profiles |-> <<Asking(q, {}, ps)>>, unmatched |-> "indeterminate"]
        : q \in Asks \cup {Lax}, ps \in {{}, {"p"}}}
TwoPolicies ==
    {[profiles |-> <<Asking(Lax, {nameA}, {}), Asking(q, {nameB}, ps)>>, unmatched |-> "not-applicable"]
        : q \in {s \in Asks : s.conditional = "allow"}, ps \in {{}, {"p"}}}

NoLogging(trees) ==
    [trees |-> trees, accessLogs |-> {}, maxAccess |-> 0, errorLogs |-> {}, maxErrors |-> 0,
     names |-> {}, patterns |-> {"p"}, policies |-> {[profiles |-> <<>>, unmatched |-> "indeterminate"]}]
OneProfile ==
    [NoLogging(Nested(5)) EXCEPT !.accessLogs = ManyLogs, !.maxAccess = 2, !.policies = OnePolicies]
TwoProfiles ==
    [NoLogging(Nested(4)) EXCEPT !.accessLogs = MoreLogs, !.maxAccess = 1,
                                 !.errorLogs = {"good", "bad", "unsure"}, !.maxErrors = 2,
                                 !.names = {nameA, nameB}, !.policies = TwoPolicies]
BothLogs ==
    [NoLogging(Nested(4)) EXCEPT !.accessLogs = {Off, Log("file", TRUE, "none", "good")}, !.maxAccess = 2,
                                 !.errorLogs = {"good", "bad"}, !.maxErrors = 1,
                                 !.policies = {p \in OnePolicies : p.profiles[1].conditional = "allow"}]
\* Where the include fails: in two of them only in configurations of up to three blocks.
Failing(shape) ==
    {T \in SUBSET DOMAIN shape : Cardinality(T) <= 1 \/ (Cardinality(T) = 2 /\ Len(shape) <= MaxBlocks)}
AllConfigurations ==
    UNION {{NoLogging({Tree(s, l, w) : l \in Labels(s)}) : w \in Failing(s)} : s \in AllShapes}
NginxFamilies == AllConfigurations \cup {OneProfile, TwoProfiles, BothLogs}

-----------------------------------------------------------------------------
(* Rules: blocks, and vocabularies of directives with the blocks they may be in. *)

B(name, args, parent) == [name |-> name, args |-> args, parent |-> parent]
D(name, value, in) == [name |-> name, value |-> value, in |-> in]
V(name, values, where) == {[name |-> name, value |-> v, where |-> where] : v \in values}
HttpServer == {"http", "server"}
Scoped == {"http", "server", "location"}
Based(tree0, dirs0) == [blocks |-> <<B("http", "", 0), B("server", "", 1)>> \o tree0, dirs |-> dirs0]

\* TLS: two servers, a server with a location, and a fragment.
TlsBases ==
    {Based(<<B("server", "", 1)>>, <<D("listen", "443 ssl", 2), D("listen", other, 3)>>) :
        other \in {"443 ssl http2", "80"}}
    \cup {Based(<<B("location", "/", 2)>>, <<D("listen", "443 ssl default_server", 2)>>),
          [blocks |-> <<B("server", "", 0)>>, dirs |-> <<D("listen", "8443 ssl", 1)>>]}
TlsVocabularies == {
    V("ssl_protocols", {"weak", "strong"}, HttpServer) \cup V("ssl_certificate", {"file"}, {"server"})
        \cup V("ssl_certificate_key", {"file"}, {"server"}),
    V("ssl_ciphers", {"weak", "strong"}, HttpServer)
        \cup V("ssl_prefer_server_ciphers", {"on", "off"}, HttpServer),
    V("ssl_stapling", {"on", "off"}, HttpServer) \cup V("ssl_stapling_verify", {"on", "off"}, HttpServer)
        \cup V("resolver", {"address", "off"}, HttpServer),
    V("ssl_session_cache", {"shared", "off"}, HttpServer)
        \cup V("ssl_session_timeout", {"10m", "1d"}, HttpServer)
        \cup V("ssl_session_tickets", {"on", "off"}, HttpServer),
    V("ssl_conf_command", {"Compression", "-Compression", "UnsafeLegacyRenegotiation",
                           "-UnsafeLegacyRenegotiation"}, HttpServer) \cup V("http2", {"on"}, HttpServer),
    V("add_header", {"hsts", "hsts short", "other"}, HttpServer),
    V("proxy_ssl_verify", {"on", "off"}, Scoped) \cup V("proxy_pass", {"https"}, {"location"})
        \cup V("proxy_ssl_trusted_certificate", {"file"}, Scoped)}

\* Servers that share addresses, a server with locations of every kind, passwords in a
\* server, its locations and what they exclude.
Named80 == <<D("listen", "80", 2), D("server_name", "name", 2)>>
ServerBases ==
    {Based(<<B("server", "", 1), B("server", "", 1)>>, <<>>),
     Based(<<B("location", "/", 2), B("limit_except", "GET", 3), B("server", "", 1)>>,
           <<D("listen", "80", 2), D("listen", "443 ssl", 5)>>),
     Based(<<B("if", "$host !=", 2)>>, <<D("server_name", "*.name", 2), D("root", "dir", 2)>>),
     [blocks |-> <<B("server", "", 0)>>, dirs |-> <<>>]}
    \cup {Based(<<B("location", c, 2), B("location", d, 2)>>, Named80) :
            c \in {"/", "^~ /", "~ php"},
            d \in {"/app", "= /", "@named", "~ php", "/.well-known/acme-challenge/",
                   "= /.well-known/acme-challenge/x"}}
ServerVocabularies == {
    V("listen", {"80", "80 default_server", "443 ssl", "443 ssl default_server", "*:443 ssl"}, {"server"})
        \cup V("return", {"444"}, {"server"}) \cup V("ssl_reject_handshake", {"on"}, {"server"}),
    V("return", {"301 https", "301 http", "403"}, {"server", "location", "if"})
        \cup V("rewrite", {"all https"}, {"server", "location"}) \cup V("proxy_pass", {"http"}, {"location"})
        \cup V("server_name", {"name", "_"}, {"server"}),
    V("auth_basic", {"realm", "off"}, {"server", "location", "limit_except"})
        \cup V("return", {"301 https"}, {"server", "location"})
        \cup V("auth_basic_user_file", {"file"}, {"server", "location", "limit_except"})}

\* Sizes, timeouts and zones in two servers, or in a server with locations, one in the
\* other; listings where limits stand in one of the blocks.
Zone(zone, rate, key) == [zone |-> zone, rate |-> rate, key |-> key]
Limit(zone, limit) == [zone |-> zone, limit |-> limit]
OneInTheOther == <<B("location", "/", 2), B("location", "/app", 3)>>
SideBySide == <<B("location", "/", 2), B("location", "/app", 2)>>
LimitsIn(in) ==
    <<D("limit_req_zone", Zone("a", "ok", "ip"), 1), D("limit_req_zone", Zone("b", "high", "ip"), 1),
      D("limit_conn_zone", Zone("c", "ok", "ip"), 1),
      D("limit_req", [zone |-> "a"], in), D("limit_conn", Limit("c", "ok"), in)>>
LimitBases == {Based(OneInTheOther, <<>>), Based(<<B("server", "", 1)>>, <<>>)}
ListingBases == {Based(t, LimitsIn(c)) : t \in {OneInTheOther, SideBySide}, c \in {1, 2, 4}}
SizeVocabularies == {
    V("client_max_body_size", {"ok", "high", "zero", "bad"}, Scoped),
    V("large_client_header_buffers", {"ok", "high", "low"}, HttpServer)
        \cup V("client_header_buffer_size", {"ok", "high"}, HttpServer),
    V("keepalive_timeout", {"ok", "high", "zero"}, Scoped) \cup V("send_timeout", {"ok", "high"}, Scoped)
        \cup V("client_body_timeout", {"ok", "high"}, HttpServer)}
ZoneVocabularies == {
    V("limit_req_zone", {Zone(z, r, k) : z \in {"a", "b"}, r \in {"ok", "bad"}, k \in {"ip", "other"}}, {"http"})
        \cup V("limit_req", {[zone |-> z] : z \in {"a", "b"}}, {"server", "location"})
        \cup V("limit_conn_zone", {Zone("c", "ok", k) : k \in {"ip", "other"}}, {"http"})
        \cup V("limit_conn", {Limit(z, l) : z \in {"c", "d"}, l \in {"ok", "zero"}}, {"server"})}
ListingVocabularies ==
    {V("autoindex", {"on", "off"}, Scoped)
        \cup V("limit_req", {[zone |-> z] : z \in {"a", "b", "x"}}, {"server", "location"})
        \cup V("limit_conn", {Limit("c", "high"), Limit("c", "zero")}, {"server", "location"})
        \cup V("internal", {"set"}, {"location"})}

\* Headers in each of the blocks, inherited, cut off, merged.
Header(header, value, always) == [header |-> header, value |-> value, always |-> always]
HeaderTree == <<B("location", "/", 2), B("if", "$arg", 3), B("location", "/app", 2)>>
HeaderBases ==
    {Based(HeaderTree, <<D("listen", "443 quic", 2)>>),
     Based(HeaderTree, <<D("return", "301 https", 2), D("return", "301 https", 3)>>)}
HeaderVocabularies == {
    V("add_header_inherit", {"on", "off", "merge"}, {"server", "location"})
        \cup V("add_header", {Header("csp", p, TRUE) : p \in {"inline", "self inline", "script", "frames"}}
                             \cup {Header("alt-svc", "good", FALSE)}, Scoped \cup {"if"}),
    V("add_header", {Header(h, q, TRUE) : h \in {"x-frame-options", "x-content-type-options",
                                                 "referrer-policy"}, q \in {"good", "bad"}}
                    \cup {Header("referrer-policy", "good", FALSE), Header("csp", "frames", TRUE)}, HttpServer)}

\* A sensitive location with rules of access in it or in its server; a server with a
\* catch-all location and two for files; uploads; methods.
SensitiveBases == {Based(<<B("location", args, 2)>>, <<>>) : args \in {"/admin", "= /admin"}}
AccessRules(where) ==
    V("allow", {"all", "office"}, where) \cup V("deny", {"all", "office"}, where)
    \cup V("auth_basic", {"realm", "off"}, where) \cup V("satisfy", {"any"}, where)
FilePatterns == {"~ hidden", "~ files", "~ manifests", "~ php"}
FileBases ==
    {Based(<<B("location", "/", 2), B("location", p[1], 2), B("location", p[2], 2)>>, <<>>) :
        p \in {q \in FilePatterns \X FilePatterns : q[1] # q[2]}}
    \cup {Based(<<B("location", "/uploads/", 2), B("location", "~ php", 3)>>, <<>>),
          Based(<<B("location", "/uploads/", 2), B("location", "~ uploads php", 2)>>, <<>>)}
FileVocabulary ==
    V("deny", {"all", "office"}, {"location"}) \cup V("allow", {"all"}, {"location"})
    \cup V("return", {"403", "301 https"}, {"location"})
MethodBases ==
    {Based(<<B("map", "$request_method $bad", 1), B("location", "/", 2), B("limit_except", l, 4), B("if", i, 4)>>, <<>>) :
        l \in {"approved", "unapproved"}, i \in {"not approved", "$bad", "$arg"}}
    \cup {Based(<<B("location", p[1], 2), B("location", p[2], 2), B("if", "$arg", 3)>>, <<>>) :
            p \in {<<"/admin", "/uploads/">>, <<"/", "~ php">>}}
MethodVocabularies == {
    V("deny", {"all"}, {"limit_except"}) \cup V("return", {"403"}, {"if"})
        \cup V("proxy_pass", {"http"}, {"location"}) \cup V("map", {"approved", "other"}, {"map"}),
    V("alias", {"dir", "dir/"}, {"location"}) \cup V("dav_methods", {"move", "put"}, {"location"})
        \cup V("merge_slashes", {"off"}, {"server"}) \cup V("server_tokens", {"on"}, HttpServer)}

\* Variables set in a server and a location, mapped and captured, and where they are
\* used; headers for upstreams at every level.
Valued(target, uses) == [target |-> target, uses |-> uses]
Uses3 == <<D("proxy_pass", Valued("url", {"a"}), 3), D("add_header", Valued("x", {"b"}), 3),
           D("proxy_set_header", Valued("host", {"c"}), 3)>>
TaintBases ==
    {Based(<<B("location", l, 2)>>, Uses3) : l \in {"/", "~ (?<a>)"}}
    \cup {Based(<<B("location", "/", 2), B("map", <<"host", "c">>, 1)>>, Uses3),
          Based(<<B("location", "/", 2)>>, <<D("return", Valued("canonical", {"host", "arg"}), 3)>>)}
TaintVocabularies ==
    {V("set", {Valued(t, u) : t \in {"a", "b"}, u \in {{}, {"arg"}, {"host"}, {"b"}, {"c"}}},
       {"server", "location"}) \cup V("return", {Valued("text", {"a"})}, {"location"})}
UpstreamBases ==
    {Based(<<B("location", "/", 2)>>,
           <<D("proxy_pass", Valued("url", {}), 3), D("grpc_pass", Valued("url", {}), 2),
             D("proxy_set_header", Valued("forwarded_for", {"remote_addr"}), 2)>>)}

UpstreamVocabularies ==
    {V("proxy_set_header", {Valued(h, Headers!Legal(h)) : h \in Headers!Required("proxy")}
                           \cup {Valued("real_ip", {"arg"})}, Scoped)
     \cup V("grpc_set_header", {Valued("forwarded_for", u) : u \in {{"remote_addr"}, {"arg"}}}, HttpServer)}

-----------------------------------------------------------------------------
(* One topic. *)

\* Where the rules, or the scopes, are not the topic there is no block.
RulesRest == blocks = <<>> /\ dirs = <<>> /\ findings = <<>>
ScopesRest == LoggingInit(NoLogging(OnlyMain))

\* A configuration of the rules: every way to add up to `max` directives, where they may be.
Config(bases, vocabularies, max) ==
    \E base \in bases : \E vocabulary \in vocabularies : \E n \in 0 .. max :
        LET context(b) == IF b = 0 THEN "main" ELSE base.blocks[b].name
            places == {p \in vocabulary \X (DOMAIN base.blocks \cup {0}) : context(p[2]) \in p[1].where}
        IN /\ blocks = base.blocks
           /\ \E added \in [1 .. n -> places] :
                 dirs = base.dirs \o [i \in 1 .. n |->
                            D(added[i][1].name, added[i][1].value, added[i][2])]
           /\ findings = <<>>

NginxInit ==
    \/ topic = "scopes" /\ (\E f \in AllConfigurations : LoggingInit(f)) /\ RulesRest
    \/ topic = "logging" /\ LoggingInit(OneProfile) /\ RulesRest
    \/ topic = "logging of two" /\ LoggingInit(TwoProfiles) /\ RulesRest
    \/ topic = "logging of both" /\ LoggingInit(BothLogs) /\ RulesRest
    \/ /\ ScopesRest
       /\ \/ topic = "tls" /\ Config(TlsBases, TlsVocabularies, 3)
          \/ topic = "servers" /\ Config(ServerBases, ServerVocabularies, 3)
          \/ topic = "sizes" /\ Config(LimitBases, SizeVocabularies, 3)
          \/ topic = "zones" /\ Config(LimitBases, ZoneVocabularies, 3)
          \/ topic = "listings" /\ Config(ListingBases, ListingVocabularies, 3)
          \/ topic = "headers" /\ Config(HeaderBases, HeaderVocabularies, 3)
          \/ /\ topic = "access"
             /\ \/ Config(SensitiveBases, {AccessRules({"server", "location"})}, 3)
                \/ Config(SensitiveBases, {AccessRules({"location"})}, 4)
          \/ topic = "files" /\ Config(FileBases, {FileVocabulary}, 3)
          \/ topic = "methods" /\ Config(MethodBases, MethodVocabularies, 4)
          \/ topic = "taint" /\ Config(TaintBases, TaintVocabularies, 3)
          \/ topic = "upstream" /\ Config(UpstreamBases, UpstreamVocabularies, 4)

NginxNext ==
    /\ UNCHANGED topic
    /\ \/ topic = "scopes" /\ ScopesNext /\ UNCHANGED <<ruleVars, logVars>>
       \/ topic \in {"logging", "logging of two", "logging of both"} /\ Next /\ UNCHANGED ruleVars
       \/ Rules /\ UNCHANGED vars

NginxSpec == NginxInit /\ [][NginxNext]_nginxVars

================================================================================
