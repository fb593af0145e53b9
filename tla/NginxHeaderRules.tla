---------------------------- MODULE NginxHeaderRules ----------------------------
(***************************************************************************)
(* What nginx adds to a response and passes on with a request (local/nginx/*)
(* response_header_semantics.py, rules/): the headers of a response, values*)
(* that come from the request, headers that tell an upstream who asked.    *)
(***************************************************************************)
EXTENDS NginxConfig, SequencesExt

(* The headers of a response. Some rules look at every scope with what is in    *)
(* effect there, the older ones at a server only. A header is                   *)
(* [header, value, always].                                                     *)

\* What a policy says of scripts by script-src and by default-src: csp_ast.
Script(policy) ==
    CASE policy \in {"self inline", "inline"} -> "inline" [] policy = "script" -> "self" [] OTHER -> "none"
DefaultSrc(policy) ==
    CASE policy \in {"self", "self inline"} -> "self" [] policy = "default inline" -> "inline" [] OTHER -> "none"
FrameAncestors(policy) == policy = "frames"
ReportTo(policy) == policy = "frames"

HeaderOf(i) == dirs[i].value.header
Csp(directives) == {i \in directives : HeaderOf(i) = "csp"}
Policies(directives) == {dirs[i].value.value : i \in Csp(directives)}

-----------------------------------------------------------------------------
(* resolve_response_header_semantics: add_header replaces what is inherited, unless *)
(* add_header_inherit, which is inherited itself, says otherwise.                   *)

ScopeNames == {"server", "location", "if"}
ScopesOf(s) == {b \in Inside(s) \cup {s} : blocks[b].name \in ScopeNames}

InheritMode(b) ==
    LET up[c \in Blocks \cup {Main}] ==
            IF Here(c, "add_header_inherit") # {} THEN Value(Here(c, "add_header_inherit"))
            ELSE IF c = Main THEN "on" ELSE up[blocks[c].parent]
    IN up[b]
MutantHeaders(b) == UNION {Here(c, "add_header") : c \in Around(b)}
Headers(b) ==
    LET up[c \in Blocks \cup {Main}] ==
            LET own == Here(c, "add_header")
            IN IF c = Main \/ InheritMode(c) = "off" THEN own
               ELSE IF InheritMode(c) = "merge" THEN own \cup up[blocks[c].parent]
               ELSE IF own # {} THEN own ELSE up[blocks[c].parent]
    IN up[b]

\* The first scope of the server without a policy, once for every server.
missing_content_security_policy ==
    {At(Min({b \in ScopesOf(s) : Csp(Headers(b)) = {}})) : s \in
        {t \in Servers : ~OnlyRedirects(t) /\ \E b \in ScopesOf(t) : Csp(Headers(b)) = {}}}

\* _policies_are_baseline_safe: what all policies of a response allow together.
ScriptDirective(policy) == IF Script(policy) # "none" THEN Script(policy) ELSE DefaultSrc(policy)
Unsafe(policies) == \A p \in policies : ScriptDirective(p) = "inline"
BaselineSafe(policies) ==
    /\ ~Unsafe(policies)
    /\ (\E p \in policies : DefaultSrc(p) = "self") \/ (\A p \in policies : Script(p) # "none")
content_security_policy_unsafe ==
    {At(b) : b \in {c \in UNION {ScopesOf(s) : s \in Servers} :
        Csp(Headers(c)) # {} /\ ~BaselineSafe(Policies(Headers(c)))}}

\* The finding says where Alt-Svc is effective, and which scopes lack it.
Lacking(s) == {b \in ScopesOf(s) : \A i \in Headers(b) : HeaderOf(i) # "alt-svc"}
Quic(s) == {i \in Here(s, "listen") : dirs[i].value = "443 quic"}
http3_alt_svc_review ==
    {<<On(Min(Quic(s))), Lacking(s)>> : s \in {t \in Servers : Quic(t) # {}}}

-----------------------------------------------------------------------------
(* find_server_add_headers: the server's own headers, or else those of its http. *)

MutantServerHeaders(s) == Here(s, "add_header") \cup Inherited(s, "add_header")
ServerHeaders(s) == Effective(s, "add_header")
With(s, header) == {i \in ServerHeaders(s) : HeaderOf(i) = header}
Good(i) == dirs[i].value.value = "good"

MissingHeader(header) == {At(s) : s \in {t \in Servers : ~OnlyRedirects(t) /\ With(t, header) = {}}}
missing_permissions_policy == MissingHeader("permissions-policy")
missing_referrer_policy == MissingHeader("referrer-policy")
missing_x_xss_protection == MissingHeader("x-xss-protection")
missing_x_content_type_options ==
    {At(s) : s \in {t \in Servers :
        ~OnlyRedirects(t) /\ \A i \in With(t, "x-content-type-options") : ~Good(i)}}

\* Either header keeps a page from being framed.
missing_x_frame_options ==
    {At(s) : s \in {t \in Servers :
        /\ ~OnlyRedirects(t)
        /\ \A i \in With(t, "x-frame-options") : ~Good(i)
        /\ \A i \in With(t, "csp") : ~FrameAncestors(dirs[i].value.value)}}

\* These also look at servers that only redirect.
permissions_policy_unsafe ==
    UNION {{On(i) : i \in {j \in With(s, "permissions-policy") : ~Good(j)}} : s \in Servers}
referrer_policy_unsafe ==
    UNION {{On(i) : i \in {j \in With(s, "referrer-policy") : ~(Good(j) /\ dirs[j].value.always)}} : s \in Servers}
csp_value_review == UNION {{On(i) : i \in With(s, "csp")} : s \in Servers}

\* Reported at the first policy if none of them has the directive; at each that lacks it.
content_security_policy_missing_frame_ancestors ==
    {On(Min(With(s, "csp"))) : s \in {t \in Servers :
        /\ ~OnlyRedirects(t) /\ With(t, "csp") # {}
        /\ \A i \in With(t, "csp") : ~FrameAncestors(dirs[i].value.value)}}
content_security_policy_missing_reporting_endpoint ==
    UNION {{On(i) : i \in {j \in With(s, "csp") : ~ReportTo(dirs[j].value.value)}} :
               s \in {t \in Servers : ~OnlyRedirects(t)}}

HeaderCheck ==
    /\ findings = Unchecked
    /\ findings' =
        [missing_content_security_policy |-> missing_content_security_policy,
         content_security_policy_unsafe |-> content_security_policy_unsafe,
         http3_alt_svc_review |-> http3_alt_svc_review,
         missing_permissions_policy |-> missing_permissions_policy,
         missing_referrer_policy |-> missing_referrer_policy,
         missing_x_xss_protection |-> missing_x_xss_protection,
         missing_x_content_type_options |-> missing_x_content_type_options,
         missing_x_frame_options |-> missing_x_frame_options,
         permissions_policy_unsafe |-> permissions_policy_unsafe,
         referrer_policy_unsafe |-> referrer_policy_unsafe,
         csp_value_review |-> csp_value_review,
         content_security_policy_missing_frame_ancestors |->
             content_security_policy_missing_frame_ancestors,
         content_security_policy_missing_reporting_endpoint |->
             content_security_policy_missing_reporting_endpoint]
    /\ UNCHANGED <<blocks, dirs>>

-----------------------------------------------------------------------------
(* Values from the request: TaintAnalyzer follows variables through `set`,      *)
(* `map` and captures to where they are used, by the definition that is visible *)
(* there. Here a directive is [target, uses].                                   *)

Uses(i) == dirs[i].value.uses
Target(i) == dirs[i].value.target

\* is_builtin_user_controlled: some only where they choose the host of an upstream.
Builtin(v, inHost) == v = "arg" \/ (inHost /\ v = "host")

\* What defines a variable directly in a block: `set`, a map in it, and a capture in what
\* the block matches. A map is in the order of the document with its block.
Sets(b, v) == {i \in Here(b, "set") : Target(i) = v}
Maps(b, v) == {m \in Children(b, "map") : blocks[m].args[2] = v}
Captures(b, v) == b # Main /\ blocks[b].name = "location" /\ blocks[b].args = "~ (?<" \o v \o ">)"

\* _visible_definition: of the nearest block that defines it, the last.
DefinedIn(v, scope) ==
    LET up[b \in Blocks \cup {Main}] ==
            IF Sets(b, v) # {} \/ Maps(b, v) # {} \/ Captures(b, v) THEN b
            ELSE IF b = Main THEN -1 ELSE up[blocks[b].parent]
    IN up[scope]

\* The values of a map are read as if an entry had its key among its arguments: only
\* an entry of several words has any.
MapUses(m) == UNION {IF Target(i) = "words" THEN Uses(i) ELSE {} : i \in Here(m, "entry")}

\* _is_user_controlled: a definition that was visited says nothing.
MutantControlled(variable, scope, inHost) == Builtin(variable, inHost)
Controlled(variable, scope, inHost) ==
    LET places == Blocks \cup {Main}
        of[v \in STRING, at \in places, visited \in SUBSET (STRING \X places)] ==
            LET b == DefinedIn(v, at)
                any(used) == \E u \in used : of[u, b, visited \cup {<<v, at>>}]
            IN \/ Builtin(v, inHost)
               \/ /\ <<v, at>> \notin visited /\ b # -1
                  /\ IF Sets(b, v) # {} THEN any(Uses(Max(Sets(b, v))))
                     ELSE IF Maps(b, v) # {}
                          THEN any({blocks[Max(Maps(b, v))].args[1]} \cup MapUses(Max(Maps(b, v))))
                     ELSE TRUE
    IN of[variable, scope, {}]
ContainsControlled(i, inHost) == \E v \in Uses(i) : Controlled(v, dirs[i].in, inHost)

proxy_pass_user_controlled_destination == {On(i) : i \in {j \in Anywhere("proxy_pass") : ContainsControlled(j, TRUE)}}
crlf_in_add_header == {On(i) : i \in {j \in Anywhere("add_header") : ContainsControlled(j, FALSE)}}
proxy_set_header_host_spoofing ==
    {On(i) : i \in {j \in Anywhere("proxy_set_header") : Target(j) = "host" /\ ContainsControlled(j, FALSE)}}
crlf_in_return ==
    {On(i) : i \in {j \in Anywhere("return") : Target(j) # "canonical" /\ ContainsControlled(j, FALSE)}}

-----------------------------------------------------------------------------
(* Headers of the source: inherited from the nearest block that has any of the       *)
(* protocol's, whatever it is; of several the last.                                  *)

Protocols == {"proxy", "grpc"}
PassOf(p) == p \o "_pass"
HeaderDirective(p) == p \o "_set_header"
Required(p) == IF p = "proxy" THEN {"forwarded_for", "real_ip", "proto"} ELSE {"forwarded_for"}
Legal(header) == IF header = "proto" THEN {"scheme"} ELSE {"remote_addr"}
MutantPassedHeaders(b, p) == UNION {Here(c, HeaderDirective(p)) : c \in Around(b)}
PassedHeaders(b, p) ==
    LET up[c \in Blocks] ==
            IF Here(c, HeaderDirective(p)) # {} \/ blocks[c].parent = Main THEN Here(c, HeaderDirective(p))
            ELSE up[blocks[c].parent]
    IN up[b]
HasRequired(b, p) ==
    \A header \in Required(p) :
        LET set == {i \in PassedHeaders(b, p) : Target(i) = header}
        IN set # {} /\ Uses(Max(set)) = Legal(header)
proxy_missing_source_ip_headers ==
    {<<At(bp[1]), bp[2]>> : bp \in
        {x \in Blocks \X Protocols : Here(x[1], PassOf(x[2])) # {} /\ ~HasRequired(x[1], x[2])}}

TaintCheck ==
    /\ findings = Unchecked
    /\ findings' =
        [proxy_pass_user_controlled_destination |-> proxy_pass_user_controlled_destination,
         crlf_in_add_header |-> crlf_in_add_header,
         proxy_set_header_host_spoofing |-> proxy_set_header_host_spoofing,
         crlf_in_return |-> crlf_in_return,
         proxy_missing_source_ip_headers |-> proxy_missing_source_ip_headers]
    /\ UNCHANGED <<blocks, dirs>>

-----------------------------------------------------------------------------
(* Properties. A header reaches a scope unless a block on the way cuts it off. *)

Checked == findings # Unchecked
ModeInForce(b) == IF InForce(b, "add_header_inherit") = {} THEN "on" ELSE Runs(b, "add_header_inherit")
CutsOff(c) ==
    \/ ModeInForce(c) = "off"
    \/ ModeInForce(c) = "on" /\ Here(c, "add_header") # {}
Sent(b) ==
    {i \in Anywhere("add_header") :
        /\ dirs[i].in \in Around(b)
        /\ \A c \in Around(b) \ Around(dirs[i].in) : ~CutsOff(c)}

\* A configuration with its directives where nginx allows them.
HeaderConfiguration ==
    /\ IsConfiguration /\ ServersAreApart
    /\ Only("add_header", {"http", "server", "location", "if"})
    /\ \A i \in Anywhere("add_header_inherit") : dirs[i].value \in {"on", "off", "merge"}

\* The rules look once at any such configuration.
HeaderSpec == HeaderConfiguration /\ findings = Unchecked /\ [][HeaderCheck]_vars

\* A server that is not reported sends a policy from each of its scopes: no location and
\* no `if` loses it by a header of its own.
CspIsEverywhere ==
    Checked => \A s \in Servers :
        (\E b \in ScopesOf(s) : At(b) \in findings["missing_content_security_policy"])
            <=> ~OnlyRedirects(s) /\ \E b \in ScopesOf(s) : Csp(Sent(b)) = {}

\* A scope whose policies together let inline scripts run is reported; a policy that
\* says nothing of scripts lets all of them run. (One that says nothing, next to one with
\* a strict default-src that its own script-src undoes, passes for safe.)
AllowsInline(policy) == ScriptDirective(policy) \in {"inline", "none"}
PassesForSafe(policies) ==
    (\E p \in policies : ScriptDirective(p) = "none") /\ (\E p \in policies : DefaultSrc(p) = "self")
UnsafeCspIsReported ==
    Checked => \A s \in Servers : \A b \in ScopesOf(s) :
        LET policies == Policies(Sent(b))
        IN /\ Csp(Sent(b)) # {} /\ ~PassesForSafe(policies)
           /\ \A p \in policies : AllowsInline(p)
           => At(b) \in findings["content_security_policy_unsafe"]

\* Where add_header_inherit is not used, the rules for a server judge the headers that
\* the server sends, and none that a header of its own has cut off.
ServerHeadersAreSent ==
    Checked /\ Anywhere("add_header_inherit") = {} =>
        \A s \in {t \in Servers : ~OnlyRedirects(t) /\ Http(t) # {}} :
            LET sent(header) == {i \in Sent(s) : HeaderOf(i) = header}
            IN /\ At(s) \in findings["missing_x_frame_options"] <=>
                    /\ \A i \in sent("x-frame-options") : ~Good(i)
                    /\ \A p \in Policies(Sent(s)) : ~FrameAncestors(p)
               /\ At(s) \in findings["missing_referrer_policy"] <=> sent("referrer-policy") = {}
               /\ ~Reported(s, {"missing_referrer_policy", "referrer_policy_unsafe"}) =>
                    \A i \in sent("referrer-policy") : Good(i) /\ dirs[i].value.always
               /\ At(s) \in findings["missing_x_content_type_options"] <=>
                    \A i \in sent("x-content-type-options") : ~Good(i)

\* The review of HTTP/3 names exactly the scopes that do not announce it.
AltSvcIsTold ==
    Checked => \A f \in findings["http3_alt_svc_review"] :
        LET s == dirs[f[1][2]].in
        IN f[2] = {b \in ScopesOf(s) : \A i \in Sent(b) : HeaderOf(i) # "alt-svc"}

Sinks == {"proxy_pass", "add_header", "proxy_set_header"}
Reporting == {"proxy_pass_user_controlled_destination", "crlf_in_add_header", "proxy_set_header_host_spoofing"}
Warns(i) == \E r \in Reporting : On(i) \in findings[r]

FromRequest(inHost) == {"arg"} \cup IF inHost THEN {"host"} ELSE {}

\* The `set`s nginx executes before it answers from location c: those of the server,
\* then those of the location, and of `if`s in them that hold.
Executed(c, ifs) ==
    {i \in Anywhere("set") :
        \/ dirs[i].in \in {c, blocks[c].parent}
        \/ dirs[i].in \in ifs /\ blocks[dirs[i].in].parent \in {c, blocks[c].parent}}
Stage(i, c) == IF dirs[i].in = blocks[c].parent \/ (Context(dirs[i].in) = "if" /\ blocks[dirs[i].in].parent # c) THEN 1 ELSE 2

\* The variables that hold something of the request when all are executed, in order.
OfMaps(tainted) ==
    tainted \cup {blocks[m].args[2] : m \in {n \in Named("map") :
        blocks[n].args[1] \in tainted \/ \E i \in Here(n, "entry") : Uses(i) \cap tainted # {}}}
Tainted(c, ifs, inHost) ==
    LET captured == {v \in {"a", "b", "c"} : Captures(c, v)}
        step(tainted, i) ==
            IF Uses(i) \cap OfMaps(tainted) # {} THEN tainted \cup {Target(i)} ELSE tainted \ {Target(i)}
        stage(n, tainted) ==
            FoldLeft(step, tainted, SetToSortSeq({i \in Executed(c, ifs) : Stage(i, c) = n}, <))
    IN OfMaps(stage(2, captured \cup stage(1, FromRequest(inHost))))

\* Where a block sets each variable at most once, before it uses it, and unconditionally,
\* the nearest definition is the one whose value arrives.
InOrder ==
    \A i, j \in Anywhere("set") :
        dirs[i].in = dirs[j].in => /\ Target(i) = Target(j) => i = j
                                   /\ Target(j) \in Uses(i) => j < i

\* There a value that may come from the request is reported where it is used in a
\* location, however it got there. (Elsewhere it may be missed: the rule follows one
\* definition of each variable, the last one of the nearest block.)
TaintIsFound ==
    Checked /\ InOrder => \A i \in DOMAIN dirs :
        /\ dirs[i].name \in Sinks /\ Context(dirs[i].in) = "location"
        /\ dirs[i].name = "proxy_set_header" => Target(i) = "host"
        /\ \E ifs \in SUBSET Named("if") : Uses(i) \cap Tainted(dirs[i].in, ifs, dirs[i].name = "proxy_pass") # {}
        => Warns(i)

\* What is reported is linked to the request by some chain of definitions.
Linked(inHost) ==
    LET edges == UNION {{<<u, Target(i)>> : u \in Uses(i)} : i \in Anywhere("set")}
                    \cup {<<blocks[m].args[1], blocks[m].args[2]>> : m \in Named("map")}
        close[n \in 0 .. 4] ==
            IF n = 0 THEN FromRequest(inHost)
                            \cup {v \in {"a", "b", "c"} : \E c \in Named("location") : Captures(c, v)}
            ELSE close[n - 1] \cup {e[2] : e \in {f \in edges : f[1] \in close[n - 1]}}
    IN close[4]
TaintIsReal ==
    Checked => \A i \in DOMAIN dirs :
        dirs[i].name \in Sinks /\ Warns(i) => Uses(i) \cap Linked(dirs[i].name = "proxy_pass") # {}

\* Headers for upstreams are in `http`, or in it.
UpstreamConfiguration == IsConfiguration /\ \A p \in Protocols : Here(Main, HeaderDirective(p)) = {}
UpstreamSpec == UpstreamConfiguration /\ findings = Unchecked /\ [][TaintCheck]_vars

\* A block that passes requests on without being reported tells who asked: the headers
\* in force in it are all there and say so.
SourceIsPassedOn ==
    Checked => \A b \in Blocks : \A p \in Protocols :
        Here(b, PassOf(p)) # {} /\ <<At(b), p>> \notin findings["proxy_missing_source_ip_headers"] =>
            \A header \in Required(p) :
                \E i \in InForce(b, HeaderDirective(p)) : Target(i) = header /\ Uses(i) = Legal(header)

=============================================================================
