-------------------------------- MODULE IisRules --------------------------------
(***************************************************************************)
(* The rules for IIS (local/iis/rules) over the effective configuration,   *)
(* or (e = FALSE) over the sections of the file as they are. A rule is the *)
(* set of locations that it reports, <<>> for what is said globally and    *)
(* File for what the file does not say anywhere. Attribute values are      *)
(* words in lower case; lists of flags are sets of words.                  *)
(***************************************************************************)
EXTENDS IisEffective

CONSTANT OldFramework   \* files that lie below the configuration of .NET 2.0 or 3.5

File == <<"(file)">>

WebServer == <<"system.webServer">>
Security == WebServer \o <<"security">>
Authentication == Security \o <<"authentication">>
Scheme(name) == Append(Authentication, name)
AnonymousPath == Scheme("anonymousAuthentication")
OtherSchemes == {Scheme(s) : s \in {"basicAuthentication", "windowsAuthentication", "digestAuthentication"}}
AuthPaths == {Authentication, AnonymousPath} \cup OtherSchemes
FilteringPath == Security \o <<"requestFiltering">>
LimitsPath == Append(FilteringPath, "requestLimits")
ExtensionsPath == Append(FilteringPath, "fileExtensions")
UrlAuthorization == Security \o <<"authorization">>
WebAuthentication == <<"system.web", "authentication">>
FormsPath == Append(WebAuthentication, "forms")
CredentialsPath == Append(FormsPath, "credentials")
UserPath == Append(CredentialsPath, "user")
MachineKeyPath == <<"system.web", "machineKey">>

\* load_defaults: what the schema says of sections that do not say it.
Defaults(path) ==
    CASE path = AnonymousPath -> "enabled" :> "true" @@ "userName" :> "IUSR"
      [] path \in OtherSchemes -> "enabled" :> "false"
      [] path = FilteringPath -> "allowDoubleEscaping" :> "false" @@ "allowHighBitCharacters" :> "true"
                                 @@ "removeServerHeader" :> "false"
      [] path = LimitsPath -> "maxUrl" :> "low" @@ "maxQueryString" :> "low"
      [] path = ExtensionsPath -> "allowUnlisted" :> "true"
      [] path = MachineKeyPath -> "validation" :> "sha1" @@ "compatibilityMode" :> "framework20sp1"
      [] OTHER -> <<>>

Attr(s, a) == IF a \in DOMAIN s.attributes THEN s.attributes[a] ELSE ""
Flags(s, a) == IF a \in DOMAIN s.attributes THEN s.attributes[a] ELSE {}

-----------------------------------------------------------------------------
(* Which sections a rule looks at *)

Document == files["host"]
Views(config, x) == {l \in DOMAIN config : x \in DOMAIN config[l]}
\* Sections of a location that only repeat the global ones are passed over.
Own(config, x) == {l \in Views(config, x) : l = <<>> \/ ~Pure(config[l][x])}

Sections(e, config, x) ==
    IF e THEN {[location |-> l] @@ config[l][x] : l \in Own(config, x)}
    ELSE {s \in ToSet(Document) : Suffix(s.path) = x}

Where(e, config, x, Holds(_)) == {s.location : s \in {s \in Sections(e, config, x) : Holds(s)}}

MissingInFile(e, config, x) ==
    IF IF e THEN x \in DOMAIN config[<<>>] ELSE \E s \in ToSet(Document) : Suffix(s.path) = x
    THEN {} ELSE {File}

\* location_applies_to_scope
MutantApplies(locations, l) == l \in locations
Applies(locations, l) == \E k \in locations : IsPrefix(k, l)

\* get_effective_or_default_section, if one is found or can be made up
MutantDefaulted(config, path, anchors, l) == {s @@ [made |-> FALSE] : s \in ByPath(At(config, l), path)}
Defaulted(config, path, anchors, l) ==
    LET view == At(config, l)
        found == ByPath(view, path)
        Overlaid(s) == [s EXCEPT !.attributes = @ @@ Defaults(path)]
    IN {Overlaid(s) @@ [made |-> Overlaid(s) # s] : s \in found}
       \cup {Overlaid(NoSection) @@ [made |-> TRUE] :
                a \in {a \in anchors : found = {} /\ ByPath(view, a) # {}}}

-----------------------------------------------------------------------------
(* Rules that read one attribute *)

asp_script_error_sent_to_browser(e, c) == Where(e, c, "asp", LAMBDA s : Attr(s, "scriptErrorSentToBrowser") = "true")
compilation_debug_enabled(e, c) == Where(e, c, "compilation", LAMBDA s : Attr(s, "debug") = "true")
custom_errors_off(e, c) == Where(e, c, "customErrors", LAMBDA s : Attr(s, "mode") = "off")
directory_browse_enabled(e, c) == Where(e, c, "directoryBrowse", LAMBDA s : Attr(s, "enabled") = "true")
http_errors_detailed(e, c) == Where(e, c, "httpErrors", LAMBDA s : Attr(s, "errorMode") = "detailed")
trace_enabled(e, c) == Where(e, c, "trace", LAMBDA s : Attr(s, "enabled") = "true")
session_state_cookieless(e, c) ==
    Where(e, c, "sessionState", LAMBDA s : Attr(s, "cookieless") \in {"true", "useuri", "autodetect"})
isapi_cgi_restrictions_allow_unlisted(e, c) ==
    Where(e, c, "isapiCgiRestriction", LAMBDA s :
        \E a \in {"notListedIsapisAllowed", "notListedCgisAllowed"} : Attr(s, a) = "true")
logging_fields_review(e, c) == Where(e, c, "httpLogging", LAMBDA s : Attr(s, "dontLog") # "true")
logging_not_configured(e, c) ==
    Where(e, c, "httpLogging", LAMBDA s : Attr(s, "dontLog") = "true") \cup MissingInFile(e, c, "httpLogging")

handler_write_script_execute_enabled(e, c) ==
    Where(e, c, "handlers", LAMBDA s : LET flags == Flags(s, "accessPolicy") IN
        "write" \in flags /\ flags \cap {"script", "execute"} # {})

\* A binding's information is told by its port and its host name.
Bindings == UNION {ToSet(s.children) : s \in {s \in ToSet(Document) : Suffix(s.path) = "bindings"}}
HttpsBinding == \E b \in Bindings : b.attributes["protocol"] = "https" \/ b.attributes["port"] = "443"
binding_without_host_header ==
    {b.attributes : b \in {b \in Bindings : /\ b.attributes["protocol"] \in {"http", "https"}
                                            /\ b.attributes["host"] = ""}}

ssl_not_required(e, c) ==
    Where(e, c, "access", LAMBDA s : "ssl" \notin Flags(s, "sslFlags"))
        \cup (IF HttpsBinding THEN MissingInFile(e, c, "access") ELSE {})
ssl_weak_cipher_strength(e, c) ==
    Where(e, c, "access", LAMBDA s : "ssl" \in Flags(s, "sslFlags") /\ "ssl128" \notin Flags(s, "sslFlags"))

-----------------------------------------------------------------------------
(* Rules that read the elements of a collection *)

Added(s, name) ==
    SelectSeq(s.children, LAMBDA c : c.tag = "add" /\ "name" \in DOMAIN c.attributes /\ c.attributes["name"] = name)

\* is_global_http_redirect_only: what a site that only redirects serves does not matter.
RedirectsAll(s) == Attr(s, "enabled") = "true" /\ Attr(s, "childOnly") # "true" /\ Attr(s, "destination") # ""
MutantRedirectOnly(config) ==
    "httpRedirect" \in DOMAIN config[<<>>] /\ RedirectsAll(config[<<>>]["httpRedirect"])
RedirectOnly(config) ==
    /\ "httpRedirect" \in DOMAIN config[<<>>]
    /\ \A l \in Views(config, "httpRedirect") : RedirectsAll(config[l]["httpRedirect"])
Unredirected(e, config, found) == IF e /\ RedirectOnly(config) THEN {} ELSE found

Hsts(s) == Added(s, "strict-transport-security")
missing_hsts_header(e, c) ==
    Unredirected(e, c, Where(e, c, "customHeaders", LAMBDA s : Hsts(s) = <<>>) \cup MissingInFile(e, c, "customHeaders"))
hsts_header_unsafe(e, c) ==
    Where(e, c, "customHeaders", LAMBDA s : Hsts(s) # <<>> /\ Hsts(s)[1].attributes["value"] # "good")

\* The values of the header that are left; a value is the set of what it provides for.
ActiveCsp(s) ==
    FoldLeft(LAMBDA values, c :
                 IF c.tag = "clear" THEN <<>>
                 ELSE IF c.attributes["name"] # "content-security-policy" THEN values
                 ELSE IF c.tag = "remove" THEN <<>> ELSE Append(values, c.attributes["value"]),
             <<>>, s.children)
content_security_policy_missing_frame_ancestors(e, c) ==
    Unredirected(e, c, Where(e, c, "customHeaders", LAMBDA s :
        ActiveCsp(s) # <<>> /\ \A i \in DOMAIN ActiveCsp(s) : "frame-ancestors" \notin ActiveCsp(s)[i]))
content_security_policy_missing_reporting_endpoint(e, c) ==
    Unredirected(e, c, Where(e, c, "customHeaders", LAMBDA s :
        \E i \in DOMAIN ActiveCsp(s) : "report" \notin ActiveCsp(s)[i]))

custom_headers_expose_server(e, c) ==
    Where(e, c, "customHeaders", LAMBDA s :
        \E n \in {"x-powered-by", "x-aspnetmvc-version"} :
            /\ Added(s, n) # <<>>
            /\ \A i \in DOMAIN s.children :
                   ~(s.children[i].tag = "remove" /\ s.children[i].attributes = "name" :> n))

max_allowed_content_length_missing(e, c) ==
    Unredirected(e, c, Where(e, c, "requestLimits", LAMBDA s : Attr(s, "maxAllowedContentLength") \in {"", "high"})
                       \cup MissingInFile(e, c, "requestLimits"))

cgi_handler_enabled(e, c) ==
    Where(e, c, "handlers", LAMBDA s : \E i \in DOMAIN s.children :
        s.children[i].tag = "add" /\ "cgimodule" \in s.children[i].attributes["modules"])
webdav_module_enabled(e, c) ==
    Where(e, c, "modules", LAMBDA s : \E i \in DOMAIN s.children :
        s.children[i].tag = "add" /\ s.children[i].attributes["name"] = "webdavmodule")
-----------------------------------------------------------------------------
(* Request filtering: asked of every system.webServer that is not passed over *)

Scopes(config) == {l \in Own(config, "system.webServer") : config[l]["system.webServer"].path = WebServer}
Anchors == {FilteringPath, Security, WebServer}
Filtered(config, path, Holds(_)) ==
    {l \in Scopes(config) : \E s \in Defaulted(config, path, Anchors \ {path}, l) : Holds(s)}

\* effective_request_filtering_section: by the last tag first
FilteringSections(config, l) ==
    LET view == At(config, l)
    IN IF "requestFiltering" \in DOMAIN view
       THEN {[view["requestFiltering"] EXCEPT !.attributes = @ @@ Defaults(FilteringPath)]}
       ELSE Defaulted(config, FilteringPath, {Security, WebServer}, l)
Filtering(e, config, Holds(_)) ==
    IF e THEN {l \in Scopes(config) : \E s \in FilteringSections(config, l) : Holds(s)}
    ELSE Where(FALSE, config, "requestFiltering", Holds)
request_filtering_allow_double_escaping(e, c) == Filtering(e, c, LAMBDA s : Attr(s, "allowDoubleEscaping") = "true")
request_filtering_allow_high_bit(e, c) == Filtering(e, c, LAMBDA s : Attr(s, "allowHighBitCharacters") # "false")

TooHigh(e, c, a) ==
    LET High(s) == Attr(s, a) \notin {"", "low"}
    IN IF e THEN Filtered(c, LimitsPath, High) ELSE Where(FALSE, c, "requestLimits", High)
request_filtering_max_url_too_high(e, c) == TooHigh(e, c, "maxUrl")
request_filtering_max_query_string_too_high(e, c) == TooHigh(e, c, "maxQueryString")

\* The last section for the nearest location that says the attribute: what a file says itself.
Chain(l) == [n \in 1 .. Len(l) + 1 |-> SubSeq(l, 1, Len(l) + 1 - n)]
RawAttribute(x, l, a) ==
    LET At_(k) == SelectSeq(Document, LAMBDA s : Suffix(s.path) = x /\ s.location = k /\ a \in DOMAIN s.attributes)
        saying == SelectSeq(Chain(l), LAMBDA k : At_(k) # <<>>)
    IN IF saying = <<>> THEN "" ELSE Last(At_(saying[1])).attributes[a]
LimitMissing(e, c, a) ==
    IF e THEN Filtered(c, LimitsPath, LAMBDA s : Attr(s, a) = "")
    ELSE Where(FALSE, c, "requestLimits", LAMBDA s : RawAttribute("requestLimits", s.location, a) = "")
request_filtering_max_url_missing(e, c) == LimitMissing(e, c, "maxUrl")
request_filtering_max_query_string_missing(e, c) == LimitMissing(e, c, "maxQueryString")

file_extensions_allow_unlisted(e, c) ==
    LET Unlisted(s) == Attr(s, "allowUnlisted") # "false"
        said == {s.location : s \in Sections(FALSE, c, "fileExtensions")}
    IN IF e THEN Filtered(c, ExtensionsPath, Unlisted)
       ELSE Where(FALSE, c, "fileExtensions", Unlisted)
            \cup Where(FALSE, c, "requestFiltering", LAMBDA s : ~Applies(said, s.location))

request_filtering_remove_server_header_disabled(e, c) ==
    IF e THEN Filtered(c, FilteringPath, LAMBDA s : Attr(s, "removeServerHeader") # "true")
    ELSE Where(FALSE, c, "requestFiltering", LAMBDA s :
             RawAttribute("requestFiltering", s.location, "removeServerHeader") # "true")

-----------------------------------------------------------------------------
(* system.web *)

\* _missing_policy_findings
Unsaid(e, config, x) ==
    LET said == {s.location : s \in Sections(e, config, x)}
    IN Where(e, config, "system.web", LAMBDA s : ~Applies(said, s.location))
Policy(e, config, x, Holds(_)) == Where(e, config, x, Holds) \cup Unsaid(e, config, x)

http_cookies_http_only_disabled(e, c) == Policy(e, c, "httpCookies", LAMBDA s : Attr(s, "httpOnlyCookies") # "true")
http_cookies_require_ssl_missing(e, c) == Policy(e, c, "httpCookies", LAMBDA s : Attr(s, "requireSSL") # "true")
deployment_retail_not_enabled(e, c) == Policy(e, c, "deployment", LAMBDA s : Attr(s, "retail") # "true")
trust_level_full(e, c) == Policy(e, c, "trust", LAMBDA s : Attr(s, "level") \in {"", "full"})

forms_auth_protection_unsafe(e, c) ==
    Where(e, c, "forms", LAMBDA s : s.path = FormsPath /\ Attr(s, "protection") \notin {"", "all"})
credentials_password_format_clear(e, c) ==
    Where(e, c, "credentials", LAMBDA s : s.path = CredentialsPath /\ Attr(s, "passwordFormat") = "clear")
credentials_stored_in_config(e, c) ==
    LET Stored(s) == s.path = UserPath /\ Attr(s, "password") # ""
    IN Where(FALSE, c, "user", Stored) \cup Where(e, c, "user", Stored)

\* Blank and absent attributes of machineKey have the values of the schema.
KeyAttr(s, a) == IF Attr(s, a) = "" THEN Defaults(MachineKeyPath)[a] ELSE Attr(s, a)
SourceFiles(s) == IF "origins" \in DOMAIN s THEN {o.file : o \in ToSet(s.origins)} ELSE {s.file}
Legacy(s) ==
    \/ KeyAttr(s, "compatibilityMode") \in {"framework20sp1", "framework20sp2"}
    \/ SourceFiles(s) \cap OldFramework # {}
machine_key_validation_weak(e, c) ==
    Where(e, c, "machineKey", LAMBDA s :
        ~Legacy(s) /\ KeyAttr(s, "validation") \notin {"hmacsha256", "hmacsha384", "hmacsha512"})
machine_key_legacy_validation_weak(e, c) ==
    Where(e, c, "machineKey", LAMBDA s : Legacy(s) /\ KeyAttr(s, "validation") \notin {"aes", "sha1"})

forms_auth_require_ssl_missing(e, c) ==
    LET forms == IF e THEN Views(c, "forms") ELSE {s.location : s \in Sections(FALSE, c, "forms")}
    IN Where(e, c, "forms", LAMBDA s : Attr(s, "requireSSL") # "true")
       \cup Where(e, c, "authentication", LAMBDA s :
               ~Applies(forms, s.location) /\ s.path = WebAuthentication /\ Attr(s, "mode") = "forms")

http_runtime_version_header_enabled(e, c) ==
    LET said == IF e THEN Views(c, "httpRuntime") ELSE {s.location : s \in Sections(FALSE, c, "httpRuntime")}
    IN Where(e, c, "httpRuntime", LAMBDA s : Attr(s, "enableVersionHeader") # "false")
       \cup Where(e, c, "system.web", LAMBDA s : s.location \notin said)

-----------------------------------------------------------------------------
(* Authentication and authorization *)

AuthAnchors == {Authentication, Security, WebServer}
AuthLocations(config) == {l \in DOMAIN config : \E p \in AuthPaths : ByPath(config[l], p) # {}}
Enabled(config, path, l) ==
    \E s \in Defaulted(config, path, AuthAnchors, l) : Attr(s, "enabled") = "true"

\* The sections of the file for one location; the first with a tag counts.
Group(l) == SelectSeq(Document, LAMBDA s : s.location = l)
InGroup(l, x) == SelectSeq(Group(l), LAMBDA s : Suffix(s.path) = x)
MutantGroupEnables(l, x) == InGroup(l, x) # <<>>
GroupEnables(l, x) == InGroup(l, x) # <<>> /\ Attr(InGroup(l, x)[1], "enabled") = "true"
HasContext(l) == \E s \in ToSet(Group(l)) : s.path \in AuthPaths
GroupLocations == {s.location : s \in ToSet(Document)}

anonymous_auth_enabled(e, c) ==
    IF e THEN {l \in AuthLocations(c) :
                  Enabled(c, AnonymousPath, l) /\ \E p \in OtherSchemes : Enabled(c, p, l)}
    ELSE {l \in GroupLocations :
             /\ HasContext(l)
             /\ \E p \in OtherSchemes : GroupEnables(l, Suffix(p))
             /\ LET said == InGroup(l, "anonymousAuthentication")
                IN IF said = <<>> THEN \E s \in ToSet(Group(l)) : s.path \in AuthAnchors
                   ELSE Attr(said[1], "enabled") # "false"}

SpecificUser(attributes) ==
    LET Of_(a) == IF a \in DOMAIN attributes THEN attributes[a] ELSE ""
    IN /\ Of_("enabled") # "false"
       /\ IF "userName" \in DOMAIN attributes THEN Of_("userName") # "" ELSE Of_("password") # ""
anonymous_auth_uses_specific_user(e, c) ==
    IF e THEN {l \in AuthLocations(c) : \E s \in Defaulted(c, AnonymousPath, AuthAnchors, l) :
                  /\ SpecificUser(s.attributes)
                  /\ l = <<>> \/ ~Pure(s) \/ s.made}
    ELSE {l \in GroupLocations :
             /\ HasContext(l)
             /\ LET said == InGroup(l, "anonymousAuthentication")
                IN IF said # <<>> THEN SpecificUser(said[1].attributes)
                   ELSE (\E s \in ToSet(Group(l)) : s.path \in AuthAnchors) /\ SpecificUser(Defaults(AnonymousPath))}

RequiresSsl(s) == "ssl" \in Flags(s, "sslFlags")
MutantBasic(config, l) ==
    /\ l # <<>> => ~Pure(config[l]["basicAuthentication"])
    /\ "access" \in DOMAIN config[l] => ~RequiresSsl(config[l]["access"])
\* What is only inherited counts where the flags of access are not.
Basic(config, l) ==
    /\ "access" \in DOMAIN config[l] => ~RequiresSsl(config[l]["access"])
    /\ l \in Own(config, "basicAuthentication") \cup Own(config, "access")
basic_auth_without_ssl(e, c) ==
    IF e THEN {l \in Views(c, "basicAuthentication") :
                  Attr(c[l]["basicAuthentication"], "enabled") = "true" /\ Basic(c, l)}
    ELSE {l \in GroupLocations :
             /\ GroupEnables(l, "basicAuthentication")
             /\ InGroup(l, "access") = <<>> \/ ~RequiresSsl(InGroup(l, "access")[1])}

\* An element that allows anyone, before one that denies anyone: users are sets of names.
Anyone(c) == c.attributes["users"] \cap {"?", "*"} # {}
AllowsAnonymous(s) ==
    \E i \in DOMAIN s.children :
        /\ s.children[i].tag = "add" /\ s.children[i].attributes["accessType"] = "allow" /\ Anyone(s.children[i])
        /\ \A j \in 1 .. i - 1 :
               ~(s.children[j].tag = "add" /\ s.children[j].attributes["accessType"] = "deny" /\ Anyone(s.children[j]))
authorization_allows_anonymous_users(e, c) == Where(e, c, "authorization", AllowsAnonymous)

Explicit(children) ==
    \E i \in DOMAIN children : children[i].tag = "add" /\ children[i].attributes["accessType"] \in {"allow", "deny"}
RawAuthorization(l) == SelectSeq(Document, LAMBDA s : s.path = UrlAuthorization /\ s.location = l)
RawChain(l) == SelectSeq(Chain(l), LAMBDA k : RawAuthorization(k) # <<>>)
RawExplicit(l) ==
    Explicit(FoldLeft(LAMBDA children, k : FoldLeft(LAMBDA d, s : MergeChildren(d, s.children), children, RawAuthorization(k)),
                      <<>>, Reverse(Chain(l))))
\* The view of the nearest location, if URL authorization is part of it.
MutantNearestAuthorization(config, l) ==
    {config[k]["authorization"] : k \in {k \in {l} : "authorization" \in DOMAIN config[k] /\ config[k]["authorization"].path = UrlAuthorization}}
NearestAuthorization(config, l) ==
    LET OfUrls(s) == \E o \in ToSet(s.origins) : o.path = UrlAuthorization
        views == {k \in Views(config, "authorization") : IsPrefix(k, l) /\ OfUrls(config[k]["authorization"])}
    IN {config[k]["authorization"] : k \in {k \in views : \A m \in views : IsPrefix(m, k)}}
RawEmpty(l) == {k \in {k \in ToSet(RawChain(l)) : k = RawChain(l)[1]} : \E s \in ToSet(RawAuthorization(k)) : ~Explicit(s.children)}
authorization_policy_missing(e, c) ==
    IF e THEN {l \in Own(c, "system.webServer") :
                  /\ \A s \in NearestAuthorization(c, l) : ~Explicit(s.children)
                  /\ RawChain(l) # <<>> => ~RawExplicit(l)}
    ELSE UNION {IF RawChain(l) = <<>> THEN {l} ELSE IF RawExplicit(l) THEN {} ELSE RawEmpty(l) :
                   l \in {s.location : s \in Sections(FALSE, c, "system.webServer")}}

-----------------------------------------------------------------------------
(* Properties, for what IIS puts in force (IisEffective) *)

Locally(paths, l) ==
    l = <<>> \/ \E s \in ToSet(Document) : s.path \in paths /\ s.location # <<>> /\ IsPrefix(s.location, l)
AttributeOf(path, l, a) == LET said == Attributes(Said(path, l)) IN IF a \in DOMAIN said THEN said[a] ELSE ""
DefaultOr(path, l, a) ==
    LET said == Attributes(Said(path, l)) IN IF a \in DOMAIN said THEN said[a] ELSE Defaults(path)[a]
Reported(found, l) == \E k \in found : k = File \/ IsPrefix(k, l)

Settings(c) ==
    LET In(tag) == <<"system.webServer", tag>> Web(tag) == <<"system.web", tag>>
    IN {<<asp_script_error_sent_to_browser(TRUE, c), In("asp"), "scriptErrorSentToBrowser", {"true"}>>,
        <<compilation_debug_enabled(TRUE, c), Web("compilation"), "debug", {"true"}>>,
        <<custom_errors_off(TRUE, c), Web("customErrors"), "mode", {"off"}>>,
        <<directory_browse_enabled(TRUE, c), In("directoryBrowse"), "enabled", {"true"}>>,
        <<http_errors_detailed(TRUE, c), In("httpErrors"), "errorMode", {"detailed"}>>,
        <<trace_enabled(TRUE, c), Web("trace"), "enabled", {"true"}>>,
        <<session_state_cookieless(TRUE, c), Web("sessionState"), "cookieless", {"true", "useuri", "autodetect"}>>,
        <<logging_fields_review(TRUE, c), In("httpLogging"), "dontLog", {"", "false"}>>}

\* A setting is reported for a location exactly if it is in force there and some
\* <location> on the way says the section (or globally): an unsafe value that is
\* overridden is not reported, one that comes from above is, and only once.
SettingsAreExact ==
    LET c == Base IN \A r \in Settings(c) : \A l \in DOMAIN c :
        l \in r[1] <=> /\ Said(r[2], l) # <<>> /\ Locally({r[2]}, l)
                       /\ AttributeOf(r[2], l, r[3]) \in r[4]

\* The flags of handlers and of access are those in force, too.
FlagsAreExact ==
    LET c == Base
        FlagsOf(path, l, a) == LET said == Attributes(Said(path, l)) IN IF a \in DOMAIN said THEN said[a] ELSE {}
        handlers == WebServer \o <<"handlers">>
        access == Security \o <<"access">>
    IN \A l \in DOMAIN c :
        /\ l \in handler_write_script_execute_enabled(TRUE, c) <=>
               Locally({handlers}, l) /\ \E d \in {"script", "execute"} : {"write", d} \subseteq FlagsOf(handlers, l, "accessPolicy")
        /\ l \in ssl_weak_cipher_strength(TRUE, c) <=>
               Locally({access}, l) /\ {"ssl", "ssl128"} \cap FlagsOf(access, l, "sslFlags") = {"ssl"}

\* If no rule says so, every response that is not a redirect carries HSTS.
HstsSilenceIsEarned ==
    LET c == Base
        redirect == WebServer \o <<"httpRedirect">>
        Redirected(l) == /\ AttributeOf(redirect, l, "enabled") = "true" /\ AttributeOf(redirect, l, "destination") # ""
                         /\ AttributeOf(redirect, l, "childOnly") # "true"
        headers == WebServer \o <<"httpProtocol", "customHeaders">>
        Sent(l) == \E o \in ToSet(Elements(Said(headers, l))) : o.attributes["name"] = "strict-transport-security"
    IN \A l \in DOMAIN c : ~Redirected(l) /\ ~Sent(l) => Reported(missing_hsts_header(TRUE, c), l)

\* A header that discloses the server is reported exactly where it is sent,
\* after all that clears or removes it.
ExposureIsExact ==
    LET c == Base
        headers == WebServer \o <<"httpProtocol", "customHeaders">>
        Sent(l) == \E o \in ToSet(Elements(Said(headers, l))) : o.attributes["name"] = "x-powered-by"
    IN \A l \in DOMAIN c : l \in custom_headers_expose_server(TRUE, c) <=> Locally({headers}, l) /\ Sent(l)

\* Basic authentication without SSL is found although the two are said in
\* different sections at different locations.
BasicIsExact ==
    LET c == Base
        basic == Scheme("basicAuthentication")
        access == Security \o <<"access">>
        Ssl(l) == LET said == Attributes(Said(access, l)) IN "sslFlags" \in DOMAIN said /\ "ssl" \in said["sslFlags"]
    IN \A l \in DOMAIN c :
        l \in basic_auth_without_ssl(TRUE, c) <=>
            AttributeOf(basic, l, "enabled") = "true" /\ ~Ssl(l) /\ Locally({basic, access}, l)

\* Anonymous authentication beside another scheme is found where both are in
\* force, by default or not, whatever locations say them.
AnonymousIsExact ==
    LET c == Base IN \A l \in DOMAIN c :
        l \in anonymous_auth_enabled(TRUE, c) <=>
            /\ DefaultOr(AnonymousPath, l, "enabled") = "true"
            /\ \E p \in OtherSchemes : DefaultOr(p, l, "enabled") = "true"

\* Request filtering is judged by what is in force for each system.webServer of a
\* location, the defaults of the schema where nothing is said.
FilteringIsExact ==
    LET c == Base
        Asked(l) == \E s \in UNION {ToSet(files[f]) : f \in DOMAIN files} :
                        Head(s.path) = "system.webServer" /\ IF l = <<>> THEN s.location = <<>>
                                                             ELSE s.location # <<>> /\ IsPrefix(s.location, l)
    IN \A l \in DOMAIN c :
        /\ l \in file_extensions_allow_unlisted(TRUE, c) <=>
               Asked(l) /\ DefaultOr(ExtensionsPath, l, "allowUnlisted") # "false"
        /\ l \in request_filtering_allow_double_escaping(TRUE, c) <=>
               Asked(l) /\ DefaultOr(FilteringPath, l, "allowDoubleEscaping") = "true"
        /\ l \in request_filtering_max_url_too_high(TRUE, c) <=>
               Asked(l) /\ DefaultOr(LimitsPath, l, "maxUrl") \notin {"", "low"}

\* A policy of system.web that must be said is reported once: for the locations
\* that say it badly, or for each system.web that inherits it from nowhere.
PolicyIsExact ==
    LET c == Base
        path == <<"system.web", "deployment">>
        scopes == {s.location : s \in {s \in UNION {ToSet(files[f]) : f \in DOMAIN files} : Head(s.path) = "system.web"}}
        Asked(l) == IF l = <<>> THEN l \in scopes ELSE \E k \in scopes : k # <<>> /\ IsPrefix(k, l)
    IN \A l \in DOMAIN c :
        l \in deployment_retail_not_enabled(TRUE, c) <=>
            /\ AttributeOf(path, l, "retail") # "true"
            /\ IF Said(path, l) = <<>> THEN Asked(l) ELSE Locally({path}, l)

\* Every system.webServer for whose requests no authorization rule is left is
\* reported, and no other.
AuthorizationIsExact ==
    LET c == Base IN \A l \in Own(c, "system.webServer") :
        l \in authorization_policy_missing(TRUE, c) <=> ~Explicit(Elements(Said(UrlAuthorization, l)))

\* For a file without locations the sections as they are tell the same as the
\* effective configuration, but for what only the schema says.
RawAgrees ==
    LET c == Base
        Rules(e) == <<directory_browse_enabled(e, c), logging_not_configured(e, c), ssl_not_required(e, c),
                      forms_auth_require_ssl_missing(e, c), http_runtime_version_header_enabled(e, c),
                      deployment_retail_not_enabled(e, c), anonymous_auth_enabled(e, c),
                      anonymous_auth_uses_specific_user(e, c), basic_auth_without_ssl(e, c),
                      authorization_policy_missing(e, c)>>
    IN files["machine"] = <<>> /\ Loadable /\ (\A s \in ToSet(Document) : s.location = <<>>)
           => Rules(TRUE) = Rules(FALSE)

=============================================================================
