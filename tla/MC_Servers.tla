------------------------------- MODULE MC_Servers -------------------------------
(***************************************************************************)
(* What is said of a configuration of lighttpd or of IIS: what its scopes  *)
(* come to, and the rules. `part` is the question; each has its own        *)
(* vocabulary, and some ask it of configurations of its own kind only.     *)
(***************************************************************************)
EXTENDS Integers, Sequences, FiniteSets, TLC

VARIABLES
    part,
    statements, blocks, globals, scopes, open, chains, topic, host, findings,
    files

lighttpdVars == <<statements, blocks, globals, scopes, open, chains, topic, host, findings>>
serverVars == <<part, lighttpdVars, files>>

-----------------------------------------------------------------------------
(* lighttpd: blocks ask for a host, a socket, an address or a url. *)

Cond(variable, operator, value) == [variable |-> variable, operator |-> operator, value |-> value]
Host(operator, value) == Cond("host", operator, <<value>>)
Assign(name, operator, text) == [name |-> name, operator |-> operator, text |-> text]
A(name, text) == Assign(name, "=", text)
Enable(name) == A(name, {"enable"})
Disable(name) == A(name, {"disable"})
Headers == "setenv.add-response-header"
Deny == "url.access-deny"
Conf == "ssl.openssl.ssl-conf-cmd"

Logs == {A("server.modules", {"mod_accesslog", "mod_cgi"}), A("accesslog.filename", {"log"}),
         A("accesslog.format", {"partial"})}
Auth == {A("auth.require", {"basic"}), A("auth.backend", {"htpasswd"}), Enable("ssl.engine"), Disable("ssl.engine")}
WebDav == {Enable("webdav.activate"), Enable("webdav.is-readonly"), Disable("webdav.is-readonly")}
Limits == {A("server.max-request-size", {t}) : t \in {"high", "zero", "fine"}}
Tls == {Enable("ssl.engine"), Enable("ssl.honor-cipher-order"), A(Conf, {"min TLSv1.2", "compression"})}
Order == {Enable("ssl.engine"), Enable("ssl.honor-cipher-order"), Disable("ssl.honor-cipher-order")}
Versions == {Enable("ssl.engine"), A(Conf, {"TLSv1"}), Enable("ssl.use-sslv2")}
Sent == {A(Headers, {"csp", "hsts", "xfo"}), A(Headers, {"unsafe csp", "referrer"}), A(Headers, {"unsafe hsts"})}
Redirecting == {A("server.name", {"name"}), A("server.modules", {"mod_redirect"}),
                A("url.redirect", {"all to https"}), A("url.redirect", {"some"})}
Denied == {A(Deny, {"inc", "backup", "config", "generated"}), A(Deny, {"vcs"}), Assign(Deny, "+=", {"vcs"})}
Shown == {Enable("dir-listing.activate"), Disable("dir-listing.activate"), A("server.tag", {"blank"})}
Saying(operators) == {{Assign("n", o, "on") : o \in operators}}

Question(conditions, topics, hosts, max) ==
    [conditions |-> conditions, topics |-> topics, hosts |-> hosts, max |-> max]
HostAOrB == {<<"a">>, <<"b">>}
LighttpdQuestions ==
    "merging" :> Question({Host("==", "a"), Host("!=", "a"), Host("=^", "a"), Host("=$", "b")},
                          Saying({"="}), HostAOrB \cup {<<"a", "b">>}, 4)
    @@ "appending" :> Question({Host("==", "a"), Host("!=", "a"), Cond("port", "==", <<"a">>)},
                               Saying({"=", "+="}), HostAOrB, 4)
    @@ "of a host" :> Question({Host("==", "a"), Host("!=", "a")},
                               {Logs, Limits, Tls, Sent, Redirecting, Shown}, HostAOrB, 3)
    @@ "of no host" :> Question({Host("==", "a"), Cond("url", "==", <<"a">>)},
                                {Auth, WebDav, Denied, Limits}, HostAOrB, 3)
    @@ "of no host, nested" :> Question({Host("==", "a"), Cond("url", "==", <<"a">>)}, {Versions, Order}, HostAOrB, 4)
    @@ "sockets" :> Question({Cond("socket", "==", <<"443">>), Cond("socket", "==", <<"a">>), Host("==", "a")},
                             {{A("server.port", {"443"}), Enable("ssl.engine"), Disable("ssl.engine")}}, {<<"a">>, <<"443">>}, 4)
    @@ "addresses" :> Question({Cond("remoteip", "==", <<"local">>), Host("==", "a")},
                               {{A("status.status-url", {"url"})}}, {<<"a">>, <<"local">>}, 4)

Lighttpd(q) == INSTANCE LighttpdRules WITH
    Conditions <- LighttpdQuestions[q].conditions, Assignments <- UNION LighttpdQuestions[q].topics,
    Topics <- LighttpdQuestions[q].topics, Hosts <- LighttpdQuestions[q].hosts,
    MaxStatements <- LighttpdQuestions[q].max

-----------------------------------------------------------------------------
(* IIS: a site, an application in it and a folder of that. *)

Site == <<"site">>
Application == <<"site", "app">>
AllLocations == {Site, Application, <<"site", "app", "folder">>}

Op(tag, attributes) == [tag |-> tag, attributes |-> attributes]
Says(path, attributes, children) == [path |-> path, attributes |-> attributes, children |-> children]
Set(path, attributes) == Says(path, attributes, <<>>)
List(path, children) == Says(path, <<>>, children)
Two(path, a, good, bad) == {Set(path, a :> good), Set(path, a :> bad)}
In(tag) == <<"system.webServer", tag>>
Web(tag) == <<"system.web", tag>>
Security(tag) == <<"system.webServer", "security", tag>>
Scheme(tag) == <<"system.webServer", "security", "authentication", tag>>
Custom == <<"system.webServer", "httpProtocol", "customHeaders">>
Filtering(tag) == <<"system.webServer", "security", "requestFiltering", tag>>
Forms == <<"system.web", "authentication", "forms">>
Flags(flags) == {Set(Security("access"), "sslFlags" :> f) : f \in flags}
Name(n) == "name" :> n
Handler(verb) == "path" :> "p" @@ "verb" :> verb
Rule(access, users) == Op("add", "accessType" :> access @@ "users" :> users)
Binding == Op("binding", "protocol" :> "https" @@ "port" :> "444" @@ "host" :> "")
Browsing == Set(In("directoryBrowse"), "enabled" :> "true")
Tracing == Set(Web("trace"), "enabled" :> "true")

Collections ==
    {List(In("handlers"), <<Op("add", Name("a")), Op("add", Name("b"))>>),
     Says(In("handlers"), "policy" :> "read", <<Op("clear", <<>>), Op("add", Name("a"))>>),
     Says(In("handlers"), "policy" :> "write", <<Op("remove", Name("a")), Op("remove", <<>>)>>),
     Says(In("handlers"), "mode" :> "x", <<Op("add", Handler("get")), Op("add", Handler("put"))>>),
     Says(In("handlers"), "mode" :> "y", <<Op("remove", Handler("get"))>>)}
SettingContents ==
    Two(In("asp"), "scriptErrorSentToBrowser", "false", "true") \cup Two(Web("compilation"), "debug", "false", "true")
    \cup Two(Web("customErrors"), "mode", "on", "off") \cup Two(In("directoryBrowse"), "enabled", "false", "true")
    \cup Two(In("httpErrors"), "errorMode", "custom", "detailed") \cup Two(Web("trace"), "enabled", "false", "true")
    \cup Two(Web("sessionState"), "cookieless", "usecookies", "useuri")
    \cup Two(In("httpLogging"), "dontLog", "false", "true") \cup {Set(In("httpLogging"), "format" :> "w3c")}
FlagContents ==
    {Set(In("handlers"), "accessPolicy" :> f) : f \in {{"write"}, {"read", "script"}, {"write", "execute"}}}
    \cup Flags({{"ssl"}, {"ssl", "ssl128"}, {}}) \cup {List(In("handlers"), <<Op("clear", <<>>)>>)}
Hsts == Name("strict-transport-security")
HstsContents ==
    {List(Custom, <<Op("add", Hsts @@ "value" :> "good")>>), List(Custom, <<Op("remove", Hsts)>>),
     Set(In("httpRedirect"), "enabled" :> "true" @@ "destination" :> "there"),
     Set(In("httpRedirect"), "enabled" :> "false"), Set(In("httpRedirect"), "childOnly" :> "true")}
PoweredBy == Name("x-powered-by")
Server == Name("other")
ExposingContents ==
    {List(Custom, <<Op("add", PoweredBy @@ "value" :> "x"), Op("add", Server @@ "value" :> "x")>>),
     List(Custom, <<Op("add", Server @@ "value" :> "x")>>), List(Custom, <<Op("remove", PoweredBy)>>),
     List(Custom, <<Op("remove", Server)>>), List(Custom, <<Op("clear", <<>>)>>)}
BasicContents == Two(Scheme("basicAuthentication"), "enabled", "false", "true") \cup Flags({{"ssl"}, {}})
AnonymousContents ==
    Two(Scheme("anonymousAuthentication"), "enabled", "false", "true")
    \cup Two(Scheme("basicAuthentication"), "enabled", "false", "true")
    \cup {Set(Scheme("anonymousAuthentication"), "userName" :> "me"),
          Set(Scheme("windowsAuthentication"), "enabled" :> "true")}
FilteringContents ==
    Two(Security("requestFiltering"), "allowDoubleEscaping", "false", "true")
    \cup Two(Filtering("requestLimits"), "maxUrl", "low", "high")
    \cup Two(Filtering("fileExtensions"), "allowUnlisted", "false", "true") \cup {Browsing, Tracing}
PolicyContents == Two(Web("deployment"), "retail", "true", "false") \cup {Set(Web("deployment"), "other" :> "x"), Tracing}
AuthorizationContents ==
    {List(Security("authorization"), <<Rule("allow", {"me"})>>), List(Security("authorization"), <<Op("clear", <<>>)>>),
     List(Security("authorization"), <<Op("remove", "users" :> {"me"} @@ "accessType" :> "allow")>>), Browsing,
     List(Web("authorization"), <<Op("allow", "users" :> {"me"})>>)}
MixedContents ==
    {Browsing, Set(In("httpLogging"), "dontLog" :> "true"),
     List(<<"system.applicationHost", "sites", "site", "bindings">>, <<Binding>>),
     Set(Web("httpRuntime"), "enableVersionHeader" :> "false"), Set(Web("deployment"), "retail" :> "true"),
     Set(Scheme("anonymousAuthentication"), "enabled" :> "false"),
     Set(Scheme("anonymousAuthentication"), "enabled" :> "true" @@ "userName" :> ""),
     List(Security("authorization"), <<Rule("deny", {"?"})>>), List(Security("authorization"), <<Op("clear", <<>>)>>)}
    \cup Flags({{"ssl"}, {}}) \cup Two(Forms, "requireSSL", "true", "false")
    \cup Two(Scheme("basicAuthentication"), "enabled", "false", "true")

Reading(contents, locations, of, max) ==
    [contents |-> contents, locations |-> locations, files |-> of, max |-> max]
HostFiles == {"machine", "host"}
TwoLocations == {Site, Application}
IisQuestions ==
    "views" :> Reading(Collections, AllLocations, HostFiles, 3)
    @@ "application" :> Reading(Collections, AllLocations, HostFiles \cup {"web"}, 3)
    @@ "settings" :> Reading(SettingContents, TwoLocations, HostFiles, 2)
    @@ "flags" :> Reading(FlagContents, TwoLocations, HostFiles, 3)
    @@ "hsts" :> Reading(HstsContents, TwoLocations, {"host"}, 4)
    @@ "exposure" :> Reading(ExposingContents, TwoLocations, HostFiles, 3)
    @@ "basic" :> Reading(BasicContents, TwoLocations, HostFiles, 3)
    @@ "anonymous" :> Reading(AnonymousContents, TwoLocations, {"host"}, 3)
    @@ "filtering" :> Reading(FilteringContents, TwoLocations, HostFiles, 3)
    @@ "policies" :> Reading(PolicyContents, TwoLocations, HostFiles, 3)
    @@ "authorization" :> Reading(AuthorizationContents, TwoLocations, HostFiles, 3)
    @@ "raw" :> Reading(MixedContents, {}, {"host"}, 3)

Iis(q) == INSTANCE IisRules WITH
    Contents <- IisQuestions[q].contents, Locations <- IisQuestions[q].locations, Inherits <- {TRUE},
    App <- Application, OldFramework <- {"machine"}, Files <- IisQuestions[q].files, MaxSections <- IisQuestions[q].max

-----------------------------------------------------------------------------

Resting == "resting"
\* No rule is asked, and what holds is asked for every host.
Merging == {"merging", "appending"}
LighttpdRests ==
    /\ statements = Resting /\ blocks = Resting /\ globals = Resting /\ scopes = Resting
    /\ open = Resting /\ chains = Resting /\ topic = Resting /\ host = Resting /\ findings = Resting
IisRests == files = Resting

ServersInit ==
    \/ \E q \in DOMAIN LighttpdQuestions : part = q /\ Lighttpd(q)!RulesInit /\ IisRests
            /\ (q \in Merging => host = <<>>)
    \/ \E q \in DOMAIN IisQuestions : part = q /\ Iis(q)!Init /\ LighttpdRests

ReadLighttpd(q) ==
    IF q \in Merging THEN Lighttpd(q)!ReadOn ELSE Lighttpd(q)!RulesNext

ServersNext ==
    /\ UNCHANGED part
    /\ \/ \E q \in DOMAIN LighttpdQuestions : part = q /\ ReadLighttpd(q) /\ UNCHANGED files
       \/ \E q \in DOMAIN IisQuestions : part = q /\ Iis(q)!Next /\ UNCHANGED lighttpdVars

ServersSpec == ServersInit /\ [][ServersNext]_serverVars

-----------------------------------------------------------------------------
(* Properties: those of the modules. *)

\* A view of lighttpd's configuration holds what requests meet, and a rule that is silent
\* about it has nothing to say (LighttpdEffective, LighttpdRules).
LighttpdIsSound ==
    /\ part = "merging" => Lighttpd("merging")!MergedIsInForce
    /\ part = "appending" => Lighttpd("appending")!MergedIsPossible /\ Lighttpd("appending")!NeighboursAreCompatible
    /\ part = "of a host" => Lighttpd("of a host")!HostViewIsExact
    /\ part = "of no host" => Lighttpd("of no host")!SilenceIsEarned
    /\ part = "of no host, nested" => Lighttpd("of no host, nested")!SilenceIsEarned
    /\ part = "sockets" => Lighttpd("sockets")!EngineIsOn
    /\ part = "addresses" => Lighttpd("addresses")!StatusIsRestricted

\* A view of IIS's configuration is what IIS puts in force there, and a rule reports a
\* location exactly where that is amiss (IisEffective, IisRules).
IisIsSound ==
    /\ part = "views" => Iis("views")!TypeOK /\ Iis("views")!ViewIsInForce
    /\ part = "application" => Iis("application")!AppIsInForce /\ Iis("application")!PassedOverIsGlobal
    /\ part = "settings" => Iis("settings")!SettingsAreExact
    /\ part = "flags" => Iis("flags")!FlagsAreExact
    /\ part = "hsts" => Iis("hsts")!HstsSilenceIsEarned
    /\ part = "exposure" => Iis("exposure")!ExposureIsExact
    /\ part = "basic" => Iis("basic")!BasicIsExact
    /\ part = "anonymous" => Iis("anonymous")!AnonymousIsExact
    /\ part = "filtering" => Iis("filtering")!FilteringIsExact
    /\ part = "policies" => Iis("policies")!PolicyIsExact
    /\ part = "authorization" => Iis("authorization")!AuthorizationIsExact
    /\ part = "raw" => Iis("raw")!RawAgrees

=============================================================================
