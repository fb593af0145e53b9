--------------------------- MODULE ExternalAnalysis ---------------------------
(***************************************************************************)
(* analyze_external_target: from the endpoints it was given or discovered  *)
(* to the AnalysisResult with its manifest.  Every endpoint is probed, the *)
(* ones that answered HTTP are provoked into error pages, the answers vote *)
(* on the type of the server, the type decides which status pages are      *)
(* asked for, and run_external_rules judges what was seen.                 *)
(*                                                                         *)
(* How one endpoint is probed is in ExternalProbe, how redirects are       *)
(* followed in RedirectChain, how endpoints are discovered in PortScan.    *)
(* The rules are one or two of every group the runner treats differently.  *)
(***************************************************************************)
EXTENDS ExecutionManifest, SequencesExt

CONSTANTS
    Server,          \* server types the signatures tell apart
    Endpoints,       \* the probe targets, in order: pairwise distinct
    Answers,         \* Answers[e]: the HTTP answers endpoint e may give
    Pages,           \* the server types default error pages betray; may include "none"
    MalformedReplies,\* [server, body]: what a reply to a malformed request betrays
    Requirements,    \* the sets of rules a policy may require
    SortedRules      \* all rules, in the order of their identifiers

(***************************************************************************)
(* The rules, by group (_runner.py), without the prefix "external.".       *)
(***************************************************************************)
AvailabilityRules == <<"https_not_available">>
RedirectRules     == <<"http_not_redirected_to_https">>
HstsRules         == <<"hsts_header_missing">>
HeaderRules       == <<"x_frame_options_missing">>
DisclosureRules   == <<"server_version_disclosed", "x_powered_by_header_present",
                       "x_aspnet_version_header_present">>
OpenRules         == <<"cors_wildcard_origin", "unknown_host_runtime_response">>
TlsRules          == <<"certificate_expired">>
PathRules         == <<"server_status_exposed">>

\* Registered by @rule and called by collect_tls_findings, but not among the metas
\* the groups of the runner are built from.
UngroupedRules == {"tls_ct_log_evidence_missing"}

\* The three rules _collect_server_scoped_group runs, and _CONDITIONAL_RULES.
ScopedRules == <<"nginx.redirect_target_unexpected", "iis.server_header_removal_not_applied">>
ConditionalRules == <<"nginx.version_disclosed_in_server_header",
                      "apache.version_disclosed_in_server_header",
                      "apache.mod_status_public", "iis.aspnet_version_header_present",
                      "lighttpd.version_in_server_header", "lighttpd.mod_status_public">>

Grouped == AvailabilityRules \o RedirectRules \o HstsRules \o HeaderRules
           \o DisclosureRules \o ScopedRules \o OpenRules \o TlsRules
           \o PathRules \o ConditionalRules

RulesFor(t) ==
    CASE t = "nginx"    -> {"nginx.redirect_target_unexpected",
                            "nginx.version_disclosed_in_server_header"}
      [] t = "apache"   -> {"apache.version_disclosed_in_server_header",
                            "apache.mod_status_public"}
      [] t = "iis"      -> {"iis.server_header_removal_not_applied",
                            "iis.aspnet_version_header_present"}
      [] t = "lighttpd" -> {"lighttpd.version_in_server_header",
                            "lighttpd.mod_status_public"}

ServerScoped == ToSet(ScopedRules) \cup ToSet(ConditionalRules)
ConditionOf(r) == CHOOSE t \in {"nginx", "apache", "iis", "lighttpd"} : r \in RulesFor(t)

StatusPath == {"/server-status", "/server-status?auto"}

\* Values of X-AspNet-Version and X-Powered-By; those with a version (_VERSION_PATTERN)
\* and those that name ASP.NET.
AspNetValues    == {"4.0.30319", "hidden"}
PoweredByValues == {"ASP.NET", "ASP.NET/4.8", "PHP/8.2", "Express"}
Versioned       == {"4.0.30319", "ASP.NET/4.8", "PHP/8.2"}
NamingAspNet    == {"ASP.NET", "ASP.NET/4.8"}

VARIABLES
    analysing,   \* the step analyze_external_target is at
    endpoint,    \* the endpoint this step is to visit next
    required,    \* the rules the policy requires
    seen,        \* seen[e]: the attempt on e, or Unvisited
    errorPage,   \* errorPage[e]: what its default error page betrays
    malformed,   \* malformed[e]: what its reply to a malformed request betrays
    identified,  \* the ServerIdentification
    open,        \* open[e]: the status pages of e that answered 200
    asked,       \* asked[e]: the status pages e was asked for
    recorder,    \* the RuleExecutionRecorder
    judged,      \* history variable: the rules whose function looked at an answer
    findings,    \* <<rule, endpoint, subject>>; of the other rules nothing is kept
    issues,      \* the codes of the AnalysisIssues
    manifest     \* the manifest attached to the result

analysisVars == <<analysing, endpoint, required, seen, errorPage, malformed, identified, open,
                  asked, recorder, judged, findings, issues, manifest>>

None       == "none"
Unvisited  == [http |-> FALSE, server |-> None, version |-> FALSE, aspnet |-> None,
               powered |-> None, cookie |-> FALSE]
NoManifest == [error |-> "unbuilt"]
Quiet      == [server |-> None, body |-> None]
Unclassified == [type |-> None, confidence |-> None, ambiguous |-> FALSE, candidates |-> {}]

Endpoint   == {Endpoints[i].url : i \in DOMAIN Endpoints}
At(i)      == Endpoints[i].url
SchemeOf(e) == (CHOOSE t \in {Endpoints[i] : i \in DOMAIN Endpoints} : t.url = e).scheme

\* The endpoints are distinct, every rule of the runner is registered, and "none" is
\* no type of server.
AnalysisAssumption ==
    /\ Endpoints # <<>>
    /\ Endpoints \in Seq([url : DOMAIN Answers, scheme : {"http", "https"}])
    /\ \A i, j \in DOMAIN Endpoints : At(i) = At(j) => i = j
    /\ IsFiniteSet(Server) /\ None \notin Server
    /\ \A e \in Endpoint : Answers[e] \subseteq
           [http : {TRUE}, server : Server \cup {None}, version : BOOLEAN, cookie : BOOLEAN,
            aspnet : AspNetValues \cup {None}, powered : PoweredByValues \cup {None}]
    /\ Pages \subseteq Server \cup {None}
    /\ MalformedReplies \subseteq [server : Server \cup {None}, body : Server \cup {None}]
    /\ ToSet(Grouped) \cup UngroupedRules \subseteq Rule
    /\ Requirements \subseteq SUBSET Rule
    /\ SortedRules \in Seq(Rule) /\ ToSet(SortedRules) = Rule
    /\ \A i, j \in DOMAIN SortedRules : SortedRules[i] = SortedRules[j] => i = j

Responded  == {e \in Endpoint : seen[e].http}
AnyAnswer  == Responded # {}
AnswerOver(scheme) == \E e \in Responded : SchemeOf(e) = scheme

(***************************************************************************)
(* _identify_server: three tiers of votes; the first tier that has any     *)
(* decides.  Evidence that casts no vote (Via, PHP) changes nothing here.  *)
(***************************************************************************)
HeaderVotes == [t \in Server |->
    2 * Cardinality({e \in Responded : seen[e].server = t})
    + 2 * Cardinality({e \in Endpoint : malformed[e].server = t})]
BodyVotes == [t \in Server |->
    Cardinality({e \in Endpoint : errorPage[e] = t})
    + Cardinality({e \in Endpoint : malformed[e].body = t})]
StackVotes == [t \in Server |->
    IF t = "iis" THEN Cardinality({e \in Responded : seen[e].powered \in NamingAspNet})
                      + Cardinality({e \in Responded : seen[e].aspnet # None})
                      + Cardinality({e \in Responded : seen[e].cookie})
    ELSE 0]

Voted(votes) == {t \in Server : votes[t] > 0}

\* _identify_server_from_votes on a tier that has votes.
Verdict(votes, strong) ==
    LET best == CHOOSE t \in Voted(votes) : TRUE IN
    IF Cardinality(Voted(votes)) > 1
    THEN [type |-> None, confidence |-> None, ambiguous |-> TRUE, candidates |-> Voted(votes)]
    ELSE [type |-> best, ambiguous |-> FALSE, candidates |-> {best},
          confidence |-> IF strong THEN "high" ELSE IF votes[best] > 1 THEN "medium" ELSE "low"]

\* Mutant: a tie in the headers is broken by the error pages.
MutantIdentification ==
    IF Cardinality(Voted(HeaderVotes)) = 1 THEN Verdict(HeaderVotes, TRUE)
    ELSE IF Voted(BodyVotes) # {}  THEN Verdict(BodyVotes, FALSE)
    ELSE IF Voted(StackVotes) # {} THEN Verdict(StackVotes, FALSE)
    ELSE Unclassified

Identification ==
    IF Voted(HeaderVotes) # {}     THEN Verdict(HeaderVotes, TRUE)
    ELSE IF Voted(BodyVotes) # {}  THEN Verdict(BodyVotes, FALSE)
    ELSE IF Voted(StackVotes) # {} THEN Verdict(StackVotes, FALSE)
    ELSE Unclassified

Confident == identified.confidence \in {"medium", "high"}

\* _server_incompatible, and _is_conditional_server_match.
Incompatible(r) == Confident /\ identified.type # ConditionOf(r)
Applicable(r)   == Confident /\ identified.type = ConditionOf(r)

(***************************************************************************)
(* Actions, in the order of analyze_external_target.                       *)
(***************************************************************************)
AnalysisInit ==
    /\ analysing = "resolve" /\ endpoint = 1
    /\ required \in Requirements
    /\ seen      = [e \in Endpoint |-> Unvisited]
    /\ errorPage = [e \in Endpoint |-> None]
    /\ malformed = [e \in Endpoint |-> Quiet]
    /\ open      = [e \in Endpoint |-> {}]
    /\ asked     = [e \in Endpoint |-> {}]
    /\ identified = Unclassified
    /\ recorder = EmptyRecorder
    /\ judged = {} /\ findings = {} /\ issues = {} /\ manifest = NoManifest

observations == <<seen, errorPage, malformed, identified, open, asked>>
concluded    == <<recorder, judged, findings, issues, manifest>>

\* _resolve_probe_targets gives none: the target does not parse, its hostname is
\* invalid, or the port scan found no open port.
NoTargets ==
    /\ analysing = "resolve"
    /\ \E code \in {"external_invalid_target", "external_no_open_ports"} : issues' = {code}
    /\ analysing' = "attach"
    /\ UNCHANGED <<endpoint, required, observations, recorder, judged, findings, manifest>>

Resolve ==
    /\ analysing = "resolve"
    /\ analysing' = "probe"
    /\ UNCHANGED <<endpoint, required, observations, concluded>>

\* A loop over the endpoints: step p visits the next one, and after the last one
\* step q begins.
Visiting(p, q) ==
    /\ analysing = p
    /\ IF endpoint < Len(Endpoints) THEN analysing' = p /\ endpoint' = endpoint + 1
                                    ELSE analysing' = q /\ endpoint' = 1

\* _probe_attempts.
Probe ==
    /\ Visiting("probe", "redirects")
    /\ \E answer \in Answers[At(endpoint)] \cup {Unvisited} :
          seen' = [seen EXCEPT ![At(endpoint)] = answer]
    /\ UNCHANGED <<required, errorPage, malformed, identified, open, asked, concluded>>

\* _analyze_redirect_chains follows the redirects of the answers (RedirectChain);
\* an unusable port in a Location raises out of the analysis.
FollowRedirects ==
    /\ analysing = "redirects"
    /\ analysing' = "errors"
    /\ UNCHANGED <<endpoint, required, observations, concluded>>

RedirectRaises ==
    /\ analysing = "redirects" /\ AnyAnswer
    /\ analysing' = "raised"
    /\ UNCHANGED <<endpoint, required, observations, concluded>>

\* _probe_error_pages and _probe_malformed_requests: of the endpoints that answered.
ProbeErrorPage ==
    /\ Visiting("errors", "malformed")
    /\ IF At(endpoint) \in Responded
       THEN \E t \in Pages : errorPage' = [errorPage EXCEPT ![At(endpoint)] = t]
       ELSE UNCHANGED errorPage
    /\ UNCHANGED <<required, seen, malformed, identified, open, asked, concluded>>

ProbeMalformed ==
    /\ Visiting("malformed", "identify")
    /\ IF At(endpoint) \in Responded
       THEN \E reply \in MalformedReplies : malformed' = [malformed EXCEPT ![At(endpoint)] = reply]
       ELSE UNCHANGED malformed
    /\ UNCHANGED <<required, seen, errorPage, identified, open, asked, concluded>>

\* No endpoint answered: _no_http_service_result runs the rules on nothing.
NoService ==
    /\ analysing = "identify" /\ ~AnyAnswer
    /\ analysing' = "rules"
    /\ issues' = {"external_no_http_service"}
    /\ UNCHANGED <<endpoint, required, observations, recorder, judged, findings, manifest>>

\* _identify_server; what _identification_issues later says of it.
IssueOf(verdict) ==
    IF verdict.type # None THEN {}
    ELSE {IF verdict.ambiguous THEN "external_server_type_ambiguous"
                               ELSE "external_server_type_unknown"}

Identify ==
    /\ analysing = "identify" /\ AnyAnswer
    /\ identified' = Identification
    /\ issues' = IssueOf(Identification)
    /\ analysing' = "paths"
    /\ UNCHANGED <<endpoint, required, seen, errorPage, malformed, open, asked,
                   recorder, judged, findings, manifest>>

\* _probe_sensitive_paths: /server-status?auto is for a confident Apache only.
PathsToProbe ==
    {"/server-status"} \cup
    IF Confident /\ identified.type = "apache" THEN {"/server-status?auto"} ELSE {}

ProbePaths ==
    /\ Visiting("paths", "rules")
    /\ IF At(endpoint) \in Responded
       THEN /\ asked' = [asked EXCEPT ![At(endpoint)] = PathsToProbe]
            /\ \E found \in SUBSET PathsToProbe : open' = [open EXCEPT ![At(endpoint)] = found]
       ELSE UNCHANGED <<asked, open>>
    /\ UNCHANGED <<required, seen, errorPage, malformed, identified, concluded>>

(***************************************************************************)
(* run_external_rules.                                                     *)
(***************************************************************************)
\* The `runnable` of the group of r.
HasInput(r) ==
    IF r \in ToSet(RedirectRules) THEN AnswerOver("http")
    ELSE IF r \in ToSet(HstsRules) \cup ToSet(HeaderRules) \cup ToSet(TlsRules) \cup UngroupedRules
         THEN AnswerOver("https")
    ELSE AnyAnswer

\* Mutant: the rules of another server are completed like any other.
MutantTerminalState(r) ==
    IF ~HasInput(r) THEN Skipped("input-unavailable") ELSE Completed

\* What the runner records about r.
TerminalState(r) ==
    IF ~HasInput(r) THEN Skipped("input-unavailable")
    ELSE IF r \in ServerScoped /\ Incompatible(r) THEN Skipped("server-incompatible")
    ELSE Completed

\* Whether the function of r looks at the answers: the conditional rules and the one
\* for IIS headers return at once unless the server is known to be theirs.
Judges(r) ==
    /\ HasInput(r)
    /\ r \in ServerScoped =>
           IF r = "nginx.redirect_target_unexpected" THEN ~Incompatible(r) ELSE Applicable(r)

\* Of the rules whose findings are kept: what each reports.  The generic ones step
\* aside for the rule of the server; the conditional ones report when Applicable.
VersionRules == {"nginx.version_disclosed_in_server_header",
                 "apache.version_disclosed_in_server_header",
                 "lighttpd.version_in_server_header"}

\* Mutant: the generic rule steps aside whatever the confidence.
MutantHandled(e) == seen[e].server = identified.type

\* _is_server_header_handled_by_conditional_rule.
Handled(e) == \E r \in VersionRules : Applicable(r) /\ seen[e].server = ConditionOf(r)

VersionFindings ==
    LET versioned == {e \in Responded : seen[e].version} IN
    {<<"server_version_disclosed", e, "Server">> : e \in {e \in versioned : ~Handled(e)}}
    \cup UNION {{<<r, e, "Server">> : e \in {e \in versioned : seen[e].server = ConditionOf(r)}} :
                   r \in {r \in VersionRules : Applicable(r)}}

\* The other headers of collect_disclosure_findings: each is reported for being there,
\* and beside that for its version, for which nothing steps aside.
HeaderFindings ==
    LET conditional == "iis.aspnet_version_header_present"
        aspNetRule  == IF Applicable(conditional) THEN conditional
                       ELSE "x_aspnet_version_header_present"
    IN  {<<aspNetRule, e, "X-AspNet-Version">> : e \in {e \in Responded : seen[e].aspnet # None}}
        \cup {<<"x_powered_by_header_present", e, "X-Powered-By">> :
                  e \in {e \in Responded : seen[e].powered # None}}
        \cup {<<"server_version_disclosed", e, "X-AspNet-Version">> :
                  e \in {e \in Responded : seen[e].aspnet \in Versioned}}
        \cup {<<"server_version_disclosed", e, "X-Powered-By">> :
                  e \in {e \in Responded : seen[e].powered \in Versioned}}

\* suppress_when_identified of server_status_exposed: on these paths it steps aside.
Suppressed(path) ==
    /\ Confident
    /\ \/ identified.type = "apache"
       \/ identified.type = "lighttpd" /\ path = "/server-status"

StatusPathsOf(r) ==
    IF r = "apache.mod_status_public" THEN StatusPath ELSE {"/server-status"}

StatusFindings ==
    UNION {{<<"server_status_exposed", e, path>> : path \in {p \in open[e] : ~Suppressed(p)}}
           \cup UNION {{<<r, e, path>> : path \in open[e] \cap StatusPathsOf(r)} :
                   r \in {r \in {"apache.mod_status_public", "lighttpd.mod_status_public"} :
                              Applicable(r)}}
           : e \in Endpoint}

RunRules ==
    /\ analysing = "rules"
    /\ recorder' = RecordEach(recorder, Grouped, ToSet(Grouped),
                              [r \in ToSet(Grouped) |-> TerminalState(r)])
    /\ judged' = {r \in ToSet(Grouped) \cup UngroupedRules : Judges(r)}
    /\ \E unusual \in SUBSET {e \in Responded : SchemeOf(e) = "https"} :
         findings' = VersionFindings \cup HeaderFindings \cup StatusFindings
                        \cup {<<r, e, "tls">> : r \in UngroupedRules, e \in unusual}
    /\ analysing' = "attach"
    /\ UNCHANGED <<endpoint, required, observations, issues, manifest>>

\* No runner of external rules catches what a rule raises.
RuleRaises ==
    /\ analysing = "rules" /\ AnyAnswer
    /\ analysing' = "raised"
    /\ UNCHANGED <<endpoint, required, observations, concluded>>

\* Mutant: what the policy requires is only selected.
MutantWithRequired(R) ==
    SelectMany(R, SortedRules, required \ SelectedSet(R))

\* build_analysis_manifest: every required rule the runner did not select is skipped,
\* as mode-incompatible when it is a local or universal rule, else input-unavailable.
WithRequired(R) ==
    SkipEach(R, SortedRules, required \ SelectedSet(R),
             [r \in Rule |-> IF StageOf[r] = "probe" THEN "input-unavailable"
                             ELSE "mode-incompatible"])

AttachContext ==
    /\ analysing = "attach"
    /\ recorder' = WithRequired(recorder)
    /\ manifest' = Manifest(WithRequired(recorder))
    /\ analysing' = "done"
    /\ UNCHANGED <<endpoint, required, observations, judged, findings, issues>>

AnalysisNext ==
    \/ NoTargets \/ Resolve \/ Probe
    \/ FollowRedirects \/ RedirectRaises
    \/ ProbeErrorPage \/ ProbeMalformed
    \/ NoService \/ Identify \/ ProbePaths
    \/ RunRules \/ RuleRaises \/ AttachContext

AnalysisSpec == AnalysisInit /\ [][AnalysisNext]_analysisVars

(***************************************************************************)
(* Properties.                                                             *)
(***************************************************************************)
AnalysisTypeOK ==
    /\ analysing \in {"resolve", "probe", "redirects", "errors", "malformed", "identify",
                  "paths", "rules", "attach", "done", "raised"}
    /\ endpoint \in 1..Len(Endpoints)
    /\ \A e \in Endpoint : asked[e] \subseteq StatusPath /\ open[e] \subseteq asked[e]
    /\ identified.type \in Server \cup {None}
    /\ recorder.terminal \in [Rule -> Event \cup {NoEvent}]
    /\ judged \subseteq Rule

Analysed == analysing = "done"

\* Nothing is told twice and nothing is forgotten, however certain the identification
\* is.  A version in the Server header and an open status page are each reported by
\* exactly one of the generic rule and the rule of that server, X-AspNet-Version by
\* exactly one of the rules about it, X-Powered-By by its rule; and a version in these
\* two headers is reported once more, as a version (_version_sources).
DisclosureToldOnce ==
    analysing = "attach" /\ judged # {} => \A e \in Responded :
        LET rulesOn(subject)   == {f[1] : f \in {f \in findings : f[2] = e /\ f[3] = subject}}
            presenceOf(header) == rulesOn(header) \ {"server_version_disclosed"}
            versionOf(header)  == "server_version_disclosed" \in rulesOn(header)
            OneIf(told, rules) == Cardinality(rules) = IF told THEN 1 ELSE 0
        IN  /\ OneIf(seen[e].version, rulesOn("Server"))
            /\ OneIf(seen[e].aspnet # None, presenceOf("X-AspNet-Version"))
            /\ versionOf("X-AspNet-Version") <=> seen[e].aspnet \in Versioned
            /\ OneIf(seen[e].powered # None, presenceOf("X-Powered-By"))
            /\ versionOf("X-Powered-By") <=> seen[e].powered \in Versioned
            /\ \A path \in StatusPath : OneIf(path \in open[e], rulesOn(path))

\* One analysis is about one server: whatever the endpoints say, rules of two servers
\* never judge the same result, a rule of a server that was not identified reports
\* nothing, and when the server is known the rules of all others are skipped for it.
OneServerIsJudged ==
    Analysed => /\ \A f \in findings : f[1] \in ServerScoped => ConditionOf(f[1]) = identified.type
                /\ Confident => \A r \in ServerScoped :
                      recorder.terminal[r] = IF ConditionOf(r) = identified.type THEN Completed
                                             ELSE Skipped("server-incompatible")

\* A server is named only when nothing as telling contradicts it: all Server headers
\* that tell anything tell the same, a medium confidence rests on two observations,
\* and a result without a name says by an issue which of the two reasons it has.
NamedWithoutContradiction ==
    Analysed /\ AnyAnswer =>
        LET headers == ({seen[e].server : e \in Responded}
                           \cup {malformed[e].server : e \in Endpoint}) \ {None}
            bodies  == ({errorPage[e] : e \in Endpoint}
                           \cup {malformed[e].body : e \in Endpoint}) \ {None}
        IN  /\ identified.type # None =>
                  /\ headers \subseteq {identified.type}
                  /\ identified.confidence = "high" <=> headers # {}
                  /\ headers = {} => bodies \subseteq {identified.type}
            /\ identified.confidence = "medium" =>
                  BodyVotes[identified.type] + StackVotes[identified.type] >= 2
            /\ "external_server_type_ambiguous" \in issues <=>
                  \/ Cardinality(headers) > 1
                  \/ headers = {} /\ Cardinality(bodies) > 1
            /\ issues = {} <=> identified.type # None

\* Whatever was reached, the manifest can be built, it accounts for every rule of the
\* groups that was run and every rule the policy requires, and a rule is completed
\* only if an endpoint of the scheme it is about has answered.
ManifestAccountsForExternal ==
    Analysed => /\ manifest.error = "none"
                /\ required \subseteq SelectedSet(recorder)
                /\ ~AnyAnswer => manifest.completed = {} /\ findings = {} /\ issues # {}
                /\ \A r \in manifest.completed : r \in ToSet(TlsRules) \cup ToSet(HstsRules)
                      => \E e \in Endpoint : seen[e].http /\ SchemeOf(e) = "https"
                /\ AnyAnswer => \A e \in Responded : SchemeOf(e) = "https" =>
                      ToSet(TlsRules) \cup ToSet(HeaderRules) \subseteq manifest.completed

\* In short, of the report on a host.  (Neither docs/report-format.md:149 nor
\* docs/architecture.md:26 hold word for word: an ungrouped rule reports without being
\* recorded as completed, and a conditional rule is completed, on nothing, when the
\* server is unknown.)
ReportIsSound ==
    AnalysisTypeOK /\ ManifestAccountsForExternal /\ OneServerIsJudged /\ NamedWithoutContradiction
=============================================================================
