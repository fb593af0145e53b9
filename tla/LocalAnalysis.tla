---------------------------- MODULE LocalAnalysis ----------------------------
(***************************************************************************)
(* One process running local analyses, one after another: analyze_nginx_   *)
(* config, analyze_apache_config, analyze_lighttpd_config and              *)
(* analyze_iis_config, from the moment the configuration is read to the    *)
(* AnalysisResult with its rule execution manifest.                        *)
(*                                                                         *)
(* An analysis works off an agenda of runner passes.  A pass selects the   *)
(* rules it is for, records the ones it may not run, and then invokes the  *)
(* others one by one; each invocation may return findings or raise.  The   *)
(* same rules are visited by several passes: once per virtual host for the *)
(* .htaccess rules of Apache, once per web.config for IIS.                 *)
(***************************************************************************)
EXTENDS ExecutionManifest, SequencesExt

CONSTANTS
    Category,         \* Category[r] \in {"local", "universal", "external"}
    ServerOf,         \* ServerOf[r] \in Server \cup {"any"}
    OptIn,            \* the rules tagged policy-review
    NeedsDirective,   \* the rules of _REQUIRED_DIRECTIVES_BY_RULE_ID (nginx)
    RunOrder,         \* all rules, sorted by (order, rule_id)
    Superseded,       \* Superseded[s]: universal rules whose findings analysis s drops
    Htaccess,         \* .htaccess files
    WebConfig,        \* web.config files below an applicationHost.config
    Requirements,     \* the sets of rules a policy may require
    MaxContexts       \* bound: virtual hosts of an Apache configuration, virtual
                      \* directories with a web.config of an IIS one

Server   == {"nginx", "apache", "lighttpd", "iis"}
Stage    == {"ast", "htaccess", "mixed", "effective", "normalized", "probe"}
Local    == "local"
Packages == Server \cup {"universal", "external"}

\* What RuleMeta and the rule modules say of the rules: a local rule names its server,
\* and an Apache rule is of one of the three kinds the Apache runners ask for.
RegistryAssumption ==
    /\ RunOrder \in Seq(Rule) /\ {RunOrder[i] : i \in DOMAIN RunOrder} = Rule
    /\ \A i, j \in DOMAIN RunOrder : RunOrder[i] = RunOrder[j] => i = j
    /\ StageOf \in [Rule -> Stage]
    /\ Category \in [Rule -> {Local, "universal", "external"}]
    /\ ServerOf \in [Rule -> Server \cup {"any"}]
    /\ \A r \in Rule : Category[r] = Local => ServerOf[r] \in Server
    /\ \A r \in Rule : Category[r] = Local /\ ServerOf[r] = "apache" =>
                          StageOf[r] \in {"ast", "htaccess", "mixed"}
    /\ \A rules \in Requirements : rules \subseteq Rule
    /\ MaxContexts \in Nat
ASSUME RegistryAssumption

\* The rule package that registers r.
PackageOf(r) == IF Category[r] = Local THEN ServerOf[r] ELSE Category[r]

VARIABLES
    phase,      \* "idle", "running", "attach", "done"; "raised": an exception got out
    job,        \* what the analysis was called with and what it found on disk
    agenda,     \* the passes and web.config files still to be worked off
    pass,       \* the pass being worked off
    visit,      \* how many passes have begun
    queue,      \* the rules of that pass still to be invoked, in run order
    recorder,   \* the RuleExecutionRecorder of this analysis
    issues,     \* the AnalysisIssues, as [level, code, about] records
    findings,   \* the findings, as <<rule, place, visit>>
    manifest,   \* the manifest attached to the result
    loaded,     \* RuleRegistry._loaded_packages, as earlier analyses left it
    calls,      \* history variable: <<rule, visit, outcome>> of every invocation
    hit         \* history variable: <<rule, place>> of every finding a rule returned

vars == <<phase, job, agenda, pass, visit, queue, recorder, issues, findings,
          manifest, loaded, calls, hit>>

NoManifest == [error |-> "unbuilt"]
NoPass == [kind |-> "pass", category |-> "none", stages |-> {}, places |-> {}]

Issue(level, code, about) == [level |-> level, code |-> code, about |-> about]

(***************************************************************************)
(* The agenda of an analysis.                                              *)
(***************************************************************************)
Pass(category, stages, places) ==
    [kind |-> "pass", category |-> category, stages |-> stages, places |-> places]

LocalPass(stages, places) == Pass(Local, stages, places)
UniversalPass(places)     == Pass("universal", Stage, places)

\* A web.config below applicationHost.config: parsed only when its turn comes.
WebConfigFile(place) == [kind |-> "web.config", place |-> place]

\* _collect_apache_findings: AST rules once, the .htaccess rules once per
\* context with the files of that context, the universal rules once.
ApacheAgenda(contexts) ==
    <<LocalPass({"ast"}, {"main"})>>
        \o [i \in DOMAIN contexts |-> LocalPass({"htaccess", "mixed"}, contexts[i])]
        \o <<UniversalPass({"main"})>>

\* _analyze_application_host: the file itself, then each web.config found.
IisAgenda(webConfigs) ==
    <<LocalPass(Stage, {"main"}), UniversalPass({"main"})>>
        \o [i \in DOMAIN webConfigs |-> WebConfigFile(webConfigs[i])]

AgendaFor(j) ==
    IF j.server = "apache" THEN ApacheAgenda(j.contexts)
    ELSE IF j.server = "iis" THEN IisAgenda(j.webConfigs)
    ELSE <<LocalPass(Stage, {"main"}), UniversalPass({"main"})>>

(***************************************************************************)
(* The registry's part: rules_for and the catalog.                         *)
(***************************************************************************)
InCatalog(r, packages) == PackageOf(r) \in packages

\* The entries of a pass: rules_for(category, server) filtered by the pass's input
\* kinds.
Entries(p, packages) ==
    {r \in Rule : /\ InCatalog(r, packages)
                  /\ Category[r] = p.category
                  /\ p.category = Local => ServerOf[r] = job.server
                  /\ StageOf[r] \in p.stages}

SkipAll(R, rules, reason) == SkipEach(R, RunOrder, rules, [r \in Rule |-> reason])

\* _required_rule_skip_reason for a local analysis.
RequiredSkipReason(r, packages) ==
    IF ~InCatalog(r, packages) THEN "prerequisite-failed"
    ELSE IF Category[r] = "external" THEN "mode-incompatible"
    ELSE IF Category[r] = Local /\ ServerOf[r] # job.server THEN "server-incompatible"
    ELSE "input-unavailable"

(***************************************************************************)
(* Actions.                                                                *)
(***************************************************************************)
\* The calls a test or a user can make.  `lacking`: rules whose directives the
\* nginx configuration does not contain.  `contexts`: per virtual host, the
\* .htaccess files it reaches (one global context when there is no virtual host).
\* `webConfigs`: the web.config of each virtual directory, two of which may share one.
\* `broken`: web.config files that cannot be read or parsed; `undecodable`: ones that
\* are not UTF-8.  `redirectOnly`:
\* is_redirect_only_config.  `answered`: nginx review rules whose findings the
\* typed policy assessments answer.
Jobs ==
    {j \in [server : Server, review : BOOLEAN, required : Requirements,
            lacking : SUBSET NeedsDirective, answered : SUBSET OptIn,
            contexts : BoundedSeq(SUBSET Htaccess, MaxContexts),
            webConfigs : BoundedSeq(WebConfig, MaxContexts), broken : SUBSET WebConfig,
            undecodable : SUBSET WebConfig, redirectOnly : BOOLEAN] :
        /\ j.lacking \cup j.answered # {} => j.server = "nginx"
        /\ \A r \in j.answered : ServerOf[r] = "nginx"
        /\ IF j.server = "apache" THEN j.contexts # <<>> ELSE j.contexts = <<>>
        /\ j.webConfigs # <<>> => j.server = "iis"
        /\ j.broken \cup j.undecodable \subseteq ToSet(j.webConfigs)
        /\ j.broken \cap j.undecodable = {}
        /\ j.redirectOnly => j.server = "lighttpd"}

\* Earlier analyses may have loaded no package, the external one, or (the CLI
\* before it validates a policy) every one.
Init ==
    /\ phase = "idle"
    /\ job \in Jobs
    /\ agenda = <<>> /\ queue = {} /\ pass = NoPass /\ visit = 0
    /\ recorder = EmptyRecorder
    /\ issues = {} /\ findings = {} /\ calls = {} /\ hit = {}
    /\ manifest = NoManifest
    /\ loaded \in {{}, {"external"}, Packages}

\* The configuration is found, read and parsed, and its includes resolved.
Begin ==
    /\ phase = "idle"
    /\ phase' = "running"
    /\ agenda' = AgendaFor(job)
    /\ UNCHANGED <<job, pass, visit, queue, recorder, issues, findings, manifest,
                   loaded, calls, hit>>

\* config_not_found, *_config_read_error and *_parse_error: the result carries
\* one error issue and a recorder nothing was reported to.
ConfigUnusable ==
    /\ phase = "idle"
    /\ phase' = "attach"
    /\ issues' = {Issue("error", "config", <<job.server>>)}
    /\ UNCHANGED <<job, agenda, pass, visit, queue, recorder, findings, manifest,
                   loaded, calls, hit>>

\* A UnicodeDecodeError of the main file (IIS) or of an included file (nginx,
\* lighttpd) is not among the exceptions caught; Apache catches it.
DecodeErrorEscapes ==
    /\ phase = "idle" /\ job.server # "apache"
    /\ phase' = "raised"
    /\ UNCHANGED <<job, agenda, pass, visit, queue, recorder, issues, findings,
                   manifest, loaded, calls, hit>>

\* The rules a pass may invoke: executable_rule_entries.
Runnable(entries) == {r \in entries : r \in OptIn => job.review}

\* Mutant: an opt-in rule is skipped even when policy review was asked for.
MutantNeverReviews(entries) == entries \cap OptIn

OptedOut(entries) == {r \in entries : r \in OptIn /\ ~job.review}

\* The head of a runner: ensure_loaded, select_many, the opt-in skips, and for
\* the .htaccess rules of Apache the skips of a context without .htaccess files.
PassPackages(p) == loaded \cup {IF p.category = Local THEN job.server ELSE "universal"}

\* Mutant: the early return for a context without files forgets to record.
MutantEmptyContextUnrecorded(R, p, runnable) == R

SkipsOfEmptyContext(R, p, runnable) ==
    IF p.places = {} THEN SkipAll(R, runnable, "input-unavailable") ELSE R

BeginPass ==
    /\ phase = "running" /\ queue = {} /\ agenda # <<>>
    /\ Head(agenda).kind = "pass"
    /\ LET p        == Head(agenda)
           entries  == Entries(p, PassPackages(p))
           runnable == Runnable(entries)
           opened   == SkipAll(SelectMany(recorder, RunOrder, entries), OptedOut(entries),
                               "opt-in-not-selected")
       IN  /\ pass' = p
           /\ recorder' = SkipsOfEmptyContext(opened, p, runnable)
           /\ queue' = IF p.places = {} THEN {} ELSE runnable
           /\ loaded' = PassPackages(p)
    /\ visit' = visit + 1
    /\ agenda' = Tail(agenda)
    /\ UNCHANGED <<phase, job, issues, findings, manifest, calls, hit>>

\* Rules are invoked in run order.
Before(r, q) == \E i, j \in DOMAIN RunOrder : i =< j /\ RunOrder[i] = r /\ RunOrder[j] = q
Turn(r) == r \in queue /\ \A q \in queue : Before(r, q)

\* run_nginx_rules: a directive the rule is about does not occur at all.
LacksDirective(r) == pass.category = Local /\ r \in job.lacking

SkipForPrerequisite(r) ==
    /\ Turn(r) /\ LacksDirective(r)
    /\ recorder' = Record(recorder, r, Skipped("prerequisite-failed"))
    /\ queue' = queue \ {r}
    /\ UNCHANGED <<phase, job, agenda, pass, visit, issues, findings, manifest,
                   loaded, calls, hit>>

\* The universal findings an analysis filters out, whatever else it found.
Dropped(r) ==
    /\ Category[r] = "universal"
    /\ r \in Superseded[job.server]
    /\ job.server = "lighttpd" => job.redirectOnly

\* Mutant: _context_htaccess_findings extends without looking at the key.
MutantKeepsDuplicates(r, hits) ==
    IF Dropped(r) THEN {} ELSE {<<r, place, visit>> : place \in hits}

\* The findings of one invocation that the analysis keeps.  Of the .htaccess
\* rules _context_htaccess_findings keeps one finding per _finding_key over all
\* contexts; a finding's key is its rule and its place.
Kept(r, hits) ==
    LET known == {f[2] : f \in {g \in findings : g[1] = r}}
        new   == IF StageOf[r] \in {"htaccess", "mixed"} THEN hits \ known ELSE hits
    IN  IF Dropped(r) THEN {} ELSE {<<r, place, visit>> : place \in new}

\* run_rule_entry: the rule returns; it may have hit any of the places it reads.
RuleReturns(r) ==
    /\ Turn(r) /\ ~LacksDirective(r)
    /\ \E hits \in SUBSET pass.places :
         /\ findings' = findings \cup Kept(r, hits)
         /\ hit' = hit \cup {<<r, place>> : place \in hits}
    /\ recorder' = Record(recorder, r, Completed)
    /\ calls' = calls \cup {<<r, visit, "returned">>}
    /\ queue' = queue \ {r}
    /\ UNCHANGED <<phase, job, agenda, pass, visit, issues, manifest, loaded>>

\* Mutant: issues is None, and the exception is swallowed all the same.
MutantSwallowsCrash(r) == issues

CrashReported(r) == issues \cup {Issue("warning", "rule_execution_error", <<r, visit>>)}

\* run_rule_entry: the rule raises; the exception becomes a warning.
RuleRaises(r) ==
    /\ Turn(r) /\ ~LacksDirective(r)
    /\ recorder' = Record(recorder, r, Failed(r))
    /\ issues' = CrashReported(r)
    /\ calls' = calls \cup {<<r, visit, "raised">>}
    /\ queue' = queue \ {r}
    /\ UNCHANGED <<phase, job, agenda, pass, visit, findings, manifest, loaded, hit>>

\* Mutant: a web.config that does not parse is tried again.
MutantRetriesBroken(place) == <<WebConfigFile(place)>> \o Tail(agenda)

\* The rest of the agenda once a web.config turned out to be unusable.
AfterBroken(place) == Tail(agenda)

\* _analyze_web_config_with_base: a web.config that parses brings two passes of
\* its own; one that does not brings a warning and is left out.
OpenWebConfig ==
    /\ phase = "running" /\ queue = {} /\ agenda # <<>>
    /\ Head(agenda).kind = "web.config" /\ Head(agenda).place \notin job.undecodable
    /\ LET place == Head(agenda).place IN
        IF place \in job.broken
        THEN /\ agenda' = AfterBroken(place)
             /\ issues' = issues \cup {Issue("warning", "iis_web_config_error", <<place>>)}
        ELSE /\ agenda' = <<LocalPass(Stage, {place}), UniversalPass({place})>>
                              \o Tail(agenda)
             /\ UNCHANGED issues
    /\ UNCHANGED <<phase, job, pass, visit, queue, recorder, findings, manifest,
                   loaded, calls, hit>>

\* _try_parse_iis_config_path does not catch the UnicodeDecodeError of a web.config
\* either: what the earlier files gave is lost with the analysis.
WebConfigUndecodable ==
    /\ phase = "running" /\ queue = {} /\ agenda # <<>>
    /\ Head(agenda).kind = "web.config" /\ Head(agenda).place \in job.undecodable
    /\ phase' = "raised"
    /\ UNCHANGED <<job, agenda, pass, visit, queue, recorder, issues, findings,
                   manifest, loaded, calls, hit>>

AllPassesDone == phase = "running" /\ queue = {} /\ agenda = <<>>

\* The tail of an analysis; for nginx the _suppress_*_policy_review_findings.
Finish ==
    /\ AllPassesDone
    /\ phase' = "attach"
    /\ \E kept \in SUBSET {f \in findings : f[1] \in job.answered} :
         findings' = kept \cup {f \in findings : f[1] \notin job.answered}
    /\ UNCHANGED <<job, agenda, pass, visit, queue, recorder, issues, manifest,
                   loaded, calls, hit>>

\* Mutant: the recorder of the abandoned analysis is attached to the error result.
MutantSnapshotKeepsRecorder == recorder

RecorderOfErrorResult == EmptyRecorder

\* analyze_apache_config loads the module snapshot after the rules have run; when
\* that fails the findings, the issues and the recorder are all thrown away.
SnapshotUnusable ==
    /\ AllPassesDone /\ job.server = "apache"
    /\ phase' = "attach"
    /\ issues' = {Issue("error", "apache_module_snapshot", <<job.server>>)}
    /\ findings' = {}
    /\ recorder' = RecorderOfErrorResult
    /\ UNCHANGED <<job, agenda, pass, visit, queue, manifest, loaded, calls, hit>>

\* _attach_context and build_analysis_manifest: what the policy requires and no
\* pass selected is recorded as skipped, then the manifest is built.
AttachContext ==
    /\ phase = "attach"
    /\ loaded' = loaded \cup {job.server, "universal"}
    /\ LET unrun    == job.required \ SelectedSet(recorder)
           reported == SkipEach(recorder, RunOrder, unrun,
                           [r \in Rule |-> RequiredSkipReason(r, loaded \cup {job.server, "universal"})])
       IN  /\ recorder' = reported
           /\ manifest' = Manifest(reported)
    /\ phase' = "done"
    /\ UNCHANGED <<job, agenda, pass, visit, queue, issues, findings, calls, hit>>

Next ==
    \/ Begin \/ ConfigUnusable \/ DecodeErrorEscapes
    \/ BeginPass
    \/ \E r \in Rule : SkipForPrerequisite(r) \/ RuleReturns(r) \/ RuleRaises(r)
    \/ OpenWebConfig \/ WebConfigUndecodable
    \/ Finish \/ SnapshotUnusable \/ AttachContext

\* An analysis is a straight-line program: once called it keeps running.
Spec == Init /\ [][Next]_vars /\ WF_vars(Next)

(***************************************************************************)
(* Properties.                                                             *)
(***************************************************************************)
TypeOK ==
    /\ phase \in {"idle", "running", "attach", "done", "raised"}
    /\ SelectedSet(recorder) \subseteq Rule
    /\ recorder.terminal \in [Rule -> Event \cup {NoEvent}]
    /\ loaded \subseteq Packages
    /\ queue \subseteq Rule
    /\ manifest = NoManifest <=> phase # "done"

Done      == phase = "done"
Discarded == \E i \in issues : i.level = "error"
FoundBy(r)   == {f \in findings : f[1] = r}
Visited(r)   == {c \in calls : c[1] = r}
CrashedIn(r) == {c \in Visited(r) : c[3] = "raised"}

\* Whatever crashed, was skipped or was revisited, the manifest can be built, it
\* accounts for every rule the policy requires, and no finding comes from a rule
\* it lists as skipped or does not list (build_rule_execution_manifest raises
\* ValueError otherwise, and the whole analysis would be lost).
ManifestAccountsForEverything ==
    Done => /\ manifest.error = "none"
            /\ job.required \subseteq SelectedSet(recorder)
            /\ \A f \in findings : f[1] \in InState(recorder, "completed")
                                            \cup InState(recorder, "failed")

\* A rule is reported as completed only if it ran in every context it was tried
\* in: one crash, in any virtual host or web.config, before or after any number of
\* successes, makes it failed.  (Assessments take "completed" without findings as
\* evidence that a control is met.)
OutcomesReportInvocations ==
    Done /\ ~Discarded => \A r \in Rule :
        /\ r \in InState(recorder, "failed") <=> CrashedIn(r) # {}
        /\ r \in InState(recorder, "completed") <=> Visited(r) # {} /\ CrashedIn(r) = {}

\* Nothing fails silently: every crash of a rule and every unusable web.config has
\* an issue of its own in the result, unless the result is an error as a whole;
\* and no issue tells of a crash or an unusable file that there was not.
FailuresHaveIssues ==
    Done /\ ~Discarded =>
        issues = {Issue("warning", "rule_execution_error", <<c[1], c[2]>>) :
                     c \in {c \in calls : c[3] = "raised"}}
                 \cup {Issue("warning", "iis_web_config_error", <<w>>) : w \in job.broken}

\* A result that was given up claims nothing: no findings, and no rule completed
\* or failed, even when every rule had already run.
DiscardedClaimsNothing ==
    Done /\ Discarded => /\ findings = {}
                         /\ SelectedSet(recorder) = InState(recorder, "skipped")

\* The reason recorded for a skip is the true one.
SkipReasonsAreTrue ==
    Done => \A s \in manifest.skipped : LET r == s[1] IN
        /\ s[2] = "opt-in-not-selected" => r \in OptIn /\ ~job.review
        /\ s[2] = "mode-incompatible"   => Category[r] = "external"
        /\ s[2] = "server-incompatible" => ServerOf[r] \notin {job.server, "any"}
        /\ s[2] = "prerequisite-failed" => r \in job.lacking \/ ~InCatalog(r, loaded)
        /\ s[2] = "input-unavailable"   =>
              Discarded \/ \A i \in DOMAIN job.contexts :
                              job.contexts[i] = {} /\ StageOf[r] \in {"htaccess", "mixed"}

\* So the manifest tells the truth about every rule, whatever became of the analysis.
ManifestIsTrue ==
    /\ ManifestAccountsForEverything /\ OutcomesReportInvocations
    /\ DiscardedClaimsNothing /\ SkipReasonsAreTrue

\* Each violation is in the result, once per place and visit: a .htaccess file
\* shared by several virtual hosts is reported once, a finding is lost only to the
\* two deliberate filters, and none is invented.
FindingsAreExact ==
    Done /\ ~Discarded =>
        /\ \A f, g \in findings :
             f[1] = g[1] /\ f[2] = g[2] /\ StageOf[f[1]] \in {"htaccess", "mixed"} => f = g
        /\ {<<f[1], f[2]>> : f \in findings} \subseteq hit
        /\ \A h \in hit : \/ \E f \in findings : <<f[1], f[2]>> = h
                          \/ Dropped(h[1])
                          \/ h[1] \in job.answered

\* Every analysis ends, with a result or with the exception that escaped.
EveryAnalysisEnds == phase = "idle" ~> phase \in {"done", "raised"}

\* src/webconf_audit/local/nginx/__init__.py:61, "runs universal rules over the
\* normalized view (filtered to drop Nginx-superseded universal duplicates)": a
\* universal finding of an nginx analysis is dropped only when a rule for nginx
\* reported at that place, judged it and was content, or was not asked for.
\* _universal_nginx_findings drops it also when that rule crashed.
DropsOnlyDuplicates ==
    Done /\ ~Discarded /\ job.server = "nginx" => \A h \in hit :
        Dropped(h[1]) => \E r \in Rule :
            /\ ServerOf[r] = "nginx"
            /\ <<r, h[2]>> \in hit \/ r \notin InState(recorder, "failed")
===============================================================================
