# webconf-audit: TLA+ models, checks and proofs

`webconf-audit` audits web server configurations (nginx, Apache, lighttpd, IIS) on
disk and HTTP services from outside. What can go wrong in ways a unit test hardly
reaches is of two kinds. One is machinery: which rules ran and how that is reported,
what a CI gate concludes from several runs, how includes are expanded, how concurrent
probes are collected, how evidence becomes a verdict on a control, how files are
published. The other is inheritance: a setting is said in one scope and matters in
another, and the rules have to agree with the server about what is in force where.
This project models both.

Paths are relative to `src/webconf_audit/`.

## Running it

    tlc -workers 2 -config MC_Nginx.cfg MC_Nginx        # any MC module with its .cfg
    tlapm External_proofs.tla                           # any *_proofs module

`PROJECT.json` lists the runs, what each shows, which source lines every definition
translates, the hazards with the properties that cover them, and the theorems.

## Inventory

| Component (source) | State | Operations | Interacts with | What is hard | What makes it correct |
|---|---|---|---|---|---|
| Recorder and manifest (`execution_manifest.py`) | selection, one terminal event per rule | `select`, `select_many`, `completed`, `skipped`, `failed`, `build_rule_execution_manifest` | called by every runner; read by assessments | a rule is reported about many times, in an order the audited configuration sets | the verdict depends on no order; a failure is never masked; the manifest can always be built |
| Local analyses (`local/*/__init__.py`, `local/*/rules_runner.py`, `local/rule_runner_utils.py`, `local/universal_rules.py`) | findings, issues, recorder, include graph of one analysis | read, parse, resolve includes, run passes of rules, filter, attach the manifest | registry, recorder, policy, includes | any rule may crash, any file may be unusable, in any of several contexts; results are thrown away late | every outcome is reported, nothing is claimed of what did not run, findings are exact |
| CI gate (`cli/__init__.py`, `suppressions.py`, `baselines.py`, `report/__init__.py`, `fingerprints.py`) | baseline and suppression files, between runs; findings and issues, within one | load and apply suppressions, deduplicate, compare with and write the baseline, exit code | the analyses; the repository and the calendar | several runs; edits and expiry between them; a crash during a write | green is accounted for, red is justified, unusable inputs fail closed |
| Include resolution (`local/{nginx,apache,lighttpd}/include.py`, `local/lighttpd/shell.py`, `local/load_context.py`) | recursion, chain of open files, include graph | expand an include, refuse a cycle, report a failure, run a command | parsers, the file system | any graph of files; failures in the middle | resolution ends; no file is opened within itself; nothing is lost silently; order is kept |
| Rule registry (`rule_registry.py`) | catalog, executable rules, loaded packages; one per process | `register`, `register_meta`, `ensure_loaded`, `rules_for`, `clear`, `revision` | every runner; policy | what is loaded depends on history; an import may fail half way and be retried | same answers whatever was loaded before; a rule that is listed can be run |
| External probing (`external/recon/__init__.py`) | attempts and answers of each probe | TCP check, HEAD/GET/OPTIONS, TLS scan, redirects, error pages, malformed requests | network | a service that answers every connection differently; timeouts; loops of redirects | an attempt tells of one answer; a chain ends and says why |
| Port scan (`external/recon/port_discovery.py`) | futures, result slots | submit, check, collect | a pool of up to 12 threads | completion in any order, exceptions in workers | results in the order of the ports; the scan ends |
| External rules (`external/rules/`) | recorder | identify the server, run groups of checks over attempts | recorder, probing | many checks under one rule id; rules for one kind of server only | every rule accounted for; one disclosure is told once; TLS findings are exact |
| TLS inventory (`external/tls_inventory.py`, `external/recon/tls_probe.py`) | an attempt, findings and observations per endpoint | probe an entry, assess the control | network | partial handshakes; several endpoints behind one name | no verdict without evidence of that endpoint |
| Audit policy (`audit_policy.py`, `policy_models.py`) | the policy embedded in a report | load, validate, resolve, attach, verify | coverage ledger, analyses, assessment | overlapping selectors; a policy that changes between two commands | a valid policy is followed to the letter; a report of another policy is refused |
| Control assessment (`assessment.py`, `assessment_models.py`) | retained results, one judgement per control | verify, assess, merge, gate | manifests, policy, coverage ledger | evidence that is missing, partial, suppressed, of a rule that crashed or of another target | nothing passes without evidence; a green job hides nothing |
| Coverage files (`coverage_ledger.py`) | a published file or several | write, link, rename, roll back | the file system, other processes | several writers; an operation that fails; a kill | readers see whole contents; callers are told the truth |
| Nginx scopes, logging policy and rules (`local/nginx/effective_scope.py`, `logging_semantics.py`, `*_semantics.py`, `assessments/`, `rules/`) | scopes, effective settings | build scopes, inherit, match, judge | includes, policy | inheritance that is per directive, all or nothing, or merged | a silent rule means the setting is in force |
| lighttpd (`local/lighttpd/effective.py`, `conditions.py`, `rules/`) | conditional scopes, merged view | collect, merge for a host or for any, judge | parser | `else` chains, `=` and `+=`, hosts that are not known | the view holds what a request meets |
| IIS (`local/iis/effective.py`, `rules/`) | effective sections per file, location and application | group, merge, inherit into applications, judge | parser, discovery | `clear` and `remove`, `<location>`, child applications | the view is what IIS puts in force |
| Apache effective configuration and rules (`local/apache/`) | merged sections and `.htaccess` files | merge, inherit, match | parsers | `AllowOverride`, section order | equals the server's own merge |
| Parsers, normalizers, universal rules, coverage tables, rendering | none | text and table processing | | | unit tests |

How they interact: a local command reads and parses the main file and resolves its includes
(`IncludeResolution`), loads the rules (`RuleRegistry`), runs its passes of rules and builds
the manifest (`LocalAnalysis`, `ExecutionManifest`); the rules of a server look at its
effective configuration (`Nginx*`, `Lighttpd*`, `Iis*`). `_output_result` then applies
suppressions, compares with the baseline and chooses the exit code (`CiGate`). An external
command scans ports (`PortScan`), probes endpoints (`ExternalProbe`), follows redirects
(`RedirectChain`), looks at TLS (`TlsObservation`) and runs its rules into the same
recorder (`ExternalAnalysis`). With `--policy` both embed a policy (`AuditPolicy`), which
`assess` verifies before it judges controls (`ControlAssessment`) and writes its file
(`ExportWriter`).

## Modules

Machinery:

| Module | Models | State and actions |
|---|---|---|
| `ExecutionManifest` | `RuleExecutionRecorder`, `build_rule_execution_manifest` as operators on a recorder value | `Select`, `Record`, `Reduce`, `SelectMany`, `RecordEach`, `SkipEach`, `Manifest`; used by `LocalAnalysis` and `ExternalAnalysis` |
| `ExecutionRecorder` | a recorder under arbitrary callers | `rec`; `observed` remembers all events. `SelectRule`, `ReportEvent` (of the rules in `Reported`) |
| `LocalAnalysis` | the four local analyses | `agenda` (passes and files still to do), `queue` (rules of the running pass still to run; `Turn` is the next in registry order), `recorder`, `issues`, `findings`, `loaded` (packages in the registry). One action per loop body or handler: `BeginPass`, `RuleReturns`, `RuleRaises`, `OpenWebConfig`, `SnapshotUnusable`, `AttachContext`, ... |
| `CiGate` | runs of a command over days | files `supFile`, `baseline`; `config` is what is really wrong; `raw`, `active`, `diff`, `issueCodes`, `failed`, `code` of one run, which has got to `stage`. `AnalysisReturns`, one action per step of `_output_result`, plus `EditConfig`, `EditSuppressions`, `NextDay`, `DamageBaseline` between runs and `KilledWriting` within |
| `IncludeResolution` | `resolve_includes` of three servers | `stack` of frames (the recursion; a frame's `pending` are the places of the targets its include still has to open), `output`, `issues`, `edges`; `loads` remembers all chains. One action per branch |
| `RuleRegistry` | registries and the imports that fill them | `cached` (modules Python has imported), `catalog`, `executable`, `loaded` per registry, `call` (the `ensure_loaded` that is running, with its frames), `revisions`. `Clear`, `RegisterMetas`, `EnsureLoaded`, `ImportCached`, `ImportRuns`, `ImportRaises`, `FinishLoading`, `WriteReport` |
| `AuditPolicy` | a policy from its file to the verification of a report | `policy`, `target`, `phase`, `issues`, `resolved`, `reported`, `verdict`. `RejectPolicy`, `AcceptPolicy`, `RefuseTarget`, `Resolve`, `Analyse`, `Verify` |
| `ControlAssessment` | `assess` for one control | `item`, `report`, `assessing` (where the command is), `controls` (judgements), `retained`, `merged`, `exit`. `VerifyInputs`, `Refuse`, `AssessSingleControl`, `Merge`, `Gate`, `WriteFails` |
| `PublishContract` | what publishing one file atomically promises | `content`, `fate` of each writer. `Publish`, `Refuse`, `Fail` |
| `ExportWriter` | `write_coverage_output` by several processes | `file`, `temporary`, `pc`, `result`, `published`, `faults`. One action per file operation, its failure, and a kill |
| `ReconciliationWriter` | `write_coverage_reconciliation` | `documents`, `staged`, `backup`, `replaced`, `step`, `at`. One action per move, its failure, its undoing, and a kill |

Outside view:

| Module | Models | State and actions |
|---|---|---|
| `ScanContract` | what `scan_ports` promises, without threads | `outcome`, `answer`; `Check`, `Answer` |
| `PortScan` | `scan_ports` with its threads | main thread: `Submit`, `Collect`, `CollectRaises`, `Return`, `RaiseOut`; workers: `StartCheck`, `FinishCheck` |
| `ExternalProbe` | `_probe_target` | `probing` is where the function is; every connection is numbered; `tls`, `head`, `get`, `result` say on which one each thing was seen. `Connect`, `ObserveTls`, `WantRead`, `HandshakeAgain`, `TryHead`, `TryGet`, `TryOptions`, `EnrichTls` |
| `RedirectChain` | `_follow_redirect_chain` | `hops`, `current`, `seenUrls`, `mixed`, `cross`, `outcome`. `Follow` and one action for every way to end |
| `ExternalAnalysis` | `analyze_external_target` and the runner of the external rules | what was seen of each endpoint, the votes on the kind of server, the recorder. `Resolve`, `Probe`, `FollowRedirects`, `ProbeErrorPage`, `ProbeMalformed`, `Identify`, `ProbePaths`, `RunRules`, `RuleRaises`, `AttachContext` |
| `TlsRules` | `TLSInfo` and the rules on it | no state: what each handshake tells of a server, and each rule |
| `TlsObservation` | the handshakes with one endpoint | `learned`, `awaited`, `day`, `missed`, `reported`. `Observe`, `ProbeVersions`, `VerifyChain`, `ProbeDepth`, `ProbeOrder`, `CheckExpired`, `CheckRest`, `Tick` |
| `TlsInventory` | `analyze-tls-inventory` | `attempts`, `analyses` (the observations of each entry), `listed` findings, the control's `status`; `unheard` remembers where the handshakes for versions were lost. `ProbeEntry`, `Conclude` |

Configurations. Here a state is a configuration and a step looks at it (or, for lighttpd and
IIS, reads its next statement or section); what is checked is a relation between all small
configurations and what the code says of them. The reference definitions (what nginx,
lighttpd or IIS do) are part of the properties.

| Module | Models | State and actions |
|---|---|---|
| `NginxLogging` | `build_scope_graph`, and the logging section of a policy over the scopes | `tree` of blocks, the main context its first node; `VisitScope`, `VisitOther` make scopes of them in order, `MarkIncomplete` marks those that a failed include may have changed. `effective` logs, `verdicts`. `ResolveScope`, `AssessScope`. `Families` says which configurations and policies there are; what validation refuses is in `LoggingAssumption` |
| `NginxConfig` | a configuration and the helpers all rules use | `blocks`, `dirs`, `findings` |
| `NginxServerRules` (TLS, and which server answers), `NginxLimitRules`, `NginxHeaderRules` (headers, and variables in them), `NginxAccessRules` | groups of rules that together see to one thing | every rule is an operator: the set of blocks and directives it reports; `TlsCheck`, `AnsweringCheck`, `HeaderCheck`, `TaintCheck` and two `Check`s run a group |
| `NginxRules` | those groups over one configuration | `topic` says which directives the configuration is made of; `Rules` |
| `LighttpdEffective` | `collect_effective_config`, `merge_conditional_scopes` | `statements`, `blocks`, `globals`, `scopes`. `OpenIf`, `OpenElseIf`, `OpenElse`, `Close`, `Assign` |
| `LighttpdRules` | the rules over its views | `host`, `topic`, `findings`. `ReadOn`, `Check` |
| `IisEffective` | `build_effective_config`, `merge_effective_configs` | `files`, the sections read so far. `ReadGlobal`, `ReadLocation` |
| `IisRules` | the rules over its views | operators |
| `*_proofs` | theorems about the modules they extend or instantiate | |
| `MC_*` | instances for TLC | |

`MC_LocalAnalysis`, `MC_External`, `MC_Evidence`, `MC_Nginx` and `MC_Servers` hold several parts each. Those
share no memory in the program either, so a variable (`part` or `topic`) says which of them
moves, and the variables of the others rest or stay in one of their initial states; a state of
the run is a state of one of them. `MC_External` extends `PortScan`, `ExternalProbe`,
`RedirectChain`, `ExternalAnalysis`, `TlsObservation` and `TlsInventory`, and `MC_Evidence` its
first five parts and (through `MC_CiGate`, which names its findings) `CiGate`, `MC_LocalAnalysis` extends
`LocalAnalysis` and `ExecutionRecorder`, and `MC_Nginx` extends `NginxLogging` and `NginxRules`, so that TLC evaluates the assumptions of what is
proved and checks the properties that are proved.

Abstractions, by module:

- *Recorder.* A rule's failure always has the stage `input_kind` and the issue code
  `rule_execution_error`, as `run_rule_entry` passes them. Model validation of pydantic
  is left out.
- *LocalAnalysis.* What a rule finds, and whether it raises, is free. A finding is its
  rule, its place and the pass that made it. The reading and parsing of the main file is
  one step with the outcomes usable, unusable, undecodable; includes are the subject of
  their own module. Of the assessments of nginx only that they may remove findings of
  opted-in rules is kept.
- *CiGate.* A finding is its fingerprint, and a suppression entry the set of fingerprints
  it covers. `Covers` says which specific findings stand at the place of a universal one.
  Every issue is its level and kind. `--baseline` and `--write-baseline` name one file.
- *IncludeResolution.* Text is a sequence of items; an include already has the targets
  its argument expands to. Blocks only nest and are left out. Paths are resolved paths.
- *PortScan.* Of `ThreadPoolExecutor`: work is taken in order, a future holds what the
  work returned or raised, leaving the `with` block waits for all of it.
- *RuleRegistry.* A rule is its identity; its metadata is data. A revision is what it is a
  hash of.
- *AuditPolicy, ControlAssessment.* Digests are the things they are digests of. An item is
  how strongly each rule is evidence for it; a result is how each rule ended and whether it
  has findings, active or suppressed.
- *ExportWriter, ReconciliationWriter.* A file's content is who wrote it. Rename and link are
  atomic, as POSIX has them; every operation may fail.
- *ExternalProbe, TlsObservation.* A service is free to answer each connection differently
  (probe), or a handshake may be lost (TLS), where the server itself does not change. An
  answer is its status class and which of its parts exist. pyOpenSSL's callback, which the
  count of certificates uses, is taken to be called for every certificate.
- *ExternalAnalysis.* One or two rules stand for each group that the runner treats alike; a
  rule that judges only what was seen is free to find something.
- *Nginx, lighttpd, IIS.* A value stands for all texts a rule treats alike ("weak", "ok",
  "443 ssl"); a location for its modifier and what it matches. Each is said in its module.

Definitions named `Mutant...` are not used by the specifications. Each is a plausible
wrong version of the definition that follows it; put in its place, it makes the property
named in `PROJECT.json` fail.

## Runs

| Run | Instance | Distinct states | Shows |
|---|---|---|---|
| `local_analysis` | analysis: 5 rules, one of each kind; 2 `.htaccess` files, up to 2 virtual hosts, 2 `web.config` files; recorder: 2 rules, all events | 100 189 | manifests, issues, skip reasons and findings agree with what was run; every analysis ends; the verdict on a rule is the strongest event whatever the order, failures stay, the manifest fails only for a rule nobody reported about |
| `includes` | 3 files, a missing one and lighttpd commands (`include_shell`); all graphs with two includes in the first and one in the others; every failure of the second and third | 24 610 | resolution ends, equals the recursive expansion, loses nothing silently |
| `external` | scan: 2 workers, lists of 0, 1, 2 and 4 ports, one repeated, one invalid; probe: 4 kinds of target, 3 statuses; chain: 6 URLs on 2 hosts, 5 hops; host: 2 endpoints, every tier of votes empty, unanimous or contradictory, 4 values of X-Powered-By and 2 of X-AspNet-Version, all 21 rules; TLS: about 390 kinds of server, 3 sets of names asked about, 4 days; inventory: 2 entries, 12 kinds of server, 5 handshakes that may be lost | 2 584 213 | a scan implements its contract; a probe and a chain say what was observed; rules are accounted for and tell each disclosure as often as they should; TLS findings are exact; the control over an inventory rests on evidence; scans and chains end |
| `evidence` | registry: 3 packages, 2 registries; policy: 3 items in 2 sources, up to 2 profiles; assessment: 2 rules, up to 2 results; export: 3 processes, 2 faults; documents: 3 of them, 4 faults and kills; gate: 3 findings (a universal one, the specific one that covers it, another), 2 severities, 2 suppressions, 3 days, 8 command lines | 3 115 531 | the catalogue is that of the rules that run; a policy is followed; no control passes on a crash or a skip; exports are atomic; documents are published together unless the process is killed; the gate is sound, justified, and fails closed, over any sequence of runs |
| `nginx` | scopes: all trees of up to 4 blocks, with failing includes in up to two blocks (as of one file that both include); logging: nested blocks, up to 2 access logs and 2 error logs, 1 or 2 profiles; rules: each group over its bases and up to 3 or 4 directives of its vocabularies | 3 506 964 | scopes are nginx's; a logging policy is passed or failed only if it is; silent rules mean settings in force |
| `servers` | lighttpd: up to 3 or 4 statements in blocks; IIS: 3 locations, up to 3 files, up to 4 sections | 528 735 | a merged view is what a request meets, and the rules report what is amiss there |
| `local_drops`, `ci_known`, `ci_crash`, `includes_raise`, `inventory_lost`, `scopes_shared` | as above | counterexamples | the disagreements below |

What the composed properties say (each is a conjunction of the invariants of the modules, whose
comments explain them):

- `ManifestIsTrue`: a manifest accounts for every selected rule, outcomes report what was
  invoked, an analysis whose results were discarded claims nothing, reasons for skips are true.
- `GreenIsEarned`: whatever is wrong on a green run was suppressed by an entry in force,
  known to the baseline, below the threshold or beyond a damaged rule; what expires blocks
  again; what was resolved is gone. `RedIsEarned`: a red run has a finding that explains it.
- `RegistryIsSound`: a package marked as loaded is complete, listed rules can be run,
  nothing is registered twice, and reports of one set of loaded packages carry one revision,
  however imports fail on the way.
- `PolicyIsFollowed`: a policy that validates leaves no matching profile aside, decides every
  item once, asks only for evidence that can exist; its own local reports verify.
- `VerdictsAreEarned`, `GreenHidesNothing`: a pass has completed evidence as strong as the
  control asks; a suppression changes no verdict; a crash of a required rule concludes
  nothing; no finding vanishes in the merge; green means no target failed or is undecided.
- `ExportsAreSound`, `PublishesAtomically`: readers see whole exports, nothing is left behind
  unless a process was killed or could not unlink, a writer's result is true; the writers
  implement `PublishContract`.
- `DocumentsAreSafe`: all documents new or all as before when a call returns, nothing lost.
- `DisclosureToldOnce`: a version in a Server header, an open status page and the presence of an
  X-AspNet-Version or X-Powered-By header are each told by one rule, of two that could; a version in
  the latter two is told by `server_version_disclosed` besides, as nothing steps aside there.
- `InventoryIsSound`: a control passes only on what was seen at every entry, but for versions that
  were not heard (`LossLeavesItOpen` says otherwise and is false) and stapling.
- `ScopesAreSound`: what an include that fails could have changed is incomplete, if the same line
  fails in no later scope (`CompleteMeansWhole` says so without that condition and is false);
  nothing else is. `LoggingVerdictsAreTrue`: passes and failures hold in every run of the server;
  what is uncertain of one log, or contradictory about the access logs of the scope, leaves it open.
- `ReportIsSound`, `TlsFindingsAreExact`, `SettingRulesAreSound`, `RequestRulesAreSound`,
  `LighttpdIsSound`, `IisIsSound`: see the modules.

### Bounds, and why they are enough

- *Recorder*: rules do not influence one another except by the order of the selection, so
  two show every interference. The proofs are for any number.
- *LocalAnalysis*: two contexts are enough for "first this, then that" in both orders; the
  rules differ only in what the runners look at (category, server, stage, opt-in, required
  directive), and each value occurs. A pass over no places (a virtual host without
  `.htaccess` files) occurs. `MaxContexts` is the only counter bound.
- *CiGate*: every rule of the gate is about one finding, or one universal finding and one
  that covers it; the third finding is the witness that others are unaffected. Days 0 to 2
  give each suppression a day on which it holds and one on which it has expired. The
  number of runs is not bounded. `LastDay` bounds the calendar.
- *IncludeResolution*: three files have self-includes, cycles of two and three, diamonds
  and double includes, and up to two commands. The safety properties are proved for any number.
- *PortScan*: more ports than workers, as many, fewer, none. The refinement is proved for
  any number.
- *RuleRegistry*: a package of two modules of which one re-exports from the other, one that
  registers metadata in its `__init__`, a single file; the global registry and a fresh one.
  That is every way to register. The number of calls, failures and `clear`s is not bounded.
  Proved for any packages and registries.
- *ExternalProbe, RedirectChain*: the number of connections is bounded by the code. Five hops are
  the code's limit; six URLs allow a loop that does not return to its start, and a chain that
  leaves its host and comes back.
- *ExternalAnalysis*: one endpoint of each scheme, since the rules ask for one or the other;
  answers vary where votes and conditions look.
- *TlsObservation, TlsInventory*: servers vary in one respect at a time from one that is fine,
  and in all combinations of the respects that one rule looks at together. `LastDay` bounds the
  calendar beyond every expiry. Two entries, shown under one name, are enough for one to be taken
  for the other; each loses any of its handshakes.
- *ControlAssessment*: what is said of a rule does not depend on other rules but through "any"
  and "all", for which two are enough; the merge is over pairs of results.
- *ExportWriter, ReconciliationWriter*: `MaxFaults` bounds failing operations: one to start a
  rollback and one to spoil it, per document. Three writers: two that compete and one with
  `--force`.
- *Nginx rules*: every property is about a setting in one scope and those it inherits from, so
  the bases have the nestings that differ (http, server, location, `if`, a location in a
  location) and the vocabularies the directives one group looks at; up to three or four of them,
  so that a setting can be overridden, cut off and repeated.
- *lighttpd*: three or four statements open and close a block, or two, around two assignments.
  Conditions are about the host with each operator, or one other variable.
- *IIS*: a site, an application and a folder; sections at each, in up to three files; three
  sections override one another or clear and add again.

Deadlock is not checked: an analysis, a resolution, a scan, a command end, and a configuration
is looked at once. That they do not end too early is what `EveryAnalysisEnds`, `ResolutionEnds` and
`ScansAndChainsEnd` are for, and the refinements.

### Fairness

- `LocalAnalysis`, `IncludeResolution`, `ExternalProbe` and `RedirectChain` are sequential
  programs: weak fairness of `Next` says that a running program takes its next step. No fairness
  of single outcomes is assumed: a rule may crash each time. A probe ends unless the peer holds
  a TLS handshake open for ever (`OnlyHandshakeHangs`).
- `PortScan`: weak fairness of the main thread and of each worker, since the operating
  system runs every thread, and each check ends because `socket.create_connection` has a
  timeout.
- All others have safety properties only and no fairness.

## Proofs

All proofs are by TLAPS, for every value of the constants under the assumptions named in
the modules.

- `ExecutionManifest_proofs`. Lemmas on the recorder as a value, used by the next two modules:
  a selection stays free of repetitions and holds every rule with an event (`SoundRecorder`),
  `Reduce` picks the stronger of two events and strength is a linear order, and what
  `SelectMany`, a recursive function over a sequence of rules, leaves in the recorder. The
  last would be an induction over data; it is shown instead by a least counterexample, with
  the well-foundedness of `<` on the naturals, which needs no operator as a parameter.
- `LocalAnalysis_proofs`. `TypeCorrect`, `ManifestIsTruthful`, `NothingFailsSilently` and
  `FindingsAreComplete`, for any registry, any number of contexts and every kind of server. The
  properties look at a finished analysis or at single events; what makes them inductive is what
  holds between the rules of a running pass. `Resting` and `Invocable` say which rules the queue
  may hold in each phase and that each was selected; `Recorded`, that a rule with findings or an
  event was invoked, and a rule invoked and not queued has its event; `Reasoned`, that
  a skip states the reason that the selection gave; `Owed`, that a rule that no pass has reached
  is still on the agenda; `Issued`, that a failure and its issue come together; `Found`, that
  the findings are those of the passes that returned, except where the opt-in filter of nginx
  has removed them. Without `Owed` a manifest could be complete only by accident of the agenda,
  and without `Invocable` the analysis could end with a rule neither run nor skipped.
  Assumption: `RegistryAssumption`.
- `Configuration_proofs`, of `IncludeResolution`. `IncludesNeverNestTheSame`: no frame's include chain names a
  file twice. `NeverOpenTwice` speaks about each frame on its own, but a frame's chain
  grows from that of the frame below, so the induction is over the stack: pushing appends
  a target that the guard `~OpenNow` keeps out of the chain, all else replaces
  the top frame by one with the same chain or pops it. No assumption on the constants.
  `EveryIncludeIsTold`: `IncludesAreTold` speaks of what is left at the end; its invariant `Owed`
  speaks of every moment: an include of a file that was loaded is told in the result, or is ahead
  in an open frame with the chain of that file, either among the items still to do or as
  the include the frame is at, whose targets are each told or pending. When the stack is
  empty nothing is ahead. A command may print the same include item that a file holds, and a
  file may be loaded again behind another chain, so what is owed is said of each chain.
  `OutputIsTheExpansion`: `OutputIsExpansion` compares what a loop over frames has put out with
  a recursive definition, `Expansions`. Its invariant `Expanding` says that the output followed
  by what the open frames owe, the innermost first, is at every moment the expansion of the
  main file; what a frame owes (`Rest`) is the expansion of the targets it still has to open and
  then of its items. Each action moves a part of that from what is owed to the output, or from
  one frame to the frame it pushes (`RestAtTarget`: the texts of the targets ahead are the text
  of the next one and those of the others). That `Expansions` is a solution of its
  equation at all takes that the set of files and lines not yet open shrinks with each call
  (`ClosedShrinks`, `ExpansionsAre`), hence that it is finite; what concatenating a sequence of
  texts comes to is derived from the definition of `FlattenSeq` (`FlattenIs`, `FlattenFirst`).
  Assumption: `JobsAssumption` (types; finitely many files and items, as one call meets; a shell
  line is not a file).
  Of `LighttpdEffective`: `LighttpdMergedIsPossible` and `LighttpdMergedIsInForce`, the two parts of
  `LighttpdIsSound` about the view of a host. The invariant `LighttpdInv` says what reading leaves
  behind: a scope has the conditions of its block and of the blocks around it, and comes after
  the branches of its chain (`Situated`); a block being read has a scope, and the branches an else
  may go on are those of its own level (`Seated`, `Chained`); the value of a directive is statements
  of its name and block, and the last of each is in it or replaced by a later one (`Heard`, `Kept`).
  Whether a request is in a block is a recursion over blocks and branches opened before it
  (`ActiveExists`), merging a loop over scopes, and lighttpd's own reading one over statements;
  each is shown to have a solution. If blocks nest in an `if` only, a scope's conditions are met
  exactly when its block's own condition is and the request is in the block around (`ScopesTell`);
  of the branches of a chain the first whose condition is met is active (`FirstBranch`). So for a
  host all of whose conditions are decided the scopes that match are the active blocks
  (`HostScopes`), and for any host a block that some request is in is not ruled out by the host
  (`PossibleScopes`). Assumptions: `VocabularyAssumption` (parsed operators; a host is known), and for
  `LighttpdMergedIsInForce` that blocks ask for the host and directives replace
  (`ReplacingAssumption`), as in the instance "merging": with other conditions the view of a
  host says what is in force for some requests only, and `+=` joins what the blocks around say at
  the end, where lighttpd takes what they say by then.
  Of `LighttpdRules`, under the same two assumptions and that what is read is in the vocabulary
  (`TopicsAssumption`): `LighttpdHostViewIsExact` (for a named host, 36 rules report just what any
  request to it meets), `LighttpdSilenceIsEarned`, `LighttpdEngineIsOn` and
  `LighttpdStatusIsRestricted` (without a host, what is wrong for a request is reported). Each
  rule is shown to depend on a few directives only, and on what these say, not on where or how
  (`Reads`, `SameAnswers`); so it is enough that a view which the rule is asked of says the same as
  the request meets. For one directive that is the file's view or that of a single scope
  (`OneIsSeen`). For several, the last active block that says one of them has all others around it,
  as nothing but nested blocks apply, and `effective_directive_for_scope`, which looks for
  scopes whose conditions begin its own, finds just those around (`EffectiveIsMet`,
  `SeveralAreSeen`). The invariant `RulesInv` adds to `LighttpdInv` that a directive remembers the
  conditions of its scope (`Remembers`, on which the rule for server status rests) and that what
  was reported is right of what was read (`Earned`).
- `External_proofs`, of `PortScan`: `TypeCorrect`, and `ScanImplementsContract`, that is
  `Spec => Contract!Spec` under the refinement mapping of `PortScan` (`outcome` is the
  futures, `answer` what the main thread has returned or raised). The inductive invariant
  has two parts. `OnePlace`: an index is either not yet submitted, or queued once, or with
  one worker, or done; without it a check might complete a future twice, which is no step
  of the contract. `Gathered`: what has been collected is in its own slot, and nothing
  collected raised unless the main thread is leaving; without it `Return` would not be the
  contract's `Answer`. `FinishCheck` maps to `Check`, the three ways out to `Answer`, every
  other step to a stutter. Assumption: `PortsAssumption`.
  Of `ExternalProbe`: `ProbesAreSound`. What an attempt tells must be of connections that
  really answered. The invariant bounds how many connections each phase has opened at most
  (`Opened`), says that HEAD and GET were answered on just the connections in `answers`
  (`Heard`), and that the attempt to return is the better of the two, with what was added to it
  and nothing made up where neither was answered (`Settled`). Assumption: `ProbeAssumption`.
  Of `RedirectChain`: `ChainsAreTold`, for any URLs and any limit of hops. The invariant says of
  the whole chain what the code looks at for one hop: the URLs seen are those visited, each once
  (`Visited`); while it goes on each hop leads to the next and the last to the current attempt
  (`GoesOn`); once it has ended, how and why it did (`Ended`). The flags are set just when a hop
  crosses hosts or leaves HTTPS (`Crosses`, `Downgrades`). Assumption: `ChainAssumption`.
  Of `TlsInventory`: `InventoriesAreSound`, for any entries, any endpoints and any losses. What an
  entry was found to be must survive the attempts at all others until the control is judged:
  `Told` says of an entry that whatever is wrong with it is missing evidence, or reported, or of
  the two kinds that are taken for observed, and `Justified` of a finding that something is wrong
  or unusual at some entry. The argument is in two lemmas on the rules: an endpoint that is not in
  order in a kind of evidence that counts as observed has a finding of that kind
  (`WrongIsFound`), and each finding has its cause (`FoundIsWrong`); and in `CoveringIs`, that the
  comparison of heads and tails is the matching of wildcards label by label. Assumption:
  `InventoryAssumption` (types; entries with unique ids; names have labels; an endpoint speaks some
  version; the addresses in a certificate are addresses).
  Of `TlsObservation`: `FindingsAreExact`, for any endpoints, any names, any losses and any passing
  of time. What is learned is put together from five handshakes, and the rules look at the whole,
  so the invariant says of each part what it may be: the truth, or what stands for "not seen"
  (`InfoOf`), and the truth where the handshake was not lost (`Shows`). The chain is the exception,
  as a leaf that has expired hides what is wrong with it: the clock never goes back, so a chain
  hidden when it was verified belongs to a leaf that the next rule reports as expired (`Judged`),
  and `Judged` keeps what the first rule saw on which day until the second has looked. Then
  `DeservedIsReported` goes through the rules for what is wrong with an endpoint, and
  `FoundIsFounded` for what they report; without the hypothesis that an endpoint speaks some
  version the former is false, as `tls_1_3_not_supported` is silent about an endpoint of which no
  version was seen. Assumption: `ObservationAssumption` (types, as for the inventory).
- `ExternalAnalysis_proofs`, of `ExecutionRecorder`: `RecorderInvariance` is
  `Spec => []RecorderIInv`. `RecorderIInv` strengthens the invariants that are checked: besides
  the types it says that selections are free of repetitions, that a rule with an event is
  selected, and that the event held is the strongest of those observed. From it follow
  `RecorderTypeCorrect`, `VerdictIsOrderIndependent`, `ManifestFailsOnlyIncomplete` and the action
  property `FailureStays`. Assumption: `ReportedAssumption` (what is reported about are rules).
  Of `ExternalAnalysis`: `ReportsAreSound` and `DisclosuresAreToldOnce`. The invariant says
  what each step leaves to the next: which observations an endpoint can have (`Ranges`), that
  nothing is known of the server before the votes and just what they say afterwards
  (`Learned`), that nothing is recorded or found before the rules have run and afterwards
  what they make of what was learned (`ToldSoFar`). The properties are then about operators.
  A voter has votes exactly when a header or body names it (`VotersAre`), and a verdict
  names the only voter of its tier (`VerdictFits`), hence no contradiction (`NamedWell`).
  The runner lists each rule once (`GroupedIs`) and `RecordEach` files what it is told
  (`RanIs`, `RequiredIs`), hence the manifest (`ManifestAccounts`). A rule of one server
  reports only when it applies (`FindingsAreIts`), and the conditions under which the generic
  rules step aside are those under which one other rule speaks, for the Server header, the status
  pages and the presence of an X-AspNet-Version header (`ToldOnce`); what is found in the other
  headers is found endpoint by endpoint, and exactly where they are (`HeaderFindingsAre`). Assumption:
  `AnalysisAssumption` (types; distinct endpoints; every rule of the runner is registered).
- `Evidence_proofs`, of `RuleRegistry`: `RegistryCorrect` is `Spec => []RegistryIsSound`. A
  registry learns of a rule in two ways, by the decorator that runs when a module is imported
  (the global one only) and by the scan of what a module exposes, and an import can stop after
  any of its decorators. The invariant, with the types of the call that is running, is
  inductive as it stands; the lemmas `DecorateKeeps`, `ImportKeeps`, `ScanRegisters`,
  `FinishKeeps` and `ReportKeeps` show it for one action each. Assumption: `RegistryAssumption`.
  Of `AuditPolicy`: `PoliciesAreFollowed`. The steps are few and the invariant says where they
  lead (`PolicyIInv`: only a policy without issues goes on, what is resolved is its resolution,
  a local report names the server it was resolved for). The argument is in what validation rules
  out: two profiles for one target (`OneProfile`), a source twice (so no item is decided twice),
  an item twice in a source (so no control is lost to a later one), a control of an item of
  another source (`SourceIs`, `DecidedIs`), a server in a selector of an external profile; and in
  `GlobMeans`, that segment-wise matching is what a glob denotes.
  Assumption: `PolicyAssumption` (types; no target is empty).
  Of `ControlAssessment`: `AssessmentsAreEarned` and `GreenIsHonest`. `PassEarned`,
  `CrashConcludesNothing` and `SuppressionIndifferent` are about the cascade `StatusOf`, for any
  rules and any result: "pass" is its last answer, so each earlier one is ruled out in turn. The
  invariant says that controls are assessed in order, each by its own result (`AssessedSoFar`),
  and that the merged status is the worst of all (`MergedIsWorst`), which with the order of
  `Worse` gives that a green job has no target that fails. Assumption: `AssessmentAssumption`
  (types).
  Of `ExportWriter`: `ExportsCorrect` is `ExportSpec => []ExportsAreSound`,
  and `WritersPublishAtomically` that the writers implement `PublishContract`. The strengthening
  says of each writer what its place in the code implies: `Placed`, whether its temporary file
  exists and is whole and whether it has published; `Refused`, that a writer that found the
  export there saw one that somebody had published. No conjunct speaks of two writers but
  through the file, so a step of one keeps what is said of the others (`OthersStay`). The
  refinement maps the rename or link to `Publish`, the return of a writer that found the file
  there to `Refuse`, the end or kill of any other that has not published to `Fail`, all else
  to a stutter. Assumption: `WriterAssumption`.
  Of `ReconciliationWriter`: `DocumentsSafe`, for any number of documents. `Forward` says what is
  old, new and backed up while the loop goes up, `Backward` while a rollback goes down from where
  it failed, `Over` how each end leaves the documents; the loops touch one path at a time, so
  each is an invariant over all paths on either side of `at`. Assumption: `ReconciliationAssumption`.
- `CiGate_proofs`. `TypeCorrect`, `GreenEarned`, `RedEarned`, `GateFailsClosed`. The inductive
  invariant says between which steps a run's findings are what is not suppressed (`Filtered`;
  a traceback is the only way out before), that a good baseline file holds the deduplicated
  findings of the run that wrote it, that a comparison was made with the file that is still
  there unless this run wrote one, and that the exit code is `CiExitCode` of what is known.
  Without the second conjunct nothing follows about a later run, which is what
  `ExpiredBlocksAgain` and `KnownBlocksOnlyWithExcuse` are about. Assumptions:
  `ConfigsAssumption`, `EntriesAssumption`, `OptionsAssumption` (types only).
- `Nginx_proofs`, of the scopes in `NginxLogging`: `NginxScopesAreSound`, for every tree of blocks. Ancestors are
  a recursive function up a tree, about which nothing can be said by induction over data; but a
  tree is a sequence in which what is around a node precedes it, and then `UpwardIs` shows by a
  least counterexample that the recursion has a solution, and `UpwardOrders` that what is on the way
  up from a node lies one in the other. The invariant says what the visit leaves behind: a scope is
  what its name and the scope it is in make it, a block that is none belongs to a scope around it
  (`Visited`, `KindsFit`); a block in the main context that is none is a container, without which
  a `server` of `stream` would count as a fragment. `Marked` says that what an include may have
  changed is marked as soon as it was attributed, if its line fails in no later scope, and that nothing
  is before all blocks were visited, so that no scope is added to a branch that was marked. One line may
  fail in several blocks, as it does when its file is included twice; the scope that is marked is the
  last of these (`AffectedIs`).
  Of the logging: `NginxLoggingVerdictsAreTrue`, for every configuration and policy. Scopes are
  resolved from the outside to the inside, each from its parent's result; `EffectiveFits` says that
  the result is what the innermost level that says something has (`EffectiveIs`), and that parents
  were resolved first (`AccessFollows`, `ErrorsFollow`). Verdicts are about one scope (`VerdictsFit`). What
  they mean is then about operators: a destination that neither fails nor is unsure is written
  and fine in every run, and one that fails and is sure in none (`DestinationIsSure`), hence
  `PassSatisfies` and `FailUnsatisfied`; access logs that contradict each other leave the error log
  of their scope undecided as well (`Ambiguous`). That a verdict by the first matching profile speaks for all
  takes that a scope has one server and one name (`NoServerAround`, `OneName`), so that two profiles
  that match it overlap, and overlapping profiles are the same (`MatchedAlike`). Assumption:
  `LoggingAssumption` (types, and the last of these).
  Of `NginxRules`: `NginxSettingRulesAreSound`, for every configuration of the kind named by
  `Configuration`, made up of a theorem for each group, as a run for one topic is a run of the
  rules for that topic: `NginxTlsRulesAreSound` and `NginxAnsweringRulesAreSound`
  (`NginxServerRules`), `NginxLimitRulesAreSound`, `NginxHeaderRulesAreSound` and
  `NginxUpstreamsAreTold` (`NginxHeaderRules`), `NginxAccessRulesAreSound`. The kinds are: blocks
  that nest, a server of `http` directly in it, directives where nginx allows them, and of some
  values that they are among those that stand for all texts. nginx makes sure of the former before it runs a
  configuration; the run `nginx` checks all of it in each that it goes through. What is in force
  is a recursion up the tree, solved as above (`Descends`, `InForceIs`), and what holds of the main
  context and is handed down holds everywhere (`FromTheTop`). The rules look only at a server and
  its `http`; that is all there is to look at (`EffectiveIsInForce`). A finding points at a
  directive that other servers may inherit, or at none: the sets of directives effective to two
  servers are the same or disjoint (`EffectiveAlike`), so a finding is about each server in which it
  is in force. For `UnknownHostsAreRejected`, the first of those that share an address is the first
  that listens on it; for `RedirectIsComplete`, a catch-all location makes some location answer,
  and an exception answers nothing but a challenge (`AnsweringIs`); for `NoPasswordInClear`, a server
  is in no other, so that what is asked of a location is asked there, in a location around it or in
  its server (`AuthIsWithin`). For the headers, what the resolver hands down block by block, merged
  or cut off, is set against what no block on the way cuts off (`HandedIs`, `HeadersAreSent`); a
  server is in no other, so a scope has one (`OneServer`). For the upstreams, the headers found on
  the way up are those of the nearest block that has any (`PassedHeadersAre`). For access,
  `NearestHanded` says so for rules of access, and `RestrictionIs` that between them the two rules for
  sensitive locations ask whether a stranger is stopped. Three limits: an `if` or `limit_except` that passes requests on
  (`UpstreamIsVerified`), a password asked for in `http` (`NoPasswordInClear`) and a listing in a location
  within another (`ListingsAreLimited`) are looked at by no rule, and the properties leave them out.

Only model-checked:

- liveness (`EveryAnalysisEnds`, `ResolutionEnds`, `ScansAndChainsEnd`), as TLAPS does not do
  ENABLED;
- which location answers for a file and which variables hold something of the request
  (`RequestRulesAreSound`). They are true of what the vocabularies can say, which TLC goes through:
  two locations for different kinds of file, up to three variables. With two locations for the same
  kind the rules ask whether one of them refuses, and nginx whether the first does;
- of lighttpd (`servers`), the view for no host in particular (`NeighboursAreCompatible`), and
  `SilenceIsEarned` for configurations that append: what is joined depends on which statement of
  a block comes first, which the theorems' assumption that directives replace leaves out;
- the merge of IIS sections and the rules over it (`IisIsSound`).

## What the models disagree with

Counterexamples, each a run:

1. `local_drops`: universal findings are dropped by rule name in the nginx analysis
   (`local/nginx/__init__.py:259`), also when the rule of nginx that stands for them crashed, for
   instance `universal.missing_x_frame_options` when `nginx.missing_x_frame_options` did. The
   docstring of `analyze_nginx_config` (line 62) calls what is dropped "Nginx-superseded universal
   duplicates"; it is a duplicate of nothing then. Apache does likewise with a list of its own
   (`local/apache/__init__.py:336`).
2. `ci_known`: a universal finding that is folded into a specific one is not in the baseline. In the
   run nothing is edited, but in the next analysis the rule of the specific finding crashes, and
   `--fail-on-new` blocks the universal one as new, contrary to `docs/ci-integration.md:14`.
3. `ci_crash`: a rule that crashes is a warning and the gate exits with 0, while
   `docs/ci-integration.md:7` says 1 for an execution error.
4. `includes_raise`: an included nginx file that is not UTF-8 makes `resolve_includes` raise,
   although it is documented as "collecting issues instead of raising"
   (`local/nginx/include.py:25`). lighttpd includes, IIS files and the baseline and
   suppression loaders have the same gap (in the last two the exit code is still 1).
5. `inventory_lost`: when the handshake for one version of TLS is lost, that version counts as not
   supported (`external/tls_inventory.py:698` looks at whether any version was heard of), and the
   control over the inventory passes, though `docs/audit-policy.md:654` promises `indeterminate` for
   missing observations and failed probes. Stapling is alike: the callback of `probe_ocsp_stapling`
   always yields a value, so that stapling counts as observed.
6. `scopes_shared`: an include that fails in a file which two scopes include marks only the last of
   them (`local/nginx/effective_scope.py:270`), and the logs of the other are assessed as if nothing
   was missing, though `docs/architecture.md:141` speaks of "conservative completeness".

Met while modelling, and either kept out of a property by a stated condition or part of what it
allows. None contradicts a sentence of the repository as plainly as the six above.

- *Machinery.* Without a policy a manifest's registry revision is computed when only the
  packages of one server are loaded and differs from the revision in the report's generator.
  Reconciled documents are not published together when the process is killed or when a rollback
  fails as well. `include_shell` on the same line number of two files counts as a cycle
  (`local/lighttpd/include.py:30` and `:154`).
- *Outside.* The answer to the probe after the fifth redirect is discarded. A TLS handshake that
  the peer never finishes is not bounded by the socket's timeout. Rules that are conditional on
  a server are completed although nothing was seen when the server is unknown. A finding of an
  external rule in no group makes `assess` refuse the report. A certificate without SAN is never
  a mismatch; two rules on expiry read the clock separately; an expired leaf hides that its
  chain is not trusted; the control over an endpoint with TLS 1.3 only stays undecided. Outside
  inventories too a version whose handshake is lost counts as not supported: TLS 1.3 is reported
  missing, TLS 1.0 is overlooked. A version in X-AspNet-Version or X-Powered-By is reported twice,
  by the rule for the header and by the one for versions. When the handshake with OpenSSL was lost, certificate transparency is reported missing. Addresses among
  the expected names are looked for among the DNS names of a certificate. A finding of a kind that
  was declared not applicable to an entry still fails the control.
- *Policy and assessment.* An override for an item that does not apply is dropped silently; a
  required opt-in rule may never run; a glob with empty segments matches nothing; an external
  report may not verify with its own policy; two fields of a policy are read nowhere. A merged
  pass may hide a target that was not assessed, as documented.
- *nginx.* A header or limit rule that looks at the server does not see what a nested location
  inherits or cuts off; `443` and `0.0.0.0:443` are different listen keys; a server with a plain
  and a TLS listener counts as TLS; regex order and `^~` are not considered; a `return` anywhere
  in a block counts. A policy that says nothing of scripts, next to one with a strict `default-src`
  that its own `script-src` undoes, passes for safe (`content_security_policy_unsafe.py:102`). A
  sensitive location that takes back what a block around it says (`allow all` under a `deny` in the
  server) is reported by neither rule, since one looks at every block around it and the other only
  at locations that are restricted (`TakenBack`). `logging` takes the first match where `reverse_proxy_headers.py:81` and
  `:114` do as well.
- *lighttpd.* The negation of an `else` is known only within its own chain; `=` and then `+=` in
  one block is remembered as `+=`; `+=` of sibling blocks accumulates where lighttpd replaces;
  with `--host` conditions about anything else count as met; some rules look at one view only.
  A scope that only takes back `ssl.honor-cipher-order`, under a TLS that is turned on around it,
  is passed over, as the rule looks at scopes that say `ssl.engine` themselves
  (`ssl_honor_cipher_order_missing.py`; `OrderWithEngine`); so is one that only takes back
  `ssl.engine` under a port 443 that is set around it (`ssl_engine_not_enabled.py`; `EngineStays`).
  The same rule takes a condition that the socket is not `:443` for one that it is
  (`SocketsEqual`), and `mod_status_public.py` any condition on the address for one that lets local
  addresses in (`LocalOnly`). The properties say so: the proofs asked for these conditions, which
  the first vocabularies had hidden.
- *IIS.* Sections are grouped by their last tag; a blocked `<location>` still shows below, and
  globals with it (`local/iis/effective.py:404`); the globals of a `web.config` are merged over
  the locations of other sites (`:402`); a `<location>` deeper than the application is merged
  before the `web.config`.

## Not modelled

- *Apache: effective configuration and rules.* Planned next.
- *Universal rules, normalizers*: the fields are extracted in straight lines; what can go wrong
  is agreement with the server, which needs its directive table.
- *Predicates of external rules about headers, cookies and exposed paths*, and rules of nginx,
  lighttpd and IIS that look at one directive only: stateless, unit tested. In `LocalAnalysis`
  and `ExternalAnalysis` such a rule is free to find or raise anything.
- *IIS*: registry, schannel, discovery of sites, application pools. *lighttpd*: variables and
  conditions by regular expressions. *nginx*: the assessments of headers and rate limits as
  controls, the location matcher.
- *Parsers*: character-level text processing; their outcomes are inputs.
- *Validation of the coverage ledger, the standards tables and the other sections of a policy*:
  static tables, no state.
- *Rendering*: formatting; the deduplication it shares with the gate is in `CiGate`.
- *Scripts, demo, packaging, vendored data*: not part of the program's logic.

Hazards that are known but have no property of their own: `--write-baseline` over the accepted
baseline (`cli/__init__.py:211`, by design), the severity that a fingerprint leaves out
(`baselines.py:133`), edges recorded before a file is read (`local/load_context.py:33`), the
`ValueError` of a bad port in a `Location` (`external/recon/__init__.py:1109`), a raising
external rule that loses the results of all groups (`external/rules/_runner.py:438`).

## Plan

In order of importance:

1. Apache: the merge of sections, virtual hosts and `.htaccess` files under `AllowOverride`
   against a reference definition, and the rules over it.
2. The external rules about headers and exposed paths; normalizers with the universal rules,
   for agreement between servers.
3. Validation of the coverage ledger and the other sections of a policy; IIS discovery.
4. Theorems: lighttpd configurations that append, the merge of IIS sections.
