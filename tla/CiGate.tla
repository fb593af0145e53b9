-------------------------------- MODULE CiGate --------------------------------
(***************************************************************************)
(* The gate an analyze-* command is in CI: _output_result of cli/__init__, *)
(* with suppressions.py, the deduplication of report/__init__.py and       *)
(* baselines.py.  Runs of the command follow one another; between them the *)
(* audited configuration, the suppression file and the calendar change,    *)
(* and what one run writes to the baseline file the next one reads.        *)
(*                                                                         *)
(* A finding is identified by its fingerprint, which leaves the severity   *)
(* out.  A configuration or a list of findings maps each fingerprint to    *)
(* the severity it occurs with, 0 if it does not occur.                    *)
(***************************************************************************)
EXTENDS Naturals, FiniteSets

CONSTANTS
    Finding,      \* fingerprints
    Covers,       \* Covers[u]: findings of the specific rules UNIVERSAL_TO_SPECIFIC_MAP
                  \* gives for u's rule, at u's location ({} for a specific u)
    MaxSeverity,  \* severities are 1..MaxSeverity
    Configs,      \* the configurations the repository may have
    Entries,      \* suppression entries [covers, expires]
    Options,      \* the command lines CI may run
    LastDay       \* bound on the calendar

ASSUME CoversAssumption ==
    /\ Covers \in [Finding -> SUBSET Finding]
    /\ \A u \in Finding : \A s \in Covers[u] : Covers[s] = {}
ASSUME ConfigsAssumption ==
    MaxSeverity \in Nat /\ Configs \subseteq [Finding -> 0..MaxSeverity]
ASSUME EntriesAssumption ==
    LastDay \in Nat /\ Entries \subseteq [covers : SUBSET Finding, expires : Nat]
ASSUME OptionsAssumption ==
    Options \subseteq [failOn : Nat, failOnNew : Nat, suppressions : BOOLEAN,
                      baseline : BOOLEAN, write : BOOLEAN]

VARIABLES
    day,        \* date.today()
    config,     \* the violations the audited configuration really has
    supFile,    \* the suppression file [status, entries]
    baseline,   \* the baseline file [status, fps]
    stage,      \* how far the run has got; "idle" between runs
    opts,       \* the options of the run
    raw,        \* result.findings as the analysis returns them
    active,     \* result.findings after apply_suppressions
    diff,       \* report.baseline_diff
    issueCodes, \* codes of result.issues
    failed,     \* the operations whose failure _ci_exit_code is told about
    code,       \* the exit code
    atWrite     \* history variable: raw and active findings of the run that last
                \* wrote the baseline file

gateVars == <<day, config, supFile, baseline, stage, opts, raw, active, diff, issueCodes,
              failed, code, atWrite>>
env      == <<day, config, supFile>>

NoFindings  == [f \in Finding |-> 0]
In(c)   == {f \in Finding : c[f] > 0}
Only(c, S) == [f \in Finding |-> IF f \in S THEN c[f] ELSE 0]

NoDiff    == [made |-> FALSE, new |-> {}, unchanged |-> {}, resolved |-> {}]
NoOptions == [failOn |-> 0, failOnNew |-> 0, suppressions |-> FALSE,
              baseline |-> FALSE, write |-> FALSE]
NoBaseline == [status |-> "absent", fps |-> {}]
Corrupt    == [status |-> "corrupt", fps |-> {}]

Gating(o) == o.failOn > 0 \/ o.failOnNew > 0

\* The codes whose issues have level "error".  A crashed rule and an expired
\* suppression are warnings.
ErrorCodes == {"analysis_error", "suppression_error", "baseline_required",
               "baseline_file_error", "baseline_file_unwritable"}

FileStatus == {"absent", "ok", "corrupt", "undecodable"}

GateInit ==
    /\ day = 0
    /\ config \in Configs
    /\ supFile = [status |-> "absent", entries |-> {}]
    /\ baseline = NoBaseline
    /\ stage = "idle" /\ opts = NoOptions
    /\ raw = NoFindings /\ active = NoFindings /\ diff = NoDiff
    /\ issueCodes = {} /\ failed = {} /\ code = 0
    /\ atWrite = [raw |-> {}, active |-> {}]

(***************************************************************************)
(* Between runs.                                                           *)
(***************************************************************************)
EditConfig ==
    /\ stage = "idle"
    /\ config' \in Configs
    /\ UNCHANGED <<day, supFile, baseline, stage, opts, raw, active, diff, issueCodes,
                   failed, code, atWrite>>

\* Entries come and go; an entry may be malformed, the file may stop being YAML
\* ("corrupt") or UTF-8.
EditSuppressions ==
    /\ stage = "idle"
    /\ supFile' \in [status : FileStatus \cup {"bad entry"}, entries : SUBSET Entries]
    /\ supFile'.status \in {"absent", "corrupt", "undecodable"} => supFile'.entries = {}
    /\ UNCHANGED <<day, config, baseline, stage, opts, raw, active, diff, issueCodes,
                   failed, code, atWrite>>

NextDay ==
    /\ stage = "idle" /\ day < LastDay
    /\ day' = day + 1
    /\ UNCHANGED <<config, supFile, baseline, stage, opts, raw, active, diff, issueCodes,
                   failed, code, atWrite>>

\* A bad merge of the committed baseline, or its removal.
DamageBaseline ==
    /\ stage = "idle" /\ baseline.status = "ok"
    /\ \E status \in FileStatus \ {"ok"} : baseline' = [status |-> status, fps |-> {}]
    /\ UNCHANGED <<env, stage, opts, raw, active, diff, issueCodes, failed, code, atWrite>>

(***************************************************************************)
(* One run.                                                                *)
(***************************************************************************)

\* The analysis returns.  When a rule crashed some violations are missing and a
\* warning says so; after an include error they are missing and an error says so.
AnalysisReturns ==
    /\ stage = "idle"
    /\ stage' = "analysed"
    /\ opts' \in Options
    /\ \/ raw' = config /\ issueCodes' = {}
       \/ \E S \in SUBSET In(config) : \E issue \in {"rule_execution_error", "analysis_error"} :
            raw' = Only(config, S) /\ issueCodes' = {issue}
    /\ active' = raw'
    /\ UNCHANGED <<env, baseline, diff, failed, code, atWrite>>

\* _suppression_path: the file given, or the default one when gating.
ReadsSuppressions == opts.suppressions \/ (Gating(opts) /\ supFile.status # "absent")

\* The entries _parse_entry returns: those that have not expired.
Live == {e \in supFile.entries : ~(e.expires < day)}

\* SuppressionSet.match, of some live entry.
Suppressed == {f \in In(raw) : ReadsSuppressions /\ \E e \in Live : f \in e.covers}

SuppressionIssues ==
    {"suppression_error" : x \in {supFile.status} \ {"ok"}}
        \cup {"suppression_expired" : e \in supFile.entries \ Live}

ApplySuppressions ==
    /\ stage = "analysed"
    /\ ReadsSuppressions => supFile.status # "undecodable"
    /\ stage' = "suppressed"
    /\ active' = Only(raw, In(raw) \ Suppressed)
    /\ IF ReadsSuppressions
       THEN /\ issueCodes' = issueCodes \cup SuppressionIssues
            /\ failed' = {"suppressions" : x \in SuppressionIssues \cap ErrorCodes
                                                   \cap {c \in ErrorCodes : opts.suppressions}}
       ELSE UNCHANGED <<issueCodes, failed>>
    /\ UNCHANGED <<env, baseline, opts, raw, diff, code, atWrite>>

\* Neither loader catches UnicodeDecodeError: the run ends in a traceback, and
\* the interpreter exits with 1 before anything was written.
Traceback ==
    /\ \/ stage = "analysed" /\ ReadsSuppressions /\ supFile.status = "undecodable"
       \/ stage = "suppressed" /\ opts.baseline /\ baseline.status = "undecodable"
    /\ stage' = "exited"
    /\ code' = 1
    /\ failed' = {"traceback"}
    /\ UNCHANGED <<env, baseline, opts, raw, active, diff, issueCodes, atWrite>>

\* Mutant: universal findings are dropped for specific ones that are suppressed.
MutantDeduplicatesRaw(F) == F \ {u \in F : Covers[u] \cap In(raw) # {}}

\* deduplicate_findings: of the findings F, not the universal ones a specific one
\* is at the location of.
Deduplicated(F) == F \ {u \in F : Covers[u] \cap F # {}}

\* _current_finding_entries.
Current == Deduplicated(In(active))

\* Mutant: what is suppressed now is reported as resolved.
MutantDiffForgetsSuppressed(fps) ==
    [made |-> TRUE, new |-> Current \ fps, unchanged |-> Current \cap fps,
     resolved |-> fps \ Current]

\* Mutant: unchanged findings are looked up among all findings, suppressed or not.
MutantDiffUnchangedOfRaw(fps) ==
    [made |-> TRUE, new |-> Current \ fps, unchanged |-> In(raw) \cap fps,
     resolved |-> (fps \ Current) \ (In(raw) \ In(active))]

\* apply_baseline_diff against a baseline with these fingerprints.
Diff(fps) ==
    [made |-> TRUE, new |-> Current \ fps, unchanged |-> Current \cap fps,
     resolved |-> (fps \ Current) \ (In(raw) \ In(active))]

ApplyBaseline ==
    /\ stage = "suppressed"
    /\ stage' = "compared"
    /\ IF ~opts.baseline
       THEN /\ diff' = NoDiff
            /\ IF opts.failOnNew > 0
               THEN issueCodes' = issueCodes \cup {"baseline_required"}
                    /\ failed' = failed \cup {"baseline"}
               ELSE UNCHANGED <<issueCodes, failed>>
       ELSE /\ baseline.status # "undecodable"
            /\ IF baseline.status = "ok"
               THEN diff' = Diff(baseline.fps) /\ UNCHANGED <<issueCodes, failed>>
               ELSE /\ diff' = NoDiff
                    /\ issueCodes' = issueCodes \cup {"baseline_file_error"}
                    /\ failed' = failed \cup {"baseline"}
    /\ UNCHANGED <<env, baseline, opts, raw, active, code, atWrite>>

\* Mutant: baseline_from_report lists the suppressed findings among the findings.
MutantPayloadWithSuppressed == Current \cup Suppressed

\* Mutant: once there is a diff, only its new findings are written.
MutantPayloadOfNew == IF diff.made THEN diff.new ELSE Current

\* The "findings" of baseline_from_report, all a later run reads of it.
Payload == Current

\* write_baseline_file, whatever happened before; --baseline and --write-baseline
\* name the same file.
WriteBaseline ==
    /\ stage = "compared" /\ opts.write
    /\ stage' = "written"
    /\ baseline' = [status |-> "ok", fps |-> Payload]
    /\ atWrite' = [raw |-> In(raw), active |-> In(active)]
    /\ UNCHANGED <<env, opts, raw, active, diff, issueCodes, failed, code>>

\* An OSError: opening failed, or the file was truncated and writing it failed.
BaselineFails ==
    /\ stage = "compared" /\ opts.write
    /\ stage' = "written"
    /\ baseline' \in {baseline, Corrupt}
    /\ issueCodes' = issueCodes \cup {"baseline_file_unwritable"}
    /\ failed' = failed \cup {"baseline"}
    /\ UNCHANGED <<env, opts, raw, active, diff, code, atWrite>>

\* The job is killed, or its machine lost, while write_text has truncated the file.
KilledWriting ==
    /\ stage = "compared" /\ opts.write
    /\ stage' = "exited"
    /\ baseline' = Corrupt
    /\ failed' = failed \cup {"killed"}
    /\ code' = 1
    /\ UNCHANGED <<env, opts, raw, active, diff, issueCodes, atWrite>>

\* Mutant: off by one.
MutantBlockingBelow(F, threshold) ==
    threshold > 0 /\ \E f \in F : active[f] + 1 >= threshold

\* _has_blocking_current_findings and _has_blocking_new_findings.
Blocking(F, threshold) ==
    threshold > 0 /\ \E f \in F : active[f] >= threshold

\* Mutant: a baseline that could not be loaded is only an issue.
MutantCiExitCodeIgnoresFailure ==
    IF ~Gating(opts) THEN 0
    ELSE IF issueCodes \cap ErrorCodes # {} THEN 1
    ELSE IF Blocking(Current, opts.failOn) THEN 2
    ELSE IF Blocking(diff.new, opts.failOnNew) THEN 2
    ELSE 0

CiExitCode ==
    IF failed # {} THEN 1
    ELSE IF ~Gating(opts) THEN 0
    ELSE IF issueCodes \cap ErrorCodes # {} THEN 1
    ELSE IF Blocking(Current, opts.failOn) THEN 2
    ELSE IF Blocking(diff.new, opts.failOnNew) THEN 2
    ELSE 0

ExitRun ==
    /\ stage = IF opts.write THEN "written" ELSE "compared"
    /\ stage' = "exited"
    /\ code' = CiExitCode
    /\ UNCHANGED <<env, baseline, opts, raw, active, diff, issueCodes, failed, atWrite>>

\* CI has taken note of the exit code.
Collect ==
    /\ stage = "exited"
    /\ stage' = "idle"
    /\ opts' = NoOptions /\ raw' = NoFindings /\ active' = NoFindings /\ diff' = NoDiff
    /\ issueCodes' = {} /\ failed' = {} /\ code' = 0
    /\ UNCHANGED <<env, baseline, atWrite>>

Run == ApplySuppressions \/ Traceback \/ ApplyBaseline \/ WriteBaseline \/ BaselineFails
           \/ KilledWriting \/ ExitRun \/ Collect

GateNext == EditConfig \/ EditSuppressions \/ NextDay \/ DamageBaseline \/ AnalysisReturns \/ Run

GateSpec == GateInit /\ [][GateNext]_gateVars

(***************************************************************************)
(* Properties.                                                             *)
(***************************************************************************)
Exited == stage = "exited"

GateTypeOK ==
    /\ day \in 0..LastDay
    /\ config \in Configs
    /\ supFile.entries \subseteq Entries
    /\ baseline.status \in FileStatus /\ baseline.fps \subseteq Finding
    /\ stage \in {"idle", "analysed", "suppressed", "compared", "written", "exited"}
    /\ opts \in Options \cup {NoOptions}
    /\ raw \in [Finding -> 0..MaxSeverity] /\ active \in [Finding -> 0..MaxSeverity]
    /\ code \in {0, 1, 2}
    /\ In(active) \subseteq In(raw)
    /\ In(raw) \subseteq In(config)
    /\ diff.new \cap diff.unchanged = {}
    /\ diff.new \cup diff.unchanged \subseteq In(active)

\* The suppressions a person would accept: a readable file, an unexpired entry.
RightlySuppressed(f) ==
    \E e \in supFile.entries : f \in e.covers /\ e.expires >= day

\* f is told of by a finding of a specific rule at the same place that the reader
\* of the report gets to see: a suppression file that is not read hides nothing.
ToldBySpecific(f) ==
    \E s \in Covers[f] \cap In(raw) : ~(ReadsSuppressions /\ RightlySuppressed(s))

\* A green gate is sound: every finding the analysis made at or above the threshold
\* is suppressed by an unexpired entry, or told of by a specific finding that is
\* not itself suppressed, or (with --fail-on-new) in the baseline the run compared
\* with.  Suppressing the specific finding must bring its universal twin back.
GreenIsAccountedFor ==
    Exited /\ code = 0 => \A f \in In(raw) :
        /\ opts.failOn > 0 /\ raw[f] >= opts.failOn =>
              RightlySuppressed(f) \/ ToldBySpecific(f)
        /\ opts.failOnNew > 0 /\ raw[f] >= opts.failOnNew =>
              RightlySuppressed(f) \/ ToldBySpecific(f) \/ f \in diff.unchanged

\* A red gate is justified: exit code 2 means a finding the report shows, which
\* nobody suppressed, of at least the severity of the gate that fired; a finding of
\* the baseline blocks only --fail-on.
RedIsJustified ==
    Exited /\ code = 2 => \E f \in In(raw) :
        /\ ~RightlySuppressed(f) \/ ~ReadsSuppressions
        /\ \/ opts.failOn > 0 /\ raw[f] >= opts.failOn
           \/ opts.failOnNew > 0 /\ raw[f] >= opts.failOnNew /\ f \notin diff.unchanged

\* The gate fails closed: a run whose baseline is missing, damaged (by a job killed
\* while writing it, for instance) or not given at all, or whose named suppression
\* file is unusable, exits with 1, gating or not, even if it then overwrote the
\* damaged baseline with a good one.
FailsClosed ==
    Exited =>
        /\ opts.baseline /\ ~diff.made => code = 1
        /\ opts.failOnNew > 0 /\ ~opts.baseline => code = 1
        /\ opts.suppressions /\ supFile.status # "ok" => code = 1
        /\ Gating(opts) /\ "analysis_error" \in issueCodes => code = 1

\* resolved_findings lists no violation that a complete analysis still found:
\* unless a specific rule now tells of it, it is gone.  Suppressing a finding
\* does not resolve it.
ResolvedIsGone ==
    \A f \in diff.resolved : f \in In(raw) => ToldBySpecific(f)

\* Writing the baseline does not accept for good what is only suppressed: a finding
\* that was suppressed when the baseline was written, and is not any more, blocks.
ExpiredBlocksAgain ==
    Exited /\ diff.made /\ ~opts.write /\ opts.failOnNew > 0
           /\ failed = {} /\ issueCodes \cap ErrorCodes = {} =>
        \A f \in (atWrite.raw \ atWrite.active) \cap In(raw) :
            raw[f] >= opts.failOnNew /\ ~RightlySuppressed(f) /\ ~ToldBySpecific(f)
                => code = 2

\* A finding that --fail-on-new blocks although it was already there when the
\* baseline was written has one of two excuses: it was suppressed then and is not
\* any more, or a specific finding told of it then and that one is gone or
\* suppressed now.
KnownBlocksOnlyWithExcuse ==
    Exited /\ diff.made /\ (~opts.write) => \A f \in diff.new \cap atWrite.raw :
        \/ f \notin atWrite.active
        \/ Covers[f] \cap (atWrite.active \ In(active)) # {}

\* So a green gate hides nothing, now or later, and a red one has its reason.
GreenIsEarned == GreenIsAccountedFor /\ ExpiredBlocksAgain /\ ResolvedIsGone
RedIsEarned == RedIsJustified /\ KnownBlocksOnlyWithExcuse

\* docs/ci-integration.md:14, "Baseline mode lets a repository keep CI green with
\* known existing findings while blocking newly introduced findings": a run that
\* only --fail-on-new turns red has a finding that was not there, or was suppressed,
\* when the baseline was written.  (A universal finding that was folded into a
\* specific one then is there and not new when the specific rule crashes now.)
OnlyIntroducedFindingsBlock ==
    Exited /\ code = 2 /\ opts.failOn = 0 /\ ~opts.write =>
        \E f \in diff.new : raw[f] >= opts.failOnNew /\ f \notin atWrite.active

\* docs/ci-integration.md:7, "`1` when analysis produced an execution or
\* configuration error": a gating run in which a rule crashed does not exit with 0.
CrashIsAnExecutionError ==
    Exited /\ Gating(opts) /\ "rule_execution_error" \in issueCodes => code # 0
===============================================================================
