--------------------------- MODULE ControlAssessment ---------------------------
(***************************************************************************)
(* `webconf-audit assess` for one control of the coverage ledger            *)
(* (assessment.py, assess_command in cli/__init__.py): a report of one or   *)
(* more results is verified, every result is judged against the control,   *)
(* the judgements are merged and the exit code tells a CI job about them.   *)
(***************************************************************************)
EXTENDS Naturals, Sequences, FiniteSets

CONSTANTS
    MappedRules,   \* rules that may be evidence for the control
    ResultTargets, \* what results are about: mode, server type and path or URL
    LedgerItems,   \* the ledger items to start from
    Reports,       \* the reports to start from
    Gates          \* the sets of statuses --fail-on may name

NotMapped == [strength |-> "none", origin |-> "none", absence |-> "none", listed |-> FALSE]
NoEvidence == [status |-> "none", complete |-> FALSE]

\* How the registry maps a rule to the item. A rule the item lists may carry
\* explicit absence semantics; one it does not list counts through its findings only.
RuleDefinition ==
    [strength : {"direct", "partial", "related"}, origin : {"declared", "derived"},
     absence : {"none", "facet-pass", "control-pass"}, listed : BOOLEAN]
Item ==
    [status : {"full", "partial", "policy-review", "uncovered"},
     rules : [MappedRules -> RuleDefinition \cup {NotMapped}],
     native : RuleDefinition \cup {NotMapped}]

SkipReasons == {"mode-incompatible", "server-incompatible", "input-unavailable"}
RunStates == {"completed", "failed", "not-selected"} \cup SkipReasons

\* One result of the report: how each rule ended, whether it has a finding that
\* maps to the item, the analyzer's own evidence, and the embedded policy's word.
Result ==
    [target : ResultTargets,
     trusted : BOOLEAN,     \* policy and manifest are there and their hashes match
     run : [MappedRules -> RunStates],
     found : [MappedRules -> {"no", "active", "suppressed"}],
     native : [status : {"pass", "fail", "indeterminate", "not-applicable"},
               complete : BOOLEAN] \cup {NoEvidence},
     disposition : {"required", "advisory", "review", "not-applicable"},
     required : SUBSET MappedRules,
     expectation : {"ledger-default", "operator-review"}]

ASSUME AssessmentAssumption == LedgerItems \subseteq Item /\ \A r \in Reports : r \in Seq(Result)

Statuses == {"fail", "indeterminate", "review", "partial", "pass",
             "not-assessed", "not-applicable"}

\* validate_coverage_ledger() and validate_audit_policy(): what a ledger and a
\* policy that passed them look like.
ValidDefinition(d) ==
    /\ d.absence # "none" => d.listed /\ d.origin = "declared" /\ d.strength # "related"
    /\ d.absence = "control-pass" => d.strength = "direct"
ValidItem(it) ==
    /\ ValidDefinition(it.native)
    /\ \A r \in MappedRules : ValidDefinition(it.rules[r])
    /\ it.status = "full" =>
          \/ \E r \in MappedRules : it.rules[r].listed /\ it.rules[r].strength = "direct"
          \/ it.native.strength = "direct"
Fits(it, e) ==
    /\ it.native = NotMapped => e.native = NoEvidence
    /\ e.disposition = "not-applicable" => e.required = {}
    /\ e.expectation = "operator-review" => e.disposition = "review"
    /\ \A r \in e.required : it.rules[r].listed

VARIABLES
    item,      \* the control in the ledger
    report,    \* the results of the report
    assessing, \* "verify", "assess", "gate" or "done"
    controls,  \* the assessments made so far, one per result
    retained,  \* out_of_policy_finding_retained issues: index and rule
    merged,    \* the status of the control in the artifact
    exit       \* the exit code of the command, or NoExit

assessmentVars == <<item, report, assessing, controls, retained, merged, exit>>

NoExit == 9
NoStatus == "none"

\* A report and ledger as the tool writes and accepts them, and reports that
\* were put together, cut or edited after that.
AssessmentInit ==
    /\ item \in LedgerItems /\ report \in Reports
    /\ ValidItem(item)
    /\ \A i \in DOMAIN report : Fits(item, report[i])
    /\ assessing = "verify"
    /\ controls = <<>> /\ retained = {} /\ merged = NoStatus /\ exit = NoExit

-----------------------------------------------------------------------------
(* verify_assessment_inputs *)

\* A fingerprint tells rule and target apart, not the result it is in.
Fingerprints(e) == {<<e.target, r>> : r \in {q \in MappedRules : e.found[q] # "no"}}

\* A finding of a rule the manifest did not select cannot come from that run.
Contradicted(e) == \E r \in MappedRules : e.found[r] # "no" /\ e.run[r] = "not-selected"

Acceptable(results) ==
    /\ results # <<>>
    /\ \A i \in DOMAIN results : results[i].trusted /\ ~Contradicted(results[i])
    /\ \A i, j \in DOMAIN results :
          i # j => Fingerprints(results[i]) \cap Fingerprints(results[j]) = {}

VerifyInputs ==
    /\ assessing = "verify" /\ Acceptable(report)
    /\ assessing' = "assess"
    /\ UNCHANGED <<item, report, controls, retained, merged, exit>>

Refuse ==
    /\ assessing = "verify" /\ ~Acceptable(report)
    /\ assessing' = "done" /\ exit' = 1
    /\ UNCHANGED <<item, report, controls, retained, merged>>

-----------------------------------------------------------------------------
(* _assess_single_control *)

\* A suppressed finding is a finding.
Found(e, r) == e.found[r] # "no"

Direct(d) == d.strength = "direct" /\ d.origin = "declared"

\* Rules the ledger lists, and rules with a finding that maps to the item.
Definitions(it, e) ==
    {r \in MappedRules : it.rules[r] # NotMapped /\ (it.rules[r].listed \/ Found(e, r))}

DirectNegative(it, e) ==
    \E r \in Definitions(it, e) : Found(e, r) /\ Direct(it.rules[r])
PartialNegative(it, e) ==
    \E r \in Definitions(it, e) :
        /\ Found(e, r) /\ ~Direct(it.rules[r])
        /\ it.rules[r].strength = "partial" \/ it.rules[r].origin = "derived"

\* Rules that completed, found nothing, and for which that says something.
CompletedPositive(it, e, absence) ==
    {r \in Definitions(it, e) :
        e.run[r] = "completed" /\ ~Found(e, r) /\ it.rules[r].absence = absence}

\* _mapped_analyzer_evidence(): what the analyzer itself says of the control.
NativeDirect(it, e) == e.native # NoEvidence /\ Direct(it.native)
NativeFail(it, e) == NativeDirect(it, e) /\ e.native.status = "fail"
NativeIndeterminate(it, e) ==
    /\ NativeDirect(it, e)
    /\ \/ e.native.status = "indeterminate"
       \/ e.native.status = "pass" /\ ~e.native.complete
NativePass(it, e) ==
    /\ NativeDirect(it, e) /\ it.native.absence = "control-pass"
    /\ e.native.status = "pass" /\ e.native.complete
NativeFacet(it, e) ==
    NativeDirect(it, e) /\ it.native.absence = "facet-pass" /\ e.native.status = "pass"

\* _RULE_SKIP_REASON
SkipReason(reason) ==
    CASE reason = "mode-incompatible" -> "mode-unavailable"
      [] reason = "server-incompatible" -> "server-unavailable"
      [] OTHER -> "skipped"

\* The reasons for which evidence of the control is missing.
MutantMissing(it, e) ==
    {"execution-failed" : r \in {q \in e.required : e.run[q] = "failed"}}

Missing(it, e) ==
    {"ledger-uncovered" : x \in {i \in {it} : i.status = "uncovered"}}
    \cup {"execution-failed" : r \in {q \in e.required : e.run[q] = "failed"}}
    \cup {SkipReason(e.run[r]) : r \in {q \in e.required : e.run[q] \in SkipReasons}}
    \cup {"not-selected" : r \in {q \in e.required : e.run[q] = "not-selected"}}
    \cup {"no-pass-semantics" : r \in
            {q \in e.required : /\ e.run[q] = "completed" /\ ~Found(e, q)
                                /\ it.rules[q].absence = "none"}}
    \cup {"operator-evidence-required" : x \in
            {f \in {e} : f.expectation = "operator-review"}}

Inconclusive == {"execution-failed", "skipped", "mode-unavailable", "server-unavailable"}

\* required_positive_rule_ids and pass_candidate
RequiredPositive(it, e) ==
    IF e.required # {} THEN e.required
    ELSE {r \in Definitions(it, e) : it.rules[r].absence = "control-pass"}

MutantPassCandidate(it, e) ==
    RequiredPositive(it, e) \cap CompletedPositive(it, e, "control-pass") # {}
PassCandidate(it, e) ==
    /\ RequiredPositive(it, e) # {}
    /\ RequiredPositive(it, e) \subseteq CompletedPositive(it, e, "control-pass")

Positive(it, e) == PassCandidate(it, e) \/ NativePass(it, e)
FacetOnly(it, e) ==
    \/ CompletedPositive(it, e, "facet-pass") # {} \/ CompletedPositive(it, e, "control-pass") # {}
    \/ NativeFacet(it, e)

\* The cascade: the first that applies decides.
StatusOf(it, e) ==
    IF e.disposition = "not-applicable" THEN "not-applicable"
    ELSE IF DirectNegative(it, e) \/ NativeFail(it, e) THEN "fail"
    ELSE IF NativeIndeterminate(it, e) \/ Missing(it, e) \cap Inconclusive # {}
         THEN "indeterminate"
    ELSE IF e.disposition = "review" \/ it.status = "policy-review" THEN "review"
    ELSE IF PartialNegative(it, e) THEN "partial"
    ELSE IF Positive(it, e) /\ it.status = "full" THEN "pass"
    ELSE IF Positive(it, e) /\ it.status = "partial" THEN "partial"
    ELSE IF FacetOnly(it, e) \/ NativePass(it, e) THEN "partial"
    ELSE "not-assessed"

\* The control is out of scope: its findings stay as warnings.
MutantRetained(i) ==
    {<<i, r>> : r \in {q \in MappedRules : /\ item.rules[q] # NotMapped /\ report[i].found[q] = "active"
                                      /\ report[i].disposition = "not-applicable"}}

Retained(i) ==
    {<<i, r>> : r \in {q \in MappedRules : /\ item.rules[q] # NotMapped /\ Found(report[i], q)
                                      /\ report[i].disposition = "not-applicable"}}

AssessSingleControl ==
    LET i == Len(controls) + 1 IN
    /\ assessing = "assess" /\ i \in DOMAIN report
    /\ controls' = Append(controls, StatusOf(item, report[i]))
    /\ retained' = retained \cup Retained(i)
    /\ UNCHANGED <<item, report, assessing, merged, exit>>

-----------------------------------------------------------------------------
(* _merge_control_assessments and the exit code *)

\* _STATUS_PRECEDENCE, worst first.
MutantPrecedence ==
    <<"fail", "review", "partial", "pass", "indeterminate", "not-assessed", "not-applicable">>
StatusPrecedence ==
    <<"fail", "indeterminate", "review", "partial", "pass", "not-assessed", "not-applicable">>

Worse(s, t) ==
    \E a, b \in DOMAIN StatusPrecedence :
        StatusPrecedence[a] = s /\ StatusPrecedence[b] = t /\ a < b

\* All results say not-applicable, or the worst of what they say.
WorstOf(statuses) == CHOOSE s \in statuses : \A t \in statuses : ~Worse(t, s)

Merge ==
    /\ assessing = "assess" /\ Len(controls) = Len(report)
    /\ merged' = WorstOf({controls[i] : i \in DOMAIN controls})
    /\ assessing' = "gate"
    /\ UNCHANGED <<item, report, controls, retained, exit>>

\* The artifact is written; --fail-on looks at it.

Gate ==
    /\ assessing = "gate"
    /\ \E gate \in Gates : exit' = IF merged \in gate THEN 3 ELSE 0
    /\ assessing' = "done"
    /\ UNCHANGED <<item, report, controls, retained, merged>>

\* The output file exists and --force was not given, or cannot be written.
WriteFails ==
    /\ assessing = "gate"
    /\ exit' = 1 /\ assessing' = "done"
    /\ UNCHANGED <<item, report, controls, retained, merged>>

AssessmentNext == VerifyInputs \/ Refuse \/ AssessSingleControl \/ Merge \/ Gate \/ WriteFails

AssessmentSpec == AssessmentInit /\ [][AssessmentNext]_assessmentVars

-----------------------------------------------------------------------------
(* Properties. *)

\* Types of the variables.
AssessmentTypeOK ==
    /\ item \in Item
    /\ \A i \in DOMAIN report : report[i] \in Result
    /\ assessing \in {"verify", "assess", "gate", "done"}
    /\ \A i \in DOMAIN controls : controls[i] \in Statuses
    /\ retained \in SUBSET ((DOMAIN report) \X MappedRules)
    /\ merged \in Statuses \cup {NoStatus}
    /\ exit \in {0, 1, 3, NoExit}

Assessed == DOMAIN controls

\* The same result with its suppressions lifted.
Unsuppressed(e) ==
    [e EXCEPT !.found = [r \in MappedRules |-> IF e.found[r] = "no" THEN "no" ELSE "active"]]

\* Suppressing a finding keeps it out of the CI gate of `analyze`; it changes
\* no assessment (suppressed_map counts like finding_map in every branch).
SuppressionChangesNothing ==
    \A i \in Assessed : controls[i] = StatusOf(item, Unsuppressed(report[i]))

\* "pass" is what nothing speaks against and something speaks for: the item is
\* fully covered, no finding but contextual ones, every rule the policy requires
\* completed without finding and counts as positive, or the analyzer itself
\* vouches for the control from a complete inventory.
PassIsEarned ==
    \A i \in Assessed : controls[i] = "pass" =>
        LET e == report[i] IN
        /\ item.status = "full" /\ e.disposition \in {"required", "advisory"}
        /\ \A r \in MappedRules : Found(e, r) =>
              item.rules[r].strength \in {"related", "none"} /\ item.rules[r].origin # "derived"
        /\ \A r \in e.required : e.run[r] \in {"completed", "not-selected"}
        /\ \/ /\ e.required # {}
              /\ \A r \in e.required : e.run[r] = "completed" /\ item.rules[r].absence = "control-pass"
           \/ /\ e.required = {}
              /\ \E r \in MappedRules : item.rules[r].absence = "control-pass" /\ e.run[r] = "completed"
              /\ \A r \in MappedRules : item.rules[r].absence = "control-pass" => e.run[r] = "completed"
           \/ e.native = [status |-> "pass", complete |-> TRUE]

\* The run that failed or skipped a rule, and so has not what it would have found.
Degraded(e, r, state) == [e EXCEPT !.run[r] = state, !.found[r] = "no"]

\* Take any report and let a rule the policy requires crash or be skipped: the
\* control is failed by other evidence, or nothing can be concluded.
RequiredCrashConcludesNothing ==
    \A i \in Assessed : \A r \in report[i].required :
        \A state \in {"failed"} \cup SkipReasons :
            StatusOf(item, Degraded(report[i], r, state)) \in {"fail", "indeterminate"}

\* Every finding that maps to the control shows in the artifact: it is kept as a
\* warning where the control is out of scope, and otherwise the control does not
\* pass unless the finding is context only.
NoFindingVanishes ==
    \A i \in Assessed : \A r \in MappedRules :
        (Found(report[i], r) /\ item.rules[r] # NotMapped) =>
            IF report[i].disposition = "not-applicable" THEN <<i, r>> \in retained
            ELSE \/ controls[i] # "pass"
                 \/ item.rules[r].strength = "related" /\ item.rules[r].origin = "declared"

\* A job that asks to be failed on fail and indeterminate is green only if no
\* result of the report is one or the other.
GreenHidesNothing ==
    (assessing = "done" /\ exit = 0 /\ \A g \in Gates : {"fail", "indeterminate"} \subseteq g) =>
        /\ Len(controls) = Len(report)
        /\ \A i \in Assessed : controls[i] \notin {"fail", "indeterminate"}

\* A control passes for what was seen only, and fails for what was found, whoever
\* suppressed it.
VerdictsAreEarned ==
    /\ AssessmentTypeOK
    /\ SuppressionChangesNothing
    /\ PassIsEarned
    /\ RequiredCrashConcludesNothing
    /\ NoFindingVanishes

=============================================================================
