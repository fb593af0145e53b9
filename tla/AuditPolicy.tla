------------------------------- MODULE AuditPolicy -------------------------------
(***************************************************************************)
(* The life of an audit policy (audit_policy.py): the file of               *)
(* `--policy` is validated against ledger and registry, resolved to one     *)
(* profile for the target, embedded in the report of the analysis, and      *)
(* resolved again by `assess --policy` to verify that report.               *)
(***************************************************************************)
EXTENDS Naturals, Sequences, FiniteSets

CONSTANTS
    Sources,     \* of the coverage ledger
    Items,       \* of the coverage ledger, and names that are not in it
    SourceOf,    \* [Items -> Sources \cup {None}], None for an unknown item
    Applicable,  \* the items a source expands to
    Rules,
    Evidence,    \* [Items -> [Rules -> "unknown", "none", "derived" or "direct"]]
    ServerTypes, \* nginx, apache, ...
    Policies,    \* the policy files to start from
    Targets,     \* what analyses are about
    None

\* Source policies, profiles and selectors are records of which only these fields
\* need a type.
ControlPolicy ==
    [item : Items, disposition : {"required", "advisory", "review", "not-applicable"},
     expectation : {"ledger-default", "declared-direct", "declared-partial", "operator-review"},
     required : SUBSET Rules]

ASSUME PolicyAssumption ==
    /\ SourceOf \in [Items -> Sources \cup {None}]
    /\ Applicable \subseteq {i \in Items : SourceOf[i] # None}
    /\ None \notin Sources \cup ServerTypes
    /\ Evidence \in [Items -> [Rules -> {"unknown", "none", "derived", "direct"}]]
    /\ Targets \subseteq [mode : {"local", "external"}, server : ServerTypes \cup {None},
                         path : Seq(STRING) \ {<<>>}]
    /\ \A pol \in Policies :
          /\ IsFiniteSet(DOMAIN pol.profiles)
          /\ \A i \in DOMAIN pol.profiles :
                /\ \A s \in pol.profiles[i].selectors : s.glob \in Seq(STRING)
                /\ \A k \in DOMAIN pol.profiles[i].sources :
                      pol.profiles[i].sources[k].controls \in Seq(ControlPolicy)

VARIABLES
    policy,    \* the file
    target,    \* mode, server type and label, cut at its slashes
    phase,     \* "validate", "resolve", "analyse", "verify" or "done"
    issues,    \* codes of what validation found
    resolved,  \* the resolved profile, or None
    reported,  \* the server type in the result, or None
    verdict    \* what assess said: "none", "match" or "mismatch"

policyVars == <<policy, target, phase, issues, resolved, reported, verdict>>

PolicyInit ==
    /\ policy \in Policies /\ target \in Targets
    /\ phase = "validate" /\ issues = {}
    /\ resolved = None /\ reported = None /\ verdict = "none"

-----------------------------------------------------------------------------
(* validate_audit_policy *)

RepeatsAny(ids) == \E i, j \in DOMAIN ids : i # j /\ ids[i] = ids[j]
ProfileIds(profiles) == [i \in DOMAIN profiles |-> profiles[i].id]
SourceIds(sources) == [i \in DOMAIN sources |-> sources[i].source]
ItemIds(controls) == [i \in DOMAIN controls |-> controls[i].item]

WildGlob(g) == \E i \in DOMAIN g : g[i] \in {".", "..", "**"}

SelectorIssue(s) ==
    \/ s.mode = "local" /\ s.server = None
    \/ s.mode = "external" /\ s.server \notin {None, "generic"}
    \/ s.glob # <<>> /\ WildGlob(s.glob)

\* One required rule of a control: it is known, evidence for the item, and as
\* direct as the control asks for.
RuleIssue(c, r) ==
    \/ Evidence[c.item][r] \in {"unknown", "none"}
    \/ c.expectation = "declared-direct" /\ Evidence[c.item][r] # "direct"

ControlIssue(c) ==
    \/ c.disposition = "not-applicable" /\ c.required # {}
    \/ c.expectation = "operator-review" /\ c.disposition # "review"
    \/ \E r \in c.required : RuleIssue(c, r)

MutantSourceIssues(s) ==
    UNION {IF SourceOf[c.item] = None THEN {"unknown_item_id"}
           ELSE IF SourceOf[c.item] # s.source THEN {"item_source_mismatch"}
           ELSE IF ControlIssue(c) THEN {"control"} ELSE {}
           : c \in {s.controls[i] : i \in DOMAIN s.controls}}

SourceIssues(s) ==
    (IF RepeatsAny(ItemIds(s.controls)) THEN {"duplicate_control_policy"} ELSE {}) \cup
    UNION {IF SourceOf[c.item] = None THEN {"unknown_item_id"}
           ELSE IF SourceOf[c.item] # s.source THEN {"item_source_mismatch"}
           ELSE IF ControlIssue(c) THEN {"control"} ELSE {}
           : c \in {s.controls[i] : i \in DOMAIN s.controls}}

ProfileIssues(p) ==
    (IF RepeatsAny(SourceIds(p.sources)) THEN {"duplicate_source_policy"} ELSE {}) \cup
    (IF \E s \in p.selectors : SelectorIssue(s) THEN {"selector"} ELSE {}) \cup
    UNION {IF s.source \in Sources THEN SourceIssues(s) ELSE {"unknown_source_id"}
           : s \in {p.sources[i] : i \in DOMAIN p.sources}}

PolicyIssues(pol) ==
    (IF RepeatsAny(ProfileIds(pol.profiles)) THEN {"duplicate_profile_id"} ELSE {}) \cup
    UNION {ProfileIssues(pol.profiles[i]) : i \in DOMAIN pol.profiles}

-----------------------------------------------------------------------------
(* resolve_audit_policy *)

SegmentMatches(segment, pattern) == pattern = "*" \/ pattern = segment

TargetIssue(t) ==
    \/ t.mode = "local" /\ t.server = None
    \/ t.mode = "external" /\ t.server \notin {None, "generic"}

\* A glob of one segment is matched with the last one of the target.
MutantGlobMatches(glob, path) ==
    IF Len(glob) = 1 THEN SegmentMatches(path[Len(path)], glob[1])
    ELSE \A i \in DOMAIN glob \cap DOMAIN path : SegmentMatches(path[i], glob[i])

GlobMatches(glob, path) ==
    IF Len(glob) = 1 THEN SegmentMatches(path[Len(path)], glob[1])
    ELSE Len(glob) = Len(path) /\ \A i \in DOMAIN glob : SegmentMatches(path[i], glob[i])

SelectorMatches(s, t) ==
    /\ s.mode = t.mode
    /\ t.mode = "local" => s.server = t.server
    /\ t.mode = "external" => s.server \in {None, "generic"}
    /\ s.glob = <<>> \/ GlobMatches(s.glob, t.path)

Matching(pol, t) ==
    {i \in DOMAIN pol.profiles : \E s \in pol.profiles[i].selectors : SelectorMatches(s, t)}

\* _resolve_source_policy: every applicable item of the source, as the last
\* control about it says or, without one, as the source or the policy says.
LastAbout(controls, item) ==
    CHOOSE i \in DOMAIN controls :
        controls[i].item = item /\ \A j \in DOMAIN controls : controls[j].item = item => j <= i
ResolveItem(pol, s, item) ==
    IF \E i \in DOMAIN s.controls : s.controls[i].item = item
    THEN s.controls[LastAbout(s.controls, item)]
    ELSE [item |-> item,
          disposition |-> IF s.disposition = None THEN pol.default ELSE s.disposition,
          expectation |-> pol.expectation, required |-> {}]
ResolveSource(pol, s) ==
    {ResolveItem(pol, s, item) : item \in {i \in Applicable : SourceOf[i] = s.source}}

ResolveErrors(pol, t) ==
    IF TargetIssue(t) THEN {"invalid_target_selector"}
    ELSE IF Matching(pol, t) = {} THEN {"no_matching_profile"}
    ELSE IF Cardinality(Matching(pol, t)) > 1 THEN {"multiple_matching_profiles"}
    ELSE {}

\* The hashes of the resolved policy stand for the file, the target and the controls.
Resolution(pol, t) ==
    LET p == pol.profiles[CHOOSE i \in Matching(pol, t) : TRUE] IN
    [file |-> pol, target |-> t, profile |-> p.id,
     controls |-> UNION {ResolveSource(pol, p.sources[i]) : i \in DOMAIN p.sources}]

-----------------------------------------------------------------------------
(* Commands. *)

\* The exit code is 1 and nothing is analysed.
RejectPolicy ==
    /\ phase = "validate" /\ PolicyIssues(policy) # {}
    /\ issues' = PolicyIssues(policy) /\ phase' = "done"
    /\ UNCHANGED <<policy, target, resolved, reported, verdict>>

AcceptPolicy ==
    /\ phase = "validate" /\ PolicyIssues(policy) = {}
    /\ phase' = "resolve"
    /\ UNCHANGED <<policy, target, issues, resolved, reported, verdict>>

RefuseTarget ==
    /\ phase = "resolve" /\ ResolveErrors(policy, target) # {}
    /\ issues' = ResolveErrors(policy, target) /\ phase' = "done"
    /\ UNCHANGED <<policy, target, resolved, reported, verdict>>

Resolve ==
    /\ phase = "resolve" /\ ResolveErrors(policy, target) = {}
    /\ resolved' = Resolution(policy, target) /\ phase' = "analyse"
    /\ UNCHANGED <<policy, target, issues, reported, verdict>>

\* The report names the server: the analyzer's, or the one that was identified.
MutantAnalyse ==
    /\ phase = "analyse"
    /\ reported' = None
    /\ phase' = "verify"
    /\ UNCHANGED <<policy, target, issues, resolved, verdict>>

Analyse ==
    /\ phase = "analyse"
    /\ \E s \in ServerTypes \cup {None} :
          /\ target.mode = "local" => s = target.server
          /\ reported' = s
    /\ phase' = "verify"
    /\ UNCHANGED <<policy, target, issues, resolved, verdict>>

\* assess --policy with the file as it is: _verify_policy_match.
Verify ==
    /\ phase = "verify"
    /\ LET t == [target EXCEPT !.server = reported] IN
       verdict' = IF ResolveErrors(policy, t) = {}
                     /\ Resolution(policy, t).file = resolved.file
                     /\ Resolution(policy, t).controls = resolved.controls
                     /\ Resolution(policy, t).target = resolved.target
                  THEN "match" ELSE "mismatch"
    /\ phase' = "done"
    /\ UNCHANGED <<policy, target, issues, resolved, reported>>

PolicyNext == RejectPolicy \/ AcceptPolicy \/ RefuseTarget \/ Resolve \/ Analyse \/ Verify

PolicySpec == PolicyInit /\ [][PolicyNext]_policyVars

-----------------------------------------------------------------------------
(* Properties. *)

\* The codes of an AuditPolicyIssue.
IssueCodes ==
    {"duplicate_profile_id", "duplicate_source_policy", "unknown_source_id", "selector",
     "duplicate_control_policy", "unknown_item_id", "item_source_mismatch", "control",
     "invalid_target_selector", "no_matching_profile", "multiple_matching_profiles"}

\* Types of the variables.
PolicyTypeOK ==
    /\ target \in Targets
    /\ phase \in {"validate", "resolve", "analyse", "verify", "done"}
    /\ issues \subseteq IssueCodes
    /\ resolved # None => issues = {} /\ resolved.target \in Targets
    /\ reported \in ServerTypes \cup {None}
    /\ verdict \in {"none", "match", "mismatch"}

\* What a glob denotes: "*" stands for one whole segment, and a glob without a
\* slash for the last segment of a target anywhere.
Expands(glob, path) ==
    \E stars \in [DOMAIN glob -> {path[i] : i \in DOMAIN path}] :
        LET g == [i \in DOMAIN glob |-> IF glob[i] = "*" THEN stars[i] ELSE glob[i]] IN
        \/ g = path
        \/ Len(glob) = 1 /\ g[1] = path[Len(path)]
Denotes(s, t) ==
    /\ s.mode = t.mode /\ (s.mode = "local" => s.server = t.server)
    /\ s.glob = <<>> \/ Expands(s.glob, t.path)
Wanted == {i \in DOMAIN policy.profiles :
              \E s \in policy.profiles[i].selectors : Denotes(s, target)}
ControlsIn(i) ==
    UNION {{s.controls[k] : k \in DOMAIN s.controls}
           : s \in {policy.profiles[i].sources[k] : k \in DOMAIN policy.profiles[i].sources}}

\* The profile that is resolved is the only one whose selectors denote the target:
\* no other profile the author wrote for it is left aside.
NoProfileLeftAside ==
    resolved # None =>
        \E i \in DOMAIN policy.profiles : Wanted = {i} /\ policy.profiles[i].id = resolved.profile

\* Every applicable item of the profile's sources is decided once, and whatever the
\* profile says about an item anywhere is what was decided: no word is lost.
EveryItemDecidedOnce ==
    resolved # None =>
        /\ \A i, j \in resolved.controls : i.item = j.item => i = j
        /\ \A p \in Wanted :
              /\ \A c \in ControlsIn(p) : c.item \in Applicable => c \in resolved.controls
              /\ \A k \in DOMAIN policy.profiles[p].sources : \A item \in Applicable :
                    SourceOf[item] = policy.profiles[p].sources[k].source =>
                        \E c \in resolved.controls : c.item = item

\* What the assessment relies on: a rule a control requires is evidence for its item,
\* as direct as expected, and a control out of scope or left to review asks for no
\* automatic answer.
RequirementsCanBeMet ==
    resolved # None => \A c \in resolved.controls :
        /\ \A r \in c.required : Evidence[c.item][r] \in {"derived", "direct"}
        /\ c.expectation = "declared-direct" => \A r \in c.required : Evidence[c.item][r] = "direct"
        /\ c.disposition = "not-applicable" => c.required = {}

\* A report of a local analysis verifies with the policy it was made with. One of an
\* external analysis may not: it carries the server type the probes detected, and the
\* policy was resolved before they ran, without one.
LocalReportVerifies ==
    verdict # "none" /\ target.mode = "local" => verdict = "match"

\* A policy that gets through validation is followed to the letter.
PolicyIsFollowed ==
    /\ PolicyTypeOK
    /\ NoProfileLeftAside
    /\ EveryItemDecidedOnce
    /\ RequirementsCanBeMet
    /\ LocalReportVerifies

=============================================================================
