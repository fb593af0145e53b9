------------------------------ MODULE MC_Evidence ------------------------------
(***************************************************************************)
(* What comes after the rules: the registry whose revision stamps a report, *)
(* the policy it is made with, its assessment, the two writers of results,  *)
(* and the gate in CI. They share no memory, so each is run on its own,      *)
(* `part` says which; the others stay in an initial state.                   *)
(***************************************************************************)
EXTENDS RuleRegistry, AuditPolicy, ControlAssessment, ExportWriter, ReconciliationWriter,
        MC_CiGate

CONSTANTS
    w1, w2, w3,                                              \* exports
    cis, asvs, i1, i2, i3, unlisted, direct, derived,        \* policies
    ra, rb, t1, t2                                           \* assessments

VARIABLE part

evidenceVars ==
    <<part, vars, policyVars, assessmentVars, exportVars, documentVars, gateVars>>

-----------------------------------------------------------------------------
(* Rules: a package of two modules, the second of which re-exports a function of *)
(* the first; one like external.rules, whose __init__ imports a private module   *)
(* and a public one before it registers two metadata-only rules; a single file.  *)

MCPackage == {"nginx", "external", "single"}
MCPublic == [nginx |-> <<"n1", "n2">>, external |-> <<"e1">>, single |-> <<>>]
MCPrivate == [nginx |-> <<>>, external |-> <<"_p", "e1">>, single |-> <<>>]
MCDefines == [n1 |-> <<"r1", "r2">>, n2 |-> <<"r3">>, e1 |-> <<"r4">>, _p |-> <<>>,
              nginx |-> <<>>, external |-> <<"x1", "x2">>, single |-> <<>>]
MCExposes == [n1 |-> <<"r1", "r2">>, n2 |-> <<"r1", "r3">>, e1 |-> <<"r4">>, _p |-> <<>>]
MCMetaRule == {"x1", "x2"}

-----------------------------------------------------------------------------
(* Policies: two sources, three items, one of them not applicable, and a name that *)
(* is in no ledger. Policies of one profile vary in their controls, policies of    *)
(* two in their selectors.                                                         *)

MCItems == {i1, i2, i3, unlisted}
MCControls ==
    [item : {i1, unlisted}, disposition : {"required", "review", "not-applicable"},
     expectation : {"declared-direct", "operator-review"}, required : {{}, {direct}, {derived}}]
    \cup [item : {i2, i3}, disposition : {"advisory"}, expectation : {"ledger-default"},
          required : {{}, {direct}}]
SourcePolicy(s, c) == [source |-> s, disposition |-> None, controls |-> c]
Selectors ==
    {[mode |-> m[1], server |-> m[2], glob |-> g] :
        m \in {<<"local", "nginx">>, <<"local", None>>, <<"external", "generic">>, <<"external", "nginx">>},
        g \in {<<>>, <<"*">>, <<"etc", "*">>, <<"etc", "nginx.conf">>, <<"etc", "**">>,
               <<"etc", "nginx", "*">>}}
Anything == {[mode |-> "local", server |-> "nginx", glob |-> <<>>],
             [mode |-> "external", server |-> None, glob |-> <<>>]}
ProfileOf(id, selectors, sources) == [id |-> id, selectors |-> selectors, sources |-> sources]
PolicyOf(profiles) ==
    [default |-> "advisory", expectation |-> "ledger-default", profiles |-> profiles]

MCSourceOf == [i \in Items |-> IF i \in {i1, i3} THEN cis ELSE IF i = i2 THEN asvs ELSE None]
MCEvidence ==
    [i \in Items |-> [r \in {direct, derived} |->
        IF i = i1 THEN IF r = direct THEN "direct" ELSE "derived"
        ELSE IF r = direct THEN "none" ELSE "unknown"]]
MCPolicies ==
    {PolicyOf(<<ProfileOf("p", Anything, <<SourcePolicy(cis, <<c, d>>), SourcePolicy(s, <<>>)>>)>>)
        : c \in MCControls, d \in MCControls, s \in {asvs, cis}}
    \cup {PolicyOf(<<ProfileOf("p", {a}, <<SourcePolicy(cis, <<>>)>>),
                     ProfileOf(id, {b}, <<SourcePolicy(asvs, <<>>)>>)>>)
        : a \in Selectors, b \in Selectors, id \in {"p", "q"}}
MCTargets ==
    {[mode |-> "local", server |-> "nginx", path |-> <<"etc", "nginx.conf">>],
     [mode |-> "local", server |-> "nginx", path |-> <<"etc", "nginx", "nginx.conf">>],
     [mode |-> "external", server |-> None, path |-> <<"etc", "nginx.conf">>]}

-----------------------------------------------------------------------------
(* Assessments: two rules; every report of one result over a few ledger items, and *)
(* reports of two results, of the same target or not, with fewer cases each.       *)

Def(strength, origin, absence, listed) ==
    [strength |-> strength, origin |-> origin, absence |-> absence, listed |-> listed]
Full == Def("direct", "declared", "control-pass", TRUE)
Plain == Def("direct", "declared", "none", TRUE)
Facet == Def("partial", "declared", "facet-pass", TRUE)
Derived == Def("direct", "derived", "none", FALSE)
Context == Def("related", "declared", "none", TRUE)
Both(a, b) == [r \in {ra, rb} |-> IF r = ra THEN a ELSE b]
MCLedgerItems ==
    [status : {"full", "partial"}, native : {NotMapped, Full},
     rules : {Both(Full, Full), Both(Full, Plain), Both(Full, Derived), Both(Plain, Context),
              Both(Full, Context), Both(Facet, NotMapped), Both(Plain, Derived)}]
    \cup [status : {"policy-review", "uncovered"}, rules : {Both(Full, Plain)}, native : {NotMapped}]

Natives ==
    [status : {"none"}, complete : {FALSE}] \cup [status : {"pass"}, complete : BOOLEAN]
    \cup [status : {"fail", "indeterminate"}, complete : {TRUE}]

\* A rule that was not selected has findings only in a report that was edited.
Endings ==
    {<<s, f>> \in {"completed", "failed", "not-selected", "mode-incompatible", "input-unavailable"}
                  \X {"no", "active", "suppressed"} :
        s \in {"failed", "not-selected"} => f # "suppressed"}
Words == {<<"required", {}, "ledger-default">>, <<"required", {ra}, "ledger-default">>,
          <<"advisory", {ra, rb}, "ledger-default">>, <<"review", {ra}, "operator-review">>,
          <<"not-applicable", {}, "ledger-default">>}

ResultOf(t, trusted, a, b, n, p) ==
    [target |-> t, trusted |-> trusted, run |-> Both(a[1], b[1]), found |-> Both(a[2], b[2]),
     native |-> n, disposition |-> p[1], required |-> p[2], expectation |-> p[3]]
Single == {<<ResultOf(t1, TRUE, a, b, n, p)>> : a \in Endings, b \in Endings, n \in Natives, p \in Words}

\* What two results of one report may be.
FewEndings == {<<"completed", "no">>, <<"completed", "active">>, <<"failed", "no">>, <<"not-selected", "no">>}
Few(trusted) ==
    {ResultOf(t, trusted, a, b, [status |-> "none", complete |-> FALSE], p) :
        t \in {t1, t2}, a \in FewEndings, b \in FewEndings,
        p \in {<<"required", {ra}, "ledger-default">>, <<"not-applicable", {}, "ledger-default">>}}
MCReports == Single \cup (Few(TRUE) \X Few(TRUE)) \cup {<<e>> : e \in Few(FALSE)} \cup {<<>>}

MCGates == {{"fail", "indeterminate"}}

-----------------------------------------------------------------------------
(* One of them runs. *)

\* What is not asked for stays in one of its initial states.
SomePolicy == CHOOSE p \in Policies : TRUE
SomeTarget == CHOOSE t \in Targets : TRUE
SomeItem   == CHOOSE it \in LedgerItems : ValidItem(it)

SomeConfig == CHOOSE c \in Configs : TRUE

PolicyRests == policy = SomePolicy /\ target = SomeTarget /\ PolicyInit
AssessmentRests == item = SomeItem /\ report = <<>> /\ AssessmentInit
DocumentsRest == before = {} /\ DocumentsInit
GateRests == config = SomeConfig /\ GateInit

EvidenceInit ==
    /\ Init /\ ExportInit
    /\ \/ /\ part \in {"registry", "export"}
          /\ PolicyRests /\ AssessmentRests /\ DocumentsRest /\ GateRests
       \/ part = "policy" /\ AssessmentRests /\ DocumentsRest /\ GateRests /\ PolicyInit
       \/ part = "assessment" /\ PolicyRests /\ DocumentsRest /\ GateRests /\ AssessmentInit
       \/ part = "documents" /\ PolicyRests /\ AssessmentRests /\ GateRests /\ DocumentsInit
       \/ part = "gate" /\ PolicyRests /\ AssessmentRests /\ DocumentsRest /\ GateInit

EvidenceNext ==
    /\ UNCHANGED part
    /\ \/ /\ part = "registry" /\ Next
          /\ UNCHANGED <<policyVars, assessmentVars, exportVars, documentVars, gateVars>>
       \/ /\ part = "policy" /\ PolicyNext
          /\ UNCHANGED <<vars, assessmentVars, exportVars, documentVars, gateVars>>
       \/ /\ part = "assessment" /\ AssessmentNext
          /\ UNCHANGED <<vars, policyVars, exportVars, documentVars, gateVars>>
       \/ /\ part = "export" /\ ExportNext
          /\ UNCHANGED <<vars, policyVars, assessmentVars, documentVars, gateVars>>
       \/ /\ part = "documents" /\ DocumentsNext
          /\ UNCHANGED <<vars, policyVars, assessmentVars, exportVars, gateVars>>
       \/ /\ part = "gate" /\ GateNext
          /\ UNCHANGED <<vars, policyVars, assessmentVars, exportVars, documentVars>>

EvidenceSpec == EvidenceInit /\ [][EvidenceNext]_evidenceVars

=============================================================================
