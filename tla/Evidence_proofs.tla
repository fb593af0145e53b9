--------------------------- MODULE Evidence_proofs ---------------------------
(***************************************************************************)
(* What comes after the rules, for every value of the constants: the         *)
(* registries are right for every set of packages, modules and rules that    *)
(* satisfies RegistryAssumption, a policy is followed for every ledger,      *)
(* policy file and target that PolicyAssumption allows, and the verdicts of  *)
(* an assessment are earned for every ledger, report and gate that           *)
(* AssessmentAssumption allows.  Any number of writers of one export, any of *)
(* them with --force, deceive neither readers nor callers whatever fails and *)
(* whoever is killed, and publish atomically in the sense of PublishContract;*)
(* the documents of a reconciliation are published together or not at all    *)
(* unless two operations fail.                                               *)
(***************************************************************************)
EXTENDS RuleRegistry, AuditPolicy, ControlAssessment, ExportWriter, ReconciliationWriter,
        FiniteSetTheorems, TLAPS

-----------------------------------------------------------------------------
(* The registries.                                                           *)

\* A fully loaded global registry stamps its reports with the full catalog, so
\* the revisions need no strengthening of their own.
IInv == TypeOK /\ CataloguedIsExecutable /\ LoadedMeansComplete /\ NeverDuplicate /\ OneRevision

\* Every registry is empty and nothing is marked as loaded.
LEMMA InitIInv == Init => IInv
BY RegistryAssumption DEF Init, IInv, TypeOK, CataloguedIsExecutable, LoadedMeansComplete,
   NeverDuplicate, OneRevision

\* Registering rules at import time keeps the two stores in step.
LEMMA DecorateKeeps ==
    ASSUME IInv, NEW rules \in SUBSET Rule, Decorate(rules)
    PROVE  /\ catalog' \in [Registry -> SUBSET Rule]
           /\ executable' \in [Registry -> SUBSET WithFunction]
           /\ CataloguedIsExecutable'
           /\ \A g \in Registry : executable[g] \subseteq executable'[g]
BY RegistryAssumption DEF IInv, TypeOK, CataloguedIsExecutable, Decorate, WithFunction

\* A step that registers rules and imports modules, and only that, keeps the
\* invariant whatever call is under way.
LEMMA ImportKeeps ==
    ASSUME IInv, NEW rules \in SUBSET Rule, Decorate(rules),
           cached' \subseteq Importable,
           call' = NoCall \/ call' \in [registry : Registry, package : Package, todo : Seq(Importable)],
           UNCHANGED <<loaded, duplicate, revisions>>
    PROVE  IInv'
<1>1. TypeOK' /\ CataloguedIsExecutable'
  BY DecorateKeeps DEF IInv, TypeOK
<1>2. LoadedMeansComplete'
  BY DecorateKeeps DEF IInv, TypeOK, LoadedMeansComplete, RulesOf
<1>3. NeverDuplicate' /\ OneRevision'
  BY DEF IInv, NeverDuplicate, OneRevision
<1>4. QED BY <1>1, <1>2, <1>3 DEF IInv

\* What the scan registers: everything the modules expose, none of it metadata
\* only, and nothing twice.
LEMMA ScanRegisters ==
    ASSUME IInv, NEW g \in Registry, NEW p \in Package
    PROVE  /\ RegisterDecorated(catalog[g], Public[p]).rules = catalog[g] \cup RulesOf(p)
           /\ RegisterDecorated(catalog[g], Public[p]).duplicate = FALSE
           /\ RulesOf(p) \subseteq WithFunction
<1>1. ToSet(Public[p]) \subseteq Modules
  BY DEF Modules
<1>2. \A m \in ToSet(Public[p]) : ToSet(Exposes[m]) \subseteq WithFunction /\ IsInjective(Exposes[m])
  BY <1>1, RegistryAssumption DEF ToSet
<1>3. RulesOf(p) \subseteq WithFunction
  BY <1>2 DEF RulesOf
<1>4. \A i \in DOMAIN Public[p] : Public[p][i] \in ToSet(Public[p])
  BY DEF ToSet
<1>5. \A i \in DOMAIN Public[p] : \A a, b \in DOMAIN Exposes[Public[p][i]] :
         Exposes[Public[p][i]][a] = Exposes[Public[p][i]][b] => a = b
  BY <1>2, <1>4 DEF IsInjective
<1>6. RegisterDecorated(catalog[g], Public[p]).duplicate = FALSE
  BY <1>5 DEF RegisterDecorated
<1>7. RegisterDecorated(catalog[g], Public[p]).rules = catalog[g] \cup RulesOf(p)
  BY DEF RegisterDecorated, RulesOf
<1>8. QED BY <1>3, <1>6, <1>7

\* A registry is loaded once its scan has registered what the modules expose.
LEMMA FinishKeeps == IInv /\ FinishLoading => IInv'
<1> SUFFICES ASSUME IInv, FinishLoading PROVE IInv'
  OBVIOUS
<1> DEFINE g == call.registry
           p == call.package
<1>1. g \in Registry /\ p \in Package
  BY DEF IInv, TypeOK, FinishLoading
<1>2. /\ catalog' = [catalog EXCEPT ![g] = catalog[g] \cup RulesOf(p)]
      /\ executable' = [executable EXCEPT ![g] = executable[g] \cup ((catalog[g] \cup RulesOf(p)) \ catalog[g])]
      /\ loaded' = [loaded EXCEPT ![g] = @ \cup {p}]
      /\ duplicate' = duplicate
  BY <1>1, ScanRegisters DEF FinishLoading, IInv, TypeOK
<1>3. RulesOf(p) \subseteq WithFunction /\ WithFunction \subseteq Rule /\ WithFunction \cap MetaRule = {}
  BY <1>1, ScanRegisters DEF WithFunction
<1>4. TypeOK' /\ NeverDuplicate'
  BY <1>1, <1>2, <1>3 DEF IInv, TypeOK, NeverDuplicate, FinishLoading
<1>5. CataloguedIsExecutable'
  BY <1>1, <1>2, <1>3 DEF IInv, TypeOK, CataloguedIsExecutable
<1>6. LoadedMeansComplete'
  <2> SUFFICES ASSUME NEW h \in Registry, NEW q \in loaded'[h]
               PROVE  RulesOf(q) \subseteq executable'[h]
    BY DEF LoadedMeansComplete, RulesOf
  <2>1. q \in loaded[h] \/ (h = g /\ q = p)
    BY <1>1, <1>2 DEF IInv, TypeOK
  <2>2. CASE q \in loaded[h]
    BY <1>1, <1>2, <2>2 DEF IInv, TypeOK, LoadedMeansComplete
  <2>3. CASE h = g /\ q = p
    BY <1>1, <1>2, <1>3, <2>3 DEF IInv, TypeOK, CataloguedIsExecutable
  <2>4. QED BY <2>1, <2>2, <2>3
<1>7. OneRevision'
  BY DEF IInv, OneRevision, FinishLoading
<1>8. QED BY <1>4, <1>5, <1>6, <1>7 DEF IInv

\* A report takes its revision when every package is loaded: from the full catalog.
LEMMA ReportKeeps == IInv /\ WriteReport => IInv'
<1> SUFFICES ASSUME IInv, WriteReport PROVE IInv'
  OBVIOUS
<1>1. WithFunction \subseteq executable[Global]
  BY RegistryAssumption DEF IInv, WriteReport, LoadedMeansComplete
<1>2. catalog'[Global] = Rule
  BY <1>1, RegistryAssumption DEF IInv, TypeOK, WriteReport, CataloguedIsExecutable, WithFunction
<1>3. OneRevision'
  BY <1>2 DEF IInv, OneRevision, WriteReport
<1>4. TypeOK' /\ CataloguedIsExecutable'
  BY <1>2, RegistryAssumption DEF IInv, TypeOK, OneRevision, CataloguedIsExecutable, WriteReport
<1>5. LoadedMeansComplete' /\ NeverDuplicate'
  BY DEF IInv, LoadedMeansComplete, NeverDuplicate, WriteReport, RulesOf
<1>6. QED BY <1>3, <1>4, <1>5 DEF IInv

\* Every other step imports or leaves the stores alone.
LEMMA NextIInv == IInv /\ [Next]_vars => IInv'
<1> SUFFICES ASSUME IInv, [Next]_vars PROVE IInv'
  OBVIOUS
<1> USE RegistryAssumption
<1>1. ASSUME NEW g \in Registry, Clear(g) PROVE IInv'
  BY <1>1 DEF Clear, IInv, TypeOK, CataloguedIsExecutable, LoadedMeansComplete, NeverDuplicate, OneRevision
<1>2. ASSUME NEW g \in Registry, RegisterMetas(g) PROVE IInv'
  BY <1>2 DEF RegisterMetas, IInv, TypeOK, CataloguedIsExecutable, LoadedMeansComplete, NeverDuplicate,
     OneRevision, RulesOf
<1>3. ASSUME NEW g \in Registry, NEW p \in Package, EnsureLoaded(g, p) PROVE IInv'
  <2>1. Modules \subseteq Importable /\ p \in Importable
    BY DEF Importable
  <2>2. Private[p] \in Seq(Importable) /\ Public[p] \in Seq(Importable) /\ <<p>> \in Seq(Importable)
    BY <2>1
  <2>3. call' \in [registry : Registry, package : Package, todo : Seq(Importable)]
    BY <1>3, <2>2 DEF EnsureLoaded
  <2>4. QED
    BY <1>3, <2>3 DEF EnsureLoaded, IInv, TypeOK, CataloguedIsExecutable, LoadedMeansComplete,
       NeverDuplicate, OneRevision, RulesOf
<1>4. CASE ImportCached
  <2>1. call \in [registry : Registry, package : Package, todo : Seq(Importable)] /\ call.todo # <<>>
    BY <1>4 DEF ImportCached, IInv, TypeOK
  <2>2. Tail(call.todo) \in Seq(Importable)
    BY <2>1
  <2>3. call' \in [registry : Registry, package : Package, todo : Seq(Importable)]
    BY <1>4, <2>1, <2>2 DEF ImportCached
  <2>4. QED
    BY <1>4, <2>3 DEF ImportCached, IInv, TypeOK, CataloguedIsExecutable, LoadedMeansComplete,
       NeverDuplicate, OneRevision, RulesOf
<1>5. CASE ImportRuns
  <2>1. Head(call.todo) \in Importable /\ Tail(call.todo) \in Seq(Importable)
    BY <1>5 DEF ImportRuns, IInv, TypeOK
  <2>2. ToSet(Defines[Head(call.todo)]) \in SUBSET Rule
    BY <2>1 DEF ToSet
  <2>3. call' \in [registry : Registry, package : Package, todo : Seq(Importable)]
    BY <1>5, <2>1 DEF ImportRuns, IInv, TypeOK
  <2>4. cached' \subseteq Importable
    BY <1>5, <2>1 DEF ImportRuns, IInv, TypeOK
  <2>5. QED BY <1>5, <2>2, <2>3, <2>4, ImportKeeps DEF ImportRuns
<1>6. CASE ImportRaises
  <2>1. Head(call.todo) \in Importable
    BY <1>6 DEF ImportRaises, IInv, TypeOK
  <2>2. PICK k \in 0..Len(Defines[Head(call.todo)]) :
           Decorate(ToSet(SubSeq(Defines[Head(call.todo)], 1, k)))
    BY <1>6 DEF ImportRaises
  <2>3. ToSet(SubSeq(Defines[Head(call.todo)], 1, k)) \in SUBSET Rule
    <3>1. Defines[Head(call.todo)] \in Seq(Rule)
      BY <2>1
    <3>2. SubSeq(Defines[Head(call.todo)], 1, k) \in Seq(Rule)
      BY <3>1
    <3>3. QED BY <3>2 DEF ToSet
  <2>4. QED BY <1>6, <2>2, <2>3, ImportKeeps DEF ImportRaises, IInv, TypeOK
<1>7. CASE UNCHANGED vars
  BY <1>7 DEF vars, IInv, TypeOK, CataloguedIsExecutable, LoadedMeansComplete, NeverDuplicate,
     OneRevision, RulesOf
<1>8. QED
  BY <1>1, <1>2, <1>3, <1>4, <1>5, <1>6, <1>7, FinishKeeps, ReportKeeps DEF Next

\* However imports fail, registries are cleared and packages loaded: a package marked
\* as loaded has all its rules executable, register() never raises a duplicate and all
\* reports carry one registry revision.
THEOREM RegistryCorrect == Spec => []RegistryIsSound
<1>1. IInv => RegistryIsSound
  BY DEF IInv, RegistryIsSound
<1>2. QED BY InitIInv, NextIInv, <1>1, PTL DEF Spec

-----------------------------------------------------------------------------
(* The audit policy. The invariant says that what is resolved is the resolution*)
(* of a policy without issues; the rest is what such a policy can look like. *)

\* Only a policy without issues gets past its validation, what is resolved is its
\* one resolution for the target, and the report of a local analysis names the
\* server the policy was resolved for.
PolicyIInv ==
    /\ policy \in Policies /\ target \in Targets
    /\ phase \in {"validate", "resolve", "analyse", "verify", "done"}
    /\ phase \in {"resolve", "analyse", "verify"} \/ resolved # None =>
          PolicyIssues(policy) = {} /\ issues = {}
    /\ phase \in {"validate", "resolve"} => resolved = None
    /\ phase = "validate" => issues = {}
    /\ phase \in {"analyse", "verify"} \/ resolved # None \/ verdict # "none" =>
          ResolveErrors(policy, target) = {} /\ resolved = Resolution(policy, target)
    /\ issues \subseteq IssueCodes
    /\ reported \in ServerTypes \cup {None}
    /\ phase = "verify" /\ target.mode = "local" => reported = target.server
    /\ verdict \in {"none", "match", "mismatch"}
    /\ phase # "done" => verdict = "none"
    /\ LocalReportVerifies

-----------------------------------------------------------------------------
(* Validation and resolution. *)

\* A glob matches a target just when it denotes it.
LEMMA GlobMeans ==
    ASSUME NEW glob \in Seq(STRING), glob # <<>>, NEW path \in Seq(STRING), path # <<>>
    PROVE  GlobMatches(glob, path) <=> Expands(glob, path)
<1> DEFINE segments == {path[i] : i \in DOMAIN path}
           said(stars) == [i \in DOMAIN glob |-> IF glob[i] = "*" THEN stars[i] ELSE glob[i]]
<1>0. /\ Len(path) \in DOMAIN path /\ Len(glob) \in Nat /\ Len(path) \in Nat
      /\ DOMAIN glob = 1..Len(glob) /\ DOMAIN path = 1..Len(path)
      /\ Len(glob) \in DOMAIN glob
  OBVIOUS
<1>1. ASSUME GlobMatches(glob, path)
      PROVE  Expands(glob, path)
  <2>1. CASE Len(glob) = 1
    <3> DEFINE stars == [i \in DOMAIN glob |-> path[Len(path)]]
    <3>1. stars \in [DOMAIN glob -> segments]
      BY <1>0
    <3>2. said(stars)[1] = path[Len(path)]
      BY <1>0, <1>1, <2>1 DEF GlobMatches, SegmentMatches
    <3>3. QED BY <2>1, <3>1, <3>2 DEF Expands
  <2>2. CASE Len(glob) # 1
    <3>1. Len(glob) = Len(path) /\ \A i \in DOMAIN glob : SegmentMatches(path[i], glob[i])
      BY <1>1, <2>2 DEF GlobMatches
    <3> DEFINE stars == [i \in DOMAIN glob |-> path[i]]
    <3>2. stars \in [DOMAIN glob -> segments]
      BY <1>0, <3>1
    <3>3. \A i \in DOMAIN glob : said(stars)[i] = path[i]
      BY <3>1 DEF SegmentMatches
    <3>4. path = [i \in DOMAIN glob |-> path[i]]
      BY <1>0, <3>1
    <3>5. said(stars) = [i \in DOMAIN glob |-> path[i]]
      BY <3>3
    <3>6. QED BY <3>2, <3>4, <3>5 DEF Expands
  <2>3. QED BY <2>1, <2>2
<1>2. ASSUME Expands(glob, path)
      PROVE  GlobMatches(glob, path)
  <2>1. PICK stars \in [DOMAIN glob -> segments] :
            said(stars) = path \/ (Len(glob) = 1 /\ said(stars)[1] = path[Len(path)])
    BY <1>2 DEF Expands
  <2>2. CASE Len(glob) = 1
    <3>1. said(stars)[1] = path[Len(path)]
      <4>1. CASE said(stars) = path
        <5>1. DOMAIN path = DOMAIN glob
          BY <4>1
        <5>2. Len(path) \in 1..1
          BY <1>0, <2>2, <5>1
        <5>3. QED BY <4>1, <5>2, <1>0
      <4>2. QED BY <2>1, <4>1
    <3>2. 1 \in DOMAIN glob
      BY <1>0, <2>2
    <3>3. glob[1] = "*" \/ glob[1] = path[Len(path)]
      BY <3>1, <3>2
    <3>4. QED BY <2>2, <3>3 DEF GlobMatches, SegmentMatches
  <2>3. CASE Len(glob) # 1
    <3>1. said(stars) = path
      BY <2>1, <2>3
    <3>2. DOMAIN path = DOMAIN glob
      BY <3>1
    <3>3. Len(path) \in 1..Len(glob) /\ Len(glob) \in 1..Len(path)
      BY <1>0, <3>2
    <3>4. Len(path) <= Len(glob)
      BY <3>3
    <3>5. Len(glob) <= Len(path)
      BY <3>3
    <3>6. Len(glob) = Len(path)
      <4>1. Len(glob) \in Nat /\ Len(path) \in Nat
        BY <1>0
      <4>2. QED BY <3>4, <3>5, <4>1
    <3>7. \A i \in DOMAIN glob : glob[i] = "*" \/ glob[i] = path[i]
      BY <3>1
    <3>8. \A i \in DOMAIN glob : SegmentMatches(path[i], glob[i])
      BY <3>7 DEF SegmentMatches
    <3>9. QED BY <2>3, <3>6, <3>8 DEF GlobMatches
  <2>4. QED BY <2>2, <2>3
<1>3. QED BY <1>1, <1>2

\* What a policy without issues is free of, one profile and one source at a time.
LEMMA ProfileIsClean ==
    ASSUME NEW pol, PolicyIssues(pol) = {}, NEW i \in DOMAIN pol.profiles
    PROVE  /\ ~RepeatsAny(SourceIds(pol.profiles[i].sources))
           /\ \A s \in pol.profiles[i].selectors : ~SelectorIssue(s)
           /\ \A k \in DOMAIN pol.profiles[i].sources :
                 /\ pol.profiles[i].sources[k].source \in Sources
                 /\ SourceIssues(pol.profiles[i].sources[k]) = {}
<1> DEFINE p == pol.profiles[i]
           ofSource(s) == IF s.source \in Sources THEN SourceIssues(s) ELSE {"unknown_source_id"}
           of == UNION {ofSource(s) : s \in {p.sources[k] : k \in DOMAIN p.sources}}
<1>1. ProfileIssues(p) = {}
  BY DEF PolicyIssues
<1>2. ProfileIssues(p) = (IF RepeatsAny(SourceIds(p.sources)) THEN {"duplicate_source_policy"} ELSE {})
                         \cup (IF \E s \in p.selectors : SelectorIssue(s) THEN {"selector"} ELSE {})
                         \cup of
  BY Zenon DEF ProfileIssues
<1>3. of = {} /\ ~RepeatsAny(SourceIds(p.sources)) /\ ~(\E s \in p.selectors : SelectorIssue(s))
  <2> HIDE DEF of, p
  <2>1. QED BY <1>1, <1>2
<1>4. ASSUME NEW k \in DOMAIN p.sources
      PROVE  ofSource(p.sources[k]) = {}
  BY <1>3
<1>5. QED BY <1>3, <1>4

\* Nor are its controls in any way at fault.
LEMMA ControlsAreClean ==
    ASSUME NEW s, SourceIssues(s) = {}
    PROVE  /\ ~RepeatsAny(ItemIds(s.controls))
           /\ \A k \in DOMAIN s.controls : /\ SourceOf[s.controls[k].item] = s.source
                                           /\ ~ControlIssue(s.controls[k])
<1> DEFINE of(c) == IF SourceOf[c.item] = None THEN {"unknown_item_id"}
                    ELSE IF SourceOf[c.item] # s.source THEN {"item_source_mismatch"}
                    ELSE IF ControlIssue(c) THEN {"control"} ELSE {}
           all == UNION {of(c) : c \in {s.controls[k] : k \in DOMAIN s.controls}}
<1>1. SourceIssues(s) = (IF RepeatsAny(ItemIds(s.controls)) THEN {"duplicate_control_policy"} ELSE {}) \cup all
  BY Zenon DEF SourceIssues
<1>2. all = {} /\ ~RepeatsAny(ItemIds(s.controls))
  <2> HIDE DEF all
  <2>1. QED BY <1>1
<1>3. ASSUME NEW k \in DOMAIN s.controls
      PROVE  of(s.controls[k]) = {}
  BY <1>2
<1>4. QED BY <1>2, <1>3

\* The control that is resolved for an item is the one about it, or demands nothing.
LEMMA ItemIs ==
    ASSUME NEW pol, NEW s, s.controls \in Seq(ControlPolicy), ~RepeatsAny(ItemIds(s.controls)),
           NEW it
    PROVE  /\ ResolveItem(pol, s, it).item = it
           /\ \A k \in DOMAIN s.controls :
                 s.controls[k].item = it => ResolveItem(pol, s, it) = s.controls[k]
           /\ (\A k \in DOMAIN s.controls : s.controls[k].item # it) =>
                 ResolveItem(pol, s, it).required = {}
<1>1. CASE \E k \in DOMAIN s.controls : s.controls[k].item = it
  <2>1. PICK k \in DOMAIN s.controls : s.controls[k].item = it
    BY <1>1
  <2>2. ASSUME NEW j \in DOMAIN s.controls, s.controls[j].item = it
        PROVE  j = k
    BY <2>1, <2>2 DEF RepeatsAny, ItemIds
  <2>3. k <= k
    <3>1. k \in 1..Len(s.controls)
      BY <2>1
    <3>2. QED BY <3>1
  <2>4. k \in DOMAIN s.controls /\ s.controls[k].item = it
        /\ \A j \in DOMAIN s.controls : s.controls[j].item = it => j <= k
    BY <2>1, <2>2, <2>3
  <2>5. LastAbout(s.controls, it) = k
    BY <2>2, <2>4 DEF LastAbout
  <2>6. ResolveItem(pol, s, it) = s.controls[k]
    BY <1>1, <2>5 DEF ResolveItem
  <2>7. QED BY <2>1, <2>2, <2>6
<1>2. CASE \A k \in DOMAIN s.controls : s.controls[k].item # it
  <2>1. ResolveItem(pol, s, it) =
            [item |-> it, disposition |-> IF s.disposition = None THEN pol.default ELSE s.disposition,
             expectation |-> pol.expectation, required |-> {}]
    BY <1>2 DEF ResolveItem
  <2>2. QED BY <1>2, <2>1
<1>3. QED BY <1>1, <1>2

\* Validation leaves a selector of an external profile no server to name, so it
\* matches what it denotes.
LEMMA SelectorMeans ==
    ASSUME policy \in Policies, target \in Targets, PolicyIssues(policy) = {},
           NEW i \in DOMAIN policy.profiles, NEW s \in policy.profiles[i].selectors
    PROVE  SelectorMatches(s, target) <=> Denotes(s, target)
<1>1. ~SelectorIssue(s)
  BY ProfileIsClean
<1>2. s.glob \in Seq(STRING) /\ target.path \in Seq(STRING) /\ target.path # <<>>
      /\ target.mode \in {"local", "external"}
  BY PolicyAssumption
<1>3. s.glob = <<>> \/ (GlobMatches(s.glob, target.path) <=> Expands(s.glob, target.path))
  BY <1>2, GlobMeans
<1>4. QED BY <1>1, <1>2, <1>3 DEF SelectorMatches, Denotes, SelectorIssue

\* So the profiles the target is wanted for are those that match it.
LEMMA WantedMatches ==
    ASSUME policy \in Policies, target \in Targets, PolicyIssues(policy) = {}
    PROVE  Wanted = Matching(policy, target)
BY SelectorMeans DEF Wanted, Matching

\* A source of a profile, and what is resolved there for an item.
SourceAt(p, k) == policy.profiles[p].sources[k]
Decided(p, k, it) == ResolveItem(policy, SourceAt(p, k), it)

\* What a policy is resolved to: its one profile for the target.
LEMMA OneProfile ==
    ASSUME PolicyIInv, resolved # None
    PROVE  \E p \in DOMAIN policy.profiles :
              /\ Wanted = {p}
              /\ resolved.profile = policy.profiles[p].id
              /\ resolved.controls = {Decided(p, w[1], w[2]) : w \in
                    {v \in (DOMAIN policy.profiles[p].sources) \X Applicable :
                        SourceOf[v[2]] = SourceAt(p, v[1]).source}}
<1>1. /\ policy \in Policies /\ target \in Targets /\ PolicyIssues(policy) = {}
      /\ ResolveErrors(policy, target) = {} /\ resolved = Resolution(policy, target)
  BY DEF PolicyIInv
<1> DEFINE m == Matching(policy, target)
<1>2. m # {} /\ ~(Cardinality(m) > 1)
  BY <1>1 DEF ResolveErrors
<1>3. IsFiniteSet(m)
  <2>1. IsFiniteSet(DOMAIN policy.profiles) /\ m \subseteq DOMAIN policy.profiles
    BY <1>1, PolicyAssumption DEF Matching
  <2>2. QED BY <2>1, FS_Subset
<1>4. PICK p : m = {p}
  <2>1. Cardinality(m) \in Nat /\ Cardinality(m) # 0
    BY <1>2, <1>3, FS_EmptySet, FS_CardinalityType
  <2>2. Cardinality(m) = 1
    BY <1>2, <2>1
  <2>3. QED BY <1>3, <2>2, FS_Singleton
<1>5. p \in DOMAIN policy.profiles /\ Wanted = {p}
  BY <1>1, <1>4, WantedMatches DEF Matching
<1>6. (CHOOSE i \in m : TRUE) = p
  BY <1>4
<1> DEFINE ks == DOMAIN policy.profiles[p].sources
           decided == {Decided(p, w[1], w[2]) : w \in
                          {v \in ks \X Applicable : SourceOf[v[2]] = SourceAt(p, v[1]).source}}
           allOf == UNION {ResolveSource(policy, policy.profiles[p].sources[k]) : k \in ks}
<1>7. resolved.profile = policy.profiles[p].id /\ resolved.controls = allOf
  BY <1>1, <1>6 DEF Resolution
<1>8. ASSUME NEW c \in allOf PROVE c \in decided
  <2>1. PICK k \in ks : c \in ResolveSource(policy, SourceAt(p, k))
    BY DEF SourceAt
  <2>2. PICK it \in Applicable : SourceOf[it] = SourceAt(p, k).source /\ c = Decided(p, k, it)
    BY <2>1 DEF ResolveSource, Decided
  <2>3. <<k, it>> \in {v \in ks \X Applicable : SourceOf[v[2]] = SourceAt(p, v[1]).source}
    BY <2>2
  <2>4. QED BY <2>2, <2>3
<1>9. ASSUME NEW c \in decided PROVE c \in allOf
  <2>1. PICK w \in ks \X Applicable : SourceOf[w[2]] = SourceAt(p, w[1]).source /\ c = Decided(p, w[1], w[2])
    OBVIOUS
  <2>2. c \in ResolveSource(policy, SourceAt(p, w[1]))
    BY <2>1 DEF ResolveSource, Decided
  <2>3. QED BY <2>2 DEF SourceAt
<1>10. allOf = decided
  <2> HIDE DEF allOf, decided
  <2>1. QED BY <1>8, <1>9
<1>11. QED BY <1>5, <1>7, <1>10

\* The controls of a source of a profile without issues.
LEMMA SourceIs ==
    ASSUME policy \in Policies, PolicyIssues(policy) = {},
           NEW p \in DOMAIN policy.profiles, NEW k \in DOMAIN policy.profiles[p].sources
    PROVE  /\ SourceAt(p, k).controls \in Seq(ControlPolicy)
           /\ ~RepeatsAny(ItemIds(SourceAt(p, k).controls))
           /\ \A c \in DOMAIN SourceAt(p, k).controls :
                 /\ SourceOf[SourceAt(p, k).controls[c].item] = SourceAt(p, k).source
                 /\ ~ControlIssue(SourceAt(p, k).controls[c])
           /\ \A q \in DOMAIN policy.profiles[p].sources :
                 SourceAt(p, q).source = SourceAt(p, k).source => q = k
<1>1. SourceAt(p, k).controls \in Seq(ControlPolicy)
  BY PolicyAssumption DEF SourceAt
<1>2. SourceIssues(SourceAt(p, k)) = {} /\ ~RepeatsAny(SourceIds(policy.profiles[p].sources))
  BY ProfileIsClean DEF SourceAt
<1>3. \A q \in DOMAIN policy.profiles[p].sources :
         SourceAt(p, q).source = SourceAt(p, k).source => q = k
  BY <1>2 DEF RepeatsAny, SourceIds, SourceAt
<1>4. QED BY <1>1, <1>2, <1>3, ControlsAreClean

\* What is resolved for an item in such a source.
LEMMA DecidedIs ==
    ASSUME policy \in Policies, PolicyIssues(policy) = {},
           NEW p \in DOMAIN policy.profiles, NEW k \in DOMAIN policy.profiles[p].sources, NEW it
    PROVE  /\ Decided(p, k, it).item = it
           /\ \A n \in DOMAIN SourceAt(p, k).controls :
                 SourceAt(p, k).controls[n].item = it => Decided(p, k, it) = SourceAt(p, k).controls[n]
           /\ (\A n \in DOMAIN SourceAt(p, k).controls : SourceAt(p, k).controls[n].item # it) =>
                 Decided(p, k, it).required = {}
<1>1. SourceAt(p, k).controls \in Seq(ControlPolicy) /\ ~RepeatsAny(ItemIds(SourceAt(p, k).controls))
  BY SourceIs
<1>2. QED BY <1>1, ItemIs DEF Decided

-----------------------------------------------------------------------------
(* What the invariant tells. *)

\* An item belongs to one source, and a source decides it once.
LEMMA DecidedFollows == PolicyIInv => EveryItemDecidedOnce
<1> SUFFICES ASSUME PolicyIInv, resolved # None
             PROVE  EveryItemDecidedOnce
  BY DEF EveryItemDecidedOnce
<1>1. policy \in Policies /\ PolicyIssues(policy) = {}
  BY DEF PolicyIInv
<1>2. PICK p \in DOMAIN policy.profiles :
          /\ Wanted = {p}
          /\ resolved.controls = {Decided(p, w[1], w[2]) : w \in
                {v \in (DOMAIN policy.profiles[p].sources) \X Applicable :
                    SourceOf[v[2]] = SourceAt(p, v[1]).source}}
  BY OneProfile
<1> DEFINE ks == DOMAIN policy.profiles[p].sources
<1>3. ASSUME NEW c \in resolved.controls
      PROVE  \E k \in ks : SourceOf[c.item] = SourceAt(p, k).source /\ c = Decided(p, k, c.item)
  <2>1. PICK w \in ks \X Applicable :
            SourceOf[w[2]] = SourceAt(p, w[1]).source /\ c = Decided(p, w[1], w[2])
    BY <1>2
  <2>2. PICK k \in ks, it \in Applicable : SourceOf[it] = SourceAt(p, k).source /\ c = Decided(p, k, it)
    BY <2>1
  <2>3. Decided(p, k, it).item = it
    BY <1>1, DecidedIs
  <2>4. QED BY <2>2, <2>3
<1>4. ASSUME NEW k \in ks, NEW it \in Applicable, SourceOf[it] = SourceAt(p, k).source
      PROVE  Decided(p, k, it) \in resolved.controls
  <2>1. <<k, it>> \in {v \in ks \X Applicable : SourceOf[v[2]] = SourceAt(p, v[1]).source}
    BY <1>4
  <2>2. QED BY <1>2, <2>1
<1>5. ASSUME NEW c \in resolved.controls, NEW d \in resolved.controls, c.item = d.item
      PROVE  c = d
  <2>1. PICK k \in ks : SourceOf[c.item] = SourceAt(p, k).source /\ c = Decided(p, k, c.item)
    BY <1>3
  <2>2. PICK q \in ks : SourceOf[c.item] = SourceAt(p, q).source /\ d = Decided(p, q, c.item)
    BY <1>3, <1>5
  <2>3. q = k
    BY <1>1, <2>1, <2>2, SourceIs
  <2>4. QED BY <2>1, <2>2, <2>3
<1>6. ASSUME NEW c \in ControlsIn(p), c.item \in Applicable
      PROVE  c \in resolved.controls
  <2>1. PICK k \in ks : \E n \in DOMAIN SourceAt(p, k).controls : c = SourceAt(p, k).controls[n]
    BY DEF ControlsIn, SourceAt
  <2>2. PICK n \in DOMAIN SourceAt(p, k).controls : c = SourceAt(p, k).controls[n]
    BY <2>1
  <2>3. SourceOf[c.item] = SourceAt(p, k).source
    BY <1>1, <2>2, SourceIs
  <2>4. Decided(p, k, c.item) = c
    BY <1>1, <2>2, DecidedIs
  <2>5. QED BY <1>4, <1>6, <2>3, <2>4
<1>7. ASSUME NEW k \in ks, NEW it \in Applicable, SourceOf[it] = SourceAt(p, k).source
      PROVE  \E c \in resolved.controls : c.item = it
  <2>1. Decided(p, k, it).item = it
    BY <1>1, DecidedIs
  <2>2. QED BY <1>4, <1>7, <2>1
<1>8. QED BY <1>2, <1>5, <1>6, <1>7, SMTT(60) DEF EveryItemDecidedOnce, SourceAt

\* A control that is resolved was validated, or requires nothing.
LEMMA RequirementsFollow == PolicyIInv => RequirementsCanBeMet
<1> SUFFICES ASSUME PolicyIInv, resolved # None, NEW c \in resolved.controls
             PROVE  /\ \A r \in c.required : Evidence[c.item][r] \in {"derived", "direct"}
                    /\ c.expectation = "declared-direct" =>
                          \A r \in c.required : Evidence[c.item][r] = "direct"
                    /\ c.disposition = "not-applicable" => c.required = {}
  BY DEF RequirementsCanBeMet
<1>1. policy \in Policies /\ PolicyIssues(policy) = {}
  BY DEF PolicyIInv
<1>2. PICK p \in DOMAIN policy.profiles :
          resolved.controls = {Decided(p, w[1], w[2]) : w \in
              {v \in (DOMAIN policy.profiles[p].sources) \X Applicable :
                  SourceOf[v[2]] = SourceAt(p, v[1]).source}}
  BY OneProfile
<1>3. PICK k \in DOMAIN policy.profiles[p].sources, it \in Applicable : c = Decided(p, k, it)
  BY <1>2
<1> DEFINE s == SourceAt(p, k)
<1>4. CASE \E n \in DOMAIN s.controls : s.controls[n].item = it
  <2>1. PICK n \in DOMAIN s.controls : s.controls[n].item = it
    BY <1>4
  <2>2. c = s.controls[n]
    BY <1>1, <1>3, <2>1, DecidedIs
  <2>3. c \in ControlPolicy /\ ~ControlIssue(c)
    <3>1. s.controls \in Seq(ControlPolicy) /\ ~ControlIssue(s.controls[n])
      BY <1>1, SourceIs
    <3>2. QED BY <2>2, <3>1
  <2>4. \A r \in c.required : Evidence[c.item][r] \in {"unknown", "none", "derived", "direct"}
    BY <2>3, PolicyAssumption DEF ControlPolicy
  <2>5. QED BY <2>3, <2>4 DEF ControlIssue, RuleIssue
<1>5. CASE \A n \in DOMAIN s.controls : s.controls[n].item # it
  <2>1. c.required = {}
    BY <1>1, <1>3, <1>5, DecidedIs
  <2>2. QED BY <2>1
<1>6. QED BY <1>4, <1>5

\* The parts of the property.
LEMMA PolicyFollows == PolicyIInv => PolicyIsFollowed
<1> SUFFICES ASSUME PolicyIInv PROVE PolicyIsFollowed
  OBVIOUS
<1>1. PolicyTypeOK
  <2>1. ASSUME resolved # None PROVE resolved.target \in Targets
    <3>1. resolved = Resolution(policy, target) /\ target \in Targets
      BY <2>1 DEF PolicyIInv
    <3>2. QED BY <3>1 DEF Resolution
  <2>2. QED BY <2>1 DEF PolicyIInv, PolicyTypeOK
<1>2. NoProfileLeftAside
  BY OneProfile DEF NoProfileLeftAside
<1>3. LocalReportVerifies
  BY DEF PolicyIInv
<1>4. QED BY <1>1, <1>2, <1>3, DecidedFollows, RequirementsFollow DEF PolicyIsFollowed

-----------------------------------------------------------------------------
(* The commands. *)

\* Validation and resolution have a fixed set of codes.
LEMMA CodesAre ==
    /\ \A s : SourceIssues(s) \subseteq IssueCodes
    /\ \A p : ProfileIssues(p) \subseteq IssueCodes
    /\ \A pol : PolicyIssues(pol) \subseteq IssueCodes
    /\ \A pol, t : ResolveErrors(pol, t) \subseteq IssueCodes
<1>1. ASSUME NEW s PROVE SourceIssues(s) \subseteq IssueCodes
  BY DEF SourceIssues, IssueCodes
<1>2. ASSUME NEW p PROVE ProfileIssues(p) \subseteq IssueCodes
  <2> DEFINE of(s) == IF s.source \in Sources THEN SourceIssues(s) ELSE {"unknown_source_id"}
             all == UNION {of(s) : s \in {p.sources[k] : k \in DOMAIN p.sources}}
  <2>1. \A s : of(s) \subseteq IssueCodes
    BY <1>1 DEF IssueCodes
  <2>2. all \subseteq IssueCodes
    <3> HIDE DEF of
    <3>1. QED BY <2>1
  <2>3. ProfileIssues(p) = (IF RepeatsAny(SourceIds(p.sources)) THEN {"duplicate_source_policy"} ELSE {})
                           \cup (IF \E s \in p.selectors : SelectorIssue(s) THEN {"selector"} ELSE {})
                           \cup all
    BY Zenon DEF ProfileIssues
  <2>4. QED
    <3> HIDE DEF all
    <3>1. QED BY <2>2, <2>3 DEF IssueCodes
<1>3. ASSUME NEW pol PROVE PolicyIssues(pol) \subseteq IssueCodes
  <2> DEFINE all == UNION {ProfileIssues(pol.profiles[i]) : i \in DOMAIN pol.profiles}
  <2>1. all \subseteq IssueCodes
    BY <1>2
  <2>2. PolicyIssues(pol) = (IF RepeatsAny(ProfileIds(pol.profiles)) THEN {"duplicate_profile_id"} ELSE {})
                            \cup all
    BY Zenon DEF PolicyIssues
  <2>3. QED
    <3> HIDE DEF all
    <3>1. QED BY <2>1, <2>2 DEF IssueCodes
<1>4. ASSUME NEW pol, NEW t PROVE ResolveErrors(pol, t) \subseteq IssueCodes
  BY DEF ResolveErrors, IssueCodes
<1>5. QED BY <1>1, <1>2, <1>3, <1>4

\* A policy file that was just loaded.
LEMMA PolicyInitIInv == PolicyInit => PolicyIInv
BY DEF PolicyInit, PolicyIInv, LocalReportVerifies

\* The report of a local analysis is verified against the target it was made for.
LEMMA VerifyKeeps == ASSUME PolicyIInv, Verify PROVE PolicyIInv'
<1>1. /\ phase = "verify" /\ phase' = "done"
      /\ UNCHANGED <<policy, target, issues, resolved, reported>>
      /\ verdict' \in {"match", "mismatch"}
  BY DEF Verify
<1>2. ResolveErrors(policy, target) = {} /\ resolved = Resolution(policy, target)
  BY <1>1 DEF PolicyIInv
<1>3. ASSUME target.mode = "local" PROVE verdict' = "match"
  <2>1. reported = target.server
    BY <1>1, <1>3 DEF PolicyIInv
  <2>2. [target EXCEPT !.server = reported] = target
    <3>1. target \in [mode : {"local", "external"}, server : ServerTypes \cup {None},
                      path : Seq(STRING) \ {<<>>}]
      BY PolicyAssumption DEF PolicyIInv
    <3>2. QED BY <2>1, <3>1
  <2>3. QED BY <1>2, <2>2 DEF Verify
<1>4. LocalReportVerifies'
  BY <1>1, <1>3 DEF LocalReportVerifies
<1>5. QED BY <1>1, <1>2, <1>4 DEF PolicyIInv

\* Each of the other commands.
LEMMA PolicyNextIInv == PolicyIInv /\ [PolicyNext]_policyVars => PolicyIInv'
<1> SUFFICES ASSUME PolicyIInv, [PolicyNext]_policyVars PROVE PolicyIInv'
  OBVIOUS
<1>1. ASSUME RejectPolicy PROVE PolicyIInv'
  BY <1>1, CodesAre DEF PolicyIInv, RejectPolicy, LocalReportVerifies
<1>2. ASSUME AcceptPolicy PROVE PolicyIInv'
  BY <1>2 DEF PolicyIInv, AcceptPolicy, LocalReportVerifies
<1>3. ASSUME RefuseTarget PROVE PolicyIInv'
  BY <1>3, CodesAre DEF PolicyIInv, RefuseTarget, LocalReportVerifies
<1>4. ASSUME Resolve PROVE PolicyIInv'
  BY <1>4 DEF PolicyIInv, Resolve, LocalReportVerifies
<1>5. ASSUME Analyse PROVE PolicyIInv'
  BY <1>5 DEF PolicyIInv, Analyse, LocalReportVerifies
<1>6. ASSUME UNCHANGED policyVars PROVE PolicyIInv'
  BY <1>6 DEF PolicyIInv, policyVars, LocalReportVerifies
<1>7. QED BY <1>1, <1>2, <1>3, <1>4, <1>5, <1>6, VerifyKeeps DEF PolicyNext

\* For every ledger, registry, policy file and target: a policy that gets through
\* validation is followed to the letter, and the report of a local analysis verifies
\* with the policy it was made with.
THEOREM PoliciesAreFollowed == PolicySpec => []PolicyIsFollowed
BY PolicyInitIInv, PolicyNextIInv, PolicyFollows, PTL DEF PolicySpec

-----------------------------------------------------------------------------
(* The assessment of a report. The invariant says that every control assessed*)
(* so far has the status the cascade gives it, and that the merged status is *)
(* the worst of all of them.                                                 *)

\* What has been assessed so far are the first results, each by itself, and what a
\* control out of scope was found by is kept.
AssessedSoFar ==
    /\ controls \in Seq(Statuses) /\ Len(controls) =< Len(report)
    /\ \A i \in 1..Len(controls) : /\ controls[i] = StatusOf(item, report[i])
                                   /\ Retained(i) \subseteq retained

\* The merged status is the worst of one or more, and a green exit was asked of it.
MergedIsWorst ==
    /\ assessing # "done" => exit = NoExit
    /\ assessing = "assess" => report # <<>>
    /\ assessing = "gate" \/ exit = 0 =>
          /\ Len(controls) = Len(report) /\ Len(report) > 0
          /\ merged = WorstOf({controls[i] : i \in DOMAIN controls})
    /\ exit = 0 => \E gate \in Gates : merged \notin gate

AssessmentIInv ==
    /\ item \in LedgerItems /\ report \in Reports
    /\ ValidItem(item)
    /\ \A i \in DOMAIN report : Fits(item, report[i])
    /\ AssessmentTypeOK /\ AssessedSoFar /\ MergedIsWorst

-----------------------------------------------------------------------------
(* The cascade, for one item and one result. *)

\* The cascade reaches "pass" last: none of the earlier answers applied.
LEMMA PassMeans ==
    ASSUME NEW it, NEW e, StatusOf(it, e) = "pass"
    PROVE  /\ e.disposition \notin {"not-applicable", "review"} /\ it.status = "full"
           /\ ~DirectNegative(it, e) /\ ~PartialNegative(it, e)
           /\ Missing(it, e) \cap Inconclusive = {}
           /\ Positive(it, e)
BY DEF StatusOf

\* The cascade always answers.
LEMMA StatusIsStatus == \A it, e : StatusOf(it, e) \in Statuses
BY DEF StatusOf, Statuses

\* What a ledger item says about a rule, or that it says nothing.
LEMMA RuleIs ==
    ASSUME NEW it \in Item, NEW r \in MappedRules
    PROVE  /\ it.rules[r] \in RuleDefinition \cup {NotMapped}
           /\ it.rules[r] # NotMapped => /\ it.rules[r].strength \in {"direct", "partial", "related"}
                                         /\ it.rules[r].origin \in {"declared", "derived"}
           /\ it.rules[r] = NotMapped => /\ it.rules[r].strength = "none" /\ it.rules[r].origin = "none"
                                         /\ it.rules[r].absence = "none"
<1>1. it.rules[r] \in RuleDefinition \cup {NotMapped}
  BY DEF Item
<1>2. it.rules[r] # NotMapped => /\ it.rules[r].strength \in {"direct", "partial", "related"}
                                 /\ it.rules[r].origin \in {"declared", "derived"}
  BY <1>1 DEF RuleDefinition
<1>3. NotMapped.strength = "none" /\ NotMapped.origin = "none" /\ NotMapped.absence = "none"
  BY DEF NotMapped
<1>4. QED BY <1>1, <1>2, <1>3

\* What is found by a control that passes is context.
LEMMA ContextOnly ==
    ASSUME NEW it \in Item, NEW e, NEW r \in MappedRules, Found(e, r), it.rules[r] # NotMapped,
           ~DirectNegative(it, e), ~PartialNegative(it, e)
    PROVE  it.rules[r].strength = "related" /\ it.rules[r].origin = "declared"
<1>1. r \in Definitions(it, e)
  BY DEF Definitions
<1>2. ~Direct(it.rules[r])
  BY <1>1 DEF DirectNegative
<1>3. ~(it.rules[r].strength = "partial" \/ it.rules[r].origin = "derived")
  BY <1>1, <1>2 DEF PartialNegative
<1>4. QED BY <1>2, <1>3, RuleIs DEF Direct

\* A required rule that failed or was skipped is an inconclusive gap.
LEMMA RequiredMissing ==
    ASSUME NEW it, NEW e, NEW r \in e.required, e.run[r] \in {"failed"} \cup SkipReasons
    PROVE  Missing(it, e) \cap Inconclusive # {}
<1>1. CASE e.run[r] = "failed"
  <2>1. "execution-failed" \in {"execution-failed" : q \in {p \in e.required : e.run[p] = "failed"}}
    BY <1>1
  <2>2. QED BY <2>1 DEF Missing, Inconclusive
<1>2. CASE e.run[r] \in SkipReasons
  <2>1. SkipReason(e.run[r]) \in {SkipReason(e.run[q]) : q \in {p \in e.required : e.run[p] \in SkipReasons}}
    BY <1>2
  <2>2. SkipReason(e.run[r]) \in Inconclusive
    BY <1>2 DEF SkipReason, Inconclusive, SkipReasons
  <2>3. SkipReason(e.run[r]) \in Missing(it, e)
    BY <2>1 DEF Missing
  <2>4. QED BY <2>2, <2>3
<1>3. QED BY <1>1, <1>2

\* PassIsEarned, of one result.
LEMMA PassEarned ==
    ASSUME NEW it \in Item, ValidItem(it), NEW e \in Result, Fits(it, e), StatusOf(it, e) = "pass"
    PROVE  /\ it.status = "full" /\ e.disposition \in {"required", "advisory"}
           /\ \A r \in MappedRules : Found(e, r) =>
                 it.rules[r].strength \in {"related", "none"} /\ it.rules[r].origin # "derived"
           /\ \A r \in e.required : e.run[r] \in {"completed", "not-selected"}
           /\ \/ /\ e.required # {}
                 /\ \A r \in e.required : e.run[r] = "completed" /\ it.rules[r].absence = "control-pass"
              \/ /\ e.required = {}
                 /\ \E r \in MappedRules : it.rules[r].absence = "control-pass" /\ e.run[r] = "completed"
                 /\ \A r \in MappedRules : it.rules[r].absence = "control-pass" => e.run[r] = "completed"
              \/ e.native = [status |-> "pass", complete |-> TRUE]
<1>1. /\ e.disposition \notin {"not-applicable", "review"} /\ it.status = "full"
      /\ ~DirectNegative(it, e) /\ ~PartialNegative(it, e)
      /\ Missing(it, e) \cap Inconclusive = {}
      /\ Positive(it, e)
  BY PassMeans
<1>2. e.disposition \in {"required", "advisory"}
  BY <1>1 DEF Result
<1>3. ASSUME NEW r \in MappedRules, Found(e, r)
      PROVE  it.rules[r].strength \in {"related", "none"} /\ it.rules[r].origin # "derived"
  <2>1. CASE it.rules[r] = NotMapped
    BY <2>1, RuleIs
  <2>2. CASE it.rules[r] # NotMapped
    BY <1>1, <1>3, <2>2, ContextOnly
  <2>3. QED BY <2>1, <2>2
<1>4. e.required \subseteq MappedRules /\ \A r \in MappedRules : e.run[r] \in RunStates
  BY DEF Result
<1>5. ASSUME NEW r \in e.required PROVE e.run[r] \in {"completed", "not-selected"}
  <2>1. e.run[r] \notin {"failed"} \cup SkipReasons
    BY <1>1, RequiredMissing
  <2>2. QED BY <1>4, <2>1 DEF RunStates
<1>6. CASE PassCandidate(it, e)
  <2>1. /\ RequiredPositive(it, e) # {}
        /\ \A r \in RequiredPositive(it, e) : /\ r \in MappedRules /\ e.run[r] = "completed"
                                             /\ it.rules[r].absence = "control-pass"
    BY <1>6 DEF PassCandidate, CompletedPositive, Definitions
  <2>2. CASE e.required # {}
    BY <1>1, <1>2, <1>3, <1>5, <2>1, <2>2 DEF RequiredPositive
  <2>3. CASE e.required = {}
    <3>1. ASSUME NEW r \in MappedRules, it.rules[r].absence = "control-pass" PROVE r \in RequiredPositive(it, e)
      <4>1. it.rules[r] # NotMapped
        BY <3>1, RuleIs
      <4>2. it.rules[r].listed
        BY <3>1 DEF ValidItem, ValidDefinition
      <4>3. QED BY <2>3, <3>1, <4>1, <4>2 DEF RequiredPositive, Definitions
    <3>2. QED BY <1>1, <1>2, <1>3, <1>5, <2>1, <2>3, <3>1
  <2>4. QED BY <2>2, <2>3
<1>7. CASE NativePass(it, e)
  <2>1. e.native \in [status : {"pass", "fail", "indeterminate", "not-applicable"}, complete : BOOLEAN]
    BY <1>7 DEF NativePass, NativeDirect, Result
  <2>2. e.native.status = "pass" /\ e.native.complete
    BY <1>7 DEF NativePass
  <2>3. e.native.complete = TRUE
    BY <2>1, <2>2
  <2>4. e.native = [status |-> "pass", complete |-> TRUE]
    BY <2>1, <2>2, <2>3
  <2>5. QED BY <1>1, <1>2, <1>3, <1>5, <2>4
<1>8. QED BY <1>1, <1>6, <1>7 DEF Positive

\* A required rule that was lost, and the verdict without it.
LEMMA CrashConcludesNothing ==
    ASSUME NEW it, NEW e \in Result, Fits(it, e), NEW r \in e.required,
           NEW state \in {"failed"} \cup SkipReasons
    PROVE  StatusOf(it, Degraded(e, r, state)) \in {"fail", "indeterminate"}
<1>1. PICK d : d = Degraded(e, r, state)
  OBVIOUS
<1>2. r \in MappedRules /\ e.required \subseteq MappedRules
  BY DEF Result
<1>3. d.disposition = e.disposition /\ d.required = e.required /\ d.run[r] = state
  BY <1>1, <1>2 DEF Degraded, Result
<1>4. e.disposition # "not-applicable"
  BY DEF Fits
<1>5. Missing(it, d) \cap Inconclusive # {}
  BY <1>3, RequiredMissing
<1>6. QED BY <1>1, <1>3, <1>4, <1>5 DEF StatusOf

\* The verdict depends on a finding being there, not on its suppression.
LEMMA SuppressionIndifferent ==
    ASSUME NEW it, NEW e \in Result
    PROVE  StatusOf(it, Unsuppressed(e)) = StatusOf(it, e)
<1>1. PICK u : u = Unsuppressed(e)
  OBVIOUS
<1>2. /\ u.run = e.run /\ u.native = e.native /\ u.disposition = e.disposition
      /\ u.required = e.required /\ u.expectation = e.expectation
      /\ u.found = [r \in MappedRules |-> IF e.found[r] = "no" THEN "no" ELSE "active"]
  BY <1>1 DEF Unsuppressed, Result
<1>3. \A r \in MappedRules : Found(u, r) <=> Found(e, r)
  BY <1>2 DEF Found
<1>4. e.required \subseteq MappedRules
  BY DEF Result
<1>5. Definitions(it, u) = Definitions(it, e) /\ Definitions(it, e) \subseteq MappedRules
  BY <1>3 DEF Definitions
<1>6. \A absence : CompletedPositive(it, u, absence) = CompletedPositive(it, e, absence)
  BY <1>2, <1>3, <1>5 DEF CompletedPositive
<1>7. /\ DirectNegative(it, u) <=> DirectNegative(it, e)
      /\ PartialNegative(it, u) <=> PartialNegative(it, e)
  BY <1>3, <1>5 DEF DirectNegative, PartialNegative
<1>8. /\ NativeFail(it, u) <=> NativeFail(it, e)
      /\ NativeIndeterminate(it, u) <=> NativeIndeterminate(it, e)
      /\ NativePass(it, u) <=> NativePass(it, e)
      /\ NativeFacet(it, u) <=> NativeFacet(it, e)
  BY <1>2 DEF NativeFail, NativeIndeterminate, NativePass, NativeFacet, NativeDirect
<1>9. Missing(it, u) = Missing(it, e)
  <2>1. {q \in u.required : u.run[q] = "completed" /\ ~Found(u, q) /\ it.rules[q].absence = "none"}
        = {q \in e.required : e.run[q] = "completed" /\ ~Found(e, q) /\ it.rules[q].absence = "none"}
    BY <1>2, <1>3, <1>4
  <2>2. {"operator-evidence-required" : x \in {f \in {u} : f.expectation = "operator-review"}}
        = {"operator-evidence-required" : x \in {f \in {e} : f.expectation = "operator-review"}}
    BY <1>2
  <2>3. QED BY <1>2, <2>1, <2>2 DEF Missing
<1>10. RequiredPositive(it, u) = RequiredPositive(it, e)
  BY <1>2, <1>5 DEF RequiredPositive
<1>11. /\ Positive(it, u) <=> Positive(it, e)
       /\ FacetOnly(it, u) <=> FacetOnly(it, e)
  BY <1>6, <1>8, <1>10 DEF Positive, PassCandidate, FacetOnly
<1>12. StatusOf(it, u) = StatusOf(it, e)
  BY <1>2, <1>7, <1>8, <1>9, <1>11 DEF StatusOf
<1>13. QED BY <1>1, <1>12

\* The order of the statuses.
LEMMA WorseIs ==
    ASSUME NEW s, NEW t
    PROVE  /\ ~Worse(s, "fail")
           /\ Worse(s, "indeterminate") => s = "fail"
           /\ Worse(s, "review") => s \in {"fail", "indeterminate"}
           /\ Worse(s, "partial") => s \in {"fail", "indeterminate", "review"}
           /\ Worse(s, "pass") => s \in {"fail", "indeterminate", "review", "partial"}
           /\ Worse(s, "not-assessed") => s \in {"fail", "indeterminate", "review", "partial", "pass"}
           /\ Worse(s, "not-applicable") => s # "not-applicable"
           /\ t \in Statuses \ {"fail"} => Worse("fail", t)
           /\ t \in Statuses \ {"fail", "indeterminate"} => Worse("indeterminate", t)
<1>1. /\ DOMAIN StatusPrecedence = 1..7
      /\ StatusPrecedence[1] = "fail" /\ StatusPrecedence[2] = "indeterminate"
      /\ StatusPrecedence[3] = "review" /\ StatusPrecedence[4] = "partial"
      /\ StatusPrecedence[5] = "pass" /\ StatusPrecedence[6] = "not-assessed"
      /\ StatusPrecedence[7] = "not-applicable"
  BY DEF StatusPrecedence
<1>2. QED BY <1>1 DEF Worse, Statuses

\* The worst of some statuses is one of them, and "fail" if "fail" is, then "indeterminate".
LEMMA WorstIs ==
    ASSUME NEW S \in SUBSET Statuses, S # {}
    PROVE  /\ WorstOf(S) \in S
           /\ WorstOf(S) \notin {"fail", "indeterminate"} => "fail" \notin S /\ "indeterminate" \notin S
<1>1. \E s \in S : \A t \in S : ~Worse(t, s)
  <2>1. CASE "fail" \in S
    BY <2>1, WorseIs
  <2>2. CASE "fail" \notin S /\ "indeterminate" \in S
    BY <2>2, WorseIs
  <2>3. CASE S \cap {"fail", "indeterminate"} = {} /\ "review" \in S
    BY <2>3, WorseIs
  <2>4. CASE S \cap {"fail", "indeterminate", "review"} = {} /\ "partial" \in S
    BY <2>4, WorseIs, ZenonT(60)
  <2>5. CASE S \cap {"fail", "indeterminate", "review", "partial"} = {} /\ "pass" \in S
    BY <2>5, WorseIs
  <2>6. CASE S \cap {"fail", "indeterminate", "review", "partial", "pass"} = {} /\ "not-assessed" \in S
    BY <2>6, WorseIs
  <2>7. CASE S = {"not-applicable"}
    BY <2>7, WorseIs
  <2>8. QED BY <2>1, <2>2, <2>3, <2>4, <2>5, <2>6, <2>7 DEF Statuses
<1>2. WorstOf(S) \in S /\ \A t \in S : ~Worse(t, WorstOf(S))
  BY <1>1 DEF WorstOf
<1>3. QED BY <1>2, WorseIs
-----------------------------------------------------------------------------
(* The command. *)

\* A command that begins has assessed nothing.
LEMMA AssessmentInitIInv == AssessmentInit => AssessmentIInv
<1> SUFFICES ASSUME AssessmentInit PROVE AssessmentIInv
  OBVIOUS
<1>1. item \in Item /\ report \in Seq(Result)
  BY AssessmentAssumption DEF AssessmentAssumption, AssessmentInit
<1>2. controls = <<>> /\ Len(controls) = 0 /\ DOMAIN controls = {} /\ controls \in Seq(Statuses)
  BY DEF AssessmentInit
<1>3. AssessmentTypeOK
  BY <1>1, <1>2 DEF AssessmentInit, AssessmentTypeOK, NoStatus, NoExit
<1>4. AssessedSoFar
  BY <1>1, <1>2 DEF AssessedSoFar
<1>5. MergedIsWorst
  BY DEF AssessmentInit, MergedIsWorst, NoExit
<1>6. QED BY <1>3, <1>4, <1>5 DEF AssessmentInit, AssessmentIInv

\* The inputs, as validated; and what has been assessed.
LEMMA InputsAre ==
    AssessmentIInv => /\ item \in Item /\ report \in Seq(Result) /\ DOMAIN report = 1..Len(report)
                      /\ Len(report) \in Nat /\ \A i \in DOMAIN report : report[i] \in Result
                      /\ controls \in Seq(Statuses) /\ Assessed = 1..Len(controls)
                      /\ Len(controls) \in Nat /\ Assessed \subseteq DOMAIN report
<1> SUFFICES ASSUME AssessmentIInv
             PROVE  /\ item \in Item /\ report \in Seq(Result) /\ DOMAIN report = 1..Len(report)
                    /\ Len(report) \in Nat /\ \A i \in DOMAIN report : report[i] \in Result
                    /\ controls \in Seq(Statuses) /\ Assessed = 1..Len(controls)
                    /\ Len(controls) \in Nat /\ Assessed \subseteq DOMAIN report
  OBVIOUS
<1>1. item \in Item /\ report \in Seq(Result)
  BY AssessmentAssumption DEF AssessmentAssumption, AssessmentIInv
<1>2. controls \in Seq(Statuses) /\ Len(controls) =< Len(report)
  BY DEF AssessmentIInv, AssessedSoFar
<1>3. QED BY <1>1, <1>2 DEF Assessed

\* One more result is judged.
LEMMA AssessKeeps ==
    ASSUME AssessmentIInv, AssessSingleControl
    PROVE  AssessmentIInv'
<1>1. PICK i : i = Len(controls) + 1
  OBVIOUS
<1>2. /\ assessing = "assess" /\ i \in DOMAIN report
      /\ controls' = Append(controls, StatusOf(item, report[i]))
      /\ retained' = retained \cup Retained(i)
      /\ UNCHANGED <<item, report, assessing, merged, exit>>
  BY <1>1 DEF AssessSingleControl
<1>3. /\ controls \in Seq(Statuses) /\ Len(controls) \in Nat /\ DOMAIN report = 1..Len(report)
      /\ Len(report) \in Nat
  BY InputsAre
<1>4. /\ controls' \in Seq(Statuses) /\ Len(controls') = i /\ DOMAIN controls' = 1..i
      /\ \A k \in 1..Len(controls) : controls'[k] = controls[k]
      /\ controls'[i] = StatusOf(item, report[i])
  BY <1>1, <1>2, <1>3, StatusIsStatus
<1>5. Retained(i) \subseteq {i} \X MappedRules
  BY DEF Retained
<1>6. AssessmentTypeOK'
  <2>1. \A k \in DOMAIN controls' : controls'[k] \in Statuses
    BY <1>4
  <2>2. retained' \in SUBSET ((DOMAIN report) \X MappedRules)
    BY <1>2, <1>5 DEF AssessmentIInv, AssessmentTypeOK
  <2>3. QED BY <1>2, <2>1, <2>2 DEF AssessmentIInv, AssessmentTypeOK
<1>7. AssessedSoFar'
  <2>1. Len(controls') =< Len(report')
    BY <1>2, <1>3, <1>4
  <2>2. ASSUME NEW k \in 1..Len(controls')
        PROVE  controls'[k] = StatusOf(item, report[k]) /\ Retained(k) \subseteq retained'
    <3>1. CASE k \in 1..Len(controls)
      BY <1>2, <1>4, <3>1 DEF AssessmentIInv, AssessedSoFar
    <3>2. CASE k = i
      BY <1>2, <1>4, <3>2
    <3>3. QED BY <1>1, <1>3, <1>4, <2>2, <3>1, <3>2
  <2>3. \A k : Retained(k)' = Retained(k)
    BY <1>2 DEF Retained, Found
  <2>4. QED BY <1>2, <1>4, <2>1, <2>2, <2>3 DEF AssessedSoFar
<1>8. MergedIsWorst'
  <2>1. exit = NoExit /\ report # <<>>
    BY <1>2 DEF AssessmentIInv, MergedIsWorst
  <2>2. QED BY <1>2, <2>1 DEF MergedIsWorst, NoExit
<1>9. QED BY <1>2, <1>6, <1>7, <1>8 DEF AssessmentIInv

\* The other steps of the command.
LEMMA CommandKeeps ==
    ASSUME AssessmentIInv, VerifyInputs \/ Refuse \/ Merge \/ Gate \/ WriteFails
    PROVE  AssessmentIInv'
<1>1. /\ UNCHANGED <<item, report, controls, retained>>
      /\ assessing' \in {"assess", "gate", "done"}
  BY DEF VerifyInputs, Refuse, Merge, Gate, WriteFails
<1>2. AssessedSoFar'
  <2>1. \A k : Retained(k)' = Retained(k)
    BY <1>1 DEF Retained, Found
  <2>2. QED BY <1>1, <2>1 DEF AssessmentIInv, AssessedSoFar
<1>3. /\ Len(report) \in Nat /\ controls \in Seq(Statuses) /\ Assessed = 1..Len(controls)
      /\ report \in Seq(Result)
  BY InputsAre
<1>4. merged' \in Statuses \cup {NoStatus} /\ MergedIsWorst' /\ exit' \in {0, 1, 3, NoExit}
  <2>0. merged \in Statuses \cup {NoStatus} /\ exit \in {0, 1, 3, NoExit}
    BY DEF AssessmentIInv, AssessmentTypeOK
  <2>1. CASE VerifyInputs
    <3>1. /\ report # <<>> /\ UNCHANGED <<merged, exit>> /\ assessing' = "assess"
          /\ assessing = "verify" /\ exit = NoExit
      BY <2>1 DEF VerifyInputs, Acceptable, AssessmentIInv, MergedIsWorst
    <3>2. QED BY <1>1, <2>0, <3>1 DEF MergedIsWorst, NoExit
  <2>2. CASE Refuse \/ WriteFails
    <3>1. exit' = 1 /\ merged' = merged /\ assessing' = "done"
      BY <2>2 DEF Refuse, WriteFails
    <3>2. QED BY <2>0, <3>1 DEF MergedIsWorst
  <2>3. CASE Merge
    <3>1. /\ Len(controls) = Len(report) /\ report # <<>>
          /\ merged' = WorstOf({controls[i] : i \in DOMAIN controls})
          /\ assessing = "assess" /\ assessing' = "gate" /\ exit' = exit
      BY <2>3 DEF Merge, AssessmentIInv, MergedIsWorst
    <3>2. Len(report) > 0
      BY <1>3, <3>1
    <3>3. {controls[i] : i \in DOMAIN controls} \in SUBSET Statuses
      BY <1>3
    <3>4. 1 \in DOMAIN controls
      BY <1>3, <3>1, <3>2
    <3>5. merged' \in Statuses
      BY <3>1, <3>3, <3>4, WorstIs
    <3>6. exit' = NoExit
      BY <3>1 DEF AssessmentIInv, MergedIsWorst
    <3>7. QED BY <1>1, <2>0, <3>1, <3>2, <3>5, <3>6 DEF MergedIsWorst, NoExit
  <2>4. CASE Gate
    <3>1. /\ assessing = "gate" /\ assessing' = "done" /\ merged' = merged
          /\ \E gate \in Gates : exit' = IF merged \in gate THEN 3 ELSE 0
      BY <2>4 DEF Gate
    <3>2. /\ Len(controls) = Len(report) /\ Len(report) > 0
          /\ merged = WorstOf({controls[i] : i \in DOMAIN controls})
      BY <3>1 DEF AssessmentIInv, MergedIsWorst
    <3>3. PICK gate \in Gates : exit' = IF merged \in gate THEN 3 ELSE 0
      BY <3>1
    <3>4. exit' \in {0, 3} /\ (exit' = 0 => \E g \in Gates : merged' \notin g)
      BY <3>1, <3>3
    <3>5. QED BY <1>1, <2>0, <3>1, <3>2, <3>4 DEF MergedIsWorst
  <2>5. QED BY <2>1, <2>2, <2>3, <2>4
<1>5. AssessmentTypeOK'
  BY <1>1, <1>4 DEF AssessmentIInv, AssessmentTypeOK
<1>6. QED BY <1>1, <1>2, <1>4, <1>5 DEF AssessmentIInv, ValidItem, Fits

\* Every step of the command keeps the invariant.
LEMMA AssessmentNextIInv == AssessmentIInv /\ [AssessmentNext]_assessmentVars => AssessmentIInv'
<1> SUFFICES ASSUME AssessmentIInv, [AssessmentNext]_assessmentVars PROVE AssessmentIInv'
  OBVIOUS
<1>1. CASE AssessSingleControl
  BY <1>1, AssessKeeps
<1>2. CASE VerifyInputs \/ Refuse \/ Merge \/ Gate \/ WriteFails
  BY <1>2, CommandKeeps
<1>3. CASE UNCHANGED assessmentVars
  BY <1>3 DEF assessmentVars, AssessmentIInv, AssessmentTypeOK, AssessedSoFar, MergedIsWorst, Retained
<1>4. QED BY <1>1, <1>2, <1>3 DEF AssessmentNext

\* Every finding shows, in the invariant.
LEMMA FindingsShow == AssessmentIInv => NoFindingVanishes
<1> SUFFICES ASSUME AssessmentIInv, NEW i \in Assessed, NEW r \in MappedRules,
                    Found(report[i], r), item.rules[r] # NotMapped
             PROVE  IF report[i].disposition = "not-applicable" THEN <<i, r>> \in retained
                    ELSE \/ controls[i] # "pass"
                         \/ item.rules[r].strength = "related" /\ item.rules[r].origin = "declared"
  BY DEF NoFindingVanishes
<1>1. controls[i] = StatusOf(item, report[i]) /\ Retained(i) \subseteq retained /\ item \in Item
  BY InputsAre DEF AssessmentIInv, AssessedSoFar
<1>2. CASE report[i].disposition = "not-applicable"
  <2>1. <<i, r>> \in Retained(i)
    BY <1>2 DEF Retained
  <2>2. QED BY <1>1, <1>2, <2>1
<1>3. CASE controls[i] = "pass"
  BY <1>1, <1>3, PassMeans, ContextOnly
<1>4. QED BY <1>2, <1>3

\* For every ledger item, report and gate: a control passes only for what was seen,
\* suppression changes no assessment, and no finding vanishes.
THEOREM AssessmentsAreEarned == AssessmentSpec => []VerdictsAreEarned
<1>1. AssessmentIInv => VerdictsAreEarned
  <2> SUFFICES ASSUME AssessmentIInv PROVE VerdictsAreEarned
    OBVIOUS
  <2>1. ASSUME NEW i \in Assessed
        PROVE  /\ controls[i] = StatusOf(item, report[i]) /\ report[i] \in Result
               /\ item \in Item /\ ValidItem(item) /\ Fits(item, report[i])
    BY <2>1, InputsAre DEF AssessmentIInv, AssessedSoFar
  <2>2. SuppressionChangesNothing
    BY <2>1, SuppressionIndifferent DEF SuppressionChangesNothing
  <2>3. PassIsEarned
    BY <2>1, PassEarned DEF PassIsEarned
  <2>4. RequiredCrashConcludesNothing
    BY <2>1, CrashConcludesNothing DEF RequiredCrashConcludesNothing
  <2>5. QED BY <2>2, <2>3, <2>4, FindingsShow DEF AssessmentIInv, VerdictsAreEarned
<1>2. QED BY AssessmentInitIInv, AssessmentNextIInv, <1>1, PTL DEF AssessmentSpec

\* For every set of gates: a job that asks to be failed on fail and indeterminate is
\* green only if no result says one or the other.
THEOREM GreenIsHonest == AssessmentSpec => []GreenHidesNothing
<1>1. AssessmentIInv => GreenHidesNothing
  <2> SUFFICES ASSUME AssessmentIInv, exit = 0, \A g \in Gates : {"fail", "indeterminate"} \subseteq g
               PROVE  /\ Len(controls) = Len(report)
                      /\ \A i \in Assessed : controls[i] \notin {"fail", "indeterminate"}
    BY DEF GreenHidesNothing
  <2> DEFINE all == {controls[i] : i \in DOMAIN controls}
  <2>1. /\ Len(controls) = Len(report) /\ Len(report) > 0
        /\ merged = WorstOf(all)
        /\ \E gate \in Gates : merged \notin gate
    BY DEF AssessmentIInv, MergedIsWorst
  <2>2. merged \notin {"fail", "indeterminate"}
    BY <2>1
  <2>3. all \in SUBSET Statuses /\ all # {}
    <3>1. controls \in Seq(Statuses) /\ Assessed = 1..Len(controls)
      BY InputsAre
    <3>2. 1 \in DOMAIN controls
      BY <2>1, <3>1 DEF Assessed
    <3>3. QED BY <3>1, <3>2
  <2>4. "fail" \notin all /\ "indeterminate" \notin all
    <3> HIDE DEF all
    <3>1. QED BY <2>1, <2>2, <2>3, WorstIs
  <2>5. QED BY <2>1, <2>4 DEF Assessed
<1>2. QED BY AssessmentInitIInv, AssessmentNextIInv, <1>1, PTL DEF AssessmentSpec

-----------------------------------------------------------------------------
(* Exports (ExportWriter). *)

\* What a writer has done when it is at a place of its program: nothing is at the path
\* before it publishes; what it publishes is whole; a refusal was not its own doing.
Placed(w) ==
    /\ pc[w] = "check" => temporary[w] = "none"
    /\ pc[w] = "publish" => temporary[w] = "whole"
    /\ pc[w] \in {"check", "create", "write", "publish"} => w \notin published
    /\ pc[w] = "unlink" => w \in published
    /\ pc[w] \in {"finally", "done"} =>
          /\ result[w] = "output_exists" => w \notin published
          /\ result[w] = "ok" => w \in published
    /\ pc[w] = "done" /\ temporary[w] # "none" => result[w] = "output_write_failed"

\* And a refusal between check and link had a reason that has not gone away.
Refused(w) ==
    pc[w] = "finally" /\ result[w] = "output_exists" => file.by # Nobody /\ w \notin Forced

ExportIInv ==
    /\ ExportTypeOK /\ ReadersSeeWholeExports
    /\ \A w \in Writer : Placed(w) /\ Refused(w)

\* Nobody has done anything.
LEMMA ExportInitIInv == ExportInit => ExportIInv
BY WriterAssumption DEF WriterAssumption, ExportInit, Absent, ExportIInv, ExportTypeOK, ReadersSeeWholeExports, Placed, Refused

\* A step of one writer leaves the others where they are.
LEMMA OthersStay ==
    ASSUME ExportIInv, NEW w \in Writer, Step(w) \/ Failure(w),
           NEW v \in Writer, v # w
    PROVE  /\ pc'[v] = pc[v] /\ result'[v] = result[v] /\ temporary'[v] = temporary[v]
           /\ v \in published' <=> v \in published
           /\ file.by # Nobody => file'.by # Nobody
<1> USE WriterAssumption DEF ExportIInv, ExportTypeOK, WriterAssumption, Goto, Returns, Fault
<1>1. CASE Step(w)
  BY <1>1 DEF Step, Exists, CheckPasses, Create, Write, Replace, Link, LinkExists, Unlink, Finally
<1>2. CASE Failure(w)
  BY <1>2 DEF Failure, CreateFails, Raises, UnlinkFails, FinallyFails, Killed
<1>3. QED BY <1>1, <1>2

\* Types, and what readers see, whoever takes a step.
LEMMA ExportTypeKept ==
    ASSUME ExportIInv, NEW w \in Writer, Step(w) \/ Failure(w)
    PROVE  ExportTypeOK' /\ ReadersSeeWholeExports'
<1> USE WriterAssumption DEF ExportIInv, ExportTypeOK, ReadersSeeWholeExports, WriterAssumption, Goto, Returns, Fault
<1>1. CASE Step(w)
  BY <1>1 DEF Step, Exists, CheckPasses, Create, Write, Replace, Link, LinkExists, Unlink, Finally, Placed
<1>2. CASE Failure(w)
  BY <1>2 DEF Failure, CreateFails, Raises, UnlinkFails, FinallyFails, Killed
<1>3. QED BY <1>1, <1>2

\* A writer that takes a step is where its program says.
LEMMA OwnStep ==
    ASSUME ExportIInv, NEW w \in Writer, Step(w) \/ Failure(w)
    PROVE  Placed(w)' /\ Refused(w)'
<1> USE WriterAssumption DEF ExportIInv, ExportTypeOK, ReadersSeeWholeExports, WriterAssumption, Goto, Returns, Placed, Refused
<1>1. CASE Exists(w) \/ CheckPasses(w) \/ Create(w) \/ Write(w)
  BY <1>1 DEF Exists, CheckPasses, Create, Write
<1>2. CASE Replace(w) \/ Link(w)
  BY <1>2 DEF Replace, Link
<1>3. CASE LinkExists(w)
  BY <1>3 DEF LinkExists, Absent
<1>4. CASE Unlink(w) \/ Finally(w)
  BY <1>4 DEF Unlink, Finally
<1>5. CASE Failure(w)
  BY <1>5 DEF Failure, CreateFails, Raises, UnlinkFails, FinallyFails, Killed
<1>6. QED BY <1>1, <1>2, <1>3, <1>4, <1>5 DEF Step

\* So every step keeps the invariant, of the one who takes it and of the others.
LEMMA ExportNextIInv == ExportIInv /\ [ExportNext]_exportVars => ExportIInv'
<1> SUFFICES ASSUME ExportIInv, [ExportNext]_exportVars PROVE ExportIInv'
  OBVIOUS
<1>1. ASSUME NEW w \in Writer, Step(w) \/ Failure(w) PROVE ExportIInv'
  <2>1. ASSUME NEW v \in Writer, v # w PROVE Placed(v)' /\ Refused(v)'
    BY <1>1, <2>1, OthersStay DEF ExportIInv, Placed, Refused
  <2>2. QED BY <1>1, <2>1, ExportTypeKept, OwnStep DEF ExportIInv
<1>2. CASE UNCHANGED exportVars
  BY <1>2 DEF exportVars, ExportIInv, ExportTypeOK, ReadersSeeWholeExports, Placed, Refused
<1>3. QED BY <1>1, <1>2 DEF ExportNext

\* Readers find whole exports, nothing is left behind without a failure, and what a
\* writer returns is true.
THEOREM ExportsCorrect == ExportSpec => []ExportsAreSound
<1>1. ExportIInv => ExportsAreSound
  BY DEF ExportIInv, Placed, ExportsAreSound, NoLitter, ResultIsTrue
<1>2. QED BY ExportInitIInv, ExportNextIInv, <1>1, PTL DEF ExportSpec

-----------------------------------------------------------------------------
(* Refinement. Replace and Link are the contract's Publish; reaching the end is *)
(* its Refuse or Fail, and so is being killed.                                  *)

\* No export, and every writer open.
LEMMA InitRefines == ExportInit => Contract!Init
BY DEF ExportInit, Absent, Contract!Init

\* The fate of a writer, as the contract sees it.
Fate(w) ==
    IF w \in published THEN "published"
    ELSE IF pc[w] \notin {"done", "killed"} THEN "open"
    ELSE IF pc[w] = "done" /\ result[w] = "output_exists" THEN "refused"
    ELSE "failed"

\* A step of one writer decides nothing of the others.
LEMMA OthersFate ==
    ASSUME ExportIInv, NEW w \in Writer, Step(w) \/ Failure(w),
           NEW v \in Writer, v # w
    PROVE  Fate(v)' = Fate(v)
BY OthersStay DEF Fate

\* A step of a writer is one of the contract or a stutter.
LEMMA StepRefines ==
    ASSUME ExportIInv, NEW w \in Writer, Step(w) \/ Failure(w)
    PROVE  [Contract!Next]_(Contract!vars)
<1> DEFINE fate == [v \in Writer |-> Fate(v)]
<1>1. ASSUME NEW f, Fate(w)' = f PROVE fate' = [fate EXCEPT ![w] = f]
  BY <1>1, OthersFate
<1>2. Contract!vars = <<file.by, fate>>
  BY DEF Contract!vars, Fate
<1>3. CASE Replace(w) \/ Link(w)
  <2>1. Fate(w) = "open" /\ Fate(w)' = "published"
    BY <1>3 DEF ExportIInv, Placed, ExportTypeOK, Fate, Replace, Link
  <2>2. file'.by = w /\ (file.by = Nobody \/ w \in Forced)
    BY <1>3 DEF Replace, Link, Absent
  <2>3. Contract!Publish(w)
    BY <1>1, <2>1, <2>2 DEF Contract!Publish, Fate
  <2>4. QED BY <2>3 DEF Contract!Next
<1>4. CASE ~(Replace(w) \/ Link(w))
  <2>1. file' = file
    BY <1>4 DEF Step, Failure, Exists, CheckPasses, Create, Write, LinkExists, Unlink, Finally,
       CreateFails, Raises, UnlinkFails, FinallyFails, Killed
  <2>2. \/ Fate(w)' = Fate(w)
        \/ Fate(w) = "open" /\ Fate(w)' = "failed"
        \/ Fate(w) = "open" /\ Fate(w)' = "refused" /\ file.by # Nobody /\ w \notin Forced
    <3> USE DEF ExportIInv, ExportTypeOK, ReadersSeeWholeExports, Goto, Returns, Fate
    <3>1. CASE Exists(w)
      BY <3>1 DEF Exists, Placed, Absent
    <3>2. CASE CheckPasses(w) \/ Create(w) \/ Write(w) \/ LinkExists(w) \/ Unlink(w)
      BY <3>2 DEF CheckPasses, Create, Write, LinkExists, Unlink
    <3>3. CASE Finally(w)
      BY <3>3 DEF Finally, Refused
    <3>4. CASE Failure(w)
      BY <3>4 DEF Failure, CreateFails, Raises, UnlinkFails, FinallyFails, Killed
    <3>5. QED BY <1>4, <3>1, <3>2, <3>3, <3>4 DEF Step
  <2>3. CASE Fate(w)' = Fate(w)
    BY <1>1, <1>2, <2>1, <2>3, ZenonT(60) DEF Contract!vars, Fate
  <2>4. CASE Fate(w) = "open" /\ Fate(w)' = "failed"
    BY <1>1, <2>1, <2>4 DEF Contract!Next, Contract!Fail, Fate
  <2>5. CASE Fate(w) = "open" /\ Fate(w)' = "refused" /\ file.by # Nobody /\ w \notin Forced
    BY <1>1, <2>1, <2>5 DEF Contract!Next, Contract!Refuse, Fate
  <2>6. QED BY <2>2, <2>3, <2>4, <2>5
<1>5. QED BY <1>3, <1>4

\* And so is every step.
LEMMA NextRefines ==
    ExportIInv /\ [ExportNext]_exportVars => [Contract!Next]_(Contract!vars)
<1> SUFFICES ASSUME ExportIInv, [ExportNext]_exportVars PROVE [Contract!Next]_(Contract!vars)
  OBVIOUS
<1>1. CASE UNCHANGED exportVars
  BY <1>1 DEF exportVars, Contract!vars
<1>2. QED BY <1>1, StepRefines DEF ExportNext

\* Seen from the path, the file operations of a writer are one atomic publication.
THEOREM WritersPublishAtomically == ExportSpec => PublishesAtomically
<1>1. ExportSpec => []ExportIInv
  BY ExportInitIInv, ExportNextIInv, PTL DEF ExportSpec
<1>2. QED
  BY <1>1, InitRefines, NextRefines, PTL DEF ExportSpec, PublishesAtomically, Contract!Spec

-----------------------------------------------------------------------------
(* Documents (ReconciliationWriter). *)

\* A path that nothing was done to, one whose old file was moved away, and one replaced:
\* the old file, if there was one, is at its place or in the temporary directory.
Was(p) == IF p \in before THEN "old" ELSE "absent"
Kept(p) == documents[p] = Was(p) /\ p \notin backup
Moved(p) == documents[p] = "absent" /\ (p \in backup <=> p \in before)
Renewed(p) == documents[p] = "new" /\ (p \in backup <=> p \in before)

\* Nothing failed so far: the paths before `at` are replaced, those behind it kept.
Forward ==
    /\ step \in {"stage", "backup", "replace"} => failures = 0 /\ at >= 1
    /\ step = "stage" => replaced = 0 /\ \A p \in Path : Kept(p)
    /\ step \in {"backup", "replace"} =>
          /\ replaced = at - 1
          /\ \A p \in Path : (p < at => Renewed(p)) /\ (p > at => Kept(p))
    /\ step = "backup" /\ at \in Path => Kept(at)
    /\ step = "replace" => at \in Path /\ Moved(at)

\* Something failed, and if nothing else does, the rollback works through the replaced
\* paths, after which at most one path is still away.
Backward ==
    /\ step = "undo" =>
          /\ failures >= 1 /\ at =< replaced /\ replaced =< N
          /\ failures = 1 => \A p \in Path : IF p =< at THEN Renewed(p) ELSE Kept(p) \/ Moved(p)
    /\ step = "restore" =>
          /\ failures >= 1
          /\ failures = 1 => \A p \in Path : Kept(p) \/ Moved(p)

\* When it is over.
Over ==
    /\ step \in {"clean", "done"} => /\ outcome = "published" => AllNew
                                     /\ failures =< 1 => AllNew \/ AsBefore
    /\ step = "clean" => /\ failures = 0 => outcome = "published"
                         /\ failures = 1 => AsBefore
    /\ step = "killed" => NothingLost

DocumentsIInv == DocumentsTypeOK /\ Forward /\ Backward /\ Over

\* The command begins with all documents as they were.
LEMMA DocumentsInitIInv == DocumentsInit => DocumentsIInv
BY ReconciliationAssumption
   DEF ReconciliationAssumption, DocumentsInit, DocumentsIInv, DocumentsTypeOK, Forward, Backward, Over,
       Path, Kept, Was

\* The bounds of `at`, wherever the command is.
LEMMA PathsAre == DocumentsIInv => /\ N \in Nat /\ N >= 1 /\ at \in Nat /\ replaced \in Nat
                                   /\ failures \in Nat /\ Path = 1..N /\ MaxFailures \in Nat
BY ReconciliationAssumption DEF ReconciliationAssumption, DocumentsIInv, DocumentsTypeOK, Path

\* No old file is lost in any state but one in which two operations failed.
LEMMA StillThere == DocumentsIInv => NothingLost
<1> SUFFICES ASSUME DocumentsIInv, failures =< 1, NEW p \in before PROVE documents[p] # "absent" \/ p \in backup
  BY DEF NothingLost
<1> USE PathsAre DEF DocumentsIInv
<1>1. p \in Path /\ p \in Nat /\ failures \in {0, 1}
  BY DEF DocumentsTypeOK
<1>2. Kept(p) \/ Moved(p) \/ Renewed(p) => documents[p] # "absent" \/ p \in backup
  BY DEF Kept, Was, Moved, Renewed
<1>3. CASE step = "stage"
  BY <1>1, <1>2, <1>3 DEF Forward
<1>4. CASE step \in {"backup", "replace"}
  BY <1>1, <1>2, <1>4 DEF Forward
<1>5. CASE step \in {"undo", "restore"}
  BY <1>1, <1>2, <1>5 DEF Backward
<1>6. CASE step \in {"clean", "done"}
  BY <1>1, <1>6 DEF Over, AllNew, AsBefore
<1>7. CASE step = "killed"
  BY <1>1, <1>7 DEF Over, NothingLost
<1>8. QED BY <1>3, <1>4, <1>5, <1>6, <1>7 DEF DocumentsTypeOK

\* Types; the path the loop is at stays in its bounds.
LEMMA TypesKept == ASSUME DocumentsIInv, DocumentsNext PROVE DocumentsTypeOK'
<1> USE PathsAre DEF DocumentsIInv, DocumentsTypeOK
<1>1. CASE Stage \/ StageFails
  BY <1>1 DEF Stage, StageFails, OperationFails
<1>a. CASE AllStaged \/ AllReplaced
  BY <1>a DEF AllStaged, AllReplaced
<1>m. CASE MoveAway
  BY <1>m DEF MoveAway, Forward
<1>2. CASE MoveIn
  <2>1. /\ at \in Path /\ replaced' = at /\ at' = at + 1 /\ documents' = [documents EXCEPT ![at] = "new"]
        /\ UNCHANGED <<before, backup, outcome, failures>> /\ staged' = staged \ {at} /\ step' = "backup"
    BY <1>2 DEF MoveIn, Forward
  <2>2. QED BY <2>1, SMTT(60)
<1>3. CASE MoveFails
  BY <1>3 DEF MoveFails, OperationFails
<1>4. CASE Undo
  BY <1>4, SMTT(60) DEF Undo
<1>5. CASE UndoUnlinkFails
  <2>1. /\ at \in Path /\ at' = at - 1 /\ failures' = failures + 1 /\ failures < MaxFailures
        /\ backup' = backup \ {at} /\ UNCHANGED <<before, staged, replaced, step, outcome>>
    BY <1>5 DEF UndoUnlinkFails, OperationFails
  <2>2. documents' = IF at \in backup THEN [documents EXCEPT ![at] = "old"] ELSE documents
    BY <1>5 DEF UndoUnlinkFails
  <2>3. QED BY <2>1, <2>2, SMTT(60)
<1>6. CASE UndoFails \/ RestoreFails \/ CleanFails
  BY <1>6, SMTT(60) DEF UndoFails, RestoreFails, CleanFails, OperationFails
<1>7. CASE AllUndone \/ Restore \/ Clean \/ CommandKilled
  BY <1>7 DEF AllUndone, Restore, Clean, CommandKilled
<1>8. QED BY <1>1, <1>a, <1>m, <1>2, <1>3, <1>4, <1>5, <1>6, <1>7 DEF DocumentsNext, DocumentsStep, DocumentsFailure

\* Staging, and replacing one path after the other.
LEMMA ReplacingKeeps ==
    ASSUME DocumentsIInv, Stage \/ AllStaged \/ MoveAway \/ MoveIn \/ AllReplaced
    PROVE  Forward' /\ Backward' /\ Over'
<1> USE PathsAre DEF DocumentsIInv
<1>0. documents \in [Path -> {"old", "new", "absent"}] /\ before \subseteq Path
  BY DEF DocumentsTypeOK
<1>1. CASE Stage
  <2>1. step' = "stage" /\ UNCHANGED <<before, documents, backup, replaced, failures>>
        /\ at' = at + 1 /\ step = "stage"
    BY <1>1 DEF Stage
  <2>2. QED BY <2>1 DEF Forward, Backward, Over, Kept, Was
<1>2. CASE AllStaged
  <2>1. step' = "backup" /\ UNCHANGED <<before, documents, backup, failures, replaced>> /\ at' = 1 /\ step = "stage"
    BY <1>2 DEF AllStaged
  <2>2. replaced = 0
    BY <2>1 DEF Forward
  <2>3. QED BY <2>1, <2>2 DEF Forward, Backward, Over, Kept, Was, Path
<1>3. CASE MoveAway
  <2>1. /\ step = "backup" /\ at \in Path /\ step' = "replace" /\ UNCHANGED <<before, replaced, at, failures>>
        /\ Kept(at) /\ failures = 0
    BY <1>3 DEF MoveAway, Forward
  <2>2. \A p \in Path : p # at => documents'[p] = documents[p] /\ (p \in backup' <=> p \in backup)
    BY <1>0, <1>3 DEF MoveAway
  <2>3. documents'[at] = "absent" /\ (at \in backup' <=> at \in before)
    BY <1>0, <1>3, <2>1 DEF MoveAway, Kept, Was
  <2>4. Forward'
    BY <2>1, <2>2, <2>3 DEF Forward, Kept, Was, Moved, Renewed
  <2>5. QED BY <2>1, <2>4 DEF Backward, Over
<1>4. CASE MoveIn
  <2>1. /\ step = "replace" /\ at \in Path /\ step' = "backup" /\ UNCHANGED <<before, backup, failures>>
        /\ replaced' = at /\ at' = at + 1 /\ Moved(at) /\ failures = 0
    BY <1>4 DEF MoveIn, Forward
  <2>2. \A p \in Path : documents'[p] = IF p = at THEN "new" ELSE documents[p]
    BY <1>0, <1>4 DEF MoveIn
  <2>3. \A p \in Path : (p < at => Renewed(p)) /\ (p > at => Kept(p))
    BY <2>1 DEF Forward
  <2>4. \A p \in Path : p < at' => Renewed(p)'
    BY <2>1, <2>2, <2>3 DEF Renewed, Moved
  <2>5. \A p \in Path : p >= at' => Kept(p)'
    BY <2>1, <2>2, <2>3 DEF Kept, Was
  <2>6. Forward'
    BY <2>1, <2>4, <2>5 DEF Forward
  <2>7. QED BY <2>1, <2>6 DEF Backward, Over
<1>5. CASE AllReplaced
  <2>1. /\ step = "backup" /\ at \notin Path /\ step' = "clean" /\ outcome' = "published"
        /\ UNCHANGED <<before, documents, backup, failures>> /\ failures = 0
    BY <1>5 DEF AllReplaced, Forward
  <2>2. AllNew
    BY <2>1 DEF Forward, AllNew, Renewed, Path
  <2>3. QED BY <2>1, <2>2 DEF Forward, Backward, Over, AllNew
<1>6. QED BY <1>1, <1>2, <1>3, <1>4, <1>5

\* The first failure starts the rollback from where the command was.
LEMMA FailingKeeps ==
    ASSUME DocumentsIInv, StageFails \/ MoveFails
    PROVE  Forward' /\ Backward' /\ Over'
<1> USE PathsAre DEF DocumentsIInv
<1>1. CASE StageFails
  <2>1. /\ step = "stage" /\ step' = "clean" /\ outcome' = "failed" /\ failures' = 1
        /\ UNCHANGED <<before, documents, backup>>
    BY <1>1 DEF StageFails, OperationFails, Forward
  <2>2. AsBefore'
    BY <2>1 DEF Forward, AsBefore, Kept, Was
  <2>3. QED BY <2>1, <2>2 DEF Forward, Backward, Over
<1>2. CASE MoveFails
  <2>1. /\ step \in {"backup", "replace"} /\ at \in Path /\ step' = "undo" /\ failures' = 1 /\ at' = replaced
        /\ replaced = at - 1 /\ UNCHANGED <<before, documents, backup, replaced>>
        /\ Kept(at) \/ Moved(at)
    BY <1>2 DEF MoveFails, OperationFails, Forward
  <2>2. \A p \in Path : IF p =< at' THEN Renewed(p) ELSE Kept(p) \/ Moved(p)
    BY <2>1 DEF Forward
  <2>3. \A p \in Path : IF p =< at' THEN Renewed(p)' ELSE Kept(p)' \/ Moved(p)'
    BY <2>1, <2>2 DEF Renewed, Kept, Moved, Was
  <2>4. QED BY <2>1, <2>3 DEF Forward, Backward, Over, Path
<1>3. QED BY <1>1, <1>2

\* The rollback puts old files back, or fails a second time.
LEMMA RollbackKeeps ==
    ASSUME DocumentsIInv, Undo \/ UndoUnlinkFails \/ UndoFails \/ AllUndone \/ Restore \/ RestoreFails
    PROVE  Forward' /\ Backward' /\ Over'
<1> USE PathsAre DEF DocumentsIInv
<1>0. documents \in [Path -> {"old", "new", "absent"}] /\ before \subseteq Path
  BY DEF DocumentsTypeOK
<1>1. CASE Undo
  <2>1. /\ step = "undo" /\ at \in Path /\ step' = "undo" /\ UNCHANGED <<before, replaced, failures>>
        /\ at' = at - 1 /\ failures >= 1 /\ at =< replaced /\ replaced =< N
    BY <1>1 DEF Undo, Backward
  <2>2. \A p \in Path : p # at => documents'[p] = documents[p] /\ (p \in backup' <=> p \in backup)
    BY <1>0, <1>1 DEF Undo
  <2>3. documents'[at] = (IF at \in backup THEN "old" ELSE "absent") /\ at \notin backup'
    BY <1>0, <1>1, <2>1 DEF Undo
  <2>4. ASSUME failures = 1, NEW p \in Path
        PROVE  IF p =< at' THEN Renewed(p)' ELSE Kept(p)' \/ Moved(p)'
    <3>1. IF p =< at THEN Renewed(p) ELSE Kept(p) \/ Moved(p)
      BY <2>1, <2>4 DEF Backward
    <3>2. CASE p = at
      <4>1. Kept(p)'
        BY <2>1, <2>3, <3>1, <3>2 DEF Renewed, Kept, Was
      <4>2. QED BY <2>1, <3>2, <4>1
    <3>3. CASE p # at
      BY <2>1, <2>2, <3>1, <3>3 DEF Renewed, Kept, Moved, Was
    <3>4. QED BY <3>2, <3>3
  <2>5. QED BY <2>1, <2>4 DEF Forward, Backward, Over
<1>2. CASE UndoUnlinkFails
  <2>1. /\ step' = "undo" /\ failures' \in Nat /\ failures' >= 2 /\ at' =< replaced' /\ replaced' =< N
    BY <1>2 DEF UndoUnlinkFails, OperationFails, Backward
  <2>2. QED BY <2>1 DEF Forward, Backward, Over
<1>3. CASE UndoFails \/ RestoreFails
  <2>1. /\ step' = "clean" /\ failures' \in Nat /\ failures' >= 2 /\ outcome' = "failed"
    BY <1>3 DEF UndoFails, RestoreFails, OperationFails, Backward
  <2>2. QED BY <2>1 DEF Forward, Backward, Over
<1>4. CASE AllUndone
  <2>1. /\ step = "undo" /\ at \notin Path /\ step' = "restore" /\ UNCHANGED <<before, documents, backup, failures>>
        /\ failures >= 1 /\ at =< N
    BY <1>4 DEF AllUndone, Backward
  <2>2. at = 0
    BY <2>1 DEF Path
  <2>3. \A p \in Path : ~(p =< at)
    BY <2>2 DEF Path
  <2>4. failures = 1 => \A p \in Path : Kept(p)' \/ Moved(p)'
    BY <2>1, <2>3 DEF Backward, Kept, Moved, Was
  <2>5. QED BY <2>1, <2>4 DEF Forward, Backward, Over
<1>5. CASE Restore
  <2>1. /\ step = "restore" /\ step' = "clean" /\ outcome' = "failed" /\ UNCHANGED <<before, failures>>
        /\ failures >= 1
    BY <1>5 DEF Restore, Backward
  <2>2. \A p \in Path : documents'[p] = IF p \in backup THEN "old" ELSE documents[p]
    BY <1>5 DEF Restore
  <2>3. failures = 1 => AsBefore'
    BY <2>1, <2>2 DEF Backward, Kept, Moved, Was, AsBefore
  <2>4. QED BY <2>1, <2>3 DEF Forward, Backward, Over
<1>6. QED BY <1>1, <1>2, <1>3, <1>4, <1>5

\* Removing the directory touches no document; a kill stops where it is.
LEMMA CleaningKeeps ==
    ASSUME DocumentsIInv, Clean \/ CleanFails \/ CommandKilled
    PROVE  Forward' /\ Backward' /\ Over'
<1> USE PathsAre DEF DocumentsIInv
<1>1. CASE Clean
  <2>1. step = "clean" /\ step' = "done" /\ UNCHANGED <<before, documents, outcome, failures>>
    BY <1>1 DEF Clean
  <2>2. QED BY <2>1 DEF Forward, Backward, Over, AllNew, AsBefore
<1>2. CASE CleanFails
  <2>1. /\ step = "clean" /\ step' = "done" /\ outcome' = "failed" /\ UNCHANGED <<before, documents>>
        /\ failures' = failures + 1
    BY <1>2 DEF CleanFails, OperationFails
  <2>2. failures' =< 1 => AllNew
    BY <2>1 DEF Over
  <2>3. QED BY <2>1, <2>2 DEF Forward, Backward, Over, AllNew
<1>3. CASE CommandKilled
  <2>1. step' = "killed" /\ UNCHANGED <<before, documents, backup, failures>>
    BY <1>3 DEF CommandKilled
  <2>2. NothingLost'
    BY <2>1, StillThere DEF NothingLost
  <2>3. QED BY <2>1, <2>2 DEF Forward, Backward, Over
<1>4. QED BY <1>1, <1>2, <1>3

\* For every number of documents, every bound on failures, and with or without kills.
THEOREM DocumentsSafe == DocumentsSpec => []DocumentsAreSafe
<1>1. DocumentsIInv /\ [DocumentsNext]_documentVars => DocumentsIInv'
  <2> SUFFICES ASSUME DocumentsIInv, [DocumentsNext]_documentVars PROVE DocumentsIInv'
    OBVIOUS
  <2>1. CASE DocumentsNext
    BY <2>1, TypesKept, ReplacingKeeps, FailingKeeps, RollbackKeeps, CleaningKeeps
       DEF DocumentsIInv, DocumentsNext, DocumentsStep, DocumentsFailure
  <2>2. CASE UNCHANGED documentVars
    BY <2>2 DEF documentVars, DocumentsIInv, DocumentsTypeOK, Forward, Backward, Over, Kept, Was, Moved,
                Renewed, AllNew, AsBefore, NothingLost
  <2>3. QED BY <2>1, <2>2
<1>2. DocumentsIInv => DocumentsAreSafe
  <2> SUFFICES ASSUME DocumentsIInv PROVE DocumentsAreSafe
    OBVIOUS
  <2>1. AllOrNothing /\ PublishedIsTrue
    BY DEF DocumentsIInv, Over, AllOrNothing, PublishedIsTrue
  <2>2. QED BY <2>1, StillThere DEF DocumentsIInv, DocumentsAreSafe
<1>3. QED BY DocumentsInitIInv, <1>1, <1>2, PTL DEF DocumentsSpec

================================================================================
