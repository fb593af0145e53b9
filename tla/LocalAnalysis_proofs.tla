-------------------------- MODULE LocalAnalysis_proofs --------------------------
(***************************************************************************)
(* The invariants of a local analysis, for every registry of rules, every  *)
(* configuration and every pattern of crashes.                             *)
(***************************************************************************)
EXTENDS LocalAnalysis, ExecutionManifest_proofs

(***************************************************************************)
(* The inductive invariant.                                                *)
(***************************************************************************)
Place == {"main"} \cup Htaccess \cup WebConfig

PassItem == [kind : {"pass"}, category : {Local, "universal"}, stages : SUBSET Stage,
             places : SUBSET Place]
FileItem == [kind : {"web.config"}, place : WebConfig]
Item     == PassItem \cup FileItem

\* The passes and files still ahead, whatever their order.
Ahead == ToSet(agenda)

\* The only passes without a file to read.
EmptyContext == LocalPass({"htaccess", "mixed"}, {})

Shape ==
    /\ phase \in {"idle", "running", "attach", "done", "raised"}
    /\ job \in Jobs
    /\ agenda \in Seq(Item)
    /\ pass \in PassItem \cup {NoPass}
    /\ visit \in Nat
    /\ queue \subseteq Rule
    /\ loaded \subseteq Packages
    /\ calls \subseteq Rule \X Nat \X {"returned", "raised"}
    /\ findings \subseteq Rule \X Place \X Nat
    /\ hit \subseteq Rule \X Place
    /\ SoundRecorder(recorder)

\* An analysis that has not begun or is over has nothing left to work off.
Resting ==
    /\ phase # "running" => queue = {}
    /\ phase \in {"idle", "attach", "done"} => agenda = <<>>
    /\ phase = "idle" => /\ recorder = EmptyRecorder
                         /\ issues = {} /\ findings = {} /\ calls = {} /\ hit = {}
    /\ phase = "done" => manifest = Manifest(recorder) /\ job.required \subseteq SelectedSet(recorder)
    /\ phase # "done" => manifest = NoManifest

\* The rules this analysis is about; the opt-in ones among them it may run; the ones
\* it runs per .htaccess context.
ForThis(r)    == Category[r] = "universal" \/ (Category[r] = Local /\ ServerOf[r] = job.server)
Allowed(r)    == ForThis(r) /\ (r \in OptIn => job.review)
PerContext(r) == /\ job.server = "apache" /\ Category[r] = Local /\ Allowed(r)
                 /\ StageOf[r] \in {"htaccess", "mixed"}

Invocable ==
    /\ \A r \in queue : Allowed(r)
    /\ \A p \in Ahead : p \in PassItem /\ p.places = {} => p = EmptyContext /\ job.server = "apache"

\* The recorder has an event of exactly the selected rules, those in the queue apart,
\* and the events tell what the invocations did.
Recorded ==
    /\ Unselected(recorder) = {}
    /\ Missing(recorder) \subseteq queue
    /\ ~Discarded => \A r \in Rule :
        /\ recorder.terminal[r].state = "failed" <=> CrashedIn(r) # {}
        /\ recorder.terminal[r].state = "completed" <=> Visited(r) # {} /\ CrashedIn(r) = {}

\* Why a rule was skipped.
Reasoned ==
    \A r \in Rule : recorder.terminal[r].state = "skipped" =>
        LET reason == recorder.terminal[r].detail IN
        /\ reason = "opt-in-not-selected" => r \in OptIn /\ ~job.review
        /\ reason = "mode-incompatible"   => Category[r] = "external"
        /\ reason = "server-incompatible" => ServerOf[r] \notin {job.server, "any"}
        /\ reason = "prerequisite-failed" =>
              r \in job.lacking \/ (phase = "done" /\ ~InCatalog(r, loaded))
        /\ reason = "input-unavailable"   => Discarded \/ PerContext(r)

\* What this analysis owes is done or still ahead: every rule about this server is
\* selected, every rule of a nonempty context visited, every broken file reported.
Selects(p, r) == p \in PassItem /\ p.category = Category[r] /\ StageOf[r] \in p.stages
Unusable(w)   == Issue("warning", "iis_web_config_error", <<w>>)
ContextPass(i) == LocalPass({"htaccess", "mixed"}, job.contexts[i])

Owed ==
    phase \in {"running", "attach", "done"} /\ ~Discarded =>
        /\ \A r \in Rule : ForThis(r) =>
              r \in SelectedSet(recorder) \/ \E p \in Ahead : Selects(p, r)
        /\ \A i \in DOMAIN job.contexts, r \in Rule :
              PerContext(r) /\ job.contexts[i] # {} =>
                  Visited(r) # {} \/ r \in queue \/ ContextPass(i) \in Ahead
        /\ \A w \in job.broken : Unusable(w) \in issues \/ WebConfigFile(w) \in Ahead

Crash(c) == Issue("warning", "rule_execution_error", <<c[1], c[2]>>)
Crashes  == {Crash(c) : c \in {c \in calls : c[3] = "raised"}}

Issued ==
    /\ ~Discarded => /\ Crashes \subseteq issues
                     /\ issues \subseteq Crashes \cup {Unusable(w) : w \in job.broken}
    /\ Discarded => /\ phase \in {"attach", "done"} /\ findings = {}
                    /\ phase = "attach" => recorder = EmptyRecorder
                    /\ phase = "done" => SelectedSet(recorder) = InState(recorder, "skipped")

Found ==
    /\ \A f \in findings : Visited(f[1]) # {} /\ <<f[1], f[2]>> \in hit
    /\ \A f, g \in findings :
          f[1] = g[1] /\ f[2] = g[2] /\ StageOf[f[1]] \in {"htaccess", "mixed"} => f = g
    /\ ~Discarded => \A h \in hit : \/ \E f \in findings : <<f[1], f[2]>> = h
                                    \/ Dropped(h[1])
                                    \/ h[1] \in job.answered

IInv ==
    /\ Shape /\ Resting /\ Invocable /\ Recorded /\ Reasoned /\ Owed /\ Issued /\ Found

(***************************************************************************)
(* Facts about the job and the agenda.                                     *)
(***************************************************************************)
\* A bounded sequence is a sequence.
LEMMA BoundedSeqIsSeq ==
    ASSUME NEW S, NEW s \in BoundedSeq(S, MaxContexts)
    PROVE  s \in Seq(S) /\ DOMAIN s = 1..Len(s) /\ \A i \in DOMAIN s : s[i] \in S
<1>1. PICK m \in 0..MaxContexts : s \in [1..m -> S]
  BY RegistryAssumption DEF BoundedSeq, SeqOf, RegistryAssumption
<1>2. m \in Nat
  BY RegistryAssumption DEF RegistryAssumption
<1>3. QED BY <1>1, <1>2

\* What a target, its configuration and its includes may be.
LEMMA JobFacts ==
    ASSUME job \in Jobs
    PROVE  /\ job.server \in Server /\ job.required \subseteq Rule
           /\ job.contexts \in Seq(SUBSET Htaccess)
           /\ \A i \in DOMAIN job.contexts : job.contexts[i] \in SUBSET Htaccess
           /\ job.webConfigs \in Seq(WebConfig)
           /\ \A i \in DOMAIN job.webConfigs : job.webConfigs[i] \in WebConfig
           /\ job.lacking # {} => job.server = "nginx"
           /\ job.server = "apache" <=> job.contexts # <<>>
           /\ job.webConfigs # <<>> => job.server = "iis"
           /\ job.broken \subseteq ToSet(job.webConfigs)
<1>1. /\ job \in [server : Server, review : BOOLEAN, required : Requirements,
                  lacking : SUBSET NeedsDirective, answered : SUBSET OptIn,
                  contexts : BoundedSeq(SUBSET Htaccess, MaxContexts),
                  webConfigs : BoundedSeq(WebConfig, MaxContexts), broken : SUBSET WebConfig,
                  undecodable : SUBSET WebConfig, redirectOnly : BOOLEAN]
      /\ job.lacking \cup job.answered # {} => job.server = "nginx"
      /\ IF job.server = "apache" THEN job.contexts # <<>> ELSE job.contexts = <<>>
      /\ job.webConfigs # <<>> => job.server = "iis"
      /\ job.broken \cup job.undecodable \subseteq ToSet(job.webConfigs)
  BY DEF Jobs
<1>2. /\ job.server \in Server /\ job.required \in Requirements
      /\ job.contexts \in BoundedSeq(SUBSET Htaccess, MaxContexts)
      /\ job.webConfigs \in BoundedSeq(WebConfig, MaxContexts)
  BY <1>1
<1>3. job.required \subseteq Rule
  BY <1>2, RegistryAssumption DEF RegistryAssumption
<1>4. /\ job.contexts \in Seq(SUBSET Htaccess)
      /\ \A i \in DOMAIN job.contexts : job.contexts[i] \in SUBSET Htaccess
  BY <1>2, BoundedSeqIsSeq
<1>5. /\ job.webConfigs \in Seq(WebConfig)
      /\ \A i \in DOMAIN job.webConfigs : job.webConfigs[i] \in WebConfig
  BY <1>2, BoundedSeqIsSeq
<1>6. /\ job.lacking # {} => job.server = "nginx"
      /\ job.server = "apache" <=> job.contexts # <<>>
      /\ job.webConfigs # <<>> => job.server = "iis"
      /\ job.broken \subseteq ToSet(job.webConfigs)
  BY <1>1
<1>7. QED BY <1>2, <1>3, <1>4, <1>5, <1>6

\* What is in two sequences together.
LEMMA ToSetConcat ==
    ASSUME NEW S, NEW s \in Seq(S), NEW t \in Seq(S)
    PROVE  s \o t \in Seq(S) /\ ToSet(s \o t) = ToSet(s) \cup ToSet(t)
<1>1. /\ s \o t \in Seq(S) /\ Len(s) \in Nat /\ Len(t) \in Nat
      /\ Len(s \o t) = Len(s) + Len(t)
      /\ DOMAIN s = 1..Len(s) /\ DOMAIN t = 1..Len(t) /\ DOMAIN (s \o t) = 1..Len(s \o t)
  OBVIOUS
<1>2. /\ \A i \in 1..Len(s) : (s \o t)[i] = s[i]
      /\ \A i \in 1..Len(t) : (s \o t)[Len(s) + i] = t[i]
  OBVIOUS
<1> DEFINE u == s \o t
<1> HIDE DEF u
<1>3. ToSet(u) \subseteq ToSet(s) \cup ToSet(t)
  <2> SUFFICES ASSUME NEW i \in 1..Len(u) PROVE u[i] \in ToSet(s) \cup ToSet(t)
    BY <1>1 DEF ToSet, u
  <2>1. CASE i =< Len(s)
    BY <1>1, <1>2, <2>1 DEF ToSet, u
  <2>2. CASE i > Len(s)
    <3>1. i - Len(s) \in 1..Len(t) /\ Len(s) + (i - Len(s)) = i
      BY <1>1, <2>2 DEF u
    <3>2. u[i] = t[i - Len(s)]
      BY <1>2, <3>1 DEF u
    <3>3. QED BY <1>1, <3>1, <3>2 DEF ToSet
  <2>3. QED BY <1>1, <2>1, <2>2 DEF u
<1>4. ToSet(s) \subseteq ToSet(u)
  <2> SUFFICES ASSUME NEW i \in 1..Len(s) PROVE s[i] \in ToSet(u)
    BY <1>1 DEF ToSet
  <2>1. i \in 1..Len(u) /\ u[i] = s[i]
    BY <1>1, <1>2 DEF u
  <2>2. QED BY <1>1, <2>1 DEF ToSet, u
<1>5. ToSet(t) \subseteq ToSet(u)
  <2> SUFFICES ASSUME NEW i \in 1..Len(t) PROVE t[i] \in ToSet(u)
    BY <1>1 DEF ToSet
  <2>1. Len(s) + i \in 1..Len(u) /\ u[Len(s) + i] = t[i]
    BY <1>1, <1>2 DEF u
  <2>2. QED BY <1>1, <2>1 DEF ToSet, u
<1>6. QED BY <1>1, <1>3, <1>4, <1>5 DEF u

\* What is worked off is the head of the agenda, and the rest stays.
LEMMA ToSetTail ==
    ASSUME NEW S, NEW s \in Seq(S), s # <<>>
    PROVE  /\ Head(s) \in S /\ Tail(s) \in Seq(S)
           /\ ToSet(s) = {Head(s)} \cup ToSet(Tail(s))
<1>1. /\ Head(s) \in S /\ Tail(s) \in Seq(S) /\ Len(s) \in Nat /\ Len(s) # 0
      /\ Len(Tail(s)) = Len(s) - 1 /\ Head(s) = s[1]
      /\ DOMAIN s = 1..Len(s) /\ DOMAIN Tail(s) = 1..Len(Tail(s))
      /\ \A i \in 1..Len(s) - 1 : Tail(s)[i] = s[i + 1]
  OBVIOUS
<1> DEFINE t == Tail(s)
<1> HIDE DEF t
<1>2. ToSet(s) \subseteq {Head(s)} \cup ToSet(t)
  <2> SUFFICES ASSUME NEW i \in 1..Len(s) PROVE s[i] \in {Head(s)} \cup ToSet(t)
    BY <1>1 DEF ToSet
  <2>1. CASE i = 1
    BY <1>1, <2>1
  <2>2. CASE i # 1
    <3>1. i - 1 \in 1..Len(s) - 1 /\ (i - 1) + 1 = i
      BY <1>1, <2>2
    <3>2. t[i - 1] = s[i] /\ i - 1 \in 1..Len(t)
      BY <1>1, <3>1 DEF t
    <3>3. QED BY <1>1, <3>2 DEF ToSet, t
  <2>3. QED BY <2>1, <2>2
<1>3. {Head(s)} \cup ToSet(t) \subseteq ToSet(s)
  <2>1. Head(s) \in ToSet(s)
    BY <1>1 DEF ToSet
  <2> SUFFICES ASSUME NEW i \in 1..Len(t) PROVE t[i] \in ToSet(s)
    BY <1>1, <2>1 DEF ToSet, t
  <2>2. i \in 1..Len(s) - 1 /\ i + 1 \in 1..Len(s) /\ t[i] = s[i + 1]
    BY <1>1 DEF t
  <2>3. QED BY <1>1, <2>2 DEF ToSet
<1>4. QED BY <1>1, <1>2, <1>3 DEF t

\* What is in a sequence that is given element by element.
LEMMA ToSetOfFunction ==
    ASSUME NEW n \in Nat, NEW T, NEW t \in [1..n -> T]
    PROVE  t \in Seq(T) /\ ToSet(t) = {t[i] : i \in 1..n}
<1>1. t \in Seq(T) /\ DOMAIN t = 1..n
  OBVIOUS
<1>2. QED BY <1>1 DEF ToSet

\* The agenda an analysis begins with owes everything it has to do, and a pass
\* without files is one of an empty .htaccess context.
LEMMA AgendaFacts ==
    ASSUME job \in Jobs
    PROVE  LET A == AgendaFor(job) IN
           /\ A \in Seq(Item)
           /\ \A r \in Rule : ForThis(r) => \E p \in ToSet(A) : Selects(p, r)
           /\ \A i \in DOMAIN job.contexts : ContextPass(i) \in ToSet(A)
           /\ \A w \in job.broken : WebConfigFile(w) \in ToSet(A)
           /\ \A p \in ToSet(A) : p \in PassItem /\ p.places = {} =>
                                      p = EmptyContext /\ job.server = "apache"
<1> DEFINE A == AgendaFor(job)
           main == <<LocalPass(Stage, {"main"}), UniversalPass({"main"})>>
           ast  == <<LocalPass({"ast"}, {"main"})>>
           uni  == <<UniversalPass({"main"})>>
           ctx  == [i \in DOMAIN job.contexts |-> LocalPass({"htaccess", "mixed"}, job.contexts[i])]
           web  == [i \in DOMAIN job.webConfigs |-> WebConfigFile(job.webConfigs[i])]
<1>1. /\ LocalPass(Stage, {"main"}) \in PassItem /\ LocalPass({"ast"}, {"main"}) \in PassItem
      /\ UniversalPass({"main"}) \in PassItem
  BY DEF LocalPass, UniversalPass, Pass, PassItem, Stage, Place
<1>2. /\ main \in Seq(Item) /\ ToSet(main) = {LocalPass(Stage, {"main"}), UniversalPass({"main"})}
      /\ ast \in Seq(Item) /\ ToSet(ast) = {LocalPass({"ast"}, {"main"})}
      /\ uni \in Seq(Item) /\ ToSet(uni) = {UniversalPass({"main"})}
  BY <1>1 DEF ToSet, Item
<1>3. \A i \in DOMAIN job.contexts : ContextPass(i) \in PassItem
  BY JobFacts DEF ContextPass, LocalPass, Pass, PassItem, Stage, Place
<1>4. ctx \in Seq(Item) /\ ToSet(ctx) = {ContextPass(i) : i \in DOMAIN job.contexts}
  <2>1. ctx = [i \in DOMAIN job.contexts |-> ctx[i]]
        /\ \A i \in DOMAIN job.contexts : ctx[i] = ContextPass(i)
    BY DEF ContextPass
  <2> HIDE DEF ctx
  <2>2. \A i \in DOMAIN job.contexts : ctx[i] \in Item
    BY <1>3, <2>1 DEF Item
  <2>3. ctx \in Seq(Item) /\ ToSet(ctx) = {ctx[i] : i \in DOMAIN job.contexts}
    <3>1. DOMAIN job.contexts = 1..Len(job.contexts) /\ Len(job.contexts) \in Nat
      BY JobFacts
    <3>2. ctx \in [1..Len(job.contexts) -> Item]
      BY <2>1, <2>2, <3>1
    <3>3. ctx \in Seq(Item) /\ ToSet(ctx) = {ctx[i] : i \in 1..Len(job.contexts)}
      BY <3>1, <3>2, ToSetOfFunction
    <3>4. QED BY <3>1, <3>3
  <2>4. QED BY <2>1, <2>3
<1>5. web \in Seq(Item) /\ ToSet(web) = {WebConfigFile(w) : w \in ToSet(job.webConfigs)}
  <2>1. web = [i \in DOMAIN job.webConfigs |-> web[i]]
        /\ \A i \in DOMAIN job.webConfigs : web[i] = WebConfigFile(job.webConfigs[i])
    OBVIOUS
  <2> HIDE DEF web
  <2>2. \A i \in DOMAIN job.webConfigs : web[i] \in Item
    <3>1. \A i \in DOMAIN job.webConfigs : job.webConfigs[i] \in WebConfig
      BY JobFacts
    <3>2. \A w \in WebConfig : WebConfigFile(w) \in Item
      BY DEF Item, FileItem, WebConfigFile
    <3>3. QED BY <2>1, <3>1, <3>2
  <2>3. web \in Seq(Item) /\ ToSet(web) = {web[i] : i \in DOMAIN job.webConfigs}
    <3>1. DOMAIN job.webConfigs = 1..Len(job.webConfigs) /\ Len(job.webConfigs) \in Nat
      BY JobFacts
    <3>2. web \in [1..Len(job.webConfigs) -> Item]
      BY <2>1, <2>2, <3>1
    <3>3. web \in Seq(Item) /\ ToSet(web) = {web[i] : i \in 1..Len(job.webConfigs)}
      BY <3>1, <3>2, ToSetOfFunction
    <3>4. QED BY <3>1, <3>3
  <2>4. PICK wc : wc = job.webConfigs
    OBVIOUS
  <2>5. {web[i] : i \in DOMAIN wc} = {WebConfigFile(w) : w \in ToSet(wc)}
    <3>1. ToSet(wc) = {wc[i] : i \in DOMAIN wc}
      BY DEF ToSet
    <3>2. \A i \in DOMAIN wc : web[i] = WebConfigFile(wc[i])
      BY <2>1, <2>4
    <3>3. QED BY <3>1, <3>2
  <2>6. QED BY <2>3, <2>4, <2>5
<1> DEFINE isApache == job.server = "apache"
           isIis == job.server = "iis"
<1>6. A = IF isApache THEN (ast \o ctx) \o uni ELSE IF isIis THEN main \o web ELSE main
  BY DEF AgendaFor, ApacheAgenda, IisAgenda
<1> HIDE DEF main, ast, uni, ctx, web, A
<1>7. /\ A \in Seq(Item)
      /\ isApache => ToSet(A) = (ToSet(ast) \cup ToSet(ctx)) \cup ToSet(uni)
      /\ isIis => ToSet(A) = ToSet(main) \cup ToSet(web)
      /\ ~isApache /\ ~isIis => ToSet(A) = ToSet(main)
  <2>1. /\ ast \o ctx \in Seq(Item) /\ ToSet(ast \o ctx) = ToSet(ast) \cup ToSet(ctx)
        /\ (ast \o ctx) \o uni \in Seq(Item)
        /\ ToSet((ast \o ctx) \o uni) = ToSet(ast \o ctx) \cup ToSet(uni)
    <3> DEFINE two == ast \o ctx
    <3>1. two \in Seq(Item) /\ ToSet(two) = ToSet(ast) \cup ToSet(ctx)
      BY <1>2, <1>4, ToSetConcat
    <3> HIDE DEF two
    <3>2. two \o uni \in Seq(Item) /\ ToSet(two \o uni) = ToSet(two) \cup ToSet(uni)
      BY <1>2, <3>1, ToSetConcat
    <3>3. QED BY <3>1, <3>2 DEF two
  <2>2. main \o web \in Seq(Item) /\ ToSet(main \o web) = ToSet(main) \cup ToSet(web)
    BY <1>2, <1>5, ToSetConcat
  <2>3. isIis => ~isApache
    OBVIOUS
  <2>4. QED BY <1>2, <1>6, <2>1, <2>2, <2>3
<1>8. \A r \in Rule : ForThis(r) => \E p \in ToSet(A) : Selects(p, r)
  <2> SUFFICES ASSUME NEW r \in Rule, ForThis(r) PROVE \E p \in ToSet(A) : Selects(p, r)
    OBVIOUS
  <2>1. StageOf[r] \in Stage
    BY RegistryAssumption DEF RegistryAssumption
  <2>2. CASE Category[r] = "universal"
    <3>1. UniversalPass({"main"}) \in ToSet(A)
      BY <1>2, <1>7
    <3>2. Selects(UniversalPass({"main"}), r)
      BY <1>1, <2>1, <2>2 DEF Selects, UniversalPass, Pass
    <3>3. QED BY <3>1, <3>2
  <2>3. CASE Category[r] = Local /\ ServerOf[r] = job.server
    <3>1. CASE ~isApache
      <4>1. LocalPass(Stage, {"main"}) \in ToSet(A)
        BY <1>2, <1>7, <3>1
      <4>2. Selects(LocalPass(Stage, {"main"}), r)
        BY <1>1, <2>1, <2>3 DEF Selects, LocalPass, Pass
      <4>3. QED BY <4>1, <4>2
    <3>2. CASE isApache
      <4>1. StageOf[r] \in {"ast", "htaccess", "mixed"}
        BY <2>3, <3>2, RegistryAssumption DEF RegistryAssumption
      <4>2. CASE StageOf[r] = "ast"
        <5>1. LocalPass({"ast"}, {"main"}) \in ToSet(A)
          BY <1>2, <1>7, <3>2
        <5>2. Selects(LocalPass({"ast"}, {"main"}), r)
          BY <1>1, <2>3, <4>2 DEF Selects, LocalPass, Pass
        <5>3. QED BY <5>1, <5>2
      <4>3. CASE StageOf[r] \in {"htaccess", "mixed"}
        <5>1. job.contexts # <<>> /\ job.contexts \in Seq(SUBSET Htaccess)
          BY <3>2, JobFacts
        <5>2. 1 \in DOMAIN job.contexts
          BY <5>1
        <5>3. ContextPass(1) \in ToSet(A) /\ ContextPass(1) \in PassItem
          BY <1>3, <1>4, <1>7, <3>2, <5>2
        <5>4. Selects(ContextPass(1), r)
          BY <2>3, <4>3, <5>3 DEF Selects, ContextPass, LocalPass, Pass
        <5>5. QED BY <5>3, <5>4
      <4>4. QED BY <4>1, <4>2, <4>3
    <3>3. QED BY <3>1, <3>2
  <2>4. QED BY <2>2, <2>3 DEF ForThis
<1>9. \A i \in DOMAIN job.contexts : ContextPass(i) \in ToSet(A)
  <2>1. CASE isApache
    BY <1>4, <1>7, <2>1
  <2>2. CASE ~isApache
    <3>1. job.contexts = <<>>
      BY <2>2, JobFacts
    <3>2. QED BY <3>1
  <2>3. QED BY <2>1, <2>2
<1>10. \A w \in job.broken : WebConfigFile(w) \in ToSet(A)
  <2> SUFFICES ASSUME NEW w \in job.broken PROVE WebConfigFile(w) \in ToSet(A)
    OBVIOUS
  <2>1. w \in ToSet(job.webConfigs)
    BY JobFacts
  <2>2. job.webConfigs # <<>>
    BY <2>1 DEF ToSet
  <2>3. isIis
    BY <2>2, JobFacts
  <2>4. QED BY <1>5, <1>7, <2>1, <2>3
<1>11. \A p \in ToSet(A) : p \in PassItem /\ p.places = {} => p = EmptyContext /\ isApache
  <2> SUFFICES ASSUME NEW p \in ToSet(A), p \in PassItem, p.places = {}
               PROVE  p = EmptyContext /\ isApache
    OBVIOUS
  <2>1. /\ p # LocalPass(Stage, {"main"}) /\ p # UniversalPass({"main"})
        /\ p # LocalPass({"ast"}, {"main"})
    BY DEF LocalPass, UniversalPass, Pass
  <2>2. p.kind = "pass"
    BY DEF PassItem
  <2>3. \A w : p # WebConfigFile(w)
    BY <2>2 DEF WebConfigFile
  <2>4. p \in ToSet(ctx) /\ isApache
    BY <1>2, <1>5, <1>7, <2>1, <2>3
  <2>5. PICK i \in DOMAIN job.contexts : p = ContextPass(i)
    BY <1>4, <2>4
  <2>6. p = EmptyContext
    BY <2>5 DEF ContextPass, EmptyContext, LocalPass, Pass
  <2>7. QED BY <2>4, <2>6
<1>12. QED BY <1>7, <1>8, <1>9, <1>10, <1>11 DEF A

(***************************************************************************)
(* What a step that leaves some variables alone leaves alone.              *)
(***************************************************************************)
\* What only depends on the target.
LEMMA JobFrame ==
    ASSUME job' = job
    PROVE  /\ \A r : /\ ForThis(r)' <=> ForThis(r)
                     /\ Allowed(r)' <=> Allowed(r)
                     /\ PerContext(r)' <=> PerContext(r)
                     /\ Dropped(r)' <=> Dropped(r)
           /\ \A i : ContextPass(i)' = ContextPass(i)
<1>1. \A r : ForThis(r)' <=> ForThis(r)
  BY DEF ForThis
<1>2. \A r : Allowed(r)' <=> Allowed(r)
  BY <1>1 DEF Allowed
<1>3. \A r : PerContext(r)' <=> PerContext(r)
  BY <1>2 DEF PerContext
<1>4. \A r : Dropped(r)' <=> Dropped(r)
  BY DEF Dropped
<1>5. \A i : ContextPass(i)' = ContextPass(i)
  BY DEF ContextPass, LocalPass, Pass
<1>6. QED BY <1>1, <1>2, <1>3, <1>4, <1>5

\* What only depends on the invocations.
LEMMA CallsFrame ==
    ASSUME calls' = calls
    PROVE  /\ Crashes' = Crashes
           /\ \A r : Visited(r)' = Visited(r) /\ CrashedIn(r)' = CrashedIn(r)
BY DEF Crashes, Crash, Visited, CrashedIn

\* The issues of a result that was not given up are warnings.
LEMMA WarningsOnly ==
    ASSUME NEW S, S \subseteq Crashes \cup {Unusable(w) : w \in job.broken}
    PROVE  ~(\E i \in S : i.level = "error")
BY DEF Crashes, Crash, Unusable, Issue

(***************************************************************************)
(* The beginning and the ends of an analysis.                              *)
(***************************************************************************)
\* ExecutionRecorder.__init__: nothing is selected.
LEMMA EmptySound ==
    /\ SoundRecorder(EmptyRecorder) /\ SelectedSet(EmptyRecorder) = {}
    /\ Unselected(EmptyRecorder) = {} /\ Missing(EmptyRecorder) = {}
    /\ \A r \in Rule : EmptyRecorder.terminal[r] = NoEvent
<1>1. EmptyRecorder.selected = <<>> /\ EmptyRecorder.terminal = [r \in Rule |-> NoEvent]
  BY DEF EmptyRecorder
<1>2. \A r \in Rule : EmptyRecorder.terminal[r] = NoEvent
  BY <1>1
<1>3. SelectedSet(EmptyRecorder) = {} /\ SelectedOnce(EmptyRecorder)
  BY <1>1 DEF SelectedSet, SelectedOnce
<1>4. EmptyRecorder \in RecorderValue
  BY DEF RecorderValue, EmptyRecorder
<1>5. SoundRecorder(EmptyRecorder)
  BY <1>2, <1>3, <1>4 DEF SoundRecorder
<1>6. Unselected(EmptyRecorder) = {} /\ Missing(EmptyRecorder) = {}
  BY <1>2, <1>3 DEF Unselected, Missing
<1>7. QED BY <1>2, <1>3, <1>5, <1>6

\* Before an analysis there is nothing to be wrong about.
LEMMA InitIInv == Init => IInv
<1> SUFFICES ASSUME Init PROVE IInv
  OBVIOUS
<1>1. /\ phase = "idle" /\ job \in Jobs /\ agenda = <<>> /\ queue = {} /\ pass = NoPass
      /\ visit = 0 /\ recorder = EmptyRecorder /\ issues = {} /\ findings = {}
      /\ calls = {} /\ hit = {} /\ manifest = NoManifest
      /\ loaded \in {{}, {"external"}, Packages}
  BY DEF Init
<1>2. /\ Unselected(recorder) = {} /\ Missing(recorder) = {}
      /\ \A r \in Rule : recorder.terminal[r].state = "none"
  BY <1>1, EmptySound DEF NoEvent
<1>3. Shape
  <2>1. loaded \subseteq Packages
    BY <1>1 DEF Packages
  <2>2. agenda \in Seq(Item)
    BY <1>1
  <2>3. QED BY <1>1, <2>1, <2>2, EmptySound DEF Shape
<1>4. ~Discarded /\ Crashes = {} /\ Ahead = {} /\ \A r : Visited(r) = {} /\ CrashedIn(r) = {}
  BY <1>1 DEF Discarded, Crashes, Ahead, ToSet, Visited, CrashedIn
<1>5. Resting /\ Invocable /\ Owed
  BY <1>1, <1>4 DEF Resting, Invocable, Owed
<1>6. Recorded /\ Reasoned
  BY <1>1, <1>2, <1>4 DEF Recorded, Reasoned
<1>7. Issued /\ Found
  BY <1>1, <1>4 DEF Issued, Found
<1>8. QED BY <1>3, <1>5, <1>6, <1>7 DEF IInv

\* analyze_*_config: the agenda it begins with owes everything.
LEMMA BeginPreserves == ASSUME IInv, Begin PROVE IInv'
<1>1. /\ phase = "idle" /\ phase' = "running" /\ agenda' = AgendaFor(job)
      /\ UNCHANGED <<job, pass, visit, queue, recorder, issues, findings, manifest,
                     loaded, calls, hit>>
  BY DEF Begin
<1>2. /\ Shape /\ Resting /\ Recorded /\ Reasoned /\ Issued /\ Found /\ job \in Jobs
      /\ queue = {}
  BY <1>1 DEF IInv, Shape, Resting
<1>3. /\ agenda' \in Seq(Item)
      /\ \A r \in Rule : ForThis(r) => \E p \in Ahead' : Selects(p, r)
      /\ \A i \in DOMAIN job.contexts : ContextPass(i) \in Ahead'
      /\ \A w \in job.broken : WebConfigFile(w) \in Ahead'
      /\ \A p \in Ahead' : p \in PassItem /\ p.places = {} =>
                               p = EmptyContext /\ job.server = "apache"
  BY <1>1, <1>2, AgendaFacts DEF Ahead
<1>4. /\ Discarded' <=> Discarded
      /\ \A i : ContextPass(i)' = ContextPass(i)
      /\ \A r : (ForThis(r)' <=> ForThis(r)) /\ (PerContext(r)' <=> PerContext(r))
                /\ (Dropped(r)' <=> Dropped(r))
      /\ Crashes' = Crashes
      /\ \A r : Visited(r)' = Visited(r) /\ CrashedIn(r)' = CrashedIn(r)
  BY <1>1, JobFrame, CallsFrame DEF Discarded
<1>5. Shape'
  BY <1>1, <1>2, <1>3 DEF Shape
<1>6. Resting'
  BY <1>1, <1>2 DEF Resting
<1>7. Invocable'
  BY <1>1, <1>2, <1>3 DEF Invocable
<1>8. Recorded'
  BY <1>1, <1>2, <1>4 DEF Recorded
<1>9. Reasoned'
  BY <1>1, <1>2, <1>4 DEF Reasoned
<1>10. Owed'
  BY <1>1, <1>3, <1>4 DEF Owed
<1>11. ~Discarded
  BY <1>1, <1>2 DEF Resting, Discarded
<1>12. Issued'
  BY <1>1, <1>2, <1>4, <1>11 DEF Issued
<1>13. Found'
  BY <1>1, <1>2, <1>4 DEF Found
<1>14. QED BY <1>5, <1>6, <1>7, <1>8, <1>9, <1>10, <1>12, <1>13 DEF IInv

\* A step that changes at most the phase to "raised" disturbs nothing.
LEMMA RaisedPreserves ==
    ASSUME IInv, queue = {}, phase \in {"idle", "running"}, phase' \in {"raised"},
           UNCHANGED <<job, agenda, pass, visit, queue, recorder, issues, findings,
                       manifest, loaded, calls, hit>>
    PROVE  IInv'
<1>1. Shape /\ Resting /\ Invocable /\ Recorded /\ Reasoned /\ Issued /\ Found
  BY DEF IInv
<1>2. ~Discarded
  BY <1>1 DEF Issued
<1>3. /\ Discarded' <=> Discarded
      /\ Ahead' = Ahead
      /\ \A r : /\ ForThis(r)' <=> ForThis(r)
                /\ Allowed(r)' <=> Allowed(r)
                /\ PerContext(r)' <=> PerContext(r)
                /\ Dropped(r)' <=> Dropped(r)
      /\ Crashes' = Crashes
      /\ \A r : Visited(r)' = Visited(r) /\ CrashedIn(r)' = CrashedIn(r)
  BY JobFrame, CallsFrame DEF Discarded, Ahead
<1>4. Shape'
  BY <1>1 DEF Shape
<1>5. Resting'
  BY <1>1 DEF Resting
<1>6. Invocable'
  BY <1>1, <1>3 DEF Invocable
<1>7. Recorded'
  BY <1>1, <1>3 DEF Recorded
<1>8. Reasoned'
  BY <1>1, <1>3 DEF Reasoned
<1>9. Owed'
  BY DEF Owed
<1>10. Issued'
  BY <1>1, <1>2, <1>3 DEF Issued
<1>11. Found'
  BY <1>1, <1>3 DEF Found
<1>12. QED BY <1>4, <1>5, <1>6, <1>7, <1>8, <1>9, <1>10, <1>11 DEF IInv

\* Loading or reading raises: only the phase changes.
LEMMA EscapesPreserve ==
    ASSUME IInv, DecodeErrorEscapes \/ WebConfigUndecodable
    PROVE  IInv'
<1>1. CASE DecodeErrorEscapes
  BY <1>1, RaisedPreserves DEF DecodeErrorEscapes, IInv, Resting
<1>2. CASE WebConfigUndecodable
  BY <1>2, RaisedPreserves DEF WebConfigUndecodable
<1>3. QED BY <1>1, <1>2

\* An analysis given up: one error, no findings, a recorder that knows nothing.
LEMMA GivenUpPreserves ==
    ASSUME IInv, NEW i, phase' = "attach", issues' = {i}, i.level = "error",
           findings' = {}, recorder' = EmptyRecorder, manifest' = NoManifest,
           queue' = {}, agenda' = <<>>,
           UNCHANGED <<job, pass, visit, loaded, calls, hit>>
    PROVE  IInv'
<1>1. Shape
  BY DEF IInv
<1>2. /\ SoundRecorder(recorder') /\ Unselected(recorder') = {} /\ Missing(recorder') = {}
      /\ \A r \in Rule : recorder'.terminal[r] = NoEvent
  BY EmptySound
<1>3. Discarded' /\ Ahead' = {}
  BY DEF Discarded, Ahead, ToSet
<1>4. Shape'
  <2>1. <<>> \in Seq(Item)
    OBVIOUS
  <2>2. QED BY <1>1, <1>2, <2>1 DEF Shape
<1>5. Resting' /\ Invocable' /\ Owed' /\ Issued'
  BY <1>3 DEF Resting, Invocable, Owed, Issued
<1>6. Recorded' /\ Reasoned'
  BY <1>2, <1>3 DEF Recorded, Reasoned, NoEvent
<1>7. Found'
  BY <1>3 DEF Found
<1>8. QED BY <1>4, <1>5, <1>6, <1>7 DEF IInv

\* A generic failure discards what was found; the error it reports tells so.
LEMMA GivingUpPreserves ==
    ASSUME IInv, ConfigUnusable \/ SnapshotUnusable
    PROVE  IInv'
<1>1. Resting
  BY DEF IInv
<1>2. CASE ConfigUnusable
  <2>1. agenda' = <<>> /\ queue' = {} /\ recorder' = EmptyRecorder /\ findings' = {}
        /\ manifest' = NoManifest
    BY <1>1, <1>2 DEF ConfigUnusable, Resting
  <2> DEFINE i == Issue("error", "config", <<job.server>>)
  <2>2. i.level = "error"
    BY DEF Issue
  <2>3. issues' = {i} /\ phase' = "attach" /\ UNCHANGED <<job, pass, visit, loaded, calls, hit>>
    BY <1>2 DEF ConfigUnusable
  <2>4. QED BY <2>1, <2>2, <2>3, GivenUpPreserves
<1>3. CASE SnapshotUnusable
  <2>1. agenda' = <<>> /\ queue' = {} /\ manifest' = NoManifest
    BY <1>1, <1>3 DEF SnapshotUnusable, AllPassesDone, Resting
  <2> DEFINE i == Issue("error", "apache_module_snapshot", <<job.server>>)
  <2>2. i.level = "error"
    BY DEF Issue
  <2>3. /\ issues' = {i} /\ phase' = "attach" /\ findings' = {} /\ recorder' = EmptyRecorder
        /\ UNCHANGED <<job, pass, visit, loaded, calls, hit>>
    BY <1>3 DEF SnapshotUnusable, RecorderOfErrorResult
  <2>4. QED BY <2>1, <2>2, <2>3, GivenUpPreserves
<1>4. QED BY <1>2, <1>3

\* The assessments of nginx only remove findings of the rules they answer.
LEMMA FinishPreserves == ASSUME IInv, Finish PROVE IInv'
<1>1. PICK kept \in SUBSET {f \in findings : f[1] \in job.answered} :
         findings' = kept \cup {f \in findings : f[1] \notin job.answered}
  BY DEF Finish
<1>2. /\ phase = "running" /\ phase' = "attach" /\ queue = {} /\ agenda = <<>>
      /\ UNCHANGED <<job, agenda, pass, visit, queue, recorder, issues, manifest,
                     loaded, calls, hit>>
  BY DEF Finish, AllPassesDone
<1>3. Shape /\ Resting /\ Invocable /\ Recorded /\ Reasoned /\ Owed /\ Issued /\ Found
  BY DEF IInv
<1>4. /\ findings' \subseteq findings
      /\ \A f \in findings : f[1] \notin job.answered => f \in findings'
  BY <1>1
<1>5. ~Discarded
  BY <1>2, <1>3 DEF Issued
<1>6. /\ Discarded' <=> Discarded
      /\ Ahead' = Ahead
      /\ \A r : /\ ForThis(r)' <=> ForThis(r)
                /\ Allowed(r)' <=> Allowed(r)
                /\ PerContext(r)' <=> PerContext(r)
                /\ Dropped(r)' <=> Dropped(r)
      /\ \A i : ContextPass(i)' = ContextPass(i)
      /\ Crashes' = Crashes
      /\ \A r : Visited(r)' = Visited(r) /\ CrashedIn(r)' = CrashedIn(r)
  BY <1>2, JobFrame, CallsFrame DEF Discarded, Ahead
<1>7. Shape' /\ Resting'
  BY <1>2, <1>3, <1>4 DEF Shape, Resting
<1>8. Invocable'
  BY <1>2, <1>3, <1>6 DEF Invocable
<1>9. Recorded' /\ Reasoned'
  BY <1>2, <1>3, <1>6 DEF Recorded, Reasoned
<1>10. Owed'
  BY <1>2, <1>3, <1>6 DEF Owed
<1>11. Issued'
  BY <1>2, <1>3, <1>5, <1>6 DEF Issued
<1>12. Found'
  <2>1. \A f \in findings' : Visited(f[1])' # {} /\ <<f[1], f[2]>> \in hit'
    BY <1>2, <1>3, <1>4, <1>6 DEF Found
  <2>2. \A f, g \in findings' :
           f[1] = g[1] /\ f[2] = g[2] /\ StageOf[f[1]] \in {"htaccess", "mixed"} => f = g
    BY <1>3, <1>4 DEF Found
  <2>3. \A h \in hit : (\E f \in findings' : <<f[1], f[2]>> = h) \/ Dropped(h[1])
                       \/ h[1] \in job.answered
    BY <1>3, <1>4, <1>5 DEF Found
  <2>4. QED BY <1>2, <1>6, <2>1, <2>2, <2>3 DEF Found
<1>13. QED BY <1>7, <1>8, <1>9, <1>10, <1>11, <1>12 DEF IInv

(***************************************************************************)
(* The beginning of a pass.                                                *)
(***************************************************************************)
\* A skip never hides what a rule did, and is never lost on a rule without an event.
LEMMA SkipEffect ==
    ASSUME NEW r \in Rule, NEW held \in EventOf(r) \cup {NoEvent}, NEW reason \in Reason
    PROVE  LET e == Reduce(held, Skipped(reason)) IN
           /\ e \in EventOf(r) /\ e # NoEvent
           /\ e.state = "failed" <=> held.state = "failed"
           /\ e.state = "completed" <=> held.state = "completed"
           /\ e.state = "skipped" => e = held \/ e = Skipped(reason)
<1>1. Skipped(reason) \in EventOf(r) /\ Skipped(reason).state = "skipped"
  BY DEF EventOf, Skipped
<1> DEFINE e == Reduce(held, Skipped(reason))
<1>2. /\ e \in EventOf(r) /\ e \in {held, Skipped(reason)}
      /\ held.state \in {"failed", "completed"} => e = held
      /\ held.state \in {"none", "skipped"} => e.state = "skipped"
  BY <1>1, ReduceStates
<1>3. e # NoEvent
  BY <1>2, EventStates
<1>4. held.state \in {"none", "skipped", "failed", "completed"}
  BY EventStates DEF NoEvent
<1> HIDE DEF e
<1>5. QED BY <1>2, <1>3, <1>4 DEF e

\* Skipping all rules of a set for one reason selects them all.
LEMMA SkipAllAdds ==
    ASSUME NEW R, SoundRecorder(R), NEW rules \in SUBSET Rule, NEW reason \in Reason
    PROVE  /\ SoundRecorder(SkipAll(R, rules, reason))
           /\ SelectedSet(SkipAll(R, rules, reason)) = SelectedSet(R) \cup rules
           /\ \A r \in Rule : SkipAll(R, rules, reason).terminal[r] =
                 IF r \in rules THEN Reduce(R.terminal[r], Skipped(reason)) ELSE R.terminal[r]
<1> DEFINE why == [r \in Rule |-> reason]
           S == SkipEach(R, RunOrder, rules, why)
<1>1. Enumerates(RunOrder, rules)
  BY RegistryAssumption DEF RegistryAssumption, Enumerates
<1>2. \A r \in Rule : why[r] = reason /\ why[r] \in Reason
  OBVIOUS
<1>3. SkipAll(R, rules, reason) = S
  BY DEF SkipAll
<1> HIDE DEF why, S
<1>4. /\ SoundRecorder(S)
      /\ SelectedSet(S) = SelectedSet(R) \cup rules
      /\ \A r \in Rule : S.terminal[r] = IF r \in rules
                                          THEN Reduce(R.terminal[r], Skipped(why[r]))
                                          ELSE R.terminal[r]
  BY <1>1, <1>2, SkipEachAdds DEF S
<1>5. QED BY <1>2, <1>3, <1>4

\* select_many at the start of a pass selects all rules of it.
LEMMA PassSelects ==
    ASSUME NEW R, SoundRecorder(R), NEW rules \in SUBSET Rule
    PROVE  LET S == SelectMany(R, RunOrder, rules) IN
           /\ SoundRecorder(S) /\ S.terminal = R.terminal
           /\ SelectedSet(S) = SelectedSet(R) \cup rules
<1> DEFINE S == SelectMany(R, RunOrder, rules)
<1>1. Enumerates(RunOrder, rules)
  BY RegistryAssumption DEF RegistryAssumption, Enumerates
<1>2. /\ S \in RecorderValue /\ S.terminal = R.terminal
      /\ SelectedSet(S) = SelectedSet(R) \cup rules /\ SelectedOnce(S)
  BY <1>1, SelectManyAdds
<1> HIDE DEF S
<1>3. SoundRecorder(S)
  BY <1>2 DEF SoundRecorder
<1>4. QED BY <1>2, <1>3 DEF S

\* What the head of a runner leaves in the recorder.
LEMMA PassOpens ==
    ASSUME SoundRecorder(recorder), BeginPass, NEW p, p = Head(agenda)
    PROVE  LET entries == Entries(p, PassPackages(p)) IN
           /\ SoundRecorder(recorder')
           /\ SelectedSet(recorder') = SelectedSet(recorder) \cup entries
           /\ \A r \in Rule : recorder'.terminal[r] =
                 IF r \in OptedOut(entries)
                 THEN Reduce(recorder.terminal[r], Skipped("opt-in-not-selected"))
                 ELSE IF r \in Runnable(entries) /\ p.places = {}
                 THEN Reduce(recorder.terminal[r], Skipped("input-unavailable"))
                 ELSE recorder.terminal[r]
<1> DEFINE entries == Entries(p, PassPackages(p))
           many == SelectMany(recorder, RunOrder, entries)
           opened == SkipAll(many, OptedOut(entries), "opt-in-not-selected")
           all == SkipAll(opened, Runnable(entries), "input-unavailable")
<1>1. recorder' = IF p.places = {} THEN all ELSE opened
  BY DEF BeginPass, SkipsOfEmptyContext
<1>2. /\ entries \in SUBSET Rule /\ OptedOut(entries) \in SUBSET Rule
      /\ Runnable(entries) \in SUBSET Rule
      /\ OptedOut(entries) \subseteq entries /\ Runnable(entries) \subseteq entries
      /\ OptedOut(entries) \cap Runnable(entries) = {}
  BY DEF Entries, OptedOut, Runnable
<1> HIDE DEF entries
<1>3. /\ SoundRecorder(many) /\ many.terminal = recorder.terminal
      /\ SelectedSet(many) = SelectedSet(recorder) \cup entries
  BY <1>2, PassSelects
<1> HIDE DEF many
<1>4. /\ SoundRecorder(opened)
      /\ SelectedSet(opened) = SelectedSet(many) \cup OptedOut(entries)
      /\ \A r \in Rule : opened.terminal[r] =
            IF r \in OptedOut(entries)
            THEN Reduce(many.terminal[r], Skipped("opt-in-not-selected")) ELSE many.terminal[r]
  BY <1>2, <1>3, SkipAllAdds DEF Reason
<1> HIDE DEF opened
<1>5. /\ SoundRecorder(all)
      /\ SelectedSet(all) = SelectedSet(opened) \cup Runnable(entries)
      /\ \A r \in Rule : all.terminal[r] =
            IF r \in Runnable(entries)
            THEN Reduce(opened.terminal[r], Skipped("input-unavailable")) ELSE opened.terminal[r]
  BY <1>2, <1>4, SkipAllAdds DEF Reason
<1> HIDE DEF all
<1>6. SoundRecorder(recorder')
  BY <1>1, <1>4, <1>5
<1>7. SelectedSet(recorder') = SelectedSet(recorder) \cup entries
  BY <1>1, <1>2, <1>3, <1>4, <1>5
<1>8. ASSUME NEW r \in Rule
      PROVE  recorder'.terminal[r] =
                 IF r \in OptedOut(entries)
                 THEN Reduce(recorder.terminal[r], Skipped("opt-in-not-selected"))
                 ELSE IF r \in Runnable(entries) /\ p.places = {}
                 THEN Reduce(recorder.terminal[r], Skipped("input-unavailable"))
                 ELSE recorder.terminal[r]
  BY <1>1, <1>2, <1>3, <1>4, <1>5
<1>9. QED BY <1>6, <1>7, <1>8 DEF entries

\* A runner's head selects what its pass is for and answers at once for the rules it
\* may not run.
LEMMA BeginPassPreserves == ASSUME IInv, BeginPass PROVE IInv'
<1> DEFINE p == Head(agenda)
           entries == Entries(p, PassPackages(p))
           runnable == Runnable(entries)
           opted == OptedOut(entries)
<1>1. /\ phase = "running" /\ queue = {} /\ agenda # <<>> /\ p.kind = "pass"
      /\ pass' = p /\ queue' = IF p.places = {} THEN {} ELSE runnable
      /\ loaded' = PassPackages(p) /\ visit' = visit + 1 /\ agenda' = Tail(agenda)
      /\ UNCHANGED <<phase, job, issues, findings, manifest, calls, hit>>
  BY DEF BeginPass
<1>2. Shape /\ Resting /\ Invocable /\ Recorded /\ Reasoned /\ Owed /\ Issued /\ Found
  BY DEF IInv
<1>3. ~Discarded
  BY <1>1, <1>2 DEF Issued
<1>4. p \in Item /\ agenda' \in Seq(Item) /\ Ahead = {p} \cup Ahead'
  BY <1>1, <1>2, ToSetTail DEF Shape, Ahead
<1>5. p \in PassItem
  BY <1>1, <1>4 DEF Item, FileItem
<1>6. /\ entries \subseteq Rule /\ runnable \subseteq entries /\ opted \subseteq entries
      /\ \A r \in entries : /\ Category[r] = p.category /\ StageOf[r] \in p.stages
                            /\ p.category = Local => ServerOf[r] = job.server
                            /\ r \in opted <=> (r \in OptIn /\ ~job.review)
                            /\ r \in runnable <=> (r \in OptIn => job.review)
  BY DEF Entries, Runnable, OptedOut
<1>7. \A r \in Rule : ForThis(r) /\ Selects(p, r) => r \in entries
  BY DEF Entries, Selects, ForThis, InCatalog, PackageOf, PassPackages, Local
<1>8. \A r \in runnable : Allowed(r)
  BY <1>5, <1>6 DEF Allowed, ForThis, PassItem
<1>9. /\ SoundRecorder(recorder')
      /\ SelectedSet(recorder') = SelectedSet(recorder) \cup entries
      /\ \A r \in Rule : recorder'.terminal[r] =
            IF r \in opted THEN Reduce(recorder.terminal[r], Skipped("opt-in-not-selected"))
            ELSE IF r \in runnable /\ p.places = {}
            THEN Reduce(recorder.terminal[r], Skipped("input-unavailable"))
            ELSE recorder.terminal[r]
  BY <1>2, PassOpens DEF Shape
<1> HIDE DEF p, entries, runnable, opted
<1>10. ASSUME NEW r \in Rule
       PROVE  LET held == recorder.terminal[r]
                  new == recorder'.terminal[r]
              IN /\ held # NoEvent => new # NoEvent
                 /\ new # NoEvent => held # NoEvent \/ r \in entries
                 /\ r \in opted \/ (r \in runnable /\ p.places = {}) => new # NoEvent
                 /\ new.state = "failed" <=> held.state = "failed"
                 /\ new.state = "completed" <=> held.state = "completed"
                 /\ new.state = "skipped" =>
                       \/ new = held
                       \/ r \in opted /\ new = Skipped("opt-in-not-selected")
                       \/ /\ r \in runnable /\ p.places = {}
                          /\ new = Skipped("input-unavailable")
  <2>1. recorder.terminal[r] \in EventOf(r) \cup {NoEvent}
    BY <1>2 DEF Shape, SoundRecorder
  <2>2. CASE r \in opted
    BY <1>6, <1>9, <2>1, <2>2, SkipEffect DEF Reason
  <2>3. CASE r \notin opted /\ r \in runnable /\ p.places = {}
    BY <1>6, <1>9, <2>1, <2>3, SkipEffect DEF Reason
  <2>4. CASE r \notin opted /\ ~(r \in runnable /\ p.places = {})
    BY <1>9, <2>4
  <2>5. QED BY <2>2, <2>3, <2>4
<1>11. /\ Discarded' <=> Discarded
       /\ \A r : /\ ForThis(r)' <=> ForThis(r)
                 /\ Allowed(r)' <=> Allowed(r)
                 /\ PerContext(r)' <=> PerContext(r)
                 /\ Dropped(r)' <=> Dropped(r)
       /\ \A i : ContextPass(i)' = ContextPass(i)
       /\ Crashes' = Crashes
       /\ \A r : Visited(r)' = Visited(r) /\ CrashedIn(r)' = CrashedIn(r)
  BY <1>1, JobFrame, CallsFrame DEF Discarded
<1>12. Shape'
  <2>1. loaded' \subseteq Packages
    BY <1>1, <1>2, <1>5, JobFacts DEF Shape, PassPackages, Packages
  <2>2. queue' \subseteq Rule
    BY <1>1, <1>6
  <2>3. QED BY <1>1, <1>2, <1>4, <1>5, <1>9, <2>1, <2>2 DEF Shape
<1>13. Resting'
  BY <1>1, <1>2 DEF Resting
<1>14. Invocable'
  BY <1>1, <1>2, <1>4, <1>8, <1>11 DEF Invocable
<1>15. Recorded'
  <2>1. \A r \in Rule : recorder.terminal[r] # NoEvent => r \in SelectedSet(recorder)
    BY <1>2 DEF Recorded, Unselected
  <2>2. Unselected(recorder') = {}
    BY <1>9, <1>10, <2>1 DEF Unselected
  <2>3. SelectedSet(recorder) \subseteq Rule
    BY <1>2 DEF Shape, SoundRecorder, RecorderValue, SelectedSet
  <2>4. \A r \in SelectedSet(recorder) : recorder.terminal[r] # NoEvent
    BY <1>1, <1>2 DEF Recorded, Missing
  <2>5. Missing(recorder') \subseteq queue'
    <3> SUFFICES ASSUME NEW r \in SelectedSet(recorder'), recorder'.terminal[r] = NoEvent
                 PROVE  r \in queue'
      BY DEF Missing
    <3>1. r \in Rule
      BY <1>6, <1>9, <2>3
    <3>2. r \in entries /\ r \notin opted /\ ~(r \in runnable /\ p.places = {})
      BY <1>9, <1>10, <2>4, <3>1
    <3>3. QED BY <1>1, <1>6, <3>2
  <2>6. \A r \in Rule :
        /\ recorder'.terminal[r].state = "failed" <=> CrashedIn(r) # {}
        /\ recorder'.terminal[r].state = "completed" <=> Visited(r) # {} /\ CrashedIn(r) = {}
    BY <1>2, <1>3, <1>10 DEF Recorded
  <2>7. QED BY <1>11, <2>2, <2>5, <2>6 DEF Recorded
<1>16. Reasoned'
  <2> SUFFICES ASSUME NEW r \in Rule, recorder'.terminal[r].state = "skipped"
               PROVE  LET reason == recorder'.terminal[r].detail IN
                      /\ reason = "opt-in-not-selected" => r \in OptIn /\ ~job.review
                      /\ reason = "mode-incompatible"   => Category[r] = "external"
                      /\ reason = "server-incompatible" => ServerOf[r] \notin {job.server, "any"}
                      /\ reason = "prerequisite-failed" => r \in job.lacking
                      /\ reason = "input-unavailable"   => PerContext(r)
    BY <1>1, <1>11 DEF Reasoned
  <2>1. CASE recorder'.terminal[r] = recorder.terminal[r]
    BY <1>1, <1>2, <1>3, <2>1 DEF Reasoned
  <2>2. CASE r \in opted /\ recorder'.terminal[r] = Skipped("opt-in-not-selected")
    BY <1>6, <2>2 DEF Skipped
  <2>3. CASE r \in runnable /\ p.places = {}
             /\ recorder'.terminal[r] = Skipped("input-unavailable")
    <3>1. p = EmptyContext /\ job.server = "apache"
      BY <1>2, <1>4, <1>5, <2>3 DEF Invocable
    <3>2. Category[r] = Local /\ StageOf[r] \in {"htaccess", "mixed"}
      BY <1>6, <2>3, <3>1 DEF EmptyContext, LocalPass, Pass
    <3>3. PerContext(r)
      BY <1>8, <2>3, <3>1, <3>2 DEF PerContext
    <3>4. QED BY <2>3, <3>3 DEF Skipped
  <2>4. QED BY <1>10, <2>1, <2>2, <2>3
<1>17. Owed'
  <2>1. ASSUME NEW r \in Rule, ForThis(r)
        PROVE  r \in SelectedSet(recorder') \/ \E q \in Ahead' : Selects(q, r)
    BY <1>1, <1>2, <1>3, <1>4, <1>7, <1>9, <2>1 DEF Owed
  <2>2. ASSUME NEW i \in DOMAIN job.contexts, NEW r \in Rule, PerContext(r),
               job.contexts[i] # {}
        PROVE  Visited(r) # {} \/ r \in queue' \/ ContextPass(i) \in Ahead'
    <3>1. CASE Visited(r) # {} \/ ContextPass(i) \in Ahead'
      BY <3>1
    <3>2. CASE ContextPass(i) = p
      <4>1. p.places = job.contexts[i] /\ p.category = Local /\ p.stages = {"htaccess", "mixed"}
        BY <3>2 DEF ContextPass, LocalPass, Pass
      <4>2. Selects(p, r) /\ ForThis(r) /\ Allowed(r)
        BY <1>5, <2>2, <4>1 DEF Selects, PerContext, Allowed
      <4>3. r \in runnable
        BY <1>6, <1>7, <4>2 DEF Allowed
      <4>4. QED BY <1>1, <2>2, <4>1, <4>3
    <3>3. QED BY <1>1, <1>2, <1>3, <1>4, <2>2, <3>1, <3>2 DEF Owed
  <2>3. ASSUME NEW w \in job.broken
        PROVE  Unusable(w) \in issues \/ WebConfigFile(w) \in Ahead'
    <3>1. WebConfigFile(w) # p
      BY <1>1 DEF WebConfigFile
    <3>2. QED BY <1>1, <1>2, <1>3, <1>4, <3>1 DEF Owed
  <2>4. QED BY <1>1, <1>11, <2>1, <2>2, <2>3 DEF Owed
<1>18. Issued'
  BY <1>1, <1>2, <1>3, <1>11 DEF Issued
<1>19. Found'
  BY <1>1, <1>2, <1>11 DEF Found
<1>20. QED BY <1>12, <1>13, <1>14, <1>15, <1>16, <1>17, <1>18, <1>19 DEF IInv

(***************************************************************************)
(* One rule of a pass.                                                     *)
(***************************************************************************)
\* What a report about a rule of the queue does to the recorder.
LEMMA ReportEffect ==
    ASSUME IInv, NEW r \in queue, NEW event \in EventOf(r),
           recorder' = Record(recorder, r, event), queue' = queue \ {r}
    PROVE  /\ SoundRecorder(recorder')
           /\ SelectedSet(recorder') = SelectedSet(recorder) \cup {r}
           /\ \A q \in Rule : recorder'.terminal[q] =
                 IF q = r THEN Reduce(recorder.terminal[r], event) ELSE recorder.terminal[q]
           /\ Unselected(recorder') = {}
           /\ Missing(recorder') \subseteq queue'
           /\ r \in Rule /\ recorder.terminal[r] \in EventOf(r) \cup {NoEvent}
<1>1. r \in Rule /\ SoundRecorder(recorder) /\ Unselected(recorder) = {}
      /\ Missing(recorder) \subseteq queue
  BY DEF IInv, Shape, Recorded
<1>2. /\ SoundRecorder(recorder')
      /\ SelectedSet(recorder') = SelectedSet(recorder) \cup {r}
      /\ recorder'.terminal = [recorder.terminal EXCEPT ![r] = Reduce(recorder.terminal[r], event)]
  BY <1>1, RecordAdds
<1>3. recorder.terminal[r] \in EventOf(r) \cup {NoEvent} /\ DOMAIN recorder.terminal = Rule
  BY <1>1 DEF SoundRecorder, RecorderValue
<1>4. \A q \in Rule : recorder'.terminal[q] =
         IF q = r THEN Reduce(recorder.terminal[r], event) ELSE recorder.terminal[q]
  BY <1>2, <1>3
<1>5. Reduce(recorder.terminal[r], event) # NoEvent
  <2>1. Reduce(recorder.terminal[r], event) \in EventOf(r)
    BY <1>1, <1>3, ReduceStates
  <2>2. QED BY <1>1, <2>1, EventStates
<1>6. Unselected(recorder') = {}
  BY <1>1, <1>2, <1>4 DEF Unselected
<1>7. Missing(recorder') \subseteq queue'
  <2>1. SelectedSet(recorder) \subseteq Rule
    BY <1>1 DEF SoundRecorder, RecorderValue, SelectedSet
  <2>2. QED BY <1>1, <1>2, <1>4, <1>5, <2>1 DEF Missing
<1>8. QED BY <1>1, <1>2, <1>3, <1>4, <1>6, <1>7

\* A rule whose directive the configuration lacks is skipped and leaves the queue.
LEMMA SkipForPrerequisitePreserves ==
    ASSUME IInv, NEW r \in Rule, SkipForPrerequisite(r)
    PROVE  IInv'
<1>1. /\ r \in queue /\ LacksDirective(r)
      /\ recorder' = Record(recorder, r, Skipped("prerequisite-failed"))
      /\ queue' = queue \ {r}
      /\ UNCHANGED <<phase, job, agenda, pass, visit, issues, findings, manifest,
                     loaded, calls, hit>>
  BY DEF SkipForPrerequisite, Turn
<1>2. Shape /\ Resting /\ Invocable /\ Recorded /\ Reasoned /\ Owed /\ Issued /\ Found
  BY DEF IInv
<1>3. phase = "running" /\ ~Discarded
  BY <1>1, <1>2 DEF Resting, Issued, Shape
<1>4. r \in job.lacking /\ job.server = "nginx"
  BY <1>1, <1>2, JobFacts DEF LacksDirective, Shape
<1>5. Skipped("prerequisite-failed") \in EventOf(r)
  BY DEF EventOf, Reason
<1>6. /\ SoundRecorder(recorder')
      /\ SelectedSet(recorder') = SelectedSet(recorder) \cup {r}
      /\ \A q \in Rule : recorder'.terminal[q] =
            IF q = r THEN Reduce(recorder.terminal[r], Skipped("prerequisite-failed"))
            ELSE recorder.terminal[q]
      /\ Unselected(recorder') = {} /\ Missing(recorder') \subseteq queue'
      /\ recorder.terminal[r] \in EventOf(r) \cup {NoEvent}
  BY <1>1, <1>5, ReportEffect
<1>7. LET held == recorder.terminal[r]
          new == recorder'.terminal[r]
      IN /\ new.state = "failed" <=> held.state = "failed"
         /\ new.state = "completed" <=> held.state = "completed"
         /\ new.state = "skipped" => new = held \/ new = Skipped("prerequisite-failed")
  BY <1>6, SkipEffect DEF Reason
<1>8. /\ Discarded' <=> Discarded
      /\ Ahead' = Ahead
      /\ \A q : /\ ForThis(q)' <=> ForThis(q)
                /\ Allowed(q)' <=> Allowed(q)
                /\ PerContext(q)' <=> PerContext(q)
                /\ Dropped(q)' <=> Dropped(q)
      /\ \A i : ContextPass(i)' = ContextPass(i)
      /\ Crashes' = Crashes
      /\ \A q : Visited(q)' = Visited(q) /\ CrashedIn(q)' = CrashedIn(q)
  BY <1>1, JobFrame, CallsFrame DEF Discarded, Ahead
<1>9. Shape'
  BY <1>1, <1>2, <1>6 DEF Shape
<1>10. Resting' /\ Invocable'
  BY <1>1, <1>2, <1>3, <1>8 DEF Resting, Invocable
<1>11. Recorded'
  BY <1>2, <1>3, <1>6, <1>7, <1>8 DEF Recorded
<1>12. Reasoned'
  <2>1. Skipped("prerequisite-failed").detail = "prerequisite-failed"
    BY DEF Skipped
  <2>2. QED BY <1>1, <1>2, <1>3, <1>4, <1>6, <1>7, <1>8, <2>1 DEF Reasoned
<1>13. Owed'
  <2>1. \A q \in Rule : ForThis(q) =>
           q \in SelectedSet(recorder') \/ \E p \in Ahead : Selects(p, q)
    BY <1>2, <1>3, <1>6 DEF Owed
  <2>2. \A q : ~PerContext(q)
    BY <1>4 DEF PerContext
  <2>3. \A w \in job.broken : Unusable(w) \in issues \/ WebConfigFile(w) \in Ahead
    BY <1>2, <1>3 DEF Owed
  <2>4. QED BY <1>1, <1>8, <2>1, <2>2, <2>3 DEF Owed
<1>14. Issued' /\ Found'
  BY <1>1, <1>2, <1>3, <1>8 DEF Issued, Found
<1>15. QED BY <1>9, <1>10, <1>11, <1>12, <1>13, <1>14 DEF IInv

\* What an invocation adds to the history, and what its outcome does to the event.
LEMMA CallEffect ==
    ASSUME NEW r, NEW outcome, calls' = calls \cup {<<r, visit, outcome>>}
    PROVE  /\ \A q : Visited(q)' = IF q = r THEN Visited(q) \cup {<<r, visit, outcome>>}
                                   ELSE Visited(q)
           /\ \A q : CrashedIn(q)' = IF q = r /\ outcome = "raised"
                                     THEN CrashedIn(q) \cup {<<r, visit, outcome>>}
                                     ELSE CrashedIn(q)
           /\ Crashes' = IF outcome = "raised" THEN Crashes \cup {Crash(<<r, visit, outcome>>)}
                         ELSE Crashes
<1>1. \A q : Visited(q)' = IF q = r THEN Visited(q) \cup {<<r, visit, outcome>>}
                           ELSE Visited(q)
  BY DEF Visited
<1>2. \A q : CrashedIn(q)' = IF q = r /\ outcome = "raised"
                             THEN CrashedIn(q) \cup {<<r, visit, outcome>>}
                             ELSE CrashedIn(q)
  BY <1>1 DEF CrashedIn
<1>3. Crashes' = IF outcome = "raised" THEN Crashes \cup {Crash(<<r, visit, outcome>>)}
                 ELSE Crashes
  <2> DEFINE new == <<r, visit, outcome>>
             Raised(S) == {c \in S : c[3] = "raised"}
  <2>1. new[3] = outcome
    OBVIOUS
  <2> HIDE DEF new
  <2>2. Raised(calls') = IF outcome = "raised" THEN Raised(calls) \cup {new} ELSE Raised(calls)
    BY <2>1 DEF new
  <2>3. \A c : Crash(c)' = Crash(c)
    BY DEF Crash
  <2>4. Crashes = {Crash(c) : c \in Raised(calls)} /\ Crashes' = {Crash(c) : c \in Raised(calls')}
    BY <2>3 DEF Crashes
  <2> HIDE DEF Raised
  <2>5. QED BY <2>2, <2>4 DEF new
<1>4. QED BY <1>1, <1>2, <1>3

\* What an invocation leaves of a rule's earlier outcome: a failure always stands, and a
\* success is stronger than every reason for skipping.
LEMMA OutcomeEffect ==
    ASSUME NEW r \in Rule, NEW held \in EventOf(r) \cup {NoEvent}
    PROVE  /\ Reduce(held, Failed(r)).state = "failed"
           /\ LET new == Reduce(held, Completed) IN
              /\ new.state = "failed" <=> held.state = "failed"
              /\ new.state = "completed" <=> held.state # "failed"
              /\ new.state # "skipped"
<1>1. Failed(r) \in EventOf(r) /\ Completed \in EventOf(r)
  BY DEF EventOf
<1>2. Reduce(held, Failed(r)) = Failed(r)
  BY <1>1, ReduceStates
<1>3. Reduce(held, Completed) = IF held.state = "failed" THEN held ELSE Completed
  BY <1>1, ReduceStates
<1>4. QED BY <1>2, <1>3 DEF Failed, Completed

\* A rule returns: it is completed unless it failed before, and what it found is kept once.
LEMMA RuleReturnsPreserves ==
    ASSUME IInv, NEW r \in Rule, RuleReturns(r)
    PROVE  IInv'
<1>1. /\ r \in queue
      /\ recorder' = Record(recorder, r, Completed)
      /\ calls' = calls \cup {<<r, visit, "returned">>}
      /\ queue' = queue \ {r}
      /\ UNCHANGED <<phase, job, agenda, pass, visit, issues, manifest, loaded>>
  BY DEF RuleReturns, Turn
<1>2. PICK hits \in SUBSET pass.places :
         /\ findings' = findings \cup Kept(r, hits)
         /\ hit' = hit \cup {<<r, place>> : place \in hits}
  BY DEF RuleReturns
<1>3. Shape /\ Resting /\ Invocable /\ Recorded /\ Reasoned /\ Owed /\ Issued /\ Found
  BY DEF IInv
<1>4. phase = "running" /\ ~Discarded
  BY <1>1, <1>3 DEF Resting, Issued, Shape
<1>5. Completed \in EventOf(r)
  BY DEF EventOf
<1>6. /\ SoundRecorder(recorder')
      /\ SelectedSet(recorder') = SelectedSet(recorder) \cup {r}
      /\ \A q \in Rule : recorder'.terminal[q] =
            IF q = r THEN Reduce(recorder.terminal[r], Completed) ELSE recorder.terminal[q]
      /\ Unselected(recorder') = {} /\ Missing(recorder') \subseteq queue'
      /\ recorder.terminal[r] \in EventOf(r) \cup {NoEvent}
  BY <1>1, <1>5, ReportEffect
<1>7. LET held == recorder.terminal[r]
          new == recorder'.terminal[r]
      IN /\ new.state = "failed" <=> held.state = "failed"
         /\ new.state = "completed" <=> held.state # "failed"
         /\ new.state # "skipped"
  BY <1>6, OutcomeEffect
<1>8. /\ \A q : Visited(q)' = IF q = r THEN Visited(q) \cup {<<r, visit, "returned">>}
                              ELSE Visited(q)
      /\ \A q : CrashedIn(q)' = CrashedIn(q)
      /\ Crashes' = Crashes
  <2> DEFINE outcome == "returned"
  <2>1. outcome # "raised" /\ calls' = calls \cup {<<r, visit, outcome>>}
    BY <1>1
  <2> HIDE DEF outcome
  <2>2. /\ \A q : Visited(q)' = IF q = r THEN Visited(q) \cup {<<r, visit, outcome>>}
                                ELSE Visited(q)
        /\ \A q : CrashedIn(q)' = CrashedIn(q)
        /\ Crashes' = Crashes
    BY <2>1, CallEffect
  <2>3. QED BY <2>2 DEF outcome
<1>9. /\ Discarded' <=> Discarded
      /\ Ahead' = Ahead
      /\ \A q : /\ ForThis(q)' <=> ForThis(q)
                /\ Allowed(q)' <=> Allowed(q)
                /\ PerContext(q)' <=> PerContext(q)
                /\ Dropped(q)' <=> Dropped(q)
      /\ \A i : ContextPass(i)' = ContextPass(i)
  BY <1>1, JobFrame DEF Discarded, Ahead
<1>10. hits \subseteq Place
  BY <1>2, <1>3 DEF Shape, PassItem, NoPass
<1>11. /\ \A f \in Kept(r, hits) :
             f[1] = r /\ f[3] = visit /\ f = <<r, f[2], visit>> /\ f[2] \in hits
       /\ StageOf[r] \in {"htaccess", "mixed"} =>
             \A f \in Kept(r, hits), g \in findings : g[1] = r => g[2] # f[2]
       /\ ~Dropped(r) => \A place \in hits :
             \/ <<r, place, visit>> \in Kept(r, hits)
             \/ \E g \in findings : g[1] = r /\ g[2] = place
  <2> DEFINE known == {f[2] : f \in {g \in findings : g[1] = r}}
             new == IF StageOf[r] \in {"htaccess", "mixed"} THEN hits \ known ELSE hits
             kept == {<<r, place, visit>> : place \in new}
  <2>1. Kept(r, hits) = IF Dropped(r) THEN {} ELSE kept
    BY DEF Kept
  <2>2. /\ \A g \in findings : g[1] = r => g[2] \in known
        /\ \A place \in known : \E g \in findings : g[1] = r /\ g[2] = place
    OBVIOUS
  <2> HIDE DEF known
  <2>3. /\ new \subseteq hits
        /\ StageOf[r] \in {"htaccess", "mixed"} => new \cap known = {}
        /\ \A place \in hits : place \in new \/ place \in known
    OBVIOUS
  <2> HIDE DEF new
  <2>4. /\ \A f \in kept : f[1] = r /\ f[3] = visit /\ f = <<r, f[2], visit>> /\ f[2] \in new
        /\ \A place \in new : <<r, place, visit>> \in kept
    OBVIOUS
  <2> HIDE DEF kept
  <2>5. QED BY <2>1, <2>2, <2>3, <2>4
<1> HIDE DEF Kept
<1>12. Shape'
  <2>1. findings' \subseteq Rule \X Place \X Nat
    <3>1. \A f \in Kept(r, hits) : f \in Rule \X Place \X Nat
      BY <1>3, <1>10, <1>11 DEF Shape
    <3>2. QED BY <1>2, <1>3, <3>1 DEF Shape
  <2>2. hit' \subseteq Rule \X Place
    BY <1>2, <1>3, <1>10 DEF Shape
  <2>3. calls' \subseteq Rule \X Nat \X {"returned", "raised"}
    BY <1>1, <1>3 DEF Shape
  <2>4. QED BY <1>1, <1>3, <1>6, <2>1, <2>2, <2>3 DEF Shape
<1>13. Resting'
  BY <1>1, <1>3, <1>4 DEF Resting
<1>14. Invocable'
  BY <1>1, <1>3, <1>9 DEF Invocable
<1>15. Recorded'
  BY <1>3, <1>4, <1>6, <1>7, <1>8, <1>9 DEF Recorded
<1>16. Reasoned'
  BY <1>1, <1>3, <1>6, <1>7, <1>9 DEF Reasoned
<1>17. Owed'
  <2>1. \A q \in Rule : ForThis(q) =>
           q \in SelectedSet(recorder') \/ \E p \in Ahead : Selects(p, q)
    BY <1>3, <1>4, <1>6 DEF Owed
  <2>2. \A i \in DOMAIN job.contexts, q \in Rule : PerContext(q) /\ job.contexts[i] # {} =>
            Visited(q)' # {} \/ q \in queue' \/ ContextPass(i) \in Ahead
    BY <1>1, <1>3, <1>4, <1>8 DEF Owed
  <2>3. \A w \in job.broken : Unusable(w) \in issues \/ WebConfigFile(w) \in Ahead
    BY <1>3, <1>4 DEF Owed
  <2>4. QED BY <1>1, <1>9, <2>1, <2>2, <2>3 DEF Owed
<1>18. Issued'
  BY <1>1, <1>3, <1>4, <1>8, <1>9 DEF Issued
<1>19. Found'
  <2>1. \A f \in findings' : Visited(f[1])' # {} /\ <<f[1], f[2]>> \in hit'
    <3> SUFFICES ASSUME NEW f \in findings'
                 PROVE  Visited(f[1])' # {} /\ <<f[1], f[2]>> \in hit'
      OBVIOUS
    <3>1. CASE f \in findings
      BY <1>2, <1>3, <1>8, <3>1 DEF Found
    <3>2. CASE f \in Kept(r, hits)
      BY <1>2, <1>8, <1>11, <3>2
    <3>3. QED BY <1>2, <3>1, <3>2
  <2>2. \A f, g \in findings' :
           f[1] = g[1] /\ f[2] = g[2] /\ StageOf[f[1]] \in {"htaccess", "mixed"} => f = g
    <3> SUFFICES ASSUME NEW f \in findings', NEW g \in findings', f[1] = g[1], f[2] = g[2],
                        StageOf[f[1]] \in {"htaccess", "mixed"}
                 PROVE  f = g
      OBVIOUS
    <3>1. CASE f \in findings /\ g \in findings
      BY <1>3, <3>1 DEF Found
    <3>2. CASE f \in Kept(r, hits) /\ g \in Kept(r, hits)
      BY <1>11, <3>2
    <3>3. CASE f \in Kept(r, hits) /\ g \in findings
      BY <1>11, <3>3
    <3>4. CASE f \in findings /\ g \in Kept(r, hits)
      BY <1>11, <3>4
    <3>5. QED BY <1>2, <3>1, <3>2, <3>3, <3>4
  <2>3. \A h \in hit' : (\E f \in findings' : <<f[1], f[2]>> = h) \/ Dropped(h[1])
                        \/ h[1] \in job.answered
    <3> SUFFICES ASSUME NEW h \in hit', ~Dropped(h[1]), h[1] \notin job.answered
                 PROVE  \E f \in findings' : <<f[1], f[2]>> = h
      OBVIOUS
    <3>1. CASE h \in hit
      BY <1>2, <1>3, <1>4, <3>1 DEF Found
    <3>2. CASE h \notin hit
      <4>1. PICK place \in hits : h = <<r, place>>
        BY <1>2, <3>2
      <4>2. \/ <<r, place, visit>> \in Kept(r, hits)
            \/ \E g \in findings : g[1] = r /\ g[2] = place
        BY <1>11, <4>1
      <4>3. QED BY <1>2, <4>1, <4>2
    <3>3. QED BY <3>1, <3>2
  <2>4. QED BY <1>1, <1>9, <2>1, <2>2, <2>3 DEF Found
<1>20. QED BY <1>12, <1>13, <1>14, <1>15, <1>16, <1>17, <1>18, <1>19 DEF IInv

\* A rule raises: it is failed from now on, and the crash is among the issues.
LEMMA RuleRaisesPreserves ==
    ASSUME IInv, NEW r \in Rule, RuleRaises(r)
    PROVE  IInv'
<1> DEFINE call == <<r, visit, "raised">>
<1>1. /\ r \in queue
      /\ recorder' = Record(recorder, r, Failed(r))
      /\ calls' = calls \cup {call} /\ issues' = issues \cup {Crash(call)}
      /\ queue' = queue \ {r}
      /\ UNCHANGED <<phase, job, agenda, pass, visit, findings, manifest, loaded, hit>>
  BY DEF RuleRaises, Turn, CrashReported, Crash
<1>2. Shape /\ Resting /\ Invocable /\ Recorded /\ Reasoned /\ Owed /\ Issued /\ Found
  BY DEF IInv
<1>3. phase = "running" /\ ~Discarded
  BY <1>1, <1>2 DEF Resting, Issued, Shape
<1>4. Failed(r) \in EventOf(r)
  BY DEF EventOf
<1>5. /\ SoundRecorder(recorder')
      /\ SelectedSet(recorder') = SelectedSet(recorder) \cup {r}
      /\ \A q \in Rule : recorder'.terminal[q] =
            IF q = r THEN Reduce(recorder.terminal[r], Failed(r)) ELSE recorder.terminal[q]
      /\ Unselected(recorder') = {} /\ Missing(recorder') \subseteq queue'
      /\ recorder.terminal[r] \in EventOf(r) \cup {NoEvent}
  BY <1>1, <1>4, ReportEffect
<1>6. recorder'.terminal[r].state = "failed"
  BY <1>5, OutcomeEffect
<1>7. /\ \A q : Visited(q)' = IF q = r THEN Visited(q) \cup {call} ELSE Visited(q)
      /\ \A q : CrashedIn(q)' = IF q = r THEN CrashedIn(q) \cup {call} ELSE CrashedIn(q)
      /\ Crashes' = Crashes \cup {Crash(call)}
  BY <1>1, CallEffect
<1>8. /\ Ahead' = Ahead
      /\ \A q : /\ ForThis(q)' <=> ForThis(q)
                /\ Allowed(q)' <=> Allowed(q)
                /\ PerContext(q)' <=> PerContext(q)
                /\ Dropped(q)' <=> Dropped(q)
      /\ \A i : ContextPass(i)' = ContextPass(i)
  BY <1>1, JobFrame DEF Ahead
<1>9. Crash(call).level = "warning"
  BY DEF Crash, Issue
<1>10. ~Discarded'
  BY <1>1, <1>3, <1>9 DEF Discarded
<1> HIDE DEF call
<1>11. Shape'
  <2>1. calls' \subseteq Rule \X Nat \X {"returned", "raised"}
    BY <1>1, <1>2 DEF Shape, call
  <2>2. QED BY <1>1, <1>2, <1>5, <2>1 DEF Shape
<1>12. Resting'
  BY <1>1, <1>2, <1>3 DEF Resting
<1>13. Invocable'
  BY <1>1, <1>2, <1>8 DEF Invocable
<1>14. Recorded'
  BY <1>2, <1>3, <1>5, <1>6, <1>7, <1>10 DEF Recorded
<1>15. Reasoned'
  BY <1>1, <1>2, <1>3, <1>5, <1>6, <1>8 DEF Reasoned
<1>16. Owed'
  <2>1. \A q \in Rule : ForThis(q) =>
           q \in SelectedSet(recorder') \/ \E p \in Ahead : Selects(p, q)
    BY <1>2, <1>3, <1>5 DEF Owed
  <2>2. \A i \in DOMAIN job.contexts, q \in Rule : PerContext(q) /\ job.contexts[i] # {} =>
            Visited(q)' # {} \/ q \in queue' \/ ContextPass(i) \in Ahead
    BY <1>1, <1>2, <1>3, <1>7 DEF Owed
  <2>3. \A w \in job.broken : Unusable(w) \in issues' \/ WebConfigFile(w) \in Ahead
    BY <1>1, <1>2, <1>3 DEF Owed
  <2>4. QED BY <1>1, <1>8, <2>1, <2>2, <2>3 DEF Owed
<1>17. Issued'
  BY <1>1, <1>2, <1>3, <1>7, <1>10 DEF Issued
<1>18. Found'
  BY <1>1, <1>2, <1>3, <1>7, <1>8 DEF Found
<1>19. QED BY <1>11, <1>12, <1>13, <1>14, <1>15, <1>16, <1>17, <1>18 DEF IInv

(***************************************************************************)
(* A web.config, and the end of an analysis.                               *)
(***************************************************************************)
\* The next web.config: its pass goes ahead, or the broken file is reported.
LEMMA OpenWebConfigPreserves == ASSUME IInv, OpenWebConfig PROVE IInv'
<1> DEFINE place == Head(agenda).place
           two   == <<LocalPass(Stage, {place}), UniversalPass({place})>>
<1>1. /\ phase = "running" /\ queue = {} /\ agenda # <<>> /\ Head(agenda).kind = "web.config"
      /\ IF place \in job.broken
         THEN agenda' = Tail(agenda) /\ issues' = issues \cup {Unusable(place)}
         ELSE agenda' = two \o Tail(agenda) /\ issues' = issues
      /\ UNCHANGED <<phase, job, pass, visit, queue, recorder, findings, manifest,
                     loaded, calls, hit>>
  BY DEF OpenWebConfig, AfterBroken, Unusable
<1>2. Shape /\ Resting /\ Invocable /\ Recorded /\ Reasoned /\ Owed /\ Issued /\ Found
  BY DEF IInv
<1>3. ~Discarded
  BY <1>1, <1>2 DEF Issued
<1> DEFINE rest == ToSet(Tail(agenda))
<1>4. /\ Head(agenda) \in Item /\ Tail(agenda) \in Seq(Item)
      /\ Ahead = {Head(agenda)} \cup rest
  BY <1>1, <1>2, ToSetTail DEF Shape, Ahead
<1>5. Head(agenda) \in FileItem /\ Head(agenda) \notin PassItem
  BY <1>1, <1>4 DEF Item, PassItem
<1>6. place \in WebConfig /\ Head(agenda) = WebConfigFile(place)
  BY <1>5 DEF FileItem, WebConfigFile
<1> HIDE DEF place
<1>7. /\ LocalPass(Stage, {place}) \in PassItem /\ UniversalPass({place}) \in PassItem
      /\ LocalPass(Stage, {place}).places # {} /\ UniversalPass({place}).places # {}
  BY <1>6 DEF LocalPass, UniversalPass, Pass, PassItem, Stage, Place
<1>8. two \in Seq(Item) /\ ToSet(two) = {LocalPass(Stage, {place}), UniversalPass({place})}
  BY <1>7 DEF ToSet, Item
<1> HIDE DEF two
<1>9. two \o Tail(agenda) \in Seq(Item) /\ ToSet(two \o Tail(agenda)) = ToSet(two) \cup rest
  BY <1>4, <1>8, ToSetConcat, ZenonT(60)
<1>10. /\ agenda' \in Seq(Item) /\ rest \subseteq Ahead'
       /\ \A p \in Ahead' : p \in rest \/ (p \in PassItem /\ p.places # {})
  <2>1. CASE place \in job.broken
    BY <1>1, <1>4, <2>1 DEF Ahead
  <2>2. CASE place \notin job.broken
    BY <1>1, <1>7, <1>8, <1>9, <2>2 DEF Ahead
  <2>3. QED BY <2>1, <2>2
<1> HIDE DEF rest
<1>11. /\ \A r : /\ ForThis(r)' <=> ForThis(r)
                 /\ Allowed(r)' <=> Allowed(r)
                 /\ PerContext(r)' <=> PerContext(r)
                 /\ Dropped(r)' <=> Dropped(r)
       /\ \A i : ContextPass(i)' = ContextPass(i)
       /\ Crashes' = Crashes
       /\ \A r : Visited(r)' = Visited(r) /\ CrashedIn(r)' = CrashedIn(r)
  BY <1>1, JobFrame, CallsFrame
<1>12. Unusable(place).level = "warning"
  BY DEF Unusable, Issue
<1>13. ~Discarded'
  BY <1>1, <1>3, <1>12 DEF Discarded
<1>14. Shape'
  BY <1>1, <1>2, <1>10 DEF Shape
<1>15. Resting'
  BY <1>1, <1>2 DEF Resting
<1>16. Invocable'
  BY <1>1, <1>2, <1>4, <1>10, <1>11 DEF Invocable
<1>17. Recorded' /\ Reasoned'
  BY <1>1, <1>2, <1>3, <1>11, <1>13 DEF Recorded, Reasoned
<1>18. Owed'
  <2>1. \A r \in Rule : ForThis(r) =>
           r \in SelectedSet(recorder) \/ \E p \in Ahead' : Selects(p, r)
    BY <1>1, <1>2, <1>3, <1>4, <1>5, <1>10 DEF Owed, Selects
  <2>2. \A i \in DOMAIN job.contexts, r \in Rule : PerContext(r) /\ job.contexts[i] # {} =>
            Visited(r) # {} \/ r \in queue \/ ContextPass(i) \in Ahead'
    <3>1. \A i : ContextPass(i) # Head(agenda)
      BY <1>1 DEF ContextPass, LocalPass, Pass
    <3>2. QED BY <1>1, <1>2, <1>3, <1>4, <1>10, <3>1 DEF Owed
  <2>3. \A w \in job.broken : Unusable(w) \in issues' \/ WebConfigFile(w) \in Ahead'
    <3> SUFFICES ASSUME NEW w \in job.broken
                 PROVE  Unusable(w) \in issues' \/ WebConfigFile(w) \in Ahead'
      OBVIOUS
    <3>1. CASE w = place
      BY <1>1, <3>1
    <3>2. CASE w # place
      <4>1. WebConfigFile(w) # Head(agenda)
        BY <1>6, <3>2 DEF WebConfigFile
      <4>2. QED BY <1>1, <1>2, <1>3, <1>4, <1>10, <4>1 DEF Owed
    <3>3. QED BY <3>1, <3>2
  <2>4. QED BY <1>1, <1>11, <2>1, <2>2, <2>3 DEF Owed
<1>19. Issued'
  <2>1. issues' \subseteq issues \cup {Unusable(w) : w \in job.broken} /\ issues \subseteq issues'
    BY <1>1
  <2>2. QED BY <1>1, <1>2, <1>3, <1>11, <1>13, <2>1 DEF Issued
<1>20. Found'
  BY <1>1, <1>2, <1>3, <1>11, <1>13 DEF Found
<1>21. QED BY <1>14, <1>15, <1>16, <1>17, <1>18, <1>19, <1>20 DEF IInv

\* The rules that were required and never selected are skipped, each for a reason that
\* applies, and the manifest is built of what was recorded.
LEMMA AttachContextPreserves == ASSUME IInv, AttachContext PROVE IInv'
<1> DEFINE unrun == job.required \ SelectedSet(recorder)
           why   == [r \in Rule |-> RequiredSkipReason(r, loaded')]
<1>1. /\ phase = "attach" /\ phase' = "done"
      /\ loaded' = loaded \cup {job.server, "universal"}
      /\ recorder' = SkipEach(recorder, RunOrder, unrun, why)
      /\ manifest' = Manifest(recorder')
      /\ UNCHANGED <<job, agenda, pass, visit, queue, issues, findings, calls, hit>>
  BY DEF AttachContext
<1>2. Shape /\ Resting /\ Invocable /\ Recorded /\ Reasoned /\ Owed /\ Issued /\ Found
  BY DEF IInv
<1>3. queue = {} /\ agenda = <<>> /\ Ahead = {}
  BY <1>1, <1>2 DEF Resting, Ahead, ToSet
<1>4. job.server \in Server /\ unrun \subseteq Rule
  BY <1>2, JobFacts DEF Shape
<1>5. \A r \in Rule : why[r] = RequiredSkipReason(r, loaded') /\ why[r] \in Reason
  BY DEF RequiredSkipReason, Reason
<1> HIDE DEF unrun, why
<1>6. Enumerates(RunOrder, unrun)
  BY <1>4, RegistryAssumption DEF RegistryAssumption, Enumerates
<1> DEFINE S == SkipEach(recorder, RunOrder, unrun, why)
<1>7. /\ SoundRecorder(S)
      /\ SelectedSet(S) = SelectedSet(recorder) \cup unrun
      /\ \A r \in Rule : S.terminal[r] = IF r \in unrun
                                          THEN Reduce(recorder.terminal[r], Skipped(why[r]))
                                          ELSE recorder.terminal[r]
  BY <1>2, <1>5, <1>6, SkipEachAdds DEF Shape
<1>8. recorder' = S
  BY <1>1
<1> HIDE DEF S
<1>9. \A r \in Rule : /\ recorder'.terminal[r] = IF r \in unrun THEN Skipped(why[r])
                                                ELSE recorder.terminal[r]
                      /\ r \in unrun => recorder.terminal[r] = NoEvent
  <2> SUFFICES ASSUME NEW r \in Rule
               PROVE  /\ recorder'.terminal[r] = IF r \in unrun THEN Skipped(why[r])
                                                ELSE recorder.terminal[r]
                      /\ r \in unrun => recorder.terminal[r] = NoEvent
    OBVIOUS
  <2>1. r \in unrun => recorder.terminal[r] = NoEvent
    BY <1>2 DEF Recorded, Unselected, unrun
  <2>2. Reduce(NoEvent, Skipped(why[r])) = Skipped(why[r])
    BY DEF Reduce
  <2>3. QED BY <1>7, <1>8, <2>1, <2>2
<1>10. /\ Discarded' <=> Discarded
       /\ Ahead' = Ahead
       /\ \A r : /\ ForThis(r)' <=> ForThis(r)
                 /\ Allowed(r)' <=> Allowed(r)
                 /\ PerContext(r)' <=> PerContext(r)
                 /\ Dropped(r)' <=> Dropped(r)
       /\ \A i : ContextPass(i)' = ContextPass(i)
       /\ Crashes' = Crashes
       /\ \A r : Visited(r)' = Visited(r) /\ CrashedIn(r)' = CrashedIn(r)
  BY <1>1, JobFrame, CallsFrame DEF Discarded, Ahead
<1>11. Shape'
  <2>1. loaded' \subseteq Packages
    BY <1>1, <1>2, <1>4 DEF Shape, Packages
  <2>2. QED BY <1>1, <1>2, <1>7, <1>8, <2>1 DEF Shape
<1>12. Resting'
  BY <1>1, <1>2, <1>3, <1>7, <1>8 DEF Resting, unrun
<1>13. Invocable'
  BY <1>1, <1>2, <1>10 DEF Invocable
<1>14. Recorded'
  <2>1. \A r \in Rule : Skipped(why[r]) # NoEvent /\ Skipped(why[r]).state = "skipped"
    BY DEF Skipped, NoEvent
  <2>2. Unselected(recorder') = {}
    BY <1>2, <1>7, <1>8, <1>9 DEF Recorded, Unselected
  <2>3. SelectedSet(recorder) \subseteq Rule
    BY <1>2 DEF Shape, SoundRecorder, RecorderValue, SelectedSet
  <2>4. Missing(recorder') = {}
    BY <1>2, <1>3, <1>4, <1>7, <1>8, <1>9, <2>1, <2>3 DEF Recorded, Missing
  <2>5. \A r \in Rule :
           /\ recorder'.terminal[r].state = "failed" <=> recorder.terminal[r].state = "failed"
           /\ recorder'.terminal[r].state = "completed" <=> recorder.terminal[r].state = "completed"
    BY <1>9, <2>1 DEF NoEvent
  <2>6. QED BY <1>2, <1>10, <2>2, <2>4, <2>5 DEF Recorded
<1>15. Reasoned'
  <2> SUFFICES ASSUME NEW r \in Rule, recorder'.terminal[r].state = "skipped"
               PROVE  LET reason == recorder'.terminal[r].detail IN
                      /\ reason = "opt-in-not-selected" => r \in OptIn /\ ~job.review
                      /\ reason = "mode-incompatible"   => Category[r] = "external"
                      /\ reason = "server-incompatible" => ServerOf[r] \notin {job.server, "any"}
                      /\ reason = "prerequisite-failed" =>
                            r \in job.lacking \/ ~InCatalog(r, loaded')
                      /\ reason = "input-unavailable"   => Discarded \/ PerContext(r)
    BY <1>1, <1>10 DEF Reasoned, InCatalog
  <2>1. CASE r \notin unrun
    BY <1>1, <1>2, <1>9, <2>1 DEF Reasoned
  <2>2. CASE r \in unrun
    <3>1. recorder'.terminal[r].detail = RequiredSkipReason(r, loaded')
      <4>1. recorder'.terminal[r] = Skipped(why[r]) /\ why[r] = RequiredSkipReason(r, loaded')
        BY <1>5, <1>9, <2>2
      <4>2. \A reason : Skipped(reason).detail = reason
        BY DEF Skipped
      <4>3. QED BY <4>1, <4>2
    <3>2. RequiredSkipReason(r, loaded') = "server-incompatible" =>
             ServerOf[r] \notin {job.server, "any"}
      BY RegistryAssumption DEF RequiredSkipReason, RegistryAssumption, Server
    <3>3. RequiredSkipReason(r, loaded') = "input-unavailable" => Discarded
      <4> SUFFICES ASSUME RequiredSkipReason(r, loaded') = "input-unavailable", ~Discarded
                   PROVE  FALSE
        OBVIOUS
      <4>1. Category[r] # "external" /\ (Category[r] = Local => ServerOf[r] = job.server)
        BY DEF RequiredSkipReason
      <4>2. Category[r] \in {Local, "universal", "external"}
        BY RegistryAssumption DEF RegistryAssumption
      <4>3. ForThis(r)
        BY <4>1, <4>2 DEF ForThis
      <4>4. r \in SelectedSet(recorder)
        BY <1>1, <1>2, <1>3, <4>3 DEF Owed
      <4>5. QED BY <2>2, <4>4 DEF unrun
    <3>4. /\ RequiredSkipReason(r, loaded') # "opt-in-not-selected"
          /\ RequiredSkipReason(r, loaded') = "mode-incompatible" => Category[r] = "external"
          /\ RequiredSkipReason(r, loaded') = "prerequisite-failed" => ~InCatalog(r, loaded')
      BY DEF RequiredSkipReason
    <3>5. QED BY <3>1, <3>2, <3>3, <3>4
  <2>3. QED BY <2>1, <2>2
<1>16. Owed'
  BY <1>1, <1>2, <1>3, <1>7, <1>8, <1>10 DEF Owed
<1>17. Issued'
  <2>1. CASE ~Discarded
    BY <1>1, <1>2, <1>10, <2>1 DEF Issued
  <2>2. CASE Discarded
    <3>1. recorder = EmptyRecorder /\ findings = {}
      BY <1>1, <1>2, <2>2 DEF Issued
    <3>2. SelectedSet(recorder') = unrun
      BY <1>7, <1>8, <3>1, EmptySound
    <3>3. \A r \in unrun : recorder'.terminal[r].state = "skipped"
      <4>1. \A reason : Skipped(reason).state = "skipped"
        BY DEF Skipped
      <4>2. QED BY <1>4, <1>9, <4>1
    <3>4. SelectedSet(recorder') = InState(recorder', "skipped")
      BY <3>2, <3>3 DEF InState
    <3>5. QED BY <1>1, <1>10, <2>2, <3>1, <3>4 DEF Issued
  <2>3. QED BY <2>1, <2>2
<1>18. Found'
  BY <1>1, <1>2, <1>10 DEF Found
<1>19. QED BY <1>11, <1>12, <1>13, <1>14, <1>15, <1>16, <1>17, <1>18 DEF IInv

(***************************************************************************)
(* The theorems.                                                           *)
(***************************************************************************)
\* No step.
LEMMA StutterPreserves == ASSUME IInv, UNCHANGED vars PROVE IInv'
<1>1. UNCHANGED <<phase, job, agenda, pass, visit, queue, recorder, issues, findings,
                  manifest, loaded, calls, hit>>
  BY DEF vars
<1>2. Shape /\ Resting /\ Invocable /\ Recorded /\ Reasoned /\ Owed /\ Issued /\ Found
  BY DEF IInv
<1>3. /\ Discarded' <=> Discarded
      /\ Ahead' = Ahead
      /\ \A r : /\ ForThis(r)' <=> ForThis(r)
                /\ Allowed(r)' <=> Allowed(r)
                /\ PerContext(r)' <=> PerContext(r)
                /\ Dropped(r)' <=> Dropped(r)
      /\ \A i : ContextPass(i)' = ContextPass(i)
      /\ Crashes' = Crashes
      /\ \A r : Visited(r)' = Visited(r) /\ CrashedIn(r)' = CrashedIn(r)
  BY <1>1, JobFrame, CallsFrame DEF Discarded, Ahead
<1>4. Shape' /\ Resting'
  BY <1>1, <1>2 DEF Shape, Resting
<1>5. Invocable' /\ Recorded' /\ Reasoned'
  BY <1>1, <1>2, <1>3 DEF Invocable, Recorded, Reasoned, InCatalog
<1>6. Owed' /\ Issued' /\ Found'
  BY <1>1, <1>2, <1>3 DEF Owed, Issued, Found
<1>7. QED BY <1>4, <1>5, <1>6 DEF IInv

\* The inductive invariant holds in every reachable state of an analysis.
THEOREM Invariance == Spec => []IInv
<1>1. IInv /\ [Next]_vars => IInv'
  <2> SUFFICES ASSUME IInv, [Next]_vars PROVE IInv'
    OBVIOUS
  <2>1. CASE Begin
    BY <2>1, BeginPreserves
  <2>2. CASE ConfigUnusable \/ SnapshotUnusable
    BY <2>2, GivingUpPreserves
  <2>3. CASE DecodeErrorEscapes \/ WebConfigUndecodable
    BY <2>3, EscapesPreserve
  <2>4. CASE BeginPass
    BY <2>4, BeginPassPreserves
  <2>5. ASSUME NEW r \in Rule, SkipForPrerequisite(r) PROVE IInv'
    BY <2>5, SkipForPrerequisitePreserves
  <2>6. ASSUME NEW r \in Rule, RuleReturns(r) PROVE IInv'
    BY <2>6, RuleReturnsPreserves
  <2>7. ASSUME NEW r \in Rule, RuleRaises(r) PROVE IInv'
    BY <2>7, RuleRaisesPreserves
  <2>8. CASE OpenWebConfig
    BY <2>8, OpenWebConfigPreserves
  <2>9. CASE Finish
    BY <2>9, FinishPreserves
  <2>10. CASE AttachContext
    BY <2>10, AttachContextPreserves
  <2>11. CASE UNCHANGED vars
    BY <2>11, StutterPreserves
  <2>12. QED
    BY <2>1, <2>2, <2>3, <2>4, <2>5, <2>6, <2>7, <2>8, <2>9, <2>10, <2>11 DEF Next
<1>2. QED BY InitIInv, <1>1, PTL DEF Spec

\* Type correctness of an analysis, whatever its rules and its configuration.
THEOREM TypeCorrect == Spec => []TypeOK
<1>1. IInv => TypeOK
  <2> SUFFICES ASSUME IInv PROVE TypeOK
    OBVIOUS
  <2>1. Shape /\ Resting
    BY DEF IInv
  <2>2. recorder \in RecorderValue
    BY <2>1 DEF Shape, SoundRecorder
  <2>3. SelectedSet(recorder) \subseteq Rule /\ recorder.terminal \in [Rule -> Event \cup {NoEvent}]
    BY <2>2 DEF RecorderValue, SelectedSet
  <2>4. Manifest(recorder) # NoManifest
    <3>1. Manifest(recorder).error # "unbuilt"
      BY DEF Manifest
    <3>2. QED BY <3>1 DEF NoManifest
  <2>5. QED BY <2>1, <2>3, <2>4 DEF TypeOK, Shape, Resting
<1>2. QED BY Invariance, <1>1, PTL

\* Once an analysis is done its manifest accounts for every rule and tells the truth
\* about it: nothing that crashed in any context is called completed, nothing that
\* was given up claims a result, and every reason of a skip is the true one.
THEOREM ManifestIsTruthful == Spec => []ManifestIsTrue
<1>1. IInv => ManifestIsTrue
  <2> SUFFICES ASSUME IInv PROVE ManifestIsTrue
    OBVIOUS
  <2>1. Shape /\ Resting /\ Recorded /\ Reasoned /\ Owed /\ Issued /\ Found
    BY DEF IInv
  <2>2. SoundRecorder(recorder) /\ SelectedSet(recorder) \subseteq Rule
    BY <2>1 DEF Shape, SoundRecorder, RecorderValue, SelectedSet
  <2>3. \A r \in Rule : recorder.terminal[r] # NoEvent <=> r \in SelectedSet(recorder) \ Missing(recorder)
    BY <2>1, <2>2 DEF Recorded, Unselected, Missing
  <2>4. \A r \in Rule : recorder.terminal[r].state = "failed" \/ recorder.terminal[r].state = "completed"
                           => r \in SelectedSet(recorder)
    BY <2>3 DEF NoEvent
  <2>5. Done => /\ Missing(recorder) = {}
                /\ manifest = [error     |-> "none",
                               selected  |-> recorder.selected,
                               completed |-> InState(recorder, "completed"),
                               skipped   |-> {<<r, recorder.terminal[r].detail>> : r \in InState(recorder, "skipped")},
                               failed    |-> {<<r, recorder.terminal[r].detail>> : r \in InState(recorder, "failed")}]
    <3> SUFFICES ASSUME phase = "done"
                 PROVE  /\ Missing(recorder) = {}
                        /\ manifest = [error     |-> "none",
                                       selected  |-> recorder.selected,
                                       completed |-> InState(recorder, "completed"),
                                       skipped   |-> {<<r, recorder.terminal[r].detail>> : r \in InState(recorder, "skipped")},
                                       failed    |-> {<<r, recorder.terminal[r].detail>> : r \in InState(recorder, "failed")}]
      BY DEF Done
    <3>1. Missing(recorder) = {} /\ Unselected(recorder) = {} /\ SelectedOnce(recorder)
      BY <2>1, <2>2 DEF Recorded, Resting, SoundRecorder
    <3>2. manifest = Manifest(recorder)
      BY <2>1 DEF Resting
    <3>3. QED BY <3>1, <3>2 DEF Manifest
  <2>6. OutcomesReportInvocations
    BY <2>1, <2>2, <2>4 DEF OutcomesReportInvocations, Recorded, InState
  <2>7. DiscardedClaimsNothing
    BY <2>1 DEF DiscardedClaimsNothing, Issued, Done
  <2>8. ManifestAccountsForEverything
    <3>1. Done => manifest.error = "none"
      BY <2>5
    <3>2. Done => job.required \subseteq SelectedSet(recorder)
      BY <2>1 DEF Done, Resting
    <3>3. ASSUME Done, NEW f \in findings
          PROVE  f[1] \in InState(recorder, "completed") \cup InState(recorder, "failed")
      <4>1. ~Discarded /\ Visited(f[1]) # {} /\ f[1] \in Rule
        BY <2>1, <3>3 DEF Issued, Found, Shape
      <4>2. QED BY <2>1, <2>4, <4>1 DEF Recorded, InState
    <3>4. QED BY <3>1, <3>2, <3>3 DEF ManifestAccountsForEverything
  <2>9. SkipReasonsAreTrue
    <3> SUFFICES ASSUME Done, NEW s \in manifest.skipped
                 PROVE  LET r == s[1] IN
                        /\ s[2] = "opt-in-not-selected" => r \in OptIn /\ ~job.review
                        /\ s[2] = "mode-incompatible"   => Category[r] = "external"
                        /\ s[2] = "server-incompatible" => ServerOf[r] \notin {job.server, "any"}
                        /\ s[2] = "prerequisite-failed" => r \in job.lacking \/ ~InCatalog(r, loaded)
                        /\ s[2] = "input-unavailable"   =>
                              Discarded \/ \A i \in DOMAIN job.contexts :
                                              job.contexts[i] = {} /\ StageOf[r] \in {"htaccess", "mixed"}
      BY DEF SkipReasonsAreTrue
    <3>1. PICK r \in InState(recorder, "skipped") : s = <<r, recorder.terminal[r].detail>>
      BY <2>5
    <3>2. r \in Rule /\ recorder.terminal[r].state = "skipped" /\ s[1] = r
          /\ s[2] = recorder.terminal[r].detail
      BY <2>2, <3>1 DEF InState
    <3>3. ASSUME s[2] = "input-unavailable", ~Discarded, NEW i \in DOMAIN job.contexts
          PROVE  job.contexts[i] = {} /\ StageOf[r] \in {"htaccess", "mixed"}
      <4>1. PerContext(r)
        BY <2>1, <3>2, <3>3 DEF Reasoned
      <4>2. Visited(r) = {}
        BY <2>1, <3>2, <3>3 DEF Recorded
      <4>3. queue = {} /\ Ahead = {} /\ phase = "done"
        BY <2>1 DEF Done, Resting, Ahead, ToSet
      <4>4. job.contexts[i] = {}
        BY <2>1, <3>2, <3>3, <4>1, <4>2, <4>3 DEF Owed
      <4>5. QED BY <4>1, <4>4 DEF PerContext
    <3>4. QED BY <2>1, <3>2, <3>3 DEF Reasoned
  <2>10. QED BY <2>6, <2>7, <2>8, <2>9 DEF ManifestIsTrue
<1>2. QED BY Invariance, <1>1, PTL

\* Every crash and every unusable web.config has its issue, and no issue is made up.
THEOREM NothingFailsSilently == Spec => []FailuresHaveIssues
<1>1. IInv => FailuresHaveIssues
  <2> SUFFICES ASSUME IInv, Done, ~Discarded
               PROVE  issues = Crashes \cup {Unusable(w) : w \in job.broken}
    BY DEF FailuresHaveIssues, Crashes, Crash, Unusable
  <2>1. phase = "done" /\ Resting /\ Owed /\ Issued
    BY DEF IInv, Done
  <2>2. Ahead = {}
    BY <2>1 DEF Resting, Ahead, ToSet
  <2>3. \A w \in job.broken : Unusable(w) \in issues
    BY <2>1, <2>2 DEF Owed
  <2>4. QED BY <2>1, <2>3 DEF Issued
<1>2. QED BY Invariance, <1>1, PTL

\* No finding is reported twice for one .htaccess file, lost but to the two filters,
\* or invented, whichever virtual hosts share the file and whatever crashed.
THEOREM FindingsAreComplete == Spec => []FindingsAreExact
<1>1. IInv => FindingsAreExact
  <2> SUFFICES ASSUME IInv, Done, ~Discarded
               PROVE  /\ \A f, g \in findings :
                           f[1] = g[1] /\ f[2] = g[2] /\ StageOf[f[1]] \in {"htaccess", "mixed"} => f = g
                      /\ {<<f[1], f[2]>> : f \in findings} \subseteq hit
                      /\ \A h \in hit : \/ \E f \in findings : <<f[1], f[2]>> = h
                                        \/ Dropped(h[1])
                                        \/ h[1] \in job.answered
    BY DEF FindingsAreExact
  <2>1. Found
    BY DEF IInv
  <2>2. QED BY <2>1 DEF Found
<1>2. QED BY Invariance, <1>1, PTL
===============================================================================
