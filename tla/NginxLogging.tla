------------------------------ MODULE NginxLogging ------------------------------
(***************************************************************************)
(* The scopes of a configuration of nginx, and its logging by a policy.     *)
(*                                                                         *)
(* build_scope_graph() (local/nginx/effective_scope.py): the blocks of an   *)
(* expanded configuration are visited in document order and become scopes;  *)
(* then every include that failed marks the scopes it may have changed as   *)
(* incomplete. The nginx.logging section of an audit policy: the effective  *)
(* access_log and error_log of every scope (logging_semantics.py) and the   *)
(* verdict of the profile that applies to it (assessments/logging.py).      *)
(* Profiles that overlap were refused with the policy (audit_policy.py).    *)
(***************************************************************************)
EXTENDS Naturals, Sequences, FiniteSets

CONSTANTS
    Lines,          \* a file and a line where an include directive may fail
    Families,       \* configurations and policies that go together
    Off,
    DefaultLog      \* what nginx writes when no access_log is configured

(***************************************************************************)
(* A tree is a configuration, its nodes in the order of the document. A     *)
(* node is a block, but for the first, which is the main context: it has    *)
(* the number of the node around it, its name, and the lines of the include *)
(* directives directly in it that fail. A file that is included at several  *)
(* places brings its lines to all of them.                                  *)
(***************************************************************************)
Main == 1
Node == [parent : Nat, name : STRING, failed : SUBSET Lines]

IsTree(t) ==
    /\ t \in Seq(Node) /\ Len(t) >= Main /\ t[Main].parent = Main
    /\ \A b \in 2 .. Len(t) : t[b].parent \in 1 .. (b - 1)

\* The way up from each node of a forest to Main, given what is around each.
Upward(around) ==
    LET up[n \in DOMAIN around] == IF n = Main THEN {Main} ELSE {n} \cup up[around[n]]
    IN up

VARIABLES
    tree,        \* the blocks in document order: [parent, name, failed lines]
    at,          \* the next block to visit
    kind,        \* [scopes -> their kind]; a scope is the number of its block, or Main
    scopeOf,     \* [blocks visited, and Main -> the scope the nodes in it are in]
    container,   \* visited blocks that are in a container of the main context
    issues,      \* include issues to attribute, by line
    incomplete   \* scopes with completeness issues

scopeVars == <<tree, at, kind, scopeOf, container, issues, incomplete>>

Blocks == DOMAIN tree \ {Main}
Scopes == DOMAIN kind
AllLines == UNION {tree[b].failed : b \in DOMAIN tree}

ScopesInit(trees) ==
    /\ tree \in trees
    /\ at = 2
    /\ kind = [s \in {Main} |-> "main"]
    /\ scopeOf = [b \in {Main} |-> Main]
    /\ container = {} /\ incomplete = {}
    /\ issues = AllLines

\* _scope_kind_for_block

ScopeKind(name, parentKind, nested) ==
    CASE name = "http" /\ parentKind = "main" -> "http"
      [] name = "server" /\ parentKind = "http" -> "server"
      [] name = "server" /\ parentKind = "main" /\ ~nested -> "server"
      [] name = "location" /\ parentKind \in {"server", "location"} -> "location"
      [] name = "if" /\ parentKind = "location" -> "if_in_location"
      [] name = "limit_except" /\ parentKind = "location" -> "limit_except"
      [] OTHER -> "none"

Current == scopeOf[tree[at].parent]
KindHere == ScopeKind(tree[at].name, kind[Current], tree[at].parent \in container)

\* visit_nodes: a block that is a scope, and one whose nodes belong to the scope
\* it is in.
VisitScope ==
    /\ at \in Blocks /\ KindHere # "none"
    /\ kind' = [s \in Scopes \cup {at} |-> IF s = at THEN KindHere ELSE kind[s]]
    /\ scopeOf' = [b \in DOMAIN scopeOf \cup {at} |-> IF b = at THEN at ELSE scopeOf[b]]
    /\ at' = at + 1
    /\ UNCHANGED <<tree, container, issues, incomplete>>

VisitOther ==
    /\ at \in Blocks /\ KindHere = "none"
    /\ scopeOf' = [b \in DOMAIN scopeOf \cup {at} |-> IF b = at THEN Current ELSE scopeOf[b]]
    /\ container' = IF tree[at].parent \in container \/ kind[Current] = "main"
                    THEN container \cup {at} ELSE container
    /\ at' = at + 1
    /\ UNCHANGED <<tree, kind, issues, incomplete>>

ParentScope(s) == scopeOf[tree[s].parent]

\* A scope and those it is nested in: parent_chain.
Chain(s) == Upward([t \in Scopes |-> ParentScope(t)])[s]
MutantWithin(s) == {t \in Scopes : s <= t}
Within(s) == {t \in Scopes : s \in Chain(t)}

\* _include_scope_index: by file and line, the last scope with such an include.
Affected(line) ==
    LET in == {scopeOf[b] : b \in {c \in DOMAIN tree : line \in tree[c].failed}} IN
    CHOOSE s \in in : \A t \in in : t <= s

\* The scope of the include, and those within it.
MutantMarkIncomplete ==
    /\ at \notin Blocks
    /\ \E line \in issues :
          /\ incomplete' = incomplete \cup {Affected(line)}
          /\ issues' = issues \ {line}
    /\ UNCHANGED <<tree, at, kind, scopeOf, container>>

MarkIncomplete ==
    /\ at \notin Blocks
    /\ \E line \in issues :
          /\ incomplete' = incomplete \cup Within(Affected(line))
          /\ issues' = issues \ {line}
    /\ UNCHANGED <<tree, at, kind, scopeOf, container>>

ScopesNext == VisitScope \/ VisitOther \/ MarkIncomplete

Built == at \notin Blocks /\ issues = {}

-----------------------------------------------------------------------------
(* Properties of scopes. *)

\* Types of the variables.
ScopesTypeOK ==
    /\ at \in Nat /\ Scopes \subseteq 1 .. (at - 1)
    /\ \A s \in Scopes :
          kind[s] \in {"main", "http", "server", "location", "if_in_location", "limit_except"}
    /\ DOMAIN scopeOf = 1 .. (at - 1) /\ \A b \in DOMAIN scopeOf : scopeOf[b] \in Scopes
    /\ issues \subseteq Lines /\ container \subseteq Blocks /\ incomplete \subseteq Scopes

\* A node and those around it.
Enclosing(b) == Upward([c \in DOMAIN tree |-> tree[c].parent])[b]

\* The servers that are assessed, and with them their locations, serve HTTP: they
\* lie in `http`, or are a fragment that is analysed by itself. A `server` of
\* `stream`, however deep it lies there, is none of them.
ServersServeHttp ==
    \A s \in Scopes : kind[s] = "server" =>
        tree[s].parent = Main \/ \E b \in Enclosing(s) : tree[b].name = "http"

\* "conservative completeness / condition classification" (docs/architecture.md:141): a
\* scope is complete only if no include failed where it could have changed it: in the
\* scope, in a block of it that is none, or around it. This fails when the include is in
\* a file that two scopes include: only the last of them is marked.
CompleteMeansWhole ==
    Built => \A b \in DOMAIN tree : tree[b].failed # {} => Within(scopeOf[b]) \subseteq incomplete

\* The include directive on this line fails in a later scope as well.
FailsAgainAfter(line, s) == \E b \in DOMAIN tree : line \in tree[b].failed /\ scopeOf[b] > s

\* Short of that: whatever an include could have changed that fails nowhere later is
\* incomplete.
LastFailureCounts ==
    Built => \A b \in DOMAIN tree : \A line \in tree[b].failed :
        Within(scopeOf[b]) \subseteq incomplete \/ FailsAgainAfter(line, scopeOf[b])

\* And it is not called incomplete because of an include elsewhere.
OnlyAffectedBranch ==
    \A s \in incomplete : \E b \in DOMAIN tree : tree[b].failed # {} /\ scopeOf[b] \in Chain(s)

\* Scopes are what nginx makes of the blocks, and a scope is called incomplete only when
\* an include failed where it could have changed it, and whenever one did that does not
\* fail again in a later scope.
ScopesAreSound ==
    ScopesTypeOK /\ ServersServeHttp /\ LastFailureCounts /\ OnlyAffectedBranch

-----------------------------------------------------------------------------
(* Logging. *)

\* A destination: where it writes, whether the policy's inventory has it, its `if=`
\* condition, and whether its format satisfies the policy.
Destination ==
    [where : {"file", "syslog", "variable", "unknown"}, approved : BOOLEAN,
     cond : {"none", "true", "false", "listed", "unlisted"},
     format : {"good", "bad", "undefined"}]

\* What a profile asks for, and of which servers and locations.
Profile(names, patterns) ==
    [names : SUBSET names, patterns : SUBSET patterns,
     required : BOOLEAN, allowOff : BOOLEAN, restricted : BOOLEAN, allowVariable : BOOLEAN,
     conditional : {"forbid", "allow_listed", "allow"}, remote : BOOLEAN, explicit : BOOLEAN]

\* _logging_selectors_overlap: an empty selector is for everything.
Overlap(p, q) ==
    /\ p.names = {} \/ q.names = {} \/ p.names \cap q.names # {}
    /\ p.patterns = {} \/ q.patterns = {} \/ p.patterns \cap q.patterns # {}

(***************************************************************************)
(* A family: trees; access_log directives (destinations, or Off) and        *)
(* error_log directives (judged by the policy: "good", "bad", "unsure") and *)
(* how many of them a configuration has at most; names of servers, patterns *)
(* of locations; policies, with profiles in the order of their ids and what *)
(* scopes that match none get. Profiles that overlap are the same but for   *)
(* their ids.                                                               *)
(***************************************************************************)
LoggingAssumption ==
    /\ DefaultLog \in Destination /\ Off \notin Destination
    /\ \A f \in Families :
          /\ \A t \in f.trees : IsTree(t)
          /\ f.accessLogs \subseteq Destination \cup {Off} /\ f.maxAccess \in Nat
          /\ f.errorLogs \subseteq {"good", "bad", "unsure"} /\ f.maxErrors \in Nat
          /\ \A p \in f.policies :
                /\ p.profiles \in Seq(Profile(f.names, f.patterns))
                /\ \A i, j \in DOMAIN p.profiles :
                      Overlap(p.profiles[i], p.profiles[j]) => p.profiles[i] = p.profiles[j]
ASSUME LoggingAssumption

VARIABLES
    access,     \* [nodes -> access_log directives directly in it]
    errors,     \* [nodes -> error_log directives]
    names,      \* [Blocks -> server names in it]
    pattern,    \* [Blocks -> location pattern]
    policy,     \* [profiles, unmatched]
    effective,  \* [scopes resolved so far -> state, access and error logs]
    verdicts    \* [scopes assessed so far -> [access, error]]

logVars == <<access, errors, names, pattern, policy, effective, verdicts>>
vars == <<scopeVars, logVars>>

\* Directives, each with the block it is in.
Placed(directives, bound) == [1 .. bound -> ((DOMAIN tree) \X directives) \cup {<<>>}]
By(placed) ==
    [b \in DOMAIN tree |->
        {d[2] : d \in {placed[i] : i \in {j \in DOMAIN placed : placed[j] # <<>> /\ placed[j][1] = b}}}]

\* A server has one name at most, and no server is in another: with two names, the
\* first profile for one of them would be applied and the others not.
OneNameEach ==
    \A b \in Blocks :
        /\ names[b] # {} => tree[b].name = "server"
        /\ \A n, m \in names[b] : n = m
        /\ names[b] # {} => \A c \in Enclosing(b) \ {b} : tree[c].name # "server"

LoggingInit(f) ==
    /\ ScopesInit(f.trees)
    /\ \E placed \in Placed(f.accessLogs, f.maxAccess) : access = By(placed)
    /\ \E placed \in Placed(f.errorLogs, f.maxErrors) : errors = By(placed)
    /\ names \in [Blocks -> SUBSET f.names] /\ OneNameEach
    /\ pattern \in [Blocks -> f.patterns]
    /\ policy \in f.policies
    /\ effective = [s \in {} |-> Off] /\ verdicts = [s \in {} |-> Off]

Init == \E f \in Families : LoggingInit(f)

-----------------------------------------------------------------------------
(* resolve_logging_semantics *)

DeclaredIn(s, directives, kinds) ==
    IF kind[s] \in kinds THEN UNION {directives[b] : b \in {c \in DOMAIN scopeOf : scopeOf[c] = s}}
    ELSE {}
AccessKinds == {"http", "server", "location", "if_in_location", "limit_except"}
ErrorKinds == {"main", "http", "server", "location"}
DeclaredAccess(s) == DeclaredIn(s, access, AccessKinds)
DeclaredErrors(s) == DeclaredIn(s, errors, ErrorKinds)

\* ambiguous_access_log_configuration: a reason of this scope, which is not inherited,
\* to be undecided about both of its logs.
Ambiguous(s) == Off \in DeclaredAccess(s) /\ DeclaredAccess(s) # {Off}

\* _resolve_access_scope: what is declared replaces what is inherited.
MutantAccessOf(s) ==
    LET declared == DeclaredAccess(s) IN
    IF declared # {} /\ Off \notin declared
    THEN [state |-> "enabled",
          logs |-> declared \cup (IF s \in {Main} \cup {t \in Scopes : kind[t] = "http"} THEN {}
                                 ELSE effective[ParentScope(s)].logs)]
    ELSE IF declared # {} THEN [state |-> IF declared = {Off} THEN "off" ELSE "unknown", logs |-> {}]
    ELSE IF kind[s] = "http" THEN [state |-> "enabled", logs |-> {DefaultLog}]
    ELSE IF s = Main THEN [state |-> "unknown", logs |-> {}]
    ELSE [state |-> effective[ParentScope(s)].state, logs |-> effective[ParentScope(s)].logs]

AccessOf(s) ==
    LET declared == DeclaredAccess(s) IN
    IF declared = {Off} THEN [state |-> "off", logs |-> {}]
    ELSE IF Ambiguous(s) THEN [state |-> "unknown", logs |-> {}]
    ELSE IF declared # {} THEN [state |-> "enabled", logs |-> declared]
    ELSE IF kind[s] = "http" THEN [state |-> "enabled", logs |-> {DefaultLog}]
    ELSE IF s = Main THEN [state |-> "unknown", logs |-> {}]
    ELSE [state |-> effective[ParentScope(s)].state, logs |-> effective[ParentScope(s)].logs]

\* _resolve_error_scope

ErrorsOf(s) ==
    IF DeclaredErrors(s) # {} THEN DeclaredErrors(s)
    ELSE IF s = Main THEN {"default"}
    ELSE effective[ParentScope(s)].errors

\* The scopes in the order in which the graph lists them.
First(S) == CHOOSE s \in S : \A t \in S : s <= t

ResolveScope ==
    /\ Built /\ DOMAIN effective # Scopes
    /\ LET s == First(Scopes \ DOMAIN effective) IN
       effective' = [t \in DOMAIN effective \cup {s} |->
                        IF t # s THEN effective[t]
                        ELSE [state |-> AccessOf(s).state, logs |-> AccessOf(s).logs,
                              errors |-> ErrorsOf(s)]]
    /\ UNCHANGED <<scopeVars, access, errors, names, pattern, policy, verdicts>>

-----------------------------------------------------------------------------
(* evaluate_logging_policy *)

\* _server_names_by_scope
ServerOf(s) == {t \in Chain(s) : kind[t] = "server"}
NamesOf(s) == UNION {names[b] : b \in {c \in Blocks : scopeOf[c] \in ServerOf(s)}}

\* _profile_matches_scope: a profile without patterns is for servers.
Matches(p, s) ==
    /\ p.names # {} => p.names \cap NamesOf(s) # {}
    /\ IF p.patterns = {} THEN kind[s] = "server"
       ELSE kind[s] = "location" /\ pattern[s] \in p.patterns

Matched(s) == {i \in DOMAIN policy.profiles : Matches(policy.profiles[i], s)}

\* _material_scope_ids
Material ==
    {s \in Scopes :
        \/ kind[s] = "server"
        \/ DeclaredAccess(s) # {} /\ kind[s] \in {"location", "if_in_location", "limit_except"}
        \/ DeclaredErrors(s) # {} /\ kind[s] = "location"
        \/ Matched(s) # {}}

\* _access_destination_allowed, _condition_result, _evaluate_access_format: what
\* one destination adds to the verdict.
MutantDestinationFails(d, q) ==
    \/ d.where = "variable" /\ ~q.allowVariable
    \/ d.where \in {"file", "syslog"} /\ q.restricted /\ ~d.approved
    \/ d.cond = "unlisted" /\ q.conditional = "allow_listed"
    \/ d.format = "bad"

DestinationFails(d, q) ==
    \/ d.where = "variable" /\ ~q.allowVariable
    \/ d.where \in {"file", "syslog"} /\ q.restricted /\ ~d.approved
    \/ d.cond \in {"listed", "unlisted"} /\ q.conditional = "forbid"
    \/ d.cond = "unlisted" /\ q.conditional = "allow_listed"
    \/ d.format = "bad"

DestinationUnsure(d, q) ==
    \/ d.where = "variable" /\ q.allowVariable
    \/ d.where = "unknown"
    \/ d.cond = "listed" /\ q.conditional # "forbid"
    \/ d.cond = "unlisted" /\ q.conditional = "allow"
    \/ d.format = "undefined"

Enabled(logs) == {d \in logs : d.cond # "false"}
Remote(logs, conds) == \E d \in Enabled(logs) : d.where = "syslog" /\ d.cond \in conds

\* _access_assessment

AccessVerdict(s, q) ==
    LET e == effective[s] IN
    IF \/ s \in incomplete
       \/ e.state = "unknown"
       \/ \E d \in Enabled(e.logs) : DestinationUnsure(d, q)
       \/ /\ q.remote /\ ~Remote(e.logs, {"none", "true"})
          /\ Remote(e.logs, {"listed", "unlisted"})
    THEN "indeterminate"
    ELSE IF \/ q.required /\ e.state = "off" /\ ~q.allowOff
            \/ q.required /\ e.state # "off" /\ Enabled(e.logs) = {}
            \/ \E d \in Enabled(e.logs) : DestinationFails(d, q)
            \/ q.remote /\ ~Remote(e.logs, {"none", "true"})
    THEN "fail"
    ELSE "pass"

\* _error_assessment and _error_destination_status
MutantErrorVerdict(s, q) ==
    LET logs == effective[s].errors IN
    IF s \in incomplete \/ Ambiguous(s) \/ "unsure" \in logs THEN "indeterminate"
    ELSE IF "bad" \in logs \/ ("default" \in logs /\ q.explicit) THEN "fail" ELSE "pass"

ErrorVerdict(s, q) ==
    LET logs == effective[s].errors IN
    IF \/ s \in incomplete \/ Ambiguous(s)
       \/ "unsure" \in logs \/ ("default" \in logs /\ ~q.explicit)
    THEN "indeterminate"
    ELSE IF "bad" \in logs \/ "default" \in logs THEN "fail" ELSE "pass"

\* The first matching profile by id.
Verdict(s) ==
    IF Matched(s) = {} THEN [access |-> policy.unmatched, error |-> policy.unmatched]
    ELSE LET p == policy.profiles[First(Matched(s))]
         IN [access |-> AccessVerdict(s, p), error |-> ErrorVerdict(s, p)]

Resolved == Built /\ DOMAIN effective = Scopes

AssessScope ==
    /\ Resolved
    /\ \E s \in Material \ DOMAIN verdicts :
          verdicts' = [t \in DOMAIN verdicts \cup {s} |->
                          IF t = s THEN Verdict(s) ELSE verdicts[t]]
    /\ UNCHANGED <<scopeVars, access, errors, names, pattern, policy, effective>>

Next == (ScopesNext /\ UNCHANGED logVars) \/ ResolveScope \/ AssessScope

Spec == Init /\ [][Next]_vars

-----------------------------------------------------------------------------
(* Properties of logging. *)

\* Types of the variables.
TypeOK ==
    /\ ScopesTypeOK
    /\ DOMAIN effective \subseteq Scopes
    /\ \A s \in DOMAIN effective :
          /\ effective[s].state \in {"enabled", "off", "unknown"}
          /\ effective[s].logs \subseteq Destination
          /\ effective[s].state # "enabled" => effective[s].logs = {}
          /\ effective[s].errors \subseteq {"good", "bad", "unsure", "default"} /\ effective[s].errors # {}
    /\ \A s \in DOMAIN verdicts : s \in Material

\* What nginx does: the access_log directives of the innermost level that has any,
\* else the default of http. Blocks that are no scopes count for the one they are in.
Levels(s) == {t \in Chain(s) : DeclaredAccess(t) # {} \/ kind[t] = "http"}
Innermost(s) == CHOOSE t \in Levels(s) : Levels(s) \subseteq Chain(t)
NginxLogs(s) ==
    LET declared == DeclaredAccess(Innermost(s))
    IN IF declared = {} THEN {DefaultLog} ELSE declared

\* A run of the server: whether conditions that are only known then hold, where
\* variable paths lead, what formats that are defined elsewhere contain.
World == [holds : BOOLEAN, pathApproved : BOOLEAN, formatGood : BOOLEAN]
Written(d, w) == d.cond \in {"none", "true"} \/ (d.cond \in {"listed", "unlisted"} /\ w.holds)
Fine(d, q, w) ==
    /\ CASE d.where = "variable" -> q.allowVariable /\ w.pathApproved
         [] d.where = "unknown" -> w.pathApproved
         [] OTHER -> q.restricted => d.approved
    /\ CASE d.format = "undefined" -> w.formatGood [] OTHER -> d.format = "good"
Permitted(d, q) ==
    d.cond \in {"listed", "unlisted"} =>
        q.conditional = "allow" \/ (q.conditional = "allow_listed" /\ d.cond = "listed")
\* What the profile asks of the logs that are written.
Satisfied(s, q, w) ==
    LET logs == NginxLogs(s) \ {Off}
        written == {d \in logs : Written(d, w)} IN
    /\ q.required => written # {} \/ (NginxLogs(s) = {Off} /\ q.allowOff)
    /\ \A d \in logs : Permitted(d, q)
    /\ \A d \in written : Fine(d, q, w)
    /\ q.remote => \E d \in written : d.where = "syslog"

\* No include failed that could change the scope, but for one that fails again later.
Whole(s) ==
    \A b \in DOMAIN tree : \A line \in tree[b].failed :
        scopeOf[b] \in Chain(s) => FailsAgainAfter(line, scopeOf[b])

\* A pass is earned: no include is missing that could change it, and whatever happens
\* at run time, the logs of the scope satisfy every profile that was written for it.
PassIsEarned ==
    \A s \in DOMAIN verdicts : \A i \in Matched(s) : verdicts[s].access = "pass" =>
        /\ Whole(s)
        /\ \A w \in World : Satisfied(s, policy.profiles[i], w)

\* A fail is real: there is no run in which the profile is satisfied.
FailIsReal ==
    \A s \in DOMAIN verdicts : \A i \in Matched(s) : verdicts[s].access = "fail" =>
        /\ Whole(s)
        /\ \A w \in World : ~Satisfied(s, policy.profiles[i], w)

\* The error log of a scope passes or fails on that of the innermost level that
\* has one; nginx's own default is nobody's explicit choice. A scope whose access logs
\* contradict each other is not judged by its error log either.
ErrorVerdictIsTrue ==
    \A s \in DOMAIN verdicts : Matched(s) # {} /\ verdicts[s].error \in {"pass", "fail"} =>
        /\ Whole(s) /\ ~(Off \in DeclaredAccess(s) /\ DeclaredAccess(s) \ {Off} # {})
        /\ LET levels == {t \in Chain(s) : DeclaredErrors(t) # {}} IN
           IF levels = {} THEN verdicts[s].error = "fail"
           ELSE LET t == CHOOSE x \in levels : levels \subseteq Chain(x)
                IN (verdicts[s].error = "pass") <=> (DeclaredErrors(t) = {"good"})

\* A logging policy is passed or failed only if it is in every run of the server.
LoggingVerdictsAreTrue == TypeOK /\ PassIsEarned /\ FailIsReal /\ ErrorVerdictIsTrue

=============================================================================
