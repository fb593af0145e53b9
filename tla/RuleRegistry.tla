------------------------------ MODULE RuleRegistry ------------------------------
(***************************************************************************)
(* The rule registries and the import system that fills them               *)
(* (rule_registry.py).  Importing a rule module runs its @rule decorators,  *)
(* which register on the global registry only; ensure_loaded() of any       *)
(* registry imports the modules of a package and registers the decorated    *)
(* functions it finds in them.  Any import may raise, after any number of   *)
(* its decorators ran.                                                      *)
(***************************************************************************)
EXTENDS Naturals, Sequences, SequencesExt

CONSTANTS
    Registry, Global,   \* the registries; the module-level singleton is one of them
    Package,            \* rule packages passed to ensure_loaded()
    Public,             \* package -> the sequence of its public submodules (<<>>: no __path__)
    Private,            \* package -> the submodules its __init__ imports first
    Defines,            \* module or package -> the rules it registers while it is imported, in order
    Exposes,            \* module -> the decorated functions found by dir(), in order
    MetaRule,           \* rules with metadata only (_EXTERNAL_RULE_METAS), registered by a package
    NoCall

Modules == UNION {ToSet(Public[p]) \cup ToSet(Private[p]) : p \in Package}
Importable == Modules \cup Package
Rule == UNION {ToSet(Defines[m]) : m \in Importable}
WithFunction == Rule \ MetaRule
RulesOf(p) == UNION {ToSet(Exposes[m]) : m \in ToSet(Public[p])}

\* Only a package's own body registers metadata-only rules, every decorated
\* function is found in a public module, and no module has two names for one.
ASSUME RegistryAssumption ==
    /\ Global \in Registry
    /\ Public \in [Package -> Seq(Modules)] /\ Private \in [Package -> Seq(Modules)]
    /\ Defines \in [Importable -> Seq(Rule)] /\ Exposes \in [Modules -> Seq(WithFunction)]
    /\ \A m \in Modules : IsInjective(Exposes[m])
    /\ WithFunction = UNION {RulesOf(p) : p \in Package}
    /\ \A m \in Modules : ToSet(Defines[m]) \subseteq WithFunction
    /\ \A p \in Package : ToSet(Defines[p]) \subseteq MetaRule
    /\ MetaRule \subseteq Rule

VARIABLES
    cached,       \* sys.modules: what was imported to its end
    catalog,      \* per registry: rules with metadata
    executable,   \* per registry: rules with a function
    loaded,       \* per registry: _loaded_packages
    call,         \* the ensure_loaded() under way
    duplicate,    \* a register() raised "Duplicate rule_id"
    revisions     \* history: the catalogs whose revision a written report carried

vars == <<cached, catalog, executable, loaded, call, duplicate, revisions>>

Init ==
    /\ cached = {}
    /\ catalog = [g \in Registry |-> {}]
    /\ executable = [g \in Registry |-> {}]
    /\ loaded = [g \in Registry |-> {}]
    /\ call = NoCall
    /\ duplicate = FALSE
    /\ revisions = {}

\* @rule registers on the global registry, unless the id is known there; a
\* package's body registers its metadata-only rules likewise.

MutantCatalogOnly(rules) ==
    /\ catalog' = [catalog EXCEPT ![Global] = @ \cup rules]
    /\ UNCHANGED executable

Decorate(rules) ==
    /\ catalog' = [catalog EXCEPT ![Global] = @ \cup rules]
    /\ executable' = [executable EXCEPT ![Global] = @ \cup (rules \ (catalog[Global] \cup MetaRule))]

\* ensure_loaded(): nothing to do for a loaded package; a package without
\* __path__ has nothing but its own import.
MutantMarkedFirst(g, p) ==
    /\ call = NoCall
    /\ p \notin loaded[g]
    /\ call' = [registry |-> g, package |-> p,
                todo |-> (IF p \in cached THEN <<>> ELSE Private[p] \o <<p>>) \o Public[p]]
    /\ loaded' = [loaded EXCEPT ![g] = @ \cup {p}]
    /\ UNCHANGED <<cached, catalog, executable, duplicate, revisions>>

EnsureLoaded(g, p) ==
    /\ call = NoCall
    /\ p \notin loaded[g]
    /\ call' = [registry |-> g, package |-> p,
                todo |-> (IF p \in cached THEN <<>> ELSE Private[p] \o <<p>>) \o Public[p]]
    /\ UNCHANGED <<cached, catalog, executable, loaded, duplicate, revisions>>

\* import_module() of a module in sys.modules runs nothing.
ImportCached ==
    /\ call # NoCall /\ call.todo # <<>>
    /\ Head(call.todo) \in cached
    /\ call' = [call EXCEPT !.todo = Tail(@)]
    /\ UNCHANGED <<cached, catalog, executable, loaded, duplicate, revisions>>

ImportRuns ==
    /\ call # NoCall /\ call.todo # <<>>
    /\ LET m == Head(call.todo)
       IN  /\ m \notin cached
           /\ cached' = cached \cup {m}
           /\ Decorate(ToSet(Defines[m]))
    /\ call' = [call EXCEPT !.todo = Tail(@)]
    /\ UNCHANGED <<loaded, duplicate, revisions>>

\* The module raises after its first k registrations: they stay, the module
\* leaves sys.modules, and the exception leaves ensure_loaded().
ImportRaises ==
    /\ call # NoCall /\ call.todo # <<>>
    /\ LET m == Head(call.todo)
       IN  /\ m \notin cached
           /\ \E k \in 0..Len(Defines[m]) : Decorate(ToSet(SubSeq(Defines[m], 1, k)))
    /\ call' = NoCall
    /\ UNCHANGED <<cached, loaded, duplicate, revisions>>

\* _register_decorated_rules(): module after module, every decorated function that
\* was not in the catalog when the module was reached goes through register(),
\* which refuses an id the catalog holds by then.
MutantUnfiltered(known, modules) ==
    [rules     |-> known \cup UNION {ToSet(Exposes[m]) : m \in ToSet(modules)},
     duplicate |-> \E m \in ToSet(modules) : ToSet(Exposes[m]) \cap known # {}]

RegisterDecorated(known, modules) ==
    LET before(i) == known \cup UNION {ToSet(Exposes[modules[j]]) : j \in 1..(i - 1)}
    IN  [rules     |-> known \cup UNION {ToSet(Exposes[m]) : m \in ToSet(modules)},
         duplicate |-> \E i \in DOMAIN modules :
                          \E a, b \in DOMAIN Exposes[modules[i]] :
                              /\ a # b
                              /\ Exposes[modules[i]][a] = Exposes[modules[i]][b]
                              /\ Exposes[modules[i]][a] \notin before(i)]

\* The imports are done: register what they expose and mark the package.
FinishLoading ==
    /\ call # NoCall /\ call.todo = <<>>
    /\ LET g == call.registry
           result == RegisterDecorated(catalog[g], Public[call.package])
       IN  /\ catalog' = [catalog EXCEPT ![g] = result.rules]
           /\ executable' = [executable EXCEPT ![g] = @ \cup (result.rules \ catalog[g])]
           /\ loaded' = IF result.duplicate THEN loaded
                        ELSE [loaded EXCEPT ![g] = @ \cup {call.package}]
           /\ duplicate' = (duplicate \/ result.duplicate)
    /\ call' = NoCall
    /\ UNCHANGED <<cached, revisions>>

\* register_external_rule_metas(registry), which needs the package imported.
RegisterMetas(g) ==
    /\ call = NoCall
    /\ \E p \in Package \cap cached : MetaRule \subseteq ToSet(Defines[p])
    /\ catalog' = [catalog EXCEPT ![g] = @ \cup MetaRule]
    /\ UNCHANGED <<cached, executable, loaded, call, duplicate, revisions>>

\* clear(): the modules stay in sys.modules.
Clear(g) ==
    /\ call = NoCall
    /\ catalog' = [catalog EXCEPT ![g] = {}]
    /\ executable' = [executable EXCEPT ![g] = {}]
    /\ loaded' = [loaded EXCEPT ![g] = {}]
    /\ UNCHANGED <<cached, call, duplicate, revisions>>

\* Writing a report: every package was loaded on the global registry and the
\* metadata-only rules are registered again, then the revision is taken.

WriteReport ==
    /\ call = NoCall
    /\ loaded[Global] = Package
    /\ catalog' = [catalog EXCEPT ![Global] = @ \cup MetaRule]
    /\ revisions' = revisions \cup {catalog'[Global]}
    /\ UNCHANGED <<cached, executable, loaded, call, duplicate>>

Next ==
    \/ \E g \in Registry : Clear(g) \/ RegisterMetas(g) \/ \E p \in Package : EnsureLoaded(g, p)
    \/ ImportCached \/ ImportRuns \/ ImportRaises \/ FinishLoading \/ WriteReport

Spec == Init /\ [][Next]_vars

(***************************************************************************)
(* Properties.                                                             *)
(***************************************************************************)

\* The registries hold rules and packages, and only rules with a function are
\* executable.
TypeOK ==
    /\ cached \subseteq Importable
    /\ catalog \in [Registry -> SUBSET Rule]
    /\ executable \in [Registry -> SUBSET WithFunction]
    /\ loaded \in [Registry -> SUBSET Package]
    /\ call = NoCall \/ call \in [registry : Registry, package : Package, todo : Seq(Importable)]
    /\ duplicate \in BOOLEAN
    /\ revisions \subseteq SUBSET Rule

\* ensure_loaded() is a no-op for a loaded package (rule_registry.py:292), so a
\* package is marked loaded only with all its rules executable there: an import
\* that raised half way, a second registry that found every module cached, or a
\* clear() must leave no registry that runs a part of a package for ever.
LoadedMeansComplete == \A g \in Registry : \A p \in loaded[g] : RulesOf(p) \subseteq executable[g]

\* What makes that inductive: a rule with a function that is in a catalog is
\* executable there, for the scan skips every rule the catalog has.
CataloguedIsExecutable == \A g \in Registry : executable[g] = catalog[g] \ MetaRule

\* The two ways to the global registry, the decorator at import time and the scan
\* of the modules, never make register() raise on a rule it knows, whatever was
\* imported, cleared or left half imported before.
NeverDuplicate == ~duplicate

\* Every report is stamped with one and the same registry revision, whichever
\* analyses, failed imports and clears came before it: `assess` refuses a report
\* whose revision is not the one it computes.
OneRevision == revisions \subseteq {Rule}

\* Whatever was imported, cleared or left half imported before, the registries answer
\* as if they had been loaded afresh.
RegistryIsSound ==
    /\ TypeOK
    /\ CataloguedIsExecutable
    /\ LoadedMeansComplete
    /\ NeverDuplicate
    /\ OneRevision
================================================================================
