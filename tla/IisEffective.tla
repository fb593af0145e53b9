------------------------------ MODULE IisEffective ------------------------------
(***************************************************************************)
(* The effective configuration of IIS (local/iis/effective.py): the        *)
(* sections of machine.config, applicationHost.config and one web.config   *)
(* are merged per file, globally and for each <location>, and then file    *)
(* over file for the application that the web.config belongs to. The       *)
(* sections are read one by one, so that every state stands for the files  *)
(* read so far. A location is the sequence of its path's parts, <<>> if    *)
(* there is none; so the views of a configuration are indexed alike.       *)
(***************************************************************************)
EXTENDS Integers, Sequences, FiniteSets, FiniteSetsExt, SequencesExt, Functions, TLC

CONSTANTS
    Contents,       \* what may be said: [path, attributes, children], a path being the
                    \* sequence of tags below <configuration>
    Locations,      \* of applicationHost.config, not <<>>
    Inherits,       \* values of inheritInChildApplications
    App,            \* the site or application of the web.config
    Files,          \* files that there are
    MaxSections     \* sections that say something, in all files

VARIABLES files     \* the sections read: [file -> sequence of sections]

vars == <<files>>

AllFiles == <<"machine", "host", "web">>
Init == files = [f \in ToSet(AllFiles) |-> <<>>]

Later(f) == {AllFiles[i] : i \in {i \in 1 .. 3 : \E j \in 1 .. i - 1 : AllFiles[j] = f}}

Paths == {c.path : c \in Contents}

\* _append_section_tree: the elements around a section are sections as well.
Tree(c) ==
    [d \in 1 .. Len(c.path) - 1 |->
        [path |-> SubSeq(c.path, 1, d), attributes |-> <<>>, children |-> <<>>]] \o <<c>>

\* Elements that say something.
Spoken(f) == Len(SelectSeq(files[f], LAMBDA s : s.attributes # <<>> \/ s.children # <<>>))

Read(f, c, location, inherit) ==
    /\ FoldSet(LAMBDA g, n : n + Spoken(g), 0, DOMAIN files) < MaxSections
    /\ \A g \in Later(f) : files[g] = <<>>
    /\ files' = [files EXCEPT ![f] = @ \o
                     [i \in DOMAIN Tree(c) |->
                         Tree(c)[i] @@ [file |-> f, location |-> location, inherit |-> inherit]]]

ReadGlobal(f) == \E c \in Contents : Read(f, c, <<>>, TRUE)
ReadLocation ==
    /\ "host" \in Files
    /\ \E c \in Contents, l \in Locations, i \in Inherits : Read("host", c, l, i)

Next == ReadLocation \/ \E f \in Files : ReadGlobal(f)
Spec == Init /\ [][Next]_vars

-----------------------------------------------------------------------------
(* Collections: _merge_children *)

RemoveKeys == <<{"statusCode"}, {"ipAddress", "subnetMask"}, {"ipAddress"},
                {"name", "path", "verb"}, {"name"}, {"path", "verb"}, {"path"}>>

\* The first key group that the <remove> has in full, or all that it says.
MatchedBy(remove) ==
    LET full == {i \in DOMAIN RemoveKeys : RemoveKeys[i] \subseteq DOMAIN remove}
    IN IF full = {} THEN DOMAIN remove ELSE RemoveKeys[Min(full)]

Matches(child, remove) ==
    \A k \in MatchedBy(remove) : k \in DOMAIN child /\ child[k] = remove[k]

MutantMergeChild(children, c) == IF c.tag = "add" THEN Append(children, c) ELSE <<>>
MergeChild(children, c) ==
    CASE c.tag = "clear" -> <<>>
      [] c.tag = "remove" /\ c.attributes = <<>> -> children
      [] c.tag = "remove" /\ c.attributes # <<>> ->
             SelectSeq(children, LAMBDA d : ~Matches(d.attributes, c.attributes))
      [] OTHER -> Append(children, c)

MergeChildren(children, incoming) == FoldLeft(MergeChild, children, incoming)

-----------------------------------------------------------------------------
(* One file: build_effective_config *)

NoSection == [attributes |-> <<>>, children |-> <<>>, operations |-> <<>>,
              origins |-> <<>>, inherit |-> TRUE, path |-> <<>>]

MutantMerged(e, s) ==
    [attributes |-> s.attributes @@ e.attributes,
     children |-> MergeChildren(e.children, s.children),
     operations |-> s.children,
     origins |-> e.origins, inherit |-> s.inherit, path |-> s.path]
Merged(e, s) ==
    [attributes |-> s.attributes @@ e.attributes,
     children |-> MergeChildren(e.children, s.children),
     operations |-> e.operations \o s.children,
     origins |-> Append(e.origins, [file |-> s.file, location |-> s.location, path |-> s.path]),
     inherit |-> e.inherit /\ s.inherit,
     path |-> s.path]

\* Sections are told apart by the last tag of their path.
Suffix(path) == Last(path)
SuffixesAt(f, l) == {Suffix(s.path) : s \in {s \in ToSet(files[f]) : s.location = l}}
Raw(f, l, suffix) == SelectSeq(files[f], LAMBDA s : s.location = l /\ Suffix(s.path) = suffix)

Overridden(f, l, parent) ==
    [x \in DOMAIN parent \cup SuffixesAt(f, l) |->
        FoldLeft(Merged, IF x \in DOMAIN parent THEN parent[x] ELSE NoSection, Raw(f, l, x))]

\* The nearest location above, the globals if there is none.
Above(l, locations) ==
    LET depths == {d \in 0 .. Len(l) - 1 : d = 0 \/ SubSeq(l, 1, d) \in locations}
    IN SubSeq(l, 1, Max(depths))

MutantParent(l, locations) == <<>>
Parent(l, locations) == Above(l, locations)

Build(f) ==
    LET locations == {s.location : s \in ToSet(files[f])} \ {<<>>}
        View[l \in locations \cup {<<>>}] ==
            Overridden(f, l, IF l = <<>> THEN <<>> ELSE View[Parent(l, locations)])
    IN View

-----------------------------------------------------------------------------
(* File over file: merge_effective_configs *)

At(config, l) == IF l \in DOMAIN config THEN config[l] ELSE config[Above(l, DOMAIN config)]

MutantOperations(over) == over.children
Operations(over) == IF over.operations # <<>> THEN over.operations ELSE over.children
MergePair(e, over) ==
    LET operations == Operations(over)
    IN [attributes |-> over.attributes @@ e.attributes,
        children |-> MergeChildren(e.children, operations),
        operations |-> e.operations \o operations,
        origins |-> e.origins \o over.origins,
        inherit |-> e.inherit /\ over.inherit,
        path |-> over.path]

MergeViews(base, over) ==
    [x \in DOMAIN base \cup DOMAIN over |->
        IF x \notin DOMAIN over THEN base[x]
        ELSE IF x \notin DOMAIN base THEN over[x]
        ELSE MergePair(base[x], over[x])]

Inherited(view) == [x \in {x \in DOMAIN view : view[x].inherit} |-> view[x]]
ForApplication(config, app) ==
    LET Kept(l) == IF IsPrefix(l, app) THEN Inherited(config[l]) ELSE config[l]
    IN [l \in {l \in DOMAIN config : l = <<>> \/ DOMAIN Kept(l) # {} \/ ~IsPrefix(l, app)} |-> Kept(l)]

MergeConfigs(base, over) ==
    [l \in DOMAIN base \cup DOMAIN over |-> MergeViews(At(base, l), At(over, l))]

\* _merge_machine_config, and the merge of each web.config with the result.
Base == MergeConfigs(Build("machine"), Build("host"))
Merge == MergeConfigs(ForApplication(Base, App), Build("web"))

\* get_effective_section_by_path
ByPath(view, path) == {view[x] : x \in {x \in DOMAIN view : view[x].path = path}}

\* is_pure_inheritance: views of a location that rules pass over.
MutantPure(section) == Head(section.origins).location = <<>>
Pure(section) == \A o \in ToSet(section.origins) : o.location = <<>>

-----------------------------------------------------------------------------
(* What IIS puts in force, from the sections of the files *)

Of(f, path, l) == SelectSeq(files[f], LAMBDA s : s.path = path /\ s.location = l)
\* Everything said of a section for a request below l, from the farthest on.
Said(path, l) ==
    FoldLeft(LAMBDA said, d : said \o Of("host", path, SubSeq(l, 1, d)),
             Of("machine", path, <<>>) \o Of("host", path, <<>>), [d \in 1 .. Len(l) |-> d])

Attributes(said) ==
    [a \in UNION {DOMAIN s.attributes : s \in ToSet(said)} |->
        LET i == Max({i \in DOMAIN said : a \in DOMAIN said[i].attributes}) IN said[i].attributes[a]]

\* An element is there until the collection is cleared or the element removed.
Elements(said) ==
    LET all == FoldLeft(LAMBDA c, s : c \o s.children, <<>>, said)
        Undone(i) == \E j \in i + 1 .. Len(all) :
                         \/ all[j].tag = "clear"
                         \/ /\ all[j].tag = "remove" /\ all[j].attributes # <<>>
                            /\ \A k \in DOMAIN all[j].attributes \cap UNION ToSet(RemoveKeys) :
                                   k \in DOMAIN all[i].attributes
                                   /\ all[i].attributes[k] = all[j].attributes[k]
        there == {i \in DOMAIN all : all[i].tag = "add" /\ ~Undone(i)}
    IN [n \in 1 .. Cardinality(there) |->
            all[CHOOSE i \in there : Cardinality({j \in there : j <= i}) = n]]

InForce(views, said) ==
    IF said = <<>> THEN views = {}
    ELSE \E v \in views : views = {v} /\ v.attributes = Attributes(said) /\ v.children = Elements(said)

\* IIS refuses a file that says one section twice for one location.
Loadable ==
    \A f \in DOMAIN files : \A i, j \in DOMAIN files[f] :
        i # j => \/ files[f][i].path # files[f][j].path
                 \/ files[f][i].location # files[f][j].location
                 \/ files[f][i].path \notin Paths

AppView(merge) == At(merge, App)
AllInherit == \A f \in DOMAIN files : \A s \in ToSet(files[f]) : s.inherit

TypeOK ==
    /\ \A f \in DOMAIN files : f \notin Files => files[f] = <<>>
    /\ LET merge == Merge IN \A l \in DOMAIN merge : \A x \in DOMAIN merge[l] :
           Suffix(merge[l][x].path) = x /\ merge[l][x].origins # <<>>

\* The section that rules read for a location of applicationHost.config, or
\* globally, is what IIS puts in force there: nothing of the locations above is
\* lost, elements that were cleared or removed do not come back.
ViewIsInForce ==
    LET base == Base IN
    Loadable => \A l \in DOMAIN base : \A p \in Paths : InForce(ByPath(base[l], p), Said(p, l))

\* The view that stands for the application of a web.config, that of the nearest
\* location above it, is what is in force at its root, the web.config last.
AppIsInForce ==
    Loadable /\ AllInherit => \A p \in Paths :
        InForce(ByPath(AppView(Merge), p), Said(p, App) \o Of("web", p, <<>>))

\* Rules pass over a section of a location that only repeats the global one:
\* it is then reported globally, with the same content.
PassedOverIsGlobal ==
    LET merge == Merge IN
    AllInherit => \A l \in DOMAIN merge : \A x \in DOMAIN merge[l] :
        Pure(merge[l][x]) =>
            /\ x \in DOMAIN merge[<<>>]
            /\ merge[l][x].attributes = merge[<<>>][x].attributes
            /\ merge[l][x].children = merge[<<>>][x].children

=============================================================================
