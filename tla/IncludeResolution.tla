-------------------------- MODULE IncludeResolution --------------------------
(***************************************************************************)
(* resolve_includes of nginx, Apache and lighttpd: the parsed main file is *)
(* rewritten in place, each include directive replaced by the directives   *)
(* of the files it names, which are read, parsed and resolved in turn.     *)
(*                                                                         *)
(* The recursion of _resolve_include_nodes is a stack of frames here, one  *)
(* per list of nodes being rewritten.  Blocks only nest nodes and are left *)
(* out.  A file is what Path.resolve makes of the path that names it.      *)
(***************************************************************************)
EXTENDS Integers, FiniteSets, SequencesExt

CONSTANTS
    File,     \* the files there may be
    Root,     \* the main configuration file
    Items,    \* the items a file may hold or a command print
    Jobs      \* the calls [server, text, status, shell] of resolve_includes

(***************************************************************************)
(* job.text[f] is the sequence of items of file f:                         *)
(*   [kind: "directive", id]          any other directive                  *)
(*   [kind: "include", id, targets]   include, with the files its argument *)
(*                                    expands to; a literal path has one   *)
(*                                    target even if it does not exist     *)
(*   [kind: "optional", id, targets]  IncludeOptional (Apache)             *)
(*   [kind: "opaque", id]             an argument nginx leaves alone, such *)
(*                                    as one with a variable               *)
(*   [kind: "shell", id, line, prints, output] include_shell (lighttpd),   *)
(*                                    and the items of what the command    *)
(*                                    prints if that is "ok"; it may be    *)
(*                                    "nothing" (the command fails) or     *)
(*                                    "malformed"                          *)
(* job.status[f] is what reading f comes to: "ok", "missing", "unreadable",*)
(* "undecodable" or "malformed".                                           *)
(***************************************************************************)

JobsAssumption ==
    /\ Root \in File /\ IsFiniteSet(File) /\ IsFiniteSet(Items)
    /\ \A item \in Items :
        /\ item.kind \in {"include", "optional"} => item.targets \in Seq(File)
        /\ item.kind = "shell" => item.line \notin File /\ item.output \in Seq(Items)
    /\ \A call \in Jobs : \A f \in File : call.text[f] \in Seq(Items)
ASSUME JobsAssumption

VARIABLES
    phase,    \* "resolving", "done"; "raised": an exception left resolve_includes
    job,      \* the call
    stack,    \* frames [file, source, todo, pending, by, chain], the innermost last
    output,   \* ids of the nodes of the rewritten tree, in document order
    issues,   \* issues, as <<code, id of the include, target>>
    edges,    \* LoadContext.edges, as <<source, id of the include, target>>
    loads     \* history variable: the include chain of every file resolved

vars == <<phase, job, stack, output, issues, edges, loads>>

(***************************************************************************)
(* Frames.  todo: the items still to be rewritten; pending: which targets  *)
(* of the include item `by` are still to be opened, by their places; chain:*)
(* include_chain.  file is current_file, source where the parser found the *)
(* items: that file, or the shell target whose output they are             *)
(* (_directive_source_file).                                               *)
(***************************************************************************)
NoItem == [kind |-> "none", id |-> "none", targets |-> <<>>]

Frame(file, source, items, chain) ==
    [file |-> file, source |-> source, todo |-> items, pending |-> {},
     by |-> NoItem, chain |-> chain]

Members(s) == {s[i] : i \in 1..Len(s)}

Top  == stack[Len(stack)]
Item == Head(Top.todo)

\* The targets are opened in the order the argument expands to.
NextPlace == CHOOSE i \in Top.pending : \A j \in Top.pending : i =< j
Target    == Top.by.targets[NextPlace]

\* The stack with its innermost frame replaced.
WithTop(frame) == [stack EXCEPT ![Len(stack)] = frame]
ItemDone   == [Top EXCEPT !.todo = Tail(@)]
TargetDone == [Top EXCEPT !.pending = @ \ {NextPlace}]

\* Mutant: the included file takes the place of the including one.
MutantPushInstead(s, frame) == [s EXCEPT ![Len(s)] = frame]

Push(s, frame) == Append(s, frame)

AtItem   == phase = "resolving" /\ stack # <<>> /\ Top.pending = {} /\ Top.todo # <<>>
AtTarget == phase = "resolving" /\ stack # <<>> /\ Top.pending # {}

Init ==
    /\ phase = "resolving"
    /\ job \in Jobs
    /\ stack = <<Frame(Root, Root, job.text[Root], <<Root>>)>>
    /\ output = <<>> /\ issues = {} /\ edges = {}
    /\ loads = {<<Root>>}

(***************************************************************************)
(* Items.                                                                  *)
(***************************************************************************)
KeepNode ==
    /\ AtItem /\ Item.kind \in {"directive", "opaque"}
    /\ output' = Append(output, Item.id)
    /\ stack' = WithTop(ItemDone)
    /\ UNCHANGED <<phase, job, issues, edges, loads>>

\* _include_paths (nginx) keeps a literal path without looking; the other two
\* (_expand_include_paths) keep only what is a file.
Paths(item) ==
    {i \in DOMAIN item.targets :
        job.server = "nginx" \/ job.status[item.targets[i]] # "missing"}

\* Mutant: an Include without any target is dropped like an IncludeOptional.
MutantSilentMissingInclude(item) == issues

\* apache_include_not_found and lighttpd_include_not_found of a directive that
\* expands to nothing; nginx has none for a pattern without a match.
IssuesOfNoTarget(item) ==
    IF job.server # "nginx" /\ item.kind = "include"
    THEN issues \cup {<<"not_found", item.id, "none">>}
    ELSE issues

IncludeNothing ==
    /\ AtItem /\ Item.kind \in {"include", "optional"} /\ Paths(Item) = {}
    /\ stack' = WithTop(ItemDone)
    /\ issues' = IssuesOfNoTarget(Item)
    /\ UNCHANGED <<phase, job, output, edges, loads>>

StartInclude ==
    /\ AtItem /\ Item.kind \in {"include", "optional"} /\ Paths(Item) # {}
    /\ stack' = WithTop([ItemDone EXCEPT !.pending = Paths(Item), !.by = Item])
    /\ UNCHANGED <<phase, job, output, issues, edges, loads>>

\* What becomes of an include that could not be followed: nginx keeps the
\* directive in the tree, the others drop it.
Unfollowed == IF job.server = "nginx" THEN Append(output, Top.by.id) ELSE output

(***************************************************************************)
(* Targets of an include.                                                  *)
(***************************************************************************)
\* Mutant: the chain holds only the innermost file.
MutantOpenNow(f) == f = Top.file

\* f is being resolved further out.
OpenNow(f) == f \in Members(Top.chain)

RefuseSelfInclude ==
    /\ AtTarget /\ Target = Top.file
    /\ issues' = issues \cup {<<"self_include", Top.by.id, Target>>}
    /\ output' = Unfollowed
    /\ stack' = WithTop(TargetDone)
    /\ UNCHANGED <<phase, job, edges, loads>>

RefuseCycle ==
    /\ AtTarget /\ Target # Top.file /\ OpenNow(Target)
    /\ issues' = issues \cup {<<"cycle", Top.by.id, Target>>}
    /\ output' = Unfollowed
    /\ stack' = WithTop(TargetDone)
    /\ UNCHANGED <<phase, job, edges, loads>>

Followed == AtTarget /\ Target # Top.file /\ ~OpenNow(Target)

\* Mutant: the edge of every include starts at the main file.
MutantEdgeFromRoot(by, target) == <<Root, by, target>>

Edge(by, target) == <<Top.source, by, target>>

\* The edge is recorded before the file is read.
AddEdge == edges' = edges \cup {Edge(Top.by.id, Target)}

\* _parse_include_file returns None: OSError, *ParseError and, for Apache only,
\* UnicodeDecodeError.
FileIssue(f) ==
    IF job.status[f] \in {"missing", "unreadable"} THEN "not_found"
    ELSE IF job.status[f] = "malformed" THEN "parse_error"
    ELSE "read_error"

Caught(f) ==
    \/ job.status[f] \in {"missing", "unreadable", "malformed"}
    \/ job.status[f] = "undecodable" /\ job.server = "apache"

IncludeFails ==
    /\ Followed /\ Caught(Target)
    /\ AddEdge
    /\ issues' = issues \cup {<<FileIssue(Target), Top.by.id, Target>>}
    /\ output' = Unfollowed
    /\ stack' = WithTop(TargetDone)
    /\ UNCHANGED <<phase, job, loads>>

\* nginx and lighttpd do not catch UnicodeDecodeError here, nor do their callers.
DecodeErrorEscapes ==
    /\ Followed /\ job.status[Target] = "undecodable" /\ ~Caught(Target)
    /\ AddEdge
    /\ phase' = "raised"
    /\ UNCHANGED <<job, stack, output, issues, loads>>

\* include_chain of an included file.
ChainFor(f) == Append(Top.chain, f)

\* Mutant: the pending targets are put behind the include file instead of before.
MutantAfterTarget == [Top EXCEPT !.pending = {}]

\* The rest of the enclosing frame while a target is resolved.
AfterTarget == TargetDone

IncludeFile ==
    /\ Followed /\ job.status[Target] = "ok"
    /\ AddEdge
    /\ loads' = loads \cup {ChainFor(Target)}
    /\ stack' = Push(WithTop(AfterTarget),
                     Frame(Target, Target, job.text[Target], ChainFor(Target)))
    /\ UNCHANGED <<phase, job, output, issues>>

(***************************************************************************)
(* include_shell.  The chain holds its line number, without the file.      *)
(***************************************************************************)
ShellTarget(item) == item.line

ShellCycle ==
    /\ AtItem /\ Item.kind = "shell" /\ OpenNow(ShellTarget(Item))
    /\ issues' = issues \cup {<<"cycle", Item.id, ShellTarget(Item)>>}
    /\ stack' = WithTop(ItemDone)
    /\ UNCHANGED <<phase, job, output, edges, loads>>

ShellSkipped ==
    /\ AtItem /\ Item.kind = "shell" /\ ~OpenNow(ShellTarget(Item)) /\ ~job.shell
    /\ issues' = issues \cup {<<"shell_skipped", Item.id, "none">>}
    /\ edges' = edges \cup {Edge(Item.id, "shell:skipped")}
    /\ stack' = WithTop(ItemDone)
    /\ UNCHANGED <<phase, job, output, loads>>

\* Mutant: a failing command is run again until it succeeds.
MutantAfterFailure == Top

\* The enclosing frame after a failed command.
AfterFailure == ItemDone

\* The command fails, which is a warning, or prints what does not parse.
ShellFails ==
    /\ AtItem /\ Item.kind = "shell" /\ ~OpenNow(ShellTarget(Item)) /\ job.shell
    /\ Item.prints # "ok"
    /\ edges' = edges \cup {Edge(Item.id, ShellTarget(Item))}
    /\ issues' = issues \cup {<<IF Item.prints = "malformed" THEN "parse_error"
                               ELSE "shell_failed", Item.id, "none">>}
    /\ stack' = WithTop(AfterFailure)
    /\ UNCHANGED <<phase, job, output, loads>>

\* What it prints is resolved in place; the including file stays current_file.
RunShell ==
    /\ AtItem /\ Item.kind = "shell" /\ ~OpenNow(ShellTarget(Item)) /\ job.shell
    /\ Item.prints = "ok"
    /\ edges' = edges \cup {Edge(Item.id, ShellTarget(Item))}
    /\ stack' = Push(WithTop(ItemDone),
                     Frame(Top.file, ShellTarget(Item), Item.output,
                           ChainFor(ShellTarget(Item))))
    /\ loads' = loads \cup {ChainFor(ShellTarget(Item))}
    /\ UNCHANGED <<phase, job, output, issues>>

\* _resolve_include_nodes returns.
Return ==
    /\ phase = "resolving" /\ stack # <<>> /\ Top.pending = {} /\ Top.todo = <<>>
    /\ stack' = SubSeq(stack, 1, Len(stack) - 1)
    /\ phase' = IF Len(stack) = 1 THEN "done" ELSE "resolving"
    /\ UNCHANGED <<job, output, issues, edges, loads>>

Next ==
    \/ KeepNode \/ IncludeNothing \/ StartInclude
    \/ RefuseSelfInclude \/ RefuseCycle \/ IncludeFails \/ DecodeErrorEscapes
    \/ IncludeFile
    \/ ShellCycle \/ ShellSkipped \/ ShellFails \/ RunShell
    \/ Return

\* A sequential program.
Spec == Init /\ [][Next]_vars /\ WF_vars(Next)

(***************************************************************************)
(* Properties.                                                             *)
(***************************************************************************)
TypeOK ==
    /\ phase \in {"resolving", "done", "raised"}
    /\ \A i \in 1..Len(stack) : /\ stack[i].file \in File
                                /\ stack[i].pending \subseteq DOMAIN stack[i].by.targets
    /\ \A i \in 1..Len(stack) : stack[i].chain \in loads
    /\ stack # <<>> => stack[1].file = Root
    /\ phase = "done" <=> stack = <<>>

Distinct(s) == \A i, j \in 1..Len(s) : s[i] = s[j] => i = j

\* No file is ever resolved inside itself, directly or through others, whatever
\* the includes look like: that is what bounds the recursion.
NeverOpenTwice ==
    \A i \in 1..Len(stack) : Distinct(stack[i].chain) /\ Head(stack[i].chain) = Root

\* Every include of item it, met while the file at the end of chain p is resolved,
\* is followed or has an issue of its own that names the target.
\* (What is silent by design: an IncludeOptional or an nginx pattern without a
\* match, which have no targets, and an opaque nginx argument.)
NoIncludeLost ==
    phase = "done" =>
        \A p \in loads : p[Len(p)] \in File =>
            \A it \in Members(job.text[p[Len(p)]]) : it.kind \in {"include", "optional"} =>
                /\ \A f \in {it.targets[i] : i \in Paths(it)} :
                     Append(p, f) \notin loads =>
                         \E issue \in issues : issue[2] = it.id /\ issue[3] = f
                /\ Paths(it) = {} /\ it.kind = "include" /\ job.server # "nginx" =>
                     <<"not_found", it.id, "none">> \in issues

\* The include graph in the result's metadata explains every file and every command
\* that contributed: each step of each include chain is an edge of it.
GraphExplainsLoads ==
    \A p \in loads : \A i \in 2..Len(p) :
        \E e \in edges : e[1] = p[i - 1] /\ e[3] = p[i]

\* So the result tells of every include, followed or not.
IncludesAreTold == NoIncludeLost /\ GraphExplainsLoads

(***************************************************************************)
(* What resolution is meant to produce: includes and commands expanded      *)
(* recursively, in document order. `open` is what is being resolved around, *)
(* `texts` what the texts of files become further in.                       *)
(***************************************************************************)
Sources == File \cup {item.line : item \in {it \in Items : it.kind = "shell"}}

TargetText(call, it, f, open, texts) ==
    IF f \notin open /\ call.status[f] = "ok" THEN texts[open \cup {f}][call.text[f]]
    ELSE IF call.server = "nginx" THEN <<it.id>> ELSE <<>>

ItemText(call, it, open, texts) ==
    IF it.kind \in {"directive", "opaque"} THEN <<it.id>>
    ELSE IF it.kind \in {"include", "optional"}
    THEN FlattenSeq([i \in DOMAIN it.targets |->
                        TargetText(call, it, it.targets[i], open, texts)])
    ELSE IF it.kind = "shell" /\ it.line \notin open /\ call.shell /\ it.prints = "ok"
    THEN texts[open \cup {it.line}][it.output]
    ELSE <<>>

ItemsText(call, items, open, texts) ==
    FlattenSeq([i \in DOMAIN items |-> ItemText(call, items[i], open, texts)])

\* The recursion ends: what is open only grows.
Expansions(call) ==
    LET texts[open \in SUBSET Sources] ==
            [items \in Seq(Items) |-> ItemsText(call, items, open, texts)]
    IN texts

\* The rewritten tree is the recursive expansion of the main file: every directive
\* of every file that can be reached is in it, where its include directive stood
\* and in the order of the targets, as often as it is included.
OutputIsExpansion ==
    phase = "done" => output = Expansions(job)[{Root}][job.text[Root]]

\* Resolution ends, for cyclic includes too.
ResolutionEnds == <>(phase \in {"done", "raised"})

\* nginx/include.py:25, "collecting issues instead of raising".
NothingIsRaised == job.server = "nginx" => phase # "raised"
===============================================================================
