---------------------------- MODULE LighttpdEffective ----------------------------
(***************************************************************************)
(* The effective configuration of lighttpd (local/lighttpd/effective.py,   *)
(* conditions.py): the statements of a configuration are read one by one   *)
(* into globals and a list of conditional scopes, which are merged for a   *)
(* request whose host is known, or for none in particular. Every state     *)
(* stands for the configuration read so far, its open blocks closed. The   *)
(* value of a directive is the statements whose texts are joined in it.    *)
(***************************************************************************)
EXTENDS Integers, Sequences, FiniteSets, FiniteSetsExt, SequencesExt, Functions

CONSTANTS
    Conditions,     \* what blocks ask: [variable, operator, value], a value being a sequence
    Assignments,    \* what may be said: [name, operator, text]
    Hosts,          \* the hosts of requests
    MaxStatements   \* blocks opened and directives assigned

Unknown == <<>>     \* the host, if no context is given
NoCondition == [variable |-> "none", operator |-> "none", value |-> <<>>]
Absent == [value |-> <<>>, operator |-> "none", conditions |-> <<>>, path |-> <<>>]

VARIABLES
    statements, \* the assignments read: [name, operator, text, in]
    blocks,     \* the blocks opened: [condition, parent, previous, header]
    globals,    \* [name -> directive]
    scopes,     \* [conditions, path, kind, previous, block, directives]
    open,       \* blocks being read, the file itself the first
    chains      \* chains of if and else seen

vars == <<statements, blocks, globals, scopes, open, chains>>

Top == open[Len(open)]
Frame(own, scope) == [own |-> own, scope |-> scope, chain |-> <<>>, chainId |-> 0]
File == [conditions |-> <<>>, path |-> <<>>, kind |-> "if", previous |-> <<>>, block |-> 0]
Nothing == [n \in {} |-> Absent]
Scope(own, directives) ==
    [conditions |-> own.conditions, path |-> own.path, kind |-> own.kind,
     previous |-> own.previous, block |-> own.block, directives |-> directives]

Init ==
    /\ statements = <<>> /\ blocks = <<>>
    /\ globals = Nothing /\ scopes = <<>>
    /\ open = <<Frame(File, 0)>>
    /\ chains = 0

Room == Len(statements) + Len(blocks) < MaxStatements

-----------------------------------------------------------------------------
(* _collect_nodes and _collect_block: blocks *)

NextChain(f, kind, index) ==
    CASE kind = "if" -> <<index>> [] kind = "else_if" -> Append(f.chain, index) [] OTHER -> <<>>

Open(kind, condition) ==
    LET f == Top
        previous == IF kind = "if" THEN <<>> ELSE f.chain
        new == kind = "if" \/ f.chainId = 0
        id == IF new THEN chains + 1 ELSE f.chainId
        index == Len(scopes) + 1
        own == [conditions |-> Append(f.own.conditions, condition),
                path |-> Append(f.own.path, <<id, Len(previous)>>),
                kind |-> kind, previous |-> previous, block |-> Len(blocks) + 1]
    IN /\ Room
       /\ kind # "if" => f.chain # <<>>
       /\ blocks' = Append(blocks, [condition |-> condition, parent |-> f.own.block,
                                    previous |-> {scopes[i].block : i \in ToSet(previous)}])
       /\ scopes' = Append(scopes, Scope(own, Nothing))
       /\ chains' = IF new THEN chains + 1 ELSE chains
       /\ open' = Append([open EXCEPT ![Len(open)] =
                              [@ EXCEPT !.scope = 0, !.chain = NextChain(f, kind, index),
                                        !.chainId = IF kind = "else" THEN 0 ELSE id]],
                         Frame(own, index))
       /\ UNCHANGED <<statements, globals>>

OpenIf == \E c \in Conditions : Open("if", c)
OpenElseIf == \E c \in Conditions : Open("else_if", c)
OpenElse == Open("else", NoCondition)

Close ==
    /\ Len(open) > 1
    /\ open' = Front(open)
    /\ UNCHANGED <<statements, blocks, globals, scopes, chains>>

-----------------------------------------------------------------------------
(* _apply_assignment: a directive that appends takes up what its scope says so far. *)

MergeAppend(value, more) == value \o more

Applied(directives, d, own) ==
    LET n == Len(statements) + 1
        before == IF d.operator = "+=" /\ d.name \in DOMAIN directives
                  THEN directives[d.name].value ELSE <<>>
        said == [value |-> MergeAppend(before, <<n>>), operator |-> d.operator,
                 conditions |-> own.conditions, path |-> own.path]
    IN [name \in DOMAIN directives \cup {d.name} |-> IF name = d.name THEN said ELSE directives[name]]

Read(d) ==
    statements' = Append(statements, [name |-> d.name, operator |-> d.operator, text |-> d.text,
                                      in |-> Top.own.block])

AssignGlobally(d) ==
    /\ Room /\ Len(open) = 1
    /\ Read(d)
    /\ globals' = Applied(globals, d, File)
    /\ open' = <<Frame(File, 0)>>
    /\ UNCHANGED <<blocks, scopes, chains>>

\* After a nested block a scope of its own is begun for the rest of the block.
AssignInBlock(d) ==
    LET f == Top
        begun == IF f.scope = 0 THEN Append(scopes, Scope(f.own, Nothing)) ELSE scopes
        index == IF f.scope = 0 THEN Len(begun) ELSE f.scope
    IN /\ Room /\ Len(open) > 1
       /\ Read(d)
       /\ scopes' = [begun EXCEPT ![index].directives = Applied(@, d, f.own)]
       /\ open' = [open EXCEPT ![Len(open)] = Frame(f.own, index)]
       /\ UNCHANGED <<blocks, globals, chains>>

Assign(d) == AssignGlobally(d) \/ AssignInBlock(d)
Block == OpenIf \/ OpenElseIf \/ OpenElse \/ Close

Next == Block \/ \E d \in Assignments : Assign(d)
Spec == Init /\ [][Next]_vars

-----------------------------------------------------------------------------
(* evaluate_condition and is_potentially_matching *)

Evaluate(operator, value, pattern) ==
    CASE operator = "==" -> value = pattern
      [] operator = "!=" -> value # pattern
      [] operator = "=^" -> IsPrefix(pattern, value)
      [] operator = "=$" -> IsSuffix(pattern, value)

\* All that is known of a request is its host.
Known(c, host) == host # Unknown /\ c.variable = "host"
HoldsFor(c, host) == Known(c, host) /\ Evaluate(c.operator, host, c.value)
MayHoldFor(c, host) == Known(c, host) => Evaluate(c.operator, host, c.value)

Deterministic(s, host) == \A c \in ToSet(s.conditions) : HoldsFor(c, host)
MutantScopeMatches(s, host) == \A c \in ToSet(s.conditions) : MayHoldFor(c, host)
ScopeMatches(s, host) ==
    /\ s.kind # "if" => \A i \in ToSet(s.previous) : ~Deterministic(scopes[i], host)
    /\ \A c \in ToSet(s.conditions) : MayHoldFor(c, host)

-----------------------------------------------------------------------------
(* _append_scope_compatible: whether one request may be in two scopes. *)

PathsContradict(p, q) == \E i \in DOMAIN p, j \in DOMAIN q : p[i][1] = q[j][1] /\ p[i][2] # q[j][2]

ShareStart(v, w) == IsPrefix(v, w) \/ IsPrefix(w, v)
ShareEnd(v, w) == IsSuffix(v, w) \/ IsSuffix(w, v)
Contradict(c, d) ==
    LET operators == <<c.operator, d.operator>>
    IN /\ c.variable = d.variable
       /\ CASE operators = <<"==", "==">> -> c.value # d.value
            [] operators \in {<<"==", "!=">>, <<"!=", "==">>} -> c.value = d.value
            [] operators = <<"=^", "=^">> -> ~ShareStart(c.value, d.value)
            [] operators = <<"=$", "=$">> -> ~ShareEnd(c.value, d.value)
            [] operators \in {<<"==", "=^">>, <<"==", "=$">>} -> ~Evaluate(d.operator, c.value, d.value)
            [] operators \in {<<"=^", "==">>, <<"=$", "==">>} -> ~Evaluate(c.operator, d.value, c.value)
            [] OTHER -> FALSE
Real(conditions) == ToSet(conditions) \ {NoCondition}
MutantCompatible(d, e) ==
    ~\E c \in Real(d.conditions), b \in Real(e.conditions) : Contradict(c, b)
Compatible(d, e) ==
    /\ ~PathsContradict(d.path, e.path)
    /\ ~\E c \in Real(d.conditions), b \in Real(e.conditions) : Contradict(c, b)

-----------------------------------------------------------------------------
(* merge_conditional_scopes *)

Says(s, name) == name \in DOMAIN scopes[s].directives
Global(name) == IF name \in DOMAIN globals THEN globals[name] ELSE Absent
Joined(before, d) == [d EXCEPT !.value = MergeAppend(before.value, d.value)]

\* The accumulator that a directive goes on from or replaces, the latest one; or 0.
AccumulatorFor(accumulators, d) ==
    Max({0} \cup {i \in DOMAIN accumulators : Compatible(accumulators[i], d)})
Put(accumulators, i, d) ==
    IF i = 0 THEN Append(accumulators, d) ELSE [accumulators EXCEPT ![i] = d]

\* _last_compatible_base_directive: the base named last in the file. A global one need
\* not come before what is appended to it.
Base(name, d) ==
    LET said == {scopes[s].directives[name] : s \in {t \in DOMAIN scopes : Says(t, name)}}
        before == {e \in said : e.operator = "=" /\ Last(e.value) < Last(d.value) /\ Compatible(e, d)}
        candidates == before \cup ({Global(name)} \ {Absent})
    IN IF candidates = {} THEN Absent
       ELSE CHOOSE e \in candidates : \A o \in candidates : Last(o.value) <= Last(e.value)

\* _merge_worst_case_append
Appended(name, d, accumulators) ==
    LET i == AccumulatorFor(accumulators, d)
        before == IF i # 0 THEN accumulators[i] ELSE Base(name, d)
        joined == Joined(before, d)
    IN [merged |-> joined, accumulators |-> Put(accumulators, i, joined)]

Merged(name, host) ==
    LET upto[s \in 0 .. Len(scopes)] ==
            IF s = 0 THEN [merged |-> Global(name), accumulators |-> <<>>]
            ELSE LET so == upto[s - 1]
                     d == scopes[s].directives[name]
                 IN IF ~ScopeMatches(scopes[s], host) \/ ~Says(s, name) THEN so
                    ELSE CASE d.operator = "+=" /\ host = Unknown -> Appended(name, d, so.accumulators)
                           [] d.operator = "+=" /\ host # Unknown -> [so EXCEPT !.merged = Joined(@, d)]
                           [] d.operator = "=" ->
                                  [merged |-> d,
                                   accumulators |-> IF host # Unknown THEN so.accumulators
                                       ELSE Put(so.accumulators, AccumulatorFor(so.accumulators, d), d)]
    IN upto[Len(scopes)].merged

-----------------------------------------------------------------------------
(* What lighttpd does, for the properties. A block that appends to a directive it has *)
(* not set starts from what the blocks around it say by then; of the blocks that a    *)
(* request is in, the one opened last decides.                                        *)

Blocks == DOMAIN blocks
Variables == {c.variable : c \in Conditions}
Requests == [Variables \cup {"host"} -> Hosts]

Active(b, request) ==
    LET in[c \in Blocks \cup {0}] ==
            \/ c = 0
            \/ /\ in[blocks[c].parent]
               /\ blocks[c].condition # NoCondition =>
                      Evaluate(blocks[c].condition.operator, request[blocks[c].condition.variable],
                               blocks[c].condition.value)
               /\ \A p \in blocks[c].previous : ~in[p]
    IN in[b]

Parsed(name) ==
    LET own[i \in 0 .. Len(statements)] ==
            IF i = 0 THEN [b \in Blocks \cup {0} |-> <<>>]
            ELSE LET before == own[i - 1]
                     s == statements[i]
                     nearest[b \in Blocks \cup {0}] ==
                         IF before[b] # <<>> \/ b = 0 THEN before[b] ELSE nearest[blocks[b].parent]
                 IN IF s.name # name THEN before
                    ELSE [before EXCEPT ![s.in] =
                              IF s.operator = "=" THEN <<i>> ELSE Append(nearest[s.in], i)]
    IN own[Len(statements)]

InForce(name, request) ==
    LET values == Parsed(name)
    IN values[Max({0} \cup {b \in Blocks : Active(b, request) /\ values[b] # <<>>})]

Names == {d.name : d \in Assignments}

\* In lighttpd a block counts from where it is opened, not where it goes on.
InOrder == \A s, t \in DOMAIN scopes : s < t => scopes[s].block < scopes[t].block

IfsOnly(bs) == \A b \in bs : blocks[b].previous = {}
Nested == {b \in Blocks : blocks[b].parent # 0}
Parents == {blocks[b].parent : b \in Nested}

Together(is) == \E request \in Requests : \A i \in is : Active(statements[i].in, request)
\* Every statement of the name is met by some request.
Live(name) == \A i \in DOMAIN statements : statements[i].name = name => Together({i})

\* The view of a host is what lighttpd has in force for every request to it, as far as
\* blocks ask for the host only, nest in an `if` and do not go on after a nested one.
MergedIsInForce ==
    InOrder /\ IfsOnly(Parents) => \A name \in Names, request \in Requests :
        Merged(name, request["host"]).value = InForce(name, request)

\* Whatever else the blocks ask, the view of a host says nothing that is only met by
\* requests to other hosts.
MergedIsPossible ==
    IfsOnly(Nested \cup Parents) => \A name \in Names, host \in Hosts : Live(name) =>
        \A i \in ToSet(Merged(name, host).value) : \E request \in Requests :
            request["host"] = host /\ Active(statements[i].in, request)

\* The view for any request joins no two statements in a row that no one request meets.
\* What an else branch excludes is only told within its own chain.
NeighboursAreCompatible ==
    chains < 2 \/ IfsOnly(Blocks) => \A name \in Names : Live(name) =>
        LET value == Merged(name, Unknown).value
        IN \A i \in 1 .. Len(value) - 1 : Together({value[i], value[i + 1]})

=============================================================================
