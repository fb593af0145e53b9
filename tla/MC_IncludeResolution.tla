------------------------ MODULE MC_IncludeResolution ------------------------
(***************************************************************************)
(* Three files, a missing one, and the ways the first can name two of them *)
(* and the other two one, literally or by a pattern that matches all three *)
(* (the including one too): self-includes, cycles of two and three files,  *)
(* diamonds and double includes all occur.  Each text has a directive      *)
(* before and one after its includes, so that order shows.                 *)
(***************************************************************************)
EXTENDS IncludeResolution, TLC

MCFile == {"a", "b", "c", "ghost"}

Argument == {<<"a">>, <<"b">>, <<"c">>, <<"ghost">>, <<"a", "b", "c">>, <<>>}

Directive(f, k)       == [kind |-> "directive", id |-> f \o ToString(k)]
Include(f, k, targets)  == [kind |-> "include", id |-> f \o ToString(k), targets |-> targets]
Optional(f, k, targets) == [kind |-> "optional", id |-> f \o ToString(k), targets |-> targets]
Opaque(f, k)          == [kind |-> "opaque", id |-> f \o ToString(k)]
Shell(f, k, line, prints, printed) ==
    [kind |-> "shell", id |-> f \o ToString(k), line |-> line, prints |-> prints,
     output |-> printed]

Text(f, items) == <<Directive(f, 0)>> \o items \o <<Directive(f, 9)>>

Texts(a, b, c) ==
    "a" :> Text("a", a) @@ "b" :> Text("b", b) @@ "c" :> Text("c", c) @@ "ghost" :> <<>>
Reading(b, c) == "a" :> "ok" @@ "b" :> b @@ "c" :> c @@ "ghost" :> "missing"

One(f, targets) == <<Include(f, 1, targets)>>

Job(server, texts, status, shell) ==
    [server |-> server, text |-> texts, status |-> status, shell |-> shell]

Server == {"nginx", "apache", "lighttpd"}

\* Every graph over readable files, and every failure of b and c behind a fixed one.
GraphJobs ==
    {Job(server, Texts(<<Include("a", 1, t), Include("a", 2, u)>>, b, c),
         Reading("ok", "ok"), FALSE) :
        server \in Server, t \in Argument, u \in Argument,
        b \in {<<>>} \cup {One("b", v) : v \in {<<"a">>, <<"c">>, <<"a", "b", "c">>}},
        c \in {<<>>} \cup {One("c", v) : v \in {<<"a">>, <<"b">>}}}

FailureJobs ==
    {Job(server, Texts(<<Include("a", 1, t)>>, One("b", <<"c">>), One("c", <<"a">>)),
         Reading(b, c), FALSE) :
        server \in Server, t \in Argument,
        b \in {"ok", "unreadable", "undecodable", "malformed"},
        c \in {"ok", "unreadable", "undecodable", "malformed"}}

SpecialJobs ==
    {Job("nginx", Texts(<<Opaque("a", 1), Include("a", 2, <<"b">>)>>, b, <<>>),
         Reading("ok", "ok"), FALSE) : b \in {<<>>, One("b", <<"a">>)}}
    \cup
    {Job("apache", Texts(<<Optional("a", 1, t), Include("a", 2, <<"b">>)>>, b, <<>>),
         Reading("ok", "ok"), FALSE) : t \in Argument, b \in {<<>>, One("b", <<"a">>)}}

FileJobs == GraphJobs \cup FailureJobs \cup SpecialJobs

\* An include_shell in a and one in b, on the same or another line; the first may
\* fail, what it prints may include b or a, or run a further command.
ShellTexts(prints, line, printed) ==
    Texts(<<Shell("a", 1, "line 1", prints, printed), Include("a", 2, <<"b">>)>>,
          <<Shell("b", 1, line, "ok", <<Directive("b", 5)>>)>>, <<>>)

ShellJobs ==
    {Job("lighttpd", ShellTexts(prints, line, printed), Reading("ok", "ok"), shell) :
        prints \in {"ok", "nothing", "malformed"},
        line \in {"line 1", "line 2"}, shell \in BOOLEAN,
        printed \in {<<Directive("a", 5)>>, <<Include("a", 6, <<"b">>)>>,
                     <<Include("a", 6, <<"a">>)>>,
                     <<Shell("a", 7, "line 1", "ok", <<>>)>>}}

MCJobs == FileJobs \cup ShellJobs

ItemsOf(items) == LET those == Members(items) IN
    those \cup UNION {Members(it.output) : it \in {x \in those : x.kind = "shell"}}
MCItems == UNION {ItemsOf(call.text[f]) : call \in MCJobs, f \in MCFile}
===============================================================================
