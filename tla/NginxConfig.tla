------------------------------- MODULE NginxConfig -------------------------------
(***************************************************************************)
(* What the rules for nginx see: an expanded configuration, blocks that     *)
(* nest and directives in them (local/nginx/parser/ast.py), and the helpers *)
(* with which nearly all of them look at it (rules/_value_utils.py,         *)
(* _scope_utils.py, tls_listener_utils.py). The modules of the rules extend *)
(* this one. A value stands for all the texts a rule treats alike.          *)
(***************************************************************************)
EXTENDS Integers, Sequences, FiniteSets, FiniteSetsExt

Main == 0

VARIABLES
    blocks,     \* in the order of the document: [name, args, parent]
    dirs,       \* in that order: [name, value, in]
    findings    \* [rules that ran -> what they report]

vars == <<blocks, dirs, findings>>

Blocks == DOMAIN blocks
Named(name) == {b \in Blocks : blocks[b].name = name}
Context(b) == IF b = Main THEN "main" ELSE blocks[b].name
Unchecked == [r \in {} |-> {}]

\* find_child_directives: the directives of a name in a block, as their positions.
Here(b, d) == {i \in DOMAIN dirs : dirs[i].in = b /\ dirs[i].name = d}
Anywhere(d) == {i \in DOMAIN dirs : dirs[i].name = d}
Has(b, d, values) == \E i \in Here(b, d) : dirs[i].value \in values
Children(b, name) == {c \in Named(name) : blocks[c].parent = b}

\* A block and those around it.
Around(b) ==
    LET up[c \in Blocks \cup {Main}] == IF c = Main THEN {Main} ELSE {c} \cup up[blocks[c].parent]
    IN up[b]
Inside(b) == {c \in Blocks : c # b /\ b \in Around(c)}

\* iter_server_blocks_with_http_directives and effective_child_directives: what a
\* server says replaces what its `http` says.
Servers == Named("server")
Http(s) == {b \in Around(s) : Context(b) = "http"}
Inherited(s, d) == UNION {Here(h, d) : h \in Http(s)}
Effective(s, d) == IF Here(s, d) # {} THEN Here(s, d) ELSE Inherited(s, d)

\* The last one counts.
Value(directives) == IF directives = {} THEN "none" ELSE dirs[Max(directives)].value

\* Whether the last one is `on`: last_directive_is_on.
IsOn(directives) == Value(directives) = "on"

\* Findings point at a block or a directive.
At(b) == <<"block", b>>
On(i) == <<"directive", i>>

-----------------------------------------------------------------------------
(* Listeners: tls_listener_utils. *)

Ssl == {"443 ssl", "443 ssl default_server", "443 ssl http2", "8443 ssl"}
UsesTls(s) == Has(s, "listen", Ssl)
TlsServers == {s \in Servers : UsesTls(s)}

-----------------------------------------------------------------------------
(* _scope_utils: servers that only redirect are not asked for headers and the like. *)

\* `return` and `rewrite` that send every request elsewhere: _return_redirects,
\* rewrite_redirects_all_requests.
Redirects(b) ==
    \/ Has(b, "return", {"301 https", "301 http", "301 variable", "https"})
    \/ Has(b, "rewrite", {"all https", "all http"})
Locations(b) == {c \in Children(b, "location") : blocks[c].args # "@named"}
CatchAll(c) == blocks[c].args \in {"/", "^~ /"}
Handlers == {"alias", "fastcgi_pass", "grpc_pass", "proxy_pass", "scgi_pass", "try_files", "uwsgi_pass"}

\* is_safe_exception_location: ACME challenges, unless something dynamic answers.
SafeException(c) ==
    /\ blocks[c].args \in {"/.well-known/acme-challenge/", "= /.well-known/acme-challenge/x"}
    /\ \A d \in Handlers : Here(c, d) = {}

OnlyRedirects(s) ==
    /\ Redirects(s) \/ \E c \in Locations(s) : CatchAll(c) /\ Redirects(c)
    /\ \A c \in Locations(s) : SafeException(c) \/ Redirects(c)

-----------------------------------------------------------------------------
(* What nginx does with a directive that is inherited: the nearest block around *)
(* that has it decides. Used by properties only.                                *)

InForce(b, d) ==
    LET up[c \in Blocks \cup {Main}] ==
            IF Here(c, d) # {} THEN Here(c, d) ELSE IF c = Main THEN {} ELSE up[blocks[c].parent]
    IN up[b]
Runs(b, d) == Value(InForce(b, d))

\* What nginx makes sure of before it runs a configuration: blocks nest, `http` is in the
\* main context and a server of `http` directly in it. A server around which there is no
\* `http` is one of another kind, or a fragment.
IsConfiguration ==
    /\ Len(blocks) \in Nat /\ Blocks = 1 .. Len(blocks)
    /\ Len(dirs) \in Nat /\ DOMAIN dirs = 1 .. Len(dirs)
    /\ \A b \in Blocks : blocks[b].parent \in 0 .. b - 1
    /\ \A i \in DOMAIN dirs : dirs[i].in \in Blocks \cup {Main}
    /\ \A h \in Named("http") : blocks[h].parent = Main
    /\ \A s \in Servers : Http(s) # {} => blocks[s].parent \in Named("http")

\* And that no server is in another one. One in `stream` or `mail` is of another kind, one
\* in the main context a fragment.
ServersAreApart ==
    /\ \A s \in Servers : blocks[s].parent \in Named("http") \cup Named("stream") \cup Named("mail") \cup {Main}
    /\ \A b \in Named("stream") \cup Named("mail") : blocks[b].parent = Main

\* And that a directive is where it may be.
Only(d, contexts) == \A i \in Anywhere(d) : Context(dirs[i].in) \in contexts

\* Whether one of the rules reports the block, or a directive that is in force in it.
Reported(b, rules) ==
    \E r \in rules :
        \/ At(b) \in findings[r]
        \/ \E i \in DOMAIN dirs : On(i) \in findings[r] /\ i \in InForce(b, dirs[i].name)

=============================================================================
