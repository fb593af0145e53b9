------------------------------ MODULE ExternalProbe ------------------------------
(***************************************************************************)
(* The probe of one target (_probe_target in external/recon/__init__.py):   *)
(* TCP check, HEAD, perhaps GET, OPTIONS, TLS scan, each on a connection of  *)
(* its own to a service that may answer, fail or change its mind every time. *)
(* Connections are numbered; an attempt keeps, for each thing it reports,    *)
(* the number of the connection it was seen on (0: nothing was seen).        *)
(***************************************************************************)
EXTENDS Naturals

CONSTANTS
    Targets,    \* the targets to probe: scheme and whether the path is "/"
    Statuses    \* the status codes the service may answer with

ASSUME ProbeAssumption ==
    /\ Targets \subseteq [scheme : {"http", "https"}, root : BOOLEAN]
    /\ Statuses \subseteq Nat \ {0}

VARIABLES
    target,   \* the ProbeTarget
    probing,  \* where _probe_target() is
    used,     \* connections opened so far
    tls,      \* the connection _observe_https_tls_info() saw a handshake on
    head,     \* the HEAD attempt
    get,      \* the GET attempt
    result,   \* the ProbeAttempt to return
    answers   \* history: the connections on which HEAD or GET was answered

probeVars == <<target, probing, used, tls, head, get, result, answers>>

\* A ProbeAttempt: status 0 is None; the error message is left out.
NoAttempt == [tcp |-> FALSE, method |-> "none", status |-> 0, from |-> 0, allow |-> 0,
              body |-> 0, tls |-> 0, options |-> 0, versions |-> 0]
NoReply == [NoAttempt EXCEPT !.tcp = TRUE]
Answered(attempt) == attempt.status # 0

Fallback == {405, 501}

ProbeInit ==
    /\ target \in Targets
    /\ probing = "connect"
    /\ used = 0 /\ tls = 0
    /\ head = NoAttempt /\ get = NoAttempt /\ result = NoAttempt
    /\ answers = {}

\* _is_tcp_port_open()
Connect == \E open \in BOOLEAN :
    /\ probing = "connect"
    /\ used' = used + 1
    /\ probing' = IF open THEN (IF target.scheme = "https" THEN "head_tls" ELSE "head") ELSE "done"
    /\ UNCHANGED <<target, tls, head, get, result, answers>>

Observing == probing \in {"head_tls", "get_tls"}
Requesting == IF probing = "head_tls" THEN "head" ELSE "get"

\* _observe_https_tls_info(): a handshake on a connection of its own, whose
\* failure is None.
ObserveTls == \E seen \in BOOLEAN :
    /\ Observing
    /\ used' = used + 1
    /\ tls' = IF seen THEN used + 1 ELSE 0
    /\ probing' = Requesting
    /\ UNCHANGED <<target, head, get, result, answers>>

\* _complete_openssl_handshake(): the socket has a timeout, so do_handshake()
\* raises WantReadError instead of blocking, and the loop calls it again, for as
\* long as the peer says nothing.
WantRead ==
    /\ Observing
    /\ probing' = IF probing = "head_tls" THEN "head_wait" ELSE "get_wait"
    /\ UNCHANGED <<target, used, tls, head, get, result, answers>>

HandshakeAgain ==
    /\ probing \in {"head_wait", "get_wait"}
    /\ probing' = IF probing = "head_wait" THEN "head_tls" ELSE "get_tls"
    /\ UNCHANGED <<target, used, tls, head, get, result, answers>>

\* _try_http_method() and _try_https_method(): what an answer is turned into.
\* Only a GET reads a body; TLS information not observed before may still be
\* taken from the request's own connection.
Attempt(method, status, allow, body, own) ==
    [NoReply EXCEPT !.method = method, !.status = status, !.from = used + 1,
                   !.allow = IF allow THEN used + 1 ELSE 0,
                   !.body = IF method = "GET" /\ body THEN used + 1 ELSE 0,
                   !.tls = IF target.scheme = "http" THEN 0
                           ELSE IF tls # 0 THEN tls
                           ELSE IF own THEN used + 1 ELSE 0]

Tried(method, attempt) ==
    \/ attempt = NoReply /\ answers' = answers
    \/ \E status \in Statuses : \E allow, body, own \in BOOLEAN :
          /\ attempt = Attempt(method, status, allow, body, own)
          /\ answers' = answers \cup {used + 1}

\* HEAD answered "/" with 200: the body is worth a GET.
RequiresBody(attempt) == target.root /\ attempt.status = 200 /\ attempt.body = 0

TryHead ==
    /\ probing = "head"
    /\ used' = used + 1
    /\ tls' = 0
    /\ \E attempt \in {NoReply} \cup {Attempt("HEAD", s, a, b, o) : s \in Statuses, a, b, o \in BOOLEAN} :
          /\ Tried("HEAD", attempt)
          /\ head' = attempt
          /\ IF Answered(attempt) /\ attempt.status \notin Fallback /\ ~RequiresBody(attempt)
             THEN result' = attempt /\ probing' = "options"
             ELSE /\ probing' = IF target.scheme = "https" THEN "get_tls" ELSE "get"
                  /\ UNCHANGED result
    /\ UNCHANGED <<target, get>>

\* _preserve_head_allow_header()

MutantDropAllow(getAttempt, headAttempt) == getAttempt

PreserveAllow(getAttempt, headAttempt) ==
    IF getAttempt.allow # 0 \/ headAttempt.allow = 0 THEN getAttempt
    ELSE [getAttempt EXCEPT !.allow = headAttempt.allow]

\* Which of the two attempts is the result, in both branches of _probe_target().
MutantHeadWins(getAttempt, headAttempt) ==
    IF Answered(headAttempt) THEN headAttempt ELSE PreserveAllow(getAttempt, headAttempt)

Chosen(getAttempt, headAttempt) ==
    IF Answered(getAttempt) THEN PreserveAllow(getAttempt, headAttempt)
    ELSE IF Answered(headAttempt) THEN headAttempt ELSE getAttempt

MutantRetryGet ==
    /\ probing = "get"
    /\ tls' = 0
    /\ UNCHANGED <<target, probing, used, head, get, result, answers>>

TryGet ==
    /\ probing = "get"
    /\ used' = used + 1
    /\ tls' = 0
    /\ \E attempt \in {NoReply} \cup {Attempt("GET", s, a, b, o) : s \in Statuses, a, b, o \in BOOLEAN} :
          /\ Tried("GET", attempt)
          /\ get' = attempt
          /\ result' = Chosen(attempt, head)
          /\ probing' = IF Answered(result') THEN "options" ELSE "done"
    /\ UNCHANGED <<target, head>>

\* _try_options_request(): observed or failed, kept in the result either way.

TryOptions == \E seen \in BOOLEAN :
    /\ probing = "options"
    /\ used' = used + 1
    /\ result' = [result EXCEPT !.options = IF seen THEN used + 1 ELSE 0]
    /\ probing' = IF target.scheme = "https" /\ result.tls # 0 THEN "versions" ELSE "done"
    /\ UNCHANGED <<target, tls, head, get, answers>>

\* _enrich_tls_with_version_probe(): the version scan, chain verification and
\* depth, and the cipher preference only if TLS 1.2 is supported.
EnrichTls == \E tls12 \in BOOLEAN :
    /\ probing = "versions"
    /\ used' = used + (IF tls12 THEN 4 ELSE 3)
    /\ result' = [result EXCEPT !.versions = used + 1]
    /\ probing' = "done"
    /\ UNCHANGED <<target, tls, head, get, answers>>

ProbeNext == Connect \/ ObserveTls \/ WantRead \/ HandshakeAgain \/ TryHead \/ TryGet \/ TryOptions \/ EnrichTls

\* Every step is the program's own, and the socket timeout ends each wait of
\* create_connection() and of http.client.
ProbeSpec == ProbeInit /\ [][ProbeNext]_probeVars /\ WF_probeVars(ProbeNext)

(***************************************************************************)
(* Properties.                                                             *)
(***************************************************************************)

\* Attempts have their type; no TLS scan without a handshake that was observed.
ProbeTypeOK ==
    /\ target \in Targets
    /\ probing \in {"connect", "head_tls", "head_wait", "head", "get_tls", "get_wait", "get",
                  "options", "versions", "done"}
    /\ used \in 0..11 /\ tls \in 0..used /\ answers \subseteq 1..used
    /\ \A a \in {head, get, result} :
          /\ a.tcp \in BOOLEAN /\ a.method \in {"none", "HEAD", "GET"} /\ a.status \in Statuses \cup {0}
          /\ a.versions # 0 => target.scheme = "https" /\ a.tls # 0
          /\ {a.from, a.allow, a.body, a.tls, a.options, a.versions} \subseteq 0..used

Done == probing = "done"

\* What the rules read of an answer, they read of ONE answer: status, headers
\* and body are those of one request and the TLS information is that of its try.
\* A HEAD may have failed, answered 405, or answered 200 before a GET that the
\* service answered differently (external/recon/__init__.py:962-985); the only
\* thing carried over is the Allow header.
OneAnswer == Done /\ Answered(result) =>
    /\ result.from \in answers
    /\ result.body \in {0, result.from}
    /\ result.body # 0 => result.method = "GET"
    /\ result.tls \in {0, result.from, result.from - 1}
    /\ result.allow \in {0, result.from, head.from}

\* A service that answered HEAD or GET is not reported as absent, in whichever
\* order answers and failures come; and a GET that was answered is what counts.
AnswerIsReported == Done => /\ Answered(result) <=> answers # {}
                            /\ Answered(get) => result.from = get.from

\* The methods a service announced are not lost with the HEAD answer that
\* announced them: the rules on dangerous methods live on them.
AllowIsKept == Done /\ head.allow # 0 => result.allow # 0

\* A refused connection, a request that fails or times out and a peer that closes
\* all let the probe end: only a peer that holds a TLS handshake open for ever
\* can keep it from ending.  (docs/architecture.md:119 speaks of bounded TLS probes:
\* the timeout of the socket does not bound this loop.)
OnlyHandshakeHangs == <>Done \/ []<>(probing \in {"head_wait", "get_wait"})

\* In short, of a probe that has ended.
ProbeIsSound == ProbeTypeOK /\ OneAnswer /\ AnswerIsReported /\ AllowIsKept
================================================================================
