---------------------------- MODULE TlsObservation ----------------------------
(***************************************************************************)
(* How one HTTPS endpoint is looked at (external/recon/__init__.py,         *)
(* tls_probe.py): a handshake of its own with OpenSSL, or, when that fails, *)
(* the socket of the HTTP request; then a handshake for every version,      *)
(* one that verifies, one that counts certificates, some that compare       *)
(* orders of ciphers. Any of them may be lost. Then the rules look, and     *)
(* time passes.                                                             *)
(***************************************************************************)
EXTENDS TlsRules

CONSTANTS
    Sites,      \* what the endpoint may be
    NamesAsked, \* the sets of names it may be asked about
    MayMiss,    \* the kinds of handshakes that may be lost, and "time" if it passes
    LastDay     \* the clock stops here

\* Types only: a site is a server, a name has labels.
ObservationAssumption ==
    /\ \A server \in Sites : IsServer(server)
    /\ \A names \in NamesAsked : names \subseteq Seq(STRING) \ {<<>>}
    /\ Soon \in Nat /\ MaxDepth \in Nat /\ LastDay \in Nat

VARIABLES
    site,       \* what the endpoint is
    called,     \* the names asked about
    day,        \* the clock
    awaited,    \* the handshake that is next
    learned,    \* the TLSInfo so far
    missed,     \* history: the handshakes that were lost, and "time" if a day passed between two rules
    reported    \* the rules that report the endpoint

observationVars == <<site, called, day, awaited, learned, missed, reported>>

NoInfo == <<>>

ObservationInit ==
    /\ site \in Sites /\ called \in NamesAsked
    /\ day \in 0 .. LastDay
    /\ awaited = "observe" /\ learned = NoInfo /\ missed = {} /\ reported = {}

Lose(kind, after) ==
    /\ kind \in MayMiss /\ awaited = kind
    /\ awaited' = after /\ missed' = missed \cup {kind}

Keep(kind, after) == awaited = kind /\ awaited' = after /\ missed' = missed

\* _try_https_method: _observe_https_tls_info, or else _extract_tls_info.
Observe ==
    /\ \/ Keep("observe", "versions") /\ learned' = FromOpenssl(site)
       \/ Lose("observe", "versions") /\ learned' = FromSocket(site)
    /\ UNCHANGED <<site, called, day, reported>>

\* probe_tls_versions: a version whose handshake fails counts as not supported.
ProbeVersions ==
    /\ \/ Keep("versions", "chain") /\ learned' = [learned EXCEPT !.supported = site.versions]
       \/ /\ Lose("versions", "chain")
          /\ \E some \in (SUBSET site.versions) \ {site.versions} :
                learned' = [learned EXCEPT !.supported = some]
    /\ UNCHANGED <<site, called, day, reported>>

VerifyChain ==
    /\ \/ Keep("chain", "depth") /\ learned' = [learned EXCEPT !.trusted = ChainAnswer(site, day)]
       \/ Lose("chain", "depth") /\ learned' = learned
    /\ UNCHANGED <<site, called, day, reported>>

ProbeDepth ==
    /\ \/ Keep("depth", "order") /\ learned' = [learned EXCEPT !.depth = Len(site.chain)]
       \/ Lose("depth", "order") /\ learned' = learned
    /\ UNCHANGED <<site, called, day, reported>>

\* probe_server_cipher_preference, only for an endpoint seen to support TLS 1.2.
ProbeOrder ==
    /\ \/ /\ Keep("order", "expired")
          /\ learned' = [learned EXCEPT !.order = IF "TLSv1.2" \in learned.supported THEN Truth(site.ordered) ELSE "unknown"]
       \/ Lose("order", "expired") /\ learned' = learned
    /\ UNCHANGED <<site, called, day, reported>>

\* collect_tls_findings: the first two rules each ask what time it is.
CheckExpired ==
    /\ awaited = "expired" /\ awaited' = "soon"
    /\ reported' = IF certificate_expired(learned, day) THEN {"certificate_expired"} ELSE {}
    /\ UNCHANGED <<site, called, day, learned, missed>>

CheckRest ==
    /\ awaited = "soon" /\ awaited' = "done"
    /\ reported' = reported \cup TimelessFindings(learned, called)
                     \cup IF certificate_expires_soon(learned, day) THEN {"certificate_expires_soon"} ELSE {}
    /\ UNCHANGED <<site, called, day, learned, missed>>

\* Time passes, also between two rules.
Tick ==
    /\ "time" \in MayMiss /\ awaited # "done" /\ day < LastDay
    /\ day' = day + 1
    /\ missed' = IF awaited = "soon" THEN missed \cup {"time"} ELSE missed
    /\ UNCHANGED <<site, called, awaited, learned, reported>>

ObservationNext == Observe \/ ProbeVersions \/ VerifyChain \/ ProbeDepth \/ ProbeOrder \/ CheckExpired \/ CheckRest \/ Tick
ObservationSpec == ObservationInit /\ [][ObservationNext]_observationVars

-----------------------------------------------------------------------------
(* Properties. *)

Looked == awaited = "done"

\* Nothing that is wrong with an endpoint goes unreported when no handshake was lost: what
\* one handshake cannot show another one does. An expired leaf hides the chain; a
\* certificate without names, and one asked about addresses only, is not compared.
ProblemsAreReported ==
    Looked /\ missed \subseteq {"time"} =>
        \A r \in Deserved(site, called) :
            r \in reported \/ (r = "cert_chain_incomplete" /\ "certificate_expired" \in reported)
                           \/ (r = "cert_san_mismatch" /\ (site.san = {} \/ called \subseteq IpLiterals))

\* What the rules report is so.
Founded(rule) ==
    \/ rule \in Deserved(site, called)
    \/ /\ rule \in {"tls_forward_secrecy_not_observed", "tls_secure_renegotiation_not_observed",
                    "tls_negotiated_compression", "tls_aead_cipher_not_negotiated"}
       /\ Outdated(site)
    \/ rule = "cert_chain_length_unusual" /\ (Len(site.chain) = 1 \/ Len(site.chain) > MaxDepth)
    \/ rule = "tls_must_staple_not_observed" /\ site.mustStaple /\ ~site.staples

\* What is reported of an endpoint is so, whichever handshakes were lost: that something
\* was not seen is not taken for its absence. Two rules do: TLS 1.3 counts as missing when
\* its handshake was lost, certificate transparency when that with OpenSSL was. And an
\* address that is asked about with other names is looked for among the DNS names.
FindingsAreTrue ==
    Looked => \A r \in reported \ {"certificate_expired", "certificate_expires_soon"} :
                \/ Founded(r)
                \/ r = "tls_1_3_not_supported" /\ "versions" \in missed
                \/ r = "tls_ct_log_evidence_missing" /\ "observe" \in missed
                \/ r = "cert_san_mismatch" /\ called \cap IpLiterals # {}

\* A certificate that is out of date, or will be within the month, is reported as one or
\* the other; never as both, and as neither only if it expired between the two rules.
ExpiryIsReported ==
    /\ Looked /\ {"certificate_expired", "certificate_expires_soon"} \subseteq reported => FALSE
    /\ Looked /\ site.notAfter - day <= Soon =>
          \/ {"certificate_expired", "certificate_expires_soon"} \cap reported # {}
          \/ "time" \in missed /\ site.notAfter < day
    /\ Looked /\ {"certificate_expired", "certificate_expires_soon"} \cap reported # {} =>
          site.notAfter - day <= Soon

\* In short, of an endpoint.
TlsFindingsAreExact == ProblemsAreReported /\ FindingsAreTrue /\ ExpiryIsReported

=============================================================================
