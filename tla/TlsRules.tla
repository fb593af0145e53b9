------------------------------- MODULE TlsRules -------------------------------
(***************************************************************************)
(* What is learned about the TLS of an endpoint, and the rules that judge   *)
(* it (external/rules/_tls.py, tls_cert_probes.py, tls_handshake_probes.py).*)
(* TLSInfo is put together from several handshakes, each of which may fail: *)
(* a value is "yes", "no" or "unknown". Nothing here has a state; the       *)
(* modules TlsObservation and TlsInventory extend this one.                 *)
(***************************************************************************)
EXTENDS Integers, Sequences, FiniteSets

CONSTANTS
    Soon,       \* _CERT_EXPIRY_SOON_DAYS
    MaxDepth,   \* _CERT_CHAIN_DEPTH_MAX
    IpLiterals  \* the names that are addresses

Versions == {"TLSv1", "TLSv1.1", "TLSv1.2", "TLSv1.3"}
Truth(b) == IF b THEN "yes" ELSE "no"

(***************************************************************************)
(* An endpoint: the versions it speaks, the cipher it picks, whether it     *)
(* keeps to its own order of ciphers, whether it staples, and what          *)
(* certificates it serves: chain[1] is the leaf.                            *)
(***************************************************************************)
Leaf(server) == server.chain[1]

\* Its types: a chain has a leaf, a name has labels.
IsServer(server) ==
    /\ server.versions \in (SUBSET Versions) \ {{}} /\ server.notAfter \in Int
    /\ {server.ordered, server.staples, server.renegotiation, server.compresses,
        server.trusted, server.scts, server.mustStaple} \subseteq BOOLEAN
    /\ server.chain \in Seq([subject : STRING, issuer : STRING, weak : BOOLEAN]) \ {<<>>}
    /\ server.san \subseteq Seq(STRING) \ {<<>>} /\ server.addresses \subseteq IpLiterals

\* A name is a sequence of labels; a wildcard covers one label: _hostname_matches_san.
Covers(entry, name) == entry = name \/ (Head(entry) = "*" /\ Tail(entry) = Tail(name))
AllCovered(names, san) == \A name \in names : \E entry \in san : Covers(entry, name)

-----------------------------------------------------------------------------
(* What the handshakes say: TLSInfo.                                       *)

\* _extract_tls_info: of the socket of the HTTP request only the leaf is known, and of its
\* names those that are no addresses.
FromSocket(server) ==
    [protocol |-> server.protocol, cipher |-> server.cipher,
     subject |-> Leaf(server).subject, issuer |-> Leaf(server).issuer,
     notAfter |-> server.notAfter, san |-> server.san, chain |-> <<>>,
     scts |-> FALSE, mustStaple |-> FALSE, ocsp |-> "unknown",
     renegotiation |-> "unknown", compression |-> "none", aead |-> "unknown",
     supported |-> {}, trusted |-> "unknown", depth |-> 0, order |-> "unknown"]

\* _extract_tls_info_from_openssl: the handshake with OpenSSL also shows the chain, the
\* extensions and what was stapled.
FromOpenssl(server) ==
    [FromSocket(server) EXCEPT
        !.chain = [i \in DOMAIN server.chain |->
                      [selfSigned |-> server.chain[i].subject = server.chain[i].issuer,
                       weak |-> server.chain[i].weak]],
        !.scts = server.scts, !.mustStaple = server.mustStaple,
        !.ocsp = Truth(server.staples),
        !.renegotiation = Truth(server.renegotiation),
        !.compression = IF server.compresses THEN "zlib" ELSE "none",
        !.aead = Truth(server.cipher \in {"ECDHE-GCM", "RSA-GCM", "TLS-GCM"})]

\* verify_certificate_chain: a leaf that is out of date hides whether the chain is trusted.
ChainAnswer(server, now) ==
    IF server.notAfter < now THEN "unknown" ELSE Truth(server.trusted)

-----------------------------------------------------------------------------
(* The rules, each on the TLSInfo of one attempt.                          *)

Tls12OrEarlier(info) == info.protocol # "TLSv1.3"
LeafSelfSigned(info) ==
    IF info.chain # <<>> THEN info.chain[1].selfSigned ELSE info.subject = info.issuer

certificate_expired(info, now) == info.notAfter < now
MutantExpiresSoon(info, now) == info.notAfter > now /\ info.notAfter - now <= Soon
certificate_expires_soon(info, now) == info.notAfter >= now /\ info.notAfter - now <= Soon
tls_certificate_self_signed(info) == info.subject = info.issuer
tls_1_0_supported(info) == "TLSv1" \in info.supported
tls_1_1_supported(info) == "TLSv1.1" \in info.supported
tls_1_3_not_supported(info) == info.supported # {} /\ "TLSv1.3" \notin info.supported
weak_cipher_suite(info) == info.cipher = "RC4"
tls_forward_secrecy_not_observed(info) ==
    info.protocol # "TLSv1.3" /\ info.cipher \notin {"ECDHE-GCM", "ECDHE-CBC", "TLS-GCM"}
tls_server_cipher_preference_not_observed(info) == info.order = "no"
tls_secure_renegotiation_not_observed(info) == Tls12OrEarlier(info) /\ info.renegotiation = "no"
tls_negotiated_compression(info) == Tls12OrEarlier(info) /\ info.compression # "none"
tls_aead_cipher_not_negotiated(info) == Tls12OrEarlier(info) /\ info.aead = "no"
ocsp_stapling_not_observed(info) == info.ocsp = "no"
MutantIncomplete(info) == info.trusted # "yes"
cert_chain_incomplete(info) == info.trusted = "no"
cert_chain_length_unusual(info) == info.depth = 1 \/ info.depth > MaxDepth
tls_ct_log_evidence_missing(info) == ~LeafSelfSigned(info) /\ ~info.scts
MutantWeakSignature(info) ==
    ~LeafSelfSigned(info) /\ info.chain # <<>> /\ info.chain[1].weak
tls_weak_signature_algorithm(info) ==
    ~LeafSelfSigned(info) /\ \E i \in DOMAIN info.chain : info.chain[i].weak /\ ~info.chain[i].selfSigned
tls_must_staple_not_observed(info) == info.mustStaple /\ info.ocsp = "no"

\* Names are only compared if one of them is no address and the certificate has any.
cert_san_mismatch(info, names) ==
    /\ ~(names \subseteq IpLiterals) /\ info.san # {}
    /\ ~AllCovered(names, info.san)

\* collect_tls_findings: the rules in turn. The two that look at the date each ask for it.
TimelessFindings(info, names) ==
    {r \in {"tls_certificate_self_signed", "tls_1_0_supported", "tls_1_1_supported",
            "tls_1_3_not_supported", "weak_cipher_suite", "tls_forward_secrecy_not_observed",
            "tls_server_cipher_preference_not_observed", "tls_secure_renegotiation_not_observed",
            "tls_negotiated_compression", "tls_aead_cipher_not_negotiated",
            "ocsp_stapling_not_observed", "cert_chain_incomplete", "cert_chain_length_unusual",
            "tls_ct_log_evidence_missing", "tls_weak_signature_algorithm",
            "tls_must_staple_not_observed", "cert_san_mismatch"} :
        \/ r = "tls_certificate_self_signed" /\ tls_certificate_self_signed(info)
        \/ r = "tls_1_0_supported" /\ tls_1_0_supported(info)
        \/ r = "tls_1_1_supported" /\ tls_1_1_supported(info)
        \/ r = "tls_1_3_not_supported" /\ tls_1_3_not_supported(info)
        \/ r = "weak_cipher_suite" /\ weak_cipher_suite(info)
        \/ r = "tls_forward_secrecy_not_observed" /\ tls_forward_secrecy_not_observed(info)
        \/ r = "tls_server_cipher_preference_not_observed" /\ tls_server_cipher_preference_not_observed(info)
        \/ r = "tls_secure_renegotiation_not_observed" /\ tls_secure_renegotiation_not_observed(info)
        \/ r = "tls_negotiated_compression" /\ tls_negotiated_compression(info)
        \/ r = "tls_aead_cipher_not_negotiated" /\ tls_aead_cipher_not_negotiated(info)
        \/ r = "ocsp_stapling_not_observed" /\ ocsp_stapling_not_observed(info)
        \/ r = "cert_chain_incomplete" /\ cert_chain_incomplete(info)
        \/ r = "cert_chain_length_unusual" /\ cert_chain_length_unusual(info)
        \/ r = "tls_ct_log_evidence_missing" /\ tls_ct_log_evidence_missing(info)
        \/ r = "tls_weak_signature_algorithm" /\ tls_weak_signature_algorithm(info)
        \/ r = "tls_must_staple_not_observed" /\ tls_must_staple_not_observed(info)
        \/ r = "cert_san_mismatch" /\ cert_san_mismatch(info, names)}

-----------------------------------------------------------------------------
(* What is the case, whoever looks: used by properties only.               *)

\* A certificate holds for the names and the addresses it lists.
Named(server, name) ==
    \/ name \in server.addresses
    \/ \E entry \in server.san :
          Len(entry) = Len(name) /\ \A i \in 1 .. Len(name) : entry[i] = name[i] \/ (i = 1 /\ entry[i] = "*")

\* A connection below TLS 1.3 that a newer one would not be.
Outdated(server) ==
    /\ server.protocol # "TLSv1.3"
    /\ \/ server.cipher \notin {"ECDHE-GCM", "TLS-GCM"}
       \/ ~server.renegotiation \/ server.compresses

Deserved(server, names) ==
    {r \in {"tls_certificate_self_signed", "tls_1_0_supported", "tls_1_1_supported",
            "tls_1_3_not_supported", "weak_cipher_suite", "ocsp_stapling_not_observed",
            "cert_chain_incomplete", "tls_ct_log_evidence_missing",
            "tls_weak_signature_algorithm", "cert_san_mismatch",
            "tls_server_cipher_preference_not_observed"} :
        \/ r = "tls_certificate_self_signed" /\ Leaf(server).subject = Leaf(server).issuer
        \/ r = "tls_1_0_supported" /\ "TLSv1" \in server.versions
        \/ r = "tls_1_1_supported" /\ "TLSv1.1" \in server.versions
        \/ r = "tls_1_3_not_supported" /\ "TLSv1.3" \notin server.versions
        \/ r = "weak_cipher_suite" /\ server.cipher = "RC4"
        \/ r = "tls_server_cipher_preference_not_observed" /\ "TLSv1.2" \in server.versions /\ ~server.ordered
        \/ r = "ocsp_stapling_not_observed" /\ ~server.staples
        \/ r = "cert_chain_incomplete" /\ ~server.trusted
        \/ r = "tls_ct_log_evidence_missing" /\ Leaf(server).subject # Leaf(server).issuer /\ ~server.scts
        \/ r = "tls_weak_signature_algorithm"
           /\ Leaf(server).subject # Leaf(server).issuer
           /\ \E i \in DOMAIN server.chain : server.chain[i].weak /\ server.chain[i].subject # server.chain[i].issuer
        \/ r = "cert_san_mismatch" /\ \E name \in names : ~Named(server, name)}

=============================================================================
