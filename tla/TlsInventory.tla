------------------------------ MODULE TlsInventory ------------------------------
(***************************************************************************)
(* analyze-tls-inventory (external/tls_inventory.py): the endpoints that an *)
(* audit policy declares are looked at one after the other, each through    *)
(* handshakes that may be lost. Every endpoint yields an attempt, findings  *)
(* and an observation of each kind of evidence the policy requires; from    *)
(* all of them one control is judged.                                       *)
(***************************************************************************)
EXTENDS TlsRules

CONSTANTS
    Entries,    \* TLSInventory.entries
    Required,   \* required_evidence
    Complete,   \* declared_complete
    Servers,    \* what may answer at an entry
    MayLose,    \* the handshakes that may be lost
    Today       \* the day on which this happens

NoName == <<>>
Open == "open"

(***************************************************************************)
(* An entry says where to connect, which SNI to send, under which name it   *)
(* is shown, which names the certificate should hold, and which kinds of    *)
(* evidence do not apply to it. TLSInventoryEntry.validate_entry: one       *)
(* without SNI must say so of certificate_name.                             *)
(***************************************************************************)
Legal(entry) == entry.sni = NoName => "certificate_name" \in entry.notApplicable

\* TLSInventory.validate_inventory: ids, and identities, are unique.
EntriesAssumption ==
    /\ \A i \in DOMAIN Entries : Legal(Entries[i])
    /\ \A i, j \in DOMAIN Entries :
          i # j => /\ Entries[i].id # Entries[j].id
                   /\ <<Entries[i].connect, Entries[i].sni, Entries[i].http>>
                         # <<Entries[j].connect, Entries[j].sni, Entries[j].http>>

Kinds == {"handshake", "certificate_name", "certificate_chain", "protocol_support",
          "negotiated_cipher", "ocsp_stapling"}

EntryType ==
    [id : STRING, connect : Seq(STRING) \ {NoName}, sni : Seq(STRING), http : Seq(STRING),
     expected : SUBSET (Seq(STRING) \ {NoName}), notApplicable : SUBSET Kinds]

\* The types of what is declared and of what may answer; names have labels.
InventoryAssumption ==
    /\ Entries \in Seq(EntryType)
    /\ Required \subseteq Kinds
    /\ Soon \in Nat /\ MaxDepth \in Nat /\ Today \in Int
    /\ \A server \in Servers : IsServer(server)
    /\ EntriesAssumption

VARIABLES
    servers,    \* what answers at each entry
    attempts,   \* probe_attempts of all entries
    analyses,   \* the results of the entries so far
    listed,     \* the findings so far, each with its scope
    unheard,    \* history: the entries of which a handshake about versions was lost
    status,     \* of the control, once it is judged
    prints      \* finding_fingerprints of each entry, at last

inventoryVars == <<servers, attempts, analyses, listed, unheard, status, prints>>

InventoryInit ==
    /\ servers \in [DOMAIN Entries -> Servers]
    /\ attempts = <<>> /\ analyses = <<>> /\ listed = {} /\ unheard = {}
    /\ status = Open /\ prints = <<>>

-----------------------------------------------------------------------------
(* One entry.                                                              *)

\* default_http_host and display_host: under which name an entry is shown.
Shown(entry) == IF entry.http # NoName THEN entry.http
                ELSE IF entry.sni # NoName THEN entry.sni ELSE entry.connect

\* _expected_certificate_names.
ExpectedNames(entry) ==
    IF entry.expected # {} THEN entry.expected
    ELSE IF entry.sni = NoName THEN {} ELSE {entry.sni}

\* _find_cert_san_mismatch: without expected names, the name of the url.
MutantComparedNames(entry) == {Shown(entry)}
ComparedNames(entry) == IF ExpectedNames(entry) = {} THEN {Shown(entry)} ELSE ExpectedNames(entry)

\* probe_ocsp_stapling: the library calls back whether or not anything was stapled.
CallbackAnswer == "yes"

\* probe_tls_versions: a version whose handshake fails counts as not supported.
Spoken(server, lost) ==
    IF "versions" \in lost THEN (SUBSET server.versions) \ {server.versions} ELSE {server.versions}

\* _observe_tls_inventory_tls_info, then _enrich_tls_attempt.
Observed(server, lost, spoken) ==
    LET handshake == FromOpenssl(server) IN
    [handshake EXCEPT
        !.trusted = IF "chain" \in lost THEN "unknown" ELSE ChainAnswer(server, Today),
        !.supported = spoken,
        !.order = IF "order" \in lost \/ "TLSv1.2" \notin server.versions THEN "unknown"
                  ELSE Truth(server.ordered),
        !.ocsp = IF "ocsp" \in lost THEN handshake.ocsp ELSE CallbackAnswer,
        !.depth = IF "depth" \in lost THEN 0 ELSE Len(server.chain)]

\* _certificate_name_observation, _certificate_chain_observation and the others.
MutantNegotiated(info) == "observed"
Negotiated(info) == IF info.order = "unknown" THEN "unavailable" ELSE "observed"
NameState(entry, info) ==
    IF ExpectedNames(entry) = {} THEN "not-requested"
    ELSE IF info.san # {} /\ AllCovered(ExpectedNames(entry), info.san) THEN "observed" ELSE "failed"
StateOf(value) == CASE value = "yes" -> "observed" [] value = "no" -> "failed" [] OTHER -> "unavailable"
SupportState(info) == IF info.supported # {} THEN "observed" ELSE "unavailable"

ObservationOf(requirement, entry, info) ==
    CASE requirement = "handshake" -> "observed"
      [] requirement = "certificate_name" -> NameState(entry, info)
      [] requirement = "certificate_chain" -> StateOf(info.trusted)
      [] requirement = "protocol_support" -> SupportState(info)
      [] requirement = "negotiated_cipher" -> Negotiated(info)
      [] requirement = "ocsp_stapling" -> StateOf(info.ocsp)

\* _entry_observations: without a handshake everything that applies has failed.
EntryObservations(entry, info, completed) ==
    [r \in Required |->
        IF r \in entry.notApplicable THEN "not-applicable"
        ELSE IF ~completed THEN "failed" ELSE ObservationOf(r, entry, info)]

EntryFindings(entry, info) ==
    TimelessFindings(info, ComparedNames(entry))
        \cup {r \in {"certificate_expired", "certificate_expires_soon"} :
                \/ r = "certificate_expired" /\ certificate_expired(info, Today)
                \/ r = "certificate_expires_soon" /\ certificate_expires_soon(info, Today)}

\* _offset_probe_references: a reference counts the attempts of all entries.
MutantShifted(reference, offset) == reference
Shifted(reference, offset) == reference + offset

\* _probe_inventory_entry, and what analyze_external_tls_inventory does with its answer.
\* _scoped_inventory_findings writes the entry into each finding.
ProbeEntry ==
    /\ Len(analyses) < Len(Entries)
    /\ \E lost \in SUBSET MayLose :
       LET i == Len(analyses) + 1
           entry == Entries[i]
           completed == "handshake" \notin lost
       IN  \E spoken \in Spoken(servers[i], lost) :
           LET info == Observed(servers[i], lost, spoken) IN
           /\ attempts' = Append(attempts, entry.id)
           /\ analyses' = Append(analyses,
                 [entry |-> entry.id, observations |-> EntryObservations(entry, info, completed),
                  reference |-> Shifted(1, Len(attempts))])
           /\ listed' = listed \cup
                 IF completed THEN {[rule |-> r, url |-> Shown(entry), scope |-> entry.id] : r \in EntryFindings(entry, info)}
                              ELSE {}
           /\ unheard' = IF "versions" \in lost THEN unheard \cup {i} ELSE unheard
    /\ UNCHANGED <<servers, status, prints>>

-----------------------------------------------------------------------------
(* The control.                                                            *)

\* _TLS_FINDING_REQUIREMENTS.
RequirementOf(rule) ==
    CASE rule \in {"cert_chain_incomplete", "cert_chain_length_unusual", "certificate_expired",
                   "certificate_expires_soon", "tls_certificate_self_signed",
                   "tls_ct_log_evidence_missing", "tls_weak_signature_algorithm"} -> "certificate_chain"
      [] rule = "cert_san_mismatch" -> "certificate_name"
      [] rule \in {"ocsp_stapling_not_observed", "tls_must_staple_not_observed"} -> "ocsp_stapling"
      [] rule \in {"tls_1_0_supported", "tls_1_1_supported", "tls_1_3_not_supported"} -> "protocol_support"
      [] OTHER -> "negotiated_cipher"

\* _observation_completeness.
MissingEvidence ==
    {missing \in (DOMAIN analyses) \X Required :
        analyses[missing[1]].observations[missing[2]] \notin {"observed", "not-applicable"}}

NothingApplies ==
    \A i \in DOMAIN analyses : \A r \in Required : analyses[i].observations[r] = "not-applicable"

\* _inventory_control_assessment.
Failing == {f \in listed : RequirementOf(f.rule) \in Required}
Status ==
    IF Failing # {} THEN "fail"
    ELSE IF ~Complete \/ MissingEvidence # {} THEN "indeterminate"
    ELSE IF NothingApplies THEN "not-applicable" ELSE "pass"

\* finding_fingerprint, which takes the scope from metadata when there is one.
Fingerprint(f) == [rule |-> f.rule, url |-> f.url, scope |-> f.scope]

\* The rest of analyze_external_tls_inventory: the control, then _attach_entry_fingerprints.
Conclude ==
    /\ Len(analyses) = Len(Entries) /\ status = Open
    /\ status' = Status
    /\ prints' = [i \in DOMAIN Entries |-> {Fingerprint(f) : f \in {g \in listed : g.scope = Entries[i].id}}]
    /\ UNCHANGED <<servers, attempts, analyses, listed, unheard>>

InventoryNext == ProbeEntry \/ Conclude
InventorySpec == InventoryInit /\ [][InventoryNext]_inventoryVars

-----------------------------------------------------------------------------
(* Properties. *)

\* The names an entry should hold for: the expected ones, the one that is asked for, or
\* the one it is shown under.
OwnNames(entry) ==
    IF entry.expected # {} THEN entry.expected
    ELSE IF entry.sni # NoName THEN {entry.sni} ELSE {Shown(entry)}

\* What is wrong with an entry in a kind of evidence, whatever was seen of it.
Wrong(i, requirement) ==
    \/ \E rule \in Deserved(servers[i], OwnNames(Entries[i])) : RequirementOf(rule) = requirement
    \/ requirement = "certificate_chain" /\ servers[i].notAfter - Today <= Soon
    \/ requirement = "negotiated_cipher" /\ Outdated(servers[i])

\* What need not be wrong and is held against an entry all the same: a chain of unusual
\* length; addresses among its names, which are looked for among the DNS names; and TLS
\* 1.3, which counts as not supported when its handshake was lost.
Unusual(i, requirement) ==
    \/ requirement = "certificate_chain" /\ (Len(servers[i].chain) = 1 \/ Len(servers[i].chain) > MaxDepth)
    \/ requirement = "certificate_name" /\ OwnNames(Entries[i]) \cap IpLiterals # {}
    \/ requirement = "protocol_support" /\ i \in unheard

\* "Missing mandatory observations, missing completeness attestation, probe failures,
\* or unsupported bounded observations produce `indeterminate`, not an inferred `pass`"
\* (docs/audit-policy.md:654). A version whose handshake failed counts as one the
\* endpoint does not speak, and one version that was heard is an observation.
LossLeavesItOpen ==
    status = "pass" =>
        \A i \in unheard : "protocol_support" \in Required => "protocol_support" \in Entries[i].notApplicable

\* A control passes only if every endpoint of the inventory is in order in every kind of
\* evidence that is required and applies to it, and the inventory was said to be complete;
\* but for the two kinds that are taken for observed when they were not: versions that
\* were not heard (LossLeavesItOpen is false), and stapling.
PassIsEarned ==
    status = "pass" =>
        Complete /\ \A i \in DOMAIN Entries : \A r \in Required \ Entries[i].notApplicable :
            \/ ~Wrong(i, r)
            \/ r = "protocol_support" /\ i \in unheard
            \/ r = "ocsp_stapling"

\* A control fails only because of an endpoint that is not in order in a kind of evidence
\* that is required (of that endpoint or not: what was declared not applicable to it
\* counts against it too).
FailIsJustified ==
    status = "fail" =>
        \E i \in DOMAIN Entries : \E r \in Required : Wrong(i, r) \/ Unusual(i, r)

\* What is said of an entry rests on the attempt that was made for it.
EvidenceIsOwn == \A i \in DOMAIN analyses : attempts[analyses[i].reference] = analyses[i].entry

\* Whoever suppresses a finding of one entry suppresses none of another, even when both
\* are shown under one name.
FingerprintsSeparate == \A i, j \in DOMAIN prints : i # j => prints[i] \cap prints[j] = {}

\* In short, of an inventory.
InventoryIsSound == PassIsEarned /\ FailIsJustified /\ EvidenceIsOwn /\ FingerprintsSeparate

=============================================================================
