------------------------------ MODULE RedirectChain ------------------------------
(***************************************************************************)
(* Following one redirect chain (_follow_redirect_chain in                  *)
(* external/recon/__init__.py) through servers that may answer each probe   *)
(* as they like: with a redirect, with something else, or not at all.       *)
(***************************************************************************)
EXTENDS Naturals, Sequences

CONSTANTS
    Url,           \* probe targets, told apart by their URL
    HttpsUrl,      \* those whose scheme is https
    HostOf,        \* the host of a URL
    Unsupported,   \* Location values that lead to no http or https target
    Invalid,       \* Location values whose port is not a port: urlsplit().port raises
    NoLocation,
    MaxHops        \* _REDIRECT_CHAIN_MAX_HOPS

Location == Url \cup Unsupported \cup Invalid

ASSUME ChainAssumption ==
    /\ MaxHops \in Nat \ {0}
    /\ HttpsUrl \subseteq Url
    /\ Url \cap Unsupported = {} /\ Url \cap Invalid = {} /\ Unsupported \cap Invalid = {}
    /\ NoLocation \notin Location

VARIABLES
    hops,      \* the hops recorded so far
    current,   \* current_attempt
    seenUrls,  \* seen_urls
    mixed,     \* mixed_scheme_redirect
    cross,     \* cross_domain_redirect
    outcome,   \* "following", or how the chain ended
    final      \* final_url of the analysis

chainVars == <<hops, current, seenUrls, mixed, cross, outcome, final>>

\* What a probe of a URL returns: a redirect has a redirect status and a
\* Location; any other answer, and none, has no Location that counts.
Reply == [url : Url, location : Location \cup {NoLocation}, answered : BOOLEAN]
Probes(url) == {a \in Reply : a.url = url /\ (a.location # NoLocation => a.answered)}

\* _analyze_redirect_chains(): chains start at an http target that redirects to https.
ChainInit ==
    /\ hops = <<>>
    /\ \E u \in Url \ HttpsUrl : \E l \in HttpsUrl \cup Unsupported \cup Invalid :
          current = [url |-> u, location |-> l, answered |-> TRUE]
    /\ seenUrls = {current.url}
    /\ mixed = FALSE /\ cross = FALSE
    /\ outcome = "following"
    /\ final = current.url

\* The hop loop has a turn left, and records the hop first.

Turn == outcome = "following" /\ Len(hops) < MaxHops
Recorded == Append(hops, current)
SourceUrl == Recorded[1].url

\* The current attempt does not redirect: the chain ends there.
EndAtAnswer ==
    /\ Turn
    /\ current.location = NoLocation
    /\ hops' = Recorded
    /\ outcome' = "answer" /\ final' = current.url
    /\ UNCHANGED <<current, seenUrls, mixed, cross>>

MutantKeepProbing ==
    /\ Turn
    /\ current.location \in Unsupported
    /\ UNCHANGED chainVars

EndUnsupported ==
    /\ Turn
    /\ current.location \in Unsupported
    /\ hops' = Recorded
    /\ outcome' = "unsupported" /\ final' = current.location
    /\ UNCHANGED <<current, seenUrls, mixed, cross>>

\* _redirect_target_from_location() lets the ValueError of urlsplit().port out,
\* and nothing in analyze_external_target() catches it.
EndRaising ==
    /\ Turn
    /\ current.location \in Invalid
    /\ outcome' = "raised"
    /\ UNCHANGED <<hops, current, seenUrls, mixed, cross, final>>

MutantSteps(next) ==
    /\ cross' = (HostOf[next] # HostOf[current.url])
    /\ mixed' = (next \notin HttpsUrl)

Steps(next) ==
    /\ cross' = (cross \/ HostOf[next] # HostOf[SourceUrl])
    /\ mixed' = (mixed \/ next \notin HttpsUrl)

EndInLoop ==
    /\ Turn
    /\ current.location \in seenUrls
    /\ hops' = Recorded
    /\ Steps(current.location)
    /\ outcome' = "loop" /\ final' = current.location
    /\ UNCHANGED <<current, seenUrls>>

\* A new target: it is probed, whatever the number of hops.
MutantForget ==
    /\ Turn
    /\ current.location \in Url \ seenUrls
    /\ hops' = Recorded
    /\ Steps(current.location)
    /\ seenUrls' = {current.location}
    /\ current' \in Probes(current.location)
    /\ UNCHANGED <<outcome, final>>


Follow ==
    /\ Turn
    /\ current.location \in Url \ seenUrls
    /\ hops' = Recorded
    /\ Steps(current.location)
    /\ seenUrls' = seenUrls \cup {current.location}
    /\ current' \in Probes(current.location)
    /\ UNCHANGED <<outcome, final>>

\* The loop is exhausted: what the last probe saw is not recorded.
MutantTruncateEarly ==
    /\ outcome = "following" /\ Len(hops) = MaxHops - 1
    /\ outcome' = "truncated" /\ final' = current.url
    /\ UNCHANGED <<hops, current, seenUrls, mixed, cross>>

Truncate ==
    /\ outcome = "following" /\ Len(hops) = MaxHops
    /\ outcome' = "truncated" /\ final' = current.url
    /\ UNCHANGED <<hops, current, seenUrls, mixed, cross>>

ChainNext == EndAtAnswer \/ EndUnsupported \/ EndRaising \/ EndInLoop \/ Follow \/ Truncate

\* Every step is the program's own; ExternalProbe says when a probe ends.
ChainSpec == ChainInit /\ [][ChainNext]_chainVars /\ WF_chainVars(ChainNext)

(***************************************************************************)
(* Properties.                                                             *)
(***************************************************************************)

\* A hop records the attempt it was made of, and the chain is never longer than
\* its limit.
ChainTypeOK ==
    /\ hops \in Seq(Reply) /\ Len(hops) =< MaxHops
    /\ current \in Reply
    /\ seenUrls \subseteq Url
    /\ mixed \in BOOLEAN /\ cross \in BOOLEAN
    /\ outcome \in {"following", "answer", "unsupported", "loop", "truncated", "raised"}
    /\ final \in Url \cup Unsupported

\* What follows the k-th hop: the next hop, or what comes after the last one.
After(k) == IF k < Len(hops) THEN hops[k + 1].url
            ELSE IF outcome \in {"following", "truncated", "raised"} THEN current.url ELSE final

\* The recorded hops are one walk: each leads to the next and the last to the
\* final URL, so the report never shows a chain no browser would take.
ChainIsLinked ==
    \A k \in DOMAIN hops : hops[k].location = NoLocation \/ hops[k].location = After(k)

\* No URL is visited twice, and a loop is reported exactly when the chain came
\* back to a URL it had visited; a server that bounces between two names, or
\* that answers the same URL differently the second time, is caught all the same.
LoopIsExact ==
    /\ \A j, k \in DOMAIN hops : hops[j].url = hops[k].url => j = k
    /\ outcome = "loop" <=> outcome # "following" /\ Len(hops) > 0
                            /\ hops[Len(hops)].location # NoLocation
                            /\ \E k \in DOMAIN hops : hops[k].url = hops[Len(hops)].location

\* The flags tell of the whole chain: somewhere it left the host it started on,
\* somewhere it left https.  Both are sticky and compare with the source, not
\* with the hop before.
FlagsTellTheChain ==
    LET targets == {hops[k].location : k \in DOMAIN hops} \cap Url
    IN  /\ cross <=> \E u \in targets : HostOf[u] # HostOf[hops[1].url]
        /\ mixed <=> \E u \in targets : u \notin HttpsUrl

\* A chain that ends says why: at an answer, at a target that cannot be probed,
\* in a loop, or because it is as long as it may be, with every hop a redirect.
EndSaysWhy ==
    /\ outcome = "answer" => hops[Len(hops)].location = NoLocation /\ final = hops[Len(hops)].url
    /\ outcome = "truncated" => /\ Len(hops) = MaxHops
                                /\ \A k \in DOMAIN hops : hops[k].location \in Url

\* In short, of what a chain is recorded as.
ChainIsTold == ChainTypeOK /\ ChainIsLinked /\ LoopIsExact /\ FlagsTellTheChain /\ EndSaysWhy

\* Every chain ends, also through servers that redirect for ever.
ChainEnds == <>(outcome # "following")
================================================================================
