------------------------ MODULE ExternalAnalysis_proofs ------------------------
(***************************************************************************)
(* What the report on a host says, for every host, every answer, every     *)
(* policy and every registry that AnalysisAssumption allows: the manifest  *)
(* accounts for all rules, one server is judged and named without a        *)
(* contradiction, a disclosure is told by one rule of two.  First, what a  *)
(* recorder holds for any runner, whatever it runs and in which order.     *)
(***************************************************************************)
EXTENDS ExternalAnalysis, ExecutionRecorder, ExecutionManifest_proofs, FiniteSetTheorems

-----------------------------------------------------------------------------
(* A recorder that is called by anybody, for every set of rules and every *)
(* assignment of stages. Nothing is assumed about the order of the calls. *)

\* The range and the ordering facts of Strength that the proofs need: it is a
\* number on every event, and zero only for NoEvent.
LEMMA StrengthFacts ==
    ASSUME NEW r \in Rule, NEW event \in EventOf(r)
    PROVE  /\ Strength(event) \in 1..7
           /\ event # NoEvent
           /\ event.state = "failed" <=> Strength(event) = 7
BY DEF EventOf, Completed, Failed, Skipped, Reason, Strength, ReasonOrder, NoEvent

\* _record_terminal keeps the stronger of the held and the arriving event, and on
\* a tie the two are the same event: Reduce is the maximum of a total order.
LEMMA ReduceKeepsStrongest ==
    ASSUME NEW r \in Rule, NEW existing \in EventOf(r), NEW event \in EventOf(r)
    PROVE  /\ Reduce(existing, event) \in {existing, event}
           /\ Strength(existing) =< Strength(Reduce(existing, event))
           /\ Strength(event) =< Strength(Reduce(existing, event))
BY DEF EventOf, Completed, Failed, Skipped, Reason, Strength, ReasonOrder, NoEvent, Reduce

\* The inductive invariant: besides the type and the verdicts it needs that the
\* selection has no duplicate and that whatever was reported about is selected.
RecorderIInv ==
    /\ RecorderTypeOK
    /\ OutcomeIsStrongest
    /\ SelectedOnce(rec)
    /\ \A r \in Rule : observed[r] # {} => r \in SelectedSet(rec)

\* Nothing is recorded before the first rule.
LEMMA RecorderInitIInv == RecorderInit => RecorderIInv
BY DEF RecorderInit, RecorderIInv, RecorderTypeOK, OutcomeIsStrongest, SelectedOnce, EmptyRecorder, SelectedSet

\* What the type says of the recorder alone.
LEMMA RecorderIsSound == RecorderIInv => SoundRecorder(rec)
BY DEF RecorderIInv, RecorderTypeOK, SoundRecorder, RecorderValue

\* select: the rule is selected, no verdict changes.
LEMMA SelectPreserves ==
    ASSUME RecorderIInv, NEW r \in Rule, SelectRule(r)
    PROVE  RecorderIInv'
<1>1. rec \in RecorderValue /\ SelectedOnce(rec)
  BY RecorderIsSound DEF SoundRecorder
<1>2. /\ rec' \in RecorderValue
      /\ rec'.terminal = rec.terminal
      /\ SelectedSet(rec') = SelectedSet(rec) \cup {r}
      /\ SelectedOnce(rec')
  BY <1>1, SelectAddsOnce DEF SelectRule
<1>3. QED
  BY <1>2 DEF RecorderIInv, RecorderTypeOK, OutcomeIsStrongest, SelectRule, RecorderValue

\* _record_terminal: the verdict on this rule is the stronger of two, the others stand.
LEMMA ReportPreserves ==
    ASSUME RecorderIInv, NEW r \in Rule, NEW event \in EventOf(r), ReportEvent(r, event)
    PROVE  RecorderIInv'
<1> DEFINE new == Reduce(rec.terminal[r], event)
<1>1. SoundRecorder(rec) /\ rec.terminal \in [Rule -> Event \cup {NoEvent}]
  BY RecorderIsSound DEF SoundRecorder, RecorderValue
<1>2. /\ SoundRecorder(rec')
      /\ SelectedSet(rec') = SelectedSet(rec) \cup {r}
      /\ rec'.terminal = [rec.terminal EXCEPT ![r] = new]
  BY <1>1, RecordAdds DEF ReportEvent
<1>3. event \in Event
  BY DEF Event
<1>4. rec.terminal[r] \in EventOf(r) \cup {NoEvent}
  BY <1>1 DEF SoundRecorder
<1>5. new \in EventOf(r)
  BY <1>4, ReduceStates
<1>7. /\ rec'.terminal[r] = new
      /\ \A q \in Rule \ {r} : rec'.terminal[q] = rec.terminal[q]
  BY <1>1, <1>2
<1>8. observed' = [observed EXCEPT ![r] = @ \cup {event}]
  BY DEF ReportEvent
<1> HIDE DEF new
<1>9. SelectedSet(rec') = SelectedSet(rec) \cup {r} /\ SelectedOnce(rec')
  BY <1>2 DEF SoundRecorder
<1>10. RecorderTypeOK'
  <2>1. /\ rec' \in RecorderValue
        /\ \A q \in Rule : rec'.terminal[q] \in EventOf(q) \cup {NoEvent}
    BY <1>2 DEF SoundRecorder
  <2>2. /\ observed' \in [Rule -> SUBSET Event]
        /\ \A q \in Rule : observed'[q] \subseteq EventOf(q)
    BY <1>3, <1>8 DEF RecorderIInv, RecorderTypeOK
  <2>3. QED BY <2>1, <2>2 DEF RecorderTypeOK, RecorderValue
<1>11. OutcomeIsStrongest'
  <2> SUFFICES ASSUME NEW q \in Rule
               PROVE  IF observed'[q] = {}
                      THEN rec'.terminal[q] = NoEvent
                      ELSE /\ rec'.terminal[q] \in observed'[q]
                           /\ \A e \in observed'[q] : Strength(e) =< Strength(rec'.terminal[q])
    BY DEF OutcomeIsStrongest
  <2>1. CASE q # r
    BY <2>1, <1>7, <1>8 DEF RecorderIInv, RecorderTypeOK, OutcomeIsStrongest
  <2>2. CASE q = r /\ observed[r] = {}
    <3>1. rec.terminal[r] = NoEvent
      BY <2>2 DEF RecorderIInv, OutcomeIsStrongest
    <3>2. rec'.terminal[r] = event
      BY <3>1, <1>7, ReduceEnds DEF new
    <3>3. observed'[r] = {event}
      BY <2>2, <1>8 DEF RecorderIInv, RecorderTypeOK
    <3>4. Strength(event) \in 1..7
      BY StrengthFacts
    <3>5. QED BY <2>2, <3>2, <3>3, <3>4
  <2>3. CASE q = r /\ observed[r] # {}
    <3>1. /\ rec.terminal[r] \in observed[r]
          /\ \A e \in observed[r] : Strength(e) =< Strength(rec.terminal[r])
      BY <2>3 DEF RecorderIInv, OutcomeIsStrongest
    <3>2. rec.terminal[r] \in EventOf(r) /\ observed[r] \subseteq EventOf(r)
      BY <3>1 DEF RecorderIInv, RecorderTypeOK
    <3>3. /\ new \in {rec.terminal[r], event}
          /\ Strength(rec.terminal[r]) =< Strength(new)
          /\ Strength(event) =< Strength(new)
      BY <3>2, ReduceKeepsStrongest DEF new
    <3>4. observed'[r] = observed[r] \cup {event} /\ rec'.terminal[r] = new
      BY <1>7, <1>8 DEF RecorderIInv, RecorderTypeOK
    <3>5. \A e \in observed'[r] : Strength(e) \in 1..7
      BY <3>2, <3>4, StrengthFacts
    <3>6. Strength(rec.terminal[r]) \in 1..7 /\ Strength(new) \in 1..7
      BY <3>2, <1>5, StrengthFacts
    <3>7. QED BY <2>3, <3>1, <3>3, <3>4, <3>5, <3>6
  <2>4. QED BY <2>1, <2>2, <2>3
<1>12. \A q \in Rule : observed'[q] # {} => q \in SelectedSet(rec')
  BY <1>8, <1>9 DEF RecorderIInv, RecorderTypeOK
<1>13. QED
  BY <1>9, <1>10, <1>11, <1>12 DEF RecorderIInv

\* The inductive invariant holds in every reachable state of a recorder.
THEOREM RecorderInvariance == RecorderSpec => []RecorderIInv
<1>1. RecorderIInv /\ [RecorderNext]_recorderVars => RecorderIInv'
  <2> SUFFICES ASSUME RecorderIInv, [RecorderNext]_recorderVars PROVE RecorderIInv'
    OBVIOUS
  <2>1. ASSUME NEW r \in Rule, SelectRule(r) PROVE RecorderIInv'
    BY <2>1, SelectPreserves
  <2>2. ASSUME NEW r \in Rule, NEW event \in EventOf(r), ReportEvent(r, event) PROVE RecorderIInv'
    BY <2>2, ReportPreserves
  <2>3. CASE UNCHANGED recorderVars
    BY <2>3 DEF recorderVars, RecorderIInv, RecorderTypeOK, OutcomeIsStrongest, SelectedOnce, SelectedSet
  <2>4. QED BY <2>1, <2>2, <2>3, ReportedAssumption DEF RecorderNext
<1>2. QED BY RecorderInitIInv, <1>1, PTL DEF RecorderSpec

\* Type correctness of the recorder, for every set of rules.
THEOREM RecorderTypeCorrect == RecorderSpec => []RecorderTypeOK
<1>1. RecorderIInv => RecorderTypeOK
  BY DEF RecorderIInv
<1>2. QED BY RecorderInvariance, <1>1, PTL

\* The verdict on every rule is the strongest event reported about it, whatever
\* the order in which contexts and web.config files made the runners report.
THEOREM VerdictIsOrderIndependent == RecorderSpec => []OutcomeIsStrongest
<1>1. RecorderIInv => OutcomeIsStrongest
  BY DEF RecorderIInv
<1>2. QED BY RecorderInvariance, <1>1, PTL

\* In a reachable state a rule has an event exactly if one was reported about it.
LEMMA HeldIffObserved ==
    ASSUME RecorderIInv, NEW r \in Rule
    PROVE  rec.terminal[r] = NoEvent <=> observed[r] = {}
<1>1. CASE observed[r] = {}
  BY <1>1 DEF RecorderIInv, OutcomeIsStrongest
<1>2. CASE observed[r] # {}
  <2>1. rec.terminal[r] \in EventOf(r)
    BY <1>2 DEF RecorderIInv, RecorderTypeOK, OutcomeIsStrongest
  <2>2. QED BY <1>2, <2>1, StrengthFacts
<1>3. QED BY <1>1, <1>2

\* Building the manifest fails for one reason only, a rule that was selected and
\* never reported about; whatever a runner reports is then in the manifest.
THEOREM ManifestFailsOnlyIncomplete == RecorderSpec => []ManifestOnlyFailsIncomplete
<1>1. RecorderIInv => ManifestOnlyFailsIncomplete
  <2> SUFFICES ASSUME RecorderIInv PROVE ManifestOnlyFailsIncomplete
    OBVIOUS
  <2>1. Unselected(rec) = {}
    BY HeldIffObserved DEF RecorderIInv, Unselected
  <2>2. SelectedOnce(rec)
    BY DEF RecorderIInv
  <2>3. SelectedSet(rec) \subseteq Rule
    BY DEF RecorderIInv, RecorderTypeOK, SelectedSet
  <2>4. Missing(rec) = {} <=> \A r \in SelectedSet(rec) : observed[r] # {}
    BY <2>3, HeldIffObserved DEF Missing
  <2>5. Manifest(rec).error = "none" <=> Missing(rec) = {}
    BY <2>1, <2>2 DEF Manifest
  <2>6. QED BY <2>1, <2>2, <2>4, <2>5 DEF ManifestOnlyFailsIncomplete
<1>2. QED BY RecorderInvariance, <1>1, PTL

\* No step of any runner turns a failed rule into anything else.
THEOREM FailureStays == RecorderSpec => FailureIsSticky
<1> DEFINE Sticky ==
      \A r \in Rule : rec.terminal[r].state = "failed" => rec'.terminal[r].state = "failed"
<1>1. RecorderIInv /\ [RecorderNext]_recorderVars => [Sticky]_recorderVars
  <2> SUFFICES ASSUME RecorderIInv, RecorderNext PROVE Sticky
    OBVIOUS
  <2> SUFFICES ASSUME NEW q \in Rule, rec.terminal[q].state = "failed"
               PROVE  rec'.terminal[q].state = "failed"
    OBVIOUS
  <2>1. /\ SoundRecorder(rec) /\ rec \in RecorderValue /\ SelectedOnce(rec)
        /\ rec.terminal[q] \in EventOf(q)
    BY RecorderIsSound DEF SoundRecorder, NoEvent
  <2>2. ASSUME NEW r \in Rule, SelectRule(r) PROVE rec'.terminal[q].state = "failed"
    BY <2>1, <2>2, SelectAddsOnce DEF SelectRule
  <2>3. ASSUME NEW r \in Rule, NEW event \in EventOf(r), ReportEvent(r, event)
        PROVE  rec'.terminal[q].state = "failed"
    <3>1. rec'.terminal = [rec.terminal EXCEPT ![r] = Reduce(rec.terminal[r], event)]
      BY <2>1, <2>3, RecordAdds DEF ReportEvent
    <3>2. rec.terminal \in [Rule -> Event \cup {NoEvent}]
      BY <2>1 DEF RecorderValue
    <3>3. CASE q = r
      BY <2>1, <3>1, <3>2, <3>3, ReduceEnds
    <3>4. CASE q # r
      BY <3>1, <3>2, <3>4
    <3>5. QED BY <3>3, <3>4
  <2>4. QED BY <2>2, <2>3, ReportedAssumption DEF RecorderNext
<1>2. QED BY RecorderInvariance, <1>1, PTL DEF RecorderSpec, FailureIsSticky

-----------------------------------------------------------------------------
(* The groups of rules. *)

\* A sequence that holds each element of a set once.
Lists(s, S) == s \in Seq(S) /\ Elems(s) = S /\ Once(s)

\* Two such sequences that share nothing, one after the other.
LEMMA Concatenated ==
    ASSUME NEW S, NEW T, S \cap T = {}, NEW s, Lists(s, S), NEW t, Lists(t, T)
    PROVE  Lists(s \o t, S \cup T)
<1> DEFINE u == s \o t
<1>1. /\ u \in Seq(S \cup T) /\ Len(s) \in Nat /\ Len(t) \in Nat /\ Len(u) = Len(s) + Len(t)
      /\ \A i \in 1..Len(s) : u[i] = s[i]
      /\ \A i \in 1..Len(t) : u[Len(s) + i] = t[i]
  BY DEF Lists
<1> HIDE DEF u
<1>2. \A i \in 1..Len(u) : \/ i \in 1..Len(s)
                           \/ i - Len(s) \in 1..Len(t) /\ Len(s) + (i - Len(s)) = i
  BY <1>1
<1>3. \A i \in 1..Len(u) : \/ i \in 1..Len(s) /\ u[i] = s[i]
                           \/ i - Len(s) \in 1..Len(t) /\ u[i] = t[i - Len(s)]
  BY <1>1, <1>2
<1>4. Elems(s) = S /\ Elems(t) = T /\ Once(s) /\ Once(t)
  BY DEF Lists
<1>5. Elems(u) \subseteq S \cup T
  BY <1>3, <1>4 DEF Elems
<1>6. S \cup T \subseteq Elems(u)
  <2>1. \A i \in 1..Len(s) : i \in 1..Len(u)
    BY <1>1
  <2>2. \A i \in 1..Len(t) : Len(s) + i \in 1..Len(u)
    BY <1>1
  <2>3. QED BY <1>1, <1>4, <2>1, <2>2, SMTT(60) DEF Elems
<1>7. Once(u)
  <2> SUFFICES ASSUME NEW i \in 1..Len(u), NEW j \in 1..Len(u), u[i] = u[j] PROVE i = j
    BY DEF Once
  <2>1. CASE i \in 1..Len(s) /\ j \in 1..Len(s)
    BY <1>1, <1>4, <2>1 DEF Once
  <2>2. CASE i \notin 1..Len(s) /\ j \notin 1..Len(s)
    <3>1. i - Len(s) = j - Len(s)
      BY <1>3, <1>4, <2>2 DEF Once
    <3>2. QED BY <1>1, <3>1
  <2>3. CASE i \in 1..Len(s) /\ j \notin 1..Len(s)
    <3>1. u[i] \in S /\ u[j] \in T
      BY <1>3, <1>4, <2>3, SMTT(60) DEF Elems
    <3>2. QED BY <3>1
  <2>4. CASE i \notin 1..Len(s) /\ j \in 1..Len(s)
    <3>1. u[j] \in S /\ u[i] \in T
      BY <1>1, <1>3, <1>4, <2>4 DEF Elems
    <3>2. QED BY <3>1
  <2>5. QED BY <2>1, <2>2, <2>3, <2>4
<1>8. QED BY <1>1, <1>5, <1>6, <1>7 DEF Lists, u

\* The runner lists each of its rules once.
LEMMA GroupedIs ==
    ASSUME AnalysisAssumption
    PROVE  /\ Grouped \in Seq(Rule) /\ Once(Grouped)
           /\ ToSet(Grouped) =
                 {"https_not_available", "http_not_redirected_to_https", "hsts_header_missing",
                  "x_frame_options_missing", "server_version_disclosed",
                  "x_powered_by_header_present", "x_aspnet_version_header_present",
                  "nginx.redirect_target_unexpected",
                  "iis.server_header_removal_not_applied", "cors_wildcard_origin",
                  "unknown_host_runtime_response", "certificate_expired", "server_status_exposed",
                  "nginx.version_disclosed_in_server_header",
                  "apache.version_disclosed_in_server_header", "apache.mod_status_public",
                  "iis.aspnet_version_header_present", "lighttpd.version_in_server_header",
                  "lighttpd.mod_status_public"}
<1> DEFINE g1 == AvailabilityRules \o RedirectRules
           g2 == g1 \o HstsRules
           g3 == g2 \o HeaderRules
           g4 == g3 \o DisclosureRules
           g5 == g4 \o ScopedRules
           g6 == g5 \o OpenRules
           g7 == g6 \o TlsRules
           g8 == g7 \o PathRules
           G1 == {"https_not_available", "http_not_redirected_to_https"}
           G2 == G1 \cup {"hsts_header_missing"}
           G3 == G2 \cup {"x_frame_options_missing"}
           D  == {"server_version_disclosed", "x_powered_by_header_present",
                  "x_aspnet_version_header_present"}
           G4 == G3 \cup D
           G5 == G4 \cup {"nginx.redirect_target_unexpected", "iis.server_header_removal_not_applied"}
           G6 == G5 \cup {"cors_wildcard_origin", "unknown_host_runtime_response"}
           G7 == G6 \cup {"certificate_expired"}
           G8 == G7 \cup {"server_status_exposed"}
           C  == {"nginx.version_disclosed_in_server_header",
                  "apache.version_disclosed_in_server_header",
                  "apache.mod_status_public", "iis.aspnet_version_header_present",
                  "lighttpd.version_in_server_header", "lighttpd.mod_status_public"}
<1>1. Lists(g1, G1)
  <2>1. Lists(AvailabilityRules, {"https_not_available"}) /\ Lists(RedirectRules, {"http_not_redirected_to_https"})
    BY DEF AvailabilityRules, RedirectRules, Lists, Elems, Once
  <2>2. QED BY <2>1, Concatenated
<1>2. Lists(g2, G2)
  <2>1. Lists(HstsRules, {"hsts_header_missing"})
    BY DEF HstsRules, Lists, Elems, Once
  <2>2. g2 = g1 \o HstsRules /\ G2 = G1 \cup {"hsts_header_missing"} /\ G1 \cap {"hsts_header_missing"} = {}
    OBVIOUS
  <2> HIDE DEF g2, g1, G2, G1
  <2>3. QED BY <1>1, <2>1, <2>2, Concatenated
<1>3. Lists(g3, G3)
  <2>1. Lists(HeaderRules, {"x_frame_options_missing"})
    BY DEF HeaderRules, Lists, Elems, Once
  <2>2. g3 = g2 \o HeaderRules /\ G3 = G2 \cup {"x_frame_options_missing"} /\ G2 \cap {"x_frame_options_missing"} = {}
    OBVIOUS
  <2> HIDE DEF g3, g2, G3, G2
  <2>3. QED BY <1>2, <2>1, <2>2, Concatenated
<1>4. Lists(g4, G4)
  <2>1. Lists(DisclosureRules, D)
    BY DEF DisclosureRules, Lists, Elems, Once
  <2>2. g4 = g3 \o DisclosureRules /\ G4 = G3 \cup D /\ G3 \cap D = {}
    OBVIOUS
  <2> HIDE DEF g4, g3, G4, G3, D
  <2>3. QED BY <1>3, <2>1, <2>2, Concatenated
<1>5. Lists(g5, G5)
  <2>1. Lists(ScopedRules, {"nginx.redirect_target_unexpected", "iis.server_header_removal_not_applied"})
    BY DEF ScopedRules, Lists, Elems, Once
  <2>2. g5 = g4 \o ScopedRules /\ G5 = G4 \cup {"nginx.redirect_target_unexpected", "iis.server_header_removal_not_applied"} /\ G4 \cap {"nginx.redirect_target_unexpected", "iis.server_header_removal_not_applied"} = {}
    OBVIOUS
  <2> HIDE DEF g5, g4, G5, G4
  <2>3. QED BY <1>4, <2>1, <2>2, Concatenated
<1>6. Lists(g6, G6)
  <2>1. Lists(OpenRules, {"cors_wildcard_origin", "unknown_host_runtime_response"})
    BY DEF OpenRules, Lists, Elems, Once
  <2>2. g6 = g5 \o OpenRules /\ G6 = G5 \cup {"cors_wildcard_origin", "unknown_host_runtime_response"} /\ G5 \cap {"cors_wildcard_origin", "unknown_host_runtime_response"} = {}
    OBVIOUS
  <2> HIDE DEF g6, g5, G6, G5
  <2>3. QED BY <1>5, <2>1, <2>2, Concatenated
<1>7. Lists(g7, G7)
  <2>1. Lists(TlsRules, {"certificate_expired"})
    BY DEF TlsRules, Lists, Elems, Once
  <2>2. g7 = g6 \o TlsRules /\ G7 = G6 \cup {"certificate_expired"} /\ G6 \cap {"certificate_expired"} = {}
    OBVIOUS
  <2> HIDE DEF g7, g6, G7, G6
  <2>3. QED BY <1>6, <2>1, <2>2, Concatenated
<1>8. Lists(g8, G8)
  <2>1. Lists(PathRules, {"server_status_exposed"})
    BY DEF PathRules, Lists, Elems, Once
  <2>2. g8 = g7 \o PathRules /\ G8 = G7 \cup {"server_status_exposed"} /\ G7 \cap {"server_status_exposed"} = {}
    OBVIOUS
  <2> HIDE DEF g8, g7, G8, G7
  <2>3. QED BY <1>7, <2>1, <2>2, Concatenated
<1>9. Lists(Grouped, G8 \cup C)
  <2>1. Lists(ConditionalRules, C)
    BY DEF ConditionalRules, Lists, Elems, Once
  <2>2. Grouped = g8 \o ConditionalRules /\ G8 \cap C = {}
    BY DEF Grouped
  <2> HIDE DEF g8, G8, C
  <2>3. QED BY <1>8, <2>1, <2>2, Concatenated
<1>10. ToSet(Grouped) = Elems(Grouped) /\ DOMAIN Grouped = 1..Len(Grouped)
  BY <1>9 DEF Lists, ToSet, Elems
<1>11. ToSet(Grouped) \subseteq Rule
  BY DEF AnalysisAssumption
<1>12. Grouped \in Seq(Rule) /\ Once(Grouped) /\ ToSet(Grouped) = G8 \cup C
  <2> HIDE DEF G8, C
  <2>1. QED BY <1>9, <1>10, <1>11 DEF Lists
<1>13. QED BY <1>12

\* Whose each rule of one server is.
LEMMA ConditionIs ==
    /\ ServerScoped =
          {"nginx.redirect_target_unexpected", "iis.server_header_removal_not_applied",
           "nginx.version_disclosed_in_server_header", "apache.version_disclosed_in_server_header",
           "apache.mod_status_public", "iis.aspnet_version_header_present",
           "lighttpd.version_in_server_header", "lighttpd.mod_status_public"}
    /\ ConditionOf("nginx.redirect_target_unexpected") = "nginx"
    /\ ConditionOf("nginx.version_disclosed_in_server_header") = "nginx"
    /\ ConditionOf("apache.version_disclosed_in_server_header") = "apache"
    /\ ConditionOf("apache.mod_status_public") = "apache"
    /\ ConditionOf("iis.server_header_removal_not_applied") = "iis"
    /\ ConditionOf("iis.aspnet_version_header_present") = "iis"
    /\ ConditionOf("lighttpd.version_in_server_header") = "lighttpd"
    /\ ConditionOf("lighttpd.mod_status_public") = "lighttpd"
<1> DEFINE T == {"nginx", "apache", "iis", "lighttpd"}
<1>1. ToSet(ScopedRules) = {"nginx.redirect_target_unexpected", "iis.server_header_removal_not_applied"}
  BY DEF ScopedRules, ToSet
<1>2. ToSet(ConditionalRules) =
          {"nginx.version_disclosed_in_server_header", "apache.version_disclosed_in_server_header",
           "apache.mod_status_public", "iis.aspnet_version_header_present",
           "lighttpd.version_in_server_header", "lighttpd.mod_status_public"}
  BY DEF ConditionalRules, ToSet
<1>3. \A t \in T : \A r :
         r \in RulesFor(t) <=>
             \/ t = "nginx" /\ r \in {"nginx.redirect_target_unexpected",
                                     "nginx.version_disclosed_in_server_header"}
             \/ t = "apache" /\ r \in {"apache.version_disclosed_in_server_header",
                                      "apache.mod_status_public"}
             \/ t = "iis" /\ r \in {"iis.server_header_removal_not_applied",
                                   "iis.aspnet_version_header_present"}
             \/ t = "lighttpd" /\ r \in {"lighttpd.version_in_server_header",
                                        "lighttpd.mod_status_public"}
  BY DEF RulesFor
<1>4. ASSUME NEW s \in T, NEW r, \A t \in T : r \in RulesFor(t) <=> t = s
      PROVE  ConditionOf(r) = s
  BY <1>4 DEF ConditionOf
<1> HIDE DEF T
<1>5. "nginx" \in T /\ "apache" \in T /\ "iis" \in T /\ "lighttpd" \in T
  BY DEF T
<1>6. /\ ConditionOf("nginx.redirect_target_unexpected") = "nginx"
      /\ ConditionOf("nginx.version_disclosed_in_server_header") = "nginx"
  BY <1>3, <1>4, <1>5
<1>7. /\ ConditionOf("apache.version_disclosed_in_server_header") = "apache"
      /\ ConditionOf("apache.mod_status_public") = "apache"
  BY <1>3, <1>4, <1>5
<1>8. /\ ConditionOf("iis.server_header_removal_not_applied") = "iis"
      /\ ConditionOf("iis.aspnet_version_header_present") = "iis"
  BY <1>3, <1>4, <1>5
<1>9. /\ ConditionOf("lighttpd.version_in_server_header") = "lighttpd"
      /\ ConditionOf("lighttpd.mod_status_public") = "lighttpd"
  BY <1>3, <1>4, <1>5
<1>10. QED BY <1>1, <1>2, <1>6, <1>7, <1>8, <1>9 DEF ServerScoped

-----------------------------------------------------------------------------
(* The recorder. *)

\* The recorder of an analysis whose rules have run.
Ran == RecordEach(EmptyRecorder, Grouped, ToSet(Grouped), [r \in ToSet(Grouped) |-> TerminalState(r)])

\* A new recorder holds nothing.
LEMMA EmptyIs ==
    /\ SoundRecorder(EmptyRecorder) /\ SelectedSet(EmptyRecorder) = {}
    /\ \A r \in Rule : EmptyRecorder.terminal[r] = NoEvent
<1>1. EmptyRecorder \in RecorderValue
  BY DEF EmptyRecorder, RecorderValue
<1>2. QED BY <1>1 DEF EmptyRecorder, SoundRecorder, SelectedSet, SelectedOnce

\* What the runner records about a rule is an event about it.
LEMMA StateIsEvent ==
    ASSUME NEW r
    PROVE  /\ TerminalState(r) \in EventOf(r)
           /\ TerminalState(r).state \in {"completed", "skipped"}
           /\ TerminalState(r) # NoEvent
BY DEF TerminalState, EventOf, Skipped, Completed, Reason, NoEvent

\* After the rules each rule of the runner is selected and holds what was recorded.
LEMMA RanIs ==
    ASSUME AnalysisAssumption
    PROVE  /\ SoundRecorder(Ran) /\ SelectedSet(Ran) = ToSet(Grouped)
           /\ \A r \in Rule : Ran.terminal[r] = IF r \in ToSet(Grouped) THEN TerminalState(r) ELSE NoEvent
<1> DEFINE event == [r \in ToSet(Grouped) |-> TerminalState(r)]
<1>1. Enumerates(Grouped, ToSet(Grouped))
  BY GroupedIs DEF Enumerates, Once, ToSet
<1>2. \A r \in ToSet(Grouped) : event[r] = TerminalState(r) /\ event[r] \in EventOf(r)
  BY StateIsEvent
<1>3. Ran = RecordEach(EmptyRecorder, Grouped, ToSet(Grouped), event)
  BY DEF Ran
<1> HIDE DEF event
<1>4. /\ SoundRecorder(Ran)
      /\ SelectedSet(Ran) = SelectedSet(EmptyRecorder) \cup ToSet(Grouped)
      /\ \A r \in Rule : Ran.terminal[r] = IF r \in ToSet(Grouped) THEN Reduce(EmptyRecorder.terminal[r], event[r])
                                           ELSE EmptyRecorder.terminal[r]
  <2>1. PICK G : G = ToSet(Grouped)
    OBVIOUS
  <2>2. Enumerates(Grouped, G) /\ \A r \in G : event[r] \in EventOf(r)
    BY <1>1, <1>2, <2>1
  <2>3. LET S == RecordEach(EmptyRecorder, Grouped, G, event) IN
        /\ SoundRecorder(S)
        /\ SelectedSet(S) = SelectedSet(EmptyRecorder) \cup G
        /\ \A r \in Rule : S.terminal[r] = IF r \in G THEN Reduce(EmptyRecorder.terminal[r], event[r])
                                           ELSE EmptyRecorder.terminal[r]
    BY <2>2, EmptyIs, RecordEachAdds
  <2>4. QED BY <1>3, <2>1, <2>3
<1>5. \A x : Reduce(NoEvent, x) = x
  BY DEF Reduce
<1>6. QED BY <1>2, <1>4, <1>5, EmptyIs

\* What attaching the context adds: a skip of each required rule that was not selected.
LEMMA RequiredIs ==
    ASSUME AnalysisAssumption, required \in Requirements,
           NEW R, SoundRecorder(R), \A r \in Rule \ SelectedSet(R) : R.terminal[r] = NoEvent
    PROVE  LET S == WithRequired(R) IN
           /\ SoundRecorder(S) /\ SelectedSet(S) = SelectedSet(R) \cup required
           /\ \A r \in SelectedSet(R) : S.terminal[r] = R.terminal[r]
           /\ \A r \in required \ SelectedSet(R) : S.terminal[r].state = "skipped"
           /\ \A r \in Rule \ SelectedSet(S) : S.terminal[r] = NoEvent
<1> DEFINE reason == [r \in Rule |-> IF StageOf[r] = "probe" THEN "input-unavailable" ELSE "mode-incompatible"]
           chosen == required \ SelectedSet(R)
           S == WithRequired(R)
<1>1. required \subseteq Rule /\ SelectedSet(R) \subseteq Rule
  BY DEF AnalysisAssumption, SoundRecorder, RecorderValue, SelectedSet
<1>2. Enumerates(SortedRules, chosen)
  BY <1>1 DEF AnalysisAssumption, Enumerates, ToSet
<1>3. \A r \in Rule : reason[r] \in Reason
  BY DEF Reason
<1>4. S = SkipEach(R, SortedRules, chosen, reason)
  BY DEF WithRequired
<1> HIDE DEF reason, chosen, S
<1>5. /\ SoundRecorder(S) /\ SelectedSet(S) = SelectedSet(R) \cup chosen
      /\ \A r \in Rule : S.terminal[r] = IF r \in chosen THEN Reduce(R.terminal[r], Skipped(reason[r]))
                                         ELSE R.terminal[r]
  BY <1>2, <1>3, <1>4, SkipEachAdds
<1>6. \A x : Reduce(NoEvent, x) = x
  BY DEF Reduce
<1>7. \A r \in Rule : Skipped(reason[r]).state = "skipped"
  BY DEF Skipped
<1>8. SelectedSet(S) = SelectedSet(R) \cup required /\ chosen = required \ SelectedSet(R)
  BY <1>5 DEF chosen
<1>9. \A r \in SelectedSet(R) : S.terminal[r] = R.terminal[r]
  BY <1>1, <1>5, <1>8
<1>10. \A r \in required \ SelectedSet(R) : S.terminal[r].state = "skipped"
  BY <1>1, <1>5, <1>6, <1>7, <1>8
<1>11. \A r \in Rule \ SelectedSet(S) : S.terminal[r] = NoEvent
  BY <1>5, <1>8
<1>12. QED BY <1>5, <1>8, <1>9, <1>10, <1>11 DEF S
-----------------------------------------------------------------------------
(* The invariant. *)

Named == Server \cup {None}
Attempt == [http : BOOLEAN, server : Named, version : BOOLEAN, cookie : BOOLEAN,
            aspnet : AspNetValues \cup {None}, powered : PoweredByValues \cup {None}]
Early == {"resolve", "probe", "redirects", "errors", "malformed", "identify"}

\* What is seen of each endpoint is one of the things that can be seen.
Ranges ==
    /\ analysing \in Early \cup {"paths", "rules", "attach", "done", "raised"}
    /\ endpoint \in 1 .. Len(Endpoints)
    /\ required \in Requirements
    /\ seen \in [Endpoint -> Attempt] /\ errorPage \in [Endpoint -> Named]
    /\ malformed \in [Endpoint -> [server : Named, body : Named]]
    /\ open \in [Endpoint -> SUBSET StatusPath] /\ asked \in [Endpoint -> SUBSET StatusPath]
    /\ \A e \in Endpoint : open[e] \subseteq asked[e] /\ (open[e] # {} => seen[e].http)
    /\ identified.type \in Named

\* Before the server is identified nothing is known of it and no page was asked for;
\* afterwards it is what the votes say, or nothing has answered.
Learned ==
    /\ analysing = "resolve" => ~AnyAnswer
    /\ analysing \in Early => /\ identified = Unclassified /\ issues = {}
                              /\ \A e \in Endpoint : open[e] = {}
    /\ analysing = "paths" => AnyAnswer
    /\ analysing \in {"paths", "rules", "attach", "done"} =>
           IF AnyAnswer THEN identified = Identification /\ issues = IssueOf(identified)
                        ELSE identified = Unclassified /\ issues # {}

\* The findings of the ungrouped rules on some endpoints.
Unusual(es) == {<<r, e, "tls">> : r \in UngroupedRules, e \in es}

\* Before the rules have run nothing is recorded or found; afterwards what the rules
\* make of what was learned, or nothing has answered.
ToldSoFar ==
    /\ analysing \in Early \cup {"paths", "rules"} =>
           recorder = EmptyRecorder /\ judged = {} /\ findings = {}
    /\ analysing \in {"attach", "done"} =>
           /\ judged = {r \in ToSet(Grouped) \cup UngroupedRules : Judges(r)}
           /\ \E es \in SUBSET {e \in Responded : SchemeOf(e) = "https"} :
                 findings = VersionFindings \cup HeaderFindings \cup StatusFindings \cup Unusual(es)
           /\ \E R :
                 /\ R = Ran \/ (R = EmptyRecorder /\ ~AnyAnswer)
                 /\ analysing = "attach" => recorder = R
                 /\ analysing = "done" => recorder = WithRequired(R) /\ manifest = Manifest(recorder)
    /\ analysing = "raised" => recorder = EmptyRecorder /\ judged = {}

AnalysisIInv == Ranges /\ Learned /\ ToldSoFar

-----------------------------------------------------------------------------
(* What is said of unchanged observations is unchanged. *)

\* Who answered depends on what was seen.
LEMMA SeenSame ==
    ASSUME seen' = seen
    PROVE  /\ Responded' = Responded /\ (AnyAnswer' <=> AnyAnswer)
           /\ \A s : AnswerOver(s)' <=> AnswerOver(s)
           /\ \A r : HasInput(r)' <=> HasInput(r)
<1>1. Responded' = Responded
  BY DEF Responded
<1>2. AnyAnswer' <=> AnyAnswer
  BY <1>1 DEF AnyAnswer
<1>3. \A s : AnswerOver(s)' <=> AnswerOver(s)
  BY <1>1 DEF AnswerOver
<1>4. \A r : HasInput(r)' <=> HasInput(r)
  BY <1>2, <1>3 DEF HasInput
<1>5. QED BY <1>1, <1>2, <1>3, <1>4

\* The votes depend on what was seen and betrayed.
LEMMA VotesSame ==
    ASSUME UNCHANGED <<seen, errorPage, malformed>>
    PROVE  Identification' = Identification
<1>1. Responded' = Responded
  BY SeenSame
<1>2. HeaderVotes' = HeaderVotes
  BY <1>1 DEF HeaderVotes
<1>3. BodyVotes' = BodyVotes
  BY DEF BodyVotes
<1>4. StackVotes' = StackVotes
  BY <1>1 DEF StackVotes
<1>5. QED BY <1>2, <1>3, <1>4 DEF Identification, Verdict, Voted

\* What the rules make of it.
LEMMA RulesSame ==
    ASSUME UNCHANGED observations
    PROVE  /\ Ran' = Ran
           /\ \A r : Judges(r)' <=> Judges(r)
           /\ VersionFindings' = VersionFindings /\ HeaderFindings' = HeaderFindings
           /\ StatusFindings' = StatusFindings
<1>1. UNCHANGED <<seen, identified, open>>
  BY DEF observations
<1>2. Responded' = Responded /\ \A r : HasInput(r)' <=> HasInput(r)
  BY <1>1, SeenSame
<1>3. /\ Confident' <=> Confident
      /\ \A r : (Incompatible(r)' <=> Incompatible(r)) /\ (Applicable(r)' <=> Applicable(r))
  BY <1>1 DEF Confident, Incompatible, Applicable
<1>4. \A r : TerminalState(r)' = TerminalState(r)
  BY <1>2, <1>3 DEF TerminalState
<1>5. Ran' = Ran
  BY <1>4 DEF Ran
<1>6. \A r : Judges(r)' <=> Judges(r)
  BY <1>2, <1>3 DEF Judges
<1>7. VersionFindings' = VersionFindings
  BY <1>1, <1>2, <1>3 DEF VersionFindings, Handled
<1>8. HeaderFindings' = HeaderFindings
  BY <1>1, <1>2, <1>3 DEF HeaderFindings
<1>9. StatusFindings' = StatusFindings
  BY <1>1, <1>3 DEF StatusFindings, Suppressed
<1>10. QED BY <1>5, <1>6, <1>7, <1>8, <1>9

-----------------------------------------------------------------------------
(* Each step. *)

\* The step of a loop is at an endpoint.
LEMMA AtIs ==
    ASSUME AnalysisAssumption, endpoint \in 1 .. Len(Endpoints)
    PROVE  At(endpoint) \in Endpoint
BY DEF AnalysisAssumption, Endpoint, At

\* A loop goes on within its endpoints or starts over for the next one.
LEMMA VisitingIs ==
    ASSUME AnalysisAssumption, Ranges, NEW p, NEW q, Visiting(p, q)
    PROVE  /\ analysing = p /\ analysing' \in {p, q} /\ endpoint' \in 1 .. Len(Endpoints)
           /\ At(endpoint) \in Endpoint
<1>1. Len(Endpoints) \in Nat /\ Len(Endpoints) >= 1
  BY DEF AnalysisAssumption
<1>2. endpoint \in 1 .. Len(Endpoints)
  BY DEF Ranges
<1>3. At(endpoint) \in Endpoint
  BY <1>2, AtIs
<1>4. QED BY <1>1, <1>2, <1>3 DEF Visiting

\* An analysis begins with nothing.
LEMMA AnalysisInitIInv == ASSUME AnalysisAssumption, AnalysisInit PROVE AnalysisIInv
<1>1. Len(Endpoints) \in Nat /\ Len(Endpoints) >= 1
  BY DEF AnalysisAssumption
<1>2. Ranges
  BY <1>1 DEF AnalysisInit, Ranges, Unvisited, Quiet, Unclassified, Named, Attempt, Early
<1>3. ~AnyAnswer
  BY DEF AnalysisInit, AnyAnswer, Responded, Unvisited
<1>4. Learned
  BY <1>3 DEF AnalysisInit, Learned, Early
<1>5. ToldSoFar
  BY DEF AnalysisInit, ToldSoFar, Early
<1>6. QED BY <1>2, <1>4, <1>5 DEF AnalysisIInv

\* No target: the analysis ends with an issue and without a rule.
LEMMA NoTargetsKeeps == ASSUME AnalysisAssumption, AnalysisIInv, NoTargets PROVE AnalysisIInv'
<1>1. UNCHANGED observations /\ analysing = "resolve" /\ analysing' = "attach"
  BY DEF NoTargets
<1>2. UNCHANGED <<seen, errorPage, malformed, identified, open, asked>>
  BY <1>1 DEF observations
<1>3. ~AnyAnswer /\ ~AnyAnswer' /\ Responded = {} /\ Responded' = {}
  BY <1>1, <1>2, SeenSame DEF AnalysisIInv, Learned, AnyAnswer
<1>4. \A e \in Endpoint : open[e] = {}
  BY <1>1 DEF AnalysisIInv, Learned, Early
<1>5. Ranges'
  BY <1>1, <1>2 DEF NoTargets, AnalysisIInv, Ranges, Early
<1>6. Learned'
  BY <1>1, <1>2, <1>3 DEF NoTargets, AnalysisIInv, Learned, Early
<1>7. \A r : ~HasInput(r)
  BY <1>3 DEF HasInput, AnyAnswer, AnswerOver
<1>8. {r \in ToSet(Grouped) \cup UngroupedRules : Judges(r)}' = {}
  BY <1>1, <1>7, RulesSame DEF Judges
<1>9. VersionFindings' = {} /\ HeaderFindings' = {} /\ StatusFindings' = {}
  <2>1. VersionFindings = {}
    BY <1>3 DEF VersionFindings
  <2>2. HeaderFindings = {}
    BY <1>3 DEF HeaderFindings
  <2>3. StatusFindings = {}
    BY <1>4 DEF StatusFindings
  <2>4. QED BY <1>1, <2>1, <2>2, <2>3, RulesSame
<1>10. ToldSoFar'
  <2>1. recorder' = EmptyRecorder /\ judged' = {} /\ findings' = {}
    BY <1>1 DEF NoTargets, AnalysisIInv, ToldSoFar, Early
  <2>2. Unusual({}) = {} /\ {} \in SUBSET {e \in Responded' : SchemeOf(e) = "https"}
    BY DEF Unusual
  <2>3. findings' = VersionFindings' \cup HeaderFindings' \cup StatusFindings' \cup Unusual({})
    BY <1>9, <2>1, <2>2
  <2>4. \E es \in SUBSET {e \in Responded' : SchemeOf(e) = "https"} :
           findings' = VersionFindings' \cup HeaderFindings' \cup StatusFindings' \cup Unusual(es)
    BY <2>2, <2>3
  <2>5. QED BY <1>1, <1>3, <1>8, <2>1, <2>4 DEF ToldSoFar, Early
<1>11. QED BY <1>5, <1>6, <1>10 DEF AnalysisIInv

\* The steps that only go on: resolving, following redirects, raising.
LEMMA PassingKeeps ==
    ASSUME AnalysisAssumption, AnalysisIInv, Resolve \/ FollowRedirects \/ RedirectRaises \/ RuleRaises
    PROVE  AnalysisIInv'
<1>1. /\ UNCHANGED <<endpoint, required, observations, concluded>>
      /\ analysing' \in {"probe", "errors", "raised"}
      /\ analysing' \in {"probe", "errors"} => analysing \in Early
      /\ analysing \in Early \cup {"paths", "rules"}
  BY DEF Resolve, FollowRedirects, RedirectRaises, RuleRaises, Early
<1>2. /\ UNCHANGED <<seen, errorPage, malformed, identified, open, asked>>
      /\ UNCHANGED <<recorder, judged, findings, issues, manifest>>
  BY <1>1 DEF observations, concluded
<1>3. Ranges'
  BY <1>1, <1>2 DEF AnalysisIInv, Ranges, Early
<1>4. Learned'
  BY <1>1, <1>2 DEF AnalysisIInv, Learned, Early
<1>5. ToldSoFar'
  BY <1>1, <1>2 DEF AnalysisIInv, ToldSoFar, Early
<1>6. QED BY <1>3, <1>4, <1>5 DEF AnalysisIInv

\* Probing an endpoint, by a request or into an error page.
LEMMA ProbingKeeps ==
    ASSUME AnalysisAssumption, AnalysisIInv, Probe \/ ProbeErrorPage \/ ProbeMalformed
    PROVE  AnalysisIInv'
<1>1. /\ analysing \in Early \ {"resolve"} /\ analysing' \in Early \ {"resolve"}
      /\ endpoint' \in 1 .. Len(Endpoints) /\ At(endpoint) \in Endpoint
      /\ UNCHANGED <<required, identified, open, asked, concluded>>
  <2>1. AnalysisIInv => Ranges
    BY DEF AnalysisIInv
  <2>2. CASE Probe
    BY <2>1, <2>2, VisitingIs DEF Probe, Early
  <2>3. CASE ProbeErrorPage
    BY <2>1, <2>3, VisitingIs DEF ProbeErrorPage, Early
  <2>4. CASE ProbeMalformed
    BY <2>1, <2>4, VisitingIs DEF ProbeMalformed, Early
  <2>5. QED BY <2>2, <2>3, <2>4
<1>2. UNCHANGED <<recorder, judged, findings, issues, manifest>>
  BY <1>1 DEF concluded
<1>3. \A e \in Endpoint : open[e] = {}
  BY <1>1 DEF AnalysisIInv, Learned
<1>4. /\ seen' \in [Endpoint -> Attempt] /\ errorPage' \in [Endpoint -> Named]
      /\ malformed' \in [Endpoint -> [server : Named, body : Named]]
  <2>1. /\ seen \in [Endpoint -> Attempt] /\ errorPage \in [Endpoint -> Named]
        /\ malformed \in [Endpoint -> [server : Named, body : Named]]
    BY DEF AnalysisIInv, Ranges
  <2>2. CASE Probe
    <3>1. Answers[At(endpoint)] \cup {Unvisited} \subseteq Attempt
      <4>1. Unvisited \in Attempt
        BY DEF Attempt, Unvisited, Named
      <4>2. [http : {TRUE}, server : Named, version : BOOLEAN, cookie : BOOLEAN,
             aspnet : AspNetValues \cup {None}, powered : PoweredByValues \cup {None}] \subseteq Attempt
        BY DEF Attempt
      <4>3. Answers[At(endpoint)] \subseteq
                [http : {TRUE}, server : Named, version : BOOLEAN, cookie : BOOLEAN,
                 aspnet : AspNetValues \cup {None}, powered : PoweredByValues \cup {None}]
        BY <1>1 DEF AnalysisAssumption, Named
      <4>4. QED BY <4>1, <4>2, <4>3
    <3>2. QED BY <1>1, <2>1, <2>2, <3>1 DEF Probe
  <2>3. CASE ProbeErrorPage
    BY <1>1, <2>1, <2>3 DEF ProbeErrorPage, AnalysisAssumption, Named
  <2>4. CASE ProbeMalformed
    BY <1>1, <2>1, <2>4 DEF ProbeMalformed, AnalysisAssumption, Named
  <2>5. QED BY <2>2, <2>3, <2>4
<1>5. Ranges'
  BY <1>1, <1>3, <1>4 DEF AnalysisIInv, Ranges
<1>6. Learned'
  BY <1>1, <1>2 DEF AnalysisIInv, Learned, Early
<1>7. ToldSoFar'
  BY <1>1, <1>2 DEF AnalysisIInv, ToldSoFar, Early
<1>8. QED BY <1>5, <1>6, <1>7 DEF AnalysisIInv

\* No answer at all: the rules run on nothing.
LEMMA NoServiceKeeps == ASSUME AnalysisAssumption, AnalysisIInv, NoService PROVE AnalysisIInv'
<1>1. /\ analysing = "identify" /\ analysing' = "rules" /\ ~AnyAnswer
      /\ UNCHANGED <<endpoint, required, observations, recorder, judged, findings, manifest>>
      /\ issues' # {}
  BY DEF NoService
<1>2. UNCHANGED <<seen, errorPage, malformed, identified, open, asked>>
  BY <1>1 DEF observations
<1>3. ~AnyAnswer'
  BY <1>1, <1>2, SeenSame
<1>4. Ranges'
  BY <1>1, <1>2 DEF AnalysisIInv, Ranges, Early
<1>5. Learned'
  BY <1>1, <1>2, <1>3 DEF AnalysisIInv, Learned, Early
<1>6. ToldSoFar'
  BY <1>1, <1>2 DEF AnalysisIInv, ToldSoFar, Early
<1>7. QED BY <1>4, <1>5, <1>6 DEF AnalysisIInv

\* The server that is named is one the votes are for.
LEMMA VerdictIs ==
    ASSUME AnalysisAssumption, NEW votes, Voted(votes) # {}, NEW strong
    PROVE  /\ Verdict(votes, strong).type \in Named
           /\ Verdict(votes, strong).type # None => Verdict(votes, strong).type \in Voted(votes)
<1>1. Voted(votes) \subseteq Server
  BY DEF Voted
<1>2. (CHOOSE t \in Voted(votes) : TRUE) \in Voted(votes)
  OBVIOUS
<1>3. QED BY <1>1, <1>2 DEF Verdict, Named

\* The identified type is that of a server, or none.
LEMMA IdentificationIs == ASSUME AnalysisAssumption PROVE Identification.type \in Named
BY VerdictIs DEF Identification, Unclassified, Named

\* Identifying the server.
LEMMA IdentifyKeeps == ASSUME AnalysisAssumption, AnalysisIInv, Identify PROVE AnalysisIInv'
<1>1. /\ analysing = "identify" /\ analysing' = "paths" /\ AnyAnswer
      /\ identified' = Identification /\ issues' = IssueOf(Identification)
      /\ UNCHANGED <<endpoint, required, seen, errorPage, malformed, open, asked,
                     recorder, judged, findings, manifest>>
  BY DEF Identify
<1>2. AnyAnswer' /\ Identification' = Identification
  BY <1>1, SeenSame, VotesSame
<1>3. Ranges'
  BY <1>1, IdentificationIs DEF AnalysisIInv, Ranges, Early
<1>4. issues' = IssueOf(identified)'
  BY <1>1 DEF IssueOf
<1>5. Learned'
  BY <1>1, <1>2, <1>4 DEF AnalysisIInv, Learned, Early
<1>6. ToldSoFar'
  BY <1>1 DEF AnalysisIInv, ToldSoFar, Early
<1>7. QED BY <1>3, <1>5, <1>6 DEF AnalysisIInv

\* Asking an endpoint for its status pages.
LEMMA ProbePathsKeeps == ASSUME AnalysisAssumption, AnalysisIInv, ProbePaths PROVE AnalysisIInv'
<1>1. /\ analysing = "paths" /\ analysing' \in {"paths", "rules"}
      /\ endpoint' \in 1 .. Len(Endpoints) /\ At(endpoint) \in Endpoint
      /\ UNCHANGED <<required, seen, errorPage, malformed, identified, concluded>>
  BY VisitingIs DEF ProbePaths, AnalysisIInv
<1>2. UNCHANGED <<recorder, judged, findings, issues, manifest>>
  BY <1>1 DEF concluded
<1>3. AnyAnswer' /\ Identification' = Identification
  BY <1>1, SeenSame, VotesSame DEF AnalysisIInv, Learned
<1>4. PathsToProbe \subseteq StatusPath
  BY DEF PathsToProbe, StatusPath
<1>5. /\ open \in [Endpoint -> SUBSET StatusPath] /\ asked \in [Endpoint -> SUBSET StatusPath]
      /\ \A e \in Endpoint : open[e] \subseteq asked[e] /\ (open[e] # {} => seen[e].http)
  BY DEF AnalysisIInv, Ranges
<1>6. /\ open' \in [Endpoint -> SUBSET StatusPath] /\ asked' \in [Endpoint -> SUBSET StatusPath]
      /\ \A e \in Endpoint : open'[e] \subseteq asked'[e] /\ (open'[e] # {} => seen[e].http)
  <2>1. CASE At(endpoint) \in Responded
    <3>1. PICK found \in SUBSET PathsToProbe :
             /\ asked' = [asked EXCEPT ![At(endpoint)] = PathsToProbe]
             /\ open' = [open EXCEPT ![At(endpoint)] = found]
      BY <2>1 DEF ProbePaths
    <3>2. seen[At(endpoint)].http
      BY <2>1 DEF Responded
    <3>3. QED BY <1>1, <1>4, <1>5, <3>1, <3>2
  <2>2. CASE At(endpoint) \notin Responded
    BY <1>5, <2>2 DEF ProbePaths
  <2>3. QED BY <2>1, <2>2
<1>7. Ranges'
  BY <1>1, <1>6 DEF AnalysisIInv, Ranges, Early
<1>8. issues' = IssueOf(identified)'
  BY <1>1, <1>2 DEF IssueOf, AnalysisIInv, Learned
<1>9. Learned'
  BY <1>1, <1>2, <1>3, <1>8 DEF AnalysisIInv, Learned, Early
<1>10. ToldSoFar'
  BY <1>1, <1>2 DEF AnalysisIInv, ToldSoFar, Early
<1>11. QED BY <1>7, <1>9, <1>10 DEF AnalysisIInv

\* Running the rules.
LEMMA RunRulesKeeps == ASSUME AnalysisAssumption, AnalysisIInv, RunRules PROVE AnalysisIInv'
<1>1. /\ analysing = "rules" /\ analysing' = "attach"
      /\ UNCHANGED <<endpoint, required, observations, issues, manifest>>
      /\ judged' = {r \in ToSet(Grouped) \cup UngroupedRules : Judges(r)}
  BY DEF RunRules
<1>2. UNCHANGED <<seen, errorPage, malformed, identified, open, asked>>
  BY <1>1 DEF observations
<1>3. (AnyAnswer' <=> AnyAnswer) /\ Responded' = Responded /\ Identification' = Identification
  BY <1>2, SeenSame, VotesSame
<1>4. Ranges'
  BY <1>1, <1>2 DEF AnalysisIInv, Ranges, Early
<1>5. IssueOf(identified)' = IssueOf(identified)
  BY <1>2 DEF IssueOf
<1>6. Learned'
  BY <1>1, <1>2, <1>3, <1>5 DEF AnalysisIInv, Learned, Early
<1>7. recorder' = Ran'
  <2>1. recorder' = Ran
    BY <1>1 DEF RunRules, Ran, AnalysisIInv, ToldSoFar
  <2>2. QED BY <1>1, <2>1, RulesSame
<1>8. judged' = {r \in ToSet(Grouped) \cup UngroupedRules : Judges(r)}'
  BY <1>1, RulesSame
<1>9. \E es \in SUBSET {e \in Responded : SchemeOf(e) = "https"}' :
         findings' = VersionFindings' \cup HeaderFindings' \cup StatusFindings' \cup Unusual(es)
  <2>1. PICK es \in SUBSET {e \in Responded : SchemeOf(e) = "https"} :
           findings' = VersionFindings \cup HeaderFindings \cup StatusFindings \cup Unusual(es)
    BY DEF RunRules, Unusual
  <2>2. QED BY <1>1, <1>3, <2>1, RulesSame
<1>10. ToldSoFar'
  BY <1>1, <1>7, <1>8, <1>9 DEF ToldSoFar, Early
<1>11. QED BY <1>4, <1>6, <1>10 DEF AnalysisIInv

\* Attaching the manifest.
LEMMA AttachKeeps == ASSUME AnalysisAssumption, AnalysisIInv, AttachContext PROVE AnalysisIInv'
<1>1. /\ analysing = "attach" /\ analysing' = "done"
      /\ UNCHANGED <<endpoint, required, observations, judged, findings, issues>>
      /\ recorder' = WithRequired(recorder) /\ manifest' = Manifest(WithRequired(recorder))
  BY DEF AttachContext
<1>2. UNCHANGED <<seen, errorPage, malformed, identified, open, asked>>
  BY <1>1 DEF observations
<1>3. (AnyAnswer' <=> AnyAnswer) /\ Responded' = Responded /\ Identification' = Identification
  BY <1>2, SeenSame, VotesSame
<1>4. Ranges'
  BY <1>1, <1>2 DEF AnalysisIInv, Ranges, Early
<1>5. IssueOf(identified)' = IssueOf(identified)
  BY <1>2 DEF IssueOf
<1>6. Learned'
  BY <1>1, <1>2, <1>3, <1>5 DEF AnalysisIInv, Learned, Early
<1>7. ToldSoFar
  BY DEF AnalysisIInv
<1>8. judged' = {r \in ToSet(Grouped) \cup UngroupedRules : Judges(r)}'
  BY <1>1, <1>7, RulesSame DEF ToldSoFar
<1>9. \E es \in SUBSET {e \in Responded : SchemeOf(e) = "https"}' :
         findings' = VersionFindings' \cup HeaderFindings' \cup StatusFindings' \cup Unusual(es)
  BY <1>1, <1>3, <1>7, RulesSame DEF ToldSoFar
<1>10. PICK R : recorder = R /\ (R = Ran \/ (R = EmptyRecorder /\ ~AnyAnswer))
  BY <1>1, <1>7 DEF ToldSoFar
<1>11. ToldSoFar'
  <2>1. WithRequired(R)' = WithRequired(R)
    BY <1>1 DEF WithRequired
  <2>2. recorder' = WithRequired(R)' /\ manifest' = Manifest(recorder)'
    BY <1>1, <1>10, <2>1
  <2>3. R = Ran' \/ (R = EmptyRecorder /\ ~AnyAnswer')
    BY <1>1, <1>3, <1>10, RulesSame
  <2>4. QED BY <1>1, <1>8, <1>9, <2>2, <2>3 DEF ToldSoFar, Early
<1>12. QED BY <1>4, <1>6, <1>11 DEF AnalysisIInv

\* Every step of an analysis.
LEMMA AnalysisNextIInv ==
    ASSUME AnalysisAssumption, AnalysisIInv, [AnalysisNext]_analysisVars PROVE AnalysisIInv'
<1>1. CASE UNCHANGED analysisVars
  <2>1. /\ UNCHANGED <<analysing, endpoint, required, seen, errorPage, malformed, identified, open, asked>>
        /\ UNCHANGED <<recorder, judged, findings, issues, manifest>>
        /\ UNCHANGED observations
    BY <1>1 DEF analysisVars, observations
  <2>2. (AnyAnswer' <=> AnyAnswer) /\ Responded' = Responded /\ Identification' = Identification
    BY <2>1, SeenSame, VotesSame
  <2>3. Ranges'
    BY <2>1 DEF AnalysisIInv, Ranges
  <2>4. IssueOf(identified)' = IssueOf(identified)
    BY <2>1 DEF IssueOf
  <2>5. Learned'
    BY <2>1, <2>2, <2>4 DEF AnalysisIInv, Learned
  <2>6. ToldSoFar
    BY DEF AnalysisIInv
  <2>7. CASE analysing \in {"attach", "done"}
    <3>1. judged' = {r \in ToSet(Grouped) \cup UngroupedRules : Judges(r)}'
      BY <2>1, <2>6, <2>7, RulesSame DEF ToldSoFar
    <3>2. \E es \in SUBSET {e \in Responded : SchemeOf(e) = "https"}' :
             findings' = VersionFindings' \cup HeaderFindings' \cup StatusFindings' \cup Unusual(es)
      BY <2>1, <2>2, <2>6, <2>7, RulesSame DEF ToldSoFar
    <3>3. PICK R : /\ R = Ran \/ (R = EmptyRecorder /\ ~AnyAnswer)
                   /\ analysing = "attach" => recorder = R
                   /\ analysing = "done" => recorder = WithRequired(R) /\ manifest = Manifest(recorder)
      BY <2>6, <2>7 DEF ToldSoFar
    <3>4. WithRequired(R)' = WithRequired(R)
      BY <2>1 DEF WithRequired
    <3>5. /\ R = Ran' \/ (R = EmptyRecorder /\ ~AnyAnswer')
          /\ analysing' = "attach" => recorder' = R
          /\ analysing' = "done" => recorder' = WithRequired(R)' /\ manifest' = Manifest(recorder)'
      BY <2>1, <2>2, <3>3, <3>4, RulesSame
    <3>6. ToldSoFar'
      BY <2>1, <2>7, <3>1, <3>2, <3>5 DEF ToldSoFar, Early
    <3>7. QED BY <2>3, <2>5, <3>6 DEF AnalysisIInv
  <2>8. CASE analysing \notin {"attach", "done"}
    <3>1. ToldSoFar'
      BY <2>1, <2>6, <2>8 DEF ToldSoFar
    <3>2. QED BY <2>3, <2>5, <3>1 DEF AnalysisIInv
  <2>9. QED BY <2>7, <2>8
<1>2. CASE AnalysisNext
  BY <1>2, NoTargetsKeeps, PassingKeeps, ProbingKeeps, NoServiceKeeps, IdentifyKeeps, ProbePathsKeeps,
     RunRulesKeeps, AttachKeeps DEF AnalysisNext
<1>3. QED BY <1>1, <1>2

\* Throughout an analysis the invariant holds.
LEMMA AnalysisInvariance == ASSUME AnalysisAssumption PROVE AnalysisSpec => []AnalysisIInv
<1>1. AnalysisInit => AnalysisIInv
  BY AnalysisInitIInv
<1>2. AnalysisIInv /\ [AnalysisNext]_analysisVars => AnalysisIInv'
  BY AnalysisNextIInv
<1>3. QED BY <1>1, <1>2, PTL DEF AnalysisSpec

-----------------------------------------------------------------------------
(* The votes. *)

\* The types the headers tell, and those the bodies betray.
Headers == ({seen[e].server : e \in Responded} \cup {malformed[e].server : e \in Endpoint}) \ {None}
Bodies  == ({errorPage[e] : e \in Endpoint} \cup {malformed[e].body : e \in Endpoint}) \ {None}

\* There are finitely many endpoints.
LEMMA EndpointsFinite == ASSUME AnalysisAssumption PROVE IsFiniteSet(Endpoint)
<1> DEFINE n == Len(Endpoints)
           f == [i \in 1 .. n |-> At(i)]
<1>1. n \in Nat /\ DOMAIN Endpoints = 1 .. n
  BY DEF AnalysisAssumption
<1>2. f \in Surjection(1 .. n, Endpoint)
  BY <1>1 DEF Surjection, Endpoint, At
<1>3. IsFiniteSet(1 .. n)
  BY <1>1, FS_Interval
<1> HIDE DEF f, n
<1>4. QED BY <1>2, <1>3, FS_Surjection

\* Counting endpoints.
LEMMA Counted ==
    ASSUME AnalysisAssumption, NEW S \in SUBSET Endpoint
    PROVE  Cardinality(S) \in Nat /\ (Cardinality(S) > 0 <=> S # {})
<1>1. IsFiniteSet(S)
  BY EndpointsFinite, FS_Subset
<1>2. QED BY <1>1, FS_CardinalityType, FS_EmptySet

\* Who has votes: whom headers tell, whom bodies betray, and IIS.
LEMMA VotersAre ==
    ASSUME AnalysisAssumption, Ranges
    PROVE  /\ Voted(HeaderVotes) = Headers /\ Voted(BodyVotes) = Bodies
           /\ Voted(StackVotes) \subseteq {"iis"}
           /\ \A t \in Server : BodyVotes[t] \in Nat /\ StackVotes[t] \in Nat
<1>1. /\ \A e \in Endpoint : seen[e].server \in Named /\ malformed[e].server \in Named
      /\ \A e \in Endpoint : errorPage[e] \in Named /\ malformed[e].body \in Named
      /\ Responded \subseteq Endpoint
  BY DEF Ranges, Attempt, Responded
<1>2. \A a, b \in Nat : 2 * a + 2 * b > 0 <=> a > 0 \/ b > 0
  OBVIOUS
<1>3. \A t \in Server : HeaderVotes[t] > 0 <=> t \in Headers
  <2> SUFFICES ASSUME NEW t \in Server PROVE HeaderVotes[t] > 0 <=> t \in Headers
    OBVIOUS
  <2>1. PICK A, B : A = {e \in Responded : seen[e].server = t} /\ B = {e \in Endpoint : malformed[e].server = t}
    OBVIOUS
  <2>2. HeaderVotes[t] = 2 * Cardinality(A) + 2 * Cardinality(B)
    BY <2>1 DEF HeaderVotes
  <2>3. A \in SUBSET Endpoint /\ B \in SUBSET Endpoint
    BY <1>1, <2>1
  <2>4. HeaderVotes[t] > 0 <=> A # {} \/ B # {}
    <3>1. /\ Cardinality(A) \in Nat /\ (Cardinality(A) > 0 <=> A # {})
          /\ Cardinality(B) \in Nat /\ (Cardinality(B) > 0 <=> B # {})
      BY <2>3, Counted
    <3>2. QED BY <1>2, <2>2, <3>1
  <2>5. t # None
    BY DEF AnalysisAssumption
  <2>6. QED BY <2>1, <2>4, <2>5 DEF Headers
<1>4. \A t \in Server : /\ BodyVotes[t] > 0 <=> t \in Bodies
                       /\ BodyVotes[t] \in Nat
  <2> SUFFICES ASSUME NEW t \in Server PROVE (BodyVotes[t] > 0 <=> t \in Bodies) /\ BodyVotes[t] \in Nat
    OBVIOUS
  <2>1. PICK A, B : A = {e \in Endpoint : errorPage[e] = t} /\ B = {e \in Endpoint : malformed[e].body = t}
    OBVIOUS
  <2>2. BodyVotes[t] = Cardinality(A) + Cardinality(B)
    BY <2>1 DEF BodyVotes
  <2>3. A \in SUBSET Endpoint /\ B \in SUBSET Endpoint
    BY <2>1
  <2>4. (BodyVotes[t] > 0 <=> A # {} \/ B # {}) /\ BodyVotes[t] \in Nat
    <3>1. /\ Cardinality(A) \in Nat /\ (Cardinality(A) > 0 <=> A # {})
          /\ Cardinality(B) \in Nat /\ (Cardinality(B) > 0 <=> B # {})
      BY <2>3, Counted
    <3>2. QED BY <2>2, <3>1
  <2>5. t # None
    BY DEF AnalysisAssumption
  <2>6. QED BY <2>1, <2>4, <2>5 DEF Bodies
<1>5. \A t \in Server : /\ StackVotes[t] > 0 => t = "iis"
                       /\ StackVotes[t] \in Nat
  <2> SUFFICES ASSUME NEW t \in Server PROVE (StackVotes[t] > 0 => t = "iis") /\ StackVotes[t] \in Nat
    OBVIOUS
  <2>1. PICK A, B, C : /\ A = {e \in Responded : seen[e].powered \in NamingAspNet}
                       /\ B = {e \in Responded : seen[e].aspnet # None}
                       /\ C = {e \in Responded : seen[e].cookie}
    OBVIOUS
  <2>2. StackVotes[t] = IF t = "iis" THEN Cardinality(A) + Cardinality(B) + Cardinality(C) ELSE 0
    BY <2>1 DEF StackVotes
  <2>3. A \in SUBSET Endpoint /\ B \in SUBSET Endpoint /\ C \in SUBSET Endpoint
    BY <1>1, <2>1
  <2>4. Cardinality(A) \in Nat /\ Cardinality(B) \in Nat /\ Cardinality(C) \in Nat
    BY <2>3, Counted
  <2>5. QED BY <2>2, <2>4
<1>6. Headers \subseteq Server /\ Bodies \subseteq Server
  BY <1>1 DEF Headers, Bodies, Named
<1>7. QED BY <1>3, <1>4, <1>5, <1>6 DEF Voted

\* A verdict names the only candidate, or says that there are several.
LEMMA VerdictFits ==
    ASSUME AnalysisAssumption, NEW votes, NEW V, V = Voted(votes), V # {}, NEW strong
    PROVE  LET v == Verdict(votes, strong) IN
           /\ v.type = None <=> v.ambiguous
           /\ v.ambiguous <=> Cardinality(V) > 1
           /\ v.type # None => V = {v.type} /\ Cardinality(V) = 1
           /\ v.confidence = IF v.ambiguous THEN None
                             ELSE IF strong THEN "high" ELSE IF votes[v.type] > 1 THEN "medium" ELSE "low"
<1>1. V \subseteq Server
  BY DEF Voted
<1>2. IsFiniteSet(V) /\ None \notin V
  BY <1>1, FS_Subset DEF AnalysisAssumption
<1>3. Cardinality(V) \in Nat /\ Cardinality(V) # 0
  BY <1>2, FS_CardinalityType, FS_EmptySet
<1>4. PICK best : best = (CHOOSE t \in V : TRUE)
  OBVIOUS
<1>5. best \in V /\ best # None
  BY <1>2, <1>4
<1>6. CASE Cardinality(V) > 1
  <2>1. Verdict(votes, strong) =
           [type |-> None, confidence |-> None, ambiguous |-> TRUE, candidates |-> V]
    BY <1>6 DEF Verdict
  <2>2. QED BY <1>6, <2>1
<1>7. CASE ~(Cardinality(V) > 1)
  <2>1. Cardinality(V) = 1
    BY <1>3, <1>7
  <2>2. V = {best}
    <3>1. PICK x : V = {x}
      BY <1>2, <2>1, FS_Singleton
    <3>2. QED BY <1>5, <3>1
  <2>3. Verdict(votes, strong) =
           [type |-> best, ambiguous |-> FALSE, candidates |-> {best},
            confidence |-> IF strong THEN "high" ELSE IF votes[best] > 1 THEN "medium" ELSE "low"]
    BY <1>4, <1>7 DEF Verdict
  <2>4. QED BY <1>5, <1>7, <2>1, <2>2, <2>3
<1>8. QED BY <1>6, <1>7

\* A server is named only without a contradiction.
LEMMA NamedWell == ASSUME AnalysisAssumption, AnalysisIInv PROVE NamedWithoutContradiction
<1> DEFINE Goal ==
      /\ identified.type # None =>
            /\ Headers \subseteq {identified.type}
            /\ identified.confidence = "high" <=> Headers # {}
            /\ Headers = {} => Bodies \subseteq {identified.type}
      /\ identified.confidence = "medium" =>
            BodyVotes[identified.type] + StackVotes[identified.type] >= 2
      /\ identified.ambiguous <=>
            \/ Cardinality(Headers) > 1
            \/ Headers = {} /\ Cardinality(Bodies) > 1
      /\ identified.type # None => ~identified.ambiguous
<1> SUFFICES ASSUME Analysed, AnyAnswer PROVE NamedWithoutContradiction
  BY DEF NamedWithoutContradiction
<1>1. Ranges /\ identified = Identification /\ issues = IssueOf(identified)
  BY DEF AnalysisIInv, Learned, Analysed
<1>2. /\ Voted(HeaderVotes) = Headers /\ Voted(BodyVotes) = Bodies
      /\ Voted(StackVotes) \subseteq {"iis"}
      /\ \A t \in Server : BodyVotes[t] \in Nat /\ StackVotes[t] \in Nat
  BY <1>1, VotersAre
<1>3. Cardinality({}) = 0
  BY FS_EmptySet
<1>4. ASSUME Goal PROVE NamedWithoutContradiction
  <2>1. "external_server_type_ambiguous" \in issues <=> identified.type = None /\ identified.ambiguous
    BY <1>1 DEF IssueOf
  <2>2. issues = {} <=> identified.type # None
    BY <1>1 DEF IssueOf
  <2>3. "external_server_type_ambiguous" \in issues <=> identified.ambiguous
    BY <1>4, <2>1
  <2>4. QED BY <1>4, <2>2, <2>3 DEF NamedWithoutContradiction, Headers, Bodies
<1>5. CASE Headers # {}
  <2>1. identified = Verdict(HeaderVotes, TRUE)
    BY <1>1, <1>2, <1>5 DEF Identification
  <2>2. /\ identified.type = None <=> identified.ambiguous
        /\ identified.ambiguous <=> Cardinality(Headers) > 1
        /\ identified.type # None => Headers = {identified.type}
        /\ identified.confidence = IF identified.ambiguous THEN None ELSE "high"
    BY <1>2, <1>5, <2>1, VerdictFits
  <2>3. None # "high" /\ None # "medium"
    BY DEF None
  <2>4. Goal
    BY <1>5, <2>2, <2>3
  <2>5. QED BY <1>4, <2>4
<1>6. CASE Headers = {} /\ Bodies # {}
  <2>1. identified = Verdict(BodyVotes, FALSE)
    BY <1>1, <1>2, <1>6 DEF Identification
  <2>2. /\ identified.type = None <=> identified.ambiguous
        /\ identified.ambiguous <=> Cardinality(Bodies) > 1
        /\ identified.type # None => Bodies = {identified.type}
        /\ identified.confidence = IF identified.ambiguous THEN None
                                   ELSE IF BodyVotes[identified.type] > 1 THEN "medium" ELSE "low"
    BY <1>2, <1>6, <2>1, VerdictFits
  <2>3. None # "high" /\ None # "medium"
    BY DEF None
  <2>4. identified.type # None => identified.type \in Server
    BY <1>2, <2>2 DEF Voted
  <2>5. identified.confidence = "medium" => BodyVotes[identified.type] > 1 /\ identified.type # None
    BY <2>2, <2>3
  <2>6. \A a, b \in Nat : a > 1 => a + b >= 2
    OBVIOUS
  <2>7. Goal
    BY <1>2, <1>3, <1>6, <2>2, <2>3, <2>4, <2>5, <2>6
  <2>8. QED BY <1>4, <2>7
<1>7. CASE Headers = {} /\ Bodies = {} /\ Voted(StackVotes) # {}
  <2>1. identified = Verdict(StackVotes, FALSE)
    BY <1>1, <1>2, <1>7 DEF Identification
  <2>2. Voted(StackVotes) = {"iis"} /\ Cardinality({"iis"}) = 1
    BY <1>2, <1>7, FS_Singleton, ZenonT(60)
  <2>3. /\ identified.type = None <=> identified.ambiguous
        /\ ~identified.ambiguous
        /\ identified.confidence = IF StackVotes[identified.type] > 1 THEN "medium" ELSE "low"
        /\ identified.type \in Voted(StackVotes)
    <3>1. /\ identified.type = None <=> identified.ambiguous
          /\ identified.ambiguous <=> Cardinality(Voted(StackVotes)) > 1
          /\ identified.type # None => Voted(StackVotes) = {identified.type}
          /\ identified.confidence = IF identified.ambiguous THEN None
                                     ELSE IF StackVotes[identified.type] > 1 THEN "medium" ELSE "low"
      BY <1>7, <2>1, VerdictFits
    <3>2. ~identified.ambiguous
      BY <2>2, <3>1
    <3>3. identified.type # None
      BY <3>1, <3>2
    <3>4. QED BY <3>1, <3>2, <3>3
  <2>4. identified.type \in Server
    BY <2>3 DEF Voted
  <2>5. identified.confidence = "medium" => StackVotes[identified.type] > 1
    BY <2>3
  <2>6. \A a, b \in Nat : b > 1 => a + b >= 2
    OBVIOUS
  <2>7. Goal
    BY <1>2, <1>3, <1>7, <2>3, <2>4, <2>5, <2>6
  <2>8. QED BY <1>4, <2>7
<1>8. CASE Headers = {} /\ Bodies = {} /\ Voted(StackVotes) = {}
  <2>1. identified = Unclassified
    BY <1>1, <1>2, <1>8 DEF Identification
  <2>2. identified.type = None /\ identified.confidence = None /\ ~identified.ambiguous
    BY <2>1 DEF Unclassified
  <2>3. None # "high" /\ None # "medium"
    BY DEF None
  <2>4. Goal
    BY <1>3, <1>8, <2>2, <2>3
  <2>5. QED BY <1>4, <2>4
<1>9. QED BY <1>5, <1>6, <1>7, <1>8

-----------------------------------------------------------------------------
(* The manifest. *)

\* A rule has input only where something answered.
LEMMA InputIsAnswer ==
    /\ \A r : HasInput(r) => AnyAnswer
    /\ \A r \in ToSet(TlsRules) \cup ToSet(HstsRules) : HasInput(r) => AnswerOver("https")
    /\ \A r \in ToSet(TlsRules) \cup ToSet(HeaderRules) : AnswerOver("https") => HasInput(r)
    /\ \A r \in ServerScoped : AnyAnswer => HasInput(r)
<1>1. /\ ToSet(RedirectRules) = {"http_not_redirected_to_https"} /\ ToSet(HstsRules) = {"hsts_header_missing"}
      /\ ToSet(HeaderRules) = {"x_frame_options_missing"} /\ ToSet(TlsRules) = {"certificate_expired"}
  BY DEF ToSet, RedirectRules, HstsRules, HeaderRules, TlsRules
<1>2. \A s : AnswerOver(s) => AnyAnswer
  BY DEF AnswerOver, AnyAnswer
<1>3. \A r : HasInput(r) => AnyAnswer
  BY <1>2 DEF HasInput
<1>4. \A r \in ToSet(TlsRules) \cup ToSet(HstsRules) : HasInput(r) => AnswerOver("https")
  BY <1>1 DEF HasInput
<1>5. \A r \in ToSet(TlsRules) \cup ToSet(HeaderRules) : AnswerOver("https") => HasInput(r)
  BY <1>1 DEF HasInput
<1>6. \A r \in ServerScoped : AnyAnswer => HasInput(r)
  BY <1>1, ConditionIs DEF HasInput, UngroupedRules
<1>7. QED BY <1>3, <1>4, <1>5, <1>6

\* What the recorder of a finished analysis holds.
LEMMA AtTheEnd ==
    ASSUME AnalysisAssumption, AnalysisIInv, Analysed
    PROVE  /\ SoundRecorder(recorder) /\ manifest = Manifest(recorder)
           /\ required \subseteq SelectedSet(recorder)
           /\ \A r \in Rule \ SelectedSet(recorder) : recorder.terminal[r] = NoEvent
           /\ \A r \in SelectedSet(recorder) : recorder.terminal[r] # NoEvent
           /\ \A r \in SelectedSet(recorder) :
                 recorder.terminal[r].state = "completed" => recorder.terminal[r] = TerminalState(r)
           /\ AnyAnswer => \A r \in ToSet(Grouped) :
                 r \in SelectedSet(recorder) /\ recorder.terminal[r] = TerminalState(r)
<1>1. PICK R : /\ R = Ran \/ (R = EmptyRecorder /\ ~AnyAnswer)
               /\ recorder = WithRequired(R) /\ manifest = Manifest(recorder)
  BY DEF AnalysisIInv, ToldSoFar, Analysed
<1>2. /\ SoundRecorder(R) /\ SelectedSet(R) \subseteq Rule
      /\ \A r \in Rule \ SelectedSet(R) : R.terminal[r] = NoEvent
      /\ \A r \in SelectedSet(R) : R.terminal[r] = TerminalState(r)
      /\ AnyAnswer => SelectedSet(R) = ToSet(Grouped)
  <2>1. ToSet(Grouped) \subseteq Rule
    BY DEF AnalysisAssumption
  <2>2. QED BY <1>1, <2>1, RanIs, EmptyIs
<1>3. required \in Requirements /\ required \subseteq Rule
  BY DEF AnalysisIInv, Ranges, AnalysisAssumption
<1>4. /\ SoundRecorder(recorder) /\ SelectedSet(recorder) = SelectedSet(R) \cup required
      /\ \A r \in SelectedSet(R) : recorder.terminal[r] = R.terminal[r]
      /\ \A r \in required \ SelectedSet(R) : recorder.terminal[r].state = "skipped"
      /\ \A r \in Rule \ SelectedSet(recorder) : recorder.terminal[r] = NoEvent
  BY <1>1, <1>2, <1>3, RequiredIs
<1>5. \A r \in SelectedSet(recorder) : recorder.terminal[r] # NoEvent
  BY <1>2, <1>4, StateIsEvent DEF NoEvent
<1>6. \A r \in SelectedSet(recorder) :
         recorder.terminal[r].state = "completed" => recorder.terminal[r] = TerminalState(r)
  BY <1>2, <1>4
<1>7. QED BY <1>1, <1>2, <1>4, <1>5, <1>6

\* The manifest accounts for every rule.
LEMMA ManifestAccounts == ASSUME AnalysisAssumption, AnalysisIInv PROVE ManifestAccountsForExternal
<1> SUFFICES ASSUME Analysed PROVE ManifestAccountsForExternal
  BY DEF ManifestAccountsForExternal
<1>1. /\ SoundRecorder(recorder) /\ manifest = Manifest(recorder)
      /\ required \subseteq SelectedSet(recorder)
      /\ \A r \in Rule \ SelectedSet(recorder) : recorder.terminal[r] = NoEvent
      /\ \A r \in SelectedSet(recorder) : recorder.terminal[r] # NoEvent
      /\ \A r \in SelectedSet(recorder) :
            recorder.terminal[r].state = "completed" => recorder.terminal[r] = TerminalState(r)
      /\ AnyAnswer => \A r \in ToSet(Grouped) :
            r \in SelectedSet(recorder) /\ recorder.terminal[r] = TerminalState(r)
  BY AtTheEnd
<1>2. manifest.error = "none" /\ manifest.completed = InState(recorder, "completed")
  <2>1. SelectedOnce(recorder) /\ Unselected(recorder) = {} /\ Missing(recorder) = {}
    BY <1>1 DEF SoundRecorder, Unselected, Missing
  <2>2. QED BY <1>1, <2>1 DEF Manifest
<1>3. \A r \in manifest.completed : HasInput(r)
  <2> SUFFICES ASSUME NEW r \in manifest.completed PROVE HasInput(r)
    OBVIOUS
  <2>1. TerminalState(r).state = "completed"
    BY <1>1, <1>2 DEF InState
  <2>2. QED BY <2>1 DEF TerminalState, Skipped
<1>4. ~AnyAnswer => manifest.completed = {} /\ findings = {} /\ issues # {}
  <2> SUFFICES ASSUME ~AnyAnswer PROVE manifest.completed = {} /\ findings = {} /\ issues # {}
    OBVIOUS
  <2>1. manifest.completed = {}
    BY <1>3, InputIsAnswer
  <2>2. Responded = {} /\ \A e \in Endpoint : open[e] = {}
    BY DEF AnyAnswer, AnalysisIInv, Ranges, Responded
  <2>3. PICK es \in SUBSET {e \in Responded : SchemeOf(e) = "https"} :
           findings = VersionFindings \cup HeaderFindings \cup StatusFindings \cup Unusual(es)
    BY DEF AnalysisIInv, ToldSoFar, Analysed
  <2>4. VersionFindings = {} /\ HeaderFindings = {} /\ StatusFindings = {} /\ Unusual(es) = {}
    <3>1. VersionFindings = {}
      BY <2>2 DEF VersionFindings
    <3>2. HeaderFindings = {}
      BY <2>2 DEF HeaderFindings
    <3>3. StatusFindings = {}
      BY <2>2 DEF StatusFindings
    <3>4. Unusual(es) = {}
      BY <2>2, <2>3 DEF Unusual
    <3>5. QED BY <3>1, <3>2, <3>3, <3>4
  <2>5. issues # {}
    BY DEF AnalysisIInv, Learned, Analysed
  <2>6. QED BY <2>1, <2>3, <2>4, <2>5
<1>5. \A r \in manifest.completed : r \in ToSet(TlsRules) \cup ToSet(HstsRules)
         => \E e \in Endpoint : seen[e].http /\ SchemeOf(e) = "https"
  BY <1>3, InputIsAnswer DEF AnswerOver, Responded
<1>6. AnyAnswer => \A e \in Responded : SchemeOf(e) = "https" =>
         ToSet(TlsRules) \cup ToSet(HeaderRules) \subseteq manifest.completed
  <2> SUFFICES ASSUME AnyAnswer, NEW e \in Responded, SchemeOf(e) = "https",
                      NEW r \in ToSet(TlsRules) \cup ToSet(HeaderRules)
               PROVE  r \in manifest.completed
    OBVIOUS
  <2>1. HasInput(r)
    BY InputIsAnswer DEF AnswerOver
  <2>2. r \in {"certificate_expired", "x_frame_options_missing"}
    BY DEF ToSet, TlsRules, HeaderRules
  <2>3. r \in ToSet(Grouped) /\ r \notin ServerScoped
    BY <2>2, GroupedIs, ConditionIs
  <2>4. TerminalState(r) = Completed
    BY <2>1, <2>3 DEF TerminalState
  <2>5. r \in SelectedSet(recorder) /\ recorder.terminal[r].state = "completed"
    BY <1>1, <2>3, <2>4 DEF Completed
  <2>6. QED BY <1>2, <2>5 DEF InState
<1>7. QED BY <1>1, <1>2, <1>4, <1>5, <1>6 DEF ManifestAccountsForExternal

-----------------------------------------------------------------------------
(* One server. *)

\* A rule of one server reports only when it is theirs.
LEMMA FindingsAreIts ==
    ASSUME NEW es, NEW f \in VersionFindings \cup HeaderFindings \cup StatusFindings \cup Unusual(es),
           f[1] \in ServerScoped
    PROVE  Applicable(f[1])
<1>1. /\ "server_version_disclosed" \notin ServerScoped /\ "x_aspnet_version_header_present" \notin ServerScoped
      /\ "x_powered_by_header_present" \notin ServerScoped
      /\ "server_status_exposed" \notin ServerScoped /\ "tls_ct_log_evidence_missing" \notin ServerScoped
  BY ConditionIs
<1>2. CASE f \in VersionFindings
  BY <1>1, <1>2 DEF VersionFindings
<1>3. CASE f \in HeaderFindings
  BY <1>1, <1>3 DEF HeaderFindings
<1>4. CASE f \in StatusFindings
  BY <1>1, <1>4 DEF StatusFindings
<1>5. CASE f \in Unusual(es)
  BY <1>1, <1>5 DEF Unusual, UngroupedRules
<1>6. QED BY <1>2, <1>3, <1>4, <1>5

\* One analysis judges one server.
LEMMA OneServer == ASSUME AnalysisAssumption, AnalysisIInv PROVE OneServerIsJudged
<1> SUFFICES ASSUME Analysed PROVE OneServerIsJudged
  BY DEF OneServerIsJudged
<1>1. ASSUME NEW f \in findings, f[1] \in ServerScoped PROVE ConditionOf(f[1]) = identified.type
  <2>1. PICK es : findings = VersionFindings \cup HeaderFindings \cup StatusFindings \cup Unusual(es)
    BY DEF AnalysisIInv, ToldSoFar, Analysed
  <2>2. QED BY <1>1, <2>1, FindingsAreIts DEF Applicable
<1>2. ASSUME Confident, NEW r \in ServerScoped
      PROVE  recorder.terminal[r] = IF ConditionOf(r) = identified.type THEN Completed
                                    ELSE Skipped("server-incompatible")
  <2>1. AnyAnswer
    BY <1>2 DEF AnalysisIInv, Learned, Analysed, Confident, Unclassified, None
  <2>2. r \in ToSet(Grouped) /\ HasInput(r)
    BY <2>1, GroupedIs, ConditionIs, InputIsAnswer
  <2>3. recorder.terminal[r] = TerminalState(r)
    BY <2>1, <2>2, AtTheEnd
  <2>4. QED BY <1>2, <2>2, <2>3 DEF TerminalState, Incompatible
<1>3. QED BY <1>1, <1>2 DEF OneServerIsJudged

-----------------------------------------------------------------------------
(* What a host discloses. *)

\* The rules that report something of an endpoint, among some findings.
RulesOn(F, e, subject) == {f[1] : f \in {f \in F : f[2] = e /\ f[3] = subject}}

\* A rule reports it when there is such a finding.
LEMMA RulesOnAre ==
    ASSUME NEW F, \A f \in F : f = <<f[1], f[2], f[3]>>, NEW e, NEW subject, NEW r
    PROVE  r \in RulesOn(F, e, subject) <=> <<r, e, subject>> \in F
<1>1. ASSUME r \in RulesOn(F, e, subject) PROVE <<r, e, subject>> \in F
  BY <1>1 DEF RulesOn
<1>2. ASSUME <<r, e, subject>> \in F PROVE r \in RulesOn(F, e, subject)
  <2> DEFINE f == <<r, e, subject>>
  <2>1. f \in F /\ f[1] = r /\ f[2] = e /\ f[3] = subject
    BY <1>2
  <2> HIDE DEF f
  <2>2. QED BY <2>1 DEF RulesOn
<1>3. QED BY <1>1, <1>2

\* The findings about a version, about ASP.NET and about a status page.
LEMMA VersionFindingsAre ==
    /\ \A f \in VersionFindings : f = <<f[1], f[2], "Server">>
    /\ \A e \in Responded : \A r :
          <<r, e, "Server">> \in VersionFindings <=>
              /\ seen[e].version
              /\ \/ r = "server_version_disclosed" /\ ~Handled(e)
                 \/ r \in VersionRules /\ Applicable(r) /\ seen[e].server = ConditionOf(r)
<1>1. \A f \in VersionFindings : f = <<f[1], f[2], "Server">>
  BY DEF VersionFindings
<1>2. ASSUME NEW e \in Responded, NEW r
      PROVE  <<r, e, "Server">> \in VersionFindings <=>
                /\ seen[e].version
                /\ \/ r = "server_version_disclosed" /\ ~Handled(e)
                   \/ r \in VersionRules /\ Applicable(r) /\ seen[e].server = ConditionOf(r)
  BY DEF VersionFindings
<1>3. QED BY <1>1, <1>2

\* Which of the two rules about X-AspNet-Version it is.
AspNetRule == IF Applicable("iis.aspnet_version_header_present") THEN "iis.aspnet_version_header_present"
              ELSE "x_aspnet_version_header_present"

\* What the other headers come to, endpoint by endpoint.
LEMMA HeaderFindingsAre ==
    /\ \A f \in HeaderFindings : f = <<f[1], f[2], f[3]>> /\ f[3] \in {"X-AspNet-Version", "X-Powered-By"}
    /\ \A e \in Responded : \A r :
          /\ <<r, e, "X-AspNet-Version">> \in HeaderFindings <=>
                 \/ r = AspNetRule /\ seen[e].aspnet # None
                 \/ r = "server_version_disclosed" /\ seen[e].aspnet \in Versioned
          /\ <<r, e, "X-Powered-By">> \in HeaderFindings <=>
                 \/ r = "x_powered_by_header_present" /\ seen[e].powered # None
                 \/ r = "server_version_disclosed" /\ seen[e].powered \in Versioned
<1>1. \A f \in HeaderFindings : f = <<f[1], f[2], f[3]>> /\ f[3] \in {"X-AspNet-Version", "X-Powered-By"}
  BY DEF HeaderFindings
<1>2. ASSUME NEW e \in Responded, NEW r
      PROVE  <<r, e, "X-AspNet-Version">> \in HeaderFindings <=>
                 \/ r = AspNetRule /\ seen[e].aspnet # None
                 \/ r = "server_version_disclosed" /\ seen[e].aspnet \in Versioned
  BY DEF HeaderFindings, AspNetRule
<1>3. ASSUME NEW e \in Responded, NEW r
      PROVE  <<r, e, "X-Powered-By">> \in HeaderFindings <=>
                 \/ r = "x_powered_by_header_present" /\ seen[e].powered # None
                 \/ r = "server_version_disclosed" /\ seen[e].powered \in Versioned
  BY DEF HeaderFindings, AspNetRule
<1>4. QED BY <1>1, <1>2, <1>3

\* What the open status pages come to, endpoint by endpoint and page by page.
LEMMA StatusFindingsAre ==
    ASSUME Ranges
    PROVE  /\ \A f \in StatusFindings : f = <<f[1], f[2], f[3]>> /\ f[3] \in StatusPath
           /\ \A e \in Responded : \A r, path :
                 <<r, e, path>> \in StatusFindings <=>
                     /\ path \in open[e]
                     /\ \/ r = "server_status_exposed" /\ ~Suppressed(path)
                        \/ /\ r \in {"apache.mod_status_public", "lighttpd.mod_status_public"}
                           /\ Applicable(r) /\ path \in StatusPathsOf(r)
<1>1. \A e \in Endpoint : open[e] \subseteq StatusPath
  BY DEF Ranges
<1>2. \A f \in StatusFindings : f = <<f[1], f[2], f[3]>> /\ f[3] \in StatusPath
  BY <1>1 DEF StatusFindings
<1>3. ASSUME NEW e \in Responded, NEW r, NEW path
      PROVE  <<r, e, path>> \in StatusFindings <=>
                /\ path \in open[e]
                /\ \/ r = "server_status_exposed" /\ ~Suppressed(path)
                   \/ /\ r \in {"apache.mod_status_public", "lighttpd.mod_status_public"}
                      /\ Applicable(r) /\ path \in StatusPathsOf(r)
  <2>1. e \in Endpoint
    BY DEF Responded
  <2>2. QED BY <2>1 DEF StatusFindings
<1>4. QED BY <1>2, <1>3

\* All findings of an analysis whose rules have run.
LEMMA FindingsAre ==
    ASSUME Ranges, NEW es,
           findings = VersionFindings \cup HeaderFindings \cup StatusFindings \cup Unusual(es),
           NEW e \in Responded, NEW r
    PROVE  /\ r \in RulesOn(findings, e, "Server") <=> <<r, e, "Server">> \in VersionFindings
           /\ r \in RulesOn(findings, e, "X-AspNet-Version") <=> <<r, e, "X-AspNet-Version">> \in HeaderFindings
           /\ r \in RulesOn(findings, e, "X-Powered-By") <=> <<r, e, "X-Powered-By">> \in HeaderFindings
           /\ \A path \in StatusPath :
                 r \in RulesOn(findings, e, path) <=> <<r, e, path>> \in StatusFindings
<1>1. /\ \A f \in VersionFindings : f = <<f[1], f[2], f[3]>> /\ f[3] = "Server"
      /\ \A f \in HeaderFindings : f = <<f[1], f[2], f[3]>> /\ f[3] \in {"X-AspNet-Version", "X-Powered-By"}
      /\ \A f \in StatusFindings : f = <<f[1], f[2], f[3]>> /\ f[3] \in StatusPath
      /\ \A f \in Unusual(es) : f = <<f[1], f[2], f[3]>> /\ f[3] = "tls"
  <2>1. \A f \in Unusual(es) : f = <<f[1], f[2], f[3]>> /\ f[3] = "tls"
    BY DEF Unusual
  <2>2. \A f \in VersionFindings : f = <<f[1], f[2], f[3]>> /\ f[3] = "Server"
    <3>1. \A f \in VersionFindings : f = <<f[1], f[2], "Server">>
      BY VersionFindingsAre
    <3>2. QED BY <3>1
  <2>3. QED BY <2>1, <2>2, HeaderFindingsAre, StatusFindingsAre
<1>2. \A f \in findings : f = <<f[1], f[2], f[3]>>
  BY <1>1
<1>3. \A s : r \in RulesOn(findings, e, s) <=> <<r, e, s>> \in findings
  BY <1>2, RulesOnAre
<1>4. /\ "Server" \notin StatusPath /\ "tls" \notin StatusPath
      /\ "X-AspNet-Version" \notin StatusPath /\ "X-Powered-By" \notin StatusPath
  BY DEF StatusPath
<1>5. \A s : LET f == <<r, e, s>> IN f[3] = s
  OBVIOUS
<1>6. QED BY <1>1, <1>3, <1>4, <1>5, ZenonT(60)

\* Exactly one rule tells, or none when there is nothing to tell.
LEMMA OneTells ==
    ASSUME NEW S, NEW told \in BOOLEAN,
           ~told => \A r : r \notin S,
           told => \E x : \A r : r \in S <=> r = x
    PROVE  Cardinality(S) = IF told THEN 1 ELSE 0
<1>1. CASE told
  <2>1. PICK x : \A r : r \in S <=> r = x
    BY <1>1
  <2>2. S = {x}
    BY <2>1
  <2>3. QED BY <1>1, <2>2, FS_Singleton
<1>2. CASE ~told
  <2>1. S = {}
    BY <1>2
  <2>2. QED BY <1>2, <2>1, FS_EmptySet
<1>3. QED BY <1>1, <1>2

\* What is disclosed is told once.
LEMMA ToldOnce == ASSUME AnalysisAssumption, AnalysisIInv PROVE DisclosureToldOnce
<1> SUFFICES ASSUME analysing = "attach", NEW e \in Responded
             PROVE  /\ Cardinality(RulesOn(findings, e, "Server")) = IF seen[e].version THEN 1 ELSE 0
                    /\ Cardinality(RulesOn(findings, e, "X-AspNet-Version") \ {"server_version_disclosed"})
                          = IF seen[e].aspnet # None THEN 1 ELSE 0
                    /\ "server_version_disclosed" \in RulesOn(findings, e, "X-AspNet-Version")
                          <=> seen[e].aspnet \in Versioned
                    /\ Cardinality(RulesOn(findings, e, "X-Powered-By") \ {"server_version_disclosed"})
                          = IF seen[e].powered # None THEN 1 ELSE 0
                    /\ "server_version_disclosed" \in RulesOn(findings, e, "X-Powered-By")
                          <=> seen[e].powered \in Versioned
                    /\ \A path \in StatusPath :
                          Cardinality(RulesOn(findings, e, path)) = IF path \in open[e] THEN 1 ELSE 0
  BY DEF DisclosureToldOnce, RulesOn
<1>1. PICK es : findings = VersionFindings \cup HeaderFindings \cup StatusFindings \cup Unusual(es)
  BY DEF AnalysisIInv, ToldSoFar
<1>2. Ranges /\ seen[e].version \in BOOLEAN
  BY DEF AnalysisIInv, Ranges, Responded, Attempt
<1>3. Cardinality(RulesOn(findings, e, "Server")) = IF seen[e].version THEN 1 ELSE 0
  <2>1. \A r : r \in RulesOn(findings, e, "Server") <=>
              /\ seen[e].version
              /\ \/ r = "server_version_disclosed" /\ ~Handled(e)
                 \/ r \in VersionRules /\ Applicable(r) /\ seen[e].server = ConditionOf(r)
    BY <1>1, <1>2, FindingsAre, VersionFindingsAre
  <2>2. ASSUME seen[e].version
        PROVE  \E x : \A r : r \in RulesOn(findings, e, "Server") <=> r = x
    <3>1. CASE Handled(e)
      <4>1. PICK x \in VersionRules : Applicable(x) /\ seen[e].server = ConditionOf(x)
        BY <3>1 DEF Handled
      <4>2. \A r \in VersionRules : ConditionOf(r) = ConditionOf(x) => r = x
        BY ConditionIs DEF VersionRules
      <4>3. \A r : r \in RulesOn(findings, e, "Server") <=> r = x
        BY <2>1, <2>2, <3>1, <4>1, <4>2
      <4>4. QED BY <4>3
    <3>2. CASE ~Handled(e)
      <4>1. \A r \in VersionRules : ~(Applicable(r) /\ seen[e].server = ConditionOf(r))
        BY <3>2 DEF Handled
      <4>2. \A r : r \in RulesOn(findings, e, "Server") <=> r = "server_version_disclosed"
        BY <2>1, <2>2, <3>2, <4>1
      <4>3. QED BY <4>2
    <3>3. QED BY <3>1, <3>2
  <2>3. ~seen[e].version => \A r : r \notin RulesOn(findings, e, "Server")
    BY <2>1
  <2>4. QED BY <1>2, <2>2, <2>3, OneTells
<1>4. \A r : r \in RulesOn(findings, e, "X-AspNet-Version") <=>
                 \/ r = AspNetRule /\ seen[e].aspnet # None
                 \/ r = "server_version_disclosed" /\ seen[e].aspnet \in Versioned
  BY <1>1, <1>2, FindingsAre, HeaderFindingsAre
<1>5. \A r : r \in RulesOn(findings, e, "X-Powered-By") <=>
                 \/ r = "x_powered_by_header_present" /\ seen[e].powered # None
                 \/ r = "server_version_disclosed" /\ seen[e].powered \in Versioned
  BY <1>1, <1>2, FindingsAre, HeaderFindingsAre
<1>6. AspNetRule # "server_version_disclosed"
  BY DEF AspNetRule
<1>7. Cardinality(RulesOn(findings, e, "X-AspNet-Version") \ {"server_version_disclosed"})
         = IF seen[e].aspnet # None THEN 1 ELSE 0
  <2> DEFINE S == RulesOn(findings, e, "X-AspNet-Version") \ {"server_version_disclosed"}
  <2>1. \A r : r \in S <=> r = AspNetRule /\ seen[e].aspnet # None
    BY <1>4, <1>6
  <2> HIDE DEF S
  <2>2. ~(seen[e].aspnet # None) => \A r : r \notin S
    BY <2>1
  <2>3. ASSUME seen[e].aspnet # None PROVE \E x : \A r : r \in S <=> r = x
    <3>1. \A r : r \in S <=> r = AspNetRule
      BY <2>1, <2>3
    <3>2. QED BY <3>1
  <2>4. (seen[e].aspnet # None) \in BOOLEAN
    OBVIOUS
  <2>5. QED BY <2>2, <2>3, <2>4, OneTells DEF S
<1>8. Cardinality(RulesOn(findings, e, "X-Powered-By") \ {"server_version_disclosed"})
         = IF seen[e].powered # None THEN 1 ELSE 0
  <2> DEFINE S == RulesOn(findings, e, "X-Powered-By") \ {"server_version_disclosed"}
  <2>1. \A r : r \in S <=> r = "x_powered_by_header_present" /\ seen[e].powered # None
    BY <1>5
  <2> HIDE DEF S
  <2>2. ~(seen[e].powered # None) => \A r : r \notin S
    BY <2>1
  <2>3. ASSUME seen[e].powered # None PROVE \E x : \A r : r \in S <=> r = x
    <3>1. \A r : r \in S <=> r = "x_powered_by_header_present"
      BY <2>1, <2>3
    <3>2. QED BY <3>1
  <2>4. (seen[e].powered # None) \in BOOLEAN
    OBVIOUS
  <2>5. QED BY <2>2, <2>3, <2>4, OneTells DEF S
<1>9. /\ "server_version_disclosed" \in RulesOn(findings, e, "X-AspNet-Version") <=> seen[e].aspnet \in Versioned
      /\ "server_version_disclosed" \in RulesOn(findings, e, "X-Powered-By") <=> seen[e].powered \in Versioned
  BY <1>4, <1>5, <1>6
<1>10. ASSUME NEW path \in StatusPath
      PROVE  Cardinality(RulesOn(findings, e, path)) = IF path \in open[e] THEN 1 ELSE 0
  <2>1. \A r : r \in RulesOn(findings, e, path) <=>
              /\ path \in open[e]
              /\ \/ r = "server_status_exposed" /\ ~Suppressed(path)
                 \/ /\ r \in {"apache.mod_status_public", "lighttpd.mod_status_public"}
                    /\ Applicable(r) /\ path \in StatusPathsOf(r)
    BY <1>1, <1>2, FindingsAre, StatusFindingsAre
  <2>2. /\ Applicable("apache.mod_status_public") <=> Confident /\ identified.type = "apache"
        /\ Applicable("lighttpd.mod_status_public") <=> Confident /\ identified.type = "lighttpd"
    BY ConditionIs DEF Applicable
  <2>3. /\ path \in StatusPathsOf("apache.mod_status_public")
        /\ path \in StatusPathsOf("lighttpd.mod_status_public") <=> path = "/server-status"
    BY DEF StatusPathsOf
  <2>4. Suppressed(path) <=> \/ Applicable("apache.mod_status_public")
                             \/ Applicable("lighttpd.mod_status_public") /\ path = "/server-status"
    BY <2>2 DEF Suppressed
  <2>5. ~(Applicable("apache.mod_status_public") /\ Applicable("lighttpd.mod_status_public"))
    BY <2>2
  <2>6. PICK x : x = IF ~Suppressed(path) THEN "server_status_exposed"
                     ELSE IF Applicable("apache.mod_status_public") THEN "apache.mod_status_public"
                     ELSE "lighttpd.mod_status_public"
    OBVIOUS
  <2>7. \A r : r \in RulesOn(findings, e, path) <=> path \in open[e] /\ r = x
    BY <2>1, <2>3, <2>4, <2>5, <2>6
  <2>8. path \in open[e] => \E y : \A r : r \in RulesOn(findings, e, path) <=> r = y
    BY <2>7
  <2>9. path \notin open[e] => \A r : r \notin RulesOn(findings, e, path)
    BY <2>7
  <2>10. QED BY <2>8, <2>9, OneTells
<1>11. QED BY <1>3, <1>7, <1>8, <1>9, <1>10

-----------------------------------------------------------------------------
(* The theorems. *)

\* The report on a host (ReportIsSound) has its types, its manifest accounts for every
\* rule that was run or required, one server is judged, and it is named without a
\* contradiction: for every host, every answer and every policy.
THEOREM ReportsAreSound == ASSUME AnalysisAssumption PROVE AnalysisSpec => []ReportIsSound
<1>1. AnalysisIInv => ReportIsSound
  <2> SUFFICES ASSUME AnalysisIInv PROVE ReportIsSound
    OBVIOUS
  <2>1. AnalysisTypeOK
    <3>1. Ranges
      BY DEF AnalysisIInv
    <3>2. recorder.terminal \in [Rule -> Event \cup {NoEvent}] /\ judged \subseteq Rule
      <4>1. CASE analysing \in {"attach", "done"}
        <5>1. judged \subseteq Rule
          BY <4>1 DEF AnalysisIInv, ToldSoFar, AnalysisAssumption
        <5>2. SoundRecorder(recorder)
          <6>1. CASE analysing = "attach"
            BY <6>1, RanIs, EmptyIs DEF AnalysisIInv, ToldSoFar
          <6>2. CASE analysing = "done"
            BY <6>2, AtTheEnd DEF Analysed
          <6>3. QED BY <4>1, <6>1, <6>2
        <5>3. QED BY <5>1, <5>2 DEF SoundRecorder, RecorderValue
      <4>2. CASE analysing \notin {"attach", "done"}
        <5>1. recorder = EmptyRecorder /\ judged = {}
          BY <3>1, <4>2 DEF AnalysisIInv, ToldSoFar, Ranges, Early
        <5>2. QED BY <5>1, EmptyIs DEF SoundRecorder, RecorderValue
      <4>3. QED BY <4>1, <4>2
    <3>3. QED BY <3>1, <3>2 DEF AnalysisTypeOK, Ranges, Early, Named
  <2>2. QED BY <2>1, ManifestAccounts, OneServer, NamedWell DEF ReportIsSound
<1>2. QED BY <1>1, AnalysisInvariance, PTL

\* Whatever a host discloses (DisclosureToldOnce) is reported by exactly one rule, the
\* generic one or that of the server, however certain the identification.
THEOREM DisclosuresAreToldOnce == ASSUME AnalysisAssumption PROVE AnalysisSpec => []DisclosureToldOnce
<1>1. AnalysisIInv => DisclosureToldOnce
  BY ToldOnce
<1>2. QED BY <1>1, AnalysisInvariance, PTL
================================================================================
