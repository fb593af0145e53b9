-------------------------- MODULE ExecutionRecorder --------------------------
(***************************************************************************)
(* One RuleExecutionRecorder driven by arbitrary callers: any of its       *)
(* methods, in any order, about any rule.  What holds here holds for every *)
(* runner, whatever it runs and in which order it revisits its rules.      *)
(***************************************************************************)
EXTENDS ExecutionManifest

CONSTANT Reported   \* the rules that callers report about

ASSUME ReportedAssumption == Reported \subseteq Rule

VARIABLES
    rec,        \* the recorder
    observed    \* history variable: every event reported about each rule

recorderVars == <<rec, observed>>

RecorderInit ==
    /\ rec = EmptyRecorder
    /\ observed = [r \in Rule |-> {}]

SelectRule(r) ==
    /\ rec' = Select(rec, r)
    /\ UNCHANGED observed

ReportEvent(r, event) ==
    /\ rec' = Record(rec, r, event)
    /\ observed' = [observed EXCEPT ![r] = @ \cup {event}]

RecorderNext == \E r \in Reported :
    \/ SelectRule(r)
    \/ \E event \in EventOf(r) : ReportEvent(r, event)

RecorderSpec == RecorderInit /\ [][RecorderNext]_recorderVars

(***************************************************************************)
(* Properties.                                                             *)
(***************************************************************************)

\* The recorder's state has its type: a duplicate-free selection and, per rule,
\* no event or one of the events the runners report about that rule.
RecorderTypeOK ==
    /\ rec \in [selected : Seq(Rule), terminal : [Rule -> Event \cup {NoEvent}]]
    /\ observed \in [Rule -> SUBSET Event]
    /\ \A r \in Rule : /\ rec.terminal[r] \in EventOf(r) \cup {NoEvent}
                      /\ observed[r] \subseteq EventOf(r)

\* How strongly an event binds: a failure over a completion, a completion over a
\* skip, and among skips the alphabetically first reason.
Strength(event) ==
    IF      event.state = "failed"    THEN 7
    ELSE IF event.state = "completed" THEN 6
    ELSE IF event.state = "skipped"   THEN 6 - ReasonOrder(event.detail)
    ELSE 0

\* The verdict on a rule depends only on the SET of events reported about it and
\* neither on their order nor on repetitions: it is the strongest of them.  The
\* runners revisit a rule once per .htaccess context or web.config, in an order
\* set by the configuration, so a verdict sensitive to order would make the
\* manifest depend on the layout of the audited configuration.
OutcomeIsStrongest == \A r \in Rule :
    IF observed[r] = {}
    THEN rec.terminal[r] = NoEvent
    ELSE /\ rec.terminal[r] \in observed[r]
         /\ \A event \in observed[r] : Strength(event) =< Strength(rec.terminal[r])

\* No crash of a rule is ever masked by a later success or skip of the same rule
\* in another context.
FailureIsSticky ==
    [][\A r \in Rule : rec.terminal[r].state = "failed" => rec'.terminal[r].state = "failed"]_recorderVars

\* Every event reaches the manifest: no rule is reported about without being
\* selected, and no selection is recorded twice, so building the manifest can
\* only fail for a rule that was selected and never reported about.
ManifestOnlyFailsIncomplete ==
    /\ Unselected(rec) = {}
    /\ SelectedOnce(rec)
    /\ Manifest(rec).error = "none" <=> \A r \in SelectedSet(rec) : observed[r] # {}

================================================================================
