-------------------------- MODULE ExecutionManifest --------------------------
(***************************************************************************)
(* RuleExecutionRecorder and build_rule_execution_manifest of              *)
(* execution_manifest.py.  Every local and external runner reports to one  *)
(* recorder: it keeps the rules selected so far, in first-selection order, *)
(* and one terminal event per rule, reducing each further event of a rule  *)
(* into the one it already holds.  The manifest is built from it once.     *)
(*                                                                         *)
(* A recorder is a value [selected, terminal], so that a composing module  *)
(* can make several recorder calls within one of its own steps.            *)
(***************************************************************************)
EXTENDS Sequences, FiniteSets, Integers

CONSTANTS
    Rule,       \* rule identifiers
    StageOf     \* StageOf[r]: the input_kind of rule r, the stage of its failures

(***************************************************************************)
(* Terminal events.  detail is the reason of a skip and the stage of a     *)
(* failure; NoEvent stands for a key _terminal_events does not have.       *)
(***************************************************************************)
NoEvent         == [state |-> "none",      detail |-> "none"]
Completed       == [state |-> "completed", detail |-> "none"]
Skipped(reason) == [state |-> "skipped",   detail |-> reason]
Failed(r)       == [state |-> "failed",    detail |-> StageOf[r]]

Reason == {"input-unavailable", "mode-incompatible", "opt-in-not-selected",
           "prerequisite-failed", "server-incompatible"}

\* The events the runners can report about rule r: run_rule_entry passes the
\* rule's own input_kind as the stage of a failure.
EventOf(r) == {Completed, Failed(r)} \cup {Skipped(reason) : reason \in Reason}

Event == UNION {EventOf(r) : r \in Rule}

\* The position of a reason in the order of Python's `<` on the strings.
ReasonOrder(reason) ==
    IF      reason = "input-unavailable"   THEN 1
    ELSE IF reason = "mode-incompatible"   THEN 2
    ELSE IF reason = "opt-in-not-selected" THEN 3
    ELSE IF reason = "prerequisite-failed" THEN 4
    ELSE 5  \* "server-incompatible"

\* Mutant: a later event always replaces the held one.
MutantReduceLastWins(existing, event) == event

\* Mutant: the early return on an existing failure is lost.
MutantReduceForgetsFailure(existing, event) ==
    IF \/ existing = NoEvent
       \/ event.state \in {"failed", "completed"}
       \/ /\ event.state = "skipped" /\ existing.state = "skipped"
          /\ ReasonOrder(event.detail) < ReasonOrder(existing.detail)
    THEN event
    ELSE existing

\* Mutant: the held event is updated in place and keeps its detail.
MutantReduceKeepsDetail(existing, event) ==
    IF existing = NoEvent THEN event ELSE [existing EXCEPT !.state = event.state]

\* What _record_terminal keeps when `event` arrives and `existing` is held.
Reduce(existing, event) ==
    IF \/ existing = NoEvent
       \/ event.state = "failed"
       \/ event.state = "completed" /\ existing.state # "failed"
       \/ /\ event.state = "skipped" /\ existing.state = "skipped"
          /\ ReasonOrder(event.detail) < ReasonOrder(existing.detail)
    THEN event
    ELSE existing

(***************************************************************************)
(* The recorder's methods, as functions of the recorder.                   *)
(***************************************************************************)
EmptyRecorder == [selected |-> <<>>, terminal |-> [r \in Rule |-> NoEvent]]

SelectedSet(R) == {R.selected[i] : i \in 1..Len(R.selected)}

Select(R, r) ==
    IF r \in SelectedSet(R) THEN R
    ELSE [R EXCEPT !.selected = Append(@, r)]

\* Mutant: _record_terminal does not select the rule it records.
MutantRecordUnselected(R, r, event) ==
    [R EXCEPT !.terminal[r] = Reduce(@, event)]

Record(R, r, event) ==
    [Select(R, r) EXCEPT !.terminal[r] = Reduce(@, event)]

\* select_many over the rules of `chosen`, in the order they have in `order`, which
\* repeats none.
SelectMany(R, order, chosen) ==
    LET selected[i \in 0..Len(order)] ==
            IF i = 0 THEN R.selected
            ELSE IF order[i] \in chosen \ SelectedSet(R) THEN Append(selected[i - 1], order[i])
            ELSE selected[i - 1]
    IN  [R EXCEPT !.selected = selected[Len(order)]]

\* A loop that reports event[r] for each rule r of `chosen`, in that order.
RecordEach(R, order, chosen, event) ==
    [selected |-> SelectMany(R, order, chosen).selected,
     terminal |-> [r \in Rule |-> IF r \in chosen THEN Reduce(R.terminal[r], event[r])
                                  ELSE R.terminal[r]]]

\* A loop of skipped(r, reason[r]).
SkipEach(R, order, chosen, reason) ==
    RecordEach(R, order, chosen, [r \in Rule |-> Skipped(reason[r])])

(***************************************************************************)
(* build_rule_execution_manifest applied to the recorder's selection and   *)
(* events: an error value, or the three terminal classes.                  *)
(***************************************************************************)
Missing(R) == {r \in SelectedSet(R) : R.terminal[r] = NoEvent}
InState(R, s) == {r \in SelectedSet(R) : R.terminal[r].state = s}

Unselected(R) == {r \in Rule : R.terminal[r] # NoEvent /\ r \notin SelectedSet(R)}

\* _ensure_unique on the selection.
SelectedOnce(R) ==
    \A i, j \in 1..Len(R.selected) : R.selected[i] = R.selected[j] => i = j

Manifest(R) ==
    IF ~SelectedOnce(R) \/ Unselected(R) # {}
    THEN [error |-> "execution_manifest_overlap"]
    ELSE IF Missing(R) # {} THEN [error |-> "execution_manifest_incomplete"]
    ELSE [error     |-> "none",
          selected  |-> R.selected,
          completed |-> InState(R, "completed"),
          skipped   |-> {<<r, R.terminal[r].detail>> : r \in InState(R, "skipped")},
          failed    |-> {<<r, R.terminal[r].detail>> : r \in InState(R, "failed")}]
===============================================================================
