---------------------------- MODULE PublishContract ----------------------------
(***************************************************************************)
(* What "publish an export atomically" promises (write_coverage_output in   *)
(* coverage_ledger.py): the file changes in one step, from one whole        *)
(* content to another, and a writer without --force only ever creates it.  *)
(***************************************************************************)
CONSTANTS
    Writer,    \* runs of the command that write to the same path
    Forced,     \* those with --force
    Nobody     \* the path does not exist

VARIABLES
    content,   \* whose export is at the path
    fate       \* how each writer ended so far

vars == <<content, fate>>

Init == content = Nobody /\ fate = [w \in Writer |-> "open"]

Publish(w) ==
    /\ fate[w] = "open"
    /\ content = Nobody \/ w \in Forced
    /\ content' = w
    /\ fate' = [fate EXCEPT ![w] = "published"]

\* Someone else was first.
Refuse(w) ==
    /\ fate[w] = "open" /\ w \notin Forced
    /\ content # Nobody
    /\ fate' = [fate EXCEPT ![w] = "refused"]
    /\ UNCHANGED content

Fail(w) ==
    /\ fate[w] = "open"
    /\ fate' = [fate EXCEPT ![w] = "failed"]
    /\ UNCHANGED content

Next == \E w \in Writer : Publish(w) \/ Refuse(w) \/ Fail(w)

Spec == Init /\ [][Next]_vars

=============================================================================
