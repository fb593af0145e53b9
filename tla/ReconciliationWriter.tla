-------------------------- MODULE ReconciliationWriter --------------------------
(***************************************************************************)
(* write_coverage_reconciliation() (coverage_ledger.py): several tracked    *)
(* documents are rewritten together. All are staged in a temporary          *)
(* directory; then, one path after the other, the old file is moved into    *)
(* the directory and the staged one out of it; a failing operation starts a *)
(* rollback; the directory is removed at the end.                           *)
(***************************************************************************)
EXTENDS Naturals

CONSTANTS
    N,            \* the paths are 1 .. N, in sorted order
    MaxFailures,  \* bound on file operations that fail
    CanBeKilled   \* whether the process may be killed

ASSUME ReconciliationAssumption ==
    N \in Nat \ {0} /\ MaxFailures \in Nat /\ CanBeKilled \in BOOLEAN

Path == 1 .. N

VARIABLES
    before,    \* the paths that existed when the command was called
    documents, \* [Path -> "old", "new" or "absent"]
    staged,    \* staged files in the temporary directory
    backup,    \* old files in the temporary directory
    replaced,  \* the paths replaced so far, in order: 1 .. replaced
    step,      \* where the command is
    at,        \* the path the current loop is at
    outcome,   \* "none", "published" or "failed"
    failures   \* operations that failed so far

documentVars == <<before, documents, staged, backup, replaced, step, at, outcome, failures>>

DocumentsInit ==
    /\ before \in SUBSET Path
    /\ documents = [p \in Path |-> IF p \in before THEN "old" ELSE "absent"]
    /\ staged = {} /\ backup = {} /\ replaced = 0
    /\ step = "stage" /\ at = 1
    /\ outcome = "none" /\ failures = 0

OperationFails == failures < MaxFailures /\ failures' = failures + 1

\* Write and fsync the staged file of one path.

Stage ==
    /\ step = "stage" /\ at \in Path
    /\ staged' = staged \cup {at}
    /\ at' = at + 1
    /\ UNCHANGED <<before, documents, backup, replaced, step, outcome, failures>>

StageFails ==
    /\ step = "stage" /\ at \in Path /\ OperationFails
    /\ step' = "clean" /\ outcome' = "failed"
    /\ UNCHANGED <<before, documents, staged, backup, replaced, at>>

AllStaged ==
    /\ step = "stage" /\ at \notin Path
    /\ step' = "backup" /\ at' = 1
    /\ UNCHANGED <<before, documents, staged, backup, replaced, outcome, failures>>

\* os.replace(output_path, backup_path), for a path that exists
MutantMoveAway ==
    /\ step = "backup" /\ at \in Path
    /\ documents' = [documents EXCEPT ![at] = "absent"]
    /\ step' = "replace"
    /\ UNCHANGED <<before, staged, backup, replaced, at, outcome, failures>>

MoveAway ==
    /\ step = "backup" /\ at \in Path
    /\ IF documents[at] = "absent"
       THEN UNCHANGED <<documents, backup>>
       ELSE documents' = [documents EXCEPT ![at] = "absent"] /\ backup' = backup \cup {at}
    /\ step' = "replace"
    /\ UNCHANGED <<before, staged, replaced, at, outcome, failures>>

\* os.replace(staged[output_path], output_path)
MoveIn ==
    /\ step = "replace"
    /\ documents' = [documents EXCEPT ![at] = "new"]
    /\ staged' = staged \ {at}
    /\ replaced' = at
    /\ step' = "backup" /\ at' = at + 1
    /\ UNCHANGED <<before, backup, outcome, failures>>

AllReplaced ==
    /\ step = "backup" /\ at \notin Path
    /\ step' = "clean" /\ outcome' = "published"
    /\ UNCHANGED <<before, documents, staged, backup, replaced, at, failures>>

MutantMoveFails ==
    /\ step = "replace" /\ OperationFails
    /\ step' = "backup" /\ at' = at + 1
    /\ UNCHANGED <<before, documents, staged, backup, replaced, outcome>>

MoveFails ==
    /\ \/ step = "backup" /\ at \in Path /\ documents[at] # "absent"
       \/ step = "replace"
    /\ OperationFails
    /\ step' = "undo" /\ at' = replaced
    /\ UNCHANGED <<before, documents, staged, backup, replaced, outcome>>

\* for output_path in reversed(replaced): unlink, an error of which is ignored,
\* and put the old file back.
MutantUndo ==
    /\ step = "undo" /\ at \in Path
    /\ documents' = IF at \in backup THEN [documents EXCEPT ![at] = "old"] ELSE documents
    /\ backup' = backup \ {at}
    /\ at' = at - 1
    /\ UNCHANGED <<before, staged, replaced, step, outcome, failures>>

Undo ==
    /\ step = "undo" /\ at \in Path
    /\ documents' = [documents EXCEPT ![at] = IF at \in backup THEN "old" ELSE "absent"]
    /\ backup' = backup \ {at}
    /\ at' = at - 1
    /\ UNCHANGED <<before, staged, replaced, step, outcome, failures>>

UndoUnlinkFails ==
    /\ step = "undo" /\ at \in Path /\ OperationFails
    /\ documents' = IF at \in backup THEN [documents EXCEPT ![at] = "old"] ELSE documents
    /\ backup' = backup \ {at}
    /\ at' = at - 1
    /\ UNCHANGED <<before, staged, replaced, step, outcome>>

\* The old file cannot be put back: the error leaves the rollback, the handler
\* around it reports it, and the paths still to be restored are not.
UndoFails ==
    /\ step = "undo" /\ at \in Path /\ at \in backup /\ OperationFails
    /\ documents' = [documents EXCEPT ![at] = "absent"]
    /\ step' = "clean" /\ outcome' = "failed"
    /\ UNCHANGED <<before, staged, backup, replaced, at>>


AllUndone ==
    /\ step = "undo" /\ at \notin Path
    /\ step' = "restore"
    /\ UNCHANGED <<before, documents, staged, backup, replaced, at, outcome, failures>>

\* The paths moved away and not replaced: at most the one that failed.
Restore ==
    /\ step = "restore"
    /\ documents' = [p \in Path |-> IF p \in backup THEN "old" ELSE documents[p]]
    /\ backup' = {}
    /\ step' = "clean" /\ outcome' = "failed"
    /\ UNCHANGED <<before, staged, replaced, at, failures>>

RestoreFails ==
    /\ step = "restore" /\ backup # {} /\ OperationFails
    /\ step' = "clean" /\ outcome' = "failed"
    /\ UNCHANGED <<before, documents, staged, backup, replaced, at>>

\* TemporaryDirectory.__exit__() removes what is left in it.
Clean ==
    /\ step = "clean"
    /\ staged' = {} /\ backup' = {}
    /\ step' = "done"
    /\ UNCHANGED <<before, documents, replaced, at, outcome, failures>>

CleanFails ==
    /\ step = "clean" /\ OperationFails
    /\ step' = "done" /\ outcome' = "failed"
    /\ UNCHANGED <<before, documents, staged, backup, replaced, at>>

CommandKilled ==
    /\ CanBeKilled /\ step \notin {"done", "killed"}
    /\ step' = "killed"
    /\ UNCHANGED <<before, documents, staged, backup, replaced, at, outcome, failures>>

DocumentsStep ==
    \/ Stage \/ AllStaged \/ MoveAway \/ MoveIn \/ AllReplaced
    \/ Undo \/ AllUndone \/ Restore \/ Clean
DocumentsFailure ==
    \/ StageFails \/ MoveFails \/ UndoUnlinkFails \/ UndoFails \/ RestoreFails \/ CleanFails
    \/ CommandKilled

DocumentsNext == DocumentsStep \/ DocumentsFailure

DocumentsSpec == DocumentsInit /\ [][DocumentsNext]_documentVars

-----------------------------------------------------------------------------
(* Properties. *)

\* Types of the variables.
DocumentsTypeOK ==
    /\ before \in SUBSET Path
    /\ documents \in [Path -> {"old", "new", "absent"}]
    /\ staged \in SUBSET Path /\ backup \in SUBSET Path
    /\ replaced \in 0 .. N /\ at \in 0 .. (N + 1)
    /\ step \in {"stage", "backup", "replace", "undo", "restore", "clean", "done", "killed"}
    /\ outcome \in {"none", "published", "failed"}
    /\ failures \in 0 .. MaxFailures

AllNew == \A p \in Path : documents[p] = "new"
AsBefore == \A p \in Path : documents[p] = IF p \in before THEN "old" ELSE "absent"

\* When the command returns, the documents are all new or all as they were, if at
\* most one operation failed, whichever. A second failure, in the rollback, or a kill
\* leaves some new and some missing.
AllOrNothing == step = "done" /\ failures <= 1 => AllNew \/ AsBefore

\* However many operations failed, the command says that the documents were
\* published only when all of them are there.
PublishedIsTrue == step = "done" /\ outcome = "published" => AllNew

\* The documents that existed are still somewhere: at their path, old or new, or
\* in the temporary directory, also when the process was killed, unless two
\* operations failed: then the directory is removed with what could not be put back.
NothingLost == failures <= 1 => \A p \in before : documents[p] # "absent" \/ p \in backup

\* The documents are published together, and none of them is lost on the way.
DocumentsAreSafe == DocumentsTypeOK /\ AllOrNothing /\ PublishedIsTrue /\ NothingLost

=============================================================================
