------------------------------ MODULE ExportWriter ------------------------------
(***************************************************************************)
(* write_coverage_output() (coverage_ledger.py), which `assess --output`    *)
(* and the coverage commands use, run by several processes at once on the   *)
(* same path: check, write a temporary file next to it, and rename or link  *)
(* it into place. Any file operation may fail and any process may be killed.*)
(***************************************************************************)
EXTENDS Naturals, FiniteSets

CONSTANTS
    Writer,
    Forced,
    Nobody,
    MaxFaults    \* bound on file operations that fail and processes that are killed

ASSUME WriterAssumption ==
    Forced \subseteq Writer /\ Nobody \notin Writer /\ MaxFaults \in Nat

VARIABLES
    file,       \* [by, whole] : what is at the path
    temporary,  \* [Writer -> "none", "part" or "whole"]
    pc,         \* [Writer -> program counter]
    result,     \* [Writer -> what the function returned, or "none" so far]
    published,  \* writers whose export has been at the path
    faults

exportVars == <<file, temporary, pc, result, published, faults>>

Absent == [by |-> Nobody, whole |-> TRUE]

ExportInit ==
    /\ file = Absent
    /\ temporary = [w \in Writer |-> "none"]
    /\ pc = [w \in Writer |-> "check"]
    /\ result = [w \in Writer |-> "none"]
    /\ published = {}
    /\ faults = 0

Goto(w, label) == pc' = [pc EXCEPT ![w] = label]
Returns(w, r) == result' = [result EXCEPT ![w] = r]
Fault == faults < MaxFaults /\ faults' = faults + 1

\* path.exists() and not force
Exists(w) ==
    /\ pc[w] = "check" /\ file # Absent /\ w \notin Forced
    /\ Goto(w, "done") /\ Returns(w, "output_exists")
    /\ UNCHANGED <<file, temporary, published, faults>>

CheckPasses(w) ==
    /\ pc[w] = "check" /\ (file = Absent \/ w \in Forced)
    /\ Goto(w, "create")
    /\ UNCHANGED <<file, temporary, result, published, faults>>

\* tempfile.mkstemp() in the directory of the path
Create(w) ==
    /\ pc[w] = "create"
    /\ temporary' = [temporary EXCEPT ![w] = "part"]
    /\ Goto(w, "write")
    /\ UNCHANGED <<file, result, published, faults>>

CreateFails(w) ==
    /\ pc[w] = "create" /\ Fault
    /\ Goto(w, "done") /\ Returns(w, "output_write_failed")
    /\ UNCHANGED <<file, temporary, published>>

\* write, flush and fsync, before anything is moved.
MutantWrite(w) ==
    /\ pc[w] = "write"
    /\ Goto(w, "publish")
    /\ UNCHANGED <<file, temporary, result, published, faults>>

Write(w) ==
    /\ pc[w] = "write"
    /\ temporary' = [temporary EXCEPT ![w] = "whole"]
    /\ Goto(w, "publish")
    /\ UNCHANGED <<file, result, published, faults>>

\* The disk is full, or whatever else raises before the file is in place.
Raises(w) ==
    /\ pc[w] \in {"write", "publish"} /\ Fault
    /\ Goto(w, "finally") /\ Returns(w, "output_write_failed")
    /\ UNCHANGED <<file, temporary, published>>

\* os.replace(temporary, path)

Replace(w) ==
    /\ pc[w] = "publish" /\ w \in Forced
    /\ file' = [by |-> w, whole |-> temporary[w] = "whole"]
    /\ temporary' = [temporary EXCEPT ![w] = "none"]
    /\ published' = published \cup {w}
    /\ Goto(w, "finally") /\ Returns(w, "ok")
    /\ UNCHANGED faults

\* os.link(temporary, path): the path is only ever created.
MutantLink(w) ==
    /\ pc[w] = "publish" /\ w \notin Forced
    /\ file' = [by |-> w, whole |-> temporary[w] = "whole"]
    /\ published' = published \cup {w}
    /\ Goto(w, "unlink")
    /\ UNCHANGED <<temporary, result, faults>>

Link(w) ==
    /\ pc[w] = "publish" /\ w \notin Forced
    /\ file = Absent
    /\ file' = [by |-> w, whole |-> temporary[w] = "whole"]
    /\ published' = published \cup {w}
    /\ Goto(w, "unlink")
    /\ UNCHANGED <<temporary, result, faults>>

\* FileExistsError of os.link
MutantLinkExists(w) ==
    /\ pc[w] = "publish" /\ w \notin Forced
    /\ file # Absent
    /\ Goto(w, "finally") /\ Returns(w, "ok")
    /\ UNCHANGED <<file, temporary, published, faults>>


LinkExists(w) ==
    /\ pc[w] = "publish" /\ w \notin Forced
    /\ file # Absent
    /\ Goto(w, "finally") /\ Returns(w, "output_exists")
    /\ UNCHANGED <<file, temporary, published, faults>>

\* temporary.unlink()
Unlink(w) ==
    /\ pc[w] = "unlink"
    /\ temporary' = [temporary EXCEPT ![w] = "none"]
    /\ Goto(w, "finally") /\ Returns(w, "ok")
    /\ UNCHANGED <<file, published, faults>>

\* The export is in place and the function says that it could not be written.
UnlinkFails(w) ==
    /\ pc[w] = "unlink" /\ Fault
    /\ Goto(w, "finally") /\ Returns(w, "output_write_failed")
    /\ UNCHANGED <<file, temporary, published>>

\* finally: if temporary.exists(): temporary.unlink()
MutantFinally(w) ==
    /\ pc[w] = "finally" /\ result[w] # "output_write_failed"
    /\ Goto(w, "done")
    /\ UNCHANGED <<file, temporary, result, published, faults>>

Finally(w) ==
    /\ pc[w] = "finally"
    /\ temporary' = [temporary EXCEPT ![w] = "none"]
    /\ Goto(w, "done")
    /\ UNCHANGED <<file, result, published, faults>>

FinallyFails(w) ==
    /\ pc[w] = "finally" /\ temporary[w] # "none" /\ Fault
    /\ Goto(w, "done") /\ Returns(w, "output_write_failed")
    /\ UNCHANGED <<file, temporary, published>>

Killed(w) ==
    /\ pc[w] \notin {"done", "killed"} /\ Fault
    /\ Goto(w, "killed")
    /\ UNCHANGED <<file, temporary, result, published>>

Step(w) ==
    \/ Exists(w) \/ CheckPasses(w) \/ Create(w) \/ Write(w) \/ Replace(w) \/ Link(w)
    \/ LinkExists(w) \/ Unlink(w) \/ Finally(w)
Failure(w) ==
    CreateFails(w) \/ Raises(w) \/ UnlinkFails(w) \/ FinallyFails(w) \/ Killed(w)

ExportNext == \E w \in Writer : Step(w) \/ Failure(w)

ExportSpec == ExportInit /\ [][ExportNext]_exportVars

-----------------------------------------------------------------------------
(* Properties. *)

\* Types of the variables.
ExportTypeOK ==
    /\ file \in [by : Writer \cup {Nobody}, whole : BOOLEAN]
    /\ temporary \in [Writer -> {"none", "part", "whole"}]
    /\ pc \in [Writer -> {"check", "create", "write", "publish", "unlink", "finally", "done", "killed"}]
    /\ result \in [Writer -> {"none", "ok", "output_exists", "output_write_failed"}]
    /\ published \subseteq Writer
    /\ faults \in 0 .. MaxFaults

\* What a reader finds at the path is a complete export, whenever it looks and
\* whoever was killed while writing.
ReadersSeeWholeExports == file.whole

\* A temporary file outlives its writer only if something failed: the process
\* was killed, or could not remove it and said so.
NoLitter ==
    \A w \in Writer : (pc[w] = "done" /\ temporary[w] # "none") =>
        result[w] = "output_write_failed"

\* A writer that was told that the output exists left it alone, also when
\* another one got in between its check and its link; "ok" means it was there.
ResultIsTrue ==
    \A w \in Writer : pc[w] = "done" =>
        /\ result[w] = "output_exists" => w \notin published
        /\ result[w] = "ok" => w \in published

\* Whatever fails and whoever is killed, readers and callers are not deceived.
ExportsAreSound == ExportTypeOK /\ ReadersSeeWholeExports /\ NoLitter /\ ResultIsTrue

Contract == INSTANCE PublishContract WITH
    content <- file.by,
    fate <- [w \in Writer |->
                IF w \in published THEN "published"
                ELSE IF pc[w] \notin {"done", "killed"} THEN "open"
                ELSE IF pc[w] = "done" /\ result[w] = "output_exists" THEN "refused"
                ELSE "failed"]

\* The steps of the function are, seen from the path, one atomic publication.
PublishesAtomically == Contract!Spec

=============================================================================
