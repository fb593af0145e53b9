------------------------------ MODULE MC_CiGate ------------------------------
(***************************************************************************)
(* A universal finding "u", the specific finding "s" that covers it at the *)
(* same place, and an unrelated "x".  The configurations have the twins    *)
(* together and apart, with u more severe than s as                        *)
(* universal.tls_required_for_authenticated_routes is, and x with either   *)
(* severity.  One suppression for each of s and x, expiring on the first   *)
(* and on the second of three days.                                        *)
(***************************************************************************)
EXTENDS CiGate

MCFinding == {"u", "s", "x"}
MCCovers  == [f \in MCFinding |-> IF f = "u" THEN {"s"} ELSE {}]

Config(u, s, x) == [f \in MCFinding |-> IF f = "u" THEN u ELSE IF f = "s" THEN s ELSE x]
MCConfigs == {Config(2, 1, 0), Config(2, 0, 1), Config(0, 1, 2), Config(0, 0, 0)}

MCEntries == {[covers |-> {"s"}, expires |-> 0], [covers |-> {"x"}, expires |-> 1]}

Options_(failOn, failOnNew, suppressions, withBaseline, write) ==
    [failOn |-> failOn, failOnNew |-> failOnNew, suppressions |-> suppressions,
     baseline |-> withBaseline, write |-> write]

MCOptions == {
    Options_(0, 0, FALSE, FALSE, TRUE),   \* --write-baseline
    Options_(0, 0, TRUE,  TRUE,  FALSE),  \* --suppressions --baseline
    Options_(0, 0, FALSE, TRUE,  FALSE),  \* --baseline
    Options_(2, 0, FALSE, FALSE, TRUE),   \* --fail-on high --write-baseline
    Options_(1, 0, TRUE,  FALSE, FALSE),  \* --fail-on low --suppressions
    Options_(0, 1, FALSE, FALSE, FALSE),  \* --fail-on-new low, no baseline
    Options_(0, 1, FALSE, TRUE,  FALSE),  \* --fail-on-new low --baseline
    Options_(2, 2, TRUE,  TRUE,  TRUE)    \* everything
}
===============================================================================
