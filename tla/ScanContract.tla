----------------------------- MODULE ScanContract -----------------------------
(***************************************************************************)
(* What scan_ports promises, without threads: every port of the list is    *)
(* checked exactly once, and once all of them are, the caller gets the     *)
(* outcomes in the order of the list, or an exception if a check raised.   *)
(***************************************************************************)
EXTENDS Sequences, Integers

CONSTANTS
    PortLists,      \* the lists of ports a scan may be asked for
    InvalidPort     \* numbers below 0 or above 65535

VARIABLES
    ports,      \* the list asked for
    outcome,    \* outcome[i]: what the check of ports[i] came to, or "pending"
    answer      \* [kind, list]: what the caller has got

cvars == <<ports, outcome, answer>>

NoAnswer        == [kind |-> "none", list |-> <<>>]
Raised          == [kind |-> "raised", list |-> <<>>]
Results(list)   == [kind |-> "results", list |-> list]

\* _check_tcp_port: a port out of range is not tried, an OSError is a closed port,
\* and any other exception (such as the UnicodeError of a host name that cannot be
\* encoded) is raised.
Outcomes(port) == IF port \in InvalidPort THEN {"invalid"} ELSE {"open", "closed", "raises"}

Pending == [i \in DOMAIN ports |-> "pending"]
AllDone == \A i \in DOMAIN ports : outcome[i] # "pending"

Init ==
    /\ ports \in PortLists
    /\ outcome = Pending
    /\ answer = NoAnswer

Check(i) ==
    /\ outcome[i] = "pending"
    /\ \E o \in Outcomes(ports[i]) : outcome' = [outcome EXCEPT ![i] = o]
    /\ UNCHANGED <<ports, answer>>

Answer ==
    /\ answer = NoAnswer /\ AllDone
    /\ answer' = IF \E i \in DOMAIN ports : outcome[i] = "raises"
                 THEN Raised ELSE Results(outcome)
    /\ UNCHANGED <<ports, outcome>>

Next == Answer \/ \E i \in DOMAIN ports : Check(i)

Spec == Init /\ [][Next]_cvars
===============================================================================
