------------------------------- MODULE PortScan -------------------------------
(***************************************************************************)
(* scan_ports: the main thread submits one check per port to a pool of     *)
(* worker threads, then collects the futures as they complete, in whatever *)
(* order that is, and puts each result into the slot of its port.          *)
(*                                                                         *)
(* Of ThreadPoolExecutor it is modelled that workers take the submitted    *)
(* work in order, that a future holds what the work returned or raised,    *)
(* and that leaving the with block waits for all submitted work.           *)
(***************************************************************************)
EXTENDS Sequences, Integers

CONSTANTS
    PortLists,      \* the lists of ports a scan may be asked for
    InvalidPort,    \* numbers below 0 or above 65535
    MaxWorkers      \* _MAX_SCAN_WORKERS

ASSUME PortsAssumption ==
    /\ \A list \in PortLists : list \in Seq(Int)
    /\ MaxWorkers \in Nat \ {0}

VARIABLES
    phase,      \* of the main thread: "submitting", "collecting", "failing" (an
                \* exception is leaving the with block), "returned", "raised"
    ports,      \* the argument
    next,       \* the index to be submitted next
    queue,      \* indices submitted and not taken by a worker
    running,    \* running[w]: the index worker w is checking, 0 if it is idle
    future,     \* future[i]: the outcome of the check of ports[i], or "pending"
    yielded,    \* the indices as_completed has yielded
    results     \* the list of results, "none" where it holds None

vars == <<phase, ports, next, queue, running, future, yielded, results>>

Index  == 1..Len(ports)
Worker == 1..MaxWorkers

\* min(_MAX_SCAN_WORKERS, len(ports)) of the workers are used.
Used(w) == w =< Len(ports)

Outcomes(port) == IF port \in InvalidPort THEN {"invalid"} ELSE {"open", "closed", "raises"}

Init ==
    /\ phase = "submitting"
    /\ ports \in PortLists
    /\ next = 1
    /\ queue = <<>>
    /\ running = [w \in Worker |-> 0]
    /\ future = [i \in Index |-> "pending"]
    /\ yielded = {}
    /\ results = [i \in Index |-> "none"]

(***************************************************************************)
(* The main thread.                                                        *)
(***************************************************************************)
ReturnNothing ==
    /\ phase = "submitting" /\ ports = <<>>
    /\ phase' = "returned"
    /\ UNCHANGED <<ports, next, queue, running, future, yielded, results>>

Submit ==
    /\ phase = "submitting" /\ next =< Len(ports)
    /\ queue' = Append(queue, next)
    /\ next' = next + 1
    /\ phase' = IF next = Len(ports) THEN "collecting" ELSE "submitting"
    /\ UNCHANGED <<ports, running, future, yielded, results>>

\* Mutant: the wait has a timeout, and futures still pending are collected too.
MutantCompletes(i) == phase = "collecting" /\ i \notin yielded

Completes(i) == phase = "collecting" /\ i \notin yielded /\ future[i] # "pending"

\* Mutant: results are stored in the order of completion.
MutantStored(i) ==
    LET first == CHOOSE k \in Index : results[k] = "none" /\ \A j \in 1..(k-1) : results[j] # "none"
    IN  [results EXCEPT ![first] = future[i]]

\* results[future_to_index[future]] = future.result()
Stored(i) == [results EXCEPT ![i] = future[i]]

Collect(i) ==
    /\ Completes(i) /\ future[i] # "raises"
    /\ yielded' = yielded \cup {i}
    /\ results' = Stored(i)
    /\ UNCHANGED <<phase, ports, next, queue, running, future>>

\* future.result() raises out of the loop.
CollectRaises(i) ==
    /\ Completes(i) /\ future[i] = "raises"
    /\ yielded' = yielded \cup {i}
    /\ phase' = "failing"
    /\ UNCHANGED <<ports, next, queue, running, future, results>>

Return ==
    /\ phase = "collecting" /\ yielded = Index
    /\ phase' = "returned"
    /\ UNCHANGED <<ports, next, queue, running, future, yielded, results>>

\* Mutant: the executor is left without waiting for the other checks.

\* shutdown(wait=True): nothing is cancelled, the queued checks are run too.
Shutdown == \A i \in Index : future[i] # "pending"

RaiseOut ==
    /\ phase = "failing" /\ Shutdown
    /\ phase' = "raised"
    /\ UNCHANGED <<ports, next, queue, running, future, yielded, results>>

Main == ReturnNothing \/ Submit \/ Return \/ RaiseOut
            \/ \E i \in Index : Collect(i) \/ CollectRaises(i)

(***************************************************************************)
(* The worker threads.                                                     *)
(***************************************************************************)
StartCheck(w) ==
    /\ Used(w) /\ running[w] = 0 /\ queue # <<>>
    /\ running' = [running EXCEPT ![w] = Head(queue)]
    /\ queue' = Tail(queue)
    /\ UNCHANGED <<phase, ports, next, future, yielded, results>>

\* Mutant: what the work raises is lost, its future never completes.
MutantFuture(i, o) == IF o = "raises" THEN future ELSE [future EXCEPT ![i] = o]

\* What _check_tcp_port returns or raises becomes the outcome of its future.
Future(i, o) == [future EXCEPT ![i] = o]

FinishCheck(w) ==
    /\ running[w] # 0
    /\ \E o \in Outcomes(ports[running[w]]) : future' = Future(running[w], o)
    /\ running' = [running EXCEPT ![w] = 0]
    /\ UNCHANGED <<phase, ports, next, queue, yielded, results>>

Work(w) == StartCheck(w) \/ FinishCheck(w)

Next == Main \/ \E w \in Worker : Work(w)

\* The operating system runs every thread, and a connection attempt ends: it has a
\* timeout.
Fairness == WF_vars(Main) /\ \A w \in Worker : WF_vars(Work(w))

Spec == Init /\ [][Next]_vars /\ Fairness

(***************************************************************************)
(* Properties.                                                             *)
(***************************************************************************)
TypeOK ==
    /\ ports \in PortLists
    /\ phase \in {"submitting", "collecting", "failing", "returned", "raised"}
    /\ next \in 1..(Len(ports) + 1)
    /\ queue \in Seq(Index)
    /\ running \in [Worker -> Index \cup {0}]
    /\ future \in [Index -> {"pending", "invalid", "open", "closed", "raises"}]
    /\ yielded \subseteq Index
    /\ results \in [Index -> {"none", "invalid", "open", "closed"}]

\* The scan implements its contract: however the threads interleave, each port is
\* checked once and the answer lists the outcomes in the order of the ports, or is
\* the exception of a check, given only when no check is running any more.  ("All
\* slots are filled" when the list is returned: a "none" in it breaks the contract.)
Contract == INSTANCE ScanContract WITH
    outcome <- future,
    answer  <- IF phase = "returned" THEN [kind |-> "results", list |-> results]
               ELSE IF phase = "raised" THEN [kind |-> "raised", list |-> <<>>]
               ELSE [kind |-> "none", list |-> <<>>]

ImplementsContract == Contract!Spec

\* Every scan ends: no thread waits for a future nobody will complete.
ScanEnds == <>(phase \in {"returned", "raised"})
===============================================================================
