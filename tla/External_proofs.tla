----------------------------- MODULE External_proofs -----------------------------
(***************************************************************************)
(* What is learned about a host from outside is told as it was seen: the    *)
(* thread pool scan of ports implements its contract, for every set of port *)
(* lists and every number of workers; the report of a probe is of one       *)
(* answer, whatever each connection brings; a chain of redirects is         *)
(* recorded as it went, for every set of URLs and every limit of hops; the  *)
(* control over an inventory of TLS endpoints rests on each of them; and of *)
(* one endpoint what is wrong is reported, and what is reported is so.      *)
(***************************************************************************)
EXTENDS PortScan, ExternalProbe, RedirectChain, TlsInventory, TlsObservation,
        SequenceTheorems, TLAPS

-----------------------------------------------------------------------------
(* The scan of ports (PortScan). *)

(***************************************************************************)
(* The inductive invariant.  An index is in one place at a time: not yet   *)
(* submitted, in the queue, with one worker, or done.  That is why a check *)
(* never finds its future completed.                                       *)
(***************************************************************************)
OnePlace ==
    /\ \A w \in Worker : running[w] # 0 =>
          running[w] < next /\ future[running[w]] = "pending"
    /\ \A k \in 1..Len(queue) :
          /\ queue[k] < next /\ future[queue[k]] = "pending"
          /\ \A w \in Worker : running[w] # queue[k]
    /\ \A j, k \in 1..Len(queue) : queue[j] = queue[k] => j = k
    /\ \A v, w \in Worker : running[v] = running[w] /\ running[v] # 0 => v = w
    /\ \A i \in Index : i >= next => future[i] = "pending"

\* What the main thread has collected is in its slot, and nothing it collected
\* raised unless it is on its way out.
Gathered ==
    /\ \A i \in yielded : future[i] # "pending"
    /\ \A i \in yielded : future[i] # "raises" => results[i] = future[i]
    /\ phase \in {"submitting", "collecting"} => \A i \in yielded : future[i] # "raises"
    /\ phase = "failing" => \E i \in Index : future[i] = "raises"

IInv == TypeOK /\ OnePlace /\ Gathered

\* The argument is a list of whole numbers.
LEMMA PortsType == ports \in PortLists => ports \in Seq(Int) /\ DOMAIN ports = Index /\ Len(ports) \in Nat
BY PortsAssumption DEF Index

\* A scan that begins has everything pending.
LEMMA InitIInv == Init => IInv
<1> SUFFICES ASSUME Init PROVE IInv
  OBVIOUS
<1>1. Len(ports) \in Nat /\ MaxWorkers \in Nat
  BY PortsType, PortsAssumption DEF Init
<1>2. TypeOK
  BY <1>1 DEF Init, TypeOK, Index, Worker
<1>3. OnePlace
  BY <1>1 DEF Init, OnePlace, Index, Worker
<1>4. Gathered
  BY DEF Init, Gathered
<1>5. QED BY <1>2, <1>3, <1>4 DEF IInv

\* Submitting puts a new index at the end of the queue.
LEMMA SubmitPreserves ==
    ASSUME IInv, Submit
    PROVE  IInv'
<1>0. Len(ports) \in Nat /\ DOMAIN ports = Index
  BY PortsType DEF IInv, TypeOK
<1>1. /\ Len(ports) \in Nat /\ next \in Index /\ queue \in Seq(Index)
      /\ Index \subseteq Nat /\ 0 \notin Index
  <2>1. queue \in Seq(Index)
    BY DEF IInv, TypeOK
  <2>2. next \in 1..(Len(ports) + 1) /\ next =< Len(ports)
    BY DEF IInv, TypeOK, Submit
  <2>3. next \in Index /\ Index \subseteq Nat /\ 0 \notin Index
    BY <1>0, <2>2 DEF Index
  <2>4. QED BY <1>0, <2>1, <2>3
<1>2. /\ queue' \in Seq(Index) /\ Len(queue') = Len(queue) + 1 /\ Len(queue) \in Nat
      /\ \A k \in 1..Len(queue) : queue'[k] = queue[k] /\ queue[k] \in Index
      /\ queue'[Len(queue')] = next
  BY <1>1 DEF Submit
<1>3. TypeOK'
  <2>1. next' \in 1..(Len(ports) + 1)
    BY <1>1 DEF Submit, Index
  <2>2. phase' \in {"submitting", "collecting"}
    BY DEF Submit
  <2>3. QED BY <1>2, <2>1, <2>2 DEF IInv, TypeOK, Submit, Index
<1>4. OnePlace'
  <2> USE DEF Submit
  <2>1. \A w \in Worker : running[w] \in Nat
    <3> HIDE DEF Submit
    <3>1. running \in [Worker -> Index \cup {0}]
      BY DEF IInv, TypeOK
    <3>2. \A w \in Worker : running[w] \in Index \cup {0}
      BY <3>1
    <3>3. \A i \in Index \cup {0} : i \in Nat
      BY <1>1
    <3>4. QED BY <3>2, <3>3, Zenon
  <2>2. future[next] = "pending" /\ \A w \in Worker : running[w] # next
    <3>1. next >= next /\ next \in Nat
      BY <1>1
    <3>2. \A w \in Worker : running[w] # 0 => running[w] < next
      BY DEF IInv, OnePlace
    <3>3. QED BY <1>1, <2>1, <3>1, <3>2 DEF IInv, OnePlace
  <2>3. \A w \in Worker : running'[w] # 0 =>
            running'[w] < next' /\ future'[running'[w]] = "pending"
    BY <1>1, <2>1 DEF IInv, OnePlace
  <2>4. \A k \in 1..Len(queue') :
            /\ queue'[k] < next' /\ future'[queue'[k]] = "pending"
            /\ \A w \in Worker : running'[w] # queue'[k]
    <3> TAKE k \in 1..Len(queue')
    <3>1. CASE k \in 1..Len(queue)
      <4>1. queue[k] < next /\ future[queue[k]] = "pending" /\ \A w \in Worker : running[w] # queue[k]
        BY <3>1 DEF IInv, OnePlace
      <4>2. queue'[k] = queue[k] /\ queue[k] \in Nat /\ next \in Nat
        BY <1>1, <1>2, <3>1
      <4>3. QED BY <4>1, <4>2
    <3>2. CASE k = Len(queue')
      BY <1>1, <1>2, <2>2, <3>2
    <3>3. QED BY <1>2, <3>1, <3>2
  <2>5. \A j, k \in 1..Len(queue') : queue'[j] = queue'[k] => j = k
    <3>1. \A k \in 1..Len(queue) : queue[k] < next
      BY DEF IInv, OnePlace
    <3>2. \A j, k \in 1..Len(queue) : queue[j] = queue[k] => j = k
      BY DEF IInv, OnePlace
    <3>3. QED BY <1>1, <1>2, <3>1, <3>2
  <2>6. \A v, w \in Worker : running'[v] = running'[w] /\ running'[v] # 0 => v = w
    BY DEF IInv, OnePlace
  <2>7. \A i \in Index : i >= next' => future'[i] = "pending"
    BY <1>1 DEF IInv, OnePlace
  <2>8. Index' = Index /\ Worker' = Worker
    BY DEF Index, Worker
  <2>9. QED BY <2>3, <2>4, <2>5, <2>6, <2>7, <2>8 DEF OnePlace
<1>5. Gathered'
  BY DEF IInv, Gathered, Submit, Index
<1>6. QED BY <1>3, <1>4, <1>5 DEF IInv

\* Collecting a finished future fills its slot, or is where an exception goes.
LEMMA CollectPreserves ==
    ASSUME IInv, NEW i \in Index, Collect(i) \/ CollectRaises(i)
    PROVE  IInv'
<1>1. TypeOK'
  <2>1. CASE Collect(i)
    <3>1. future[i] \in {"invalid", "open", "closed"}
      BY <2>1 DEF IInv, TypeOK, Collect, Completes
    <3>2. QED BY <2>1, <3>1 DEF IInv, TypeOK, Collect, Stored, Index
  <2>2. CASE CollectRaises(i)
    BY <2>2 DEF IInv, TypeOK, CollectRaises, Index
  <2>3. QED BY <2>1, <2>2
<1>2. OnePlace'
  BY DEF IInv, OnePlace, Collect, CollectRaises, Index, Worker
<1>3. Gathered'
  <2>1. CASE Collect(i)
    BY <2>1 DEF IInv, TypeOK, Gathered, Collect, Completes, Stored, Index
  <2>2. CASE CollectRaises(i)
    BY <2>2 DEF IInv, TypeOK, Gathered, CollectRaises, Completes, Index
  <2>3. QED BY <2>1, <2>2
<1>4. QED BY <1>1, <1>2, <1>3 DEF IInv

\* A worker takes the head of the queue, so that nobody else can.
LEMMA StartPreserves ==
    ASSUME IInv, NEW w \in Worker, StartCheck(w)
    PROVE  IInv'
<1>1. /\ queue \in Seq(Index) /\ queue # <<>> /\ Len(queue) \in Nat /\ Len(queue) > 0
      /\ Head(queue) = queue[1] /\ queue[1] \in Index
      /\ queue' \in Seq(Index) /\ Len(queue') = Len(queue) - 1
      /\ \A k \in 1..Len(queue') : queue'[k] = queue[k + 1]
  BY DEF IInv, TypeOK, StartCheck
<1>2. running' = [running EXCEPT ![w] = queue[1]] /\ running \in [Worker -> Index \cup {0}]
  BY <1>1 DEF IInv, TypeOK, StartCheck
<1>3. TypeOK'
  BY <1>1, <1>2, SMTT(60) DEF IInv, TypeOK, StartCheck, Index, Worker
<1>4. OnePlace'
  <2> USE DEF StartCheck
  <2>1. \A k \in 1..Len(queue) :
          /\ queue[k] < next /\ future[queue[k]] = "pending"
          /\ \A v \in Worker : running[v] # queue[k]
    BY DEF IInv, OnePlace
  <2>2. \A j, k \in 1..Len(queue) : queue[j] = queue[k] => j = k
    BY DEF IInv, OnePlace
  <2>3. \A v \in Worker : running'[v] # 0 =>
            running'[v] < next' /\ future'[running'[v]] = "pending"
    BY <1>1, <1>2, <2>1 DEF IInv, OnePlace
  <2>4. \A k \in 1..Len(queue') :
            /\ queue'[k] < next' /\ future'[queue'[k]] = "pending"
            /\ \A v \in Worker : running'[v] # queue'[k]
    <3> TAKE k \in 1..Len(queue')
    <3>1. queue'[k] = queue[k + 1] /\ k + 1 \in 1..Len(queue) /\ queue[k + 1] # queue[1]
      BY <1>1, <2>2
    <3>2. QED BY <1>1, <1>2, <2>1, <3>1
  <2>5. \A j, k \in 1..Len(queue') : queue'[j] = queue'[k] => j = k
    BY <1>1, <2>2
  <2>6. \A u, v \in Worker : running'[u] = running'[v] /\ running'[u] # 0 => u = v
    BY <1>1, <1>2, <2>1 DEF IInv, OnePlace
  <2>7. \A i \in Index : i >= next' => future'[i] = "pending"
    BY DEF IInv, OnePlace
  <2>8. Index' = Index /\ Worker' = Worker
    BY DEF Index, Worker
  <2>9. QED BY <2>3, <2>4, <2>5, <2>6, <2>7, <2>8 DEF OnePlace
<1>5. Gathered'
  BY DEF IInv, Gathered, StartCheck, Index
<1>6. QED BY <1>3, <1>4, <1>5 DEF IInv

\* What a finishing worker does to the futures.
LEMMA Finished ==
    ASSUME IInv, NEW w \in Worker, FinishCheck(w)
    PROVE  /\ running[w] \in Index
           /\ future[running[w]] = "pending"
           /\ \E o \in Outcomes(ports[running[w]]) : future' = [future EXCEPT ![running[w]] = o]
           /\ future' \in [Index -> {"pending", "invalid", "open", "closed", "raises"}]
           /\ future'[running[w]] # "pending"
<1>1. running[w] \in Index /\ future[running[w]] = "pending"
  BY DEF IInv, TypeOK, OnePlace, FinishCheck
<1>2. PICK o \in Outcomes(ports[running[w]]) : future' = [future EXCEPT ![running[w]] = o]
  BY DEF FinishCheck, Future
<1>3. o \in {"invalid", "open", "closed", "raises"}
  BY DEF Outcomes
<1>4. QED BY <1>1, <1>2, <1>3 DEF IInv, TypeOK

\* A check that ends completes its own future and no other.
LEMMA FinishPreserves ==
    ASSUME IInv, NEW w \in Worker, FinishCheck(w)
    PROVE  IInv'
<1> DEFINE i == running[w]
<1>1. PICK o \in Outcomes(ports[i]) : future' = [future EXCEPT ![i] = o]
  BY Finished
<1>2. /\ i \in Index /\ future[i] = "pending" /\ future'[i] # "pending"
      /\ \A k \in Index : k # i => future'[k] = future[k]
      /\ running' = [running EXCEPT ![w] = 0] /\ running \in [Worker -> Index \cup {0}]
      /\ queue \in Seq(Index)
  BY <1>1, Finished, ZenonT(60) DEF IInv, TypeOK, FinishCheck
<1>3. TypeOK'
  BY <1>2, Finished, ZenonT(60) DEF IInv, TypeOK, FinishCheck, Index, Worker
<1>4. OnePlace'
  <2> USE DEF FinishCheck
  <2> HIDE DEF i
  <2>0. Len(ports) \in Nat /\ Index \subseteq Nat /\ 0 \notin Index
    BY PortsType DEF IInv, TypeOK, Index
  <2>1. i = running[w] /\ i # 0 /\ i < next
    BY <1>2, <2>0 DEF i, IInv, OnePlace
  <2>2. \A v \in Worker : running'[v] # 0 =>
            running'[v] < next' /\ future'[running'[v]] = "pending"
    BY <1>2, <2>1 DEF IInv, OnePlace
  <2>3. \A k \in 1..Len(queue') :
            /\ queue'[k] < next' /\ future'[queue'[k]] = "pending"
            /\ \A v \in Worker : running'[v] # queue'[k]
    <3> TAKE k \in 1..Len(queue')
    <3>1. queue[k] \in Index /\ queue[k] # 0
      BY <1>2, <2>0
    <3>2. /\ queue[k] < next /\ future[queue[k]] = "pending"
          /\ \A v \in Worker : running[v] # queue[k]
      BY DEF IInv, OnePlace
    <3>3. QED BY <1>2, <2>1, <3>1, <3>2
  <2>4. \A j, k \in 1..Len(queue') : queue'[j] = queue'[k] => j = k
    BY DEF IInv, OnePlace
  <2>5. \A u, v \in Worker : running'[u] = running'[v] /\ running'[u] # 0 => u = v
    BY <1>2 DEF IInv, OnePlace
  <2>6. \A k \in Index : k >= next' => future'[k] = "pending"
    <3>1. next \in Nat
      BY <2>0 DEF IInv, TypeOK
    <3>2. QED BY <1>2, <2>0, <2>1, <3>1 DEF IInv, OnePlace
  <2>7. Index' = Index /\ Worker' = Worker
    BY DEF Index, Worker
  <2>8. QED BY <2>2, <2>3, <2>4, <2>5, <2>6, <2>7 DEF OnePlace
<1>5. Gathered'
  <2>1. i \notin yielded
    BY <1>2 DEF IInv, Gathered
  <2>2. yielded \subseteq Index /\ Index' = Index
    BY DEF IInv, TypeOK, FinishCheck, Index
  <2>3. QED BY <1>2, <2>1, <2>2 DEF IInv, Gathered, FinishCheck
<1>6. QED BY <1>3, <1>4, <1>5 DEF IInv

\* The main thread and the workers keep the invariant.
LEMMA NextPreserves == IInv /\ [Next]_vars => IInv'
<1> SUFFICES ASSUME IInv, [Next]_vars PROVE IInv'
  OBVIOUS
<1>1. CASE ReturnNothing \/ Return \/ RaiseOut
  <2>1. TypeOK'
    BY <1>1 DEF IInv, TypeOK, ReturnNothing, Return, RaiseOut, Index
  <2>2. OnePlace'
    BY <1>1 DEF IInv, OnePlace, ReturnNothing, Return, RaiseOut, Index
  <2>3. Gathered'
    BY <1>1 DEF IInv, Gathered, ReturnNothing, Return, RaiseOut, Index
  <2>4. QED BY <2>1, <2>2, <2>3 DEF IInv
<1>2. CASE UNCHANGED vars
  BY <1>2 DEF vars, IInv, TypeOK, OnePlace, Gathered, Index
<1>3. QED
  BY <1>1, <1>2, SubmitPreserves, CollectPreserves, StartPreserves, FinishPreserves
  DEF Next, Main, Work

\* Type correctness of the scan, for every list of ports and number of workers.
THEOREM TypeCorrect == Spec => []TypeOK
<1>1. IInv => TypeOK
  BY DEF IInv
<1>2. QED BY InitIInv, NextPreserves, <1>1, PTL DEF Spec

(***************************************************************************)
(* Refinement.  FinishCheck is the contract's Check; the three actions the *)
(* main thread ends with are its Answer; all others leave it unchanged.    *)
(***************************************************************************)
LEMMA InitRefines == Init => Contract!Init
BY PortsType DEF Init, Contract!Init, Contract!Pending, Contract!NoAnswer

\* Completing a check is a stutter of the contract.
LEMMA FinishRefines ==
    ASSUME IInv, NEW w \in Worker, FinishCheck(w)
    PROVE  Contract!Next
<1>1. running[w] \in DOMAIN ports
  BY Finished, PortsType DEF IInv, TypeOK
<1>2. Contract!Check(running[w])
  BY Finished DEF Contract!Check, FinishCheck, Outcomes, Contract!Outcomes
<1>3. QED BY <1>1, <1>2 DEF Contract!Next

\* When all futures are collected, the results are what the contract allows.
LEMMA ReturnRefines ==
    ASSUME IInv, ReturnNothing \/ Return
    PROVE  Contract!Next
<1>1. DOMAIN ports = Index
  BY PortsType DEF IInv, TypeOK
<1>2. yielded = Index /\ phase \in {"submitting", "collecting"}
  <2>1. CASE ReturnNothing
    BY <2>1, PortsType DEF ReturnNothing, IInv, TypeOK, Index
  <2>2. CASE Return
    BY <2>2 DEF Return
  <2>3. QED BY <2>1, <2>2
<1>3. \A i \in Index : future[i] \notin {"pending", "raises"} /\ results[i] = future[i]
  BY <1>2 DEF IInv, Gathered
<1>4. results = future
  BY <1>3 DEF IInv, TypeOK
<1>5. phase' = "returned" /\ UNCHANGED <<ports, future, results>>
  BY DEF ReturnNothing, Return
<1>6. Contract!Answer
  BY <1>1, <1>2, <1>3, <1>4, <1>5
  DEF Contract!Answer, Contract!NoAnswer, Contract!AllDone, Contract!Results
<1>7. QED BY <1>6 DEF Contract!Next

\* The scan raises only if a check did.
LEMMA RaiseRefines ==
    ASSUME IInv, RaiseOut
    PROVE  Contract!Next
<1>1. DOMAIN ports = Index
  BY PortsType DEF IInv, TypeOK
<1>2. \E i \in Index : future[i] = "raises"
  BY DEF IInv, Gathered, RaiseOut
<1>3. Contract!Answer
  BY <1>1, <1>2
  DEF RaiseOut, Shutdown, Contract!Answer, Contract!NoAnswer, Contract!AllDone, Contract!Raised
<1>4. QED BY <1>3 DEF Contract!Next

\* Every step is one of the contract or a stutter.
LEMMA NextRefines == IInv /\ [Next]_vars => [Contract!Next]_(Contract!cvars)
<1> SUFFICES ASSUME IInv, [Next]_vars PROVE [Contract!Next]_(Contract!cvars)
  OBVIOUS
<1>1. CASE Submit \/ \E i \in Index : Collect(i) \/ CollectRaises(i)
  BY <1>1 DEF Submit, Collect, CollectRaises, Completes, Contract!cvars
<1>2. ASSUME NEW w \in Worker, StartCheck(w) PROVE UNCHANGED Contract!cvars
  BY <1>2 DEF StartCheck, Contract!cvars
<1>3. CASE UNCHANGED vars
  BY <1>3 DEF vars, Contract!cvars
<1>4. QED
  BY <1>1, <1>2, <1>3, FinishRefines, ReturnRefines, RaiseRefines DEF Next, Main, Work

\* However the threads interleave, the scan does what its contract says.
THEOREM ScanImplementsContract == Spec => ImplementsContract
<1>1. Spec => []IInv
  BY InitIInv, NextPreserves, PTL DEF Spec
<1>2. QED
  BY <1>1, InitRefines, NextRefines, PTL DEF Spec, ImplementsContract, Contract!Spec

-----------------------------------------------------------------------------
(* The probe of a target (ExternalProbe). *)

\* The attempts there may be.
Attempts ==
    [tcp : BOOLEAN, method : {"none", "HEAD", "GET"}, status : Statuses \cup {0}, from : Nat,
     allow : Nat, body : Nat, tls : Nat, options : Nat, versions : Nat]

\* What was seen on one connection, and the handshake just before it.
Sound(a) ==
    /\ a \in Attempts /\ a.options = 0 /\ a.versions = 0
    /\ ~Answered(a) => a.from = 0 /\ a.allow = 0 /\ a.body = 0 /\ a.tls = 0
    /\ Answered(a) => /\ a.from \in 1..used
                      /\ a.body \in {0, a.from} /\ (a.body # 0 => a.method = "GET")
                      /\ a.tls \in {0, a.from, a.from - 1}
                      /\ a.allow \in {0, a.from}
                      /\ a.tls # 0 => target.scheme = "https"

\* The connections each phase has opened at most.
Opened ==
    /\ used \in Nat
    /\ probing = "connect" => used = 0
    /\ probing \in {"head_tls", "head_wait"} => used =< 1
    /\ probing = "head" => used =< 2
    /\ probing \in {"get_tls", "get_wait"} => used =< 3
    /\ probing = "get" => used =< 4
    /\ probing = "options" => used =< 5
    /\ probing = "versions" => used =< 6
    /\ used =< 10

\* The connections on which two attempts were answered.
Connections(a, b) == {x.from : x \in {y \in {a, b} : Answered(y)}}

\* HEAD and GET were answered on the connections that the attempts name, and a handshake
\* that is waiting for its request is the last connection.
Heard ==
    /\ Sound(head) /\ Sound(get)
    /\ answers = Connections(head, get)
    /\ tls \in {0, used} /\ (probing \in {"connect", "options", "versions", "done"} => tls = 0)
    /\ probing \in {"connect", "head_tls", "head_wait", "head"} => head = NoAttempt
    /\ probing \notin {"options", "versions", "done"} => get = NoAttempt /\ result = NoAttempt

\* The attempt to return is the better of the two, with what was added to it.
Settled ==
    probing \in {"options", "versions", "done"} =>
        /\ result \in Attempts
        /\ result.tls =< used /\ result.options =< used /\ result.versions =< used
        /\ result.versions # 0 => target.scheme = "https" /\ result.tls # 0
        /\ probing = "versions" => target.scheme = "https" /\ result.tls # 0
        /\ Answered(result) <=> Answered(head) \/ Answered(get)
        /\ probing # "done" => Answered(result)
        /\ ~Answered(result) => result.from = 0 /\ result.allow = 0 /\ result.body = 0 /\ result.tls = 0
        /\ Answered(result) => LET a == IF Answered(get) THEN get ELSE head IN
              /\ result.method = a.method /\ result.status = a.status /\ result.from = a.from
              /\ result.body = a.body /\ result.tls = a.tls
              /\ result.allow = IF a.allow # 0 THEN a.allow ELSE head.allow

ProbeIInv ==
    /\ target \in Targets
    /\ probing \in {"connect", "head_tls", "head_wait", "head", "get_tls", "get_wait", "get",
                    "options", "versions", "done"}
    /\ Opened /\ Heard /\ Settled

\* Nothing was seen by an attempt not made, or failed.
LEMMA NoAttemptSound == Sound(NoAttempt) /\ ~Answered(NoAttempt) /\ Sound(NoReply) /\ ~Answered(NoReply)
BY DEF Sound, NoAttempt, NoReply, Answered, Attempts

\* A probe that begins has seen nothing.
LEMMA ProbeInitIInv == ProbeInit => ProbeIInv
<1> SUFFICES ASSUME ProbeInit PROVE ProbeIInv
  OBVIOUS
<1>1. Heard
  <2>1. Connections(head, get) = {}
    BY NoAttemptSound DEF ProbeInit, Connections
  <2>2. QED BY <2>1, NoAttemptSound DEF ProbeInit, Heard
<1>2. QED BY <1>1 DEF ProbeInit, ProbeIInv, Opened, Settled

\* What an answer is turned into.
LEMMA AttemptIsSound ==
    ASSUME ProbeIInv, NEW method \in {"HEAD", "GET"}, NEW code \in Statuses,
           NEW allow \in BOOLEAN, NEW body \in BOOLEAN, NEW own \in BOOLEAN,
           NEW a, a = Attempt(method, code, allow, body, own), used' = used + 1, target' = target
    PROVE  Sound(a)' /\ Answered(a) /\ a.from = used + 1 /\ a.method = method
<1>1. used \in Nat /\ tls \in {0, used}
  BY DEF ProbeIInv, Opened, Heard
<1>s. target.scheme \in {"http", "https"}
  BY ProbeAssumption DEF ProbeAssumption, ProbeIInv
<1>2. PICK seen : seen = IF allow THEN used + 1 ELSE 0
  OBVIOUS
<1>3. PICK read : read = IF method = "GET" /\ body THEN used + 1 ELSE 0
  OBVIOUS
<1>4. PICK observed : observed = IF target.scheme = "http" THEN 0
                                 ELSE IF tls # 0 THEN tls ELSE IF own THEN used + 1 ELSE 0
  OBVIOUS
<1>5. a = [tcp |-> TRUE, method |-> method, status |-> code, from |-> used + 1, allow |-> seen,
           body |-> read, tls |-> observed, options |-> 0, versions |-> 0]
  BY <1>2, <1>3, <1>4 DEF Attempt, NoReply, NoAttempt
<1>6. /\ seen \in {0, used + 1} /\ read \in {0, used + 1} /\ (read # 0 => method = "GET")
      /\ observed \in {0, used, used + 1} /\ (observed # 0 => target.scheme = "https")
  BY <1>1, <1>2, <1>3, <1>4, <1>s
<1>7. code # 0
  BY ProbeAssumption DEF ProbeAssumption
<1>8. a \in Attempts
  BY <1>1, <1>5, <1>6 DEF Attempts
<1>9. /\ a.method = method /\ a.status = code /\ a.from = used + 1 /\ a.allow = seen
      /\ a.body = read /\ a.tls = observed /\ a.options = 0 /\ a.versions = 0
  BY <1>5
<1>10. Answered(a)
  BY <1>7, <1>9 DEF Answered
<1>11. Sound(a)'
  BY <1>1, <1>6, <1>8, <1>9, <1>10 DEF Sound, Answered
<1>12. QED BY <1>9, <1>10, <1>11

\* What a request ends with: a failure, or an answer on a connection of its own.
LEMMA TriedAttempt ==
    ASSUME ProbeIInv, NEW method \in {"HEAD", "GET"}, NEW attempt, Tried(method, attempt),
           used' = used + 1, target' = target
    PROVE  /\ Sound(attempt)' 
           /\ ~Answered(attempt) => answers' = answers
           /\ Answered(attempt) => attempt.from = used + 1 /\ attempt.method = method
                                   /\ answers' = answers \cup {used + 1}
<1>1. CASE attempt = NoReply /\ answers' = answers
  BY <1>1, NoAttemptSound DEF Sound, Answered, NoReply, NoAttempt, Attempts
<1>2. CASE \E code \in Statuses : \E allow, body, own \in BOOLEAN :
             /\ attempt = Attempt(method, code, allow, body, own)
             /\ answers' = answers \cup {used + 1}
  <2>1. PICK code \in Statuses, allow \in BOOLEAN, body \in BOOLEAN, own \in BOOLEAN :
             /\ attempt = Attempt(method, code, allow, body, own)
             /\ answers' = answers \cup {used + 1}
    BY <1>2
  <2>2. QED BY <2>1, AttemptIsSound
<1>3. QED BY <1>1, <1>2 DEF Tried

\* What was sound stays sound as connections are opened.
LEMMA SoundStays ==
    ASSUME NEW a, Sound(a), used \in Nat, used' \in Nat, used' >= used, target' = target
    PROVE  Sound(a)'
BY DEF Sound, Answered

\* The connections answered are those of the attempts that were.
LEMMA ConnectionsAre ==
    ASSUME NEW g, NEW h
    PROVE  /\ Answered(g) /\ Answered(h) => Connections(h, g) = {h.from, g.from}
           /\ Answered(g) /\ ~Answered(h) => Connections(h, g) = {g.from}
           /\ ~Answered(g) /\ Answered(h) => Connections(h, g) = {h.from}
           /\ ~Answered(g) /\ ~Answered(h) => Connections(h, g) = {}
BY DEF Connections

\* The steps before and between the requests.
LEMMA HandshakesKeep ==
    ASSUME ProbeIInv, Connect \/ ObserveTls \/ WantRead \/ HandshakeAgain
    PROVE  ProbeIInv'
<1> USE DEF ProbeIInv
<1>1. /\ used \in Nat /\ used' \in Nat /\ used' >= used /\ tls' \in {0, used'}
      /\ UNCHANGED <<target, head, get, result, answers>>
  <2>1. used \in Nat /\ tls \in {0, used} /\ (probing = "connect" => tls = 0)
    BY DEF Opened, Heard
  <2>2. CASE Connect
    BY <2>1, <2>2 DEF Connect
  <2>3. CASE ObserveTls
    BY <2>1, <2>3 DEF ObserveTls
  <2>4. CASE WantRead
    BY <2>1, <2>4 DEF WantRead
  <2>5. CASE HandshakeAgain
    BY <2>1, <2>5 DEF HandshakeAgain
  <2>6. QED BY <2>2, <2>3, <2>4, <2>5
<1>2. /\ probing' \in {"head_tls", "head_wait", "head", "get_tls", "get_wait", "get", "done"}
      /\ Opened'
      /\ probing \in {"connect", "head_tls", "head_wait", "get_tls", "get_wait"}
      /\ probing' \in {"head_tls", "head_wait", "head"} => head = NoAttempt
      /\ probing' = "done" => head = NoAttempt
  <2>1. CASE Connect
    BY <2>1 DEF Connect, Opened, Heard
  <2>2. CASE ObserveTls
    BY <2>2 DEF ObserveTls, Opened, Heard, Observing, Requesting
  <2>3. CASE WantRead
    BY <2>3 DEF WantRead, Opened, Heard, Observing
  <2>4. CASE HandshakeAgain
    BY <2>4 DEF HandshakeAgain, Opened, Heard
  <2>5. QED BY <2>1, <2>2, <2>3, <2>4
<1>h. get = NoAttempt /\ result = NoAttempt
  BY <1>2 DEF Heard
<1>3. Sound(head)' /\ Sound(get)'
  BY <1>1, SoundStays DEF Heard
<1>4. Heard'
  <2>1. answers' = Connections(head', get')
    BY <1>1 DEF Heard
  <2>2. probing' \in {"connect", "options", "versions", "done"} => tls' = 0
    BY <1>2 DEF Connect, Heard, ObserveTls, WantRead, HandshakeAgain, Observing, Requesting
  <2>3. QED BY <1>1, <1>2, <1>h, <1>3, <2>1, <2>2 DEF Heard
<1>5. Settled'
  <2>1. NoAttempt \in Attempts /\ NoAttempt.tls = 0 /\ NoAttempt.options = 0 /\ NoAttempt.versions = 0
        /\ NoAttempt.from = 0 /\ NoAttempt.allow = 0 /\ NoAttempt.body = 0 /\ ~Answered(NoAttempt)
    BY DEF NoAttempt, Attempts, Answered
  <2>2. result' = NoAttempt /\ get' = NoAttempt
    BY <1>1, <1>h
  <2>3. probing' = "done" => head' = NoAttempt
    BY <1>1, <1>2
  <2>4. probing' \notin {"options", "versions"}
    BY <1>2
  <2>5. QED BY <1>1, <2>1, <2>2, <2>3, <2>4 DEF Settled
<1>6. QED BY <1>1, <1>2, <1>4, <1>5

\* HEAD; its answer is the result unless a GET is wanted.
LEMMA TryHeadKeeps ==
    ASSUME ProbeIInv, TryHead
    PROVE  ProbeIInv'
<1> USE DEF ProbeIInv
<1>1. PICK attempt :
          /\ Tried("HEAD", attempt)
          /\ head' = attempt
          /\ IF Answered(attempt) /\ attempt.status \notin Fallback /\ ~RequiresBody(attempt)
             THEN result' = attempt /\ probing' = "options"
             ELSE /\ probing' = IF target.scheme = "https" THEN "get_tls" ELSE "get"
                  /\ UNCHANGED result
  BY DEF TryHead
<1>2. /\ probing = "head" /\ used' = used + 1 /\ tls' = 0 /\ UNCHANGED <<target, get>> /\ used \in Nat
      /\ get = NoAttempt /\ result = NoAttempt /\ head = NoAttempt /\ used =< 2
  BY DEF TryHead, Heard, Opened
<1>3. /\ Sound(attempt)'
      /\ ~Answered(attempt) => answers' = answers
      /\ Answered(attempt) => attempt.from = used + 1 /\ attempt.method = "HEAD"
                              /\ answers' = answers \cup {used + 1}
  BY <1>1, <1>2, TriedAttempt
<1>4. probing' \in {"get_tls", "get", "options"} /\ Opened' /\ target' \in Targets
  BY <1>1, <1>2 DEF Opened
<1>5. answers = {}
  BY <1>2, ConnectionsAre, NoAttemptSound DEF Heard
<1>6. answers' = Connections(attempt, NoAttempt)
  BY <1>3, <1>5, ConnectionsAre, NoAttemptSound
<1>7. Sound(get)'
  BY <1>2, SoundStays, NoAttemptSound
<1>8. Heard'
  <2>1. answers' = Connections(head', get')
    BY <1>1, <1>2, <1>6
  <2>2. probing' # "options" => result' = NoAttempt
    BY <1>1, <1>2
  <2>3. QED BY <1>1, <1>2, <1>3, <1>4, <1>7, <2>1, <2>2 DEF Heard
<1>9. Settled'
  <2>1. CASE probing' = "options"
    <3>1. Answered(attempt) /\ result' = attempt /\ head' = attempt /\ get' = NoAttempt
      BY <1>1, <1>2, <2>1
    <3>2. ~Answered(NoAttempt)
      BY NoAttemptSound
    <3>3. attempt \in Attempts /\ attempt.options = 0 /\ attempt.versions = 0 /\ attempt.tls \in Nat
          /\ attempt.tls \in {0, used', used' - 1}
      BY <1>2, <1>3, <3>1 DEF Sound, Attempts, Answered
    <3>4. QED BY <2>1, <3>1, <3>2, <3>3, <1>2 DEF Settled, Answered
  <2>2. QED BY <2>1, <1>4 DEF Settled
<1>10. QED BY <1>4, <1>8, <1>9

\* GET; the result is the better of the two attempts.
LEMMA TryGetKeeps ==
    ASSUME ProbeIInv, TryGet
    PROVE  ProbeIInv'
<1> USE DEF ProbeIInv
<1>1. PICK attempt :
          /\ Tried("GET", attempt)
          /\ get' = attempt
          /\ result' = Chosen(attempt, head)
          /\ probing' = IF Answered(result') THEN "options" ELSE "done"
  BY DEF TryGet
<1>2. /\ probing = "get" /\ used' = used + 1 /\ tls' = 0 /\ UNCHANGED <<target, head>> /\ used \in Nat
      /\ get = NoAttempt /\ used =< 4
  BY DEF TryGet, Heard, Opened
<1>3. /\ Sound(attempt)'
      /\ ~Answered(attempt) => answers' = answers
      /\ Answered(attempt) => attempt.from = used + 1 /\ attempt.method = "GET"
                              /\ answers' = answers \cup {used + 1}
  BY <1>1, <1>2, TriedAttempt
<1>4. probing' \in {"done", "options"} /\ Opened' /\ target' \in Targets
  BY <1>1, <1>2 DEF Opened
<1>5. Sound(head)'
  BY <1>2, SoundStays DEF Heard
<1>6. answers' = Connections(head, attempt)
  <2>1. answers = Connections(head, NoAttempt)
    BY <1>2 DEF Heard
  <2>2. ~Answered(NoAttempt)
    BY NoAttemptSound
  <2>3. CASE Answered(attempt) /\ Answered(head)
    <3>1. Connections(head, NoAttempt) = {head.from}
      BY <2>2, <2>3, ConnectionsAre
    <3>2. Connections(head, attempt) = {head.from, attempt.from}
      BY <2>3, ConnectionsAre
    <3>3. QED BY <1>3, <2>1, <2>3, <3>1, <3>2
  <2>4. CASE Answered(attempt) /\ ~Answered(head)
    <3>1. Connections(head, NoAttempt) = {}
      BY <2>2, <2>4, ConnectionsAre
    <3>2. Connections(head, attempt) = {attempt.from}
      BY <2>4, ConnectionsAre
    <3>3. QED BY <1>3, <2>1, <2>4, <3>1, <3>2
  <2>5. CASE ~Answered(attempt)
    <3>1. Connections(head, attempt) = Connections(head, NoAttempt)
      <4>1. CASE Answered(head)
        BY <2>2, <2>5, <4>1, ConnectionsAre
      <4>2. CASE ~Answered(head)
        BY <2>2, <2>5, <4>2, ConnectionsAre
      <4>3. QED BY <4>1, <4>2
    <3>2. QED BY <1>3, <2>1, <2>5, <3>1
  <2>6. QED BY <2>3, <2>4, <2>5
<1>7. Heard'
  <2>1. answers' = Connections(head', get')
    BY <1>1, <1>2, <1>6
  <2>2. QED BY <1>1, <1>2, <1>3, <1>4, <1>5, <2>1 DEF Heard
<1>8. Settled'
  <2>1. /\ attempt \in Attempts /\ head \in Attempts
        /\ attempt.options = 0 /\ attempt.versions = 0 /\ head.options = 0 /\ head.versions = 0
    BY <1>3, <1>2 DEF Heard, Sound
  <2>2. /\ attempt.tls \in Nat /\ attempt.tls =< used' /\ head.tls \in Nat /\ head.tls =< used'
    BY <1>2, <1>3, <2>1 DEF Heard, Sound, Attempts, Answered
  <2>3. CASE Answered(attempt)
    <3>1. PICK r : r = PreserveAllow(attempt, head)
      OBVIOUS
    <3>2. /\ r \in Attempts /\ r.method = attempt.method /\ r.status = attempt.status
          /\ r.from = attempt.from /\ r.body = attempt.body /\ r.tls = attempt.tls
          /\ r.options = 0 /\ r.versions = 0
          /\ r.allow = IF attempt.allow # 0 THEN attempt.allow ELSE head.allow
      BY <2>1, <3>1 DEF PreserveAllow, Attempts
    <3>3. result' = r /\ probing' = "options" /\ get' = attempt /\ head' = head
      BY <1>1, <1>2, <2>3, <3>1, <3>2 DEF Chosen, Answered
    <3>4. QED BY <1>2, <2>2, <2>3, <3>2, <3>3 DEF Settled, Answered
  <2>4. CASE ~Answered(attempt) /\ Answered(head)
    <3>1. result' = head /\ probing' = "options" /\ get' = attempt /\ head' = head
      BY <1>1, <1>2, <2>4 DEF Chosen
    <3>2. QED BY <1>2, <2>1, <2>2, <2>4, <3>1 DEF Settled, Answered
  <2>5. CASE ~Answered(attempt) /\ ~Answered(head)
    <3>1. result' = attempt /\ probing' = "done" /\ get' = attempt /\ head' = head
      BY <1>1, <1>2, <2>5 DEF Chosen
    <3>2. attempt.from = 0 /\ attempt.allow = 0 /\ attempt.body = 0 /\ attempt.tls = 0
      BY <1>3, <2>5 DEF Sound, Answered
    <3>3. QED BY <1>2, <2>1, <2>2, <2>5, <3>1, <3>2 DEF Settled, Answered
  <2>6. QED BY <2>3, <2>4, <2>5
<1>9. QED BY <1>4, <1>7, <1>8

\* What is added to the attempt leaves what was heard as it is.
LEMMA AdditionsKeep ==
    ASSUME ProbeIInv, TryOptions \/ EnrichTls
    PROVE  ProbeIInv'
<1> USE DEF ProbeIInv
<1>1. /\ probing \in {"options", "versions"} /\ probing' \in {"versions", "done"}
      /\ UNCHANGED <<target, head, get, answers>>
      /\ used \in Nat /\ used' \in Nat /\ used' >= used + 1
  BY DEF TryOptions, EnrichTls, Opened
<1>2. Opened'
  BY DEF TryOptions, EnrichTls, Opened
<1>3. /\ Sound(head)' /\ Sound(get)'
  BY <1>1, SoundStays DEF Heard
<1>4. tls' = 0
  BY <1>1 DEF TryOptions, EnrichTls, Heard
<1>5. Heard'
  <2>1. answers' = Connections(head', get')
    BY <1>1 DEF Heard
  <2>2. QED BY <1>1, <1>3, <1>4, <2>1 DEF Heard
<1>6. \/ \E n \in 0..used' : result' = [result EXCEPT !.options = n]
      \/ /\ \E n \in 0..used' : result' = [result EXCEPT !.versions = n]
         /\ target.scheme = "https" /\ result.tls # 0
  <2>1. CASE TryOptions
    BY <1>1, <2>1 DEF TryOptions
  <2>2. CASE EnrichTls
    <3>1. result' = [result EXCEPT !.versions = used + 1] /\ used + 1 \in 0..used'
      BY <1>1, <2>2 DEF EnrichTls
    <3>2. target.scheme = "https" /\ result.tls # 0
      BY <2>2 DEF EnrichTls, Settled
    <3>3. QED BY <3>1, <3>2
  <2>3. QED BY <2>1, <2>2
<1>7. /\ result \in Attempts
      /\ result.tls =< used' /\ result.options =< used' /\ result.versions =< used'
  BY <1>1 DEF Settled, Attempts
<1>8. /\ result' \in Attempts
      /\ result'.tls =< used' /\ result'.options =< used' /\ result'.versions =< used'
      /\ result'.versions # 0 => target.scheme = "https" /\ result.tls # 0
      /\ result'.status = result.status /\ result'.method = result.method /\ result'.from = result.from
      /\ result'.body = result.body /\ result'.tls = result.tls /\ result'.allow = result.allow
  BY <1>1, <1>6, <1>7 DEF Settled, Attempts
<1>9. probing' = "versions" => target.scheme = "https" /\ result.tls # 0
  BY DEF TryOptions, EnrichTls
<1>10. Answered(result)
  BY <1>1 DEF Settled
<1>11. Settled'
  BY <1>1, <1>8, <1>9, <1>10 DEF Settled, Answered
<1>12. QED BY <1>1, <1>2, <1>5, <1>11

\* The invariant says all that is claimed of a probe.
LEMMA ProbeIInvSound == ProbeIInv => ProbeIsSound
<1> SUFFICES ASSUME ProbeIInv PROVE ProbeIsSound
  OBVIOUS
<1> USE DEF ProbeIInv
<1>1. used \in 0..11 /\ tls \in 0..used
  BY DEF Opened, Heard
<1>2. /\ Answered(head) /\ Answered(get) => answers = {head.from, get.from}
      /\ Answered(get) /\ ~Answered(head) => answers = {get.from}
      /\ ~Answered(get) /\ Answered(head) => answers = {head.from}
      /\ ~Answered(get) /\ ~Answered(head) => answers = {}
  BY ConnectionsAre DEF Heard
<1>3. answers \subseteq 1..used
  BY <1>2 DEF Heard, Sound
<1>4. ASSUME NEW a, Sound(a)
      PROVE  /\ a.tcp \in BOOLEAN /\ a.method \in {"none", "HEAD", "GET"}
             /\ a.status \in Statuses \cup {0} /\ a.versions = 0
             /\ {a.from, a.allow, a.body, a.tls, a.options, a.versions} \subseteq 0..used
  <2>1. a.tcp \in BOOLEAN /\ a.method \in {"none", "HEAD", "GET"} /\ a.status \in Statuses \cup {0}
    BY <1>4 DEF Sound, Attempts
  <2>2. a.from \in 0..used /\ a.allow \in 0..used /\ a.body \in 0..used /\ a.tls \in 0..used
    BY <1>1, <1>4 DEF Sound, Attempts
  <2>3. a.options = 0 /\ a.versions = 0
    BY <1>4 DEF Sound
  <2>4. QED BY <1>1, <2>1, <2>2, <2>3
<1>5. /\ result.tcp \in BOOLEAN /\ result.method \in {"none", "HEAD", "GET"}
      /\ result.status \in Statuses \cup {0}
      /\ result.versions # 0 => target.scheme = "https" /\ result.tls # 0
      /\ {result.from, result.allow, result.body, result.tls, result.options, result.versions} \subseteq 0..used
  <2>1. CASE probing \notin {"options", "versions", "done"}
    BY <1>4, <2>1, NoAttemptSound DEF Heard
  <2>2. CASE probing \in {"options", "versions", "done"}
    <3>1. /\ result \in Attempts
          /\ result.tls =< used /\ result.options =< used /\ result.versions =< used
          /\ result.versions # 0 => target.scheme = "https" /\ result.tls # 0
      BY <2>2 DEF Settled
    <3>2. result.from \in 0..used /\ result.allow \in 0..used /\ result.body \in 0..used
      BY <1>1, <1>4, <2>2 DEF Settled, Heard
    <3>3. QED BY <3>1, <3>2, <1>1 DEF Attempts
  <2>3. QED BY <2>1, <2>2
<1>6. ProbeTypeOK
  BY <1>1, <1>3, <1>4, <1>5 DEF ProbeTypeOK, Heard
<1>7. ASSUME Done PROVE OneAnswer /\ AnswerIsReported /\ AllowIsKept
  <2>1. Answered(result) <=> Answered(head) \/ Answered(get)
    BY <1>7 DEF Settled, Done
  <2>2. PICK a : a = IF Answered(get) THEN get ELSE head
    OBVIOUS
  <2>3. ASSUME Answered(result)
        PROVE  /\ Answered(a) /\ Sound(a) /\ a.from \in answers
               /\ result.method = a.method /\ result.from = a.from
               /\ result.body = a.body /\ result.tls = a.tls
               /\ result.allow = IF a.allow # 0 THEN a.allow ELSE head.allow
    BY <1>2, <1>7, <2>1, <2>2, <2>3 DEF Settled, Heard, Done
  <2>4. OneAnswer
    <3>1. head.allow \in {0, head.from}
      BY DEF Heard, Sound
    <3>2. QED BY <2>3, <3>1 DEF Sound, OneAnswer
  <2>5. AnswerIsReported
    BY <1>2, <2>1, <2>2, <2>3 DEF AnswerIsReported
  <2>6. AllowIsKept
    <3>1. head.allow # 0 => Answered(head)
      BY DEF Heard, Sound
    <3>2. QED BY <2>1, <2>3, <3>1 DEF AllowIsKept
  <2>7. QED BY <2>4, <2>5, <2>6
<1>8. QED BY <1>6, <1>7 DEF ProbeIsSound, OneAnswer, AnswerIsReported, AllowIsKept

\* Whatever each connection brings, the report of a probe is of one answer.
THEOREM ProbesAreSound == ProbeSpec => []ProbeIsSound
<1>1. ProbeIInv /\ [ProbeNext]_probeVars => ProbeIInv'
  <2> SUFFICES ASSUME ProbeIInv, [ProbeNext]_probeVars PROVE ProbeIInv'
    OBVIOUS
  <2>1. CASE Connect \/ ObserveTls \/ WantRead \/ HandshakeAgain
    BY <2>1, HandshakesKeep
  <2>2. CASE TryHead
    BY <2>2, TryHeadKeeps
  <2>3. CASE TryGet
    BY <2>3, TryGetKeeps
  <2>4. CASE TryOptions \/ EnrichTls
    BY <2>4, AdditionsKeep
  <2>5. CASE UNCHANGED probeVars
    BY <2>5 DEF probeVars, ProbeIInv, Opened, Heard, Settled, Sound, Connections, Answered
  <2>6. QED BY <2>1, <2>2, <2>3, <2>4, <2>5 DEF ProbeNext
<1>2. QED BY ProbeInitIInv, <1>1, ProbeIInvSound, PTL DEF ProbeSpec

-----------------------------------------------------------------------------
(* The chain of redirects (RedirectChain). *)

\* A chain of hops leaves the host it started on, or https, at one of its redirects.
Crosses(h) == \E k \in DOMAIN h : h[k].location \in Url /\ HostOf[h[k].location] # HostOf[h[1].url]
Downgrades(h) == \E k \in DOMAIN h : h[k].location \in Url /\ h[k].location \notin HttpsUrl

\* The URLs visited are those of the hops, each once, and that of the current attempt.
Visited ==
    /\ \A u \in seenUrls : u = current.url \/ \E k \in DOMAIN hops : hops[k].url = u
    /\ current.url \in seenUrls /\ \A k \in DOMAIN hops : hops[k].url \in seenUrls
    /\ \A j, k \in DOMAIN hops : hops[j].url = hops[k].url => j = k

\* While the chain goes on the current attempt is the one after the last hop, and a new one.
GoesOn ==
    outcome \in {"following", "raised", "truncated"} =>
        \A k \in DOMAIN hops : /\ hops[k].location \in Url /\ hops[k].url # current.url
                               /\ hops[k].location = IF k < Len(hops) THEN hops[k + 1].url ELSE current.url

\* When it has ended it is the last hop, and says why.
Ended ==
    outcome \in {"answer", "unsupported", "loop"} =>
        /\ Len(hops) > 0 /\ hops[Len(hops)] = current
        /\ \A k \in DOMAIN hops : k < Len(hops) => hops[k].location = hops[k + 1].url
        /\ outcome = "answer" => current.location = NoLocation /\ final = current.url
        /\ outcome = "unsupported" => current.location \in Unsupported /\ final = current.location
        /\ outcome = "loop" => current.location \in seenUrls /\ final = current.location

ChainIInv ==
    /\ ChainTypeOK /\ Visited /\ GoesOn /\ Ended
    /\ cross <=> Crosses(hops)
    /\ mixed <=> Downgrades(hops)
    /\ outcome = "truncated" => Len(hops) = MaxHops

\* A chain begins with an attempt not recorded yet.
LEMMA ChainInitIInv == ChainInit => ChainIInv
<1> SUFFICES ASSUME ChainInit PROVE ChainIInv
  OBVIOUS
<1> USE ChainAssumption DEF ChainAssumption, ChainInit, Location
<1>1. current \in Reply /\ current.url \in Url
  BY DEF Reply
<1>2. hops = <<>> /\ hops \in Seq(Reply) /\ Len(hops) = 0 /\ DOMAIN hops = {}
  OBVIOUS
<1>3. ChainTypeOK
  <2>1. mixed \in BOOLEAN /\ cross \in BOOLEAN
    BY Zenon
  <2>2. seenUrls \subseteq Url /\ final \in Url \cup Unsupported /\ Len(hops) =< MaxHops
    BY <1>1, <1>2
  <2>3. QED BY <1>1, <1>2, <2>1, <2>2, Zenon DEF ChainTypeOK
<1>4. Visited /\ GoesOn /\ Ended
  BY <1>2 DEF Visited, GoesOn, Ended
<1>5. ~Crosses(hops) /\ ~Downgrades(hops)
  BY <1>2 DEF Crosses, Downgrades
<1>6. QED BY <1>3, <1>4, <1>5 DEF ChainIInv

\* The hops with the current attempt recorded.
LEMMA RecordedIs ==
    ASSUME ChainTypeOK
    PROVE  /\ Recorded \in Seq(Reply) /\ Len(Recorded) = Len(hops) + 1 /\ Len(hops) \in Nat
           /\ DOMAIN hops = 1..Len(hops) /\ DOMAIN Recorded = 1..(Len(hops) + 1)
           /\ \A k \in DOMAIN hops : Recorded[k] = hops[k] /\ hops[k] \in Reply
           /\ Recorded[Len(hops) + 1] = current /\ current \in Reply
BY DEF ChainTypeOK, Recorded

\* What recording it does to the flags.
LEMMA FlagsRecorded ==
    ASSUME ChainTypeOK
    PROVE  /\ Crosses(Recorded) <=> Crosses(hops) \/ (/\ current.location \in Url
                                                      /\ HostOf[current.location] # HostOf[SourceUrl])
           /\ Downgrades(Recorded) <=> Downgrades(hops) \/ (/\ current.location \in Url
                                                            /\ current.location \notin HttpsUrl)
<1>1. \A k \in DOMAIN hops : k \in DOMAIN Recorded /\ Recorded[k] = hops[k] /\ Recorded[1] = hops[1]
  BY RecordedIs
<1>2. \A k \in DOMAIN Recorded : k \in DOMAIN hops \/ Recorded[k] = current
  BY RecordedIs
<1>3. Len(hops) + 1 \in DOMAIN Recorded /\ Recorded[Len(hops) + 1] = current
  BY RecordedIs
<1>4. QED BY <1>1, <1>2, <1>3 DEF Crosses, Downgrades, SourceUrl

\* A step that ends the chain with the current attempt as its last hop.
LEMMA EndingKeeps ==
    ASSUME ChainIInv, Turn, EndAtAnswer \/ EndUnsupported \/ EndInLoop
    PROVE  ChainIInv'
<1> USE ChainAssumption DEF ChainAssumption, Location
<1>1. /\ ChainTypeOK /\ Visited /\ GoesOn /\ outcome = "following" /\ Len(hops) < MaxHops
      /\ cross <=> Crosses(hops)
      /\ mixed <=> Downgrades(hops)
  BY DEF ChainIInv, Turn
<1>2. /\ hops' = Recorded /\ UNCHANGED <<current, seenUrls>>
      /\ outcome' \in {"answer", "unsupported", "loop"}
      /\ outcome' = "answer" => current.location = NoLocation /\ final' = current.url
      /\ outcome' = "unsupported" => current.location \in Unsupported /\ final' = current.location
      /\ outcome' = "loop" => current.location \in seenUrls /\ final' = current.location
  BY DEF EndAtAnswer, EndUnsupported, EndInLoop
<1>3. cross' \in BOOLEAN /\ mixed' \in BOOLEAN
  <2>1. cross \in BOOLEAN /\ mixed \in BOOLEAN
    BY <1>1 DEF ChainTypeOK
  <2>2. CASE EndInLoop
    BY <2>2 DEF EndInLoop, Steps
  <2>3. CASE EndAtAnswer \/ EndUnsupported
    BY <2>1, <2>3, Zenon DEF EndAtAnswer, EndUnsupported
  <2>4. QED BY <2>2, <2>3
<1>4. ChainTypeOK'
  <2>1. final' \in Url \cup Unsupported
    BY <1>1, <1>2 DEF ChainTypeOK, Reply
  <2>2. hops' \in Seq(Reply) /\ Len(hops') =< MaxHops
    BY <1>1, <1>2, RecordedIs
  <2>3. current' \in Reply /\ seenUrls' \subseteq Url
        /\ outcome' \in {"following", "answer", "unsupported", "loop", "truncated", "raised"}
    BY <1>1, <1>2 DEF ChainTypeOK
  <2>4. QED BY <1>3, <2>1, <2>2, <2>3, Zenon DEF ChainTypeOK
<1>5. Visited'
  <2> DEFINE n == Len(hops)
  <2>1. /\ n \in Nat /\ DOMAIN hops = 1..n /\ DOMAIN hops' = 1..(n + 1)
        /\ \A k \in 1..n : hops'[k] = hops[k]
        /\ hops'[n + 1] = current
    BY <1>1, <1>2, RecordedIs
  <2>2. \A k \in 1..n : hops[k].url # current.url
    BY <1>1, <2>1 DEF GoesOn
  <2> HIDE DEF n
  <2>3. \A u \in seenUrls : \E k \in DOMAIN hops' : hops'[k].url = u
    BY <1>1, <2>1 DEF Visited
  <2>4. \A j, k \in DOMAIN hops' : hops'[j].url = hops'[k].url => j = k
    BY <1>1, <2>1, <2>2 DEF Visited
  <2>5. \A k \in DOMAIN hops' : hops'[k].url \in seenUrls
    BY <1>1, <2>1 DEF Visited
  <2>6. QED BY <1>1, <1>2, <2>3, <2>4, <2>5 DEF Visited
<1>6. Ended'
  <2>1. Len(hops') > 0 /\ hops'[Len(hops')] = current'
    BY <1>1, <1>2, RecordedIs
  <2>2. \A k \in DOMAIN hops' : k < Len(hops') => hops'[k].location = hops'[k + 1].url
    BY <1>1, <1>2, RecordedIs DEF GoesOn
  <2>3. QED BY <1>2, <2>1, <2>2 DEF Ended
<1>7. /\ cross' <=> Crosses(hops')
      /\ mixed' <=> Downgrades(hops')
  <2>1. CASE EndInLoop
    <3>1. current.location \in Url
      BY <1>1, <2>1 DEF EndInLoop, ChainTypeOK
    <3>2. Steps(current.location) /\ hops' = Recorded
      BY <2>1 DEF EndInLoop
    <3>3. QED BY <1>1, <3>1, <3>2, FlagsRecorded, Zenon DEF Steps
  <2>2. CASE EndAtAnswer \/ EndUnsupported
    <3>1. current.location \notin Url
      BY <2>2 DEF EndAtAnswer, EndUnsupported
    <3>2. UNCHANGED <<mixed, cross>> /\ hops' = Recorded
      BY <2>2, Zenon DEF EndAtAnswer, EndUnsupported
    <3>3. QED BY <1>1, <3>1, <3>2, FlagsRecorded, Zenon
  <2>3. QED BY <2>1, <2>2
<1>8. GoesOn' /\ outcome' # "truncated"
  BY <1>2 DEF GoesOn
<1>9. QED BY <1>4, <1>5, <1>6, <1>7, <1>8, Zenon DEF ChainIInv

\* A redirect to a new URL is followed.
LEMMA FollowKeeps ==
    ASSUME ChainIInv, Follow
    PROVE  ChainIInv'
<1> USE ChainAssumption DEF ChainAssumption, Location
<1>1. /\ ChainTypeOK /\ Visited /\ GoesOn /\ outcome = "following" /\ Len(hops) < MaxHops
      /\ cross <=> Crosses(hops)
      /\ mixed <=> Downgrades(hops)
  BY DEF ChainIInv, Follow, Turn
<1>2. /\ hops' = Recorded /\ current.location \in Url \ seenUrls /\ Steps(current.location)
      /\ seenUrls' = seenUrls \cup {current.location}
      /\ current' \in Reply /\ current'.url = current.location
      /\ outcome' = "following" /\ final' = final
  BY <1>1 DEF Follow, Probes
<1>3. ChainTypeOK'
  <2>1. cross' \in BOOLEAN /\ mixed' \in BOOLEAN
    BY <1>2 DEF Steps
  <2>2. hops' \in Seq(Reply) /\ Len(hops') =< MaxHops
    BY <1>1, <1>2, RecordedIs
  <2>3. seenUrls' \subseteq Url /\ final' \in Url \cup Unsupported
    BY <1>1, <1>2 DEF ChainTypeOK
  <2>4. QED BY <1>2, <2>1, <2>2, <2>3, Zenon DEF ChainTypeOK
<1>4. /\ Len(hops) \in Nat /\ DOMAIN hops = 1..Len(hops) /\ DOMAIN hops' = 1..(Len(hops) + 1)
      /\ \A k \in 1..Len(hops) : hops'[k] = hops[k]
      /\ hops'[Len(hops) + 1] = current /\ Len(hops') = Len(hops) + 1
  BY <1>1, <1>2, RecordedIs
<1>5. \A k \in 1..Len(hops) : hops[k].url # current.url
  BY <1>1, <1>4 DEF GoesOn
<1>6. Visited'
  <2> DEFINE n == Len(hops)
  <2>1. /\ n \in Nat /\ DOMAIN hops = 1..n /\ DOMAIN hops' = 1..(n + 1)
        /\ \A k \in 1..n : hops'[k] = hops[k]
        /\ hops'[n + 1] = current /\ \A k \in 1..n : hops[k].url # current.url
    BY <1>4, <1>5
  <2> HIDE DEF n
  <2>2. \A u \in seenUrls : \E k \in DOMAIN hops' : hops'[k].url = u
    BY <1>1, <2>1 DEF Visited
  <2>3. \A j, k \in DOMAIN hops' : hops'[j].url = hops'[k].url => j = k
    BY <1>1, <2>1 DEF Visited
  <2>4. \A k \in DOMAIN hops' : hops'[k].url \in seenUrls
    BY <1>1, <2>1 DEF Visited
  <2>5. QED BY <1>2, <2>2, <2>3, <2>4 DEF Visited
<1>7. GoesOn'
  <2>1. ASSUME NEW k \in DOMAIN hops'
        PROVE  /\ hops'[k].location \in Url /\ hops'[k].url # current'.url
               /\ hops'[k].location = IF k < Len(hops') THEN hops'[k + 1].url ELSE current'.url
    <3>1. CASE k \in 1..Len(hops)
      <4>1. /\ hops[k].location \in Url /\ hops[k].url \in seenUrls
            /\ hops[k].location = IF k < Len(hops) THEN hops[k + 1].url ELSE current.url
        BY <1>1, <1>4, <3>1 DEF GoesOn, Visited
      <4>2. QED BY <1>2, <1>4, <3>1, <4>1
    <3>2. CASE k = Len(hops) + 1
      BY <1>1, <1>2, <1>4, <3>2 DEF Visited
    <3>3. QED BY <1>4, <2>1, <3>1, <3>2
  <2>2. QED BY <2>1 DEF GoesOn
<1>8. /\ cross' <=> Crosses(hops')
      /\ mixed' <=> Downgrades(hops')
  BY <1>1, <1>2, FlagsRecorded, Zenon DEF Steps
<1>9. Ended' /\ outcome' # "truncated"
  BY <1>2 DEF Ended
<1>10. QED BY <1>3, <1>6, <1>7, <1>8, <1>9, Zenon DEF ChainIInv

\* The chain is cut off, or an exception leaves it: nothing more is recorded.
LEMMA StoppingKeeps ==
    ASSUME ChainIInv, EndRaising \/ Truncate
    PROVE  ChainIInv'
<1>1. /\ outcome = "following" /\ outcome' \in {"raised", "truncated"}
      /\ UNCHANGED <<hops, current, seenUrls>> /\ final' \in {final, current.url}
      /\ outcome' = "truncated" => Len(hops) = MaxHops
  BY DEF EndRaising, Truncate, Turn
<1>2. UNCHANGED <<mixed, cross>>
  BY Zenon DEF EndRaising, Truncate
<1>3. /\ ChainTypeOK /\ Visited /\ GoesOn
      /\ cross <=> Crosses(hops)
      /\ mixed <=> Downgrades(hops)
  BY DEF ChainIInv
<1>4. ChainTypeOK'
  <2>1. /\ hops' \in Seq(Reply) /\ Len(hops') =< MaxHops /\ current' \in Reply /\ seenUrls' \subseteq Url
        /\ outcome' \in {"following", "answer", "unsupported", "loop", "truncated", "raised"}
        /\ final' \in Url \cup Unsupported
    BY <1>1, <1>3 DEF ChainTypeOK, Reply
  <2>2. mixed' \in BOOLEAN /\ cross' \in BOOLEAN
    BY <1>2, <1>3, Zenon DEF ChainTypeOK
  <2>3. QED BY <2>1, <2>2, Zenon DEF ChainTypeOK
<1>5. Visited' /\ GoesOn' /\ Ended'
  BY <1>1, <1>3 DEF Visited, GoesOn, Ended
<1>6. /\ cross' <=> Crosses(hops')
      /\ mixed' <=> Downgrades(hops')
  BY <1>1, <1>2, <1>3, Zenon
<1>7. outcome' = "truncated" => Len(hops') = MaxHops
  BY <1>1
<1>8. QED BY <1>4, <1>5, <1>6, <1>7, Zenon DEF ChainIInv

\* The invariant says all that is claimed of a chain.
LEMMA ChainIInvTold == ChainIInv => ChainIsTold
<1> SUFFICES ASSUME ChainIInv PROVE ChainIsTold
  OBVIOUS
<1> USE ChainAssumption DEF ChainAssumption, Location
<1>1. /\ ChainTypeOK /\ Visited /\ GoesOn /\ Ended
      /\ cross <=> Crosses(hops)
      /\ mixed <=> Downgrades(hops)
      /\ outcome = "truncated" => Len(hops) = MaxHops
  BY DEF ChainIInv
<1>2. /\ Len(hops) \in Nat /\ DOMAIN hops = 1..Len(hops) /\ \A k \in DOMAIN hops : hops[k] \in Reply
      /\ Len(hops) > 0 => Len(hops) \in DOMAIN hops
      /\ outcome \in {"following", "answer", "unsupported", "loop", "truncated", "raised"}
  BY <1>1 DEF ChainTypeOK
<1>3. ChainIsLinked
  <2>1. CASE outcome \in {"following", "raised", "truncated"}
    BY <1>1, <1>2, <2>1 DEF ChainIsLinked, After, GoesOn
  <2>2. CASE outcome \in {"answer", "unsupported", "loop"}
    <3>1. ASSUME NEW k \in DOMAIN hops PROVE hops[k].location = NoLocation \/ hops[k].location = After(k)
      <4>1. CASE k < Len(hops)
        BY <1>1, <2>2, <3>1, <4>1 DEF After, Ended
      <4>2. CASE k = Len(hops)
        BY <1>1, <2>2, <4>2 DEF After, Ended
      <4>3. QED BY <1>2, <3>1, <4>1, <4>2
    <3>2. QED BY <3>1 DEF ChainIsLinked
  <2>3. QED BY <1>2, <2>1, <2>2, SMTT(60)
<1>4. LoopIsExact
  <2> DEFINE Back == /\ outcome # "following" /\ Len(hops) > 0
                     /\ hops[Len(hops)].location # NoLocation
                     /\ \E k \in DOMAIN hops : hops[k].url = hops[Len(hops)].location
  <2>1. CASE outcome = "loop"
    <3>1. hops[Len(hops)] = current /\ current.location \in seenUrls /\ Len(hops) > 0
      BY <1>1, <2>1, SMTT(60) DEF Ended
    <3>2. \E k \in DOMAIN hops : hops[k].url = current.location
      BY <1>1, <1>2, <3>1 DEF Visited
    <3>3. current.location # NoLocation
      BY <1>1, <3>1 DEF ChainTypeOK
    <3>4. Back
      BY <2>1, <3>1, <3>2, <3>3
    <3>5. QED BY <1>1, <2>1, <3>4 DEF LoopIsExact, Visited
  <2>2. CASE outcome \in {"answer", "unsupported"}
    <3>1. hops[Len(hops)].location \notin Url
      BY <1>1, <2>2, SMTT(60) DEF Ended
    <3>2. ~Back
      BY <1>2, <3>1, <1>1, <2>2 DEF Reply
    <3>3. QED BY <1>1, <2>2, <3>2 DEF LoopIsExact, Visited
  <2>3. CASE outcome \in {"following", "raised", "truncated"}
    <3>1. ~Back
      <4>1. \A k \in DOMAIN hops : hops[k].url # current.url
        BY <1>1, <2>3 DEF GoesOn
      <4>2. Len(hops) > 0 => hops[Len(hops)].location = current.url
        <5>1. CASE Len(hops) > 0
          <6>1. PICK n \in DOMAIN hops : n = Len(hops) /\ n \in Nat
            BY <1>2, <5>1
          <6>2. hops[n].location = IF n < Len(hops) THEN hops[n + 1].url ELSE current.url
            BY <1>1, <2>3 DEF GoesOn
          <6>3. QED BY <6>1, <6>2
        <5>2. QED BY <5>1
      <4>3. QED BY <4>1, <4>2, Zenon
    <3>2. QED BY <1>1, <2>3, <3>1 DEF LoopIsExact, Visited
  <2>4. QED BY <1>2, <2>1, <2>2, <2>3
<1>5. FlagsTellTheChain
  <2> DEFINE targets == {hops[k].location : k \in DOMAIN hops} \cap Url
  <2>1. Crosses(hops) <=> \E u \in targets : HostOf[u] # HostOf[hops[1].url]
    BY DEF Crosses
  <2>2. Downgrades(hops) <=> \E u \in targets : u \notin HttpsUrl
    BY DEF Downgrades
  <2>3. /\ cross <=> \E u \in targets : HostOf[u] # HostOf[hops[1].url]
        /\ mixed <=> \E u \in targets : u \notin HttpsUrl
    <3> HIDE DEF targets
    <3>1. QED BY <1>1, <2>1, <2>2, Zenon
  <2>4. QED BY <2>3, Zenon DEF FlagsTellTheChain
<1>6. EndSaysWhy
  BY <1>1 DEF EndSaysWhy, Ended, GoesOn
<1>7. QED BY <1>1, <1>3, <1>4, <1>5, <1>6 DEF ChainIsTold

\* For every set of URLs, every limit of hops and whatever the servers answer.
THEOREM ChainsAreTold == ChainSpec => []ChainIsTold
<1>1. ChainIInv /\ [ChainNext]_chainVars => ChainIInv'
  <2> SUFFICES ASSUME ChainIInv, [ChainNext]_chainVars PROVE ChainIInv'
    OBVIOUS
  <2>1. CASE EndAtAnswer \/ EndUnsupported \/ EndInLoop
    BY <2>1, EndingKeeps DEF EndAtAnswer, EndUnsupported, EndInLoop
  <2>2. CASE Follow
    BY <2>2, FollowKeeps
  <2>3. CASE EndRaising \/ Truncate
    BY <2>3, StoppingKeeps
  <2>4. CASE UNCHANGED chainVars
    <3>1. UNCHANGED <<hops, current, seenUrls, mixed, cross, outcome, final>>
      BY <2>4 DEF chainVars
    <3>2. QED
      BY <3>1, ZenonT(60) DEF ChainIInv, ChainTypeOK, Visited, GoesOn, Ended, Crosses, Downgrades
  <2>5. QED BY <2>1, <2>2, <2>3, <2>4 DEF ChainNext
<1>2. QED BY ChainInitIInv, <1>1, ChainIInvTold, PTL DEF ChainSpec

-----------------------------------------------------------------------------
(* The inventory of TLS endpoints (TlsInventory). *)

\* The handshake with OpenSSL shows what the endpoint is.
LEMMA FromOpensslIs ==
    ASSUME NEW server, NEW info, info = FromOpenssl(server)
    PROVE  /\ info.protocol = server.protocol /\ info.cipher = server.cipher
           /\ info.subject = Leaf(server).subject /\ info.issuer = Leaf(server).issuer
           /\ info.notAfter = server.notAfter /\ info.san = server.san
           /\ info.scts = server.scts /\ info.mustStaple = server.mustStaple
           /\ info.ocsp = Truth(server.staples) /\ info.renegotiation = Truth(server.renegotiation)
           /\ info.compression = IF server.compresses THEN "zlib" ELSE "none"
           /\ info.aead = Truth(server.cipher \in {"ECDHE-GCM", "RSA-GCM", "TLS-GCM"})
BY DEF FromOpenssl, FromSocket

\* It shows the chain as well.
LEMMA ChainIsSent ==
    ASSUME NEW server, NEW info, info = FromOpenssl(server)
    PROVE  info.chain = [k \in DOMAIN server.chain |->
                            [selfSigned |-> server.chain[k].subject = server.chain[k].issuer,
                             weak |-> server.chain[k].weak]]
BY DEF FromOpenssl, FromSocket

\* What the other handshakes of an entry add to it.
LEMMA ObservedIs ==
    ASSUME NEW server, NEW lost, NEW spoken, NEW info, info = Observed(server, lost, spoken),
           NEW first, first = FromOpenssl(server)
    PROVE  /\ info.supported = spoken
           /\ info.trusted = IF "chain" \in lost THEN "unknown" ELSE ChainAnswer(server, Today)
           /\ info.order = IF "order" \in lost \/ "TLSv1.2" \notin server.versions THEN "unknown"
                           ELSE Truth(server.ordered)
           /\ info.ocsp = IF "ocsp" \in lost THEN Truth(server.staples) ELSE "yes"
           /\ info.depth = IF "depth" \in lost THEN 0 ELSE Len(server.chain)
           /\ info.protocol = first.protocol /\ info.cipher = first.cipher
           /\ info.subject = first.subject /\ info.issuer = first.issuer
           /\ info.notAfter = first.notAfter /\ info.san = first.san
           /\ info.scts = first.scts /\ info.mustStaple = first.mustStaple
           /\ info.renegotiation = first.renegotiation /\ info.compression = first.compression
           /\ info.aead = first.aead /\ info.chain = first.chain
<1>1. first.ocsp = Truth(server.staples)
  BY FromOpensslIs
<1>2. first.ocsp = Truth(server.staples) /\ info = Observed(server, lost, spoken)
  BY <1>1
<1>3. QED BY <1>2 DEF Observed, CallbackAnswer, FromOpenssl, FromSocket

\* What is seen of an entry, other handshakes or not, is what the endpoint is.
LEMMA SeenIs ==
    ASSUME NEW server, NEW lost, NEW spoken, NEW info, info = Observed(server, lost, spoken)
    PROVE  /\ info.protocol = server.protocol /\ info.cipher = server.cipher
           /\ info.subject = Leaf(server).subject /\ info.issuer = Leaf(server).issuer
           /\ info.notAfter = server.notAfter /\ info.san = server.san /\ info.scts = server.scts
           /\ info.renegotiation = Truth(server.renegotiation)
           /\ info.compression = IF server.compresses THEN "zlib" ELSE "none"
           /\ info.aead = Truth(server.cipher \in {"ECDHE-GCM", "RSA-GCM", "TLS-GCM"})
<1>1. PICK first : first = FromOpenssl(server)
  OBVIOUS
<1>2. /\ first.protocol = server.protocol /\ first.cipher = server.cipher
      /\ first.subject = Leaf(server).subject /\ first.issuer = Leaf(server).issuer
      /\ first.notAfter = server.notAfter /\ first.san = server.san /\ first.scts = server.scts
      /\ first.renegotiation = Truth(server.renegotiation)
      /\ first.compression = IF server.compresses THEN "zlib" ELSE "none"
      /\ first.aead = Truth(server.cipher \in {"ECDHE-GCM", "RSA-GCM", "TLS-GCM"})
  BY <1>1, FromOpensslIs, ZenonT(60)
<1>3. /\ info.protocol = first.protocol /\ info.cipher = first.cipher
      /\ info.subject = first.subject /\ info.issuer = first.issuer
      /\ info.notAfter = first.notAfter /\ info.san = first.san /\ info.scts = first.scts
      /\ info.renegotiation = first.renegotiation
      /\ info.compression = first.compression /\ info.aead = first.aead
  BY <1>1, ObservedIs
<1>4. QED BY <1>2, <1>3

\* A wildcard covers what a certificate with it holds for.
LEMMA CoveringIs ==
    ASSUME NEW entry \in Seq(STRING) \ {<<>>}, NEW name \in Seq(STRING) \ {<<>>}
    PROVE  Covers(entry, name) <=>
               /\ Len(entry) = Len(name)
               /\ \A k \in 1 .. Len(name) : entry[k] = name[k] \/ (k = 1 /\ entry[k] = "*")
<1>1. Len(entry) \in Nat /\ Len(name) \in Nat /\ Len(entry) >= 1 /\ Len(name) >= 1
  OBVIOUS
<1>2. /\ Len(Tail(entry)) = Len(entry) - 1 /\ \A k \in 1 .. Len(entry) - 1 : Tail(entry)[k] = entry[k + 1]
      /\ Len(Tail(name)) = Len(name) - 1 /\ \A k \in 1 .. Len(name) - 1 : Tail(name)[k] = name[k + 1]
      /\ Head(entry) = entry[1]
      /\ Tail(entry) \in Seq(STRING) /\ Tail(name) \in Seq(STRING)
  <2>1. ASSUME NEW s \in Seq(STRING), s # <<>>
        PROVE  /\ Tail(s) \in Seq(STRING) /\ Len(Tail(s)) = Len(s) - 1 /\ Head(s) = s[1]
               /\ \A k \in 1 .. Len(s) - 1 : Tail(s)[k] = s[k + 1]
    <3>1. /\ Tail(s) \in Seq(STRING) /\ Len(Tail(s)) = Len(s) - 1
          /\ \A k \in 1 .. Len(Tail(s)) : Tail(s)[k] = s[k + 1]
      BY <2>1, HeadTailProperties, Zenon
    <3>2. Head(s) = s[1]
      BY <2>1
    <3>3. QED BY <3>1, <3>2
  <2>2. QED BY <2>1
<1>3. ASSUME Covers(entry, name)
      PROVE  /\ Len(entry) = Len(name)
             /\ \A k \in 1 .. Len(name) : entry[k] = name[k] \/ (k = 1 /\ entry[k] = "*")
  <2>1. CASE entry = name
    BY <2>1
  <2>2. CASE Head(entry) = "*" /\ Tail(entry) = Tail(name)
    <3>1. Len(entry) = Len(name)
      <4>1. Len(entry) - 1 = Len(name) - 1
        BY <1>2, <2>2, Zenon
      <4>2. QED BY <1>1, <4>1
    <3>2. ASSUME NEW k \in 1 .. Len(name), k # 1
          PROVE  entry[k] = name[k]
      <4>1. k - 1 \in 1 .. Len(name) - 1 /\ (k - 1) + 1 = k
        BY <1>1, <3>2
      <4>2. Tail(entry)[k - 1] = entry[k] /\ Tail(name)[k - 1] = name[k]
        BY <1>2, <3>1, <4>1
      <4>3. QED BY <2>2, <4>2
    <3>3. QED BY <1>2, <2>2, <3>1, <3>2
  <2>3. QED BY <1>3, <2>1, <2>2 DEF Covers
<1>4. ASSUME Len(entry) = Len(name),
             \A k \in 1 .. Len(name) : entry[k] = name[k] \/ (k = 1 /\ entry[k] = "*")
      PROVE  Covers(entry, name)
  <2>1. CASE entry[1] = name[1]
    <3>1. \A k \in 1 .. Len(name) : entry[k] = name[k]
      BY <1>4, <2>1
    <3>2. entry = name
      BY <1>4, <3>1, SMTT(60)
    <3>3. QED BY <3>2 DEF Covers
  <2>2. CASE entry[1] = "*"
    <3>1. \A k \in 1 .. Len(name) - 1 : Tail(entry)[k] = Tail(name)[k]
      <4>1. SUFFICES ASSUME NEW k \in 1 .. Len(name) - 1
                     PROVE  Tail(entry)[k] = Tail(name)[k]
        OBVIOUS
      <4>2. k + 1 \in 1 .. Len(name) /\ k + 1 # 1 /\ k \in 1 .. Len(entry) - 1
        BY <1>1, <1>4
      <4>3. entry[k + 1] = name[k + 1]
        BY <1>4, <4>2
      <4>4. QED BY <1>2, <4>2, <4>3
    <3>2. Tail(entry) = Tail(name)
      <4>1. Len(Tail(entry)) = Len(Tail(name))
        BY <1>2, <1>4
      <4>2. \A k \in 1 .. Len(Tail(entry)) : Tail(entry)[k] = Tail(name)[k]
        BY <1>2, <1>4, <3>1
      <4>3. QED BY <1>2, <4>1, <4>2, SeqEqual, Zenon
    <3>3. QED BY <1>2, <2>2, <3>2 DEF Covers
  <2>3. QED
    BY <1>1, <1>4, <2>1, <2>2
<1>5. QED BY <1>3, <1>4

\* The names of an entry have labels.
LEMMA OwnNamesAre ==
    ASSUME InventoryAssumption, NEW i \in DOMAIN Entries
    PROVE  /\ OwnNames(Entries[i]) \subseteq Seq(STRING) \ {NoName}
           /\ ComparedNames(Entries[i]) = OwnNames(Entries[i])
           /\ ExpectedNames(Entries[i]) \in {{}, OwnNames(Entries[i])}
           /\ Entries[i].notApplicable \subseteq Kinds
<1>1. Entries[i] \in EntryType
  BY DEF InventoryAssumption
<1>2. Shown(Entries[i]) \in Seq(STRING) \ {NoName}
  BY <1>1 DEF Shown, EntryType
<1>3. OwnNames(Entries[i]) \subseteq Seq(STRING) \ {NoName}
  BY <1>1, <1>2 DEF OwnNames, EntryType
<1>4. QED BY <1>1, <1>3 DEF OwnNames, ComparedNames, ExpectedNames, EntryType

\* A certificate that holds for a name has a DNS name that covers it, or an address.
LEMMA NamingIs ==
    ASSUME NEW server, IsServer(server), NEW name \in Seq(STRING) \ {<<>>}
    PROVE  /\ (\E entry \in server.san : Covers(entry, name)) => Named(server, name)
           /\ Named(server, name) => name \in IpLiterals \/ \E entry \in server.san : Covers(entry, name)
<1>1. server.san \subseteq Seq(STRING) \ {<<>>} /\ server.addresses \subseteq IpLiterals
  BY DEF IsServer
<1>2. \A entry \in server.san :
          Covers(entry, name) <=>
               /\ Len(entry) = Len(name)
               /\ \A k \in 1 .. Len(name) : entry[k] = name[k] \/ (k = 1 /\ entry[k] = "*")
  BY <1>1, CoveringIs
<1>3. QED BY <1>1, <1>2 DEF Named

\* What each rule is about.
LEMMA RequirementsAre ==
    /\ \A rule \in {"cert_chain_incomplete", "cert_chain_length_unusual", "certificate_expired",
                    "certificate_expires_soon", "tls_certificate_self_signed",
                    "tls_ct_log_evidence_missing", "tls_weak_signature_algorithm"} :
           RequirementOf(rule) = "certificate_chain"
    /\ RequirementOf("cert_san_mismatch") = "certificate_name"
    /\ \A rule \in {"ocsp_stapling_not_observed", "tls_must_staple_not_observed"} :
           RequirementOf(rule) = "ocsp_stapling"
    /\ \A rule \in {"tls_1_0_supported", "tls_1_1_supported", "tls_1_3_not_supported"} :
           RequirementOf(rule) = "protocol_support"
    /\ \A rule \in {"weak_cipher_suite", "tls_forward_secrecy_not_observed",
                    "tls_server_cipher_preference_not_observed", "tls_secure_renegotiation_not_observed",
                    "tls_negotiated_compression", "tls_aead_cipher_not_negotiated"} :
           RequirementOf(rule) = "negotiated_cipher"
BY DEF RequirementOf

\* What is seen of the chain is the chain.
LEMMA LeafIs ==
    ASSUME NEW server, IsServer(server), NEW lost, NEW spoken,
           NEW info, info = Observed(server, lost, spoken)
    PROVE  /\ LeafSelfSigned(info) <=> Leaf(server).subject = Leaf(server).issuer
           /\ DOMAIN info.chain = DOMAIN server.chain
           /\ \A k \in DOMAIN server.chain :
                 /\ info.chain[k].weak <=> server.chain[k].weak
                 /\ info.chain[k].selfSigned <=> server.chain[k].subject = server.chain[k].issuer
<1>1. PICK first : first = FromOpenssl(server)
  OBVIOUS
<1>2. info.chain = [k \in DOMAIN server.chain |->
                       [selfSigned |-> server.chain[k].subject = server.chain[k].issuer,
                        weak |-> server.chain[k].weak]]
  BY <1>1, ChainIsSent, ObservedIs
<1>3. 1 \in DOMAIN server.chain
  BY DEF IsServer
<1>4. \A k \in DOMAIN server.chain :
         /\ info.chain[k].weak = server.chain[k].weak
         /\ info.chain[k].selfSigned = (server.chain[k].subject = server.chain[k].issuer)
  BY <1>2
<1>5. DOMAIN info.chain = DOMAIN server.chain /\ info.chain # <<>>
  BY <1>2, <1>3
<1>6. LeafSelfSigned(info) <=> info.chain[1].selfSigned
  BY <1>5, Zenon DEF LeafSelfSigned
<1>7. QED BY <1>3, <1>4, <1>5, <1>6, Zenon DEF Leaf

\* What a rule that is about a required kind of evidence would report is reported when
\* that kind counts as observed.
LEMMA DeservedIsFound ==
    ASSUME InventoryAssumption, NEW i \in DOMAIN Entries, NEW server \in Servers,
           NEW lost, NEW spoken \in Spoken(server, lost),
           NEW info, info = Observed(server, lost, spoken),
           NEW rule \in Deserved(server, OwnNames(Entries[i])),
           ObservationOf(RequirementOf(rule), Entries[i], info) = "observed",
           RequirementOf(rule) # "ocsp_stapling",
           RequirementOf(rule) = "protocol_support" => "versions" \notin lost
    PROVE  rule \in EntryFindings(Entries[i], info)
<1>1. PICK first : first = FromOpenssl(server)
  OBVIOUS
<1>2. SUFFICES rule \in TimelessFindings(info, OwnNames(Entries[i]))
  BY OwnNamesAre DEF EntryFindings
<1>3. /\ info.subject = Leaf(server).subject /\ info.issuer = Leaf(server).issuer
      /\ info.cipher = server.cipher /\ info.scts = server.scts /\ info.san = server.san
  BY SeenIs
<1>4. CASE rule = "tls_certificate_self_signed"
  <2>1. Leaf(server).subject = Leaf(server).issuer
    BY <1>4 DEF Deserved
  <2>2. QED BY <1>3, <1>4, <2>1 DEF TimelessFindings, tls_certificate_self_signed
<1>5. CASE rule \in {"tls_1_0_supported", "tls_1_1_supported", "tls_1_3_not_supported"}
  <2>1. RequirementOf(rule) = "protocol_support"
    BY <1>5, RequirementsAre
  <2>2. SupportState(info) = "observed"
    BY <2>1 DEF ObservationOf
  <2>3. info.supported = server.versions /\ info.supported # {}
    BY <1>1, <2>1, <2>2, ObservedIs DEF SupportState, Spoken
  <2>4. CASE rule = "tls_1_0_supported"
    <3>1. "TLSv1" \in server.versions
      BY <2>4 DEF Deserved
    <3>2. QED BY <2>3, <2>4, <3>1 DEF TimelessFindings, tls_1_0_supported
  <2>5. CASE rule = "tls_1_1_supported"
    <3>1. "TLSv1.1" \in server.versions
      BY <2>5 DEF Deserved
    <3>2. QED BY <2>3, <2>5, <3>1 DEF TimelessFindings, tls_1_1_supported
  <2>6. CASE rule = "tls_1_3_not_supported"
    <3>1. "TLSv1.3" \notin server.versions
      BY <2>6 DEF Deserved
    <3>2. QED BY <2>3, <2>6, <3>1 DEF TimelessFindings, tls_1_3_not_supported
  <2>7. QED BY <1>5, <2>4, <2>5, <2>6
<1>6. CASE rule = "weak_cipher_suite"
  <2>1. server.cipher = "RC4"
    BY <1>6 DEF Deserved
  <2>2. QED BY <1>3, <1>6, <2>1 DEF TimelessFindings, weak_cipher_suite
<1>7. CASE rule = "tls_server_cipher_preference_not_observed"
  <2>1. "TLSv1.2" \in server.versions /\ ~server.ordered
    BY <1>7 DEF Deserved
  <2>2. Negotiated(info) = "observed"
    BY <1>7, RequirementsAre DEF ObservationOf
  <2>3. info.order = Truth(server.ordered)
    BY <1>1, <2>1, <2>2, ObservedIs DEF Negotiated
  <2>4. info.order = "no"
    BY <2>1, <2>3 DEF Truth
  <2>5. QED BY <1>7, <2>4 DEF TimelessFindings, tls_server_cipher_preference_not_observed
<1>8. CASE rule = "cert_chain_incomplete"
  <2>1. ~server.trusted
    BY <1>8 DEF Deserved
  <2>2. StateOf(info.trusted) = "observed"
    BY <1>8, RequirementsAre DEF ObservationOf
  <2>3. info.trusted = "yes"
    BY <1>1, <2>2, ObservedIs DEF StateOf, ChainAnswer, Truth
  <2>4. info.trusted \in {"unknown", "no"}
    BY <1>1, <2>1, ObservedIs DEF ChainAnswer, Truth
  <2>5. QED BY <2>3, <2>4
<1>9. CASE rule = "tls_ct_log_evidence_missing"
  <2>1. Leaf(server).subject # Leaf(server).issuer /\ ~server.scts
    BY <1>9 DEF Deserved
  <2>2. ~LeafSelfSigned(info)
    BY <1>1, <2>1, LeafIs DEF Leaf, InventoryAssumption
  <2>3. QED BY <1>3, <1>9, <2>1, <2>2 DEF TimelessFindings, tls_ct_log_evidence_missing
<1>10. CASE rule = "tls_weak_signature_algorithm"
  <2>1. /\ Leaf(server).subject # Leaf(server).issuer
        /\ \E k \in DOMAIN server.chain : server.chain[k].weak /\ server.chain[k].subject # server.chain[k].issuer
    BY <1>10 DEF Deserved
  <2>2. ~LeafSelfSigned(info)
    BY <1>1, <2>1, LeafIs DEF Leaf, InventoryAssumption
  <2>3. \E k \in DOMAIN info.chain : info.chain[k].weak /\ ~info.chain[k].selfSigned
    BY <2>1, LeafIs DEF InventoryAssumption
  <2>4. QED BY <1>10, <2>2, <2>3 DEF TimelessFindings, tls_weak_signature_algorithm
<1>11. CASE rule = "cert_san_mismatch"
  <2>1. PICK name \in OwnNames(Entries[i]) : ~Named(server, name)
    BY <1>11 DEF Deserved
  <2>2. NameState(Entries[i], info) = "observed"
    BY <1>11, RequirementsAre DEF ObservationOf
  <2>3. AllCovered(OwnNames(Entries[i]), info.san)
    BY <2>2, OwnNamesAre DEF NameState
  <2>4. PICK entry \in server.san : Covers(entry, name)
    BY <1>3, <2>1, <2>3 DEF AllCovered
  <2>5. name \in Seq(STRING) \ {<<>>}
    BY <2>1, OwnNamesAre DEF NoName
  <2>6. QED BY <2>1, <2>4, <2>5, NamingIs DEF InventoryAssumption
<1>12. rule # "ocsp_stapling_not_observed"
  BY RequirementsAre
<1>13. QED
  <2>1. rule \in {"tls_certificate_self_signed", "tls_1_0_supported", "tls_1_1_supported",
                  "tls_1_3_not_supported", "weak_cipher_suite", "ocsp_stapling_not_observed",
                  "cert_chain_incomplete", "tls_ct_log_evidence_missing",
                  "tls_weak_signature_algorithm", "cert_san_mismatch",
                  "tls_server_cipher_preference_not_observed"}
    BY DEF Deserved
  <2>2. QED BY <1>4, <1>5, <1>6, <1>7, <1>8, <1>9, <1>10, <1>11, <1>12, <2>1

\* The same of an expiry and of an outdated connection, for which several rules speak.
LEMMA WrongIsFound ==
    ASSUME InventoryAssumption, NEW i \in DOMAIN Entries, servers[i] \in Servers,
           NEW lost, NEW spoken \in Spoken(servers[i], lost),
           NEW info, info = Observed(servers[i], lost, spoken),
           NEW requirement, Wrong(i, requirement),
           ObservationOf(requirement, Entries[i], info) = "observed",
           requirement # "ocsp_stapling",
           requirement = "protocol_support" => "versions" \notin lost
    PROVE  \E rule \in EntryFindings(Entries[i], info) : RequirementOf(rule) = requirement
<1>1. PICK first : first = FromOpenssl(servers[i])
  OBVIOUS
<1>2. /\ info.protocol = servers[i].protocol /\ info.cipher = servers[i].cipher
      /\ info.notAfter = servers[i].notAfter
      /\ info.renegotiation = Truth(servers[i].renegotiation)
      /\ info.compression = IF servers[i].compresses THEN "zlib" ELSE "none"
      /\ info.aead = Truth(servers[i].cipher \in {"ECDHE-GCM", "RSA-GCM", "TLS-GCM"})
  BY SeenIs
<1>3. CASE \E rule \in Deserved(servers[i], OwnNames(Entries[i])) : RequirementOf(rule) = requirement
  BY <1>3, DeservedIsFound
<1>4. CASE requirement = "certificate_chain" /\ servers[i].notAfter - Today <= Soon
  <2>1. StateOf(info.trusted) = "observed"
    BY <1>4 DEF ObservationOf
  <2>2. info.trusted = "yes"
    BY <1>1, <2>1, ObservedIs DEF StateOf, ChainAnswer, Truth
  <2>3. ~(servers[i].notAfter < Today)
    BY <1>1, <2>2, ObservedIs DEF ChainAnswer
  <2>4. servers[i].notAfter \in Int /\ Today \in Int
    BY DEF InventoryAssumption, IsServer
  <2>5. certificate_expires_soon(info, Today)
    BY <1>2, <1>4, <2>3, <2>4 DEF certificate_expires_soon
  <2>6. "certificate_expires_soon" \in EntryFindings(Entries[i], info)
    BY <2>5 DEF EntryFindings
  <2>7. QED BY <1>4, <2>6, RequirementsAre
<1>5. CASE requirement = "negotiated_cipher" /\ Outdated(servers[i])
  <2>1. \E rule \in {"tls_forward_secrecy_not_observed", "tls_secure_renegotiation_not_observed",
                     "tls_negotiated_compression", "tls_aead_cipher_not_negotiated"} :
            rule \in TimelessFindings(info, OwnNames(Entries[i]))
    <3>1. info.protocol # "TLSv1.3"
      BY <1>2, <1>5 DEF Outdated
    <3>2. CASE servers[i].cipher \notin {"ECDHE-GCM", "ECDHE-CBC", "TLS-GCM"}
      <4>1. tls_forward_secrecy_not_observed(info)
        BY <1>2, <3>1, <3>2 DEF tls_forward_secrecy_not_observed
      <4>2. "tls_forward_secrecy_not_observed" \in TimelessFindings(info, OwnNames(Entries[i]))
        BY <4>1 DEF TimelessFindings
      <4>3. QED BY <4>2
    <3>3. CASE servers[i].cipher = "ECDHE-CBC"
      <4>1. tls_aead_cipher_not_negotiated(info)
        BY <1>2, <3>1, <3>3 DEF tls_aead_cipher_not_negotiated, Tls12OrEarlier, Truth
      <4>2. "tls_aead_cipher_not_negotiated" \in TimelessFindings(info, OwnNames(Entries[i]))
        BY <4>1 DEF TimelessFindings
      <4>3. QED BY <4>2
    <3>4. CASE ~servers[i].renegotiation
      <4>1. tls_secure_renegotiation_not_observed(info)
        BY <1>2, <3>1, <3>4 DEF tls_secure_renegotiation_not_observed, Tls12OrEarlier, Truth
      <4>2. "tls_secure_renegotiation_not_observed" \in TimelessFindings(info, OwnNames(Entries[i]))
        BY <4>1 DEF TimelessFindings
      <4>3. QED BY <4>2
    <3>5. CASE servers[i].compresses
      <4>1. tls_negotiated_compression(info)
        BY <1>2, <3>1, <3>5 DEF tls_negotiated_compression, Tls12OrEarlier
      <4>2. "tls_negotiated_compression" \in TimelessFindings(info, OwnNames(Entries[i]))
        BY <4>1 DEF TimelessFindings
      <4>3. QED BY <4>2
    <3>6. QED BY <1>5, <3>2, <3>3, <3>4, <3>5 DEF Outdated
  <2>2. TimelessFindings(info, OwnNames(Entries[i])) \subseteq EntryFindings(Entries[i], info)
    BY OwnNamesAre DEF EntryFindings
  <2>3. QED BY <1>5, <2>1, <2>2, RequirementsAre
<1>6. QED BY <1>3, <1>4, <1>5 DEF Wrong

\* What is reported is wrong, or at least unusual.
LEMMA FoundIsWrong ==
    ASSUME InventoryAssumption, NEW i \in DOMAIN Entries, servers[i] \in Servers,
           NEW lost, NEW spoken \in Spoken(servers[i], lost),
           NEW info, info = Observed(servers[i], lost, spoken),
           NEW rule \in EntryFindings(Entries[i], info)
    PROVE  \/ Wrong(i, RequirementOf(rule)) \/ Unusual(i, RequirementOf(rule))
           \/ RequirementOf(rule) = "protocol_support" /\ "versions" \in lost
<1> DEFINE server == servers[i]
           names == OwnNames(Entries[i])
           chain == server.chain
<1>1. PICK first : first = FromOpenssl(server)
  OBVIOUS
<1>2. /\ info.subject = Leaf(server).subject /\ info.issuer = Leaf(server).issuer
      /\ info.cipher = server.cipher /\ info.protocol = server.protocol
      /\ info.san = server.san /\ info.notAfter = server.notAfter
      /\ info.renegotiation = Truth(server.renegotiation)
      /\ info.compression = IF server.compresses THEN "zlib" ELSE "none"
      /\ info.aead = Truth(server.cipher \in {"ECDHE-GCM", "RSA-GCM", "TLS-GCM"})
  BY SeenIs
<1>3. info.scts <=> server.scts
  <2>1. info.scts = server.scts
    BY SeenIs
  <2>2. QED BY <2>1, Zenon
<1>4. /\ info.supported = spoken
      /\ info.trusted = IF "chain" \in lost THEN "unknown" ELSE ChainAnswer(server, Today)
      /\ info.order = IF "order" \in lost \/ "TLSv1.2" \notin server.versions THEN "unknown"
                      ELSE Truth(server.ordered)
      /\ info.ocsp = IF "ocsp" \in lost THEN Truth(server.staples) ELSE "yes"
      /\ info.depth = IF "depth" \in lost THEN 0 ELSE Len(chain)
  BY <1>1, ObservedIs
<1>5. \A d \in Deserved(server, names) : Wrong(i, RequirementOf(d))
  BY DEF Wrong
<1>6. spoken \subseteq server.versions /\ ("versions" \notin lost => spoken = server.versions)
  BY DEF Spoken
<1> HIDE DEF server, names, chain
<1>7. CASE rule \in {"certificate_expired", "certificate_expires_soon"}
  <2>1. server.notAfter \in Int /\ Today \in Int /\ Soon \in Nat
    BY DEF InventoryAssumption, IsServer, server
  <2>2. info.notAfter < Today \/ info.notAfter - Today <= Soon
    BY <1>7 DEF EntryFindings, TimelessFindings, certificate_expired, certificate_expires_soon
  <2>3. server.notAfter - Today <= Soon
    BY <1>2, <2>1, <2>2
  <2>4. QED BY <1>7, <2>3, RequirementsAre DEF Wrong, server
<1>8. CASE rule \in TimelessFindings(info, names)
  <2>1. CASE rule = "tls_certificate_self_signed"
    BY <1>2, <1>5, <1>8, <2>1 DEF TimelessFindings, tls_certificate_self_signed, Deserved
  <2>2. CASE rule = "tls_1_0_supported"
    BY <1>4, <1>5, <1>6, <1>8, <2>2 DEF TimelessFindings, tls_1_0_supported, Deserved
  <2>3. CASE rule = "tls_1_1_supported"
    BY <1>4, <1>5, <1>6, <1>8, <2>3 DEF TimelessFindings, tls_1_1_supported, Deserved
  <2>4. CASE rule = "tls_1_3_not_supported"
    <3>1. "TLSv1.3" \notin spoken
      BY <1>4, <1>8, <2>4 DEF TimelessFindings, tls_1_3_not_supported
    <3>2. CASE "versions" \in lost
      BY <2>4, <3>2, RequirementsAre
    <3>3. CASE "versions" \notin lost
      BY <1>5, <1>6, <2>4, <3>1, <3>3 DEF Deserved
    <3>4. QED BY <3>2, <3>3
  <2>5. CASE rule = "weak_cipher_suite"
    BY <1>2, <1>5, <1>8, <2>5 DEF TimelessFindings, weak_cipher_suite, Deserved
  <2>6. CASE rule = "tls_forward_secrecy_not_observed"
    <3>1. Outdated(server)
      BY <1>2, <1>8, <2>6 DEF TimelessFindings, tls_forward_secrecy_not_observed, Outdated
    <3>2. QED BY <2>6, <3>1, RequirementsAre DEF Wrong, server
  <2>7. CASE rule = "tls_server_cipher_preference_not_observed"
    <3>1. info.order = "no"
      BY <1>8, <2>7 DEF TimelessFindings, tls_server_cipher_preference_not_observed
    <3>2. "TLSv1.2" \in server.versions /\ ~server.ordered
      BY <1>4, <3>1 DEF Truth
    <3>3. QED BY <1>5, <2>7, <3>2 DEF Deserved
  <2>8. CASE rule = "tls_secure_renegotiation_not_observed"
    <3>1. Outdated(server)
      BY <1>2, <1>8, <2>8 DEF TimelessFindings, tls_secure_renegotiation_not_observed, Tls12OrEarlier, Truth, Outdated
    <3>2. QED BY <2>8, <3>1, RequirementsAre DEF Wrong, server
  <2>9. CASE rule = "tls_negotiated_compression"
    <3>1. Outdated(server)
      BY <1>2, <1>8, <2>9 DEF TimelessFindings, tls_negotiated_compression, Tls12OrEarlier, Outdated
    <3>2. QED BY <2>9, <3>1, RequirementsAre DEF Wrong, server
  <2>10. CASE rule = "tls_aead_cipher_not_negotiated"
    <3>1. Outdated(server)
      BY <1>2, <1>8, <2>10 DEF TimelessFindings, tls_aead_cipher_not_negotiated, Tls12OrEarlier, Truth, Outdated
    <3>2. QED BY <2>10, <3>1, RequirementsAre DEF Wrong, server
  <2>11. CASE rule \in {"ocsp_stapling_not_observed", "tls_must_staple_not_observed"}
    <3>1. info.ocsp = "no"
      BY <1>8, <2>11 DEF TimelessFindings, ocsp_stapling_not_observed, tls_must_staple_not_observed
    <3>2. ~server.staples
      BY <1>4, <3>1 DEF Truth
    <3>3. "ocsp_stapling_not_observed" \in Deserved(server, names)
      BY <3>2 DEF Deserved
    <3>4. QED BY <1>5, <2>11, <3>3, RequirementsAre
  <2>12. CASE rule = "cert_chain_incomplete"
    <3>1. info.trusted = "no"
      BY <1>8, <2>12 DEF TimelessFindings, cert_chain_incomplete
    <3>2. ~server.trusted
      BY <1>4, <3>1 DEF ChainAnswer, Truth
    <3>3. QED BY <1>5, <2>12, <3>2 DEF Deserved
  <2>13. CASE rule = "cert_chain_length_unusual"
    <3>1. info.depth = 1 \/ info.depth > MaxDepth
      BY <1>8, <2>13 DEF TimelessFindings, cert_chain_length_unusual
    <3>2. MaxDepth \in Nat
      BY DEF InventoryAssumption
    <3>3. Len(chain) = 1 \/ Len(chain) > MaxDepth
      BY <1>4, <3>1, <3>2
    <3>4. QED BY <2>13, <3>3, RequirementsAre DEF Unusual, chain, server
  <2>14. CASE rule = "tls_ct_log_evidence_missing"
    <3>1. ~LeafSelfSigned(info) /\ ~info.scts
      BY <1>8, <2>14 DEF TimelessFindings, tls_ct_log_evidence_missing
    <3>2. Leaf(server).subject # Leaf(server).issuer
      BY <3>1, LeafIs DEF server, InventoryAssumption
    <3>3. QED BY <1>3, <1>5, <2>14, <3>1, <3>2 DEF Deserved
  <2>15. CASE rule = "tls_weak_signature_algorithm"
    <3>1. ~LeafSelfSigned(info) /\ \E k \in DOMAIN info.chain : info.chain[k].weak /\ ~info.chain[k].selfSigned
      BY <1>8, <2>15 DEF TimelessFindings, tls_weak_signature_algorithm
    <3>2. /\ Leaf(server).subject # Leaf(server).issuer
          /\ \E k \in DOMAIN server.chain : server.chain[k].weak /\ server.chain[k].subject # server.chain[k].issuer
      BY <3>1, LeafIs DEF server, InventoryAssumption
    <3>3. QED BY <1>5, <2>15, <3>2 DEF Deserved
  <2>16. CASE rule = "cert_san_mismatch"
    <3>1. ~AllCovered(names, server.san)
      BY <1>2, <1>8, <2>16 DEF TimelessFindings, cert_san_mismatch
    <3>2. PICK name \in names : ~\E entry \in server.san : Covers(entry, name)
      BY <3>1 DEF AllCovered
    <3>3. name \in Seq(STRING) \ {<<>>}
      BY <3>2, OwnNamesAre DEF names, NoName
    <3>4. CASE name \in IpLiterals
      BY <2>16, <3>2, <3>4, RequirementsAre DEF Unusual, names
    <3>5. CASE name \notin IpLiterals
      <4>1. ~Named(server, name)
        BY <3>2, <3>3, <3>5, NamingIs DEF server, InventoryAssumption
      <4>2. QED BY <1>5, <2>16, <3>2, <4>1 DEF Deserved
    <3>6. QED BY <3>4, <3>5
  <2>17. rule \in {"tls_certificate_self_signed", "tls_1_0_supported", "tls_1_1_supported",
                   "tls_1_3_not_supported", "weak_cipher_suite", "tls_forward_secrecy_not_observed",
                   "tls_server_cipher_preference_not_observed", "tls_secure_renegotiation_not_observed",
                   "tls_negotiated_compression", "tls_aead_cipher_not_negotiated",
                   "ocsp_stapling_not_observed", "cert_chain_incomplete", "cert_chain_length_unusual",
                   "tls_ct_log_evidence_missing", "tls_weak_signature_algorithm",
                   "tls_must_staple_not_observed", "cert_san_mismatch"}
    BY <1>8 DEF TimelessFindings
  <2>18. QED BY <2>1, <2>2, <2>3, <2>4, <2>5, <2>6, <2>7, <2>8, <2>9, <2>10, <2>11, <2>12,
                <2>13, <2>14, <2>15, <2>16, <2>17
<1>9. QED BY <1>7, <1>8, OwnNamesAre DEF EntryFindings, names

\* What is wrong with an entry is observed and reported, or not taken for observed.
LEMMA AttemptTells ==
    ASSUME InventoryAssumption, NEW i \in DOMAIN Entries, servers[i] \in Servers,
           NEW lost, NEW spoken \in Spoken(servers[i], lost),
           NEW info, info = Observed(servers[i], lost, spoken),
           NEW completed \in BOOLEAN,
           NEW requirement \in Required \ Entries[i].notApplicable, Wrong(i, requirement),
           EntryObservations(Entries[i], info, completed)[requirement]
               \in {"observed", "not-applicable"}
    PROVE  \/ requirement = "ocsp_stapling"
           \/ requirement = "protocol_support" /\ "versions" \in lost
           \/ completed /\ \E rule \in EntryFindings(Entries[i], info) :
                              RequirementOf(rule) = requirement
<1>1. requirement \in Kinds
  BY DEF InventoryAssumption
<1>2. EntryObservations(Entries[i], info, completed)[requirement]
          = IF ~completed THEN "failed" ELSE ObservationOf(requirement, Entries[i], info)
  BY DEF EntryObservations
<1>3. completed /\ ObservationOf(requirement, Entries[i], info) \in {"observed", "not-applicable"}
  BY <1>2
<1>4. ObservationOf(requirement, Entries[i], info) # "not-applicable"
  BY <1>1 DEF Kinds, ObservationOf, NameState, StateOf, SupportState, Negotiated
<1>5. QED BY <1>3, <1>4, WrongIsFound, SMTT(60)

\* What is wrong with an entry that is not missing evidence has been reported.
Told(i) ==
    \A r \in Required \ Entries[i].notApplicable :
        Wrong(i, r) /\ analyses[i].observations[r] \in {"observed", "not-applicable"} =>
            \/ r = "ocsp_stapling"
            \/ r = "protocol_support" /\ i \in unheard
            \/ \E f \in listed : RequirementOf(f.rule) = r

\* What has been reported is wrong, or at least unusual, at some entry.
Justified(f) ==
    \E i \in DOMAIN Entries : Wrong(i, RequirementOf(f.rule)) \/ Unusual(i, RequirementOf(f.rule))

States == {"observed", "failed", "unavailable", "not-requested", "not-applicable"}
Analysis == [entry : STRING, observations : [Required -> States], reference : Nat]

\* The attempts so far, in the order of the entries; and what was concluded from them.
InventoryIInv ==
    /\ servers \in [DOMAIN Entries -> Servers]
    /\ analyses \in Seq(Analysis) /\ Len(analyses) <= Len(Entries)
    /\ attempts \in Seq(STRING) /\ Len(attempts) = Len(analyses)
    /\ \A i \in DOMAIN analyses :
          /\ analyses[i].entry = Entries[i].id /\ attempts[i] = Entries[i].id
          /\ analyses[i].reference = i
          /\ Told(i)
    /\ \A f \in listed : Justified(f)
    /\ IF status = Open THEN prints = <<>>
       ELSE /\ Len(analyses) = Len(Entries) /\ status = Status
            /\ prints = [i \in DOMAIN Entries |->
                            {Fingerprint(f) : f \in {g \in listed : g.scope = Entries[i].id}}]

\* Before the first attempt nothing has been told, nor had to be.
LEMMA InventoryStarts == InventoryAssumption /\ InventoryInit => InventoryIInv
<1> SUFFICES ASSUME InventoryAssumption, InventoryInit
             PROVE  InventoryIInv
  OBVIOUS
<1>1. Len(Entries) \in Nat
  BY DEF InventoryAssumption
<1>2. analyses = <<>> /\ attempts = <<>> /\ analyses \in Seq(Analysis) /\ attempts \in Seq(STRING)
  BY DEF InventoryInit
<1>3. Len(analyses) = 0 /\ Len(attempts) = 0 /\ DOMAIN analyses = {}
  BY <1>2
<1>4. QED BY <1>1, <1>2, <1>3 DEF InventoryInit, InventoryIInv

\* An observation is one of these.
LEMMA ObservationsAre ==
    ASSUME InventoryAssumption, NEW entry, NEW info, NEW completed \in BOOLEAN
    PROVE  EntryObservations(entry, info, completed) \in [Required -> States]
<1>1. \A r \in Required : ObservationOf(r, entry, info) \in States
  <2>1. SUFFICES ASSUME NEW r \in Kinds
                 PROVE  ObservationOf(r, entry, info) \in States
    BY DEF InventoryAssumption
  <2>2. /\ NameState(entry, info) \in States /\ StateOf(info.trusted) \in States
        /\ SupportState(info) \in States /\ Negotiated(info) \in States /\ StateOf(info.ocsp) \in States
    BY DEF States, NameState, StateOf, SupportState, Negotiated
  <2>3. /\ ObservationOf("handshake", entry, info) = "observed"
        /\ ObservationOf("certificate_name", entry, info) = NameState(entry, info)
        /\ ObservationOf("certificate_chain", entry, info) = StateOf(info.trusted)
        /\ ObservationOf("protocol_support", entry, info) = SupportState(info)
        /\ ObservationOf("negotiated_cipher", entry, info) = Negotiated(info)
        /\ ObservationOf("ocsp_stapling", entry, info) = StateOf(info.ocsp)
    BY DEF ObservationOf
  <2>4. "observed" \in States
    BY DEF States
  <2>5. QED BY <2>1, <2>2, <2>3, <2>4, Zenon DEF Kinds
<1>2. ASSUME NEW r \in Required
      PROVE  (IF r \in entry.notApplicable THEN "not-applicable"
              ELSE IF ~completed THEN "failed" ELSE ObservationOf(r, entry, info)) \in States
  <2>1. "not-applicable" \in States /\ "failed" \in States
    BY DEF States
  <2>2. QED BY <1>1, <2>1, Zenon
<1>3. QED BY <1>2, Zenon DEF EntryObservations

\* An attempt adds what it found of its entry and disturbs nothing of another.
LEMMA InventoryProbeStep ==
    ASSUME InventoryAssumption, InventoryIInv, ProbeEntry
    PROVE  InventoryIInv'
<1>0. PICK i : i = Len(analyses) + 1
  OBVIOUS
<1> DEFINE entry == Entries[i]
<1>1. /\ Len(analyses) \in Nat /\ Len(Entries) \in Nat /\ i \in DOMAIN Entries /\ i <= Len(Entries)
      /\ DOMAIN analyses = 1 .. Len(analyses) /\ servers[i] \in Servers
      /\ entry \in EntryType
  BY <1>0 DEF InventoryAssumption, InventoryIInv, ProbeEntry
<1>2. PICK lost, spoken, info :
         /\ spoken \in Spoken(servers[i], lost) /\ info = Observed(servers[i], lost, spoken)
         /\ attempts' = Append(attempts, entry.id)
         /\ analyses' = Append(analyses,
               [entry |-> entry.id, observations |-> EntryObservations(entry, info, "handshake" \notin lost),
                reference |-> Shifted(1, Len(attempts))])
         /\ listed' = listed \cup
               IF "handshake" \notin lost
               THEN {[rule |-> r, url |-> Shown(entry), scope |-> entry.id] : r \in EntryFindings(entry, info)}
               ELSE {}
         /\ unheard' = IF "versions" \in lost THEN unheard \cup {i} ELSE unheard
  <2>1. PICK lost \in SUBSET MayLose : \E spoken \in Spoken(servers[i], lost) :
         /\ attempts' = Append(attempts, Entries[i].id)
         /\ analyses' = Append(analyses,
               [entry |-> Entries[i].id,
                observations |-> EntryObservations(Entries[i], Observed(servers[i], lost, spoken), "handshake" \notin lost),
                reference |-> Shifted(1, Len(attempts))])
         /\ listed' = listed \cup
               IF "handshake" \notin lost
               THEN {[rule |-> r, url |-> Shown(Entries[i]), scope |-> Entries[i].id] :
                        r \in EntryFindings(Entries[i], Observed(servers[i], lost, spoken))}
               ELSE {}
         /\ unheard' = IF "versions" \in lost THEN unheard \cup {i} ELSE unheard
    BY <1>0, SMTT(60) DEF ProbeEntry
  <2>2. PICK spoken \in Spoken(servers[i], lost) :
         /\ attempts' = Append(attempts, Entries[i].id)
         /\ analyses' = Append(analyses,
               [entry |-> Entries[i].id,
                observations |-> EntryObservations(Entries[i], Observed(servers[i], lost, spoken), "handshake" \notin lost),
                reference |-> Shifted(1, Len(attempts))])
         /\ listed' = listed \cup
               IF "handshake" \notin lost
               THEN {[rule |-> r, url |-> Shown(Entries[i]), scope |-> Entries[i].id] :
                        r \in EntryFindings(Entries[i], Observed(servers[i], lost, spoken))}
               ELSE {}
         /\ unheard' = IF "versions" \in lost THEN unheard \cup {i} ELSE unheard
    BY <2>1, Zenon
  <2>3. QED BY <2>2, Zenon
<1>3. servers' = servers /\ status' = status /\ prints' = prints
  BY DEF ProbeEntry
<1>4. PICK completed \in BOOLEAN : completed <=> "handshake" \notin lost
  OBVIOUS
<1>5. PICK analysis : analysis =
         [entry |-> entry.id, observations |-> EntryObservations(entry, info, completed),
          reference |-> Shifted(1, Len(attempts))]
  OBVIOUS
<1> HIDE DEF entry
<1>6. analysis \in Analysis /\ analysis.entry = entry.id /\ analysis.reference = i
      /\ analysis.observations = EntryObservations(entry, info, completed)
  <2>1. EntryObservations(entry, info, completed) \in [Required -> States]
    BY ObservationsAre
  <2>2. Shifted(1, Len(attempts)) = i /\ i \in Nat
    BY <1>0, <1>1 DEF InventoryIInv, Shifted
  <2>3. entry.id \in STRING
    BY <1>1 DEF EntryType
  <2>4. QED BY <1>5, <2>1, <2>2, <2>3 DEF Analysis
<1>7. analyses' = Append(analyses, analysis)
  <2>1. ("handshake" \notin lost) = completed
    BY <1>4, Zenon
  <2>2. QED BY <1>2, <1>5, <2>1, Zenon
<1>8. /\ analyses' \in Seq(Analysis) /\ Len(analyses') = i /\ DOMAIN analyses' = 1 .. i
      /\ analyses'[i] = analysis /\ \A j \in DOMAIN analyses : analyses'[j] = analyses[j]
      /\ attempts' \in Seq(STRING) /\ Len(attempts') = i
      /\ attempts'[i] = entry.id /\ \A j \in DOMAIN analyses : attempts'[j] = attempts[j]
  <2>1. analyses \in Seq(Analysis) /\ attempts \in Seq(STRING) /\ Len(attempts) = Len(analyses)
    BY DEF InventoryIInv
  <2>2. entry.id \in STRING
    BY <1>1 DEF EntryType
  <2>3. /\ analyses' \in Seq(Analysis) /\ Len(analyses') = i
        /\ analyses'[i] = analysis /\ \A j \in DOMAIN analyses : analyses'[j] = analyses[j]
    BY <1>0, <1>1, <1>6, <1>7, <2>1
  <2>4. /\ attempts' \in Seq(STRING) /\ Len(attempts') = i
        /\ attempts'[i] = entry.id /\ \A j \in DOMAIN analyses : attempts'[j] = attempts[j]
    BY <1>0, <1>1, <1>2, <2>1, <2>2
  <2>5. DOMAIN analyses' = 1 .. i
    BY <2>3
  <2>6. QED BY <2>3, <2>4, <2>5
<1>9. /\ listed \subseteq listed' /\ unheard \subseteq unheard'
      /\ "versions" \in lost => i \in unheard'
      /\ completed => \A r \in EntryFindings(entry, info) : \E f \in listed' : f.rule = r
      /\ \A f \in listed' \ listed : f.rule \in EntryFindings(entry, info)
  <2>1. /\ listed \subseteq listed' /\ unheard \subseteq unheard'
        /\ "versions" \in lost => i \in unheard'
    BY <1>2
  <2>2. ASSUME completed, NEW r \in EntryFindings(entry, info)
        PROVE  \E f \in listed' : f.rule = r
    <3>1. [rule |-> r, url |-> Shown(entry), scope |-> entry.id] \in listed'
      BY <1>2, <1>4, <2>2
    <3>2. QED BY <3>1
  <2>3. ASSUME NEW f \in listed' \ listed
        PROVE  f.rule \in EntryFindings(entry, info)
    <3>1. f \in {[rule |-> r, url |-> Shown(entry), scope |-> entry.id] : r \in EntryFindings(entry, info)}
      BY <1>2, <2>3
    <3>2. QED BY <3>1
  <2>4. QED BY <2>1, <2>2, <2>3
<1>10. \A j \in DOMAIN Entries : \A r : (Wrong(j, r))' <=> Wrong(j, r)
  BY <1>3 DEF Wrong
<1>11. \A j \in DOMAIN Entries : \A r : Unusual(j, r) => (Unusual(j, r))'
  BY <1>3, <1>9 DEF Unusual
<1>12. (Told(i))'
  <2>1. SUFFICES ASSUME NEW r \in Required \ entry.notApplicable, Wrong(i, r),
                        EntryObservations(entry, info, completed)[r] \in {"observed", "not-applicable"}
                 PROVE  \/ r = "ocsp_stapling"
                        \/ r = "protocol_support" /\ i \in unheard'
                        \/ \E f \in listed' : RequirementOf(f.rule) = r
    BY <1>1, <1>6, <1>8, <1>10 DEF Told, entry
  <2>2. \/ r = "ocsp_stapling"
        \/ r = "protocol_support" /\ "versions" \in lost
        \/ completed /\ \E rule \in EntryFindings(entry, info) : RequirementOf(rule) = r
    BY <1>1, <1>2, <2>1, AttemptTells, ZenonT(60) DEF entry
  <2>3. QED BY <1>9, <2>2
<1>13. ASSUME NEW j \in DOMAIN analyses
       PROVE  (Told(j))'
  <2>1. Told(j) /\ j \in DOMAIN Entries /\ analyses'[j] = analyses[j]
    BY <1>1, <1>8 DEF InventoryIInv, InventoryAssumption
  <2>2. QED BY <1>9, <1>10, <2>1 DEF Told
<1>14. \A f \in listed' : (Justified(f))'
  <2>1. SUFFICES ASSUME NEW f \in listed'
                 PROVE  \E j \in DOMAIN Entries : \/ (Wrong(j, RequirementOf(f.rule)))'
                                                  \/ (Unusual(j, RequirementOf(f.rule)))'
    BY DEF Justified
  <2>2. CASE f \in listed
    <3>1. PICK j \in DOMAIN Entries : Wrong(j, RequirementOf(f.rule)) \/ Unusual(j, RequirementOf(f.rule))
      BY <2>2 DEF InventoryIInv, Justified
    <3>2. QED BY <1>10, <1>11, <3>1
  <2>3. CASE f \notin listed
    <3>1. f.rule \in EntryFindings(entry, info)
      BY <1>9, <2>3
    <3>2. \/ Wrong(i, RequirementOf(f.rule)) \/ Unusual(i, RequirementOf(f.rule))
          \/ RequirementOf(f.rule) = "protocol_support" /\ "versions" \in lost
      BY <1>1, <1>2, <3>1, FoundIsWrong DEF entry
    <3>3. CASE RequirementOf(f.rule) = "protocol_support" /\ "versions" \in lost
      <4>1. (Unusual(i, RequirementOf(f.rule)))'
        BY <1>9, <3>3 DEF Unusual
      <4>2. QED BY <1>1, <4>1
    <3>4. QED BY <1>1, <1>10, <1>11, <3>2, <3>3
  <2>4. QED BY <2>2, <2>3
<1>15. status = Open
  <2>1. Len(analyses) < Len(Entries)
    BY DEF ProbeEntry
  <2>2. QED BY <1>1, <2>1 DEF InventoryIInv
<1>16. \A j \in DOMAIN analyses' :
          /\ analyses'[j].entry = Entries[j].id /\ attempts'[j] = Entries[j].id
          /\ analyses'[j].reference = j /\ (Told(j))'
  <2>1. SUFFICES ASSUME NEW j \in DOMAIN analyses'
                 PROVE  /\ analyses'[j].entry = Entries[j].id /\ attempts'[j] = Entries[j].id
                        /\ analyses'[j].reference = j /\ (Told(j))'
    OBVIOUS
  <2>2. CASE j = i
    BY <1>6, <1>8, <1>12, <2>2 DEF entry
  <2>3. CASE j # i
    <3>1. j \in DOMAIN analyses
      BY <1>0, <1>1, <1>8, <2>3
    <3>2. QED BY <1>8, <1>13, <3>1 DEF InventoryIInv
  <2>4. QED BY <2>2, <2>3
<1>17. QED
  <2>1. servers' \in [DOMAIN Entries -> Servers] /\ (status = Open => prints' = <<>>)
    BY <1>3 DEF InventoryIInv
  <2>2. QED BY <1>1, <1>3, <1>8, <1>14, <1>15, <1>16, <2>1 DEF InventoryIInv

\* The control is judged on all entries, and on nothing else.
LEMMA InventoryConcludeStep ==
    ASSUME InventoryAssumption, InventoryIInv, Conclude
    PROVE  InventoryIInv'
<1>1. /\ Len(analyses) = Len(Entries) /\ status' = Status
      /\ prints' = [i \in DOMAIN Entries |->
                       {Fingerprint(f) : f \in {g \in listed : g.scope = Entries[i].id}}]
      /\ servers' = servers /\ attempts' = attempts /\ analyses' = analyses
      /\ listed' = listed /\ unheard' = unheard
  BY DEF Conclude
<1>2. Status' = Status /\ Status # Open
  BY <1>1 DEF Status, Failing, MissingEvidence, NothingApplies, Open
<1>3. \A i \in DOMAIN Entries : \A r :
         /\ (Wrong(i, r))' <=> Wrong(i, r)
         /\ (Unusual(i, r))' <=> Unusual(i, r)
  BY <1>1 DEF Wrong, Unusual
<1>4. \A i \in DOMAIN analyses : (Told(i))'
  <2>1. SUFFICES ASSUME NEW i \in DOMAIN analyses
                 PROVE  (Told(i))'
    OBVIOUS
  <2>2. Told(i) /\ i \in DOMAIN Entries
    BY DEF InventoryIInv, InventoryAssumption
  <2>3. QED BY <1>1, <1>3, <2>2 DEF Told
<1>5. \A f \in listed : (Justified(f))'
  BY <1>3 DEF InventoryIInv, Justified
<1>6. /\ servers' \in [DOMAIN Entries -> Servers]
      /\ analyses' \in Seq(Analysis) /\ Len(analyses') <= Len(Entries)
      /\ attempts' \in Seq(STRING) /\ Len(attempts') = Len(analyses')
      /\ \A i \in DOMAIN analyses' :
            analyses'[i].entry = Entries[i].id /\ attempts'[i] = Entries[i].id /\ analyses'[i].reference = i
  BY <1>1 DEF InventoryIInv
<1>7. status' # Open /\ status' = Status'
  BY <1>1, <1>2
<1>8. prints' = [i \in DOMAIN Entries |->
                    {Fingerprint(f) : f \in {g \in listed' : g.scope = Entries[i].id}}]
  BY <1>1
<1>9. QED BY <1>1, <1>4, <1>5, <1>6, <1>7, <1>8 DEF InventoryIInv

\* And when nothing happens, nothing changes.
LEMMA InventoryStutter ==
    ASSUME InventoryIInv, UNCHANGED inventoryVars
    PROVE  InventoryIInv'
<1>1. /\ servers' = servers /\ attempts' = attempts /\ analyses' = analyses
      /\ listed' = listed /\ unheard' = unheard /\ status' = status /\ prints' = prints
  BY DEF inventoryVars
<1>2. QED BY <1>1, SMTT(60) DEF InventoryIInv, Told, Justified, Wrong, Unusual, Status, Failing,
                      MissingEvidence, NothingApplies

\* The control follows from what each entry was found to be.
LEMMA InventoryIInvSound ==
    ASSUME InventoryAssumption, InventoryIInv
    PROVE  InventoryIsSound
<1>1. PassIsEarned
  <2>1. SUFFICES ASSUME status = "pass"
                 PROVE  Complete /\ \A i \in DOMAIN Entries : \A r \in Required \ Entries[i].notApplicable :
                            ~Wrong(i, r) \/ (r = "protocol_support" /\ i \in unheard) \/ r = "ocsp_stapling"
    BY DEF PassIsEarned
  <2>2. Len(analyses) = Len(Entries) /\ Status = "pass"
    BY <2>1 DEF InventoryIInv, Open
  <2>3. Failing = {} /\ MissingEvidence = {} /\ Complete
    BY <2>2 DEF Status
  <2>4. DOMAIN analyses = DOMAIN Entries
    BY <2>2 DEF InventoryIInv, InventoryAssumption
  <2>5. ASSUME NEW i \in DOMAIN Entries, NEW r \in Required \ Entries[i].notApplicable, Wrong(i, r)
        PROVE  (r = "protocol_support" /\ i \in unheard) \/ r = "ocsp_stapling"
    <3>1. analyses[i].observations[r] \in {"observed", "not-applicable"}
      <4>1. <<i, r>> \in (DOMAIN analyses) \X Required /\ <<i, r>>[1] = i /\ <<i, r>>[2] = r
        BY <2>4, <2>5
      <4>2. QED BY <2>3, <4>1 DEF MissingEvidence
    <3>2. ~\E f \in listed : RequirementOf(f.rule) = r
      BY <2>3 DEF Failing
    <3>3. Told(i)
      BY <2>4 DEF InventoryIInv
    <3>4. QED BY <2>5, <3>1, <3>2, <3>3 DEF Told
  <2>6. QED BY <2>3, <2>5, Zenon
<1>2. FailIsJustified
  <2>1. SUFFICES ASSUME status = "fail"
                 PROVE  \E i \in DOMAIN Entries : \E r \in Required : Wrong(i, r) \/ Unusual(i, r)
    BY DEF FailIsJustified
  <2>2. Status = "fail"
    BY <2>1 DEF InventoryIInv, Open
  <2>3. PICK f \in listed : RequirementOf(f.rule) \in Required
    BY <2>2 DEF Status, Failing
  <2>4. QED BY <2>3 DEF InventoryIInv, Justified
<1>3. EvidenceIsOwn
  BY DEF InventoryIInv, EvidenceIsOwn
<1>4. FingerprintsSeparate
  <2>1. SUFFICES ASSUME NEW i \in DOMAIN prints, NEW j \in DOMAIN prints, i # j,
                        NEW print \in prints[i], print \in prints[j]
                 PROVE  FALSE
    BY DEF FingerprintsSeparate
  <2>2. /\ DOMAIN prints = DOMAIN Entries
        /\ prints[i] = {Fingerprint(f) : f \in {g \in listed : g.scope = Entries[i].id}}
        /\ prints[j] = {Fingerprint(f) : f \in {g \in listed : g.scope = Entries[j].id}}
    BY <2>1 DEF InventoryIInv
  <2>3. print.scope = Entries[i].id /\ print.scope = Entries[j].id
    BY <2>1, <2>2 DEF Fingerprint
  <2>4. QED BY <2>1, <2>2, <2>3 DEF InventoryAssumption, EntriesAssumption
<1>5. QED BY <1>1, <1>2, <1>3, <1>4 DEF InventoryIsSound

\* Of any inventory and whatever handshakes are lost: the control passes only if every
\* entry is in order in what is required of it (but for versions that were not heard, and
\* stapling, which are taken for observed), it fails only because of an entry that is not,
\* every entry is judged by its own attempt, and no two share a fingerprint.
THEOREM InventoriesAreSound ==
    ASSUME InventoryAssumption PROVE InventorySpec => []InventoryIsSound
<1>1. InventoryInit => InventoryIInv
  BY InventoryStarts
<1>2. InventoryIInv /\ [InventoryNext]_inventoryVars => InventoryIInv'
  BY InventoryProbeStep, InventoryConcludeStep, InventoryStutter DEF InventoryNext
<1>3. InventoryIInv => InventoryIsSound
  BY InventoryIInvSound
<1>4. QED BY <1>1, <1>2, <1>3, PTL DEF InventorySpec

-----------------------------------------------------------------------------
(* The observation of one endpoint (TlsObservation). *)

\* The chain as TLSInfo has it.
ChainOf(server) ==
    [k \in DOMAIN server.chain |->
        [selfSigned |-> server.chain[k].subject = server.chain[k].issuer, weak |-> server.chain[k].weak]]

\* What may be learned of an endpoint: the truth, or less.
InfoOf(server) ==
    [protocol : {server.protocol}, cipher : {server.cipher},
     subject : {Leaf(server).subject}, issuer : {Leaf(server).issuer},
     notAfter : {server.notAfter}, san : {server.san}, chain : {<<>>, ChainOf(server)},
     scts : {FALSE, server.scts}, mustStaple : {FALSE, server.mustStaple},
     ocsp : {"unknown", Truth(server.staples)}, renegotiation : {"unknown", Truth(server.renegotiation)},
     compression : {"none", IF server.compresses THEN "zlib" ELSE "none"},
     aead : {"unknown", Truth(server.cipher \in {"ECDHE-GCM", "RSA-GCM", "TLS-GCM"})},
     supported : SUBSET server.versions, trusted : {"unknown", Truth(server.trusted)},
     depth : {0, Len(server.chain)}, order : {"unknown", Truth(server.ordered)}]

Handshakes == {"observe", "versions", "chain", "depth", "order", "expired", "soon", "done"}

\* What a handshake that was not lost has shown.
Shows ==
    /\ awaited # "observe" /\ "observe" \notin missed =>
          /\ learned.chain = ChainOf(site) /\ learned.scts = site.scts
          /\ learned.ocsp = Truth(site.staples)
    /\ awaited \notin {"observe", "versions"} /\ "versions" \notin missed =>
          learned.supported = site.versions
    /\ awaited \notin {"observe", "versions", "chain"} /\ "chain" \notin missed =>
          learned.trusted = Truth(site.trusted) \/ site.notAfter < day
    /\ awaited \in {"expired", "soon", "done"} /\ "order" \notin missed =>
          ("TLSv1.2" \in learned.supported => learned.order = Truth(site.ordered))
    /\ awaited \in {"versions", "chain", "depth", "order"} => learned.order = "unknown"
    /\ awaited \in {"expired", "soon", "done"} /\ learned.order = "no" =>
          "TLSv1.2" \in learned.supported

\* What the rules have reported so far.
Expiry == {"certificate_expired", "certificate_expires_soon"}
Judged ==
    /\ awaited \notin {"soon", "done"} => reported = {}
    /\ awaited = "soon" => reported \subseteq {"certificate_expired"}
    /\ awaited \in {"soon", "done"} =>
          /\ "certificate_expired" \in reported => site.notAfter < day
          /\ "certificate_expired" \notin reported /\ "time" \notin missed => site.notAfter >= day
          /\ "certificate_expired" \notin reported /\ "chain" \notin missed =>
                learned.trusted = Truth(site.trusted)
    /\ awaited = "done" =>
          /\ reported \ Expiry = TimelessFindings(learned, called)
          /\ "certificate_expires_soon" \in reported <=> certificate_expires_soon(learned, day)

\* Every handshake shows the truth or nothing; the first lesson is a whole record, the others
\* fill it in; what was seen of the chain may be hidden by an expiry, which is reported then.
ObservationIInv ==
    /\ site \in Sites /\ called \in NamesAsked /\ day \in Nat
    /\ awaited \in Handshakes
    /\ IF awaited = "observe" THEN learned = NoInfo ELSE learned \in InfoOf(site)
    /\ Shows /\ Judged

\* The first handshake shows the truth, that of the HTTP request less of it.
LEMMA FirstInfoIs ==
    ASSUME NEW server, IsServer(server)
    PROVE  /\ FromSocket(server) \in InfoOf(server) /\ FromOpenssl(server) \in InfoOf(server)
           /\ FromSocket(server).order = "unknown" /\ FromOpenssl(server).order = "unknown"
           /\ FromOpenssl(server).chain = ChainOf(server)
           /\ FromOpenssl(server).scts = server.scts
           /\ FromOpenssl(server).ocsp = Truth(server.staples)
<1>1. FromSocket(server) \in InfoOf(server) /\ FromSocket(server).order = "unknown"
  BY DEF FromSocket, InfoOf
<1>2. FromOpenssl(server) \in InfoOf(server)
  BY ZenonT(60) DEF FromSocket, FromOpenssl, InfoOf, ChainOf
<1>3. /\ FromOpenssl(server).order = "unknown" /\ FromOpenssl(server).chain = ChainOf(server)
      /\ FromOpenssl(server).scts = server.scts
      /\ FromOpenssl(server).ocsp = Truth(server.staples)
  BY DEF FromSocket, FromOpenssl, ChainOf
<1>4. QED BY <1>1, <1>2, <1>3

\* Each other handshake fills in one field.
LEMMA FillingIs ==
    ASSUME NEW server, NEW info \in InfoOf(server)
    PROVE  /\ \A some \in SUBSET server.versions : \A new :
                 new = [info EXCEPT !.supported = some] =>
                    /\ new \in InfoOf(server) /\ new.supported = some
                    /\ new.chain = info.chain /\ new.scts = info.scts /\ new.ocsp = info.ocsp
                    /\ new.order = info.order /\ new.trusted = info.trusted
           /\ \A some \in {"unknown", Truth(server.trusted)} : \A new :
                 new = [info EXCEPT !.trusted = some] =>
                    /\ new \in InfoOf(server) /\ new.trusted = some
                    /\ new.chain = info.chain /\ new.scts = info.scts /\ new.ocsp = info.ocsp
                    /\ new.order = info.order /\ new.supported = info.supported
           /\ \A some \in {0, Len(server.chain)} : \A new :
                 new = [info EXCEPT !.depth = some] =>
                    /\ new \in InfoOf(server)
                    /\ new.chain = info.chain /\ new.scts = info.scts /\ new.ocsp = info.ocsp
                    /\ new.order = info.order /\ new.supported = info.supported
                    /\ new.trusted = info.trusted
           /\ \A some \in {"unknown", Truth(server.ordered)} : \A new :
                 new = [info EXCEPT !.order = some] =>
                    /\ new \in InfoOf(server) /\ new.order = some
                    /\ new.chain = info.chain /\ new.scts = info.scts /\ new.ocsp = info.ocsp
                    /\ new.supported = info.supported /\ new.trusted = info.trusted
<1>1. ASSUME NEW some \in SUBSET server.versions, NEW new, new = [info EXCEPT !.supported = some]
      PROVE  /\ new \in InfoOf(server) /\ new.supported = some
             /\ new.chain = info.chain /\ new.scts = info.scts /\ new.ocsp = info.ocsp
             /\ new.order = info.order /\ new.trusted = info.trusted
  <2>1. new \in InfoOf(server)
    BY <1>1 DEF InfoOf
  <2>2. /\ new.supported = some /\ new.chain = info.chain /\ new.scts = info.scts /\ new.ocsp = info.ocsp
        /\ new.order = info.order /\ new.trusted = info.trusted
    BY <1>1 DEF InfoOf
  <2>3. QED BY <2>1, <2>2
<1>2. ASSUME NEW some \in {"unknown", Truth(server.trusted)}, NEW new,
            new = [info EXCEPT !.trusted = some]
      PROVE  /\ new \in InfoOf(server) /\ new.trusted = some
             /\ new.chain = info.chain /\ new.scts = info.scts /\ new.ocsp = info.ocsp
             /\ new.order = info.order /\ new.supported = info.supported
  <2>1. new \in InfoOf(server)
    BY <1>2 DEF InfoOf
  <2>2. /\ new.trusted = some /\ new.chain = info.chain /\ new.scts = info.scts /\ new.ocsp = info.ocsp
        /\ new.order = info.order /\ new.supported = info.supported
    BY <1>2 DEF InfoOf
  <2>3. QED BY <2>1, <2>2
<1>3. ASSUME NEW some \in {0, Len(server.chain)}, NEW new, new = [info EXCEPT !.depth = some]
      PROVE  /\ new \in InfoOf(server) /\ new.depth = some
             /\ new.chain = info.chain /\ new.scts = info.scts /\ new.ocsp = info.ocsp
             /\ new.order = info.order /\ new.supported = info.supported /\ new.trusted = info.trusted
  <2>1. new \in InfoOf(server)
    BY <1>3 DEF InfoOf
  <2>2. /\ new.depth = some /\ new.chain = info.chain /\ new.scts = info.scts /\ new.ocsp = info.ocsp
        /\ new.order = info.order /\ new.supported = info.supported /\ new.trusted = info.trusted
    BY <1>3 DEF InfoOf
  <2>3. QED BY <2>1, <2>2
<1>4. ASSUME NEW some \in {"unknown", Truth(server.ordered)}, NEW new,
            new = [info EXCEPT !.order = some]
      PROVE  /\ new \in InfoOf(server) /\ new.order = some
             /\ new.chain = info.chain /\ new.scts = info.scts /\ new.ocsp = info.ocsp
             /\ new.supported = info.supported /\ new.trusted = info.trusted
  <2>1. new \in InfoOf(server)
    BY <1>4 DEF InfoOf
  <2>2. /\ new.order = some /\ new.chain = info.chain /\ new.scts = info.scts /\ new.ocsp = info.ocsp
        /\ new.supported = info.supported /\ new.trusted = info.trusted
    BY <1>4 DEF InfoOf
  <2>3. QED BY <2>1, <2>2
<1>5. QED BY <1>1, <1>2, <1>3, <1>4

\* Nothing is known or reported before the first handshake.
LEMMA ObservationStarts == ObservationAssumption /\ ObservationInit => ObservationIInv
<1> SUFFICES ASSUME ObservationAssumption, ObservationInit
             PROVE  ObservationIInv
  OBVIOUS
<1>1. day \in Nat
  BY DEF ObservationAssumption, ObservationInit
<1>2. QED BY <1>1 DEF ObservationInit, ObservationIInv, Handshakes, Shows, Judged

\* What the first handshake brings.
LEMMA ObserveKeeps ==
    ASSUME ObservationAssumption, ObservationIInv, Observe
    PROVE  ObservationIInv'
<1>1. /\ site' = site /\ called' = called /\ day' = day /\ reported' = reported
      /\ awaited = "observe" /\ awaited' = "versions"
      /\ \/ missed' = missed /\ learned' = FromOpenssl(site)
         \/ missed' = missed \cup {"observe"} /\ learned' = FromSocket(site)
  BY DEF Observe, Keep, Lose
<1>2. IsServer(site)
  BY DEF ObservationAssumption, ObservationIInv
<1>3. learned' \in InfoOf(site) /\ learned'.order = "unknown"
  BY <1>1, <1>2, FirstInfoIs
<1>4. "observe" \notin missed' => /\ learned'.chain = ChainOf(site) /\ learned'.scts = site.scts
                                  /\ learned'.ocsp = Truth(site.staples)
  BY <1>1, <1>2, FirstInfoIs
<1>5. Shows'
  BY <1>1, <1>3, <1>4 DEF Shows
<1>6. Judged'
  BY <1>1 DEF ObservationIInv, Judged
<1>7. QED BY <1>1, <1>3, <1>5, <1>6 DEF ObservationIInv, Handshakes

\* What the handshakes for the versions bring.
LEMMA ProbeVersionsKeeps ==
    ASSUME ObservationAssumption, ObservationIInv, ProbeVersions
    PROVE  ObservationIInv'
<1>1. /\ site' = site /\ called' = called /\ day' = day /\ reported' = reported
      /\ awaited = "versions" /\ awaited' = "chain"
  BY DEF ProbeVersions, Keep, Lose
<1>2. PICK some \in SUBSET site.versions :
         /\ learned' = [learned EXCEPT !.supported = some]
         /\ \/ missed' = missed /\ some = site.versions
            \/ missed' = missed \cup {"versions"}
  BY DEF ProbeVersions, Keep, Lose
<1>3. learned \in InfoOf(site)
  BY <1>1 DEF ObservationIInv
<1>4. /\ learned' \in InfoOf(site) /\ learned'.supported = some
      /\ learned'.chain = learned.chain /\ learned'.scts = learned.scts /\ learned'.ocsp = learned.ocsp
      /\ learned'.order = learned.order
  <2>1. learned' = [learned EXCEPT !.supported = some]
    BY <1>2
  <2>2. QED BY <1>3, <2>1, FillingIs
<1>5. Shows'
  BY <1>1, <1>2, <1>4 DEF ObservationIInv, Shows
<1>6. Judged'
  BY <1>1 DEF ObservationIInv, Judged
<1>7. QED BY <1>1, <1>4, <1>5, <1>6 DEF ObservationIInv, Handshakes

\* What the handshake that verifies the chain brings: an expired leaf hides the answer.
LEMMA VerifyChainKeeps ==
    ASSUME ObservationAssumption, ObservationIInv, VerifyChain
    PROVE  ObservationIInv'
<1>1. /\ site' = site /\ called' = called /\ day' = day /\ reported' = reported
      /\ awaited = "chain" /\ awaited' = "depth"
  BY DEF VerifyChain, Keep, Lose
<1>2. learned \in InfoOf(site)
  BY <1>1 DEF ObservationIInv
<1>3. CASE missed' = missed \cup {"chain"} /\ learned' = learned
  <2>1. Shows'
    BY <1>1, <1>3 DEF ObservationIInv, Shows
  <2>2. Judged'
    BY <1>1 DEF ObservationIInv, Judged
  <2>3. QED BY <1>1, <1>2, <1>3, <2>1, <2>2 DEF ObservationIInv, Handshakes
<1>4. CASE missed' = missed /\ learned' = [learned EXCEPT !.trusted = ChainAnswer(site, day)]
  <2>1. PICK some \in {"unknown", Truth(site.trusted)} :
           some = ChainAnswer(site, day) /\ (some = Truth(site.trusted) \/ site.notAfter < day)
    BY DEF ChainAnswer
  <2>2. /\ learned' \in InfoOf(site) /\ learned'.trusted = some
        /\ learned'.chain = learned.chain /\ learned'.scts = learned.scts /\ learned'.ocsp = learned.ocsp
        /\ learned'.order = learned.order /\ learned'.supported = learned.supported
    BY <1>2, <1>4, <2>1, FillingIs
  <2>3. Shows'
    BY <1>1, <1>4, <2>1, <2>2 DEF ObservationIInv, Shows
  <2>4. Judged'
    BY <1>1 DEF ObservationIInv, Judged
  <2>5. QED BY <1>1, <2>2, <2>3, <2>4 DEF ObservationIInv, Handshakes
<1>5. QED BY <1>3, <1>4 DEF VerifyChain, Keep, Lose

\* What the handshake that counts the certificates brings.
LEMMA ProbeDepthKeeps ==
    ASSUME ObservationAssumption, ObservationIInv, ProbeDepth
    PROVE  ObservationIInv'
<1>1. /\ site' = site /\ called' = called /\ day' = day /\ reported' = reported
      /\ awaited = "depth" /\ awaited' = "order" /\ missed \subseteq missed'
      /\ missed' \subseteq missed \cup {"depth"}
      /\ learned' = learned \/ learned' = [learned EXCEPT !.depth = Len(site.chain)]
  BY DEF ProbeDepth, Keep, Lose
<1>2. learned \in InfoOf(site)
  BY <1>1 DEF ObservationIInv
<1>3. /\ learned' \in InfoOf(site)
      /\ learned'.chain = learned.chain /\ learned'.scts = learned.scts /\ learned'.ocsp = learned.ocsp
      /\ learned'.order = learned.order /\ learned'.supported = learned.supported
      /\ learned'.trusted = learned.trusted
  BY <1>1, <1>2, FillingIs
<1>4. Shows'
  BY <1>1, <1>3 DEF ObservationIInv, Shows
<1>5. Judged'
  BY <1>1 DEF ObservationIInv, Judged
<1>6. QED BY <1>1, <1>3, <1>4, <1>5 DEF ObservationIInv, Handshakes

\* What the comparison of ciphers brings, when there is something to compare.
LEMMA ProbeOrderKeeps ==
    ASSUME ObservationAssumption, ObservationIInv, ProbeOrder
    PROVE  ObservationIInv'
<1>1. /\ site' = site /\ called' = called /\ day' = day /\ reported' = reported
      /\ awaited = "order" /\ awaited' = "expired"
  BY DEF ProbeOrder, Keep, Lose
<1>2. learned \in InfoOf(site) /\ learned.order = "unknown"
  BY <1>1 DEF ObservationIInv, Shows
<1>3. CASE missed' = missed \cup {"order"} /\ learned' = learned
  <2>1. Shows'
    BY <1>1, <1>2, <1>3 DEF ObservationIInv, Shows
  <2>2. Judged'
    BY <1>1 DEF ObservationIInv, Judged
  <2>3. QED BY <1>1, <1>2, <1>3, <2>1, <2>2 DEF ObservationIInv, Handshakes
<1>4. CASE /\ missed' = missed
           /\ learned' = [learned EXCEPT !.order =
                             IF "TLSv1.2" \in learned.supported THEN Truth(site.ordered) ELSE "unknown"]
  <2>1. PICK some \in {"unknown", Truth(site.ordered)} :
           some = IF "TLSv1.2" \in learned.supported THEN Truth(site.ordered) ELSE "unknown"
    OBVIOUS
  <2>2. /\ learned' \in InfoOf(site) /\ learned'.order = some
        /\ learned'.chain = learned.chain /\ learned'.scts = learned.scts /\ learned'.ocsp = learned.ocsp
        /\ learned'.supported = learned.supported /\ learned'.trusted = learned.trusted
    BY <1>2, <1>4, <2>1, FillingIs
  <2>3. Shows'
    BY <1>1, <1>4, <2>1, <2>2 DEF ObservationIInv, Shows
  <2>4. Judged'
    BY <1>1 DEF ObservationIInv, Judged
  <2>5. QED BY <1>1, <2>2, <2>3, <2>4 DEF ObservationIInv, Handshakes
<1>5. QED BY <1>3, <1>4 DEF ProbeOrder, Keep, Lose

\* The first rule on expiry: what hid the chain is reported.
LEMMA CheckExpiredKeeps ==
    ASSUME ObservationAssumption, ObservationIInv, CheckExpired
    PROVE  ObservationIInv'
<1>1. /\ site' = site /\ called' = called /\ day' = day /\ learned' = learned /\ missed' = missed
      /\ awaited = "expired" /\ awaited' = "soon"
      /\ reported' = IF certificate_expired(learned, day) THEN {"certificate_expired"} ELSE {}
  BY DEF CheckExpired
<1>2. learned \in InfoOf(site) /\ learned.notAfter = site.notAfter
  <2>1. learned \in InfoOf(site)
    BY <1>1 DEF ObservationIInv
  <2>2. QED BY <2>1 DEF InfoOf
<1>3. Shows'
  BY <1>1 DEF ObservationIInv, Shows
<1>4. "certificate_expired" \in reported' <=> site.notAfter < day
  BY <1>1, <1>2 DEF certificate_expired
<1>5. site.notAfter \in Int /\ day \in Nat
  BY DEF ObservationIInv, ObservationAssumption, IsServer
<1>6. "chain" \notin missed => learned.trusted = Truth(site.trusted) \/ site.notAfter < day
  BY <1>1 DEF ObservationIInv, Shows
<1>7. Judged'
  BY <1>1, <1>4, <1>5, <1>6 DEF Judged
<1>8. QED BY <1>1, <1>2, <1>3, <1>7 DEF ObservationIInv, Handshakes

\* The other rules.
LEMMA CheckRestKeeps ==
    ASSUME ObservationAssumption, ObservationIInv, CheckRest
    PROVE  ObservationIInv'
<1>1. /\ site' = site /\ called' = called /\ day' = day /\ learned' = learned /\ missed' = missed
      /\ awaited = "soon" /\ awaited' = "done"
      /\ reported' = reported \cup TimelessFindings(learned, called)
                       \cup IF certificate_expires_soon(learned, day) THEN {"certificate_expires_soon"} ELSE {}
  BY DEF CheckRest
<1>2. reported \subseteq {"certificate_expired"}
  BY <1>1 DEF ObservationIInv, Judged
<1>3. TimelessFindings(learned, called) \cap Expiry = {}
  BY DEF TimelessFindings, Expiry
<1>4. /\ reported' \ Expiry = TimelessFindings(learned, called)
      /\ "certificate_expires_soon" \in reported' <=> certificate_expires_soon(learned, day)
      /\ "certificate_expired" \in reported' <=> "certificate_expired" \in reported
  BY <1>1, <1>2, <1>3 DEF Expiry
<1>5. Judged'
  BY <1>1, <1>4 DEF ObservationIInv, Judged, Expiry, certificate_expires_soon
<1>6. Shows'
  BY <1>1 DEF ObservationIInv, Shows
<1>7. QED BY <1>1, <1>5, <1>6 DEF ObservationIInv, Handshakes

\* A day that passes spoils nothing, and is remembered where it might.
LEMMA TickKeeps ==
    ASSUME ObservationAssumption, ObservationIInv, Tick
    PROVE  ObservationIInv'
<1>1. /\ site' = site /\ called' = called /\ learned' = learned /\ reported' = reported
      /\ awaited' = awaited /\ awaited # "done" /\ day' = day + 1
      /\ missed' = IF awaited = "soon" THEN missed \cup {"time"} ELSE missed
  BY DEF Tick
<1>2. site.notAfter \in Int /\ day \in Nat
  BY DEF ObservationIInv, ObservationAssumption, IsServer
<1>3. Shows'
  BY <1>1, <1>2 DEF ObservationIInv, Shows
<1>4. Judged'
  BY <1>1, <1>2 DEF ObservationIInv, Judged
<1>5. QED BY <1>1, <1>2, <1>3, <1>4 DEF ObservationIInv

\* What is known of an endpoint once all handshakes were tried.
LEMMA InfoIs ==
    ASSUME NEW server, IsServer(server), NEW info \in InfoOf(server)
    PROVE  /\ info.protocol = server.protocol /\ info.cipher = server.cipher
           /\ info.subject = Leaf(server).subject /\ info.issuer = Leaf(server).issuer
           /\ info.notAfter = server.notAfter /\ info.san = server.san
           /\ info.chain \in {<<>>, ChainOf(server)}
           /\ info.ocsp \in {"unknown", Truth(server.staples)}
           /\ info.renegotiation \in {"unknown", Truth(server.renegotiation)}
           /\ info.compression \in {"none", IF server.compresses THEN "zlib" ELSE "none"}
           /\ info.aead \in {"unknown", Truth(server.cipher \in {"ECDHE-GCM", "RSA-GCM", "TLS-GCM"})}
           /\ info.supported \subseteq server.versions
           /\ info.trusted \in {"unknown", Truth(server.trusted)}
           /\ info.depth \in {0, Len(server.chain)}
           /\ info.order \in {"unknown", Truth(server.ordered)}
           /\ info.mustStaple => server.mustStaple
BY DEF InfoOf

\* The leaf is self-signed or not, whether or not the chain was seen; and what was seen of
\* the chain is the chain.
LEMMA LeafSeen ==
    ASSUME NEW server, IsServer(server), NEW info \in InfoOf(server)
    PROVE  /\ LeafSelfSigned(info) <=> Leaf(server).subject = Leaf(server).issuer
           /\ (\E k \in DOMAIN info.chain : info.chain[k].weak /\ ~info.chain[k].selfSigned) =>
                 \E k \in DOMAIN server.chain :
                    server.chain[k].weak /\ server.chain[k].subject # server.chain[k].issuer
           /\ info.chain = ChainOf(server) =>
                 ((\E k \in DOMAIN server.chain :
                      server.chain[k].weak /\ server.chain[k].subject # server.chain[k].issuer) =>
                  \E k \in DOMAIN info.chain : info.chain[k].weak /\ ~info.chain[k].selfSigned)
<1>1. 1 \in DOMAIN server.chain
  BY DEF IsServer
<1>2. PICK chain : chain = ChainOf(server)
  OBVIOUS
<1>3. \A k \in DOMAIN server.chain :
         /\ chain[k].weak = server.chain[k].weak
         /\ chain[k].selfSigned = (server.chain[k].subject = server.chain[k].issuer)
  BY <1>2 DEF ChainOf
<1>4. DOMAIN chain = DOMAIN server.chain /\ chain # <<>>
  BY <1>1, <1>2 DEF ChainOf
<1>5. /\ info.subject = Leaf(server).subject /\ info.issuer = Leaf(server).issuer
      /\ info.chain = <<>> \/ info.chain = chain
  BY <1>2, InfoIs
<1>6. LeafSelfSigned(info) <=> Leaf(server).subject = Leaf(server).issuer
  <2>1. CASE info.chain = <<>>
    BY <1>5, <2>1, Zenon DEF LeafSelfSigned
  <2>2. CASE info.chain = chain
    <3>1. LeafSelfSigned(info) <=> chain[1].selfSigned
      BY <1>4, <2>2, Zenon DEF LeafSelfSigned
    <3>2. QED BY <1>1, <1>3, <3>1, Zenon DEF Leaf
  <2>3. QED BY <1>5, <2>1, <2>2
<1>7. (\E k \in DOMAIN info.chain : info.chain[k].weak /\ ~info.chain[k].selfSigned) =>
         \E k \in DOMAIN server.chain :
            server.chain[k].weak /\ server.chain[k].subject # server.chain[k].issuer
  <2>1. CASE info.chain = <<>>
    BY <2>1
  <2>2. CASE info.chain = chain
    BY <1>3, <1>4, <2>2, Zenon
  <2>3. QED BY <1>5, <2>1, <2>2
<1>8. info.chain = chain =>
         ((\E k \in DOMAIN server.chain :
              server.chain[k].weak /\ server.chain[k].subject # server.chain[k].issuer) =>
          \E k \in DOMAIN info.chain : info.chain[k].weak /\ ~info.chain[k].selfSigned)
  BY <1>3, <1>4, ZenonT(60)
<1>9. QED BY <1>2, <1>6, <1>7, <1>8

\* What a rule reports of what was learned is so, but for what was not learned.
LEMMA FoundIsFounded ==
    ASSUME ObservationAssumption, ObservationIInv, awaited = "done",
           NEW rule \in TimelessFindings(learned, called)
    PROVE  \/ Founded(rule)
           \/ rule = "tls_1_3_not_supported" /\ "versions" \in missed
           \/ rule = "tls_ct_log_evidence_missing" /\ "observe" \in missed
           \/ rule = "cert_san_mismatch" /\ called \cap IpLiterals # {}
<1>1. IsServer(site) /\ learned \in InfoOf(site)
  BY DEF ObservationAssumption, ObservationIInv
<1>2. /\ learned.protocol = site.protocol /\ learned.cipher = site.cipher
      /\ learned.subject = Leaf(site).subject /\ learned.issuer = Leaf(site).issuer
      /\ learned.san = site.san
      /\ learned.ocsp \in {"unknown", Truth(site.staples)}
      /\ learned.renegotiation \in {"unknown", Truth(site.renegotiation)}
      /\ learned.compression \in {"none", IF site.compresses THEN "zlib" ELSE "none"}
      /\ learned.aead \in {"unknown", Truth(site.cipher \in {"ECDHE-GCM", "RSA-GCM", "TLS-GCM"})}
      /\ learned.supported \subseteq site.versions
      /\ learned.trusted \in {"unknown", Truth(site.trusted)}
      /\ learned.depth \in {0, Len(site.chain)}
      /\ learned.order \in {"unknown", Truth(site.ordered)}
  BY <1>1, InfoIs
<1>3. \A d \in Deserved(site, called) : Founded(d)
  BY DEF Founded
<1>4. CASE rule = "tls_certificate_self_signed"
  BY <1>2, <1>3, <1>4 DEF TimelessFindings, tls_certificate_self_signed, Deserved
<1>5. CASE rule = "tls_1_0_supported"
  BY <1>2, <1>3, <1>5 DEF TimelessFindings, tls_1_0_supported, Deserved
<1>6. CASE rule = "tls_1_1_supported"
  BY <1>2, <1>3, <1>6 DEF TimelessFindings, tls_1_1_supported, Deserved
<1>7. CASE rule = "tls_1_3_not_supported"
  <2>1. "TLSv1.3" \notin learned.supported
    BY <1>7 DEF TimelessFindings, tls_1_3_not_supported
  <2>2. "versions" \notin missed => learned.supported = site.versions
    BY DEF ObservationIInv, Shows
  <2>3. QED BY <1>3, <1>7, <2>1, <2>2 DEF Deserved
<1>8. CASE rule = "weak_cipher_suite"
  BY <1>2, <1>3, <1>8 DEF TimelessFindings, weak_cipher_suite, Deserved
<1>9. CASE rule = "tls_forward_secrecy_not_observed"
  <2>1. Outdated(site)
    BY <1>2, <1>9 DEF TimelessFindings, tls_forward_secrecy_not_observed, Outdated
  <2>2. QED BY <1>9, <2>1 DEF Founded
<1>10. CASE rule = "tls_server_cipher_preference_not_observed"
  <2>1. learned.order = "no"
    BY <1>10 DEF TimelessFindings, tls_server_cipher_preference_not_observed
  <2>2. "TLSv1.2" \in site.versions
    BY <1>2, <2>1 DEF ObservationIInv, Shows
  <2>3. ~site.ordered
    BY <1>2, <2>1 DEF Truth
  <2>4. QED BY <1>3, <1>10, <2>2, <2>3 DEF Deserved
<1>11. CASE rule = "tls_secure_renegotiation_not_observed"
  <2>1. Outdated(site)
    BY <1>2, <1>11
       DEF TimelessFindings, tls_secure_renegotiation_not_observed, Tls12OrEarlier, Truth, Outdated
  <2>2. QED BY <1>11, <2>1 DEF Founded
<1>12. CASE rule = "tls_negotiated_compression"
  <2>1. Outdated(site)
    BY <1>2, <1>12 DEF TimelessFindings, tls_negotiated_compression, Tls12OrEarlier, Outdated
  <2>2. QED BY <1>12, <2>1 DEF Founded
<1>13. CASE rule = "tls_aead_cipher_not_negotiated"
  <2>1. Outdated(site)
    BY <1>2, <1>13 DEF TimelessFindings, tls_aead_cipher_not_negotiated, Tls12OrEarlier, Truth, Outdated
  <2>2. QED BY <1>13, <2>1 DEF Founded
<1>14. CASE rule \in {"ocsp_stapling_not_observed", "tls_must_staple_not_observed"}
  <2>1. learned.ocsp = "no" /\ (rule = "tls_must_staple_not_observed" => learned.mustStaple)
    BY <1>14 DEF TimelessFindings, ocsp_stapling_not_observed, tls_must_staple_not_observed
  <2>2. ~site.staples
    BY <1>2, <2>1 DEF Truth
  <2>3. rule = "tls_must_staple_not_observed" => site.mustStaple
    <3>1. learned.mustStaple => site.mustStaple
      BY <1>1, InfoIs
    <3>2. QED BY <2>1, <3>1, Zenon
  <2>4. rule = "ocsp_stapling_not_observed" => rule \in Deserved(site, called)
    BY <2>2 DEF Deserved
  <2>5. QED BY <1>3, <1>14, <2>2, <2>3, <2>4, Zenon DEF Founded
<1>15. CASE rule = "cert_chain_incomplete"
  <2>1. learned.trusted = "no"
    BY <1>15 DEF TimelessFindings, cert_chain_incomplete
  <2>2. ~site.trusted
    BY <1>2, <2>1 DEF Truth
  <2>3. QED BY <1>3, <1>15, <2>2 DEF Deserved
<1>16. CASE rule = "cert_chain_length_unusual"
  <2>1. learned.depth = 1 \/ learned.depth > MaxDepth
    BY <1>16 DEF TimelessFindings, cert_chain_length_unusual
  <2>2. MaxDepth \in Nat
    BY DEF ObservationAssumption
  <2>3. Len(site.chain) = 1 \/ Len(site.chain) > MaxDepth
    <3>1. learned.depth \in {0, Len(site.chain)}
      BY <1>2, Zenon
    <3>2. learned.depth # 0
      BY <2>1, <2>2
    <3>3. QED BY <2>1, <3>1, <3>2
  <2>4. QED BY <1>16, <2>3 DEF Founded
<1>17. CASE rule = "tls_ct_log_evidence_missing"
  <2>1. ~LeafSelfSigned(learned) /\ ~learned.scts
    BY <1>17 DEF TimelessFindings, tls_ct_log_evidence_missing
  <2>2. Leaf(site).subject # Leaf(site).issuer
    BY <1>1, <2>1, LeafSeen
  <2>3. "observe" \notin missed => learned.scts = site.scts
    BY DEF ObservationIInv, Shows
  <2>4. "observe" \notin missed => ~site.scts
    BY <2>1, <2>3, Zenon
  <2>5. QED BY <1>3, <1>17, <2>2, <2>4 DEF Deserved
<1>18. CASE rule = "tls_weak_signature_algorithm"
  <2>1. /\ ~LeafSelfSigned(learned)
        /\ \E k \in DOMAIN learned.chain : learned.chain[k].weak /\ ~learned.chain[k].selfSigned
    BY <1>18 DEF TimelessFindings, tls_weak_signature_algorithm
  <2>2. /\ Leaf(site).subject # Leaf(site).issuer
        /\ \E k \in DOMAIN site.chain : site.chain[k].weak /\ site.chain[k].subject # site.chain[k].issuer
    BY <1>1, <2>1, LeafSeen
  <2>3. QED BY <1>3, <1>18, <2>2 DEF Deserved
<1>19. CASE rule = "cert_san_mismatch"
  <2>1. ~AllCovered(called, site.san)
    BY <1>2, <1>19 DEF TimelessFindings, cert_san_mismatch
  <2>2. PICK name \in called : ~\E entry \in site.san : Covers(entry, name)
    BY <2>1 DEF AllCovered
  <2>3. name \in Seq(STRING) \ {<<>>}
    BY DEF ObservationAssumption, ObservationIInv
  <2>4. CASE name \in IpLiterals
    BY <1>19, <2>2, <2>4
  <2>5. CASE name \notin IpLiterals
    <3>1. ~Named(site, name)
      BY <1>1, <2>2, <2>3, <2>5, NamingIs
    <3>2. QED BY <1>3, <1>19, <2>2, <3>1 DEF Deserved
  <2>6. QED BY <2>4, <2>5
<1>20. rule \in {"tls_certificate_self_signed", "tls_1_0_supported", "tls_1_1_supported",
                 "tls_1_3_not_supported", "weak_cipher_suite", "tls_forward_secrecy_not_observed",
                 "tls_server_cipher_preference_not_observed", "tls_secure_renegotiation_not_observed",
                 "tls_negotiated_compression", "tls_aead_cipher_not_negotiated",
                 "ocsp_stapling_not_observed", "cert_chain_incomplete", "cert_chain_length_unusual",
                 "tls_ct_log_evidence_missing", "tls_weak_signature_algorithm",
                 "tls_must_staple_not_observed", "cert_san_mismatch"}
  BY DEF TimelessFindings
<1>21. QED BY <1>4, <1>5, <1>6, <1>7, <1>8, <1>9, <1>10, <1>11, <1>12, <1>13, <1>14, <1>15, <1>16,
              <1>17, <1>18, <1>19, <1>20

\* What is wrong with an endpoint is among what the rules find, when no handshake was lost.
LEMMA DeservedIsReported ==
    ASSUME ObservationAssumption, ObservationIInv, awaited = "done", missed \subseteq {"time"},
           NEW rule \in Deserved(site, called)
    PROVE  \/ rule \in reported
           \/ rule = "cert_chain_incomplete" /\ "certificate_expired" \in reported
           \/ rule = "cert_san_mismatch" /\ (site.san = {} \/ called \subseteq IpLiterals)
<1>1. IsServer(site) /\ learned \in InfoOf(site)
  BY DEF ObservationAssumption, ObservationIInv
<1>2. /\ learned.cipher = site.cipher /\ learned.san = site.san
      /\ learned.subject = Leaf(site).subject /\ learned.issuer = Leaf(site).issuer
  BY <1>1, InfoIs
<1>3. /\ learned.chain = ChainOf(site) /\ learned.ocsp = Truth(site.staples)
      /\ learned.supported = site.versions
      /\ "certificate_expired" \notin reported => learned.trusted = Truth(site.trusted)
      /\ "TLSv1.2" \in learned.supported => learned.order = Truth(site.ordered)
      /\ TimelessFindings(learned, called) \subseteq reported
  BY DEF ObservationIInv, Shows, Judged
<1>4. learned.scts = site.scts
  BY DEF ObservationIInv, Shows
<1>5. SUFFICES \/ rule \in TimelessFindings(learned, called)
               \/ rule = "cert_chain_incomplete" /\ "certificate_expired" \in reported
               \/ rule = "cert_san_mismatch" /\ (site.san = {} \/ called \subseteq IpLiterals)
  BY <1>3
<1>6. CASE rule = "tls_certificate_self_signed"
  BY <1>2, <1>6 DEF TimelessFindings, tls_certificate_self_signed, Deserved
<1>7. CASE rule = "tls_1_0_supported"
  BY <1>3, <1>7 DEF TimelessFindings, tls_1_0_supported, Deserved
<1>8. CASE rule = "tls_1_1_supported"
  BY <1>3, <1>8 DEF TimelessFindings, tls_1_1_supported, Deserved
<1>9. CASE rule = "tls_1_3_not_supported"
  <2>1. learned.supported = site.versions
    BY <1>3, Zenon
  <2>2. "TLSv1.3" \notin learned.supported
    BY <1>9, <2>1 DEF Deserved
  <2>3. learned.supported # {}
    <3>1. site.versions \in (SUBSET Versions) \ {{}}
      BY <1>1, Zenon DEF IsServer
    <3>2. QED BY <2>1, <3>1, Zenon
  <2>4. QED BY <1>9, <2>2, <2>3 DEF TimelessFindings, tls_1_3_not_supported
<1>10. CASE rule = "weak_cipher_suite"
  BY <1>2, <1>10 DEF TimelessFindings, weak_cipher_suite, Deserved
<1>11. CASE rule = "ocsp_stapling_not_observed"
  BY <1>3, <1>11 DEF TimelessFindings, ocsp_stapling_not_observed, Deserved, Truth
<1>12. CASE rule = "cert_chain_incomplete"
  <2>1. ~site.trusted
    BY <1>12 DEF Deserved
  <2>2. CASE "certificate_expired" \notin reported
    BY <1>3, <1>12, <2>1, <2>2 DEF TimelessFindings, cert_chain_incomplete, Truth
  <2>3. QED BY <1>12, <2>2
<1>13. CASE rule = "tls_server_cipher_preference_not_observed"
  <2>1. "TLSv1.2" \in site.versions /\ ~site.ordered
    BY <1>13 DEF Deserved
  <2>2. learned.order = "no"
    BY <1>3, <2>1 DEF Truth
  <2>3. QED BY <1>13, <2>2 DEF TimelessFindings, tls_server_cipher_preference_not_observed
<1>14. CASE rule = "tls_ct_log_evidence_missing"
  <2>1. Leaf(site).subject # Leaf(site).issuer /\ ~site.scts
    BY <1>14 DEF Deserved
  <2>2. ~LeafSelfSigned(learned)
    BY <1>1, <2>1, LeafSeen
  <2>3. ~learned.scts
    BY <1>4, <2>1, Zenon
  <2>4. QED BY <1>14, <2>2, <2>3 DEF TimelessFindings, tls_ct_log_evidence_missing
<1>15. CASE rule = "tls_weak_signature_algorithm"
  <2>1. /\ Leaf(site).subject # Leaf(site).issuer
        /\ \E k \in DOMAIN site.chain : site.chain[k].weak /\ site.chain[k].subject # site.chain[k].issuer
    BY <1>15 DEF Deserved
  <2>2. ~LeafSelfSigned(learned)
    BY <1>1, <2>1, LeafSeen
  <2>3. \E k \in DOMAIN learned.chain : learned.chain[k].weak /\ ~learned.chain[k].selfSigned
    BY <1>1, <1>3, <2>1, LeafSeen
  <2>4. QED BY <1>15, <2>2, <2>3 DEF TimelessFindings, tls_weak_signature_algorithm
<1>16. CASE rule = "cert_san_mismatch"
  <2>1. PICK name \in called : ~Named(site, name)
    BY <1>16 DEF Deserved
  <2>2. name \in Seq(STRING) \ {<<>>}
    BY DEF ObservationAssumption, ObservationIInv
  <2>3. ~AllCovered(called, learned.san)
    BY <1>1, <1>2, <2>1, <2>2, NamingIs DEF AllCovered
  <2>4. CASE site.san # {} /\ ~(called \subseteq IpLiterals)
    BY <1>2, <1>16, <2>3, <2>4 DEF TimelessFindings, cert_san_mismatch
  <2>5. QED BY <1>16, <2>4
<1>17. rule \in {"tls_certificate_self_signed", "tls_1_0_supported", "tls_1_1_supported",
                 "tls_1_3_not_supported", "weak_cipher_suite", "ocsp_stapling_not_observed",
                 "cert_chain_incomplete", "tls_ct_log_evidence_missing",
                 "tls_weak_signature_algorithm", "cert_san_mismatch",
                 "tls_server_cipher_preference_not_observed"}
  BY DEF Deserved
<1>18. QED BY <1>6, <1>7, <1>8, <1>9, <1>10, <1>11, <1>12, <1>13, <1>14, <1>15, <1>16, <1>17

\* What was reported of an endpoint follows from what was learned of it.
LEMMA ObservationIInvExact ==
    ASSUME ObservationAssumption, ObservationIInv
    PROVE  TlsFindingsAreExact
<1>1. ProblemsAreReported
  BY DeservedIsReported DEF ProblemsAreReported, Looked
<1>2. FindingsAreTrue
  <2>1. SUFFICES ASSUME Looked, NEW r \in reported \ {"certificate_expired", "certificate_expires_soon"}
                 PROVE  \/ Founded(r)
                        \/ r = "tls_1_3_not_supported" /\ "versions" \in missed
                        \/ r = "tls_ct_log_evidence_missing" /\ "observe" \in missed
                        \/ r = "cert_san_mismatch" /\ called \cap IpLiterals # {}
    BY DEF FindingsAreTrue
  <2>2. r \in TimelessFindings(learned, called)
    BY <2>1 DEF Looked, ObservationIInv, Judged, Expiry
  <2>3. QED BY <2>1, <2>2, FoundIsFounded DEF Looked
<1>3. ExpiryIsReported
  <2>1. SUFFICES ASSUME Looked
                 PROVE  /\ ~(Expiry \subseteq reported)
                        /\ site.notAfter - day <= Soon =>
                              Expiry \cap reported # {} \/ ("time" \in missed /\ site.notAfter < day)
                        /\ Expiry \cap reported # {} => site.notAfter - day <= Soon
    BY DEF ExpiryIsReported, Expiry
  <2>2. IsServer(site) /\ learned \in InfoOf(site) /\ day \in Nat /\ Soon \in Nat
    BY <2>1 DEF ObservationAssumption, ObservationIInv, Looked
  <2>3. learned.notAfter = site.notAfter
    BY <2>2, InfoIs
  <2>4. site.notAfter \in Int
    BY <2>2 DEF IsServer
  <2>5. /\ "certificate_expires_soon" \in reported <=>
              site.notAfter >= day /\ site.notAfter - day <= Soon
        /\ "certificate_expired" \in reported => site.notAfter < day
        /\ "certificate_expired" \notin reported /\ "time" \notin missed => site.notAfter >= day
    BY <2>1, <2>3 DEF Looked, ObservationIInv, Judged, certificate_expires_soon
  <2>6. QED BY <2>2, <2>4, <2>5 DEF Expiry
<1>4. QED BY <1>1, <1>2, <1>3 DEF TlsFindingsAreExact

\* For every endpoint, whatever is asked about it, whichever handshakes are lost and however
\* time passes: what is wrong is reported when nothing was lost; what is reported is so, but
\* for two rules that take a lost handshake for an answer and one that looks for an address
\* among DNS names; and an expiry is reported once, unless it falls between the two rules.
THEOREM FindingsAreExact ==
    ASSUME ObservationAssumption PROVE ObservationSpec => []TlsFindingsAreExact
<1>1. ObservationInit => ObservationIInv
  BY ObservationStarts
<1>2. ObservationIInv /\ [ObservationNext]_observationVars => ObservationIInv'
  <2>1. ObservationIInv /\ UNCHANGED observationVars => ObservationIInv'
    BY DEF ObservationIInv, Shows, Judged, observationVars
  <2>2. QED BY <2>1, ObserveKeeps, ProbeVersionsKeeps, VerifyChainKeeps, ProbeDepthKeeps,
               ProbeOrderKeeps, CheckExpiredKeeps, CheckRestKeeps, TickKeeps DEF ObservationNext
<1>3. ObservationIInv => TlsFindingsAreExact
  BY ObservationIInvExact
<1>4. QED BY <1>1, <1>2, <1>3, PTL DEF ObservationSpec

=============================================================================
