----------------------- MODULE ExecutionManifest_proofs -----------------------
(***************************************************************************)
(* What the recorder's methods do to its selection and its events, for     *)
(* every set of rules: the lemmas that the proofs about its users cite.    *)
(***************************************************************************)
EXTENDS ExecutionManifest, WellFoundedInduction, TLAPS

RecorderValue == [selected : Seq(Rule), terminal : [Rule -> Event \cup {NoEvent}]]

\* A recorder whose selection repeats nothing and whose events are about the rule
\* they are filed under.
SoundRecorder(R) ==
    /\ R \in RecorderValue
    /\ SelectedOnce(R)
    /\ \A r \in Rule : R.terminal[r] \in EventOf(r) \cup {NoEvent}

(***************************************************************************)
(* Induction over the naturals, as the least element of a set of           *)
(* counterexamples.                                                        *)
(***************************************************************************)
\* Every nonempty set of numbers has a least one (WellFoundedInduction).
LEMMA LeastElement ==
    ASSUME NEW T \in SUBSET Nat, T # {}
    PROVE  \E n \in T : \A m \in T : n =< m
<1> DEFINE R == OpToRel(<, Nat)
<1>1. IsWellFoundedOn(R, Nat)
  BY NatLessThanWellFounded
<1>2. \A x, y \in Nat : <<y, x>> \in R <=> y < x
  BY DEF OpToRel
<1> HIDE DEF R
<1>3. T \subseteq Nat
  OBVIOUS
<1>4. PICK n \in T : \A m \in T : <<m, n>> \notin R
  BY <1>1, <1>3, WFMin
<1>5. \A m \in T : ~(m < n)
  BY <1>2, <1>3, <1>4
<1>6. \A m \in T : n =< m
  BY <1>3, <1>5
<1>7. QED BY <1>6

\* A set that holds 0 and with each i < n also i + 1 holds n.
LEMMA UpTo ==
    ASSUME NEW n \in Nat, NEW H, 0 \in H, \A i \in 0..n - 1 : i \in H => i + 1 \in H
    PROVE  n \in H
<1> SUFFICES ASSUME n \notin H PROVE FALSE
  OBVIOUS
<1>1. PICK k \in (0..n) \ H : \A m \in (0..n) \ H : k =< m
  <2>1. (0..n) \ H \in SUBSET Nat /\ n \in (0..n) \ H
    OBVIOUS
  <2>2. QED BY <2>1, LeastElement
<1>2. k # 0 /\ k - 1 \in 0..n - 1 /\ k - 1 \notin (0..n) \ H
  BY <1>1
<1>3. QED BY <1>1, <1>2

(***************************************************************************)
(* _record_terminal.                                                       *)
(***************************************************************************)
\* The first event of a rule is always kept, a held failure always stays one.
LEMMA ReduceEnds ==
    ASSUME NEW r \in Rule, NEW existing \in EventOf(r), NEW event \in EventOf(r)
    PROVE  /\ Reduce(NoEvent, event) = event
           /\ existing.state = "failed" => Reduce(existing, event).state = "failed"
<1>1. Reduce(NoEvent, event) = event
  BY DEF Reduce
<1>2. existing.state = "failed" => Reduce(existing, event).state = "failed"
  BY DEF EventOf, Completed, Failed, Skipped, Reason, ReasonOrder, NoEvent, Reduce
<1>3. QED BY <1>1, <1>2

\* Failures win over completions, and completions over skips and nothing; a skip is
\* kept only where nothing else was held.
LEMMA ReduceStates ==
    ASSUME NEW r \in Rule, NEW held \in EventOf(r) \cup {NoEvent}, NEW event \in EventOf(r)
    PROVE  /\ Reduce(held, event) \in EventOf(r)
           /\ Reduce(held, event) \in {held, event}
           /\ event = Failed(r) => Reduce(held, event) = Failed(r)
           /\ event = Completed =>
                  Reduce(held, event) = IF held.state = "failed" THEN held ELSE Completed
           /\ event.state = "skipped" =>
                  /\ held.state \in {"failed", "completed"} => Reduce(held, event) = held
                  /\ held.state \in {"none", "skipped"} => Reduce(held, event).state = "skipped"
BY DEF EventOf, Completed, Failed, Skipped, Reason, ReasonOrder, NoEvent, Reduce

\* The states an event may have.
LEMMA EventStates ==
    ASSUME NEW r \in Rule, NEW event \in EventOf(r)
    PROVE  /\ event # NoEvent /\ event \in Event
           /\ event.state \in {"failed", "completed", "skipped"}
           /\ event.state = "failed" => event = Failed(r)
           /\ event.state = "completed" => event = Completed
           /\ event.state = "skipped" => event.detail \in Reason /\ event = Skipped(event.detail)
BY DEF EventOf, Event, Completed, Failed, Skipped, Reason, NoEvent

(***************************************************************************)
(* The methods.                                                            *)
(***************************************************************************)
Elems(s) == {s[i] : i \in 1..Len(s)}
Once(s)  == \A i, j \in 1..Len(s) : s[i] = s[j] => i = j

\* Appending what a sequence without repetitions does not hold.
LEMMA AppendOnce ==
    ASSUME NEW s \in Seq(Rule), NEW r \in Rule, r \notin Elems(s), Once(s)
    PROVE  LET t == Append(s, r) IN
           /\ t \in Seq(Rule)
           /\ Elems(t) = Elems(s) \cup {r}
           /\ Once(t)
<1> DEFINE t == Append(s, r)
<1>1. /\ t \in Seq(Rule)
      /\ Len(t) = Len(s) + 1 /\ Len(s) \in Nat
      /\ \A i \in 1..Len(s) : t[i] = s[i]
      /\ t[Len(t)] = r
  OBVIOUS
<1> HIDE DEF t
<1>2. Elems(t) = Elems(s) \cup {r}
  BY <1>1 DEF Elems
<1>3. Once(t)
  BY <1>1 DEF Elems, Once
<1>4. QED BY <1>1, <1>2, <1>3 DEF t

\* Select adds exactly the rule asked for and never adds it twice.
LEMMA SelectAddsOnce ==
    ASSUME NEW R \in RecorderValue, NEW r \in Rule, SelectedOnce(R)
    PROVE  /\ Select(R, r) \in RecorderValue
           /\ Select(R, r).terminal = R.terminal
           /\ SelectedSet(Select(R, r)) = SelectedSet(R) \cup {r}
           /\ SelectedOnce(Select(R, r))
<1>1. CASE r \in SelectedSet(R)
  BY <1>1 DEF Select
<1>2. CASE r \notin SelectedSet(R)
  <2> DEFINE S == Append(R.selected, r)
  <2>1. R.selected \in Seq(Rule)
    BY DEF RecorderValue
  <2>2. /\ S \in Seq(Rule)
        /\ Elems(S) = SelectedSet(R) \cup {r}
        /\ Once(S)
    <3>1. SelectedSet(R) = Elems(R.selected) /\ Once(R.selected)
      BY DEF SelectedSet, SelectedOnce, Elems, Once
    <3>2. QED BY <1>2, <2>1, <3>1, AppendOnce
  <2>3. Select(R, r) = [R EXCEPT !.selected = S]
    BY <1>2 DEF Select
  <2> HIDE DEF S
  <2>4. /\ Select(R, r).selected = S
        /\ Select(R, r).terminal = R.terminal
        /\ Select(R, r) \in RecorderValue
    BY <2>2, <2>3 DEF RecorderValue
  <2>5. SelectedSet(Select(R, r)) = SelectedSet(R) \cup {r}
    <3>1. SelectedSet(Select(R, r)) = Elems(S)
      BY <2>4 DEF SelectedSet, Elems
    <3>2. QED BY <2>2, <3>1
  <2>6. SelectedOnce(Select(R, r))
    BY <2>2, <2>4 DEF SelectedOnce, Once
  <2>7. QED BY <2>4, <2>5, <2>6
<1>3. QED BY <1>1, <1>2

\* A recorder call files the reduced event under its rule, which it selects.
LEMMA RecordAdds ==
    ASSUME NEW R, SoundRecorder(R), NEW r \in Rule, NEW event \in EventOf(r)
    PROVE  /\ SoundRecorder(Record(R, r, event))
           /\ SelectedSet(Record(R, r, event)) = SelectedSet(R) \cup {r}
           /\ Record(R, r, event).terminal
                = [R.terminal EXCEPT ![r] = Reduce(R.terminal[r], event)]
<1> DEFINE S == Select(R, r)
           new == Reduce(R.terminal[r], event)
           T == [S EXCEPT !.terminal[r] = new]
<1>1. R \in RecorderValue /\ SelectedOnce(R)
  BY DEF SoundRecorder
<1>2. /\ S \in RecorderValue /\ S.terminal = R.terminal
      /\ SelectedSet(S) = SelectedSet(R) \cup {r} /\ SelectedOnce(S)
  BY <1>1, SelectAddsOnce
<1>3. new \in EventOf(r) /\ new \in Event
  BY ReduceStates, EventStates DEF SoundRecorder
<1>4. Record(R, r, event) = T
  BY <1>2 DEF Record
<1> HIDE DEF S, new
<1>5. T = [selected |-> S.selected, terminal |-> [R.terminal EXCEPT ![r] = new]]
  BY <1>2 DEF RecorderValue
<1>6. /\ T.selected = S.selected
      /\ T.terminal = [R.terminal EXCEPT ![r] = new]
      /\ T \in RecorderValue
  <2>1. R.terminal \in [Rule -> Event \cup {NoEvent}]
    BY <1>1 DEF RecorderValue
  <2>2. [R.terminal EXCEPT ![r] = new] \in [Rule -> Event \cup {NoEvent}]
    BY <1>3, <2>1
  <2>3. QED BY <1>2, <1>5, <2>2 DEF RecorderValue
<1>7. \A q \in Rule : T.terminal[q] \in EventOf(q) \cup {NoEvent}
  BY <1>1, <1>3, <1>6 DEF SoundRecorder, RecorderValue
<1>8. SelectedSet(T) = SelectedSet(S) /\ (SelectedOnce(T) <=> SelectedOnce(S))
  BY <1>6 DEF SelectedSet, SelectedOnce
<1>9. QED BY <1>2, <1>4, <1>6, <1>7, <1>8 DEF SoundRecorder, new

\* The loop of select_many: the recursive function that describes it exists.
Loop(n, Start, order, new, g) ==
    [i \in 0..n |-> IF i = 0 THEN Start
                    ELSE IF order[i] \in new THEN Append(g[i - 1], order[i])
                    ELSE g[i - 1]]

\* There is a solution up to 0, and one up to m can be continued to m + 1.
LEMMA LoopExists ==
    ASSUME NEW n \in Nat, NEW Start, NEW order, NEW new
    PROVE  \E g : g = Loop(n, Start, order, new, g)
<1> DEFINE Step(g, i) == IF order[i] \in new THEN Append(g[i - 1], order[i]) ELSE g[i - 1]
           Solves(g, m) == /\ g = [i \in 0..m |-> g[i]]
                           /\ g[0] = Start
                           /\ \A i \in 1..m : g[i] = Step(g, i)
           H == {m \in 0..n : \E g : Solves(g, m)}
<1>1. 0 \in H
  <2> DEFINE g == [i \in 0..0 |-> Start]
  <2>1. g = [i \in 0..0 |-> g[i]] /\ g[0] = Start
    OBVIOUS
  <2>2. Solves(g, 0)
    BY <2>1
  <2> HIDE DEF Solves, g
  <2>3. 0 \in 0..n
    OBVIOUS
  <2>4. QED BY <2>2, <2>3
<1>2. \A m \in 0..n - 1 : m \in H => m + 1 \in H
  <2> SUFFICES ASSUME NEW m \in 0..n - 1, m \in H PROVE m + 1 \in H
    OBVIOUS
  <2>1. PICK g : Solves(g, m)
    OBVIOUS
  <2> DEFINE last == IF order[m + 1] \in new THEN Append(g[m], order[m + 1]) ELSE g[m]
             h == [i \in 0..m + 1 |-> IF i = m + 1 THEN last ELSE g[i]]
  <2>2. m \in Nat /\ m + 1 \in 0..n
    OBVIOUS
  <2>3. /\ h = [i \in 0..m + 1 |-> h[i]] /\ h[m + 1] = last
        /\ \A i \in 0..m : h[i] = g[i]
    BY <2>2
  <2> HIDE DEF h
  <2>4. h[0] = Start
    <3>1. 0 \in 0..m
      BY <2>2
    <3>2. g[0] = Start
      BY <2>1
    <3>3. QED BY <2>3, <3>1, <3>2
  <2>5. \A i \in 1..m + 1 : h[i] = Step(h, i)
    <3> SUFFICES ASSUME NEW i \in 1..m + 1 PROVE h[i] = Step(h, i)
      OBVIOUS
    <3>1. CASE i = m + 1
      <4>1. i - 1 = m
        BY <2>2, <3>1
      <4>2. m \in 0..m
        BY <2>2
      <4>3. h[i - 1] = g[m]
        BY <2>3, <4>1, <4>2
      <4>4. order[i] = order[m + 1] /\ h[i] = last
        BY <2>3, <3>1
      <4>5. QED BY <4>3, <4>4
    <3>2. CASE i # m + 1
      <4>1. i \in 1..m /\ i - 1 \in 0..m /\ i \in 0..m
        BY <2>2, <3>2
      <4>2. h[i] = g[i] /\ h[i - 1] = g[i - 1]
        BY <2>3, <4>1
      <4>3. QED BY <2>1, <4>1, <4>2
    <3>3. QED BY <3>1, <3>2
  <2>6. Solves(h, m + 1)
    BY <2>3, <2>4, <2>5
  <2> HIDE DEF Solves
  <2>7. QED BY <2>2, <2>6
<1>3. n \in H
  <2> HIDE DEF H
  <2>1. QED BY <1>1, <1>2, UpTo
<1>4. PICK g : Solves(g, n)
  BY <1>3
<1> DEFINE f == [i \in 0..n |-> IF i = 0 THEN Start ELSE Step(g, i)]
<1>5. \A i \in 0..n : g[i] = f[i]
  <2> SUFFICES ASSUME NEW i \in 0..n PROVE g[i] = f[i]
    OBVIOUS
  <2>1. f[i] = IF i = 0 THEN Start ELSE Step(g, i)
    OBVIOUS
  <2>2. i = 0 \/ (i # 0 /\ i \in 1..n)
    OBVIOUS
  <2> HIDE DEF f
  <2>3. QED BY <1>4, <2>1, <2>2
<1>6. f = [i \in 0..n |-> f[i]]
  OBVIOUS
<1> HIDE DEF f
<1>7. g = f
  BY <1>4, <1>5, <1>6
<1>8. QED BY <1>7 DEF f, Loop

\* What the loop holds after its last turn.
LEMMA LoopAdds ==
    ASSUME NEW n \in Nat, NEW Start \in Seq(Rule), NEW order \in [1..n -> Rule], NEW new,
           NEW sel,
           sel = Loop(n, Start, order, new, sel),
           \A i, j \in 1..n : order[i] = order[j] => i = j,
           Once(Start), new \cap Elems(Start) = {}
    PROVE  /\ sel[n] \in Seq(Rule) /\ Once(sel[n])
           /\ Elems(sel[n]) = Elems(Start) \cup ({order[k] : k \in 1..n} \cap new)
<1> DEFINE Chosen(i) == {order[k] : k \in 1..i} \cap new
           Good(i) == /\ sel[i] \in Seq(Rule)
                      /\ Elems(sel[i]) = Elems(Start) \cup Chosen(i)
                      /\ Once(sel[i])
           H == {i \in 0..n : Good(i)}
<1>0. sel[0] = Start /\ \A i \in 1..n :
         sel[i] = IF order[i] \in new THEN Append(sel[i - 1], order[i]) ELSE sel[i - 1]
  <2> DEFINE b == Loop(n, Start, order, new, sel)
  <2>1. /\ 0 \in 0..n
        /\ \A i \in 1..n : i \in 0..n /\ i # 0
    OBVIOUS
  <2>2. b[0] = Start /\ \A i \in 1..n :
           b[i] = IF order[i] \in new THEN Append(sel[i - 1], order[i]) ELSE sel[i - 1]
    BY <2>1 DEF Loop
  <2>3. sel = b
    OBVIOUS
  <2> HIDE DEF b
  <2>4. QED BY <2>2, <2>3
<1>1. 0 \in H
  <2>1. Chosen(0) = {} /\ 0 \in 0..n
    OBVIOUS
  <2>2. Good(0)
    BY <1>0, <2>1
  <2>3. QED BY <2>1, <2>2
<1>2. \A m \in 0..n - 1 : m \in H => m + 1 \in H
  <2> SUFFICES ASSUME NEW m \in 0..n - 1, m \in H PROVE m + 1 \in H
    OBVIOUS
  <2> DEFINE x == order[m + 1]
  <2>1. m + 1 \in 1..n /\ m + 1 \in 0..n /\ m + 1 - 1 = m /\ m \in Nat
    OBVIOUS
  <2>2. Chosen(m + 1) = Chosen(m) \cup ({x} \cap new)
    <3>1. 1..m + 1 = 1..m \cup {m + 1}
      BY <2>1
    <3>2. QED BY <3>1
  <2>3. x \notin Chosen(m)
    <3>1. \A k \in 1..m : k \in 1..n /\ k # m + 1
      BY <2>1
    <3>2. QED BY <2>1, <3>1
  <2>4. sel[m + 1] = IF x \in new THEN Append(sel[m], x) ELSE sel[m]
    BY <1>0, <2>1
  <2>5. Good(m) /\ x \in Rule
    BY <2>1
  <2> HIDE DEF Chosen, x
  <2>6. CASE x \in new
    <3>1. sel[m + 1] = Append(sel[m], x)
      BY <2>4, <2>6
    <3>2. x \notin Elems(sel[m])
      BY <2>3, <2>5, <2>6
    <3>3. /\ sel[m + 1] \in Seq(Rule)
          /\ Elems(sel[m + 1]) = Elems(sel[m]) \cup {x}
          /\ Once(sel[m + 1])
      BY <2>5, <3>1, <3>2, AppendOnce
    <3>4. Good(m + 1)
      BY <2>2, <2>5, <2>6, <3>3
    <3> HIDE DEF Good
    <3>5. QED BY <2>1, <3>4
  <2>7. CASE x \notin new
    <3>1. sel[m + 1] = sel[m]
      BY <2>4, <2>7
    <3>2. Good(m + 1)
      BY <2>2, <2>5, <2>7, <3>1
    <3> HIDE DEF Good
    <3>3. QED BY <2>1, <3>2
  <2>8. QED BY <2>6, <2>7
<1>3. n \in H
  <2> HIDE DEF H
  <2>1. QED BY <1>1, <1>2, UpTo
<1>4. QED BY <1>3

\* An order that holds each chosen rule, and no rule twice.
Enumerates(order, chosen) ==
    /\ order \in Seq(Rule)
    /\ \A i, j \in DOMAIN order : order[i] = order[j] => i = j
    /\ chosen \subseteq {order[i] : i \in DOMAIN order}

\* The loop of select_many selects each chosen rule once and nothing else.
LEMMA SelectManyAdds ==
    ASSUME NEW R, SoundRecorder(R), NEW order, NEW chosen, Enumerates(order, chosen)
    PROVE  /\ SelectMany(R, order, chosen) \in RecorderValue
           /\ SelectMany(R, order, chosen).terminal = R.terminal
           /\ SelectedSet(SelectMany(R, order, chosen)) = SelectedSet(R) \cup chosen
           /\ SelectedOnce(SelectMany(R, order, chosen))
<1> DEFINE n == Len(order)
           new == chosen \ SelectedSet(R)
           Start == R.selected
           sel == CHOOSE g : g = Loop(n, Start, order, new, g)
<1>1. /\ n \in Nat /\ DOMAIN order = 1..n /\ order \in [1..n -> Rule]
      /\ Start \in Seq(Rule) /\ Elems(Start) = SelectedSet(R) /\ Once(Start)
  BY DEF SoundRecorder, RecorderValue, SelectedSet, SelectedOnce, Elems, Once, Enumerates
<1>2. SelectMany(R, order, chosen) = [R EXCEPT !.selected = sel[n]]
  BY DEF SelectMany, Loop
<1> HIDE DEF n, new, Start
<1>3. \E g : g = Loop(n, Start, order, new, g)
  BY <1>1, LoopExists
<1>4. sel = Loop(n, Start, order, new, sel)
  BY <1>3
<1> HIDE DEF sel
<1>5. /\ sel[n] \in Seq(Rule) /\ Once(sel[n])
      /\ Elems(sel[n]) = Elems(Start) \cup ({order[k] : k \in 1..n} \cap new)
  <2>1. new \cap Elems(Start) = {}
    BY <1>1 DEF new
  <2>2. \A i, j \in 1..n : order[i] = order[j] => i = j
    BY <1>1 DEF Enumerates
  <2>3. QED BY <1>1, <1>4, <2>1, <2>2, LoopAdds
<1>6. Elems(sel[n]) = SelectedSet(R) \cup chosen
  BY <1>1, <1>5 DEF new, Enumerates
<1> DEFINE S == [R EXCEPT !.selected = sel[n]]
<1>7. S \in RecorderValue /\ S.selected = sel[n] /\ S.terminal = R.terminal
  BY <1>5 DEF SoundRecorder, RecorderValue
<1>8. SelectedSet(S) = Elems(sel[n])
  BY <1>7 DEF SelectedSet, Elems
<1>9. SelectedOnce(S)
  BY <1>5, <1>7 DEF SelectedOnce, Once
<1> HIDE DEF S
<1>10. QED
  BY <1>2, <1>6, <1>7, <1>8, <1>9 DEF S

\* A loop of reports selects the chosen rules and files the reduced event of each.
LEMMA RecordEachAdds ==
    ASSUME NEW R, SoundRecorder(R), NEW order, NEW chosen, Enumerates(order, chosen),
           NEW event, \A r \in chosen : event[r] \in EventOf(r)
    PROVE  LET S == RecordEach(R, order, chosen, event) IN
           /\ SoundRecorder(S)
           /\ SelectedSet(S) = SelectedSet(R) \cup chosen
           /\ \A r \in Rule : S.terminal[r] = IF r \in chosen THEN Reduce(R.terminal[r], event[r])
                                               ELSE R.terminal[r]
<1> DEFINE T == SelectMany(R, order, chosen)
           events == [r \in Rule |-> IF r \in chosen THEN Reduce(R.terminal[r], event[r])
                                     ELSE R.terminal[r]]
           S == RecordEach(R, order, chosen, event)
<1>1. /\ T \in RecorderValue
      /\ SelectedSet(T) = SelectedSet(R) \cup chosen /\ SelectedOnce(T)
  BY SelectManyAdds
<1>2. \A r \in Rule : events[r] \in EventOf(r) \cup {NoEvent}
  <2> SUFFICES ASSUME NEW r \in Rule PROVE events[r] \in EventOf(r) \cup {NoEvent}
    OBVIOUS
  <2>1. R.terminal[r] \in EventOf(r) \cup {NoEvent}
    BY DEF SoundRecorder
  <2>2. QED BY <2>1, ReduceStates
<1>3. S = [selected |-> T.selected, terminal |-> events]
  BY DEF RecordEach
<1> HIDE DEF T, events
<1>4. events \in [Rule -> Event \cup {NoEvent}]
  <2>1. \A r \in Rule : EventOf(r) \subseteq Event
    BY DEF Event
  <2>2. DOMAIN events = Rule /\ events = [r \in Rule |-> events[r]]
    BY DEF events
  <2>3. QED BY <1>2, <2>1, <2>2
<1>5. S.selected = T.selected /\ S.terminal = events /\ S \in RecorderValue
  BY <1>1, <1>3, <1>4 DEF RecorderValue
<1>6. SelectedSet(S) = SelectedSet(T) /\ (SelectedOnce(S) <=> SelectedOnce(T))
  BY <1>5 DEF SelectedSet, SelectedOnce
<1> HIDE DEF S
<1>7. SoundRecorder(S)
  BY <1>1, <1>2, <1>5, <1>6 DEF SoundRecorder
<1>8. QED BY <1>1, <1>5, <1>6, <1>7 DEF events, S

\* A loop of skips files a skip for each.
LEMMA SkipEachAdds ==
    ASSUME NEW R, SoundRecorder(R), NEW order, NEW chosen, Enumerates(order, chosen),
           NEW reason, \A r \in Rule : reason[r] \in Reason
    PROVE  LET S == SkipEach(R, order, chosen, reason) IN
           /\ SoundRecorder(S)
           /\ SelectedSet(S) = SelectedSet(R) \cup chosen
           /\ \A r \in Rule : S.terminal[r] = IF r \in chosen
                                               THEN Reduce(R.terminal[r], Skipped(reason[r]))
                                               ELSE R.terminal[r]
<1> DEFINE event == [r \in Rule |-> Skipped(reason[r])]
<1>1. chosen \subseteq Rule
  BY DEF Enumerates
<1>2. \A r \in Rule : event[r] = Skipped(reason[r]) /\ event[r] \in EventOf(r)
  BY DEF EventOf
<1>3. SkipEach(R, order, chosen, reason) = RecordEach(R, order, chosen, event)
  BY DEF SkipEach
<1> HIDE DEF event
<1>4. \A r \in chosen : event[r] \in EventOf(r)
  BY <1>1, <1>2
<1>5. QED BY <1>2, <1>3, <1>4, RecordEachAdds
===============================================================================
