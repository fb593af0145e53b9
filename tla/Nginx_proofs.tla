------------------------------ MODULE Nginx_proofs ------------------------------
(***************************************************************************)
(* The scopes of a configuration of nginx and the verdicts of a logging     *)
(* policy on them, and what the rules report of it, for every configuration: *)
(* TLS, limits, which server answers, headers of a response, what upstreams  *)
(* are told, and who may ask for what.                                      *)
(***************************************************************************)
EXTENDS NginxLogging, NginxRules, Integers, WellFoundedInduction, TLAPS

(***************************************************************************)
(* Induction over the naturals, as the least element of a set of           *)
(* counterexamples.                                                        *)
(***************************************************************************)
\* Every nonempty set of numbers has a least one (WellFoundedInduction).
LEMMA LeastElement ==
    ASSUME NEW T \in SUBSET Nat, T # {}
    PROVE  \E n \in T : \A m \in T : n =< m
<1> DEFINE R == OpToRel(<, Nat)
<1>1. IsWellFoundedOn(R, Nat)
  BY NatLessThanWellFounded
<1>2. \A x, y \in Nat : <<y, x>> \in R <=> y < x
  BY DEF OpToRel
<1> HIDE DEF R
<1>3. T \subseteq Nat
  OBVIOUS
<1>4. PICK n \in T : \A m \in T : <<m, n>> \notin R
  BY <1>1, <1>3, WFMin
<1>5. \A m \in T : ~(m < n)
  BY <1>2, <1>3, <1>4
<1>6. \A m \in T : n =< m
  BY <1>3, <1>5
<1>7. QED BY <1>6

\* First of the modules of nginx is the least element.
LEMMA FirstIs ==
    ASSUME NEW S \in SUBSET Nat, S # {}
    PROVE  First(S) \in S /\ \A t \in S : First(S) =< t
BY LeastElement DEF First

\* A set that holds 0 and with each i < n also i + 1 holds n.
LEMMA UpTo ==
    ASSUME NEW n \in Nat, NEW H, 0 \in H, \A i \in 0..n - 1 : i \in H => i + 1 \in H
    PROVE  n \in H
<1> SUFFICES ASSUME n \notin H PROVE FALSE
  OBVIOUS
<1>1. PICK k \in (0..n) \ H : \A m \in (0..n) \ H : k =< m
  <2>1. (0..n) \ H \in SUBSET Nat /\ n \in (0..n) \ H
    OBVIOUS
  <2>2. QED BY <2>1, LeastElement
<1>2. k # 0 /\ k - 1 \in 0..n - 1 /\ k - 1 \notin (0..n) \ H
  BY <1>1
<1>3. QED BY <1>1, <1>2

\* And a greatest, if it is bounded: what is least is its distance from the bound.
LEMMA GreatestElement ==
    ASSUME NEW n \in Nat, NEW T \in SUBSET (0 .. n), T # {}
    PROVE  \E t \in T : \A y \in T : y =< t
<1>1. T \subseteq 0 .. n
  OBVIOUS
<1> DEFINE K == {k \in 0 .. n : n - k \in T}
<1>2. \A y \in T : n - y \in K
  BY <1>1
<1>3. K \in SUBSET Nat /\ K # {}
  <2>1. K \subseteq 0 .. n
    OBVIOUS
  <2> HIDE DEF K
  <2>2. PICK y \in T : TRUE
    OBVIOUS
  <2>3. n - y \in K
    BY <1>2
  <2>4. QED BY <2>1, <2>3
<1>4. \A k \in K : k \in 0 .. n /\ n - k \in T
  OBVIOUS
<1> HIDE DEF K
<1>5. PICK k \in K : \A m \in K : k =< m
  BY <1>3, LeastElement
<1>6. n - k \in T /\ k \in 0 .. n
  BY <1>4
<1>7. \A y \in T : k =< n - y /\ y \in 0 .. n
  BY <1>1, <1>2, <1>5
<1>8. \A y \in T : y =< n - k
  BY <1>6, <1>7
<1>9. QED BY <1>6, <1>8

(***************************************************************************)
(* The way up.                                                             *)
(***************************************************************************)
\* Each node is around nodes with higher numbers only.
Forest(around, n) ==
    /\ DOMAIN around \subseteq 1 .. n /\ Main \in DOMAIN around
    /\ \A m \in DOMAIN around : m # Main => around[m] \in DOMAIN around /\ around[m] < m

\* In a forest the recursion has a solution, up to any number and hence for all.
LEMMA UpwardIs ==
    ASSUME NEW n \in Nat, NEW around, Forest(around, n)
    PROVE  \A m \in DOMAIN around :
               Upward(around)[m] = IF m = Main THEN {Main} ELSE {m} \cup Upward(around)[around[m]]
<1> DEFINE D == DOMAIN around
           Way(g, m) == IF m = Main THEN {Main} ELSE {m} \cup g[around[m]]
           Solves(g, k) == \A m \in D : m =< k => g[m] = Way(g, m)
           H == {k \in 0 .. n : \E g : Solves(g, k)}
<1>1. /\ D \subseteq 1 .. n /\ Main \in D
      /\ \A m \in D : m # Main => around[m] \in D /\ around[m] < m
  BY DEF Forest
<1> HIDE DEF D
<1>2. 0 \in H
  <2>1. Solves({}, 0)
    BY <1>1
  <2> HIDE DEF Solves
  <2>2. 0 \in 0 .. n
    OBVIOUS
  <2>3. QED BY <2>1, <2>2
<1>3. \A k \in 0 .. n - 1 : k \in H => k + 1 \in H
  <2> SUFFICES ASSUME NEW k \in 0 .. n - 1, k \in H PROVE k + 1 \in H
    OBVIOUS
  <2>1. PICK g : Solves(g, k)
    OBVIOUS
  <2> DEFINE h == [m \in D |-> IF m = k + 1 THEN Way(g, m) ELSE g[m]]
  <2>2. \A m \in D : h[m] = IF m = k + 1 THEN Way(g, m) ELSE g[m]
    OBVIOUS
  <2> HIDE DEF h
  <2>3. ASSUME NEW m \in D, m =< k + 1 PROVE h[m] = Way(h, m)
    <3>1. m # Main => h[around[m]] = g[around[m]]
      <4> SUFFICES ASSUME m # Main PROVE h[around[m]] = g[around[m]]
        OBVIOUS
      <4>1. around[m] \in D /\ around[m] # k + 1
        BY <1>1, <2>3
      <4>2. QED BY <2>2, <4>1
    <3>2. Way(h, m) = Way(g, m)
      BY <3>1
    <3>3. h[m] = Way(g, m)
      <4>1. CASE m = k + 1
        BY <2>2, <4>1
      <4>2. CASE m # k + 1
        <5>1. m =< k
          BY <1>1, <2>3, <4>2
        <5>2. QED BY <2>1, <2>2, <4>2, <5>1
      <4>3. QED BY <4>1, <4>2
    <3>4. QED BY <3>2, <3>3
  <2>4. Solves(h, k + 1)
    BY <2>3
  <2> HIDE DEF Solves
  <2>5. k + 1 \in 0 .. n
    OBVIOUS
  <2>6. QED BY <2>4, <2>5
<1>4. n \in H
  <2> HIDE DEF H
  <2>1. QED BY <1>2, <1>3, UpTo
<1>5. PICK g : \A m \in D : g[m] = Way(g, m)
  <2>1. \A m \in D : m =< n
    BY <1>1
  <2>2. QED BY <1>4, <2>1
<1> DEFINE f == [m \in D |-> Way(g, m)]
<1>6. \A m \in D : f[m] = g[m]
  BY <1>5
<1>7. \A m \in D : Way(f, m) = Way(g, m)
  <2> HIDE DEF f
  <2>1. QED BY <1>1, <1>6
<1>8. f = [m \in D |-> Way(f, m)]
  <2>1. [m \in D |-> Way(f, m)] = [m \in D |-> Way(g, m)]
    <3> HIDE DEF f
    <3>1. QED BY <1>7
  <2>2. QED BY <2>1
<1> HIDE DEF f, Way
<1>9. \E u : u = [m \in D |-> Way(u, m)]
  BY <1>8
<1> DEFINE up == CHOOSE u : u = [m \in D |-> Way(u, m)]
<1>10. up = [m \in D |-> Way(up, m)]
  BY <1>9
<1>11. Upward(around) = up
  BY DEF Upward, D, Way
<1> HIDE DEF up
<1>12. \A m \in D : up[m] = Way(up, m)
  BY <1>10
<1>13. QED BY <1>11, <1>12 DEF D, Way

\* What is on the way up from a node lies between Main and the node, goes on upwards
\* in the same way, and of any two one is on the way up from the other.
LEMMA UpwardOrders ==
    ASSUME NEW n \in Nat, NEW around, Forest(around, n)
    PROVE  LET U == Upward(around) D == DOMAIN around IN
           /\ \A m \in D : U[m] \in SUBSET D /\ m \in U[m] /\ Main \in U[m]
           /\ \A m \in D : \A x \in U[m] : x =< m /\ U[x] \subseteq U[m]
           /\ \A m \in D : \A x, y \in U[m] : x \in U[y] \/ y \in U[x]
           /\ \A m \in D : \A x \in U[m] : x # m => x \in U[around[m]]
<1> DEFINE U == Upward(around)
           D == DOMAIN around
           Good(m) == /\ U[m] \in SUBSET D /\ m \in U[m] /\ Main \in U[m]
                      /\ \A x \in U[m] : x =< m /\ U[x] \subseteq U[m]
                      /\ \A x, y \in U[m] : x \in U[y] \/ y \in U[x]
<1>1. /\ D \subseteq 1 .. n /\ Main \in D
      /\ \A m \in D : m # Main => around[m] \in D /\ around[m] < m
  BY DEF Forest
<1>2. \A m \in D : U[m] = IF m = Main THEN {Main} ELSE {m} \cup U[around[m]]
  BY UpwardIs
<1> HIDE DEF U, D
<1>3. \A m \in D : Good(m)
  <2> SUFFICES ASSUME \E m \in D : ~Good(m) PROVE FALSE
    OBVIOUS
  <2>1. PICK m \in D : ~Good(m) /\ \A k \in D : k < m => Good(k)
    <3> DEFINE T == {k \in D : ~Good(k)}
    <3> HIDE DEF Good
    <3>1. T \in SUBSET Nat /\ T # {}
      <4>1. D \in SUBSET Nat
        BY <1>1
      <4>2. T \in SUBSET D /\ T # {}
        OBVIOUS
      <4>3. QED BY <4>1, <4>2
    <3> HIDE DEF T
    <3>2. PICK k \in T : \A j \in T : k =< j
      BY <3>1, LeastElement
    <3>3. \A j \in D : j < k => j \notin T
      BY <1>1, <3>1, <3>2
    <3>4. QED BY <3>2, <3>3 DEF T
  <2>2. CASE m = Main
    <3>1. U[m] = {Main}
      BY <1>2, <2>2
    <3>2. Main \in Nat
      BY DEF Main
    <3>3. Good(m)
      BY <1>1, <2>2, <3>1, <3>2
    <3>4. QED BY <2>1, <3>3
  <2>3. CASE m # Main
    <3> DEFINE p == around[m]
    <3>1. p \in D /\ p < m /\ U[m] = {m} \cup U[p]
      BY <1>1, <1>2, <2>3
    <3> HIDE DEF p
    <3>2. Good(p)
      BY <2>1, <3>1
    <3>3. \A x \in U[m] : x = m \/ x \in U[p]
      BY <3>1
    <3>4. \A x \in U[m] : x =< m /\ U[x] \subseteq U[m]
      <4> SUFFICES ASSUME NEW x \in U[m] PROVE x =< m /\ U[x] \subseteq U[m]
        OBVIOUS
      <4>1. CASE x = m
        BY <1>1, <4>1
      <4>2. CASE x # m
        <5>1. x \in U[p]
          BY <3>3, <4>2
        <5>2. x \in D /\ x =< p /\ U[x] \subseteq U[p]
          BY <3>2, <5>1
        <5>3. x \in Nat /\ p \in Nat /\ m \in Nat
          BY <1>1, <3>1, <5>2
        <5>4. QED BY <3>1, <5>2, <5>3
      <4>3. QED BY <4>1, <4>2
    <3>5. \A x, y \in U[m] : x \in U[y] \/ y \in U[x]
      BY <3>1, <3>2, <3>3
    <3>6. U[m] \in SUBSET D /\ m \in U[m] /\ Main \in U[m]
      <4>1. U[p] \in SUBSET D /\ Main \in U[p]
        BY <3>2
      <4>2. QED BY <3>1, <4>1
    <3>7. Good(m)
      BY <3>4, <3>5, <3>6
    <3>8. QED BY <2>1, <3>7
  <2>4. QED BY <2>2, <2>3
<1>4. \A m \in D : \A x \in U[m] : x # m => x \in U[around[m]]
  <2> SUFFICES ASSUME NEW m \in D, NEW x \in U[m], x # m PROVE x \in U[around[m]]
    OBVIOUS
  <2>1. m = Main => U[m] = {Main}
    BY <1>2
  <2>2. m # Main
    BY <2>1
  <2>3. U[m] = {m} \cup U[around[m]]
    BY <1>2, <2>2
  <2>4. QED BY <2>3
<1>5. QED BY <1>3, <1>4 DEF U, D

(***************************************************************************)
(* Scopes. While the blocks are visited a scope is what its name and the    *)
(* scope it is in make it; a block that is none belongs to one around it;   *)
(* and what lies in the main context without being a scope is a container.  *)
(***************************************************************************)
Kinds == {"http", "server", "location", "if_in_location", "limit_except"}

Visited ==
    /\ IsTree(tree) /\ at \in 2 .. Len(tree) + 1
    /\ DOMAIN scopeOf = 1 .. (at - 1) /\ Scopes \subseteq 1 .. (at - 1)
    /\ Main \in Scopes /\ kind[Main] = "main" /\ scopeOf[Main] = Main
    /\ \A s \in Scopes : s # Main => kind[s] \in Kinds /\ scopeOf[s] = s
    /\ \A b \in 1 .. (at - 1) : scopeOf[b] \in Scopes /\ scopeOf[b] =< b /\ scopeOf[b] \in Enclosing(b)

KindsFit ==
    /\ \A s \in Scopes : s # Main =>
          kind[s] = ScopeKind(tree[s].name, kind[ParentScope(s)], tree[s].parent \in container)
    /\ container \subseteq 2 .. (at - 1)
    /\ \A b \in 1 .. (at - 1) : b \notin Scopes /\ scopeOf[b] = Main => b \in container

\* No include is attributed before all blocks were visited; what one may have changed
\* is marked as soon as it is, unless it fails again in a later scope.
Marked ==
    /\ issues \subseteq AllLines /\ incomplete \subseteq Scopes
    /\ at \in Blocks => issues = AllLines /\ incomplete = {}
    /\ \A b \in DOMAIN tree : \A l \in tree[b].failed :
          l \notin issues => Within(scopeOf[b]) \subseteq incomplete \/ FailsAgainAfter(l, scopeOf[b])
    /\ OnlyAffectedBranch

ScopesIInv == Visited /\ KindsFit /\ Marked

\* The nodes of a tree are a forest.
LEMMA TreeIsForest ==
    ASSUME IsTree(tree)
    PROVE  Len(tree) \in Nat /\ DOMAIN tree = 1 .. Len(tree) /\ Main \in DOMAIN tree
           /\ Forest([c \in DOMAIN tree |-> tree[c].parent], Len(tree))
<1>1. Len(tree) \in Nat /\ DOMAIN tree = 1 .. Len(tree) /\ Main \in DOMAIN tree
  BY DEF IsTree, Main
<1>2. \A c \in DOMAIN tree : c # Main => tree[c].parent \in DOMAIN tree /\ tree[c].parent < c
  BY <1>1 DEF IsTree, Main
<1>3. QED BY <1>1, <1>2 DEF Forest

\* What is around a node: it, and what is around its parent.
LEMMA EnclosingIs ==
    ASSUME IsTree(tree), NEW b \in DOMAIN tree
    PROVE  /\ Enclosing(b) \subseteq 1 .. b /\ b \in Enclosing(b) /\ Main \in Enclosing(b)
           /\ b # Main => Enclosing(b) = {b} \cup Enclosing(tree[b].parent)
<1> DEFINE around == [c \in DOMAIN tree |-> tree[c].parent]
<1>1. Len(tree) \in Nat /\ DOMAIN tree = 1 .. Len(tree) /\ Forest(around, Len(tree))
  BY TreeIsForest
<1>2. DOMAIN around = DOMAIN tree /\ around[b] = tree[b].parent
  OBVIOUS
<1>3. \A c : Enclosing(c) = Upward(around)[c]
  BY SMTT(60) DEF Enclosing
<1> HIDE DEF around
<1>4. PICK n \in Nat : n = Len(tree)
  BY <1>1
<1>5. Upward(around)[b] = IF b = Main THEN {Main} ELSE {b} \cup Upward(around)[around[b]]
  <2>1. \A m \in DOMAIN around :
           Upward(around)[m] = IF m = Main THEN {Main} ELSE {m} \cup Upward(around)[around[m]]
    BY <1>1, <1>4, UpwardIs
  <2>2. QED BY <1>2, <2>1
<1>6. /\ Upward(around)[b] \in SUBSET DOMAIN around
      /\ b \in Upward(around)[b] /\ Main \in Upward(around)[b]
      /\ \A x \in Upward(around)[b] : x =< b
  BY <1>1, <1>2, <1>4, UpwardOrders
<1>7. Enclosing(b) \subseteq 1 .. b
  BY <1>1, <1>2, <1>3, <1>6
<1>8. QED BY <1>2, <1>3, <1>5, <1>6, <1>7

\* The scope that a visited scope other than Main is in.
LEMMA ParentScopeIs ==
    ASSUME Visited, NEW s \in Scopes, s # Main
    PROVE  /\ tree[s].parent \in 1 .. (at - 1) /\ tree[s].parent < s /\ s \in DOMAIN tree
           /\ ParentScope(s) \in Scopes /\ ParentScope(s) < s
           /\ ParentScope(s) \in Enclosing(s)
<1>1. IsTree(tree) /\ at \in Nat /\ s \in 2 .. (at - 1) /\ s \in DOMAIN tree
  BY TreeIsForest DEF Visited, Main
<1>2. tree[s].parent \in 1 .. (s - 1)
  BY <1>1, TreeIsForest DEF IsTree
<1>3. tree[s].parent \in 1 .. (at - 1) /\ tree[s].parent < s
  BY <1>1, <1>2
<1>4. ParentScope(s) \in Scopes /\ ParentScope(s) =< tree[s].parent
      /\ ParentScope(s) \in Enclosing(tree[s].parent)
  BY <1>3 DEF ParentScope, Visited
<1>5. ParentScope(s) \in Nat
  BY <1>1, <1>4 DEF Visited
<1>6. ParentScope(s) < s
  BY <1>1, <1>2, <1>4, <1>5
<1>7. Enclosing(s) = {s} \cup Enclosing(tree[s].parent)
  BY <1>1, EnclosingIs
<1>8. QED BY <1>1, <1>3, <1>4, <1>6, <1>7

\* The chain of a scope, and that any two scopes on it lie one in the other.
LEMMA ChainIs ==
    ASSUME Visited, NEW s \in Scopes
    PROVE  /\ Chain(s) \subseteq Scopes /\ s \in Chain(s) /\ Main \in Chain(s)
           /\ s = Main => Chain(s) = {Main}
           /\ s # Main => Chain(s) = {s} \cup Chain(ParentScope(s))
           /\ \A x \in Chain(s) : x =< s /\ Chain(x) \subseteq Chain(s)
           /\ \A x, y \in Chain(s) : x \in Chain(y) \/ y \in Chain(x)
<1> DEFINE around == [t \in Scopes |-> ParentScope(t)]
<1>1. at \in Nat /\ Scopes \subseteq 1 .. (at - 1) /\ Main \in Scopes
  BY TreeIsForest DEF Visited
<1>2. DOMAIN around = Scopes /\ \A t \in Scopes : around[t] = ParentScope(t)
  OBVIOUS
<1>3. \A c : Chain(c) = Upward(around)[c]
  BY DEF Chain
<1> HIDE DEF around
<1>4. Forest(around, at - 1)
  BY <1>1, <1>2, ParentScopeIs DEF Forest
<1>5. PICK n \in Nat : n = at - 1
  BY <1>1, TreeIsForest DEF Visited
<1>6. Upward(around)[s] = IF s = Main THEN {Main} ELSE {s} \cup Upward(around)[around[s]]
  <2>1. \A m \in DOMAIN around :
           Upward(around)[m] = IF m = Main THEN {Main} ELSE {m} \cup Upward(around)[around[m]]
    BY <1>4, <1>5, UpwardIs, ZenonT(60)
  <2>2. QED BY <1>2, <2>1
<1>7. /\ Upward(around)[s] \in SUBSET DOMAIN around
      /\ s \in Upward(around)[s] /\ Main \in Upward(around)[s]
  BY <1>2, <1>4, <1>5, UpwardOrders
<1>8. \A x \in Upward(around)[s] : x =< s /\ Upward(around)[x] \subseteq Upward(around)[s]
  BY <1>2, <1>4, <1>5, UpwardOrders
<1>9. \A x, y \in Upward(around)[s] : x \in Upward(around)[y] \/ y \in Upward(around)[x]
  BY <1>2, <1>4, <1>5, UpwardOrders
<1>10. QED BY <1>2, <1>3, <1>6, <1>7, <1>8, <1>9

\* Of the scopes a line fails in, the last is the one that is affected.
LEMMA AffectedIs ==
    ASSUME Visited, at \notin Blocks, NEW b \in DOMAIN tree, NEW l \in tree[b].failed
    PROVE  /\ \E c \in DOMAIN tree : l \in tree[c].failed /\ Affected(l) = scopeOf[c]
           /\ scopeOf[b] =< Affected(l) /\ scopeOf[b] \in Nat
<1>1. IsTree(tree) /\ Len(tree) \in Nat /\ DOMAIN tree = 1 .. Len(tree) /\ at - 1 = Len(tree) /\ at \in Nat
  BY TreeIsForest DEF Visited, Blocks, Main
<1>2. \A c \in DOMAIN tree : scopeOf[c] \in 0 .. Len(tree)
  <2> SUFFICES ASSUME NEW c \in DOMAIN tree PROVE scopeOf[c] \in 0 .. Len(tree)
    OBVIOUS
  <2>1. c \in 1 .. (at - 1)
    BY <1>1
  <2>2. scopeOf[c] \in Scopes /\ Scopes \subseteq 1 .. (at - 1)
    BY <2>1 DEF Visited
  <2>3. PICK x : x = scopeOf[c]
    OBVIOUS
  <2>4. x \in 1 .. (at - 1)
    BY <2>2, <2>3
  <2>5. x \in 0 .. Len(tree)
    BY <1>1, <2>4
  <2>6. QED BY <2>3, <2>5
<1>3. PICK S : S = {scopeOf[c] : c \in {d \in DOMAIN tree : l \in tree[d].failed}}
  OBVIOUS
<1>4. S \in SUBSET (0 .. Len(tree)) /\ scopeOf[b] \in S
  BY <1>2, <1>3
<1>5. PICK t \in S : \A y \in S : y =< t
  BY <1>1, <1>4, GreatestElement
<1>6. Affected(l) = CHOOSE x \in S : \A y \in S : y =< x
  BY <1>3 DEF Affected
<1>7. Affected(l) \in S /\ \A y \in S : y =< Affected(l)
  BY <1>5, <1>6
<1>8. QED BY <1>2, <1>3, <1>4, <1>7

(***************************************************************************)
(* The steps.                                                              *)
(***************************************************************************)
\* A configuration is a tree before anything was visited.
LEMMA ScopesInitIInv ==
    ASSUME NEW trees, \A t \in trees : IsTree(t), ScopesInit(trees)
    PROVE  ScopesIInv
<1>1. IsTree(tree) /\ Len(tree) \in Nat /\ Len(tree) >= 1 /\ DOMAIN tree = 1 .. Len(tree) /\ Main \in DOMAIN tree
  BY TreeIsForest DEF ScopesInit, IsTree, Main
<1>2. Main \in Enclosing(Main)
  BY <1>1, EnclosingIs
<1>3. at = 2 /\ 1 .. (at - 1) = {Main}
  BY DEF ScopesInit, Main
<1>4. Scopes = {Main} /\ kind[Main] = "main" /\ DOMAIN scopeOf = {Main} /\ scopeOf[Main] = Main
  BY DEF ScopesInit, Scopes
<1>5. Visited
  <2>1. at \in 2 .. Len(tree) + 1
    BY <1>1, <1>3
  <2>2. Main =< Main
    BY DEF Main
  <2>3. QED BY <1>1, <1>2, <1>3, <1>4, <2>1, <2>2 DEF Visited
<1>6. KindsFit
  BY <1>3, <1>4 DEF KindsFit, ScopesInit
<1>7. Marked
  <2>1. \A b \in DOMAIN tree : tree[b].failed \subseteq AllLines
    BY DEF AllLines
  <2>2. issues = AllLines /\ incomplete = {}
    BY DEF ScopesInit
  <2>3. QED BY <2>1, <2>2 DEF Marked, OnlyAffectedBranch
<1>8. QED BY <1>5, <1>6, <1>7 DEF ScopesIInv

\* Where the next block is.
LEMMA AtIs ==
    ASSUME Visited, at \in Blocks
    PROVE  /\ at \in Nat /\ at \in 2 .. Len(tree) /\ at + 1 \in 2 .. Len(tree) + 1
           /\ at # Main /\ at \notin Scopes /\ at \notin DOMAIN scopeOf
           /\ 1 .. ((at + 1) - 1) = 1 .. (at - 1) \cup {at}
           /\ tree[at].parent \in 1 .. (at - 1)
           /\ Current \in Scopes /\ Current \in Nat /\ Current =< tree[at].parent /\ Current < at
           /\ at \in Enclosing(at) /\ Current \in Enclosing(at)
<1>1. IsTree(tree) /\ Len(tree) \in Nat /\ DOMAIN tree = 1 .. Len(tree) /\ at \in DOMAIN tree /\ at # Main
  BY TreeIsForest DEF Visited, Blocks
<1>2. at \in Nat /\ at \in 2 .. Len(tree) /\ at + 1 \in 2 .. Len(tree) + 1
  BY <1>1 DEF Main
<1>3. at \notin Scopes /\ at \notin DOMAIN scopeOf
  BY <1>2 DEF Visited
<1>4. 1 .. ((at + 1) - 1) = 1 .. (at - 1) \cup {at}
  BY <1>2
<1>5. tree[at].parent \in 1 .. (at - 1)
  BY <1>1, <1>2 DEF IsTree
<1>6. Current \in Scopes /\ Current =< tree[at].parent /\ Current \in Enclosing(tree[at].parent)
  BY <1>5 DEF Visited, Current
<1>7. Current \in 1 .. (at - 1)
  BY <1>6 DEF Visited
<1>8. Current \in Nat /\ Current < at
  BY <1>2, <1>7
<1>9. Enclosing(at) = {at} \cup Enclosing(tree[at].parent)
  BY <1>1, EnclosingIs
<1>10. QED BY <1>1, <1>2, <1>3, <1>4, <1>5, <1>6, <1>8, <1>9

\* Visiting a block marks nothing.
LEMMA VisitMarksNothing ==
    ASSUME Marked, at \in Blocks, UNCHANGED <<tree, issues, incomplete>>
    PROVE  Marked'
<1>1. issues' = AllLines' /\ incomplete' = {}
  BY DEF Marked, AllLines
<1>2. \A b \in DOMAIN tree' : tree'[b].failed \subseteq AllLines'
  BY DEF AllLines
<1>3. OnlyAffectedBranch'
  BY <1>1 DEF OnlyAffectedBranch
<1>4. QED BY <1>1, <1>2, <1>3 DEF Marked

\* A block that is a scope.
LEMMA VisitScopeKeeps ==
    ASSUME ScopesIInv, VisitScope
    PROVE  ScopesIInv'
<1> DEFINE p == tree[at].parent
<1>1. Visited /\ KindsFit /\ Marked
  BY DEF ScopesIInv
<1>2. at \in Blocks /\ KindHere # "none" /\ at' = at + 1 /\ tree' = tree /\ container' = container
      /\ issues' = issues /\ incomplete' = incomplete
  BY DEF VisitScope
<1>3. /\ Scopes' = Scopes \cup {at} /\ DOMAIN scopeOf' = DOMAIN scopeOf \cup {at}
      /\ kind'[at] = KindHere /\ \A s \in Scopes : s # at => kind'[s] = kind[s]
      /\ scopeOf'[at] = at /\ \A b \in DOMAIN scopeOf : b # at => scopeOf'[b] = scopeOf[b]
  BY DEF VisitScope, Scopes
<1>4. /\ at \in Nat /\ at \in 2 .. Len(tree) /\ at + 1 \in 2 .. Len(tree) + 1
      /\ at # Main /\ at \notin Scopes /\ at \notin DOMAIN scopeOf
      /\ 1 .. (at' - 1) = 1 .. (at - 1) \cup {at}
      /\ p \in 1 .. (at - 1) /\ Current \in Scopes /\ at \in Enclosing(at)
  BY <1>1, <1>2, AtIs
<1>5. \A s \in Scopes : kind'[s] = kind[s]
  BY <1>3, <1>4
<1>6. DOMAIN scopeOf = 1 .. (at - 1) /\ \A b \in 1 .. (at - 1) : scopeOf'[b] = scopeOf[b]
  BY <1>1, <1>3, <1>4 DEF Visited
<1>7. \A b : Enclosing(b)' = Enclosing(b)
  BY <1>2 DEF Enclosing
<1>8. KindHere \in Kinds
  BY <1>2 DEF KindHere, ScopeKind, Kinds
<1>9. Visited'
  <2>1. IsTree(tree)' /\ at' \in 2 .. Len(tree') + 1
    BY <1>1, <1>2, <1>4 DEF Visited, IsTree
  <2>2. DOMAIN scopeOf' = 1 .. (at' - 1) /\ Scopes' \subseteq 1 .. (at' - 1)
    BY <1>1, <1>3, <1>4, <1>6 DEF Visited
  <2>3. Main \in Scopes' /\ kind'[Main] = "main" /\ scopeOf'[Main] = Main
    <3>1. Main \in Scopes /\ Main \in 1 .. (at - 1) /\ kind[Main] = "main" /\ scopeOf[Main] = Main
      BY <1>1 DEF Visited
    <3>2. QED BY <1>3, <1>5, <1>6, <3>1
  <2>4. \A s \in Scopes' : s # Main => kind'[s] \in Kinds /\ scopeOf'[s] = s
    <3> SUFFICES ASSUME NEW s \in Scopes', s # Main PROVE kind'[s] \in Kinds /\ scopeOf'[s] = s
      OBVIOUS
    <3>1. CASE s = at
      BY <1>3, <1>8, <3>1
    <3>2. CASE s # at
      <4>1. s \in Scopes /\ s \in 1 .. (at - 1) /\ kind[s] \in Kinds /\ scopeOf[s] = s
        BY <1>1, <1>3, <3>2 DEF Visited
      <4>2. QED BY <1>5, <1>6, <4>1
    <3>3. QED BY <3>1, <3>2
  <2>5. \A b \in 1 .. (at' - 1) : scopeOf'[b] \in Scopes' /\ scopeOf'[b] =< b /\ scopeOf'[b] \in Enclosing(b)'
    <3> SUFFICES ASSUME NEW b \in 1 .. (at' - 1)
                 PROVE  scopeOf'[b] \in Scopes' /\ scopeOf'[b] =< b /\ scopeOf'[b] \in Enclosing(b)'
      OBVIOUS
    <3>1. CASE b = at
      BY <1>3, <1>4, <1>7, <3>1
    <3>2. CASE b # at
      <4>1. b \in 1 .. (at - 1)
        BY <1>4, <3>2
      <4>2. scopeOf[b] \in Scopes /\ scopeOf[b] =< b /\ scopeOf[b] \in Enclosing(b)
        BY <1>1, <4>1 DEF Visited
      <4>3. QED BY <1>3, <1>6, <1>7, <4>1, <4>2
    <3>3. QED BY <3>1, <3>2
  <2>6. QED BY <2>1, <2>2, <2>3, <2>4, <2>5 DEF Visited
<1>10. KindsFit'
  <2>1. \A s \in Scopes' : s # Main =>
           kind'[s] = ScopeKind(tree'[s].name, kind'[ParentScope(s)'], tree'[s].parent \in container')
    <3> SUFFICES ASSUME NEW s \in Scopes', s # Main
                 PROVE  kind'[s] = ScopeKind(tree[s].name, kind'[ParentScope(s)'], tree[s].parent \in container)
      BY <1>2
    <3>1. CASE s = at
      <4>1. ParentScope(s)' = Current
        BY <1>2, <1>4, <1>6, <3>1 DEF ParentScope, Current
      <4>2. kind'[Current] = kind[Current]
        BY <1>4, <1>5
      <4>3. kind'[s] = ScopeKind(tree[s].name, kind[Current], tree[s].parent \in container)
        BY <1>3, <3>1 DEF KindHere
      <4>4. QED BY <4>1, <4>2, <4>3
    <3>2. CASE s # at
      <4>1. s \in Scopes
        BY <1>3, <3>2
      <4>2. tree[s].parent \in 1 .. (at - 1) /\ ParentScope(s) \in Scopes
        BY <1>1, <4>1, ParentScopeIs
      <4>3. ParentScope(s)' = ParentScope(s)
        BY <1>2, <1>6, <4>2 DEF ParentScope
      <4>4. kind'[ParentScope(s)] = kind[ParentScope(s)] /\ kind'[s] = kind[s]
        BY <1>5, <4>1, <4>2
      <4>5. kind[s] = ScopeKind(tree[s].name, kind[ParentScope(s)], tree[s].parent \in container)
        BY <1>1, <4>1 DEF KindsFit
      <4>6. QED BY <4>3, <4>4, <4>5
    <3>3. QED BY <3>1, <3>2
  <2>2. container' \subseteq 2 .. (at' - 1)
    BY <1>1, <1>2, <1>4 DEF KindsFit
  <2>3. \A b \in 1 .. (at' - 1) : b \notin Scopes' /\ scopeOf'[b] = Main => b \in container'
    BY <1>1, <1>2, <1>3, <1>4, <1>6 DEF KindsFit
  <2>4. QED BY <2>1, <2>2, <2>3 DEF KindsFit
<1>11. Marked'
  BY <1>1, <1>2, VisitMarksNothing
<1>12. QED BY <1>9, <1>10, <1>11 DEF ScopesIInv

\* A block that is none: its nodes are in the scope that it is in.
LEMMA VisitOtherKeeps ==
    ASSUME ScopesIInv, VisitOther
    PROVE  ScopesIInv'
<1> DEFINE p == tree[at].parent
<1>1. Visited /\ KindsFit /\ Marked
  BY DEF ScopesIInv
<1>2. at \in Blocks /\ KindHere = "none" /\ at' = at + 1 /\ tree' = tree /\ kind' = kind
      /\ issues' = issues /\ incomplete' = incomplete
  BY DEF VisitOther
<1>3. /\ Scopes' = Scopes /\ DOMAIN scopeOf' = DOMAIN scopeOf \cup {at}
      /\ scopeOf'[at] = Current /\ \A b \in DOMAIN scopeOf : b # at => scopeOf'[b] = scopeOf[b]
  BY DEF VisitOther, Scopes
<1>4. /\ at \in Nat /\ at \in 2 .. Len(tree) /\ at + 1 \in 2 .. Len(tree) + 1
      /\ at # Main /\ at \notin Scopes /\ at \notin DOMAIN scopeOf
      /\ 1 .. (at' - 1) = 1 .. (at - 1) \cup {at}
      /\ Current \in Scopes /\ Current \in Nat /\ Current < at /\ Current \in Enclosing(at)
  BY <1>1, <1>2, AtIs
<1>5. container \subseteq container' /\ container' \subseteq container \cup {at}
      /\ (kind[Current] = "main" => at \in container')
  BY DEF VisitOther
<1>6. DOMAIN scopeOf = 1 .. (at - 1) /\ \A b \in 1 .. (at - 1) : scopeOf'[b] = scopeOf[b]
  BY <1>1, <1>3, <1>4 DEF Visited
<1>7. \A b : Enclosing(b)' = Enclosing(b)
  BY <1>2 DEF Enclosing
<1>8. Visited'
  <2>1. IsTree(tree)' /\ at' \in 2 .. Len(tree') + 1
    BY <1>1, <1>2, <1>4 DEF Visited, IsTree
  <2>2. DOMAIN scopeOf' = 1 .. (at' - 1) /\ Scopes' \subseteq 1 .. (at' - 1)
    BY <1>1, <1>3, <1>4, <1>6 DEF Visited
  <2>3. Main \in Scopes' /\ kind'[Main] = "main" /\ scopeOf'[Main] = Main
    <3>1. Main \in Scopes /\ Main \in 1 .. (at - 1) /\ kind[Main] = "main" /\ scopeOf[Main] = Main
      BY <1>1 DEF Visited
    <3>2. QED BY <1>2, <1>3, <1>6, <3>1
  <2>4. \A s \in Scopes' : s # Main => kind'[s] \in Kinds /\ scopeOf'[s] = s
    <3> SUFFICES ASSUME NEW s \in Scopes, s # Main PROVE kind[s] \in Kinds /\ scopeOf'[s] = s
      BY <1>2, <1>3
    <3>1. s \in 1 .. (at - 1) /\ kind[s] \in Kinds /\ scopeOf[s] = s
      BY <1>1 DEF Visited
    <3>2. QED BY <1>6, <3>1
  <2>5. \A b \in 1 .. (at' - 1) : scopeOf'[b] \in Scopes' /\ scopeOf'[b] =< b /\ scopeOf'[b] \in Enclosing(b)'
    <3> SUFFICES ASSUME NEW b \in 1 .. (at' - 1)
                 PROVE  scopeOf'[b] \in Scopes' /\ scopeOf'[b] =< b /\ scopeOf'[b] \in Enclosing(b)'
      OBVIOUS
    <3>1. CASE b = at
      BY <1>3, <1>4, <1>7, <3>1
    <3>2. CASE b # at
      <4>1. b \in 1 .. (at - 1)
        BY <1>4, <3>2
      <4>2. scopeOf[b] \in Scopes /\ scopeOf[b] =< b /\ scopeOf[b] \in Enclosing(b)
        BY <1>1, <4>1 DEF Visited
      <4>3. QED BY <1>3, <1>6, <1>7, <4>1, <4>2
    <3>3. QED BY <3>1, <3>2
  <2>6. QED BY <2>1, <2>2, <2>3, <2>4, <2>5 DEF Visited
<1>9. KindsFit'
  <2>1. \A s \in Scopes' : s # Main =>
           kind'[s] = ScopeKind(tree'[s].name, kind'[ParentScope(s)'], tree'[s].parent \in container')
    <3> SUFFICES ASSUME NEW s \in Scopes, s # Main
                 PROVE  kind[s] = ScopeKind(tree[s].name, kind[ParentScope(s)'], tree[s].parent \in container')
      BY <1>2, <1>3
    <3>1. tree[s].parent \in 1 .. (at - 1)
      BY <1>1, ParentScopeIs
    <3>2. ParentScope(s)' = ParentScope(s)
      BY <1>2, <1>6, <3>1 DEF ParentScope
    <3>3. (tree[s].parent \in container') = (tree[s].parent \in container)
      BY <1>4, <1>5, <3>1
    <3>4. kind[s] = ScopeKind(tree[s].name, kind[ParentScope(s)], tree[s].parent \in container)
      BY <1>1 DEF KindsFit
    <3>5. QED BY <3>2, <3>3, <3>4
  <2>2. container' \subseteq 2 .. (at' - 1)
    BY <1>1, <1>2, <1>4, <1>5 DEF KindsFit
  <2>3. \A b \in 1 .. (at' - 1) : b \notin Scopes' /\ scopeOf'[b] = Main => b \in container'
    <3> SUFFICES ASSUME NEW b \in 1 .. (at' - 1), b \notin Scopes, scopeOf'[b] = Main
                 PROVE  b \in container'
      BY <1>3
    <3>1. CASE b = at
      BY <1>1, <1>3, <1>5, <3>1 DEF Visited
    <3>2. CASE b # at
      BY <1>1, <1>4, <1>5, <1>6, <3>2 DEF KindsFit
    <3>3. QED BY <3>1, <3>2
  <2>4. QED BY <2>1, <2>2, <2>3 DEF KindsFit
<1>10. Marked'
  BY <1>1, <1>2, VisitMarksNothing
<1>11. QED BY <1>8, <1>9, <1>10 DEF ScopesIInv

\* What is said of the visited blocks and of the chains stays while they do.
LEMMA GraphStays ==
    ASSUME UNCHANGED <<tree, at, kind, scopeOf, container>>
    PROVE  /\ Visited' = Visited /\ KindsFit' = KindsFit /\ Scopes' = Scopes /\ AllLines' = AllLines
           /\ \A s : ParentScope(s)' = ParentScope(s)
           /\ \A s : Chain(s)' = Chain(s)
           /\ \A s : Within(s)' = Within(s)
<1>1. Scopes' = Scopes /\ \A s : ParentScope(s)' = ParentScope(s)
  BY DEF Scopes, ParentScope
<1>2. \A s : Chain(s)' = Chain(s)
  <2>1. [t \in Scopes' |-> ParentScope(t)'] = [t \in Scopes |-> ParentScope(t)]
    BY <1>1
  <2>2. QED BY <2>1 DEF Chain
<1>3. \A s : Within(s)' = Within(s)
  BY <1>1, <1>2 DEF Within
<1>4. Visited' = Visited
  BY <1>1 DEF Visited, Enclosing
<1>5. KindsFit' = KindsFit
  BY <1>1 DEF KindsFit
<1>6. AllLines' = AllLines
  BY DEF AllLines
<1>7. QED BY <1>1, <1>2, <1>3, <1>4, <1>5, <1>6

\* An include that failed marks the scope it is in and what lies within.
LEMMA MarkKeeps ==
    ASSUME ScopesIInv, MarkIncomplete
    PROVE  ScopesIInv'
<1>1. Visited /\ KindsFit /\ Marked
  BY DEF ScopesIInv
<1>2. PICK line \in issues : /\ incomplete' = incomplete \cup Within(Affected(line))
                             /\ issues' = issues \ {line}
  BY DEF MarkIncomplete
<1>3. at \notin Blocks /\ UNCHANGED <<tree, at, kind, scopeOf, container>>
  BY DEF MarkIncomplete
<1>4. /\ Visited' = Visited /\ KindsFit' = KindsFit /\ Scopes' = Scopes /\ AllLines' = AllLines
      /\ (\A s : Chain(s)' = Chain(s)) /\ (\A s : Within(s)' = Within(s))
  BY <1>3, GraphStays
<1>5. PICK a \in DOMAIN tree : line \in tree[a].failed
  BY <1>1 DEF Marked, AllLines
<1>6. PICK b \in DOMAIN tree : line \in tree[b].failed /\ Affected(line) = scopeOf[b]
  BY <1>1, <1>3, <1>5, AffectedIs
<1>7. incomplete' = incomplete \cup Within(scopeOf[b])
  BY <1>2, <1>6
<1>8. Marked'
  <2>1. issues' \subseteq AllLines' /\ incomplete' \subseteq Scopes'
    BY <1>1, <1>2, <1>4, <1>7 DEF Marked, Within
  <2>2. ~(at' \in Blocks')
    BY <1>3 DEF Blocks
  <2>3. \A c \in DOMAIN tree' : \A l \in tree'[c].failed :
           l \notin issues' => \/ (Within(scopeOf[c]))' \subseteq incomplete'
                               \/ (FailsAgainAfter(l, scopeOf[c]))'
    <3> SUFFICES ASSUME NEW c \in DOMAIN tree, NEW l \in tree[c].failed, l \notin issues'
                 PROVE  Within(scopeOf[c]) \subseteq incomplete' \/ FailsAgainAfter(l, scopeOf[c])
      BY <1>3, <1>4 DEF FailsAgainAfter
    <3>1. CASE l = line
      <4>1. scopeOf[c] =< scopeOf[b] /\ scopeOf[c] \in Nat /\ scopeOf[b] \in Nat
        BY <1>1, <1>3, <1>6, <3>1, AffectedIs
      <4>2. scopeOf[c] = scopeOf[b] \/ scopeOf[b] > scopeOf[c]
        BY <4>1
      <4>3. QED BY <1>6, <1>7, <3>1, <4>2 DEF FailsAgainAfter
    <3>2. CASE l # line
      BY <1>1, <1>2, <3>2 DEF Marked
    <3>3. QED BY <3>1, <3>2
  <2>4. OnlyAffectedBranch'
    <3> SUFFICES ASSUME NEW s \in incomplete'
                 PROVE  \E c \in DOMAIN tree : tree[c].failed # {} /\ scopeOf[c] \in Chain(s)
      BY <1>3, <1>4 DEF OnlyAffectedBranch
    <3>1. CASE s \in incomplete
      BY <1>1, <3>1 DEF Marked, OnlyAffectedBranch
    <3>2. CASE s \in Within(scopeOf[b])
      BY <1>6, <3>2 DEF Within
    <3>3. QED BY <1>7, <3>1, <3>2
  <2>5. QED BY <2>1, <2>2, <2>3, <2>4 DEF Marked
<1>9. QED BY <1>1, <1>4, <1>8 DEF ScopesIInv

\* All steps of the visit and of the marking.
LEMMA ScopesNextKeeps ==
    ASSUME ScopesIInv, ScopesNext
    PROVE  ScopesIInv'
BY VisitScopeKeeps, VisitOtherKeeps, MarkKeeps DEF ScopesNext

\* A step that leaves the scopes alone.
LEMMA ScopesStay ==
    ASSUME UNCHANGED scopeVars
    PROVE  /\ ScopesIInv' = ScopesIInv /\ Scopes' = Scopes /\ Blocks' = Blocks /\ Built' = Built
           /\ \A s : ParentScope(s)' = ParentScope(s)
           /\ \A s : Chain(s)' = Chain(s)
<1>1. UNCHANGED <<tree, at, kind, scopeOf, container>> /\ issues' = issues /\ incomplete' = incomplete
  BY DEF scopeVars
<1>2. /\ Visited' = Visited /\ KindsFit' = KindsFit /\ Scopes' = Scopes /\ AllLines' = AllLines
      /\ (\A s : ParentScope(s)' = ParentScope(s))
      /\ (\A s : Chain(s)' = Chain(s)) /\ (\A s : Within(s)' = Within(s))
  BY <1>1, GraphStays
<1>3. Blocks' = Blocks /\ Built' = Built
  BY <1>1 DEF Blocks, Built
<1>4. Marked' = Marked
  BY <1>1, <1>2, <1>3 DEF Marked, OnlyAffectedBranch, FailsAgainAfter
<1>5. QED BY <1>2, <1>3, <1>4 DEF ScopesIInv

(***************************************************************************)
(* What follows for the scopes.                                            *)
(***************************************************************************)
\* A server is in `http`, or in the main context, and there in no container.
LEMMA ServersFollow ==
    ASSUME Visited, KindsFit
    PROVE  ServersServeHttp
<1> SUFFICES ASSUME NEW s \in Scopes, kind[s] = "server", tree[s].parent # Main
             PROVE  \E b \in Enclosing(s) : tree[b].name = "http"
  BY DEF ServersServeHttp
<1>1. s # Main
  BY DEF Visited
<1> DEFINE p == ParentScope(s)
<1>2. p \in Scopes /\ p \in Enclosing(s) /\ tree[s].parent \in 1 .. (at - 1) /\ p = scopeOf[tree[s].parent]
  BY <1>1, ParentScopeIs DEF ParentScope
<1>3. kind[s] = ScopeKind(tree[s].name, kind[p], tree[s].parent \in container)
  BY <1>1 DEF KindsFit
<1>4. kind[p] = "http" \/ (kind[p] = "main" /\ tree[s].parent \notin container)
  BY <1>3 DEF ScopeKind
<1> HIDE DEF p
<1>5. CASE kind[p] = "http"
  <2>1. p # Main
    BY <1>5 DEF Visited
  <2>2. kind[p] = ScopeKind(tree[p].name, kind[ParentScope(p)], tree[p].parent \in container)
    BY <1>2, <2>1 DEF KindsFit
  <2>3. tree[p].name = "http"
    BY <1>5, <2>2 DEF ScopeKind
  <2>4. QED BY <1>2, <2>3
<1>6. CASE kind[p] = "main" /\ tree[s].parent \notin container
  <2>1. p = Main
    BY <1>2, <1>6 DEF Visited, Kinds
  <2>2. tree[s].parent \notin Scopes
    BY <1>2, <2>1 DEF Visited
  <2>3. QED BY <1>2, <1>6, <2>1, <2>2 DEF KindsFit
<1>7. QED BY <1>4, <1>5, <1>6

\* The scopes are sound whenever the invariant holds.
LEMMA ScopesFollow ==
    ASSUME ScopesIInv
    PROVE  ScopesAreSound
<1>1. Visited /\ KindsFit /\ Marked
  BY DEF ScopesIInv
<1>2. IsTree(tree) /\ Len(tree) \in Nat /\ DOMAIN tree = 1 .. Len(tree)
  BY <1>1, TreeIsForest DEF Visited
<1>3. AllLines \subseteq Lines
  <2> SUFFICES ASSUME NEW b \in DOMAIN tree PROVE tree[b].failed \subseteq Lines
    BY DEF AllLines
  <2>1. tree[b] \in Node
    BY <1>2 DEF IsTree
  <2>2. QED BY <2>1 DEF Node
<1>4. ScopesTypeOK
  <2>1. at \in Nat /\ Scopes \subseteq 1 .. (at - 1) /\ DOMAIN scopeOf = 1 .. (at - 1)
    BY <1>1, <1>2 DEF Visited
  <2>2. \A s \in Scopes : kind[s] \in {"main", "http", "server", "location", "if_in_location", "limit_except"}
    BY <1>1 DEF Visited, Kinds
  <2>3. \A b \in DOMAIN scopeOf : scopeOf[b] \in Scopes
    BY <1>1, <2>1 DEF Visited
  <2>4. container \subseteq Blocks
    BY <1>1, <1>2 DEF Visited, KindsFit, Blocks, Main
  <2>5. QED BY <1>1, <1>3, <2>1, <2>2, <2>3, <2>4 DEF ScopesTypeOK, Marked
<1>5. ServersServeHttp
  BY <1>1, ServersFollow
<1>6. LastFailureCounts
  BY <1>1 DEF LastFailureCounts, Marked, Built
<1>7. QED BY <1>1, <1>4, <1>5, <1>6 DEF ScopesAreSound, Marked

(***************************************************************************)
(* Logging. A scope that was resolved has the logs of the innermost level   *)
(* that says something, as nginx has it; scopes are resolved from the       *)
(* outside to the inside, and assessed when all were.                       *)
(***************************************************************************)
Configured ==
    /\ \A b \in DOMAIN tree :
          access[b] \subseteq Destination \cup {Off} /\ errors[b] \subseteq {"good", "bad", "unsure"}
    /\ \E ns, ps : policy.profiles \in Seq(Profile(ns, ps))
    /\ \A i, j \in DOMAIN policy.profiles :
          Overlap(policy.profiles[i], policy.profiles[j]) => policy.profiles[i] = policy.profiles[j]
    /\ OneNameEach

\* The one of a set of levels that the others are around.
Nearest(levels) == CHOOSE t \in levels : levels \subseteq Chain(t)
ErrorLevels(s) == {t \in Chain(s) : DeclaredErrors(t) # {}}

AccessIs(s) ==
    LET declared == DeclaredAccess(Nearest(Levels(s))) IN
    IF Levels(s) = {} THEN [state |-> "unknown", logs |-> {}]
    ELSE IF declared = {Off} THEN [state |-> "off", logs |-> {}]
    ELSE IF Off \in declared THEN [state |-> "unknown", logs |-> {}]
    ELSE IF declared # {} THEN [state |-> "enabled", logs |-> declared]
    ELSE [state |-> "enabled", logs |-> {DefaultLog}]
ErrorsAre(s) ==
    IF ErrorLevels(s) = {} THEN {"default"} ELSE DeclaredErrors(Nearest(ErrorLevels(s)))

EffectiveIs(s) ==
    /\ effective[s].state = AccessIs(s).state /\ effective[s].logs = AccessIs(s).logs
    /\ effective[s].errors = ErrorsAre(s)
EffectiveFits ==
    /\ DOMAIN effective \subseteq Scopes /\ (DOMAIN effective # {} => Built)
    /\ \A s \in DOMAIN effective : \A t \in Scopes : t < s => t \in DOMAIN effective
    /\ \A s \in DOMAIN effective : EffectiveIs(s)

VerdictsFit ==
    /\ DOMAIN verdicts # {} => Resolved
    /\ \A s \in DOMAIN verdicts : s \in Material /\ verdicts[s] = Verdict(s)

LoggingIInv == ScopesIInv /\ Configured /\ EffectiveFits /\ VerdictsFit

\* The innermost level of a scope: itself if it is one, else that of its parent.
LEMMA NearestIs ==
    ASSUME Visited, NEW s \in Scopes, NEW X
    PROVE  LET L == {t \in Chain(s) : t \in X} IN
           /\ s \in X => Nearest(L) = s /\ L # {}
           /\ s \notin X /\ s # Main => L = {t \in Chain(ParentScope(s)) : t \in X}
           /\ s \notin X /\ s = Main => L = {}
           /\ L # {} => Nearest(L) \in L /\ L \subseteq Chain(Nearest(L))
<1> DEFINE L == {t \in Chain(s) : t \in X}
<1>1. /\ Chain(s) \subseteq Scopes /\ s \in Chain(s)
      /\ s = Main => Chain(s) = {Main}
      /\ s # Main => Chain(s) = {s} \cup Chain(ParentScope(s))
      /\ \A x \in Chain(s) : x =< s
      /\ \A x, y \in Chain(s) : x \in Chain(y) \/ y \in Chain(x)
  BY ChainIs
<1>2. \A x \in Scopes : \A y \in Chain(x) : y =< x /\ x \in Nat
  BY ChainIs, TreeIsForest DEF Visited
<1>3. s \in X => Nearest(L) = s /\ L # {}
  <2> SUFFICES ASSUME s \in X PROVE Nearest(L) = s /\ L # {}
    OBVIOUS
  <2>1. s \in L /\ L \subseteq Chain(s)
    BY <1>1
  <2>2. \A y \in L : L \subseteq Chain(y) => y = s
    <3> SUFFICES ASSUME NEW y \in L, L \subseteq Chain(y) PROVE y = s
      OBVIOUS
    <3>1. y \in Scopes /\ y =< s /\ s \in Chain(y)
      BY <1>1, <2>1
    <3>2. s =< y /\ s \in Nat /\ y \in Nat
      BY <1>1, <1>2, <3>1
    <3>3. QED BY <3>1, <3>2
  <2> HIDE DEF L
  <2>3. Nearest(L) = s
    BY <2>1, <2>2 DEF Nearest
  <2>4. QED BY <2>1, <2>3
<1>4. L # {} => \E t \in L : L \subseteq Chain(t)
  <2> SUFFICES ASSUME L # {} PROVE \E t \in L : L \subseteq Chain(t)
    OBVIOUS
  <2>1. \A y \in L : y \in Chain(s) /\ y \in Scopes /\ y \in Nat
    BY <1>1, <1>2, ChainIs
  <2> HIDE DEF L
  <2>2. L \in SUBSET (0 .. s) /\ s \in Nat
    BY <1>1, <1>2, <2>1
  <2>3. PICK t \in L : \A y \in L : y =< t
    BY <2>2, GreatestElement
  <2>4. \A y \in L : y \in Chain(t)
    <3> SUFFICES ASSUME NEW y \in L PROVE y \in Chain(t)
      OBVIOUS
    <3>1. y \in Chain(t) \/ t \in Chain(y)
      BY <1>1, <2>1
    <3>2. t \in Chain(y) => y = t
      BY <1>2, <2>1, <2>3
    <3>3. t \in Chain(t)
      BY <2>1, ChainIs
    <3>4. QED BY <3>1, <3>2, <3>3
  <2>5. QED BY <2>3, <2>4
<1>5. L # {} => Nearest(L) \in L /\ L \subseteq Chain(Nearest(L))
  <2> HIDE DEF L
  <2>1. QED BY <1>4 DEF Nearest
<1>6. s \notin X /\ s # Main => L = {t \in Chain(ParentScope(s)) : t \in X}
  BY <1>1
<1>7. s \notin X /\ s = Main => L = {}
  BY <1>1
<1>8. QED BY <1>3, <1>5, <1>6, <1>7

\* What is declared in a scope are destinations, or that nothing is written.
LEMMA DeclaredIs ==
    ASSUME Visited, Configured, NEW s \in Scopes
    PROVE  /\ DeclaredAccess(s) \subseteq Destination \cup {Off}
           /\ DeclaredErrors(s) \subseteq {"good", "bad", "unsure"}
           /\ s = Main => DeclaredAccess(s) = {}
<1>1. DOMAIN scopeOf \subseteq DOMAIN tree
  BY TreeIsForest DEF Visited
<1>2. DeclaredAccess(s) \subseteq Destination \cup {Off}
  BY <1>1 DEF DeclaredAccess, DeclaredIn, Configured
<1>3. DeclaredErrors(s) \subseteq {"good", "bad", "unsure"}
  BY <1>1 DEF DeclaredErrors, DeclaredIn, Configured
<1>4. s = Main => DeclaredAccess(s) = {}
  BY DEF DeclaredAccess, DeclaredIn, AccessKinds, Visited
<1>5. QED BY <1>2, <1>3, <1>4

\* A level is the innermost of its own scope; a scope that is none has the levels of
\* the scope it is in.
LEMMA LevelsAre ==
    ASSUME Visited, NEW s \in Scopes
    PROVE  /\ IF DeclaredAccess(s) # {} \/ kind[s] = "http"
              THEN Levels(s) # {} /\ Nearest(Levels(s)) = s
              ELSE IF s = Main THEN Levels(s) = {} ELSE Levels(s) = Levels(ParentScope(s))
           /\ IF DeclaredErrors(s) # {} THEN ErrorLevels(s) # {} /\ Nearest(ErrorLevels(s)) = s
              ELSE IF s = Main THEN ErrorLevels(s) = {} ELSE ErrorLevels(s) = ErrorLevels(ParentScope(s))
           /\ Levels(s) # {} => Nearest(Levels(s)) \in Levels(s)
           /\ ErrorLevels(s) # {} => Nearest(ErrorLevels(s)) \in ErrorLevels(s)
           /\ Levels(s) \subseteq Scopes /\ ErrorLevels(s) \subseteq Scopes
<1> DEFINE X == {t \in Scopes : DeclaredAccess(t) # {} \/ kind[t] = "http"}
           Y == {t \in Scopes : DeclaredErrors(t) # {}}
<1>1. \A t \in Scopes : Chain(t) \subseteq Scopes
  BY ChainIs
<1>2. \A t \in Scopes : Levels(t) = {x \in Chain(t) : x \in X} /\ ErrorLevels(t) = {x \in Chain(t) : x \in Y}
  BY <1>1 DEF Levels, ErrorLevels
<1>3. /\ s \in X <=> DeclaredAccess(s) # {} \/ kind[s] = "http"
      /\ s \in Y <=> DeclaredErrors(s) # {}
  OBVIOUS
<1> HIDE DEF X, Y
<1>4. s # Main => ParentScope(s) \in Scopes
  BY ParentScopeIs
<1>5. LET L == {t \in Chain(s) : t \in X} IN
         /\ s \in X => Nearest(L) = s /\ L # {}
         /\ s \notin X /\ s # Main => L = {t \in Chain(ParentScope(s)) : t \in X}
         /\ s \notin X /\ s = Main => L = {}
         /\ L # {} => Nearest(L) \in L /\ L \subseteq Chain(Nearest(L))
  BY NearestIs, ZenonT(60)
<1>6. LET L == {t \in Chain(s) : t \in Y} IN
         /\ s \in Y => Nearest(L) = s /\ L # {}
         /\ s \notin Y /\ s # Main => L = {t \in Chain(ParentScope(s)) : t \in Y}
         /\ s \notin Y /\ s = Main => L = {}
         /\ L # {} => Nearest(L) \in L /\ L \subseteq Chain(Nearest(L))
  BY NearestIs
<1>7. IF s \in X THEN Levels(s) # {} /\ Nearest(Levels(s)) = s
      ELSE IF s = Main THEN Levels(s) = {} ELSE Levels(s) = Levels(ParentScope(s))
  BY <1>2, <1>4, <1>5
<1>8. IF s \in Y THEN ErrorLevels(s) # {} /\ Nearest(ErrorLevels(s)) = s
      ELSE IF s = Main THEN ErrorLevels(s) = {} ELSE ErrorLevels(s) = ErrorLevels(ParentScope(s))
  BY <1>2, <1>4, <1>6
<1>9. /\ Levels(s) # {} => Nearest(Levels(s)) \in Levels(s)
      /\ ErrorLevels(s) # {} => Nearest(ErrorLevels(s)) \in ErrorLevels(s)
  BY <1>2, <1>5, <1>6
<1>10. Levels(s) \subseteq Scopes /\ ErrorLevels(s) \subseteq Scopes
  BY <1>1, <1>2
<1>11. QED BY <1>3, <1>7, <1>8, <1>9, <1>10

\* What is resolved for a scope is what its innermost level says, if that was resolved
\* for the scope it is in.
LEMMA AccessFollows ==
    ASSUME Visited, Configured, NEW s \in Scopes, s # Main => EffectiveIs(ParentScope(s))
    PROVE  AccessOf(s).state = AccessIs(s).state /\ AccessOf(s).logs = AccessIs(s).logs
<1> DEFINE level == DeclaredAccess(s) # {} \/ kind[s] = "http"
<1>1. IF level THEN Levels(s) # {} /\ Nearest(Levels(s)) = s
      ELSE IF s = Main THEN Levels(s) = {} ELSE Levels(s) = Levels(ParentScope(s))
  BY LevelsAre
<1>2. CASE level
  <2>1. Levels(s) # {} /\ Nearest(Levels(s)) = s
    BY <1>1, <1>2
  <2>2. AccessOf(s) = AccessIs(s)
    BY <1>2, <2>1 DEF AccessOf, AccessIs, Ambiguous
  <2>3. QED BY <2>2
<1>3. CASE ~level /\ s = Main
  <2>1. AccessOf(s) = [state |-> "unknown", logs |-> {}]
    BY <1>3 DEF AccessOf, Ambiguous
  <2>2. AccessIs(s) = [state |-> "unknown", logs |-> {}]
    BY <1>1, <1>3 DEF AccessIs
  <2>3. QED BY <2>1, <2>2
<1>4. CASE ~level /\ s # Main
  <2>1. AccessOf(s) = [state |-> effective[ParentScope(s)].state, logs |-> effective[ParentScope(s)].logs]
    BY <1>4 DEF AccessOf, Ambiguous
  <2>2. AccessIs(s) = AccessIs(ParentScope(s))
    BY <1>1, <1>4 DEF AccessIs
  <2>3. QED BY <1>4, <2>1, <2>2 DEF EffectiveIs
<1>5. QED BY <1>2, <1>3, <1>4

\* The same for the error logs.
LEMMA ErrorsFollow ==
    ASSUME Visited, NEW s \in Scopes, s # Main => EffectiveIs(ParentScope(s))
    PROVE  ErrorsOf(s) = ErrorsAre(s)
<1>1. IF DeclaredErrors(s) # {} THEN ErrorLevels(s) # {} /\ Nearest(ErrorLevels(s)) = s
      ELSE IF s = Main THEN ErrorLevels(s) = {} ELSE ErrorLevels(s) = ErrorLevels(ParentScope(s))
  BY LevelsAre
<1>2. CASE DeclaredErrors(s) # {}
  BY <1>1, <1>2 DEF ErrorsOf, ErrorsAre
<1>3. CASE DeclaredErrors(s) = {} /\ s = Main
  BY <1>1, <1>3 DEF ErrorsOf, ErrorsAre
<1>4. CASE DeclaredErrors(s) = {} /\ s # Main
  <2>1. ErrorsAre(s) = ErrorsAre(ParentScope(s))
    BY <1>1, <1>4 DEF ErrorsAre
  <2>2. QED BY <1>4, <2>1 DEF ErrorsOf, EffectiveIs
<1>5. QED BY <1>2, <1>3, <1>4

\* What levels say, and what is asked of which scope, is read from what no step of the
\* resolution changes.
LEMMA LoggingStays ==
    ASSUME UNCHANGED <<scopeVars, access, errors, names, pattern, policy>>
    PROVE  /\ Configured' = Configured /\ Scopes' = Scopes /\ Built' = Built
           /\ \A s : AccessIs(s)' = AccessIs(s)
           /\ \A s : ErrorsAre(s)' = ErrorsAre(s)
           /\ \A s : Matched(s)' = Matched(s)
           /\ \A s : Ambiguous(s)' = Ambiguous(s)
           /\ Material' = Material
<1>1. /\ UNCHANGED <<tree, kind, scopeOf, access, errors, names, pattern, policy>>
      /\ Scopes' = Scopes /\ Blocks' = Blocks /\ Built' = Built
      /\ \A s : Chain(s)' = Chain(s)
  BY ScopesStay DEF scopeVars
<1>2. (\A s : DeclaredAccess(s)' = DeclaredAccess(s)) /\ (\A s : DeclaredErrors(s)' = DeclaredErrors(s))
  BY <1>1 DEF DeclaredAccess, DeclaredErrors, DeclaredIn
<1>3. (\A s : Levels(s)' = Levels(s)) /\ (\A s : ErrorLevels(s)' = ErrorLevels(s))
  BY <1>1, <1>2 DEF Levels, ErrorLevels
<1>4. \A s : (Nearest(Levels(s)))' = Nearest(Levels(s)) /\ (Nearest(ErrorLevels(s)))' = Nearest(ErrorLevels(s))
  BY <1>1, <1>3 DEF Nearest
<1>5. \A s : AccessIs(s)' = AccessIs(s)
  <2> SUFFICES ASSUME NEW s PROVE AccessIs(s)' = AccessIs(s)
    OBVIOUS
  <2>1. (DeclaredAccess(Nearest(Levels(s))))' = DeclaredAccess(Nearest(Levels(s)))
    BY <1>1, <1>4 DEF DeclaredAccess, DeclaredIn
  <2>2. QED BY <1>3, <2>1 DEF AccessIs
<1>6. \A s : ErrorsAre(s)' = ErrorsAre(s)
  <2> SUFFICES ASSUME NEW s PROVE ErrorsAre(s)' = ErrorsAre(s)
    OBVIOUS
  <2>1. (DeclaredErrors(Nearest(ErrorLevels(s))))' = DeclaredErrors(Nearest(ErrorLevels(s)))
    BY <1>1, <1>4 DEF DeclaredErrors, DeclaredIn
  <2>2. QED BY <1>3, <2>1 DEF ErrorsAre
<1>7. \A s : NamesOf(s)' = NamesOf(s)
  BY <1>1 DEF NamesOf, ServerOf
<1>8. \A s : Matched(s)' = Matched(s)
  BY <1>1, <1>7 DEF Matched, Matches
<1>9. Material' = Material
  BY <1>1, <1>2, <1>8 DEF Material
<1>10. Configured' = Configured
  BY <1>1 DEF Configured, OneNameEach, Enclosing
<1>11. \A s : Ambiguous(s)' = Ambiguous(s)
  BY <1>2 DEF Ambiguous
<1>12. QED BY <1>1, <1>5, <1>6, <1>8, <1>9, <1>10, <1>11

\* A verdict depends on what is resolved for its scope, and on no other verdict.
LEMMA VerdictStays ==
    ASSUME UNCHANGED <<scopeVars, access, errors, names, pattern, policy, effective>>
    PROVE  \A s : Verdict(s)' = Verdict(s)
<1>1. (\A s : Matched(s)' = Matched(s)) /\ (\A s : Ambiguous(s)' = Ambiguous(s))
  BY LoggingStays
<1>2. UNCHANGED <<incomplete, policy, effective>>
  BY DEF scopeVars
<1>3. \A s, q : AccessVerdict(s, q)' = AccessVerdict(s, q)
  BY <1>2 DEF AccessVerdict
<1>4. \A s, q : ErrorVerdict(s, q)' = ErrorVerdict(s, q)
  BY <1>1, <1>2 DEF ErrorVerdict
<1>5. QED
  <2> SUFFICES ASSUME NEW s PROVE Verdict(s)' = Verdict(s)
    OBVIOUS
  <2>1. (policy.profiles[First(Matched(s))])' = policy.profiles[First(Matched(s))]
    BY <1>1, <1>2 DEF First
  <2>2. QED BY <1>1, <1>2, <1>3, <1>4, <2>1 DEF Verdict, AccessVerdict, ErrorVerdict

(***************************************************************************)
(* The steps.                                                              *)
(***************************************************************************)
\* What is placed in a configuration comes from its family.
LEMMA ByIs ==
    ASSUME NEW directives, NEW bound, NEW placed \in Placed(directives, bound), NEW b \in DOMAIN tree
    PROVE  By(placed)[b] \subseteq directives
<1>1. \A i \in DOMAIN placed : placed[i] # <<>> => placed[i] \in (DOMAIN tree) \X directives
  BY DEF Placed
<1>2. \A i \in DOMAIN placed : placed[i] # <<>> => placed[i][2] \in directives
  BY <1>1
<1>3. QED BY <1>2 DEF By

\* Initially nothing is visited, resolved or assessed.
LEMMA LoggingInitIInv ==
    ASSUME NEW f \in Families, LoggingInit(f)
    PROVE  LoggingIInv
<1>1. /\ \A t \in f.trees : IsTree(t)
      /\ f.accessLogs \subseteq Destination \cup {Off} /\ f.errorLogs \subseteq {"good", "bad", "unsure"}
      /\ \A p \in f.policies :
            /\ p.profiles \in Seq(Profile(f.names, f.patterns))
            /\ \A i, j \in DOMAIN p.profiles :
                  Overlap(p.profiles[i], p.profiles[j]) => p.profiles[i] = p.profiles[j]
  BY LoggingAssumption DEF LoggingAssumption
<1>2. ScopesIInv
  BY <1>1, ScopesInitIInv DEF LoggingInit
<1>3. Configured
  <2>1. PICK placed \in Placed(f.accessLogs, f.maxAccess) : access = By(placed)
    BY DEF LoggingInit
  <2>2. PICK placed2 \in Placed(f.errorLogs, f.maxErrors) : errors = By(placed2)
    BY DEF LoggingInit
  <2>3. \A b \in DOMAIN tree :
           access[b] \subseteq Destination \cup {Off} /\ errors[b] \subseteq {"good", "bad", "unsure"}
    BY <1>1, <2>1, <2>2, ByIs
  <2>4. policy \in f.policies /\ OneNameEach
    BY DEF LoggingInit
  <2>5. QED BY <1>1, <2>3, <2>4 DEF Configured
<1>4. EffectiveFits /\ VerdictsFit
  BY DEF LoggingInit, EffectiveFits, VerdictsFit
<1>5. QED BY <1>2, <1>3, <1>4 DEF LoggingIInv

\* Nothing is resolved while the scopes are made.
LEMMA BuildingKeeps ==
    ASSUME LoggingIInv, ScopesNext, UNCHANGED logVars
    PROVE  LoggingIInv'
<1>1. ScopesIInv' /\ ~Built
  BY ScopesNextKeeps
     DEF LoggingIInv, ScopesNext, VisitScope, VisitOther, MarkIncomplete, Built
<1>2. DOMAIN effective = {} /\ DOMAIN verdicts = {}
  BY <1>1 DEF LoggingIInv, EffectiveFits, VerdictsFit, Resolved
<1>3. UNCHANGED <<tree, access, errors, names, pattern, policy, effective, verdicts>>
  BY DEF ScopesNext, VisitScope, VisitOther, MarkIncomplete, logVars
<1>4. Configured'
  BY <1>3 DEF LoggingIInv, Configured, OneNameEach, Enclosing, Blocks
<1>5. EffectiveFits' /\ VerdictsFit'
  BY <1>2, <1>3 DEF EffectiveFits, VerdictsFit
<1>6. QED BY <1>1, <1>4, <1>5 DEF LoggingIInv

\* The scope that is resolved is one whose parent was.
LEMMA ResolveKeeps ==
    ASSUME LoggingIInv, ResolveScope
    PROVE  LoggingIInv'
<1>1. ScopesIInv /\ Visited /\ Configured /\ EffectiveFits /\ VerdictsFit
  BY DEF LoggingIInv, ScopesIInv
<1>2. /\ Built /\ DOMAIN effective # Scopes
      /\ UNCHANGED <<scopeVars, access, errors, names, pattern, policy, verdicts>>
  BY DEF ResolveScope
<1>3. /\ ScopesIInv' /\ Configured' /\ Scopes' = Scopes /\ Built' = Built
      /\ (\A t : AccessIs(t)' = AccessIs(t)) /\ (\A t : ErrorsAre(t)' = ErrorsAre(t))
  BY <1>1, <1>2, ScopesStay, LoggingStays
<1> DEFINE s == First(Scopes \ DOMAIN effective)
<1>4. effective' = [t \in DOMAIN effective \cup {s} |->
                        IF t # s THEN effective[t]
                        ELSE [state |-> AccessOf(s).state, logs |-> AccessOf(s).logs,
                              errors |-> ErrorsOf(s)]]
  BY DEF ResolveScope
<1>5. s \in Scopes \ DOMAIN effective /\ \A t \in Scopes \ DOMAIN effective : s =< t
  <2>1. Scopes \subseteq 1 .. (at - 1) /\ at \in Nat
    BY <1>1, TreeIsForest DEF Visited
  <2>2. Scopes \in SUBSET Nat
    BY <2>1
  <2>3. DOMAIN effective \subseteq Scopes
    BY <1>1 DEF EffectiveFits
  <2>4. QED BY <1>2, <2>2, <2>3, FirstIs
<1> HIDE DEF s
<1>6. \A t \in Scopes : t < s => t \in DOMAIN effective
  <2>1. \A t \in Scopes : t \in Nat
    BY <1>1, TreeIsForest DEF Visited
  <2>2. QED BY <1>5, <2>1
<1>7. s # Main => EffectiveIs(ParentScope(s))
  <2> SUFFICES ASSUME s # Main PROVE EffectiveIs(ParentScope(s))
    OBVIOUS
  <2>1. ParentScope(s) \in Scopes /\ ParentScope(s) < s
    BY <1>1, <1>5, ParentScopeIs
  <2>2. ParentScope(s) \in DOMAIN effective
    BY <1>6, <2>1
  <2>3. QED BY <1>1, <2>2 DEF EffectiveFits
<1>8. AccessOf(s).state = AccessIs(s).state /\ AccessOf(s).logs = AccessIs(s).logs
  BY <1>1, <1>5, <1>7, AccessFollows
<1>9. ErrorsOf(s) = ErrorsAre(s)
  BY <1>1, <1>5, <1>7, ErrorsFollow
<1>10. EffectiveFits'
  <2>1. DOMAIN effective' = DOMAIN effective \cup {s}
    BY <1>4
  <2>2. \A t \in DOMAIN effective' : EffectiveIs(t)'
    <3> SUFFICES ASSUME NEW t \in DOMAIN effective'
                 PROVE  /\ effective'[t].state = AccessIs(t).state /\ effective'[t].logs = AccessIs(t).logs
                        /\ effective'[t].errors = ErrorsAre(t)
      BY <1>3 DEF EffectiveIs
    <3>1. CASE t = s
      <4>1. effective'[t] = [state |-> AccessOf(s).state, logs |-> AccessOf(s).logs, errors |-> ErrorsOf(s)]
        BY <1>4, <3>1
      <4>2. QED BY <1>8, <1>9, <3>1, <4>1
    <3>2. CASE t # s
      <4>1. effective'[t] = effective[t] /\ t \in DOMAIN effective
        BY <1>4, <3>2
      <4>2. QED BY <1>1, <4>1 DEF EffectiveFits, EffectiveIs
    <3>3. QED BY <3>1, <3>2
  <2>3. \A t \in DOMAIN effective' : \A u \in Scopes : u < t => u \in DOMAIN effective'
    BY <1>1, <1>6, <2>1 DEF EffectiveFits
  <2>4. DOMAIN effective' \subseteq Scopes
    BY <1>1, <1>5, <2>1 DEF EffectiveFits
  <2>5. QED BY <1>2, <1>3, <2>2, <2>3, <2>4 DEF EffectiveFits
<1>11. VerdictsFit'
  <2>1. DOMAIN verdicts' = {}
    BY <1>1, <1>2 DEF VerdictsFit, Resolved
  <2>2. QED BY <2>1 DEF VerdictsFit
<1>12. QED BY <1>3, <1>10, <1>11 DEF LoggingIInv

\* One more scope gets its verdict; what it rests on stays.
LEMMA AssessKeeps ==
    ASSUME LoggingIInv, AssessScope
    PROVE  LoggingIInv'
<1>1. ScopesIInv /\ Configured /\ EffectiveFits /\ VerdictsFit
  BY DEF LoggingIInv
<1>2. Resolved /\ UNCHANGED <<scopeVars, access, errors, names, pattern, policy, effective>>
  BY DEF AssessScope
<1>3. PICK s \in Material \ DOMAIN verdicts :
         verdicts' = [t \in DOMAIN verdicts \cup {s} |-> IF t = s THEN Verdict(s) ELSE verdicts[t]]
  BY DEF AssessScope
<1>4. /\ ScopesIInv' /\ Configured' /\ Scopes' = Scopes /\ Built' = Built /\ Material' = Material
      /\ (\A t : AccessIs(t)' = AccessIs(t)) /\ (\A t : ErrorsAre(t)' = ErrorsAre(t))
      /\ (\A t : Verdict(t)' = Verdict(t))
  BY <1>1, <1>2, ScopesStay, LoggingStays, VerdictStays
<1>5. EffectiveFits'
  BY <1>1, <1>2, <1>4 DEF EffectiveFits, EffectiveIs
<1>6. VerdictsFit'
  <2>1. Resolved'
    BY <1>2, <1>4 DEF Resolved
  <2>2. \A t \in DOMAIN verdicts' : t \in Material /\ verdicts'[t] = Verdict(t)
    BY <1>1, <1>3 DEF VerdictsFit
  <2>3. QED BY <1>4, <2>1, <2>2 DEF VerdictsFit
<1>7. QED BY <1>4, <1>5, <1>6 DEF LoggingIInv

\* Every step of build_scope_graph, the resolution and the assessment.
LEMMA LoggingNextKeeps ==
    ASSUME LoggingIInv, [Next]_vars
    PROVE  LoggingIInv'
<1>1. CASE ScopesNext /\ UNCHANGED logVars
  BY <1>1, BuildingKeeps
<1>2. CASE ResolveScope
  BY <1>2, ResolveKeeps
<1>3. CASE AssessScope
  BY <1>3, AssessKeeps
<1>4. CASE UNCHANGED vars
  <2>1. UNCHANGED <<scopeVars, access, errors, names, pattern, policy, effective, verdicts>>
    BY <1>4 DEF vars, logVars
  <2>2. /\ ScopesIInv' = ScopesIInv /\ Configured' = Configured /\ Scopes' = Scopes /\ Built' = Built
        /\ Material' = Material /\ (\A t : AccessIs(t)' = AccessIs(t))
        /\ (\A t : ErrorsAre(t)' = ErrorsAre(t)) /\ (\A t : Verdict(t)' = Verdict(t))
    BY <2>1, ScopesStay, LoggingStays, VerdictStays
  <2>3. EffectiveFits'
    BY <2>1, <2>2 DEF LoggingIInv, EffectiveFits, EffectiveIs
  <2>4. VerdictsFit'
    BY <2>1, <2>2 DEF LoggingIInv, VerdictsFit, Resolved
  <2>5. QED BY <2>2, <2>3, <2>4 DEF LoggingIInv
<1>5. QED BY <1>1, <1>2, <1>3, <1>4 DEF Next

(***************************************************************************)
(* What follows for the verdicts.                                          *)
(***************************************************************************)
\* The types of what was resolved, and what nginx writes by it.
LEMMA LogsAre ==
    ASSUME Visited, Configured, NEW s \in Scopes, EffectiveIs(s)
    PROVE  /\ effective[s].state \in {"enabled", "off", "unknown"}
           /\ effective[s].logs \subseteq Destination
           /\ effective[s].state # "enabled" => effective[s].logs = {}
           /\ effective[s].state = "off" => NginxLogs(s) = {Off}
           /\ effective[s].state = "enabled" => NginxLogs(s) = effective[s].logs
<1> DEFINE declared == DeclaredAccess(Nearest(Levels(s)))
<1>1. DefaultLog \in Destination /\ Off \notin Destination
  BY LoggingAssumption DEF LoggingAssumption
<1>2. Levels(s) # {} => Nearest(Levels(s)) \in Scopes
  BY LevelsAre
<1>3. Levels(s) # {} => declared \subseteq Destination \cup {Off}
  BY <1>2, DeclaredIs
<1>4. NginxLogs(s) = IF declared = {} THEN {DefaultLog} ELSE declared
  BY DEF NginxLogs, Innermost, Nearest
<1>5. AccessIs(s) = IF Levels(s) = {} THEN [state |-> "unknown", logs |-> {}]
                    ELSE IF declared = {Off} THEN [state |-> "off", logs |-> {}]
                    ELSE IF Off \in declared THEN [state |-> "unknown", logs |-> {}]
                    ELSE IF declared # {} THEN [state |-> "enabled", logs |-> declared]
                    ELSE [state |-> "enabled", logs |-> {DefaultLog}]
  BY DEF AccessIs
<1>6. effective[s].state = AccessIs(s).state /\ effective[s].logs = AccessIs(s).logs
  BY DEF EffectiveIs
<1> HIDE DEF declared
<1>7. CASE Levels(s) = {}
  BY <1>5, <1>6, <1>7
<1>8. CASE Levels(s) # {} /\ declared = {Off}
  BY <1>4, <1>5, <1>6, <1>8
<1>9. CASE Levels(s) # {} /\ declared # {Off} /\ Off \in declared
  BY <1>5, <1>6, <1>9
<1>10. CASE Levels(s) # {} /\ Off \notin declared /\ declared # {}
  BY <1>3, <1>4, <1>5, <1>6, <1>10
<1>11. CASE Levels(s) # {} /\ declared = {}
  BY <1>1, <1>4, <1>5, <1>6, <1>11
<1>12. QED BY <1>7, <1>8, <1>9, <1>10, <1>11

\* The same for the error logs; nginx's default is there only when no level has one.
LEMMA ErrorLogsAre ==
    ASSUME Visited, Configured, NEW s \in Scopes, EffectiveIs(s)
    PROVE  /\ effective[s].errors \subseteq {"good", "bad", "unsure", "default"}
           /\ effective[s].errors # {}
           /\ ErrorLevels(s) # {} => effective[s].errors \subseteq {"good", "bad", "unsure"}
<1>1. effective[s].errors = ErrorsAre(s)
  BY DEF EffectiveIs
<1>2. CASE ErrorLevels(s) = {}
  BY <1>1, <1>2 DEF ErrorsAre
<1>3. CASE ErrorLevels(s) # {}
  <2>1. Nearest(ErrorLevels(s)) \in ErrorLevels(s) /\ Nearest(ErrorLevels(s)) \in Scopes
    BY <1>3, LevelsAre
  <2>2. DeclaredErrors(Nearest(ErrorLevels(s))) \subseteq {"good", "bad", "unsure"}
    BY <2>1, DeclaredIs
  <2>3. DeclaredErrors(Nearest(ErrorLevels(s))) # {}
    BY <2>1 DEF ErrorLevels
  <2>4. QED BY <1>1, <1>3, <2>2, <2>3 DEF ErrorsAre
<1>4. QED BY <1>2, <1>3

\* A scope that is not marked lacks no include, but for one that fails again later.
LEMMA WholeIs ==
    ASSUME ScopesIInv, Built, NEW s \in Scopes, s \notin incomplete
    PROVE  Whole(s)
<1>1. LastFailureCounts
  BY ScopesFollow DEF ScopesAreSound
<1>2. QED BY <1>1 DEF LastFailureCounts, Within, Whole

(* A server lies in no other, so a scope has one server and that server one name. *)

\* The parent of a server is http or the main context, and that of http is the main
\* context.
LEMMA NoServerAround ==
    ASSUME Visited, KindsFit, NEW s \in Scopes, kind[s] = "server",
           NEW t \in Chain(s), kind[t] = "server"
    PROVE  t = s
<1> DEFINE p == ParentScope(s)
<1>1. s # Main /\ t # Main /\ kind[Main] = "main" /\ Main \in Scopes
  BY DEF Visited
<1>2. p \in Scopes /\ Chain(s) = {s} \cup Chain(p)
  BY <1>1, ParentScopeIs, ChainIs
<1>3. kind[p] = "http" \/ kind[p] = "main"
  <2>1. kind[s] = ScopeKind(tree[s].name, kind[p], tree[s].parent \in container)
    BY <1>1 DEF KindsFit
  <2>2. QED BY <2>1 DEF ScopeKind
<1> HIDE DEF p
<1>4. \A x \in Scopes : kind[x] = "main" => x = Main
  BY DEF Visited, Kinds
<1>5. \A x \in Scopes : kind[x] = "main" => Chain(x) = {Main}
  BY <1>4, ChainIs
<1>6. CASE kind[p] = "main"
  BY <1>1, <1>2, <1>5, <1>6
<1>7. CASE kind[p] = "http"
  <2>1. p # Main
    BY <1>1, <1>7
  <2>2. kind[p] = ScopeKind(tree[p].name, kind[ParentScope(p)], tree[p].parent \in container)
    BY <1>2, <2>1 DEF KindsFit
  <2>3. kind[ParentScope(p)] = "main"
    BY <1>7, <2>2 DEF ScopeKind
  <2>4. ParentScope(p) \in Scopes /\ Chain(p) = {p} \cup Chain(ParentScope(p))
    BY <1>2, <2>1, ParentScopeIs, ChainIs
  <2>5. Chain(s) = {s, p, Main}
    BY <1>2, <1>5, <2>3, <2>4
  <2>6. QED BY <1>1, <1>7, <2>5
<1>8. QED BY <1>3, <1>6, <1>7

\* A block with names is a server (OneNameEach) and hence the scope it belongs to.
LEMMA OneName ==
    ASSUME Visited, KindsFit, OneNameEach, Built, NEW s \in Scopes
    PROVE  \A n, m \in NamesOf(s) : n = m
<1>1. \A x, y \in ServerOf(s) : x = y
  <2> SUFFICES ASSUME NEW x \in ServerOf(s), NEW y \in ServerOf(s) PROVE x = y
    OBVIOUS
  <2>1. x \in Chain(s) /\ y \in Chain(s) /\ kind[x] = "server" /\ kind[y] = "server"
    BY DEF ServerOf
  <2>2. x \in Scopes /\ y \in Scopes
    BY <2>1, ChainIs
  <2>3. x \in Chain(y) \/ y \in Chain(x)
    BY <2>1, ChainIs
  <2>4. QED BY <2>1, <2>2, <2>3, NoServerAround
<1>2. \A b \in Blocks : names[b] # {} /\ scopeOf[b] \in ServerOf(s) => scopeOf[b] = b
  <2> SUFFICES ASSUME NEW b \in Blocks, names[b] # {}, scopeOf[b] \in ServerOf(s)
               PROVE  scopeOf[b] = b
    OBVIOUS
  <2>0. b \in 1 .. (at - 1)
    BY TreeIsForest DEF Visited, Built, Blocks, Main
  <2>1. kind[scopeOf[b]] = "server" /\ scopeOf[b] \in Scopes /\ scopeOf[b] \in Enclosing(b)
    BY <2>0 DEF ServerOf, Visited
  <2>2. scopeOf[b] # Main
    BY <2>1 DEF Visited
  <2>3. kind[scopeOf[b]] = ScopeKind(tree[scopeOf[b]].name, kind[ParentScope(scopeOf[b])],
                                     tree[scopeOf[b]].parent \in container)
    BY <2>1, <2>2 DEF KindsFit
  <2>4. tree[scopeOf[b]].name = "server"
    BY <2>1, <2>3 DEF ScopeKind
  <2>5. QED BY <2>1, <2>4 DEF OneNameEach
<1>3. QED
  <2> SUFFICES ASSUME NEW n \in NamesOf(s), NEW m \in NamesOf(s) PROVE n = m
    OBVIOUS
  <2>1. PICK b \in Blocks : n \in names[b] /\ scopeOf[b] \in ServerOf(s)
    BY DEF NamesOf
  <2>2. PICK c \in Blocks : m \in names[c] /\ scopeOf[c] \in ServerOf(s)
    BY DEF NamesOf
  <2>3. b = c
    BY <1>1, <1>2, <2>1, <2>2
  <2>4. QED BY <2>1, <2>2, <2>3 DEF OneNameEach

\* So the profiles that match a scope overlap, and are the same.
LEMMA MatchedAlike ==
    ASSUME Visited, KindsFit, Configured, Built, NEW s \in Scopes,
           NEW i \in Matched(s), NEW j \in Matched(s)
    PROVE  policy.profiles[i] = policy.profiles[j]
<1>1. OneNameEach
  BY DEF Configured
<1>2. \A n, m \in NamesOf(s) : n = m
  BY <1>1, OneName
<1>3. i \in DOMAIN policy.profiles /\ j \in DOMAIN policy.profiles
  BY DEF Matched
<1>4. PICK p : p = policy.profiles[i]
  OBVIOUS
<1>5. PICK q : q = policy.profiles[j]
  OBVIOUS
<1>6. Matches(p, s) /\ Matches(q, s)
  BY <1>4, <1>5 DEF Matched
<1>7. p.names = {} \/ q.names = {} \/ p.names \cap q.names # {}
  BY <1>2, <1>6 DEF Matches
<1>8. p.patterns = {} \/ q.patterns = {} \/ p.patterns \cap q.patterns # {}
  BY <1>6 DEF Matches
<1>9. Overlap(p, q)
  BY <1>7, <1>8 DEF Overlap
<1>10. QED BY <1>3, <1>4, <1>5, <1>9 DEF Configured

(***************************************************************************)
(* A destination that neither fails nor is unsure is written in every run,  *)
(* and is fine; one that fails and is sure is not permitted, or is written  *)
(* in every run and not fine.                                               *)
(***************************************************************************)
LEMMA DestinationIsSure ==
    ASSUME NEW d \in Destination, NEW ns, NEW ps, NEW q \in Profile(ns, ps), NEW w \in World,
           d.cond # "false", ~DestinationUnsure(d, q)
    PROVE  /\ ~DestinationFails(d, q) =>
                 d.cond \in {"none", "true"} /\ Permitted(d, q) /\ Fine(d, q, w)
           /\ DestinationFails(d, q) => ~Permitted(d, q) \/ (Written(d, w) /\ ~Fine(d, q, w))
<1>1. /\ d.where \in {"file", "syslog", "variable", "unknown"}
      /\ d.cond \in {"none", "true", "false", "listed", "unlisted"}
      /\ d.format \in {"good", "bad", "undefined"}
      /\ q.conditional \in {"forbid", "allow_listed", "allow"}
  BY DEF Destination, Profile
<1>2. CASE d.cond \in {"none", "true"}
  <2>1. Permitted(d, q) /\ Written(d, w)
    BY <1>2 DEF Permitted, Written
  <2>2. DestinationFails(d, q) <=> ~Fine(d, q, w)
    BY <1>1, <1>2 DEF DestinationFails, DestinationUnsure, Fine
  <2>3. QED BY <1>2, <2>1, <2>2
<1>3. CASE d.cond \in {"listed", "unlisted"}
  <2>1. DestinationFails(d, q) /\ ~Permitted(d, q)
    BY <1>1, <1>3 DEF DestinationFails, DestinationUnsure, Permitted
  <2>2. QED BY <2>1
<1>4. QED BY <1>1, <1>2, <1>3

\* A pass is earned by the profile that was applied.
LEMMA PassSatisfies ==
    ASSUME Visited, Configured, NEW s \in Scopes, EffectiveIs(s),
           NEW ns, NEW ps, NEW q \in Profile(ns, ps), NEW w \in World, AccessVerdict(s, q) = "pass"
    PROVE  Satisfied(s, q, w)
<1> DEFINE e == effective[s]
           E == Enabled(e.logs)
           logs == NginxLogs(s) \ {Off}
           written == {d \in logs : Written(d, w)}
<1>1. /\ e.state \in {"enabled", "off", "unknown"} /\ e.logs \subseteq Destination
      /\ e.state # "enabled" => e.logs = {}
      /\ e.state = "off" => NginxLogs(s) = {Off}
      /\ e.state = "enabled" => NginxLogs(s) = e.logs
  BY LogsAre
<1>2. /\ e.state # "unknown"
      /\ \A d \in E : ~DestinationUnsure(d, q)
      /\ ~(q.remote /\ ~Remote(e.logs, {"none", "true"}) /\ Remote(e.logs, {"listed", "unlisted"}))
      /\ ~(q.required /\ e.state = "off" /\ ~q.allowOff)
      /\ ~(q.required /\ e.state # "off" /\ E = {})
      /\ \A d \in E : ~DestinationFails(d, q)
      /\ ~(q.remote /\ ~Remote(e.logs, {"none", "true"}))
  BY DEF AccessVerdict
<1> HIDE DEF e
<1>3. Off \notin Destination
  BY LoggingAssumption DEF LoggingAssumption
<1>4. logs = e.logs /\ (e.state = "off" => e.logs = {} /\ NginxLogs(s) = {Off})
  BY <1>1, <1>2, <1>3
<1>5. \A d \in E : d \in e.logs /\ d \in Destination /\ d.cond # "false"
  BY <1>1 DEF Enabled
<1>6. \A d \in E : d.cond \in {"none", "true"} /\ Permitted(d, q) /\ Fine(d, q, w)
  BY <1>2, <1>5, DestinationIsSure
<1>7. \A d \in e.logs : d \notin E => d.cond = "false"
  BY DEF Enabled
<1>8. written = E
  BY <1>4, <1>5, <1>6, <1>7 DEF Written
<1>9. \A d \in logs : Permitted(d, q)
  BY <1>4, <1>6, <1>7 DEF Permitted
<1>10. q.required => written # {} \/ (NginxLogs(s) = {Off} /\ q.allowOff)
  BY <1>2, <1>4, <1>8
<1>11. q.remote => \E d \in written : d.where = "syslog"
  <2>1. q.remote => \E d \in E : d.where = "syslog"
    BY <1>2 DEF Remote
  <2>2. QED BY <1>8, <2>1
<1>12. \A d \in written : Fine(d, q, w)
  BY <1>6, <1>8
<1>13. QED BY <1>9, <1>10, <1>11, <1>12 DEF Satisfied

\* And a fail is a fail in every run.
LEMMA FailUnsatisfied ==
    ASSUME Visited, Configured, NEW s \in Scopes, EffectiveIs(s),
           NEW ns, NEW ps, NEW q \in Profile(ns, ps), NEW w \in World, AccessVerdict(s, q) = "fail"
    PROVE  ~Satisfied(s, q, w)
<1> DEFINE e == effective[s]
           E == Enabled(e.logs)
           logs == NginxLogs(s) \ {Off}
           written == {d \in logs : Written(d, w)}
<1>1. /\ e.state \in {"enabled", "off", "unknown"} /\ e.logs \subseteq Destination
      /\ e.state # "enabled" => e.logs = {}
      /\ e.state = "off" => NginxLogs(s) = {Off}
      /\ e.state = "enabled" => NginxLogs(s) = e.logs
  BY LogsAre
<1>2. /\ e.state # "unknown"
      /\ \A d \in E : ~DestinationUnsure(d, q)
      /\ ~(q.remote /\ ~Remote(e.logs, {"none", "true"}) /\ Remote(e.logs, {"listed", "unlisted"}))
      /\ \/ q.required /\ e.state = "off" /\ ~q.allowOff
         \/ q.required /\ e.state # "off" /\ E = {}
         \/ \E d \in E : DestinationFails(d, q)
         \/ q.remote /\ ~Remote(e.logs, {"none", "true"})
  BY DEF AccessVerdict
<1> HIDE DEF e
<1>3. Off \notin Destination
  BY LoggingAssumption DEF LoggingAssumption
<1>4. logs = e.logs /\ (e.state = "off" => e.logs = {} /\ NginxLogs(s) = {Off})
      /\ (e.state # "off" => Off \notin NginxLogs(s))
  BY <1>1, <1>2, <1>3
<1>5. \A d \in E : d \in e.logs /\ d \in Destination /\ d.cond # "false"
  BY <1>1 DEF Enabled
<1>6. written \subseteq E
  BY <1>4 DEF Enabled, Written
<1> SUFFICES ASSUME Satisfied(s, q, w) PROVE FALSE
  OBVIOUS
<1>7. /\ q.required => written # {} \/ (NginxLogs(s) = {Off} /\ q.allowOff)
      /\ \A d \in logs : Permitted(d, q)
      /\ \A d \in written : Fine(d, q, w)
      /\ q.remote => \E d \in written : d.where = "syslog"
  BY DEF Satisfied
<1>8. CASE q.required /\ e.state = "off" /\ ~q.allowOff
  BY <1>4, <1>7, <1>8
<1>9. CASE q.required /\ e.state # "off" /\ E = {}
  BY <1>4, <1>6, <1>7, <1>9
<1>10. CASE \E d \in E : DestinationFails(d, q)
  <2>1. PICK d \in E : DestinationFails(d, q)
    BY <1>10
  <2>2. ~Permitted(d, q) \/ (Written(d, w) /\ ~Fine(d, q, w))
    BY <1>2, <1>5, <2>1, DestinationIsSure
  <2>3. d \in logs
    BY <1>4, <1>5
  <2>4. QED BY <1>7, <2>2, <2>3
<1>11. CASE q.remote /\ ~Remote(e.logs, {"none", "true"})
  <2>1. PICK d \in written : d.where = "syslog"
    BY <1>7, <1>11
  <2>2. d \in E /\ d \in Destination /\ d.cond # "false"
    BY <1>5, <1>6
  <2>3. d.cond \in {"none", "true", "listed", "unlisted"}
    BY <2>2 DEF Destination
  <2>4. Remote(e.logs, {"none", "true"}) \/ Remote(e.logs, {"listed", "unlisted"})
    BY <2>1, <2>2, <2>3 DEF Remote
  <2>5. QED BY <1>2, <1>11, <2>4
<1>12. QED BY <1>2, <1>8, <1>9, <1>10, <1>11

\* What was assessed, with the profile that was applied.
LEMMA AssessedIs ==
    ASSUME LoggingIInv, NEW s \in DOMAIN verdicts, Matched(s) # {}
    PROVE  \E j \in Matched(s) : \E ns, ps :
              /\ policy.profiles \in Seq(Profile(ns, ps))
              /\ policy.profiles[j] \in Profile(ns, ps)
              /\ verdicts[s].access = AccessVerdict(s, policy.profiles[j])
              /\ verdicts[s].error = ErrorVerdict(s, policy.profiles[j])
<1>1. PICK ns, ps : policy.profiles \in Seq(Profile(ns, ps))
  BY DEF LoggingIInv, Configured
<1>2. DOMAIN policy.profiles \in SUBSET Nat /\ \A i \in DOMAIN policy.profiles : policy.profiles[i] \in Profile(ns, ps)
  BY <1>1
<1>3. PICK j \in Matched(s) : j = First(Matched(s))
  BY <1>2, FirstIs DEF Matched
<1>4. j \in DOMAIN policy.profiles
  BY DEF Matched
<1>5. verdicts[s] = [access |-> AccessVerdict(s, policy.profiles[j]), error |-> ErrorVerdict(s, policy.profiles[j])]
  BY <1>3 DEF LoggingIInv, VerdictsFit, Verdict
<1>6. QED BY <1>1, <1>2, <1>4, <1>5

\* What the invariant says of a scope that was assessed.
LEMMA AssessedFits ==
    ASSUME LoggingIInv, NEW s \in DOMAIN verdicts
    PROVE  /\ Visited /\ KindsFit /\ Configured /\ Built /\ s \in Scopes /\ EffectiveIs(s)
           /\ s \notin incomplete => Whole(s)
<1>1. Visited /\ KindsFit /\ Configured /\ Built /\ s \in Scopes
  BY DEF LoggingIInv, ScopesIInv, VerdictsFit, Resolved, Material
<1>2. EffectiveIs(s)
  BY <1>1 DEF LoggingIInv, EffectiveFits, VerdictsFit, Resolved
<1>3. s \notin incomplete => Whole(s)
  BY <1>1, WholeIs DEF LoggingIInv
<1>4. QED BY <1>1, <1>2, <1>3

\* A pass is earned for every profile that matches the scope.
LEMMA PassFollows ==
    ASSUME LoggingIInv
    PROVE  PassIsEarned
<1> SUFFICES ASSUME NEW s \in DOMAIN verdicts, NEW i \in Matched(s), verdicts[s].access = "pass"
             PROVE  Whole(s) /\ \A w \in World : Satisfied(s, policy.profiles[i], w)
  BY DEF PassIsEarned
<1>1. /\ Visited /\ KindsFit /\ Configured /\ Built /\ s \in Scopes /\ EffectiveIs(s)
      /\ s \notin incomplete => Whole(s)
  BY AssessedFits
<1>2. PICK j \in Matched(s) : \E ns, ps :
         /\ policy.profiles \in Seq(Profile(ns, ps))
         /\ policy.profiles[j] \in Profile(ns, ps)
         /\ verdicts[s].access = AccessVerdict(s, policy.profiles[j])
         /\ verdicts[s].error = ErrorVerdict(s, policy.profiles[j])
  BY AssessedIs
<1>3. PICK ns, ps : /\ policy.profiles \in Seq(Profile(ns, ps))
                    /\ policy.profiles[j] \in Profile(ns, ps)
                    /\ AccessVerdict(s, policy.profiles[j]) = "pass"
  BY <1>2
<1>4. policy.profiles[i] = policy.profiles[j]
  BY <1>1, MatchedAlike
<1>5. PICK q : q = policy.profiles[j]
  OBVIOUS
<1>6. \A w \in World : Satisfied(s, q, w)
  BY <1>1, <1>3, <1>5, PassSatisfies
<1>7. Whole(s)
  BY <1>1, <1>3 DEF AccessVerdict
<1>8. QED BY <1>4, <1>5, <1>6, <1>7

\* And a fail is real.
LEMMA FailFollows ==
    ASSUME LoggingIInv
    PROVE  FailIsReal
<1> SUFFICES ASSUME NEW s \in DOMAIN verdicts, NEW i \in Matched(s), verdicts[s].access = "fail"
             PROVE  Whole(s) /\ \A w \in World : ~Satisfied(s, policy.profiles[i], w)
  BY DEF FailIsReal
<1>1. /\ Visited /\ KindsFit /\ Configured /\ Built /\ s \in Scopes /\ EffectiveIs(s)
      /\ s \notin incomplete => Whole(s)
  BY AssessedFits
<1>2. PICK j \in Matched(s) : \E ns, ps :
         /\ policy.profiles \in Seq(Profile(ns, ps))
         /\ policy.profiles[j] \in Profile(ns, ps)
         /\ verdicts[s].access = AccessVerdict(s, policy.profiles[j])
         /\ verdicts[s].error = ErrorVerdict(s, policy.profiles[j])
  BY AssessedIs
<1>3. PICK ns, ps : /\ policy.profiles \in Seq(Profile(ns, ps))
                    /\ policy.profiles[j] \in Profile(ns, ps)
                    /\ AccessVerdict(s, policy.profiles[j]) = "fail"
  BY <1>2
<1>4. policy.profiles[i] = policy.profiles[j]
  BY <1>1, MatchedAlike
<1>5. PICK q : q = policy.profiles[j]
  OBVIOUS
<1>6. \A w \in World : ~Satisfied(s, q, w)
  BY <1>1, <1>3, <1>5, FailUnsatisfied
<1>7. Whole(s)
  BY <1>1, <1>3 DEF AccessVerdict
<1>8. QED BY <1>4, <1>5, <1>6, <1>7

\* The verdict on error logs.
LEMMA ErrorFollows ==
    ASSUME LoggingIInv
    PROVE  ErrorVerdictIsTrue
<1> DEFINE Good(s) ==
              IF ErrorLevels(s) = {} THEN verdicts[s].error = "fail"
              ELSE (verdicts[s].error = "pass") <=> (DeclaredErrors(Nearest(ErrorLevels(s))) = {"good"})
<1>1. \A s \in DOMAIN verdicts : Matched(s) # {} /\ verdicts[s].error \in {"pass", "fail"} =>
         Whole(s) /\ ~Ambiguous(s) /\ Good(s)
  <2> SUFFICES ASSUME NEW s \in DOMAIN verdicts, Matched(s) # {}, verdicts[s].error \in {"pass", "fail"}
               PROVE  Whole(s) /\ ~Ambiguous(s) /\ Good(s)
    OBVIOUS
  <2>1. /\ Visited /\ KindsFit /\ Configured /\ Built /\ s \in Scopes /\ EffectiveIs(s)
        /\ s \notin incomplete => Whole(s)
    BY AssessedFits
  <2>2. PICK q : verdicts[s].error = ErrorVerdict(s, q)
    BY AssessedIs
  <2>3. PICK logs : logs = effective[s].errors
    OBVIOUS
  <2>4. ErrorVerdict(s, q) \in {"pass", "fail"}
    BY <2>2
  <2>5. /\ s \notin incomplete /\ ~Ambiguous(s) /\ "unsure" \notin logs
        /\ verdicts[s].error = IF "bad" \in logs \/ "default" \in logs THEN "fail" ELSE "pass"
    BY <2>2, <2>3, <2>4 DEF ErrorVerdict
  <2>6. /\ logs = ErrorsAre(s) /\ logs # {}
        /\ ErrorLevels(s) # {} => logs \subseteq {"good", "bad", "unsure"}
    BY <2>1, <2>3, ErrorLogsAre DEF EffectiveIs
  <2>7. CASE ErrorLevels(s) = {}
    <3>1. logs = {"default"}
      BY <2>6, <2>7 DEF ErrorsAre
    <3>2. QED BY <2>1, <2>5, <2>7, <3>1
  <2>8. CASE ErrorLevels(s) # {}
    <3>1. logs = DeclaredErrors(Nearest(ErrorLevels(s)))
      BY <2>6, <2>8 DEF ErrorsAre
    <3>2. "default" \notin logs /\ ("bad" \notin logs <=> logs = {"good"})
      BY <2>5, <2>6, <2>8
    <3>3. (verdicts[s].error = "pass") <=> logs = {"good"}
      BY <2>5, <3>2
    <3>4. QED BY <2>1, <2>5, <2>8, <3>1, <3>3
  <2>9. QED BY <2>7, <2>8
<1>2. \A s : Ambiguous(s) <=> Off \in DeclaredAccess(s) /\ DeclaredAccess(s) \ {Off} # {}
  BY DEF Ambiguous
<1>3. QED BY <1>1, <1>2 DEF ErrorVerdictIsTrue, ErrorLevels, Nearest

\* All that is said of the verdicts.
LEMMA VerdictsFollow ==
    ASSUME LoggingIInv
    PROVE  LoggingVerdictsAreTrue
<1>1. TypeOK
  <2>1. ScopesTypeOK
    BY ScopesFollow DEF LoggingIInv, ScopesAreSound
  <2>2. Visited /\ Configured /\ DOMAIN effective \subseteq Scopes
        /\ \A s \in DOMAIN effective : EffectiveIs(s) /\ s \in Scopes
    BY DEF LoggingIInv, ScopesIInv, EffectiveFits
  <2>3. \A s \in DOMAIN effective :
           /\ effective[s].state \in {"enabled", "off", "unknown"}
           /\ effective[s].logs \subseteq Destination
           /\ effective[s].state # "enabled" => effective[s].logs = {}
    BY <2>2, LogsAre
  <2>4. \A s \in DOMAIN effective :
           effective[s].errors \subseteq {"good", "bad", "unsure", "default"} /\ effective[s].errors # {}
    BY <2>2, ErrorLogsAre
  <2>5. \A s \in DOMAIN verdicts : s \in Material
    BY DEF LoggingIInv, VerdictsFit
  <2>6. QED BY <2>1, <2>2, <2>3, <2>4, <2>5 DEF TypeOK
<1>2. QED BY <1>1, PassFollows, FailFollows, ErrorFollows DEF LoggingVerdictsAreTrue

-----------------------------------------------------------------------------
(* The theorems. *)

\* The inductive invariant holds in every reachable state.
LEMMA LoggingInvariant == Spec => []LoggingIInv
<1>1. Init => LoggingIInv
  BY LoggingInitIInv DEF Init
<1>2. LoggingIInv /\ [Next]_vars => LoggingIInv'
  BY LoggingNextKeeps
<1>3. QED BY <1>1, <1>2, PTL DEF Spec

\* Whatever the configuration, with whatever includes that fail, in whatever order they
\* are attributed: the scopes of build_scope_graph are those nginx has, and a scope is
\* called incomplete only when an include failed where it could have changed it, and
\* whenever one did that does not fail again in a later scope.
THEOREM NginxScopesAreSound == Spec => []ScopesAreSound
<1>1. LoggingIInv => ScopesAreSound
  BY ScopesFollow DEF LoggingIInv
<1>2. QED BY <1>1, LoggingInvariant, PTL

\* And a logging policy that was accepted is passed or failed by evaluate_logging_policy
\* only where it is in every run of the server, for every profile that matches, and only
\* where no include is missing, but for one that fails again in a later scope.
THEOREM NginxLoggingVerdictsAreTrue == Spec => []LoggingVerdictsAreTrue
<1>1. LoggingIInv => LoggingVerdictsAreTrue
  BY VerdictsFollow
<1>2. QED BY <1>1, LoggingInvariant, PTL

-----------------------------------------------------------------------------
(* The rules: a configuration of blocks and directives, and what they find in it. *)

(***************************************************************************)
(* Directives that are inherited. What is looked up on the way from a block *)
(* to the main context is a recursion over the blocks, which ends because a *)
(* block follows the one around it.                                         *)
(***************************************************************************)
\* What a block is below of, and what it does with what it gets from there.
Below(below, n) == n \in Nat /\ \A m \in 1 .. n : below[m] \in 0 .. m - 1
Steps(T, step, n) == step \in [1 .. n -> [T -> T]]
Solution(f, T, n, below, first, step) ==
    f \in [0 .. n -> T] /\ f[0] = first /\ \A m \in 1 .. n : f[m] = step[m][f[below[m]]]

\* A recursion over numbers that goes down has a solution.
LEMMA Descends ==
    ASSUME NEW n, NEW below, Below(below, n),
           NEW T, NEW first, first \in T, NEW step, Steps(T, step, n)
    PROVE  \E f : Solution(f, T, n, below, first, step)
<1>0. /\ n \in Nat /\ step \in [1 .. n -> [T -> T]]
      /\ \A m \in 1 .. n : below[m] \in 0 .. m - 1
  BY DEF Below, Steps
<1> DEFINE Solves(f, k) == /\ f \in [0 .. n -> T] /\ f[0] = first
                           /\ \A m \in 1 .. k : f[m] = step[m][f[below[m]]]
           H == {k \in 0 .. n : \E f : Solves(f, k)}
<1>1. 0 \in H
  <2>1. Solves([m \in 0 .. n |-> first], 0)
    BY <1>0
  <2> HIDE DEF Solves
  <2>2. 0 \in 0 .. n
    BY <1>0
  <2>3. QED BY <2>1, <2>2
<1>2. \A k \in 0 .. n - 1 : k \in H => k + 1 \in H
  <2> SUFFICES ASSUME NEW k \in 0 .. n - 1, k \in H PROVE k + 1 \in H
    OBVIOUS
  <2>1. PICK f : Solves(f, k)
    OBVIOUS
  <2> DEFINE g == [f EXCEPT ![k + 1] = step[k + 1][f[below[k + 1]]]]
  <2>2. k + 1 \in 1 .. n /\ below[k + 1] \in 0 .. n /\ k \in Nat
    BY <1>0
  <2>3. step[k + 1][f[below[k + 1]]] \in T
    BY <1>0, <2>1, <2>2
  <2>4. /\ g \in [0 .. n -> T] /\ g[k + 1] = step[k + 1][f[below[k + 1]]]
        /\ \A m \in 0 .. n : m # k + 1 => g[m] = f[m]
    BY <2>1, <2>2, <2>3
  <2> HIDE DEF g
  <2>5. \A m \in 1 .. k + 1 : g[m] = step[m][g[below[m]]]
    <3> SUFFICES ASSUME NEW m \in 1 .. k + 1 PROVE g[m] = step[m][g[below[m]]]
      OBVIOUS
    <3>1. m \in 1 .. n /\ below[m] \in 0 .. n /\ below[m] # k + 1
      <4>1. below[m] \in 0 .. m - 1
        BY <1>0, <2>2
      <4>2. QED BY <1>0, <4>1, <2>2
    <3>2. g[below[m]] = f[below[m]]
      BY <2>4, <3>1
    <3>3. CASE m = k + 1
      BY <2>4, <3>2, <3>3
    <3>4. CASE m # k + 1
      <4>1. m \in 1 .. k /\ m \in 0 .. n
        BY <2>2, <3>1, <3>4
      <4>2. QED BY <2>1, <2>4, <3>2, <3>4, <4>1
    <3>5. QED BY <3>3, <3>4
  <2>6. Solves(g, k + 1)
    <3>1. g[0] = first
      BY <1>0, <2>1, <2>2, <2>4
    <3>2. QED BY <2>4, <2>5, <3>1
  <2> HIDE DEF Solves
  <2>7. k + 1 \in 0 .. n
    BY <1>0
  <2>8. QED BY <2>6, <2>7
<1>3. n \in H
  <2> HIDE DEF H
  <2>1. QED BY <1>0, <1>1, <1>2, UpTo
<1>4. QED BY <1>3 DEF Solution

\* What a configuration gives the recursion.
LEMMA BlocksNest ==
    ASSUME Serving!IsConfiguration
    PROVE  \E n \in Nat :
              /\ Serving!Blocks = 1 .. n /\ Serving!Blocks \cup {Serving!Main} = 0 .. n
              /\ \A b \in 1 .. n : blocks[b].parent \in 0 .. b - 1
<1>1. PICK n \in Nat : Serving!Blocks = 1 .. n
  BY DEF Serving!IsConfiguration
<1>2. (1 .. n) \cup {0} = 0 .. n
  OBVIOUS
<1>3. QED BY <1>1, <1>2 DEF Serving!IsConfiguration, Serving!Main

\* What holds of the main context, and of a block if it does of the one around it, holds of
\* every block.
LEMMA FromTheTop ==
    ASSUME Serving!IsConfiguration, NEW G, 0 \in G,
           \A c \in Serving!Blocks : blocks[c].parent \in G => c \in G, NEW b \in Serving!Blocks \cup {0}
    PROVE  b \in G
<1> DEFINE T == (Serving!Blocks \cup {0}) \ G
<1>1. PICK n \in Nat : /\ Serving!Blocks = 1 .. n /\ Serving!Blocks \cup {0} = 0 .. n
                       /\ \A c \in 1 .. n : blocks[c].parent \in 0 .. c - 1
  BY BlocksNest DEF Serving!Main
<1> SUFFICES ASSUME T # {} PROVE FALSE
  OBVIOUS
<1>2. T \in SUBSET Nat
  BY <1>1
<1>3. PICK c \in T : \A a \in T : c =< a
  <2> HIDE DEF T
  <2>1. QED BY <1>2, LeastElement
<1>4. c \in 1 .. n /\ c \notin G
  BY <1>1
<1>5. blocks[c].parent \in 0 .. c - 1 /\ blocks[c].parent \in 0 .. n
  BY <1>1, <1>4
<1>6. blocks[c].parent \notin T
  <2> HIDE DEF T
  <2>1. QED BY <1>2, <1>3, <1>4, <1>5
<1>7. QED BY <1>1, <1>4, <1>5, <1>6

\* The directives in force in a block: its own, or else those in force around it.
LEMMA InForceIs ==
    ASSUME Serving!IsConfiguration, NEW d
    PROVE  /\ \A b \in Serving!Blocks :
                 Serving!InForce(b, d) = IF Serving!Here(b, d) # {} THEN Serving!Here(b, d)
                                         ELSE Serving!InForce(blocks[b].parent, d)
           /\ Serving!InForce(0, d) = Serving!Here(0, d)
<1> DEFINE D == Serving!Blocks \cup {Serving!Main}
           Body(f, c) == IF Serving!Here(c, d) # {} THEN Serving!Here(c, d)
                         ELSE IF c = Serving!Main THEN {} ELSE f[blocks[c].parent]
<1>1. PICK n \in Nat : /\ Serving!Blocks = 1 .. n /\ D = 0 .. n
                       /\ \A b \in 1 .. n : blocks[b].parent \in 0 .. b - 1
  BY BlocksNest
<1> HIDE DEF D
<1> DEFINE T == SUBSET DOMAIN dirs
           below == [b \in 1 .. n |-> blocks[b].parent]
           step == [b \in 1 .. n |-> [t \in T |->
                       IF Serving!Here(b, d) # {} THEN Serving!Here(b, d) ELSE t]]
<1>2. \A b : Serving!Here(b, d) \in T
  BY DEF Serving!Here
<1>3. \A b \in 1 .. n : below[b] \in 0 .. b - 1 /\ below[b] = blocks[b].parent
  BY <1>1
<1>4. step \in [1 .. n -> [T -> T]]
  BY <1>2
<1>5. \A b \in 1 .. n : \A t \in T :
          step[b][t] = IF Serving!Here(b, d) # {} THEN Serving!Here(b, d) ELSE t
  OBVIOUS
<1> HIDE DEF T, below, step
<1>6. PICK f \in [0 .. n -> T] :
          f[0] = Serving!Here(0, d) /\ \A b \in 1 .. n : f[b] = step[b][f[below[b]]]
  <2>1. PICK first \in T : first = Serving!Here(0, d)
    BY <1>2
  <2>2. Below(below, n) /\ Steps(T, step, n)
    BY <1>3, <1>4 DEF Below, Steps
  <2>3. \E f : Solution(f, T, n, below, first, step)
    BY ONLY first \in T, <2>2, Descends
  <2>4. QED BY <2>1, <2>3 DEF Solution
<1>7. \A b \in 1 .. n : f[b] = Body(f, b)
  <2> SUFFICES ASSUME NEW b \in 1 .. n PROVE f[b] = Body(f, b)
    OBVIOUS
  <2>1. below[b] = blocks[b].parent /\ below[b] \in 0 .. n /\ b # 0
    BY <1>3
  <2>2. f[below[b]] \in T
    BY <2>1
  <2>3. QED BY <1>5, <1>6, <2>1, <2>2 DEF Serving!Main
<1>8. \A c \in D : f[c] = Body(f, c)
  <2>1. f[0] = Body(f, 0)
    BY <1>6 DEF Serving!Main
  <2>2. \A c \in D : c = 0 \/ c \in 1 .. n
    BY <1>1
  <2>3. QED BY <1>7, <2>1, <2>2
<1>9. f = [c \in D |-> f[c]]
  BY <1>1
<1> HIDE DEF Body
<1>10. f = [c \in D |-> Body(f, c)]
  BY <1>8, <1>9
<1> DEFINE up == CHOOSE u : u = [c \in D |-> Body(u, c)]
<1>11. up = [c \in D |-> Body(up, c)]
  BY <1>10
<1>12. \A b : Serving!InForce(b, d) = up[b]
  BY DEF Serving!InForce, D, Body
<1> HIDE DEF up
<1>13. \A c \in D : up[c] = Body(up, c)
  BY <1>11
<1>14. \A b \in Serving!Blocks : up[b] = Body(up, b) /\ b # 0
  BY <1>1, <1>13
<1>15. up[0] = Body(up, 0)
  BY <1>1, <1>13
<1>16. QED BY <1>12, <1>14, <1>15 DEF Body, Serving!Main

\* A block and those around it.
LEMMA AroundIs ==
    ASSUME Serving!IsConfiguration
    PROVE  /\ \A b \in Serving!Blocks :
                 Serving!Around(b) = {b} \cup Serving!Around(blocks[b].parent)
           /\ Serving!Around(0) = {0}
<1> DEFINE D == Serving!Blocks \cup {Serving!Main}
           Body(f, c) == IF c = Serving!Main THEN {Serving!Main} ELSE {c} \cup f[blocks[c].parent]
<1>1. PICK n \in Nat : /\ Serving!Blocks = 1 .. n /\ D = 0 .. n
                       /\ \A b \in 1 .. n : blocks[b].parent \in 0 .. b - 1
  BY BlocksNest
<1> HIDE DEF D
<1> DEFINE T == SUBSET (0 .. n)
           below == [b \in 1 .. n |-> blocks[b].parent]
           step == [b \in 1 .. n |-> [t \in T |-> {b} \cup t]]
<1>2. \A b \in 1 .. n : below[b] \in 0 .. b - 1 /\ below[b] = blocks[b].parent
  BY <1>1
<1>3. step \in [1 .. n -> [T -> T]]
  OBVIOUS
<1>4. \A b \in 1 .. n : \A t \in T : step[b][t] = {b} \cup t
  OBVIOUS
<1>5. {0} \in T
  OBVIOUS
<1> HIDE DEF T, below, step
<1>6. PICK f \in [0 .. n -> T] : f[0] = {0} /\ \A b \in 1 .. n : f[b] = step[b][f[below[b]]]
  <2>1. PICK first \in T : first = {0}
    BY <1>5
  <2>2. Below(below, n) /\ Steps(T, step, n)
    BY <1>2, <1>3 DEF Below, Steps
  <2>3. \E f : Solution(f, T, n, below, first, step)
    BY ONLY first \in T, <2>2, Descends
  <2>4. QED BY <2>1, <2>3 DEF Solution
<1>7. \A b \in 1 .. n : f[b] = Body(f, b)
  <2> SUFFICES ASSUME NEW b \in 1 .. n PROVE f[b] = Body(f, b)
    OBVIOUS
  <2>1. below[b] = blocks[b].parent /\ below[b] \in 0 .. n /\ b # 0
    BY <1>2
  <2>2. f[below[b]] \in T
    BY <2>1
  <2>3. QED BY <1>4, <1>6, <2>1, <2>2 DEF Serving!Main
<1>8. \A c \in D : f[c] = Body(f, c)
  <2>1. f[0] = Body(f, 0)
    BY <1>6 DEF Serving!Main
  <2>2. \A c \in D : c = 0 \/ c \in 1 .. n
    BY <1>1
  <2>3. QED BY <1>7, <2>1, <2>2
<1>9. f = [c \in D |-> f[c]]
  BY <1>1
<1> HIDE DEF Body
<1>10. f = [c \in D |-> Body(f, c)]
  BY <1>8, <1>9
<1> DEFINE up == CHOOSE u : u = [c \in D |-> Body(u, c)]
<1>11. up = [c \in D |-> Body(up, c)]
  BY <1>10
<1>12. \A b : Serving!Around(b) = up[b]
  BY DEF Serving!Around, D, Body
<1> HIDE DEF up
<1>13. \A c \in D : up[c] = Body(up, c)
  BY <1>11
<1>14. \A b \in Serving!Blocks : up[b] = Body(up, b) /\ b # 0
  BY <1>1, <1>13
<1>15. up[0] = Body(up, 0)
  BY <1>1, <1>13
<1>16. QED BY <1>12, <1>14, <1>15 DEF Body, Serving!Main

\* A block is around itself, and what is around that is too.
LEMMA AroundWhat ==
    ASSUME Serving!IsConfiguration, NEW b \in Serving!Blocks \cup {0}
    PROVE  /\ b \in Serving!Around(b) /\ Serving!Around(b) \subseteq Serving!Blocks \cup {0}
           /\ \A c \in Serving!Around(b) : Serving!Around(c) \subseteq Serving!Around(b)
<1> DEFINE Good(c) == /\ c \in Serving!Around(c) /\ Serving!Around(c) \subseteq Serving!Blocks \cup {0}
                      /\ \A a \in Serving!Around(c) : Serving!Around(a) \subseteq Serving!Around(c)
           G == {c \in Serving!Blocks \cup {0} : Good(c)}
<1>1. 0 \in G
  BY AroundIs
<1>2. \A c \in Serving!Blocks : blocks[c].parent \in G => c \in G
  BY AroundIs
<1> HIDE DEF Good
<1>3. b \in G
  <2> HIDE DEF G
  <2>1. QED BY <1>1, <1>2, FromTheTop
<1>4. QED BY <1>3 DEF Good

\* Of two blocks around a third one is around the other.
LEMMA AroundChain ==
    ASSUME Serving!IsConfiguration, NEW b \in Serving!Blocks \cup {0}
    PROVE  \A c, d \in Serving!Around(b) : c \in Serving!Around(d) \/ d \in Serving!Around(c)
<1> DEFINE Good(a) == \A c, d \in Serving!Around(a) : c \in Serving!Around(d) \/ d \in Serving!Around(c)
           G == {a \in Serving!Blocks \cup {0} : Good(a)}
<1>1. 0 \in G
  BY AroundIs
<1>2. \A a \in Serving!Blocks : blocks[a].parent \in G => a \in G
  <2> SUFFICES ASSUME NEW a \in Serving!Blocks, Good(blocks[a].parent),
                      NEW c \in Serving!Around(a), NEW d \in Serving!Around(a)
               PROVE  c \in Serving!Around(d) \/ d \in Serving!Around(c)
    OBVIOUS
  <2>1. Serving!Around(a) = {a} \cup Serving!Around(blocks[a].parent)
    BY AroundIs
  <2>2. QED BY <2>1
<1> HIDE DEF Good
<1>3. b \in G
  <2> HIDE DEF G
  <2>1. QED BY <1>1, <1>2, FromTheTop
<1>4. QED BY <1>3 DEF Good

\* What is in force in a block is said by one around it.
LEMMA InForceIsAround ==
    ASSUME Serving!IsConfiguration, NEW d, NEW b \in Serving!Blocks \cup {0}, Serving!InForce(b, d) # {}
    PROVE  \E c \in Serving!Around(b) :
              Serving!Here(c, d) # {} /\ Serving!InForce(b, d) = Serving!Here(c, d)
<1> DEFINE Good(c) == Serving!InForce(c, d) # {} =>
                          \E a \in Serving!Around(c) :
                             Serving!Here(a, d) # {} /\ Serving!InForce(c, d) = Serving!Here(a, d)
           G == {c \in Serving!Blocks \cup {0} : Good(c)}
<1>1. 0 \in G
  BY AroundIs, InForceIs
<1>2. \A c \in Serving!Blocks : blocks[c].parent \in G => c \in G
  <2> SUFFICES ASSUME NEW c \in Serving!Blocks, Good(blocks[c].parent) PROVE Good(c)
    OBVIOUS
  <2>1. Serving!Around(c) = {c} \cup Serving!Around(blocks[c].parent)
    BY AroundIs
  <2>2. Serving!InForce(c, d) = IF Serving!Here(c, d) # {} THEN Serving!Here(c, d)
                                ELSE Serving!InForce(blocks[c].parent, d)
    BY InForceIs
  <2>3. QED BY <2>1, <2>2
<1> HIDE DEF Good
<1>3. b \in G
  <2> HIDE DEF G
  <2>1. QED BY <1>1, <1>2, FromTheTop
<1>4. QED BY <1>3 DEF Good

\* That is one of the blocks, or the main context.
LEMMA InForceIsSomewhere ==
    ASSUME Serving!IsConfiguration, NEW d, NEW b \in Serving!Blocks \cup {0}
    PROVE  \/ Serving!InForce(b, d) = {}
           \/ \E c \in Serving!Blocks \cup {0} :
                 Serving!Here(c, d) # {} /\ Serving!InForce(b, d) = Serving!Here(c, d)
BY InForceIsAround, AroundWhat

\* A server of `http` has one around it.
LEMMA HttpIs ==
    ASSUME Serving!IsConfiguration, NEW s \in Serving!Servers, Serving!Http(s) # {}
    PROVE  /\ s \in Serving!Blocks /\ blocks[s].parent \in Serving!Blocks
           /\ Serving!Http(s) = {blocks[s].parent}
           /\ blocks[blocks[s].parent].parent = 0
<1>1. s \in Serving!Blocks /\ blocks[s].name = "server"
  BY DEF Serving!Servers, Serving!Named
<1>2. PICK h : h = blocks[s].parent
  OBVIOUS
<1>3. h \in Serving!Blocks /\ blocks[h].name = "http" /\ blocks[h].parent = 0
  BY <1>2 DEF Serving!IsConfiguration, Serving!Named, Serving!Main
<1>4. Serving!Around(s) = {s, h, 0}
  BY <1>1, <1>2, <1>3, AroundIs
<1>5. PICK n \in Nat : Serving!Blocks = 1 .. n
  BY BlocksNest
<1>6. h # 0 /\ s # 0
  BY <1>1, <1>3, <1>5
<1>7. \A b : b \in Serving!Http(s) <=> b \in {s, h, 0} /\ Serving!Context(b) = "http"
  BY <1>4 DEF Serving!Http
<1>8. Serving!Context(0) = "main" /\ Serving!Context(s) = "server" /\ Serving!Context(h) = "http"
  BY <1>1, <1>3, <1>6 DEF Serving!Context, Serving!Main
<1>9. \A b : b \in Serving!Http(s) <=> b = h
  BY <1>7, <1>8
<1>10. QED BY <1>1, <1>2, <1>3, <1>9

\* What is in force in a server of `http` is what the rules take to be effective.
LEMMA EffectiveIsInForce ==
    ASSUME Serving!IsConfiguration, NEW s \in Serving!Servers, Serving!Http(s) # {}, NEW d,
           Serving!Here(0, d) = {}
    PROVE  Serving!Effective(s, d) = Serving!InForce(s, d)
<1>1. PICK h : h = blocks[s].parent
  OBVIOUS
<1>2. /\ s \in Serving!Blocks /\ h \in Serving!Blocks
      /\ Serving!Http(s) = {h} /\ blocks[h].parent = 0
  BY <1>1, HttpIs
<1>3. Serving!Inherited(s, d) = Serving!Here(h, d)
  <2>1. Serving!Inherited(s, d) = UNION {Serving!Here(b, d) : b \in {h}}
    BY <1>2 DEF Serving!Inherited
  <2>2. QED BY <2>1
<1>4. Serving!InForce(h, d) = Serving!Here(h, d)
  BY <1>2, InForceIs
<1>5. Serving!InForce(s, d) = IF Serving!Here(s, d) # {} THEN Serving!Here(s, d) ELSE Serving!Here(h, d)
  BY <1>1, <1>2, <1>4, InForceIs
<1>6. QED BY <1>3, <1>5 DEF Serving!Effective

\* Two servers to which one directive is effective have them all in common.
LEMMA EffectiveAlike ==
    ASSUME Serving!IsConfiguration, NEW s \in Serving!Servers, NEW t \in Serving!Servers, NEW d,
           Serving!Effective(s, d) \cap Serving!Effective(t, d) # {}
    PROVE  Serving!Effective(s, d) = Serving!Effective(t, d)
<1> DEFINE Of(u) == \/ Serving!Effective(u, d) = {}
                    \/ \E b : Serving!Effective(u, d) = Serving!Here(b, d)
<1>1. ASSUME NEW u \in Serving!Servers PROVE Of(u)
  <2>1. CASE Serving!Http(u) = {}
    <3>1. Serving!Inherited(u, d) = {}
      BY <2>1 DEF Serving!Inherited
    <3>2. QED BY <3>1 DEF Serving!Effective
  <2>2. CASE Serving!Http(u) # {}
    <3>1. Serving!Http(u) = {blocks[u].parent}
      BY <2>2, HttpIs
    <3>2. Serving!Inherited(u, d) = UNION {Serving!Here(b, d) : b \in {blocks[u].parent}}
      BY <3>1 DEF Serving!Inherited
    <3>3. Serving!Inherited(u, d) = Serving!Here(blocks[u].parent, d)
      BY <3>2
    <3>4. QED BY <3>3 DEF Serving!Effective
  <2>3. QED BY <2>1, <2>2
<1>2. \A a, b : Serving!Here(a, d) \cap Serving!Here(b, d) # {} => a = b
  BY DEF Serving!Here
<1>3. QED BY <1>1, <1>2

\* The greatest directive of some is one of them.
LEMMA MaxIs ==
    ASSUME Serving!IsConfiguration, NEW S \in SUBSET DOMAIN dirs, S # {}
    PROVE  Serving!Max(S) \in S
<1>1. PICK n \in Nat : DOMAIN dirs = 1 .. n
  BY DEF Serving!IsConfiguration
<1>2. S \in SUBSET (0 .. n)
  BY <1>1
<1>3. PICK m \in S : \A x \in S : x =< m
  BY <1>2, GreatestElement
<1>4. \E x \in S : \A y \in S : x >= y
  BY <1>2, <1>3
<1>5. QED BY <1>4, SMTT(60) DEF Serving!Max

\* The least number of some is one of them.
LEMMA MinIs ==
    ASSUME NEW S \in SUBSET Nat, S # {}
    PROVE  Serving!Min(S) \in S /\ \A x \in S : Serving!Min(S) =< x
<1>1. \E m \in S : \A x \in S : m =< x
  BY LeastElement
<1>2. QED BY <1>1 DEF Serving!Min

\* What is effective to a server are directives of the name.
LEMMA EffectiveNames ==
    ASSUME NEW s, NEW d
    PROVE  /\ Serving!Effective(s, d) \in SUBSET DOMAIN dirs
           /\ \A i \in Serving!Effective(s, d) : dirs[i].name = d
BY DEF Serving!Effective, Serving!Inherited, Serving!Here

(***************************************************************************)
(* The rules for TLS: what they report is theirs to say, and stays so.     *)
(***************************************************************************)
\* What is checked reads as the rules say.
TlsReports ==
    /\ findings["weak_ssl_protocols"] = Serving!weak_ssl_protocols
    /\ findings["missing_ssl_protocols"] = Serving!missing_ssl_protocols
    /\ findings["ssl_ciphers_weak"] = Serving!ssl_ciphers_weak
    /\ findings["missing_ssl_ciphers"] = Serving!missing_ssl_ciphers
    /\ findings["missing_ssl_prefer_server_ciphers"] = Serving!missing_ssl_prefer_server_ciphers
    /\ findings["ssl_session_cache_missing"] = Serving!ssl_session_cache_missing
    /\ findings["ssl_session_timeout_missing_or_invalid"] = Serving!ssl_session_timeout_missing_or_invalid
    /\ findings["ssl_stapling_disabled"] = Serving!ssl_stapling_disabled
    /\ findings["ssl_stapling_missing_resolver"] = Serving!ssl_stapling_missing_resolver
    /\ findings["ssl_stapling_without_verify"] = Serving!ssl_stapling_without_verify
    /\ findings["ssl_conf_command_tls_compression_enabled"] = Serving!ssl_conf_command_tls_compression_enabled
    /\ findings["ssl_conf_command_unsafe_renegotiation_enabled"] = Serving!ssl_conf_command_unsafe_renegotiation_enabled
    /\ findings["missing_hsts_header"] = Serving!missing_hsts_header
    /\ findings["hsts_header_unsafe"] = Serving!hsts_header_unsafe
    /\ findings["missing_ssl_certificate"] = Serving!missing_ssl_certificate
    /\ findings["missing_ssl_certificate_key"] = Serving!missing_ssl_certificate_key
    /\ findings["proxy_ssl_verify_disabled"] = Serving!proxy_ssl_verify_disabled
    /\ findings["proxy_ssl_trusted_certificate_missing"] = Serving!proxy_ssl_trusted_certificate_missing

\* What does not depend on the findings.
LEMMA ConfigurationStays ==
    ASSUME UNCHANGED <<blocks, dirs>>
    PROVE  /\ Serving!Servers' = Serving!Servers /\ Serving!TlsServers' = Serving!TlsServers
           /\ Serving!Blocks' = Serving!Blocks
           /\ \A b, d : Serving!Here(b, d)' = Serving!Here(b, d)
           /\ \A s, d : Serving!Effective(s, d)' = Serving!Effective(s, d)
           /\ \A b, d : Serving!ProxyEffective(b, d)' = Serving!ProxyEffective(b, d)
           /\ Serving!ProxyScopes' = Serving!ProxyScopes
           /\ Serving!TlsConfiguration' = Serving!TlsConfiguration
<1>1. /\ Serving!Blocks' = Serving!Blocks
      /\ \A b, d : Serving!Here(b, d)' = Serving!Here(b, d)
      /\ \A b : Serving!Context(b)' = Serving!Context(b)
  BY DEF Serving!Blocks, Serving!Here, Serving!Context
<1>2. Serving!Servers' = Serving!Servers
  BY <1>1 DEF Serving!Servers, Serving!Named
<1>3. Serving!TlsServers' = Serving!TlsServers
  BY <1>1, <1>2 DEF Serving!TlsServers, Serving!UsesTls, Serving!Has
<1>4. \A s : Serving!Http(s)' = Serving!Http(s)
  <2>1. \A b : Serving!Around(b)' = Serving!Around(b)
    BY <1>1 DEF Serving!Around
  <2>2. QED BY <1>1, <2>1 DEF Serving!Http
<1>5. \A s, d : Serving!Effective(s, d)' = Serving!Effective(s, d)
  <2>1. \A s, d : Serving!Inherited(s, d)' = Serving!Inherited(s, d)
    BY <1>1, <1>4 DEF Serving!Inherited
  <2>2. QED BY <1>1, <2>1 DEF Serving!Effective
<1>6. \A b, d : Serving!ProxyEffective(b, d)' = Serving!ProxyEffective(b, d)
  BY <1>1, ZenonT(60) DEF Serving!ProxyEffective
<1>7. Serving!ProxyScopes' = Serving!ProxyScopes
  BY <1>1 DEF Serving!ProxyScopes, Serving!Has
<1>8. Serving!TlsConfiguration' = Serving!TlsConfiguration
  <2>1. Serving!IsConfiguration' = Serving!IsConfiguration
    BY <1>1, <1>2, <1>4 DEF Serving!IsConfiguration, Serving!Named
  <2>2. QED BY <1>1, <2>1 DEF Serving!TlsConfiguration, Serving!Only, Serving!Anywhere
<1>9. QED BY <1>1, <1>2, <1>3, <1>5, <1>6, <1>7, <1>8

\* Nor does what the rules have to report.
LEMMA RulesStay ==
    ASSUME UNCHANGED <<blocks, dirs>>
    PROVE  /\ Serving!weak_ssl_protocols' = Serving!weak_ssl_protocols
           /\ Serving!missing_ssl_protocols' = Serving!missing_ssl_protocols
           /\ Serving!ssl_ciphers_weak' = Serving!ssl_ciphers_weak
           /\ Serving!missing_ssl_ciphers' = Serving!missing_ssl_ciphers
           /\ Serving!missing_ssl_prefer_server_ciphers' = Serving!missing_ssl_prefer_server_ciphers
           /\ Serving!ssl_session_cache_missing' = Serving!ssl_session_cache_missing
           /\ Serving!ssl_session_timeout_missing_or_invalid' = Serving!ssl_session_timeout_missing_or_invalid
           /\ Serving!ssl_stapling_disabled' = Serving!ssl_stapling_disabled
           /\ Serving!ssl_stapling_missing_resolver' = Serving!ssl_stapling_missing_resolver
           /\ Serving!ssl_stapling_without_verify' = Serving!ssl_stapling_without_verify
           /\ Serving!ssl_conf_command_tls_compression_enabled' = Serving!ssl_conf_command_tls_compression_enabled
           /\ Serving!ssl_conf_command_unsafe_renegotiation_enabled' = Serving!ssl_conf_command_unsafe_renegotiation_enabled
           /\ Serving!missing_hsts_header' = Serving!missing_hsts_header
           /\ Serving!hsts_header_unsafe' = Serving!hsts_header_unsafe
           /\ Serving!missing_ssl_certificate' = Serving!missing_ssl_certificate
           /\ Serving!missing_ssl_certificate_key' = Serving!missing_ssl_certificate_key
           /\ Serving!proxy_ssl_verify_disabled' = Serving!proxy_ssl_verify_disabled
           /\ Serving!proxy_ssl_trusted_certificate_missing' = Serving!proxy_ssl_trusted_certificate_missing
<1>1. /\ Serving!Servers' = Serving!Servers /\ Serving!TlsServers' = Serving!TlsServers
      /\ \A b, d : Serving!Here(b, d)' = Serving!Here(b, d)
      /\ \A s, d : Serving!Effective(s, d)' = Serving!Effective(s, d)
      /\ \A b, d : Serving!ProxyEffective(b, d)' = Serving!ProxyEffective(b, d)
      /\ Serving!ProxyScopes' = Serving!ProxyScopes
      /\ UNCHANGED dirs
  BY ConfigurationStays
<1>2. Serving!weak_ssl_protocols' = Serving!weak_ssl_protocols
  BY <1>1 DEF Serving!weak_ssl_protocols, Serving!Weak, Serving!EffectiveIn, Serving!Value
<1>3. Serving!missing_ssl_protocols' = Serving!missing_ssl_protocols
  BY <1>1 DEF Serving!missing_ssl_protocols
<1>4. Serving!ssl_ciphers_weak' = Serving!ssl_ciphers_weak
  BY <1>1 DEF Serving!ssl_ciphers_weak, Serving!Weak, Serving!EffectiveIn, Serving!Value
<1>5. Serving!missing_ssl_ciphers' = Serving!missing_ssl_ciphers
  BY <1>1 DEF Serving!missing_ssl_ciphers, Serving!UsesTls, Serving!Has
<1>6. Serving!missing_ssl_prefer_server_ciphers' = Serving!missing_ssl_prefer_server_ciphers
  BY <1>1 DEF Serving!missing_ssl_prefer_server_ciphers, Serving!IsOn, Serving!Value
<1>7. Serving!ssl_session_cache_missing' = Serving!ssl_session_cache_missing
  BY <1>1 DEF Serving!ssl_session_cache_missing, Serving!SessionFinding, Serving!Value
<1>8. Serving!ssl_session_timeout_missing_or_invalid' = Serving!ssl_session_timeout_missing_or_invalid
  BY <1>1 DEF Serving!ssl_session_timeout_missing_or_invalid, Serving!SessionFinding, Serving!Value
<1>9. Serving!ssl_stapling_disabled' = Serving!ssl_stapling_disabled
  BY <1>1 DEF Serving!ssl_stapling_disabled, Serving!IsOn, Serving!Value
<1>10. Serving!ssl_stapling_missing_resolver' = Serving!ssl_stapling_missing_resolver
  BY <1>1 DEF Serving!ssl_stapling_missing_resolver, Serving!IsOn, Serving!Value
<1>11. Serving!ssl_stapling_without_verify' = Serving!ssl_stapling_without_verify
  BY <1>1 DEF Serving!ssl_stapling_without_verify, Serving!IsOn, Serving!Value
<1>12. Serving!ssl_conf_command_tls_compression_enabled' = Serving!ssl_conf_command_tls_compression_enabled
  BY <1>1, SMTT(60) DEF Serving!ssl_conf_command_tls_compression_enabled, Serving!OptionEnabled,
                Serving!Weak, Serving!OptionDecides, Serving!Value
<1>13. Serving!ssl_conf_command_unsafe_renegotiation_enabled' = Serving!ssl_conf_command_unsafe_renegotiation_enabled
  BY <1>1, SMTT(60) DEF Serving!ssl_conf_command_unsafe_renegotiation_enabled, Serving!OptionEnabled,
                Serving!Weak, Serving!OptionDecides, Serving!Value
<1>14. Serving!missing_hsts_header' = Serving!missing_hsts_header
  BY <1>1 DEF Serving!missing_hsts_header, Serving!Hsts
<1>15. Serving!hsts_header_unsafe' = Serving!hsts_header_unsafe
  <2>1. \A s : Serving!Hsts(s)' = Serving!Hsts(s)
    BY <1>1 DEF Serving!Hsts
  <2>2. {Serving!Hsts(s) : s \in Serving!TlsServers}' = {Serving!Hsts(s) : s \in Serving!TlsServers}
    BY <1>1, <2>1
  <2>3. QED BY <1>1, <2>2 DEF Serving!hsts_header_unsafe, Serving!Weak, Serving!Value
<1>16. Serving!missing_ssl_certificate' = Serving!missing_ssl_certificate
  BY <1>1 DEF Serving!missing_ssl_certificate
<1>17. Serving!missing_ssl_certificate_key' = Serving!missing_ssl_certificate_key
  BY <1>1 DEF Serving!missing_ssl_certificate_key
<1>18. Serving!proxy_ssl_verify_disabled' = Serving!proxy_ssl_verify_disabled
  BY <1>1 DEF Serving!proxy_ssl_verify_disabled, Serving!IsOn, Serving!Value
<1>19. Serving!proxy_ssl_trusted_certificate_missing' = Serving!proxy_ssl_trusted_certificate_missing
  BY <1>1 DEF Serving!proxy_ssl_trusted_certificate_missing, Serving!IsOn, Serving!Value
<1>20. QED BY <1>2, <1>3, <1>4, <1>5, <1>6, <1>7, <1>8, <1>9, <1>10, <1>11,
             <1>12, <1>13, <1>14, <1>15, <1>16, <1>17, <1>18, <1>19

(***************************************************************************)
(* What each of the rules for TLS reports of a server.                     *)
(***************************************************************************)
\* A rule that reports the last directive where its value is v, of sets of directives of
\* which any two are the same or have none in common.
LEMMA WeakOf ==
    ASSUME Serving!IsConfiguration, NEW of, NEW v, v # "none",
           \A t \in Serving!TlsServers : of[t] \in SUBSET DOMAIN dirs,
           \A t, u \in Serving!TlsServers : of[t] \cap of[u] # {} => of[t] = of[u]
    PROVE  LET found == Serving!Weak({S \in {of[t] : t \in Serving!TlsServers} : Serving!Value(S) = v}) IN
           /\ \A x \in found : \E t \in Serving!TlsServers : \E i \in of[t] : x = Serving!On(i)
           /\ \A s \in Serving!TlsServers :
                 Serving!Value(of[s]) = v <=> \E i \in of[s] : Serving!On(i) \in found
<1> DEFINE found == Serving!Weak({S \in {of[t] : t \in Serving!TlsServers} : Serving!Value(S) = v})
<1>1. \A t \in Serving!TlsServers :
          Serving!Value(of[t]) = v => of[t] # {} /\ Serving!Max(of[t]) \in of[t]
  BY MaxIs DEF Serving!Value
<1>2. \A x : x \in found <=> \E t \in Serving!TlsServers :
                                 Serving!Value(of[t]) = v /\ x = Serving!On(Serving!Max(of[t]))
  BY DEF Serving!Weak
<1> HIDE DEF found
<1>3. \A x \in found : \E t \in Serving!TlsServers : \E i \in of[t] : x = Serving!On(i)
  BY <1>1, <1>2
<1>4. ASSUME NEW s \in Serving!TlsServers
      PROVE  Serving!Value(of[s]) = v <=> \E i \in of[s] : Serving!On(i) \in found
  <2>1. Serving!Value(of[s]) = v => \E i \in of[s] : Serving!On(i) \in found
    BY <1>1, <1>2
  <2>2. ASSUME NEW i \in of[s], Serving!On(i) \in found PROVE Serving!Value(of[s]) = v
    <3>1. PICK t \in Serving!TlsServers :
              Serving!Value(of[t]) = v /\ Serving!On(i) = Serving!On(Serving!Max(of[t]))
      BY <1>2, <2>2
    <3>2. i = Serving!Max(of[t])
      BY <3>1 DEF Serving!On
    <3>3. i \in of[t]
      BY <1>1, <3>1, <3>2
    <3>4. of[s] = of[t]
      BY <3>3
    <3>5. QED BY <3>1, <3>4
  <2>3. QED BY <2>1, <2>2
<1>5. QED BY <1>3, <1>4 DEF found

\* A server is reported by what a rule found if it is itself, or a directive in force in it.
Hit(s, found) ==
    \/ Serving!At(s) \in found
    \/ \E i \in DOMAIN dirs : Serving!On(i) \in found /\ i \in Serving!InForce(s, dirs[i].name)

\* What the rules look at in a server is what is in force.
LEMMA WholeServer ==
    ASSUME Serving!TlsConfiguration, NEW s \in Serving!WholeTlsServers
    PROVE  /\ s \in Serving!Servers /\ s \in Serving!TlsServers /\ Serving!UsesTls(s)
           /\ Serving!IsConfiguration
           /\ \A d \in Serving!TlsSettings :
                 /\ Serving!Effective(s, d) = Serving!InForce(s, d)
                 /\ Serving!Value(Serving!Effective(s, d)) = Serving!Runs(s, d)
<1>1. s \in Serving!Servers /\ s \in Serving!TlsServers /\ Serving!UsesTls(s) /\ Serving!Http(s) # {}
  BY DEF Serving!WholeTlsServers, Serving!TlsServers
<1>2. Serving!IsConfiguration /\ \A d \in Serving!TlsSettings : Serving!Here(0, d) = {}
  BY DEF Serving!TlsConfiguration, Serving!Main
<1>3. \A d \in Serving!TlsSettings : Serving!Effective(s, d) = Serving!InForce(s, d)
  BY <1>1, <1>2, EffectiveIsInForce
<1>4. QED BY <1>1, <1>2, <1>3 DEF Serving!Runs

\* The last directive for a setting is a weak one.
LEMMA WeakSetting ==
    ASSUME Serving!TlsConfiguration, NEW s \in Serving!WholeTlsServers, NEW d \in Serving!TlsSettings
    PROVE  Hit(s, Serving!Weak({S \in Serving!EffectiveIn(Serving!TlsServers, d) : Serving!Value(S) = "weak"}))
               <=> Serving!Runs(s, d) = "weak"
<1> DEFINE of == [t \in Serving!TlsServers |-> Serving!Effective(t, d)]
           found == Serving!Weak({S \in {of[t] : t \in Serving!TlsServers} : Serving!Value(S) = "weak"})
<1>1. \A t \in Serving!TlsServers : of[t] = Serving!Effective(t, d)
  OBVIOUS
<1>2. {S \in Serving!EffectiveIn(Serving!TlsServers, d) : Serving!Value(S) = "weak"}
          = {S \in {of[t] : t \in Serving!TlsServers} : Serving!Value(S) = "weak"}
  BY DEF Serving!EffectiveIn, Serving!Value
<1> HIDE DEF of
<1>3. \A t \in Serving!TlsServers : t \in Serving!Servers
  BY DEF Serving!TlsServers
<1>4. /\ Serving!IsConfiguration
      /\ \A t \in Serving!TlsServers : of[t] \in SUBSET DOMAIN dirs /\ \A i \in of[t] : dirs[i].name = d
      /\ \A t, u \in Serving!TlsServers : of[t] \cap of[u] # {} => of[t] = of[u]
  BY <1>1, <1>3, WholeServer, EffectiveNames, EffectiveAlike
<1>5. /\ \A x \in found : \E t \in Serving!TlsServers : \E i \in of[t] : x = Serving!On(i)
      /\ \A t \in Serving!TlsServers :
            Serving!Value(of[t]) = "weak" <=> \E i \in of[t] : Serving!On(i) \in found
  BY <1>4, WeakOf
<1> HIDE DEF found
<1>6. \A i : Serving!On(i) \in found => i \in DOMAIN dirs /\ dirs[i].name = d
  BY <1>4, <1>5 DEF Serving!On
<1>7. Serving!At(s) \notin found
  BY <1>5 DEF Serving!On, Serving!At
<1>8. s \in Serving!TlsServers /\ of[s] = Serving!InForce(s, d)
      /\ Serving!Value(of[s]) = Serving!Runs(s, d)
  BY <1>1, WholeServer
<1>9. Hit(s, found) <=> \E i \in of[s] : Serving!On(i) \in found
  BY <1>6, <1>7, <1>8 DEF Hit
<1>10. QED BY <1>2, <1>5, <1>8, <1>9 DEF found

\* The last header for strict transport security is too short.
LEMMA WeakHsts ==
    ASSUME Serving!TlsConfiguration, NEW s \in Serving!WholeTlsServers
    PROVE  /\ Hit(s, Serving!hsts_header_unsafe) <=> Serving!HstsRuns(s) = "hsts short"
           /\ Hit(s, Serving!missing_hsts_header) <=> Serving!HstsRuns(s) = "none"
           /\ Serving!HstsRuns(s) \in {"none", "hsts", "hsts short"}
<1> DEFINE of == [t \in Serving!TlsServers |-> Serving!Hsts(t)]
           found == Serving!Weak({S \in {of[t] : t \in Serving!TlsServers} : Serving!Value(S) = "hsts short"})
<1>1. \A t \in Serving!TlsServers : of[t] = Serving!Hsts(t)
  OBVIOUS
<1>2. found = Serving!hsts_header_unsafe
  <2>1. {of[t] : t \in Serving!TlsServers} = {Serving!Hsts(t) : t \in Serving!TlsServers}
    OBVIOUS
  <2>2. QED BY <2>1 DEF Serving!hsts_header_unsafe
<1> HIDE DEF of
<1>3. \A t \in Serving!TlsServers : t \in Serving!Servers
  BY DEF Serving!TlsServers
<1>4. Serving!IsConfiguration
  BY WholeServer
<1>5. \A t \in Serving!TlsServers :
          of[t] \in SUBSET DOMAIN dirs /\ \A i \in of[t] : dirs[i].name = "add_header"
  BY <1>1, EffectiveNames, ZenonT(60) DEF Serving!Hsts
<1>6. \A t, u \in Serving!TlsServers : of[t] \cap of[u] # {} => of[t] = of[u]
  <2> SUFFICES ASSUME NEW t \in Serving!TlsServers, NEW u \in Serving!TlsServers, of[t] \cap of[u] # {}
               PROVE  of[t] = of[u]
    OBVIOUS
  <2>1. Serving!Effective(t, "add_header") \cap Serving!Effective(u, "add_header") # {}
    BY <1>1 DEF Serving!Hsts
  <2>2. Serving!Effective(t, "add_header") = Serving!Effective(u, "add_header")
    BY <1>3, <1>4, <2>1, EffectiveAlike
  <2>3. QED BY <1>1, <2>2 DEF Serving!Hsts
<1>7. /\ \A x \in found : \E t \in Serving!TlsServers : \E i \in of[t] : x = Serving!On(i)
      /\ \A t \in Serving!TlsServers :
            Serving!Value(of[t]) = "hsts short" <=> \E i \in of[t] : Serving!On(i) \in found
  <2>1. PICK v : v = "hsts short"
    OBVIOUS
  <2>2. v # "none" /\ \A t \in Serving!TlsServers : of[t] \in SUBSET DOMAIN dirs
    BY <1>5, <2>1
  <2>3. QED BY <1>4, <1>6, <2>1, <2>2, WeakOf, ZenonT(60)
<1> HIDE DEF found
<1>8. /\ s \in Serving!TlsServers
      /\ of[s] = {i \in Serving!InForce(s, "add_header") : dirs[i].value \in {"hsts", "hsts short"}}
      /\ Serving!Value(of[s]) = Serving!HstsRuns(s)
  <2>1. s \in Serving!TlsServers /\ Serving!Effective(s, "add_header") = Serving!InForce(s, "add_header")
    BY WholeServer DEF Serving!TlsSettings
  <2>2. of[s] = {i \in Serving!InForce(s, "add_header") : dirs[i].value \in {"hsts", "hsts short"}}
    BY <1>1, <2>1 DEF Serving!Hsts
  <2>3. QED BY <2>1, <2>2 DEF Serving!HstsRuns
<1>9. \A i : Serving!On(i) \in found => /\ i \in DOMAIN dirs /\ dirs[i].name = "add_header"
                                        /\ dirs[i].value \in {"hsts", "hsts short"}
  <2>1. \A t \in Serving!TlsServers : \A i \in of[t] : dirs[i].value \in {"hsts", "hsts short"}
    BY <1>1 DEF Serving!Hsts
  <2>2. QED BY <1>5, <1>7, <2>1 DEF Serving!On
<1>10. Serving!At(s) \notin found
  BY <1>7 DEF Serving!On, Serving!At
<1>11. Hit(s, found) <=> \E i \in of[s] : Serving!On(i) \in found
  BY <1>8, <1>9, <1>10 DEF Hit
<1>12. Hit(s, Serving!missing_hsts_header) <=> of[s] = {}
  BY <1>1, <1>8 DEF Hit, Serving!missing_hsts_header, Serving!At, Serving!On
<1>13. of[s] # {} => Serving!Max(of[s]) \in of[s]
  BY <1>4, <1>5, <1>8, MaxIs
<1>14. Serving!HstsRuns(s) = "none" <=> of[s] = {}
  BY <1>8, <1>13 DEF Serving!Value
<1>15. Serving!HstsRuns(s) \in {"none", "hsts", "hsts short"}
  BY <1>8, <1>13 DEF Serving!Value
<1>16. QED BY <1>2, <1>7, <1>8, <1>11, <1>12, <1>14, <1>15

\* The last command for an option enables it.
LEMMA EnabledOption ==
    ASSUME Serving!TlsConfiguration, NEW s \in Serving!WholeTlsServers, NEW option, option # "none"
    PROVE  Hit(s, Serving!OptionEnabled(option)) <=> Serving!CommandRuns(s, option) = option
<1> DEFINE of == [t \in Serving!TlsServers |-> Serving!OptionDecides(t, option)]
           found == Serving!Weak({S \in {of[t] : t \in Serving!TlsServers} : Serving!Value(S) = option})
<1>1. \A t \in Serving!TlsServers : of[t] = Serving!OptionDecides(t, option)
  OBVIOUS
<1>2. found = Serving!OptionEnabled(option)
  <2>1. {of[t] : t \in Serving!TlsServers} = {Serving!OptionDecides(t, option) : t \in Serving!TlsServers}
    OBVIOUS
  <2>2. QED BY <2>1 DEF Serving!OptionEnabled
<1> HIDE DEF of
<1>3. \A t \in Serving!TlsServers : t \in Serving!Servers
  BY DEF Serving!TlsServers
<1>4. Serving!IsConfiguration
  BY WholeServer
<1>5. \A t \in Serving!TlsServers :
          of[t] \in SUBSET DOMAIN dirs /\ \A i \in of[t] : dirs[i].name = "ssl_conf_command"
  BY <1>1, EffectiveNames DEF Serving!OptionDecides
<1>6. \A t, u \in Serving!TlsServers : of[t] \cap of[u] # {} => of[t] = of[u]
  <2> SUFFICES ASSUME NEW t \in Serving!TlsServers, NEW u \in Serving!TlsServers, of[t] \cap of[u] # {}
               PROVE  of[t] = of[u]
    OBVIOUS
  <2>1. Serving!Effective(t, "ssl_conf_command") \cap Serving!Effective(u, "ssl_conf_command") # {}
    BY <1>1 DEF Serving!OptionDecides
  <2>2. Serving!Effective(t, "ssl_conf_command") = Serving!Effective(u, "ssl_conf_command")
    BY <1>3, <1>4, <2>1, EffectiveAlike
  <2>3. QED BY <1>1, <2>2 DEF Serving!OptionDecides
<1>7. /\ \A x \in found : \E t \in Serving!TlsServers : \E i \in of[t] : x = Serving!On(i)
      /\ \A t \in Serving!TlsServers :
            Serving!Value(of[t]) = option <=> \E i \in of[t] : Serving!On(i) \in found
  BY <1>4, <1>5, <1>6, WeakOf
<1> HIDE DEF found
<1>8. /\ s \in Serving!TlsServers
      /\ of[s] = {i \in Serving!InForce(s, "ssl_conf_command") : dirs[i].value \in {option, "-" \o option}}
      /\ Serving!Value(of[s]) = Serving!CommandRuns(s, option)
  BY <1>1, WholeServer DEF Serving!OptionDecides, Serving!CommandRuns, Serving!TlsSettings
<1>9. \A i : Serving!On(i) \in found => /\ i \in DOMAIN dirs /\ dirs[i].name = "ssl_conf_command"
                                        /\ dirs[i].value \in {option, "-" \o option}
  BY <1>1, <1>5, <1>7 DEF Serving!On, Serving!OptionDecides
<1>10. Serving!At(s) \notin found
  BY <1>7 DEF Serving!On, Serving!At
<1>11. Hit(s, found) <=> \E i \in of[s] : Serving!On(i) \in found
  BY <1>8, <1>9, <1>10 DEF Hit
<1>12. QED BY <1>2, <1>7, <1>8, <1>11

\* Session settings: reported at the last directive, or at the server if there is none.
LEMMA SessionReported ==
    ASSUME Serving!TlsConfiguration, NEW s \in Serving!WholeTlsServers, NEW d \in Serving!TlsSettings,
           NEW good, good # "none"
    PROVE  Hit(s, {Serving!SessionFinding(t, d) : t \in
                       {u \in Serving!TlsServers : Serving!Value(Serving!Effective(u, d)) # good}})
               <=> Serving!Runs(s, d) # good
<1> DEFINE found == {Serving!SessionFinding(t, d) : t \in
                       {u \in Serving!TlsServers : Serving!Value(Serving!Effective(u, d)) # good}}
<1>1. /\ s \in Serving!TlsServers /\ Serving!IsConfiguration
      /\ Serving!Effective(s, d) = Serving!InForce(s, d)
      /\ Serving!Value(Serving!Effective(s, d)) = Serving!Runs(s, d)
  BY WholeServer
<1>2. \A t \in Serving!TlsServers :
          /\ t \in Serving!Servers /\ \A i \in Serving!Effective(t, d) : i \in DOMAIN dirs /\ dirs[i].name = d
          /\ Serving!Effective(t, d) # {} => Serving!Max(Serving!Effective(t, d)) \in Serving!Effective(t, d)
  BY <1>1, EffectiveNames, MaxIs DEF Serving!TlsServers
<1>3. \A x : x \in found <=> \E t \in Serving!TlsServers :
          /\ Serving!Value(Serving!Effective(t, d)) # good
          /\ x = IF Serving!Effective(t, d) = {} THEN Serving!At(t)
                 ELSE Serving!On(Serving!Max(Serving!Effective(t, d)))
  BY DEF Serving!SessionFinding
<1> HIDE DEF found
<1>4. ASSUME Serving!Runs(s, d) # good PROVE Hit(s, found)
  <2>1. CASE Serving!Effective(s, d) = {}
    BY <1>1, <1>3, <1>4, <2>1 DEF Hit
  <2>2. CASE Serving!Effective(s, d) # {}
    <3>1. PICK i : i = Serving!Max(Serving!Effective(s, d))
      OBVIOUS
    <3>2. Serving!On(i) \in found
      BY <1>1, <1>3, <1>4, <2>2, <3>1
    <3>3. i \in DOMAIN dirs /\ i \in Serving!InForce(s, dirs[i].name)
      BY <1>1, <1>2, <2>2, <3>1
    <3>4. QED BY <3>2, <3>3 DEF Hit
  <2>3. QED BY <2>1, <2>2
<1>5. ASSUME Serving!At(s) \in found PROVE Serving!Runs(s, d) # good
  <2>1. PICK t \in Serving!TlsServers : Serving!Value(Serving!Effective(t, d)) # good /\ Serving!At(s) = Serving!At(t)
    BY <1>3, <1>5 DEF Serving!At, Serving!On
  <2>2. s = t
    BY <2>1 DEF Serving!At
  <2>3. QED BY <1>1, <2>1, <2>2
<1>6. ASSUME NEW i \in DOMAIN dirs, Serving!On(i) \in found, i \in Serving!InForce(s, dirs[i].name)
      PROVE  Serving!Runs(s, d) # good
  <2>1. PICK t \in Serving!TlsServers :
            /\ Serving!Value(Serving!Effective(t, d)) # good /\ Serving!Effective(t, d) # {}
            /\ i = Serving!Max(Serving!Effective(t, d))
    BY <1>3, <1>6 DEF Serving!At, Serving!On
  <2>2. i \in Serving!Effective(t, d) /\ i \in Serving!Effective(s, d)
    BY <1>1, <1>2, <1>6, <2>1
  <2>3. Serving!Effective(t, d) = Serving!Effective(s, d)
    BY <1>1, <1>2, <2>2, EffectiveAlike
  <2>4. QED BY <1>1, <2>1, <2>3
<1>7. Hit(s, found) <=> Serving!Runs(s, d) # good
  BY <1>4, <1>5, <1>6 DEF Hit
<1>8. QED BY <1>7 DEF found

\* The rules for protocols, ciphers and stapling.
LEMMA SettingsReported ==
    ASSUME Serving!TlsConfiguration, NEW s \in Serving!WholeTlsServers
    PROVE  /\ Hit(s, Serving!weak_ssl_protocols) <=> Serving!Runs(s, "ssl_protocols") = "weak"
           /\ Hit(s, Serving!missing_ssl_protocols) <=> Serving!InForce(s, "ssl_protocols") = {}
           /\ Hit(s, Serving!ssl_ciphers_weak) <=> Serving!Runs(s, "ssl_ciphers") = "weak"
           /\ Hit(s, Serving!missing_ssl_ciphers) <=> Serving!InForce(s, "ssl_ciphers") = {}
           /\ Hit(s, Serving!missing_ssl_prefer_server_ciphers) <=>
                 /\ Serving!InForce(s, "ssl_ciphers") # {}
                 /\ Serving!Runs(s, "ssl_prefer_server_ciphers") # "on"
           /\ Hit(s, Serving!ssl_session_cache_missing) <=> Serving!Runs(s, "ssl_session_cache") # "shared"
           /\ Hit(s, Serving!ssl_session_timeout_missing_or_invalid) <=>
                 Serving!Runs(s, "ssl_session_timeout") # "10m"
           /\ Hit(s, Serving!ssl_stapling_disabled) <=> Serving!Runs(s, "ssl_stapling") # "on"
           /\ Hit(s, Serving!ssl_stapling_missing_resolver) <=>
                 Serving!Runs(s, "ssl_stapling") = "on" /\ Serving!Runs(s, "resolver") # "address"
           /\ Hit(s, Serving!ssl_stapling_without_verify) <=>
                 Serving!Runs(s, "ssl_stapling") = "on" /\ Serving!Runs(s, "ssl_stapling_verify") # "on"
<1>1. /\ s \in Serving!Servers /\ s \in Serving!TlsServers /\ Serving!UsesTls(s)
      /\ \A d \in Serving!TlsSettings :
            /\ Serving!Effective(s, d) = Serving!InForce(s, d)
            /\ Serving!Value(Serving!Effective(s, d)) = Serving!Runs(s, d)
  BY WholeServer
<1>2. /\ Serving!Effective(s, "ssl_protocols") = Serving!InForce(s, "ssl_protocols")
       /\ Serving!Effective(s, "ssl_ciphers") = Serving!InForce(s, "ssl_ciphers")
  BY <1>1 DEF Serving!TlsSettings
<1>3. \A d \in {"ssl_prefer_server_ciphers", "ssl_stapling", "ssl_stapling_verify", "resolver"} :
           Serving!Value(Serving!Effective(s, d)) = Serving!Runs(s, d)
  BY <1>1 DEF Serving!TlsSettings
<1>4. /\ Hit(s, Serving!weak_ssl_protocols) <=> Serving!Runs(s, "ssl_protocols") = "weak"
      /\ Hit(s, Serving!ssl_ciphers_weak) <=> Serving!Runs(s, "ssl_ciphers") = "weak"
  <2>1. "ssl_protocols" \in Serving!TlsSettings /\ "ssl_ciphers" \in Serving!TlsSettings
    BY DEF Serving!TlsSettings
  <2>2. QED BY <2>1, WeakSetting DEF Serving!weak_ssl_protocols, Serving!ssl_ciphers_weak
<1>5. Hit(s, Serving!missing_ssl_protocols) <=> Serving!InForce(s, "ssl_protocols") = {}
  BY <1>1, <1>2, <1>3 DEF Hit, Serving!At, Serving!On, Serving!missing_ssl_protocols
<1>6. Hit(s, Serving!missing_ssl_ciphers) <=> Serving!InForce(s, "ssl_ciphers") = {}
  BY <1>1, <1>2, <1>3 DEF Hit, Serving!At, Serving!On, Serving!missing_ssl_ciphers
<1>7. Hit(s, Serving!missing_ssl_prefer_server_ciphers) <=>
          /\ Serving!InForce(s, "ssl_ciphers") # {}
          /\ Serving!Runs(s, "ssl_prefer_server_ciphers") # "on"
  BY <1>1, <1>2, <1>3 DEF Hit, Serving!At, Serving!On, Serving!missing_ssl_prefer_server_ciphers, Serving!IsOn
<1>8. Hit(s, Serving!ssl_session_cache_missing) <=> Serving!Runs(s, "ssl_session_cache") # "shared"
  <2>1. "ssl_session_cache" \in Serving!TlsSettings /\ "shared" # "none"
    BY DEF Serving!TlsSettings
  <2>2. QED BY <2>1, SessionReported DEF Serving!ssl_session_cache_missing
<1>9. Hit(s, Serving!ssl_session_timeout_missing_or_invalid) <=> Serving!Runs(s, "ssl_session_timeout") # "10m"
  <2>1. "ssl_session_timeout" \in Serving!TlsSettings /\ "10m" # "none"
    BY DEF Serving!TlsSettings
  <2>2. QED BY <2>1, SessionReported DEF Serving!ssl_session_timeout_missing_or_invalid
<1>10. Hit(s, Serving!ssl_stapling_disabled) <=> Serving!Runs(s, "ssl_stapling") # "on"
  BY <1>1, <1>2, <1>3 DEF Hit, Serving!At, Serving!On, Serving!ssl_stapling_disabled, Serving!IsOn
<1>11. Hit(s, Serving!ssl_stapling_missing_resolver) <=>
          Serving!Runs(s, "ssl_stapling") = "on" /\ Serving!Runs(s, "resolver") # "address"
  BY <1>1, <1>2, <1>3 DEF Hit, Serving!At, Serving!On, Serving!ssl_stapling_missing_resolver, Serving!IsOn
<1>12. Hit(s, Serving!ssl_stapling_without_verify) <=>
          Serving!Runs(s, "ssl_stapling") = "on" /\ Serving!Runs(s, "ssl_stapling_verify") # "on"
  BY <1>1, <1>2, <1>3 DEF Hit, Serving!At, Serving!On, Serving!ssl_stapling_without_verify, Serving!IsOn
<1>13. QED BY <1>4, <1>5, <1>6, <1>7, <1>8, <1>9, <1>10, <1>11, <1>12

\* A server is reported by some rules if one of them hits it.
LEMMA ReportedIs ==
    ASSUME NEW b, NEW rules
    PROVE  Serving!Reported(b, rules) <=> \E r \in rules : Hit(b, findings[r])
BY DEF Serving!Reported, Hit

\* Protocols and ciphers are weak, strong or not set.
LEMMA StrongOrWeak ==
    ASSUME Serving!TlsConfiguration, NEW s \in Serving!WholeTlsServers, NEW d \in {"ssl_protocols", "ssl_ciphers"}
    PROVE  Serving!Runs(s, d) = "strong" <=> Serving!InForce(s, d) # {} /\ Serving!Runs(s, d) # "weak"
<1>1. Serving!IsConfiguration /\ Serving!Effective(s, d) = Serving!InForce(s, d)
  BY WholeServer DEF Serving!TlsSettings
<1>2. Serving!InForce(s, d) \in SUBSET DOMAIN dirs /\ \A i \in Serving!InForce(s, d) : dirs[i].name = d
  BY <1>1, EffectiveNames
<1>3. Serving!InForce(s, d) # {} => Serving!Max(Serving!InForce(s, d)) \in Serving!InForce(s, d)
  BY <1>1, <1>2, MaxIs
<1>4. \A i \in Serving!InForce(s, d) : dirs[i].value \in {"weak", "strong"}
  BY <1>2 DEF Serving!TlsConfiguration, Serving!Anywhere
<1>5. QED BY <1>3, <1>4 DEF Serving!Runs, Serving!Value

\* What a scope that passes requests on by https is taken to inherit is what is in force.
LEMMA ProxyEffectiveIs ==
    ASSUME Serving!IsConfiguration, NEW d, Serving!Only(d, {"http", "server", "location"}),
           NEW b \in Serving!Blocks
    PROVE  Serving!ProxyEffective(b, d) = Serving!InForce(b, d)
<1> DEFINE D == Serving!Blocks \cup {Serving!Main}
           Own(c) == blocks[c].name \in {"http", "server", "location"} /\ Serving!Here(c, d) # {}
           Body(f, c) == IF c = Serving!Main THEN {}
                         ELSE IF Own(c) THEN Serving!Here(c, d) ELSE f[blocks[c].parent]
           f == [c \in D |-> Serving!InForce(c, d)]
<1>1. PICK n \in Nat : /\ Serving!Blocks = 1 .. n /\ D = 0 .. n
                       /\ \A c \in 1 .. n : blocks[c].parent \in 0 .. c - 1
  BY BlocksNest
<1>2. \A c \in D : Serving!Here(c, d) # {} => c # Serving!Main /\ Own(c)
  <2> SUFFICES ASSUME NEW c \in D, Serving!Here(c, d) # {} PROVE c # Serving!Main /\ Own(c)
    OBVIOUS
  <2>1. Serving!Context(c) \in {"http", "server", "location"}
    BY DEF Serving!Only, Serving!Anywhere, Serving!Here
  <2>2. QED BY <2>1 DEF Serving!Context
<1>3. \A c \in D : f[c] = Serving!InForce(c, d)
  OBVIOUS
<1>4. \A c \in D : c # Serving!Main => blocks[c].parent \in D
  BY <1>1 DEF Serving!Main
<1> HIDE DEF D
<1>5. \A c \in D : f[c] = Body(f, c)
  <2>1. Serving!InForce(0, d) = Serving!Here(0, d)
    BY InForceIs
  <2>2. \A c \in D : c # 0 => c \in Serving!Blocks
    BY <1>1
  <2>3. \A c \in D : c # 0 => Serving!InForce(c, d) =
            IF Serving!Here(c, d) # {} THEN Serving!Here(c, d) ELSE Serving!InForce(blocks[c].parent, d)
    BY <2>2, InForceIs
  <2> HIDE DEF f
  <2>4. QED BY <1>2, <1>3, <1>4, <2>1, <2>3 DEF Serving!Main
<1>6. f = [c \in D |-> f[c]]
  OBVIOUS
<1> HIDE DEF Body, f, Own
<1>7. f = [c \in D |-> Body(f, c)]
  BY <1>5, <1>6
<1> DEFINE up == CHOOSE u : u = [c \in D |-> Body(u, c)]
<1>8. up = [c \in D |-> Body(up, c)]
  BY <1>7
<1>9. \A c : Serving!ProxyEffective(c, d) = up[c]
  BY DEF Serving!ProxyEffective, D, Body, Own
<1> HIDE DEF up
<1>10. \A c \in D : up[c] = Body(up, c)
  BY <1>8
<1>11. \A c \in D : up[c] = f[c]
  <2> DEFINE G == {c \in D : up[c] = f[c]}
  <2>1. 0 \in G
    BY <1>1, <1>5, <1>10, SMTT(60) DEF Body, Serving!Main
  <2>2. \A c \in Serving!Blocks : blocks[c].parent \in G => c \in G
    <3> SUFFICES ASSUME NEW c \in Serving!Blocks, blocks[c].parent \in G PROVE c \in G
      OBVIOUS
    <3>1. c \in D /\ up[blocks[c].parent] = f[blocks[c].parent]
      BY <1>1
    <3>2. QED BY <1>5, <1>10, <3>1 DEF Body
  <2>3. \A c \in D : c \in Serving!Blocks \cup {0}
    BY <1>1
  <2> HIDE DEF G
  <2>4. \A c \in D : c \in G
    BY <2>1, <2>2, <2>3, FromTheTop
  <2>5. QED BY <2>4 DEF G
<1>12. b \in D
  BY DEF D
<1>13. QED BY <1>3, <1>9, <1>11, <1>12

\* A silent rule for TLS is silent with reason.
LEMMA SilenceFollows ==
    ASSUME Serving!TlsConfiguration, TlsReports
    PROVE  Serving!SilenceIsEarned
<1> SUFFICES ASSUME NEW s \in Serving!WholeTlsServers
             PROVE
        /\ ~Serving!Reported(s, {"weak_ssl_protocols", "missing_ssl_protocols"}) =>
               Serving!Runs(s, "ssl_protocols") = "strong"
        /\ ~Serving!Reported(s, {"ssl_ciphers_weak", "missing_ssl_ciphers", "missing_ssl_prefer_server_ciphers"}) =>
               Serving!Runs(s, "ssl_ciphers") = "strong" /\ Serving!Runs(s, "ssl_prefer_server_ciphers") = "on"
        /\ ~Serving!Reported(s, {"ssl_stapling_disabled", "ssl_stapling_missing_resolver",
                                 "ssl_stapling_without_verify"}) =>
               /\ Serving!Runs(s, "ssl_stapling") = "on" /\ Serving!Runs(s, "ssl_stapling_verify") = "on"
               /\ Serving!Runs(s, "resolver") = "address"
        /\ ~Serving!Reported(s, {"ssl_session_cache_missing"}) => Serving!Runs(s, "ssl_session_cache") = "shared"
        /\ ~Serving!Reported(s, {"missing_hsts_header", "hsts_header_unsafe"}) => Serving!HstsRuns(s) = "hsts"
        /\ ~Serving!Reported(s, {"ssl_conf_command_tls_compression_enabled"}) =>
               Serving!CommandRuns(s, "Compression") # "Compression"
        /\ ~Serving!Reported(s, {"missing_ssl_certificate", "missing_ssl_certificate_key"}) =>
               Serving!Here(s, "ssl_certificate") # {} /\ Serving!Here(s, "ssl_certificate_key") # {}
  BY DEF Serving!SilenceIsEarned
<1>1. ~Serving!Reported(s, {"weak_ssl_protocols", "missing_ssl_protocols"}) =>
          Serving!Runs(s, "ssl_protocols") = "strong"
  BY SettingsReported, StrongOrWeak, ReportedIs DEF TlsReports
<1>2. ~Serving!Reported(s, {"ssl_ciphers_weak", "missing_ssl_ciphers", "missing_ssl_prefer_server_ciphers"}) =>
          Serving!Runs(s, "ssl_ciphers") = "strong" /\ Serving!Runs(s, "ssl_prefer_server_ciphers") = "on"
  BY SettingsReported, StrongOrWeak, ReportedIs DEF TlsReports
<1>3. ~Serving!Reported(s, {"ssl_stapling_disabled", "ssl_stapling_missing_resolver",
                            "ssl_stapling_without_verify"}) =>
          /\ Serving!Runs(s, "ssl_stapling") = "on" /\ Serving!Runs(s, "ssl_stapling_verify") = "on"
          /\ Serving!Runs(s, "resolver") = "address"
  BY SettingsReported, ReportedIs DEF TlsReports
<1>4. ~Serving!Reported(s, {"ssl_session_cache_missing"}) => Serving!Runs(s, "ssl_session_cache") = "shared"
  BY SettingsReported, ReportedIs DEF TlsReports
<1>5. ~Serving!Reported(s, {"missing_hsts_header", "hsts_header_unsafe"}) => Serving!HstsRuns(s) = "hsts"
  BY WeakHsts, ReportedIs DEF TlsReports
<1>6. ~Serving!Reported(s, {"ssl_conf_command_tls_compression_enabled"}) =>
          Serving!CommandRuns(s, "Compression") # "Compression"
  <2>1. PICK option : option = "Compression"
    OBVIOUS
  <2>2. Hit(s, Serving!OptionEnabled(option)) <=> Serving!CommandRuns(s, option) = option
    BY <2>1, EnabledOption
  <2>3. QED BY <2>1, <2>2, ReportedIs DEF TlsReports, Serving!ssl_conf_command_tls_compression_enabled
<1>7. ~Serving!Reported(s, {"missing_ssl_certificate", "missing_ssl_certificate_key"}) =>
          Serving!Here(s, "ssl_certificate") # {} /\ Serving!Here(s, "ssl_certificate_key") # {}
  <2>1. s \in Serving!TlsServers
    BY WholeServer
  <2>2. /\ Hit(s, Serving!missing_ssl_certificate) <=> Serving!Here(s, "ssl_certificate") = {}
        /\ Hit(s, Serving!missing_ssl_certificate_key) <=>
               Serving!Here(s, "ssl_certificate") # {} /\ Serving!Here(s, "ssl_certificate_key") = {}
    BY <2>1 DEF Hit, Serving!At, Serving!On, Serving!missing_ssl_certificate,
                Serving!missing_ssl_certificate_key
  <2>3. QED BY <2>2, ReportedIs DEF TlsReports
<1>8. QED BY <1>1, <1>2, <1>3, <1>4, <1>5, <1>6, <1>7

\* And none of them cries wolf.
LEMMA AlarmFollows ==
    ASSUME Serving!TlsConfiguration, TlsReports
    PROVE  Serving!AlarmIsReal
<1> SUFFICES ASSUME NEW s \in Serving!WholeTlsServers
             PROVE
        /\ Serving!Reported(s, {"weak_ssl_protocols", "missing_ssl_protocols"}) =>
               Serving!Unset(s, "ssl_protocols", "strong")
        /\ Serving!Reported(s, {"ssl_ciphers_weak", "missing_ssl_ciphers"}) =>
               Serving!Unset(s, "ssl_ciphers", "strong")
        /\ Serving!Reported(s, {"ssl_session_timeout_missing_or_invalid"}) =>
               Serving!Unset(s, "ssl_session_timeout", "10m")
        /\ Serving!Reported(s, {"ssl_stapling_disabled", "ssl_stapling_missing_resolver",
                                "ssl_stapling_without_verify"}) =>
               \/ Serving!Unset(s, "ssl_stapling", "on") \/ Serving!Unset(s, "ssl_stapling_verify", "on")
               \/ Serving!Unset(s, "resolver", "address")
        /\ Serving!Reported(s, {"missing_hsts_header", "hsts_header_unsafe"}) => Serving!HstsRuns(s) # "hsts"
        /\ Serving!Reported(s, {"ssl_conf_command_unsafe_renegotiation_enabled"}) =>
               Serving!CommandRuns(s, "UnsafeLegacyRenegotiation") = "UnsafeLegacyRenegotiation"
  BY DEF Serving!AlarmIsReal
<1>1. Serving!Reported(s, {"weak_ssl_protocols", "missing_ssl_protocols"}) =>
          Serving!Unset(s, "ssl_protocols", "strong")
  BY SettingsReported, StrongOrWeak, ReportedIs DEF TlsReports, Serving!Unset
<1>2. Serving!Reported(s, {"ssl_ciphers_weak", "missing_ssl_ciphers"}) =>
          Serving!Unset(s, "ssl_ciphers", "strong")
  BY SettingsReported, StrongOrWeak, ReportedIs DEF TlsReports, Serving!Unset
<1>3. Serving!Reported(s, {"ssl_session_timeout_missing_or_invalid"}) =>
          Serving!Unset(s, "ssl_session_timeout", "10m")
  BY SettingsReported, ReportedIs DEF TlsReports, Serving!Unset
<1>4. Serving!Reported(s, {"ssl_stapling_disabled", "ssl_stapling_missing_resolver",
                           "ssl_stapling_without_verify"}) =>
          \/ Serving!Unset(s, "ssl_stapling", "on") \/ Serving!Unset(s, "ssl_stapling_verify", "on")
          \/ Serving!Unset(s, "resolver", "address")
  BY SettingsReported, ReportedIs DEF TlsReports, Serving!Unset
<1>5. Serving!Reported(s, {"missing_hsts_header", "hsts_header_unsafe"}) => Serving!HstsRuns(s) # "hsts"
  BY WeakHsts, ReportedIs DEF TlsReports
<1>6. Serving!Reported(s, {"ssl_conf_command_unsafe_renegotiation_enabled"}) =>
          Serving!CommandRuns(s, "UnsafeLegacyRenegotiation") = "UnsafeLegacyRenegotiation"
  <2>1. PICK option : option = "UnsafeLegacyRenegotiation"
    OBVIOUS
  <2>2. Hit(s, Serving!OptionEnabled(option)) <=> Serving!CommandRuns(s, option) = option
    BY <2>1, EnabledOption
  <2>3. QED BY <2>1, <2>2, ReportedIs DEF TlsReports, Serving!ssl_conf_command_unsafe_renegotiation_enabled
<1>7. QED BY <1>1, <1>2, <1>3, <1>4, <1>5, <1>6

\* A scope that passes requests on by https is reported exactly if it does not verify.
LEMMA UpstreamFollows ==
    ASSUME Serving!TlsConfiguration, TlsReports
    PROVE  Serving!UpstreamIsVerified
<1> SUFFICES ASSUME NEW b \in Serving!Blocks, Serving!Context(b) \in {"http", "server", "location"},
                    Serving!Has(b, "proxy_pass", {"https"})
             PROVE  Serving!Reported(b, {"proxy_ssl_verify_disabled", "proxy_ssl_trusted_certificate_missing"}) <=>
                        \/ Serving!Runs(b, "proxy_ssl_verify") # "on"
                        \/ Serving!InForce(b, "proxy_ssl_trusted_certificate") = {}
  BY DEF Serving!UpstreamIsVerified
<1>1. b \in Serving!ProxyScopes
  <2>1. PICK n \in Nat : Serving!Blocks = 1 .. n
    BY BlocksNest DEF Serving!TlsConfiguration
  <2>2. b # 0
    BY <2>1
  <2>3. QED BY <2>2 DEF Serving!ProxyScopes, Serving!Context, Serving!Main
<1>2. /\ Serving!ProxyEffective(b, "proxy_ssl_verify") = Serving!InForce(b, "proxy_ssl_verify")
      /\ Serving!ProxyEffective(b, "proxy_ssl_trusted_certificate")
             = Serving!InForce(b, "proxy_ssl_trusted_certificate")
  BY ProxyEffectiveIs DEF Serving!TlsConfiguration
<1>3. Hit(b, Serving!proxy_ssl_verify_disabled) <=> Serving!Runs(b, "proxy_ssl_verify") # "on"
  BY <1>1, <1>2 DEF Hit, Serving!At, Serving!On, Serving!proxy_ssl_verify_disabled, Serving!IsOn, Serving!Runs
<1>4. Hit(b, Serving!proxy_ssl_trusted_certificate_missing) <=>
          /\ Serving!Runs(b, "proxy_ssl_verify") = "on"
          /\ Serving!InForce(b, "proxy_ssl_trusted_certificate") = {}
  BY <1>1, <1>2 DEF Hit, Serving!At, Serving!On, Serving!proxy_ssl_trusted_certificate_missing,
                    Serving!IsOn, Serving!Runs
<1>5. QED BY <1>3, <1>4, ReportedIs DEF TlsReports

\* In any configuration, whatever blocks there are and directives in them: the rules for TLS
\* miss no server that runs with a setting they look for, and report none that does not,
\* wherever it has the setting from; nor do they miss a scope that does not verify upstreams.
THEOREM NginxTlsRulesAreSound ==
    Serving!TlsSpec => [](Serving!SilenceIsEarned /\ Serving!AlarmIsReal /\ Serving!UpstreamIsVerified)
<1> DEFINE IInv == Serving!TlsConfiguration /\ (Serving!Checked => TlsReports)
<1>1. Serving!TlsConfiguration /\ findings = Serving!Unchecked => IInv
  BY DEF Serving!Checked
<1>2. IInv /\ [Serving!TlsCheck]_(Serving!vars) => IInv'
  <2> SUFFICES ASSUME IInv, [Serving!TlsCheck]_(Serving!vars) PROVE IInv'
    OBVIOUS
  <2>1. UNCHANGED <<blocks, dirs>>
    BY DEF Serving!TlsCheck, Serving!vars
  <2>2. Serving!TlsConfiguration'
    BY <2>1, ConfigurationStays
  <2>3. CASE Serving!TlsCheck
    <3>1. TlsReports'
      BY <2>1, <2>3, RulesStay DEF TlsReports, Serving!TlsCheck
    <3>2. QED BY <2>2, <3>1
  <2>4. CASE UNCHANGED findings
    <3>1. Serving!Checked' = Serving!Checked
      BY <2>4 DEF Serving!Checked, Serving!Unchecked
    <3>2. TlsReports => TlsReports'
      BY <2>1, <2>4, RulesStay DEF TlsReports
    <3>3. QED BY <2>2, <3>1, <3>2
  <2>5. QED BY <2>3, <2>4 DEF Serving!vars
<1>3. IInv => Serving!SilenceIsEarned /\ Serving!AlarmIsReal /\ Serving!UpstreamIsVerified
  <2>1. CASE ~Serving!Checked
    BY <2>1 DEF Serving!SilenceIsEarned, Serving!AlarmIsReal, Serving!UpstreamIsVerified
  <2>2. CASE Serving!Checked
    BY <2>2, SilenceFollows, AlarmFollows, UpstreamFollows
  <2>3. QED BY <2>1, <2>2
<1>4. QED BY <1>1, <1>2, <1>3, PTL DEF Serving!TlsSpec

(***************************************************************************)
(* The rules for limits.                                                   *)
(***************************************************************************)
\* Both modules read a configuration alike.
LEMMA LimitsRead ==
    /\ Limits!IsConfiguration = Serving!IsConfiguration /\ Limits!Blocks = Serving!Blocks
    /\ Limits!Servers = Serving!Servers
    /\ \A b, d : Limits!Here(b, d) = Serving!Here(b, d)
    /\ \A d : Limits!Anywhere(d) = Serving!Anywhere(d)
    /\ \A b : Limits!Context(b) = Serving!Context(b) /\ Limits!Around(b) = Serving!Around(b)
    /\ \A s : Limits!Http(s) = Serving!Http(s)
    /\ \A s, d : /\ Limits!Inherited(s, d) = Serving!Inherited(s, d)
                 /\ Limits!Effective(s, d) = Serving!Effective(s, d)
    /\ \A b, d : Limits!InForce(b, d) = Serving!InForce(b, d)
    /\ \A S : Limits!Max(S) = Serving!Max(S)
<1>1. /\ Limits!Blocks = Serving!Blocks
      /\ \A b, d : Limits!Here(b, d) = Serving!Here(b, d)
      /\ \A d : Limits!Anywhere(d) = Serving!Anywhere(d)
      /\ \A b : Limits!Context(b) = Serving!Context(b)
      /\ \A S : Limits!Max(S) = Serving!Max(S)
      /\ Limits!Main = Serving!Main
  BY DEF Limits!Blocks, Serving!Blocks, Limits!Here, Serving!Here, Limits!Anywhere, Serving!Anywhere,
         Limits!Context, Serving!Context, Limits!Max, Serving!Max, Limits!Main, Serving!Main
<1>2. Limits!Servers = Serving!Servers
  BY <1>1 DEF Limits!Servers, Serving!Servers, Limits!Named, Serving!Named
<1>3. \A b : Limits!Around(b) = Serving!Around(b)
  BY <1>1 DEF Limits!Around, Serving!Around
<1>4. \A s : Limits!Http(s) = Serving!Http(s)
  BY <1>1, <1>3 DEF Limits!Http, Serving!Http
<1>5. \A s, d : /\ Limits!Inherited(s, d) = Serving!Inherited(s, d)
                /\ Limits!Effective(s, d) = Serving!Effective(s, d)
  <2>1. \A s, d : Limits!Inherited(s, d) = Serving!Inherited(s, d)
    BY <1>1, <1>4 DEF Limits!Inherited, Serving!Inherited
  <2>2. QED BY <1>1, <2>1 DEF Limits!Effective, Serving!Effective
<1>6. \A b, d : Limits!InForce(b, d) = Serving!InForce(b, d)
  BY <1>1, ZenonT(60) DEF Limits!InForce, Serving!InForce
<1>7. Limits!IsConfiguration = Serving!IsConfiguration
  BY <1>1, <1>2, <1>4 DEF Limits!IsConfiguration, Serving!IsConfiguration, Limits!Named, Serving!Named
<1>8. QED BY <1>1, <1>2, <1>3, <1>4, <1>5, <1>6, <1>7

\* What is checked reads as the rules say.
LimitReports ==
    /\ findings["client_max_body_size_too_large"] = Limits!client_max_body_size_too_large
    /\ findings["client_max_body_size_unlimited"] = Limits!client_max_body_size_unlimited
    /\ findings["keepalive_timeout_too_high"] = Limits!keepalive_timeout_too_high
    /\ findings["large_client_header_buffers_too_large"] = Limits!large_client_header_buffers_too_large
    /\ findings["large_client_header_buffers_too_restrictive"] = Limits!large_client_header_buffers_too_restrictive
    /\ findings["limit_req_zone_not_per_ip"] = Limits!limit_req_zone_not_per_ip
    /\ findings["limit_req_zone_invalid_rate"] = Limits!limit_req_zone_invalid_rate
    /\ findings["limit_req_unknown_zone"] = Limits!limit_req_unknown_zone
    /\ findings["missing_limit_req_zone"] = Limits!missing_limit_req_zone
    /\ findings["missing_limit_conn_zone"] = Limits!missing_limit_conn_zone
    /\ findings["missing_limit_req"] = Limits!missing_limit_req
    /\ findings["missing_limit_conn"] = Limits!missing_limit_conn
    /\ findings["public_autoindex_rate_limit_policy_weak"] = Limits!public_autoindex_rate_limit_policy_weak

\* What the rules have to report does not depend on what was found.
LEMMA LimitsStay ==
    ASSUME UNCHANGED <<blocks, dirs>>
    PROVE  /\ Limits!LimitConfiguration' = Limits!LimitConfiguration
           /\ Limits!client_max_body_size_too_large' = Limits!client_max_body_size_too_large
           /\ Limits!client_max_body_size_unlimited' = Limits!client_max_body_size_unlimited
           /\ Limits!keepalive_timeout_too_high' = Limits!keepalive_timeout_too_high
           /\ Limits!large_client_header_buffers_too_large' = Limits!large_client_header_buffers_too_large
           /\ Limits!large_client_header_buffers_too_restrictive' = Limits!large_client_header_buffers_too_restrictive
           /\ Limits!limit_req_zone_not_per_ip' = Limits!limit_req_zone_not_per_ip
           /\ Limits!limit_req_zone_invalid_rate' = Limits!limit_req_zone_invalid_rate
           /\ Limits!limit_req_unknown_zone' = Limits!limit_req_unknown_zone
           /\ Limits!missing_limit_req_zone' = Limits!missing_limit_req_zone
           /\ Limits!missing_limit_conn_zone' = Limits!missing_limit_conn_zone
           /\ Limits!missing_limit_req' = Limits!missing_limit_req
           /\ Limits!missing_limit_conn' = Limits!missing_limit_conn
           /\ Limits!public_autoindex_rate_limit_policy_weak' = Limits!public_autoindex_rate_limit_policy_weak
<1>1. /\ Limits!Blocks' = Limits!Blocks
      /\ \A b, d : Limits!Here(b, d)' = Limits!Here(b, d)
      /\ \A d : Limits!Anywhere(d)' = Limits!Anywhere(d)
      /\ \A b : Limits!Context(b)' = Limits!Context(b)
      /\ \A b, name : Limits!Children(b, name)' = Limits!Children(b, name)
      /\ UNCHANGED <<blocks, dirs>>
  BY DEF Limits!Blocks, Limits!Here, Limits!Anywhere, Limits!Context, Limits!Children, Limits!Named
<1>2. Limits!Servers' = Limits!Servers
  BY <1>1 DEF Limits!Servers, Limits!Named
<1>3. \A b : Limits!Around(b)' = Limits!Around(b) /\ Limits!Inside(b)' = Limits!Inside(b)
  <2>1. \A b : Limits!Around(b)' = Limits!Around(b)
    BY <1>1 DEF Limits!Around
  <2>2. QED BY <1>1, <2>1 DEF Limits!Inside
<1>4. /\ \A s : Limits!Http(s)' = Limits!Http(s)
      /\ \A s, d : Limits!Inherited(s, d)' = Limits!Inherited(s, d)
      /\ \A s, d : Limits!Effective(s, d)' = Limits!Effective(s, d)
  <2>1. \A s : Limits!Http(s)' = Limits!Http(s)
    BY <1>1, <1>3 DEF Limits!Http
  <2>2. \A s, d : Limits!Inherited(s, d)' = Limits!Inherited(s, d)
    BY <1>1, <2>1 DEF Limits!Inherited
  <2>3. QED BY <1>1, <2>1, <2>2 DEF Limits!Effective
<1>5. \A s : Limits!OnlyRedirects(s)' = Limits!OnlyRedirects(s)
  <2>1. \A b : Limits!Redirects(b)' = Limits!Redirects(b)
    BY <1>1 DEF Limits!Redirects, Limits!Has
  <2>2. \A b : Limits!Locations(b)' = Limits!Locations(b)
    BY <1>1 DEF Limits!Locations
  <2>3. \A b : Limits!SafeException(b)' = Limits!SafeException(b) /\ Limits!CatchAll(b)' = Limits!CatchAll(b)
    BY <1>1 DEF Limits!SafeException, Limits!CatchAll
  <2>4. QED BY <2>1, <2>2, <2>3 DEF Limits!OnlyRedirects
<1>6. /\ \A d, contexts : Limits!DirectIn(d, contexts)' = Limits!DirectIn(d, contexts)
      /\ \A d, contexts : Limits!LastIn(d, contexts)' = Limits!LastIn(d, contexts)
  <2>1. \A d, contexts : Limits!DirectIn(d, contexts)' = Limits!DirectIn(d, contexts)
    BY <1>1 DEF Limits!DirectIn
  <2>2. QED BY <1>1, <2>1 DEF Limits!LastIn
<1>7. Limits!LimitConfiguration' = Limits!LimitConfiguration
  <2>1. Limits!IsConfiguration' = Limits!IsConfiguration
    BY <1>1, <1>2, <1>4 DEF Limits!IsConfiguration, Limits!Named
  <2>2. QED BY <1>1, <2>1 DEF Limits!LimitConfiguration, Limits!Only
<1>8. Limits!client_max_body_size_too_large' = Limits!client_max_body_size_too_large
  BY <1>1, <1>6 DEF Limits!client_max_body_size_too_large, Limits!OnAll
<1>9. Limits!client_max_body_size_unlimited' = Limits!client_max_body_size_unlimited
  BY <1>1, <1>6 DEF Limits!client_max_body_size_unlimited, Limits!OnAll
<1>10. Limits!keepalive_timeout_too_high' = Limits!keepalive_timeout_too_high
  BY <1>1, <1>6 DEF Limits!keepalive_timeout_too_high, Limits!OnAll
<1>11. Limits!large_client_header_buffers_too_large' = Limits!large_client_header_buffers_too_large
  BY <1>1, <1>6 DEF Limits!large_client_header_buffers_too_large, Limits!OnAll
<1>12. Limits!large_client_header_buffers_too_restrictive' = Limits!large_client_header_buffers_too_restrictive
  BY <1>1, <1>6 DEF Limits!large_client_header_buffers_too_restrictive, Limits!OnAll
<1>z. \A d : Limits!Zones(d)' = Limits!Zones(d)
  BY <1>1 DEF Limits!Zones
<1>13. Limits!limit_req_zone_not_per_ip' = Limits!limit_req_zone_not_per_ip
  BY <1>1 DEF Limits!limit_req_zone_not_per_ip
<1>14. Limits!limit_req_zone_invalid_rate' = Limits!limit_req_zone_invalid_rate
  BY <1>1 DEF Limits!limit_req_zone_invalid_rate
<1>15. Limits!limit_req_unknown_zone' = Limits!limit_req_unknown_zone
  BY <1>1, <1>z DEF Limits!limit_req_unknown_zone
<1>16. Limits!missing_limit_req_zone' = Limits!missing_limit_req_zone
  BY <1>1, <1>z DEF Limits!missing_limit_req_zone
<1>17. Limits!missing_limit_conn_zone' = Limits!missing_limit_conn_zone
  BY <1>1, <1>z DEF Limits!missing_limit_conn_zone
<1>18. Limits!missing_limit_req' = Limits!missing_limit_req
  BY <1>1, <1>2, <1>3, <1>4, <1>5 DEF Limits!missing_limit_req, Limits!LimitMissing
<1>19. Limits!missing_limit_conn' = Limits!missing_limit_conn
  BY <1>1, <1>2, <1>3, <1>4, <1>5 DEF Limits!missing_limit_conn, Limits!LimitMissing
<1>20. Limits!public_autoindex_rate_limit_policy_weak' = Limits!public_autoindex_rate_limit_policy_weak
  <2>1. \A s : Limits!ListingScopes(s)' = Limits!ListingScopes(s)
    BY <1>1, <1>3, <1>4 DEF Limits!ListingScopes, Limits!Public, Limits!IsOn, Limits!Value
  <2>2. \A b, s, d : Limits!ScopeLimits(b, s, d)' = Limits!ScopeLimits(b, s, d)
    BY <1>1, <1>4 DEF Limits!ScopeLimits
  <2>3. \A s, d : Limits!Configured(s, d)' = Limits!Configured(s, d)
    BY <1>1, <1>3, <1>4 DEF Limits!Configured
  <2>4. \A zone : Limits!RateOf(zone)' = Limits!RateOf(zone)
    BY <1>1 DEF Limits!RateOf
  <2>5. \A b, s : Limits!Weaknesses(b, s)' = Limits!Weaknesses(b, s)
    BY <1>1, <2>2, <2>3, <2>4, ZenonT(60) DEF Limits!Weaknesses
  <2>6. \A b, s : Limits!ListingDirective(b, s)' = Limits!ListingDirective(b, s)
    BY <1>1, <1>4 DEF Limits!ListingDirective
  <2>7. QED BY <1>2, <2>1, <2>5, <2>6 DEF Limits!public_autoindex_rate_limit_policy_weak
<1>21. QED BY <1>7, <1>8, <1>9, <1>10, <1>11, <1>12, <1>13, <1>14, <1>15, <1>16, <1>17, <1>18, <1>19, <1>20

\* What the last of a block's directives says is reported, if it is one a rule looks at.
LEMMA LastReported ==
    ASSUME Limits!IsConfiguration, NEW b \in Limits!Blocks, NEW d, NEW contexts, Limits!Only(d, contexts),
           NEW values, "none" \notin values, Limits!Runs(b, d) \in values
    PROVE  \E i \in Limits!LastIn(d, contexts) :
              /\ i \in Limits!DirectIn(d, contexts) /\ dirs[i].value = Limits!Runs(b, d)
              /\ i \in DOMAIN dirs /\ i \in Limits!InForce(b, dirs[i].name)
<1>1. Limits!InForce(b, d) # {}
  BY DEF Limits!Runs, Limits!Value
<1>2. PICK c \in Serving!Blocks \cup {0} : Serving!Here(c, d) # {} /\ Limits!InForce(b, d) = Serving!Here(c, d)
  <2>1. Serving!IsConfiguration /\ b \in Serving!Blocks \cup {0} /\ Limits!InForce(b, d) = Serving!InForce(b, d)
    BY LimitsRead
  <2>2. QED BY <1>1, <2>1, InForceIsSomewhere
<1>3. PICK i : i = Limits!Max(Limits!InForce(b, d))
  OBVIOUS
<1>4. i \in Serving!Here(c, d)
  <2>1. Serving!Here(c, d) \in SUBSET DOMAIN dirs
    BY DEF Serving!Here
  <2>2. QED BY <1>2, <1>3, <2>1, LimitsRead, MaxIs
<1>5. i \in DOMAIN dirs /\ dirs[i].in = c /\ dirs[i].name = d
  BY <1>4 DEF Serving!Here
<1>6. i = Limits!Max(Limits!Here(dirs[i].in, d)) /\ i \in Limits!InForce(b, dirs[i].name)
  BY <1>2, <1>3, <1>4, <1>5, LimitsRead
<1>7. i \in Limits!DirectIn(d, contexts)
  BY <1>5 DEF Limits!DirectIn, Limits!Only, Limits!Anywhere
<1>8. dirs[i].value = Limits!Runs(b, d)
  BY <1>1, <1>3 DEF Limits!Runs, Limits!Value
<1>9. i \in Limits!LastIn(d, contexts)
  BY <1>6, <1>7 DEF Limits!LastIn
<1>10. QED BY <1>5, <1>6, <1>7, <1>8, <1>9

\* A size or a timeout out of bounds is reported.
LEMMA UnboundedFollows ==
    ASSUME Limits!LimitConfiguration, LimitReports
    PROVE  Limits!NothingRunsUnbounded
<1> SUFFICES ASSUME NEW b \in Limits!Blocks
             PROVE
        /\ Limits!Runs(b, "client_max_body_size") \in {"high", "zero"} =>
               Limits!Reported(b, {"client_max_body_size_too_large", "client_max_body_size_unlimited"})
        /\ Limits!Runs(b, "keepalive_timeout") \in {"high", "zero"} =>
               Limits!Reported(b, {"keepalive_timeout_too_high"})
        /\ Limits!Runs(b, "large_client_header_buffers") \in {"high", "low", "zero"} =>
               Limits!Reported(b, {"large_client_header_buffers_too_large",
                                   "large_client_header_buffers_too_restrictive"})
  BY DEF Limits!NothingRunsUnbounded
<1>1. ASSUME Limits!Runs(b, "client_max_body_size") \in {"high", "zero"}
      PROVE  Limits!Reported(b, {"client_max_body_size_too_large", "client_max_body_size_unlimited"})
  <2>1. PICK i \in Limits!LastIn("client_max_body_size", {"http", "server", "location"}) :
            /\ dirs[i].value \in {"high", "zero"}
            /\ i \in DOMAIN dirs /\ i \in Limits!InForce(b, dirs[i].name)
    BY <1>1, LastReported DEF Limits!LimitConfiguration
  <2>2. \/ Limits!On(i) \in findings["client_max_body_size_too_large"]
        \/ Limits!On(i) \in findings["client_max_body_size_unlimited"]
    BY <2>1 DEF LimitReports, Limits!client_max_body_size_too_large, Limits!client_max_body_size_unlimited,
                Limits!OnAll
  <2>3. QED BY <2>1, <2>2 DEF Limits!Reported
<1>2. ASSUME Limits!Runs(b, "keepalive_timeout") \in {"high", "zero"}
      PROVE  Limits!Reported(b, {"keepalive_timeout_too_high"})
  <2>1. PICK i \in Limits!DirectIn("keepalive_timeout", {"http", "server", "location"}) :
            /\ dirs[i].value \in {"high", "zero"}
            /\ i \in DOMAIN dirs /\ i \in Limits!InForce(b, dirs[i].name)
    BY <1>2, LastReported DEF Limits!LimitConfiguration
  <2>2. Limits!On(i) \in findings["keepalive_timeout_too_high"]
    BY <2>1 DEF LimitReports, Limits!keepalive_timeout_too_high, Limits!OnAll
  <2>3. QED BY <2>1, <2>2 DEF Limits!Reported
<1>3. ASSUME Limits!Runs(b, "large_client_header_buffers") \in {"high", "low", "zero"}
      PROVE  Limits!Reported(b, {"large_client_header_buffers_too_large",
                                 "large_client_header_buffers_too_restrictive"})
  <2>1. PICK i \in Limits!LastIn("large_client_header_buffers", {"http", "server"}) :
            /\ dirs[i].value \in {"high", "low", "zero"}
            /\ i \in Limits!DirectIn("large_client_header_buffers", {"http", "server"})
            /\ i \in DOMAIN dirs /\ i \in Limits!InForce(b, dirs[i].name)
    BY <1>3, LastReported DEF Limits!LimitConfiguration
  <2>2. \/ Limits!On(i) \in findings["large_client_header_buffers_too_large"]
        \/ Limits!On(i) \in findings["large_client_header_buffers_too_restrictive"]
    BY <2>1 DEF LimitReports, Limits!large_client_header_buffers_too_large,
                Limits!large_client_header_buffers_too_restrictive, Limits!OnAll
  <2>3. QED BY <2>1, <2>2 DEF Limits!Reported
<1>4. QED BY <1>1, <1>2, <1>3

\* A limit that refers to a zone which does not work is reported, or the zone is.
LEMMA ZonesFollow ==
    ASSUME LimitReports
    PROVE  Limits!LimitsWork
<1> SUFFICES ASSUME Limits!Silent("missing_limit_req_zone"), Limits!Silent("missing_limit_conn_zone")
             PROVE
        /\ \A i \in Limits!Anywhere("limit_req") : Limits!On(i) \notin findings["limit_req_unknown_zone"] =>
              \E z \in Limits!Anywhere("limit_req_zone") :
                 /\ dirs[z].value.zone = dirs[i].value.zone
                 /\ \/ Limits!On(z) \in findings["limit_req_zone_not_per_ip"] \cup
                                        findings["limit_req_zone_invalid_rate"]
                    \/ dirs[z].value.rate # "bad" /\ dirs[z].value.key = "ip"
        /\ \A i \in Limits!Anywhere("limit_conn") :
              \E z \in Limits!Anywhere("limit_conn_zone") : dirs[z].value.zone = dirs[i].value.zone
  BY DEF Limits!LimitsWork
<1>1. ASSUME NEW i \in Limits!Anywhere("limit_req"), Limits!On(i) \notin findings["limit_req_unknown_zone"]
      PROVE  \E z \in Limits!Anywhere("limit_req_zone") :
                 /\ dirs[z].value.zone = dirs[i].value.zone
                 /\ \/ Limits!On(z) \in findings["limit_req_zone_not_per_ip"] \cup
                                        findings["limit_req_zone_invalid_rate"]
                    \/ dirs[z].value.rate # "bad" /\ dirs[z].value.key = "ip"
  <2>1. Limits!Anywhere("limit_req_zone") # {}
    BY DEF Limits!Silent, LimitReports, Limits!missing_limit_req_zone
  <2>2. dirs[i].value.zone \in Limits!Zones("limit_req_zone")
    BY <1>1, <2>1 DEF LimitReports, Limits!limit_req_unknown_zone
  <2>3. PICK z \in Limits!Anywhere("limit_req_zone") : dirs[z].value.zone = dirs[i].value.zone
    BY <2>2 DEF Limits!Zones
  <2>4. dirs[z].value.key # "ip" => Limits!On(z) \in findings["limit_req_zone_not_per_ip"]
    BY DEF LimitReports, Limits!limit_req_zone_not_per_ip
  <2>5. dirs[z].value.rate = "bad" => Limits!On(z) \in findings["limit_req_zone_invalid_rate"]
    BY DEF LimitReports, Limits!limit_req_zone_invalid_rate
  <2>6. QED BY <2>3, <2>4, <2>5
<1>2. ASSUME NEW i \in Limits!Anywhere("limit_conn")
      PROVE  \E z \in Limits!Anywhere("limit_conn_zone") : dirs[z].value.zone = dirs[i].value.zone
  <2>1. dirs[i].value.zone \in Limits!Zones("limit_conn_zone")
    BY DEF Limits!Silent, LimitReports, Limits!missing_limit_conn_zone
  <2>2. QED BY <2>1 DEF Limits!Zones
<1>3. QED BY <1>1, <1>2

\* What limits a listing is what is in force where it is listed.
LEMMA ListingScopeIs ==
    ASSUME Limits!LimitConfiguration, NEW s \in Limits!Servers, NEW b \in Limits!ListingScopes(s),
           b = s \/ blocks[b].parent = s, Limits!Http(s) # {}
    PROVE  /\ \A d \in {"limit_req", "limit_conn"} :
                 Limits!ScopeLimits(b, s, d) = Limits!InForce(b, d)
           /\ Limits!ListingDirective(b, s) = Limits!Max(Limits!InForce(b, "autoindex"))
           /\ Limits!ListingDirective(b, s) \in DOMAIN dirs
<1>1. /\ Serving!IsConfiguration /\ s \in Serving!Servers /\ Serving!Http(s) # {}
      /\ \A d \in {"autoindex", "limit_req", "limit_conn"} : Serving!Here(0, d) = {}
  <2>1. ASSUME NEW d \in {"autoindex", "limit_req", "limit_conn"} PROVE Limits!Here(0, d) = {}
    <3>1. Limits!Only(d, {"http", "server", "location"})
      BY DEF Limits!LimitConfiguration
    <3>2. Limits!Context(0) = "main"
      BY DEF Limits!Context, Limits!Main
    <3>3. QED BY <3>1, <3>2 DEF Limits!Only, Limits!Anywhere, Limits!Here
  <2>2. QED BY <2>1, LimitsRead DEF Limits!LimitConfiguration
<1>2. \A d \in {"autoindex", "limit_req", "limit_conn"} : Limits!Effective(s, d) = Limits!InForce(s, d)
  BY <1>1, EffectiveIsInForce, LimitsRead
<1>3. b # s => /\ b \in Limits!Blocks /\ blocks[b].parent = s /\ Limits!IsOn(Limits!Here(b, "autoindex"))
  BY DEF Limits!ListingScopes, Limits!Inside
<1>4. \A d : b # s => Limits!InForce(b, d) = IF Limits!Here(b, d) # {} THEN Limits!Here(b, d)
                                             ELSE Limits!InForce(s, d)
  BY <1>1, <1>3, InForceIs, LimitsRead
<1>5. \A d \in {"limit_req", "limit_conn"} : Limits!ScopeLimits(b, s, d) = Limits!InForce(b, d)
  <2>1. \A d : Limits!Here(s, d) # {} => Limits!Effective(s, d) = Limits!Here(s, d)
    BY DEF Limits!Effective
  <2>2. QED BY <1>2, <1>4, <2>1 DEF Limits!ScopeLimits
<1>6. Limits!IsOn(Limits!InForce(b, "autoindex"))
      /\ Limits!ListingDirective(b, s) = Limits!Max(Limits!InForce(b, "autoindex"))
  <2>1. CASE b = s
    <3>1. Limits!IsOn(Limits!Effective(s, "autoindex"))
      BY <2>1 DEF Limits!ListingScopes, Limits!Inside
    <3>2. QED BY <1>2, <2>1, <3>1 DEF Limits!ListingDirective
  <2>2. CASE b # s
    <3>1. Limits!Here(b, "autoindex") # {}
      BY <1>3, <2>2 DEF Limits!IsOn, Limits!Value
    <3>2. QED BY <1>3, <1>4, <2>2, <3>1 DEF Limits!ListingDirective
  <2>3. QED BY <2>1, <2>2
<1>7. Limits!ListingDirective(b, s) \in DOMAIN dirs
  <2>1. Limits!InForce(b, "autoindex") # {}
    BY <1>6 DEF Limits!IsOn, Limits!Value
  <2>2. Limits!InForce(b, "autoindex") \in SUBSET DOMAIN dirs
    <3>1. b \in Serving!Blocks \cup {0}
      BY <1>3, LimitsRead DEF Limits!Servers, Limits!Named
    <3>2. Serving!InForce(b, "autoindex") \in SUBSET DOMAIN dirs
      BY <1>1, <3>1, InForceIsSomewhere DEF Serving!Here
    <3>3. QED BY <3>2, LimitsRead
  <2>3. QED BY <1>1, <1>6, <2>1, <2>2, MaxIs, LimitsRead
<1>8. QED BY <1>5, <1>6, <1>7

\* A server of which no rule says that a limit is missing has it configured somewhere.
LEMMA ConfiguredSomewhere ==
    ASSUME NEW s \in Limits!Servers, NEW d, ~Limits!OnlyRedirects(s), ~Limits!LimitMissing(s, d),
           Limits!IsConfiguration
    PROVE  Limits!Configured(s, d)
<1>1. Limits!Effective(s, d) # {} \/ \E c \in Limits!Inside(s) : Limits!Here(c, d) # {}
  BY DEF Limits!LimitMissing
<1>2. s \in Limits!Around(s)
  <2>1. s \in Serving!Blocks
    BY LimitsRead DEF Limits!Servers, Limits!Named
  <2>2. QED BY <2>1, AroundIs, LimitsRead
<1>3. \A c : Limits!Here(c, d) # {} /\ s \in Limits!Around(c) =>
                \E i \in Limits!Anywhere(d) : s \in Limits!Around(dirs[i].in)
  BY DEF Limits!Here, Limits!Anywhere
<1>4. QED BY <1>1, <1>2, <1>3 DEF Limits!Configured, Limits!Effective, Limits!Inside

\* A listing of which no rule says that it is not limited is.
LEMMA ListingsFollow ==
    ASSUME Limits!LimitConfiguration, LimitReports
    PROVE  Limits!ListingsAreLimited
<1> SUFFICES ASSUME NEW s \in Limits!Servers, NEW b \in Limits!ListingScopes(s),
                    b = s \/ blocks[b].parent = s, Limits!Http(s) # {}, ~Limits!OnlyRedirects(s),
                    Limits!Unreported(b, s)
             PROVE  Limits!Limited(b, s)
  BY DEF Limits!ListingsAreLimited
<1>1. /\ Limits!ScopeLimits(b, s, "limit_req") = Limits!InForce(b, "limit_req")
      /\ Limits!ScopeLimits(b, s, "limit_conn") = Limits!InForce(b, "limit_conn")
      /\ Limits!ListingDirective(b, s) = Limits!Max(Limits!InForce(b, "autoindex"))
      /\ Limits!ListingDirective(b, s) \in DOMAIN dirs
  BY ListingScopeIs
<1>2. Limits!Configured(s, "limit_req") /\ Limits!Configured(s, "limit_conn")
  <2>1. ~Limits!LimitMissing(s, "limit_req") /\ ~Limits!LimitMissing(s, "limit_conn")
    BY DEF Limits!Unreported, Limits!Reported, LimitReports, Limits!missing_limit_req, Limits!missing_limit_conn
  <2>2. QED BY <2>1, ConfiguredSomewhere DEF Limits!LimitConfiguration
<1>3. Limits!Weaknesses(b, s) = {}
  <2>1. Limits!On(Limits!ListingDirective(b, s)) \notin Limits!public_autoindex_rate_limit_policy_weak
    BY <1>1 DEF Limits!Unreported, LimitReports
  <2>2. Limits!Weaknesses(b, s) # {} =>
            Limits!On(Limits!ListingDirective(b, s)) \in
                {Limits!On(Limits!ListingDirective(c, s)) : c \in {a \in Limits!ListingScopes(s) : Limits!Weaknesses(a, s) # {}}}
    OBVIOUS
  <2>3. QED BY <2>1, <2>2 DEF Limits!public_autoindex_rate_limit_policy_weak
<1>4. \E i \in Limits!InForce(b, "limit_req") : Limits!RateOf(dirs[i].value.zone) = "ok"
  <2> DEFINE found == {Limits!RateOf(dirs[i].value.zone) : i \in Limits!InForce(b, "limit_req")} \ {"none"}
  <2>1. ~Limits!WeakValues(found, Limits!Configured(s, "limit_req"))
    BY <1>1, <1>3 DEF Limits!Weaknesses
  <2>2. \E v \in found : v # "high"
    BY <1>2, <2>1 DEF Limits!WeakValues
  <2>3. \A zone : Limits!RateOf(zone) \in {"none", "ok", "high"}
    <3> SUFFICES ASSUME NEW zone PROVE Limits!RateOf(zone) \in {"none", "ok", "high"}
      OBVIOUS
    <3> DEFINE rated == {i \in Limits!Anywhere("limit_req_zone") : dirs[i].value.zone = zone /\ dirs[i].value.rate # "bad"}
    <3>1. rated \in SUBSET DOMAIN dirs /\ \A i \in rated : dirs[i].value.rate \in {"ok", "high"}
      BY DEF Limits!LimitConfiguration, Limits!Anywhere
    <3>2. Limits!RateOf(zone) = IF rated = {} THEN "none" ELSE dirs[Limits!Max(rated)].value.rate
      BY DEF Limits!RateOf
    <3> HIDE DEF rated
    <3>3. rated # {} => Limits!Max(rated) \in rated
      BY <3>1, MaxIs, LimitsRead DEF Limits!LimitConfiguration
    <3>4. QED BY <3>1, <3>2, <3>3
  <2>4. QED BY <2>2, <2>3
<1>5. \E i \in Limits!InForce(b, "limit_conn") : dirs[i].value.limit = "ok"
  <2> DEFINE found == {dirs[i].value.limit : i \in Limits!InForce(b, "limit_conn")} \ {"zero"}
  <2>1. ~Limits!WeakValues(found, Limits!Configured(s, "limit_conn"))
    BY <1>1, <1>3 DEF Limits!Weaknesses
  <2>2. \E v \in found : v # "high"
    BY <1>2, <2>1 DEF Limits!WeakValues
  <2>3. \A i \in Limits!InForce(b, "limit_conn") : dirs[i].value.limit \in {"ok", "high", "zero"}
    <3>1. b \in Limits!Blocks
      BY DEF Limits!ListingScopes, Limits!Inside, Limits!Servers, Limits!Named
    <3>2. \A i \in Serving!InForce(b, "limit_conn") : i \in Limits!Anywhere("limit_conn")
      BY <3>1, InForceIsSomewhere, LimitsRead DEF Limits!LimitConfiguration, Serving!Here, Limits!Anywhere
    <3>3. QED BY <3>2, LimitsRead DEF Limits!LimitConfiguration
  <2>4. QED BY <2>2, <2>3
<1>6. QED BY <1>4, <1>5 DEF Limits!Limited

\* In any configuration the rules for limits miss no block that runs with a size or a timeout
\* out of bounds, no limit with a zone that does not work, and no server or location directly in
\* one that lists a directory with no limit, or a very high one.
THEOREM NginxLimitRulesAreSound ==
    Limits!LimitSpec => [](Limits!NothingRunsUnbounded /\ Limits!LimitsWork /\ Limits!ListingsAreLimited)
<1> DEFINE IInv == Limits!LimitConfiguration /\ (Limits!Checked => LimitReports)
<1>1. Limits!LimitConfiguration /\ findings = Limits!Unchecked => IInv
  BY DEF Limits!Checked
<1>2. IInv /\ [Limits!Check]_(Limits!vars) => IInv'
  <2> SUFFICES ASSUME IInv, [Limits!Check]_(Limits!vars) PROVE IInv'
    OBVIOUS
  <2>1. UNCHANGED <<blocks, dirs>>
    BY DEF Limits!Check, Limits!vars
  <2>2. Limits!LimitConfiguration'
    BY <2>1, LimitsStay
  <2>3. CASE Limits!Check
    <3>1. LimitReports'
      BY <2>1, <2>3, LimitsStay DEF LimitReports, Limits!Check
    <3>2. QED BY <2>2, <3>1
  <2>4. CASE UNCHANGED findings
    <3>1. Limits!Checked' = Limits!Checked
      BY <2>4 DEF Limits!Checked, Limits!Unchecked
    <3>2. LimitReports => LimitReports'
      BY <2>1, <2>4, LimitsStay DEF LimitReports
    <3>3. QED BY <2>2, <3>1, <3>2
  <2>5. QED BY <2>3, <2>4 DEF Limits!vars
<1>3. IInv => Limits!NothingRunsUnbounded /\ Limits!LimitsWork /\ Limits!ListingsAreLimited
  <2>1. CASE ~Limits!Checked
    BY <2>1 DEF Limits!NothingRunsUnbounded, Limits!LimitsWork, Limits!ListingsAreLimited
  <2>2. CASE Limits!Checked
    BY <2>2, UnboundedFollows, ZonesFollow, ListingsFollow
  <2>3. QED BY <2>1, <2>2
<1>4. QED BY <1>1, <1>2, <1>3, PTL DEF Limits!LimitSpec

(***************************************************************************)
(* The rules for which server answers, and how.                            *)
(***************************************************************************)
\* What is checked reads as the rules say.
AnsweringReports ==
    /\ findings["default_server_not_rejecting_unknown_hosts"] = Serving!default_server_not_rejecting_unknown_hosts
    /\ findings["default_tls_server_not_rejecting_unknown_hosts"]
           = Serving!default_tls_server_not_rejecting_unknown_hosts
    /\ findings["missing_http_to_https_redirect"] = Serving!missing_http_to_https_redirect
    /\ findings["auth_basic_over_http"] = Serving!auth_basic_over_http

\* What the rules have to report does not depend on what was found.
LEMMA AnsweringStays ==
    ASSUME UNCHANGED <<blocks, dirs>>
    PROVE  /\ Serving!AnsweringConfiguration' = Serving!AnsweringConfiguration
           /\ Serving!default_server_not_rejecting_unknown_hosts'
                  = Serving!default_server_not_rejecting_unknown_hosts
           /\ Serving!default_tls_server_not_rejecting_unknown_hosts'
                  = Serving!default_tls_server_not_rejecting_unknown_hosts
           /\ Serving!missing_http_to_https_redirect' = Serving!missing_http_to_https_redirect
           /\ Serving!auth_basic_over_http' = Serving!auth_basic_over_http
<1>1. /\ Serving!Servers' = Serving!Servers /\ Serving!TlsServers' = Serving!TlsServers
      /\ Serving!Blocks' = Serving!Blocks
      /\ \A b, d : Serving!Here(b, d)' = Serving!Here(b, d)
      /\ UNCHANGED <<blocks, dirs>>
  BY ConfigurationStays
<1>2. /\ \A name : Serving!Named(name)' = Serving!Named(name)
      /\ \A b : Serving!Context(b)' = Serving!Context(b)
      /\ \A b : Serving!Around(b)' = Serving!Around(b)
      /\ \A b, d, values : Serving!Has(b, d, values)' = Serving!Has(b, d, values)
      /\ \A d : Serving!Anywhere(d)' = Serving!Anywhere(d)
  BY <1>1 DEF Serving!Named, Serving!Context, Serving!Around, Serving!Has, Serving!Anywhere
<1>3. /\ \A b : Serving!Inside(b)' = Serving!Inside(b)
      /\ \A b : Serving!Locations(b)' = Serving!Locations(b)
      /\ \A b : Serving!CatchAll(b)' = Serving!CatchAll(b)
      /\ \A b : Serving!SafeException(b)' = Serving!SafeException(b)
      /\ \A s : Serving!rejects_unknown_hosts(s)' = Serving!rejects_unknown_hosts(s)
  BY <1>1, <1>2 DEF Serving!Inside, Serving!Locations, Serving!Children, Serving!CatchAll,
                    Serving!SafeException, Serving!rejects_unknown_hosts
<1>4. Serving!AnsweringConfiguration' = Serving!AnsweringConfiguration
  <2>1. \A s : Serving!Http(s)' = Serving!Http(s)
    BY <1>1, <1>2 DEF Serving!Http
  <2>2. Serving!IsConfiguration' = Serving!IsConfiguration
    BY <1>1, <1>2, <2>1 DEF Serving!IsConfiguration
  <2>3. QED BY <1>1, <1>2, <2>2 DEF Serving!AnsweringConfiguration, Serving!Only, Serving!ServersAreApart
<1>5. Serving!default_server_not_rejecting_unknown_hosts' = Serving!default_server_not_rejecting_unknown_hosts
  BY <1>1, <1>2, <1>3 DEF Serving!default_server_not_rejecting_unknown_hosts, Serving!IsDefault
<1>6. Serving!default_tls_server_not_rejecting_unknown_hosts'
          = Serving!default_tls_server_not_rejecting_unknown_hosts
  <2>1. \A s : Serving!SslListens(s)' = Serving!SslListens(s) /\ Serving!IsDefault(s)' = Serving!IsDefault(s)
    BY <1>1, <1>2 DEF Serving!SslListens, Serving!IsDefault
  <2>2. \A t : Serving!TlsKeys(t)' = Serving!TlsKeys(t)
    BY <1>1, <2>1 DEF Serving!TlsKeys
  <2>3. \A k : Serving!Sharing(k)' = Serving!Sharing(k)
    BY <1>1, <2>2 DEF Serving!Sharing
  <2>4. \A k : Serving!HasDefault(k)' = Serving!HasDefault(k)
    BY <1>1, <2>1, <2>3 DEF Serving!HasDefault
  <2>5. Serving!SharedKeys' = Serving!SharedKeys
    BY <1>1, <2>2, <2>3 DEF Serving!SharedKeys
  <2>6. Serving!ImplicitDefaults' = Serving!ImplicitDefaults
    BY <2>3, <2>4, <2>5 DEF Serving!ImplicitDefaults
  <2>7. QED BY <1>3, <2>6 DEF Serving!default_tls_server_not_rejecting_unknown_hosts
<1>7. Serving!missing_http_to_https_redirect' = Serving!missing_http_to_https_redirect
  <2>1. \A b : Serving!BlockHttps(b)' = Serving!BlockHttps(b) /\ Serving!NamedHttp(b)' = Serving!NamedHttp(b)
    BY <1>1, <1>2 DEF Serving!BlockHttps, Serving!NamedHttp
  <2>2. \A s : Serving!HasHttpsRedirect(s)' = Serving!HasHttpsRedirect(s)
    BY <1>3, <2>1 DEF Serving!HasHttpsRedirect
  <2>3. QED BY <1>1, <2>1, <2>2 DEF Serving!missing_http_to_https_redirect
<1>8. Serving!auth_basic_over_http' = Serving!auth_basic_over_http
  <2>1. \A b : Serving!ActiveAuth(b)' = Serving!ActiveAuth(b)
    BY <1>1 DEF Serving!ActiveAuth, Serving!Value
  <2>2. \A s : Serving!FirstAuth(s)' = Serving!FirstAuth(s)
    BY <1>1, <1>2, <1>3, <2>1 DEF Serving!FirstAuth
  <2>3. \A b : Serving!Redirects(b)' = Serving!Redirects(b) /\ Serving!UsesTls(b)' = Serving!UsesTls(b)
    BY <1>2 DEF Serving!Redirects, Serving!UsesTls
  <2>4. \A s : Serving!OnlyRedirects(s)' = Serving!OnlyRedirects(s)
    BY <1>3, <2>3 DEF Serving!OnlyRedirects
  <2>5. QED BY <1>1, <2>2, <2>3, <2>4 DEF Serving!auth_basic_over_http
<1>9. QED BY <1>4, <1>5, <1>6, <1>7, <1>8

\* A server that is the default of an address, or the first on it if it is used with TLS by
\* several and none is the default, rejects unknown hosts or is reported.
LEMMA UnknownHostsFollow ==
    ASSUME Serving!AnsweringConfiguration, AnsweringReports
    PROVE  Serving!UnknownHostsAreRejected
<1> SUFFICES ASSUME NEW key \in Serving!KeysInUse
             PROVE  \E s \in Serving!Servers :
        /\ s = Serving!AnswersUnknown(key)
        /\ \/ Serving!rejects_unknown_hosts(s)
           \/ Serving!Says("default_server_not_rejecting_unknown_hosts", s)
           \/ Serving!Says("default_tls_server_not_rejecting_unknown_hosts", s)
           \/ /\ (\A t \in Serving!Listeners(key) : t = s) \/ key # "*:443"
              /\ \A i \in Serving!Here(s, "listen") : dirs[i].value \notin Serving!Default
  BY DEF Serving!UnknownHostsAreRejected
<1> DEFINE marked == {j \in Serving!Listening(key) : dirs[j].value \in Serving!Default}
           Ins(I) == {dirs[i].in : i \in I}
<1>0. PICK n \in Nat : Serving!Blocks = 1 .. n /\ Serving!Blocks \cup {0} = 0 .. n
  BY BlocksNest DEF Serving!Main, Serving!AnsweringConfiguration
<1>1. \A i \in Serving!Anywhere("listen") :
          /\ dirs[i].in \in Serving!Servers /\ dirs[i].in \in 1 .. n
          /\ i \in Serving!Here(dirs[i].in, "listen")
  <2> SUFFICES ASSUME NEW i \in Serving!Anywhere("listen")
               PROVE  /\ dirs[i].in \in Serving!Servers /\ dirs[i].in \in 1 .. n
                      /\ i \in Serving!Here(dirs[i].in, "listen")
    OBVIOUS
  <2>1. Serving!Context(dirs[i].in) = "server"
    BY DEF Serving!AnsweringConfiguration, Serving!Only
  <2>2. dirs[i].in \in Serving!Blocks \cup {0}
    BY DEF Serving!AnsweringConfiguration, Serving!IsConfiguration, Serving!Anywhere, Serving!Main
  <2>3. dirs[i].in \in Serving!Servers
    BY <2>1, <2>2 DEF Serving!Context, Serving!Main, Serving!Servers, Serving!Named
  <2>4. i \in Serving!Here(dirs[i].in, "listen")
    BY DEF Serving!Anywhere, Serving!Here
  <2>5. QED BY <1>0, <2>3, <2>4 DEF Serving!Servers, Serving!Named
<1>2. \A I \in SUBSET Serving!Anywhere("listen") : I # {} =>
          \E i \in I : Serving!Min(Ins(I)) = dirs[i].in
  <2> SUFFICES ASSUME NEW I \in SUBSET Serving!Anywhere("listen"), I # {}
               PROVE  \E i \in I : Serving!Min(Ins(I)) = dirs[i].in
    OBVIOUS
  <2>1. Ins(I) \in SUBSET Nat /\ Ins(I) # {}
    BY <1>1
  <2> HIDE DEF Ins
  <2>2. Serving!Min(Ins(I)) \in Ins(I)
    BY <2>1, MinIs
  <2>3. QED BY <2>2 DEF Ins
<1>3. PICK s : s = Serving!AnswersUnknown(key)
  OBVIOUS
<1>4. s = IF marked # {} THEN Serving!Min(Ins(marked)) ELSE Serving!Min(Ins(Serving!Listening(key)))
  <2>1. Ins(marked) = {} <=> marked = {}
    OBVIOUS
  <2>2. QED BY <1>3, <2>1 DEF Serving!AnswersUnknown, Serving!Listeners
<1>5. /\ Serving!Listening(key) # {} /\ Serving!Listening(key) \in SUBSET Serving!Anywhere("listen")
      /\ marked \in SUBSET Serving!Anywhere("listen")
  BY DEF Serving!KeysInUse, Serving!Listening
<1>6. PICK i0 \in Serving!Listening(key) : s = dirs[i0].in /\ (marked # {} => i0 \in marked)
  <2>1. CASE marked # {}
    <3>1. \E i \in marked : s = dirs[i].in
      <4> HIDE DEF Ins, marked
      <4>1. QED BY <1>2, <1>4, <1>5, <2>1
    <3>2. QED BY <3>1
  <2>2. CASE marked = {}
    <3> HIDE DEF Ins, marked
    <3>1. QED BY <1>2, <1>4, <1>5, <2>2
  <2>3. QED BY <2>1, <2>2
<1>7. s \in Serving!Servers /\ i0 \in Serving!Here(s, "listen")
  BY <1>1, <1>5, <1>6
<1>8. Serving!IsDefault(s) => \/ Serving!rejects_unknown_hosts(s)
                              \/ Serving!Says("default_server_not_rejecting_unknown_hosts", s)
  BY <1>7 DEF Serving!Says, AnsweringReports, Serving!default_server_not_rejecting_unknown_hosts
<1>9. ~Serving!IsDefault(s) => \A i \in Serving!Here(s, "listen") : dirs[i].value \notin Serving!Default
  BY DEF Serving!IsDefault, Serving!Has
<1>10. marked # {} => Serving!IsDefault(s)
  BY <1>6, <1>7 DEF Serving!IsDefault, Serving!Has
<1>11. ASSUME marked = {}, ~\A t \in Serving!Listeners(key) : t = s, key = "*:443"
       PROVE  \/ Serving!rejects_unknown_hosts(s)
              \/ Serving!Says("default_tls_server_not_rejecting_unknown_hosts", s)
  <2>1. \A i \in Serving!Listening(key) : i \in Serving!SslListens(dirs[i].in)
    <3>1. \A i \in Serving!Anywhere("listen") :
              dirs[i].value \in Serving!Ssl \cup {"*:443 ssl", "80", "80 default_server"}
      BY DEF Serving!AnsweringConfiguration
    <3>2. \A v \in {"80", "80 default_server"} : Serving!Key(v) # "*:443"
      BY DEF Serving!Key
    <3>3. QED BY <1>1, <1>11, <3>1, <3>2 DEF Serving!Listening, Serving!SslListens
  <2>2. Serving!Sharing(key) = Serving!Listeners(key)
    <3>1. ASSUME NEW t \in Serving!Sharing(key) PROVE t \in Serving!Listeners(key)
      BY DEF Serving!Sharing, Serving!TlsKeys, Serving!Listeners, Serving!Listening,
             Serving!SslListens, Serving!Here, Serving!Anywhere
    <3>2. ASSUME NEW i \in Serving!Listening(key) PROVE dirs[i].in \in Serving!Sharing(key)
      BY <1>1, <1>5, <2>1 DEF Serving!Sharing, Serving!TlsKeys, Serving!Listening
    <3>3. QED BY <3>1, <3>2 DEF Serving!Listeners
  <2>3. ~Serving!HasDefault(key)
    BY <1>11 DEF Serving!HasDefault, Serving!Listening, Serving!SslListens, Serving!Here, Serving!Anywhere
  <2>4. \E t, u \in Serving!Sharing(key) : t # u
    <3>1. s \in Serving!Listeners(key)
      BY <1>6 DEF Serving!Listeners
    <3>2. QED BY <1>11, <2>2, <3>1
  <2>5. key \in Serving!SharedKeys
    <3>1. s \in Serving!Sharing(key)
      BY <1>6, <2>2 DEF Serving!Listeners
    <3>2. key \in Serving!TlsKeys(s)
      BY <3>1 DEF Serving!Sharing
    <3>3. QED BY <1>7, <2>4, <3>2 DEF Serving!SharedKeys
  <2>6. s = Serving!Min(Serving!Sharing(key))
    BY <1>4, <1>11, <2>2 DEF Serving!Listeners
  <2>7. s \in Serving!ImplicitDefaults
    BY <2>3, <2>5, <2>6 DEF Serving!ImplicitDefaults
  <2>8. QED BY <2>7 DEF Serving!Says, AnsweringReports, Serving!default_tls_server_not_rejecting_unknown_hosts
<1>12. \/ Serving!rejects_unknown_hosts(s)
       \/ Serving!Says("default_server_not_rejecting_unknown_hosts", s)
       \/ Serving!Says("default_tls_server_not_rejecting_unknown_hosts", s)
       \/ /\ (\A t \in Serving!Listeners(key) : t = s) \/ key # "*:443"
          /\ \A i \in Serving!Here(s, "listen") : dirs[i].value \notin Serving!Default
  <2> HIDE DEF Ins, marked
  <2>1. QED BY <1>8, <1>9, <1>10, <1>11
<1>13. QED BY <1>3, <1>7, <1>12

\* Some location matches the path if one for everything is there, and one that answers a
\* challenge is asked for nothing else.
LEMMA AnsweringIs ==
    ASSUME Serving!IsConfiguration, NEW s, NEW path \in Serving!Paths,
           NEW a \in Serving!Locations(s), Serving!CatchAll(a)
    PROVE  /\ Serving!Answering(s, path) # {}
           /\ \A c \in Serving!Answering(s, path) :
                 /\ c \in Serving!Locations(s)
                 /\ Serving!SafeException(c) => path = "/.well-known/acme-challenge/x"
<1> DEFINE all == Serving!Children(s, "location")
           exact == {c \in all : <<blocks[c].args, path>> \in
                       {<<"= /", "/">>, <<"= /.well-known/acme-challenge/x", "/.well-known/acme-challenge/x">>}}
           longest == {c \in all : Serving!Prefix(blocks[c].args, path) > 0
                         /\ \A d \in all : Serving!Prefix(blocks[d].args, path)
                                               <= Serving!Prefix(blocks[c].args, path)}
           expression == {c \in all : blocks[c].args = "~ php" /\ path = "/app.php"}
<1>1. Serving!Answering(s, path) =
          IF exact # {} THEN exact
          ELSE IF expression # {} /\ \A c \in longest : blocks[c].args # "^~ /"
               THEN {Serving!Min(expression)} ELSE longest
  BY DEF Serving!Answering
<1>2. \A args : Serving!Prefix(args, path) \in {0, 1, 2}
  BY DEF Serving!Prefix
<1>3. /\ \A args \in {"/", "^~ /"} : Serving!Prefix(args, path) = 1
      /\ Serving!Prefix("@named", path) = 0
      /\ Serving!Prefix("/.well-known/acme-challenge/", path) # 0 => path = "/.well-known/acme-challenge/x"
      /\ Serving!Prefix("= /.well-known/acme-challenge/x", path) = 0
  BY DEF Serving!Prefix
<1>4. a \in all /\ blocks[a].args \in {"/", "^~ /"}
  BY DEF Serving!Locations, Serving!CatchAll
<1>5. longest # {}
  <2>1. CASE \E c \in all : Serving!Prefix(blocks[c].args, path) = 2
    <3>1. PICK c \in all : Serving!Prefix(blocks[c].args, path) = 2
      BY <2>1
    <3>2. \A d \in all : Serving!Prefix(blocks[d].args, path) <= Serving!Prefix(blocks[c].args, path)
      BY <1>2, <3>1
    <3>3. c \in longest
      BY <3>1, <3>2
    <3>4. QED BY <3>3
  <2>2. CASE ~\E c \in all : Serving!Prefix(blocks[c].args, path) = 2
    <3>1. Serving!Prefix(blocks[a].args, path) = 1
      BY <1>3, <1>4
    <3>2. \A d \in all : Serving!Prefix(blocks[d].args, path) <= Serving!Prefix(blocks[a].args, path)
      BY <1>2, <2>2, <3>1
    <3>3. a \in all
      BY <1>4
    <3>4. a \in longest
      <4> HIDE DEF all
      <4>1. Serving!Prefix(blocks[a].args, path) > 0
        BY <3>1
      <4>2. QED BY <3>2, <3>3, <4>1
    <3>5. QED BY <3>4
  <2>3. QED BY <2>1, <2>2
<1>6. expression # {} => Serving!Min(expression) \in expression
  <2>1. PICK n \in Nat : Serving!Blocks = 1 .. n
    BY BlocksNest
  <2>2. \A c \in all : c \in Nat
    BY <2>1 DEF Serving!Children, Serving!Named
  <2>3. expression \in SUBSET Nat
    <3> HIDE DEF all
    <3>1. QED BY <2>2
  <2> HIDE DEF expression
  <2>4. QED BY <2>3, MinIs
<1>7. \A c \in exact \cup expression \cup longest :
          /\ c \in all /\ blocks[c].args # "@named"
          /\ blocks[c].args \in {"/.well-known/acme-challenge/", "= /.well-known/acme-challenge/x"} =>
                 path = "/.well-known/acme-challenge/x"
  <2>1. \A c \in exact : blocks[c].args \in {"= /", "= /.well-known/acme-challenge/x"}
            /\ (blocks[c].args = "= /.well-known/acme-challenge/x" => path = "/.well-known/acme-challenge/x")
    <3> SUFFICES ASSUME NEW c \in exact
                 PROVE  /\ blocks[c].args \in {"= /", "= /.well-known/acme-challenge/x"}
                        /\ blocks[c].args = "= /.well-known/acme-challenge/x" =>
                               path = "/.well-known/acme-challenge/x"
      OBVIOUS
    <3>1. PICK args : args = blocks[c].args
      OBVIOUS
    <3>2. \/ <<args, path>> = <<"= /", "/">>
          \/ <<args, path>> = <<"= /.well-known/acme-challenge/x", "/.well-known/acme-challenge/x">>
      BY <3>1
    <3>3. CASE args = "= /"
      BY <3>1, <3>3
    <3>4. CASE args = "= /.well-known/acme-challenge/x" /\ path = "/.well-known/acme-challenge/x"
      BY <3>1, <3>4
    <3>5. QED BY <3>2, <3>3, <3>4
  <2>2. \A c \in longest : Serving!Prefix(blocks[c].args, path) # 0
    BY <1>2
  <2>3. QED BY <1>3, <2>1, <2>2
<1>8. \A c \in Serving!Answering(s, path) : c \in exact \cup expression \cup longest
  <2> HIDE DEF exact, expression, longest
  <2>1. QED BY <1>1, <1>6
<1>9. Serving!Answering(s, path) # {}
  <2> HIDE DEF exact, expression, longest
  <2>1. QED BY <1>1, <1>5
<1>10. \A c \in Serving!Answering(s, path) :
           /\ c \in Serving!Locations(s)
           /\ Serving!SafeException(c) => path = "/.well-known/acme-challenge/x"
  BY <1>7, <1>8 DEF Serving!Locations, Serving!SafeException
<1>11. QED BY <1>9, <1>10

\* The way to https leaves nothing out.
LEMMA RedirectFollows ==
    ASSUME Serving!AnsweringConfiguration, AnsweringReports
    PROVE  Serving!RedirectIsComplete
<1> SUFFICES ASSUME NEW s \in Serving!Servers, Serving!NamedHttp(s),
                    ~Serving!Says("missing_http_to_https_redirect", s), ~Serving!BlockHttps(s),
                    NEW path \in Serving!Paths
             PROVE  /\ Serving!Answering(s, path) # {}
                    /\ \A c \in Serving!Answering(s, path) :
                          Serving!BlockHttps(c) \/ path = "/.well-known/acme-challenge/x"
  BY DEF Serving!RedirectIsComplete
<1>1. Serving!HasHttpsRedirect(s)
  BY DEF Serving!Says, AnsweringReports, Serving!missing_http_to_https_redirect
<1>2. PICK a \in Serving!Locations(s) : Serving!CatchAll(a)
  BY <1>1 DEF Serving!HasHttpsRedirect
<1>3. \A c \in Serving!Locations(s) : Serving!SafeException(c) \/ Serving!BlockHttps(c)
  BY <1>1 DEF Serving!HasHttpsRedirect
<1>4. Serving!IsConfiguration
  BY DEF Serving!AnsweringConfiguration
<1>5. QED BY <1>2, <1>3, <1>4, AnsweringIs

\* What is around a server: a block of the main context, or none.
LEMMA ApartServer ==
    ASSUME Serving!IsConfiguration, Serving!ServersAreApart, NEW s \in Serving!Servers
    PROVE  /\ s \in Serving!Blocks /\ s \in Serving!Around(s)
           /\ \A b \in Serving!Around(s) :
                 b # s => Serving!Context(b) \notin {"server", "location", "limit_except"}
<1>1. Serving!IsConfiguration /\ s \in Serving!Blocks /\ blocks[s].name = "server"
  BY DEF Serving!Servers, Serving!Named
<1>2. PICK p : p = blocks[s].parent
  OBVIOUS
<1>3. Serving!Around(s) = {s} \cup Serving!Around(p)
  BY <1>1, <1>2, AroundIs
<1>4. CASE p = 0
  BY <1>1, <1>3, <1>4, AroundIs DEF Serving!Context, Serving!Main
<1>5. CASE p # 0
  <2>1. p \in Serving!Blocks /\ blocks[p].parent = 0 /\ blocks[p].name \in {"http", "stream", "mail"}
    BY <1>1, <1>2, <1>5 DEF Serving!ServersAreApart, Serving!IsConfiguration, Serving!Named, Serving!Main
  <2>2. Serving!Around(p) = {p, 0}
    BY <1>1, <2>1, AroundIs
  <2>3. Serving!Context(p) \notin {"server", "location", "limit_except"}
        /\ Serving!Context(0) \notin {"server", "location", "limit_except"}
    BY <1>5, <2>1 DEF Serving!Context, Serving!Main
  <2>4. QED BY <1>1, <1>3, <2>2, <2>3
<1>6. QED BY <1>4, <1>5

\* Of servers there is only one around a block.
LEMMA OneServer ==
    ASSUME Serving!IsConfiguration, Serving!ServersAreApart, NEW b \in Serving!Blocks \cup {0},
           NEW s \in Serving!Servers, NEW t \in Serving!Servers,
           s \in Serving!Around(b), t \in Serving!Around(b)
    PROVE  s = t
<1>1. \A u \in Serving!Servers : u # 0
  BY BlocksNest DEF Serving!Servers, Serving!Named
<1>2. Serving!Context(s) = "server" /\ Serving!Context(t) = "server"
  BY <1>1 DEF Serving!Servers, Serving!Named, Serving!Context, Serving!Main
<1>3. s \in Serving!Around(t) \/ t \in Serving!Around(s)
  BY AroundChain
<1>4. QED BY <1>2, <1>3, ApartServer

\* So with the hypotheses of the rules for who answers.
LEMMA AroundServer ==
    ASSUME Serving!AnsweringConfiguration, NEW s \in Serving!Servers
    PROVE  /\ s \in Serving!Blocks /\ s \in Serving!Around(s)
           /\ \A b \in Serving!Around(s) :
                 b # s => Serving!Context(b) \notin {"server", "location", "limit_except"}
BY ApartServer DEF Serving!AnsweringConfiguration

\* A location of a server lies in one that is directly in it, or is one; and so does what
\* it excludes.
LEMMA LocationLies ==
    ASSUME Serving!AnsweringConfiguration, NEW s \in Serving!Servers, NEW b \in Serving!Inside(s),
           Serving!Context(b) \in {"location", "limit_except"}
    PROVE  \E c \in Serving!Around(b) \cap Serving!Inside(s) :
              blocks[c].parent = s /\ blocks[c].name \in {"location", "limit_except"}
<1> DEFINE Good(a) == a \in Serving!Inside(s) /\ Serving!Context(a) \in {"location", "limit_except"} =>
               \E c \in Serving!Around(a) \cap Serving!Inside(s) :
                  blocks[c].parent = s /\ blocks[c].name \in {"location", "limit_except"}
           G == {a \in Serving!Blocks \cup {0} : Good(a)}
<1>1. Serving!IsConfiguration
  BY DEF Serving!AnsweringConfiguration
<1>2. 0 \in G
  BY DEF Serving!Context, Serving!Main
<1>3. \A a \in Serving!Blocks : blocks[a].parent \in G => a \in G
  <2> SUFFICES ASSUME NEW a \in Serving!Blocks, Good(blocks[a].parent), a \in Serving!Inside(s),
                      Serving!Context(a) \in {"location", "limit_except"}
               PROVE  \E c \in Serving!Around(a) \cap Serving!Inside(s) :
                         blocks[c].parent = s /\ blocks[c].name \in {"location", "limit_except"}
    OBVIOUS
  <2>1. PICK p : p = blocks[a].parent
    OBVIOUS
  <2>2. /\ a # s /\ s \in Serving!Around(p) /\ Serving!Around(a) = {a} \cup Serving!Around(p)
    BY <1>1, <2>1, AroundIs DEF Serving!Inside
  <2>3. a # 0 /\ blocks[a].name \in {"location", "limit_except"}
    <3>1. a # 0
      BY DEF Serving!Context, Serving!Main
    <3>2. QED BY <3>1 DEF Serving!Context, Serving!Main
  <2>4. CASE p = s
    <3>1. a \in Serving!Around(a)
      BY <2>2
    <3>2. QED BY <2>1, <2>3, <2>4, <3>1
  <2>5. CASE p # s
    <3>1. Serving!Context(p) \in {"server", "location"}
      BY <2>1, <2>3 DEF Serving!AnsweringConfiguration, Serving!Named
    <3>2. p # 0
      BY <3>1 DEF Serving!Context, Serving!Main
    <3>3. p \in Serving!Blocks
      <4>1. PICK n \in Nat : Serving!Blocks = 1 .. n /\ blocks[a].parent \in 0 .. a - 1
        BY <1>1, BlocksNest
      <4>2. QED BY <2>1, <3>2, <4>1
    <3>4. Serving!Context(p) # "server"
      <4>1. ASSUME Serving!Context(p) = "server" PROVE FALSE
        <5>1. p \in Serving!Servers
          BY <3>2, <3>3, <4>1 DEF Serving!Servers, Serving!Named, Serving!Context, Serving!Main
        <5>2. Serving!Context(s) = "server"
          BY BlocksNest, <1>1 DEF Serving!Servers, Serving!Named, Serving!Context, Serving!Main
        <5>3. QED BY <2>2, <2>5, <5>1, <5>2, AroundServer
      <4>2. QED BY <4>1
    <3>5. p \in Serving!Inside(s)
      BY <2>2, <2>5, <3>3 DEF Serving!Inside
    <3>6. QED BY <2>1, <2>2, <3>1, <3>4, <3>5
  <2>6. QED BY <2>4, <2>5
<1> HIDE DEF Good
<1>4. b \in Serving!Blocks \cup {0}
  BY DEF Serving!Inside
<1>5. b \in G
  <2> HIDE DEF G
  <2>1. QED BY <1>1, <1>2, <1>3, <1>4, FromTheTop
<1>6. QED BY <1>5 DEF Good

\* Where it is asked for a password, around a server's block: there, or in one of its locations.
LEMMA AuthIsWithin ==
    ASSUME Serving!AnsweringConfiguration, NEW s \in Serving!Servers, NEW b \in Serving!Inside(s) \cup {s},
           NEW c \in Serving!Around(b), Serving!Here(c, "auth_basic") # {}
    PROVE  \/ c = s
           \/ c \in Serving!Inside(s) /\ Serving!Context(c) \in {"location", "limit_except"}
<1>1. Serving!IsConfiguration /\ s \in Serving!Blocks /\ s \in Serving!Around(s)
  BY AroundServer DEF Serving!AnsweringConfiguration
<1>2. b \in Serving!Blocks \cup {0} /\ s \in Serving!Around(b)
  BY <1>1 DEF Serving!Inside
<1>3. Serving!Context(c) \in {"server", "location", "limit_except"}
  BY DEF Serving!AnsweringConfiguration, Serving!Only, Serving!Here, Serving!Anywhere
<1>4. c \in Serving!Blocks /\ c # 0
  BY <1>1, <1>2, <1>3, AroundWhat DEF Serving!Context, Serving!Main
<1>5. c \in Serving!Around(s) \/ s \in Serving!Around(c)
  BY <1>1, <1>2, AroundChain
<1>6. CASE c \in Serving!Around(s)
  BY <1>3, <1>6, AroundServer
<1>7. CASE s \in Serving!Around(c) /\ c # s
  <2>1. c \in Serving!Inside(s)
    BY <1>4, <1>7 DEF Serving!Inside
  <2>2. ASSUME Serving!Context(c) = "server" PROVE FALSE
    <3>1. c \in Serving!Servers
      BY <1>4, <2>2 DEF Serving!Servers, Serving!Named, Serving!Context, Serving!Main
    <3>2. s # 0
      BY <1>1, BlocksNest
    <3>3. Serving!Context(s) = "server"
      BY <3>2 DEF Serving!Servers, Serving!Named, Serving!Context, Serving!Main
    <3>4. QED BY <1>7, <3>1, <3>3, AroundServer
  <2>3. QED BY <1>3, <2>1, <2>2
<1>8. QED BY <1>5, <1>6, <1>7

\* The first block of a server that asks for a password is one that does, and there is a first
\* one if there is any.
LEMMA FirstAuthIs ==
    ASSUME Serving!AnsweringConfiguration, NEW s \in Serving!Servers
    PROVE  /\ \A b \in Serving!FirstAuth(s) : Serving!ActiveAuth(b) /\ b \in Serving!Inside(s) \cup {s}
           /\ \A b : /\ Serving!ActiveAuth(b)
                     /\ \/ b = s
                        \/ b \in Serving!Inside(s) /\ Serving!Context(b) \in {"location", "limit_except"}
                     => Serving!FirstAuth(s) # {}
<1> DEFINE below == {b \in Serving!Inside(s) : \E c \in Serving!Around(b) \cap Serving!Inside(s) :
                        blocks[c].parent = s /\ blocks[c].name \in {"location", "limit_except"}}
           active == {b \in below \cup {s} : Serving!ActiveAuth(b)}
<1>1. Serving!FirstAuth(s) = IF active = {} THEN {} ELSE {Serving!Min(active)}
  BY DEF Serving!FirstAuth
<1>2. PICK n \in Nat : Serving!Blocks = 1 .. n
  BY BlocksNest DEF Serving!AnsweringConfiguration
<1>3. active \in SUBSET Nat
  BY <1>2, AroundServer DEF Serving!Inside
<1>4. active # {} => Serving!Min(active) \in active
  <2> HIDE DEF active
  <2>1. QED BY <1>3, MinIs
<1>5. \A b \in Serving!FirstAuth(s) : b \in active
  <2> HIDE DEF active
  <2>1. QED BY <1>1, <1>4
<1>6. ASSUME NEW b, Serving!ActiveAuth(b),
             \/ b = s
             \/ b \in Serving!Inside(s) /\ Serving!Context(b) \in {"location", "limit_except"}
      PROVE  Serving!FirstAuth(s) # {}
  <2>1. b \in below \cup {s}
    BY <1>6, LocationLies
  <2>2. b \in active
    <3> HIDE DEF below
    <3>1. QED BY <1>6, <2>1
  <2> HIDE DEF active
  <2>3. QED BY <1>1, <2>2
<1>7. QED BY <1>5, <1>6

\* A server in clear is reported where it asks for a password, and no other.
LEMMA NoPasswordFollows ==
    ASSUME Serving!AnsweringConfiguration, AnsweringReports
    PROVE  Serving!NoPasswordInClear
<1> DEFINE Clear(t) == ~Serving!UsesTls(t) /\ ~Serving!OnlyRedirects(t)
           Asks(t) == \E b \in {t} \cup {c \in Serving!Inside(t) : blocks[c].name \in {"location", "limit_except"}} :
                          Serving!Runs(b, "auth_basic") \notin {"none", "off"}
<1> SUFFICES ASSUME NEW s \in Serving!Servers
             PROVE  (\E i \in DOMAIN dirs : /\ Serving!On(i) \in findings["auth_basic_over_http"]
                                            /\ s \in Serving!Around(dirs[i].in))
                        <=> Clear(s) /\ Asks(s)
  BY DEF Serving!NoPasswordInClear
<1>1. PICK n \in Nat : Serving!Blocks = 1 .. n /\ Serving!IsConfiguration
  BY BlocksNest DEF Serving!AnsweringConfiguration
<1>2. \A b : Serving!ActiveAuth(b) => Serving!Here(b, "auth_basic") # {}
  BY DEF Serving!ActiveAuth, Serving!Value
<1>3. \A b : Serving!Here(b, "auth_basic") # {} =>
          /\ Serving!Max(Serving!Here(b, "auth_basic")) \in DOMAIN dirs
          /\ dirs[Serving!Max(Serving!Here(b, "auth_basic"))].in = b
  <2> SUFFICES ASSUME NEW b, Serving!Here(b, "auth_basic") # {}
               PROVE  Serving!Max(Serving!Here(b, "auth_basic")) \in Serving!Here(b, "auth_basic")
    BY DEF Serving!Here
  <2>1. Serving!Here(b, "auth_basic") \in SUBSET DOMAIN dirs
    BY DEF Serving!Here
  <2>2. QED BY <1>1, <2>1, MaxIs
<1>4. \A b : Serving!On(Serving!Max(Serving!Here(b, "auth_basic"))) \in findings["auth_basic_over_http"] <=>
          \E t \in Serving!Servers : \E a \in Serving!FirstAuth(t) :
              /\ Clear(t)
              /\ Serving!On(Serving!Max(Serving!Here(b, "auth_basic")))
                     = Serving!On(Serving!Max(Serving!Here(a, "auth_basic")))
  BY DEF AnsweringReports, Serving!auth_basic_over_http
<1>5. ASSUME Clear(s), Asks(s)
      PROVE  \E i \in DOMAIN dirs : /\ Serving!On(i) \in findings["auth_basic_over_http"]
                                    /\ s \in Serving!Around(dirs[i].in)
  <2>1. PICK b \in {s} \cup {c \in Serving!Inside(s) : blocks[c].name \in {"location", "limit_except"}} :
            Serving!Runs(b, "auth_basic") \notin {"none", "off"}
    BY <1>5
  <2>2. b \in Serving!Inside(s) \cup {s} /\ b \in Serving!Blocks \cup {0}
    BY <2>1, AroundServer DEF Serving!Inside
  <2>3. Serving!InForce(b, "auth_basic") # {}
    BY <2>1 DEF Serving!Runs, Serving!Value
  <2>4. PICK c \in Serving!Around(b) : /\ Serving!Here(c, "auth_basic") # {}
                                       /\ Serving!InForce(b, "auth_basic") = Serving!Here(c, "auth_basic")
    BY <1>1, <2>2, <2>3, InForceIsAround
  <2>5. Serving!ActiveAuth(c)
    BY <2>1, <2>4 DEF Serving!Runs, Serving!ActiveAuth
  <2>6. PICK m \in Serving!FirstAuth(s) : TRUE
    BY <2>2, <2>4, <2>5, AuthIsWithin, FirstAuthIs
  <2>7. Serving!ActiveAuth(m) /\ m \in Serving!Inside(s) \cup {s}
    BY FirstAuthIs
  <2>8. s \in Serving!Around(m)
    BY <2>7, AroundServer DEF Serving!Inside
  <2>9. Serving!On(Serving!Max(Serving!Here(m, "auth_basic"))) \in findings["auth_basic_over_http"]
    BY <1>4, <1>5, <2>6
  <2>10. QED BY <1>2, <1>3, <2>7, <2>8, <2>9
<1>6. ASSUME NEW i \in DOMAIN dirs, Serving!On(i) \in findings["auth_basic_over_http"],
             s \in Serving!Around(dirs[i].in)
      PROVE  Clear(s) /\ Asks(s)
  <2>1. PICK t \in Serving!Servers : \E b \in Serving!FirstAuth(t) :
            Clear(t) /\ Serving!On(i) = Serving!On(Serving!Max(Serving!Here(b, "auth_basic")))
    BY <1>6 DEF AnsweringReports, Serving!auth_basic_over_http
  <2> PICK b \in Serving!FirstAuth(t) :
            Clear(t) /\ Serving!On(i) = Serving!On(Serving!Max(Serving!Here(b, "auth_basic")))
    BY <2>1
  <2>2. Serving!ActiveAuth(b) /\ b \in Serving!Inside(t) \cup {t} /\ Serving!Here(b, "auth_basic") # {}
    BY <1>2, FirstAuthIs
  <2>3. dirs[i].in = b
    BY <1>3, <2>1, <2>2 DEF Serving!On
  <2>4. b \in Serving!Blocks \cup {0} /\ t \in Serving!Around(b) /\ s \in Serving!Around(b)
    BY <1>6, <2>2, <2>3, AroundServer DEF Serving!Inside
  <2>5. s = t
    BY <1>1, <2>4, OneServer DEF Serving!AnsweringConfiguration
  <2>6. b \in Serving!Blocks /\ b # 0
    BY <1>1, <2>2, AroundServer DEF Serving!Inside
  <2>7. b \in Serving!Around(b)
    BY <1>1, <2>4, AroundWhat
  <2>8. b = s \/ (b \in Serving!Inside(s) /\ Serving!Context(b) \in {"location", "limit_except"})
    BY <2>2, <2>5, <2>7, AuthIsWithin
  <2>9. b \in {s} \cup {c \in Serving!Inside(s) : blocks[c].name \in {"location", "limit_except"}}
    BY <2>6, <2>8 DEF Serving!Context, Serving!Main
  <2>10. Serving!InForce(b, "auth_basic") = Serving!Here(b, "auth_basic")
    BY <1>1, <2>2, <2>6, InForceIs
  <2>11. Serving!Runs(b, "auth_basic") \notin {"none", "off"}
    BY <2>2, <2>10 DEF Serving!Runs, Serving!ActiveAuth
  <2>12. QED BY <2>1, <2>5, <2>9, <2>11
<1> HIDE DEF Clear, Asks
<1>7. QED BY <1>5, <1>6

\* In any configuration a server that answers requests for unknown hosts rejects them or is
\* reported; a named server in clear that is not reported sends every request to https; and
\* servers in clear are reported just when they, or a location in them, ask for a password.
THEOREM NginxAnsweringRulesAreSound ==
    Serving!AnsweringSpec =>
        [](Serving!UnknownHostsAreRejected /\ Serving!RedirectIsComplete /\ Serving!NoPasswordInClear)
<1> DEFINE IInv == Serving!AnsweringConfiguration /\ (Serving!Checked => AnsweringReports)
<1>1. Serving!AnsweringConfiguration /\ findings = Serving!Unchecked => IInv
  BY DEF Serving!Checked
<1>2. IInv /\ [Serving!AnsweringCheck]_(Serving!vars) => IInv'
  <2> SUFFICES ASSUME IInv, [Serving!AnsweringCheck]_(Serving!vars) PROVE IInv'
    OBVIOUS
  <2>1. UNCHANGED <<blocks, dirs>>
    BY DEF Serving!AnsweringCheck, Serving!vars
  <2>2. Serving!AnsweringConfiguration'
    BY <2>1, AnsweringStays
  <2>3. CASE Serving!AnsweringCheck
    <3>1. AnsweringReports'
      BY <2>1, <2>3, AnsweringStays DEF AnsweringReports, Serving!AnsweringCheck
    <3>2. QED BY <2>2, <3>1
  <2>4. CASE UNCHANGED findings
    <3>1. Serving!Checked' = Serving!Checked
      BY <2>4 DEF Serving!Checked, Serving!Unchecked
    <3>2. AnsweringReports => AnsweringReports'
      BY <2>1, <2>4, AnsweringStays DEF AnsweringReports
    <3>3. QED BY <2>2, <3>1, <3>2
  <2>5. QED BY <2>3, <2>4 DEF Serving!vars
<1>3. IInv => /\ Serving!UnknownHostsAreRejected /\ Serving!RedirectIsComplete
              /\ Serving!NoPasswordInClear
  <2>1. CASE ~Serving!Checked
    BY <2>1 DEF Serving!UnknownHostsAreRejected, Serving!RedirectIsComplete, Serving!NoPasswordInClear
  <2>2. CASE Serving!Checked
    BY <2>2, UnknownHostsFollow, RedirectFollows, NoPasswordFollows
  <2>3. QED BY <2>1, <2>2
<1>4. QED BY <1>1, <1>2, <1>3, PTL DEF Serving!AnsweringSpec

(***************************************************************************)
(* What is handed down from block to block until one cuts it off.          *)
(***************************************************************************)
\* Those of the directives D that reach block b, when the blocks C cut off what is around them.
Handed(D, C, b) ==
    {i \in D : /\ dirs[i].in \in Serving!Around(b)
               /\ \A c \in Serving!Around(b) \ Serving!Around(dirs[i].in) : c \notin C}

\* What is around a block does not follow it.
LEMMA AroundGoesUp ==
    ASSUME Serving!IsConfiguration, NEW b \in Serving!Blocks \cup {0}
    PROVE  Serving!Around(b) \subseteq 0 .. b
<1> DEFINE G == {c \in Serving!Blocks \cup {0} : Serving!Around(c) \subseteq 0 .. c}
<1>1. PICK n \in Nat : Serving!Blocks = 1 .. n /\ \A c \in 1 .. n : blocks[c].parent \in 0 .. c - 1
  BY BlocksNest
<1>2. 0 \in G
  BY AroundIs
<1>3. \A c \in Serving!Blocks : blocks[c].parent \in G => c \in G
  <2> SUFFICES ASSUME NEW c \in Serving!Blocks, blocks[c].parent \in G PROVE Serving!Around(c) \subseteq 0 .. c
    OBVIOUS
  <2>1. Serving!Around(c) = {c} \cup Serving!Around(blocks[c].parent)
    BY AroundIs
  <2>2. c \in Nat /\ blocks[c].parent \in 0 .. c - 1
    BY <1>1
  <2>3. QED BY <2>1, <2>2
<1>4. b \in G
  <2> HIDE DEF G
  <2>1. QED BY <1>2, <1>3, FromTheTop
<1>5. QED BY <1>4

\* A block has its own, and those handed to it unless it cuts them off.
LEMMA HandedIs ==
    ASSUME Serving!IsConfiguration, NEW D \in SUBSET DOMAIN dirs, NEW C
    PROVE  /\ \A b \in Serving!Blocks :
                 Handed(D, C, b) = {i \in D : dirs[i].in = b}
                                      \cup (IF b \in C THEN {} ELSE Handed(D, C, blocks[b].parent))
           /\ Handed(D, C, 0) = {i \in D : dirs[i].in = 0}
<1>1. ASSUME NEW b \in Serving!Blocks
      PROVE  Handed(D, C, b) = {i \in D : dirs[i].in = b}
                                  \cup (IF b \in C THEN {} ELSE Handed(D, C, blocks[b].parent))
  <2>1. PICK p : p = blocks[b].parent
    OBVIOUS
  <2>2. PICK n \in Nat : Serving!Blocks = 1 .. n /\ p \in 0 .. b - 1
    BY <2>1, BlocksNest
  <2>3. p \in Serving!Blocks \cup {0} /\ b \in Nat /\ b \notin 0 .. p
    BY <2>2
  <2>4. Serving!Around(b) = {b} \cup Serving!Around(p) /\ b \notin Serving!Around(p)
    BY <2>1, <2>3, AroundIs, AroundGoesUp
  <2>5. \A a \in Serving!Around(p) : Serving!Around(a) \subseteq Serving!Around(p)
    BY <2>3, AroundWhat
  <2>6. ASSUME NEW i \in D
        PROVE  i \in Handed(D, C, b) <=> dirs[i].in = b \/ (b \notin C /\ i \in Handed(D, C, p))
    <3>1. CASE dirs[i].in = b
      BY <2>4, <3>1 DEF Handed
    <3>2. CASE dirs[i].in # b /\ dirs[i].in \notin Serving!Around(p)
      BY <2>4, <3>2 DEF Handed
    <3>3. CASE dirs[i].in # b /\ dirs[i].in \in Serving!Around(p)
      <4>1. PICK A : A = Serving!Around(dirs[i].in)
        OBVIOUS
      <4>2. Serving!Around(b) \ A = {b} \cup (Serving!Around(p) \ A)
        BY <2>4, <2>5, <3>3, <4>1
      <4>3. i \in Handed(D, C, b) <=> \A c \in Serving!Around(b) \ A : c \notin C
        BY <2>4, <3>3, <4>1 DEF Handed
      <4>4. i \in Handed(D, C, p) <=> \A c \in Serving!Around(p) \ A : c \notin C
        BY <3>3, <4>1 DEF Handed
      <4>5. QED BY <3>3, <4>2, <4>3, <4>4
    <3>4. QED BY <3>1, <3>2, <3>3
  <2>7. \A i : i \in Handed(D, C, b) \/ i \in Handed(D, C, p) => i \in D
    BY DEF Handed
  <2>8. QED BY <2>1, <2>6, <2>7
<1>2. Handed(D, C, 0) = {i \in D : dirs[i].in = 0}
  BY AroundIs DEF Handed
<1>3. QED BY <1>1, <1>2

(***************************************************************************)
(* The rules for headers of a response.                                    *)
(***************************************************************************)
\* This module reads a configuration alike.
LEMMA HeadersRead ==
    /\ Headers!IsConfiguration = Serving!IsConfiguration /\ Headers!Blocks = Serving!Blocks
    /\ Headers!Servers = Serving!Servers /\ Headers!Main = Serving!Main
    /\ Headers!ServersAreApart = Serving!ServersAreApart
    /\ \A b, d : Headers!Here(b, d) = Serving!Here(b, d)
    /\ \A d : Headers!Anywhere(d) = Serving!Anywhere(d)
    /\ \A b : Headers!Context(b) = Serving!Context(b) /\ Headers!Around(b) = Serving!Around(b)
    /\ \A s : Headers!Http(s) = Serving!Http(s)
    /\ \A s, d : Headers!Effective(s, d) = Serving!Effective(s, d)
    /\ \A b, d : Headers!InForce(b, d) = Serving!InForce(b, d)
    /\ \A S : Headers!Max(S) = Serving!Max(S) /\ Headers!Min(S) = Serving!Min(S)
<1>1. /\ Headers!Blocks = Serving!Blocks
      /\ \A b, d : Headers!Here(b, d) = Serving!Here(b, d)
      /\ \A d : Headers!Anywhere(d) = Serving!Anywhere(d)
      /\ \A b : Headers!Context(b) = Serving!Context(b)
      /\ \A S : Headers!Max(S) = Serving!Max(S) /\ Headers!Min(S) = Serving!Min(S)
      /\ Headers!Main = Serving!Main
      /\ \A name : Headers!Named(name) = Serving!Named(name)
  BY DEF Headers!Blocks, Serving!Blocks, Headers!Here, Serving!Here, Headers!Anywhere, Serving!Anywhere,
         Headers!Context, Serving!Context, Headers!Max, Serving!Max, Headers!Main, Serving!Main,
         Headers!Min, Serving!Min, Headers!Named, Serving!Named
<1>2. Headers!Servers = Serving!Servers
  BY <1>1 DEF Headers!Servers, Serving!Servers
<1>3. \A b : Headers!Around(b) = Serving!Around(b)
  BY <1>1 DEF Headers!Around, Serving!Around
<1>4. \A s : Headers!Http(s) = Serving!Http(s)
  BY <1>1, <1>3 DEF Headers!Http, Serving!Http
<1>5. \A s, d : Headers!Effective(s, d) = Serving!Effective(s, d)
  <2>1. \A s, d : Headers!Inherited(s, d) = Serving!Inherited(s, d)
    BY <1>1, <1>4 DEF Headers!Inherited, Serving!Inherited
  <2>2. QED BY <1>1, <2>1 DEF Headers!Effective, Serving!Effective
<1>6. \A b, d : Headers!InForce(b, d) = Serving!InForce(b, d)
  BY <1>1, ZenonT(60) DEF Headers!InForce, Serving!InForce
<1>7. /\ Headers!IsConfiguration = Serving!IsConfiguration
      /\ Headers!ServersAreApart = Serving!ServersAreApart
  BY <1>1, <1>2, <1>4 DEF Headers!IsConfiguration, Serving!IsConfiguration,
                          Headers!ServersAreApart, Serving!ServersAreApart
<1>8. QED BY <1>1, <1>2, <1>3, <1>4, <1>5, <1>6, <1>7

\* What is checked reads as the rules say.
HeaderReports ==
    /\ findings["missing_content_security_policy"] = Headers!missing_content_security_policy
    /\ findings["content_security_policy_unsafe"] = Headers!content_security_policy_unsafe
    /\ findings["http3_alt_svc_review"] = Headers!http3_alt_svc_review
    /\ findings["missing_referrer_policy"] = Headers!missing_referrer_policy
    /\ findings["referrer_policy_unsafe"] = Headers!referrer_policy_unsafe
    /\ findings["missing_x_content_type_options"] = Headers!missing_x_content_type_options
    /\ findings["missing_x_frame_options"] = Headers!missing_x_frame_options

\* What the rules have to report does not depend on what was found.
LEMMA HeadersStay ==
    ASSUME UNCHANGED <<blocks, dirs>>
    PROVE  /\ Headers!HeaderConfiguration' = Headers!HeaderConfiguration
           /\ Headers!missing_content_security_policy' = Headers!missing_content_security_policy
           /\ Headers!content_security_policy_unsafe' = Headers!content_security_policy_unsafe
           /\ Headers!http3_alt_svc_review' = Headers!http3_alt_svc_review
           /\ Headers!missing_referrer_policy' = Headers!missing_referrer_policy
           /\ Headers!referrer_policy_unsafe' = Headers!referrer_policy_unsafe
           /\ Headers!missing_x_content_type_options' = Headers!missing_x_content_type_options
           /\ Headers!missing_x_frame_options' = Headers!missing_x_frame_options
<1>1. /\ Headers!Blocks' = Headers!Blocks
      /\ \A b, d : Headers!Here(b, d)' = Headers!Here(b, d)
      /\ \A d : Headers!Anywhere(d)' = Headers!Anywhere(d)
      /\ \A b : Headers!Context(b)' = Headers!Context(b)
      /\ \A name : Headers!Named(name)' = Headers!Named(name)
      /\ \A b, name : Headers!Children(b, name)' = Headers!Children(b, name)
      /\ UNCHANGED <<blocks, dirs>>
  BY DEF Headers!Blocks, Headers!Here, Headers!Anywhere, Headers!Context, Headers!Children, Headers!Named
<1>2. Headers!Servers' = Headers!Servers
  BY <1>1 DEF Headers!Servers
<1>3. \A b : Headers!Around(b)' = Headers!Around(b)
  BY <1>1 DEF Headers!Around
<1>4. \A s : Headers!ScopesOf(s)' = Headers!ScopesOf(s)
  <2>1. \A b : Headers!Inside(b)' = Headers!Inside(b)
    BY <1>1, <1>3 DEF Headers!Inside
  <2>2. QED BY <1>1, <2>1 DEF Headers!ScopesOf
<1>5. /\ \A s : Headers!Http(s)' = Headers!Http(s)
      /\ \A s, d : Headers!Effective(s, d)' = Headers!Effective(s, d)
  <2>1. \A s : Headers!Http(s)' = Headers!Http(s)
    BY <1>1, <1>3 DEF Headers!Http
  <2>2. \A s, d : Headers!Inherited(s, d)' = Headers!Inherited(s, d)
    BY <1>1, <2>1 DEF Headers!Inherited
  <2>3. QED BY <1>1, <2>1, <2>2 DEF Headers!Effective
<1>6. \A s : Headers!OnlyRedirects(s)' = Headers!OnlyRedirects(s)
  <2>1. \A b : Headers!Redirects(b)' = Headers!Redirects(b)
    BY <1>1 DEF Headers!Redirects, Headers!Has
  <2>2. \A b : Headers!Locations(b)' = Headers!Locations(b)
    BY <1>1 DEF Headers!Locations
  <2>3. \A b : Headers!SafeException(b)' = Headers!SafeException(b) /\ Headers!CatchAll(b)' = Headers!CatchAll(b)
    BY <1>1 DEF Headers!SafeException, Headers!CatchAll
  <2>4. QED BY <2>1, <2>2, <2>3 DEF Headers!OnlyRedirects
<1>7. /\ \A i : Headers!HeaderOf(i)' = Headers!HeaderOf(i) /\ Headers!Good(i)' = Headers!Good(i)
      /\ \A S : Headers!Csp(S)' = Headers!Csp(S) /\ Headers!Policies(S)' = Headers!Policies(S)
  <2>1. \A i : Headers!HeaderOf(i)' = Headers!HeaderOf(i) /\ Headers!Good(i)' = Headers!Good(i)
    BY <1>1 DEF Headers!HeaderOf, Headers!Good
  <2>2. \A S : Headers!Csp(S)' = Headers!Csp(S)
    BY <2>1 DEF Headers!Csp
  <2>3. QED BY <1>1, <2>1, <2>2 DEF Headers!Policies
<1>8. \A b : Headers!Headers(b)' = Headers!Headers(b)
  <2>1. \A b : Headers!InheritMode(b)' = Headers!InheritMode(b)
    BY <1>1, ZenonT(60) DEF Headers!InheritMode, Headers!Value
  <2>2. QED BY <1>1, <2>1 DEF Headers!Headers
<1>9. \A s, h : Headers!With(s, h)' = Headers!With(s, h)
  <2>1. \A s : Headers!ServerHeaders(s)' = Headers!ServerHeaders(s)
    BY <1>5 DEF Headers!ServerHeaders
  <2>2. QED BY <1>7, <2>1 DEF Headers!With
<1>10. Headers!HeaderConfiguration' = Headers!HeaderConfiguration
  <2>1. Headers!IsConfiguration' = Headers!IsConfiguration
    BY <1>1, <1>2, <1>5 DEF Headers!IsConfiguration
  <2>2. Headers!ServersAreApart' = Headers!ServersAreApart
    BY <1>1, <1>2 DEF Headers!ServersAreApart
  <2>3. QED BY <1>1, <2>1, <2>2 DEF Headers!HeaderConfiguration, Headers!Only
<1>11. Headers!missing_content_security_policy' = Headers!missing_content_security_policy
  BY <1>1, <1>2, <1>4, <1>6, <1>7, <1>8 DEF Headers!missing_content_security_policy
<1>12. Headers!content_security_policy_unsafe' = Headers!content_security_policy_unsafe
  BY <1>1, <1>2, <1>4, <1>7, <1>8 DEF Headers!content_security_policy_unsafe
<1>13. Headers!http3_alt_svc_review' = Headers!http3_alt_svc_review
  <2>1. /\ \A s : Headers!Quic(s)' = Headers!Quic(s)
        /\ \A s : Headers!Lacking(s)' = Headers!Lacking(s)
    BY <1>1, <1>4, <1>7, <1>8 DEF Headers!Quic, Headers!Lacking
  <2>2. QED BY <1>2, <2>1 DEF Headers!http3_alt_svc_review
<1>14. Headers!missing_referrer_policy' = Headers!missing_referrer_policy
  BY <1>2, <1>6, <1>9 DEF Headers!missing_referrer_policy, Headers!MissingHeader
<1>15. Headers!referrer_policy_unsafe' = Headers!referrer_policy_unsafe
  BY <1>1, <1>2, <1>7, <1>9 DEF Headers!referrer_policy_unsafe
<1>16. Headers!missing_x_content_type_options' = Headers!missing_x_content_type_options
  BY <1>2, <1>6, <1>7, <1>9 DEF Headers!missing_x_content_type_options
<1>17. Headers!missing_x_frame_options' = Headers!missing_x_frame_options
  BY <1>1, <1>2, <1>6, <1>7, <1>9 DEF Headers!missing_x_frame_options
<1>18. QED BY <1>10, <1>11, <1>12, <1>13, <1>14, <1>15, <1>16, <1>17

\* Which headers reach a block: its own, and those around it unless it cuts them off.
LEMMA SentIs ==
    ASSUME Serving!IsConfiguration
    PROVE  /\ \A b \in Serving!Blocks :
                 Headers!Sent(b) = Serving!Here(b, "add_header")
                                      \cup (IF Headers!CutsOff(b) THEN {} ELSE Headers!Sent(blocks[b].parent))
           /\ Headers!Sent(0) = Serving!Here(0, "add_header")
<1> DEFINE D == Serving!Anywhere("add_header")
           C == {c \in Serving!Blocks \cup {0} : Headers!CutsOff(c)}
<1>1. \A b \in Serving!Blocks \cup {0} : Headers!Sent(b) = Handed(D, C, b)
  <2> SUFFICES ASSUME NEW b \in Serving!Blocks \cup {0} PROVE Headers!Sent(b) = Handed(D, C, b)
    OBVIOUS
  <2>1. Serving!Around(b) \subseteq Serving!Blocks \cup {0}
    BY AroundWhat
  <2>2. QED BY <2>1, HeadersRead DEF Headers!Sent, Handed
<1>2. D \in SUBSET DOMAIN dirs /\ \A b : {i \in D : dirs[i].in = b} = Serving!Here(b, "add_header")
  BY DEF Serving!Anywhere, Serving!Here
<1>3. \A b \in Serving!Blocks : blocks[b].parent \in Serving!Blocks \cup {0} /\ (b \in C <=> Headers!CutsOff(b))
  <2>1. PICK n \in Nat : /\ Serving!Blocks = 1 .. n /\ Serving!Blocks \cup {Serving!Main} = 0 .. n
                         /\ \A b \in 1 .. n : blocks[b].parent \in 0 .. b - 1
    BY BlocksNest
  <2>2. QED BY <2>1 DEF Serving!Main
<1> HIDE DEF D, C
<1>4. /\ \A b \in Serving!Blocks :
             Handed(D, C, b) = {i \in D : dirs[i].in = b}
                                  \cup (IF b \in C THEN {} ELSE Handed(D, C, blocks[b].parent))
      /\ Handed(D, C, 0) = {i \in D : dirs[i].in = 0}
  BY <1>2, HandedIs
<1>5. ASSUME NEW b \in Serving!Blocks
      PROVE  Headers!Sent(b) = Serving!Here(b, "add_header")
                                  \cup (IF Headers!CutsOff(b) THEN {} ELSE Headers!Sent(blocks[b].parent))
  <2>1. Headers!Sent(b) = Handed(D, C, b) /\ Headers!Sent(blocks[b].parent) = Handed(D, C, blocks[b].parent)
    BY <1>1, <1>3
  <2>2. QED BY <1>2, <1>3, <1>4, <2>1
<1>6. QED BY <1>1, <1>2, <1>4, <1>5

\* The mode in force is what the resolver takes it to be.
LEMMA ModeIs ==
    ASSUME Serving!IsConfiguration, NEW b \in Serving!Blocks \cup {0}
    PROVE  Headers!InheritMode(b) = Headers!ModeInForce(b)
<1> DEFINE D == Serving!Blocks \cup {Serving!Main}
           own(c) == Serving!Here(c, "add_header_inherit")
           Body(f, c) == IF own(c) # {} THEN Headers!Value(own(c))
                         ELSE IF c = Serving!Main THEN "on" ELSE f[blocks[c].parent]
           f == [c \in D |-> Headers!ModeInForce(c)]
<1>1. PICK n \in Nat : /\ Serving!Blocks = 1 .. n /\ D = 0 .. n
                       /\ \A c \in 1 .. n : blocks[c].parent \in 0 .. c - 1
  BY BlocksNest
<1>2. \A c \in D : f[c] = Headers!ModeInForce(c)
  OBVIOUS
<1>3. \A c \in D : c # 0 => blocks[c].parent \in D
  BY <1>1
<1> HIDE DEF D
<1>4. \A c \in D : f[c] = Body(f, c)
  <2>1. Serving!InForce(0, "add_header_inherit") = own(0)
    BY InForceIs
  <2>2. \A c \in D : c # 0 => c \in Serving!Blocks
    BY <1>1
  <2>3. \A c \in D : c # 0 => Serving!InForce(c, "add_header_inherit") =
            IF own(c) # {} THEN own(c) ELSE Serving!InForce(blocks[c].parent, "add_header_inherit")
    BY <2>2, InForceIs
  <2>4. \A c : Headers!ModeInForce(c) = IF Serving!InForce(c, "add_header_inherit") = {} THEN "on"
                                         ELSE Headers!Value(Serving!InForce(c, "add_header_inherit"))
    BY HeadersRead DEF Headers!ModeInForce, Headers!Runs
  <2> HIDE DEF f, own
  <2>5. QED BY <1>2, <1>3, <2>1, <2>3, <2>4 DEF Serving!Main
<1>5. f = [c \in D |-> f[c]]
  OBVIOUS
<1> HIDE DEF Body, f, own
<1>6. f = [c \in D |-> Body(f, c)]
  BY <1>4, <1>5
<1> DEFINE up == CHOOSE u : u = [c \in D |-> Body(u, c)]
<1>7. up = [c \in D |-> Body(up, c)]
  BY <1>6
<1>8. \A c : Headers!InheritMode(c) = up[c]
  BY HeadersRead, ZenonT(60) DEF Headers!InheritMode, D, Body, own
<1> HIDE DEF up
<1>9. \A c \in D : up[c] = Body(up, c)
  BY <1>7
<1>10. \A c \in D : up[c] = f[c]
  <2> DEFINE G == {c \in D : up[c] = f[c]}
  <2>1. 0 \in G
    BY <1>1, <1>4, <1>9 DEF Body, Serving!Main
  <2>2. \A c \in Serving!Blocks : blocks[c].parent \in G => c \in G
    <3> SUFFICES ASSUME NEW c \in Serving!Blocks, blocks[c].parent \in G PROVE c \in G
      OBVIOUS
    <3>1. c \in D /\ up[blocks[c].parent] = f[blocks[c].parent]
      BY <1>1
    <3>2. QED BY <1>4, <1>9, <3>1 DEF Body
  <2>3. \A c \in D : c \in Serving!Blocks \cup {0}
    BY <1>1
  <2> HIDE DEF G
  <2>4. \A c \in D : c \in G
    BY <2>1, <2>2, <2>3, FromTheTop
  <2>5. QED BY <2>4 DEF G
<1>11. b \in D
  BY DEF D, Serving!Main
<1>12. QED BY <1>2, <1>8, <1>10, <1>11

\* It is one of three.
LEMMA ModesAre ==
    ASSUME Headers!HeaderConfiguration, NEW b \in Serving!Blocks \cup {0}
    PROVE  Headers!ModeInForce(b) \in {"on", "off", "merge"}
<1>1. Serving!IsConfiguration
  BY HeadersRead DEF Headers!HeaderConfiguration
<1>2. CASE Serving!InForce(b, "add_header_inherit") = {}
  BY <1>2, HeadersRead DEF Headers!ModeInForce
<1>3. CASE Serving!InForce(b, "add_header_inherit") # {}
  <2>1. PICK c : Serving!Here(c, "add_header_inherit") # {}
                 /\ Serving!InForce(b, "add_header_inherit") = Serving!Here(c, "add_header_inherit")
    BY <1>1, <1>3, InForceIsSomewhere
  <2>2. PICK i : i = Serving!Max(Serving!Here(c, "add_header_inherit"))
    OBVIOUS
  <2>3. Serving!Here(c, "add_header_inherit") \in SUBSET DOMAIN dirs
    BY DEF Serving!Here
  <2>4. i \in Serving!Here(c, "add_header_inherit")
    BY <1>1, <2>1, <2>2, <2>3, MaxIs
  <2>5. i \in Headers!Anywhere("add_header_inherit")
    BY <2>4, HeadersRead DEF Serving!Here, Serving!Anywhere
  <2>6. Headers!ModeInForce(b) = dirs[i].value
    BY <1>3, <2>1, <2>2, HeadersRead DEF Headers!ModeInForce, Headers!Runs, Headers!Value
  <2>7. QED BY <2>5, <2>6 DEF Headers!HeaderConfiguration
<1>4. QED BY <1>2, <1>3

\* What cuts off the headers around a block.
LEMMA WhatCutsOff ==
    \A c : Headers!CutsOff(c) <=> \/ Headers!ModeInForce(c) = "off"
                                  \/ Headers!ModeInForce(c) = "on" /\ Serving!Here(c, "add_header") # {}
<1>1. \A c : Headers!Here(c, "add_header") = Serving!Here(c, "add_header")
  BY HeadersRead
<1>2. QED BY <1>1 DEF Headers!CutsOff

\* The headers that the resolver finds in effect are those that reach the block.
LEMMA HeadersAreSent ==
    ASSUME Headers!HeaderConfiguration, NEW b \in Serving!Blocks \cup {0}
    PROVE  Headers!Headers(b) = Headers!Sent(b)
<1> DEFINE D == Serving!Blocks \cup {Serving!Main}
           own(c) == Serving!Here(c, "add_header")
           Body(f, c) == IF c = Serving!Main \/ Headers!InheritMode(c) = "off" THEN own(c)
                         ELSE IF Headers!InheritMode(c) = "merge" THEN own(c) \cup f[blocks[c].parent]
                         ELSE IF own(c) # {} THEN own(c) ELSE f[blocks[c].parent]
           f == [c \in D |-> Headers!Sent(c)]
<1>0. Serving!IsConfiguration
  BY HeadersRead DEF Headers!HeaderConfiguration
<1>1. PICK n \in Nat : /\ Serving!Blocks = 1 .. n /\ D = 0 .. n
                       /\ \A c \in 1 .. n : blocks[c].parent \in 0 .. c - 1
  BY <1>0, BlocksNest
<1>2. \A c \in D : f[c] = Headers!Sent(c)
  OBVIOUS
<1>3. \A c \in D : c # 0 => blocks[c].parent \in D /\ c \in Serving!Blocks
  BY <1>1
<1>4. \A c \in D : Headers!InheritMode(c) = Headers!ModeInForce(c)
                  /\ Headers!ModeInForce(c) \in {"on", "off", "merge"}
  BY <1>0, ModeIs, ModesAre DEF Serving!Main
<1> HIDE DEF D
<1>5. \A c \in D : f[c] = Body(f, c)
  <2> SUFFICES ASSUME NEW c \in D PROVE f[c] = Body(f, c)
    OBVIOUS
  <2>1. CASE c = 0
    <3>1. Headers!Sent(0) = own(0)
      BY <1>0, SentIs
    <3> HIDE DEF f, own
    <3>2. QED BY <1>2, <2>1, <3>1 DEF Serving!Main
  <2>2. CASE c # 0
    <3>1. Headers!Sent(c) = own(c) \cup (IF Headers!CutsOff(c) THEN {} ELSE Headers!Sent(blocks[c].parent))
      BY <1>0, <1>3, <2>2, SentIs
    <3>2. f[c] = Headers!Sent(c) /\ f[blocks[c].parent] = Headers!Sent(blocks[c].parent)
      BY <1>2, <1>3, <2>2
    <3>3. Headers!CutsOff(c) <=>
              (Headers!ModeInForce(c) = "off" \/ (Headers!ModeInForce(c) = "on" /\ own(c) # {}))
      BY WhatCutsOff
    <3> HIDE DEF f, own
    <3>4. PICK mode \in {"on", "off", "merge"} : mode = Headers!InheritMode(c) /\ mode = Headers!ModeInForce(c)
      BY <1>4
    <3>5. PICK above : above = f[blocks[c].parent]
      OBVIOUS
    <3>6. f[c] = own(c) \cup (IF mode = "off" \/ (mode = "on" /\ own(c) # {}) THEN {} ELSE above)
      BY <3>1, <3>2, <3>3, <3>4, <3>5
    <3>7. Body(f, c) = IF mode = "off" THEN own(c)
                       ELSE IF mode = "merge" THEN own(c) \cup above
                       ELSE IF own(c) # {} THEN own(c) ELSE above
      BY <2>2, <3>4, <3>5 DEF Serving!Main
    <3> HIDE DEF Body
    <3>8. QED BY <3>6, <3>7
  <2>3. QED BY <2>1, <2>2
<1>6. f = [c \in D |-> f[c]]
  OBVIOUS
<1> HIDE DEF Body, f, own
<1>7. f = [c \in D |-> Body(f, c)]
  BY <1>5, <1>6
<1> DEFINE up == CHOOSE u : u = [c \in D |-> Body(u, c)]
<1>8. up = [c \in D |-> Body(up, c)]
  BY <1>7
<1>9. \A c : Headers!Headers(c) = up[c]
  BY HeadersRead DEF Headers!Headers, D, Body, own
<1> HIDE DEF up
<1>10. \A c \in D : up[c] = Body(up, c)
  BY <1>8
<1>11. \A c \in D : up[c] = f[c]
  <2> DEFINE G == {c \in D : up[c] = f[c]}
  <2>1. 0 \in G
    <3>1. 0 \in D
      BY <1>1
    <3>2. Body(f, 0) = own(0) /\ Body(up, 0) = own(0)
      BY DEF Body, Serving!Main
    <3>3. QED BY <1>5, <1>10, <3>1, <3>2
  <2>2. \A c \in Serving!Blocks : blocks[c].parent \in G => c \in G
    <3> SUFFICES ASSUME NEW c \in Serving!Blocks, blocks[c].parent \in G PROVE c \in G
      OBVIOUS
    <3>1. c \in D /\ up[blocks[c].parent] = f[blocks[c].parent]
      BY <1>1
    <3>2. QED BY <1>5, <1>10, <3>1 DEF Body
  <2>3. \A c \in D : c \in Serving!Blocks \cup {0}
    BY <1>1
  <2> HIDE DEF G
  <2>4. \A c \in D : c \in G
    BY <1>0, <2>1, <2>2, <2>3, FromTheTop
  <2>5. QED BY <2>4 DEF G
<1>12. b \in D
  BY DEF D, Serving!Main
<1>13. QED BY <1>2, <1>9, <1>11, <1>12

\* The scopes of a server are blocks in it, or the server.
LEMMA ScopesAre ==
    ASSUME Headers!HeaderConfiguration, NEW s \in Headers!Servers
    PROVE  /\ s \in Headers!ScopesOf(s) /\ s \in Serving!Servers
           /\ \A b \in Headers!ScopesOf(s) :
                 /\ b \in Serving!Blocks /\ b \in Nat /\ s \in Serving!Around(b)
                 /\ Headers!Headers(b) = Headers!Sent(b)
<1>1. Serving!IsConfiguration /\ Serving!ServersAreApart /\ s \in Serving!Servers
  BY HeadersRead DEF Headers!HeaderConfiguration
<1>2. s \in Serving!Blocks /\ s \in Serving!Around(s) /\ blocks[s].name = "server"
  BY <1>1, ApartServer DEF Serving!Servers, Serving!Named
<1>3. PICK n \in Nat : Serving!Blocks = 1 .. n
  BY <1>1, BlocksNest
<1>4. \A b \in Headers!ScopesOf(s) : b \in Serving!Blocks /\ b \in Nat /\ s \in Serving!Around(b)
  BY <1>2, <1>3, HeadersRead DEF Headers!ScopesOf, Headers!Inside
<1>5. s \in Headers!ScopesOf(s)
  BY <1>2 DEF Headers!ScopesOf, Headers!ScopeNames
<1>6. QED BY <1>1, <1>4, <1>5, HeadersAreSent

\* A missing policy is reported, for the server that misses it.
LEMMA CspFollows ==
    ASSUME Headers!HeaderConfiguration, HeaderReports
    PROVE  Headers!CspIsEverywhere
<1> DEFINE lacks(t) == {b \in Headers!ScopesOf(t) : Headers!Csp(Headers!Headers(b)) = {}}
<1> SUFFICES ASSUME NEW s \in Headers!Servers
             PROVE  (\E b \in Headers!ScopesOf(s) :
                        Headers!At(b) \in findings["missing_content_security_policy"])
                        <=> /\ ~Headers!OnlyRedirects(s)
                            /\ \E b \in Headers!ScopesOf(s) : Headers!Csp(Headers!Sent(b)) = {}
  BY DEF Headers!CspIsEverywhere
<1>1. \A t \in Headers!Servers : lacks(t) # {} => Headers!Min(lacks(t)) \in lacks(t)
  <2> SUFFICES ASSUME NEW t \in Headers!Servers, lacks(t) # {} PROVE Headers!Min(lacks(t)) \in lacks(t)
    OBVIOUS
  <2>1. lacks(t) \in SUBSET Nat
    BY ScopesAre
  <2> HIDE DEF lacks
  <2>2. QED BY <2>1, HeadersRead, MinIs
<1>2. \A b \in Headers!ScopesOf(s) : b \in lacks(s) <=> Headers!Csp(Headers!Sent(b)) = {}
  BY ScopesAre
<1>3. \A b : Headers!At(b) \in findings["missing_content_security_policy"] <=>
          \E t \in Headers!Servers :
             ~Headers!OnlyRedirects(t) /\ lacks(t) # {} /\ b = Headers!Min(lacks(t))
  BY DEF HeaderReports, Headers!missing_content_security_policy, Headers!At
<1>4. ASSUME NEW b \in Headers!ScopesOf(s), Headers!At(b) \in findings["missing_content_security_policy"]
      PROVE  ~Headers!OnlyRedirects(s) /\ b \in lacks(s)
  <2>1. PICK t \in Headers!Servers : ~Headers!OnlyRedirects(t) /\ lacks(t) # {} /\ b = Headers!Min(lacks(t))
    BY <1>3, <1>4
  <2>2. b \in lacks(t)
    BY <1>1, <2>1
  <2>3. b \in Headers!ScopesOf(t)
    BY <2>2
  <2>4. s = t
    <3>1. Serving!IsConfiguration /\ Serving!ServersAreApart
      BY HeadersRead DEF Headers!HeaderConfiguration
    <3>2. b \in Serving!Blocks \cup {0} /\ s \in Serving!Around(b) /\ t \in Serving!Around(b)
      BY <2>3, ScopesAre
    <3>3. s \in Serving!Servers /\ t \in Serving!Servers
      BY ScopesAre
    <3>4. QED BY <3>1, <3>2, <3>3, OneServer
  <2>5. QED BY <2>1, <2>2, <2>4
<1>5. \A b : b \in lacks(s) => b \in Headers!ScopesOf(s)
  OBVIOUS
<1> HIDE DEF lacks
<1>6. QED BY <1>1, <1>2, <1>3, <1>4, <1>5

\* What of a policy lets inline scripts run is judged.
LEMMA UnsafeFollows ==
    ASSUME Headers!HeaderConfiguration, HeaderReports
    PROVE  Headers!UnsafeCspIsReported
<1> SUFFICES ASSUME NEW s \in Headers!Servers, NEW b \in Headers!ScopesOf(s),
                    Headers!Csp(Headers!Sent(b)) # {},
                    ~Headers!PassesForSafe(Headers!Policies(Headers!Sent(b))),
                    \A p \in Headers!Policies(Headers!Sent(b)) : Headers!AllowsInline(p)
             PROVE  Headers!At(b) \in findings["content_security_policy_unsafe"]
  BY DEF Headers!UnsafeCspIsReported
<1>1. Headers!Headers(b) = Headers!Sent(b)
  BY ScopesAre
<1>2. PICK P : P = Headers!Policies(Headers!Sent(b))
  OBVIOUS
<1>3. ~Headers!BaselineSafe(P)
  <2>1. \A p \in P : Headers!ScriptDirective(p) \in {"inline", "none"}
    BY <1>2 DEF Headers!AllowsInline
  <2>2. CASE \A p \in P : Headers!ScriptDirective(p) = "inline"
    BY <2>2 DEF Headers!BaselineSafe, Headers!Unsafe
  <2>3. CASE \E p \in P : Headers!ScriptDirective(p) = "none"
    <3>1. \A p \in P : Headers!DefaultSrc(p) # "self"
      BY <1>2, <2>3 DEF Headers!PassesForSafe
    <3>2. \E p \in P : Headers!Script(p) = "none"
      BY <2>3 DEF Headers!ScriptDirective
    <3>3. QED BY <3>1, <3>2 DEF Headers!BaselineSafe
  <2>4. QED BY <2>1, <2>2, <2>3
<1>4. QED BY <1>1, <1>2, <1>3 DEF HeaderReports, Headers!content_security_policy_unsafe

\* The older rules judge what the server sends.
LEMMA ServerHeadersFollow ==
    ASSUME Headers!HeaderConfiguration, HeaderReports
    PROVE  Headers!ServerHeadersAreSent
<1> SUFFICES ASSUME Headers!Anywhere("add_header_inherit") = {},
                    NEW s \in Headers!Servers, ~Headers!OnlyRedirects(s), Headers!Http(s) # {}
             PROVE  LET sent(header) == {i \in Headers!Sent(s) : Headers!HeaderOf(i) = header}
                    IN /\ Headers!At(s) \in findings["missing_x_frame_options"] <=>
                            /\ \A i \in sent("x-frame-options") : ~Headers!Good(i)
                            /\ \A p \in Headers!Policies(Headers!Sent(s)) : ~Headers!FrameAncestors(p)
                       /\ Headers!At(s) \in findings["missing_referrer_policy"] <=> sent("referrer-policy") = {}
                       /\ ~Headers!Reported(s, {"missing_referrer_policy", "referrer_policy_unsafe"}) =>
                            \A i \in sent("referrer-policy") : Headers!Good(i) /\ dirs[i].value.always
                       /\ Headers!At(s) \in findings["missing_x_content_type_options"] <=>
                            \A i \in sent("x-content-type-options") : ~Headers!Good(i)
  BY DEF Headers!ServerHeadersAreSent
<1>1. Serving!IsConfiguration /\ s \in Serving!Servers /\ Serving!Http(s) # {}
  BY HeadersRead DEF Headers!HeaderConfiguration
<1>2. Serving!Here(0, "add_header") = {}
  BY HeadersRead DEF Headers!HeaderConfiguration, Headers!Only, Serving!Here, Serving!Anywhere,
                     Serving!Context, Serving!Main
<1>3. Serving!Effective(s, "add_header") = Serving!InForce(s, "add_header")
  BY <1>1, <1>2, EffectiveIsInForce
<1>4. \A b \in Serving!Blocks \cup {0} : Headers!ModeInForce(b) = "on"
  <2>1. \A c : Serving!Here(c, "add_header_inherit") = {}
    BY HeadersRead DEF Serving!Here, Serving!Anywhere
  <2>2. \A b \in Serving!Blocks \cup {0} : Serving!InForce(b, "add_header_inherit") = {}
    BY <1>1, <2>1, InForceIsSomewhere
  <2>3. QED BY <2>2, HeadersRead DEF Headers!ModeInForce
<1>5. \A b \in Serving!Blocks \cup {0} : Headers!Sent(b) = Serving!InForce(b, "add_header")
  <2> DEFINE G == {b \in Serving!Blocks \cup {0} : Headers!Sent(b) = Serving!InForce(b, "add_header")}
  <2>1. 0 \in G
    BY <1>1, InForceIs, SentIs
  <2>2. \A c \in Serving!Blocks : blocks[c].parent \in G => c \in G
    <3> SUFFICES ASSUME NEW c \in Serving!Blocks, blocks[c].parent \in G
                 PROVE  Headers!Sent(c) = Serving!InForce(c, "add_header")
      OBVIOUS
    <3>1. Headers!Sent(c) = Serving!Here(c, "add_header")
                               \cup (IF Headers!CutsOff(c) THEN {} ELSE Headers!Sent(blocks[c].parent))
      BY <1>1, SentIs
    <3>2. Serving!InForce(c, "add_header") =
              IF Serving!Here(c, "add_header") # {} THEN Serving!Here(c, "add_header")
              ELSE Serving!InForce(blocks[c].parent, "add_header")
      BY <1>1, InForceIs
    <3>3. Headers!CutsOff(c) <=> Serving!Here(c, "add_header") # {}
      BY <1>4, HeadersRead DEF Headers!CutsOff
    <3>4. QED BY <3>1, <3>2, <3>3
  <2> HIDE DEF G
  <2>3. \A b \in Serving!Blocks \cup {0} : b \in G
    BY <1>1, <2>1, <2>2, FromTheTop
  <2>4. QED BY <2>3 DEF G
<1>6. Headers!ServerHeaders(s) = Headers!Sent(s) /\ Headers!Sent(s) = Headers!InForce(s, "add_header")
  <2>1. s \in Serving!Blocks
    BY <1>1 DEF Serving!Servers, Serving!Named
  <2>2. QED BY <1>3, <1>5, <2>1, HeadersRead DEF Headers!ServerHeaders
<1>7. \A header : Headers!With(s, header) = {i \in Headers!Sent(s) : Headers!HeaderOf(i) = header}
  BY <1>6 DEF Headers!With
<1>8. Headers!At(s) \in findings["missing_x_frame_options"] <=>
          /\ \A i \in Headers!With(s, "x-frame-options") : ~Headers!Good(i)
          /\ \A i \in Headers!With(s, "csp") : ~Headers!FrameAncestors(dirs[i].value.value)
  BY DEF HeaderReports, Headers!missing_x_frame_options, Headers!At
<1>9. (\A i \in Headers!With(s, "csp") : ~Headers!FrameAncestors(dirs[i].value.value))
          <=> \A p \in Headers!Policies(Headers!Sent(s)) : ~Headers!FrameAncestors(p)
  BY <1>7 DEF Headers!Policies, Headers!Csp
<1>10. Headers!At(s) \in findings["missing_referrer_policy"] <=> Headers!With(s, "referrer-policy") = {}
  BY DEF HeaderReports, Headers!missing_referrer_policy, Headers!MissingHeader, Headers!At
<1>11. Headers!At(s) \in findings["missing_x_content_type_options"] <=>
           \A i \in Headers!With(s, "x-content-type-options") : ~Headers!Good(i)
  BY DEF HeaderReports, Headers!missing_x_content_type_options, Headers!At
<1>12. ASSUME NEW i \in Headers!With(s, "referrer-policy"), ~(Headers!Good(i) /\ dirs[i].value.always)
       PROVE  Headers!Reported(s, {"missing_referrer_policy", "referrer_policy_unsafe"})
  <2>1. Headers!On(i) \in findings["referrer_policy_unsafe"]
    BY <1>12 DEF HeaderReports, Headers!referrer_policy_unsafe
  <2>2. i \in Headers!Sent(s)
    BY <1>7
  <2>3. i \in DOMAIN dirs /\ dirs[i].name = "add_header"
    BY <2>2 DEF Headers!Sent, Headers!Anywhere
  <2>4. i \in Headers!InForce(s, dirs[i].name)
    BY <1>6, <2>2, <2>3
  <2>5. QED BY <2>1, <2>3, <2>4 DEF Headers!Reported
<1>13. QED BY <1>7, <1>8, <1>9, <1>10, <1>11, <1>12

\* The review of HTTP/3 is exact.
LEMMA AltSvcFollows ==
    ASSUME Headers!HeaderConfiguration, HeaderReports
    PROVE  Headers!AltSvcIsTold
<1> SUFFICES ASSUME NEW g \in findings["http3_alt_svc_review"]
             PROVE  g[2] = {b \in Headers!ScopesOf(dirs[g[1][2]].in) :
                               \A i \in Headers!Sent(b) : Headers!HeaderOf(i) # "alt-svc"}
  BY DEF Headers!AltSvcIsTold
<1>1. PICK s \in Headers!Servers :
          Headers!Quic(s) # {} /\ g = <<Headers!On(Headers!Min(Headers!Quic(s))), Headers!Lacking(s)>>
  BY DEF HeaderReports, Headers!http3_alt_svc_review
<1>2. Headers!Min(Headers!Quic(s)) \in Headers!Quic(s)
  <2>1. PICK n \in Nat : DOMAIN dirs = 1 .. n
    BY HeadersRead DEF Headers!HeaderConfiguration, Serving!IsConfiguration
  <2>2. PICK Q : Q = Headers!Quic(s)
    OBVIOUS
  <2>3. \A i \in Q : i \in DOMAIN dirs
    BY <2>2 DEF Headers!Quic, Headers!Here
  <2>4. Q \in SUBSET Nat /\ Q # {}
    BY <1>1, <2>1, <2>2, <2>3
  <2>5. Serving!Min(Q) \in Q
    BY <2>4, MinIs
  <2>6. QED BY <2>2, <2>5, HeadersRead
<1>3. dirs[g[1][2]].in = s /\ g[2] = Headers!Lacking(s)
  BY <1>1, <1>2 DEF Headers!On, Headers!Quic, Headers!Here
<1>4. Headers!Lacking(s) = {b \in Headers!ScopesOf(s) :
                               \A i \in Headers!Sent(b) : Headers!HeaderOf(i) # "alt-svc"}
  BY ScopesAre DEF Headers!Lacking
<1>5. QED BY <1>3, <1>4

\* In any configuration the rules for headers judge what each scope of a server sends, by way
\* of whatever is inherited, merged or cut off: a missing policy, one that lets inline scripts
\* run, the headers of a server and where HTTP/3 is announced.
THEOREM NginxHeaderRulesAreSound ==
    Headers!HeaderSpec =>
        [](/\ Headers!CspIsEverywhere /\ Headers!UnsafeCspIsReported
           /\ Headers!ServerHeadersAreSent /\ Headers!AltSvcIsTold)
<1> DEFINE IInv == Headers!HeaderConfiguration /\ (Headers!Checked => HeaderReports)
<1>1. Headers!HeaderConfiguration /\ findings = Headers!Unchecked => IInv
  BY DEF Headers!Checked
<1>2. IInv /\ [Headers!HeaderCheck]_(Headers!vars) => IInv'
  <2> SUFFICES ASSUME IInv, [Headers!HeaderCheck]_(Headers!vars) PROVE IInv'
    OBVIOUS
  <2>1. UNCHANGED <<blocks, dirs>>
    BY DEF Headers!HeaderCheck, Headers!vars
  <2>2. Headers!HeaderConfiguration'
    BY <2>1, HeadersStay
  <2>3. CASE Headers!HeaderCheck
    <3>1. HeaderReports'
      BY <2>1, <2>3, HeadersStay DEF HeaderReports, Headers!HeaderCheck
    <3>2. QED BY <2>2, <3>1
  <2>4. CASE UNCHANGED findings
    <3>1. Headers!Checked' = Headers!Checked
      BY <2>4 DEF Headers!Checked, Headers!Unchecked
    <3>2. HeaderReports => HeaderReports'
      BY <2>1, <2>4, HeadersStay DEF HeaderReports
    <3>3. QED BY <2>2, <3>1, <3>2
  <2>5. QED BY <2>3, <2>4 DEF Headers!vars
<1>3. IInv => /\ Headers!CspIsEverywhere /\ Headers!UnsafeCspIsReported
              /\ Headers!ServerHeadersAreSent /\ Headers!AltSvcIsTold
  <2>1. CASE ~Headers!Checked
    BY <2>1 DEF Headers!CspIsEverywhere, Headers!UnsafeCspIsReported,
                Headers!ServerHeadersAreSent, Headers!AltSvcIsTold
  <2>2. CASE Headers!Checked
    BY <2>2, CspFollows, UnsafeFollows, ServerHeadersFollow, AltSvcFollows
  <2>3. QED BY <2>1, <2>2
<1>4. QED BY <1>1, <1>2, <1>3, PTL DEF Headers!HeaderSpec

(***************************************************************************)
(* The rule for what an upstream is told of the client.                    *)
(***************************************************************************)
\* The headers passed on are those in force.
LEMMA PassedHeadersAre ==
    ASSUME Headers!UpstreamConfiguration, NEW p \in Headers!Protocols, NEW b \in Serving!Blocks
    PROVE  Headers!PassedHeaders(b, p) = Serving!InForce(b, Headers!HeaderDirective(p))
<1>1. PICK d : d = Headers!HeaderDirective(p)
  OBVIOUS
<1> DEFINE D == Serving!Blocks
           Body(f, c) == IF Serving!Here(c, d) # {} \/ blocks[c].parent = Serving!Main THEN Serving!Here(c, d)
                         ELSE f[blocks[c].parent]
           f == [c \in D |-> Serving!InForce(c, d)]
<1>2. Serving!IsConfiguration /\ Serving!Here(0, d) = {}
  BY <1>1, HeadersRead DEF Headers!UpstreamConfiguration, Serving!Main
<1>3. PICK n \in Nat : /\ Serving!Blocks = 1 .. n /\ Serving!Blocks \cup {Serving!Main} = 0 .. n
                       /\ \A c \in 1 .. n : blocks[c].parent \in 0 .. c - 1
  BY <1>2, BlocksNest
<1>4. \A c \in D : f[c] = Serving!InForce(c, d)
  OBVIOUS
<1>5. \A c \in D : blocks[c].parent # Serving!Main => blocks[c].parent \in D
  BY <1>3 DEF Serving!Main
<1>6. Serving!InForce(0, d) = {}
  BY <1>2, InForceIs
<1>7. \A c \in D : Serving!InForce(c, d) = IF Serving!Here(c, d) # {} THEN Serving!Here(c, d)
                                            ELSE Serving!InForce(blocks[c].parent, d)
  BY <1>2, InForceIs
<1>8. \A c \in D : f[c] = Body(f, c)
  <2> HIDE DEF f
  <2>1. QED BY <1>4, <1>5, <1>6, <1>7 DEF Serving!Main
<1>9. f = [c \in D |-> f[c]]
  OBVIOUS
<1> HIDE DEF Body, f, D
<1>10. f = [c \in D |-> Body(f, c)]
  BY <1>8, <1>9
<1> DEFINE up == CHOOSE u : u = [c \in D |-> Body(u, c)]
<1>11. up = [c \in D |-> Body(up, c)]
  BY <1>10
<1>12. Headers!PassedHeaders(b, p) = up[b]
  BY <1>1, HeadersRead DEF Headers!PassedHeaders, D, Body
<1> HIDE DEF up
<1>13. \A c \in D : up[c] = Body(up, c)
  BY <1>11
<1>14. \A c \in D : up[c] = f[c]
  <2> DEFINE G == {c \in D : up[c] = f[c]} \cup {0}
  <2>1. \A c \in Serving!Blocks : blocks[c].parent \in G => c \in G
    <3> SUFFICES ASSUME NEW c \in Serving!Blocks, blocks[c].parent \in G PROVE c \in G
      OBVIOUS
    <3>1. c \in D
      BY DEF D
    <3>2. CASE blocks[c].parent = 0
      <4>1. Body(up, c) = Serving!Here(c, d) /\ Body(f, c) = Serving!Here(c, d)
        BY <3>2 DEF Body, Serving!Main
      <4>2. QED BY <1>8, <1>13, <3>1, <4>1
    <3>3. CASE blocks[c].parent # 0
      <4>1. up[blocks[c].parent] = f[blocks[c].parent]
        BY <3>3
      <4>2. Body(up, c) = Body(f, c)
        BY <4>1 DEF Body
      <4>3. QED BY <1>8, <1>13, <3>1, <4>2
    <3>4. QED BY <3>2, <3>3
  <2>2. 0 \in G /\ \A c \in D : c \in Serving!Blocks \cup {0} /\ c # 0
    BY <1>3 DEF D
  <2> HIDE DEF G
  <2>3. \A c \in D : c \in G
    BY <1>2, <2>1, <2>2, FromTheTop
  <2>4. QED BY <2>2, <2>3 DEF G
<1>15. b \in D
  BY DEF D
<1>16. QED BY <1>1, <1>4, <1>12, <1>14, <1>15

\* Who is not reported tells who asked.
LEMMA SourceFollows ==
    ASSUME Headers!UpstreamConfiguration,
           findings["proxy_missing_source_ip_headers"] = Headers!proxy_missing_source_ip_headers
    PROVE  Headers!SourceIsPassedOn
<1> SUFFICES ASSUME NEW b \in Headers!Blocks, NEW p \in Headers!Protocols,
                    Headers!Here(b, Headers!PassOf(p)) # {},
                    <<Headers!At(b), p>> \notin findings["proxy_missing_source_ip_headers"],
                    NEW header \in Headers!Required(p)
             PROVE  \E i \in Headers!InForce(b, Headers!HeaderDirective(p)) :
                       Headers!Target(i) = header /\ Headers!Uses(i) = Headers!Legal(header)
  BY DEF Headers!SourceIsPassedOn
<1>1. PICK d, above : d = Headers!HeaderDirective(p) /\ above = Serving!InForce(b, d)
  OBVIOUS
<1>2. Serving!IsConfiguration /\ b \in Serving!Blocks
  BY HeadersRead DEF Headers!UpstreamConfiguration
<1>3. Headers!HasRequired(b, p)
  <2>1. <<b, p>> \in Headers!Blocks \X Headers!Protocols
    OBVIOUS
  <2>2. QED BY <2>1 DEF Headers!proxy_missing_source_ip_headers
<1>4. Headers!PassedHeaders(b, p) = above
  BY <1>1, <1>2, PassedHeadersAre
<1> DEFINE set == {i \in above : Headers!Target(i) = header}
<1>5. set # {} /\ Headers!Uses(Headers!Max(set)) = Headers!Legal(header)
  BY <1>3, <1>4 DEF Headers!HasRequired
<1>6. set \in SUBSET DOMAIN dirs
  <2>1. above = {} \/ \E c \in Serving!Blocks \cup {0} : above = Serving!Here(c, d)
    BY <1>1, <1>2, InForceIsSomewhere
  <2>2. QED BY <2>1 DEF Serving!Here
<1>7. Serving!Max(set) \in set
  <2> HIDE DEF set
  <2>1. QED BY <1>2, <1>5, <1>6, MaxIs
<1>8. Headers!Max(set) = Serving!Max(set) /\ Headers!InForce(b, d) = above
  BY <1>1, HeadersRead
<1>9. QED BY <1>1, <1>5, <1>7, <1>8

\* What an upstream is told does not depend on what was found.
LEMMA UpstreamStays ==
    ASSUME UNCHANGED <<blocks, dirs>>
    PROVE  /\ Headers!UpstreamConfiguration' = Headers!UpstreamConfiguration
           /\ Headers!proxy_missing_source_ip_headers' = Headers!proxy_missing_source_ip_headers
<1>1. /\ Headers!Blocks' = Headers!Blocks /\ UNCHANGED <<blocks, dirs>>
      /\ \A b, d : Headers!Here(b, d)' = Headers!Here(b, d)
      /\ Headers!Servers' = Headers!Servers
      /\ \A name : Headers!Named(name)' = Headers!Named(name)
      /\ \A b : Headers!Context(b)' = Headers!Context(b)
  BY DEF Headers!Blocks, Headers!Here, Headers!Servers, Headers!Named, Headers!Context
<1>2. \A s : Headers!Http(s)' = Headers!Http(s)
  <2>1. \A b : Headers!Around(b)' = Headers!Around(b)
    BY <1>1 DEF Headers!Around
  <2>2. QED BY <1>1, <2>1 DEF Headers!Http
<1>3. Headers!UpstreamConfiguration' = Headers!UpstreamConfiguration
  <2>1. Headers!IsConfiguration' = Headers!IsConfiguration
    BY <1>1, <1>2 DEF Headers!IsConfiguration
  <2>2. QED BY <1>1, <2>1 DEF Headers!UpstreamConfiguration
<1>4. \A b, p : Headers!HasRequired(b, p)' = Headers!HasRequired(b, p)
  <2>1. \A b, p : Headers!PassedHeaders(b, p)' = Headers!PassedHeaders(b, p)
    BY <1>1 DEF Headers!PassedHeaders, Headers!HeaderDirective, Headers!Main, Headers!Here, Headers!Blocks
  <2>2. \A i : Headers!Target(i)' = Headers!Target(i) /\ Headers!Uses(i)' = Headers!Uses(i)
    BY <1>1 DEF Headers!Target, Headers!Uses
  <2>3. QED BY <2>1, <2>2 DEF Headers!HasRequired
<1>5. QED BY <1>1, <1>3, <1>4 DEF Headers!proxy_missing_source_ip_headers

\* In any configuration, a block that passes requests on without being reported tells the
\* upstream who asked, by headers of its own or those it inherits.
THEOREM NginxUpstreamsAreTold == Headers!UpstreamSpec => []Headers!SourceIsPassedOn
<1> DEFINE rule == Headers!proxy_missing_source_ip_headers
           IInv == /\ Headers!UpstreamConfiguration
                   /\ Headers!Checked => findings["proxy_missing_source_ip_headers"] = rule
<1>1. Headers!UpstreamConfiguration /\ findings = Headers!Unchecked => IInv
  BY DEF Headers!Checked
<1>2. IInv /\ [Headers!TaintCheck]_(Headers!vars) => IInv'
  <2> SUFFICES ASSUME IInv, [Headers!TaintCheck]_(Headers!vars) PROVE IInv'
    OBVIOUS
  <2>1. UNCHANGED <<blocks, dirs>>
    BY DEF Headers!TaintCheck, Headers!vars
  <2>2. Headers!UpstreamConfiguration' /\ rule' = rule
    BY <2>1, UpstreamStays
  <2>3. CASE Headers!TaintCheck
    BY <2>2, <2>3 DEF Headers!TaintCheck
  <2>4. CASE UNCHANGED findings
    BY <2>2, <2>4 DEF Headers!Checked, Headers!Unchecked
  <2>5. QED BY <2>3, <2>4 DEF Headers!vars
<1>3. IInv => Headers!SourceIsPassedOn
  <2>1. CASE ~Headers!Checked
    BY <2>1 DEF Headers!SourceIsPassedOn
  <2>2. CASE Headers!Checked
    BY <2>2, SourceFollows
  <2>3. QED BY <2>1, <2>2
<1>4. QED BY <1>1, <1>2, <1>3, PTL DEF Headers!UpstreamSpec

(***************************************************************************)
(* The rules for who may ask for what.                                     *)
(***************************************************************************)
\* This module reads a configuration alike.
LEMMA AdmissionRead ==
    /\ Admission!IsConfiguration = Serving!IsConfiguration /\ Admission!Blocks = Serving!Blocks
    /\ Admission!Servers = Serving!Servers /\ Admission!Main = Serving!Main
    /\ \A b, d : Admission!Here(b, d) = Serving!Here(b, d)
    /\ \A d : Admission!Anywhere(d) = Serving!Anywhere(d)
    /\ \A b : Admission!Around(b) = Serving!Around(b)
    /\ \A b, d : Admission!InForce(b, d) = Serving!InForce(b, d)
    /\ \A b, d : Admission!Runs(b, d) = Serving!Runs(b, d)
    /\ \A S : /\ Admission!Max(S) = Serving!Max(S) /\ Admission!Min(S) = Serving!Min(S)
              /\ Admission!Value(S) = Serving!Value(S)
<1>1. /\ Admission!Blocks = Serving!Blocks
      /\ \A b, d : Admission!Here(b, d) = Serving!Here(b, d)
      /\ \A d : Admission!Anywhere(d) = Serving!Anywhere(d)
      /\ \A b : Admission!Context(b) = Serving!Context(b)
      /\ \A S : Admission!Max(S) = Serving!Max(S) /\ Admission!Min(S) = Serving!Min(S)
      /\ Admission!Main = Serving!Main
      /\ \A name : Admission!Named(name) = Serving!Named(name)
  BY DEF Admission!Blocks, Serving!Blocks, Admission!Here, Serving!Here, Admission!Anywhere, Serving!Anywhere,
         Admission!Context, Serving!Context, Admission!Max, Serving!Max, Admission!Main, Serving!Main,
         Admission!Min, Serving!Min, Admission!Named, Serving!Named
<1>2. Admission!Servers = Serving!Servers
  BY <1>1 DEF Admission!Servers, Serving!Servers
<1>3. \A b : Admission!Around(b) = Serving!Around(b)
  BY <1>1 DEF Admission!Around, Serving!Around
<1>4. \A s : Admission!Http(s) = Serving!Http(s)
  BY <1>1, <1>3 DEF Admission!Http, Serving!Http
<1>5. \A S : Admission!Value(S) = Serving!Value(S)
  BY <1>1 DEF Admission!Value, Serving!Value
<1>6. \A b, d : Admission!InForce(b, d) = Serving!InForce(b, d)
  BY <1>1, ZenonT(60) DEF Admission!InForce, Serving!InForce
<1>7. \A b, d : Admission!Runs(b, d) = Serving!Runs(b, d)
  BY <1>5, <1>6 DEF Admission!Runs, Serving!Runs
<1>8. Admission!IsConfiguration = Serving!IsConfiguration
  BY <1>1, <1>2, <1>4 DEF Admission!IsConfiguration, Serving!IsConfiguration
<1>9. QED BY <1>1, <1>2, <1>3, <1>5, <1>6, <1>7, <1>8

\* What is checked reads as the rules say.
AdmissionReports ==
    /\ findings["missing_access_restrictions_on_sensitive_locations"]
          = Admission!missing_access_restrictions_on_sensitive_locations
    /\ findings["sensitive_location_missing_ip_filter"] = Admission!sensitive_location_missing_ip_filter
    /\ findings["sitewide_http_method_policy_missing"] = Admission!sitewide_http_method_policy_missing

\* The directives of some names, and the blocks that have any.
OfNames(kinds) == {i \in DOMAIN dirs : dirs[i].name \in kinds}
WithAny(kinds) == {c \in Serving!Blocks \cup {0} : \E i \in OfNames(kinds) : dirs[i].in = c}

\* The directives of some names in the nearest block that has any are those handed to a block,
\* when such blocks cut off what is around them.
LEMMA NearestHanded ==
    ASSUME Serving!IsConfiguration, NEW kinds, \A i \in OfNames(kinds) : dirs[i].in # 0,
           NEW b \in Serving!Blocks
    PROVE  Admission!NearestOf(b, kinds) = Handed(OfNames(kinds), WithAny(kinds), b)
<1> DEFINE D == Serving!Blocks
           own(c) == UNION {Serving!Here(c, d) : d \in kinds}
           Body(f, c) == IF own(c) # {} \/ blocks[c].parent = Serving!Main THEN own(c)
                         ELSE f[blocks[c].parent]
           f == [c \in D |-> Handed(OfNames(kinds), WithAny(kinds), c)]
<1>1. PICK n \in Nat : /\ Serving!Blocks = 1 .. n /\ Serving!Blocks \cup {Serving!Main} = 0 .. n
                       /\ \A c \in 1 .. n : blocks[c].parent \in 0 .. c - 1
  BY BlocksNest
<1>2. \A c \in D : f[c] = Handed(OfNames(kinds), WithAny(kinds), c)
  OBVIOUS
<1>3. \A c \in D : blocks[c].parent # Serving!Main => blocks[c].parent \in D
  BY <1>1 DEF Serving!Main
<1>4. \A c \in D : /\ own(c) = {i \in OfNames(kinds) : dirs[i].in = c}
                   /\ c \in WithAny(kinds) <=> own(c) # {}
  BY DEF OfNames, WithAny, Serving!Here
<1>5. /\ \A c \in D : Handed(OfNames(kinds), WithAny(kinds), c) =
               {i \in OfNames(kinds) : dirs[i].in = c}
                  \cup (IF c \in WithAny(kinds) THEN {}
                        ELSE Handed(OfNames(kinds), WithAny(kinds), blocks[c].parent))
      /\ Handed(OfNames(kinds), WithAny(kinds), 0) = {}
  <2>1. PICK O, W : O = OfNames(kinds) /\ W = WithAny(kinds)
    OBVIOUS
  <2>2. O \in SUBSET DOMAIN dirs
    BY <2>1 DEF OfNames
  <2>3. /\ \A c \in Serving!Blocks :
                 Handed(O, W, c) = {i \in O : dirs[i].in = c}
                                      \cup (IF c \in W THEN {} ELSE Handed(O, W, blocks[c].parent))
        /\ Handed(O, W, 0) = {i \in O : dirs[i].in = 0}
    BY <2>2, HandedIs
  <2>4. QED BY <2>1, <2>3
<1> HIDE DEF D, own, f
<1>6. \A c \in D : f[c] = Body(f, c)
  <2> SUFFICES ASSUME NEW c \in D PROVE f[c] = Body(f, c)
    OBVIOUS
  <2>1. PICK here, above : /\ here = own(c)
                           /\ above = Handed(OfNames(kinds), WithAny(kinds), blocks[c].parent)
    OBVIOUS
  <2>2. f[c] = here \cup (IF c \in WithAny(kinds) THEN {} ELSE above)
    BY <1>2, <1>4, <1>5, <2>1
  <2>3. c \in WithAny(kinds) <=> here # {}
    BY <1>4, <2>1
  <2>4. blocks[c].parent = Serving!Main => above = {}
    BY <1>5, <2>1 DEF Serving!Main
  <2>5. blocks[c].parent # Serving!Main => above = f[blocks[c].parent]
    BY <1>2, <1>3, <2>1
  <2>6. f[c] = IF here # {} THEN here ELSE above
    BY ONLY <2>2, <2>3
  <2>7. QED BY <2>1, <2>4, <2>5, <2>6
<1>7. f = [c \in D |-> f[c]]
  BY DEF f
<1> HIDE DEF Body
<1>8. f = [c \in D |-> Body(f, c)]
  BY <1>6, <1>7
<1> DEFINE up == CHOOSE u : u = [c \in D |-> Body(u, c)]
<1>9. up = [c \in D |-> Body(up, c)]
  BY <1>8
<1>10. Admission!NearestOf(b, kinds) = up[b]
  BY DEF Admission!NearestOf, D, Body, own, Admission!Here, Serving!Here, Admission!Blocks, Serving!Blocks,
         Admission!Main, Serving!Main
<1> HIDE DEF up
<1>11. \A c \in D : up[c] = Body(up, c)
  BY <1>9
<1>12. \A c \in D : up[c] = f[c]
  <2> DEFINE G == {c \in D : up[c] = f[c]} \cup {0}
  <2>1. \A c \in Serving!Blocks : blocks[c].parent \in G => c \in G
    <3> SUFFICES ASSUME NEW c \in Serving!Blocks, blocks[c].parent \in G PROVE c \in G
      OBVIOUS
    <3>1. c \in D
      BY DEF D
    <3>2. CASE blocks[c].parent = 0
      <4>1. Body(up, c) = own(c) /\ Body(f, c) = own(c)
        BY <3>2 DEF Body, Serving!Main
      <4>2. QED BY <1>6, <1>11, <3>1, <4>1
    <3>3. CASE blocks[c].parent # 0
      <4>1. up[blocks[c].parent] = f[blocks[c].parent]
        BY <3>3
      <4>2. Body(up, c) = Body(f, c)
        BY <4>1 DEF Body
      <4>3. QED BY <1>6, <1>11, <3>1, <4>2
    <3>4. QED BY <3>2, <3>3
  <2>2. 0 \in G /\ \A c \in D : c \in Serving!Blocks \cup {0} /\ c # 0
    BY <1>1 DEF D
  <2> HIDE DEF G
  <2>3. \A c \in D : c \in G
    BY <2>1, <2>2, FromTheTop
  <2>4. QED BY <2>2, <2>3 DEF G
<1>13. b \in D
  BY DEF D
<1>14. QED BY <1>2, <1>10, <1>12, <1>13

\* Of one name, it is what is in force.
LEMMA NearestIsInForce ==
    ASSUME Serving!IsConfiguration, NEW d, Serving!Here(0, d) = {}, NEW b \in Serving!Blocks
    PROVE  Admission!NearestOf(b, {d}) = Serving!InForce(b, d)
<1> DEFINE O == OfNames({d})
           W == WithAny({d})
           G == {c \in Serving!Blocks \cup {0} : Handed(O, W, c) = Serving!InForce(c, d)}
<1>1. O \in SUBSET DOMAIN dirs /\ \A i \in O : dirs[i].in # 0
  BY DEF OfNames, Serving!Here
<1>2. \A c : {i \in O : dirs[i].in = c} = Serving!Here(c, d)
  BY DEF OfNames, Serving!Here
<1>3. \A c \in Serving!Blocks : c \in W <=> Serving!Here(c, d) # {}
  BY DEF OfNames, WithAny, Serving!Here
<1> HIDE DEF O, W
<1>4. /\ \A c \in Serving!Blocks :
             Handed(O, W, c) = {i \in O : dirs[i].in = c}
                                  \cup (IF c \in W THEN {} ELSE Handed(O, W, blocks[c].parent))
      /\ Handed(O, W, 0) = {i \in O : dirs[i].in = 0}
  BY <1>1, HandedIs
<1>5. /\ \A c \in Serving!Blocks : Serving!InForce(c, d) =
             IF Serving!Here(c, d) # {} THEN Serving!Here(c, d) ELSE Serving!InForce(blocks[c].parent, d)
      /\ Serving!InForce(0, d) = Serving!Here(0, d)
  BY InForceIs
<1>6. 0 \in G
  BY <1>2, <1>4, <1>5 DEF Serving!Main
<1>7. \A c \in Serving!Blocks : blocks[c].parent \in G => c \in G
  <2> SUFFICES ASSUME NEW c \in Serving!Blocks, blocks[c].parent \in G
               PROVE  Handed(O, W, c) = Serving!InForce(c, d)
    OBVIOUS
  <2>1. PICK here, above : here = Serving!Here(c, d) /\ above = Handed(O, W, blocks[c].parent)
    OBVIOUS
  <2>2. above = Serving!InForce(blocks[c].parent, d)
    BY <2>1
  <2> HIDE DEF G
  <2>3. Handed(O, W, c) = here \cup (IF c \in W THEN {} ELSE above)
    BY <1>2, <1>4, <2>1
  <2>4. c \in W <=> here # {}
    BY <1>3, <2>1
  <2>5. Handed(O, W, c) = IF here # {} THEN here ELSE above
    BY ONLY <2>3, <2>4
  <2>6. QED BY <1>5, <2>1, <2>2, <2>5
<1>8. b \in G
  <2> HIDE DEF G
  <2>1. QED BY <1>6, <1>7, FromTheTop
<1>9. Admission!NearestOf(b, {d}) = Handed(OfNames({d}), WithAny({d}), b)
  <2>1. PICK kinds : kinds = {d}
    OBVIOUS
  <2>2. Admission!NearestOf(b, kinds) = Handed(OfNames(kinds), WithAny(kinds), b)
    BY <1>1, <2>1, NearestHanded DEF O
  <2>3. QED BY <2>1, <2>2
<1>10. QED BY <1>8, <1>9 DEF O, W

\* The admission rules in force are those handed down, and all of them are around the block.
LEMMA AdmissionIs ==
    ASSUME Admission!AccessConfiguration, NEW b \in Serving!Blocks
    PROVE  /\ Admission!EffectiveAccess(b) = Admission!Access(b)
           /\ Admission!NearestOf(b, {"auth_basic"}) = Admission!InForce(b, "auth_basic")
           /\ Admission!NearestOf(b, {"satisfy"}) = Admission!InForce(b, "satisfy")
<1>1. /\ Serving!IsConfiguration
      /\ \A d \in {"allow", "deny", "auth_basic", "satisfy"} : Serving!Here(0, d) = {}
  BY AdmissionRead DEF Admission!AccessConfiguration, Serving!Main
<1>2. PICK kinds : kinds = {"allow", "deny"}
  OBVIOUS
<1>3. /\ \A i \in OfNames(kinds) : dirs[i].in # 0
      /\ OfNames(kinds) = Serving!Anywhere("allow") \cup Serving!Anywhere("deny")
  BY <1>1, <1>2 DEF OfNames, Serving!Anywhere, Serving!Here
<1>4. Serving!Around(b) \subseteq Serving!Blocks \cup {0}
  BY <1>1, AroundWhat
<1>5. \A c \in Serving!Blocks \cup {0} :
          c \notin WithAny(kinds) <=> Serving!Here(c, "allow") \cup Serving!Here(c, "deny") = {}
  BY <1>2 DEF OfNames, WithAny, Serving!Here
<1>6. Admission!Access(b) = Handed(OfNames(kinds), WithAny(kinds), b)
  BY <1>3, <1>4, <1>5, AdmissionRead DEF Admission!Access, Handed
<1>7. Admission!EffectiveAccess(b) = Handed(OfNames(kinds), WithAny(kinds), b)
  BY <1>1, <1>2, <1>3, NearestHanded DEF Admission!EffectiveAccess
<1>8. QED BY <1>1, <1>6, <1>7, AdmissionRead, NearestIsInForce

\* What the rules know of a location, in terms of what runs there.
LEMMA RestrictionIs ==
    ASSUME Admission!AccessConfiguration, NEW c \in Serving!Blocks
    PROVE  /\ Admission!RestrictiveFilter(c) <=>
                 Admission!StrangerDenied(c) /\ ~Admission!PasswordSuffices(c)
           /\ Admission!TakenBack(c) <=>
                 Admission!HasAccessRestriction(c) /\ ~Admission!BasicRestriction(c)
           /\ Admission!BasicRestriction(c) => Admission!HasAccessRestriction(c)
           /\ Admission!StrangerDenied(c) => Admission!BasicRestriction(c)
<1>1. PICK A : A = Admission!Access(c)
  OBVIOUS
<1>2. /\ Serving!IsConfiguration /\ Admission!EffectiveAccess(c) = A
      /\ Admission!NearestOf(c, {"auth_basic"}) = Serving!InForce(c, "auth_basic")
      /\ Admission!NearestOf(c, {"satisfy"}) = Serving!InForce(c, "satisfy")
  BY <1>1, AdmissionIs, AdmissionRead DEF Admission!AccessConfiguration
<1>3. /\ A \in SUBSET Nat
      /\ \A i \in A : /\ i \in DOMAIN dirs /\ dirs[i].in \in Serving!Around(c)
                      /\ dirs[i].name = "deny" => i \in Serving!Here(dirs[i].in, "deny")
  <2>1. PICK n \in Nat : DOMAIN dirs = 1 .. n
    BY <1>2 DEF Serving!IsConfiguration
  <2>2. \A i \in A : i \in DOMAIN dirs /\ dirs[i].in \in Serving!Around(c)
    BY <1>1, AdmissionRead DEF Admission!Access, Serving!Anywhere
  <2>3. QED BY <2>1, <2>2, SMTT(60) DEF Serving!Here
<1>4. Admission!AuthRequired(c) <=> Admission!Runs(c, "auth_basic") \notin {"none", "off"}
  BY <1>2, AdmissionRead DEF Admission!AuthRequired, Serving!Runs
<1>5. Admission!PasswordSuffices(c) <=>
          Admission!Value(Admission!NearestOf(c, {"satisfy"})) = "any" /\ Admission!AuthRequired(c)
  BY <1>2, <1>4, AdmissionRead DEF Admission!PasswordSuffices, Serving!Runs
<1>6. Admission!BasicRestriction(c) <=> (\E i \in A : dirs[i].name = "deny") \/ Admission!AuthRequired(c)
  BY <1>2 DEF Admission!BasicRestriction
<1>7. Admission!HasAccessRestriction(c) <=>
          \E b \in Serving!Around(c) : \/ Serving!Here(b, "deny") # {}
                                       \/ \E i \in Serving!Here(b, "auth_basic") : dirs[i].value # "off"
  BY AdmissionRead DEF Admission!HasAccessRestriction, Admission!InChain, Admission!AuthOn
<1>8. Admission!RestrictiveFilter(c) <=> Admission!StrangerDenied(c) /\ ~Admission!PasswordSuffices(c)
  <2> DEFINE all == {i \in A : dirs[i].value = "all"}
  <2>1. Admission!RestrictiveFilter(c) <=>
            /\ all # {} /\ dirs[Serving!Min(all)].name = "deny"
            /\ ~Admission!PasswordSuffices(c)
    BY <1>2, <1>5, AdmissionRead DEF Admission!RestrictiveFilter
  <2>2. Admission!StrangerDenied(c) <=>
            \E i \in all : dirs[i].name = "deny" /\ \A j \in all : ~(j < i)
    BY <1>1 DEF Admission!StrangerDenied
  <2>3. \A i \in all : i \in Nat
    BY <1>3
  <2>4. all # {} => Serving!Min(all) \in all /\ \A j \in all : Serving!Min(all) =< j
    <3>1. all \in SUBSET Nat
      BY <1>3
    <3> HIDE DEF all
    <3>2. QED BY <3>1, MinIs
  <2> HIDE DEF all
  <2>5. (\E i \in all : dirs[i].name = "deny" /\ \A j \in all : ~(j < i))
            <=> all # {} /\ dirs[Serving!Min(all)].name = "deny"
    <3>1. CASE all = {}
      BY <3>1
    <3>2. CASE all # {}
      <4>1. PICK m \in all : m = Serving!Min(all) /\ \A j \in all : m =< j
        BY <2>4, <3>2
      <4>2. \A i \in all : (\A j \in all : ~(j < i)) <=> i = m
        BY <2>3, <4>1
      <4>3. QED BY <3>2, <4>1, <4>2
    <3>3. QED BY <3>1, <3>2
  <2>6. QED BY <2>1, <2>2, <2>5
<1>9. Admission!AuthRequired(c) =>
          \E b \in Serving!Around(c) : \E i \in Serving!Here(b, "auth_basic") : dirs[i].value # "off"
  <2> SUFFICES ASSUME Admission!AuthRequired(c)
               PROVE  \E b \in Serving!Around(c) :
                         \E i \in Serving!Here(b, "auth_basic") : dirs[i].value # "off"
    OBVIOUS
  <2>1. PICK S : S = Serving!InForce(c, "auth_basic")
    OBVIOUS
  <2>2. S # {} /\ dirs[Serving!Max(S)].value # "off"
    BY <1>2, <2>1, AdmissionRead DEF Admission!AuthRequired, Serving!Value
  <2>3. PICK b \in Serving!Around(c) : S = Serving!Here(b, "auth_basic")
    BY <1>2, <2>1, <2>2, InForceIsAround
  <2>4. S \in SUBSET DOMAIN dirs
    BY <2>3 DEF Serving!Here
  <2>5. Serving!Max(S) \in S
    BY <1>2, <2>2, <2>4, MaxIs
  <2>6. QED BY <2>2, <2>3, <2>5
<1>10. Admission!BasicRestriction(c) => Admission!HasAccessRestriction(c)
  BY <1>3, <1>6, <1>7, <1>9
<1>11. Admission!TakenBack(c) <=> Admission!HasAccessRestriction(c) /\ ~Admission!BasicRestriction(c)
  <2>1. Admission!TakenBack(c) <=>
            /\ \E b \in Serving!Around(c) : \/ Serving!Here(b, "deny") # {}
                                            \/ \E i \in Serving!Here(b, "auth_basic") : dirs[i].value # "off"
            /\ \A i \in A : dirs[i].name # "deny"
            /\ ~Admission!AuthRequired(c)
    BY <1>1, <1>4, AdmissionRead DEF Admission!TakenBack
  <2>2. QED BY <1>6, <1>7, <2>1
<1>12. Admission!StrangerDenied(c) => Admission!BasicRestriction(c)
  BY <1>1, <1>6 DEF Admission!StrangerDenied
<1>13. QED BY <1>8, <1>10, <1>11, <1>12

\* A sensitive location is reported when a stranger may enter it.
LEMMA SensitiveFollows ==
    ASSUME Admission!AccessConfiguration, AdmissionReports
    PROVE  Admission!SensitiveIsRestricted
<1> SUFFICES ASSUME NEW c \in Admission!Sensitive
             PROVE
    Admission!Says("missing_access_restrictions_on_sensitive_locations", c)
        \/ Admission!Says("sensitive_location_missing_ip_filter", c)
        <=> /\ ~Admission!StrangerDenied(c) \/ Admission!PasswordSuffices(c)
            /\ ~Admission!TakenBack(c)
  BY DEF Admission!SensitiveIsRestricted
<1>1. c \in Serving!Blocks
  BY AdmissionRead DEF Admission!Sensitive, Admission!LocationBlocks, Admission!Named
<1>2. Admission!Says("missing_access_restrictions_on_sensitive_locations", c)
          <=> ~Admission!HasAccessRestriction(c)
  BY DEF AdmissionReports, Admission!Says, Admission!At,
         Admission!missing_access_restrictions_on_sensitive_locations
<1>3. Admission!Says("sensitive_location_missing_ip_filter", c)
          <=> Admission!BasicRestriction(c) /\ ~Admission!RestrictiveFilter(c)
  BY DEF AdmissionReports, Admission!Says, Admission!At, Admission!sensitive_location_missing_ip_filter
<1>4. QED BY <1>1, <1>2, <1>3, RestrictionIs

\* A server that is not reported refuses methods that are not approved.
LEMMA MethodsFollow ==
    ASSUME Admission!AccessConfiguration, AdmissionReports
    PROVE  Admission!MethodsAreRestricted
<1> SUFFICES ASSUME NEW s \in Admission!Servers, ~Admission!OnlyRedirects(s),
                    ~Admission!Says("sitewide_http_method_policy_missing", s),
                    NEW c \in Admission!Children(s, "location"), Admission!CatchAll(c), Admission!Exposes(c)
             PROVE  Admission!MethodRefused(c)
  BY DEF Admission!MethodsAreRestricted
<1>1. \A d \in Admission!Children(s, "location") : Admission!CatchAll(d) => d = c
  BY DEF Admission!AccessConfiguration
<1>2. Admission!MethodPolicy(c)
  BY <1>1 DEF AdmissionReports, Admission!Says, Admission!At, Admission!sitewide_http_method_policy_missing
<1>3. Admission!MethodMap => \E m \in Admission!Named("map") : Admission!Has(m, "map", {"approved"})
  BY DEF Admission!MethodMap
<1>4. QED BY <1>2, <1>3 DEF Admission!MethodPolicy, Admission!MethodRefused

\* What these rules have to report does not depend on what was found.
LEMMA AdmissionStays ==
    ASSUME UNCHANGED <<blocks, dirs>>
    PROVE  /\ Admission!AccessConfiguration' = Admission!AccessConfiguration
           /\ Admission!missing_access_restrictions_on_sensitive_locations'
                  = Admission!missing_access_restrictions_on_sensitive_locations
           /\ Admission!sensitive_location_missing_ip_filter' = Admission!sensitive_location_missing_ip_filter
           /\ Admission!sitewide_http_method_policy_missing' = Admission!sitewide_http_method_policy_missing
<1>1. /\ Admission!Blocks' = Admission!Blocks /\ Admission!Servers' = Admission!Servers
      /\ \A b, d : Admission!Here(b, d)' = Admission!Here(b, d)
      /\ \A b, d, v : Admission!Has(b, d, v)' = Admission!Has(b, d, v)
      /\ \A b, name : Admission!Children(b, name)' = Admission!Children(b, name)
      /\ \A name : Admission!Named(name)' = Admission!Named(name)
      /\ \A c : Admission!Args(c)' = Admission!Args(c) /\ Admission!CatchAll(c)' = Admission!CatchAll(c)
      /\ Admission!Sensitive' = Admission!Sensitive
      /\ UNCHANGED <<blocks, dirs>>
  BY DEF Admission!Blocks, Admission!Servers, Admission!Here, Admission!Has, Admission!Children,
         Admission!Named, Admission!Args, Admission!CatchAll, Admission!Sensitive, Admission!LocationBlocks
<1>2. \A b : Admission!Around(b)' = Admission!Around(b)
  BY <1>1 DEF Admission!Around
<1>3. \A s : Admission!Http(s)' = Admission!Http(s)
  BY <1>1, <1>2 DEF Admission!Http, Admission!Context
<1>4. Admission!AccessConfiguration' = Admission!AccessConfiguration
  <2>1. Admission!IsConfiguration' = Admission!IsConfiguration
    BY <1>1, <1>3 DEF Admission!IsConfiguration
  <2>2. QED BY <1>1, <2>1 DEF Admission!AccessConfiguration, Admission!Main
<1>5. \A c : Admission!HasAccessRestriction(c)' = Admission!HasAccessRestriction(c)
  <2>1. \A c, d : Admission!InChain(c, d)' = Admission!InChain(c, d)
    BY <1>1, <1>2 DEF Admission!InChain
  <2>2. QED BY <1>1, <2>1 DEF Admission!HasAccessRestriction, Admission!AuthOn
<1>6. /\ \A c : Admission!BasicRestriction(c)' = Admission!BasicRestriction(c)
      /\ \A c : Admission!RestrictiveFilter(c)' = Admission!RestrictiveFilter(c)
  <2>1. \A c, kinds : Admission!NearestOf(c, kinds)' = Admission!NearestOf(c, kinds)
    BY <1>1 DEF Admission!NearestOf, Admission!Main, Admission!Here, Admission!Blocks
  <2>2. /\ \A S : Admission!Value(S)' = Admission!Value(S)
        /\ \A c : Admission!EffectiveAccess(c)' = Admission!EffectiveAccess(c)
    BY <1>1, <2>1 DEF Admission!Value, Admission!EffectiveAccess
  <2>3. \A c : Admission!AuthRequired(c)' = Admission!AuthRequired(c)
    BY <2>1, <2>2 DEF Admission!AuthRequired
  <2>4. QED BY <1>1, <2>1, <2>2, <2>3 DEF Admission!BasicRestriction, Admission!RestrictiveFilter
<1>7. \A s : Admission!OnlyRedirects(s)' = Admission!OnlyRedirects(s)
  <2>1. \A b : /\ Admission!Redirects(b)' = Admission!Redirects(b)
               /\ Admission!Locations(b)' = Admission!Locations(b)
               /\ Admission!SafeException(b)' = Admission!SafeException(b)
    BY <1>1 DEF Admission!Redirects, Admission!Locations, Admission!SafeException
  <2>2. QED BY <1>1, <2>1 DEF Admission!OnlyRedirects
<1>8. \A c : Admission!Exposes(c)' = Admission!Exposes(c) /\ Admission!MethodPolicy(c)' = Admission!MethodPolicy(c)
  <2>1. Admission!MethodMap' = Admission!MethodMap
    BY <1>1 DEF Admission!MethodMap
  <2>2. \A c : Admission!RejectingReturn(c)' = Admission!RejectingReturn(c)
    BY <1>1 DEF Admission!RejectingReturn
  <2>3. QED BY <1>1, <2>1, <2>2 DEF Admission!Exposes, Admission!MethodPolicy
<1>9. Admission!missing_access_restrictions_on_sensitive_locations'
          = Admission!missing_access_restrictions_on_sensitive_locations
  BY <1>1, <1>5 DEF Admission!missing_access_restrictions_on_sensitive_locations
<1>10. Admission!sensitive_location_missing_ip_filter' = Admission!sensitive_location_missing_ip_filter
  BY <1>1, <1>6 DEF Admission!sensitive_location_missing_ip_filter
<1>11. Admission!sitewide_http_method_policy_missing' = Admission!sitewide_http_method_policy_missing
  BY <1>1, <1>7, <1>8 DEF Admission!sitewide_http_method_policy_missing
<1>12. QED BY <1>4, <1>9, <1>10, <1>11

\* In any configuration, a sensitive location is reported when a stranger may enter it, wherever
\* what lets it in was said, and a server that is not reported refuses methods that are not
\* approved.
THEOREM NginxAccessRulesAreSound ==
    Admission!AccessSpec => [](Admission!SensitiveIsRestricted /\ Admission!MethodsAreRestricted)
<1> DEFINE IInv == Admission!AccessConfiguration /\ (Admission!Checked => AdmissionReports)
<1>1. Admission!AccessConfiguration /\ findings = Admission!Unchecked => IInv
  BY DEF Admission!Checked
<1>2. IInv /\ [Admission!Check]_(Admission!vars) => IInv'
  <2> SUFFICES ASSUME IInv, [Admission!Check]_(Admission!vars) PROVE IInv'
    OBVIOUS
  <2>1. UNCHANGED <<blocks, dirs>>
    BY DEF Admission!Check, Admission!vars
  <2>2. Admission!AccessConfiguration'
    BY <2>1, AdmissionStays
  <2>3. CASE Admission!Check
    <3>1. AdmissionReports'
      BY <2>1, <2>3, AdmissionStays DEF AdmissionReports, Admission!Check
    <3>2. QED BY <2>2, <3>1
  <2>4. CASE UNCHANGED findings
    <3>1. Admission!Checked' = Admission!Checked
      BY <2>4 DEF Admission!Checked, Admission!Unchecked
    <3>2. AdmissionReports => AdmissionReports'
      BY <2>1, <2>4, AdmissionStays DEF AdmissionReports
    <3>3. QED BY <2>2, <3>1, <3>2
  <2>5. QED BY <2>3, <2>4 DEF Admission!vars
<1>3. IInv => Admission!SensitiveIsRestricted /\ Admission!MethodsAreRestricted
  <2>1. CASE ~Admission!Checked
    BY <2>1 DEF Admission!SensitiveIsRestricted, Admission!MethodsAreRestricted
  <2>2. CASE Admission!Checked
    BY <2>2, SensitiveFollows, MethodsFollow
  <2>3. QED BY <2>1, <2>2
<1>4. QED BY <1>1, <1>2, <1>3, PTL DEF Admission!AccessSpec

(***************************************************************************)
(* The rules together.                                                     *)
(***************************************************************************)
\* No step of the rules changes what they look at, so it stays what nginx makes sure of.
LEMMA RulesLookOnly == RulesSpec => []Configuration
<1>1. Configuration /\ [Rules /\ UNCHANGED topic]_<<topic, ruleVars>> => Configuration'
  <2> SUFFICES ASSUME Configuration, [Rules /\ UNCHANGED topic]_<<topic, ruleVars>> PROVE Configuration'
    OBVIOUS
  <2>1. UNCHANGED <<topic, blocks, dirs>>
    BY DEF Rules, ruleVars, Serving!TlsCheck, Serving!AnsweringCheck, Limits!Check, Headers!HeaderCheck,
           Headers!TaintCheck, Admission!Check
  <2>2. /\ Serving!TlsConfiguration' = Serving!TlsConfiguration
        /\ Serving!AnsweringConfiguration' = Serving!AnsweringConfiguration
    BY <2>1, ConfigurationStays, AnsweringStays
  <2>3. /\ Limits!LimitConfiguration' = Limits!LimitConfiguration
        /\ Headers!HeaderConfiguration' = Headers!HeaderConfiguration
    BY <2>1, LimitsStay, HeadersStay
  <2>4. /\ Headers!UpstreamConfiguration' = Headers!UpstreamConfiguration
        /\ Admission!AccessConfiguration' = Admission!AccessConfiguration
    BY <2>1, UpstreamStays, AdmissionStays
  <2>5. QED BY <2>1, <2>2, <2>3, <2>4 DEF Configuration
<1>2. QED BY <1>1, PTL DEF RulesSpec

\* In any configuration of any topic: where no rule reports it, what is in force is set up as
\* it should be. A run for one topic is a run of the rules for that topic.
THEOREM NginxSettingRulesAreSound == RulesSpec => []SettingRulesAreSound
<1> DEFINE Step == [Rules /\ UNCHANGED topic]_<<topic, ruleVars>>
           Start == Configuration /\ findings = Serving!Unchecked
<1>1. RulesSpec => [](topic = "tls" =>
          Serving!SilenceIsEarned /\ Serving!AlarmIsReal /\ Serving!UpstreamIsVerified)
  <2> DEFINE T == topic = "tls"
  <2>1. Start /\ T => Serving!TlsConfiguration /\ findings = Serving!Unchecked
    BY DEF Configuration
  <2>2. T /\ Step => T' /\ [Serving!TlsCheck]_(Serving!vars)
    BY DEF Rules, ruleVars, Serving!vars
  <2>3. ~T /\ Step => ~T'
    OBVIOUS
  <2>4. QED BY <2>1, <2>2, <2>3, NginxTlsRulesAreSound, PTL DEF RulesSpec, Serving!TlsSpec
<1>2. RulesSpec => [](topic = "servers" =>
          /\ Serving!UnknownHostsAreRejected /\ Serving!RedirectIsComplete
          /\ Serving!NoPasswordInClear)
  <2> DEFINE T == topic = "servers"
  <2>1. Start /\ T => Serving!AnsweringConfiguration /\ findings = Serving!Unchecked
    BY DEF Configuration
  <2>2. T /\ Step => T' /\ [Serving!AnsweringCheck]_(Serving!vars)
    BY DEF Rules, ruleVars, Serving!vars
  <2>3. ~T /\ Step => ~T'
    OBVIOUS
  <2>4. QED BY <2>1, <2>2, <2>3, NginxAnsweringRulesAreSound, PTL DEF RulesSpec, Serving!AnsweringSpec
<1>3. RulesSpec => [](topic \in {"sizes", "zones", "listings"} =>
          Limits!NothingRunsUnbounded /\ Limits!LimitsWork /\ Limits!ListingsAreLimited)
  <2> DEFINE T == topic \in {"sizes", "zones", "listings"}
  <2>1. Start /\ T => Limits!LimitConfiguration /\ findings = Limits!Unchecked
    BY DEF Configuration, Serving!Unchecked, Limits!Unchecked
  <2>2. T /\ Step => T' /\ [Limits!Check]_(Limits!vars)
    BY DEF Rules, ruleVars, Limits!vars
  <2>3. ~T /\ Step => ~T'
    OBVIOUS
  <2>4. QED BY <2>1, <2>2, <2>3, NginxLimitRulesAreSound, PTL DEF RulesSpec, Limits!LimitSpec
<1>4. RulesSpec => [](topic = "headers" =>
          /\ Headers!CspIsEverywhere /\ Headers!UnsafeCspIsReported
          /\ Headers!ServerHeadersAreSent /\ Headers!AltSvcIsTold)
  <2> DEFINE T == topic = "headers"
  <2>1. Start /\ T => Headers!HeaderConfiguration /\ findings = Headers!Unchecked
    BY DEF Configuration, Serving!Unchecked, Headers!Unchecked
  <2>2. T /\ Step => T' /\ [Headers!HeaderCheck]_(Headers!vars)
    BY DEF Rules, ruleVars, Headers!vars
  <2>3. ~T /\ Step => ~T'
    OBVIOUS
  <2>4. QED BY <2>1, <2>2, <2>3, NginxHeaderRulesAreSound, PTL DEF RulesSpec, Headers!HeaderSpec
<1>5. RulesSpec => [](topic \in {"access", "files", "methods"} =>
          Admission!SensitiveIsRestricted /\ Admission!MethodsAreRestricted)
  <2> DEFINE T == topic \in {"access", "files", "methods"}
  <2>1. Start /\ T => Admission!AccessConfiguration /\ findings = Admission!Unchecked
    BY DEF Configuration, Serving!Unchecked, Admission!Unchecked
  <2>2. T /\ Step => T' /\ [Admission!Check]_(Admission!vars)
    BY DEF Rules, ruleVars, Admission!vars
  <2>3. ~T /\ Step => ~T'
    OBVIOUS
  <2>4. QED BY <2>1, <2>2, <2>3, NginxAccessRulesAreSound, PTL DEF RulesSpec, Admission!AccessSpec
<1>6. RulesSpec => [](topic = "upstream" => Headers!SourceIsPassedOn)
  <2> DEFINE T == topic = "upstream"
  <2>1. Start /\ T => Headers!UpstreamConfiguration /\ findings = Headers!Unchecked
    BY DEF Configuration, Serving!Unchecked, Headers!Unchecked
  <2>2. T /\ Step => T' /\ [Headers!TaintCheck]_(Headers!vars)
    BY DEF Rules, ruleVars, Headers!vars
  <2>3. ~T /\ Step => ~T'
    OBVIOUS
  <2>4. QED BY <2>1, <2>2, <2>3, NginxUpstreamsAreTold, PTL DEF RulesSpec, Headers!UpstreamSpec
<1>7. /\ Configuration
      /\ (topic = "tls" =>
             Serving!SilenceIsEarned /\ Serving!AlarmIsReal /\ Serving!UpstreamIsVerified)
      /\ (topic = "servers" =>
             Serving!UnknownHostsAreRejected /\ Serving!RedirectIsComplete
             /\ Serving!NoPasswordInClear)
      /\ (topic \in {"sizes", "zones", "listings"} =>
             Limits!NothingRunsUnbounded /\ Limits!LimitsWork /\ Limits!ListingsAreLimited)
      /\ (topic = "headers" =>
             /\ Headers!CspIsEverywhere /\ Headers!UnsafeCspIsReported
             /\ Headers!ServerHeadersAreSent /\ Headers!AltSvcIsTold)
      /\ (topic \in {"access", "files", "methods"} =>
             Admission!SensitiveIsRestricted /\ Admission!MethodsAreRestricted)
      /\ (topic = "upstream" => Headers!SourceIsPassedOn)
      => SettingRulesAreSound
  BY DEF SettingRulesAreSound
<1>8. QED BY <1>1, <1>2, <1>3, <1>4, <1>5, <1>6, <1>7, RulesLookOnly, PTL

================================================================================
