------------------------ MODULE Configuration_proofs ------------------------
(***************************************************************************)
(* What is made of a configuration, and what rules make of that.           *)
(*                                                                         *)
(* What resolve_includes promises, for any set of files and any call.      *)
(* First, no include chain ever holds a file twice.  Nothing is assumed    *)
(* about Jobs for it: what the directives name, on disk or in the output   *)
(* of a command, is arbitrary.  The proof looks only at what an action     *)
(* does to the stack: it replaces the innermost frame, pushes one, or pops *)
(* it.                                                                     *)
(*                                                                         *)
(* Then, under JobsAssumption, that no include is lost: every include of   *)
(* every file loaded is either told in the result (an edge of the graph or *)
(* an issue) or still ahead of a frame that is open.                       *)
(*                                                                         *)
(* Last, that the rewritten tree is the recursive expansion of the main    *)
(* file: at every moment, what is out followed by what the open frames owe,*)
(* from the innermost outwards, is that expansion.                         *)
(*                                                                         *)
(* And the conditional scopes of a configuration of lighttpd, whatever it  *)
(* asks and says, as they are read and merged for a host, and what rules   *)
(* report of them.                                                         *)
(***************************************************************************)
EXTENDS IncludeResolution, SequenceTheorems, FiniteSetTheorems, WellFoundedInduction, TLAPS

\* A chain that starts at the main file and holds nothing twice.  What a chain
\* holds is not typed; it is a sequence of whatever its members are.
SoundChain(c) ==
    /\ c \in Seq(Members(c))
    /\ c # <<>>
    /\ Head(c) = Root
    /\ Distinct(c)

SoundFrame(frame) == "chain" \in DOMAIN frame /\ SoundChain(frame.chain)

SoundStack(s) ==
    /\ s \in Seq(Members(s))
    /\ \A i \in 1..Len(s) : SoundFrame(s[i])

\* Every sequence is a sequence of its own members.
LEMMA SeqOfMembers ==
    ASSUME NEW S, NEW s \in Seq(S)
    PROVE  s \in Seq(Members(s))
BY DEF Members

\* What is appended to a sound chain without being in it leaves it sound: this is
\* the test OpenNow makes before ChainFor extends the chain.
LEMMA ExtendedChain ==
    ASSUME NEW c, SoundChain(c), NEW f, f \notin Members(c)
    PROVE  SoundChain(Append(c, f))
<1> DEFINE M == Members(c)
           d == Append(c, f)
<1>1. c \in Seq(M) /\ c # <<>> /\ Head(c) = Root /\ Distinct(c)
  BY DEF SoundChain
<1>2. c \in Seq(M \cup {f}) /\ d \in Seq(M \cup {f})
  <2>1. c \in Seq(M \cup {f})
    BY <1>1
  <2>2. QED BY <2>1
<1>3. /\ Len(c) \in Nat /\ Len(c) > 0 /\ Len(d) = Len(c) + 1
      /\ \A i \in 1..Len(c) : d[i] = c[i]
      /\ d[Len(d)] = f
  BY <1>1, <1>2
<1>4. d \in Seq(Members(d))
  BY <1>2, SeqOfMembers
<1>5. d # <<>> /\ Head(d) = Root
  BY <1>1, <1>2, <1>3
<1>6. Distinct(d)
  BY <1>1, <1>3, SMTT(60) DEF Distinct, Members
<1>7. QED BY <1>4, <1>5, <1>6 DEF SoundChain

\* Replacing the innermost frame.
LEMMA ReplacedTop ==
    ASSUME SoundStack(stack), stack # <<>>, NEW frame, SoundFrame(frame)
    PROVE  SoundStack(WithTop(frame))
<1> DEFINE s == WithTop(frame)
           S == Members(stack) \cup {frame}
<1>1. stack \in Seq(S) /\ Len(stack) \in Nat /\ Len(stack) > 0
  BY DEF SoundStack
<1>2. /\ s \in Seq(S) /\ Len(s) = Len(stack)
      /\ \A i \in 1..Len(s) : s[i] = IF i = Len(stack) THEN frame ELSE stack[i]
  BY <1>1 DEF WithTop
<1>3. s \in Seq(Members(s))
  BY <1>2, SeqOfMembers
<1>4. \A i \in 1..Len(s) : SoundFrame(s[i])
  BY <1>1, <1>2 DEF SoundStack
<1>5. QED BY <1>3, <1>4 DEF SoundStack

\* Pushing a frame, and popping one.
LEMMA PushedFrame ==
    ASSUME NEW s, SoundStack(s), NEW frame, SoundFrame(frame)
    PROVE  SoundStack(Push(s, frame))
<1> DEFINE t == Push(s, frame)
           S == Members(s) \cup {frame}
<1>1. s \in Seq(S)
  BY DEF SoundStack
<1>2. /\ t \in Seq(S) /\ Len(t) = Len(s) + 1 /\ Len(s) \in Nat
      /\ \A i \in 1..Len(s) : t[i] = s[i]
      /\ t[Len(t)] = frame
  BY <1>1 DEF Push
<1>3. t \in Seq(Members(t))
  BY <1>2, SeqOfMembers
<1>4. \A i \in 1..Len(t) : SoundFrame(t[i])
  BY <1>1, <1>2 DEF SoundStack
<1>5. QED BY <1>3, <1>4 DEF SoundStack

\* The innermost frame is left.
LEMMA PoppedFrame ==
    ASSUME SoundStack(stack), stack # <<>>
    PROVE  SoundStack(SubSeq(stack, 1, Len(stack) - 1))
<1> DEFINE t == SubSeq(stack, 1, Len(stack) - 1)
           S == Members(stack)
<1>1. stack \in Seq(S) /\ Len(stack) \in Nat /\ Len(stack) > 0
  BY DEF SoundStack
<1>2. /\ t \in Seq(S) /\ Len(t) = Len(stack) - 1
      /\ \A i \in 1..Len(t) : t[i] = stack[i]
  BY <1>1
<1>3. t \in Seq(Members(t))
  BY <1>2, SeqOfMembers
<1>4. \A i \in 1..Len(t) : SoundFrame(t[i])
  BY <1>1, <1>2 DEF SoundStack
<1>5. QED BY <1>3, <1>4 DEF SoundStack

\* The innermost frame is sound, and stays so when anything but its chain changes.
LEMMA SoundTop ==
    ASSUME SoundStack(stack), stack # <<>>
    PROVE  /\ SoundFrame(Top) /\ SoundFrame(ItemDone) /\ SoundFrame(TargetDone)
           /\ \A p, b : SoundFrame([ItemDone EXCEPT !.pending = p, !.by = b])
<1>1. SoundFrame(Top)
  BY DEF SoundStack, Top
<1>2. QED BY <1>1 DEF SoundFrame, ItemDone, TargetDone

\* A frame whose chain is the innermost one extended by something not open now.
LEMMA SoundNewFrame ==
    ASSUME SoundStack(stack), stack # <<>>, NEW f, ~OpenNow(f),
           NEW file, NEW source, NEW items
    PROVE  SoundFrame(Frame(file, source, items, ChainFor(f)))
<1>1. SoundChain(Top.chain)
  BY SoundTop DEF SoundFrame
<1>2. SoundChain(ChainFor(f))
  BY <1>1, ExtendedChain DEF OpenNow, ChainFor
<1>3. QED BY <1>2 DEF SoundFrame, Frame

\* The main file is alone in the first chain.
LEMMA InitSound == Init => SoundStack(stack)
<1> SUFFICES ASSUME Init PROVE SoundStack(stack)
  OBVIOUS
<1> DEFINE root == Frame(Root, Root, job.text[Root], <<Root>>)
<1>1. SoundChain(<<Root>>)
  BY DEF SoundChain, Members, Distinct
<1>2. SoundFrame(root)
  BY <1>1 DEF SoundFrame, Frame
<1>3. stack = <<root>>
  BY DEF Init
<1>4. <<root>> \in Seq({root}) /\ Len(<<root>>) = 1 /\ <<root>>[1] = root
  OBVIOUS
<1> HIDE DEF root
<1>5. <<root>> \in Seq(Members(<<root>>))
  BY <1>4, SeqOfMembers
<1>6. QED BY <1>2, <1>3, <1>4, <1>5 DEF SoundStack

\* Every action replaces the innermost frame, pushes one or pops it.
LEMMA NextSound == SoundStack(stack) /\ [Next]_vars => SoundStack(stack')
<1> SUFFICES ASSUME SoundStack(stack), [Next]_vars PROVE SoundStack(stack')
  OBVIOUS
<1>1. CASE KeepNode \/ IncludeNothing \/ ShellCycle \/ ShellSkipped \/ ShellFails
  <2>1. stack # <<>> /\ stack' = WithTop(ItemDone)
    BY <1>1 DEF KeepNode, IncludeNothing, ShellCycle, ShellSkipped, ShellFails, AtItem,
             AfterFailure
  <2>2. QED BY <2>1, SoundTop, ReplacedTop
<1>2. CASE StartInclude
  <2>1. stack # <<>> /\ stack' = WithTop([ItemDone EXCEPT !.pending = Paths(Item), !.by = Item])
    BY <1>2 DEF StartInclude, AtItem
  <2>2. QED BY <2>1, SoundTop, ReplacedTop
<1>3. CASE RefuseSelfInclude \/ RefuseCycle \/ IncludeFails
  <2>1. stack # <<>> /\ stack' = WithTop(TargetDone)
    BY <1>3 DEF RefuseSelfInclude, RefuseCycle, IncludeFails, Followed, AtTarget
  <2>2. QED BY <2>1, SoundTop, ReplacedTop
<1>4. CASE IncludeFile
  <2>1. /\ stack # <<>> /\ ~OpenNow(Target)
        /\ stack' = Push(WithTop(AfterTarget),
                         Frame(Target, Target, job.text[Target], ChainFor(Target)))
    BY <1>4 DEF IncludeFile, Followed, AtTarget
  <2>2. SoundStack(WithTop(AfterTarget))
    BY <2>1, SoundTop, ReplacedTop DEF AfterTarget
  <2>3. QED BY <2>1, <2>2, SoundNewFrame, PushedFrame
<1>5. CASE RunShell
  <2>1. /\ stack # <<>> /\ ~OpenNow(ShellTarget(Item))
        /\ stack' = Push(WithTop(ItemDone),
                         Frame(Top.file, ShellTarget(Item), Item.output,
                               ChainFor(ShellTarget(Item))))
    BY <1>5 DEF RunShell, AtItem
  <2>2. SoundStack(WithTop(ItemDone))
    BY <2>1, SoundTop, ReplacedTop
  <2>3. QED BY <2>1, <2>2, SoundNewFrame, PushedFrame
<1>6. CASE DecodeErrorEscapes \/ UNCHANGED vars
  BY <1>6 DEF DecodeErrorEscapes, vars
<1>7. CASE Return
  BY <1>7, PoppedFrame DEF Return
<1>8. QED BY <1>1, <1>2, <1>3, <1>4, <1>5, <1>6, <1>7 DEF Next

\* Whatever the configuration files include, and whatever commands print, no file
\* and no shell line is resolved inside itself.
THEOREM IncludesNeverNestTheSame == Spec => []NeverOpenTwice
<1> DEFINE Nested == SoundStack(stack)
<1>1. Init => Nested
  BY InitSound
<1>2. Nested /\ [Next]_vars => Nested'
  BY NextSound
<1>3. Nested => NeverOpenTwice
  BY DEF SoundStack, SoundFrame, SoundChain, NeverOpenTwice
<1> HIDE DEF Nested
<1>4. QED BY <1>1, <1>2, <1>3, PTL DEF Spec

(***************************************************************************)
(* The inductive invariant of a resolution.                                *)
(***************************************************************************)
Includes == {it \in Items : it.kind \in {"include", "optional"}}
Lines    == {it.line : it \in {x \in Items : x.kind = "shell"}}

FrameType == [file : File, source : File \cup Lines, todo : Seq(Items), pending : SUBSET Nat,
              by : Includes \cup {NoItem}, chain : Seq(File \cup Lines)]

\* The items of a frame were found at the end of its chain, and what is pending are
\* targets of the include item it is at.
SoundWork(frame) ==
    /\ frame \in FrameType
    /\ frame.chain # <<>> /\ frame.source = frame.chain[Len(frame.chain)]
    /\ frame.pending \subseteq DOMAIN frame.by.targets

Shape ==
    /\ phase \in {"resolving", "done", "raised"}
    /\ job \in Jobs
    /\ stack \in Seq(FrameType)
    /\ \A frame \in Members(stack) : SoundWork(frame) /\ frame.chain \in loads
    /\ stack # <<>> => stack[1].file = Root
    /\ phase = "done" <=> stack = <<>>

\* What the result tells of an include item of the file at the end of chain p.
TargetTold(p, it, f) ==
    Append(p, f) \in loads \/ \E issue \in issues : issue[2] = it.id /\ issue[3] = f
Told(p, it) ==
    /\ \A i \in Paths(it) : TargetTold(p, it, it.targets[i])
    /\ Paths(it) = {} /\ it.kind = "include" /\ job.server # "nginx" =>
           <<"not_found", it.id, "none">> \in issues

\* The item, or those of its targets that are not told, are still ahead in a frame.
Ahead(frame, p, it) ==
    /\ frame.chain = p
    /\ \/ it \in Members(frame.todo)
       \/ /\ frame.by = it /\ Paths(it) # {}
          /\ \A i \in Paths(it) : TargetTold(p, it, it.targets[i]) \/ i \in frame.pending

\* Every include of every loaded file is told or ahead.
OwedOf(p) ==
    p[Len(p)] \in File =>
        \A it \in Members(job.text[p[Len(p)]]) :
            it.kind \in {"include", "optional"} =>
                Told(p, it) \/ \E frame \in Members(stack) : Ahead(frame, p, it)
Owed == \A p \in loads : OwedOf(p)

IInv == Shape /\ Owed /\ GraphExplainsLoads

(***************************************************************************)
(* What is in a stack after its innermost frame was replaced, pushed upon  *)
(* or popped.                                                              *)
(***************************************************************************)
\* Only the innermost frame changes.
LEMMA ReplacedMembers ==
    ASSUME NEW T, stack \in Seq(T), stack # <<>>, NEW new \in T
    PROVE  /\ WithTop(new) \in Seq(T) /\ WithTop(new) # <<>>
           /\ Top \in Members(stack) /\ new \in Members(WithTop(new))
           /\ Members(WithTop(new)) \subseteq Members(stack) \cup {new}
           /\ Members(stack) \subseteq Members(WithTop(new)) \cup {Top}
           /\ WithTop(new)[1] = IF Len(stack) = 1 THEN new ELSE stack[1]
           /\ Len(stack) = 1 => Top = stack[1]
<1> DEFINE s == WithTop(new)
<1>1. stack \in Seq(T) /\ Len(stack) \in Nat /\ Len(stack) > 0
  OBVIOUS
<1>2. /\ s \in Seq(T) /\ Len(s) = Len(stack)
      /\ \A i \in 1..Len(s) : s[i] = IF i = Len(stack) THEN new ELSE stack[i]
  BY <1>1 DEF WithTop
<1> HIDE DEF s
<1>3. s # <<>> /\ 1 \in 1..Len(s) /\ Len(stack) \in 1..Len(s)
  BY <1>1, <1>2
<1>4. Top = stack[Len(stack)] /\ Top \in Members(stack)
  BY <1>1, <1>2, <1>3 DEF Top, Members
<1>5. s[Len(stack)] = new /\ new \in Members(s)
  BY <1>2, <1>3 DEF Members
<1>6. Members(s) \subseteq Members(stack) \cup {new}
  BY <1>2 DEF Members
<1>7. Members(stack) \subseteq Members(s) \cup {Top}
  BY <1>2, <1>4 DEF Members
<1>8. s[1] = IF Len(stack) = 1 THEN new ELSE stack[1]
  BY <1>2, <1>3
<1>9. QED BY <1>2, <1>3, <1>4, <1>5, <1>6, <1>7, <1>8 DEF s

\* A pushed frame joins those that are there.
LEMMA PushedMembers ==
    ASSUME NEW T, NEW s \in Seq(T), s # <<>>, NEW frame \in T
    PROVE  /\ Push(s, frame) \in Seq(T) /\ Push(s, frame) # <<>>
           /\ Members(Push(s, frame)) = Members(s) \cup {frame}
           /\ Push(s, frame)[1] = s[1]
<1> DEFINE t == Push(s, frame)
<1>1. /\ t \in Seq(T) /\ Len(t) = Len(s) + 1 /\ Len(s) \in Nat /\ Len(s) > 0
      /\ \A i \in 1..Len(s) : t[i] = s[i]
      /\ t[Len(t)] = frame
  BY DEF Push
<1> HIDE DEF t
<1>2. t # <<>> /\ t[1] = s[1]
  BY <1>1
<1>3. Members(s) \subseteq Members(t) /\ frame \in Members(t)
  BY <1>1 DEF Members
<1>4. Members(t) \subseteq Members(s) \cup {frame}
  <2> SUFFICES ASSUME NEW i \in 1..Len(t) PROVE t[i] \in Members(s) \cup {frame}
    BY DEF Members
  <2>1. CASE i \in 1..Len(s)
    BY <1>1, <2>1 DEF Members
  <2>2. CASE i = Len(t)
    BY <1>1, <2>2
  <2>3. QED BY <1>1, <2>1, <2>2
<1>5. QED BY <1>1, <1>2, <1>3, <1>4 DEF t

\* Only the innermost frame goes.
LEMMA PoppedMembers ==
    ASSUME NEW T, stack \in Seq(T), stack # <<>>
    PROVE  LET t == SubSeq(stack, 1, Len(stack) - 1) IN
           /\ t \in Seq(T) /\ (t = <<>> <=> Len(stack) = 1)
           /\ Members(t) \subseteq Members(stack)
           /\ Members(stack) \subseteq Members(t) \cup {Top}
           /\ t # <<>> => t[1] = stack[1]
<1> DEFINE t == SubSeq(stack, 1, Len(stack) - 1)
<1>0. stack \in Seq(T) /\ Len(stack) \in Nat /\ Len(stack) > 0
  OBVIOUS
<1>1. /\ t \in Seq(T) /\ Len(t) = Len(stack) - 1
      /\ \A i \in 1..Len(t) : t[i] = stack[i]
  <2> DEFINE n == Len(stack) - 1
  <2>1. n \in Int /\ 1 \in Int /\ n >= 0 /\ \A i \in 1..n : stack[i] \in T
    BY <1>0
  <2> HIDE DEF n
  <2>2. /\ SubSeq(stack, 1, n) \in Seq(T)
        /\ Len(SubSeq(stack, 1, n)) = IF 1 =< n THEN n - 1 + 1 ELSE 0
        /\ \A i \in 1..n - 1 + 1 : SubSeq(stack, 1, n)[i] = stack[1 + i - 1]
    BY <2>1, SubSeqProperties
  <2>3. t = SubSeq(stack, 1, n)
    BY DEF n
  <2> HIDE DEF t
  <2>4. t \in Seq(T) /\ Len(t) = n /\ \A i \in 1..n : t[i] = stack[i]
    BY <2>1, <2>2, <2>3
  <2>5. QED BY <2>4 DEF n
<1> HIDE DEF t
<1>2. t = <<>> <=> Len(stack) = 1
  BY <1>0, <1>1
<1>3. t # <<>> => t[1] = stack[1]
  BY <1>0, <1>1
<1>4. Members(t) \subseteq Members(stack)
  BY <1>0, <1>1 DEF Members
<1>5. Members(stack) \subseteq Members(t) \cup {Top}
  <2> SUFFICES ASSUME NEW i \in 1..Len(stack), i # Len(stack) PROVE stack[i] \in Members(t)
    BY DEF Members, Top
  <2>1. i \in 1..Len(t)
    BY <1>0, <1>1
  <2>2. QED BY <1>0, <1>1, <2>1 DEF Members
<1>6. QED BY <1>0, <1>1, <1>2, <1>3, <1>4, <1>5 DEF t

\* The first item of a list, and the rest.
LEMMA HeadMembers ==
    ASSUME NEW T, NEW s \in Seq(T), s # <<>>
    PROVE  /\ Head(s) \in T /\ Tail(s) \in Seq(T)
           /\ Members(s) = {Head(s)} \cup Members(Tail(s))
<1>1. /\ Head(s) \in T /\ Tail(s) \in Seq(T) /\ Len(s) \in Nat /\ Len(s) # 0
      /\ Len(Tail(s)) = Len(s) - 1 /\ Head(s) = s[1]
      /\ \A i \in 1..Len(s) - 1 : Tail(s)[i] = s[i + 1]
  OBVIOUS
<1> DEFINE t == Tail(s)
           h == Head(s)
<1> HIDE DEF t, h
<1>2. /\ Len(s) \in Nat /\ Len(s) # 0 /\ Len(t) = Len(s) - 1 /\ h = s[1]
      /\ \A i \in 1..Len(s) - 1 : t[i] = s[i + 1]
  BY <1>1 DEF t, h
<1>3. Members(s) \subseteq {h} \cup Members(t)
  <2> SUFFICES ASSUME NEW i \in 1..Len(s), i # 1 PROVE s[i] \in Members(t)
    BY <1>2 DEF Members
  <2>1. i - 1 \in 1..Len(t) /\ t[i - 1] = s[i]
    BY <1>2
  <2>2. QED BY <2>1 DEF Members
<1>4. Members(t) \subseteq Members(s)
  <2> SUFFICES ASSUME NEW i \in 1..Len(t) PROVE t[i] \in Members(s)
    BY DEF Members
  <2>1. i + 1 \in 1..Len(s) /\ t[i] = s[i + 1]
    BY <1>2
  <2>2. QED BY <2>1 DEF Members
<1>5. h \in Members(s)
  BY <1>2 DEF Members
<1>6. QED BY <1>1, <1>3, <1>4, <1>5 DEF t, h

(***************************************************************************)
(* The innermost frame.                                                    *)
(***************************************************************************)
\* Every nonempty set of numbers has a least one (WellFoundedInduction).
LEMMA LeastElement ==
    ASSUME NEW T \in SUBSET Nat, T # {}
    PROVE  \E n \in T : \A m \in T : n =< m
<1> DEFINE R == OpToRel(<, Nat)
<1>1. IsWellFoundedOn(R, Nat)
  BY NatLessThanWellFounded
<1>2. \A x, y \in Nat : <<y, x>> \in R <=> y < x
  BY DEF OpToRel
<1> HIDE DEF R
<1>3. PICK n \in T : \A m \in T : <<m, n>> \notin R
  BY <1>1, WFMin
<1>4. \A m \in T : ~(m < n)
  BY <1>2, <1>3
<1>5. QED BY <1>4

\* What is in a file the program opens.
LEMMA ItemFacts ==
    ASSUME job \in Jobs
    PROVE  /\ \A f \in File : job.text[f] \in Seq(Items) /\ Members(job.text[f]) \subseteq Items
           /\ \A it \in Includes : it.targets \in Seq(File)
                                   /\ DOMAIN it.targets = 1..Len(it.targets)
           /\ File \cap Lines = {}
<1>1. \A f \in File : job.text[f] \in Seq(Items)
  BY JobsAssumption DEF JobsAssumption
<1>2. \A f \in File : Members(job.text[f]) \subseteq Items
  BY <1>1 DEF Members
<1>3. \A it \in Includes : it.targets \in Seq(File)
  BY JobsAssumption DEF JobsAssumption, Includes
<1>4. \A it \in Includes : DOMAIN it.targets = 1..Len(it.targets)
  BY <1>3
<1>5. File \cap Lines = {}
  BY JobsAssumption DEF JobsAssumption, Lines
<1>6. QED BY <1>1, <1>2, <1>3, <1>4, <1>5

\* A new frame has nothing pending.
LEMMA NewFrame ==
    ASSUME NEW file \in File, NEW source \in File \cup Lines, NEW items \in Seq(Items),
           NEW chain \in Seq(File \cup Lines), chain # <<>>, source = chain[Len(chain)]
    PROVE  SoundWork(Frame(file, source, items, chain))
BY DEF SoundWork, FrameType, Frame, NoItem

\* The innermost frame is one of the stack's, and sound as they are.
LEMMA TopSound ==
    ASSUME Shape, stack # <<>>
    PROVE  /\ Top \in Members(stack) /\ SoundWork(Top) /\ Top.chain \in loads
           /\ stack \in Seq(FrameType) /\ job \in Jobs
<1>1. Top \in Members(stack)
  BY DEF Shape, Top, Members
<1>2. QED BY <1>1 DEF Shape

\* At an item: it is one there may be, and working it off leaves the frame sound.
LEMMA AtItemFacts ==
    ASSUME Shape, AtItem
    PROVE  /\ Item \in Items /\ Members(Top.todo) = {Item} \cup Members(Tail(Top.todo))
           /\ SoundWork(ItemDone)
           /\ ItemDone.todo = Tail(Top.todo) /\ ItemDone.pending = Top.pending
           /\ ItemDone.by = Top.by /\ ItemDone.chain = Top.chain
           /\ ItemDone.file = Top.file
<1>1. SoundWork(Top) /\ Top.todo \in Seq(Items) /\ Top.todo # <<>>
  BY TopSound DEF AtItem, SoundWork, FrameType
<1>2. /\ Item \in Items /\ Tail(Top.todo) \in Seq(Items)
      /\ Members(Top.todo) = {Item} \cup Members(Tail(Top.todo))
  BY <1>1, HeadMembers DEF Item
<1>3. QED BY <1>1, <1>2 DEF SoundWork, FrameType, ItemDone

\* At a target: the next one is a file that the include names.
LEMMA AtTargetFacts ==
    ASSUME Shape, AtTarget
    PROVE  /\ NextPlace \in Top.pending /\ Top.by \in Includes
           /\ NextPlace \in DOMAIN Top.by.targets /\ Target \in File
           /\ SoundWork(TargetDone)
           /\ TargetDone.todo = Top.todo /\ TargetDone.pending = Top.pending \ {NextPlace}
           /\ TargetDone.by = Top.by /\ TargetDone.chain = Top.chain
           /\ TargetDone.file = Top.file
<1>1. /\ SoundWork(Top) /\ Top.pending \in SUBSET Nat /\ Top.pending # {}
      /\ Top.pending \subseteq DOMAIN Top.by.targets
      /\ Top.by \in Includes \cup {NoItem}
  BY TopSound DEF AtTarget, SoundWork, FrameType
<1>2. \E i \in Top.pending : \A j \in Top.pending : i =< j
  BY <1>1, LeastElement
<1>3. NextPlace \in Top.pending
  BY <1>2 DEF NextPlace
<1>4. Top.by \in Includes
  BY <1>1, <1>3 DEF NoItem
<1>5. Target \in File
  BY <1>1, <1>3, <1>4, TopSound, ItemFacts DEF AtTarget, Target
<1>6. /\ SoundWork(TargetDone)
      /\ TargetDone.todo = Top.todo /\ TargetDone.pending = Top.pending \ {NextPlace}
      /\ TargetDone.by = Top.by /\ TargetDone.chain = Top.chain
      /\ TargetDone.file = Top.file
  BY <1>1 DEF SoundWork, FrameType, TargetDone
<1>7. QED BY <1>1, <1>3, <1>4, <1>5, <1>6

(***************************************************************************)
(* What is told stays told.                                                *)
(***************************************************************************)
\* The result only grows, and so does what it tells.
LEMMA ToldStays ==
    ASSUME job' = job, loads \subseteq loads', issues \subseteq issues'
    PROVE  /\ \A it : Paths(it)' = Paths(it)
           /\ \A p, it, f : TargetTold(p, it, f) => TargetTold(p, it, f)'
           /\ \A p, it : Told(p, it) => Told(p, it)'
           /\ \A frame, p, it : Ahead(frame, p, it) => Ahead(frame, p, it)'
<1>1. \A it : Paths(it)' = Paths(it)
  BY DEF Paths
<1>2. \A p, it, f : TargetTold(p, it, f) => TargetTold(p, it, f)'
  BY DEF TargetTold
<1>3. \A p, it : Told(p, it) => Told(p, it)'
  BY <1>1, <1>2 DEF Told
<1>4. \A frame, p, it : Ahead(frame, p, it) => Ahead(frame, p, it)'
  BY <1>1, <1>2 DEF Ahead
<1>5. QED BY <1>1, <1>2, <1>3, <1>4

\* What a step owes of the files that were loaded before it, if it only touches the
\* innermost frame: what that frame had ahead is now told or ahead somewhere.
LEMMA StillOwed ==
    ASSUME Shape, Owed, job' = job, loads \subseteq loads', issues \subseteq issues',
           Members(stack) \subseteq Members(stack)' \cup {Top},
           \A p, it : it \in Includes /\ Ahead(Top, p, it) =>
               Told(p, it)' \/ \E frame \in Members(stack)' : Ahead(frame, p, it)'
    PROVE  \A p \in loads : OwedOf(p)'
<1> SUFFICES ASSUME NEW p \in loads, p[Len(p)] \in File,
                    NEW it \in Members(job.text[p[Len(p)]]),
                    it.kind \in {"include", "optional"}
             PROVE  Told(p, it)' \/ \E frame \in Members(stack)' : Ahead(frame, p, it)'
  BY DEF OwedOf
<1>1. it \in Includes
  BY ItemFacts DEF Shape, Includes
<1>2. CASE Told(p, it)
  BY <1>2, ToldStays
<1>3. ASSUME NEW frame \in Members(stack), Ahead(frame, p, it)
      PROVE  Told(p, it)' \/ \E fr \in Members(stack)' : Ahead(fr, p, it)'
  <2>1. CASE frame = Top
    BY <1>1, <1>3, <2>1
  <2>2. CASE frame \in Members(stack)'
    BY <1>3, <2>2, ToldStays
  <2>3. QED BY <2>1, <2>2
<1>4. QED BY <1>2, <1>3 DEF Owed, OwedOf

(***************************************************************************)
(* Steps on the innermost frame.                                           *)
(***************************************************************************)
\* The innermost frame is replaced by one that has the rest ahead.
LEMMA ReplacePreserves ==
    ASSUME IInv, stack # <<>>, phase = "resolving",
           NEW new, SoundWork(new), new.chain = Top.chain, new.file = Top.file,
           stack' = WithTop(new), job' = job, phase' = phase, loads' = loads,
           issues \subseteq issues', edges \subseteq edges',
           \A p, it : it \in Includes /\ Ahead(Top, p, it) =>
               Told(p, it)' \/ Ahead(new, p, it)'
    PROVE  IInv'
<1>1. Shape /\ Owed /\ GraphExplainsLoads /\ stack \in Seq(FrameType) /\ new \in FrameType
  BY DEF IInv, Shape, SoundWork
<1>2. /\ WithTop(new) \in Seq(FrameType) /\ WithTop(new) # <<>>
      /\ Top \in Members(stack) /\ new \in Members(WithTop(new))
      /\ Members(WithTop(new)) \subseteq Members(stack) \cup {new}
      /\ Members(stack) \subseteq Members(WithTop(new)) \cup {Top}
      /\ WithTop(new)[1] = IF Len(stack) = 1 THEN new ELSE stack[1]
      /\ Len(stack) = 1 => Top = stack[1]
  BY <1>1, ReplacedMembers
<1>3. /\ stack' \in Seq(FrameType) /\ stack' # <<>> /\ new \in Members(stack')
      /\ Members(stack') \subseteq Members(stack) \cup {new}
      /\ Members(stack) \subseteq Members(stack') \cup {Top}
      /\ stack'[1].file = Root
  BY <1>1, <1>2 DEF Shape
<1>4. Shape'
  <2>1. Top.chain \in loads
    BY <1>1, TopSound
  <2>2. \A frame \in Members(stack') : SoundWork(frame) /\ frame.chain \in loads'
    BY <1>1, <1>3, <2>1 DEF Shape
  <2>3. QED BY <1>1, <1>3, <2>2 DEF Shape
<1>5. Owed'
  <2>1. \A p \in loads : OwedOf(p)'
    BY <1>1, <1>3, StillOwed
  <2>2. QED BY <2>1 DEF Owed
<1>6. GraphExplainsLoads'
  BY <1>1 DEF GraphExplainsLoads
<1>7. QED BY <1>4, <1>5, <1>6 DEF IInv

\* A file, or what a command printed, is opened on top of the innermost frame.
LEMMA PushPreserves ==
    ASSUME IInv, stack # <<>>, phase = "resolving",
           NEW new, SoundWork(new), new.chain = Top.chain, new.file = Top.file,
           NEW file \in File, NEW source \in File \cup Lines, NEW items \in Seq(Items),
           source \in File => items = job.text[source], NEW by,
           stack' = Push(WithTop(new), Frame(file, source, items, ChainFor(source))),
           job' = job, phase' = phase, issues' = issues,
           loads' = loads \cup {ChainFor(source)},
           edges' = edges \cup {Edge(by, source)},
           \A p, it : it \in Includes /\ Ahead(Top, p, it) =>
               Told(p, it)' \/ Ahead(new, p, it)'
    PROVE  IInv'
<1>a. PICK c : c = ChainFor(source)
  OBVIOUS
<1>b. PICK pushed : pushed = Frame(file, source, items, c)
  OBVIOUS
<1>1. Shape /\ Owed /\ GraphExplainsLoads /\ stack \in Seq(FrameType) /\ new \in FrameType
  BY DEF IInv, Shape, SoundWork
<1>2. /\ WithTop(new) \in Seq(FrameType) /\ WithTop(new) # <<>>
      /\ Top \in Members(stack) /\ new \in Members(WithTop(new))
      /\ Members(WithTop(new)) \subseteq Members(stack) \cup {new}
      /\ Members(stack) \subseteq Members(WithTop(new)) \cup {Top}
      /\ WithTop(new)[1] = IF Len(stack) = 1 THEN new ELSE stack[1]
      /\ Len(stack) = 1 => Top = stack[1]
  BY <1>1, ReplacedMembers
<1>3. /\ Top.chain \in Seq(File \cup Lines) /\ Top.chain # <<>> /\ Top.chain \in loads
      /\ Top.source = Top.chain[Len(Top.chain)]
  BY <1>1, TopSound DEF SoundWork, FrameType
<1>4. /\ c \in Seq(File \cup Lines) /\ c # <<>>
      /\ Len(Top.chain) \in Nat /\ Len(c) = Len(Top.chain) + 1 /\ c[Len(c)] = source
      /\ \A i \in 1..Len(Top.chain) : c[i] = Top.chain[i]
  BY <1>a, <1>3, SMTT(60) DEF ChainFor
<1>5. /\ SoundWork(pushed) /\ pushed \in FrameType
      /\ pushed.todo = items /\ pushed.chain = c
  <2>1. SoundWork(pushed)
    BY <1>b, <1>4, NewFrame
  <2>2. QED BY <1>b, <2>1 DEF SoundWork, Frame
<1>6. stack' = Push(WithTop(new), pushed)
  BY <1>a, <1>b
<1>7. /\ stack' \in Seq(FrameType) /\ stack' # <<>>
      /\ Members(stack') = Members(WithTop(new)) \cup {pushed}
      /\ stack'[1] = WithTop(new)[1]
  <2>1. PICK s : s = WithTop(new)
    OBVIOUS
  <2>2. s \in Seq(FrameType) /\ s # <<>> /\ pushed \in FrameType
    BY <1>2, <1>5, <2>1
  <2>3. /\ Push(s, pushed) \in Seq(FrameType) /\ Push(s, pushed) # <<>>
        /\ Members(Push(s, pushed)) = Members(s) \cup {pushed}
        /\ Push(s, pushed)[1] = s[1]
    BY <2>2, PushedMembers
  <2>4. QED BY <1>6, <2>1, <2>3
<1>8. /\ Members(stack') \subseteq Members(stack) \cup {new, pushed}
      /\ Members(stack) \subseteq Members(stack') \cup {Top}
      /\ new \in Members(stack') /\ pushed \in Members(stack')
      /\ stack'[1].file = Root
  BY <1>1, <1>2, <1>7 DEF Shape
<1>9. loads' = loads \cup {c}
  BY <1>a
<1>10. Shape'
  <2>1. \A frame \in Members(stack') : SoundWork(frame) /\ frame.chain \in loads'
    BY <1>1, <1>3, <1>5, <1>8, <1>9 DEF Shape
  <2>2. QED BY <1>1, <1>7, <1>8, <2>1 DEF Shape
<1>11. Owed'
  <2>1. \A p \in loads : OwedOf(p)'
    BY <1>1, <1>8, <1>9, StillOwed
  <2>2. OwedOf(c)'
    <3> SUFFICES ASSUME c[Len(c)] \in File, NEW it \in Members(job.text[c[Len(c)]])
                 PROVE  \E frame \in Members(stack') : Ahead(frame, c, it)'
      BY <1>4 DEF OwedOf
    <3>1. it \in Members(pushed.todo)
      BY <1>4, <1>5
    <3>2. Ahead(pushed, c, it)'
      BY <1>5, <3>1 DEF Ahead
    <3>3. QED BY <1>8, <3>2
  <2>3. QED BY <1>9, <2>1, <2>2 DEF Owed
<1>12. GraphExplainsLoads'
  <2> SUFFICES ASSUME NEW p \in loads', NEW i \in 2..Len(p)
               PROVE  \E e \in edges' : e[1] = p[i - 1] /\ e[3] = p[i]
    BY DEF GraphExplainsLoads
  <2>1. CASE p \in loads
    BY <1>1, <2>1 DEF GraphExplainsLoads
  <2>2. CASE p = c /\ i \in 2..Len(Top.chain)
    <3>1. \E e \in edges : e[1] = Top.chain[i - 1] /\ e[3] = Top.chain[i]
      BY <1>1, <1>3, <2>2 DEF GraphExplainsLoads
    <3>2. i - 1 \in 1..Len(Top.chain) /\ i \in 1..Len(Top.chain)
      BY <1>4, <2>2
    <3>3. c[i - 1] = Top.chain[i - 1] /\ c[i] = Top.chain[i]
      BY <1>4, <3>2
    <3>4. QED BY <2>2, <3>1, <3>3
  <2>3. CASE p = c /\ i = Len(c)
    <3>1. Edge(by, source)[1] = Top.source /\ Edge(by, source)[3] = source
      BY DEF Edge
    <3>2. i - 1 = Len(Top.chain) /\ i - 1 \in 1..Len(Top.chain)
      BY <1>3, <1>4, <2>3
    <3>3. c[i - 1] = Top.source /\ c[i] = source
      BY <1>3, <1>4, <2>3, <3>2
    <3>4. QED BY <2>3, <3>1, <3>3
  <2>4. CASE p = c
    BY <1>4, <2>2, <2>3, <2>4
  <2>5. QED BY <1>9, <2>1, <2>4
<1>13. QED BY <1>10, <1>11, <1>12 DEF IInv

\* A frame whose work is done is left.
LEMMA ReturnPreserves == ASSUME IInv, Return PROVE IInv'
<1> DEFINE t == SubSeq(stack, 1, Len(stack) - 1)
<1>1. /\ phase = "resolving" /\ stack # <<>> /\ Top.pending = {} /\ Top.todo = <<>>
      /\ stack' = t
      /\ phase' = IF Len(stack) = 1 THEN "done" ELSE "resolving"
      /\ job' = job /\ issues' = issues /\ edges' = edges /\ loads' = loads
  BY DEF Return
<1>2. Shape /\ Owed /\ GraphExplainsLoads /\ stack \in Seq(FrameType)
  BY DEF IInv, Shape
<1>3. /\ t \in Seq(FrameType) /\ (t = <<>> <=> Len(stack) = 1)
      /\ Members(t) \subseteq Members(stack)
      /\ Members(stack) \subseteq Members(t) \cup {Top}
      /\ t # <<>> => t[1] = stack[1]
  BY <1>1, <1>2, PoppedMembers
<1> HIDE DEF t
<1>4. Shape'
  BY <1>1, <1>2, <1>3 DEF Shape
<1>5. \A p, it : Ahead(Top, p, it) => Told(p, it)'
  <2> SUFFICES ASSUME NEW p, NEW it, Ahead(Top, p, it) PROVE Told(p, it)'
    OBVIOUS
  <2>1. it \notin Members(Top.todo)
    BY <1>1 DEF Members
  <2>2. Told(p, it)
    BY <1>1, <2>1 DEF Ahead, Told
  <2>3. QED BY <1>1, <2>2, ToldStays
<1>6. Owed'
  <2>1. \A p \in loads : OwedOf(p)'
    BY <1>1, <1>2, <1>3, <1>5, StillOwed
  <2>2. QED BY <1>1, <2>1 DEF Owed
<1>7. GraphExplainsLoads'
  BY <1>1, <1>2 DEF GraphExplainsLoads
<1>8. QED BY <1>4, <1>6, <1>7 DEF IInv

(***************************************************************************)
(* The actions.                                                            *)
(***************************************************************************)
\* At an item nothing is pending: what is ahead is that item or behind it.
LEMMA AheadAtItem ==
    ASSUME Shape, AtItem, NEW p, NEW it, Ahead(Top, p, it), ~Told(p, it)
    PROVE  p = Top.chain /\ (it = Item \/ it \in Members(Tail(Top.todo)))
<1>1. Top.pending = {} /\ Top.chain = p
  BY DEF AtItem, Ahead
<1>2. it \in Members(Top.todo)
  BY <1>1 DEF Ahead, Told
<1>3. QED BY <1>1, <1>2, AtItemFacts

\* An item that is no include, or one without targets that is told.
LEMMA ItemDonePreserves ==
    ASSUME IInv, AtItem, stack' = WithTop(ItemDone),
           job' = job, phase' = phase, loads' = loads,
           issues \subseteq issues', edges \subseteq edges',
           \A p, it : p = Top.chain /\ it = Item /\ it \in Includes => Told(p, it)'
    PROVE  IInv'
<1>1. Shape /\ stack # <<>> /\ phase = "resolving"
  BY DEF IInv, AtItem
<1>2. PICK new : new = ItemDone
  OBVIOUS
<1>3. /\ SoundWork(new) /\ new.todo = Tail(Top.todo)
      /\ new.chain = Top.chain /\ new.file = Top.file
  BY <1>1, <1>2, AtItemFacts
<1>4. ASSUME NEW p, NEW it, it \in Includes, Ahead(Top, p, it)
      PROVE  Told(p, it)' \/ Ahead(new, p, it)'
  <2>1. CASE Told(p, it)
    BY <2>1, ToldStays
  <2>2. CASE ~Told(p, it)
    <3>1. p = Top.chain /\ (it = Item \/ it \in Members(Tail(Top.todo)))
      BY <1>1, <1>4, <2>2, AheadAtItem
    <3>2. CASE it = Item
      BY <1>4, <3>1, <3>2
    <3>3. CASE it \in Members(new.todo)
      BY <1>3, <3>1, <3>3 DEF Ahead
    <3>4. QED BY <1>3, <3>1, <3>2, <3>3
  <2>3. QED BY <2>1, <2>2
<1>5. QED BY <1>1, <1>2, <1>3, <1>4, ReplacePreserves

\* Once the next target is told, what the innermost frame had ahead still is.
LEMMA NextTold ==
    ASSUME Shape, AtTarget, job' = job, loads \subseteq loads', issues \subseteq issues',
           \A q, by, f : q = Top.chain /\ by = Top.by /\ f = Target => TargetTold(q, by, f)',
           NEW new, new.todo = Top.todo, new.by = Top.by, new.chain = Top.chain,
           new.pending = Top.pending \ {NextPlace},
           NEW p, NEW it, Ahead(Top, p, it)
    PROVE  Ahead(new, p, it)'
<1>1. Top.chain = p /\ new.chain = p
  BY DEF Ahead
<1>2. CASE it \in Members(Top.todo)
  BY <1>1, <1>2 DEF Ahead
<1>3. CASE it \notin Members(Top.todo)
  <2>1. /\ Top.by = it /\ Paths(it) # {}
        /\ \A i \in Paths(it) : TargetTold(p, it, it.targets[i]) \/ i \in Top.pending
    BY <1>3 DEF Ahead
  <2>2. /\ Paths(it)' = Paths(it)
        /\ \A i \in Paths(it) :
              TargetTold(p, it, it.targets[i]) => TargetTold(p, it, it.targets[i])'
    BY ToldStays
  <2>3. it.targets[NextPlace] = Target
    BY <2>1 DEF Target
  <2>4. \A i \in Paths(it) : i = NextPlace => TargetTold(p, it, it.targets[i])'
    <3> SUFFICES ASSUME NEW i \in Paths(it), i = NextPlace
                 PROVE  TargetTold(p, it, it.targets[i])'
      OBVIOUS
    <3>1. PICK f : f = Target
      OBVIOUS
    <3>2. TargetTold(p, it, f)'
      BY <1>1, <2>1, <3>1
    <3>3. QED BY <2>3, <3>1, <3>2
  <2>5. \A i \in Paths(it) : TargetTold(p, it, it.targets[i])' \/ i \in new.pending
    BY <2>1, <2>2, <2>4
  <2>6. QED BY <1>1, <2>1, <2>2, <2>5 DEF Ahead
<1>4. QED BY <1>2, <1>3

\* The next target is told; the others of its include are still pending.
LEMMA TargetDonePreserves ==
    ASSUME IInv, AtTarget, stack' = WithTop(TargetDone),
           job' = job, phase' = phase, loads' = loads,
           edges \subseteq edges',
           \E code : issues' = issues \cup {<<code, Top.by.id, Target>>}
    PROVE  IInv'
<1>1. Shape /\ stack # <<>> /\ phase = "resolving"
  BY DEF IInv, AtTarget
<1>2. PICK new : new = TargetDone
  OBVIOUS
<1>3. /\ SoundWork(new) /\ new.todo = Top.todo /\ new.by = Top.by
      /\ new.chain = Top.chain /\ new.file = Top.file
      /\ new.pending = Top.pending \ {NextPlace}
  BY <1>1, <1>2, AtTargetFacts
<1>4. ASSUME NEW p, NEW it, it \in Includes, Ahead(Top, p, it)
      PROVE  Ahead(new, p, it)'
  <2>1. issues \subseteq issues'
    OBVIOUS
  <2>2. \A q, by, f : q = Top.chain /\ by = Top.by /\ f = Target => TargetTold(q, by, f)'
    BY DEF TargetTold
  <2>3. QED BY <1>1, <1>3, <1>4, <2>1, <2>2, NextTold
<1>5. QED BY <1>1, <1>2, <1>3, <1>4, ReplacePreserves

\* Nothing to include, or a first file to open.
LEMMA IncludePreserves == ASSUME IInv, IncludeNothing \/ StartInclude PROVE IInv'
<1>1. Shape /\ AtItem /\ stack # <<>> /\ phase = "resolving"
  BY DEF IInv, IncludeNothing, StartInclude, AtItem
<1>2. CASE IncludeNothing
  <2>1. /\ stack' = WithTop(ItemDone) /\ Paths(Item) = {}
        /\ issues' = IssuesOfNoTarget(Item)
        /\ job' = job /\ phase' = phase /\ loads' = loads /\ edges' = edges
    BY <1>2 DEF IncludeNothing
  <2>2. issues \subseteq issues'
    BY <2>1 DEF IssuesOfNoTarget
  <2>3. ASSUME NEW p, NEW it, it = Item, it \in Includes PROVE Told(p, it)'
    <3>1. Paths(it)' = {}
      BY <2>1, <2>3 DEF Paths
    <3>2. it.kind = "include" /\ job.server # "nginx" => <<"not_found", it.id, "none">> \in issues'
      BY <2>1, <2>3 DEF IssuesOfNoTarget
    <3>3. QED BY <2>1, <3>1, <3>2 DEF Told
  <2>4. QED BY <1>1, <2>1, <2>2, <2>3, ItemDonePreserves
<1>3. CASE StartInclude
  <2>1. PICK new : new = [ItemDone EXCEPT !.pending = Paths(Item), !.by = Item]
    OBVIOUS
  <2>2. /\ stack' = WithTop(new) /\ Paths(Item) # {} /\ Item.kind \in {"include", "optional"}
        /\ issues' = issues
        /\ job' = job /\ phase' = phase /\ loads' = loads /\ edges' = edges
    BY <1>3, <2>1 DEF StartInclude
  <2>3. /\ SoundWork(ItemDone) /\ ItemDone.todo = Tail(Top.todo)
        /\ ItemDone.chain = Top.chain /\ ItemDone.file = Top.file /\ Item \in Includes
    BY <1>1, <2>2, AtItemFacts DEF Includes
  <2>4. Paths(Item) \subseteq DOMAIN Item.targets /\ Paths(Item) \in SUBSET Nat
    BY <1>1, <2>3, ItemFacts DEF Paths, Shape
  <2>5. /\ SoundWork(new) /\ new.todo = Tail(Top.todo) /\ new.by = Item
        /\ new.pending = Paths(Item) /\ new.chain = Top.chain /\ new.file = Top.file
    BY <2>1, <2>3, <2>4 DEF SoundWork, FrameType
  <2>6. ASSUME NEW p, NEW it, it \in Includes, Ahead(Top, p, it)
        PROVE  Told(p, it)' \/ Ahead(new, p, it)'
    <3>1. CASE Told(p, it)
      BY <2>2, <3>1, ToldStays
    <3>2. CASE ~Told(p, it)
      <4>1. p = Top.chain /\ (it = Item \/ it \in Members(Tail(Top.todo)))
        BY <1>1, <2>6, <3>2, AheadAtItem
      <4>2. Ahead(new, p, it)
        BY <2>2, <2>5, <4>1 DEF Ahead
      <4>3. QED BY <2>2, <4>2, ToldStays
    <3>3. QED BY <3>1, <3>2
  <2>7. QED BY <1>1, <2>2, <2>5, <2>6, ReplacePreserves
<1>4. QED BY <1>2, <1>3

\* Other items, and commands that do not print anything to resolve.
LEMMA ItemPreserves ==
    ASSUME IInv, KeepNode \/ ShellCycle \/ ShellSkipped \/ ShellFails
    PROVE  IInv'
<1>1. /\ AtItem /\ stack' = WithTop(ItemDone) /\ Item.kind \notin {"include", "optional"}
      /\ job' = job /\ phase' = phase /\ loads' = loads
      /\ issues \subseteq issues' /\ edges \subseteq edges'
  <2>1. CASE KeepNode
    BY <2>1 DEF KeepNode
  <2>2. CASE ShellCycle
    BY <2>2 DEF ShellCycle
  <2>3. CASE ShellSkipped
    BY <2>3 DEF ShellSkipped
  <2>4. CASE ShellFails
    BY <2>4 DEF ShellFails, AfterFailure
  <2>5. QED BY <2>1, <2>2, <2>3, <2>4
<1>2. Item \notin Includes
  BY <1>1 DEF Includes
<1>3. QED BY <1>1, <1>2, ItemDonePreserves

\* Includes that are not followed.
LEMMA UnfollowedPreserves ==
    ASSUME IInv, RefuseSelfInclude \/ RefuseCycle \/ IncludeFails
    PROVE  IInv'
<1>1. /\ AtTarget /\ stack' = WithTop(TargetDone)
      /\ job' = job /\ phase' = phase /\ loads' = loads /\ edges \subseteq edges'
      /\ \E code : issues' = issues \cup {<<code, Top.by.id, Target>>}
  <2>1. CASE RefuseSelfInclude
    BY <2>1 DEF RefuseSelfInclude
  <2>2. CASE RefuseCycle
    BY <2>2 DEF RefuseCycle
  <2>3. CASE IncludeFails
    BY <2>3 DEF IncludeFails, Followed, AddEdge
  <2>4. QED BY <2>1, <2>2, <2>3
<1>2. QED BY <1>1, TargetDonePreserves

\* A file is followed: it is loaded behind the chain of the include.
LEMMA IncludeFilePreserves == ASSUME IInv, IncludeFile PROVE IInv'
<1>1. /\ AtTarget /\ Shape /\ stack # <<>> /\ phase = "resolving"
      /\ job' = job /\ phase' = phase /\ issues' = issues
      /\ loads' = loads \cup {ChainFor(Target)}
      /\ edges' = edges \cup {Edge(Top.by.id, Target)}
      /\ stack' = Push(WithTop(TargetDone),
                       Frame(Target, Target, job.text[Target], ChainFor(Target)))
  BY DEF IInv, IncludeFile, Followed, AtTarget, AddEdge, AfterTarget
<1>2. PICK new : new = TargetDone
  OBVIOUS
<1>3. PICK f : f = Target
  OBVIOUS
<1>4. /\ SoundWork(new) /\ new.todo = Top.todo /\ new.by = Top.by
      /\ new.chain = Top.chain /\ new.file = Top.file
      /\ new.pending = Top.pending \ {NextPlace} /\ f \in File
  BY <1>1, <1>2, <1>3, AtTargetFacts
<1>5. PICK items : items = job.text[f]
  OBVIOUS
<1>6. items \in Seq(Items)
  BY <1>1, <1>4, <1>5, ItemFacts DEF Shape
<1>7. PICK by : by = Top.by.id
  OBVIOUS
<1>8. \A q, it, g : q = Top.chain /\ it = Top.by /\ g = Target => TargetTold(q, it, g)'
  BY <1>1 DEF TargetTold, ChainFor
<1>9. ASSUME NEW p, NEW it, Ahead(Top, p, it) PROVE Ahead(new, p, it)'
  <2>1. loads \subseteq loads' /\ issues \subseteq issues' /\ job' = job
    BY <1>1
  <2>2. QED BY <1>1, <1>4, <1>8, <1>9, <2>1, NextTold
<1>10. /\ stack' = Push(WithTop(new), Frame(f, f, items, ChainFor(f)))
       /\ loads' = loads \cup {ChainFor(f)} /\ edges' = edges \cup {Edge(by, f)}
  BY <1>1, <1>2, <1>3, <1>5, <1>7
<1>11. f \in File \cup Lines /\ (f \in File => items = job.text[f])
  BY <1>4, <1>5
<1>12. QED BY <1>1, <1>4, <1>6, <1>9, <1>10, <1>11, PushPreserves

\* A command prints something: it is resolved behind the chain of its file.
LEMMA RunShellPreserves == ASSUME IInv, RunShell PROVE IInv'
<1>1. /\ AtItem /\ Shape /\ stack # <<>> /\ phase = "resolving" /\ Item.kind = "shell"
      /\ job' = job /\ phase' = phase /\ issues' = issues
      /\ loads' = loads \cup {ChainFor(ShellTarget(Item))}
      /\ edges' = edges \cup {Edge(Item.id, ShellTarget(Item))}
      /\ stack' = Push(WithTop(ItemDone),
                       Frame(Top.file, ShellTarget(Item), Item.output,
                             ChainFor(ShellTarget(Item))))
  BY DEF IInv, RunShell, AtItem
<1>2. PICK new : new = ItemDone
  OBVIOUS
<1>3. PICK it : it = Item
  OBVIOUS
<1>4. /\ SoundWork(new) /\ new.todo = Tail(Top.todo)
      /\ new.chain = Top.chain /\ new.file = Top.file /\ it \in Items
  BY <1>1, <1>2, <1>3, AtItemFacts
<1>5. it.kind = "shell" /\ it.line \in Lines /\ it.line \notin File /\ it.output \in Seq(Items)
  BY <1>1, <1>3, <1>4, JobsAssumption DEF JobsAssumption, Lines
<1>6. PICK file : file = Top.file
  OBVIOUS
<1>7. file \in File
  BY <1>1, <1>6, TopSound DEF SoundWork, FrameType
<1>8. ASSUME NEW p, NEW k, k \in Includes, Ahead(Top, p, k)
      PROVE  Told(p, k)' \/ Ahead(new, p, k)'
  <2>1. CASE Told(p, k)
    BY <1>1, <2>1, ToldStays
  <2>2. CASE ~Told(p, k)
    <3>1. p = Top.chain /\ (k = Item \/ k \in Members(Tail(Top.todo)))
      BY <1>1, <1>8, <2>2, AheadAtItem
    <3>2. k # Item
      BY <1>1, <1>8 DEF Includes
    <3>3. QED BY <1>4, <3>1, <3>2 DEF Ahead
  <2>3. QED BY <2>1, <2>2
<1>9. /\ stack' = Push(WithTop(new), Frame(file, it.line, it.output, ChainFor(it.line)))
      /\ loads' = loads \cup {ChainFor(it.line)}
      /\ edges' = edges \cup {Edge(it.id, it.line)}
  BY <1>1, <1>2, <1>3, <1>6 DEF ShellTarget
<1>10. PICK line : line = it.line
  OBVIOUS
<1>11. PICK items : items = it.output
  OBVIOUS
<1>12. PICK by : by = it.id
  OBVIOUS
<1>13. /\ line \in File \cup Lines /\ items \in Seq(Items)
       /\ line \in File => items = job.text[line]
  BY <1>5, <1>10, <1>11
<1>14. /\ stack' = Push(WithTop(new), Frame(file, line, items, ChainFor(line)))
       /\ loads' = loads \cup {ChainFor(line)} /\ edges' = edges \cup {Edge(by, line)}
  BY <1>9, <1>10, <1>11, <1>12
<1>15. QED BY <1>1, <1>4, <1>7, <1>8, <1>13, <1>14, PushPreserves

\* A resolution begins with the main file, all of whose includes are ahead.
LEMMA InitIInv == Init => IInv
<1> SUFFICES ASSUME Init PROVE IInv
  OBVIOUS
<1>1. PICK root : root = Frame(Root, Root, job.text[Root], <<Root>>)
  OBVIOUS
<1>2. /\ phase = "resolving" /\ job \in Jobs /\ stack = <<root>> /\ loads = {<<Root>>}
      /\ edges = {} /\ Root \in File
  BY <1>1, JobsAssumption DEF Init, JobsAssumption
<1>3. PICK items : items = job.text[Root]
  OBVIOUS
<1>4. /\ items \in Seq(Items) /\ <<Root>> \in Seq(File \cup Lines) /\ <<Root>> # <<>>
      /\ Len(<<Root>>) = 1 /\ <<Root>>[1] = Root
  BY <1>2, <1>3, ItemFacts
<1>5. PICK chain : chain = <<Root>>
  OBVIOUS
<1>6. SoundWork(Frame(Root, Root, items, chain))
  BY <1>2, <1>4, <1>5, NewFrame
<1>7. /\ SoundWork(root) /\ root.chain = <<Root>> /\ root.todo = items /\ root.file = Root
  BY <1>1, <1>3, <1>5, <1>6 DEF Frame
<1>8. Members(stack) = {root} /\ stack \in Seq(FrameType) /\ stack # <<>> /\ stack[1] = root
  <2>1. root \in FrameType
    BY <1>7 DEF SoundWork
  <2>2. QED BY <1>2, <2>1 DEF Members
<1>9. Shape
  BY <1>2, <1>7, <1>8 DEF Shape
<1>10. Owed
  BY <1>2, <1>3, <1>4, <1>7, <1>8 DEF Owed, OwedOf, Ahead
<1>11. GraphExplainsLoads
  <2>1. \A p \in loads : 2..Len(p) = {}
    <3>1. loads = {chain} /\ Len(chain) = 1
      BY <1>2, <1>4, <1>5, Zenon
    <3>2. 2..1 = {}
      OBVIOUS
    <3>3. QED BY <3>1, <3>2
  <2>2. QED BY <2>1 DEF GraphExplainsLoads
<1>12. QED BY <1>9, <1>10, <1>11 DEF IInv

\* Nothing more happens, or an exception leaves the program where it is.
LEMMA StillPreserves == ASSUME IInv, DecodeErrorEscapes \/ UNCHANGED vars PROVE IInv'
<1>1. /\ job' = job /\ loads' = loads /\ issues' = issues /\ stack' = stack
      /\ edges \subseteq edges'
      /\ phase' = phase \/ (stack # <<>> /\ phase' = "raised")
  BY DEF DecodeErrorEscapes, Followed, AtTarget, AddEdge, vars
<1>2. Shape /\ Owed /\ GraphExplainsLoads
  BY DEF IInv
<1>3. Shape'
  BY <1>1, <1>2 DEF Shape
<1>4. Owed'
  BY <1>1, <1>2, ToldStays DEF Owed, OwedOf
<1>5. GraphExplainsLoads'
  BY <1>1, <1>2 DEF GraphExplainsLoads
<1>6. QED BY <1>3, <1>4, <1>5 DEF IInv

\* The invariant holds in every resolution of any files.
THEOREM Invariance == Spec => []IInv
<1>1. IInv /\ [Next]_vars => IInv'
  <2> SUFFICES ASSUME IInv, [Next]_vars PROVE IInv'
    OBVIOUS
  <2>1. CASE IncludeNothing \/ StartInclude
    BY <2>1, IncludePreserves
  <2>2. CASE KeepNode \/ ShellCycle \/ ShellSkipped \/ ShellFails
    BY <2>2, ItemPreserves
  <2>3. CASE RefuseSelfInclude \/ RefuseCycle \/ IncludeFails
    BY <2>3, UnfollowedPreserves
  <2>4. CASE IncludeFile
    BY <2>4, IncludeFilePreserves
  <2>5. CASE RunShell
    BY <2>5, RunShellPreserves
  <2>6. CASE Return
    BY <2>6, ReturnPreserves
  <2>7. CASE DecodeErrorEscapes \/ UNCHANGED vars
    BY <2>7, StillPreserves
  <2>8. QED BY <2>1, <2>2, <2>3, <2>4, <2>5, <2>6, <2>7 DEF Next
<1>2. QED BY InitIInv, <1>1, PTL DEF Spec

\* Type correctness of a resolution, for any files and any calls.
THEOREM TypeCorrect == Spec => []TypeOK
<1>1. IInv => TypeOK
  <2> SUFFICES ASSUME IInv PROVE TypeOK
    OBVIOUS
  <2>1. Shape
    BY DEF IInv
  <2>2. \A i \in 1..Len(stack) : SoundWork(stack[i]) /\ stack[i].chain \in loads
    BY <2>1 DEF Shape, Members
  <2>3. QED BY <2>1, <2>2 DEF Shape, SoundWork, FrameType, TypeOK
<1>2. QED BY Invariance, <1>1, PTL

\* Whatever files include and commands print: an include that was met is followed or has
\* an issue that names its target, and every file that contributed is explained by the
\* include graph.
THEOREM EveryIncludeIsTold == Spec => []IncludesAreTold
<1>1. IInv => IncludesAreTold
  <2> SUFFICES ASSUME IInv PROVE IncludesAreTold
    OBVIOUS
  <2>1. Shape /\ Owed /\ GraphExplainsLoads
    BY DEF IInv
  <2>2. NoIncludeLost
    <3> SUFFICES ASSUME phase = "done", NEW p \in loads, p[Len(p)] \in File,
                        NEW it \in Members(job.text[p[Len(p)]]),
                        it.kind \in {"include", "optional"}
                 PROVE  /\ \A f \in {it.targets[i] : i \in Paths(it)} :
                             Append(p, f) \notin loads =>
                                 \E issue \in issues : issue[2] = it.id /\ issue[3] = f
                        /\ Paths(it) = {} /\ it.kind = "include" /\ job.server # "nginx" =>
                             <<"not_found", it.id, "none">> \in issues
      BY DEF NoIncludeLost
    <3>1. Members(stack) = {}
      BY <2>1 DEF Shape, Members
    <3>2. Told(p, it)
      BY <2>1, <3>1 DEF Owed, OwedOf
    <3>3. QED BY <3>2 DEF Told, TargetTold
  <2>3. QED BY <2>1, <2>2 DEF IncludesAreTold
<1>2. QED BY Invariance, <1>1, PTL

(***************************************************************************)
(* Flattened sequences.                                                    *)
(***************************************************************************)
\* A set that holds 0 and with each i < n also i + 1 holds n.
LEMMA UpTo ==
    ASSUME NEW n \in Nat, NEW H, 0 \in H, \A i \in 0..n - 1 : i \in H => i + 1 \in H
    PROVE  n \in H
<1> SUFFICES ASSUME n \notin H PROVE FALSE
  OBVIOUS
<1>1. PICK k \in (0..n) \ H : \A m \in (0..n) \ H : k =< m
  <2>1. (0..n) \ H \in SUBSET Nat /\ n \in (0..n) \ H
    OBVIOUS
  <2>2. QED BY <2>1, LeastElement
<1>2. k # 0 /\ k - 1 \in 0..n - 1 /\ k - 1 \notin (0..n) \ H
  BY <1>1
<1>3. QED BY <1>1, <1>2

\* One behind the other.  Stated with an operator of its own, which stays folded in
\* the proofs: the provers take sequences apart that they only need to regroup.
Cat(a, b) == a \o b

\* What the proofs need to know of it.
LEMMA CatTyped == ASSUME NEW S, NEW a \in Seq(S), NEW b \in Seq(S) PROVE Cat(a, b) \in Seq(S)
BY ConcatProperties DEF Cat

\* It may be regrouped.
LEMMA CatRegroups ==
    ASSUME NEW S, NEW a \in Seq(S), NEW b \in Seq(S), NEW c \in Seq(S)
    PROVE  Cat(Cat(a, b), c) = Cat(a, Cat(b, c))
BY ConcatAssociative, SMTT(60) DEF Cat

\* The empty sequence adds nothing.
LEMMA CatNothing == ASSUME NEW S, NEW a \in Seq(S) PROVE Cat(a, <<>>) = a /\ Cat(<<>>, a) = a
BY ConcatEmptySeq DEF Cat

\* h[i] is what the first i sequences of ss come to, one behind the other.
Accumulates(h, ss, S) ==
    /\ h \in [0..Len(ss) -> Seq(S)] /\ h[0] = <<>>
    /\ \A i \in 1..Len(ss) : h[i] = Cat(h[i - 1], ss[i])

\* There are such h for any number of sequences.
LEMMA AccumulationExists ==
    ASSUME NEW S, NEW ss \in Seq(Seq(S))
    PROVE  \E h : Accumulates(h, ss, S)
<1> DEFINE n == Len(ss)
           Good(h, k) == /\ h \in [0..k -> Seq(S)] /\ h[0] = <<>>
                         /\ \A i \in 1..k : h[i] = Cat(h[i - 1], ss[i])
           H == {k \in 0..n : \E h : Good(h, k)}
<1>1. n \in Nat /\ \A i \in 1..n : ss[i] \in Seq(S)
  OBVIOUS
<1> HIDE DEF n
<1>2. 0 \in H
  <2>1. Good([i \in 0..0 |-> <<>>], 0)
    OBVIOUS
  <2> HIDE DEF Good
  <2>2. QED BY <1>1, <2>1
<1>3. \A k \in 0..n - 1 : k \in H => k + 1 \in H
  <2> SUFFICES ASSUME NEW k \in 0..n - 1, k \in H PROVE k + 1 \in H
    OBVIOUS
  <2>1. PICK g : Good(g, k)
    OBVIOUS
  <2>2. PICK x : x = Cat(g[k], ss[k + 1])
    OBVIOUS
  <2>3. x \in Seq(S)
    <3>1. g[k] \in Seq(S) /\ ss[k + 1] \in Seq(S)
      BY <1>1, <2>1
    <3>2. QED BY <2>2, <3>1, CatTyped
  <2> DEFINE h == [i \in 0..k + 1 |-> IF i = k + 1 THEN x ELSE g[i]]
  <2>4. h \in [0..k + 1 -> Seq(S)]
    BY <1>1, <2>1, <2>3
  <2>5. \A i \in 0..k + 1 : h[i] = IF i = k + 1 THEN x ELSE g[i]
    OBVIOUS
  <2> HIDE DEF h
  <2>6. h[0] = <<>>
    <3>1. 0 \in 0..k + 1 /\ 0 # k + 1
      BY <1>1
    <3>2. g[0] = <<>>
      BY <2>1
    <3>3. QED BY <2>5, <3>1, <3>2
  <2>7. ASSUME NEW i \in 1..k + 1 PROVE h[i] = Cat(h[i - 1], ss[i])
    <3>1. i - 1 \in 0..k + 1 /\ i - 1 # k + 1 /\ i \in 0..k + 1
      BY <1>1
    <3>2. h[i - 1] = g[i - 1]
      BY <2>5, <3>1
    <3>3. CASE i = k + 1
      <4>1. i - 1 = k
        BY <1>1, <3>3
      <4>2. QED BY <2>2, <2>5, <3>1, <3>2, <3>3, <4>1
    <3>4. CASE i # k + 1
      <4>1. i \in 1..k
        BY <1>1, <3>4
      <4>2. QED BY <2>1, <2>5, <3>1, <3>2, <3>4, <4>1
    <3>5. QED BY <3>3, <3>4
  <2>8. Good(h, k + 1)
    BY <2>4, <2>6, <2>7
  <2> HIDE DEF Good
  <2>9. k + 1 \in 0..n
    BY <1>1
  <2>10. QED BY <2>8, <2>9
<1>4. n \in H
  <2> HIDE DEF H
  <2>1. QED BY <1>1, <1>2, <1>3, UpTo
<1>5. QED BY <1>4 DEF n, Accumulates

\* And only one, which FlattenSeq computes.
LEMMA FlattenIs ==
    ASSUME NEW S, NEW ss \in Seq(Seq(S)), NEW h, Accumulates(h, ss, S)
    PROVE  FlattenSeq(ss) = h[Len(ss)] /\ FlattenSeq(ss) \in Seq(S)
<1> DEFINE n == Len(ss)
           Body(f) == [i \in 1..n |-> IF i = 1 THEN ss[i] ELSE Cat(f[i - 1], ss[i])]
           g == [i \in 1..n |-> h[i]]
           flat == CHOOSE f : f = Body(f)
<1>1. /\ n \in Nat /\ (\A i \in 1..n : ss[i] \in Seq(S))
      /\ h \in [0..n -> Seq(S)] /\ h[0] = <<>> /\ \A i \in 1..n : h[i] = Cat(h[i - 1], ss[i])
  <2>1. n \in Nat /\ \A i \in 1..n : ss[i] \in Seq(S)
    OBVIOUS
  <2>2. /\ h \in [0..n -> Seq(S)] /\ h[0] = <<>>
        /\ \A i \in 1..n : h[i] = Cat(h[i - 1], ss[i])
    BY Zenon DEF Accumulates
  <2>3. QED BY <2>1, <2>2
<1>2. h[n] \in Seq(S)
  BY <1>1
<1>3. CASE n = 0
  <2>1. ss = <<>> /\ FlattenSeq(ss) = ss
    BY <1>3 DEF FlattenSeq
  <2>2. h[n] = <<>>
    BY <1>1, <1>3
  <2>3. QED BY <1>2, <2>1, <2>2
<1>4. CASE n # 0
  <2>1. FlattenSeq(ss) = flat[n]
    BY <1>4 DEF FlattenSeq, Cat
  <2> HIDE DEF n
  <2>2. g = Body(g)
    <3> SUFFICES ASSUME NEW i \in 1..n
                 PROVE  h[i] = IF i = 1 THEN ss[i] ELSE Cat(g[i - 1], ss[i])
      OBVIOUS
    <3>1. CASE i = 1
      <4>1. h[i] = Cat(h[i - 1], ss[i]) /\ ss[i] \in Seq(S) /\ h[i - 1] = <<>>
        <5>1. i \in 1..n /\ i - 1 = 0
          BY <1>1, <3>1
        <5>2. h[i] = Cat(h[i - 1], ss[i])
          BY <1>1, <5>1
        <5>3. ss[i] \in Seq(S)
          BY <1>1, <5>1
        <5>4. QED BY <1>1, <5>1, <5>2, <5>3
      <4>2. h[i] = ss[i]
        BY <4>1, CatNothing
      <4>3. QED BY <3>1, <4>2
    <3>2. CASE i # 1
      <4>1. i - 1 \in 1..n
        BY <1>1, <3>2
      <4>2. g[i - 1] = h[i - 1]
        BY <4>1
      <4>3. QED BY <1>1, <3>2, <4>2
    <3>3. QED BY <3>1, <3>2
  <2> HIDE DEF g
  <2>3. flat = Body(flat)
    BY <2>2
  <2> HIDE DEF flat
  <2>4. \A i \in 1..n : flat[i] = IF i = 1 THEN ss[i] ELSE Cat(flat[i - 1], ss[i])
    BY <2>3
  <2> DEFINE H == {k \in 0..n : k # 0 => flat[k] = h[k]}
  <2>5. 0 \in H
    BY <1>1
  <2>6. \A k \in 0..n - 1 : k \in H => k + 1 \in H
    <3> SUFFICES ASSUME NEW k \in 0..n - 1, k \in H PROVE flat[k + 1] = h[k + 1]
      BY <1>1
    <3>1. k + 1 \in 1..n /\ (k + 1) - 1 = k
      BY <1>1
    <3>2. PICK j : j = k + 1
      OBVIOUS
    <3>3. j \in 1..n /\ j - 1 = k
      BY <3>1, <3>2
    <3>4. CASE j = 1
      <4>1. h[j] = Cat(h[j - 1], ss[j]) /\ ss[j] \in Seq(S) /\ h[j - 1] = <<>>
        <5>1. j \in 1..n /\ j - 1 = 0
          BY <1>1, <3>3, <3>4
        <5>2. h[j] = Cat(h[j - 1], ss[j])
          BY <1>1, <5>1
        <5>3. ss[j] \in Seq(S)
          BY <1>1, <5>1
        <5>4. QED BY <1>1, <5>1, <5>2, <5>3
      <4>2. h[j] = ss[j]
        BY <4>1, CatNothing
      <4>3. QED BY <2>4, <3>2, <3>3, <3>4, <4>2
    <3>5. CASE j # 1
      <4>1. flat[j] = Cat(flat[k], ss[j])
        BY <2>4, <3>3, <3>5
      <4>2. k # 0
        BY <3>3, <3>5
      <4>3. QED BY <1>1, <3>2, <3>3, <4>1, <4>2
    <3>6. QED BY <3>4, <3>5
  <2>7. n \in H
    <3> HIDE DEF H
    <3>1. QED BY <1>1, <2>5, <2>6, UpTo
  <2>8. flat[n] = h[n]
    BY <1>4, <2>7
  <2>9. QED BY <1>2, <2>1, <2>8 DEF n
<1>5. QED BY <1>3, <1>4

\* What follows the first sequence is flattened alike.
LEMMA FlattenFirst ==
    ASSUME NEW S, NEW ss \in Seq(Seq(S)), NEW tt \in Seq(Seq(S)),
           Len(ss) = Len(tt) + 1, \A i \in 1..Len(tt) : ss[i + 1] = tt[i]
    PROVE  FlattenSeq(ss) = Cat(ss[1], FlattenSeq(tt))
<1>1. PICK h : Accumulates(h, ss, S)
  BY AccumulationExists
<1>2. PICK g : Accumulates(g, tt, S)
  BY AccumulationExists
<1> DEFINE n == Len(tt)
           H == {k \in 0..n : h[k + 1] = Cat(ss[1], g[k])}
<1>3. n \in Nat /\ Len(ss) = n + 1
  OBVIOUS
<1>4. /\ h \in [0..n + 1 -> Seq(S)] /\ h[0] = <<>>
      /\ \A i \in 1..n + 1 : h[i] = Cat(h[i - 1], ss[i])
  BY <1>1, Zenon DEF Accumulates
<1>5. /\ g \in [0..n -> Seq(S)] /\ g[0] = <<>>
      /\ \A i \in 1..n : g[i] = Cat(g[i - 1], tt[i])
  BY <1>2, Zenon DEF Accumulates
<1>6. \A i \in 1..n : tt[i] \in Seq(S)
  OBVIOUS
<1>7. ss[1] \in Seq(S)
  OBVIOUS
<1>a. \A a, b, c \in Seq(S) : Cat(Cat(a, b), c) = Cat(a, Cat(b, c))
  BY CatRegroups
<1> HIDE DEF n
<1>8. 0 \in H
  <2>1. 1 \in 1..n + 1 /\ 1 - 1 = 0 /\ 0 + 1 = 1
    BY <1>3
  <2>2. h[1] = Cat(h[0], ss[1])
    BY <1>4, <2>1
  <2>3. h[1] = ss[1] /\ Cat(ss[1], <<>>) = ss[1]
    BY <1>4, <1>7, <2>2, CatNothing
  <2>4. QED BY <1>3, <1>5, <2>1, <2>3
<1>9. \A k \in 0..n - 1 : k \in H => k + 1 \in H
  <2> SUFFICES ASSUME NEW k \in 0..n - 1, k \in H PROVE k + 1 \in H
    OBVIOUS
  <2>1. PICK j : j = k + 1
    OBVIOUS
  <2>2. /\ j \in 1..n /\ j - 1 = k /\ j + 1 \in 1..n + 1 /\ (j + 1) - 1 = j
        /\ k \in 0..n /\ j \in 0..n
    BY <1>3, <2>1
  <2>3. h[j + 1] = Cat(h[j], ss[j + 1])
    BY <1>4, <2>2
  <2>4. ss[j + 1] = tt[j] /\ h[j] = Cat(ss[1], g[k])
    BY <2>1, <2>2 DEF n
  <2>5. g[j] = Cat(g[k], tt[j])
    BY <1>5, <2>2
  <2>6. g[k] \in Seq(S) /\ tt[j] \in Seq(S)
    BY <1>5, <1>6, <2>2
  <2>7. Cat(Cat(ss[1], g[k]), tt[j]) = Cat(ss[1], Cat(g[k], tt[j]))
    BY <1>7, <1>a, <2>6
  <2>8. h[j + 1] = Cat(ss[1], g[j])
    BY <2>3, <2>4, <2>5, <2>7
  <2>9. QED BY <2>1, <2>2, <2>8
<1>10. n \in H
  <2> HIDE DEF H
  <2>1. QED BY <1>3, <1>8, <1>9, UpTo
<1>11. FlattenSeq(ss) = h[n + 1] /\ FlattenSeq(tt) = g[n]
  BY <1>1, <1>2, <1>3, FlattenIs DEF n
<1>12. QED BY <1>10, <1>11

\* The first that is not empty comes first, and the others as if it were not there.
LEMMA FlattenTaken ==
    ASSUME NEW S, NEW ss \in Seq(Seq(S)), NEW tt \in Seq(Seq(S)), Len(ss) = Len(tt),
           NEW k \in 1..Len(ss), \A i \in 1..Len(ss) : i < k => ss[i] = <<>>,
           tt[k] = <<>>, \A i \in 1..Len(ss) : i # k => tt[i] = ss[i]
    PROVE  FlattenSeq(ss) = Cat(ss[k], FlattenSeq(tt))
<1>1. PICK h : Accumulates(h, ss, S)
  BY AccumulationExists
<1>2. PICK g : Accumulates(g, tt, S)
  BY AccumulationExists
<1> DEFINE n == Len(ss)
           H == {i \in 0..n : IF i < k THEN h[i] = <<>> /\ g[i] = <<>>
                              ELSE h[i] = Cat(ss[k], g[i])}
<1>3. n \in Nat /\ Len(tt) = n /\ k \in 1..n
  OBVIOUS
<1>4. /\ h \in [0..n -> Seq(S)] /\ h[0] = <<>>
      /\ \A i \in 1..n : h[i] = Cat(h[i - 1], ss[i])
  BY <1>1, Zenon DEF Accumulates
<1>5. /\ g \in [0..n -> Seq(S)] /\ g[0] = <<>>
      /\ \A i \in 1..n : g[i] = Cat(g[i - 1], tt[i])
  BY <1>2, <1>3, Zenon DEF Accumulates
<1>6. \A i \in 1..n : ss[i] \in Seq(S)
  OBVIOUS
<1>7. /\ \A i \in 1..n : i < k => ss[i] = <<>>
      /\ tt[k] = <<>> /\ \A i \in 1..n : i # k => tt[i] = ss[i]
  OBVIOUS
<1>a. \A a, b, c \in Seq(S) : Cat(Cat(a, b), c) = Cat(a, Cat(b, c))
  BY CatRegroups
<1>e. \A s \in Seq(S) : Cat(s, <<>>) = s /\ Cat(<<>>, s) = s
  BY CatNothing
<1> HIDE DEF n
<1>8. 0 \in H
  BY <1>3, <1>4, <1>5
<1>9. \A i \in 0..n - 1 : i \in H => i + 1 \in H
  <2> SUFFICES ASSUME NEW i \in 0..n - 1, i \in H PROVE i + 1 \in H
    OBVIOUS
  <2>1. PICK j : j = i + 1
    OBVIOUS
  <2>2. j \in 1..n /\ j - 1 = i /\ i \in 0..n /\ j \in 0..n /\ i < j
    BY <1>3, <2>1
  <2>3. h[j] = Cat(h[i], ss[j]) /\ g[j] = Cat(g[i], tt[j])
    BY <1>4, <1>5, <2>2
  <2>4. h[i] \in Seq(S) /\ g[i] \in Seq(S) /\ ss[j] \in Seq(S) /\ ss[k] \in Seq(S)
    BY <1>3, <1>4, <1>5, <1>6, <2>2
  <2>5. <<>> \in Seq(S)
    OBVIOUS
  <2>6. CASE j < k
    <3>1. h[i] = <<>> /\ g[i] = <<>> /\ ss[j] = <<>> /\ tt[j] = <<>>
      BY <1>3, <1>7, <2>2, <2>6
    <3>2. h[j] = <<>> /\ g[j] = <<>>
      BY <1>e, <2>3, <2>5, <3>1
    <3>3. QED BY <2>1, <2>2, <2>6, <3>2
  <2>7. CASE j = k
    <3>1. h[i] = <<>> /\ g[i] = <<>> /\ tt[j] = <<>>
      BY <1>3, <1>7, <2>2, <2>7
    <3>2. h[j] = ss[k] /\ g[j] = <<>>
      BY <1>e, <2>3, <2>4, <2>5, <2>7, <3>1
    <3>3. h[j] = Cat(ss[k], g[j])
      BY <1>e, <2>4, <3>2
    <3>4. QED BY <1>3, <2>1, <2>2, <2>7, <3>3
  <2>8. CASE ~(j < k) /\ j # k
    <3>1. ~(i < k)
      BY <1>3, <2>2, <2>8
    <3>2. h[i] = Cat(ss[k], g[i])
      BY <3>1
    <3>3. tt[j] = ss[j]
      BY <1>7, <2>2, <2>8
    <3>4. Cat(Cat(ss[k], g[i]), ss[j]) = Cat(ss[k], Cat(g[i], ss[j]))
      BY <1>a, <2>4
    <3>5. h[j] = Cat(ss[k], g[j])
      BY <2>3, <3>2, <3>3, <3>4
    <3>6. QED BY <2>1, <2>2, <2>8, <3>5
  <2>9. QED BY <2>6, <2>7, <2>8
<1>10. n \in H
  <2> HIDE DEF H
  <2>1. QED BY <1>3, <1>8, <1>9, UpTo
<1>11. FlattenSeq(ss) = h[n] /\ FlattenSeq(tt) = g[n]
  BY <1>1, <1>2, <1>3, FlattenIs DEF n
<1>12. QED BY <1>3, <1>10, <1>11

\* Nothing comes of empty sequences.
LEMMA FlattenNothing ==
    ASSUME NEW S, NEW ss \in Seq(Seq(S)), \A i \in 1..Len(ss) : ss[i] = <<>>
    PROVE  FlattenSeq(ss) = <<>>
<1> DEFINE n == Len(ss)
           h == [i \in 0..n |-> <<>>]
<1>1. n \in Nat /\ \A i \in 1..n : ss[i] = <<>>
  OBVIOUS
<1>2. Cat(<<>>, <<>>) = <<>>
  BY CatNothing
<1> HIDE DEF n
<1>3. h \in [0..n -> Seq(S)] /\ h[0] = <<>> /\ h[n] = <<>>
  BY <1>1
<1>4. \A i \in 1..n : h[i] = Cat(h[i - 1], ss[i])
  <2> SUFFICES ASSUME NEW i \in 1..n PROVE h[i] = Cat(h[i - 1], ss[i])
    OBVIOUS
  <2>1. h[i] = <<>> /\ h[i - 1] = <<>> /\ ss[i] = <<>>
    BY <1>1
  <2>2. QED BY <1>2, <2>1
<1> HIDE DEF h
<1>5. Accumulates(h, ss, S)
  BY <1>3, <1>4 DEF n, Accumulates
<1>6. QED BY <1>3, <1>5, FlattenIs DEF n

\* The members may be any sequences.
LEMMA FlattenTyped ==
    ASSUME NEW S, NEW ss \in Seq(Seq(S))
    PROVE  FlattenSeq(ss) \in Seq(S)
BY AccumulationExists, FlattenIs

(***************************************************************************)
(* The expansion of a call.                                                *)
(***************************************************************************)
Ids == {it.id : it \in Items}

\* What texts become with `open` open, when those further in become texts.
Body(call, texts, open) == [items \in Seq(Items) |-> ItemsText(call, items, open, texts)]

\* Further in: something more is open.
TypedFurther(texts, open) ==
    \A x \in Sources \ open : texts[open \cup {x}] \in [Seq(Items) -> Seq(Ids)]

\* The calls there may be.
LEMMA CallFacts ==
    ASSUME NEW call \in Jobs
    PROVE  /\ \A f \in File : call.text[f] \in Seq(Items)
           /\ \A it \in Items : it.kind \in {"include", "optional"} => it.targets \in Seq(File)
           /\ \A it \in Items : it.kind = "shell" => it.line \in Sources /\ it.output \in Seq(Items)
           /\ File \subseteq Sources
BY JobsAssumption DEF JobsAssumption, Sources

\* A target becomes identifiers.
LEMMA TargetTyped ==
    ASSUME NEW call \in Jobs, NEW open \in SUBSET Sources, NEW texts, TypedFurther(texts, open),
           NEW it \in Items, NEW f \in File
    PROVE  TargetText(call, it, f, open, texts) \in Seq(Ids)
<1>1. f \notin open => texts[open \cup {f}] \in [Seq(Items) -> Seq(Ids)]
  BY CallFacts DEF TypedFurther
<1>2. call.text[f] \in Seq(Items)
  BY CallFacts
<1>3. it.id \in Ids
  BY DEF Ids
<1>4. f \notin open => texts[open \cup {f}][call.text[f]] \in Seq(Ids)
  BY <1>1, <1>2
<1>5. <<it.id>> \in Seq(Ids) /\ <<>> \in Seq(Ids)
  BY <1>3
<1>6. QED BY <1>4, <1>5, Zenon DEF TargetText

\* So does an item.
LEMMA ItemTyped ==
    ASSUME NEW call \in Jobs, NEW open \in SUBSET Sources, NEW texts, TypedFurther(texts, open),
           NEW it \in Items
    PROVE  ItemText(call, it, open, texts) \in Seq(Ids)
<1> DEFINE ts == [i \in DOMAIN it.targets |-> TargetText(call, it, it.targets[i], open, texts)]
<1>1. CASE it.kind \in {"directive", "opaque"}
  <2>1. it.id \in Ids
    BY DEF Ids
  <2>2. <<it.id>> \in Seq(Ids)
    BY <2>1
  <2>3. QED BY <1>1, <2>2 DEF ItemText
<1>2. CASE it.kind \in {"include", "optional"}
  <2>1. it.targets \in Seq(File)
    BY <1>2, CallFacts
  <2>2. \A i \in 1..Len(it.targets) : TargetText(call, it, it.targets[i], open, texts) \in Seq(Ids)
    BY <2>1, TargetTyped
  <2>3. ts \in Seq(Seq(Ids))
    <3>1. DOMAIN it.targets = 1..Len(it.targets) /\ Len(it.targets) \in Nat
      BY <2>1
    <3>2. ts = [i \in 1..Len(it.targets) |-> TargetText(call, it, it.targets[i], open, texts)]
      BY <3>1
    <3>3. QED BY <2>2, <3>1, <3>2
  <2> HIDE DEF ts
  <2>4. FlattenSeq(ts) \in Seq(Ids)
    BY <2>3, FlattenTyped
  <2>5. ItemText(call, it, open, texts) = FlattenSeq(ts)
    BY <1>2 DEF ItemText, ts
  <2>6. QED BY <2>4, <2>5
<1>3. CASE it.kind \notin {"directive", "opaque", "include", "optional"}
  <2>1. it.kind = "shell" /\ it.line \notin open
            => texts[open \cup {it.line}][it.output] \in Seq(Ids)
    <3> SUFFICES ASSUME it.kind = "shell", it.line \notin open
                 PROVE  texts[open \cup {it.line}][it.output] \in Seq(Ids)
      OBVIOUS
    <3>1. it.line \in Sources /\ it.output \in Seq(Items)
      BY CallFacts
    <3>2. texts[open \cup {it.line}] \in [Seq(Items) -> Seq(Ids)]
      BY <3>1 DEF TypedFurther
    <3>3. QED BY <3>1, <3>2
  <2>2. <<>> \in Seq(Ids)
    OBVIOUS
  <2>3. ItemText(call, it, open, texts) =
            IF it.kind = "shell" /\ it.line \notin open /\ call.shell /\ it.prints = "ok"
            THEN texts[open \cup {it.line}][it.output] ELSE <<>>
    BY <1>3 DEF ItemText
  <2>4. QED BY <2>1, <2>2, <2>3, Zenon
<1>4. QED BY <1>1, <1>2, <1>3

\* And so does a text.
LEMMA BodyTyped ==
    ASSUME NEW call \in Jobs, NEW open \in SUBSET Sources, NEW texts, TypedFurther(texts, open)
    PROVE  Body(call, texts, open) \in [Seq(Items) -> Seq(Ids)]
<1> SUFFICES ASSUME NEW items \in Seq(Items)
             PROVE  ItemsText(call, items, open, texts) \in Seq(Ids)
  BY DEF Body
<1> DEFINE ts == [i \in DOMAIN items |-> ItemText(call, items[i], open, texts)]
<1>1. \A i \in 1..Len(items) : ItemText(call, items[i], open, texts) \in Seq(Ids)
  BY ItemTyped
<1>2. ts \in Seq(Seq(Ids))
  <2>1. DOMAIN items = 1..Len(items) /\ Len(items) \in Nat
    OBVIOUS
  <2>2. ts = [i \in 1..Len(items) |-> ItemText(call, items[i], open, texts)]
    BY <2>1
  <2>3. QED BY <1>1, <2>1, <2>2
<1> HIDE DEF ts
<1>3. FlattenSeq(ts) \in Seq(Ids)
  BY <1>2, FlattenTyped
<1>4. QED BY <1>3 DEF ItemsText, ts

\* What a text becomes depends on what texts become further in, and on nothing else.
LEMMA BodyIsLocal ==
    ASSUME NEW call \in Jobs, NEW open \in SUBSET Sources, NEW texts, NEW other,
           \A x \in Sources \ open : texts[open \cup {x}] = other[open \cup {x}]
    PROVE  Body(call, texts, open) = Body(call, other, open)
<1>1. \A it \in Items, f \in File :
          TargetText(call, it, f, open, texts) = TargetText(call, it, f, open, other)
  <2> SUFFICES ASSUME NEW it \in Items, NEW f \in File
               PROVE  TargetText(call, it, f, open, texts) = TargetText(call, it, f, open, other)
    OBVIOUS
  <2>1. f \notin open => texts[open \cup {f}] = other[open \cup {f}]
    BY CallFacts
  <2>2. QED BY <2>1 DEF TargetText
<1>2. ASSUME NEW it \in Items
      PROVE  ItemText(call, it, open, texts) = ItemText(call, it, open, other)
  <2>1. CASE it.kind \in {"directive", "opaque"}
    BY <2>1 DEF ItemText
  <2>2. CASE it.kind \in {"include", "optional"}
    <3>1. it.targets \in Seq(File)
      BY <2>2, CallFacts
    <3>2. \A i \in DOMAIN it.targets : it.targets[i] \in File
      BY <3>1
    <3>3. [i \in DOMAIN it.targets |-> TargetText(call, it, it.targets[i], open, texts)]
            = [i \in DOMAIN it.targets |-> TargetText(call, it, it.targets[i], open, other)]
      BY <1>1, <3>2
    <3>4. QED BY <2>2, <3>3 DEF ItemText
  <2>3. CASE it.kind \notin {"directive", "opaque", "include", "optional"}
    <3>1. it.kind = "shell" /\ it.line \notin open
              => texts[open \cup {it.line}] = other[open \cup {it.line}]
      BY CallFacts
    <3>2. QED BY <2>3, <3>1 DEF ItemText
  <2>4. QED BY <2>1, <2>2, <2>3
<1>3. ASSUME NEW items \in Seq(Items)
      PROVE  ItemsText(call, items, open, texts) = ItemsText(call, items, open, other)
  <2>1. \A i \in DOMAIN items : items[i] \in Items
    OBVIOUS
  <2>2. [i \in DOMAIN items |-> ItemText(call, items[i], open, texts)]
          = [i \in DOMAIN items |-> ItemText(call, items[i], open, other)]
    BY <1>2, <2>1
  <2>3. QED BY <2>2 DEF ItemsText
<1>4. QED BY <1>3 DEF Body

\* What may be open is finite, and each step further in leaves less of it closed.
LEMMA ClosedShrinks ==
    /\ IsFiniteSet(Sources) /\ Cardinality(Sources) \in Nat
    /\ \A open \in SUBSET Sources : /\ Cardinality(Sources \ open) \in Nat
                                    /\ Cardinality(Sources \ open) =< Cardinality(Sources)
    /\ \A open \in SUBSET Sources : \A x \in Sources \ open :
           Cardinality(Sources \ (open \cup {x})) = Cardinality(Sources \ open) - 1
<1> DEFINE Shells == {it \in Items : it.kind = "shell"}
           Named == {it.line : it \in Shells}
<1>1. IsFiniteSet(Sources)
  <2>1. IsFiniteSet(Shells)
    BY JobsAssumption, FS_Subset DEF JobsAssumption
  <2> DEFINE line == [it \in Shells |-> it.line]
  <2>2. line \in Surjection(Shells, Named)
    BY DEF Surjection
  <2> HIDE DEF Shells, Named, line
  <2>3. IsFiniteSet(Named)
    BY <2>1, <2>2, FS_Surjection
  <2>4. Sources = File \cup Named
    BY DEF Sources, Shells, Named
  <2>5. QED BY <2>3, <2>4, JobsAssumption, FS_Union DEF JobsAssumption
<1>2. Cardinality(Sources) \in Nat
  BY <1>1, FS_CardinalityType
<1>3. ASSUME NEW open \in SUBSET Sources
      PROVE  /\ IsFiniteSet(Sources \ open) /\ Cardinality(Sources \ open) \in Nat
             /\ Cardinality(Sources \ open) =< Cardinality(Sources)
  <2>1. Sources \ open \subseteq Sources
    OBVIOUS
  <2>2. IsFiniteSet(Sources \ open) /\ Cardinality(Sources \ open) =< Cardinality(Sources)
    BY <1>1, <2>1, FS_Subset
  <2>3. QED BY <2>2, FS_CardinalityType
<1>4. ASSUME NEW open \in SUBSET Sources, NEW x \in Sources \ open
      PROVE  Cardinality(Sources \ (open \cup {x})) = Cardinality(Sources \ open) - 1
  <2>1. Sources \ (open \cup {x}) = (Sources \ open) \ {x}
    OBVIOUS
  <2>2. PICK left : left = Sources \ open
    OBVIOUS
  <2>3. IsFiniteSet(left) /\ x \in left
    BY <1>3, <2>2
  <2>4. Cardinality(left \ {x}) = Cardinality(left) - 1
    BY <2>3, FS_RemoveElement
  <2>5. QED BY <2>1, <2>2, <2>4
<1>5. QED BY <1>1, <1>2, <1>3, <1>4

\* The recursion has a solution, and it is typed: what texts become is settled where
\* everything is open, and from there outwards.
LEMMA ExpansionsAre ==
    ASSUME NEW call \in Jobs
    PROVE  \A open \in SUBSET Sources :
               /\ Expansions(call)[open] = Body(call, Expansions(call), open)
               /\ Expansions(call)[open] \in [Seq(Items) -> Seq(Ids)]
<1> DEFINE Closed(open) == Cardinality(Sources \ open)
           D(k) == {open \in SUBSET Sources : Closed(open) < k}
           Solves(f, k) == \A open \in D(k) : f[open] = Body(call, f, open)
           n == Cardinality(Sources) + 1
           H == {k \in 0..n : \E f : Solves(f, k)}
<1>1. /\ n \in Nat /\ D(0) = {} /\ D(n) = SUBSET Sources
      /\ \A k \in Nat : D(k) \subseteq SUBSET Sources
      /\ \A k \in Nat : \A open \in D(k + 1) : \A x \in Sources \ open : open \cup {x} \in D(k)
  <2>1. n \in Nat
    BY ClosedShrinks
  <2>2. D(0) = {} /\ D(n) = SUBSET Sources
    <3>1. \A open \in SUBSET Sources : ~(Closed(open) < 0) /\ Closed(open) < n
      BY ClosedShrinks
    <3> HIDE DEF Closed, n
    <3>2. QED BY <3>1
  <2>3. ASSUME NEW k \in Nat, NEW open \in D(k + 1), NEW x \in Sources \ open
        PROVE  open \cup {x} \in D(k)
    <3>1. open \in SUBSET Sources /\ open \cup {x} \in SUBSET Sources
      OBVIOUS
    <3>2. Closed(open \cup {x}) = Closed(open) - 1 /\ Closed(open) \in Nat /\ Closed(open) < k + 1
      BY <3>1, ClosedShrinks
    <3>3. QED BY <3>1, <3>2
  <2>4. QED BY <2>1, <2>2, <2>3
<1> HIDE DEF D, n
<1>2. 0 \in H
  <2>1. Solves({}, 0)
    BY <1>1
  <2> HIDE DEF Solves
  <2>2. QED BY <1>1, <2>1
<1>3. \A k \in 0..n - 1 : k \in H => k + 1 \in H
  <2> SUFFICES ASSUME NEW k \in 0..n - 1, k \in H PROVE k + 1 \in H
    OBVIOUS
  <2>1. PICK g : Solves(g, k)
    OBVIOUS
  <2> DEFINE h == [open \in SUBSET Sources |-> Body(call, g, open)]
  <2>2. k \in Nat /\ k + 1 \in 0..n
    BY <1>1
  <2>3. \A open \in SUBSET Sources : h[open] = Body(call, g, open)
    OBVIOUS
  <2> HIDE DEF h
  <2>4. \A open \in D(k) : h[open] = g[open]
    BY <1>1, <2>1, <2>2, <2>3
  <2>5. ASSUME NEW open \in D(k + 1) PROVE h[open] = Body(call, h, open)
    <3>1. open \in SUBSET Sources
      BY <1>1, <2>2
    <3>2. \A x \in Sources \ open : g[open \cup {x}] = h[open \cup {x}]
      BY <1>1, <2>2, <2>4
    <3>3. Body(call, g, open) = Body(call, h, open)
      BY <3>1, <3>2, BodyIsLocal
    <3>4. QED BY <2>3, <3>1, <3>3
  <2>6. Solves(h, k + 1)
    BY <2>5
  <2> HIDE DEF Solves
  <2>7. QED BY <2>2, <2>6
<1>4. n \in H
  <2> HIDE DEF H
  <2>1. QED BY <1>1, <1>2, <1>3, UpTo
<1>5. PICK g : \A open \in SUBSET Sources : g[open] = Body(call, g, open)
  BY <1>1, <1>4
<1> DEFINE f == [open \in SUBSET Sources |-> Body(call, g, open)]
<1>6. \A open \in SUBSET Sources : f[open] = g[open]
  BY <1>5
<1>7. \A open \in SUBSET Sources : Body(call, f, open) = Body(call, g, open)
  <2> SUFFICES ASSUME NEW open \in SUBSET Sources
               PROVE  Body(call, f, open) = Body(call, g, open)
    OBVIOUS
  <2> HIDE DEF f
  <2>1. \A x \in Sources \ open : f[open \cup {x}] = g[open \cup {x}]
    BY <1>6
  <2>2. QED BY <2>1, BodyIsLocal
<1>8. f = [open \in SUBSET Sources |-> Body(call, f, open)]
  <2>1. [open \in SUBSET Sources |-> Body(call, f, open)]
          = [open \in SUBSET Sources |-> Body(call, g, open)]
    <3> HIDE DEF f
    <3>1. QED BY <1>7
  <2>2. QED BY <2>1
<1> HIDE DEF f
<1> DEFINE E == CHOOSE u : u = [open \in SUBSET Sources |-> Body(call, u, open)]
<1>9. E = [open \in SUBSET Sources |-> Body(call, E, open)]
  BY <1>8
<1>10. Expansions(call) = E
  BY DEF Expansions, Body
<1> HIDE DEF E
<1>11. \A open \in SUBSET Sources : E[open] = Body(call, E, open)
  BY <1>9
<1> DEFINE T == {k \in 0..n : \A open \in D(k) : E[open] \in [Seq(Items) -> Seq(Ids)]}
<1>12. 0 \in T
  BY <1>1
<1>13. \A k \in 0..n - 1 : k \in T => k + 1 \in T
  <2> SUFFICES ASSUME NEW k \in 0..n - 1, k \in T,
                      NEW open \in D(k + 1)
               PROVE  E[open] \in [Seq(Items) -> Seq(Ids)]
    BY <1>1
  <2>1. k \in Nat /\ open \in SUBSET Sources
    BY <1>1
  <2>2. TypedFurther(E, open)
    BY <1>1, <2>1 DEF TypedFurther
  <2>3. QED BY <1>11, <2>1, <2>2, BodyTyped
<1>14. n \in T
  <2> HIDE DEF T
  <2>1. QED BY <1>1, <1>12, <1>13, UpTo
<1>15. QED BY <1>1, <1>10, <1>11, <1>14

(***************************************************************************)
(* What a frame still has to put out.                                      *)
(***************************************************************************)
\* Of the pending targets of its include, by their places.
Waiting(call, frame) ==
    [i \in DOMAIN frame.by.targets |->
        IF i \in frame.pending
        THEN TargetText(call, frame.by, frame.by.targets[i], Members(frame.chain),
                        Expansions(call))
        ELSE <<>>]

\* Then of the items behind it.
Rest(call, frame) ==
    Cat(FlattenSeq(Waiting(call, frame)), Expansions(call)[Members(frame.chain)][frame.todo])

\* Item by item.
LEMMA ExpansionsUnfold ==
    ASSUME NEW call \in Jobs, NEW open \in SUBSET Sources
    PROVE  /\ TypedFurther(Expansions(call), open)
           /\ \A items \in Seq(Items) : Expansions(call)[open][items] \in Seq(Ids)
           /\ Expansions(call)[open][<<>>] = <<>>
           /\ \A items \in Seq(Items) : items # <<>> =>
                 Expansions(call)[open][items] =
                     Cat(ItemText(call, Head(items), open, Expansions(call)),
                         Expansions(call)[open][Tail(items)])
<1> DEFINE E == Expansions(call)
           ts(items) == [i \in 1..Len(items) |-> ItemText(call, items[i], open, E)]
<1>1. E[open] = Body(call, E, open) /\ E[open] \in [Seq(Items) -> Seq(Ids)]
  BY ExpansionsAre
<1>2. TypedFurther(E, open)
  <2>1. \A x \in Sources \ open : open \cup {x} \in SUBSET Sources
    OBVIOUS
  <2>2. QED BY <2>1, ExpansionsAre DEF TypedFurther
<1> HIDE DEF E
<1>3. \A items \in Seq(Items) : E[open][items] \in Seq(Ids)
  BY <1>1
<1>4. \A items \in Seq(Items) : E[open][items] = FlattenSeq(ts(items))
  <2> SUFFICES ASSUME NEW items \in Seq(Items) PROVE E[open][items] = FlattenSeq(ts(items))
    OBVIOUS
  <2>1. E[open][items] = ItemsText(call, items, open, E)
    BY <1>1 DEF Body
  <2>2. DOMAIN items = 1..Len(items)
    OBVIOUS
  <2>3. QED BY <2>1, <2>2 DEF ItemsText
<1>5. ASSUME NEW items \in Seq(Items)
      PROVE  ts(items) \in Seq(Seq(Ids)) /\ Len(ts(items)) = Len(items)
  <2>1. \A i \in 1..Len(items) : ItemText(call, items[i], open, E) \in Seq(Ids)
    BY <1>2, ItemTyped
  <2>2. QED BY <2>1
<1>6. E[open][<<>>] = <<>>
  <2>1. <<>> \in Seq(Items) /\ Len(<<>>) = 0
    OBVIOUS
  <2>2. ts(<<>>) \in Seq(Seq(Ids)) /\ Len(ts(<<>>)) = 0
    BY <1>5, <2>1
  <2> HIDE DEF ts
  <2>3. FlattenSeq(ts(<<>>)) = ts(<<>>) /\ ts(<<>>) = <<>>
    BY <2>2 DEF FlattenSeq
  <2>4. QED BY <1>4, <2>1, <2>3
<1>7. ASSUME NEW items \in Seq(Items), items # <<>>
      PROVE  E[open][items] = Cat(ItemText(call, Head(items), open, E), E[open][Tail(items)])
  <2>1. PICK rest : rest = Tail(items)
    OBVIOUS
  <2>2. /\ rest \in Seq(Items) /\ Len(items) = Len(rest) + 1 /\ Len(rest) \in Nat
        /\ Head(items) = items[1] /\ \A i \in 1..Len(rest) : items[i + 1] = rest[i]
    BY <1>7, <2>1
  <2>3. /\ ts(items) \in Seq(Seq(Ids)) /\ Len(ts(items)) = Len(items)
        /\ ts(rest) \in Seq(Seq(Ids)) /\ Len(ts(rest)) = Len(rest)
    BY <1>5, <2>2
  <2>4. \A i \in 1..Len(rest) : ts(items)[i + 1] = ts(rest)[i]
    <3> SUFFICES ASSUME NEW i \in 1..Len(rest) PROVE ts(items)[i + 1] = ts(rest)[i]
      OBVIOUS
    <3>1. i + 1 \in 1..Len(items)
      BY <2>2
    <3>2. ts(items)[i + 1] = ItemText(call, items[i + 1], open, E)
      BY <3>1
    <3>3. ts(rest)[i] = ItemText(call, rest[i], open, E)
      OBVIOUS
    <3>4. QED BY <2>2, <3>2, <3>3
  <2>5. ts(items)[1] = ItemText(call, Head(items), open, E)
    <3>1. 1 \in 1..Len(items)
      BY <2>2
    <3>2. QED BY <2>2, <3>1
  <2>6. PICK ss : ss = ts(items)
    OBVIOUS
  <2>7. PICK tt : tt = ts(rest)
    OBVIOUS
  <2> HIDE DEF ts
  <2>8. FlattenSeq(ss) = Cat(ss[1], FlattenSeq(tt))
    <3>1. /\ ss \in Seq(Seq(Ids)) /\ tt \in Seq(Seq(Ids)) /\ Len(ss) = Len(tt) + 1
          /\ \A i \in 1..Len(tt) : ss[i + 1] = tt[i]
      BY <2>2, <2>3, <2>4, <2>6, <2>7
    <3>2. QED BY <3>1, FlattenFirst
  <2>9. QED BY <1>4, <2>1, <2>2, <2>5, <2>6, <2>7, <2>8
<1>8. QED BY <1>2, <1>3, <1>6, <1>7 DEF E

\* All of it is identifiers, and with nothing pending it is what the items come to.
LEMMA RestTyped ==
    ASSUME NEW call \in Jobs, NEW frame, SoundWork(frame)
    PROVE  /\ Members(frame.chain) \in SUBSET Sources
           /\ DOMAIN frame.by.targets = 1..Len(frame.by.targets) /\ Len(frame.by.targets) \in Nat
           /\ Waiting(call, frame) \in Seq(Seq(Ids))
           /\ Len(Waiting(call, frame)) = Len(frame.by.targets)
           /\ FlattenSeq(Waiting(call, frame)) \in Seq(Ids)
           /\ Expansions(call)[Members(frame.chain)][frame.todo] \in Seq(Ids)
           /\ Rest(call, frame) \in Seq(Ids)
           /\ frame.pending = {} =>
                 Rest(call, frame) = Expansions(call)[Members(frame.chain)][frame.todo]
<1>1. PICK open : open = Members(frame.chain)
  OBVIOUS
<1>2. /\ frame.chain \in Seq(File \cup Lines) /\ frame.todo \in Seq(Items)
      /\ frame.by \in Includes \cup {NoItem} /\ frame.pending \subseteq DOMAIN frame.by.targets
  BY DEF SoundWork, FrameType
<1>3. open \in SUBSET Sources
  <2>1. \A i \in 1..Len(frame.chain) : frame.chain[i] \in File \cup Lines
    BY <1>2
  <2>2. File \cup Lines = Sources
    BY DEF Lines, Sources
  <2>3. QED BY <1>1, <2>1, <2>2 DEF Members
<1>4. PICK by : by = frame.by
  OBVIOUS
<1>5. by.targets \in Seq(File)
  <2>1. CASE by \in Includes
    BY <2>1, CallFacts DEF Includes
  <2>2. CASE by = NoItem
    <3>1. by.targets = <<>>
      BY <2>2 DEF NoItem
    <3>2. QED BY <3>1
  <2>3. QED BY <1>2, <1>4, <2>1, <2>2
<1>6. PICK targets : targets = by.targets
  OBVIOUS
<1>7. targets \in Seq(File) /\ DOMAIN targets = 1..Len(targets) /\ Len(targets) \in Nat
  BY <1>5, <1>6
<1> DEFINE ws == [i \in 1..Len(targets) |->
                     IF i \in frame.pending
                     THEN TargetText(call, by, targets[i], open, Expansions(call)) ELSE <<>>]
<1>8. Waiting(call, frame) = ws
  BY <1>1, <1>4, <1>6, <1>7 DEF Waiting
<1>9. \A i \in 1..Len(targets) : i \in frame.pending =>
          TargetText(call, by, targets[i], open, Expansions(call)) \in Seq(Ids)
  <2> SUFFICES ASSUME NEW i \in 1..Len(targets)
               PROVE  TargetText(call, by, targets[i], open, Expansions(call)) \in Seq(Ids)
    OBVIOUS
  <2>1. CASE by \in Includes
    <3>1. by \in Items /\ targets[i] \in File
      BY <1>7, <2>1 DEF Includes
    <3>2. TypedFurther(Expansions(call), open)
      BY <1>3, ExpansionsUnfold
    <3>3. QED BY <1>3, <3>1, <3>2, TargetTyped
  <2>2. CASE by = NoItem
    <3>1. targets = <<>>
      BY <1>6, <2>2 DEF NoItem
    <3>2. Len(targets) = 0
      BY <3>1
    <3>3. QED BY <3>2
  <2>3. QED BY <1>2, <1>4, <2>1, <2>2
<1>10. ws \in Seq(Seq(Ids)) /\ Len(ws) = Len(targets)
  <2>1. \A i \in 1..Len(targets) : ws[i] \in Seq(Ids)
    <3>1. <<>> \in Seq(Ids)
      OBVIOUS
    <3>2. QED BY <1>9, <3>1
  <2>2. ws \in [1..Len(targets) -> Seq(Ids)]
    BY <2>1
  <2>3. QED BY <1>7, <2>2
<1>11. frame.pending = {} => \A i \in 1..Len(ws) : ws[i] = <<>>
  BY <1>10
<1> HIDE DEF ws
<1>12. FlattenSeq(ws) \in Seq(Ids)
  BY <1>10, FlattenTyped
<1>13. Expansions(call)[open][frame.todo] \in Seq(Ids)
  BY <1>2, <1>3, ExpansionsUnfold
<1>14. Rest(call, frame) = Cat(FlattenSeq(ws), Expansions(call)[open][frame.todo])
  BY <1>1, <1>8 DEF Rest
<1>15. Rest(call, frame) \in Seq(Ids)
  BY <1>12, <1>13, <1>14, CatTyped
<1>16. frame.pending = {} => Rest(call, frame) = Expansions(call)[open][frame.todo]
  <2> SUFFICES ASSUME frame.pending = {}
               PROVE  Rest(call, frame) = Expansions(call)[open][frame.todo]
    OBVIOUS
  <2>1. FlattenSeq(ws) = <<>>
    BY <1>10, <1>11, FlattenNothing
  <2>2. QED BY <1>13, <1>14, <2>1, CatNothing
<1>17. QED BY <1>1, <1>3, <1>4, <1>6, <1>7, <1>8, <1>10, <1>12, <1>13, <1>15, <1>16

\* Working off an item.
LEMMA RestOfItems ==
    ASSUME NEW call \in Jobs, NEW frame, SoundWork(frame), frame.pending = {}, frame.todo # <<>>,
           NEW new, SoundWork(new), new.pending = {}, new.chain = frame.chain,
           new.todo = Tail(frame.todo)
    PROVE  /\ Rest(call, frame) =
                  Cat(ItemText(call, Head(frame.todo), Members(frame.chain), Expansions(call)),
                      Rest(call, new))
           /\ ItemText(call, Head(frame.todo), Members(frame.chain), Expansions(call)) \in Seq(Ids)
<1>1. PICK open : open = Members(frame.chain)
  OBVIOUS
<1>2. PICK items : items = frame.todo
  OBVIOUS
<1>3. open \in SUBSET Sources /\ items \in Seq(Items) /\ items # <<>> /\ Head(items) \in Items
  <2>1. frame.todo \in Seq(Items)
    BY DEF SoundWork, FrameType
  <2>2. QED BY <1>1, <1>2, <2>1, RestTyped
<1>4. /\ Rest(call, frame) = Expansions(call)[open][items]
      /\ Rest(call, new) = Expansions(call)[open][Tail(items)]
  BY <1>1, <1>2, RestTyped
<1>5. Expansions(call)[open][items] =
          Cat(ItemText(call, Head(items), open, Expansions(call)),
              Expansions(call)[open][Tail(items)])
  BY <1>3, ExpansionsUnfold
<1>6. ItemText(call, Head(items), open, Expansions(call)) \in Seq(Ids)
  <2>1. TypedFurther(Expansions(call), open)
    BY <1>3, ExpansionsUnfold
  <2>2. QED BY <1>3, <2>1, ItemTyped
<1>7. QED BY <1>1, <1>2, <1>4, <1>5, <1>6

\* Starting an include puts nothing out and forgets nothing: the targets that are not
\* opened would have come to nothing.
LEMMA RestOfInclude ==
    ASSUME NEW call \in Jobs, NEW frame, SoundWork(frame), frame.pending = {}, frame.todo # <<>>,
           NEW it \in Includes, it = Head(frame.todo),
           NEW new, SoundWork(new), new.chain = frame.chain, new.todo = Tail(frame.todo),
           new.by = it,
           \A i \in DOMAIN it.targets : i \notin new.pending =>
               call.server # "nginx" /\ call.status[it.targets[i]] = "missing"
    PROVE  Rest(call, new) = Rest(call, frame)
<1>1. PICK open : open = Members(frame.chain)
  OBVIOUS
<1>2. PICK items : items = frame.todo
  OBVIOUS
<1>3. open \in SUBSET Sources /\ items \in Seq(Items) /\ items # <<>>
  <2>1. frame.todo \in Seq(Items)
    BY DEF SoundWork, FrameType
  <2>2. QED BY <1>1, <1>2, <2>1, RestTyped
<1>4. Rest(call, frame) = Expansions(call)[open][items]
  BY <1>1, <1>2, RestTyped
<1>5. Expansions(call)[open][items] =
          Cat(ItemText(call, it, open, Expansions(call)), Expansions(call)[open][Tail(items)])
  BY <1>2, <1>3, ExpansionsUnfold
<1>6. \A i \in DOMAIN it.targets :
          TargetText(call, it, it.targets[i], open, Expansions(call)) =
              IF i \in new.pending
              THEN TargetText(call, it, it.targets[i], open, Expansions(call)) ELSE <<>>
  <2> SUFFICES ASSUME NEW i \in DOMAIN it.targets, i \notin new.pending
               PROVE  TargetText(call, it, it.targets[i], open, Expansions(call)) = <<>>
    OBVIOUS
  <2>1. call.server # "nginx" /\ call.status[it.targets[i]] # "ok"
    <3>1. call.server # "nginx" /\ call.status[it.targets[i]] = "missing"
      OBVIOUS
    <3>2. QED BY <3>1
  <2>2. QED BY <2>1 DEF TargetText
<1>7. ItemText(call, it, open, Expansions(call)) = FlattenSeq(Waiting(call, new))
  <2>1. it.kind \in {"include", "optional"}
    BY DEF Includes
  <2>2. Waiting(call, new) =
            [i \in DOMAIN it.targets |->
                TargetText(call, it, it.targets[i], open, Expansions(call))]
    BY <1>1, <1>6 DEF Waiting
  <2>3. QED BY <2>1, <2>2 DEF ItemText
<1>8. Rest(call, new) = Cat(FlattenSeq(Waiting(call, new)), Expansions(call)[open][Tail(items)])
  BY <1>1, <1>2 DEF Rest
<1>9. QED BY <1>4, <1>5, <1>7, <1>8

\* Working off a target.
LEMMA RestOfTargets ==
    ASSUME NEW call \in Jobs, NEW frame, SoundWork(frame),
           NEW k \in frame.pending, \A i \in frame.pending : k =< i,
           NEW new, SoundWork(new), new.chain = frame.chain, new.todo = frame.todo,
           new.by = frame.by, new.pending = frame.pending \ {k}
    PROVE  /\ Rest(call, frame) =
                  Cat(TargetText(call, frame.by, frame.by.targets[k], Members(frame.chain),
                                 Expansions(call)),
                      Rest(call, new))
           /\ TargetText(call, frame.by, frame.by.targets[k], Members(frame.chain),
                         Expansions(call)) \in Seq(Ids)
<1>1. PICK ss : ss = Waiting(call, frame)
  OBVIOUS
<1>2. PICK tt : tt = Waiting(call, new)
  OBVIOUS
<1>3. PICK n : n = Len(frame.by.targets)
  OBVIOUS
<1>4. /\ ss \in Seq(Seq(Ids)) /\ tt \in Seq(Seq(Ids)) /\ Len(ss) = n /\ Len(tt) = n
      /\ n \in Nat /\ DOMAIN frame.by.targets = 1..n
  BY <1>1, <1>2, <1>3, RestTyped
<1>5. PICK text : text = TargetText(call, frame.by, frame.by.targets[k], Members(frame.chain),
                                    Expansions(call))
  OBVIOUS
<1>6. k \in 1..n /\ frame.pending \subseteq 1..n
  BY <1>4 DEF SoundWork
<1>7. ss[k] = text
  BY <1>1, <1>4, <1>5, <1>6 DEF Waiting
<1>8. tt[k] = <<>>
  BY <1>2, <1>4, <1>6 DEF Waiting
<1>9. \A i \in 1..n : i # k => tt[i] = ss[i]
  BY <1>1, <1>2, <1>4 DEF Waiting
<1>10. \A i \in 1..n : i < k => ss[i] = <<>>
  <2> SUFFICES ASSUME NEW i \in 1..n, i < k PROVE ss[i] = <<>>
    OBVIOUS
  <2>1. i \notin frame.pending
    BY <1>6
  <2>2. QED BY <1>1, <1>4, <2>1 DEF Waiting
<1>11. text \in Seq(Ids)
  BY <1>4, <1>6, <1>7
<1>12. FlattenSeq(ss) = Cat(ss[k], FlattenSeq(tt))
  <2>1. /\ Len(ss) = Len(tt) /\ k \in 1..Len(ss) /\ tt[k] = <<>>
        /\ \A i \in 1..Len(ss) : i < k => ss[i] = <<>>
        /\ \A i \in 1..Len(ss) : i # k => tt[i] = ss[i]
    BY <1>4, <1>6, <1>8, <1>9, <1>10
  <2>2. ss \in Seq(Seq(Ids)) /\ tt \in Seq(Seq(Ids))
    BY <1>4
  <2>3. QED BY <2>1, <2>2, FlattenTaken
<1>13. PICK behind : behind = Expansions(call)[Members(frame.chain)][frame.todo]
  OBVIOUS
<1>14. /\ Rest(call, frame) = Cat(FlattenSeq(ss), behind)
       /\ Rest(call, new) = Cat(FlattenSeq(tt), behind)
  BY <1>1, <1>2, <1>13 DEF Rest
<1>15. PICK flat : flat = FlattenSeq(tt)
  OBVIOUS
<1>16. flat \in Seq(Ids) /\ behind \in Seq(Ids)
  BY <1>2, <1>13, <1>15, RestTyped
<1>17. Cat(Cat(text, flat), behind) = Cat(text, Cat(flat, behind))
  BY <1>11, <1>16, CatRegroups
<1>18. QED BY <1>5, <1>7, <1>11, <1>12, <1>14, <1>15, <1>17

\* A new frame, and one whose work is done.
LEMMA RestOfFrame ==
    ASSUME NEW call \in Jobs, NEW frame, SoundWork(frame), frame.pending = {}
    PROVE  /\ Rest(call, frame) = Expansions(call)[Members(frame.chain)][frame.todo]
           /\ frame.todo = <<>> => Rest(call, frame) = <<>>
<1>1. Rest(call, frame) = Expansions(call)[Members(frame.chain)][frame.todo]
  BY RestTyped
<1>2. Members(frame.chain) \in SUBSET Sources
  BY RestTyped
<1>3. PICK open \in SUBSET Sources : open = Members(frame.chain)
  BY <1>2
<1>4. Expansions(call)[open][<<>>] = <<>>
  BY ExpansionsUnfold
<1>5. QED BY <1>1, <1>3, <1>4

(***************************************************************************)
(* What all frames still have to put out, the innermost first.             *)
(***************************************************************************)
\* r[i] is what the i outermost frames of s still have to put out.
Owes(r, call, s) ==
    /\ r \in [0..Len(s) -> Seq(Ids)] /\ r[0] = <<>>
    /\ \A i \in 1..Len(s) : r[i] = Cat(Rest(call, s[i]), r[i - 1])

\* The nodes that are out and those that are owed are the expansion of the main file.
Expanding ==
    /\ output \in Seq(Ids)
    /\ \A frame \in Members(stack) : frame.file \in Members(frame.chain)
    /\ \E r : /\ Owes(r, job, stack)
              /\ Cat(output, r[Len(stack)]) = Expansions(job)[{Root}][job.text[Root]]

\* The innermost frame is replaced.
LEMMA OwesReplaced ==
    ASSUME NEW call \in Jobs, NEW s, NEW t, Len(s) \in Nat, Len(s) > 0, Len(t) = Len(s),
           NEW new, SoundWork(new), t[Len(s)] = new,
           \A i \in 1..Len(s) : i # Len(s) => t[i] = s[i],
           NEW r, Owes(r, call, s)
    PROVE  /\ r[Len(s)] = Cat(Rest(call, s[Len(s)]), r[Len(s) - 1])
           /\ r[Len(s) - 1] \in Seq(Ids)
           /\ \E q : Owes(q, call, t) /\ q[Len(t)] = Cat(Rest(call, new), r[Len(s) - 1])
<1>1. PICK n : n = Len(s)
  OBVIOUS
<1>2. n \in Nat /\ n > 0 /\ Len(t) = n /\ n \in 1..n /\ n - 1 \in 0..n
  BY <1>1
<1>3. /\ r \in [0..n -> Seq(Ids)] /\ r[0] = <<>>
      /\ \A i \in 1..n : r[i] = Cat(Rest(call, s[i]), r[i - 1])
  BY <1>1, Zenon DEF Owes
<1>4. PICK x : x = Cat(Rest(call, new), r[n - 1])
  OBVIOUS
<1>5. r[n - 1] \in Seq(Ids)
  BY <1>2, <1>3
<1>6. x \in Seq(Ids)
  <2>1. Rest(call, new) \in Seq(Ids)
    BY RestTyped
  <2>2. QED BY <1>4, <1>5, <2>1, CatTyped
<1> DEFINE q == [i \in 0..n |-> IF i = n THEN x ELSE r[i]]
<1>7. q \in [0..n -> Seq(Ids)]
  BY <1>3, <1>6
<1>8. \A i \in 0..n : q[i] = IF i = n THEN x ELSE r[i]
  OBVIOUS
<1> HIDE DEF q
<1>9. q[0] = <<>>
  <2>1. 0 \in 0..n /\ 0 # n
    BY <1>2
  <2>2. QED BY <1>3, <1>8, <2>1
<1>10. ASSUME NEW i \in 1..n PROVE q[i] = Cat(Rest(call, t[i]), q[i - 1])
  <2>1. i - 1 \in 0..n /\ i - 1 # n /\ i \in 0..n
    BY <1>2
  <2>2. q[i - 1] = r[i - 1]
    BY <1>8, <2>1
  <2>3. CASE i = n
    <3>1. q[i] = x /\ t[i] = new
      BY <1>1, <1>8, <2>1, <2>3
    <3>2. QED BY <1>4, <2>2, <2>3, <3>1
  <2>4. CASE i # n
    <3>1. q[i] = r[i] /\ t[i] = s[i]
      BY <1>1, <1>8, <2>1, <2>4
    <3>2. QED BY <1>3, <2>2, <3>1
  <2>5. QED BY <2>3, <2>4
<1>11. Owes(q, call, t)
  BY <1>2, <1>7, <1>9, <1>10 DEF Owes
<1>12. q[n] = x
  BY <1>2, <1>8
<1>13. r[n] = Cat(Rest(call, s[n]), r[n - 1])
  BY <1>2, <1>3
<1>14. QED BY <1>1, <1>2, <1>4, <1>5, <1>11, <1>12, <1>13

\* A frame is pushed.
LEMMA OwesPushed ==
    ASSUME NEW call \in Jobs, NEW s, NEW t, Len(s) \in Nat, Len(t) = Len(s) + 1,
           NEW frame, SoundWork(frame), t[Len(t)] = frame,
           \A i \in 1..Len(s) : t[i] = s[i],
           NEW r, Owes(r, call, s)
    PROVE  \E q : Owes(q, call, t) /\ q[Len(t)] = Cat(Rest(call, frame), r[Len(s)])
<1>1. PICK n : n = Len(s)
  OBVIOUS
<1>2. n \in Nat /\ Len(t) = n + 1 /\ t[n + 1] = frame /\ \A i \in 1..n : t[i] = s[i]
  BY <1>1
<1>3. /\ r \in [0..n -> Seq(Ids)] /\ r[0] = <<>>
      /\ \A i \in 1..n : r[i] = Cat(Rest(call, s[i]), r[i - 1])
  BY <1>1, Zenon DEF Owes
<1>4. PICK x : x = Cat(Rest(call, frame), r[n])
  OBVIOUS
<1>5. x \in Seq(Ids)
  <2>1. Rest(call, frame) \in Seq(Ids)
    BY RestTyped
  <2>2. r[n] \in Seq(Ids)
    BY <1>2, <1>3
  <2>3. QED BY <1>4, <2>1, <2>2, CatTyped
<1> DEFINE q == [i \in 0..n + 1 |-> IF i = n + 1 THEN x ELSE r[i]]
<1>6. q \in [0..n + 1 -> Seq(Ids)]
  BY <1>2, <1>3, <1>5
<1>7. \A i \in 0..n + 1 : q[i] = IF i = n + 1 THEN x ELSE r[i]
  OBVIOUS
<1> HIDE DEF q
<1>8. q[0] = <<>>
  <2>1. 0 \in 0..n + 1 /\ 0 # n + 1
    BY <1>2
  <2>2. QED BY <1>3, <1>7, <2>1
<1>9. ASSUME NEW i \in 1..n + 1 PROVE q[i] = Cat(Rest(call, t[i]), q[i - 1])
  <2>1. i - 1 \in 0..n + 1 /\ i - 1 # n + 1 /\ i \in 0..n + 1
    BY <1>2
  <2>2. q[i - 1] = r[i - 1]
    BY <1>7, <2>1
  <2>3. CASE i = n + 1
    <3>1. q[i] = x /\ t[i] = frame /\ i - 1 = n
      BY <1>2, <1>7, <2>1, <2>3
    <3>2. QED BY <1>4, <2>2, <3>1
  <2>4. CASE i # n + 1
    <3>1. i \in 1..n
      BY <1>2, <2>4
    <3>2. q[i] = r[i] /\ t[i] = s[i]
      BY <1>2, <1>7, <2>1, <2>4, <3>1
    <3>3. QED BY <1>3, <2>2, <3>1, <3>2
  <2>5. QED BY <2>3, <2>4
<1>10. Owes(q, call, t)
  BY <1>2, <1>6, <1>8, <1>9 DEF Owes
<1>11. q[n + 1] = x
  BY <1>2, <1>7
<1>12. QED BY <1>1, <1>2, <1>4, <1>10, <1>11

\* The innermost frame is left.
LEMMA OwesPopped ==
    ASSUME NEW call \in Jobs, NEW s, NEW t, Len(s) \in Nat, Len(s) > 0, Len(t) = Len(s) - 1,
           \A i \in 1..Len(t) : t[i] = s[i],
           NEW r, Owes(r, call, s)
    PROVE  /\ r[Len(s)] = Cat(Rest(call, s[Len(s)]), r[Len(s) - 1])
           /\ r[Len(s) - 1] \in Seq(Ids)
           /\ \E q : Owes(q, call, t) /\ q[Len(t)] = r[Len(s) - 1]
<1>1. PICK n : n = Len(s) - 1
  OBVIOUS
<1>2. n \in Nat /\ Len(s) = n + 1 /\ Len(t) = n /\ \A i \in 1..n : t[i] = s[i]
  BY <1>1
<1>3. /\ r \in [0..n + 1 -> Seq(Ids)] /\ r[0] = <<>>
      /\ \A i \in 1..n + 1 : r[i] = Cat(Rest(call, s[i]), r[i - 1])
  BY <1>2, Zenon DEF Owes
<1> DEFINE q == [i \in 0..n |-> r[i]]
<1>4. q \in [0..n -> Seq(Ids)]
  BY <1>2, <1>3
<1>5. \A i \in 0..n : q[i] = r[i]
  OBVIOUS
<1> HIDE DEF q
<1>6. q[0] = <<>> /\ q[n] = r[n]
  BY <1>2, <1>3, <1>5
<1>7. ASSUME NEW i \in 1..n PROVE q[i] = Cat(Rest(call, t[i]), q[i - 1])
  <2>1. i - 1 \in 0..n /\ i \in 0..n /\ i \in 1..n + 1
    BY <1>2
  <2>2. q[i - 1] = r[i - 1] /\ q[i] = r[i] /\ t[i] = s[i]
    BY <1>2, <1>5, <2>1
  <2>3. QED BY <1>3, <2>1, <2>2
<1>8. Owes(q, call, t)
  BY <1>2, <1>4, <1>6, <1>7 DEF Owes
<1>9. r[n] \in Seq(Ids)
  BY <1>2, <1>3
<1>10. r[n + 1] = Cat(Rest(call, s[n + 1]), r[n])
  <2>1. n + 1 \in 1..n + 1 /\ (n + 1) - 1 = n
    BY <1>2
  <2>2. QED BY <1>3, <2>1
<1>11. QED BY <1>1, <1>2, <1>6, <1>8, <1>9, <1>10

(***************************************************************************)
(* Steps on the innermost frame, and what is owed.                         *)
(***************************************************************************)
\* Only the innermost frame differs.
LEMMA ReplacedAt ==
    ASSUME NEW T, stack \in Seq(T), stack # <<>>, NEW new \in T
    PROVE  /\ Len(stack) \in Nat /\ Len(stack) > 0 /\ Len(WithTop(new)) = Len(stack)
           /\ WithTop(new)[Len(stack)] = new
           /\ \A i \in 1..Len(stack) : i # Len(stack) => WithTop(new)[i] = stack[i]
           /\ Top = stack[Len(stack)]
<1>1. Len(stack) \in Nat /\ Len(stack) > 0
  OBVIOUS
<1>2. /\ Len(WithTop(new)) = Len(stack)
      /\ \A i \in 1..Len(stack) :
            WithTop(new)[i] = IF i = Len(stack) THEN new ELSE stack[i]
  BY <1>1 DEF WithTop
<1>3. Len(stack) \in 1..Len(stack)
  BY <1>1
<1>4. QED BY <1>1, <1>2, <1>3 DEF Top

\* The others stay where they are.
LEMMA PoppedAt ==
    ASSUME NEW T, stack \in Seq(T), stack # <<>>
    PROVE  LET t == SubSeq(stack, 1, Len(stack) - 1) IN
           /\ Len(stack) \in Nat /\ Len(stack) > 0 /\ Len(t) = Len(stack) - 1
           /\ \A i \in 1..Len(t) : t[i] = stack[i]
<1> DEFINE n == Len(stack) - 1
           t == SubSeq(stack, 1, n)
<1>1. Len(stack) \in Nat /\ Len(stack) > 0
  OBVIOUS
<1>2. n \in Nat /\ 1 \in Int /\ n \in Int /\ \A i \in 1..n : stack[i] \in T
  BY <1>1
<1> HIDE DEF n
<1>3. /\ Len(SubSeq(stack, 1, n)) = IF 1 =< n THEN n - 1 + 1 ELSE 0
      /\ \A i \in 1..n - 1 + 1 : SubSeq(stack, 1, n)[i] = stack[1 + i - 1]
  BY <1>2, SubSeqProperties
<1> HIDE DEF t
<1>4. Len(t) = n /\ \A i \in 1..n : t[i] = stack[i]
  BY <1>2, <1>3 DEF t
<1>5. QED BY <1>1, <1>4 DEF n, t

\* What the innermost frame does put out, it no longer owes.
LEMMA ReplaceExpands ==
    ASSUME Shape, Expanding, stack # <<>>,
           NEW new, SoundWork(new), new.chain = Top.chain, new.file = Top.file,
           stack' = WithTop(new), job' = job,
           NEW x \in Seq(Ids), output' = Cat(output, x),
           Rest(job, Top) = Cat(x, Rest(job, new))
    PROVE  Expanding'
<1>1. /\ stack \in Seq(FrameType) /\ new \in FrameType /\ job \in Jobs
      /\ Top \in Members(stack)
  BY TopSound DEF SoundWork
<1>2. /\ Len(stack) \in Nat /\ Len(stack) > 0 /\ Len(WithTop(new)) = Len(stack)
      /\ WithTop(new)[Len(stack)] = new
      /\ \A i \in 1..Len(stack) : i # Len(stack) => WithTop(new)[i] = stack[i]
      /\ Top = stack[Len(stack)]
      /\ Members(WithTop(new)) \subseteq Members(stack) \cup {new}
  BY <1>1, ReplacedAt, ReplacedMembers
<1>3. PICK r : /\ Owes(r, job, stack)
               /\ Cat(output, r[Len(stack)]) = Expansions(job)[{Root}][job.text[Root]]
  BY DEF Expanding
<1>4. PICK t : t = WithTop(new)
  OBVIOUS
<1>5. PICK z : z = r[Len(stack) - 1]
  OBVIOUS
<1>6. /\ r[Len(stack)] = Cat(Rest(job, stack[Len(stack)]), r[Len(stack) - 1])
      /\ r[Len(stack) - 1] \in Seq(Ids)
      /\ \E q : Owes(q, job, t) /\ q[Len(t)] = Cat(Rest(job, new), r[Len(stack) - 1])
  BY <1>1, <1>2, <1>3, <1>4, OwesReplaced
<1>7. PICK y : y = Rest(job, new)
  OBVIOUS
<1>8. PICK q : Owes(q, job, t) /\ q[Len(t)] = Cat(y, z)
  BY <1>5, <1>6, <1>7
<1>9. /\ r[Len(stack)] = Cat(Cat(x, y), z) /\ y \in Seq(Ids) /\ z \in Seq(Ids)
      /\ output \in Seq(Ids)
  BY <1>1, <1>2, <1>5, <1>6, <1>7, RestTyped DEF Expanding
<1>10. Cat(y, z) \in Seq(Ids)
  BY <1>9, CatTyped
<1>11. Cat(Cat(output, x), Cat(y, z)) = Cat(output, Cat(x, Cat(y, z)))
  BY <1>9, <1>10, CatRegroups
<1>12. Cat(Cat(x, y), z) = Cat(x, Cat(y, z))
  BY <1>9, CatRegroups
<1>13. Cat(output', q[Len(t)]) = Expansions(job)[{Root}][job.text[Root]]
  BY <1>3, <1>8, <1>9, <1>11, <1>12
<1>14. output' \in Seq(Ids)
  BY <1>9, CatTyped
<1>15. \A frame \in Members(t) : frame.file \in Members(frame.chain)
  BY <1>1, <1>2, <1>4 DEF Expanding
<1>16. stack' = t
  BY <1>4
<1>17. QED BY <1>8, <1>13, <1>14, <1>15, <1>16 DEF Expanding

\* What is left to a new frame, the one around it no longer owes.
LEMMA PushExpands ==
    ASSUME Shape, Expanding, stack # <<>>,
           NEW new, SoundWork(new), new.chain = Top.chain, new.file = Top.file,
           NEW pushed, SoundWork(pushed), pushed.file \in Members(pushed.chain),
           stack' = Push(WithTop(new), pushed), job' = job, output' = output,
           Rest(job, Top) = Cat(Rest(job, pushed), Rest(job, new))
    PROVE  Expanding'
<1>1. /\ stack \in Seq(FrameType) /\ new \in FrameType /\ job \in Jobs
      /\ Top \in Members(stack) /\ pushed \in FrameType
  BY TopSound DEF SoundWork
<1>2. /\ Len(stack) \in Nat /\ Len(stack) > 0 /\ Len(WithTop(new)) = Len(stack)
      /\ WithTop(new)[Len(stack)] = new
      /\ \A i \in 1..Len(stack) : i # Len(stack) => WithTop(new)[i] = stack[i]
      /\ Top = stack[Len(stack)]
      /\ Members(WithTop(new)) \subseteq Members(stack) \cup {new}
      /\ WithTop(new) \in Seq(FrameType) /\ WithTop(new) # <<>>
  BY <1>1, ReplacedAt, ReplacedMembers
<1>3. PICK r : /\ Owes(r, job, stack)
               /\ Cat(output, r[Len(stack)]) = Expansions(job)[{Root}][job.text[Root]]
  BY DEF Expanding
<1>4. PICK s : s = WithTop(new)
  OBVIOUS
<1>5. PICK z : z = r[Len(stack) - 1]
  OBVIOUS
<1>6. /\ r[Len(stack)] = Cat(Rest(job, stack[Len(stack)]), r[Len(stack) - 1])
      /\ r[Len(stack) - 1] \in Seq(Ids)
      /\ \E q : Owes(q, job, s) /\ q[Len(s)] = Cat(Rest(job, new), r[Len(stack) - 1])
  BY <1>1, <1>2, <1>3, <1>4, OwesReplaced, SMTT(60)
<1>7. PICK y : y = Rest(job, new)
  OBVIOUS
<1>8. PICK q : Owes(q, job, s) /\ q[Len(s)] = Cat(y, z)
  BY <1>5, <1>6, <1>7
<1>9. PICK t : t = Push(s, pushed)
  OBVIOUS
<1>10. s \in Seq(FrameType) /\ s # <<>> /\ Len(s) \in Nat
  BY <1>2, <1>4
<1>11. /\ Len(t) = Len(s) + 1 /\ t[Len(t)] = pushed /\ \A i \in 1..Len(s) : t[i] = s[i]
  BY <1>1, <1>9, <1>10 DEF Push
<1>12. PICK p : Owes(p, job, t) /\ p[Len(t)] = Cat(Rest(job, pushed), q[Len(s)])
  <2>1. PICK call : call = job
    OBVIOUS
  <2>2. /\ call \in Jobs /\ Len(s) \in Nat /\ Len(t) = Len(s) + 1 /\ t[Len(t)] = pushed
        /\ (\A i \in 1..Len(s) : t[i] = s[i]) /\ Owes(q, call, s)
        /\ SoundWork(pushed)
    BY <1>1, <1>8, <1>10, <1>11, <2>1
  <2>3. \E p : Owes(p, call, t) /\ p[Len(t)] = Cat(Rest(call, pushed), q[Len(s)])
    BY ONLY <2>2, OwesPushed
  <2>4. QED BY <2>1, <2>3
<1>13. PICK x : x = Rest(job, pushed)
  OBVIOUS
<1>14. /\ r[Len(stack)] = Cat(Cat(x, y), z) /\ p[Len(t)] = Cat(x, Cat(y, z))
       /\ x \in Seq(Ids) /\ y \in Seq(Ids) /\ z \in Seq(Ids)
  BY <1>1, <1>2, <1>5, <1>6, <1>7, <1>8, <1>12, <1>13, RestTyped
<1>15. Cat(Cat(x, y), z) = Cat(x, Cat(y, z))
  BY <1>14, CatRegroups
<1>16. Cat(output, p[Len(t)]) = Expansions(job)[{Root}][job.text[Root]]
  BY <1>3, <1>14, <1>15
<1>17. Members(t) = Members(s) \cup {pushed}
  <2>1. /\ Push(s, pushed) \in Seq(FrameType) /\ Push(s, pushed) # <<>>
        /\ Members(Push(s, pushed)) = Members(s) \cup {pushed}
        /\ Push(s, pushed)[1] = s[1]
    BY <1>1, <1>10, PushedMembers
  <2>2. QED BY <1>9, <2>1
<1>18. \A frame \in Members(t) : frame.file \in Members(frame.chain)
  BY <1>1, <1>2, <1>4, <1>17 DEF Expanding
<1>19. stack' = t
  BY <1>4, <1>9
<1>20. QED BY <1>12, <1>16, <1>18, <1>19 DEF Expanding

\* The innermost frame owes nothing when it is left.
LEMMA ReturnExpands == ASSUME Shape, Expanding, Return PROVE Expanding'
<1>1. /\ stack # <<>> /\ Top.pending = {} /\ Top.todo = <<>>
      /\ stack' = SubSeq(stack, 1, Len(stack) - 1) /\ job' = job /\ output' = output
  BY DEF Return
<1>2. stack \in Seq(FrameType) /\ job \in Jobs /\ SoundWork(Top)
  BY <1>1, TopSound
<1>3. PICK t : t = SubSeq(stack, 1, Len(stack) - 1)
  OBVIOUS
<1>4. Members(t) \subseteq Members(stack)
  BY <1>1, <1>2, <1>3, PoppedMembers
<1>5. /\ Len(stack) \in Nat /\ Len(stack) > 0 /\ Len(t) = Len(stack) - 1
      /\ \A i \in 1..Len(t) : t[i] = stack[i]
  BY <1>1, <1>2, <1>3, PoppedAt
<1>6. PICK r : /\ Owes(r, job, stack)
               /\ Cat(output, r[Len(stack)]) = Expansions(job)[{Root}][job.text[Root]]
  BY DEF Expanding
<1>7. /\ r[Len(stack)] = Cat(Rest(job, stack[Len(stack)]), r[Len(stack) - 1])
      /\ r[Len(stack) - 1] \in Seq(Ids)
      /\ \E q : Owes(q, job, t) /\ q[Len(t)] = r[Len(stack) - 1]
  BY <1>2, <1>5, <1>6, OwesPopped, SMTT(60)
<1>8. PICK q : Owes(q, job, t) /\ q[Len(t)] = r[Len(stack) - 1]
  BY <1>7
<1>9. Rest(job, stack[Len(stack)]) = <<>>
  BY <1>1, <1>2, RestOfFrame DEF Top
<1>10. r[Len(stack)] = q[Len(t)]
  BY <1>7, <1>8, <1>9, CatNothing
<1>11. stack' = t
  BY <1>1, <1>3
<1>12. QED BY <1>1, <1>4, <1>6, <1>8, <1>10, <1>11 DEF Expanding

\* What an item comes to is put out while it is worked off.
LEMMA ItemExpands ==
    ASSUME Shape, Expanding, AtItem, stack' = WithTop(ItemDone), job' = job,
           output' = Cat(output, ItemText(job, Item, Members(Top.chain), Expansions(job)))
    PROVE  Expanding'
<1>1. /\ stack # <<>> /\ job \in Jobs /\ SoundWork(Top)
      /\ Top.pending = {} /\ Top.todo # <<>>
  BY TopSound DEF AtItem
<1>2. PICK new : new = ItemDone
  OBVIOUS
<1>3. /\ SoundWork(new) /\ new.todo = Tail(Top.todo) /\ new.pending = {}
      /\ new.chain = Top.chain /\ new.file = Top.file
  BY <1>1, <1>2, AtItemFacts
<1>4. PICK frame : frame = Top
  OBVIOUS
<1>5. PICK call : call = job
  OBVIOUS
<1>6. PICK x : x = ItemText(job, Item, Members(Top.chain), Expansions(job))
  OBVIOUS
<1>7. Rest(call, frame) = Cat(x, Rest(call, new)) /\ x \in Seq(Ids)
  <2>1. /\ call \in Jobs /\ SoundWork(frame) /\ frame.pending = {} /\ frame.todo # <<>>
        /\ SoundWork(new) /\ new.pending = {} /\ new.chain = frame.chain
        /\ new.todo = Tail(frame.todo)
    BY <1>1, <1>3, <1>4, <1>5
  <2>2. x = ItemText(call, Head(frame.todo), Members(frame.chain), Expansions(call))
    BY <1>4, <1>5, <1>6 DEF Item
  <2>3. QED BY ONLY <2>1, <2>2, RestOfItems
<1>8. stack' = WithTop(new) /\ output' = Cat(output, x) /\ Rest(job, Top) = Cat(x, Rest(job, new))
  BY <1>2, <1>4, <1>5, <1>6, <1>7
<1>9. QED BY <1>1, <1>3, <1>7, <1>8, ReplaceExpands

\* An include without targets comes to nothing.
LEMMA NothingToInclude ==
    ASSUME Shape, AtItem, Item \in Includes, Paths(Item) = {}
    PROVE  ItemText(job, Item, Members(Top.chain), Expansions(job)) = <<>>
<1>1. PICK it : it = Item
  OBVIOUS
<1>2. PICK open : open = Members(Top.chain)
  OBVIOUS
<1>3. it \in Includes /\ job \in Jobs
  BY <1>1 DEF Shape
<1>4. /\ it.targets \in Seq(File) /\ DOMAIN it.targets = 1..Len(it.targets)
      /\ Len(it.targets) \in Nat
  BY <1>3, ItemFacts
<1>5. \A i \in DOMAIN it.targets : job.server # "nginx" /\ job.status[it.targets[i]] = "missing"
  BY <1>1 DEF Paths
<1>6. \A i \in 1..Len(it.targets) :
          TargetText(job, it, it.targets[i], open, Expansions(job)) = <<>>
  <2> SUFFICES ASSUME NEW i \in 1..Len(it.targets)
               PROVE  TargetText(job, it, it.targets[i], open, Expansions(job)) = <<>>
    OBVIOUS
  <2>1. job.server # "nginx" /\ job.status[it.targets[i]] # "ok"
    <3>1. job.server # "nginx" /\ job.status[it.targets[i]] = "missing"
      BY <1>4, <1>5
    <3>2. QED BY <3>1
  <2>2. QED BY <2>1 DEF TargetText
<1> DEFINE ts == [i \in 1..Len(it.targets) |-> <<>>]
<1>7. ItemText(job, it, open, Expansions(job)) = FlattenSeq(ts)
  <2>1. [i \in DOMAIN it.targets |->
            TargetText(job, it, it.targets[i], open, Expansions(job))] = ts
    BY <1>4, <1>6
  <2>2. it.kind \in {"include", "optional"}
    BY <1>3 DEF Includes
  <2>3. QED BY <2>1, <2>2 DEF ItemText
<1>8. ts \in Seq(Seq(Ids)) /\ \A i \in 1..Len(ts) : ts[i] = <<>>
  <2>1. ts \in [1..Len(it.targets) -> Seq(Ids)]
    OBVIOUS
  <2>2. ts \in Seq(Seq(Ids)) /\ Len(ts) = Len(it.targets)
    BY <1>4, <2>1
  <2>3. QED BY <2>2
<1> HIDE DEF ts
<1>9. FlattenSeq(ts) = <<>>
  BY <1>8, FlattenNothing
<1>10. QED BY <1>1, <1>2, <1>7, <1>9

\* Items that are not includes to follow, or no command whose output is resolved.
LEMMA ItemStepExpands ==
    ASSUME Shape, Expanding,
           KeepNode \/ IncludeNothing \/ ShellCycle \/ ShellSkipped \/ ShellFails
    PROVE  Expanding'
<1> DEFINE text == ItemText(job, Item, Members(Top.chain), Expansions(job))
<1>1. AtItem /\ stack' = WithTop(ItemDone) /\ job' = job
  BY DEF KeepNode, IncludeNothing, ShellCycle, ShellSkipped, ShellFails, AfterFailure
<1>2. output \in Seq(Ids) /\ Item \in Items
  BY <1>1, AtItemFacts DEF Expanding
<1>3. output' = Cat(output, text)
  <2>1. CASE KeepNode
    <3>1. Item.kind \in {"directive", "opaque"} /\ output' = Append(output, Item.id)
      BY <2>1 DEF KeepNode
    <3>2. text = <<Item.id>>
      BY <3>1 DEF ItemText
    <3>3. PICK id : id = Item.id
      OBVIOUS
    <3>4. id \in Ids
      BY <1>2, <3>3 DEF Ids
    <3>5. Append(output, id) = output \o <<id>>
      BY <1>2, <3>4, AppendIsConcat
    <3>6. QED BY <3>1, <3>2, <3>3, <3>5 DEF Cat
  <2>2. CASE ~KeepNode
    <3>1. output' = output
      BY <2>2 DEF IncludeNothing, ShellCycle, ShellSkipped, ShellFails
    <3>2. text = <<>>
      <4>1. CASE IncludeNothing
        <5>1. Item \in Includes /\ Paths(Item) = {}
          BY <1>2, <4>1 DEF IncludeNothing, Includes
        <5>2. QED BY <1>1, <5>1, NothingToInclude
      <4>2. CASE ShellCycle
        <5>1. Item.kind = "shell" /\ Item.line \in Members(Top.chain)
          BY <4>2 DEF ShellCycle, OpenNow, ShellTarget
        <5>2. QED BY <5>1 DEF ItemText
      <4>3. CASE ShellSkipped
        <5>1. Item.kind = "shell"
          BY <4>3 DEF ShellSkipped
        <5>2. ~job.shell
          BY <4>3, Zenon DEF ShellSkipped
        <5>3. Item.kind \notin {"directive", "opaque"} /\ Item.kind \notin {"include", "optional"}
          BY <5>1
        <5>4. QED BY <5>2, <5>3, Zenon DEF ItemText
      <4>4. CASE ShellFails
        <5>1. Item.kind = "shell" /\ Item.prints # "ok"
          BY <4>4 DEF ShellFails
        <5>2. QED BY <5>1 DEF ItemText
      <4>5. QED BY <2>2, <4>1, <4>2, <4>3, <4>4
    <3>3. QED BY <1>2, <3>1, <3>2, CatNothing
  <2>3. QED BY <2>1, <2>2
<1>4. QED BY <1>1, <1>3, ItemExpands

\* The first target to open: nothing is put out yet.
LEMMA StartExpands == ASSUME Shape, Expanding, StartInclude PROVE Expanding'
<1>1. /\ AtItem /\ stack # <<>> /\ job \in Jobs /\ SoundWork(Top)
      /\ Top.pending = {} /\ Top.todo # <<>> /\ Item.kind \in {"include", "optional"}
  BY TopSound DEF StartInclude, AtItem
<1>2. PICK new : new = [ItemDone EXCEPT !.pending = Paths(Item), !.by = Item]
  OBVIOUS
<1>3. PICK it : it = Item
  OBVIOUS
<1>4. stack' = WithTop(new) /\ job' = job /\ output' = output
  BY <1>2 DEF StartInclude
<1>5. /\ SoundWork(ItemDone) /\ ItemDone.todo = Tail(Top.todo)
      /\ ItemDone.chain = Top.chain /\ ItemDone.file = Top.file /\ it \in Includes
      /\ it = Head(Top.todo)
  BY <1>1, <1>3, AtItemFacts DEF Includes, Item
<1>6. Paths(it) \subseteq DOMAIN it.targets /\ Paths(it) \in SUBSET Nat
  BY <1>1, <1>5, ItemFacts DEF Paths
<1>7. /\ SoundWork(new) /\ new.todo = Tail(Top.todo) /\ new.by = it
      /\ new.pending = Paths(it) /\ new.chain = Top.chain /\ new.file = Top.file
  BY <1>2, <1>3, <1>5, <1>6 DEF SoundWork, FrameType
<1>8. \A i \in DOMAIN it.targets : i \notin new.pending =>
          job.server # "nginx" /\ job.status[it.targets[i]] = "missing"
  BY <1>7 DEF Paths
<1>9. PICK frame : frame = Top
  OBVIOUS
<1>10. PICK call : call = job
  OBVIOUS
<1>11. Rest(call, new) = Rest(call, frame)
  <2>1. /\ call \in Jobs /\ SoundWork(frame) /\ frame.pending = {} /\ frame.todo # <<>>
        /\ it \in Includes /\ it = Head(frame.todo)
        /\ SoundWork(new) /\ new.chain = frame.chain /\ new.todo = Tail(frame.todo)
        /\ new.by = it
        /\ \A i \in DOMAIN it.targets : i \notin new.pending =>
               call.server # "nginx" /\ call.status[it.targets[i]] = "missing"
    BY <1>1, <1>5, <1>7, <1>8, <1>9, <1>10
  <2>2. QED BY ONLY <2>1, RestOfInclude
<1>12. Rest(call, new) \in Seq(Ids) /\ output \in Seq(Ids)
  BY <1>1, <1>7, <1>10, RestTyped DEF Expanding
<1>13. /\ Rest(job, Top) = Cat(<<>>, Rest(job, new)) /\ output' = Cat(output, <<>>)
       /\ <<>> \in Seq(Ids)
  BY <1>4, <1>9, <1>10, <1>11, <1>12, CatNothing
<1>14. QED BY <1>1, <1>4, <1>7, <1>13, ReplaceExpands

\* The next target comes before the others and what is behind the include.
LEMMA RestAtTarget ==
    ASSUME Shape, AtTarget
    PROVE  /\ Rest(job, Top) =
                  Cat(TargetText(job, Top.by, Target, Members(Top.chain), Expansions(job)),
                      Rest(job, TargetDone))
           /\ TargetText(job, Top.by, Target, Members(Top.chain), Expansions(job)) \in Seq(Ids)
<1>1. /\ job \in Jobs /\ SoundWork(Top) /\ Top.pending # {}
  BY TopSound DEF AtTarget
<1>2. Top.pending \in SUBSET Nat
  BY <1>1 DEF SoundWork, FrameType
<1>3. PICK k : k = NextPlace
  OBVIOUS
<1>4. \E i \in Top.pending : \A j \in Top.pending : i =< j
  BY <1>1, <1>2, LeastElement
<1>5. k \in Top.pending /\ \A j \in Top.pending : k =< j
  BY <1>3, <1>4 DEF NextPlace
<1>6. PICK new : new = TargetDone
  OBVIOUS
<1>7. /\ SoundWork(new) /\ new.todo = Top.todo /\ new.by = Top.by
      /\ new.chain = Top.chain /\ new.pending = Top.pending \ {k}
  BY <1>3, <1>6, AtTargetFacts
<1>8. PICK frame : frame = Top
  OBVIOUS
<1>9. PICK call : call = job
  OBVIOUS
<1>10. PICK x : x = TargetText(job, Top.by, Target, Members(Top.chain), Expansions(job))
  OBVIOUS
<1>11. Rest(call, frame) = Cat(x, Rest(call, new)) /\ x \in Seq(Ids)
  <2>1. /\ call \in Jobs /\ SoundWork(frame) /\ k \in frame.pending
        /\ (\A j \in frame.pending : k =< j)
        /\ SoundWork(new) /\ new.chain = frame.chain /\ new.todo = frame.todo
        /\ new.by = frame.by /\ new.pending = frame.pending \ {k}
    BY <1>1, <1>5, <1>7, <1>8, <1>9
  <2>2. x = TargetText(call, frame.by, frame.by.targets[k], Members(frame.chain),
                       Expansions(call))
    BY <1>3, <1>8, <1>9, <1>10 DEF Target
  <2>3. QED BY ONLY <2>1, <2>2, RestOfTargets
<1>12. QED BY <1>6, <1>8, <1>9, <1>10, <1>11

\* A target that is not followed: nginx keeps the directive, the others drop it.
LEMMA UnfollowedExpands ==
    ASSUME Shape, Expanding, RefuseSelfInclude \/ RefuseCycle \/ IncludeFails
    PROVE  Expanding'
<1>1. /\ AtTarget /\ stack' = WithTop(TargetDone) /\ job' = job /\ output' = Unfollowed
  BY DEF RefuseSelfInclude, RefuseCycle, IncludeFails, Followed
<1>2. Target \in Members(Top.chain) \/ job.status[Target] # "ok"
  <2>1. CASE RefuseSelfInclude
    <3>1. Target = Top.file /\ Top \in Members(stack)
      BY <1>1, <2>1, TopSound DEF RefuseSelfInclude, AtTarget
    <3>2. QED BY <3>1 DEF Expanding
  <2>2. CASE RefuseCycle
    BY <2>2 DEF RefuseCycle, OpenNow
  <2>3. CASE IncludeFails
    BY <2>3 DEF IncludeFails, Caught
  <2>4. QED BY <2>1, <2>2, <2>3
<1>3. PICK x : x = TargetText(job, Top.by, Target, Members(Top.chain), Expansions(job))
  OBVIOUS
<1>4. x = IF job.server = "nginx" THEN <<Top.by.id>> ELSE <<>>
  BY <1>2, <1>3 DEF TargetText
<1>5. Rest(job, Top) = Cat(x, Rest(job, TargetDone)) /\ x \in Seq(Ids)
  BY <1>1, <1>3, RestAtTarget
<1>6. PICK new : new = TargetDone
  OBVIOUS
<1>7. SoundWork(new) /\ new.chain = Top.chain /\ new.file = Top.file /\ Top.by \in Items
  BY <1>1, <1>6, AtTargetFacts DEF Includes
<1>8. output' = Cat(output, x)
  <2>1. PICK id : id = Top.by.id
    OBVIOUS
  <2>2. id \in Ids /\ output \in Seq(Ids)
    BY <1>7, <2>1 DEF Ids, Expanding
  <2>3. CASE job.server = "nginx"
    <3>1. output' = Append(output, id) /\ x = <<id>>
      BY <1>1, <1>4, <2>1, <2>3 DEF Unfollowed
    <3>2. Append(output, id) = output \o <<id>>
      BY <2>2, AppendIsConcat
    <3>3. QED BY <3>1, <3>2 DEF Cat
  <2>4. CASE job.server # "nginx"
    <3>1. output' = output /\ x = <<>>
      BY <1>1, <1>4, <2>4 DEF Unfollowed
    <3>2. QED BY <2>2, <3>1, CatNothing
  <2>5. QED BY <2>3, <2>4
<1>9. stack # <<>> /\ stack' = WithTop(new) /\ Rest(job, Top) = Cat(x, Rest(job, new))
  BY <1>1, <1>5, <1>6 DEF AtTarget
<1>10. QED BY <1>1, <1>5, <1>7, <1>8, <1>9, ReplaceExpands

\* The chain of what is opened.
LEMMA LongerChain ==
    ASSUME Shape, stack # <<>>, NEW f \in File \cup Lines
    PROVE  /\ ChainFor(f) \in Seq(File \cup Lines) /\ ChainFor(f) # <<>>
           /\ f = ChainFor(f)[Len(ChainFor(f))]
           /\ Members(ChainFor(f)) = Members(Top.chain) \cup {f}
<1>1. PICK c : c = Top.chain
  OBVIOUS
<1>2. c \in Seq(File \cup Lines)
  BY <1>1, TopSound DEF SoundWork, FrameType
<1>3. PICK d : d = ChainFor(f)
  OBVIOUS
<1>4. d = Append(c, f)
  BY <1>1, <1>3 DEF ChainFor
<1>5. /\ d \in Seq(File \cup Lines) /\ Len(c) \in Nat /\ Len(d) = Len(c) + 1
      /\ d[Len(d)] = f /\ \A i \in 1..Len(c) : d[i] = c[i]
  BY <1>2, <1>4
<1>6. Members(d) = Members(c) \cup {f}
  <2>1. Members(c) \subseteq Members(d)
    BY <1>5 DEF Members
  <2>2. Len(d) \in 1..Len(d)
    BY <1>5
  <2>3. f \in Members(d)
    BY <1>5, <2>2 DEF Members
  <2>4. Members(d) \subseteq Members(c) \cup {f}
    <3> SUFFICES ASSUME NEW i \in 1..Len(d), i # Len(d) PROVE d[i] \in Members(c)
      BY <1>5 DEF Members
    <3>1. i \in 1..Len(c)
      BY <1>5
    <3>2. QED BY <1>5, <3>1 DEF Members
  <2>5. QED BY <2>1, <2>3, <2>4
<1>7. d # <<>>
  BY <1>5
<1>8. QED BY <1>1, <1>3, <1>5, <1>6, <1>7

\* A new frame owes what its items come to.
LEMMA RestOfPushed ==
    ASSUME Shape, stack # <<>>, NEW f, f \in Sources, NEW file \in File,
           NEW items \in Seq(Items), NEW c, c = ChainFor(f)
    PROVE  /\ SoundWork(Frame(file, f, items, c))
           /\ Rest(job, Frame(file, f, items, c)) =
                  Expansions(job)[Members(Top.chain) \cup {f}][items]
<1>1. PICK pushed : pushed = Frame(file, f, items, c)
  OBVIOUS
<1>2. /\ c \in Seq(File \cup Lines) /\ c # <<>> /\ f = c[Len(c)]
      /\ Members(c) = Members(Top.chain) \cup {f}
  <2>1. f \in File \cup Lines
    BY DEF Sources, Lines
  <2>2. QED BY <2>1, LongerChain
<1>3. pushed = Frame(file, f, items, c)
  BY <1>1
<1>4. SoundWork(pushed)
  <2>1. f \in File \cup Lines
    BY DEF Sources, Lines
  <2>2. QED BY <1>2, <1>3, <2>1, NewFrame
<1>5. /\ pushed.file = file /\ pushed.chain = c /\ pushed.todo = items /\ pushed.pending = {}
  BY <1>3 DEF Frame
<1>6. job \in Jobs
  BY DEF Shape
<1>7. Rest(job, pushed) = Expansions(job)[Members(c)][items]
  BY <1>4, <1>5, <1>6, RestOfFrame
<1>8. QED BY <1>1, <1>2, <1>4, <1>5, <1>7

\* A file that is followed owes what the target came to.
LEMMA FileExpands == ASSUME Shape, Expanding, IncludeFile PROVE Expanding'
<1>1. /\ AtTarget /\ stack # <<>> /\ job \in Jobs
      /\ Target \notin Members(Top.chain) /\ job.status[Target] = "ok"
      /\ job' = job /\ output' = output
      /\ stack' = Push(WithTop(TargetDone),
                       Frame(Target, Target, job.text[Target], ChainFor(Target)))
  BY DEF IncludeFile, Followed, AtTarget, OpenNow, AfterTarget, Shape
<1>2. PICK new : new = TargetDone
  OBVIOUS
<1>3. PICK f : f = Target
  OBVIOUS
<1>4. /\ SoundWork(new) /\ new.chain = Top.chain /\ new.file = Top.file /\ f \in File
  BY <1>1, <1>2, <1>3, AtTargetFacts
<1>5. PICK items : items = job.text[f]
  OBVIOUS
<1>6. items \in Seq(Items)
  BY <1>1, <1>4, <1>5, ItemFacts
<1>7. PICK pushed : pushed = Frame(f, f, items, ChainFor(f))
  OBVIOUS
<1>8. /\ SoundWork(pushed) /\ pushed.file = f
      /\ Members(pushed.chain) = Members(Top.chain) \cup {f}
      /\ Rest(job, pushed) = Expansions(job)[Members(Top.chain) \cup {f}][items]
  <2>1. /\ Shape /\ stack # <<>> /\ f \in Sources /\ f \in File
        /\ items \in Seq(Items)
    BY <1>1, <1>4, <1>6 DEF Sources
  <2>2. PICK c : c = ChainFor(f)
    OBVIOUS
  <2>3. /\ SoundWork(Frame(f, f, items, c))
        /\ Rest(job, Frame(f, f, items, c)) =
               Expansions(job)[Members(Top.chain) \cup {f}][items]
    BY ONLY <2>1, <2>2, RestOfPushed
  <2>4. pushed = Frame(f, f, items, c)
    BY <1>7, <2>2
  <2>5. pushed.file = f /\ pushed.chain = c
    BY <2>4 DEF Frame
  <2>6. Members(c) = Members(Top.chain) \cup {f}
    BY <2>1, <2>2, LongerChain DEF Sources, Lines
  <2>7. QED BY <2>3, <2>4, <2>5, <2>6
<1>9. TargetText(job, Top.by, f, Members(Top.chain), Expansions(job)) = Rest(job, pushed)
  BY <1>1, <1>3, <1>5, <1>8 DEF TargetText
<1>10. Rest(job, Top) = Cat(Rest(job, pushed), Rest(job, new))
  BY <1>1, <1>2, <1>3, <1>9, RestAtTarget
<1>11. stack' = Push(WithTop(new), pushed)
  BY <1>1, <1>2, <1>3, <1>5, <1>7
<1>12. pushed.file \in Members(pushed.chain)
  BY <1>8
<1>13. QED BY <1>1, <1>4, <1>8, <1>10, <1>11, <1>12, PushExpands

\* The output of a command owes what the item came to.
LEMMA ShellExpands == ASSUME Shape, Expanding, RunShell PROVE Expanding'
<1>1. /\ AtItem /\ stack # <<>> /\ job \in Jobs /\ SoundWork(Top) /\ Top \in Members(stack)
      /\ Top.pending = {} /\ Top.todo # <<>>
      /\ Item.kind = "shell" /\ Item.line \notin Members(Top.chain) /\ Item.prints = "ok"
      /\ job' = job /\ output' = output
      /\ stack' = Push(WithTop(ItemDone),
                       Frame(Top.file, Item.line, Item.output, ChainFor(Item.line)))
  BY TopSound DEF RunShell, AtItem, OpenNow, ShellTarget
<1>2. job.shell
  BY Zenon DEF RunShell
<1>3. PICK new : new = ItemDone
  OBVIOUS
<1>4. PICK it : it = Item
  OBVIOUS
<1>5. /\ SoundWork(new) /\ new.todo = Tail(Top.todo) /\ new.pending = {}
      /\ new.chain = Top.chain /\ new.file = Top.file /\ it \in Items
  BY <1>1, <1>3, <1>4, AtItemFacts
<1>6. PICK line : line = it.line
  OBVIOUS
<1>7. PICK items : items = it.output
  OBVIOUS
<1>8. it.kind = "shell" /\ line \in Lines /\ items \in Seq(Items)
  BY <1>1, <1>4, <1>5, <1>6, <1>7, JobsAssumption DEF JobsAssumption, Lines
<1>9. PICK file : file = Top.file
  OBVIOUS
<1>10. file \in File /\ file \in Members(Top.chain)
  BY <1>1, <1>9 DEF SoundWork, FrameType, Expanding
<1>11. PICK pushed : pushed = Frame(file, line, items, ChainFor(line))
  OBVIOUS
<1>12. /\ SoundWork(pushed) /\ pushed.file = file
       /\ Members(pushed.chain) = Members(Top.chain) \cup {line}
       /\ Rest(job, pushed) = Expansions(job)[Members(Top.chain) \cup {line}][items]
  <2>1. /\ Shape /\ stack # <<>> /\ line \in Sources /\ file \in File
        /\ items \in Seq(Items)
    BY <1>1, <1>8, <1>10 DEF Sources, Lines
  <2>2. PICK c : c = ChainFor(line)
    OBVIOUS
  <2>3. /\ SoundWork(Frame(file, line, items, c))
        /\ Rest(job, Frame(file, line, items, c)) =
               Expansions(job)[Members(Top.chain) \cup {line}][items]
    BY ONLY <2>1, <2>2, RestOfPushed
  <2>4. pushed = Frame(file, line, items, c)
    BY <1>11, <2>2
  <2>5. pushed.file = file /\ pushed.chain = c
    BY <2>4 DEF Frame
  <2>6. Members(c) = Members(Top.chain) \cup {line}
    BY <2>1, <2>2, LongerChain DEF Sources, Lines
  <2>7. QED BY <2>3, <2>4, <2>5, <2>6
<1>13. ItemText(job, it, Members(Top.chain), Expansions(job)) = Rest(job, pushed)
  <2>1. /\ it.kind \notin {"directive", "opaque"} /\ it.kind \notin {"include", "optional"}
        /\ it.kind = "shell" /\ it.line \notin Members(Top.chain) /\ it.prints = "ok"
    BY <1>1, <1>4, <1>8
  <2>2. ItemText(job, it, Members(Top.chain), Expansions(job)) =
            Expansions(job)[Members(Top.chain) \cup {it.line}][it.output]
    BY <1>2, <2>1, Zenon DEF ItemText
  <2>3. QED BY <1>6, <1>7, <1>12, <2>2
<1>14. PICK frame : frame = Top
  OBVIOUS
<1>15. PICK call : call = job
  OBVIOUS
<1>16. Rest(call, frame) =
           Cat(ItemText(call, Head(frame.todo), Members(frame.chain), Expansions(call)),
               Rest(call, new))
  <2>1. /\ call \in Jobs /\ SoundWork(frame) /\ frame.pending = {} /\ frame.todo # <<>>
        /\ SoundWork(new) /\ new.pending = {} /\ new.chain = frame.chain
        /\ new.todo = Tail(frame.todo)
    BY <1>1, <1>5, <1>14, <1>15
  <2>2. QED BY ONLY <2>1, RestOfItems
<1>17. Rest(job, Top) = Cat(Rest(job, pushed), Rest(job, new))
  BY <1>4, <1>13, <1>14, <1>15, <1>16 DEF Item
<1>18. stack' = Push(WithTop(new), pushed)
  BY <1>1, <1>3, <1>4, <1>6, <1>7, <1>9, <1>11
<1>19. pushed.file \in Members(pushed.chain)
  BY <1>10, <1>12
<1>20. QED BY <1>1, <1>5, <1>12, <1>17, <1>18, <1>19, PushExpands

\* At first everything is owed.
LEMMA InitExpands == Init => Expanding
<1> SUFFICES ASSUME Init PROVE Expanding
  OBVIOUS
<1>1. PICK root : root = Frame(Root, Root, job.text[Root], <<Root>>)
  OBVIOUS
<1>2. stack = <<root>> /\ output = <<>> /\ job \in Jobs /\ Root \in File
  BY <1>1, JobsAssumption DEF Init, JobsAssumption
<1>3. PICK items : items = job.text[Root]
  OBVIOUS
<1>4. PICK chain : chain = <<Root>>
  OBVIOUS
<1>5. /\ items \in Seq(Items) /\ chain \in Seq(File \cup Lines) /\ chain # <<>>
      /\ Len(chain) = 1 /\ chain[1] = Root
  BY <1>2, <1>3, <1>4, ItemFacts
<1>6. SoundWork(root) /\ root.file = Root /\ root.chain = chain /\ root.todo = items
      /\ root.pending = {}
  <2>1. root = Frame(Root, Root, items, chain)
    BY <1>1, <1>3, <1>4
  <2>2. SoundWork(Frame(Root, Root, items, chain))
    BY <1>2, <1>5, NewFrame
  <2>3. QED BY <2>1, <2>2 DEF Frame
<1>7. Members(chain) = {Root}
  BY <1>5 DEF Members
<1>8. PICK all : all = Expansions(job)[{Root}][items]
  OBVIOUS
<1>9. Rest(job, root) = all /\ all \in Seq(Ids)
  BY <1>2, <1>6, <1>7, <1>8, RestTyped
<1> DEFINE r == [i \in 0..1 |-> IF i = 0 THEN <<>> ELSE all]
<1>10. r \in [0..1 -> Seq(Ids)] /\ r[0] = <<>> /\ r[1] = all
  BY <1>9
<1>11. Len(stack) = 1 /\ stack[1] = root /\ Members(stack) = {root}
  BY <1>2 DEF Members
<1> HIDE DEF r
<1>12. \A i \in 1..1 : r[i] = Cat(Rest(job, stack[i]), r[i - 1])
  <2>1. all = Cat(all, <<>>)
    BY <1>9, CatNothing
  <2>2. QED BY <1>9, <1>10, <1>11, <2>1
<1>13. Owes(r, job, stack)
  BY <1>10, <1>11, <1>12 DEF Owes
<1>14. Cat(output, r[Len(stack)]) = all
  BY <1>2, <1>9, <1>10, <1>11, CatNothing
<1>15. output \in Seq(Ids)
  BY <1>2
<1>16. \A frame \in Members(stack) : frame.file \in Members(frame.chain)
  BY <1>6, <1>7, <1>11
<1>17. QED BY <1>3, <1>8, <1>13, <1>14, <1>15, <1>16 DEF Expanding

\* Whatever the configuration files include and commands print, and in whatever cycles:
\* when resolution is done, the rewritten tree is the recursive expansion of the main
\* file, in document order and complete.
THEOREM OutputIsTheExpansion == Spec => []OutputIsExpansion
<1>1. Shape /\ Expanding /\ [Next]_vars => Expanding'
  <2> SUFFICES ASSUME Shape, Expanding, [Next]_vars PROVE Expanding'
    OBVIOUS
  <2>1. CASE KeepNode \/ IncludeNothing \/ ShellCycle \/ ShellSkipped \/ ShellFails
    BY <2>1, ItemStepExpands
  <2>2. CASE StartInclude
    BY <2>2, StartExpands
  <2>3. CASE RefuseSelfInclude \/ RefuseCycle \/ IncludeFails
    BY <2>3, UnfollowedExpands
  <2>4. CASE IncludeFile
    BY <2>4, FileExpands
  <2>5. CASE RunShell
    BY <2>5, ShellExpands
  <2>6. CASE Return
    BY <2>6, ReturnExpands
  <2>7. CASE DecodeErrorEscapes \/ UNCHANGED vars
    <3>1. stack' = stack /\ job' = job /\ output' = output
      BY <2>7 DEF DecodeErrorEscapes, vars
    <3>2. QED BY <3>1 DEF Expanding
  <2>8. QED BY <2>1, <2>2, <2>3, <2>4, <2>5, <2>6, <2>7 DEF Next
<1>2. IInv => Shape
  BY DEF IInv
<1>3. Shape /\ Expanding => OutputIsExpansion
  <2> SUFFICES ASSUME Shape, Expanding, phase = "done"
               PROVE  output = Expansions(job)[{Root}][job.text[Root]]
    BY DEF OutputIsExpansion
  <2>1. stack = <<>> /\ Len(stack) = 0
    BY DEF Shape
  <2>2. PICK r : /\ Owes(r, job, stack)
                 /\ Cat(output, r[Len(stack)]) = Expansions(job)[{Root}][job.text[Root]]
    BY DEF Expanding
  <2>3. r[Len(stack)] = <<>> /\ output \in Seq(Ids)
    BY <2>1, <2>2 DEF Owes, Expanding
  <2>4. QED BY <2>2, <2>3, CatNothing
<1>4. QED BY Invariance, InitExpands, <1>1, <1>2, <1>3, PTL DEF Spec

(***************************************************************************)
(* lighttpd: the conditional scopes of a configuration, and what a request *)
(* to a host meets.                                                        *)
(***************************************************************************)
CONSTANTS Conditions, Assignments, Hosts, MaxStatements, Topics
VARIABLES statements, branches, globals, conditionals, open, chains, topic, asked, findings

Lighttpd == INSTANCE LighttpdRules WITH blocks <- branches, scopes <- conditionals, host <- asked

Tests == {"==", "!=", "=^", "=$"}
Operators == {d.operator : d \in Assignments}
Branches == {"if", "else_if", "else"}

\* What a parsed configuration asks and says, and a host that is known.
VocabularyAssumption ==
    /\ \A c \in Conditions : c.operator \in Tests
    /\ Operators \subseteq {"=", "+="}
    /\ Lighttpd!Unknown \notin Hosts

Asked == Conditions \cup {Lighttpd!NoCondition}
Way == Seq(Nat \X Nat)
Statement == [name : Lighttpd!Names, operator : Operators, text : {d.text : d \in Assignments}, in : Nat]
Branch == [condition : Asked, parent : Nat, previous : SUBSET Nat]
Directive == [value : Seq(Nat), operator : Operators, conditions : Seq(Asked), path : Way]
Said == UNION {[D -> Directive] : D \in SUBSET Lighttpd!Names}
Own == [conditions : Seq(Asked), path : Way, kind : Branches, previous : Seq(Nat), block : Nat]
Conditional == [conditions : Seq(Asked), path : Way, kind : Branches, previous : Seq(Nat),
                block : Nat, directives : Said]
Opened == [own : Own, scope : Nat, chain : Seq(Nat), chainId : Nat]

LighttpdTypeOK ==
    /\ statements \in Seq(Statement)
    /\ branches \in Seq(Branch)
    /\ globals \in Said
    /\ conditionals \in Seq(Conditional)
    /\ open \in Seq(Opened) /\ open # <<>>
    /\ chains \in Nat

-----------------------------------------------------------------------------
(* How scopes cs stand to blocks bs. *)

\* A branch of the chain that o goes on, met earlier.
Precedes(cs, bs, i, o) ==
    /\ cs[i].block \in DOMAIN bs /\ cs[i].block < o.block
    /\ bs[cs[i].block].parent = bs[o.block].parent
    /\ bs[cs[i].block].condition \in Conditions
    /\ Lighttpd!ToSet(cs[i].previous) \subseteq Lighttpd!ToSet(o.previous)

\* What n scopes say of block o.
Nested(cs, bs, o) ==
    IF bs[o.block].parent = 0 THEN o.conditions = <<bs[o.block].condition>>
    ELSE \E t \in DOMAIN cs :
             /\ cs[t].block = bs[o.block].parent
             /\ o.conditions = Append(cs[t].conditions, bs[o.block].condition)

Situated(cs, bs, o) ==
    /\ o.block \in DOMAIN bs /\ bs[o.block].parent < o.block
    /\ bs[o.block].previous = {cs[i].block : i \in Lighttpd!ToSet(o.previous)}
    /\ o.kind = "if" <=> o.previous = <<>>
    /\ bs[o.block].condition = Lighttpd!NoCondition => o.previous # <<>>
    /\ Lighttpd!ToSet(o.previous) \subseteq DOMAIN cs
    /\ \A i \in Lighttpd!ToSet(o.previous) : Precedes(cs, bs, i, o)
    /\ Nested(cs, bs, o)

\* A block being read has a scope, if not the one it goes on in.
Seated(cs, f) ==
    /\ \E t \in DOMAIN cs : cs[t].block = f.own.block /\ cs[t].conditions = f.own.conditions
    /\ f.scope # 0 => f.scope \in DOMAIN cs /\ cs[f.scope].block = f.own.block

Chained(cs, bs, f) ==
    \A i \in Lighttpd!ToSet(f.chain) :
        /\ i \in DOMAIN cs /\ cs[i].block \in DOMAIN bs
        /\ bs[cs[i].block].parent = f.own.block
        /\ bs[cs[i].block].condition \in Conditions
        /\ Lighttpd!ToSet(cs[i].previous) \subseteq Lighttpd!ToSet(f.chain)

ScopesStand(cs, bs) ==
    /\ \A s \in DOMAIN cs : Situated(cs, bs, cs[s])
    /\ \A b \in DOMAIN bs : \E s \in DOMAIN cs : cs[s].block = b

FramesStand(cs, bs, fs) ==
    /\ fs[1].own = Lighttpd!File /\ fs[1].scope = 0
    /\ \A k \in DOMAIN fs : /\ k # 1 => Situated(cs, bs, fs[k].own) /\ Seated(cs, fs[k])
                            /\ Chained(cs, bs, fs[k])

-----------------------------------------------------------------------------
(* What the directives ds of block b stand for, of statements ss. *)

Heard(ss, ds, b) ==
    \A name \in DOMAIN ds :
        /\ ds[name].value # <<>>
        /\ \A i \in Lighttpd!ToSet(ds[name].value) :
               i \in DOMAIN ss /\ ss[i].name = name /\ ss[i].in = b
        /\ ds[name].operator = "=" => Len(ds[name].value) = 1

\* Statement i is in the value, or something later is.
Kept(ds, name, i) == name \in DOMAIN ds /\ i =< ds[name].value[Len(ds[name].value)]

StatementsStand(ss, cs, gs) ==
    /\ Heard(ss, gs, 0)
    /\ \A s \in DOMAIN cs : Heard(ss, cs[s].directives, cs[s].block)
    /\ \A i \in DOMAIN ss :
           IF ss[i].in = 0 THEN Kept(gs, ss[i].name, i)
           ELSE \E s \in DOMAIN cs : cs[s].block = ss[i].in /\ Kept(cs[s].directives, ss[i].name, i)

LighttpdInv ==
    /\ LighttpdTypeOK
    /\ ScopesStand(conditionals, branches)
    /\ FramesStand(conditionals, branches, open)
    /\ StatementsStand(statements, conditionals, globals)

-----------------------------------------------------------------------------
(* Scopes and blocks are only added. *)

Grows(cs, ds) ==
    /\ DOMAIN cs \subseteq DOMAIN ds
    /\ \A i \in DOMAIN cs : /\ ds[i].conditions = cs[i].conditions
                            /\ ds[i].previous = cs[i].previous
                            /\ ds[i].kind = cs[i].kind
                            /\ ds[i].block = cs[i].block
Continues(bs, es) == DOMAIN bs \subseteq DOMAIN es /\ \A b \in DOMAIN bs : es[b] = bs[b]

\* Nothing is undone when scopes are added: what places a block stays where it is.
LEMMA PlacedStays ==
    ASSUME NEW cs, NEW ds, NEW bs, NEW es, Grows(cs, ds), Continues(bs, es),
           NEW o, Situated(cs, bs, o)
    PROVE  Situated(ds, es, o)
<1> DEFINE P == Lighttpd!ToSet(o.previous)
<1>1. o.block \in DOMAIN bs /\ o.block \in DOMAIN es /\ es[o.block] = bs[o.block]
  BY DEF Situated, Continues
<1>2. P \subseteq DOMAIN cs /\ P \subseteq DOMAIN ds /\ \A i \in P : ds[i].block = cs[i].block
  BY DEF Situated, Grows
<1>3. {cs[i].block : i \in P} = {ds[i].block : i \in P}
  BY <1>2
<1>4. \A i \in P : Precedes(ds, es, i, o)
  <2> SUFFICES ASSUME NEW i \in P PROVE Precedes(ds, es, i, o)
    OBVIOUS
  <2>1. Precedes(cs, bs, i, o) /\ i \in DOMAIN cs
    BY <1>2 DEF Situated
  <2>2. ds[i].block = cs[i].block /\ ds[i].previous = cs[i].previous
    BY <2>1 DEF Grows
  <2>3. es[cs[i].block] = bs[cs[i].block] /\ cs[i].block \in DOMAIN es
    BY <2>1 DEF Precedes, Continues
  <2>4. QED BY <1>1, <2>1, <2>2, <2>3 DEF Precedes
<1>5. Nested(ds, es, o)
  <2>1. CASE bs[o.block].parent = 0
    BY <1>1, <2>1 DEF Situated, Nested
  <2>2. CASE bs[o.block].parent # 0
    <3>1. PICK t \in DOMAIN cs : /\ cs[t].block = bs[o.block].parent
                                 /\ o.conditions = Append(cs[t].conditions, bs[o.block].condition)
      BY <2>2 DEF Situated, Nested
    <3>2. t \in DOMAIN ds /\ ds[t].block = cs[t].block /\ ds[t].conditions = cs[t].conditions
      BY DEF Grows
    <3>3. QED BY <1>1, <2>2, <3>1, <3>2 DEF Nested
  <2>3. QED BY <2>1, <2>2
<1>6. QED BY <1>1, <1>2, <1>3, <1>4, <1>5 DEF Situated

\* What is said of a scope does not depend on its directives or path.
LEMMA PlacedSame ==
    ASSUME NEW cs, NEW bs, NEW o, NEW p, Situated(cs, bs, o),
           p.block = o.block, p.previous = o.previous, p.kind = o.kind, p.conditions = o.conditions
    PROVE  Situated(cs, bs, p)
<1>1. \A i : Precedes(cs, bs, i, o) => Precedes(cs, bs, i, p)
  BY DEF Precedes
<1>2. Nested(cs, bs, p)
  BY DEF Situated, Nested
<1>3. QED BY <1>1, <1>2 DEF Situated

\* The same of the scope that a block being read writes to,
LEMMA SeatedStays ==
    ASSUME NEW cs, NEW ds, Grows(cs, ds), NEW f, Seated(cs, f)
    PROVE  Seated(ds, f)
BY DEF Seated, Grows

\* and of the branches an else may go on.
LEMMA ChainedStays ==
    ASSUME NEW cs, NEW ds, NEW bs, NEW es, Grows(cs, ds), Continues(bs, es),
           NEW f, Chained(cs, bs, f)
    PROVE  Chained(ds, es, f)
<1> SUFFICES ASSUME NEW i \in Lighttpd!ToSet(f.chain)
             PROVE  /\ i \in DOMAIN ds /\ ds[i].block \in DOMAIN es
                    /\ es[ds[i].block].parent = f.own.block
                    /\ es[ds[i].block].condition \in Conditions
                    /\ Lighttpd!ToSet(ds[i].previous) \subseteq Lighttpd!ToSet(f.chain)
  BY DEF Chained
<1>1. /\ i \in DOMAIN cs /\ cs[i].block \in DOMAIN bs
      /\ bs[cs[i].block].parent = f.own.block
      /\ bs[cs[i].block].condition \in Conditions
      /\ Lighttpd!ToSet(cs[i].previous) \subseteq Lighttpd!ToSet(f.chain)
  BY DEF Chained
<1>2. i \in DOMAIN ds /\ ds[i].block = cs[i].block /\ ds[i].previous = cs[i].previous
  BY <1>1 DEF Grows
<1>3. cs[i].block \in DOMAIN es /\ es[cs[i].block] = bs[cs[i].block]
  BY <1>1 DEF Continues
<1>4. QED BY <1>1, <1>2, <1>3

-----------------------------------------------------------------------------
(* Sequences. *)

\* What Append does, element by element.
LEMMA AppendIs ==
    ASSUME NEW S, NEW s \in Seq(S), NEW x \in S
    PROVE  LET n == Len(s)
               t == Append(s, x)
           IN /\ t \in Seq(S) /\ t # <<>> /\ n \in Nat /\ Len(t) = n + 1 /\ DOMAIN t = 1 .. n + 1
              /\ \A i \in 1 .. n : t[i] = s[i]
              /\ t[n + 1] = x
OBVIOUS

\* And to the set of elements.
LEMMA ToSetAppend ==
    ASSUME NEW S, NEW s \in Seq(S), NEW x \in S
    PROVE  Lighttpd!ToSet(Append(s, x)) = Lighttpd!ToSet(s) \cup {x}
<1> DEFINE t == Append(s, x)
<1>1. Len(t) = Len(s) + 1 /\ DOMAIN t = 1 .. Len(s) + 1 /\ DOMAIN s = 1 .. Len(s)
  OBVIOUS
<1>2. t[Len(s) + 1] = x /\ \A i \in DOMAIN s : t[i] = s[i]
  OBVIOUS
<1> HIDE DEF t
<1>3. \A i \in DOMAIN t : i \in DOMAIN s \/ i = Len(s) + 1
  BY <1>1
<1>4. \A y \in Lighttpd!ToSet(t) : y \in Lighttpd!ToSet(s) \cup {x}
  BY <1>2, <1>3 DEF Lighttpd!ToSet
<1>5. \A y \in Lighttpd!ToSet(s) \cup {x} : y \in Lighttpd!ToSet(t)
  BY <1>1, <1>2 DEF Lighttpd!ToSet
<1>6. Lighttpd!ToSet(t) = Lighttpd!ToSet(s) \cup {x}
  BY <1>4, <1>5
<1>7. QED BY <1>6 DEF t

\* A sequence without elements is the empty one.
LEMMA ToSetEmpty ==
    ASSUME NEW S, NEW s \in Seq(S)
    PROVE  s = <<>> <=> Lighttpd!ToSet(s) = {}
<1>1. DOMAIN s = 1 .. Len(s)
  OBVIOUS
<1>2. CASE s = <<>>
  BY <1>2 DEF Lighttpd!ToSet
<1>3. CASE s # <<>>
  <2>1. 1 \in DOMAIN s
    BY <1>1, <1>3
  <2>2. s[1] \in Lighttpd!ToSet(s)
    BY <2>1 DEF Lighttpd!ToSet
  <2>3. QED BY <1>3, <2>2
<1>4. QED BY <1>2, <1>3

-----------------------------------------------------------------------------
(* A block is opened. *)

\* There is always a block being read, the file if no other.
LEMMA TopIs ==
    ASSUME LighttpdTypeOK
    PROVE  Lighttpd!Top \in Opened /\ Len(open) \in Nat \ {0} /\ Lighttpd!Top = open[Len(open)]
BY DEF LighttpdTypeOK, Lighttpd!Top

\* The types of what a scope holds.
LEMMA ConditionalIs ==
    ASSUME LighttpdTypeOK, NEW s \in DOMAIN conditionals
    PROVE  /\ conditionals[s] \in Conditional /\ s \in Nat
           /\ conditionals[s].conditions \in Seq(Asked) /\ conditionals[s].previous \in Seq(Nat)
           /\ conditionals[s].block \in Nat /\ conditionals[s].directives \in Said
           /\ conditionals[s].kind \in Branches /\ conditionals[s].path \in Way
<1>1. conditionals \in Seq(Conditional)
  BY DEF LighttpdTypeOK
<1>2. conditionals[s] \in Conditional /\ s \in Nat
  BY <1>1
<1>3. QED BY <1>2 DEF Conditional

\* What a block is opened with.
OpenedAs(branch, condition, own, previous, id) ==
    LET f == open[Len(open)]
        n == Len(conditionals) + 1
    IN /\ previous = (IF branch = "if" THEN <<>> ELSE f.chain)
       /\ id \in Nat
       /\ own = [conditions |-> Append(f.own.conditions, condition),
                 path |-> Append(f.own.path, <<id, Len(previous)>>),
                 kind |-> branch, previous |-> previous, block |-> Len(branches) + 1]
       /\ branch # "if" => f.chain # <<>>
       /\ branches' = Append(branches, [condition |-> condition, parent |-> f.own.block,
                                        previous |-> {conditionals[i].block : i \in Lighttpd!ToSet(previous)}])
       /\ conditionals' = Append(conditionals, Lighttpd!Scope(own, Lighttpd!Nothing))
       /\ chains' \in Nat
       /\ \E after \in Nat :
             open' = Append([open EXCEPT ![Len(open)] =
                                 [open[Len(open)] EXCEPT
                                      !.scope = 0, !.chain = Lighttpd!NextChain(f, branch, n), !.chainId = after]],
                            Lighttpd!Frame(own, n))
       /\ UNCHANGED <<statements, globals>>

\* What opening a block adds, spelled out.
LEMMA OpenIs ==
    ASSUME LighttpdTypeOK, NEW branch \in Branches, NEW condition \in Asked,
           Lighttpd!Open(branch, condition)
    PROVE  \E own, previous, id : OpenedAs(branch, condition, own, previous, id)
<1> DEFINE f == open[Len(open)]
           previous == IF branch = "if" THEN <<>> ELSE f.chain
           new == branch = "if" \/ f.chainId = 0
           id == IF new THEN chains + 1 ELSE f.chainId
           own == [conditions |-> Append(f.own.conditions, condition),
                   path |-> Append(f.own.path, <<id, Len(previous)>>),
                   kind |-> branch, previous |-> previous, block |-> Len(branches) + 1]
           after == IF branch = "else" THEN 0 ELSE id
<1>1. f \in Opened /\ chains \in Nat
  BY TopIs DEF LighttpdTypeOK
<1>2. id \in Nat /\ after \in Nat
  BY <1>1 DEF Opened
<1>3. chains' \in Nat
  BY <1>1 DEF Lighttpd!Open, Lighttpd!Top
<1>4. open' = Append([open EXCEPT ![Len(open)] =
                          [open[Len(open)] EXCEPT
                               !.scope = 0, !.chain = Lighttpd!NextChain(f, branch, Len(conditionals) + 1),
                               !.chainId = after]],
                     Lighttpd!Frame(own, Len(conditionals) + 1))
  BY SMTT(60) DEF Lighttpd!Open, Lighttpd!Top
<1>5. OpenedAs(branch, condition, own, previous, id)
  <2>1. \E a \in Nat :
             open' = Append([open EXCEPT ![Len(open)] =
                                 [open[Len(open)] EXCEPT
                                      !.scope = 0, !.chain = Lighttpd!NextChain(f, branch, Len(conditionals) + 1),
                                      !.chainId = a]],
                            Lighttpd!Frame(own, Len(conditionals) + 1))
    BY <1>2, <1>4
  <2>2. QED BY <1>2, <1>3, <2>1 DEF OpenedAs, Lighttpd!Open, Lighttpd!Top
<1>6. QED BY <1>5

\* What the opening of a block leaves behind.
LEMMA OpenTypes ==
    ASSUME LighttpdInv, NEW branch \in Branches, NEW condition \in Asked,
           NEW own, NEW previous, NEW id, OpenedAs(branch, condition, own, previous, id)
    PROVE  LET n == Len(conditionals) + 1
               f == open[Len(open)]
           IN /\ LighttpdTypeOK'
              /\ own \in Own /\ previous \in Seq(Nat)
              /\ DOMAIN conditionals = 1 .. n - 1 /\ DOMAIN conditionals' = 1 .. n
              /\ conditionals'[n] = Lighttpd!Scope(own, Lighttpd!Nothing)
              /\ \A s \in 1 .. n - 1 : conditionals'[s] = conditionals[s]
              /\ DOMAIN branches = 1 .. own.block - 1 /\ DOMAIN branches' = 1 .. own.block
              /\ branches'[own.block] =
                     [condition |-> condition, parent |-> f.own.block,
                      previous |-> {conditionals[i].block : i \in Lighttpd!ToSet(previous)}]
              /\ \A b \in 1 .. own.block - 1 : branches'[b] = branches[b]
              /\ Len(open) \in Nat \ {0} /\ DOMAIN open' = 1 .. Len(open) + 1
              /\ \A k \in 1 .. Len(open) - 1 : open'[k] = open[k]
              /\ open'[Len(open)].own = f.own /\ open'[Len(open)].scope = 0
              /\ open'[Len(open)].chain = Lighttpd!NextChain(f, branch, n)
              /\ open'[Len(open) + 1] = Lighttpd!Frame(own, n)
<1> DEFINE n == Len(conditionals) + 1
           f == open[Len(open)]
           begun == [condition |-> condition, parent |-> f.own.block,
                      previous |-> {conditionals[i].block : i \in Lighttpd!ToSet(previous)}]
           new == Lighttpd!Scope(own, Lighttpd!Nothing)
<1>1. f \in Opened /\ Len(open) \in Nat \ {0} /\ open \in Seq(Opened) /\ DOMAIN open = 1 .. Len(open)
  BY TopIs DEF LighttpdInv, LighttpdTypeOK
<1>2. f.own \in Own /\ f.chain \in Seq(Nat)
  BY <1>1 DEF Opened
<1>3. previous \in Seq(Nat) /\ Len(previous) \in Nat /\ id \in Nat
  BY <1>2, SMTT(60) DEF OpenedAs
<1>4. own \in Own /\ own.block = Len(branches) + 1
  <2>1. Append(f.own.conditions, condition) \in Seq(Asked)
    BY <1>2 DEF Own
  <2>2. Append(f.own.path, <<id, Len(previous)>>) \in Way
    <3>1. <<id, Len(previous)>> \in Nat \X Nat
      BY <1>3
    <3>2. f.own.path \in Seq(Nat \X Nat)
      BY <1>2 DEF Own, Way
    <3>3. QED BY <3>1, <3>2 DEF Way
  <2>3. Len(branches) + 1 \in Nat
    BY DEF LighttpdInv, LighttpdTypeOK
  <2>4. QED BY <1>3, <2>1, <2>2, <2>3 DEF Own, OpenedAs
<1>5. Lighttpd!Nothing \in Said
  <2>1. {} \in SUBSET Lighttpd!Names /\ Lighttpd!Nothing \in [{} -> Directive]
    BY DEF Lighttpd!Nothing
  <2>2. QED BY <2>1 DEF Said
<1>6. new \in Conditional
  BY <1>4, <1>5 DEF Conditional, Own, Lighttpd!Scope
<1>7. begun \in Branch
  <2>1. f.own.block \in Nat
    BY <1>2 DEF Own
  <2>2. \A i \in Lighttpd!ToSet(previous) : conditionals[i].block \in Nat
    <3>1. Lighttpd!ToSet(previous) \subseteq Lighttpd!ToSet(f.chain)
      BY DEF OpenedAs, Lighttpd!ToSet
    <3>2. \A i \in Lighttpd!ToSet(f.chain) : i \in DOMAIN conditionals
      BY <1>1 DEF LighttpdInv, FramesStand, Chained
    <3>3. \A i \in DOMAIN conditionals : conditionals[i].block \in Nat
      BY ConditionalIs DEF LighttpdInv
    <3>4. QED BY <3>1, <3>2, <3>3, SMTT(60)
  <2>3. QED BY <2>1, <2>2 DEF Branch
<1>8. /\ DOMAIN conditionals = 1 .. n - 1 /\ conditionals' = Append(conditionals, new)
      /\ conditionals \in Seq(Conditional) /\ n - 1 = Len(conditionals)
      /\ branches' = Append(branches, begun) /\ branches \in Seq(Branch)
  BY DEF LighttpdInv, LighttpdTypeOK, OpenedAs
<1>9. /\ conditionals' \in Seq(Conditional) /\ DOMAIN conditionals' = 1 .. n
      /\ conditionals'[n] = new
      /\ \A s \in 1 .. n - 1 : conditionals'[s] = conditionals[s]
  <2> HIDE DEF new
  <2>1. QED BY <1>6, <1>8
<1>10. /\ branches' \in Seq(Branch)
       /\ DOMAIN branches = 1 .. own.block - 1 /\ DOMAIN branches' = 1 .. own.block
       /\ branches'[own.block] = begun
       /\ \A b \in 1 .. own.block - 1 : branches'[b] = branches[b]
  <2> HIDE DEF begun
  <2>1. QED BY <1>4, <1>7, <1>8, SMTT(60)
<1>11. PICK a \in Nat :
           open' = Append([open EXCEPT ![Len(open)] =
                               [f EXCEPT !.scope = 0, !.chain = Lighttpd!NextChain(f, branch, n), !.chainId = a]],
                          Lighttpd!Frame(own, n))
  BY DEF OpenedAs
<1> DEFINE below == [f EXCEPT !.scope = 0, !.chain = Lighttpd!NextChain(f, branch, n), !.chainId = a]
           lower == [open EXCEPT ![Len(open)] = below]
           top == Lighttpd!Frame(own, n)
<1>12. n \in Nat
  BY <1>8
<1>13. Lighttpd!NextChain(f, branch, n) \in Seq(Nat)
  <2>1. <<n>> \in Seq(Nat) /\ Append(f.chain, n) \in Seq(Nat) /\ <<>> \in Seq(Nat)
    BY <1>2, <1>12
  <2>2. QED BY <2>1 DEF Branches, Lighttpd!NextChain
<1>14. /\ below \in Opened /\ below.own = f.own /\ below.scope = 0
       /\ below.chain = Lighttpd!NextChain(f, branch, n)
  BY <1>1, <1>13 DEF Opened
<1>15. top \in Opened
  BY <1>4, <1>12 DEF Opened, Lighttpd!Frame
<1>16. /\ lower \in Seq(Opened) /\ Len(lower) = Len(open)
       /\ lower[Len(open)] = below /\ \A k \in 1 .. Len(open) - 1 : lower[k] = open[k]
  <2> HIDE DEF below
  <2>1. QED BY <1>1, <1>14
<1>17. open' = Append(lower, top)
  BY <1>11
<1>18. /\ open' \in Seq(Opened) /\ open' # <<>> /\ DOMAIN open' = 1 .. Len(open) + 1
       /\ \A k \in 1 .. Len(open) - 1 : open'[k] = open[k]
       /\ open'[Len(open)] = below /\ open'[Len(open) + 1] = top
  <2> HIDE DEF below, lower, top
  <2> DEFINE m == Len(open)
  <2>1. open' \in Seq(Opened) /\ open' # <<>> /\ DOMAIN open' = 1 .. m + 1
    BY <1>15, <1>16, <1>17, AppendIs
  <2>2. (\A k \in 1 .. m : open'[k] = lower[k]) /\ open'[m + 1] = top
    BY <1>15, <1>16, <1>17, AppendIs
  <2>3. \A k \in 1 .. m - 1 : open'[k] = open[k]
    BY <1>1, <1>16, <2>2
  <2>4. open'[m] = below
    BY <1>1, <1>16, <2>2
  <2>5. QED BY <2>1, <2>2, <2>3, <2>4
<1>19. LighttpdTypeOK'
  <2>1. statements' = statements /\ globals' = globals /\ chains' \in Nat
    BY DEF OpenedAs
  <2>2. statements \in Seq(Statement) /\ globals \in Said
    BY DEF LighttpdInv, LighttpdTypeOK
  <2>3. QED BY <1>9, <1>10, <1>18, <2>1, <2>2, SMTT(60) DEF LighttpdTypeOK
<1> HIDE DEF below, lower, top, begun, new
<1>20. /\ conditionals'[n] = Lighttpd!Scope(own, Lighttpd!Nothing)
       /\ branches'[own.block] = [condition |-> condition, parent |-> f.own.block,
                      previous |-> {conditionals[i].block : i \in Lighttpd!ToSet(previous)}]
  BY <1>9, <1>10 DEF new, begun
<1>21. open'[Len(open) + 1] = Lighttpd!Frame(own, n)
  BY <1>18 DEF top
<1>22. QED BY <1>1, <1>3, <1>4, <1>8, <1>9, <1>10, <1>14, <1>18, <1>19, <1>20, <1>21

\* It adds a block and a scope, and changes none.
LEMMA OpenGrows ==
    ASSUME LighttpdInv, NEW branch \in Branches, NEW condition \in Asked,
           NEW own, NEW previous, NEW id, OpenedAs(branch, condition, own, previous, id)
    PROVE  Grows(conditionals, conditionals') /\ Continues(branches, branches')
<1> DEFINE n == Len(conditionals) + 1
<1>1. /\ DOMAIN conditionals = 1 .. n - 1 /\ DOMAIN conditionals' = 1 .. n
      /\ \A s \in 1 .. n - 1 : conditionals'[s] = conditionals[s]
      /\ DOMAIN branches = 1 .. own.block - 1 /\ DOMAIN branches' = 1 .. own.block
      /\ \A b \in 1 .. own.block - 1 : branches'[b] = branches[b]
      /\ own \in Own
  BY OpenTypes, ZenonT(60)
<1>2. n \in Nat /\ own.block \in Nat
  BY <1>1 DEF Own, LighttpdInv, LighttpdTypeOK
<1>3. 1 .. n - 1 \subseteq 1 .. n /\ 1 .. own.block - 1 \subseteq 1 .. own.block
  BY <1>2
<1> HIDE DEF n
<1>4. Grows(conditionals, conditionals')
  BY <1>1, <1>3 DEF Grows
<1>5. Continues(branches, branches')
  BY <1>1, <1>3 DEF Continues
<1>6. QED BY <1>4, <1>5

\* The block that is opened stands where it is put.
LEMMA OpenPlaces ==
    ASSUME LighttpdInv, NEW branch \in Branches, NEW condition \in Asked,
           branch # "else" => condition \in Conditions,
           VocabularyAssumption,
           NEW own, NEW previous, NEW id, OpenedAs(branch, condition, own, previous, id)
    PROVE  Situated(conditionals', branches', own)
<1> DEFINE n == Len(conditionals) + 1
           f == open[Len(open)]
           P == Lighttpd!ToSet(previous)
           b == branches'[own.block]
<1>1. /\ own \in Own /\ previous \in Seq(Nat)
      /\ DOMAIN conditionals = 1 .. n - 1 /\ DOMAIN conditionals' = 1 .. n
      /\ DOMAIN branches = 1 .. own.block - 1 /\ DOMAIN branches' = 1 .. own.block
      /\ b = [condition |-> condition, parent |-> f.own.block,
              previous |-> {conditionals[i].block : i \in P}]
      /\ Len(open) \in Nat \ {0}
  BY OpenTypes
<1>2. Grows(conditionals, conditionals') /\ Continues(branches, branches')
  BY OpenGrows, SMTT(60)
<1>3. /\ own.previous = previous /\ own.kind = branch /\ own.block = Len(branches) + 1
      /\ own.conditions = Append(f.own.conditions, condition)
      /\ previous = (IF branch = "if" THEN <<>> ELSE f.chain)
      /\ branch # "if" => f.chain # <<>>
  BY DEF OpenedAs
<1>4. Len(open) \in DOMAIN open
  BY <1>1 DEF LighttpdInv, LighttpdTypeOK
<1>5. Chained(conditionals, branches, f)
  BY <1>4 DEF LighttpdInv, FramesStand
<1>6. P \subseteq Lighttpd!ToSet(f.chain) /\ (branch # "if" => P = Lighttpd!ToSet(f.chain))
  BY <1>3 DEF Lighttpd!ToSet
<1>7. own.block \in Nat /\ f.own.block \in Nat /\ own.block \in DOMAIN branches'
  <2>1. f \in Opened
    BY TopIs DEF LighttpdInv
  <2>2. own.block \in Nat /\ f.own.block \in Nat
    BY <1>1, <2>1 DEF Opened, Own
  <2>3. own.block # 0
    <3>1. Len(branches) \in Nat
      BY DEF LighttpdInv, LighttpdTypeOK
    <3>2. QED BY <1>3, <3>1
  <2>4. QED BY <1>1, <2>2, <2>3
<1>8. b.parent < own.block /\ b.parent = f.own.block
  <2>1. b.parent = f.own.block
    BY <1>1
  <2>2. CASE Len(open) = 1
    <3>1. f.own = Lighttpd!File
      BY <2>2 DEF LighttpdInv, FramesStand
    <3>2. f.own.block = 0
      BY <3>1 DEF Lighttpd!File
    <3>3. own.block = Len(branches) + 1 /\ Len(branches) \in Nat
      BY <1>3 DEF LighttpdInv, LighttpdTypeOK
    <3>4. QED BY <2>1, <3>2, <3>3
  <2>3. CASE Len(open) # 1
    <3>1. f.own.block \in DOMAIN branches
      BY <1>4, <2>3 DEF LighttpdInv, FramesStand, Situated
    <3>2. QED BY <1>1, <1>7, <2>1, <3>1
  <2>4. QED BY <2>2, <2>3
<1>9. P \subseteq DOMAIN conditionals /\ P \subseteq DOMAIN conditionals'
  BY <1>2, <1>5, <1>6 DEF Chained, Grows
<1>10. b.previous = {conditionals'[i].block : i \in P}
  <2>1. b.previous = {conditionals[i].block : i \in P}
    BY <1>1
  <2>2. \A i \in P : conditionals'[i].block = conditionals[i].block
    BY <1>2, <1>9 DEF Grows
  <2>3. QED BY <2>1, <2>2
<1>11. own.kind = "if" <=> own.previous = <<>>
  BY <1>3
<1>12. b.condition = Lighttpd!NoCondition => own.previous # <<>>
  <2>1. SUFFICES ASSUME branch = "if" PROVE condition # Lighttpd!NoCondition
    BY <1>1, <1>3
  <2>2. condition \in Conditions
    BY <2>1
  <2>3. condition.operator \in Tests
    BY <2>2 DEF VocabularyAssumption
  <2>4. QED BY <2>3 DEF Tests, Lighttpd!NoCondition
<1>13. \A i \in P : Precedes(conditionals', branches', i, own)
  <2> SUFFICES ASSUME NEW i \in P PROVE Precedes(conditionals', branches', i, own)
    OBVIOUS
  <2>1. /\ i \in DOMAIN conditionals /\ conditionals[i].block \in DOMAIN branches
        /\ branches[conditionals[i].block].parent = f.own.block
        /\ branches[conditionals[i].block].condition \in Conditions
        /\ Lighttpd!ToSet(conditionals[i].previous) \subseteq Lighttpd!ToSet(f.chain)
    BY <1>5, <1>6 DEF Chained
  <2>2. /\ conditionals'[i].block = conditionals[i].block
        /\ conditionals'[i].previous = conditionals[i].previous
    BY <1>2, <2>1 DEF Grows
  <2>3. /\ conditionals[i].block \in DOMAIN branches'
        /\ branches'[conditionals[i].block] = branches[conditionals[i].block]
    BY <1>2, <2>1 DEF Continues
  <2>4. conditionals[i].block < own.block
    BY <1>1, <1>7, <2>1
  <2>5. P = Lighttpd!ToSet(f.chain)
    <3>1. CASE branch = "if"
      BY <1>3, <3>1 DEF Lighttpd!ToSet
    <3>2. CASE branch # "if"
      BY <1>6, <3>2
    <3>3. QED BY <3>1, <3>2
  <2>6. QED BY <1>3, <1>8, <2>1, <2>2, <2>3, <2>4, <2>5 DEF Precedes
<1>14. Nested(conditionals', branches', own)
  <2>1. b.condition = condition /\ own.conditions = Append(f.own.conditions, condition)
    BY <1>1, <1>3
  <2>2. CASE Len(open) = 1
    <3>1. f.own = Lighttpd!File
      BY <2>2 DEF LighttpdInv, FramesStand
    <3>2. b.parent = 0 /\ f.own.conditions = <<>>
      BY <1>8, <3>1 DEF Lighttpd!File
    <3>3. own.conditions = <<condition>>
      BY <2>1, <3>2
    <3>4. QED BY <2>1, <3>2, <3>3 DEF Nested
  <2>3. CASE Len(open) # 1
    <3>1. Seated(conditionals, f) /\ f.own.block \in DOMAIN branches
      BY <1>4, <2>3 DEF LighttpdInv, FramesStand, Situated
    <3>2. b.parent # 0
      BY <1>1, <1>7, <1>8, <3>1
    <3>3. PICK t \in DOMAIN conditionals : /\ conditionals[t].block = f.own.block
                                           /\ conditionals[t].conditions = f.own.conditions
      BY <3>1 DEF Seated
    <3>4. /\ t \in DOMAIN conditionals' /\ conditionals'[t].block = b.parent
          /\ conditionals'[t].conditions = f.own.conditions
      BY <1>2, <1>8, <3>3 DEF Grows
    <3>5. QED BY <2>1, <3>2, <3>4 DEF Nested
  <2>4. QED BY <2>2, <2>3
<1>15. QED BY <1>3, <1>7, <1>8, <1>9, <1>10, <1>11, <1>12, <1>13, <1>14 DEF Situated

\* The scopes stand as they did, and so does the new one.
LEMMA OpenScopes ==
    ASSUME LighttpdInv, NEW branch \in Branches, NEW condition \in Asked,
           branch # "else" => condition \in Conditions,
           VocabularyAssumption,
           NEW own, NEW previous, NEW id, OpenedAs(branch, condition, own, previous, id)
    PROVE  ScopesStand(conditionals', branches')
<1> DEFINE n == Len(conditionals) + 1
<1>1. /\ DOMAIN conditionals = 1 .. n - 1 /\ DOMAIN conditionals' = 1 .. n
      /\ \A s \in 1 .. n - 1 : conditionals'[s] = conditionals[s]
      /\ conditionals'[n] = Lighttpd!Scope(own, Lighttpd!Nothing)
      /\ DOMAIN branches = 1 .. own.block - 1 /\ DOMAIN branches' = 1 .. own.block
      /\ own \in Own
  BY OpenTypes, ZenonT(60)
<1>2. n \in Nat \ {0} /\ own.block \in Nat
  BY <1>1 DEF Own, LighttpdInv, LighttpdTypeOK
<1>3. Grows(conditionals, conditionals') /\ Continues(branches, branches')
  BY OpenGrows, SMTT(60)
<1>4. Situated(conditionals', branches', own)
  BY OpenPlaces
<1> HIDE DEF n
<1>5. /\ conditionals'[n].block = own.block /\ conditionals'[n].previous = own.previous
      /\ conditionals'[n].kind = own.kind /\ conditionals'[n].conditions = own.conditions
  BY <1>1 DEF Lighttpd!Scope
<1>6. \A s \in DOMAIN conditionals' : Situated(conditionals', branches', conditionals'[s])
  <2> SUFFICES ASSUME NEW s \in DOMAIN conditionals'
               PROVE  Situated(conditionals', branches', conditionals'[s])
    OBVIOUS
  <2>1. CASE s = n
    BY <1>4, <1>5, <2>1, PlacedSame
  <2>2. CASE s # n
    <3>1. s \in DOMAIN conditionals /\ conditionals'[s] = conditionals[s]
      BY <1>1, <1>2, <2>2
    <3>2. Situated(conditionals, branches, conditionals[s])
      BY <3>1 DEF LighttpdInv, ScopesStand
    <3>3. Situated(conditionals', branches', conditionals[s])
      BY <1>3, <3>2, PlacedStays
    <3>4. QED BY <3>1, <3>3
  <2>3. QED BY <2>1, <2>2
<1>7. \A b \in DOMAIN branches' : \E s \in DOMAIN conditionals' : conditionals'[s].block = b
  <2> SUFFICES ASSUME NEW b \in DOMAIN branches'
               PROVE  \E s \in DOMAIN conditionals' : conditionals'[s].block = b
    OBVIOUS
  <2>1. CASE b = own.block
    BY <1>1, <1>2, <1>5, <2>1
  <2>2. CASE b # own.block
    <3>1. b \in DOMAIN branches
      BY <1>1, <1>2, <2>2
    <3>2. PICK s \in DOMAIN conditionals : conditionals[s].block = b
      BY <3>1 DEF LighttpdInv, ScopesStand
    <3>3. QED BY <1>3, <3>2 DEF Grows
  <2>3. QED BY <2>1, <2>2
<1>8. QED BY <1>6, <1>7 DEF ScopesStand

\* So do the blocks being read, the new one the innermost.
LEMMA OpenFrames ==
    ASSUME LighttpdInv, NEW branch \in Branches, NEW condition \in Asked,
           branch # "else" => condition \in Conditions,
           VocabularyAssumption,
           NEW own, NEW previous, NEW id, OpenedAs(branch, condition, own, previous, id)
    PROVE  FramesStand(conditionals', branches', open')
<1> DEFINE n == Len(conditionals) + 1
           m == Len(open)
           f == open[m]
<1>1. /\ DOMAIN conditionals = 1 .. n - 1 /\ DOMAIN conditionals' = 1 .. n
      /\ conditionals'[n] = Lighttpd!Scope(own, Lighttpd!Nothing)
      /\ branches'[own.block].condition = condition
      /\ branches'[own.block].parent = f.own.block
      /\ DOMAIN branches' = 1 .. own.block
      /\ own \in Own /\ previous \in Seq(Nat)
  <2>1. branches'[own.block] =
            [condition |-> condition, parent |-> f.own.block,
             previous |-> {conditionals[i].block : i \in Lighttpd!ToSet(previous)}]
    BY OpenTypes
  <2>2. branches'[own.block].condition = condition /\ branches'[own.block].parent = f.own.block
    BY <2>1
  <2>3. /\ DOMAIN conditionals = 1 .. n - 1 /\ DOMAIN conditionals' = 1 .. n
        /\ conditionals'[n] = Lighttpd!Scope(own, Lighttpd!Nothing)
        /\ DOMAIN branches' = 1 .. own.block
        /\ own \in Own /\ previous \in Seq(Nat)
    BY OpenTypes, ZenonT(60)
  <2>4. QED BY <2>2, <2>3
<1>2. /\ m \in Nat \ {0} /\ DOMAIN open' = 1 .. m + 1
      /\ \A k \in 1 .. m - 1 : open'[k] = open[k]
      /\ open'[m].own = f.own /\ open'[m].scope = 0
      /\ open'[m].chain = Lighttpd!NextChain(f, branch, n)
      /\ open'[m + 1] = Lighttpd!Frame(own, n)
  BY OpenTypes, ZenonT(60)
<1>3. Grows(conditionals, conditionals') /\ Continues(branches, branches')
  BY OpenGrows, SMTT(60)
<1>4. Situated(conditionals', branches', own)
  BY OpenPlaces
<1>5. DOMAIN open = 1 .. m /\ n \in Nat \ {0} /\ own.block \in Nat \ {0} /\ f.chain \in Seq(Nat)
  <2>1. DOMAIN open = 1 .. m /\ Len(conditionals) \in Nat /\ Len(branches) \in Nat
    BY DEF LighttpdInv, LighttpdTypeOK
  <2>2. f \in Opened
    BY TopIs DEF LighttpdInv
  <2>3. own.block = Len(branches) + 1
    BY DEF OpenedAs
  <2>4. QED BY <2>1, <2>2, <2>3 DEF Opened
<1> HIDE DEF n
<1>6. open'[m + 1].own = own /\ open'[m + 1].scope = n /\ open'[m + 1].chain = <<>>
  BY <1>2 DEF Lighttpd!Frame
<1>7. conditionals'[n].block = own.block /\ conditionals'[n].conditions = own.conditions
      /\ conditionals'[n].previous = previous
  <2>1. own.previous = previous
    BY DEF OpenedAs
  <2>2. QED BY <1>1, <2>1, SMTT(60) DEF Lighttpd!Scope
<1>8. Seated(conditionals', open'[m + 1])
  <2>1. n \in DOMAIN conditionals'
    BY <1>1, <1>5
  <2>2. QED BY <1>6, <1>7, <2>1 DEF Seated
<1>9. Chained(conditionals', branches', open'[m + 1])
  BY <1>6 DEF Chained, Lighttpd!ToSet
<1>10. \A k \in 1 .. m : /\ k # 1 => Situated(conditionals', branches', open[k].own) /\ Seated(conditionals', open[k])
                         /\ Chained(conditionals', branches', open[k])
  <2> SUFFICES ASSUME NEW k \in 1 .. m
               PROVE  /\ k # 1 => Situated(conditionals', branches', open[k].own) /\ Seated(conditionals', open[k])
                      /\ Chained(conditionals', branches', open[k])
    OBVIOUS
  <2>1. /\ k # 1 => Situated(conditionals, branches, open[k].own) /\ Seated(conditionals, open[k])
        /\ Chained(conditionals, branches, open[k])
    BY <1>5 DEF LighttpdInv, FramesStand
  <2>2. Chained(conditionals', branches', open[k])
    BY <1>3, <2>1, ChainedStays
  <2>3. k # 1 => Situated(conditionals', branches', open[k].own) /\ Seated(conditionals', open[k])
    BY <1>3, <2>1, PlacedStays, SeatedStays
  <2>4. QED BY <2>2, <2>3
<1>11. Chained(conditionals', branches', open'[m])
  <2> DEFINE new == Lighttpd!NextChain(f, branch, n)
  <2>1. Chained(conditionals', branches', f) /\ open'[m].own.block = f.own.block
    BY <1>2, <1>10
  <2>2. /\ n \in DOMAIN conditionals' /\ conditionals'[n].block \in DOMAIN branches'
        /\ branches'[conditionals'[n].block].parent = f.own.block
    BY <1>1, <1>5, <1>7
  <2>3. branch # "else" => branches'[conditionals'[n].block].condition \in Conditions
    BY <1>1, <1>7
  <2>4. CASE branch = "if"
    <3>1. new = <<n>> /\ previous = <<>>
      BY <2>4 DEF Lighttpd!NextChain, OpenedAs
    <3>2. Lighttpd!ToSet(new) = {n} /\ Lighttpd!ToSet(conditionals'[n].previous) = {}
      BY <1>7, <3>1 DEF Lighttpd!ToSet
    <3>3. QED BY <1>2, <2>1, <2>2, <2>3, <2>4, <3>2, SMTT(60) DEF Chained
  <2>5. CASE branch = "else_if"
    <3>1. new = Append(f.chain, n) /\ previous = f.chain
      BY <2>5 DEF Lighttpd!NextChain, OpenedAs
    <3>2. Lighttpd!ToSet(new) = Lighttpd!ToSet(f.chain) \cup {n}
      BY <1>5, <3>1, ToSetAppend
    <3>3. Lighttpd!ToSet(conditionals'[n].previous) = Lighttpd!ToSet(f.chain)
      BY <1>7, <3>1
    <3>4. open'[m].chain = new
      BY <1>2
    <3> HIDE DEF new
    <3>5. QED BY <2>1, <2>2, <2>3, <2>5, <3>2, <3>3, <3>4, SMTT(60) DEF Chained
  <2>6. CASE branch = "else"
    <3>1. new = <<>>
      BY <2>6 DEF Lighttpd!NextChain
    <3>2. QED BY <1>2, <3>1 DEF Chained, Lighttpd!ToSet
  <2>7. QED BY <2>4, <2>5, <2>6 DEF Branches
<1>12. m # 1 => Situated(conditionals', branches', open'[m].own) /\ Seated(conditionals', open'[m])
  <2>1. m # 1 => Situated(conditionals', branches', f.own) /\ Seated(conditionals', f)
    <3>1. m \in 1 .. m
      BY <1>2
    <3>2. QED BY <1>10, <3>1
  <2>2. QED BY <1>2, <2>1 DEF Seated
<1>13. open'[1].own = Lighttpd!File /\ open'[1].scope = 0
  <2>1. open[1].own = Lighttpd!File /\ open[1].scope = 0
    BY DEF LighttpdInv, FramesStand
  <2>2. CASE m = 1
    BY <1>2, <2>1, <2>2
  <2>3. CASE m # 1
    BY <1>2, <2>1, <2>3
  <2>4. QED BY <2>2, <2>3
<1>14. \A k \in DOMAIN open' : /\ k # 1 => Situated(conditionals', branches', open'[k].own) /\ Seated(conditionals', open'[k])
                               /\ Chained(conditionals', branches', open'[k])
  <2> SUFFICES ASSUME NEW k \in DOMAIN open'
               PROVE  /\ k # 1 => Situated(conditionals', branches', open'[k].own) /\ Seated(conditionals', open'[k])
                      /\ Chained(conditionals', branches', open'[k])
    OBVIOUS
  <2>1. CASE k = m + 1
    BY <1>4, <1>6, <1>8, <1>9, <2>1
  <2>2. CASE k = m
    BY <1>11, <1>12, <2>2
  <2>3. CASE k \in 1 .. m - 1
    BY <1>2, <1>10, <2>3
  <2>4. QED BY <1>2, <2>1, <2>2, <2>3
<1>15. QED BY <1>13, <1>14 DEF FramesStand

\* Nothing is said yet in the new scope.
LEMMA OpenStatements ==
    ASSUME LighttpdInv, NEW branch \in Branches, NEW condition \in Asked,
           NEW own, NEW previous, NEW id, OpenedAs(branch, condition, own, previous, id)
    PROVE  StatementsStand(statements', conditionals', globals')
<1> DEFINE n == Len(conditionals) + 1
<1>1. /\ DOMAIN conditionals = 1 .. n - 1 /\ DOMAIN conditionals' = 1 .. n
      /\ \A s \in 1 .. n - 1 : conditionals'[s] = conditionals[s]
      /\ conditionals'[n] = Lighttpd!Scope(own, Lighttpd!Nothing)
  BY OpenTypes, ZenonT(60)
<1>2. statements' = statements /\ globals' = globals
  BY DEF OpenedAs
<1>3. n \in Nat \ {0}
  BY DEF LighttpdInv, LighttpdTypeOK
<1> HIDE DEF n
<1>4. DOMAIN conditionals'[n].directives = {}
  BY <1>1 DEF Lighttpd!Scope, Lighttpd!Nothing
<1>5. \A s \in DOMAIN conditionals' : Heard(statements, conditionals'[s].directives, conditionals'[s].block)
  <2> SUFFICES ASSUME NEW s \in DOMAIN conditionals'
               PROVE  Heard(statements, conditionals'[s].directives, conditionals'[s].block)
    OBVIOUS
  <2>1. CASE s = n
    BY <1>4, <2>1 DEF Heard
  <2>2. CASE s # n
    <3>1. s \in DOMAIN conditionals /\ conditionals'[s] = conditionals[s]
      BY <1>1, <1>3, <2>2
    <3>2. QED BY <3>1 DEF LighttpdInv, StatementsStand
  <2>3. QED BY <2>1, <2>2
<1>6. DOMAIN conditionals \subseteq DOMAIN conditionals'
      /\ \A s \in DOMAIN conditionals : conditionals'[s] = conditionals[s]
  BY <1>1, <1>3
<1>7. \A i \in DOMAIN statements :
          IF statements[i].in = 0 THEN Kept(globals, statements[i].name, i)
          ELSE \E s \in DOMAIN conditionals' : /\ conditionals'[s].block = statements[i].in
                                               /\ Kept(conditionals'[s].directives, statements[i].name, i)
  <2>1. \A i \in DOMAIN statements :
            IF statements[i].in = 0 THEN Kept(globals, statements[i].name, i)
            ELSE \E s \in DOMAIN conditionals : /\ conditionals[s].block = statements[i].in
                                                /\ Kept(conditionals[s].directives, statements[i].name, i)
    BY DEF LighttpdInv, StatementsStand
  <2>2. QED BY <1>6, <2>1
<1>8. Heard(statements, globals, 0)
  BY DEF LighttpdInv, StatementsStand
<1>9. QED BY <1>2, <1>5, <1>7, <1>8 DEF StatementsStand

\* Opening a block keeps the invariant.
LEMMA OpenKeeps ==
    ASSUME LighttpdInv, VocabularyAssumption, NEW branch \in Branches, NEW condition \in Asked,
           branch # "else" => condition \in Conditions,
           Lighttpd!Open(branch, condition)
    PROVE  LighttpdInv'
<1>1. PICK own, previous, id : OpenedAs(branch, condition, own, previous, id)
  BY OpenIs DEF LighttpdInv
<1>2. LighttpdTypeOK'
  BY <1>1, OpenTypes
<1>3. ScopesStand(conditionals', branches')
  BY <1>1, OpenScopes
<1>4. FramesStand(conditionals', branches', open')
  BY <1>1, OpenFrames
<1>5. StatementsStand(statements', conditionals', globals')
  BY <1>1, OpenStatements
<1>6. QED BY <1>2, <1>3, <1>4, <1>5 DEF LighttpdInv

\* The end of a block changes what is read, and nothing that was.
LEMMA CloseKeeps ==
    ASSUME LighttpdInv, Lighttpd!Close
    PROVE  LighttpdInv'
<1>1. /\ Len(open) > 1 /\ open' = SubSeq(open, 1, Len(open) - 1)
      /\ UNCHANGED <<statements, globals, conditionals, branches, chains>>
  BY DEF Lighttpd!Close, Lighttpd!Front
<1>2. open \in Seq(Opened) /\ Len(open) \in Nat
  BY DEF LighttpdInv, LighttpdTypeOK
<1>3. /\ open' \in Seq(Opened) /\ open' # <<>> /\ DOMAIN open' = 1 .. Len(open) - 1
      /\ \A k \in 1 .. Len(open) - 1 : open'[k] = open[k]
  BY <1>1, <1>2, SMTT(60)
<1>4. LighttpdTypeOK'
  BY <1>1, <1>3 DEF LighttpdInv, LighttpdTypeOK
<1>5. \A k \in DOMAIN open' : k \in DOMAIN open /\ open'[k] = open[k]
  BY <1>1, <1>2, <1>3
<1>6. open'[1] = open[1]
  BY <1>1, <1>2, <1>3
<1>7. FramesStand(conditionals, branches, open)
  BY DEF LighttpdInv
<1>8. FramesStand(conditionals, branches, open')
  BY <1>5, <1>6, <1>7 DEF FramesStand
<1>9. QED BY <1>1, <1>4, <1>8 DEF LighttpdInv

-----------------------------------------------------------------------------
(* A directive is assigned. *)

\* The types of what the directives of a scope hold.
LEMMA SaidIs ==
    ASSUME NEW ds \in Said
    PROVE  /\ DOMAIN ds \subseteq Lighttpd!Names
           /\ \A name \in DOMAIN ds : /\ ds[name] \in Directive
                                      /\ ds[name].value \in Seq(Nat)
                                      /\ ds[name].operator \in Operators
<1>1. PICK D \in SUBSET Lighttpd!Names : ds \in [D -> Directive]
  BY DEF Said
<1>2. QED BY <1>1 DEF Directive

\* Directives for some of the names are directives of a scope.
LEMMA SaidIf ==
    ASSUME NEW D \in SUBSET Lighttpd!Names, NEW ds \in [D -> Directive]
    PROVE  ds \in Said
BY DEF Said

\* What joining one statement to a value does.
LEMMA Joining ==
    ASSUME NEW s \in Seq(Nat), NEW x \in Nat
    PROVE  LET t == s \o <<x>>
           IN /\ t \in Seq(Nat) /\ t # <<>> /\ Len(t) = Len(s) + 1 /\ t[Len(t)] = x
              /\ Lighttpd!ToSet(t) = Lighttpd!ToSet(s) \cup {x}
<1>1. s \o <<x>> = Append(s, x)
  OBVIOUS
<1>2. Lighttpd!ToSet(Append(s, x)) = Lighttpd!ToSet(s) \cup {x}
  BY ToSetAppend
<1> DEFINE t == Append(s, x)
<1>3. t \in Seq(Nat) /\ t # <<>> /\ Len(t) = Len(s) + 1 /\ t[Len(s) + 1] = x
  OBVIOUS
<1> HIDE DEF t
<1>4. t[Len(t)] = x
  BY <1>3
<1>5. t = s \o <<x>>
  BY <1>1 DEF t
<1>6. Lighttpd!ToSet(t) = Lighttpd!ToSet(s) \cup {x}
  BY <1>2 DEF t
<1>7. QED BY <1>3, <1>4, <1>5, <1>6

Statements(d, b) == Append(statements, [name |-> d.name, operator |-> d.operator, text |-> d.text, in |-> b])

\* The statements with one more read.
LEMMA StatementsIs ==
    ASSUME LighttpdTypeOK, VocabularyAssumption, NEW d \in Assignments, NEW b \in Nat
    PROVE  LET ss == Statements(d, b)
               n == Len(statements) + 1
           IN /\ ss \in Seq(Statement) /\ n \in Nat
              /\ DOMAIN statements = 1 .. n - 1 /\ DOMAIN ss = 1 .. n
              /\ \A i \in DOMAIN statements : ss[i] = statements[i]
              /\ ss[n].name = d.name /\ ss[n].in = b
<1> DEFINE new == [name |-> d.name, operator |-> d.operator, text |-> d.text, in |-> b]
<1>1. new \in Statement
  BY DEF Statement, Lighttpd!Names, Operators
<1>2. statements \in Seq(Statement)
  BY DEF LighttpdTypeOK
<1>3. new.name = d.name /\ new.in = b
  OBVIOUS
<1>4. Statements(d, b) = Append(statements, new)
  BY DEF Statements
<1> HIDE DEF new
<1>5. QED BY <1>1, <1>2, <1>3, <1>4

\* What a value stands for stays true when one more statement is read.
LEMMA HeardStays ==
    ASSUME LighttpdTypeOK, VocabularyAssumption, NEW d \in Assignments, NEW b \in Nat,
           NEW ds, NEW a, Heard(statements, ds, a)
    PROVE  Heard(Statements(d, b), ds, a)
<1> DEFINE ss == Statements(d, b)
<1>1. /\ DOMAIN statements \subseteq DOMAIN ss
      /\ \A i \in DOMAIN statements : ss[i] = statements[i]
  <2> DEFINE n == Len(statements) + 1
  <2>1. /\ n \in Nat /\ DOMAIN statements = 1 .. n - 1 /\ DOMAIN ss = 1 .. n
        /\ \A i \in DOMAIN statements : ss[i] = statements[i]
    BY StatementsIs
  <2> HIDE DEF n, ss
  <2>2. QED BY <2>1
<1> HIDE DEF ss
<1>2. Heard(ss, ds, a)
  BY <1>1 DEF Heard
<1>3. QED BY <1>2 DEF ss

\* Applying a directive (_apply_assignment) keeps track of every statement of its block.
LEMMA AppliedIs ==
    ASSUME LighttpdTypeOK, VocabularyAssumption, NEW d \in Assignments, NEW own \in Own, NEW b \in Nat,
           NEW ds \in Said, Heard(statements, ds, b)
    PROVE  LET new == Lighttpd!Applied(ds, d, own)
               n == Len(statements) + 1
           IN /\ new \in Said
              /\ Heard(Statements(d, b), new, b)
              /\ Kept(new, d.name, n)
              /\ \A name, i : i \in DOMAIN statements /\ Kept(ds, name, i) => Kept(new, name, i)
<1> DEFINE n == Len(statements) + 1
           ss == Statements(d, b)
           goesOn == d.operator = "+=" /\ d.name \in DOMAIN ds
           before == IF goesOn THEN ds[d.name].value ELSE <<>>
           value == before \o <<n>>
           said == [value |-> value, operator |-> d.operator, conditions |-> own.conditions, path |-> own.path]
           new == Lighttpd!Applied(ds, d, own)
<1>1. new = [name \in DOMAIN ds \cup {d.name} |-> IF name = d.name THEN said ELSE ds[name]]
  BY DEF Lighttpd!Applied, Lighttpd!MergeAppend
<1>2. /\ DOMAIN ds \subseteq Lighttpd!Names /\ d.name \in Lighttpd!Names
      /\ \A name \in DOMAIN ds : ds[name] \in Directive /\ ds[name].value \in Seq(Nat)
  BY SaidIs DEF Lighttpd!Names
<1>3. before \in Seq(Nat) /\ n \in Nat
  BY <1>2, StatementsIs
<1>4. /\ value \in Seq(Nat) /\ value # <<>> /\ Len(value) = Len(before) + 1 /\ value[Len(value)] = n
      /\ Lighttpd!ToSet(value) = Lighttpd!ToSet(before) \cup {n}
  <2> HIDE DEF before, n
  <2>1. QED BY <1>3, Joining
<1>5. d.operator \in Operators
  BY DEF Operators
<1> HIDE DEF value
<1>6. said \in Directive
  BY <1>4, <1>5 DEF Directive, Own
<1>7. said.value = value /\ said.operator = d.operator
  OBVIOUS
<1> HIDE DEF said, new
<1>8. DOMAIN new = DOMAIN ds \cup {d.name} /\ new[d.name] = said
      /\ \A name \in DOMAIN ds : name # d.name => new[name] = ds[name]
  BY <1>1
<1>9. new \in Said
  <2>1. DOMAIN ds \cup {d.name} \in SUBSET Lighttpd!Names
    BY <1>2
  <2>2. new \in [DOMAIN ds \cup {d.name} -> Directive]
    BY <1>1, <1>2, <1>6
  <2>3. QED BY <2>1, <2>2, SaidIf
<1>10. Heard(ss, ds, b)
  BY HeardStays
<1>11. n \in DOMAIN ss /\ ss[n].name = d.name /\ ss[n].in = b
  <2>1. DOMAIN ss = 1 .. n /\ ss[n].name = d.name /\ ss[n].in = b /\ n \in Nat /\ n # 0
    BY StatementsIs DEF LighttpdTypeOK
  <2> HIDE DEF n
  <2>2. QED BY <2>1
<1> HIDE DEF n, ss
<1>12. \A i \in Lighttpd!ToSet(value) : i \in DOMAIN ss /\ ss[i].name = d.name /\ ss[i].in = b
  <2>1. CASE goesOn
    <3>1. before = ds[d.name].value /\ d.name \in DOMAIN ds
      BY <2>1
    <3>2. QED BY <1>4, <1>10, <1>11, <3>1 DEF Heard
  <2>2. CASE ~goesOn
    <3>1. before = <<>>
      BY <2>2
    <3>2. Lighttpd!ToSet(value) = {n}
      BY <1>4, <3>1, SMTT(60) DEF Lighttpd!ToSet
    <3>3. QED BY <1>11, <3>2
  <2>3. QED BY <2>1, <2>2
<1>13. d.operator = "=" => Len(value) = 1
  <2>1. SUFFICES ASSUME d.operator = "=" PROVE Len(value) = 1
    OBVIOUS
  <2>2. before = <<>>
    BY <2>1
  <2>3. QED BY <1>4, <2>2
<1>14. Heard(ss, new, b)
  <2> SUFFICES ASSUME NEW name \in DOMAIN new
               PROVE  /\ new[name].value # <<>>
                      /\ \A i \in Lighttpd!ToSet(new[name].value) :
                             i \in DOMAIN ss /\ ss[i].name = name /\ ss[i].in = b
                      /\ new[name].operator = "=" => Len(new[name].value) = 1
    BY DEF Heard
  <2>1. CASE name = d.name
    BY <1>4, <1>7, <1>8, <1>12, <1>13, <2>1
  <2>2. CASE name # d.name
    BY <1>8, <1>10, <2>2 DEF Heard
  <2>3. QED BY <2>1, <2>2
<1>15. Kept(new, d.name, n)
  BY <1>3, <1>4, <1>7, <1>8, SMTT(60) DEF Kept
<1>16. \A name, i : i \in DOMAIN statements /\ Kept(ds, name, i) => Kept(new, name, i)
  <2> SUFFICES ASSUME NEW name, NEW i, i \in DOMAIN statements, Kept(ds, name, i)
               PROVE  Kept(new, name, i)
    OBVIOUS
  <2>1. CASE name = d.name
    <3>1. i =< n
      <4>1. DOMAIN statements = 1 .. n - 1 /\ n \in Nat
        BY StatementsIs DEF n
      <4>2. QED BY <4>1
    <3>2. QED BY <1>4, <1>7, <1>8, <2>1, <3>1 DEF Kept
  <2>2. CASE name # d.name
    BY <1>8, <2>2 DEF Kept
  <2>3. QED BY <2>1, <2>2
<1>17. QED BY <1>9, <1>14, <1>15, <1>16 DEF n, ss, new

\* Assigning outside of all blocks keeps the invariant.
LEMMA AssignGloballyKeeps ==
    ASSUME LighttpdInv, VocabularyAssumption, NEW d \in Assignments, Lighttpd!AssignGlobally(d)
    PROVE  LighttpdInv'
<1> DEFINE n == Len(statements) + 1
           ss == Statements(d, 0)
           new == Lighttpd!Applied(globals, d, Lighttpd!File)
<1>1. Len(open) = 1 /\ open[1].own = Lighttpd!File
  BY DEF Lighttpd!AssignGlobally, LighttpdInv, FramesStand
<1>2. Lighttpd!Top.own.block = 0
  BY <1>1 DEF Lighttpd!Top, Lighttpd!File
<1>3. /\ statements' = ss /\ globals' = new /\ open' = <<Lighttpd!Frame(Lighttpd!File, 0)>>
      /\ UNCHANGED <<branches, conditionals, chains>>
  BY <1>2 DEF Lighttpd!AssignGlobally, Lighttpd!Read, Statements
<1>4. LighttpdTypeOK /\ globals \in Said /\ Heard(statements, globals, 0)
  BY DEF LighttpdInv, LighttpdTypeOK, StatementsStand
<1>5. Lighttpd!File \in Own
  BY DEF Lighttpd!File, Own, Way, Branches
<1>6. /\ ss \in Seq(Statement) /\ n \in Nat
      /\ DOMAIN statements = 1 .. n - 1 /\ DOMAIN ss = 1 .. n
      /\ \A i \in DOMAIN statements : ss[i] = statements[i]
      /\ ss[n].name = d.name /\ ss[n].in = 0
  BY <1>4, StatementsIs
<1>7. /\ new \in Said /\ Heard(ss, new, 0) /\ Kept(new, d.name, n)
      /\ \A name, i : i \in DOMAIN statements /\ Kept(globals, name, i) => Kept(new, name, i)
  BY <1>4, <1>5, AppliedIs
<1> HIDE DEF n, ss, new
<1>8. /\ open' \in Seq(Opened) /\ open' # <<>> /\ DOMAIN open' = {1}
      /\ open'[1].own = Lighttpd!File /\ open'[1].scope = 0 /\ open'[1].chain = <<>>
  <2>1. Lighttpd!Frame(Lighttpd!File, 0) \in Opened
    BY <1>5 DEF Opened, Lighttpd!Frame
  <2>2. QED BY <1>3, <2>1 DEF Lighttpd!Frame
<1>9. LighttpdTypeOK'
  BY <1>3, <1>4, <1>6, <1>7, <1>8 DEF LighttpdTypeOK
<1>10. ScopesStand(conditionals', branches')
  BY <1>3 DEF LighttpdInv
<1>11. FramesStand(conditionals', branches', open')
  BY <1>8 DEF FramesStand, Chained, Lighttpd!ToSet
<1>12. \A s \in DOMAIN conditionals : Heard(ss, conditionals[s].directives, conditionals[s].block)
  <2> SUFFICES ASSUME NEW s \in DOMAIN conditionals
               PROVE  Heard(ss, conditionals[s].directives, conditionals[s].block)
    OBVIOUS
  <2>1. Heard(statements, conditionals[s].directives, conditionals[s].block)
    BY DEF LighttpdInv, StatementsStand
  <2>2. QED BY <1>4, <2>1, HeardStays DEF ss
<1>13. \A i \in DOMAIN ss :
           IF ss[i].in = 0 THEN Kept(new, ss[i].name, i)
           ELSE \E s \in DOMAIN conditionals : /\ conditionals[s].block = ss[i].in
                                               /\ Kept(conditionals[s].directives, ss[i].name, i)
  <2>1. \A i \in DOMAIN statements :
            IF statements[i].in = 0 THEN Kept(globals, statements[i].name, i)
            ELSE \E s \in DOMAIN conditionals : /\ conditionals[s].block = statements[i].in
                                                /\ Kept(conditionals[s].directives, statements[i].name, i)
    BY DEF LighttpdInv, StatementsStand
  <2> SUFFICES ASSUME NEW i \in DOMAIN ss
               PROVE  IF ss[i].in = 0 THEN Kept(new, ss[i].name, i)
                      ELSE \E s \in DOMAIN conditionals : /\ conditionals[s].block = ss[i].in
                                                          /\ Kept(conditionals[s].directives, ss[i].name, i)
    OBVIOUS
  <2>2. CASE i = n
    BY <1>6, <1>7, <2>2
  <2>3. CASE i # n
    <3>1. i \in DOMAIN statements /\ ss[i] = statements[i]
      BY <1>6, <2>3
    <3>2. QED BY <1>7, <2>1, <3>1
  <2>4. QED BY <2>2, <2>3
<1>14. StatementsStand(statements', conditionals', globals')
  BY <1>3, <1>7, <1>12, <1>13 DEF StatementsStand
<1>15. QED BY <1>9, <1>10, <1>11, <1>14 DEF LighttpdInv

\* The scopes once the one that a directive goes to is there.
Begun ==
    IF open[Len(open)].scope = 0
    THEN Append(conditionals, Lighttpd!Scope(open[Len(open)].own, Lighttpd!Nothing)) ELSE conditionals
BegunAt == IF open[Len(open)].scope = 0 THEN Len(conditionals) + 1 ELSE open[Len(open)].scope

\* The scope that a directive goes to is one of its block, begun anew or not.
LEMMA BegunIs ==
    ASSUME LighttpdInv, Len(open) > 1
    PROVE  LET own == open[Len(open)].own
           IN /\ open[Len(open)] \in Opened /\ own \in Own
              /\ own.block \in DOMAIN branches /\ own.block \in Nat \ {0}
              /\ Begun \in Seq(Conditional) /\ BegunAt \in DOMAIN Begun
              /\ Begun[BegunAt].block = own.block
              /\ Grows(conditionals, Begun)
              /\ \A s \in DOMAIN Begun : /\ Situated(Begun, branches, Begun[s])
                                         /\ Heard(statements, Begun[s].directives, Begun[s].block)
              /\ \A s \in DOMAIN conditionals : Begun[s] = conditionals[s]
<1> DEFINE f == open[Len(open)]
           own == f.own
           new == Lighttpd!Scope(own, Lighttpd!Nothing)
           n == Len(conditionals) + 1
<1>1. f \in Opened /\ own \in Own /\ f.scope \in Nat
  BY TopIs DEF LighttpdInv, Opened
<1>2. Len(open) \in DOMAIN open /\ Len(open) # 1
  BY DEF LighttpdInv, LighttpdTypeOK
<1>3. Situated(conditionals, branches, own) /\ Seated(conditionals, f)
  BY <1>2 DEF LighttpdInv, FramesStand
<1>4. own.block \in DOMAIN branches /\ own.block \in Nat \ {0}
  BY <1>3 DEF Situated, LighttpdInv, LighttpdTypeOK
<1>5. conditionals \in Seq(Conditional) /\ n \in Nat \ {0} /\ DOMAIN conditionals = 1 .. n - 1
  BY DEF LighttpdInv, LighttpdTypeOK
<1>6. \A s \in DOMAIN conditionals : /\ Situated(conditionals, branches, conditionals[s])
                                     /\ Heard(statements, conditionals[s].directives, conditionals[s].block)
  BY DEF LighttpdInv, ScopesStand, StatementsStand
<1>7. CASE f.scope # 0
  <2>1. Begun = conditionals /\ BegunAt = f.scope
    BY <1>7 DEF Begun, BegunAt
  <2>2. f.scope \in DOMAIN conditionals /\ conditionals[f.scope].block = own.block
    BY <1>3, <1>7 DEF Seated
  <2>3. Grows(conditionals, conditionals)
    BY DEF Grows
  <2>4. QED BY <1>1, <1>4, <1>5, <1>6, <2>1, <2>2, <2>3
<1>8. CASE f.scope = 0
  <2>1. Begun = Append(conditionals, new) /\ BegunAt = n
    BY <1>8 DEF Begun, BegunAt
  <2>2. new \in Conditional
    <3>1. {} \in SUBSET Lighttpd!Names /\ Lighttpd!Nothing \in [{} -> Directive]
      BY DEF Lighttpd!Nothing
    <3>2. Lighttpd!Nothing \in Said
      BY <3>1 DEF Said
    <3>3. QED BY <1>1, <3>2 DEF Conditional, Own, Lighttpd!Scope
  <2>3. /\ new.block = own.block /\ new.previous = own.previous /\ new.kind = own.kind
        /\ new.conditions = own.conditions /\ DOMAIN new.directives = {}
    BY DEF Lighttpd!Scope, Lighttpd!Nothing
  <2> HIDE DEF new
  <2>4. /\ Begun \in Seq(Conditional) /\ DOMAIN Begun = 1 .. n /\ Begun[n] = new
        /\ \A s \in DOMAIN conditionals : Begun[s] = conditionals[s]
    BY <1>5, <2>1, <2>2, AppendIs
  <2> HIDE DEF n
  <2>5. Grows(conditionals, Begun)
    BY <1>5, <2>4 DEF Grows
  <2>6. Continues(branches, branches)
    BY DEF Continues
  <2>7. Situated(Begun, branches, own)
    BY <1>3, <2>5, <2>6, PlacedStays
  <2>8. \A s \in DOMAIN Begun : /\ Situated(Begun, branches, Begun[s])
                                /\ Heard(statements, Begun[s].directives, Begun[s].block)
    <3> SUFFICES ASSUME NEW s \in DOMAIN Begun
                 PROVE  /\ Situated(Begun, branches, Begun[s])
                        /\ Heard(statements, Begun[s].directives, Begun[s].block)
      OBVIOUS
    <3>1. CASE s = n
      <4>1. Situated(Begun, branches, new)
        BY <2>3, <2>7, PlacedSame
      <4>2. Heard(statements, new.directives, new.block)
        BY <2>3 DEF Heard
      <4>3. QED BY <2>4, <3>1, <4>1, <4>2
    <3>2. CASE s # n
      <4>1. s \in DOMAIN conditionals /\ Begun[s] = conditionals[s]
        BY <1>5, <2>4, <3>2
      <4>2. Situated(Begun, branches, conditionals[s])
        BY <1>6, <2>5, <2>6, <4>1, PlacedStays
      <4>3. QED BY <1>6, <4>1, <4>2
    <3>3. QED BY <3>1, <3>2
  <2>9. n \in DOMAIN Begun /\ Begun[n].block = own.block
    BY <1>5, <2>3, <2>4
  <2>10. QED BY <1>1, <1>4, <2>1, <2>4, <2>5, <2>8, <2>9
<1>9. QED BY <1>7, <1>8

\* What assigning in a block changes, spelled out.
LEMMA AssignInBlockIs ==
    ASSUME LighttpdTypeOK, NEW d \in Assignments, Lighttpd!AssignInBlock(d)
    PROVE  LET f == open[Len(open)]
           IN /\ Len(open) > 1
              /\ statements' = Statements(d, f.own.block)
              /\ conditionals' = [Begun EXCEPT ![BegunAt].directives =
                                      Lighttpd!Applied(Begun[BegunAt].directives, d, f.own)]
              /\ open' = [open EXCEPT ![Len(open)] = Lighttpd!Frame(f.own, BegunAt)]
              /\ UNCHANGED <<branches, globals, chains>>
<1>1. BegunAt = IF open[Len(open)].scope = 0 THEN Len(Begun) ELSE open[Len(open)].scope
  <2>1. open[Len(open)].scope = 0 => Len(Begun) = Len(conditionals) + 1
    BY DEF Begun, LighttpdTypeOK
  <2>2. QED BY <2>1 DEF BegunAt
<1>2. QED BY <1>1 DEF Lighttpd!AssignInBlock, Lighttpd!Top, Lighttpd!Read, Statements, Begun

\* Assigning in a block keeps the invariant.
LEMMA AssignInBlockKeeps ==
    ASSUME LighttpdInv, VocabularyAssumption, NEW d \in Assignments, Lighttpd!AssignInBlock(d)
    PROVE  LighttpdInv'
<1> DEFINE f == open[Len(open)]
           own == f.own
           place == BegunAt
           old == Begun[place].directives
           new == Lighttpd!Applied(old, d, own)
           ss == Statements(d, own.block)
           n == Len(statements) + 1
           m == Len(open)
           cs == conditionals'
<1>1. /\ m > 1 /\ statements' = ss /\ cs = [Begun EXCEPT ![place].directives = new]
      /\ open' = [open EXCEPT ![m] = Lighttpd!Frame(own, place)]
      /\ UNCHANGED <<branches, globals, chains>>
  BY AssignInBlockIs DEF LighttpdInv
<1>2. /\ f \in Opened /\ own \in Own
      /\ own.block \in DOMAIN branches /\ own.block \in Nat \ {0}
      /\ Begun \in Seq(Conditional) /\ place \in DOMAIN Begun
      /\ Begun[place].block = own.block
      /\ Grows(conditionals, Begun)
      /\ \A s \in DOMAIN Begun : /\ Situated(Begun, branches, Begun[s])
                                 /\ Heard(statements, Begun[s].directives, Begun[s].block)
      /\ \A s \in DOMAIN conditionals : Begun[s] = conditionals[s]
  BY <1>1, BegunIs
<1>3. LighttpdTypeOK /\ Begun[place] \in Conditional /\ old \in Said
  <2>1. Begun[place] \in Conditional
    BY <1>2
  <2>2. QED BY <2>1 DEF LighttpdInv, Conditional
<1>4. /\ ss \in Seq(Statement) /\ n \in Nat
      /\ DOMAIN statements = 1 .. n - 1 /\ DOMAIN ss = 1 .. n
      /\ \A i \in DOMAIN statements : ss[i] = statements[i]
      /\ ss[n].name = d.name /\ ss[n].in = own.block
  BY <1>2, <1>3, StatementsIs
<1>5. /\ new \in Said /\ Heard(ss, new, own.block) /\ Kept(new, d.name, n)
      /\ \A name, i : i \in DOMAIN statements /\ Kept(old, name, i) => Kept(new, name, i)
  <2>1. Heard(statements, old, own.block)
    BY <1>2
  <2>2. own.block \in Nat
    BY <1>2
  <2> HIDE DEF own, old
  <2>3. QED BY <1>2, <1>3, <2>1, <2>2, AppliedIs
<1> HIDE DEF new, ss, n, old
<1>6. cs[place] = [Begun[place] EXCEPT !.directives = new] /\ \A s \in DOMAIN Begun : s # place => cs[s] = Begun[s]
  BY <1>1, <1>2
<1>7. DOMAIN cs = DOMAIN Begun /\ Len(cs) = Len(Begun)
  BY <1>1, <1>2
<1>8. /\ cs[place] \in Conditional /\ cs[place].directives = new
      /\ cs[place].conditions = Begun[place].conditions /\ cs[place].previous = Begun[place].previous
      /\ cs[place].kind = Begun[place].kind /\ cs[place].block = Begun[place].block
  BY <1>3, <1>5, <1>6 DEF Conditional
<1>9. cs \in Seq(Conditional)
  BY <1>2, <1>3, <1>5, <1>8, <1>1
<1>10. Grows(Begun, cs) /\ Continues(branches, branches)
  <2>1. \A s \in DOMAIN Begun : /\ cs[s].conditions = Begun[s].conditions
                                /\ cs[s].previous = Begun[s].previous
                                /\ cs[s].kind = Begun[s].kind
                                /\ cs[s].block = Begun[s].block
    BY <1>6, <1>8
  <2> HIDE DEF cs
  <2>2. QED BY <1>7, <2>1 DEF Grows, Continues
<1>11. Grows(conditionals, cs)
  BY <1>2, <1>10 DEF Grows
<1>12. ScopesStand(cs, branches)
  <2>1. \A s \in DOMAIN cs : Situated(cs, branches, cs[s])
    <3> SUFFICES ASSUME NEW s \in DOMAIN cs PROVE Situated(cs, branches, cs[s])
      OBVIOUS
    <3>1. s \in DOMAIN Begun /\ Situated(Begun, branches, Begun[s])
      BY <1>2, <1>7
    <3>2. Situated(cs, branches, Begun[s])
      BY <1>10, <3>1, PlacedStays
    <3>3. /\ cs[s].conditions = Begun[s].conditions /\ cs[s].previous = Begun[s].previous
          /\ cs[s].kind = Begun[s].kind /\ cs[s].block = Begun[s].block
      BY <1>10, <3>1 DEF Grows
    <3>4. QED BY <3>2, <3>3, PlacedSame
  <2>2. \A b \in DOMAIN branches : \E s \in DOMAIN cs : cs[s].block = b
    BY <1>11 DEF LighttpdInv, ScopesStand, Grows
  <2>3. QED BY <2>1, <2>2 DEF ScopesStand
<1>13. /\ open' \in Seq(Opened) /\ open' # <<>> /\ DOMAIN open' = DOMAIN open
       /\ open'[m] = Lighttpd!Frame(own, place)
       /\ \A k \in DOMAIN open : k # m => open'[k] = open[k]
       /\ m \in DOMAIN open /\ m # 1 /\ 1 \in DOMAIN open
  <2>1. place \in Nat
    BY <1>2
  <2>2. Lighttpd!Frame(own, place) \in Opened
    BY <1>2, <2>1 DEF Opened, Lighttpd!Frame
  <2>3. open \in Seq(Opened) /\ m \in DOMAIN open /\ m # 1 /\ 1 \in DOMAIN open
    BY <1>1 DEF LighttpdInv, LighttpdTypeOK
  <2>4. QED BY <1>1, <2>2, <2>3
<1>14. LighttpdTypeOK'
  BY <1>1, <1>3, <1>4, <1>9, <1>13 DEF LighttpdTypeOK
<1>15. FramesStand(cs, branches, open')
  <2>1. open'[m].own = own /\ open'[m].scope = place /\ open'[m].chain = <<>>
    BY <1>13 DEF Lighttpd!Frame
  <2>2. \A k \in DOMAIN open : /\ k # 1 => Situated(cs, branches, open[k].own) /\ Seated(cs, open[k])
                               /\ Chained(cs, branches, open[k])
    <3> SUFFICES ASSUME NEW k \in DOMAIN open
                 PROVE  /\ k # 1 => Situated(cs, branches, open[k].own) /\ Seated(cs, open[k])
                        /\ Chained(cs, branches, open[k])
      OBVIOUS
    <3>1. /\ k # 1 => Situated(conditionals, branches, open[k].own) /\ Seated(conditionals, open[k])
          /\ Chained(conditionals, branches, open[k])
      BY DEF LighttpdInv, FramesStand
    <3>2. Chained(cs, branches, open[k])
      BY <1>10, <1>11, <3>1, ChainedStays
    <3>3. k # 1 => Situated(cs, branches, open[k].own) /\ Seated(cs, open[k])
      BY <1>10, <1>11, <3>1, PlacedStays, SeatedStays
    <3>4. QED BY <3>2, <3>3
  <2>3. Situated(cs, branches, own)
    BY <1>13, <2>2
  <2>4. Seated(cs, open'[m])
    <3>1. Seated(cs, f)
      BY <1>13, <2>2
    <3>2. place \in DOMAIN cs /\ cs[place].block = own.block
      BY <1>2, <1>7, <1>8
    <3>3. QED BY <2>1, <3>1, <3>2 DEF Seated
  <2>5. Chained(cs, branches, open'[m])
    BY <2>1 DEF Chained, Lighttpd!ToSet
  <2>6. open'[1].own = Lighttpd!File /\ open'[1].scope = 0
    BY <1>13 DEF LighttpdInv, FramesStand
  <2>7. \A k \in DOMAIN open' : /\ k # 1 => Situated(cs, branches, open'[k].own) /\ Seated(cs, open'[k])
                                /\ Chained(cs, branches, open'[k])
    <3> SUFFICES ASSUME NEW k \in DOMAIN open'
                 PROVE  /\ k # 1 => Situated(cs, branches, open'[k].own) /\ Seated(cs, open'[k])
                        /\ Chained(cs, branches, open'[k])
      OBVIOUS
    <3>1. CASE k = m
      BY <2>1, <2>3, <2>4, <2>5, <3>1
    <3>2. CASE k # m
      BY <1>13, <2>2, <3>2
    <3>3. QED BY <3>1, <3>2
  <2>8. QED BY <2>6, <2>7 DEF FramesStand
<1>16. StatementsStand(ss, cs, globals)
  <2>1. Heard(ss, globals, 0)
    <3>1. Heard(statements, globals, 0)
      BY DEF LighttpdInv, StatementsStand
    <3>2. own.block \in Nat
      BY <1>2
    <3>3. QED BY <1>3, <3>1, <3>2, HeardStays DEF ss
  <2>2. \A s \in DOMAIN cs : Heard(ss, cs[s].directives, cs[s].block)
    <3> SUFFICES ASSUME NEW s \in DOMAIN cs PROVE Heard(ss, cs[s].directives, cs[s].block)
      OBVIOUS
    <3>1. CASE s = place
      BY <1>2, <1>5, <1>8, <3>1
    <3>2. CASE s # place
      <4>1. s \in DOMAIN Begun /\ cs[s] = Begun[s]
        BY <1>6, <1>7, <3>2
      <4>2. Heard(statements, Begun[s].directives, Begun[s].block) /\ own.block \in Nat
        BY <1>2, <4>1
      <4>3. Heard(ss, Begun[s].directives, Begun[s].block)
        BY <1>3, <4>2, HeardStays DEF ss
      <4>4. QED BY <4>1, <4>3
    <3>3. QED BY <3>1, <3>2
  <2>3. \A i \in DOMAIN ss :
            IF ss[i].in = 0 THEN Kept(globals, ss[i].name, i)
            ELSE \E s \in DOMAIN cs : cs[s].block = ss[i].in /\ Kept(cs[s].directives, ss[i].name, i)
    <3> SUFFICES ASSUME NEW i \in DOMAIN ss
                 PROVE  IF ss[i].in = 0 THEN Kept(globals, ss[i].name, i)
                        ELSE \E s \in DOMAIN cs : cs[s].block = ss[i].in /\ Kept(cs[s].directives, ss[i].name, i)
      OBVIOUS
    <3>1. CASE i = n
      BY <1>2, <1>4, <1>5, <1>7, <1>8, <3>1
    <3>2. CASE i # n
      <4>1. i \in DOMAIN statements /\ ss[i] = statements[i]
        BY <1>4, <3>2
      <4>2. IF ss[i].in = 0 THEN Kept(globals, ss[i].name, i)
            ELSE \E s \in DOMAIN conditionals : /\ conditionals[s].block = ss[i].in
                                                /\ Kept(conditionals[s].directives, ss[i].name, i)
        BY <4>1 DEF LighttpdInv, StatementsStand
      <4>3. CASE ss[i].in = 0
        BY <4>2, <4>3
      <4>4. CASE ss[i].in # 0
        <5>1. PICK s \in DOMAIN conditionals : /\ conditionals[s].block = ss[i].in
                                               /\ Kept(conditionals[s].directives, ss[i].name, i)
          BY <4>2, <4>4
        <5>2. s \in DOMAIN Begun /\ s \in DOMAIN cs /\ Begun[s] = conditionals[s]
          BY <1>2, <1>7 DEF Grows
        <5>3. cs[s].block = ss[i].in
          BY <1>11, <5>1 DEF Grows
        <5>4. Kept(cs[s].directives, ss[i].name, i)
          <6>1. CASE s = place
            <7>1. Kept(old, ss[i].name, i)
              BY <5>1, <5>2, <6>1 DEF old
            <7>2. QED BY <1>5, <1>8, <4>1, <6>1, <7>1
          <6>2. CASE s # place
            BY <1>6, <5>1, <5>2, <6>2
          <6>3. QED BY <6>1, <6>2
        <5>5. QED BY <4>4, <5>2, <5>3, <5>4
      <4>5. QED BY <4>3, <4>4
    <3>3. QED BY <3>1, <3>2
  <2>4. QED BY <2>1, <2>2, <2>3 DEF StatementsStand
<1>17. QED BY <1>1, <1>12, <1>14, <1>15, <1>16 DEF LighttpdInv

\* An empty configuration satisfies the invariant,
LEMMA LighttpdInitInv ==
    ASSUME VocabularyAssumption, Lighttpd!Init
    PROVE  LighttpdInv
<1>1. /\ statements = <<>> /\ branches = <<>> /\ globals = Lighttpd!Nothing /\ conditionals = <<>>
      /\ open = <<Lighttpd!Frame(Lighttpd!File, 0)>> /\ chains = 0
  BY DEF Lighttpd!Init
<1>2. Lighttpd!Nothing \in Said /\ DOMAIN Lighttpd!Nothing = {}
  <2>1. {} \in SUBSET Lighttpd!Names /\ Lighttpd!Nothing \in [{} -> Directive]
    BY DEF Lighttpd!Nothing
  <2>2. QED BY <2>1 DEF Said
<1>3. Lighttpd!Frame(Lighttpd!File, 0) \in Opened
  BY DEF Lighttpd!Frame, Lighttpd!File, Opened, Own, Way, Branches
<1>4. LighttpdTypeOK
  BY <1>1, <1>2, <1>3 DEF LighttpdTypeOK
<1>5. ScopesStand(conditionals, branches)
  BY <1>1 DEF ScopesStand
<1>6. FramesStand(conditionals, branches, open)
  <2>1. DOMAIN open = {1} /\ open[1].own = Lighttpd!File /\ open[1].scope = 0 /\ open[1].chain = <<>>
    BY <1>1 DEF Lighttpd!Frame
  <2>2. QED BY <2>1 DEF FramesStand, Chained, Lighttpd!ToSet
<1>7. StatementsStand(statements, conditionals, globals)
  BY <1>1, <1>2 DEF StatementsStand, Heard
<1>8. QED BY <1>4, <1>5, <1>6, <1>7 DEF LighttpdInv

\* and every step of reading one keeps it.
LEMMA LighttpdNextInv ==
    ASSUME VocabularyAssumption, LighttpdInv, [Lighttpd!Next]_(Lighttpd!vars)
    PROVE  LighttpdInv'
<1>1. CASE UNCHANGED Lighttpd!vars
  BY <1>1 DEF Lighttpd!vars, LighttpdInv, LighttpdTypeOK
<1>2. CASE Lighttpd!OpenIf
  <2>1. PICK c \in Conditions : Lighttpd!Open("if", c)
    BY <1>2 DEF Lighttpd!OpenIf
  <2>2. QED BY <2>1, OpenKeeps DEF Branches, Asked
<1>3. CASE Lighttpd!OpenElseIf
  <2>1. PICK c \in Conditions : Lighttpd!Open("else_if", c)
    BY <1>3 DEF Lighttpd!OpenElseIf
  <2>2. QED BY <2>1, OpenKeeps DEF Branches, Asked
<1>4. CASE Lighttpd!OpenElse
  <2>1. Lighttpd!Open("else", Lighttpd!NoCondition)
    BY <1>4 DEF Lighttpd!OpenElse
  <2>2. "else" \in Branches /\ Lighttpd!NoCondition \in Asked
    BY DEF Branches, Asked
  <2>3. QED BY <2>1, <2>2, OpenKeeps
<1>5. CASE Lighttpd!Close
  BY <1>5, CloseKeeps
<1>6. ASSUME NEW d \in Assignments, Lighttpd!Assign(d) PROVE LighttpdInv'
  BY <1>6, AssignGloballyKeeps, AssignInBlockKeeps DEF Lighttpd!Assign
<1>7. QED BY <1>1, <1>2, <1>3, <1>4, <1>5, <1>6 DEF Lighttpd!Next, Lighttpd!Block

-----------------------------------------------------------------------------
(* Which blocks a request is in. *)

BlockStands(b) ==
    LET block == branches[b]
    IN /\ block.condition \in Asked /\ block.parent \in Nat /\ block.parent < b
       /\ block.previous \subseteq DOMAIN branches
       /\ \A p \in block.previous : /\ p < b /\ branches[p].parent = block.parent
                                    /\ branches[p].condition \in Conditions
                                    /\ branches[p].previous \subseteq block.previous
       /\ block.condition = Lighttpd!NoCondition => block.previous # {}

\* Whatever a block depends on, around it or in its chain, was opened before it.
LEMMA BlocksStand ==
    ASSUME LighttpdInv, NEW b \in DOMAIN branches
    PROVE  BlockStands(b)
<1> DEFINE block == branches[b]
           cs == conditionals
<1>1. PICK s \in DOMAIN cs : cs[s].block = b
  BY DEF LighttpdInv, ScopesStand
<1>2. \A t \in DOMAIN cs : Situated(cs, branches, cs[t])
  BY DEF LighttpdInv, ScopesStand
<1>3. Situated(cs, branches, cs[s])
  BY <1>2
<1>4. /\ block.parent < b
      /\ block.previous = {cs[i].block : i \in Lighttpd!ToSet(cs[s].previous)}
      /\ block.condition = Lighttpd!NoCondition => cs[s].previous # <<>>
      /\ Lighttpd!ToSet(cs[s].previous) \subseteq DOMAIN cs
      /\ \A i \in Lighttpd!ToSet(cs[s].previous) : Precedes(cs, branches, i, cs[s])
  BY <1>1, <1>3 DEF Situated
<1>5. block \in Branch
  BY DEF LighttpdInv, LighttpdTypeOK
<1>6. block.condition \in Asked /\ block.parent \in Nat
  BY <1>5 DEF Branch
<1>7. cs[s].previous \in Seq(Nat)
  BY ConditionalIs DEF LighttpdInv
<1>8. block.condition = Lighttpd!NoCondition => block.previous # {}
  <2>1. cs[s].previous # <<>> => Lighttpd!ToSet(cs[s].previous) # {}
    BY <1>7, ToSetEmpty
  <2>2. QED BY <1>4, <2>1
<1>9. \A p \in block.previous :
          /\ p \in DOMAIN branches /\ p < b /\ branches[p].parent = block.parent
          /\ branches[p].condition \in Conditions
          /\ branches[p].previous \subseteq block.previous
  <2> SUFFICES ASSUME NEW p \in block.previous
               PROVE  /\ p \in DOMAIN branches /\ p < b /\ branches[p].parent = block.parent
                      /\ branches[p].condition \in Conditions
                      /\ branches[p].previous \subseteq block.previous
    OBVIOUS
  <2>1. PICK i \in Lighttpd!ToSet(cs[s].previous) : p = cs[i].block
    BY <1>4
  <2>2. Precedes(cs, branches, i, cs[s]) /\ i \in DOMAIN cs
    BY <1>4
  <2>3. branches[p].previous = {cs[j].block : j \in Lighttpd!ToSet(cs[i].previous)}
    BY <1>2, <2>1, <2>2 DEF Situated
  <2>4. Lighttpd!ToSet(cs[i].previous) \subseteq Lighttpd!ToSet(cs[s].previous)
    BY <2>2 DEF Precedes
  <2>5. branches[p].previous \subseteq block.previous
    BY <1>4, <2>3, <2>4
  <2>6. QED BY <1>1, <2>1, <2>2, <2>5 DEF Precedes
<1>10. QED BY <1>4, <1>6, <1>8, <1>9 DEF BlockStands

Meets(c, request) == Lighttpd!Evaluate(c.operator, request[c.variable], c.value)
Asks(b, request) ==
    branches[b].condition # Lighttpd!NoCondition => Meets(branches[b].condition, request)

\* Which blocks are active is well defined: what a block depends on was opened before it.
LEMMA ActiveExists ==
    ASSUME LighttpdInv, NEW request
    PROVE  \E g : g = [c \in DOMAIN branches \cup {0} |->
                          \/ c = 0
                          \/ /\ g[branches[c].parent]
                             /\ branches[c].condition # Lighttpd!NoCondition =>
                                    Lighttpd!Evaluate(branches[c].condition.operator,
                                                      request[branches[c].condition.variable],
                                                      branches[c].condition.value)
                             /\ \A p \in branches[c].previous : ~g[p]]
<1> DEFINE Step(g, c) == \/ c = 0
                         \/ /\ g[branches[c].parent]
                            /\ Asks(c, request)
                            /\ \A p \in branches[c].previous : ~g[p]
           N == Len(branches)
           H == {m \in Nat : m =< N => \E g \in [0 .. m -> BOOLEAN] : \A c \in 0 .. m : g[c] <=> Step(g, c)}
<1>1. N \in Nat /\ DOMAIN branches = 1 .. N
  BY DEF LighttpdInv, LighttpdTypeOK
<1> HIDE DEF N
<1>2. 0 \in H
  <2>1. [c \in 0 .. 0 |-> TRUE] \in [0 .. 0 -> BOOLEAN]
    OBVIOUS
  <2>2. \A c \in 0 .. 0 : [x \in 0 .. 0 |-> TRUE][c] <=> Step([x \in 0 .. 0 |-> TRUE], c)
    OBVIOUS
  <2>3. \E g \in [0 .. 0 -> BOOLEAN] : \A c \in 0 .. 0 : g[c] <=> Step(g, c)
    BY <2>1, <2>2
  <2>4. QED BY <2>3
<1>3. \A m \in 0 .. N - 1 : m \in H => m + 1 \in H
  <2> SUFFICES ASSUME NEW m \in 0 .. N - 1, m \in H PROVE m + 1 \in H
    OBVIOUS
  <2>1. m \in Nat /\ m =< N /\ m + 1 \in DOMAIN branches /\ m + 1 # 0
    BY <1>1
  <2>2. PICK g \in [0 .. m -> BOOLEAN] : \A c \in 0 .. m : g[c] <=> Step(g, c)
    BY <2>1
  <2> DEFINE h == [c \in 0 .. m + 1 |-> IF c = m + 1 THEN Step(g, m + 1) ELSE g[c]]
  <2>3. Step(g, m + 1) \in BOOLEAN
    OBVIOUS
  <2>4. h \in [0 .. m + 1 -> BOOLEAN]
    <3> HIDE DEF Step
    <3>1. QED BY <2>1, <2>2, <2>3
  <2>5. h[m + 1] = Step(g, m + 1) /\ \A c \in 0 .. m : h[c] = g[c]
    <3> HIDE DEF Step
    <3>1. QED BY <2>1
  <2> HIDE DEF h
  <2>6. \A c \in 0 .. m + 1 : Step(h, c) <=> Step(g, c)
    <3> SUFFICES ASSUME NEW c \in 0 .. m + 1, c # 0 PROVE Step(h, c) <=> Step(g, c)
      OBVIOUS
    <3>1. c \in DOMAIN branches
      BY <1>1
    <3>2. /\ branches[c].parent \in Nat /\ branches[c].parent < c
          /\ \A p \in branches[c].previous : p \in DOMAIN branches /\ p < c
      BY <3>1, BlocksStand DEF BlockStands
    <3>3. branches[c].parent \in 0 .. m /\ \A p \in branches[c].previous : p \in 0 .. m
      BY <1>1, <2>1, <3>2
    <3>4. h[branches[c].parent] = g[branches[c].parent] /\ \A p \in branches[c].previous : h[p] = g[p]
      BY <2>5, <3>3
    <3>5. QED BY <3>4
  <2>7. \A c \in 0 .. m + 1 : h[c] <=> Step(h, c)
    <3> SUFFICES ASSUME NEW c \in 0 .. m + 1 PROVE h[c] <=> Step(h, c)
      OBVIOUS
    <3> HIDE DEF Step
    <3>1. CASE c = m + 1
      BY <2>5, <2>6, <3>1
    <3>2. CASE c # m + 1
      <4>1. c \in 0 .. m
        BY <2>1, <3>2
      <4>2. QED BY <2>2, <2>5, <2>6, <4>1
    <3>3. QED BY <3>1, <3>2
  <2> HIDE DEF Step
  <2>8. QED BY <2>1, <2>4, <2>7
<1>4. N \in H
  <2> HIDE DEF H
  <2>1. QED BY <1>1, <1>2, <1>3, UpTo
<1>5. PICK g \in [0 .. N -> BOOLEAN] : \A c \in 0 .. N : g[c] <=> Step(g, c)
  <2> HIDE DEF Step
  <2>1. QED BY <1>1, <1>4
<1>6. DOMAIN branches \cup {0} = 0 .. N
  BY <1>1
<1>7. g = [c \in DOMAIN branches \cup {0} |-> Step(g, c)]
  <2>1. \A c \in 0 .. N : Step(g, c) \in BOOLEAN
    OBVIOUS
  <2> HIDE DEF Step
  <2>2. \A c \in 0 .. N : g[c] = Step(g, c)
    BY <1>5, <2>1
  <2>3. QED BY <1>5, <1>6, <2>2
<1>8. QED BY <1>7 DEF Asks, Meets

\* Whether a request is in a block, as one step up the recursion.
LEMMA ActiveIs ==
    ASSUME LighttpdInv, NEW request
    PROVE  /\ Lighttpd!Active(0, request)
           /\ \A b \in DOMAIN branches :
                  Lighttpd!Active(b, request) <=>
                      /\ Lighttpd!Active(branches[b].parent, request)
                      /\ Asks(b, request)
                      /\ \A p \in branches[b].previous : ~Lighttpd!Active(p, request)
<1> DEFINE N == Len(branches)
           In(g, c) == \/ c = 0
                       \/ /\ g[branches[c].parent]
                          /\ branches[c].condition # Lighttpd!NoCondition =>
                                 Lighttpd!Evaluate(branches[c].condition.operator,
                                                   request[branches[c].condition.variable],
                                                   branches[c].condition.value)
                          /\ \A p \in branches[c].previous : ~g[p]
           in == CHOOSE g : g = [c \in DOMAIN branches \cup {0} |-> In(g, c)]
<1>1. N \in Nat /\ DOMAIN branches = 1 .. N
  BY DEF LighttpdInv, LighttpdTypeOK
<1>2. \E g : g = [c \in DOMAIN branches \cup {0} |-> In(g, c)]
  BY ActiveExists, ZenonT(60)
<1>3. in = [c \in DOMAIN branches \cup {0} |-> In(in, c)]
  <2> HIDE DEF In
  <2>1. QED BY <1>2
<1>4. \A b : Lighttpd!Active(b, request) = in[b]
  BY DEF Lighttpd!Active, Lighttpd!Blocks
<1> HIDE DEF in
<1>5. \A c \in DOMAIN branches \cup {0} : in[c] = In(in, c)
  <2> HIDE DEF In
  <2>1. QED BY <1>3
<1>6. in[0] = In(in, 0)
  BY <1>5
<1>7. Lighttpd!Active(0, request)
  BY <1>4, <1>6
<1>8. \A b \in DOMAIN branches :
          Lighttpd!Active(b, request) <=>
              /\ Lighttpd!Active(branches[b].parent, request)
              /\ Asks(b, request)
              /\ \A p \in branches[b].previous : ~Lighttpd!Active(p, request)
  <2> SUFFICES ASSUME NEW b \in DOMAIN branches
               PROVE  Lighttpd!Active(b, request) <=>
                          /\ Lighttpd!Active(branches[b].parent, request)
                          /\ Asks(b, request)
                          /\ \A p \in branches[b].previous : ~Lighttpd!Active(p, request)
    OBVIOUS
  <2>1. in[b] = In(in, b) /\ b # 0
    <3> HIDE DEF In
    <3>1. QED BY <1>1, <1>5
  <2>2. in[b] <=> /\ in[branches[b].parent]
                  /\ Asks(b, request)
                  /\ \A p \in branches[b].previous : ~in[p]
    BY <2>1 DEF Asks, Meets
  <2>3. QED BY <1>4, <2>2
<1>9. QED BY <1>7, <1>8

\* What a block asks for is told from the condition of an else.
LEMMA ConditionIsReal ==
    ASSUME VocabularyAssumption, NEW c \in Conditions
    PROVE  c # Lighttpd!NoCondition
<1>1. c.operator \in Tests
  BY DEF VocabularyAssumption
<1>2. QED BY <1>1 DEF Tests, Lighttpd!NoCondition

\* Of the branches before it, the first that asks for what is met is the active one.
LEMMA FirstBranch ==
    ASSUME VocabularyAssumption, LighttpdInv, NEW request, NEW b \in DOMAIN branches,
           Lighttpd!Active(branches[b].parent, request)
    PROVE  (\A p \in branches[b].previous : ~Lighttpd!Active(p, request))
               <=> (\A p \in branches[b].previous : ~Meets(branches[p].condition, request))
<1> DEFINE P == branches[b].previous
           A(c) == Lighttpd!Active(c, request)
           M(c) == Meets(branches[c].condition, request)
<1>1. BlockStands(b)
  BY BlocksStand
<1>2. \A p \in P : /\ p \in DOMAIN branches /\ p \in Nat
                   /\ branches[p].parent = branches[b].parent
                   /\ branches[p].previous \subseteq P
                   /\ \A q \in branches[p].previous : q < p
                   /\ Asks(p, request) <=> M(p)
  <2> SUFFICES ASSUME NEW p \in P
               PROVE  /\ p \in DOMAIN branches /\ p \in Nat
                      /\ branches[p].parent = branches[b].parent
                      /\ branches[p].previous \subseteq P
                      /\ \A q \in branches[p].previous : q < p
                      /\ Asks(p, request) <=> M(p)
    OBVIOUS
  <2>1. /\ p \in DOMAIN branches /\ branches[p].parent = branches[b].parent
        /\ branches[p].condition \in Conditions /\ branches[p].previous \subseteq P
    BY <1>1 DEF BlockStands
  <2>2. BlockStands(p) /\ p \in Nat
    BY <2>1, BlocksStand DEF LighttpdInv, LighttpdTypeOK
  <2>3. branches[p].condition # Lighttpd!NoCondition
    BY <2>1, ConditionIsReal
  <2>4. QED BY <2>1, <2>2, <2>3 DEF BlockStands, Asks
<1>3. \A p \in P : A(p) <=> M(p) /\ \A q \in branches[p].previous : ~A(q)
  <2> SUFFICES ASSUME NEW p \in P
               PROVE  A(p) <=> M(p) /\ \A q \in branches[p].previous : ~A(q)
    OBVIOUS
  <2>1. A(p) <=> /\ A(branches[p].parent) /\ Asks(p, request)
                 /\ \A q \in branches[p].previous : ~A(q)
    BY <1>2, ActiveIs
  <2>2. A(branches[p].parent)
    BY <1>2
  <2>3. Asks(p, request) <=> M(p)
    BY <1>2
  <2>4. QED BY <2>1, <2>2, <2>3
<1> HIDE DEF A, M, P
<1>4. (\A p \in P : ~M(p)) => \A p \in P : ~A(p)
  BY <1>3
<1>5. ASSUME \A p \in P : ~A(p) PROVE \A p \in P : ~M(p)
  <2> SUFFICES ASSUME NEW m \in P, M(m) PROVE FALSE
    OBVIOUS
  <2> DEFINE Met == {p \in P : M(p)}
  <2>1. Met \in SUBSET Nat /\ Met # {}
    BY <1>2
  <2>2. PICK p \in Met : \A q \in Met : p =< q
    BY <2>1, LeastElement
  <2>3. p \in P /\ M(p) /\ p \in Nat
    BY <1>2
  <2>4. PICK q \in branches[p].previous : A(q)
    BY <1>3, <1>5, <2>3
  <2>5. QED BY <1>2, <1>5, <2>3, <2>4
<1>6. QED BY <1>4, <1>5 DEF A, M, P

\* What a scope says of its block: the conditions of it and of the blocks around it.
ScopeTells(s, request) ==
    LET b == conditionals[s].block
        conditions == Lighttpd!ToSet(conditionals[s].conditions)
    IN /\ Lighttpd!Active(branches[b].parent, request) /\ Asks(b, request)
              <=> \A c \in conditions : c # Lighttpd!NoCondition => Meets(c, request)
       /\ branches[b].condition \in conditions
       /\ branches[b].condition # Lighttpd!NoCondition => conditions \subseteq Conditions

\* A scope holds all that its block and those around it ask, if chains do not nest.
LEMMA ScopesTell ==
    ASSUME VocabularyAssumption, LighttpdInv, Lighttpd!IfsOnly(Lighttpd!Parents), NEW request
    PROVE  \A s \in DOMAIN conditionals : ScopeTells(s, request)
<1> DEFINE Wrong == {b \in DOMAIN branches :
                        \E s \in DOMAIN conditionals : conditionals[s].block = b /\ ~ScopeTells(s, request)}
           A(c) == Lighttpd!Active(c, request)
           Conds(s) == Lighttpd!ToSet(conditionals[s].conditions)
           Met(s) == \A c \in Conds(s) : c # Lighttpd!NoCondition => Meets(c, request)
<1>1. \A s \in DOMAIN conditionals : conditionals[s].block \in DOMAIN branches /\ Situated(conditionals, branches, conditionals[s])
  BY DEF LighttpdInv, ScopesStand, Situated
<1>2. DOMAIN branches \subseteq Nat
  BY DEF LighttpdInv, LighttpdTypeOK
<1>3. SUFFICES ASSUME Wrong # {} PROVE FALSE
  BY <1>1
<1>4. PICK b \in Wrong : \A a \in Wrong : b =< a
  <2>1. Wrong \in SUBSET Nat
    BY <1>2
  <2> HIDE DEF Wrong
  <2>2. QED BY <1>3, <2>1, LeastElement
<1>5. PICK s \in DOMAIN conditionals : conditionals[s].block = b /\ ~ScopeTells(s, request)
  OBVIOUS
<1>6. b \in DOMAIN branches /\ b \in Nat
  BY <1>2
<1> DEFINE q == branches[b].parent
           own == branches[b].condition
<1>7. BlockStands(b) /\ q \in Nat /\ q < b /\ own \in Asked
  BY <1>6, BlocksStand DEF BlockStands
<1>8. Asks(b, request) <=> (own # Lighttpd!NoCondition => Meets(own, request))
  BY DEF Asks
<1>9. Nested(conditionals, branches, conditionals[s])
  BY <1>1 DEF Situated
<1>10. CASE q = 0
  <2>1. conditionals[s].conditions = <<own>>
    BY <1>5, <1>9, <1>10 DEF Nested
  <2>2. Conds(s) = {own}
    BY <2>1 DEF Lighttpd!ToSet
  <2>3. A(q)
    BY <1>10, ActiveIs
  <2>4. own # Lighttpd!NoCondition => Conds(s) \subseteq Conditions
    BY <1>7, <2>2 DEF Asked
  <2>5. ScopeTells(s, request)
    BY <1>5, <1>8, <2>2, <2>3, <2>4 DEF ScopeTells
  <2>6. QED BY <1>5, <2>5
<1>11. CASE q # 0
  <2>1. PICK t \in DOMAIN conditionals :
            /\ conditionals[t].block = q
            /\ conditionals[s].conditions = Append(conditionals[t].conditions, own)
    BY <1>5, <1>9, <1>11 DEF Nested
  <2>2. conditionals[t].conditions \in Seq(Asked)
    BY ConditionalIs DEF LighttpdInv
  <2>3. Conds(s) = Conds(t) \cup {own}
    BY <1>7, <2>1, <2>2, ToSetAppend
  <2>4. q \in DOMAIN branches /\ q \in Lighttpd!Parents
    BY <1>1, <1>6, <1>11, <2>1 DEF Lighttpd!Parents, Lighttpd!Nested, Lighttpd!Blocks
  <2>5. branches[q].previous = {}
    BY <2>4 DEF Lighttpd!IfsOnly
  <2>6. branches[q].condition # Lighttpd!NoCondition
    BY <2>4, <2>5, BlocksStand DEF BlockStands
  <2>7. q \notin Wrong
    BY <1>4, <1>6, <1>7
  <2>8. ScopeTells(t, request)
    BY <2>1, <2>4, <2>7
  <2>9. (A(branches[q].parent) /\ Asks(q, request)) <=> Met(t)
    BY <2>1, <2>8 DEF ScopeTells
  <2>10. Conds(t) \subseteq Conditions
    BY <2>1, <2>6, <2>8 DEF ScopeTells
  <2>11. A(q) <=> (A(branches[q].parent) /\ Asks(q, request))
    BY <2>4, <2>5, ActiveIs
  <2>12. Met(s) <=> Met(t) /\ (own # Lighttpd!NoCondition => Meets(own, request))
    BY <2>3
  <2>13. (A(q) /\ Asks(b, request)) <=> Met(s)
    BY <1>8, <2>9, <2>11, <2>12
  <2>14. own \in Conds(s) /\ (own # Lighttpd!NoCondition => Conds(s) \subseteq Conditions)
    BY <1>7, <2>3, <2>10 DEF Asked
  <2>15. ScopeTells(s, request)
    BY <1>5, <2>13, <2>14 DEF ScopeTells
  <2>16. QED BY <1>5, <2>15
<1>12. QED BY <1>10, <1>11

\* A condition on the host is decided by a host that is known, and only such a one.
LEMMA HostDecides ==
    ASSUME VocabularyAssumption, NEW request, request["host"] \in Hosts, NEW c
    PROVE  /\ c.variable = "host" =>
                  /\ Lighttpd!HoldsFor(c, request["host"]) <=> Meets(c, request)
                  /\ Lighttpd!MayHoldFor(c, request["host"]) <=> Meets(c, request)
           /\ c.variable # "host" =>
                  ~Lighttpd!HoldsFor(c, request["host"]) /\ Lighttpd!MayHoldFor(c, request["host"])
<1>1. request["host"] # Lighttpd!Unknown
  BY DEF VocabularyAssumption
<1>2. QED BY <1>1 DEF Lighttpd!HoldsFor, Lighttpd!MayHoldFor, Lighttpd!Known, Meets

\* The scopes that match a host are those of the blocks that its requests are in.
LEMMA HostScopes ==
    ASSUME VocabularyAssumption, LighttpdInv, Lighttpd!IfsOnly(Lighttpd!Parents),
           \A c \in Conditions : c.variable = "host",
           NEW request, request["host"] \in Hosts, NEW s \in DOMAIN conditionals
    PROVE  Lighttpd!ScopeMatches(conditionals[s], request["host"])
               <=> Lighttpd!Active(conditionals[s].block, request)
<1> DEFINE b == conditionals[s].block
           h == request["host"]
           A(c) == Lighttpd!Active(c, request)
           Conds(t) == Lighttpd!ToSet(conditionals[t].conditions)
           P == Lighttpd!ToSet(conditionals[s].previous)
           Of(i) == branches[conditionals[i].block].condition
<1>1. Situated(conditionals, branches, conditionals[s])
  BY DEF LighttpdInv, ScopesStand
<1>2. /\ b \in DOMAIN branches /\ branches[b].previous = {conditionals[i].block : i \in P}
      /\ conditionals[s].kind = "if" <=> conditionals[s].previous = <<>>
      /\ P \subseteq DOMAIN conditionals
      /\ \A i \in P : Precedes(conditionals, branches, i, conditionals[s])
  BY <1>1 DEF Situated
<1>3. \A t \in DOMAIN conditionals : ScopeTells(t, request)
  BY ScopesTell
<1>4. \A t \in DOMAIN conditionals : Conds(t) \subseteq Asked
  <2> SUFFICES ASSUME NEW t \in DOMAIN conditionals PROVE Conds(t) \subseteq Asked
    OBVIOUS
  <2>1. conditionals[t].conditions \in Seq(Asked)
    BY ConditionalIs DEF LighttpdInv
  <2>2. QED BY <2>1 DEF Lighttpd!ToSet
<1>5. \A c \in Asked : Lighttpd!MayHoldFor(c, h) <=> (c # Lighttpd!NoCondition => Meets(c, request))
  <2> SUFFICES ASSUME NEW c \in Asked
               PROVE  Lighttpd!MayHoldFor(c, h) <=> (c # Lighttpd!NoCondition => Meets(c, request))
    OBVIOUS
  <2>1. CASE c = Lighttpd!NoCondition
    <3>1. c.variable # "host"
      BY <2>1 DEF Lighttpd!NoCondition
    <3>2. QED BY <2>1, <3>1, HostDecides
  <2>2. CASE c # Lighttpd!NoCondition
    <3>1. c.variable = "host"
      BY <2>2 DEF Asked
    <3>2. QED BY <2>2, <3>1, HostDecides
  <2>3. QED BY <2>1, <2>2
<1>6. (A(branches[b].parent) /\ Asks(b, request)) <=> \A c \in Conds(s) : Lighttpd!MayHoldFor(c, h)
  BY <1>3, <1>4, <1>5 DEF ScopeTells
<1>7. \A i \in P : Lighttpd!Deterministic(conditionals[i], h)
                       <=> (A(branches[b].parent) /\ Meets(Of(i), request))
  <2> SUFFICES ASSUME NEW i \in P
               PROVE  Lighttpd!Deterministic(conditionals[i], h)
                          <=> (A(branches[b].parent) /\ Meets(Of(i), request))
    OBVIOUS
  <2>1. /\ i \in DOMAIN conditionals /\ Of(i) \in Conditions
        /\ branches[conditionals[i].block].parent = branches[b].parent
    BY <1>2 DEF Precedes
  <2>2. Of(i) # Lighttpd!NoCondition
    BY <2>1, ConditionIsReal
  <2>3. ScopeTells(i, request)
    BY <1>3, <2>1
  <2>4. Conds(i) \subseteq Conditions
    BY <2>2, <2>3 DEF ScopeTells
  <2>5. \A c \in Conds(i) : c # Lighttpd!NoCondition /\ (Lighttpd!HoldsFor(c, h) <=> Meets(c, request))
    BY <2>4, ConditionIsReal, HostDecides
  <2>6. (A(branches[b].parent) /\ Asks(conditionals[i].block, request)) <=> \A c \in Conds(i) : Meets(c, request)
    BY <2>1, <2>3, <2>5 DEF ScopeTells
  <2>7. Asks(conditionals[i].block, request) <=> Meets(Of(i), request)
    BY <2>2 DEF Asks
  <2>8. QED BY <2>5, <2>6, <2>7 DEF Lighttpd!Deterministic
<1>8. conditionals[s].previous = <<>> => P = {}
  BY DEF Lighttpd!ToSet
<1>9. Lighttpd!ScopeMatches(conditionals[s], h)
          <=> /\ \A i \in P : ~Lighttpd!Deterministic(conditionals[i], h)
              /\ \A c \in Conds(s) : Lighttpd!MayHoldFor(c, h)
  BY <1>2, <1>8 DEF Lighttpd!ScopeMatches
<1>10. Lighttpd!ScopeMatches(conditionals[s], h)
           <=> /\ A(branches[b].parent) /\ Asks(b, request)
               /\ \A i \in P : ~Meets(Of(i), request)
  BY <1>6, <1>7, <1>9
<1>11. A(b) <=> /\ A(branches[b].parent) /\ Asks(b, request)
                /\ \A p \in branches[b].previous : ~A(p)
  BY <1>2, ActiveIs
<1>12. A(branches[b].parent) =>
           ((\A p \in branches[b].previous : ~A(p)) <=> \A i \in P : ~Meets(Of(i), request))
  <2> SUFFICES ASSUME A(branches[b].parent)
               PROVE  (\A p \in branches[b].previous : ~A(p)) <=> \A i \in P : ~Meets(Of(i), request)
    OBVIOUS
  <2>1. (\A p \in branches[b].previous : ~A(p))
            <=> (\A p \in branches[b].previous : ~Meets(branches[p].condition, request))
    BY <1>2, FirstBranch
  <2>2. (\A p \in branches[b].previous : ~Meets(branches[p].condition, request))
            <=> \A i \in P : ~Meets(Of(i), request)
    BY <1>2
  <2>3. QED BY <2>1, <2>2
<1> HIDE DEF A
<1>13. QED BY <1>10, <1>11, <1>12 DEF A

\* A block that some request is in is met by the same request to a host its scope matches.
LEMMA PossibleScopes ==
    ASSUME VocabularyAssumption, LighttpdInv,
           Lighttpd!IfsOnly(Lighttpd!Nested \cup Lighttpd!Parents),
           NEW request \in Lighttpd!Requests, NEW h \in Hosts, NEW s \in DOMAIN conditionals,
           Lighttpd!Active(conditionals[s].block, request),
           Lighttpd!ScopeMatches(conditionals[s], h)
    PROVE  Lighttpd!Active(conditionals[s].block, [request EXCEPT !["host"] = h])
<1> DEFINE b == conditionals[s].block
           P == Lighttpd!ToSet(conditionals[s].previous)
           Conds(t) == Lighttpd!ToSet(conditionals[t].conditions)
           Of(i) == branches[conditionals[i].block].condition
<1>0. PICK there : there = [request EXCEPT !["host"] = h]
  OBVIOUS
<1> SUFFICES Lighttpd!Active(b, there)
  BY <1>0
<1>1. /\ there["host"] = h /\ \A v \in Lighttpd!Variables : v # "host" => there[v] = request[v]
      /\ there["host"] \in Hosts
  BY <1>0 DEF Lighttpd!Requests
<1>2. Lighttpd!IfsOnly(Lighttpd!Parents)
  BY DEF Lighttpd!IfsOnly
<1>3. \A c \in Conditions : c.variable # "host" => (Meets(c, there) <=> Meets(c, request))
  <2>1. \A c \in Conditions : c.variable \in Lighttpd!Variables
    BY DEF Lighttpd!Variables
  <2>2. QED BY <1>1, <2>1 DEF Meets
<1>4. Situated(conditionals, branches, conditionals[s])
  BY DEF LighttpdInv, ScopesStand
<1>5. /\ b \in DOMAIN branches /\ branches[b].previous = {conditionals[i].block : i \in P}
      /\ conditionals[s].kind = "if" <=> conditionals[s].previous = <<>>
      /\ P \subseteq DOMAIN conditionals
      /\ \A i \in P : Precedes(conditionals, branches, i, conditionals[s])
  BY <1>4 DEF Situated
<1>6. ScopeTells(s, request) /\ \A t \in DOMAIN conditionals : ScopeTells(t, there)
  BY <1>2, ScopesTell
<1>7. /\ Lighttpd!Active(branches[b].parent, request) /\ Asks(b, request)
      /\ \A p \in branches[b].previous : ~Lighttpd!Active(p, request)
  BY <1>5, ActiveIs
<1>8. \A c \in Conds(s) : c # Lighttpd!NoCondition => Meets(c, there)
  <2> SUFFICES ASSUME NEW c \in Conds(s), c # Lighttpd!NoCondition PROVE Meets(c, there)
    OBVIOUS
  <2>1. c \in Conditions
    <3>1. conditionals[s].conditions \in Seq(Asked)
      BY ConditionalIs DEF LighttpdInv
    <3>2. QED BY <3>1 DEF Lighttpd!ToSet, Asked
  <2>2. Meets(c, request)
    BY <1>6, <1>7 DEF ScopeTells
  <2>3. Lighttpd!MayHoldFor(c, h)
    BY DEF Lighttpd!ScopeMatches
  <2>4. CASE c.variable = "host"
    BY <1>1, <2>3, <2>4, HostDecides
  <2>5. CASE c.variable # "host"
    BY <1>3, <2>1, <2>2, <2>5
  <2>6. QED BY <2>4, <2>5
<1>9. Lighttpd!Active(branches[b].parent, there) /\ Asks(b, there)
  BY <1>6, <1>8 DEF ScopeTells
<1>10. CASE branches[b].previous = {}
  BY <1>5, <1>9, <1>10, ActiveIs
<1>11. CASE branches[b].previous # {}
  <2>1. branches[b].parent = 0
    BY <1>5, <1>11 DEF Lighttpd!IfsOnly, Lighttpd!Nested, Lighttpd!Blocks
  <2>2. \A p \in branches[b].previous : ~Meets(branches[p].condition, request)
    BY <1>5, <1>7, FirstBranch
  <2>3. conditionals[s].previous # <<>>
    BY <1>5, <1>11 DEF Lighttpd!ToSet
  <2>4. \A i \in P : ~Lighttpd!Deterministic(conditionals[i], h)
    BY <1>5, <2>3 DEF Lighttpd!ScopeMatches
  <2>5. \A i \in P : ~Meets(Of(i), there)
    <3> SUFFICES ASSUME NEW i \in P, Meets(Of(i), there) PROVE FALSE
      OBVIOUS
    <3>1. /\ i \in DOMAIN conditionals /\ Of(i) \in Conditions
          /\ branches[conditionals[i].block].parent = 0
      BY <1>5, <2>1 DEF Precedes
    <3>2. Nested(conditionals, branches, conditionals[i])
      BY <3>1 DEF LighttpdInv, ScopesStand, Situated
    <3>3. Conds(i) = {Of(i)}
      BY <3>1, <3>2 DEF Nested, Lighttpd!ToSet
    <3>4. ~Lighttpd!HoldsFor(Of(i), h)
      BY <2>4, <3>3 DEF Lighttpd!Deterministic
    <3>5. CASE Of(i).variable = "host"
      BY <1>1, <3>4, <3>5, HostDecides
    <3>6. CASE Of(i).variable # "host"
      <4>1. Meets(Of(i), request)
        BY <1>3, <3>1, <3>6
      <4>2. conditionals[i].block \in branches[b].previous
        BY <1>5
      <4>3. QED BY <2>2, <4>1, <4>2
    <3>7. QED BY <3>5, <3>6
  <2>6. \A p \in branches[b].previous : ~Meets(branches[p].condition, there)
    BY <1>5, <2>5
  <2>7. \A p \in branches[b].previous : ~Lighttpd!Active(p, there)
    BY <1>5, <1>9, <2>6, FirstBranch
  <2>8. QED BY <1>5, <1>9, <2>7, ActiveIs
<1>12. QED BY <1>10, <1>11

-----------------------------------------------------------------------------
(* What the matching scopes say in turn, and the statements of each block. *)

\* One more scope, as merge_conditional_scopes takes it.
MergeStep(so, s, name, host) ==
    LET d == conditionals[s].directives[name]
    IN IF ~Lighttpd!ScopeMatches(conditionals[s], host) \/ ~Lighttpd!Says(s, name) THEN so
       ELSE CASE d.operator = "+=" /\ host = Lighttpd!Unknown -> Lighttpd!Appended(name, d, so.accumulators)
              [] d.operator = "+=" /\ host # Lighttpd!Unknown -> [so EXCEPT !.merged = Lighttpd!Joined(@, d)]
              [] d.operator = "=" ->
                     [merged |-> d,
                      accumulators |-> IF host # Lighttpd!Unknown THEN so.accumulators
                          ELSE Lighttpd!Put(so.accumulators, Lighttpd!AccumulatorFor(so.accumulators, d), d)]

MergeLoop(n, start, name, host, g) ==
    [i \in 0 .. n |-> IF i = 0 THEN start ELSE MergeStep(g[i - 1], i, name, host)]

\* Merging takes one scope after another.
LEMMA MergingExists ==
    ASSUME NEW n \in Nat, NEW start, NEW name, NEW host
    PROVE  \E g : g = MergeLoop(n, start, name, host, g)
<1> DEFINE Start == start
           Step(g, i) == MergeStep(g[i - 1], i, name, host)
           Solves(g, m) == /\ g = [i \in 0 .. m |-> g[i]]
                           /\ g[0] = Start
                           /\ \A i \in 1 .. m : g[i] = Step(g, i)
           H == {m \in 0 .. n : \E g : Solves(g, m)}
<1>1. 0 \in H
  <2> HIDE DEF Start
  <2> DEFINE g == [i \in 0 .. 0 |-> Start]
  <2>1. g = [i \in 0 .. 0 |-> g[i]] /\ g[0] = Start
    OBVIOUS
  <2>2. Solves(g, 0)
    BY <2>1
  <2> HIDE DEF Solves, g
  <2>3. 0 \in 0 .. n
    OBVIOUS
  <2>4. QED BY <2>2, <2>3
<1>2. \A m \in 0 .. n - 1 : m \in H => m + 1 \in H
  <2> SUFFICES ASSUME NEW m \in 0 .. n - 1, m \in H PROVE m + 1 \in H
    OBVIOUS
  <2> HIDE DEF Start
  <2>1. PICK g : Solves(g, m)
    OBVIOUS
  <2> DEFINE last == MergeStep(g[m], m + 1, name, host)
             h == [i \in 0 .. m + 1 |-> IF i = m + 1 THEN last ELSE g[i]]
  <2>2. m \in Nat /\ m + 1 \in 0 .. n
    OBVIOUS
  <2>3. /\ h = [i \in 0 .. m + 1 |-> h[i]] /\ h[m + 1] = last
        /\ \A i \in 0 .. m : h[i] = g[i]
    BY <2>2
  <2> HIDE DEF h
  <2>4. h[0] = Start
    BY <2>1, <2>2, <2>3, SMTT(60)
  <2>5. \A i \in 1 .. m + 1 : h[i] = Step(h, i)
    <3> SUFFICES ASSUME NEW i \in 1 .. m + 1 PROVE h[i] = Step(h, i)
      OBVIOUS
    <3>1. CASE i = m + 1
      <4>1. i - 1 = m /\ m \in 0 .. m
        BY <2>2, <3>1
      <4>2. h[i - 1] = g[m]
        BY <2>3, <4>1
      <4>3. h[i] = last
        BY <2>3, <3>1
      <4>4. QED BY <3>1, <4>2, <4>3
    <3>2. CASE i # m + 1
      <4>1. i \in 1 .. m /\ i - 1 \in 0 .. m /\ i \in 0 .. m
        BY <2>2, <3>2
      <4>2. h[i] = g[i] /\ h[i - 1] = g[i - 1]
        BY <2>3, <4>1
      <4>3. QED BY <2>1, <4>1, <4>2
    <3>3. QED BY <3>1, <3>2
  <2>6. Solves(h, m + 1)
    BY <2>3, <2>4, <2>5
  <2> HIDE DEF Solves
  <2>7. QED BY <2>2, <2>6
<1>3. n \in H
  <2> HIDE DEF H
  <2>1. QED BY <1>1, <1>2, UpTo
<1>4. PICK g : Solves(g, n)
  BY <1>3
<1> DEFINE f == [i \in 0 .. n |-> IF i = 0 THEN Start ELSE Step(g, i)]
<1> HIDE DEF Start
<1>5. \A i \in 0 .. n : g[i] = f[i]
  <2> SUFFICES ASSUME NEW i \in 0 .. n PROVE g[i] = f[i]
    OBVIOUS
  <2>1. f[i] = IF i = 0 THEN Start ELSE Step(g, i)
    OBVIOUS
  <2>2. i = 0 \/ (i # 0 /\ i \in 1 .. n)
    OBVIOUS
  <2> HIDE DEF f
  <2>3. QED BY <1>4, <2>1, <2>2
<1>6. f = [i \in 0 .. n |-> f[i]]
  OBVIOUS
<1> HIDE DEF f
<1>7. g = f
  BY <1>4, <1>5, <1>6
<1>8. QED BY <1>7 DEF f, Start, MergeLoop

\* One more statement, as lighttpd takes it.
ParseStep(before, i, name) ==
    LET s == statements[i]
        nearest[b \in Lighttpd!Blocks \cup {0}] ==
            IF before[b] # <<>> \/ b = 0 THEN before[b] ELSE nearest[branches[b].parent]
    IN IF s.name # name THEN before
       ELSE [before EXCEPT ![s.in] = IF s.operator = "=" THEN <<i>> ELSE Append(nearest[s.in], i)]

\* And lighttpd one statement after another.
LEMMA ParsingExists ==
    ASSUME NEW n \in Nat, NEW name
    PROVE  \E g : g = [i \in 0 .. n |-> IF i = 0 THEN [b \in Lighttpd!Blocks \cup {0} |-> <<>>] ELSE ParseStep(g[i - 1], i, name)]
<1> DEFINE Start == [b \in Lighttpd!Blocks \cup {0} |-> <<>>]
           Step(g, i) == ParseStep(g[i - 1], i, name)
           Solves(g, m) == /\ g = [i \in 0 .. m |-> g[i]]
                           /\ g[0] = Start
                           /\ \A i \in 1 .. m : g[i] = Step(g, i)
           H == {m \in 0 .. n : \E g : Solves(g, m)}
<1>1. 0 \in H
  <2> HIDE DEF Start
  <2> DEFINE g == [i \in 0 .. 0 |-> Start]
  <2>1. g = [i \in 0 .. 0 |-> g[i]] /\ g[0] = Start
    OBVIOUS
  <2>2. Solves(g, 0)
    BY <2>1
  <2> HIDE DEF Solves, g
  <2>3. 0 \in 0 .. n
    OBVIOUS
  <2>4. QED BY <2>2, <2>3
<1>2. \A m \in 0 .. n - 1 : m \in H => m + 1 \in H
  <2> SUFFICES ASSUME NEW m \in 0 .. n - 1, m \in H PROVE m + 1 \in H
    OBVIOUS
  <2> HIDE DEF Start
  <2>1. PICK g : Solves(g, m)
    OBVIOUS
  <2> DEFINE last == ParseStep(g[m], m + 1, name)
             h == [i \in 0 .. m + 1 |-> IF i = m + 1 THEN last ELSE g[i]]
  <2>2. m \in Nat /\ m + 1 \in 0 .. n
    OBVIOUS
  <2>3. /\ h = [i \in 0 .. m + 1 |-> h[i]] /\ h[m + 1] = last
        /\ \A i \in 0 .. m : h[i] = g[i]
    BY <2>2
  <2> HIDE DEF h
  <2>4. h[0] = Start
    BY <2>1, <2>2, <2>3
  <2>5. \A i \in 1 .. m + 1 : h[i] = Step(h, i)
    <3> SUFFICES ASSUME NEW i \in 1 .. m + 1 PROVE h[i] = Step(h, i)
      OBVIOUS
    <3>1. CASE i = m + 1
      <4>1. i - 1 = m /\ m \in 0 .. m
        BY <2>2, <3>1
      <4>2. h[i - 1] = g[m]
        BY <2>3, <4>1
      <4>3. h[i] = last
        BY <2>3, <3>1
      <4>4. QED BY <3>1, <4>2, <4>3
    <3>2. CASE i # m + 1
      <4>1. i \in 1 .. m /\ i - 1 \in 0 .. m /\ i \in 0 .. m
        BY <2>2, <3>2
      <4>2. h[i] = g[i] /\ h[i - 1] = g[i - 1]
        BY <2>3, <4>1
      <4>3. QED BY <2>1, <4>1, <4>2
    <3>3. QED BY <3>1, <3>2
  <2>6. Solves(h, m + 1)
    BY <2>3, <2>4, <2>5
  <2> HIDE DEF Solves
  <2>7. QED BY <2>2, <2>6
<1>3. n \in H
  <2> HIDE DEF H
  <2>1. QED BY <1>1, <1>2, UpTo
<1>4. PICK g : Solves(g, n)
  BY <1>3
<1> DEFINE f == [i \in 0 .. n |-> IF i = 0 THEN Start ELSE Step(g, i)]
<1> HIDE DEF Start
<1>5. \A i \in 0 .. n : g[i] = f[i]
  <2> SUFFICES ASSUME NEW i \in 0 .. n PROVE g[i] = f[i]
    OBVIOUS
  <2>1. f[i] = IF i = 0 THEN Start ELSE Step(g, i)
    OBVIOUS
  <2>2. i = 0 \/ (i # 0 /\ i \in 1 .. n)
    OBVIOUS
  <2> HIDE DEF f
  <2>3. QED BY <1>4, <2>1, <2>2
<1>6. f = [i \in 0 .. n |-> f[i]]
  OBVIOUS
<1> HIDE DEF f
<1>7. g = f
  BY <1>4, <1>5, <1>6
<1>8. QED BY <1>7 DEF f, Start

\* The merging loop has a solution that Merged is the end of.
LEMMA MergedIs ==
    ASSUME LighttpdInv, NEW name, NEW host
    PROVE  \E upto : /\ upto[0] = [merged |-> Lighttpd!Global(name), accumulators |-> <<>>]
                     /\ \A s \in DOMAIN conditionals : upto[s] = MergeStep(upto[s - 1], s, name, host)
                     /\ Lighttpd!Merged(name, host) = upto[Len(conditionals)].merged
<1> DEFINE n == Len(conditionals)
           Loop(g) == [i \in 0 .. n |-> IF i = 0 THEN [merged |-> Lighttpd!Global(name), accumulators |-> <<>>]
                                        ELSE MergeStep(g[i - 1], i, name, host)]
           upto == CHOOSE g : g = Loop(g)
<1>1. n \in Nat /\ DOMAIN conditionals = 1 .. n
  BY DEF LighttpdInv, LighttpdTypeOK
<1>2. Lighttpd!Merged(name, host) = upto[n].merged
  BY DEF Lighttpd!Merged, MergeStep
<1>3. \E g : g = Loop(g)
  <2>1. PICK start : start = [merged |-> Lighttpd!Global(name), accumulators |-> <<>>]
    OBVIOUS
  <2>2. PICK g : g = MergeLoop(n, start, name, host, g)
    BY <1>1, MergingExists
  <2>3. g = Loop(g)
    BY <2>1, <2>2 DEF MergeLoop
  <2> HIDE DEF Loop
  <2>4. QED BY <2>3
<1>4. upto = Loop(upto)
  <2> HIDE DEF Loop
  <2>1. QED BY <1>3
<1> HIDE DEF upto
<1>5. upto[0] = [merged |-> Lighttpd!Global(name), accumulators |-> <<>>]
  <2>1. Loop(upto)[0] = [merged |-> Lighttpd!Global(name), accumulators |-> <<>>]
    BY <1>1
  <2> HIDE DEF Loop
  <2>2. QED BY <1>4, <2>1
<1>6. \A s \in DOMAIN conditionals : upto[s] = MergeStep(upto[s - 1], s, name, host)
  <2> SUFFICES ASSUME NEW s \in DOMAIN conditionals
               PROVE  upto[s] = MergeStep(upto[s - 1], s, name, host)
    OBVIOUS
  <2>1. s \in 0 .. n /\ s # 0
    BY <1>1
  <2>2. Loop(upto)[s] = MergeStep(upto[s - 1], s, name, host)
    BY <2>1
  <2> HIDE DEF Loop
  <2>3. QED BY <1>4, <2>2
<1>7. QED BY <1>2, <1>5, <1>6

\* So has reading statement by statement.
LEMMA ParsedIs ==
    ASSUME LighttpdInv, NEW name
    PROVE  \E own : /\ own[0] = [b \in Lighttpd!Blocks \cup {0} |-> <<>>]
                    /\ \A i \in DOMAIN statements : own[i] = ParseStep(own[i - 1], i, name)
                    /\ Lighttpd!Parsed(name) = own[Len(statements)]
<1> DEFINE n == Len(statements)
           Loop(g) == [i \in 0 .. n |-> IF i = 0 THEN [b \in Lighttpd!Blocks \cup {0} |-> <<>>]
                                        ELSE ParseStep(g[i - 1], i, name)]
           own == CHOOSE g : g = Loop(g)
<1>1. n \in Nat /\ DOMAIN statements = 1 .. n
  BY DEF LighttpdInv, LighttpdTypeOK
<1>2. Lighttpd!Parsed(name) = own[n]
  BY DEF Lighttpd!Parsed, ParseStep
<1>3. \E g : g = Loop(g)
  BY <1>1, ParsingExists
<1>4. own = Loop(own)
  <2> HIDE DEF Loop
  <2>1. QED BY <1>3
<1> HIDE DEF own
<1>5. own[0] = [b \in Lighttpd!Blocks \cup {0} |-> <<>>]
  <2>1. Loop(own)[0] = [b \in Lighttpd!Blocks \cup {0} |-> <<>>]
    BY <1>1
  <2> HIDE DEF Loop
  <2>2. QED BY <1>4, <2>1
<1>6. \A i \in DOMAIN statements : own[i] = ParseStep(own[i - 1], i, name)
  <2> SUFFICES ASSUME NEW i \in DOMAIN statements
               PROVE  own[i] = ParseStep(own[i - 1], i, name)
    OBVIOUS
  <2>1. i \in 0 .. n /\ i # 0
    BY <1>1
  <2>2. Loop(own)[i] = ParseStep(own[i - 1], i, name)
    BY <2>1
  <2> HIDE DEF Loop
  <2>3. QED BY <1>4, <2>2
<1>7. QED BY <1>2, <1>5, <1>6

\* A scope that a request to a known host meets and that says something of the name.
ScopeIsMet(s, name, host) ==
    Lighttpd!ScopeMatches(conditionals[s], host) /\ name \in DOMAIN conditionals[s].directives

\* For a known host only the directive merged so far is handed on.
LEMMA MergedOfHost ==
    ASSUME LighttpdInv, VocabularyAssumption, NEW name, NEW host \in Hosts
    PROVE  \E m : /\ m[0] = Lighttpd!Global(name)
                  /\ \A s \in DOMAIN conditionals :
                         LET d == conditionals[s].directives[name]
                         IN m[s] = IF ~ScopeIsMet(s, name, host) THEN m[s - 1]
                                   ELSE IF d.operator = "=" THEN d ELSE Lighttpd!Joined(m[s - 1], d)
                  /\ Lighttpd!Merged(name, host) = m[Len(conditionals)]
<1> DEFINE N == Len(conditionals)
           D(s) == conditionals[s].directives[name]
<1>1. N \in Nat /\ DOMAIN conditionals = 1 .. N
  BY DEF LighttpdInv, LighttpdTypeOK
<1>2. host # Lighttpd!Unknown
  BY DEF VocabularyAssumption
<1>3. PICK upto : /\ upto[0] = [merged |-> Lighttpd!Global(name), accumulators |-> <<>>]
                  /\ \A s \in DOMAIN conditionals : upto[s] = MergeStep(upto[s - 1], s, name, host)
                  /\ Lighttpd!Merged(name, host) = upto[N].merged
  BY MergedIs
<1> DEFINE Full(r) == r = [merged |-> r.merged, accumulators |-> r.accumulators]
<1>4. ASSUME NEW s \in DOMAIN conditionals, Full(upto[s - 1])
      PROVE  /\ Full(upto[s])
             /\ upto[s].merged = IF ~ScopeIsMet(s, name, host) THEN upto[s - 1].merged
                                 ELSE IF D(s).operator = "=" THEN D(s)
                                      ELSE Lighttpd!Joined(upto[s - 1].merged, D(s))
  <2>1. upto[s] = MergeStep(upto[s - 1], s, name, host)
    BY <1>3
  <2>2. PICK so : so = upto[s - 1]
    OBVIOUS
  <2>3. so = [merged |-> so.merged, accumulators |-> so.accumulators]
    BY <1>4, <2>2
  <2>4. CASE ~ScopeIsMet(s, name, host)
    <3>1. ~Lighttpd!ScopeMatches(conditionals[s], host) \/ ~Lighttpd!Says(s, name)
      BY <2>4 DEF ScopeIsMet, Lighttpd!Says
    <3>2. MergeStep(so, s, name, host) = so
      BY <3>1, <1>2 DEF MergeStep
    <3>3. QED BY <2>1, <2>2, <2>3, <2>4, <3>2
  <2>5. CASE ScopeIsMet(s, name, host)
    <3>1. Lighttpd!ScopeMatches(conditionals[s], host) /\ Lighttpd!Says(s, name)
      BY <2>5 DEF ScopeIsMet, Lighttpd!Says
    <3>2. D(s).operator \in Operators
      <4>1. conditionals[s].directives \in Said
        BY ConditionalIs DEF LighttpdInv
      <4>2. QED BY <2>5, <4>1, SaidIs DEF ScopeIsMet
    <3>3. CASE D(s).operator = "="
      <4>1. MergeStep(so, s, name, host) = [merged |-> D(s), accumulators |-> so.accumulators]
        BY <1>2, <3>1, <3>3 DEF MergeStep
      <4>2. QED BY <2>1, <2>2, <2>5, <3>3, <4>1
    <3>4. CASE D(s).operator = "+="
      <4>1. MergeStep(so, s, name, host) = [so EXCEPT !.merged = Lighttpd!Joined(so.merged, D(s))]
        BY <1>2, <3>1, <3>4 DEF MergeStep
      <4>2. PICK joined : joined = Lighttpd!Joined(so.merged, D(s))
        OBVIOUS
      <4>3. [so EXCEPT !.merged = joined] = [merged |-> joined, accumulators |-> so.accumulators]
        BY <2>3
      <4>4. upto[s] = [merged |-> joined, accumulators |-> so.accumulators]
        BY <2>1, <2>2, <4>1, <4>2, <4>3
      <4>5. QED BY <2>2, <2>5, <3>4, <4>2, <4>4
    <3>5. QED BY <3>2, <3>3, <3>4 DEF VocabularyAssumption
  <2>6. QED BY <2>4, <2>5
<1> DEFINE H == {s \in 0 .. N : Full(upto[s])}
<1>5. \A s \in 0 .. N : s \in H
  <2>1. 0 \in H
    BY <1>1, <1>3
  <2>2. \A s \in 0 .. N - 1 : s \in H => s + 1 \in H
    <3> SUFFICES ASSUME NEW s \in 0 .. N - 1, s \in H PROVE s + 1 \in H
      OBVIOUS
    <3>1. s + 1 \in DOMAIN conditionals /\ s + 1 \in 0 .. N /\ (s + 1) - 1 = s
      BY <1>1
    <3>2. Full(upto[s + 1])
      BY <1>4, <3>1
    <3>3. QED BY <3>1, <3>2
  <2> SUFFICES ASSUME NEW s \in 0 .. N PROVE s \in H
    OBVIOUS
  <2>3. s \in Nat /\ \A i \in 0 .. s - 1 : i \in 0 .. N - 1
    BY <1>1
  <2> HIDE DEF H
  <2>4. QED BY <2>1, <2>2, <2>3, UpTo
<1> DEFINE m == [s \in 0 .. N |-> upto[s].merged]
<1>6. m[0] = Lighttpd!Global(name) /\ m[N] = Lighttpd!Merged(name, host)
  <2>1. 0 \in 0 .. N /\ N \in 0 .. N
    BY <1>1
  <2>2. upto[0].merged = Lighttpd!Global(name)
    BY <1>3
  <2>3. QED BY <1>3, <2>1, <2>2
<1>7. \A s \in DOMAIN conditionals :
          m[s] = IF ~ScopeIsMet(s, name, host) THEN m[s - 1]
                 ELSE IF D(s).operator = "=" THEN D(s) ELSE Lighttpd!Joined(m[s - 1], D(s))
  <2> SUFFICES ASSUME NEW s \in DOMAIN conditionals
               PROVE  m[s] = IF ~ScopeIsMet(s, name, host) THEN m[s - 1]
                             ELSE IF D(s).operator = "=" THEN D(s) ELSE Lighttpd!Joined(m[s - 1], D(s))
    OBVIOUS
  <2>1. s \in 0 .. N /\ s - 1 \in 0 .. N
    BY <1>1
  <2>2. m[s] = upto[s].merged /\ m[s - 1] = upto[s - 1].merged
    BY <2>1
  <2> HIDE DEF m
  <2>3. Full(upto[s - 1])
    BY <1>5, <2>1
  <2>4. QED BY <1>4, <2>2, <2>3
<1> HIDE DEF m
<1>8. QED BY <1>6, <1>7

\* Joining two values brings in no other statement.
LEMMA ElementsOfBoth ==
    ASSUME NEW v \in Seq(Nat), NEW w \in Seq(Nat)
    PROVE  v \o w \in Seq(Nat) /\ Lighttpd!ToSet(v \o w) \subseteq Lighttpd!ToSet(v) \cup Lighttpd!ToSet(w)
<1>1. v \o w \in Seq(Nat) /\ Len(v \o w) = Len(v) + Len(w)
  OBVIOUS
<1>2. \A i \in 1 .. Len(v) + Len(w) :
          (v \o w)[i] = IF i =< Len(v) THEN v[i] ELSE w[i - Len(v)]
  OBVIOUS
<1> SUFFICES ASSUME NEW x \in Lighttpd!ToSet(v \o w)
             PROVE  x \in Lighttpd!ToSet(v) \cup Lighttpd!ToSet(w)
  BY <1>1
<1>3. PICK i \in 1 .. Len(v) + Len(w) : x = (v \o w)[i]
  BY <1>1 DEF Lighttpd!ToSet
<1>4. CASE i =< Len(v)
  <2>1. i \in DOMAIN v /\ x = v[i]
    BY <1>2, <1>3, <1>4
  <2>2. QED BY <2>1 DEF Lighttpd!ToSet
<1>5. CASE ~(i =< Len(v))
  <2>1. i - Len(v) \in DOMAIN w /\ x = w[i - Len(v)]
    BY <1>2, <1>3, <1>5
  <2>2. QED BY <2>1 DEF Lighttpd!ToSet
<1>6. QED BY <1>4, <1>5

\* Statement i is said globally, or in a block whose scope matches the host.
StatementIsMet(i, host) ==
    /\ i \in DOMAIN statements
    /\ statements[i].in # 0 =>
           \E s \in DOMAIN conditionals : /\ conditionals[s].block = statements[i].in
                                          /\ Lighttpd!ScopeMatches(conditionals[s], host)

\* Every statement in a merged value is of that name and said where the host may be.
LEMMA MergedIsMet ==
    ASSUME LighttpdInv, VocabularyAssumption, NEW name, NEW host \in Hosts,
           NEW i \in Lighttpd!ToSet(Lighttpd!Merged(name, host).value)
    PROVE  StatementIsMet(i, host) /\ statements[i].name = name
<1> DEFINE N == Len(conditionals)
           D(s) == conditionals[s].directives[name]
           M(j) == StatementIsMet(j, host) /\ statements[j].name = name
           Good(v) == v \in Seq(Nat) /\ \A j \in Lighttpd!ToSet(v) : M(j)
<1>1. N \in Nat /\ DOMAIN conditionals = 1 .. N
  BY DEF LighttpdInv, LighttpdTypeOK
<1>2. PICK m : /\ m[0] = Lighttpd!Global(name)
               /\ \A s \in DOMAIN conditionals :
                      m[s] = IF ~ScopeIsMet(s, name, host) THEN m[s - 1]
                             ELSE IF D(s).operator = "=" THEN D(s) ELSE Lighttpd!Joined(m[s - 1], D(s))
               /\ Lighttpd!Merged(name, host) = m[N]
  BY MergedOfHost
<1>3. Good(Lighttpd!Global(name).value)
  <2>1. CASE name \in DOMAIN globals
    <3>1. Lighttpd!Global(name) = globals[name]
      BY <2>1 DEF Lighttpd!Global
    <3>2. globals \in Said /\ Heard(statements, globals, 0)
      BY DEF LighttpdInv, LighttpdTypeOK, StatementsStand
    <3>3. globals[name].value \in Seq(Nat)
      BY <2>1, <3>2, SaidIs
    <3>4. \A j \in Lighttpd!ToSet(globals[name].value) :
              j \in DOMAIN statements /\ statements[j].name = name /\ statements[j].in = 0
      BY <2>1, <3>2 DEF Heard
    <3>5. QED BY <3>1, <3>3, <3>4 DEF StatementIsMet
  <2>2. CASE name \notin DOMAIN globals
    <3>1. Lighttpd!Global(name).value = <<>>
      BY <2>2 DEF Lighttpd!Global, Lighttpd!Absent
    <3>2. QED BY <3>1 DEF Lighttpd!ToSet
  <2>3. QED BY <2>1, <2>2
<1>4. ASSUME NEW s \in DOMAIN conditionals, ScopeIsMet(s, name, host)
      PROVE  D(s) \in Directive /\ Good(D(s).value)
  <2>1. conditionals[s].directives \in Said /\ name \in DOMAIN conditionals[s].directives
    BY <1>4, ConditionalIs DEF LighttpdInv, ScopeIsMet
  <2>2. D(s) \in Directive /\ D(s).value \in Seq(Nat)
    BY <2>1, SaidIs
  <2>3. Heard(statements, conditionals[s].directives, conditionals[s].block)
    BY DEF LighttpdInv, StatementsStand
  <2>4. \A j \in Lighttpd!ToSet(D(s).value) :
            /\ j \in DOMAIN statements /\ statements[j].name = name
            /\ statements[j].in = conditionals[s].block
    BY <2>1, <2>3 DEF Heard
  <2>5. Lighttpd!ScopeMatches(conditionals[s], host)
    BY <1>4 DEF ScopeIsMet
  <2>6. QED BY <2>2, <2>4, <2>5 DEF StatementIsMet
<1> HIDE DEF M
<1>5. ASSUME NEW s \in DOMAIN conditionals, Good(m[s - 1].value) PROVE Good(m[s].value)
  <2>1. CASE ~ScopeIsMet(s, name, host)
    BY <1>2, <1>5, <2>1
  <2>2. CASE ScopeIsMet(s, name, host) /\ D(s).operator = "="
    <3>1. m[s] = D(s)
      BY <1>2, <2>2
    <3>2. Good(D(s).value)
      BY <1>4, <2>2
    <3>3. QED BY <3>1, <3>2
  <2>3. CASE ScopeIsMet(s, name, host) /\ D(s).operator # "="
    <3>1. m[s] = Lighttpd!Joined(m[s - 1], D(s))
      BY <1>2, <2>3
    <3>2. D(s) \in Directive /\ Good(D(s).value)
      BY <1>4, <2>3, SMTT(60)
    <3>3. m[s].value = m[s - 1].value \o D(s).value
      BY <3>1, <3>2 DEF Lighttpd!Joined, Lighttpd!MergeAppend, Directive
    <3>4. PICK v, w : v = m[s - 1].value /\ w = D(s).value
      OBVIOUS
    <3>5. v \o w \in Seq(Nat) /\ Lighttpd!ToSet(v \o w) \subseteq Lighttpd!ToSet(v) \cup Lighttpd!ToSet(w)
      BY <1>5, <3>2, <3>4, ElementsOfBoth
    <3>6. QED BY <1>5, <3>2, <3>3, <3>4, <3>5
  <2>4. QED BY <2>1, <2>2, <2>3
<1> DEFINE H == {s \in 0 .. N : Good(m[s].value)}
<1>6. N \in H
  <2> HIDE DEF Good
  <2>1. 0 \in H
    BY <1>1, <1>2, <1>3
  <2>2. \A s \in 0 .. N - 1 : s \in H => s + 1 \in H
    <3> SUFFICES ASSUME NEW s \in 0 .. N - 1, s \in H PROVE s + 1 \in H
      OBVIOUS
    <3>1. s + 1 \in DOMAIN conditionals /\ s + 1 \in 0 .. N /\ (s + 1) - 1 = s
      BY <1>1
    <3>2. Good(m[s + 1].value)
      BY <1>5, <3>1
    <3>3. QED BY <3>1, <3>2
  <2> HIDE DEF H
  <2>3. QED BY <1>1, <2>1, <2>2, UpTo
<1>7. Good(Lighttpd!Merged(name, host).value)
  BY <1>2, <1>6
<1>8. QED BY <1>7 DEF M

\* MergedIsPossible holds wherever the invariant does.
LEMMA MergedIsPossibleIn ==
    ASSUME LighttpdInv, VocabularyAssumption
    PROVE  Lighttpd!MergedIsPossible
<1> SUFFICES ASSUME Lighttpd!IfsOnly(Lighttpd!Nested \cup Lighttpd!Parents),
                    NEW name \in Lighttpd!Names, NEW host \in Hosts, Lighttpd!Live(name),
                    NEW i \in Lighttpd!ToSet(Lighttpd!Merged(name, host).value)
             PROVE  \E request \in Lighttpd!Requests :
                        request["host"] = host /\ Lighttpd!Active(statements[i].in, request)
  BY DEF Lighttpd!MergedIsPossible
<1>1. StatementIsMet(i, host) /\ statements[i].name = name
  BY MergedIsMet
<1>2. PICK request \in Lighttpd!Requests : Lighttpd!Active(statements[i].in, request)
  BY <1>1 DEF Lighttpd!Live, Lighttpd!Together, StatementIsMet
<1>3. PICK there : there = [request EXCEPT !["host"] = host]
  OBVIOUS
<1>4. there \in Lighttpd!Requests /\ there["host"] = host
  BY <1>3 DEF Lighttpd!Requests
<1>5. CASE statements[i].in = 0
  <2>1. Lighttpd!Active(0, there)
    BY ActiveIs
  <2>2. QED BY <1>4, <1>5, <2>1
<1>6. CASE statements[i].in # 0
  <2>1. PICK s \in DOMAIN conditionals : /\ conditionals[s].block = statements[i].in
                                         /\ Lighttpd!ScopeMatches(conditionals[s], host)
    BY <1>1, <1>6 DEF StatementIsMet
  <2>2. Lighttpd!Active(conditionals[s].block, there)
    BY <1>2, <1>3, <2>1, PossibleScopes
  <2>3. QED BY <1>4, <2>1, <2>2
<1>7. QED BY <1>5, <1>6

-----------------------------------------------------------------------------
(* What is in force for a request where every directive replaces what is said before. *)

ReplacingAssumption == Operators \subseteq {"="}

Mentions(i, name, b) == statements[i].name = name /\ statements[i].in = b

\* Of the first n statements, v is the last one of the name in block b, if there is one.
LatestOf(n, name, b, v) ==
    \/ v = <<>> /\ \A i \in 1 .. n : ~Mentions(i, name, b)
    \/ \E k \in 1 .. n : v = <<k>> /\ Mentions(k, name, b)
                         /\ \A i \in 1 .. n : Mentions(i, name, b) => i =< k

\* There is only one such value.
LEMMA LatestIsOne ==
    ASSUME NEW n \in Nat, NEW name, NEW b, NEW v, NEW w,
           LatestOf(n, name, b, v), LatestOf(n, name, b, w)
    PROVE  v = w
<1>1. CASE \A i \in 1 .. n : ~Mentions(i, name, b)
  BY <1>1 DEF LatestOf
<1>2. CASE ~(\A i \in 1 .. n : ~Mentions(i, name, b))
  <2>1. PICK k \in 1 .. n : v = <<k>> /\ Mentions(k, name, b)
                            /\ \A i \in 1 .. n : Mentions(i, name, b) => i =< k
    BY <1>2 DEF LatestOf
  <2>2. PICK l \in 1 .. n : w = <<l>> /\ Mentions(l, name, b)
                            /\ \A i \in 1 .. n : Mentions(i, name, b) => i =< l
    BY <1>2 DEF LatestOf
  <2>3. k =< l /\ l =< k
    BY <2>1, <2>2
  <2>4. k = l
    BY <2>3
  <2>5. QED BY <2>1, <2>2, <2>4
<1>3. QED BY <1>1, <1>2

\* Every statement is read in a block that is there.
LEMMA StatementIs ==
    ASSUME LighttpdInv, NEW i \in DOMAIN statements
    PROVE  /\ statements[i].operator \in Operators /\ statements[i].in \in Nat
           /\ statements[i].in \in Lighttpd!Blocks \cup {0}
<1>1. statements[i] \in Statement
  BY DEF LighttpdInv, LighttpdTypeOK
<1>2. statements[i].operator \in Operators /\ statements[i].in \in Nat
  BY <1>1 DEF Statement
<1>3. ASSUME statements[i].in # 0 PROVE statements[i].in \in Lighttpd!Blocks
  <2>1. PICK s \in DOMAIN conditionals : conditionals[s].block = statements[i].in
    BY <1>3 DEF LighttpdInv, StatementsStand
  <2>2. Situated(conditionals, branches, conditionals[s])
    BY DEF LighttpdInv, ScopesStand
  <2>3. QED BY <2>1, <2>2 DEF Situated, Lighttpd!Blocks
<1>4. QED BY <1>2, <1>3

\* What lighttpd has read in a block is the last statement in it.
LEMMA ParsedIsLatest ==
    ASSUME LighttpdInv, ReplacingAssumption, NEW name, NEW b \in Lighttpd!Blocks \cup {0}
    PROVE  LatestOf(Len(statements), name, b, Lighttpd!Parsed(name)[b])
<1> DEFINE N == Len(statements)
           There == Lighttpd!Blocks \cup {0}
<1>1. N \in Nat /\ DOMAIN statements = 1 .. N
  BY DEF LighttpdInv, LighttpdTypeOK
<1>2. PICK own : /\ own[0] = [c \in There |-> <<>>]
                 /\ \A i \in DOMAIN statements : own[i] = ParseStep(own[i - 1], i, name)
                 /\ Lighttpd!Parsed(name) = own[N]
  BY ParsedIs
<1> HIDE DEF There
<1> DEFINE Stands(i) == own[i] = [c \in There |-> own[i][c]] /\ LatestOf(i, name, b, own[i][b])
           H == {i \in 0 .. N : Stands(i)}
<1>3. 0 \in H
  <2>1. own[0] = [c \in There |-> own[0][c]] /\ own[0][b] = <<>>
    BY <1>2 DEF There
  <2>2. LatestOf(0, name, b, own[0][b])
    BY <2>1 DEF LatestOf
  <2>3. QED BY <1>1, <2>1, <2>2
<1>4. \A i \in 0 .. N - 1 : i \in H => i + 1 \in H
  <2> SUFFICES ASSUME NEW i \in 0 .. N - 1, i \in H PROVE i + 1 \in H
    OBVIOUS
  <2>1. PICK j : j = i + 1
    OBVIOUS
  <2>2. j \in DOMAIN statements /\ j \in 0 .. N /\ j - 1 = i /\ i \in Nat /\ 1 .. j = (1 .. i) \cup {j}
    BY <1>1, <2>1
  <2>3. PICK before : before = own[i]
    OBVIOUS
  <2>4. before = [c \in There |-> before[c]] /\ LatestOf(i, name, b, before[b])
    BY <2>3
  <2>5. own[j] = ParseStep(before, j, name)
    BY <1>2, <2>2, <2>3
  <2>6. statements[j].operator = "=" /\ statements[j].in \in There
    BY <2>2, StatementIs DEF ReplacingAssumption, There
  <2>7. own[j] = IF statements[j].name # name THEN before
                 ELSE [before EXCEPT ![statements[j].in] = <<j>>]
    BY <2>5, <2>6 DEF ParseStep
  <2>8. own[j] = [c \in There |-> own[j][c]]
        /\ own[j][b] = IF Mentions(j, name, b) THEN <<j>> ELSE before[b]
    BY <2>4, <2>6, <2>7 DEF Mentions, There
  <2>9. CASE Mentions(j, name, b)
    <3>1. \A k \in 1 .. j : k =< j
      BY <2>2
    <3>2. j \in 1 .. j
      BY <2>2
    <3>3. own[j][b] = <<j>>
      BY <2>8, <2>9
    <3>4. LatestOf(j, name, b, own[j][b])
      BY <2>9, <3>1, <3>2, <3>3 DEF LatestOf
    <3>5. QED BY <2>1, <2>2, <2>8, <3>4
  <2>10. CASE ~Mentions(j, name, b)
    <3>1. own[j][b] = before[b]
      BY <2>8, <2>10
    <3>2. LatestOf(j, name, b, before[b])
      BY <2>2, <2>4, <2>10 DEF LatestOf
    <3>3. QED BY <2>1, <2>2, <2>8, <3>1, <3>2
  <2>11. QED BY <2>9, <2>10
<1>5. N \in H
  <2> HIDE DEF H
  <2>1. QED BY <1>1, <1>3, <1>4, UpTo
<1>6. QED BY <1>2, <1>5

\* The value of a name in the directives of a block, if it is said there.
ValueIn(ds, name) == IF name \in DOMAIN ds THEN ds[name].value ELSE <<>>

\* Of directives that stand for all that is said in a block, the value is the last statement.
LEMMA HeardIsLatest ==
    ASSUME LighttpdInv, ReplacingAssumption, NEW name, NEW b, NEW ds \in Said,
           Heard(statements, ds, b),
           \A i \in DOMAIN statements : statements[i].in = b => Kept(ds, statements[i].name, i)
    PROVE  LatestOf(Len(statements), name, b, ValueIn(ds, name))
<1> DEFINE N == Len(statements)
<1>1. N \in Nat /\ DOMAIN statements = 1 .. N
  BY DEF LighttpdInv, LighttpdTypeOK
<1>2. \A i \in 1 .. N : Mentions(i, name, b) => Kept(ds, name, i)
  BY <1>1 DEF Mentions
<1>3. CASE name \notin DOMAIN ds
  <2>1. \A i \in 1 .. N : ~Mentions(i, name, b)
    BY <1>2, <1>3 DEF Kept
  <2>2. QED BY <1>3, <2>1 DEF LatestOf, ValueIn
<1>4. CASE name \in DOMAIN ds
  <2>1. PICK v : v = ds[name].value
    OBVIOUS
  <2>2. v \in Seq(Nat) /\ ds[name].operator = "="
    BY <1>4, <2>1, SaidIs DEF ReplacingAssumption
  <2>3. Len(v) = 1 /\ \A i \in Lighttpd!ToSet(v) :
                          i \in DOMAIN statements /\ statements[i].name = name /\ statements[i].in = b
    BY <1>4, <2>1, <2>2 DEF Heard
  <2>4. PICK k : k = v[1]
    OBVIOUS
  <2>5. v = <<k>>
    BY <2>2, <2>3, <2>4
  <2>6. k \in Lighttpd!ToSet(v)
    BY <2>5 DEF Lighttpd!ToSet
  <2>7. k \in 1 .. N /\ Mentions(k, name, b)
    BY <1>1, <2>3, <2>6 DEF Mentions
  <2>8. \A i \in 1 .. N : Mentions(i, name, b) => i =< k
    BY <1>2, <2>1, <2>3, <2>4 DEF Kept
  <2>9. QED BY <1>4, <2>1, <2>5, <2>7, <2>8 DEF LatestOf, ValueIn
<1>5. QED BY <1>3, <1>4

\* The globals say what is parsed outside of all blocks.
LEMMA GlobalIsParsed ==
    ASSUME LighttpdInv, ReplacingAssumption, NEW name
    PROVE  Lighttpd!Global(name).value = Lighttpd!Parsed(name)[0]
<1> DEFINE N == Len(statements)
<1>1. N \in Nat
  BY DEF LighttpdInv, LighttpdTypeOK
<1>2. /\ globals \in Said /\ Heard(statements, globals, 0)
      /\ \A i \in DOMAIN statements : statements[i].in = 0 => Kept(globals, statements[i].name, i)
  BY DEF LighttpdInv, LighttpdTypeOK, StatementsStand
<1>3. LatestOf(N, name, 0, ValueIn(globals, name))
  BY <1>2, HeardIsLatest
<1>4. LatestOf(N, name, 0, Lighttpd!Parsed(name)[0])
  BY ParsedIsLatest
<1>5. ValueIn(globals, name) = Lighttpd!Parsed(name)[0]
  BY <1>1, <1>3, <1>4, LatestIsOne
<1>6. Lighttpd!Global(name).value = ValueIn(globals, name)
  BY DEF Lighttpd!Global, Lighttpd!Absent, ValueIn
<1>7. QED BY <1>5, <1>6

\* And the scope of a block that does not go on what is parsed in it.
LEMMA ScopeIsParsed ==
    ASSUME LighttpdInv, ReplacingAssumption, Lighttpd!InOrder, NEW name, NEW s \in DOMAIN conditionals
    PROVE  ValueIn(conditionals[s].directives, name) = Lighttpd!Parsed(name)[conditionals[s].block]
<1> DEFINE N == Len(statements)
           b == conditionals[s].block
           ds == conditionals[s].directives
<1>1. N \in Nat /\ DOMAIN conditionals \subseteq Nat
  BY DEF LighttpdInv, LighttpdTypeOK
<1>2. b \in DOMAIN branches /\ b \in Nat /\ b # 0
  <2>1. Situated(conditionals, branches, conditionals[s])
    BY DEF LighttpdInv, ScopesStand
  <2>2. QED BY <2>1 DEF Situated, LighttpdInv, LighttpdTypeOK
<1>3. ds \in Said /\ Heard(statements, ds, b)
  BY ConditionalIs DEF LighttpdInv, StatementsStand
<1>4. \A t \in DOMAIN conditionals : conditionals[t].block = b => t = s
  <2> SUFFICES ASSUME NEW t \in DOMAIN conditionals, conditionals[t].block = b, t # s PROVE FALSE
    OBVIOUS
  <2>1. t < s \/ s < t
    BY <1>1
  <2>2. QED BY <1>2, <2>1 DEF Lighttpd!InOrder
<1>5. \A i \in DOMAIN statements : statements[i].in = b => Kept(ds, statements[i].name, i)
  BY <1>2, <1>4 DEF LighttpdInv, StatementsStand
<1>6. LatestOf(N, name, b, ValueIn(ds, name))
  BY <1>3, <1>5, HeardIsLatest
<1>7. LatestOf(N, name, b, Lighttpd!Parsed(name)[b])
  BY <1>2, ParsedIsLatest DEF Lighttpd!Blocks
<1>8. QED BY <1>1, <1>6, <1>7, LatestIsOne

\* Merging for a host comes to the last scope that is met, or to the globals.
LEMMA MergedIsLast ==
    ASSUME LighttpdInv, VocabularyAssumption, ReplacingAssumption, NEW name, NEW host \in Hosts
    PROVE  LET merged == Lighttpd!Merged(name, host)
           IN \/ /\ \A s \in DOMAIN conditionals : ~ScopeIsMet(s, name, host)
                 /\ merged = Lighttpd!Global(name)
              \/ \E t \in DOMAIN conditionals :
                     /\ ScopeIsMet(t, name, host) /\ merged = conditionals[t].directives[name]
                     /\ \A s \in DOMAIN conditionals : ScopeIsMet(s, name, host) => s =< t
<1> DEFINE N == Len(conditionals)
           D(s) == conditionals[s].directives[name]
           M(s) == ScopeIsMet(s, name, host)
<1>1. N \in Nat /\ DOMAIN conditionals = 1 .. N
  BY DEF LighttpdInv, LighttpdTypeOK
<1>2. PICK m : /\ m[0] = Lighttpd!Global(name)
               /\ \A s \in DOMAIN conditionals :
                      m[s] = IF ~M(s) THEN m[s - 1]
                             ELSE IF D(s).operator = "=" THEN D(s) ELSE Lighttpd!Joined(m[s - 1], D(s))
               /\ Lighttpd!Merged(name, host) = m[N]
  BY MergedOfHost
<1>3. \A s \in DOMAIN conditionals : M(s) => D(s).operator = "="
  <2> SUFFICES ASSUME NEW s \in DOMAIN conditionals, M(s) PROVE D(s).operator = "="
    OBVIOUS
  <2>1. conditionals[s].directives \in Said /\ name \in DOMAIN conditionals[s].directives
    BY ConditionalIs DEF LighttpdInv, ScopeIsMet
  <2>2. QED BY <2>1, SaidIs DEF ReplacingAssumption
<1> HIDE DEF M
<1>4. \A s \in DOMAIN conditionals : m[s] = IF M(s) THEN D(s) ELSE m[s - 1]
  BY <1>2, <1>3
<1> DEFINE Stands(n) ==
               \/ (\A s \in 1 .. n : ~M(s)) /\ m[n] = Lighttpd!Global(name)
               \/ \E t \in 1 .. n : M(t) /\ m[n] = D(t) /\ \A s \in 1 .. n : M(s) => s =< t
           H == {n \in 0 .. N : Stands(n)}
<1>5. 0 \in H
  BY <1>1, <1>2
<1>6. \A n \in 0 .. N - 1 : n \in H => n + 1 \in H
  <2> SUFFICES ASSUME NEW n \in 0 .. N - 1, n \in H PROVE n + 1 \in H
    OBVIOUS
  <2>1. PICK j : j = n + 1
    OBVIOUS
  <2>2. j \in 1 .. N /\ j \in 0 .. N /\ n = j - 1 /\ j \in 1 .. j /\ 1 .. j = (1 .. n) \cup {j}
    BY <1>1, <2>1
  <2>3. Stands(n)
    OBVIOUS
  <2>4. m[j] = IF M(j) THEN D(j) ELSE m[n]
    BY <1>1, <1>4, <2>2
  <2>5. CASE M(j)
    <3>1. \A s \in 1 .. j : s =< j
      BY <2>2
    <3>2. M(j) /\ m[j] = D(j)
      BY <2>4, <2>5
    <3> HIDE DEF D
    <3>3. Stands(j)
      BY <2>2, <3>1, <3>2
    <3>4. QED BY <2>1, <2>2, <3>3
  <2>6. CASE ~M(j)
    <3>1. m[j] = m[n] /\ ~M(j)
      BY <2>4, <2>6
    <3> HIDE DEF D
    <3>2. Stands(j)
      BY <2>2, <2>3, <3>1
    <3>3. QED BY <2>1, <2>2, <3>2
  <2>7. QED BY <2>5, <2>6
<1>7. N \in H
  <2> HIDE DEF H
  <2>1. QED BY <1>1, <1>5, <1>6, UpTo
<1>8. Stands(N)
  BY <1>7
<1>9. QED BY <1>1, <1>2, <1>8 DEF M

\* What lighttpd has in force is what the active block opened last says.
LEMMA LastOpenedIsInForce ==
    ASSUME LighttpdInv, NEW name, NEW request, NEW b \in Lighttpd!Blocks \cup {0},
           b # 0 => Lighttpd!Active(b, request) /\ Lighttpd!Parsed(name)[b] # <<>>,
           \A c \in Lighttpd!Blocks :
               Lighttpd!Active(c, request) /\ Lighttpd!Parsed(name)[c] # <<>> => c =< b
    PROVE  Lighttpd!InForce(name, request) = Lighttpd!Parsed(name)[b]
<1> DEFINE values == Lighttpd!Parsed(name)
           T == {0} \cup {c \in Lighttpd!Blocks : Lighttpd!Active(c, request) /\ values[c] # <<>>}
<1>1. Lighttpd!Blocks \subseteq Nat /\ b \in Nat
  BY DEF LighttpdInv, LighttpdTypeOK, Lighttpd!Blocks
<1>2. Lighttpd!InForce(name, request) = values[Lighttpd!Max(T)]
  BY DEF Lighttpd!InForce
<1>3. b \in T /\ T \subseteq Nat /\ \A c \in T : c =< b
  <2>1. \A c : c \in T <=> c = 0 \/ (c \in Lighttpd!Blocks /\ Lighttpd!Active(c, request) /\ values[c] # <<>>)
    BY Zenon
  <2> HIDE DEF T
  <2>2. b \in T
    BY <2>1
  <2>3. T \subseteq Nat
    <3>1. \A c \in T : c = 0 \/ c \in Lighttpd!Blocks
      BY <2>1, Zenon
    <3>2. \A c \in T : c \in Nat
      <4> SUFFICES ASSUME NEW c \in T PROVE c \in Nat
        OBVIOUS
      <4>1. c = 0 \/ c \in Lighttpd!Blocks
        BY <3>1
      <4>2. 0 \in Nat
        OBVIOUS
      <4>3. QED BY <1>1, <4>1, <4>2, Zenon
    <3>3. QED BY <3>2, Zenon
  <2>4. \A c \in T : c = 0 \/ c =< b
    BY <2>1
  <2>5. 0 =< b
    BY <1>1
  <2>6. QED BY <2>2, <2>3, <2>4, <2>5
<1> HIDE DEF T
<1>4. Lighttpd!Max(T) = b
  <2>1. \A x \in T : (\A c \in T : x >= c) => x = b
    BY <1>1, <1>3
  <2>2. \A c \in T : b >= c
    BY <1>1, <1>3
  <2>3. QED BY <1>3, <2>1, <2>2 DEF Lighttpd!Max
<1>5. QED BY <1>2, <1>4

\* The view of a host says of any directive what is in force for requests to it.
LEMMA HostValueIsInForce ==
    ASSUME LighttpdInv, VocabularyAssumption, ReplacingAssumption, \A c \in Conditions : c.variable = "host",
           Lighttpd!InOrder, Lighttpd!IfsOnly(Lighttpd!Parents), NEW name, NEW request \in Lighttpd!Requests
    PROVE  Lighttpd!Merged(name, request["host"]).value = Lighttpd!InForce(name, request)
<1> DEFINE values == Lighttpd!Parsed(name)
           A(b) == Lighttpd!Active(b, request)
           Block(s) == conditionals[s].block
<1>1. PICK host : host = request["host"]
  OBVIOUS
<1>2. host \in Hosts
  BY <1>1 DEF Lighttpd!Requests
<1>3. DOMAIN conditionals \subseteq Nat /\ \A s \in DOMAIN conditionals : Block(s) \in Nat
  BY ConditionalIs DEF LighttpdInv, LighttpdTypeOK
<1>4. \A s \in DOMAIN conditionals : Block(s) \in Lighttpd!Blocks
  BY DEF LighttpdInv, ScopesStand, Situated, Lighttpd!Blocks
<1>5. \A s \in DOMAIN conditionals : ScopeIsMet(s, name, host) <=> A(Block(s)) /\ values[Block(s)] # <<>>
  <2> SUFFICES ASSUME NEW s \in DOMAIN conditionals
               PROVE  ScopeIsMet(s, name, host) <=> A(Block(s)) /\ values[Block(s)] # <<>>
    OBVIOUS
  <2>1. Lighttpd!ScopeMatches(conditionals[s], host) <=> A(Block(s))
    BY <1>1, <1>2, HostScopes
  <2>2. ValueIn(conditionals[s].directives, name) = values[Block(s)]
    BY ScopeIsParsed
  <2>3. name \in DOMAIN conditionals[s].directives <=> ValueIn(conditionals[s].directives, name) # <<>>
    BY DEF ValueIn, LighttpdInv, StatementsStand, Heard
  <2>4. QED BY <2>1, <2>2, <2>3 DEF ScopeIsMet
<1>6. \A b \in Lighttpd!Blocks : \E s \in DOMAIN conditionals : Block(s) = b
  BY DEF LighttpdInv, ScopesStand, Lighttpd!Blocks
<1>7. \A s, t \in DOMAIN conditionals : s =< t => Block(s) =< Block(t)
  <2> SUFFICES ASSUME NEW s \in DOMAIN conditionals, NEW t \in DOMAIN conditionals, s =< t
               PROVE  Block(s) =< Block(t)
    OBVIOUS
  <2>1. s = t \/ s < t
    BY <1>3
  <2>2. QED BY <1>3, <2>1 DEF Lighttpd!InOrder
<1>8. CASE /\ \A s \in DOMAIN conditionals : ~ScopeIsMet(s, name, host)
           /\ Lighttpd!Merged(name, host) = Lighttpd!Global(name)
  <2>1. \A c \in Lighttpd!Blocks : ~(A(c) /\ values[c] # <<>>)
    BY <1>5, <1>6, <1>8
  <2>2. Lighttpd!InForce(name, request) = values[0]
    BY <2>1, LastOpenedIsInForce
  <2>3. Lighttpd!Global(name).value = values[0]
    BY GlobalIsParsed
  <2>4. QED BY <1>1, <1>8, <2>2, <2>3
<1>9. ASSUME NEW t \in DOMAIN conditionals, ScopeIsMet(t, name, host),
             Lighttpd!Merged(name, host) = conditionals[t].directives[name],
             \A s \in DOMAIN conditionals : ScopeIsMet(s, name, host) => s =< t
      PROVE  Lighttpd!Merged(name, host).value = Lighttpd!InForce(name, request)
  <2>1. PICK b : b = Block(t)
    OBVIOUS
  <2>2. b \in Lighttpd!Blocks /\ A(b) /\ values[b] # <<>>
    BY <1>4, <1>5, <1>9, <2>1
  <2>3. \A c \in Lighttpd!Blocks : A(c) /\ values[c] # <<>> => c =< b
    BY <1>5, <1>6, <1>7, <1>9, <2>1
  <2>4. Lighttpd!InForce(name, request) = values[b]
    BY <2>2, <2>3, LastOpenedIsInForce
  <2>5. ValueIn(conditionals[t].directives, name) = values[b]
    BY <2>1, ScopeIsParsed
  <2>6. ValueIn(conditionals[t].directives, name) = conditionals[t].directives[name].value
    BY <1>9 DEF ValueIn, ScopeIsMet
  <2>7. QED BY <1>9, <2>4, <2>5, <2>6
<1>10. QED BY <1>1, <1>2, <1>8, <1>9, MergedIsLast

\* MergedIsInForce holds wherever the invariant does.
LEMMA MergedIsInForceIn ==
    ASSUME LighttpdInv, VocabularyAssumption, ReplacingAssumption, \A c \in Conditions : c.variable = "host"
    PROVE  Lighttpd!MergedIsInForce
BY HostValueIsInForce DEF Lighttpd!MergedIsInForce

-----------------------------------------------------------------------------
\* Whatever a lighttpd configuration says and asks, and in whatever order it is read, the
\* view of a host (merge_conditional_scopes) says nothing that is only met by requests to
\* other hosts, as far as its chains of branches do not nest.
THEOREM LighttpdMergedIsPossible ==
    ASSUME VocabularyAssumption
    PROVE  Lighttpd!Spec => []Lighttpd!MergedIsPossible
<1>1. Lighttpd!Init => LighttpdInv
  BY LighttpdInitInv
<1>2. LighttpdInv /\ [Lighttpd!Next]_(Lighttpd!vars) => LighttpdInv'
  BY LighttpdNextInv
<1>3. LighttpdInv => Lighttpd!MergedIsPossible
  BY MergedIsPossibleIn
<1>4. QED BY <1>1, <1>2, <1>3, PTL DEF Lighttpd!Spec

\* Where blocks ask for the host only and each directive replaces what is said before, the
\* view of a host is exactly what lighttpd has in force for every request to it, as far as
\* blocks nest in an `if` and do not go on after a nested one.
THEOREM LighttpdMergedIsInForce ==
    ASSUME VocabularyAssumption, ReplacingAssumption, \A c \in Conditions : c.variable = "host"
    PROVE  Lighttpd!Spec => []Lighttpd!MergedIsInForce
<1>1. Lighttpd!Init => LighttpdInv
  BY LighttpdInitInv
<1>2. LighttpdInv /\ [Lighttpd!Next]_(Lighttpd!vars) => LighttpdInv'
  BY LighttpdNextInv
<1>3. LighttpdInv => Lighttpd!MergedIsInForce
  BY MergedIsInForceIn
<1>4. QED BY <1>1, <1>2, <1>3, PTL DEF Lighttpd!Spec

-----------------------------------------------------------------------------
(***************************************************************************)
(* The rules.  A rule looks at what a directive says, and whether it is    *)
(* there at all: not at where it is said, or how.  What a request meets of *)
(* the names that a rule looks at is what the file says, or a scope itself *)
(* or with what is around it, which is what the rules are asked of.        *)
(***************************************************************************)
SaySame(d, e) == d.value = e.value /\ (d = Lighttpd!Absent <=> e = Lighttpd!Absent)

\* What rules ask of a directive, now of e and in the next state of d.
AnswersSame(d, e) ==
    /\ Lighttpd!Text(d)' = Lighttpd!Text(e)
    /\ Lighttpd!On(d)' = Lighttpd!On(e)
    /\ Lighttpd!IsSet(d)' <=> Lighttpd!IsSet(e)
    /\ Lighttpd!Enabled(d)' <=> Lighttpd!Enabled(e)
    /\ \A text : Lighttpd!Is(d, text)' <=> Lighttpd!Is(e, text)
    /\ \A texts : Lighttpd!Has(d, texts)' <=> Lighttpd!Has(e, texts)
    /\ Lighttpd!TooHigh(d)' = Lighttpd!TooHigh(e)
    /\ Lighttpd!Unlimited(d)' = Lighttpd!Unlimited(e)

\* Directives that say the same are answered the same, while nothing is read.
LEMMA DirectivesAnswer ==
    ASSUME NEW d, NEW e, SaySame(d, e), statements' = statements
    PROVE  AnswersSame(d, e)
<1>1. Lighttpd!Text(d)' = Lighttpd!Text(e)
  BY DEF SaySame, Lighttpd!Text
<1>2. Lighttpd!On(d)' = Lighttpd!On(e)
  BY DEF SaySame, Lighttpd!On, Lighttpd!Absent
<1>3. Lighttpd!IsSet(d)' <=> Lighttpd!IsSet(e)
  BY DEF SaySame, Lighttpd!IsSet, Lighttpd!Absent
<1>4. \A text : Lighttpd!Is(d, text)' <=> Lighttpd!Is(e, text)
  BY <1>1 DEF SaySame, Lighttpd!Is
<1>5. Lighttpd!Enabled(d)' <=> Lighttpd!Enabled(e)
  BY <1>4 DEF Lighttpd!Enabled
<1>6. \A texts : Lighttpd!Has(d, texts)' <=> Lighttpd!Has(e, texts)
  BY <1>1 DEF Lighttpd!Has
<1>7. Lighttpd!TooHigh(d)' = Lighttpd!TooHigh(e) /\ Lighttpd!Unlimited(d)' = Lighttpd!Unlimited(e)
  BY <1>2, <1>4 DEF Lighttpd!TooHigh, Lighttpd!Unlimited, Lighttpd!When
<1>8. QED BY <1>1, <1>2, <1>3, <1>4, <1>5, <1>6, <1>7 DEF AnswersSame

\* The directives that a rule looks at.
Reads ==
    [access_log_missing |-> {Lighttpd!Modules, "accesslog.filename"},
     access_log_format_review |-> {Lighttpd!Modules, "accesslog.filename", "accesslog.format"},
     error_log_missing |-> {"server.errorlog"}, max_connections_missing |-> {"server.max-connections"},
     max_request_size_missing |-> {"server.max-request-size"},
     max_keep_alive_idle_too_high |-> {"server.max-keep-alive-idle"},
     max_read_idle_too_high |-> {"server.max-read-idle"},
     max_write_idle_too_high |-> {"server.max-write-idle"},
     max_keep_alive_requests_unlimited |-> {"server.max-keep-alive-requests"},
     max_request_size_unlimited |-> {"server.max-request-size"},
     max_request_size_too_large |-> {"server.max-request-size"},
     max_request_field_size_too_large |-> {"server.max-request-field-size"},
     missing_content_security_policy |-> {Lighttpd!Headers}, missing_x_frame_options |-> {Lighttpd!Headers},
     missing_referrer_policy |-> {Lighttpd!Headers}, missing_permissions_policy |-> {Lighttpd!Headers},
     missing_strict_transport_security |-> {Lighttpd!Headers},
     missing_x_content_type_options |-> {Lighttpd!Headers},
     content_security_policy_unsafe |-> {Lighttpd!Headers}, referrer_policy_unsafe |-> {Lighttpd!Headers},
     permissions_policy_unsafe |-> {Lighttpd!Headers}, x_frame_options_unsafe |-> {Lighttpd!Headers},
     content_security_policy_missing_frame_ancestors |-> {Lighttpd!Headers},
     strict_transport_security_unsafe |-> {Lighttpd!Headers},
     content_security_policy_missing_reporting_endpoint |-> {Lighttpd!Headers},
     auth_backend_missing |-> {"auth.require", "auth.backend"},
     auth_backend_userfile_missing |->
         {"auth.require", "auth.backend", "auth.backend.htpasswd.userfile", "auth.backend.plain.userfile"},
     basic_auth_over_http |-> {"auth.require", "ssl.engine"},
     webdav_write_access_enabled |-> {"webdav.activate", "webdav.is-readonly"},
     dir_listing_enabled |-> {"dir-listing.activate"}, server_tag_not_blank |-> {"server.tag"},
     missing_http_to_https_redirect |-> {"server.name", "server.port", Lighttpd!Modules, "url.redirect"},
     ssl_compression_enabled |-> {"ssl.engine", Lighttpd!Conf},
     ssl_insecure_renegotiation_enabled |-> {"ssl.engine", Lighttpd!Conf, "ssl.disable-client-renegotiation"},
     ssl_protocol_policy_missing_or_weak |-> Lighttpd!PolicyNames,
     tls_legacy_versions_explicitly_enabled |-> Lighttpd!PolicyNames]

\* What a view says of protocol versions.
LEMMA PolicyAnswers ==
    ASSUME NEW v, NEW w, \A name \in Lighttpd!PolicyNames : AnswersSame(v[name], w[name])
    PROVE  /\ (Lighttpd!ByFlag(v) \cup Lighttpd!ByConf(v))' = Lighttpd!ByFlag(w) \cup Lighttpd!ByConf(w)
           /\ Lighttpd!PolicySource(v)' = Lighttpd!PolicySource(w)
           /\ Lighttpd!HasPolicy(v)' <=> Lighttpd!HasPolicy(w)
           /\ AnswersSame(v["ssl.engine"], w["ssl.engine"])
<1>1. /\ \A texts : Lighttpd!Has(v[Lighttpd!Conf], texts)' <=> Lighttpd!Has(w[Lighttpd!Conf], texts)
      /\ Lighttpd!Text(v[Lighttpd!Conf])' = Lighttpd!Text(w[Lighttpd!Conf])
  BY DEF AnswersSame, Lighttpd!PolicyNames
<1>2. \A p : Lighttpd!Enabled(v[IF p = "SSLv2" THEN "ssl.use-sslv2" ELSE "ssl.use-sslv3"])'
                 <=> Lighttpd!Enabled(w[IF p = "SSLv2" THEN "ssl.use-sslv2" ELSE "ssl.use-sslv3"])
  BY DEF AnswersSame, Lighttpd!PolicyNames
<1>3. Lighttpd!Lowest(v)' = Lighttpd!Lowest(w)
  BY <1>1 DEF Lighttpd!Lowest
<1>4. \A p : Lighttpd!Above(v, p)' <=> Lighttpd!Above(w, p)
  BY <1>3 DEF Lighttpd!Above
<1>5. Lighttpd!ByFlag(v)' = Lighttpd!ByFlag(w)
  BY <1>2, <1>4 DEF Lighttpd!ByFlag
<1>6. Lighttpd!ByConf(v)' = Lighttpd!ByConf(w)
  BY <1>1, <1>3, <1>4 DEF Lighttpd!ByConf, Lighttpd!Weak
<1>7. Lighttpd!PolicySource(v)' = Lighttpd!PolicySource(w)
  BY <1>5 DEF AnswersSame, Lighttpd!PolicySource, Lighttpd!PolicyNames
<1>8. Lighttpd!HasPolicy(v)' <=> Lighttpd!HasPolicy(w)
  BY <1>1, <1>3 DEF Lighttpd!HasPolicy
<1>9. AnswersSame(v["ssl.engine"], w["ssl.engine"])
  BY DEF Lighttpd!PolicyNames
<1>10. QED BY <1>5, <1>6, <1>7, <1>8, <1>9

\* A rule is answered the same where the directives that it looks at are.
LEMMA RuleAnswers ==
    ASSUME NEW r \in DOMAIN Reads, NEW v, NEW w, \A name \in Reads[r] : AnswersSame(v[name], w[name])
    PROVE  Lighttpd!Asks(v)'[r] = Lighttpd!Asks(w)[r]
<1> USE DEF Reads, AnswersSame, Lighttpd!When, Lighttpd!TheFile
<1>1. CASE r = "access_log_missing"
  BY <1>1 DEF Lighttpd!Asks, Lighttpd!access_log_missing, Lighttpd!Modules
<1>2. CASE r = "access_log_format_review"
  BY <1>2 DEF Lighttpd!Asks, Lighttpd!access_log_format_review, Lighttpd!Modules
<1>3. CASE r = "error_log_missing"
  BY <1>3 DEF Lighttpd!Asks, Lighttpd!error_log_missing
<1>4. CASE r = "max_connections_missing"
  BY <1>4 DEF Lighttpd!Asks, Lighttpd!max_connections_missing
<1>5. CASE r = "max_request_size_missing"
  BY <1>5 DEF Lighttpd!Asks, Lighttpd!max_request_size_missing
<1>6. CASE r = "max_keep_alive_idle_too_high"
  BY <1>6 DEF Lighttpd!Asks, Lighttpd!max_keep_alive_idle_too_high
<1>7. CASE r = "max_read_idle_too_high"
  BY <1>7 DEF Lighttpd!Asks, Lighttpd!max_read_idle_too_high
<1>8. CASE r = "max_write_idle_too_high"
  BY <1>8 DEF Lighttpd!Asks, Lighttpd!max_write_idle_too_high
<1>9. CASE r = "max_keep_alive_requests_unlimited"
  BY <1>9 DEF Lighttpd!Asks, Lighttpd!max_keep_alive_requests_unlimited
<1>10. CASE r = "max_request_size_unlimited"
  BY <1>10 DEF Lighttpd!Asks, Lighttpd!max_request_size_unlimited
<1>11. CASE r = "max_request_size_too_large"
  BY <1>11 DEF Lighttpd!Asks, Lighttpd!max_request_size_too_large
<1>12. CASE r = "max_request_field_size_too_large"
  BY <1>12 DEF Lighttpd!Asks, Lighttpd!max_request_field_size_too_large
<1>13. CASE r = "missing_content_security_policy"
  BY <1>13 DEF Lighttpd!Asks, Lighttpd!missing_content_security_policy, Lighttpd!Missing
<1>14. CASE r = "missing_x_frame_options"
  BY <1>14 DEF Lighttpd!Asks, Lighttpd!missing_x_frame_options, Lighttpd!Missing
<1>15. CASE r = "missing_referrer_policy"
  BY <1>15 DEF Lighttpd!Asks, Lighttpd!missing_referrer_policy, Lighttpd!Missing
<1>16. CASE r = "missing_permissions_policy"
  BY <1>16 DEF Lighttpd!Asks, Lighttpd!missing_permissions_policy, Lighttpd!Missing
<1>17. CASE r = "missing_strict_transport_security"
  BY <1>17 DEF Lighttpd!Asks, Lighttpd!missing_strict_transport_security, Lighttpd!Missing
<1>18. CASE r = "missing_x_content_type_options"
  BY <1>18 DEF Lighttpd!Asks, Lighttpd!missing_x_content_type_options, Lighttpd!Missing
<1>19. CASE r = "content_security_policy_unsafe"
  BY <1>19 DEF Lighttpd!Asks, Lighttpd!content_security_policy_unsafe, Lighttpd!Unsafe
<1>20. CASE r = "referrer_policy_unsafe"
  BY <1>20 DEF Lighttpd!Asks, Lighttpd!referrer_policy_unsafe, Lighttpd!Unsafe
<1>21. CASE r = "permissions_policy_unsafe"
  BY <1>21 DEF Lighttpd!Asks, Lighttpd!permissions_policy_unsafe, Lighttpd!Unsafe
<1>22. CASE r = "x_frame_options_unsafe"
  BY <1>22 DEF Lighttpd!Asks, Lighttpd!x_frame_options_unsafe, Lighttpd!Unsafe
<1>23. CASE r = "content_security_policy_missing_frame_ancestors"
  BY <1>23 DEF Lighttpd!Asks, Lighttpd!content_security_policy_missing_frame_ancestors, Lighttpd!Unsafe
<1>24. CASE r = "strict_transport_security_unsafe"
  BY <1>24 DEF Lighttpd!Asks, Lighttpd!strict_transport_security_unsafe, Lighttpd!Unsafe
<1>25. CASE r = "content_security_policy_missing_reporting_endpoint"
  BY <1>25 DEF Lighttpd!Asks, Lighttpd!content_security_policy_missing_reporting_endpoint
<1>26. CASE r = "auth_backend_missing"
  BY <1>26 DEF Lighttpd!Asks, Lighttpd!auth_backend_missing
<1>27. CASE r = "auth_backend_userfile_missing"
  <2>1. \A name \in {"auth.require", "auth.backend", "auth.backend.htpasswd.userfile",
                       "auth.backend.plain.userfile"} : AnswersSame(v[name], w[name])
    BY <1>27
  <2>2. Lighttpd!auth_backend_userfile_missing(v)' = Lighttpd!auth_backend_userfile_missing(w)
    BY <2>1 DEF Lighttpd!auth_backend_userfile_missing, Lighttpd!Userfile
  <2>3. QED BY <1>27, <2>2 DEF Lighttpd!Asks
<1>28. CASE r = "basic_auth_over_http"
  BY <1>28 DEF Lighttpd!Asks, Lighttpd!basic_auth_over_http
<1>29. CASE r = "webdav_write_access_enabled"
  BY <1>29 DEF Lighttpd!Asks, Lighttpd!webdav_write_access_enabled
<1>30. CASE r = "dir_listing_enabled"
  BY <1>30 DEF Lighttpd!Asks, Lighttpd!dir_listing_enabled
<1>31. CASE r = "server_tag_not_blank"
  BY <1>31 DEF Lighttpd!Asks, Lighttpd!server_tag_not_blank
<1>32. CASE r = "missing_http_to_https_redirect"
  BY <1>32, ZenonT(60) DEF Lighttpd!Asks, Lighttpd!missing_http_to_https_redirect, Lighttpd!Modules
<1>33. CASE r = "ssl_compression_enabled"
  BY <1>33 DEF Lighttpd!Asks, Lighttpd!ssl_compression_enabled
<1>34. CASE r = "ssl_insecure_renegotiation_enabled"
  <2>1. \A name \in {"ssl.engine", Lighttpd!Conf, "ssl.disable-client-renegotiation"} :
            AnswersSame(v[name], w[name])
    BY <1>34
  <2>2. Lighttpd!ssl_insecure_renegotiation_enabled(v)' = Lighttpd!ssl_insecure_renegotiation_enabled(w)
    BY <2>1 DEF Lighttpd!ssl_insecure_renegotiation_enabled
  <2>3. QED BY <1>34, <2>2 DEF Lighttpd!Asks
<1>35. CASE r = "ssl_protocol_policy_missing_or_weak"
  <2>1. \A name \in Lighttpd!PolicyNames : AnswersSame(v[name], w[name])
    BY <1>35
  <2>2. Lighttpd!ssl_protocol_policy_missing_or_weak(v)' = Lighttpd!ssl_protocol_policy_missing_or_weak(w)
    BY <2>1, PolicyAnswers DEF Lighttpd!ssl_protocol_policy_missing_or_weak
  <2>3. QED BY <1>35, <2>2 DEF Lighttpd!Asks
<1>36. CASE r = "tls_legacy_versions_explicitly_enabled"
  <2>1. \A name \in Lighttpd!PolicyNames : AnswersSame(v[name], w[name])
    BY <1>36
  <2>2. Lighttpd!tls_legacy_versions_explicitly_enabled(v)' = Lighttpd!tls_legacy_versions_explicitly_enabled(w)
    BY <2>1, PolicyAnswers DEF Lighttpd!tls_legacy_versions_explicitly_enabled
  <2>3. QED BY <1>36, <2>2 DEF Lighttpd!Asks
<1>37. QED BY <1>1, <1>2, <1>3, <1>4, <1>5, <1>6, <1>7, <1>8, <1>9, <1>10, <1>11, <1>12, <1>13, <1>14,
              <1>15, <1>16, <1>17, <1>18, <1>19, <1>20, <1>21, <1>22, <1>23, <1>24, <1>25, <1>26, <1>27, <1>28,
              <1>29, <1>30, <1>31, <1>32, <1>33, <1>34, <1>35, <1>36

\* Every rule that is asked of a view looks at these,
LEMMA RulesRead ==
    /\ \A v : DOMAIN Lighttpd!Asks(v) = DOMAIN Reads
    /\ \A r \in DOMAIN Reads : Reads[r] \subseteq Lighttpd!DirectiveNames
<1>1. \A v : DOMAIN Lighttpd!Asks(v) = DOMAIN Reads
  BY DEF Lighttpd!Asks, Reads
<1>2. \A r \in DOMAIN Reads : Reads[r] \subseteq Lighttpd!DirectiveNames
  BY DEF Reads, Lighttpd!DirectiveNames, Lighttpd!PolicyNames, Lighttpd!Modules, Lighttpd!Headers, Lighttpd!Conf
<1>3. QED BY <1>1, <1>2

\* and reports the same of views that say the same there, now and while nothing is read.
LEMMA SameAnswers ==
    ASSUME statements' = statements, NEW v, NEW w, NEW r \in DOMAIN Reads,
           \A name \in Reads[r] : SaySame(v[name], w[name])
    PROVE  Lighttpd!Asks(v)'[r] = Lighttpd!Asks(w)[r] /\ Lighttpd!Asks(v)[r] = Lighttpd!Asks(w)[r]
<1>1. Lighttpd!Asks(v)'[r] = Lighttpd!Asks(w)[r]
  BY DirectivesAnswer, RuleAnswers
<1>2. \A name \in Reads[r] : SaySame(v[name], v[name])
  BY DEF SaySame
<1>3. Lighttpd!Asks(v)'[r] = Lighttpd!Asks(v)[r]
  BY <1>2, DirectivesAnswer, RuleAnswers
<1>4. QED BY <1>1, <1>3

-----------------------------------------------------------------------------
(* A directive remembers the conditions that it is said under. *)

Under(ds, conditions) == \A name \in DOMAIN ds : ds[name].conditions = conditions
Remembers(cs, gs, fs) ==
    /\ Under(gs, <<>>)
    /\ \A s \in DOMAIN cs : Under(cs[s].directives, cs[s].conditions)
    /\ \A k \in DOMAIN fs : fs[k].scope # 0 => cs[fs[k].scope].conditions = fs[k].own.conditions

\* Applying a directive keeps the conditions of its scope.
LEMMA AppliedUnder ==
    ASSUME NEW ds, NEW d, NEW own, Under(ds, own.conditions)
    PROVE  Under(Lighttpd!Applied(ds, d, own), own.conditions)
BY DEF Under, Lighttpd!Applied

\* Opening a block begins a scope in which nothing is said.
LEMMA OpenRemembers ==
    ASSUME LighttpdInv, NEW branch \in Branches, NEW condition \in Asked, Lighttpd!Open(branch, condition),
           Remembers(conditionals, globals, open)
    PROVE  Remembers(conditionals, globals, open)'
<1> DEFINE n == Len(conditionals) + 1
           k == Len(open)
<1>1. PICK own, previous, id : OpenedAs(branch, condition, own, previous, id)
  BY OpenIs DEF LighttpdInv
<1>2. /\ DOMAIN conditionals = 1 .. n - 1 /\ DOMAIN conditionals' = 1 .. n
      /\ conditionals'[n] = Lighttpd!Scope(own, Lighttpd!Nothing)
      /\ \A s \in 1 .. n - 1 : conditionals'[s] = conditionals[s]
      /\ k \in Nat \ {0} /\ DOMAIN open' = 1 .. k + 1
      /\ open'[k].scope = 0 /\ open'[k + 1] = Lighttpd!Frame(own, n)
      /\ \A j \in 1 .. k - 1 : open'[j] = open[j]
  BY <1>1, OpenTypes, ZenonT(60)
<1>3. globals' = globals
  BY <1>1 DEF OpenedAs
<1>4. \A s \in DOMAIN conditionals' : Under(conditionals'[s].directives, conditionals'[s].conditions)
  <2>1. Under(conditionals'[n].directives, conditionals'[n].conditions)
    BY <1>2 DEF Under, Lighttpd!Scope, Lighttpd!Nothing
  <2>2. \A s \in 1 .. n - 1 : Under(conditionals'[s].directives, conditionals'[s].conditions)
    BY <1>2 DEF Remembers
  <2>3. QED BY <1>2, <2>1, <2>2
<1>5. \A j \in DOMAIN open' : open'[j].scope # 0 => conditionals'[open'[j].scope].conditions = open'[j].own.conditions
  <2> SUFFICES ASSUME NEW j \in DOMAIN open', open'[j].scope # 0
               PROVE  conditionals'[open'[j].scope].conditions = open'[j].own.conditions
    OBVIOUS
  <2>1. CASE j = k + 1
    BY <1>2, <2>1 DEF Lighttpd!Frame, Lighttpd!Scope
  <2>2. CASE j \in 1 .. k - 1
    <3>1. j \in DOMAIN open /\ open'[j] = open[j]
      <4>1. DOMAIN open = 1 .. k
        BY DEF LighttpdInv, LighttpdTypeOK
      <4> HIDE DEF k
      <4>2. QED BY <1>2, <2>2, <4>1
    <3>2. open[j].scope \in DOMAIN conditionals
      <4>1. \A i \in DOMAIN open : open[i].scope # 0 => open[i].scope \in DOMAIN conditionals
        BY DEF LighttpdInv, FramesStand, Seated
      <4>2. QED BY <3>1, <4>1
    <3>3. QED BY <1>2, <3>1, <3>2 DEF Remembers
  <2>3. j # k
    BY <1>2
  <2>4. QED BY <1>2, <2>1, <2>2, <2>3
<1>6. QED BY <1>3, <1>4, <1>5 DEF Remembers

\* What is assigned is remembered with the conditions of the block it is in.
LEMMA AssignRemembers ==
    ASSUME LighttpdInv, NEW d \in Assignments, Lighttpd!Assign(d), Remembers(conditionals, globals, open)
    PROVE  Remembers(conditionals, globals, open)'
<1>1. CASE Lighttpd!AssignGlobally(d)
  <2>1. /\ globals' = Lighttpd!Applied(globals, d, Lighttpd!File) /\ conditionals' = conditionals
        /\ open' = <<Lighttpd!Frame(Lighttpd!File, 0)>>
    BY <1>1 DEF Lighttpd!AssignGlobally
  <2>2. Under(globals', <<>>)
    <3>1. Lighttpd!File.conditions = <<>>
      BY DEF Lighttpd!File
    <3>2. QED BY <2>1, <3>1, AppliedUnder DEF Remembers
  <2>3. \A k \in DOMAIN open' : open'[k].scope = 0
    BY <2>1 DEF Lighttpd!Frame
  <2>4. QED BY <2>1, <2>2, <2>3 DEF Remembers
<1>2. CASE Lighttpd!AssignInBlock(d)
  <2> DEFINE f == open[Len(open)]
             place == BegunAt
             new == Lighttpd!Applied(Begun[place].directives, d, f.own)
  <2>1. /\ Len(open) > 1 /\ globals' = globals
        /\ conditionals' = [Begun EXCEPT ![place].directives = new]
        /\ open' = [open EXCEPT ![Len(open)] = Lighttpd!Frame(f.own, place)]
    BY <1>2, AssignInBlockIs DEF LighttpdInv
  <2>2. /\ Begun \in Seq(Conditional) /\ place \in DOMAIN Begun
        /\ \A s \in DOMAIN conditionals : Begun[s] = conditionals[s]
    BY <2>1, BegunIs
  <2>3. /\ open \in Seq(Opened) /\ Len(open) \in DOMAIN open
    BY <2>1 DEF LighttpdInv, LighttpdTypeOK
  <2>4. /\ DOMAIN open' = DOMAIN open /\ open'[Len(open)] = Lighttpd!Frame(f.own, place)
        /\ \A k \in DOMAIN open : k # Len(open) => open'[k] = open[k]
    BY <2>1, <2>3
  <2>5. \A k \in DOMAIN open : open[k].scope # 0 => open[k].scope \in DOMAIN conditionals
    BY DEF LighttpdInv, FramesStand, Seated
  <2>6. /\ Begun[place].conditions = f.own.conditions
        /\ \A s \in DOMAIN Begun : Under(Begun[s].directives, Begun[s].conditions)
    <3>1. CASE f.scope = 0
      <4>1. PICK scope : scope = Lighttpd!Scope(f.own, Lighttpd!Nothing)
        OBVIOUS
      <4>2. conditionals \in Seq(Conditional) /\ Begun = Append(conditionals, scope) /\ place = Len(conditionals) + 1
        BY <3>1, <4>1 DEF Begun, BegunAt, LighttpdInv, LighttpdTypeOK
      <4>3. /\ Begun[place] = scope /\ \A s \in DOMAIN Begun : s \in DOMAIN conditionals \/ s = place
        BY <4>2
      <4>4. scope.conditions = f.own.conditions /\ Under(scope.directives, scope.conditions)
        BY <4>1 DEF Lighttpd!Scope, Lighttpd!Nothing, Under
      <4>5. QED BY <2>2, <4>3, <4>4 DEF Remembers
    <3>2. CASE f.scope # 0
      <4>1. Begun = conditionals /\ place = f.scope
        BY <3>2 DEF Begun, BegunAt
      <4>2. QED BY <2>3, <3>2, <4>1 DEF Remembers
    <3>3. QED BY <3>1, <3>2
  <2>7. Under(new, f.own.conditions)
    BY <2>2, <2>6, AppliedUnder
  <2> HIDE DEF new, place
  <2>8. /\ DOMAIN conditionals' = DOMAIN Begun /\ conditionals'[place].directives = new
        /\ \A s \in DOMAIN Begun : /\ conditionals'[s].conditions = Begun[s].conditions
                                   /\ s # place => conditionals'[s] = Begun[s]
    <3>1. Begun[place] \in Conditional
      BY <2>2
    <3>2. QED BY <2>1, <2>2, <3>1 DEF Conditional
  <2>9. \A s \in DOMAIN conditionals' : Under(conditionals'[s].directives, conditionals'[s].conditions)
    BY <2>2, <2>6, <2>7, <2>8
  <2>10. \A k \in DOMAIN open' : open'[k].scope # 0 => conditionals'[open'[k].scope].conditions = open'[k].own.conditions
    <3> SUFFICES ASSUME NEW k \in DOMAIN open', open'[k].scope # 0
                 PROVE  conditionals'[open'[k].scope].conditions = open'[k].own.conditions
      OBVIOUS
    <3>1. CASE k = Len(open)
      BY <2>2, <2>4, <2>6, <2>8, <3>1 DEF Lighttpd!Frame
    <3>2. CASE k # Len(open)
      <4>1. k \in DOMAIN open /\ open'[k] = open[k]
        BY <2>4, <3>2
      <4>2. open[k].scope \in DOMAIN conditionals /\ open[k].scope \in DOMAIN Begun
        <5>1. DOMAIN conditionals \subseteq DOMAIN Begun
          BY <2>1, BegunIs DEF Grows
        <5>2. QED BY <2>5, <4>1, <5>1
      <4>3. QED BY <2>2, <2>8, <4>1, <4>2 DEF Remembers
    <3>3. QED BY <3>1, <3>2
  <2>11. QED BY <2>1, <2>9, <2>10 DEF Remembers
<1>3. QED BY <1>1, <1>2 DEF Lighttpd!Assign

\* Whatever is read, directives remember their conditions.
LEMMA ReadingRemembers ==
    ASSUME LighttpdInv, VocabularyAssumption, [Lighttpd!Next]_(Lighttpd!vars),
           Remembers(conditionals, globals, open)
    PROVE  Remembers(conditionals, globals, open)'
<1>1. CASE UNCHANGED Lighttpd!vars
  BY <1>1 DEF Lighttpd!vars
<1>2. ASSUME NEW c \in Conditions, Lighttpd!Open("if", c) \/ Lighttpd!Open("else_if", c)
      PROVE  Remembers(conditionals, globals, open)'
  <2>1. {"if", "else_if"} \subseteq Branches /\ c \in Asked
    BY DEF Branches, Asked
  <2>2. QED BY <1>2, <2>1, OpenRemembers
<1>3. CASE Lighttpd!OpenElse
  <2>1. "else" \in Branches /\ Lighttpd!NoCondition \in Asked
    BY DEF Branches, Asked
  <2>2. QED BY <1>3, <2>1, OpenRemembers DEF Lighttpd!OpenElse
<1>4. CASE Lighttpd!Close
  <2>1. /\ Len(open) > 1 /\ open' = SubSeq(open, 1, Len(open) - 1)
        /\ UNCHANGED <<globals, conditionals>>
    BY <1>4 DEF Lighttpd!Close, Lighttpd!Front
  <2>2. open \in Seq(Opened)
    BY DEF LighttpdInv, LighttpdTypeOK
  <2>3. \A k \in DOMAIN open' : k \in DOMAIN open /\ open'[k] = open[k]
    BY <2>1, <2>2
  <2>4. QED BY <2>1, <2>3 DEF Remembers
<1>5. ASSUME NEW d \in Assignments, Lighttpd!Assign(d) PROVE Remembers(conditionals, globals, open)'
  BY <1>5, AssignRemembers
<1>6. QED BY <1>1, <1>2, <1>3, <1>4, <1>5
          DEF Lighttpd!Next, Lighttpd!Block, Lighttpd!OpenIf, Lighttpd!OpenElseIf

-----------------------------------------------------------------------------
(* The blocks around a block, and the scopes of these. *)

\* Which blocks are around one is well defined,
LEMMA AroundExists ==
    ASSUME LighttpdInv
    PROVE  \E g : g = [c \in Lighttpd!Blocks |->
                          {c} \cup IF branches[c].parent = 0 THEN {} ELSE g[branches[c].parent]]
<1> DEFINE N == Len(branches)
           Step(g, c) == {c} \cup IF branches[c].parent = 0 THEN {} ELSE g[branches[c].parent]
           H == {m \in Nat : m =< N => \E g : DOMAIN g = 1 .. m /\ g = [c \in 1 .. m |-> Step(g, c)]}
<1>1. N \in Nat /\ Lighttpd!Blocks = 1 .. N
  BY DEF LighttpdInv, LighttpdTypeOK, Lighttpd!Blocks
<1>2. \A c \in Lighttpd!Blocks : branches[c].parent \in Nat /\ branches[c].parent < c
  BY BlocksStand DEF BlockStands, Lighttpd!Blocks
<1> HIDE DEF N
<1>3. 0 \in H
  <2> DEFINE none == [c \in {} |-> {}]
  <2>1. DOMAIN none = 1 .. 0 /\ none = [c \in 1 .. 0 |-> Step(none, c)]
    OBVIOUS
  <2> HIDE DEF none, Step
  <2>2. QED BY <2>1
<1>4. \A m \in 0 .. N - 1 : m \in H => m + 1 \in H
  <2> SUFFICES ASSUME NEW m \in 0 .. N - 1, m \in H PROVE m + 1 \in H
    OBVIOUS
  <2>1. PICK g : DOMAIN g = 1 .. m /\ g = [c \in 1 .. m |-> Step(g, c)]
    <3> HIDE DEF Step
    <3>1. QED BY <1>1
  <2> DEFINE h == [c \in 1 .. m + 1 |-> IF c = m + 1 THEN Step(g, c) ELSE g[c]]
  <2>2. m \in Nat /\ DOMAIN h = 1 .. m + 1 /\ h[m + 1] = Step(g, m + 1) /\ \A c \in 1 .. m : h[c] = g[c]
    <3> HIDE DEF Step
    <3>1. QED BY <1>1
  <2>3. \A c \in 1 .. m : g[c] = Step(g, c)
    <3> HIDE DEF Step
    <3>1. QED BY <2>1
  <2> HIDE DEF h
  <2>4. \A c \in 1 .. m + 1 : Step(h, c) = Step(g, c)
    <3> SUFFICES ASSUME NEW c \in 1 .. m + 1, branches[c].parent # 0
                 PROVE  h[branches[c].parent] = g[branches[c].parent]
      OBVIOUS
    <3>1. branches[c].parent \in 1 .. m
      BY <1>1, <1>2, <2>2
    <3>2. QED BY <2>2, <3>1
  <2>5. \A c \in 1 .. m + 1 : h[c] = Step(h, c)
    <3> HIDE DEF Step
    <3> SUFFICES ASSUME NEW c \in 1 .. m + 1 PROVE h[c] = Step(h, c)
      OBVIOUS
    <3>1. CASE c = m + 1
      BY <2>2, <2>4, <3>1
    <3>2. CASE c # m + 1
      <4>1. c \in 1 .. m
        BY <2>2, <3>2
      <4>2. QED BY <2>2, <2>3, <2>4, <4>1
    <3>3. QED BY <3>1, <3>2
  <2>6. h = [c \in 1 .. m + 1 |-> Step(h, c)]
    <3>1. h = [c \in 1 .. m + 1 |-> h[c]]
      BY <2>2 DEF h
    <3> HIDE DEF Step
    <3>2. QED BY <2>5, <3>1
  <2> HIDE DEF Step
  <2>7. QED BY <2>2, <2>6
<1>5. N \in H
  <2> HIDE DEF H
  <2>1. QED BY <1>1, <1>3, <1>4, UpTo
<1> HIDE DEF Step
<1>6. \E g : g = [c \in Lighttpd!Blocks |-> Step(g, c)]
  BY <1>1, <1>5
<1>7. QED BY <1>6 DEF Step

\* as one step out of it.
LEMMA AroundIs ==
    ASSUME LighttpdInv, NEW b \in Lighttpd!Blocks
    PROVE  Lighttpd!Around(b) =
               {b} \cup IF branches[b].parent = 0 THEN {} ELSE Lighttpd!Around(branches[b].parent)
<1> DEFINE Step(g, c) == {c} \cup IF branches[c].parent = 0 THEN {} ELSE g[branches[c].parent]
           up == CHOOSE g : g = [c \in Lighttpd!Blocks |-> Step(g, c)]
<1>1. \E g : g = [c \in Lighttpd!Blocks |-> Step(g, c)]
  BY AroundExists
<1>2. up = [c \in Lighttpd!Blocks |-> Step(up, c)]
  <2> HIDE DEF Step
  <2>1. QED BY <1>1
<1>3. \A c : Lighttpd!Around(c) = up[c]
  BY DEF Lighttpd!Around
<1> HIDE DEF up
<1>4. up[b] = Step(up, b)
  <2> HIDE DEF Step
  <2>1. QED BY <1>2
<1>5. QED BY <1>3, <1>4

\* A block is around itself; those around it were opened before it, and are around each other.
LEMMA AroundNests ==
    ASSUME LighttpdInv, NEW b \in Lighttpd!Blocks
    PROVE  /\ b \in Lighttpd!Around(b)
           /\ \A c \in Lighttpd!Around(b) : c \in Lighttpd!Blocks /\ c =< b
           /\ \A c, d \in Lighttpd!Around(b) : c =< d => c \in Lighttpd!Around(d)
<1> DEFINE Around(c) == Lighttpd!Around(c)
           Nests(a) == /\ a \in Around(a)
                       /\ \A c \in Around(a) : c \in Lighttpd!Blocks /\ c =< a
                       /\ \A c, d \in Around(a) : c =< d => c \in Around(d)
           Wrong == {a \in Lighttpd!Blocks : ~Nests(a)}
<1>1. Lighttpd!Blocks \subseteq Nat \ {0}
  BY DEF LighttpdInv, LighttpdTypeOK, Lighttpd!Blocks
<1>2. SUFFICES ASSUME Wrong # {} PROVE FALSE
  OBVIOUS
<1>3. PICK a \in Wrong : \A e \in Wrong : a =< e
  <2>1. Wrong \in SUBSET Nat
    BY <1>1
  <2> HIDE DEF Wrong
  <2>2. QED BY <1>2, <2>1, LeastElement
<1> DEFINE p == branches[a].parent
<1>4. a \in Lighttpd!Blocks /\ a \in Nat /\ p \in Nat /\ p < a
  BY <1>1, BlocksStand DEF BlockStands, Lighttpd!Blocks
<1>5. CASE p = 0
  <2>1. Around(a) = {a}
    BY <1>4, <1>5, AroundIs
  <2>2. Nests(a)
    BY <1>4, <2>1
  <2>3. QED BY <2>2
<1>6. CASE p # 0
  <2>1. p \in Lighttpd!Blocks
    BY <1>4, <1>6 DEF LighttpdInv, LighttpdTypeOK, Lighttpd!Blocks
  <2>2. Nests(p)
    BY <1>3, <1>4, <2>1
  <2>3. Around(a) = {a} \cup Around(p)
    BY <1>4, <1>6, AroundIs
  <2> HIDE DEF p, Around
  <2>4. \A c \in Around(a) : c \in Lighttpd!Blocks /\ c \in Nat /\ (c = a \/ c =< p)
    BY <1>1, <1>4, <2>2, <2>3
  <2>5. \A c, d \in Around(a) : c =< d => c \in Around(d)
    <3> SUFFICES ASSUME NEW c \in Around(a), NEW d \in Around(a), c =< d PROVE c \in Around(d)
      OBVIOUS
    <3>1. CASE d = a
      BY <3>1
    <3>2. CASE d # a
      <4>1. d \in Around(p) /\ d =< p /\ d \in Nat /\ c \in Nat
        BY <2>3, <2>4, <3>2
      <4>2. c # a
        BY <1>4, <4>1
      <4>3. QED BY <2>2, <2>3, <4>1, <4>2
    <3>3. QED BY <3>1, <3>2
  <2>6. Nests(a)
    BY <1>4, <2>3, <2>4, <2>5
  <2>7. QED BY <2>6
<1>7. QED BY <1>5, <1>6

\* Without a block that goes on after a nested one, each block has one scope, in the order
\* in which blocks are opened.
LEMMA OneScopeEach ==
    ASSUME LighttpdInv, Lighttpd!InOrder, NEW s \in DOMAIN conditionals, NEW t \in DOMAIN conditionals
    PROVE  /\ s \in Nat /\ t \in Nat
           /\ conditionals[s].block \in Lighttpd!Blocks /\ conditionals[t].block \in Lighttpd!Blocks
           /\ conditionals[s].block \in Nat /\ conditionals[t].block \in Nat
           /\ conditionals[s].block =< conditionals[t].block <=> s =< t
           /\ conditionals[s].block = conditionals[t].block <=> s = t
<1>1. s \in Nat /\ t \in Nat /\ conditionals[s].block \in Nat /\ conditionals[t].block \in Nat
  BY ConditionalIs DEF LighttpdInv
<1>2. conditionals[s].block \in Lighttpd!Blocks /\ conditionals[t].block \in Lighttpd!Blocks
  BY DEF LighttpdInv, ScopesStand, Situated, Lighttpd!Blocks
<1>3. s < t => conditionals[s].block < conditionals[t].block
  BY DEF Lighttpd!InOrder
<1>4. t < s => conditionals[t].block < conditionals[s].block
  BY DEF Lighttpd!InOrder
<1>5. QED BY <1>1, <1>2, <1>3, <1>4

\* What a prefix is, element by element.
LEMMA PrefixIs ==
    ASSUME NEW S, NEW v \in Seq(S), NEW w \in Seq(S)
    PROVE  Lighttpd!IsPrefix(v, w) <=> Len(v) =< Len(w) /\ \A i \in 1 .. Len(v) : v[i] = w[i]
<1>1. CASE ~(Len(v) =< Len(w))
  BY <1>1 DEF Lighttpd!IsPrefix
<1>2. CASE Len(v) =< Len(w)
  <2> DEFINE u == SubSeq(w, 1, Len(v))
  <2>1. u \in Seq(S) /\ Len(u) = Len(v) /\ \A i \in 1 .. Len(v) : u[i] = w[i]
    BY <1>2
  <2> HIDE DEF u
  <2>2. v = u <=> \A i \in 1 .. Len(v) : v[i] = u[i]
    <3>1. v = [i \in 1 .. Len(v) |-> v[i]] /\ u = [i \in 1 .. Len(u) |-> u[i]]
      BY <2>1
    <3>2. QED BY <2>1, <3>1
  <2>3. v = u <=> \A i \in 1 .. Len(v) : v[i] = w[i]
    BY <2>1, <2>2
  <2>4. QED BY <1>2, <2>3 DEF Lighttpd!IsPrefix, u
<1>3. QED BY <1>1, <1>2

\* A scope's conditions begin with those of the scopes of blocks around its own.
LEMMA AroundIsPrefix ==
    ASSUME LighttpdInv, Lighttpd!InOrder, NEW s \in DOMAIN conditionals, NEW t \in DOMAIN conditionals,
           conditionals[t].block \in Lighttpd!Around(conditionals[s].block)
    PROVE  Lighttpd!IsPrefix(conditionals[t].conditions, conditionals[s].conditions)
<1> DEFINE Block(x) == conditionals[x].block
           Conds(x) == conditionals[x].conditions
           Begins(x) == \A y \in DOMAIN conditionals :
                            Block(y) \in Lighttpd!Around(Block(x)) => Lighttpd!IsPrefix(Conds(y), Conds(x))
           Wrong == {x \in DOMAIN conditionals : ~Begins(x)}
<1>1. DOMAIN conditionals \subseteq Nat
  BY DEF LighttpdInv, LighttpdTypeOK
<1>2. SUFFICES ASSUME Wrong # {} PROVE FALSE
  OBVIOUS
<1>3. PICK x \in Wrong : \A e \in Wrong : x =< e
  <2>1. Wrong \in SUBSET Nat
    BY <1>1
  <2> HIDE DEF Wrong
  <2>2. QED BY <1>2, <2>1, LeastElement
<1>4. PICK y \in DOMAIN conditionals : Block(y) \in Lighttpd!Around(Block(x)) /\ ~Lighttpd!IsPrefix(Conds(y), Conds(x))
  OBVIOUS
<1>5. x \in DOMAIN conditionals /\ Block(x) \in Lighttpd!Blocks
  BY OneScopeEach
<1> DEFINE p == branches[Block(x)].parent
<1>6. Conds(x) \in Seq(Asked) /\ Conds(y) \in Seq(Asked)
  BY ConditionalIs DEF LighttpdInv
<1>7. y # x
  BY <1>4, <1>6, PrefixIs
<1>8. Block(y) # Block(x)
  BY <1>5, <1>7, OneScopeEach
<1>9. p # 0 /\ Block(y) \in Lighttpd!Around(p)
  BY <1>4, <1>5, <1>8, AroundIs
<1>10. PICK z \in DOMAIN conditionals :
           Block(z) = p /\ Conds(x) = Append(Conds(z), branches[Block(x)].condition)
  BY <1>5, <1>9 DEF LighttpdInv, ScopesStand, Situated, Nested
<1>11. p < Block(x) /\ branches[Block(x)].condition \in Asked
  BY <1>5, BlocksStand DEF BlockStands, Lighttpd!Blocks
<1>12. z < x
  BY <1>5, <1>10, <1>11, OneScopeEach
<1>13. Begins(z)
  BY <1>1, <1>3, <1>5, <1>12
<1>14. Lighttpd!IsPrefix(Conds(y), Conds(z))
  BY <1>9, <1>10, <1>13
<1>15. Conds(z) \in Seq(Asked)
  BY ConditionalIs DEF LighttpdInv
<1> HIDE DEF Conds, p, Block
<1>16. /\ Len(Conds(x)) = Len(Conds(z)) + 1 /\ Len(Conds(z)) \in Nat /\ Len(Conds(y)) \in Nat
       /\ \A i \in 1 .. Len(Conds(z)) : Conds(x)[i] = Conds(z)[i]
  BY <1>6, <1>10, <1>11, <1>15
<1>17. Len(Conds(y)) =< Len(Conds(z)) /\ \A i \in 1 .. Len(Conds(y)) : Conds(y)[i] = Conds(z)[i]
  BY <1>6, <1>14, <1>15, PrefixIs
<1>18. Lighttpd!IsPrefix(Conds(y), Conds(x))
  BY <1>6, <1>16, <1>17, PrefixIs
<1>19. QED BY <1>4, <1>18

-----------------------------------------------------------------------------
(* What a request meets, seen from the scopes it is in. *)

\* An active block that says something of the name.
Speaks(b, name, request) ==
    b \in Lighttpd!Blocks /\ Lighttpd!Active(b, request) /\ Lighttpd!Parsed(name)[b] # <<>>

\* A scope says what is read in its block.
LEMMA SaysIs ==
    ASSUME LighttpdInv, ReplacingAssumption, Lighttpd!InOrder, NEW name, NEW s \in DOMAIN conditionals
    PROVE  LET value == Lighttpd!Parsed(name)[conditionals[s].block]
               d == conditionals[s].directives[name]
           IN /\ Lighttpd!Says(s, name) <=> value # <<>>
              /\ Lighttpd!Says(s, name) => d.value = value /\ d # Lighttpd!Absent
<1>1. ValueIn(conditionals[s].directives, name) = Lighttpd!Parsed(name)[conditionals[s].block]
  BY ScopeIsParsed
<1>2. Lighttpd!Says(s, name) => conditionals[s].directives[name].value # <<>>
  BY DEF Lighttpd!Says, LighttpdInv, StatementsStand, Heard
<1>3. Lighttpd!Absent.value = <<>>
  BY DEF Lighttpd!Absent
<1>4. QED BY <1>1, <1>2, <1>3 DEF Lighttpd!Says, ValueIn

\* A view of a request holds what is in force, as a directive,
LEMMA MetIs ==
    ASSUME NEW name \in Lighttpd!DirectiveNames, NEW request
    PROVE  LET met == Lighttpd!Met(request)[name]
           IN /\ met.value = Lighttpd!InForce(name, request)
              /\ met = Lighttpd!Absent <=> met.value = <<>>
<1> DEFINE absent == Lighttpd!Absent
           inForce == Lighttpd!InForce(name, request)
<1>1. Lighttpd!Met(request)[name] = [absent EXCEPT !.value = inForce]
  BY DEF Lighttpd!Met, Lighttpd!View
<1>2. absent.value = <<>> /\ absent = [absent EXCEPT !.value = <<>>]
  BY DEF Lighttpd!Absent
<1>3. [absent EXCEPT !.value = inForce].value = inForce
  BY DEF Lighttpd!Absent
<1> HIDE DEF absent, inForce
<1>4. QED BY <1>1, <1>2, <1>3 DEF absent, inForce

\* which is what the file says, where no block does,
LEMMA GlobalIsMet ==
    ASSUME LighttpdInv, ReplacingAssumption, NEW name \in Lighttpd!DirectiveNames, NEW request,
           \A b : ~Speaks(b, name, request)
    PROVE  SaySame(Lighttpd!Global(name), Lighttpd!Met(request)[name])
<1> DEFINE d == Lighttpd!Global(name)
<1>1. Lighttpd!InForce(name, request) = Lighttpd!Parsed(name)[0]
  BY LastOpenedIsInForce DEF Speaks
<1>2. d.value = Lighttpd!Parsed(name)[0]
  BY GlobalIsParsed
<1>3. d = Lighttpd!Absent <=> d.value = <<>>
  <2>1. d # Lighttpd!Absent => d.value # <<>>
    BY DEF Lighttpd!Global, LighttpdInv, StatementsStand, Heard
  <2>2. Lighttpd!Absent.value = <<>>
    BY DEF Lighttpd!Absent
  <2>3. QED BY <2>1, <2>2
<1> HIDE DEF d
<1>4. QED BY <1>1, <1>2, <1>3, MetIs DEF SaySame, d

\* or the scope of the last block that does.
LEMMA LastIsMet ==
    ASSUME LighttpdInv, ReplacingAssumption, Lighttpd!InOrder,
           NEW name \in Lighttpd!DirectiveNames, NEW request, NEW s \in DOMAIN conditionals,
           Speaks(conditionals[s].block, name, request),
           \A b : Speaks(b, name, request) => b =< conditionals[s].block
    PROVE  Lighttpd!Says(s, name) /\ SaySame(conditionals[s].directives[name], Lighttpd!Met(request)[name])
<1> DEFINE b == conditionals[s].block
           d == conditionals[s].directives[name]
<1>1. Lighttpd!InForce(name, request) = Lighttpd!Parsed(name)[b]
  BY LastOpenedIsInForce DEF Speaks
<1>2. Lighttpd!Says(s, name) /\ d.value = Lighttpd!Parsed(name)[b] /\ d # Lighttpd!Absent /\ d.value # <<>>
  BY SaysIs DEF Speaks
<1> HIDE DEF b, d
<1>3. QED BY <1>1, <1>2, MetIs DEF SaySame, d

\* Of any blocks the last one has a scope.
LEMMA LastScope ==
    ASSUME LighttpdInv, NEW T \in SUBSET Lighttpd!Blocks, T # {}
    PROVE  \E s \in DOMAIN conditionals :
               conditionals[s].block \in T /\ \A b \in T : b =< conditionals[s].block
<1> DEFINE N == Len(branches)
           Back == {N - b : b \in T}
<1>1. N \in Nat /\ Lighttpd!Blocks = 1 .. N
  BY DEF LighttpdInv, LighttpdTypeOK, Lighttpd!Blocks
<1>2. Back \in SUBSET Nat /\ Back # {}
  BY <1>1
<1>3. PICK k \in Back : \A j \in Back : k =< j
  <2> HIDE DEF Back
  <2>1. QED BY <1>2, LeastElement
<1>4. PICK b \in T : k = N - b
  OBVIOUS
<1>5. \A c \in T : c =< b
  <2> SUFFICES ASSUME NEW c \in T PROVE c =< b
    OBVIOUS
  <2>1. k =< N - c
    BY <1>3
  <2>2. QED BY <1>1, <1>4, <2>1
<1>6. PICK s \in DOMAIN conditionals : conditionals[s].block = b
  BY DEF LighttpdInv, ScopesStand, Lighttpd!Blocks
<1>7. QED BY <1>4, <1>5, <1>6

\* Without chains, a request is in a block just if it meets all the conditions of its scope.
LEMMA ScopesMet ==
    ASSUME VocabularyAssumption, LighttpdInv, Lighttpd!IfsOnly(Lighttpd!Blocks),
           NEW request, NEW s \in DOMAIN conditionals
    PROVE  LET conditions == Lighttpd!ToSet(conditionals[s].conditions)
           IN /\ conditions \subseteq Conditions
              /\ Lighttpd!Active(conditionals[s].block, request) <=> \A c \in conditions : Meets(c, request)
<1> DEFINE b == conditionals[s].block
<1>1. b \in DOMAIN branches /\ branches[b].previous = {}
  BY DEF LighttpdInv, ScopesStand, Situated, Lighttpd!IfsOnly, Lighttpd!Blocks
<1>2. Lighttpd!IfsOnly(Lighttpd!Parents)
  <2> SUFFICES ASSUME NEW c \in DOMAIN branches, branches[c].parent # 0
               PROVE  branches[c].parent \in DOMAIN branches
    BY DEF Lighttpd!IfsOnly, Lighttpd!Parents, Lighttpd!Nested, Lighttpd!Blocks
  <2>1. branches[c].parent \in Nat /\ branches[c].parent < c
    BY BlocksStand DEF BlockStands
  <2>2. QED BY <2>1, SMTT(60) DEF LighttpdInv, LighttpdTypeOK
<1>3. branches[b].condition # Lighttpd!NoCondition
  BY <1>1, BlocksStand DEF BlockStands
<1>4. Lighttpd!Active(b, request) <=> Lighttpd!Active(branches[b].parent, request) /\ Asks(b, request)
  BY <1>1, ActiveIs
<1>5. ScopeTells(s, request)
  BY <1>2, ScopesTell
<1>6. Lighttpd!ToSet(conditionals[s].conditions) \subseteq Conditions
  BY <1>3, <1>5 DEF ScopeTells
<1>7. \A c \in Lighttpd!ToSet(conditionals[s].conditions) : c # Lighttpd!NoCondition
  BY <1>6, ConditionIsReal
<1>8. QED BY <1>4, <1>5, <1>6, <1>7 DEF ScopeTells

\* effective_directive_for_scope: a scope is given what a request to its block meets, if
\* all that the request meets is said around the block.
LEMMA EffectiveIsMet ==
    ASSUME VocabularyAssumption, LighttpdInv, ReplacingAssumption, Lighttpd!InOrder,
           Lighttpd!IfsOnly(Lighttpd!Blocks),
           NEW name \in Lighttpd!DirectiveNames, NEW request, NEW s \in DOMAIN conditionals,
           Lighttpd!Active(conditionals[s].block, request),
           \A b : Speaks(b, name, request) => b \in Lighttpd!Around(conditionals[s].block)
    PROVE  SaySame(Lighttpd!EffectiveFor(s, name), Lighttpd!Met(request)[name])
<1> DEFINE Block(x) == conditionals[x].block
           Conds(x) == conditionals[x].conditions
           T == Lighttpd!Takers(s, name)
<1>1. \A x \in DOMAIN conditionals : Conds(x) \in Seq(Asked) /\ Block(x) \in Lighttpd!Blocks
  BY ConditionalIs, OneScopeEach DEF LighttpdInv
<1>2. \A t \in DOMAIN conditionals : t \in T <=> Speaks(Block(t), name, request)
  <2> SUFFICES ASSUME NEW t \in DOMAIN conditionals
               PROVE  t \in T <=> Speaks(Block(t), name, request)
    OBVIOUS
  <2>1. Lighttpd!Says(t, name) <=> Lighttpd!Parsed(name)[Block(t)] # <<>>
    BY SaysIs
  <2>2. Lighttpd!IsPrefix(Conds(t), Conds(s)) => Lighttpd!Active(Block(t), request)
    <3> SUFFICES ASSUME Lighttpd!IsPrefix(Conds(t), Conds(s)) PROVE Lighttpd!Active(Block(t), request)
      OBVIOUS
    <3>1. \A c \in Lighttpd!ToSet(Conds(s)) : Meets(c, request)
      BY ScopesMet
    <3>2. Lighttpd!ToSet(Conds(t)) \subseteq Lighttpd!ToSet(Conds(s))
      <4>1. Len(Conds(t)) =< Len(Conds(s)) /\ \A i \in 1 .. Len(Conds(t)) : Conds(t)[i] = Conds(s)[i]
        BY <1>1, PrefixIs
      <4>2. DOMAIN Conds(t) = 1 .. Len(Conds(t)) /\ DOMAIN Conds(s) = 1 .. Len(Conds(s))
        BY <1>1
      <4>3. Len(Conds(t)) \in Nat /\ Len(Conds(s)) \in Nat
        BY <1>1
      <4>4. QED BY <4>1, <4>2, <4>3 DEF Lighttpd!ToSet
    <3>3. QED BY <3>1, <3>2, ScopesMet
  <2>3. Speaks(Block(t), name, request) => Lighttpd!IsPrefix(Conds(t), Conds(s))
    BY AroundIsPrefix
  <2>4. QED BY <1>1, <2>1, <2>2, <2>3 DEF Lighttpd!Takers, Speaks
<1>3. CASE T = {}
  <2>1. \A b : ~Speaks(b, name, request)
    <3> SUFFICES ASSUME NEW b, Speaks(b, name, request) PROVE FALSE
      OBVIOUS
    <3>1. PICK t \in DOMAIN conditionals : Block(t) = b
      BY DEF Speaks, LighttpdInv, ScopesStand, Lighttpd!Blocks
    <3>2. QED BY <1>2, <1>3, <3>1
  <2>2. SaySame(Lighttpd!Global(name), Lighttpd!Met(request)[name])
    BY <2>1, GlobalIsMet
  <2>3. QED BY <1>3, <2>2 DEF Lighttpd!EffectiveFor
<1>4. CASE T # {}
  <2> DEFINE B == {b \in Lighttpd!Blocks : Speaks(b, name, request)}
             best == CHOOSE t \in T : \A u \in T : Lighttpd!Nearer(t, u)
  <2>1. T \subseteq DOMAIN conditionals
    BY DEF Lighttpd!Takers
  <2>2. B # {}
    BY <1>1, <1>2, <1>4, <2>1
  <2>3. PICK l \in DOMAIN conditionals : Block(l) \in B /\ \A b \in B : b =< Block(l)
    BY <2>2, LastScope
  <2>4. l \in T
    BY <1>2, <2>3
  <2>5. \A u \in T : u \in Nat /\ u =< l /\ Len(Conds(u)) =< Len(Conds(l))
    <3> SUFFICES ASSUME NEW u \in T PROVE u \in Nat /\ u =< l /\ Len(Conds(u)) =< Len(Conds(l))
      OBVIOUS
    <3>1. u \in DOMAIN conditionals /\ Speaks(Block(u), name, request)
      BY <1>2, <2>1
    <3>2. Block(u) =< Block(l)
      BY <1>1, <2>3, <3>1
    <3>3. u \in Nat /\ u =< l
      BY <3>1, <3>2, OneScopeEach
    <3>4. Block(u) \in Lighttpd!Around(Block(l))
      <4>1. Block(u) \in Lighttpd!Around(Block(s)) /\ Block(l) \in Lighttpd!Around(Block(s))
        BY <2>3, <3>1
      <4>2. QED BY <1>1, <3>2, <4>1, AroundNests
    <3>5. Lighttpd!IsPrefix(Conds(u), Conds(l))
      BY <3>1, <3>4, AroundIsPrefix
    <3>6. QED BY <1>1, <3>1, <3>3, <3>5, PrefixIs
  <2>6. \A u \in T : Len(Conds(u)) \in Nat /\ Len(Conds(l)) \in Nat
    BY <1>1, <2>1
  <2>7. \A u \in T : Lighttpd!Nearer(l, u)
    BY <2>4, <2>5, <2>6 DEF Lighttpd!Nearer
  <2>8. best \in T /\ \A u \in T : Lighttpd!Nearer(best, u)
    BY <2>4, <2>7
  <2> HIDE DEF best, T
  <2>9. best = l
    BY <2>4, <2>5, <2>6, <2>8 DEF Lighttpd!Nearer
  <2>10. Lighttpd!EffectiveFor(s, name) = conditionals[l].directives[name]
    BY <1>4, <2>9 DEF Lighttpd!EffectiveFor, best, T
  <2>11. \A b : Speaks(b, name, request) => b =< Block(l)
    BY <2>3 DEF Speaks
  <2>12. QED BY <2>3, <2>10, <2>11, LastIsMet
<1>5. QED BY <1>3, <1>4

-----------------------------------------------------------------------------
(* What the denied texts of a scope come to. *)

\* One more scope, as url_access_deny_texts takes it.
DenyStep(denied, t, s) ==
    IF ~Lighttpd!Says(t, Lighttpd!Deny) \/ ~Lighttpd!IsPrefix(conditionals[t].path, conditionals[s].path) THEN denied
    ELSE IF Lighttpd!Own(t, Lighttpd!Deny).operator = "=" THEN Lighttpd!Text(Lighttpd!Own(t, Lighttpd!Deny))
    ELSE denied \cup Lighttpd!Text(Lighttpd!Own(t, Lighttpd!Deny))

DenyLoop(n, start, s, g) ==
    [t \in 0 .. n |-> IF t = 0 THEN start ELSE DenyStep(g[t - 1], t, s)]

\* It takes one scope after another,
LEMMA DeniedExists ==
    ASSUME NEW n \in Nat, NEW start, NEW s
    PROVE  \E g : g = DenyLoop(n, start, s, g)
<1> DEFINE Start == start
           Step(g, t) == DenyStep(g[t - 1], t, s)
           Solves(g, m) == /\ g = [t \in 0 .. m |-> g[t]]
                           /\ g[0] = Start
                           /\ \A t \in 1 .. m : g[t] = Step(g, t)
           H == {m \in 0 .. n : \E g : Solves(g, m)}
<1>1. 0 \in H
  <2> HIDE DEF Start
  <2> DEFINE g == [t \in 0 .. 0 |-> Start]
  <2>1. g = [t \in 0 .. 0 |-> g[t]] /\ g[0] = Start
    OBVIOUS
  <2>2. Solves(g, 0)
    BY <2>1
  <2> HIDE DEF Solves, g
  <2>3. 0 \in 0 .. n
    OBVIOUS
  <2>4. QED BY <2>2, <2>3
<1>2. \A m \in 0 .. n - 1 : m \in H => m + 1 \in H
  <2> SUFFICES ASSUME NEW m \in 0 .. n - 1, m \in H PROVE m + 1 \in H
    OBVIOUS
  <2> HIDE DEF Start
  <2>1. PICK g : Solves(g, m)
    OBVIOUS
  <2> DEFINE last == DenyStep(g[m], m + 1, s)
             h == [t \in 0 .. m + 1 |-> IF t = m + 1 THEN last ELSE g[t]]
  <2>2. m \in Nat /\ m + 1 \in 0 .. n
    OBVIOUS
  <2>3. /\ h = [t \in 0 .. m + 1 |-> h[t]] /\ h[m + 1] = last
        /\ \A t \in 0 .. m : h[t] = g[t]
    BY <2>2
  <2> HIDE DEF h
  <2>4. h[0] = Start
    <3>1. g[0] = Start
      BY <2>1
    <3>2. 0 \in 0 .. m
      BY <2>2
    <3> HIDE DEF Solves, last, Step
    <3>3. QED BY <2>3, <3>1, <3>2
  <2>5. \A t \in 1 .. m + 1 : h[t] = Step(h, t)
    <3> SUFFICES ASSUME NEW t \in 1 .. m + 1 PROVE h[t] = Step(h, t)
      OBVIOUS
    <3>1. CASE t = m + 1
      <4>1. t - 1 = m /\ m \in 0 .. m
        BY <2>2, <3>1
      <4>2. h[t - 1] = g[m] /\ h[t] = last
        BY <2>3, <3>1, <4>1
      <4>3. QED BY <3>1, <4>2
    <3>2. CASE t # m + 1
      <4>1. t \in 1 .. m /\ t - 1 \in 0 .. m /\ t \in 0 .. m
        BY <2>2, <3>2
      <4>2. h[t] = g[t] /\ h[t - 1] = g[t - 1]
        BY <2>3, <4>1
      <4>3. QED BY <2>1, <4>1, <4>2
    <3>3. QED BY <3>1, <3>2
  <2>6. Solves(h, m + 1)
    BY <2>3, <2>4, <2>5
  <2> HIDE DEF Solves
  <2>7. QED BY <2>2, <2>6
<1>3. n \in H
  <2> HIDE DEF H
  <2>1. QED BY <1>1, <1>2, UpTo
<1>4. PICK g : Solves(g, n)
  BY <1>3
<1> DEFINE f == [t \in 0 .. n |-> IF t = 0 THEN Start ELSE Step(g, t)]
<1> HIDE DEF Start
<1>5. \A t \in 0 .. n : g[t] = f[t]
  <2> SUFFICES ASSUME NEW t \in 0 .. n PROVE g[t] = f[t]
    OBVIOUS
  <2>1. f[t] = IF t = 0 THEN Start ELSE Step(g, t)
    OBVIOUS
  <2>2. t = 0 \/ (t # 0 /\ t \in 1 .. n)
    OBVIOUS
  <2> HIDE DEF f
  <2>3. QED BY <1>4, <2>1, <2>2
<1>6. f = [t \in 0 .. n |-> f[t]]
  OBVIOUS
<1> HIDE DEF f
<1>7. g = f
  BY <1>4, <1>5, <1>6
<1>8. QED BY <1>7 DEF f, Start, DenyLoop

\* and for a scope that replaces what is denied comes to what it says itself.
LEMMA DeniedIsOwn ==
    ASSUME LighttpdInv, ReplacingAssumption, NEW s \in DOMAIN conditionals, Lighttpd!Says(s, Lighttpd!Deny)
    PROVE  Lighttpd!DeniedIn(s) = Lighttpd!Text(conditionals[s].directives[Lighttpd!Deny])
<1> DEFINE own == Lighttpd!Own(s, Lighttpd!Deny)
           start == Lighttpd!Text(Lighttpd!Global(Lighttpd!Deny))
           Loop(g) == [t \in 0 .. s |-> IF t = 0 THEN start ELSE DenyStep(g[t - 1], t, s)]
           upto == CHOOSE g : g = Loop(g)
<1>1. s \in Nat \ {0} /\ s \in 0 .. s
  BY DEF LighttpdInv, LighttpdTypeOK
<1>2. own = conditionals[s].directives[Lighttpd!Deny]
  BY DEF Lighttpd!Own
<1>3. own.operator = "="
  <2>1. conditionals[s].directives \in Said
    BY ConditionalIs DEF LighttpdInv
  <2>2. own.operator \in Operators
    BY <1>2, <2>1, SaidIs DEF Lighttpd!Says
  <2>3. QED BY <2>2 DEF ReplacingAssumption
<1>4. Lighttpd!IsPrefix(conditionals[s].path, conditionals[s].path)
  <2>1. conditionals[s].path \in Seq(Nat \X Nat)
    BY ConditionalIs DEF LighttpdInv, Way
  <2>2. QED BY <2>1, PrefixIs
<1>5. upto = Loop(upto)
  <2>1. \E g : g = Loop(g)
    <3>1. PICK first : first = start
      OBVIOUS
    <3>2. PICK g : g = DenyLoop(s, first, s, g)
      BY <1>1, DeniedExists
    <3>3. g = Loop(g)
      BY <3>1, <3>2 DEF DenyLoop
    <3> HIDE DEF Loop
    <3>4. QED BY <3>3
  <2> HIDE DEF Loop
  <2>2. QED BY <2>1
<1>6. Lighttpd!DeniedIn(s) = upto[s]
  BY DEF Lighttpd!DeniedIn, DenyStep
<1> HIDE DEF upto, start, own
<1>7. upto[s] = DenyStep(upto[s - 1], s, s)
  BY <1>1, <1>5
<1>8. DenyStep(upto[s - 1], s, s) = Lighttpd!Text(own)
  BY <1>3, <1>4 DEF DenyStep, own
<1>9. QED BY <1>2, <1>6, <1>7, <1>8

-----------------------------------------------------------------------------
(* What a check reports, by rule. *)

\* What a step that checks adds to the findings, and that it changes nothing else.
LEMMA ReportedIs ==
    ASSUME Lighttpd!Check
    PROVE  /\ UNCHANGED <<statements, branches, globals, conditionals, asked>>
           /\ \A r \in DOMAIN Reads : findings'[r] = Lighttpd!ViewFindings[r]
           /\ \A r \in DOMAIN Lighttpd!DenyRules({}) : findings'[r] = Lighttpd!DenyFindings[r]
           /\ findings'["mod_status_public"] = Lighttpd!Status
           /\ findings'["ssl_engine_not_enabled"] = Lighttpd!EngineNotEnabled
           /\ findings'["ssl_honor_cipher_order_missing"] = Lighttpd!CipherOrderMissing
<1> DEFINE F == Lighttpd!ViewFindings
           D == Lighttpd!DenyFindings
           O == Lighttpd!OtherFindings
<1>1. UNCHANGED <<statements, branches, globals, conditionals, asked>>
  BY DEF Lighttpd!Check, Lighttpd!vars
<1>2. DOMAIN F = DOMAIN Reads
  BY RulesRead DEF Lighttpd!ViewFindings
<1>3. DOMAIN D = {"url_access_deny_missing", "backup_temp_files_access_not_denied", "config_data_files_access_not_denied",
                  "generated_artifacts_access_not_denied", "vcs_metadata_access_not_denied"}
      /\ DOMAIN D = DOMAIN Lighttpd!DenyRules({})
  BY DEF Lighttpd!DenyFindings, Lighttpd!DenyRules
<1>4. /\ DOMAIN O = {"access_log_format_missing_fields", "mod_status_public", "ssl_engine_not_enabled",
                     "ssl_honor_cipher_order_missing", "mod_cgi_enabled", "mod_webdav_enabled", "weak_ssl_cipher_list",
                     "ssl_pemfile_missing", "missing_http_method_restrictions"}
      /\ O["mod_status_public"] = Lighttpd!Status
      /\ O["ssl_engine_not_enabled"] = Lighttpd!EngineNotEnabled
      /\ O["ssl_honor_cipher_order_missing"] = Lighttpd!CipherOrderMissing
  BY DEF Lighttpd!OtherFindings
<1>5. \A r \in DOMAIN D \cup {"mod_status_public", "ssl_engine_not_enabled", "ssl_honor_cipher_order_missing"} :
          r \notin DOMAIN Reads
  BY <1>3 DEF Reads
<1>6. \A r \in {"mod_status_public", "ssl_engine_not_enabled", "ssl_honor_cipher_order_missing"} :
          r \in DOMAIN O /\ r \notin DOMAIN D
  BY <1>3, <1>4
<1>7. findings' = Lighttpd!Both(F, Lighttpd!Both(D, O))
  BY DEF Lighttpd!Check
<1> HIDE DEF F, D, O
<1>8. \A r \in DOMAIN F : findings'[r] = F[r]
  BY <1>7 DEF Lighttpd!Both
<1>9. \A r \in DOMAIN D : findings'[r] = D[r]
  BY <1>2, <1>5, <1>7 DEF Lighttpd!Both
<1>10. \A r \in {"mod_status_public", "ssl_engine_not_enabled", "ssl_honor_cipher_order_missing"} : findings'[r] = O[r]
  BY <1>2, <1>5, <1>6, <1>7 DEF Lighttpd!Both
<1>11. QED BY <1>1, <1>2, <1>3, <1>4, <1>8, <1>9, <1>10 DEF F, D, O

\* Rules of one assignment are asked of the file and of what each scope says itself,
LEMMA AssignmentsReport ==
    ASSUME Lighttpd!Check, ~Lighttpd!RedirectOnly, asked = Lighttpd!Unknown, NEW r \in Lighttpd!AssignmentRules
    PROVE  /\ r \in DOMAIN Reads /\ \E name \in Lighttpd!DirectiveNames : Reads[r] = {name}
           /\ Lighttpd!Asks(Lighttpd!FileView)[r] \subseteq findings'[r]
           /\ \A s \in DOMAIN conditionals : Lighttpd!Asks(Lighttpd!OwnView(s))[r] \subseteq findings'[r]
<1>1. r \in DOMAIN Reads /\ \E name \in Lighttpd!DirectiveNames : Reads[r] = {name}
  BY DEF Lighttpd!AssignmentRules, Reads, Lighttpd!DirectiveNames, Lighttpd!Headers
<1>2. r \notin Lighttpd!MergedRules /\ r \notin Lighttpd!SettledRules
  BY DEF Lighttpd!AssignmentRules, Lighttpd!MergedRules, Lighttpd!SettledRules, Lighttpd!LogRules
<1>3. r \in DOMAIN Lighttpd!Asks(Lighttpd!FileView)
  BY <1>1, RulesRead
<1>4. Lighttpd!ViewFindings[r] =
          Lighttpd!Asks(Lighttpd!FileView)[r] \cup UNION {Lighttpd!Asks(Lighttpd!OwnView(s))[r] : s \in DOMAIN conditionals}
  BY <1>2, <1>3 DEF Lighttpd!ViewFindings, Lighttpd!Spared
<1>5. findings'[r] = Lighttpd!ViewFindings[r]
  BY <1>1, ReportedIs
<1>6. QED BY <1>1, <1>4, <1>5

\* and those of several of the file and of what each scope is given that says one of them.
LEMMA ScopesReport ==
    ASSUME Lighttpd!Check, ~Lighttpd!RedirectOnly, asked = Lighttpd!Unknown, NEW r \in DOMAIN Lighttpd!Interesting
    PROVE  /\ r \in DOMAIN Reads /\ Reads[r] \subseteq Lighttpd!Interesting[r]
           /\ Lighttpd!Interesting[r] \subseteq Lighttpd!DirectiveNames
           /\ Lighttpd!Asks(Lighttpd!FileView)[r] \subseteq findings'[r]
           /\ \A s \in DOMAIN conditionals :
                  (\E name \in Lighttpd!Interesting[r] : Lighttpd!Says(s, name)) =>
                      Lighttpd!Asks(Lighttpd!ScopeView(s))[r] \subseteq findings'[r]
<1>1. /\ r \in DOMAIN Reads /\ Reads[r] \subseteq Lighttpd!Interesting[r]
      /\ Lighttpd!Interesting[r] \subseteq Lighttpd!DirectiveNames
  BY DEF Lighttpd!Interesting, Reads, Lighttpd!DirectiveNames, Lighttpd!Conf, Lighttpd!PolicyNames
<1>2. r \notin Lighttpd!MergedRules /\ r \notin Lighttpd!SettledRules /\ r \notin Lighttpd!AssignmentRules
  BY DEF Lighttpd!Interesting, Lighttpd!AssignmentRules, Lighttpd!MergedRules, Lighttpd!SettledRules, Lighttpd!LogRules
<1>3. r \in DOMAIN Lighttpd!Asks(Lighttpd!FileView)
  BY <1>1, RulesRead
<1>4. Lighttpd!ViewFindings[r] =
          Lighttpd!Asks(Lighttpd!FileView)[r] \cup
          UNION {Lighttpd!Asks(Lighttpd!ScopeView(s))[r] :
                     s \in {t \in DOMAIN conditionals : \E name \in Lighttpd!Interesting[r] : Lighttpd!Says(t, name)}}
  BY <1>2, <1>3 DEF Lighttpd!ViewFindings, Lighttpd!Spared
<1>5. findings'[r] = Lighttpd!ViewFindings[r]
  BY <1>1, ReportedIs
<1>6. QED BY <1>1, <1>4, <1>5

-----------------------------------------------------------------------------
(* Silence is earned: what a request meets is reported. *)

\* The same directives say the same.
LEMMA SameNow ==
    ASSUME NEW d, NEW e, SaySame(d, e)
    PROVE  /\ Lighttpd!Text(d) = Lighttpd!Text(e)
           /\ Lighttpd!On(d) = Lighttpd!On(e)
           /\ \A text : Lighttpd!Is(d, text) <=> Lighttpd!Is(e, text)
           /\ Lighttpd!Enabled(d) <=> Lighttpd!Enabled(e)
<1>1. Lighttpd!Text(d) = Lighttpd!Text(e)
  BY DEF SaySame, Lighttpd!Text
<1>2. Lighttpd!On(d) = Lighttpd!On(e)
  BY DEF SaySame, Lighttpd!On, Lighttpd!Absent
<1>3. \A text : Lighttpd!Is(d, text) <=> Lighttpd!Is(e, text)
  BY <1>1 DEF SaySame, Lighttpd!Is
<1>4. QED BY <1>1, <1>2, <1>3 DEF Lighttpd!Enabled

\* What views hold.
LEMMA ViewsAre ==
    ASSUME NEW name \in Lighttpd!DirectiveNames, NEW s
    PROVE  /\ Lighttpd!FileView[name] = Lighttpd!Global(name)
           /\ Lighttpd!ScopeView(s)[name] = Lighttpd!EffectiveFor(s, name)
           /\ Lighttpd!OwnView(s)[name] = Lighttpd!Own(s, name)
           /\ \A said : Lighttpd!SaidView(s, said)[name] =
                  IF name = said THEN Lighttpd!Own(s, name) ELSE Lighttpd!EffectiveFor(s, name)
BY DEF Lighttpd!FileView, Lighttpd!ScopeView, Lighttpd!OwnView, Lighttpd!SaidView, Lighttpd!View

\* What is met of one name is what the file says or what a scope says itself.
LEMMA OneIsSeen ==
    ASSUME LighttpdInv, ReplacingAssumption, Lighttpd!InOrder,
           NEW name \in Lighttpd!DirectiveNames, NEW request
    PROVE  \/ SaySame(Lighttpd!Global(name), Lighttpd!Met(request)[name])
           \/ \E s \in DOMAIN conditionals :
                  /\ Lighttpd!Says(s, name) /\ Lighttpd!Active(conditionals[s].block, request)
                  /\ SaySame(Lighttpd!Own(s, name), Lighttpd!Met(request)[name])
<1> DEFINE T == {b \in Lighttpd!Blocks : Speaks(b, name, request)}
<1>1. CASE T = {}
  <2>1. \A b : ~Speaks(b, name, request)
    BY <1>1 DEF Speaks
  <2>2. QED BY <2>1, GlobalIsMet
<1>2. CASE T # {}
  <2>1. PICK s \in DOMAIN conditionals : conditionals[s].block \in T /\ \A b \in T : b =< conditionals[s].block
    BY <1>2, LastScope
  <2>2. \A b : Speaks(b, name, request) => b =< conditionals[s].block
    BY <2>1 DEF Speaks
  <2>3. Lighttpd!Says(s, name) /\ SaySame(conditionals[s].directives[name], Lighttpd!Met(request)[name])
    BY <2>1, <2>2, LastIsMet
  <2>4. Lighttpd!Own(s, name) = conditionals[s].directives[name]
    BY <2>3 DEF Lighttpd!Own
  <2>5. QED BY <2>1, <2>3, <2>4 DEF Speaks
<1>3. QED BY <1>1, <1>2

\* What is met of several names is what the file says, or what a scope is given that says one,
\* and what the scope says itself is met too.
LEMMA SeveralAreSeen ==
    ASSUME VocabularyAssumption, LighttpdInv, ReplacingAssumption, Lighttpd!InOrder,
           Lighttpd!IfsOnly(Lighttpd!Blocks), NEW names \in SUBSET Lighttpd!DirectiveNames,
           NEW request, Lighttpd!OneLine(request)
    PROVE  \/ \A name \in names : SaySame(Lighttpd!Global(name), Lighttpd!Met(request)[name])
           \/ \E s \in DOMAIN conditionals :
                  /\ \E name \in names : Lighttpd!Says(s, name)
                  /\ Lighttpd!Active(conditionals[s].block, request)
                  /\ \A name \in names : SaySame(Lighttpd!EffectiveFor(s, name), Lighttpd!Met(request)[name])
                  /\ \A name \in names : Lighttpd!Says(s, name) =>
                         SaySame(Lighttpd!Own(s, name), Lighttpd!Met(request)[name])
<1> DEFINE T == {b \in Lighttpd!Blocks : \E name \in names : Speaks(b, name, request)}
<1>1. CASE T = {}
  <2>1. \A name \in names : \A b : ~Speaks(b, name, request)
    BY <1>1 DEF Speaks
  <2>2. QED BY <2>1, GlobalIsMet
<1>2. CASE T # {}
  <2>1. PICK s \in DOMAIN conditionals : conditionals[s].block \in T /\ \A b \in T : b =< conditionals[s].block
    BY <1>2, LastScope
  <2> DEFINE a == conditionals[s].block
  <2>2. Lighttpd!Active(a, request) /\ a \in Lighttpd!Blocks
    BY <2>1 DEF Speaks
  <2>3. \E name \in names : Lighttpd!Says(s, name)
    BY <2>1, SaysIs DEF Speaks
  <2>4. \A b \in T : b \in Lighttpd!Around(a)
    <3> SUFFICES ASSUME NEW b \in T PROVE b \in Lighttpd!Around(a)
      OBVIOUS
    <3>1. b \in Lighttpd!Blocks /\ Lighttpd!Active(b, request) /\ b =< a /\ b \in Nat /\ a \in Nat
      BY <2>1, <2>2 DEF Speaks, Lighttpd!Blocks, LighttpdInv, LighttpdTypeOK
    <3>2. b \in Lighttpd!Around(a) \/ a \in Lighttpd!Around(b)
      BY <2>2, <3>1 DEF Lighttpd!OneLine
    <3>3. a \in Lighttpd!Around(b) => a =< b
      BY <3>1, AroundNests
    <3>4. a \in Lighttpd!Around(a)
      BY <2>2, AroundNests
    <3> HIDE DEF a
    <3>5. a \in Lighttpd!Around(b) => a = b
      BY <3>1, <3>3
    <3>6. QED BY <3>2, <3>4, <3>5
  <2>5. \A name \in names : SaySame(Lighttpd!EffectiveFor(s, name), Lighttpd!Met(request)[name])
    <3> SUFFICES ASSUME NEW name \in names
                 PROVE  SaySame(Lighttpd!EffectiveFor(s, name), Lighttpd!Met(request)[name])
      OBVIOUS
    <3>1. \A b : Speaks(b, name, request) => b \in Lighttpd!Around(a)
      BY <2>4 DEF Speaks
    <3>2. QED BY <2>2, <3>1, EffectiveIsMet
  <2>6. \A name \in names : Lighttpd!Says(s, name) => SaySame(Lighttpd!Own(s, name), Lighttpd!Met(request)[name])
    <3> SUFFICES ASSUME NEW name \in names, Lighttpd!Says(s, name)
                 PROVE  SaySame(Lighttpd!Own(s, name), Lighttpd!Met(request)[name])
      OBVIOUS
    <3>1. Speaks(a, name, request)
      BY <2>2, SaysIs DEF Speaks
    <3>2. \A b : Speaks(b, name, request) => b =< a
      BY <2>1 DEF Speaks
    <3>3. SaySame(conditionals[s].directives[name], Lighttpd!Met(request)[name])
      BY <3>1, <3>2, LastIsMet
    <3>4. QED BY <3>3 DEF Lighttpd!Own
  <2>7. QED BY <2>2, <2>3, <2>5, <2>6
<1>3. QED BY <1>1, <1>2

\* Rules of one assignment report what is wrong with it for any request,
LEMMA AssignmentsAreEarned ==
    ASSUME LighttpdInv, ReplacingAssumption, Lighttpd!Check, Lighttpd!InOrder, ~Lighttpd!RedirectOnly,
           asked = Lighttpd!Unknown, NEW request, NEW r \in Lighttpd!AssignmentRules
    PROVE  Lighttpd!Asks(Lighttpd!Met(request))[r] \subseteq findings'[r]
<1>1. PICK name \in Lighttpd!DirectiveNames : Reads[r] = {name}
  BY AssignmentsReport
<1>2. r \in DOMAIN Reads /\ statements' = statements
  BY AssignmentsReport, ReportedIs
<1>3. PICK met : met = Lighttpd!Met(request)
  OBVIOUS
<1>4. CASE SaySame(Lighttpd!Global(name), Lighttpd!Met(request)[name])
  <2>1. PICK v : v = Lighttpd!FileView
    OBVIOUS
  <2>2. \A n \in Reads[r] : SaySame(v[n], met[n])
    <3>1. v[name] = Lighttpd!Global(name)
      BY <2>1, ViewsAre
    <3>2. QED BY <1>1, <1>3, <1>4, <3>1
  <2>3. Lighttpd!Asks(v)[r] = Lighttpd!Asks(met)[r]
    BY <1>2, <2>2, SameAnswers
  <2>4. QED BY <1>3, <2>1, <2>3, AssignmentsReport
<1>5. ASSUME NEW s \in DOMAIN conditionals, SaySame(Lighttpd!Own(s, name), Lighttpd!Met(request)[name])
      PROVE  Lighttpd!Asks(Lighttpd!Met(request))[r] \subseteq findings'[r]
  <2>1. PICK v : v = Lighttpd!OwnView(s)
    OBVIOUS
  <2>2. \A n \in Reads[r] : SaySame(v[n], met[n])
    <3>1. v[name] = Lighttpd!Own(s, name)
      BY <2>1, ViewsAre
    <3>2. QED BY <1>1, <1>3, <1>5, <3>1
  <2>3. Lighttpd!Asks(v)[r] = Lighttpd!Asks(met)[r]
    BY <1>2, <2>2, SameAnswers
  <2>4. QED BY <1>3, <2>1, <2>3, AssignmentsReport
<1>6. QED BY <1>4, <1>5, OneIsSeen

\* those of several for any that nothing but nested blocks apply to,
LEMMA ScopesAreEarned ==
    ASSUME VocabularyAssumption, LighttpdInv, ReplacingAssumption, Lighttpd!Check, Lighttpd!InOrder,
           ~Lighttpd!RedirectOnly, asked = Lighttpd!Unknown, Lighttpd!IfsOnly(Lighttpd!Blocks),
           NEW request, Lighttpd!OneLine(request), NEW r \in DOMAIN Lighttpd!Interesting
    PROVE  Lighttpd!Asks(Lighttpd!Met(request))[r] \subseteq findings'[r]
<1> DEFINE names == Lighttpd!Interesting[r]
<1>1. r \in DOMAIN Reads /\ Reads[r] \subseteq names /\ names \subseteq Lighttpd!DirectiveNames
  BY ScopesReport
<1>2. statements' = statements
  BY ReportedIs
<1>3. PICK met : met = Lighttpd!Met(request)
  OBVIOUS
<1> HIDE DEF names
<1>4. CASE \A name \in names : SaySame(Lighttpd!Global(name), Lighttpd!Met(request)[name])
  <2>1. PICK v : v = Lighttpd!FileView
    OBVIOUS
  <2>2. \A name \in Reads[r] : SaySame(v[name], met[name])
    BY <1>1, <1>3, <1>4, <2>1, ViewsAre
  <2>3. Lighttpd!Asks(v)[r] = Lighttpd!Asks(met)[r]
    BY <1>1, <1>2, <2>2, SameAnswers
  <2>4. QED BY <1>3, <2>1, <2>3, ScopesReport
<1>5. ASSUME NEW s \in DOMAIN conditionals, \E name \in names : Lighttpd!Says(s, name),
             \A name \in names : SaySame(Lighttpd!EffectiveFor(s, name), Lighttpd!Met(request)[name])
      PROVE  Lighttpd!Asks(Lighttpd!Met(request))[r] \subseteq findings'[r]
  <2>1. PICK v : v = Lighttpd!ScopeView(s)
    OBVIOUS
  <2>2. \A name \in Reads[r] : SaySame(v[name], met[name])
    BY <1>1, <1>3, <1>5, <2>1, ViewsAre
  <2>3. Lighttpd!Asks(v)[r] = Lighttpd!Asks(met)[r]
    BY <1>1, <1>2, <2>2, SameAnswers
  <2>4. QED BY <1>3, <1>5, <2>1, <2>3, ScopesReport DEF names
<1>6. QED BY <1>1, <1>4, <1>5, SeveralAreSeen

\* so does the rule for the order of ciphers, where scopes that say it say TLS too,
LEMMA CipherOrderIsEarned ==
    ASSUME VocabularyAssumption, LighttpdInv, ReplacingAssumption, Lighttpd!Check, Lighttpd!InOrder,
           Lighttpd!IfsOnly(Lighttpd!Blocks), Lighttpd!OrderWithEngine,
           NEW request, Lighttpd!OneLine(request)
    PROVE  Lighttpd!ssl_honor_cipher_order_missing(Lighttpd!Met(request))
               \subseteq findings'["ssl_honor_cipher_order_missing"]
<1> DEFINE names == {"ssl.engine", "ssl.honor-cipher-order"}
           met == Lighttpd!Met(request)
           rule(v) == Lighttpd!ssl_honor_cipher_order_missing(v)
<1>1. names \subseteq Lighttpd!DirectiveNames
  BY DEF Lighttpd!DirectiveNames
<1>2. findings'["ssl_honor_cipher_order_missing"] = Lighttpd!CipherOrderMissing
  BY ReportedIs
<1>3. ASSUME NEW v, \A name \in names : SaySame(v[name], met[name]) PROVE rule(v) = rule(met)
  BY <1>3, SameNow DEF Lighttpd!ssl_honor_cipher_order_missing, Lighttpd!When
<1> HIDE DEF rule, names, met
<1>4. CASE \A name \in names : SaySame(Lighttpd!Global(name), met[name])
  <2>1. PICK v : v = Lighttpd!FileView
    OBVIOUS
  <2>2. rule(v) = rule(met)
    BY <1>1, <1>3, <1>4, <2>1, ViewsAre
  <2>3. QED BY <1>2, <2>1, <2>2 DEF rule, met, Lighttpd!CipherOrderMissing
<1>5. ASSUME NEW s \in DOMAIN conditionals, \E name \in names : Lighttpd!Says(s, name),
             \A name \in names : SaySame(Lighttpd!EffectiveFor(s, name), met[name]),
             \A name \in names : Lighttpd!Says(s, name) => SaySame(Lighttpd!Own(s, name), met[name])
      PROVE  rule(met) \subseteq findings'["ssl_honor_cipher_order_missing"]
  <2>1. Lighttpd!Says(s, "ssl.engine")
    BY <1>5 DEF names, Lighttpd!OrderWithEngine
  <2>2. PICK v : v = Lighttpd!SaidView(s, "ssl.engine")
    OBVIOUS
  <2>3. \A name \in names : SaySame(v[name], met[name])
    BY <1>1, <1>5, <2>1, <2>2, ViewsAre
  <2>4. rule(v) = rule(met)
    BY <1>3, <2>3
  <2>5. QED BY <1>2, <2>1, <2>2, <2>4 DEF rule, Lighttpd!CipherOrderMissing
<1>6. QED BY <1>1, <1>4, <1>5, SeveralAreSeen DEF rule, met

\* and those for what is denied.
LEMMA DeniedIsEarned ==
    ASSUME LighttpdInv, ReplacingAssumption, Lighttpd!Check, Lighttpd!InOrder, ~Lighttpd!RedirectOnly,
           asked = Lighttpd!Unknown, NEW request, NEW r \in DOMAIN Lighttpd!DenyRules({})
    PROVE  Lighttpd!DenyRules(Lighttpd!Text(Lighttpd!Met(request)[Lighttpd!Deny]))[r] \subseteq findings'[r]
<1> DEFINE name == Lighttpd!Deny
           met == Lighttpd!Text(Lighttpd!Met(request)[name])
<1>1. name \in Lighttpd!DirectiveNames
  BY DEF Lighttpd!DirectiveNames
<1>2. met \in Lighttpd!Denied
  <2>1. CASE SaySame(Lighttpd!Global(name), Lighttpd!Met(request)[name])
    BY <2>1, SameNow DEF Lighttpd!Denied
  <2>2. ASSUME NEW s \in DOMAIN conditionals, Lighttpd!Says(s, name),
               SaySame(Lighttpd!Own(s, name), Lighttpd!Met(request)[name])
        PROVE  met \in Lighttpd!Denied
    <3>1. Lighttpd!DeniedIn(s) = Lighttpd!Text(Lighttpd!Own(s, name))
      BY <2>2, DeniedIsOwn DEF Lighttpd!Own
    <3>2. Lighttpd!Text(Lighttpd!Own(s, name)) = met
      BY <2>2, SameNow
    <3>3. QED BY <3>1, <3>2 DEF Lighttpd!Denied
  <2>3. QED BY <1>1, <2>1, <2>2, OneIsSeen
<1> HIDE DEF met
<1>3. Lighttpd!DenyFindings[r] = UNION {Lighttpd!DenyRules(text)[r] : text \in Lighttpd!Denied}
  BY DEF Lighttpd!DenyFindings
<1>4. findings'[r] = Lighttpd!DenyFindings[r]
  BY ReportedIs
<1>5. QED BY <1>2, <1>3, <1>4 DEF met

\* Status that others than local addresses see is reported, where conditions on the address
\* let only these in,
LEMMA StatusIsEarned ==
    ASSUME VocabularyAssumption, LighttpdInv, Remembers(conditionals, globals, open), ReplacingAssumption,
           Lighttpd!Check, Lighttpd!InOrder, asked = Lighttpd!Unknown,
           Lighttpd!IfsOnly(Lighttpd!Blocks), Lighttpd!LocalOnly,
           NEW request, request["remoteip"] # <<"local">>
    PROVE  Lighttpd!On(Lighttpd!Met(request)["status.status-url"]) \subseteq findings'["mod_status_public"]
<1> DEFINE name == "status.status-url"
           met == Lighttpd!Met(request)[name]
           rule(v) == Lighttpd!mod_status_public(v)
<1>1. name \in Lighttpd!DirectiveNames
  BY DEF Lighttpd!DirectiveNames
<1>2. /\ rule(Lighttpd!FileView) \subseteq findings'["mod_status_public"]
      /\ \A s \in DOMAIN conditionals : rule(Lighttpd!OwnView(s)) \subseteq findings'["mod_status_public"]
  <2>1. findings'["mod_status_public"] = Lighttpd!Status
    BY ReportedIs
  <2>2. Lighttpd!Status =
            rule(Lighttpd!FileView) \cup UNION {rule(Lighttpd!OwnView(s)) : s \in DOMAIN conditionals}
    BY DEF Lighttpd!Status
  <2> HIDE DEF rule
  <2>3. QED BY <2>1, <2>2
<1>3. ASSUME NEW v, SaySame(v[name], met), ~Lighttpd!Restricted(v[name]) PROVE Lighttpd!On(met) = rule(v)
  BY <1>3, SameNow DEF Lighttpd!mod_status_public, Lighttpd!When
<1> HIDE DEF rule, met
<1>4. CASE SaySame(Lighttpd!Global(name), met)
  <2>1. Lighttpd!Global(name).conditions = <<>>
    BY DEF Lighttpd!Global, Lighttpd!Absent, Remembers, Under
  <2>2. ~Lighttpd!Restricted(Lighttpd!Global(name))
    BY <2>1 DEF Lighttpd!Restricted, Lighttpd!ToSet
  <2>3. PICK v : v = Lighttpd!FileView
    OBVIOUS
  <2>4. Lighttpd!On(met) = rule(v)
    BY <1>1, <1>3, <1>4, <2>2, <2>3, ViewsAre
  <2>5. QED BY <1>2, <2>3, <2>4 DEF met
<1>5. ASSUME NEW s \in DOMAIN conditionals, Lighttpd!Says(s, name),
             Lighttpd!Active(conditionals[s].block, request), SaySame(Lighttpd!Own(s, name), met)
      PROVE  Lighttpd!On(met) \subseteq findings'["mod_status_public"]
  <2>1. Lighttpd!Own(s, name).conditions = conditionals[s].conditions
    BY <1>5 DEF Lighttpd!Own, Lighttpd!Says, Remembers, Under
  <2>2. \A c \in Lighttpd!ToSet(conditionals[s].conditions) : c \in Conditions /\ Meets(c, request)
    BY <1>5, ScopesMet
  <2>3. \A c \in Lighttpd!ToSet(conditionals[s].conditions) : c.variable # "remoteip"
    <3> SUFFICES ASSUME NEW c \in Lighttpd!ToSet(conditionals[s].conditions), c.variable = "remoteip" PROVE FALSE
      OBVIOUS
    <3>1. Meets(c, request) /\ c.operator = "==" /\ c.value = <<"local">>
      BY <2>2 DEF Lighttpd!LocalOnly
    <3>2. QED BY <3>1 DEF Meets, Lighttpd!Evaluate
  <2>4. ~Lighttpd!Restricted(Lighttpd!Own(s, name))
    BY <2>1, <2>3 DEF Lighttpd!Restricted
  <2>5. PICK v : v = Lighttpd!OwnView(s)
    OBVIOUS
  <2>6. Lighttpd!On(met) = rule(v)
    BY <1>1, <1>3, <1>5, <2>4, <2>5, ViewsAre
  <2>7. QED BY <1>2, <2>5, <2>6
<1>6. QED BY <1>1, <1>4, <1>5, OneIsSeen DEF met

\* and a port for TLS that is served without it, where no block nests and none takes TLS back.
LEMMA EngineIsEarned ==
    ASSUME VocabularyAssumption, LighttpdInv, ReplacingAssumption, Lighttpd!Check, Lighttpd!InOrder,
           Lighttpd!IfsOnly(Lighttpd!Blocks), Lighttpd!Nested = {}, Lighttpd!EngineStays, Lighttpd!SocketsEqual,
           NEW request, Lighttpd!OneLine(request), request["socket"] = <<"443">>
    PROVE  Lighttpd!ssl_engine_not_enabled(Lighttpd!Met(request)) \subseteq findings'["ssl_engine_not_enabled"]
<1> DEFINE names == {"server.port", "ssl.engine"}
           met == Lighttpd!Met(request)
           rule(v) == Lighttpd!ssl_engine_not_enabled(v)
<1>1. names \subseteq Lighttpd!DirectiveNames /\ "ssl.engine" \in Lighttpd!DirectiveNames
  BY DEF Lighttpd!DirectiveNames
<1>2. SUFFICES ASSUME ~Lighttpd!Enabled(met["ssl.engine"])
               PROVE  rule(met) \subseteq findings'["ssl_engine_not_enabled"]
  BY DEF Lighttpd!ssl_engine_not_enabled, Lighttpd!When
<1>3. ASSUME NEW v, \A name \in names : SaySame(v[name], met[name]) PROVE rule(v) = rule(met)
  BY <1>3, SameNow DEF Lighttpd!ssl_engine_not_enabled, Lighttpd!When
<1>4. findings'["ssl_engine_not_enabled"] = Lighttpd!EngineNotEnabled
  BY ReportedIs
<1> HIDE DEF rule, met
<1>5. \A b : ~Speaks(b, "ssl.engine", request)
  <2> DEFINE T == {b \in Lighttpd!Blocks : Speaks(b, "ssl.engine", request)}
  <2>1. SUFFICES ASSUME T # {} PROVE FALSE
    BY DEF Speaks
  <2>2. PICK s \in DOMAIN conditionals : conditionals[s].block \in T /\ \A b \in T : b =< conditionals[s].block
    BY <2>1, LastScope
  <2>3. \A b : Speaks(b, "ssl.engine", request) => b =< conditionals[s].block
    BY <2>2 DEF Speaks
  <2>4. Lighttpd!Says(s, "ssl.engine") /\ SaySame(conditionals[s].directives["ssl.engine"], met["ssl.engine"])
    BY <1>1, <2>2, <2>3, LastIsMet DEF met
  <2>5. Lighttpd!Enabled(conditionals[s].directives["ssl.engine"])
    BY <2>4 DEF Lighttpd!EngineStays, Lighttpd!Own
  <2>6. QED BY <1>2, <2>4, <2>5, SameNow
<1>6. \A s \in DOMAIN conditionals : Lighttpd!HttpsSocket(s) => ~Lighttpd!Enabled(Lighttpd!EffectiveFor(s, "ssl.engine"))
  <2> SUFFICES ASSUME NEW s \in DOMAIN conditionals, Lighttpd!HttpsSocket(s)
               PROVE  ~Lighttpd!Enabled(Lighttpd!EffectiveFor(s, "ssl.engine"))
    OBVIOUS
  <2> DEFINE b == conditionals[s].block
             conditions == Lighttpd!ToSet(conditionals[s].conditions)
  <2>1. b \in DOMAIN branches /\ Nested(conditionals, branches, conditionals[s])
    BY DEF LighttpdInv, ScopesStand, Situated
  <2>2. conditionals[s].conditions = <<branches[b].condition>>
    BY <2>1 DEF Nested, Lighttpd!Nested, Lighttpd!Blocks
  <2>3. conditions = {branches[b].condition}
    BY <2>2 DEF Lighttpd!ToSet
  <2> HIDE DEF b, conditions
  <2>4. PICK c \in conditions : c.variable = "socket" /\ c.value = <<"443">>
    BY DEF Lighttpd!HttpsSocket, conditions
  <2>5. conditions \subseteq Conditions
    BY ScopesMet DEF conditions
  <2>6. Meets(c, request)
    BY <2>4, <2>5 DEF Meets, Lighttpd!Evaluate, Lighttpd!SocketsEqual
  <2>7. \A e \in conditions : Meets(e, request)
    BY <2>3, <2>4, <2>6
  <2>8. Lighttpd!Active(conditionals[s].block, request)
    BY <2>7, ScopesMet DEF conditions
  <2>9. SaySame(Lighttpd!EffectiveFor(s, "ssl.engine"), met["ssl.engine"])
    BY <1>1, <1>5, <2>8, EffectiveIsMet DEF met
  <2>10. QED BY <1>2, <2>9, SameNow
<1>7. CASE \A name \in names : SaySame(Lighttpd!Global(name), met[name])
  <2>1. PICK v : v = Lighttpd!FileView
    OBVIOUS
  <2>2. \A name \in names : SaySame(v[name], met[name])
    BY <1>1, <1>7, <2>1, ViewsAre
  <2>3. rule(v) = rule(met)
    BY <1>3, <2>2
  <2>4. QED BY <1>4, <1>6, <2>1, <2>3 DEF rule, Lighttpd!EngineNotEnabled, Lighttpd!When
<1>8. ASSUME NEW s \in DOMAIN conditionals, \E name \in names : Lighttpd!Says(s, name),
             Lighttpd!Active(conditionals[s].block, request),
             \A name \in names : SaySame(Lighttpd!EffectiveFor(s, name), met[name]),
             \A name \in names : Lighttpd!Says(s, name) => SaySame(Lighttpd!Own(s, name), met[name])
      PROVE  rule(met) \subseteq findings'["ssl_engine_not_enabled"]
  <2>1. ~Lighttpd!Says(s, "ssl.engine")
    <3>1. conditionals[s].block \in Lighttpd!Blocks
      BY OneScopeEach
    <3>2. QED BY <1>5, <1>8, <3>1, SaysIs DEF Speaks
  <2>2. Lighttpd!Says(s, "server.port")
    BY <1>8, <2>1
  <2>3. PICK v : v = Lighttpd!SaidView(s, "server.port")
    OBVIOUS
  <2>4. \A name \in names : SaySame(v[name], met[name])
    BY <1>1, <1>8, <2>2, <2>3, ViewsAre
  <2>5. rule(v) = rule(met)
    BY <1>3, <2>4
  <2>6. QED BY <1>4, <2>2, <2>3, <2>5 DEF rule, Lighttpd!EngineNotEnabled
<1> HIDE DEF names
<1>9. QED BY <1>1, <1>7, <1>8, SeveralAreSeen DEF met

-----------------------------------------------------------------------------
(* A named host: its view says what is in force for it. *)

\* The view of the host says what any request to it meets.
LEMMA HostViewSaysInForce ==
    ASSUME LighttpdInv, VocabularyAssumption, ReplacingAssumption, \A c \in Conditions : c.variable = "host",
           Lighttpd!InOrder, Lighttpd!IfsOnly(Lighttpd!Parents),
           NEW request \in Lighttpd!Requests, request["host"] = asked, NEW name \in Lighttpd!DirectiveNames
    PROVE  SaySame(Lighttpd!MergedView[name], Lighttpd!Met(request)[name])
<1> DEFINE merged == Lighttpd!Merged(name, asked)
<1>1. asked \in Hosts
  BY DEF Lighttpd!Requests
<1>2. Lighttpd!MergedView[name] = merged
  BY DEF Lighttpd!MergedView, Lighttpd!View
<1>3. merged.value = Lighttpd!InForce(name, request)
  BY HostValueIsInForce
<1>4. merged = Lighttpd!Absent \/ merged.value # <<>>
  <2>1. \/ merged = Lighttpd!Global(name)
        \/ \E t \in DOMAIN conditionals :
               ScopeIsMet(t, name, asked) /\ merged = conditionals[t].directives[name]
    BY <1>1, MergedIsLast
  <2>2. CASE merged = Lighttpd!Global(name)
    BY <2>2 DEF LighttpdInv, StatementsStand, Heard, Lighttpd!Global
  <2>3. CASE \E t \in DOMAIN conditionals :
                 ScopeIsMet(t, name, asked) /\ merged = conditionals[t].directives[name]
    BY <2>3 DEF LighttpdInv, StatementsStand, Heard, ScopeIsMet
  <2>4. QED BY <2>1, <2>2, <2>3
<1>5. Lighttpd!Absent.value = <<>>
  BY DEF Lighttpd!Absent
<1> HIDE DEF merged
<1>6. QED BY <1>2, <1>3, <1>4, <1>5, MetIs DEF SaySame

\* HostViewIsExact, SilenceIsEarned, EngineIsOn and StatusIsRestricted, of what was reported.
HostExact(reported) ==
    /\ Lighttpd!InOrder /\ ~Lighttpd!RedirectOnly /\ asked # Lighttpd!Unknown
    /\ Lighttpd!Variables = {"host"} /\ Lighttpd!IfsOnly(Lighttpd!Parents)
    => \A request \in Lighttpd!Requests : request["host"] = asked =>
           \A r \in DOMAIN Reads : reported[r] = Lighttpd!Asks(Lighttpd!Met(request))[r]

Silent(met, reported) ==
    /\ \A r \in Lighttpd!AssignmentRules \cup DOMAIN Lighttpd!Interesting : Lighttpd!Asks(met)[r] \subseteq reported[r]
    /\ Lighttpd!OrderWithEngine =>
           Lighttpd!ssl_honor_cipher_order_missing(met) \subseteq reported["ssl_honor_cipher_order_missing"]
    /\ \A r \in DOMAIN Lighttpd!DenyRules({}) :
           Lighttpd!DenyRules(Lighttpd!Text(met[Lighttpd!Deny]))[r] \subseteq reported[r]
Engine(met, reported) ==
    Lighttpd!Nested = {} /\ Lighttpd!EngineStays /\ Lighttpd!SocketsEqual =>
        Lighttpd!ssl_engine_not_enabled(met) \subseteq reported["ssl_engine_not_enabled"]
Status(met, reported) ==
    Lighttpd!LocalOnly => Lighttpd!On(met["status.status-url"]) \subseteq reported["mod_status_public"]

AnyRequestEarned(reported) ==
    /\ Lighttpd!InOrder /\ ~Lighttpd!RedirectOnly /\ asked = Lighttpd!Unknown
    /\ Lighttpd!IfsOnly(Lighttpd!Blocks)
    => \A request \in Lighttpd!Plain :
           /\ Silent(Lighttpd!Met(request), reported)
           /\ request["socket"] = <<"443">> => Engine(Lighttpd!Met(request), reported)
           /\ request["remoteip"] # <<"local">> => Status(Lighttpd!Met(request), reported)

Earned(reported) == HostExact(reported) /\ AnyRequestEarned(reported)

\* What is read stays, and what requests meet of it.
LEMMA ReadingStays ==
    ASSUME UNCHANGED <<statements, branches, globals, conditionals, asked>>
    PROVE  /\ Lighttpd!InOrder' <=> Lighttpd!InOrder
           /\ Lighttpd!RedirectOnly' <=> Lighttpd!RedirectOnly
           /\ Lighttpd!IfsOnly(Lighttpd!Parents)' <=> Lighttpd!IfsOnly(Lighttpd!Parents)
           /\ Lighttpd!IfsOnly(Lighttpd!Blocks)' <=> Lighttpd!IfsOnly(Lighttpd!Blocks)
           /\ Lighttpd!Nested' = Lighttpd!Nested
           /\ Lighttpd!OrderWithEngine' <=> Lighttpd!OrderWithEngine
           /\ Lighttpd!EngineStays' <=> Lighttpd!EngineStays
           /\ Lighttpd!Plain' = Lighttpd!Plain
           /\ \A request : Lighttpd!Met(request)' = Lighttpd!Met(request)
<1>1. Lighttpd!InOrder' <=> Lighttpd!InOrder
  BY DEF Lighttpd!InOrder
<1>2. Lighttpd!RedirectOnly' <=> Lighttpd!RedirectOnly
  BY DEF Lighttpd!RedirectOnly, Lighttpd!Everywhere, Lighttpd!Loading
<1>3. /\ Lighttpd!Nested' = Lighttpd!Nested
      /\ Lighttpd!IfsOnly(Lighttpd!Parents)' <=> Lighttpd!IfsOnly(Lighttpd!Parents)
      /\ Lighttpd!IfsOnly(Lighttpd!Blocks)' <=> Lighttpd!IfsOnly(Lighttpd!Blocks)
  BY DEF Lighttpd!Nested, Lighttpd!IfsOnly, Lighttpd!Parents, Lighttpd!Blocks
<1>4. Lighttpd!OrderWithEngine' <=> Lighttpd!OrderWithEngine
  BY DEF Lighttpd!OrderWithEngine, Lighttpd!Says
<1>5. Lighttpd!EngineStays' <=> Lighttpd!EngineStays
  BY DEF Lighttpd!EngineStays, Lighttpd!Says, Lighttpd!Enabled, Lighttpd!Is, Lighttpd!Text, Lighttpd!Own
<1>6. \A b, request : Lighttpd!Active(b, request)' <=> Lighttpd!Active(b, request)
  BY DEF Lighttpd!Active, Lighttpd!Blocks
<1>7. Lighttpd!Plain' = Lighttpd!Plain
  <2>1. \A b : Lighttpd!Around(b)' = Lighttpd!Around(b)
    BY DEF Lighttpd!Around, Lighttpd!Blocks
  <2>2. Lighttpd!Blocks' = Lighttpd!Blocks
    BY DEF Lighttpd!Blocks
  <2>3. \A request : Lighttpd!OneLine(request)' <=> Lighttpd!OneLine(request)
    BY <1>6, <2>1, <2>2 DEF Lighttpd!OneLine
  <2>4. QED BY <2>3 DEF Lighttpd!Plain
<1>8. \A request : Lighttpd!Met(request)' = Lighttpd!Met(request)
  <2>1. \A name, request : Lighttpd!InForce(name, request)' = Lighttpd!InForce(name, request)
    BY DEF Lighttpd!InForce, Lighttpd!Parsed, Lighttpd!Active, Lighttpd!Blocks
  <2>2. QED BY <2>1 DEF Lighttpd!Met, Lighttpd!View
<1>9. QED BY <1>1, <1>2, <1>3, <1>4, <1>5, <1>7, <1>8

\* Rules find the same in what a request meets.
LEMMA AnswersStay ==
    ASSUME UNCHANGED <<statements, branches, globals, conditionals, asked>>, NEW met
    PROVE  /\ \A r \in DOMAIN Reads : Lighttpd!Asks(met)'[r] = Lighttpd!Asks(met)[r]
           /\ Lighttpd!ssl_honor_cipher_order_missing(met)' = Lighttpd!ssl_honor_cipher_order_missing(met)
           /\ Lighttpd!ssl_engine_not_enabled(met)' = Lighttpd!ssl_engine_not_enabled(met)
           /\ \A d : Lighttpd!Text(d)' = Lighttpd!Text(d) /\ Lighttpd!On(d)' = Lighttpd!On(d)
<1>1. \A r \in DOMAIN Reads : Lighttpd!Asks(met)'[r] = Lighttpd!Asks(met)[r]
  BY SameAnswers DEF SaySame
<1>2. \A d : /\ Lighttpd!Text(d)' = Lighttpd!Text(d) /\ Lighttpd!On(d)' = Lighttpd!On(d)
             /\ Lighttpd!Enabled(d)' = Lighttpd!Enabled(d)
             /\ \A text : Lighttpd!Is(d, text)' = Lighttpd!Is(d, text)
  BY DEF Lighttpd!Text, Lighttpd!On, Lighttpd!Enabled, Lighttpd!Is
<1>3. Lighttpd!ssl_honor_cipher_order_missing(met)' = Lighttpd!ssl_honor_cipher_order_missing(met)
  BY <1>2 DEF Lighttpd!ssl_honor_cipher_order_missing, Lighttpd!When
<1>4. Lighttpd!ssl_engine_not_enabled(met)' = Lighttpd!ssl_engine_not_enabled(met)
  BY <1>2 DEF Lighttpd!ssl_engine_not_enabled, Lighttpd!When
<1>5. QED BY <1>1, <1>2, <1>3, <1>4

\* What was reported stays right: nothing is read any more.
LEMMA EarnedStays ==
    ASSUME UNCHANGED <<statements, branches, globals, conditionals, asked>>, NEW reported, Earned(reported)
    PROVE  Earned(reported)'
<1>1. HostExact(reported)'
  <2>1. ASSUME NEW request PROVE \A r \in DOMAIN Reads :
            Lighttpd!Asks(Lighttpd!Met(request))'[r] = Lighttpd!Asks(Lighttpd!Met(request))[r]
    <3>1. PICK met : met = Lighttpd!Met(request)
      OBVIOUS
    <3>2. Lighttpd!Asks(Lighttpd!Met(request))' = Lighttpd!Asks(met)'
      BY <3>1, ReadingStays DEF Lighttpd!Asks
    <3>3. QED BY <3>1, <3>2, AnswersStay
  <2>2. QED BY <2>1, ReadingStays DEF Earned, HostExact
<1>2. AnyRequestEarned(reported)'
  <2>1. ASSUME NEW met
        PROVE  /\ Silent(met, reported) => Silent(met, reported)'
               /\ Engine(met, reported) => Engine(met, reported)'
               /\ Status(met, reported) => Status(met, reported)'
    <3>1. Silent(met, reported) => Silent(met, reported)'
      <4>1. Lighttpd!AssignmentRules \cup DOMAIN Lighttpd!Interesting \subseteq DOMAIN Reads
        BY DEF Lighttpd!AssignmentRules, Lighttpd!Interesting, Reads
      <4>2. \A text : Lighttpd!DenyRules(text)' = Lighttpd!DenyRules(text)
        BY DEF Lighttpd!DenyRules
      <4>3. \A r \in DOMAIN Lighttpd!DenyRules({}) :
                Lighttpd!DenyRules(Lighttpd!Text(met[Lighttpd!Deny]))'[r]
                    = Lighttpd!DenyRules(Lighttpd!Text(met[Lighttpd!Deny]))[r]
        BY AnswersStay DEF Lighttpd!DenyRules
      <4>4. QED BY <4>1, <4>3, ReadingStays, AnswersStay DEF Silent
    <3>2. Engine(met, reported) => Engine(met, reported)'
      BY ReadingStays, AnswersStay DEF Engine
    <3>3. Status(met, reported) => Status(met, reported)'
      BY AnswersStay DEF Status
    <3>4. QED BY <3>1, <3>2, <3>3
  <2>2. QED BY <2>1, ReadingStays DEF Earned, AnyRequestEarned, Silent, Engine, Status
<1>3. QED BY <1>1, <1>2 DEF Earned

\* What a check reports is right.
LEMMA CheckIsEarned ==
    ASSUME LighttpdInv, VocabularyAssumption, ReplacingAssumption,
           Remembers(conditionals, globals, open), Lighttpd!Check
    PROVE  Earned(findings)'
<1>1. UNCHANGED <<statements, branches, globals, conditionals, asked>>
  BY ReportedIs
<1>2. PICK reported : reported = findings'
  OBVIOUS
<1>3. HostExact(reported)
  <2> SUFFICES ASSUME Lighttpd!InOrder, ~Lighttpd!RedirectOnly, asked # Lighttpd!Unknown,
                      Lighttpd!Variables = {"host"}, Lighttpd!IfsOnly(Lighttpd!Parents),
                      NEW request \in Lighttpd!Requests, request["host"] = asked, NEW r \in DOMAIN Reads
               PROVE  reported[r] = Lighttpd!Asks(Lighttpd!Met(request))[r]
    BY DEF HostExact
  <2>1. \A c \in Conditions : c.variable = "host"
    BY DEF Lighttpd!Variables
  <2>2. PICK v, w : v = Lighttpd!MergedView /\ w = Lighttpd!Met(request)
    OBVIOUS
  <2>3. \A name \in Reads[r] : SaySame(v[name], w[name])
    BY <2>1, <2>2, HostViewSaysInForce, RulesRead
  <2>4. Lighttpd!Asks(v)[r] = Lighttpd!Asks(w)[r]
    BY <1>1, <2>3, SameAnswers
  <2>5. r \in DOMAIN Lighttpd!Asks(Lighttpd!FileView)
    BY RulesRead
  <2>6. Lighttpd!ViewFindings[r] = Lighttpd!Asks(v)[r]
    BY <2>2, <2>5 DEF Lighttpd!ViewFindings, Lighttpd!Spared
  <2>7. QED BY <1>2, <2>2, <2>4, <2>6, ReportedIs
<1>4. AnyRequestEarned(reported)
  <2> SUFFICES ASSUME Lighttpd!InOrder, ~Lighttpd!RedirectOnly, asked = Lighttpd!Unknown,
                      Lighttpd!IfsOnly(Lighttpd!Blocks), NEW request \in Lighttpd!Plain
               PROVE  /\ Silent(Lighttpd!Met(request), reported)
                      /\ request["socket"] = <<"443">> => Engine(Lighttpd!Met(request), reported)
                      /\ request["remoteip"] # <<"local">> => Status(Lighttpd!Met(request), reported)
    BY DEF AnyRequestEarned
  <2>1. Lighttpd!OneLine(request)
    BY DEF Lighttpd!Plain
  <2>2. Silent(Lighttpd!Met(request), reported)
    BY <1>2, <2>1, AssignmentsAreEarned, ScopesAreEarned, CipherOrderIsEarned, DeniedIsEarned DEF Silent
  <2>3. request["socket"] = <<"443">> => Engine(Lighttpd!Met(request), reported)
    BY <1>2, <2>1, EngineIsEarned DEF Engine
  <2>4. request["remoteip"] # <<"local">> => Status(Lighttpd!Met(request), reported)
    BY <1>2, StatusIsEarned DEF Status
  <2>5. QED BY <2>2, <2>3, <2>4
<1>5. Earned(reported)'
  BY <1>1, <1>3, <1>4, EarnedStays DEF Earned
<1>6. QED BY <1>2, <1>5 DEF Earned, HostExact, AnyRequestEarned, Silent, Engine, Status

-----------------------------------------------------------------------------
(* What is read is one of the topics, which the vocabulary holds. *)
TopicsAssumption == \A t \in Topics : t \subseteq Assignments

RulesInv ==
    /\ LighttpdInv /\ Remembers(conditionals, globals, open) /\ topic \in Topics
    /\ Lighttpd!Checked => Earned(findings)

\* At first nothing is read and nothing reported.
LEMMA RulesInitInv ==
    ASSUME VocabularyAssumption, Lighttpd!RulesInit
    PROVE  RulesInv
<1>1. LighttpdInv
  BY LighttpdInitInv DEF Lighttpd!RulesInit
<1>2. Remembers(conditionals, globals, open)
  <2>1. globals = Lighttpd!Nothing /\ conditionals = <<>> /\ open = <<Lighttpd!Frame(Lighttpd!File, 0)>>
    BY DEF Lighttpd!RulesInit, Lighttpd!Init
  <2>2. DOMAIN globals = {} /\ DOMAIN conditionals = {} /\ DOMAIN open = {1} /\ open[1].scope = 0
    BY <2>1 DEF Lighttpd!Nothing, Lighttpd!Frame
  <2>3. QED BY <2>2 DEF Remembers, Under
<1>3. topic \in Topics /\ ~Lighttpd!Checked
  BY DEF Lighttpd!RulesInit, Lighttpd!Checked
<1>4. QED BY <1>1, <1>2, <1>3 DEF RulesInv

\* Reading goes on until rules look, once, at what is read by then.
LEMMA RulesNextInv ==
    ASSUME VocabularyAssumption, ReplacingAssumption, TopicsAssumption, RulesInv,
           [Lighttpd!RulesNext]_<<Lighttpd!vars, topic, asked, findings>>
    PROVE  RulesInv'
<1>1. LighttpdInv /\ Remembers(conditionals, globals, open) /\ topic \in Topics
  BY DEF RulesInv
<1>2. [Lighttpd!Next]_(Lighttpd!vars) /\ topic' \in Topics
  <2>1. CASE Lighttpd!ReadOn
    BY <1>1, <2>1 DEF Lighttpd!ReadOn, Lighttpd!Next, TopicsAssumption
  <2>2. CASE Lighttpd!Check
    BY <1>1, <2>2 DEF Lighttpd!Check
  <2>3. CASE UNCHANGED <<Lighttpd!vars, topic, asked, findings>>
    BY <1>1, <2>3
  <2>4. QED BY <2>1, <2>2, <2>3 DEF Lighttpd!RulesNext
<1>3. LighttpdInv' /\ Remembers(conditionals, globals, open)'
  BY <1>1, <1>2, LighttpdNextInv, ReadingRemembers
<1>4. Lighttpd!Checked' => Earned(findings)'
  <2>1. CASE Lighttpd!ReadOn
    BY <2>1 DEF Lighttpd!ReadOn, Lighttpd!Checked, Lighttpd!Unchecked
  <2>2. CASE Lighttpd!Check
    BY <1>1, <2>2, CheckIsEarned
  <2>3. CASE UNCHANGED <<Lighttpd!vars, topic, asked, findings>>
    <3>1. PICK reported : reported = findings
      OBVIOUS
    <3>2. UNCHANGED <<statements, branches, globals, conditionals, asked>> /\ findings' = reported
      BY <2>3, <3>1 DEF Lighttpd!vars
    <3>3. Lighttpd!Checked' => Earned(reported)
      BY <3>1, <3>2 DEF RulesInv, Lighttpd!Checked, Lighttpd!Unchecked
    <3>4. Lighttpd!Checked' => Earned(reported)'
      BY <3>2, <3>3, EarnedStays
    <3>5. Earned(reported)' => Earned(findings)'
      BY <3>2 DEF Earned, HostExact, AnyRequestEarned, Silent, Engine, Status
    <3>6. QED BY <3>4, <3>5
  <2>4. QED BY <2>1, <2>2, <2>3 DEF Lighttpd!RulesNext
<1>5. QED BY <1>2, <1>3, <1>4 DEF RulesInv

\* Whatever is read and whoever is asked about, what rules report is right.
LEMMA RulesInvHolds ==
    ASSUME VocabularyAssumption, ReplacingAssumption, TopicsAssumption
    PROVE  Lighttpd!RulesSpec => []RulesInv
<1>1. Lighttpd!RulesInit => RulesInv
  BY RulesInitInv
<1>2. RulesInv /\ [Lighttpd!RulesNext]_<<Lighttpd!vars, topic, asked, findings>> => RulesInv'
  BY RulesNextInv
<1>3. QED BY <1>1, <1>2, PTL DEF Lighttpd!RulesSpec

\* For a host that is named, a rule of lighttpd reports just what any request to the host
\* meets, whatever the configuration asks of hosts and says, where each directive replaces
\* what is said before.
THEOREM LighttpdHostViewIsExact ==
    ASSUME VocabularyAssumption, ReplacingAssumption, TopicsAssumption
    PROVE  Lighttpd!RulesSpec => []Lighttpd!HostViewIsExact
<1>1. RulesInv => Lighttpd!HostViewIsExact
  BY RulesRead DEF RulesInv, Earned, HostExact, Lighttpd!HostViewIsExact, Lighttpd!Judged
<1>2. QED BY <1>1, RulesInvHolds, PTL

\* Without a host, what is wrong for a request that only nested blocks apply to is reported
\* by the rules that look at scopes, whatever blocks ask of it and say.
THEOREM LighttpdSilenceIsEarned ==
    ASSUME VocabularyAssumption, ReplacingAssumption, TopicsAssumption
    PROVE  Lighttpd!RulesSpec => []Lighttpd!SilenceIsEarned
<1>1. RulesInv => Lighttpd!SilenceIsEarned
  BY DEF RulesInv, Earned, AnyRequestEarned, Silent,
         Lighttpd!SilenceIsEarned, Lighttpd!InAnyRequest, Lighttpd!Judged
<1>2. QED BY <1>1, RulesInvHolds, PTL

\* A port for TLS that some request reaches without TLS is reported, whatever block of its
\* socket could have turned it on, if blocks do not nest and do not take TLS back.
THEOREM LighttpdEngineIsOn ==
    ASSUME VocabularyAssumption, ReplacingAssumption, TopicsAssumption
    PROVE  Lighttpd!RulesSpec => []Lighttpd!EngineIsOn
<1>1. RulesInv => Lighttpd!EngineIsOn
  BY DEF RulesInv, Earned, AnyRequestEarned, Engine,
         Lighttpd!EngineIsOn, Lighttpd!InAnyRequest, Lighttpd!Judged
<1>2. QED BY <1>1, RulesInvHolds, PTL

\* Server status that an address which is not local can see is reported, whatever blocks
\* ask besides that the address be local.
THEOREM LighttpdStatusIsRestricted ==
    ASSUME VocabularyAssumption, ReplacingAssumption, TopicsAssumption
    PROVE  Lighttpd!RulesSpec => []Lighttpd!StatusIsRestricted
<1>1. RulesInv => Lighttpd!StatusIsRestricted
  BY DEF RulesInv, Earned, AnyRequestEarned, Status,
         Lighttpd!StatusIsRestricted, Lighttpd!InAnyRequest, Lighttpd!Judged
<1>2. QED BY <1>1, RulesInvHolds, PTL

===============================================================================
