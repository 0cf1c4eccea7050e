--------------------------- MODULE Compile_proofs ---------------------------
(***************************************************************************)
(* What holds of every compile, for every spec, catalog of tiles and set   *)
(* of standard packages.  In order:                                        *)
(*                                                                         *)
(*   the search for import cycles: its stack is a path, and what it is     *)
(*     done with is on no cycle;                                           *)
(*   the walk of an interface: what it met is what the interface is made   *)
(*     of, and what it found are its methods, each name once;              *)
(*   lowered packages: what expand and concretize make of a form, and      *)
(*     which qualifiers its types have;                                    *)
(*   what select writes, tile by tile: only types its package may name;    *)
(*   CompileInv, the invariant of a compile, step by step, and what        *)
(*     follows of import cycles;                                           *)
(*   what a form yields: stubs for every method, tasks that show the types *)
(*     of their holes, and nothing dropped;                                *)
(*   the levels of the plan graph: the count kept for a node is always the *)
(*     number of its dependencies that are not placed yet, so a node is    *)
(*     ready exactly when it is next.                                      *)
(***************************************************************************)
EXTENDS Compile, FiniteSetTheorems, SequenceTheorems, TLAPS

\* ---------------------------------------------------- the search for cycles
\* The stack is a path of imports, without repetition, of packages not done.
StackInv(g) ==
    /\ stack \in Seq(g.node)
    /\ \A i, j \in DOMAIN stack : stack[i] = stack[j] => i = j
    /\ \A i \in DOMAIN stack : stack[i] \notin done
    /\ \A i \in 1..(Len(stack) - 1) : <<stack[i], stack[i + 1]>> \in g.edge

\* What is left to look at: everything, of a package not met; of one on the
\* stack, what is neither done nor next.
LeftInv(g) ==
    /\ left \in [g.node -> SUBSET g.node]
    /\ \A n \in g.node : left[n] \subseteq Dependencies(g, n)
    /\ \A n \in g.node \ done : ~Active(n) => left[n] = Dependencies(g, n)
    /\ loop = <<>> =>
           \A i \in DOMAIN stack : \A n \in Dependencies(g, stack[i]) \ left[stack[i]] :
               n \in done \/ (i < Len(stack) /\ n = stack[i + 1])

\* What is done imports only what is done, and is on no cycle.
Dead(g, S) == S # {} /\ \A n \in S : \E m \in S : <<n, m>> \in g.edge
DoneInv(g) ==
    /\ done \subseteq g.node
    /\ \A n \in done : Dependencies(g, n) \subseteq done
    /\ \A S \in SUBSET done : ~Dead(g, S)

SearchInv(g) ==
    /\ imports = g
    /\ StackInv(g)
    /\ LeftInv(g)
    /\ DoneInv(g)
    /\ loop # <<>> => IsLoop(g, loop)

\* Sequences of one element, ends of a sequence, and one without its last.
LEMMA OneElement ==
    ASSUME NEW S, NEW x \in S
    PROVE  /\ <<x>> \in Seq(S) /\ Len(<<x>>) = 1 /\ DOMAIN <<x>> = {1} /\ <<x>>[1] = x
<1>1. <<x>> \in Seq(S)
  OBVIOUS
<1>2. Len(<<x>>) = 1 /\ DOMAIN <<x>> = {1}
  OBVIOUS
<1> QED
  BY <1>1, <1>2

\* The end of a sequence, from its k-th element.
LEMMA Ending ==
    ASSUME NEW S, NEW s \in Seq(S), NEW k \in 1..Len(s)
    PROVE  /\ SubSeq(s, k, Len(s)) \in Seq(S)
           /\ Len(SubSeq(s, k, Len(s))) = Len(s) - k + 1
           /\ \A i \in 1..(Len(s) - k + 1) : SubSeq(s, k, Len(s))[i] = s[k + i - 1]
<1>1. SubSeq(s, k, Len(s)) \in Seq(S)
  OBVIOUS
<1>2. Len(SubSeq(s, k, Len(s))) = Len(s) - k + 1
  OBVIOUS
<1>3. ASSUME NEW i \in 1..(Len(s) - k + 1) PROVE SubSeq(s, k, Len(s))[i] = s[k + i - 1]
  OBVIOUS
<1> QED
  BY <1>1, <1>2, <1>3

\* The length of a sequence without its last element, as SubSeq has it.
LEMMA OneLess ==
    ASSUME NEW n \in Nat, n # 0
    PROVE  (IF 1 <= n - 1 THEN n - 1 - 1 + 1 ELSE 0) = n - 1
  OBVIOUS

\* An index that is not the last has a next one.
LEMMA NotTheLast ==
    ASSUME NEW n \in Nat, NEW i \in 1..n, i # n
    PROVE  i \in 1..(n - 1) /\ i + 1 \in 1..n
  OBVIOUS

\* A sequence without its last element.
LEMMA WithoutLast ==
    ASSUME NEW S, NEW s \in Seq(S), Len(s) # 0
    PROVE  /\ SubSeq(s, 1, Len(s) - 1) \in Seq(S)
           /\ Len(SubSeq(s, 1, Len(s) - 1)) = Len(s) - 1
           /\ DOMAIN SubSeq(s, 1, Len(s) - 1) = 1..(Len(s) - 1)
           /\ \A i \in 1..(Len(s) - 1) : SubSeq(s, 1, Len(s) - 1)[i] = s[i]
<1>0. Len(s) \in Nat \ {0}
  BY LenProperties
<1>1. \A i \in 1..(Len(s) - 1) : s[i] \in S
  BY <1>0, ElementOfSeq
<1>2. 1 \in Int /\ Len(s) - 1 \in Int
  BY <1>0
<1> DEFINE t == SubSeq(s, 1, Len(s) - 1)
<1>3. /\ t \in Seq(S)
      /\ Len(t) = IF 1 <= Len(s) - 1 THEN Len(s) - 1 - 1 + 1 ELSE 0
      /\ \A i \in 1 .. Len(s) - 1 - 1 + 1 : t[i] = s[1 + i - 1]
  BY <1>1, <1>2, SubSeqProperties
<1> HIDE DEF t
<1>4. Len(t) = Len(s) - 1
  BY <1>0, <1>3, OneLess, Zenon
<1>5. ASSUME NEW i \in 1..(Len(s) - 1) PROVE t[i] = s[i]
  <2>1. i \in 1 .. Len(s) - 1 - 1 + 1 /\ 1 + i - 1 = i
    BY <1>0
  <2>2. t[i] = s[1 + i - 1]
    BY <2>1, <1>3
  <2> QED
    BY <2>1, <2>2
<1>6. DOMAIN t = 1..(Len(s) - 1)
  BY <1>3, <1>4, LenProperties
<1> QED
  BY <1>3, <1>4, <1>5, <1>6 DEF t

\* The search starts with an empty stack, everything left to look at and
\* nothing done (validate.go cycles).
LEMMA SearchStarts ==
    ASSUME NEW g, StartSearch(g)
    PROVE  SearchInv(g)'
<1>1. /\ imports' = g /\ stack' = <<>> /\ left' = [n \in g.node |-> Dependencies(g, n)]
      /\ done' = {} /\ loop' = <<>>
  BY DEF StartSearch
<1>2. Len(stack') = 0 /\ DOMAIN stack' = {}
  BY <1>1
<1>3. StackInv(g)'
  BY <1>1, <1>2 DEF StackInv
<1>4. LeftInv(g)'
  BY <1>1, <1>2 DEF LeftInv, Dependencies
<1>5. DoneInv(g)'
  BY <1>1 DEF DoneInv, Dead
<1> QED
  BY <1>1, <1>3, <1>4, <1>5 DEF SearchInv

\* A package not visited yet is put on an empty stack.
LEMMA BeginKeeps ==
    ASSUME NEW g, SearchInv(g), Begin
    PROVE  SearchInv(g)'
<1>1. PICK pkg \in imports.node \ done : stack' = <<pkg>>
  BY DEF Begin
<1>2. loop = <<>> /\ loop' = loop /\ imports' = imports /\ left' = left /\ done' = done /\ stack = <<>>
  BY DEF Begin
<1>3. imports = g /\ pkg \in g.node /\ pkg \notin done
  BY <1>1 DEF SearchInv
<1>a. <<pkg>> \in Seq(g.node) /\ Len(<<pkg>>) = 1 /\ DOMAIN <<pkg>> = {1} /\ <<pkg>>[1] = pkg
  BY <1>3, OneElement
<1>4. DOMAIN stack' = {1} /\ Len(stack') = 1 /\ stack'[1] = pkg /\ stack' \in Seq(g.node)
  BY <1>1, <1>a
<1>5. StackInv(g)'
  BY <1>2, <1>3, <1>4 DEF StackInv
<1>6. LeftInv(g)'
  <2>1. left[pkg] = Dependencies(g, pkg)
    BY <1>2, <1>3 DEF SearchInv, LeftInv, Active
  <2>2. \A n \in g.node \ done : left[n] = Dependencies(g, n)
    BY <1>2 DEF SearchInv, LeftInv, Active
  <2> QED
    BY <2>1, <2>2, <1>2, <1>4 DEF SearchInv, LeftInv
<1>7. DoneInv(g)'
  BY <1>2 DEF SearchInv, DoneInv
<1> QED
  BY <1>2, <1>3, <1>5, <1>6, <1>7 DEF SearchInv

\* The top of a stack that is not empty, and where it stands.
LEMMA TopOfStack ==
    ASSUME NEW g, StackInv(g), stack # <<>>
    PROVE  /\ Len(stack) \in Nat \ {0} /\ Len(stack) \in DOMAIN stack
           /\ DOMAIN stack = 1..Len(stack)
           /\ Top = stack[Len(stack)] /\ Top \in g.node /\ Top \notin done
  BY EmptySeq, LenProperties DEF StackInv, Top

\* Closing a loop.
LEMMA LoopToIsLoop ==
    ASSUME NEW g, StackInv(g), stack # <<>>, NEW dep, Active(dep), <<Top, dep>> \in g.edge
    PROVE  IsLoop(g, LoopTo(dep)) /\ LoopTo(dep) # <<>>
<1> DEFINE k == CHOOSE i \in DOMAIN stack : stack[i] = dep
           s == SubSeq(stack, k, Len(stack))
<1>1. DOMAIN stack = 1..Len(stack) /\ Len(stack) \in Nat \ {0} /\ Top = stack[Len(stack)]
  BY TopOfStack
<1>2. k \in DOMAIN stack /\ stack[k] = dep
  BY DEF Active
<1> HIDE DEF k
<1>3. k \in 1..Len(stack) /\ Len(stack) <= Len(stack)
  BY <1>1, <1>2
<1>4. /\ s \in Seq(g.node) /\ Len(s) = Len(stack) - k + 1
      /\ \A i \in 1..(Len(stack) - k + 1) : s[i] = stack[k + i - 1]
  <2>1. stack \in Seq(g.node)
    BY DEF StackInv
  <2> QED
    BY <2>1, <1>3, Ending
<1> HIDE DEF s
<1>5. Len(s) \in Nat \ {0} /\ LoopTo(dep) = Append(s, dep)
  BY <1>1, <1>3, <1>4 DEF LoopTo, s, k
<1>6. dep \in g.node
  BY <1>2 DEF StackInv
<1>7. /\ Len(LoopTo(dep)) = Len(s) + 1
      /\ LoopTo(dep)[Len(s) + 1] = dep
      /\ \A i \in 1..Len(s) : LoopTo(dep)[i] = s[i]
  BY <1>4, <1>5, <1>6, AppendProperties
<1>8. s[1] = dep /\ s[Len(s)] = Top
  BY <1>1, <1>2, <1>3, <1>4
<1>9. \A i \in 1..Len(s) : <<LoopTo(dep)[i], LoopTo(dep)[i + 1]>> \in g.edge
  <2> SUFFICES ASSUME NEW i \in 1..Len(s) PROVE <<LoopTo(dep)[i], LoopTo(dep)[i + 1]>> \in g.edge
    OBVIOUS
  <2>1. CASE i = Len(s)
    BY <2>1, <1>5, <1>7, <1>8
  <2>2. CASE i # Len(s)
    <3>1. i \in 1..Len(s) /\ i + 1 \in 1..Len(s)
      BY <2>2, <1>5
    <3>2. s[i] = stack[k + i - 1] /\ s[i + 1] = stack[k + i]
      <4>1. i \in 1..(Len(stack) - k + 1) /\ i + 1 \in 1..(Len(stack) - k + 1)
        BY <3>1, <1>4
      <4>2. s[i] = stack[k + i - 1] /\ s[i + 1] = stack[k + (i + 1) - 1]
        BY <4>1, <1>4
      <4>3. k + (i + 1) - 1 = k + i
        BY <4>1, <1>3
      <4> QED
        BY <4>2, <4>3
    <3>3. k + i - 1 \in 1..(Len(stack) - 1) /\ (k + i - 1) + 1 = k + i
      BY <3>1, <1>1, <1>3, <1>4
    <3>4. <<stack[k + i - 1], stack[k + i]>> \in g.edge
      BY <3>3 DEF StackInv
    <3> QED
      BY <3>1, <3>2, <3>4, <1>7
  <2> QED
    BY <2>1, <2>2
<1>10. Len(LoopTo(dep)) - 1 = Len(s) /\ Len(LoopTo(dep)) > 1 /\ LoopTo(dep)[1] = dep
  BY <1>5, <1>7, <1>8
<1>11. LoopTo(dep) # <<>>
  BY <1>10
<1> QED
  BY <1>7, <1>9, <1>10, <1>11 DEF IsLoop

\* The top of the stack looks at one import: it is done, closes a loop or goes
\* on the stack.
LEMMA LookKeeps ==
    ASSUME NEW g, SearchInv(g), Look
    PROVE  SearchInv(g)'
<1>1. PICK dep \in left[Top] :
          /\ left' = [left EXCEPT ![Top] = @ \ {dep}]
          /\ \/ Active(dep) /\ loop' = LoopTo(dep) /\ UNCHANGED stack
             \/ dep \in done /\ UNCHANGED <<stack, loop>>
             \/ ~Active(dep) /\ dep \notin done /\ stack' = Append(stack, dep) /\ UNCHANGED loop
  BY DEF Look
<1>2. loop = <<>> /\ stack # <<>> /\ imports' = imports /\ done' = done /\ imports = g
  BY DEF Look, SearchInv
<1>3. StackInv(g) /\ LeftInv(g) /\ DoneInv(g)
  BY DEF SearchInv
<1> DEFINE top == Top
<1>4. /\ Len(stack) \in Nat \ {0} /\ Len(stack) \in DOMAIN stack /\ DOMAIN stack = 1..Len(stack)
      /\ top = stack[Len(stack)] /\ top \in g.node /\ top \notin done
  BY <1>2, <1>3, TopOfStack
<1>5. left' = [left EXCEPT ![top] = @ \ {dep}] /\ dep \in left[top]
  BY <1>1
<1> HIDE DEF top
<1>6. dep \in Dependencies(g, top) /\ dep \in g.node /\ <<top, dep>> \in g.edge
  BY <1>3, <1>4, <1>5 DEF LeftInv, Dependencies
<1>7. /\ left' \in [g.node -> SUBSET g.node]
      /\ left'[top] = left[top] \ {dep}
      /\ \A n \in g.node : n # top => left'[n] = left[n]
  BY <1>3, <1>4, <1>5 DEF LeftInv
<1>8. \A n \in g.node : left'[n] \subseteq Dependencies(g, n)
  BY <1>3, <1>7 DEF LeftInv
<1>9. Active(top)
  BY <1>4 DEF Active
<1>10. DoneInv(g)'
  BY <1>2, <1>3 DEF DoneInv
<1>11. CASE Active(dep) /\ loop' = LoopTo(dep) /\ UNCHANGED stack
  <2>1. IsLoop(g, loop') /\ loop' # <<>>
    BY <1>2, <1>3, <1>6, <1>11, LoopToIsLoop DEF top
  <2>2. StackInv(g)'
    BY <1>2, <1>3, <1>11 DEF StackInv
  <2>3. LeftInv(g)'
    BY <1>2, <1>3, <1>7, <1>8, <1>9, <1>11, <2>1 DEF LeftInv, Active
  <2> QED
    BY <2>1, <2>2, <2>3, <1>2, <1>10 DEF SearchInv
<1>12. CASE dep \in done /\ UNCHANGED <<stack, loop>>
  <2>1. StackInv(g)'
    BY <1>2, <1>3, <1>12 DEF StackInv
  <2>2. ASSUME NEW i \in DOMAIN stack, NEW n \in Dependencies(g, stack[i]) \ left'[stack[i]]
        PROVE  n \in done \/ (i < Len(stack) /\ n = stack[i + 1])
    <3>1. stack[i] \in g.node
      BY <1>3, <1>4 DEF StackInv
    <3>2. CASE n = dep
      BY <3>2, <1>12
    <3>3. CASE n # dep
      <4>1. n \in Dependencies(g, stack[i]) \ left[stack[i]]
        BY <3>1, <3>3, <1>7
      <4> QED
        BY <4>1, <1>2, <1>3 DEF LeftInv
    <3> QED
      BY <3>2, <3>3
  <2>3. LeftInv(g)'
    BY <2>2, <1>2, <1>3, <1>7, <1>8, <1>9, <1>12 DEF LeftInv, Active
  <2> QED
    BY <2>1, <2>3, <1>2, <1>10, <1>12 DEF SearchInv
<1>13. CASE ~Active(dep) /\ dep \notin done /\ stack' = Append(stack, dep) /\ UNCHANGED loop
  <2>1. stack \in Seq(g.node)
    BY <1>3 DEF StackInv
  <2>2. /\ stack' \in Seq(g.node) /\ Len(stack') = Len(stack) + 1
        /\ \A i \in 1..Len(stack) : stack'[i] = stack[i]
        /\ stack'[Len(stack) + 1] = dep
    BY <2>1, <1>6, <1>13, AppendProperties
  <2>3. DOMAIN stack' = 1..(Len(stack) + 1)
    BY <2>2, LenProperties
  <2>4. \A i \in DOMAIN stack : stack[i] # dep
    BY <1>13 DEF Active
  <2>5. StackInv(g)'
    <3>1. ASSUME NEW i \in DOMAIN stack', NEW j \in DOMAIN stack', stack'[i] = stack'[j] PROVE i = j
      <4>1. CASE i \in 1..Len(stack) /\ j \in 1..Len(stack)
        BY <4>1, <3>1, <2>2, <1>3, <1>4 DEF StackInv
      <4>2. CASE i = Len(stack) + 1 \/ j = Len(stack) + 1
        BY <4>2, <3>1, <2>2, <2>3, <2>4, <1>4
      <4> QED
        BY <4>1, <4>2, <2>3, <1>4
    <3>2. ASSUME NEW i \in DOMAIN stack' PROVE stack'[i] \notin done'
      BY <2>2, <2>3, <1>2, <1>3, <1>4, <1>13 DEF StackInv
    <3>3. ASSUME NEW i \in 1..(Len(stack') - 1) PROVE <<stack'[i], stack'[i + 1]>> \in g.edge
      <4>1. CASE i = Len(stack)
        BY <4>1, <2>2, <1>4, <1>6
      <4>2. CASE i # Len(stack)
        <5>0. Len(stack') - 1 = Len(stack)
          BY <2>2, <1>4
        <5>2. i \in 1..Len(stack)
          BY <5>0
        <5>1. i \in 1..(Len(stack) - 1) /\ i \in 1..Len(stack) /\ i + 1 \in 1..Len(stack)
          BY <5>2, <4>2, <1>4, NotTheLast
        <5> QED
          BY <5>1, <2>2, <1>3 DEF StackInv
      <4> QED
        BY <4>1, <4>2
    <3> QED
      BY <3>1, <3>2, <3>3, <2>2 DEF StackInv
  <2>6. ASSUME NEW i \in DOMAIN stack', NEW n \in Dependencies(g, stack'[i]) \ left'[stack'[i]]
        PROVE  n \in done \/ (i < Len(stack') /\ n = stack'[i + 1])
    <3>1. CASE i = Len(stack) + 1
      <4>1. stack'[i] = dep /\ dep # top
        BY <3>1, <2>2, <1>9, <1>13
      <4>2. left'[dep] = left[dep] /\ left[dep] = Dependencies(g, dep)
        BY <4>1, <1>3, <1>6, <1>7, <1>13 DEF LeftInv
      <4> QED
        BY <4>1, <4>2, <2>6
    <3>2. CASE i \in 1..Len(stack) /\ stack[i] = top
      <4>1. i = Len(stack)
        BY <3>2, <1>3, <1>4 DEF StackInv
      <4>2. CASE n = dep
        BY <4>1, <4>2, <2>2, <1>4
      <4>3. CASE n # dep
        <5>1. n \in Dependencies(g, stack[i]) \ left[stack[i]]
          BY <4>3, <3>2, <2>2, <2>6, <1>7
        <5>2. n \in done \/ (i < Len(stack) /\ n = stack[i + 1])
          BY <5>1, <3>2, <1>2, <1>3, <1>4 DEF LeftInv
        <5> QED
          BY <5>2, <4>1, <1>4
      <4> QED
        BY <4>2, <4>3
    <3>3. CASE i \in 1..Len(stack) /\ stack[i] # top
      <4>1. stack'[i] = stack[i] /\ stack[i] \in g.node
        BY <3>3, <2>1, <2>2, <1>4
      <4>2. n \in Dependencies(g, stack[i]) \ left[stack[i]]
        BY <4>1, <3>3, <2>6, <1>7
      <4>3. n \in done \/ (i < Len(stack) /\ n = stack[i + 1])
        BY <4>2, <3>3, <1>2, <1>3, <1>4 DEF LeftInv
      <4> QED
        BY <4>3, <3>3, <2>2, <1>4
    <3> QED
      BY <3>1, <3>2, <3>3, <2>3, <1>4
  <2>7. ASSUME NEW n \in g.node \ done, ~Active(n)' PROVE left'[n] = Dependencies(g, n)
    <3>1. ~Active(n)
      BY <2>7, <2>2, <2>3, <1>4 DEF Active
    <3>2. n # top
      BY <3>1, <1>9
    <3> QED
      BY <3>1, <3>2, <1>3, <1>7 DEF LeftInv
  <2>8. LeftInv(g)'
    BY <2>6, <2>7, <1>2, <1>7, <1>8 DEF LeftInv
  <2> QED
    BY <2>5, <2>8, <1>2, <1>10, <1>13 DEF SearchInv
<1> QED
  BY <1>1, <1>11, <1>12, <1>13

\* A package all of whose imports are looked at leaves the stack and is done:
\* what it imports is, so it is on no cycle.
LEMMA LeaveKeeps ==
    ASSUME NEW g, SearchInv(g), Leave
    PROVE  SearchInv(g)'
<1>1. /\ loop = <<>> /\ stack # <<>> /\ left[Top] = {}
      /\ stack' = SubSeq(stack, 1, Len(stack) - 1)
      /\ done' = done \union {Top}
      /\ imports' = imports /\ left' = left /\ loop' = loop
  BY DEF Leave
<1>2. imports = g /\ StackInv(g) /\ LeftInv(g) /\ DoneInv(g)
  BY DEF SearchInv
<1> DEFINE top == Top
<1>3. /\ Len(stack) \in Nat \ {0} /\ Len(stack) \in DOMAIN stack /\ DOMAIN stack = 1..Len(stack)
      /\ top = stack[Len(stack)] /\ top \in g.node /\ top \notin done
  BY <1>1, <1>2, TopOfStack
<1>4. left[top] = {} /\ done' = done \union {top}
  BY <1>1
<1> HIDE DEF top
<1>5. stack \in Seq(g.node)
  BY <1>2 DEF StackInv
<1>6. /\ stack' \in Seq(g.node) /\ Len(stack') = Len(stack) - 1 /\ DOMAIN stack' = 1..(Len(stack) - 1)
      /\ \A i \in 1..(Len(stack) - 1) : stack'[i] = stack[i]
  <2>1. Len(stack) # 0
    BY <1>3
  <2> QED
    BY <1>1, <1>5, <2>1, WithoutLast
<1>7. \A i \in 1..(Len(stack) - 1) : stack[i] # top
  BY <1>2, <1>3 DEF StackInv
<1>8. Dependencies(g, top) \subseteq done
  BY <1>1, <1>2, <1>3, <1>4 DEF LeftInv
<1>9. StackInv(g)'
  <2>1. ASSUME NEW i \in DOMAIN stack', NEW j \in DOMAIN stack', stack'[i] = stack'[j] PROVE i = j
    BY <2>1, <1>2, <1>3, <1>6 DEF StackInv
  <2>2. ASSUME NEW i \in DOMAIN stack' PROVE stack'[i] \notin done'
    BY <1>2, <1>3, <1>4, <1>6, <1>7 DEF StackInv
  <2>3. ASSUME NEW i \in 1..(Len(stack') - 1) PROVE <<stack'[i], stack'[i + 1]>> \in g.edge
    <3>1. i \in 1..(Len(stack) - 1) /\ i + 1 \in 1..(Len(stack) - 1)
      BY <1>3, <1>6
    <3>2. <<stack[i], stack[i + 1]>> \in g.edge
      BY <3>1, <1>2 DEF StackInv
    <3> QED
      BY <3>1, <3>2, <1>6
  <2> QED
    BY <2>1, <2>2, <2>3, <1>6 DEF StackInv
<1>10. LeftInv(g)'
  <2>1. ASSUME NEW n \in g.node \ done', ~Active(n)' PROVE left[n] = Dependencies(g, n)
    <3>1. n \notin done /\ n # top
      BY <1>4
    <3>2. ~Active(n)
      BY <2>1, <3>1, <1>3, <1>6 DEF Active
    <3> QED
      BY <3>1, <3>2, <1>2 DEF LeftInv
  <2>2. ASSUME NEW i \in DOMAIN stack', NEW n \in Dependencies(g, stack'[i]) \ left[stack'[i]]
        PROVE  n \in done' \/ (i < Len(stack') /\ n = stack'[i + 1])
    <3>1. i \in 1..(Len(stack) - 1) /\ i \in DOMAIN stack /\ stack'[i] = stack[i]
      BY <1>3, <1>6
    <3>2. n \in done \/ (i < Len(stack) /\ n = stack[i + 1])
      BY <2>2, <3>1, <1>1, <1>2 DEF LeftInv
    <3>3. CASE i = Len(stack) - 1
      BY <3>2, <3>3, <1>3, <1>4
    <3>4. CASE i # Len(stack) - 1
      BY <3>1, <3>2, <3>4, <1>3, <1>4, <1>6
    <3> QED
      BY <3>3, <3>4
  <2> QED
    BY <2>1, <2>2, <1>1, <1>2 DEF LeftInv
<1>11. DoneInv(g)'
  <2>1. ASSUME NEW S \in SUBSET (done \union {top}), Dead(g, S) PROVE FALSE
    <3>1. CASE top \notin S
      BY <2>1, <3>1, <1>2 DEF DoneInv
    <3>2. CASE top \in S
      <4> DEFINE T == S \ {top}
      <4>1. PICK m \in S : <<top, m>> \in g.edge
        BY <2>1, <3>2 DEF Dead
      <4>2. m \in g.node /\ m \in Dependencies(g, top)
        BY <4>1, <1>2, <1>3 DEF DoneInv, Dependencies
      <4>3. m \in T
        BY <4>1, <4>2, <1>3, <1>8
      <4>4. ASSUME NEW n \in T PROVE \E k \in T : <<n, k>> \in g.edge
        <5>1. PICK k \in S : <<n, k>> \in g.edge
          BY <2>1 DEF Dead
        <5>2. n \in done /\ k \in g.node
          BY <5>1, <1>2, <1>3 DEF DoneInv
        <5>3. k \in done
          BY <5>1, <5>2, <1>2 DEF DoneInv, Dependencies
        <5> QED
          BY <5>1, <5>3, <1>3
      <4>5. T \in SUBSET done /\ Dead(g, T)
        BY <4>3, <4>4 DEF Dead
      <4> QED
        BY <4>5, <1>2 DEF DoneInv
    <3> QED
      BY <3>1, <3>2
  <2>2. done' \subseteq g.node
    BY <1>2, <1>3, <1>4 DEF DoneInv
  <2>3. \A n \in done' : Dependencies(g, n) \subseteq done'
    BY <1>2, <1>4, <1>8 DEF DoneInv
  <2> QED
    BY <2>1, <2>2, <2>3, <1>4 DEF DoneInv
<1> QED
  BY <1>1, <1>2, <1>9, <1>10, <1>11 DEF SearchInv

\* Every step of the search keeps its invariant.
LEMMA SearchKeeps ==
    ASSUME NEW g, SearchInv(g), SearchNext
    PROVE  SearchInv(g)'
  BY BeginKeeps, LookKeeps, LeaveKeeps DEF SearchNext

\* A finished search tells whether there is a cycle.
LEMMA SearchTells ==
    ASSUME NEW g, SearchInv(g), Searched, loop = <<>>
    PROVE  ~Cyclic(g)
  BY DEF SearchInv, Searched, DoneInv, Dead, Cyclic

\* ------------------------------------------------ the walk of an interface
\* A set of interfaces closed under embedding, and what one is made of: what is
\* in every such set that has it.
ClosedIn(table, names) ==
    \A n \in names : \A i \in DOMAIN table[n] :
        EmbedsHere(table[n][i], DOMAIN table) => table[n][i].type.name \in names

Reached(table, root) ==
    {n \in DOMAIN table : \A names \in SUBSET DOMAIN table :
                              root \in names /\ ClosedIn(table, names) => n \in names}

AllItems(table) == UNION {{table[n][i] : i \in DOMAIN table[n]} : n \in DOMAIN table}

\* The interfaces met belong to the one asked for; those not read to the end
\* are on the trail, and what was read of them was followed.
SeenInv(table, root) ==
    /\ trail \in Seq(DOMAIN table)
    /\ unread \in [DOMAIN table -> SUBSET UNION {DOMAIN table[n] : n \in DOMAIN table}]
    /\ \A n \in DOMAIN table : unread[n] \subseteq DOMAIN table[n]
    /\ root \in seen
    /\ seen \subseteq Reached(table, root)
    /\ \A i \in DOMAIN trail : trail[i] \in seen
    /\ \A n \in seen : unread[n] = {} \/ \E i \in DOMAIN trail : trail[i] = n
    /\ \A n \in DOMAIN table \ seen : unread[n] = DOMAIN table[n]
    /\ \A n \in seen : \A i \in DOMAIN table[n] \ unread[n] :
           EmbedsHere(table[n][i], DOMAIN table) => table[n][i].type.name \in seen

\* The methods found are those of what was read, each name once.
MethodsInv(table) ==
    /\ methods \in Seq(AllItems(table))
    /\ \A k, l \in DOMAIN methods : methods[k].name = methods[l].name => k = l
    /\ \A k \in DOMAIN methods : \E n \in seen : \E i \in DOMAIN table[n] :
           methods[k] = table[n][i] /\ table[n][i].head = "method"
    /\ \A n \in seen : \A i \in DOMAIN table[n] \ unread[n] :
           table[n][i].head = "method" => \E k \in DOMAIN methods : methods[k].name = table[n][i].name

WalkInv(table, root) ==
    /\ ifaces = table
    /\ SeenInv(table, root)
    /\ MethodsInv(table)

\* What a walk that ended well has found.
WalkedRight(table, root, found) ==
    /\ found \in Seq(AllItems(table))
    /\ \A k, l \in DOMAIN found : found[k].name = found[l].name => k = l
    /\ \A k \in DOMAIN found : \E n \in Reached(table, root) : \E i \in DOMAIN table[n] :
           found[k] = table[n][i] /\ table[n][i].head = "method"
    /\ \A n \in Reached(table, root) : \A i \in DOMAIN table[n] :
           table[n][i].head = "method" => \E k \in DOMAIN found : found[k].name = table[n][i].name

\* The walk starts at the interface asked for, with no method found.
LEMMA WalkStarts ==
    ASSUME NEW table, NEW root \in DOMAIN table, StartWalk(table, root)
    PROVE  WalkInv(table, root)'
<1>1. /\ ifaces' = table /\ trail' = <<root>> /\ methods' = <<>> /\ seen' = {root}
      /\ unread' = [n \in DOMAIN table |-> DOMAIN table[n]]
  BY DEF StartWalk
<1>2. <<root>> \in Seq(DOMAIN table) /\ DOMAIN <<root>> = {1} /\ <<root>>[1] = root
  BY OneElement
<1>3. SeenInv(table, root)'
  <2>1. root \in Reached(table, root)
    BY DEF Reached
  <2>2. trail' \in Seq(DOMAIN table) /\ DOMAIN trail' = {1} /\ trail'[1] = root
    BY <1>1, <1>2
  <2>3. unread' \in [DOMAIN table -> SUBSET UNION {DOMAIN table[n] : n \in DOMAIN table}]
    BY <1>1
  <2>4. \A n \in DOMAIN table : unread'[n] = DOMAIN table[n]
    BY <1>1
  <2> QED
    BY <2>1, <2>2, <2>3, <2>4, <1>1 DEF SeenInv
<1>4. MethodsInv(table)'
  <2>1. methods' \in Seq(AllItems(table)) /\ DOMAIN methods' = {}
    BY <1>1
  <2>2. \A n \in seen' : unread'[n] = DOMAIN table[n]
    BY <1>1
  <2> QED
    BY <2>1, <2>2 DEF MethodsInv
<1> QED
  BY <1>1, <1>3, <1>4 DEF WalkInv

\* The interface being read is the last of the trail.
LEMMA ReadingIs ==
    ASSUME NEW table, NEW root, SeenInv(table, root), trail # <<>>
    PROVE  /\ Len(trail) \in Nat \ {0} /\ DOMAIN trail = 1..Len(trail)
           /\ Reading = trail[Len(trail)] /\ Reading \in seen /\ Reading \in DOMAIN table
<1>1. trail \in Seq(DOMAIN table)
  BY DEF SeenInv
<1>2. Len(trail) \in Nat \ {0} /\ DOMAIN trail = 1..Len(trail)
  BY <1>1, EmptySeq, LenProperties
<1> QED
  BY <1>2 DEF SeenInv, Reading, Reached

\* Adding a method by its name.
LEMMA AddMethodAdds ==
    ASSUME NEW S, NEW have \in Seq(S), NEW m \in S,
           \A k, l \in DOMAIN have : have[k].name = have[l].name => k = l
    PROVE  /\ AddMethod(have, m) \in Seq(S)
           /\ \A k, l \in DOMAIN AddMethod(have, m) :
                  AddMethod(have, m)[k].name = AddMethod(have, m)[l].name => k = l
           /\ \A k \in DOMAIN AddMethod(have, m) :
                  AddMethod(have, m)[k] = m \/ (k \in DOMAIN have /\ AddMethod(have, m)[k] = have[k])
           /\ \E k \in DOMAIN AddMethod(have, m) : AddMethod(have, m)[k].name = m.name
           /\ \A k \in DOMAIN have : k \in DOMAIN AddMethod(have, m) /\ AddMethod(have, m)[k] = have[k]
<1>1. CASE \E i \in DOMAIN have : have[i].name = m.name
  BY <1>1 DEF AddMethod
<1>2. CASE ~\E i \in DOMAIN have : have[i].name = m.name
  <2> DEFINE t == AddMethod(have, m)
  <2>1. t = Append(have, m)
    BY <1>2 DEF AddMethod
  <2>2. /\ t \in Seq(S) /\ Len(t) = Len(have) + 1 /\ Len(have) \in Nat
        /\ \A i \in 1..Len(have) : t[i] = have[i]
        /\ t[Len(have) + 1] = m
    BY <2>1, AppendProperties, LenProperties
  <2> HIDE DEF t
  <2>3. DOMAIN t = 1..(Len(have) + 1) /\ DOMAIN have = 1..Len(have)
    BY <2>2, LenProperties
  <2>4. \A k, l \in DOMAIN t : t[k].name = t[l].name => k = l
    <3> SUFFICES ASSUME NEW k \in DOMAIN t, NEW l \in DOMAIN t, t[k].name = t[l].name PROVE k = l
      OBVIOUS
    <3>1. CASE k \in 1..Len(have) /\ l \in 1..Len(have)
      BY <3>1, <2>2, <2>3
    <3>2. CASE k = Len(have) + 1 \/ l = Len(have) + 1
      BY <3>2, <1>2, <2>2, <2>3
    <3> QED
      BY <3>1, <3>2, <2>2, <2>3
  <2>5. \A k \in DOMAIN t : t[k] = m \/ (k \in DOMAIN have /\ t[k] = have[k])
    BY <2>2, <2>3
  <2>6. Len(have) + 1 \in DOMAIN t
    BY <2>2, <2>3
  <2>7. \A k \in DOMAIN have : k \in DOMAIN t /\ t[k] = have[k]
    BY <2>2, <2>3
  <2> QED
    BY <2>2, <2>4, <2>5, <2>6, <2>7 DEF t
<1> QED
  BY <1>1, <1>2

\* An item is read: a method is added by its name, an interface of the package
\* followed unless it was met (implement.go interfaceMethods).
LEMMA ReadItemKeeps ==
    ASSUME NEW table, NEW root, WalkInv(table, root), ReadItem
    PROVE  WalkInv(table, root)'
<1> DEFINE r == Reading
<1>1. trail # <<>> /\ ifaces' = ifaces /\ ifaces = table /\ SeenInv(table, root) /\ MethodsInv(table)
  BY DEF ReadItem, WalkInv
<1>2. /\ Len(trail) \in Nat \ {0} /\ DOMAIN trail = 1..Len(trail)
      /\ r = trail[Len(trail)] /\ r \in seen /\ r \in DOMAIN table
  BY <1>1, ReadingIs
<1>3. PICK i \in unread[r] :
          /\ unread' = [unread EXCEPT ![r] = @ \ {i}]
          /\ \/ /\ ifaces[r][i].head = "method"
                /\ methods' = AddMethod(methods, ifaces[r][i])
                /\ UNCHANGED <<trail, seen>>
             \/ /\ EmbedsHere(ifaces[r][i], DOMAIN ifaces)
                /\ ifaces[r][i].type.name \in seen
                /\ UNCHANGED <<trail, methods, seen>>
             \/ /\ EmbedsHere(ifaces[r][i], DOMAIN ifaces)
                /\ ifaces[r][i].type.name \notin seen
                /\ seen' = seen \union {ifaces[r][i].type.name}
                /\ trail' = Append(trail, ifaces[r][i].type.name)
                /\ UNCHANGED methods
             \/ /\ ifaces[r][i].head # "method"
                /\ ~EmbedsHere(ifaces[r][i], DOMAIN ifaces)
                /\ UNCHANGED <<trail, methods, seen>>
  BY DEF ReadItem
<1> HIDE DEF r
<1> DEFINE it == table[r][i]
<1>5. /\ unread' \in [DOMAIN table -> SUBSET UNION {DOMAIN table[n] : n \in DOMAIN table}]
      /\ unread'[r] = unread[r] \ {i}
      /\ \A n \in DOMAIN table : n # r => unread'[n] = unread[n]
      /\ \A n \in DOMAIN table : unread'[n] \subseteq DOMAIN table[n]
  <2>1. /\ unread \in [DOMAIN table -> SUBSET UNION {DOMAIN table[n] : n \in DOMAIN table}]
        /\ \A n \in DOMAIN table : unread[n] \subseteq DOMAIN table[n]
    BY <1>1 DEF SeenInv
  <2>2. /\ unread' \in [DOMAIN table -> SUBSET UNION {DOMAIN table[n] : n \in DOMAIN table}]
        /\ unread'[r] = unread[r] \ {i}
        /\ \A n \in DOMAIN table : n # r => unread'[n] = unread[n]
    BY <2>1, <1>2, <1>3
  <2> QED
    BY <2>1, <2>2, <1>2
<1>6. seen \subseteq DOMAIN table
  BY <1>1 DEF SeenInv, Reached
\* What has been read now and had not been before is the item.
<1>7. ASSUME NEW n \in seen, NEW j \in DOMAIN table[n] \ unread'[n]
      PROVE  j \in DOMAIN table[n] \ unread[n] \/ (n = r /\ j = i)
  BY <1>5, <1>6
<1>8. ASSUME UNCHANGED <<trail, seen>>, EmbedsHere(it, DOMAIN table) => it.type.name \in seen
      PROVE  SeenInv(table, root)'
  <2>1. \A n \in seen : \A j \in DOMAIN table[n] \ unread'[n] :
            EmbedsHere(table[n][j], DOMAIN table) => table[n][j].type.name \in seen
    BY <1>1, <1>7, <1>8 DEF SeenInv
  <2>2. \A n \in seen : unread'[n] = {} \/ \E k \in DOMAIN trail : trail[k] = n
    BY <1>1, <1>2, <1>5, <1>6 DEF SeenInv
  <2>3. \A n \in DOMAIN table \ seen : unread'[n] = DOMAIN table[n]
    BY <1>1, <1>2, <1>5 DEF SeenInv
  <2> QED
    BY <2>1, <2>2, <2>3, <1>1, <1>5, <1>8 DEF SeenInv
<1>9. ASSUME UNCHANGED <<methods, seen>>, it.head # "method" PROVE MethodsInv(table)'
  <2>1. \A n \in seen : \A j \in DOMAIN table[n] \ unread'[n] :
            table[n][j].head = "method" => \E k \in DOMAIN methods : methods[k].name = table[n][j].name
    BY <1>1, <1>7, <1>9 DEF MethodsInv
  <2> QED
    BY <2>1, <1>1, <1>9 DEF MethodsInv
<1>10. CASE /\ it.head = "method" /\ methods' = AddMethod(methods, it) /\ UNCHANGED <<trail, seen>>
  <2>0. i \in DOMAIN table[r]
    BY <1>1, <1>2, <1>3 DEF SeenInv
  <2>1. it \in AllItems(table)
    BY <1>2, <2>0 DEF AllItems
  <2>2. SeenInv(table, root)'
    BY <1>8, <1>10 DEF EmbedsHere
  <2> DEFINE t == AddMethod(methods, it)
  <2>3. /\ t \in Seq(AllItems(table))
        /\ \A k, l \in DOMAIN t : t[k].name = t[l].name => k = l
        /\ \A k \in DOMAIN t : t[k] = it \/ (k \in DOMAIN methods /\ t[k] = methods[k])
        /\ \E k \in DOMAIN t : t[k].name = it.name
        /\ \A k \in DOMAIN methods : k \in DOMAIN t /\ t[k] = methods[k]
    BY <1>1, <2>1, AddMethodAdds DEF MethodsInv
  <2> HIDE DEF t
  <2>4. \A k \in DOMAIN t : \E n \in seen : \E j \in DOMAIN table[n] :
            t[k] = table[n][j] /\ table[n][j].head = "method"
    BY <1>1, <1>2, <1>10, <2>0, <2>3 DEF MethodsInv
  <2>5. \A n \in seen : \A j \in DOMAIN table[n] \ unread'[n] :
            table[n][j].head = "method" => \E k \in DOMAIN t : t[k].name = table[n][j].name
    BY <1>1, <1>7, <2>3 DEF MethodsInv
  <2>6. MethodsInv(table)'
    <3>1. methods' = t /\ seen' = seen
      BY <1>10 DEF t
    <3> QED
      BY <3>1, <2>3, <2>4, <2>5 DEF MethodsInv
  <2> QED
    BY <2>2, <2>6, <1>1 DEF WalkInv
<1>11. CASE /\ EmbedsHere(it, DOMAIN table) /\ it.type.name \in seen /\ UNCHANGED <<trail, methods, seen>>
  BY <1>1, <1>8, <1>9, <1>11 DEF WalkInv, EmbedsHere
<1>12. CASE /\ EmbedsHere(it, DOMAIN table)
            /\ it.type.name \notin seen
            /\ seen' = seen \union {it.type.name}
            /\ trail' = Append(trail, it.type.name)
            /\ UNCHANGED methods
  <2> DEFINE new == it.type.name
  <2>1. new \in DOMAIN table /\ new \notin seen /\ new # r /\ it.head # "method"
    BY <1>2, <1>12 DEF EmbedsHere
  <2>2. i \in DOMAIN table[r]
    BY <1>1, <1>2, <1>3 DEF SeenInv
  <2>3. new \in Reached(table, root)
    BY <1>1, <1>2, <1>12, <2>1, <2>2 DEF SeenInv, Reached, ClosedIn
  <2>4. trail \in Seq(DOMAIN table)
    BY <1>1 DEF SeenInv
  <2>5. /\ trail' \in Seq(DOMAIN table) /\ Len(trail') = Len(trail) + 1
        /\ \A k \in 1..Len(trail) : trail'[k] = trail[k]
        /\ trail'[Len(trail) + 1] = new
    BY <2>1, <2>4, <1>12, AppendProperties
  <2>6. DOMAIN trail' = 1..(Len(trail) + 1)
    BY <2>5, LenProperties
  <2> HIDE DEF new
  <2>7. unread'[new] = DOMAIN table[new] /\ unread[new] = DOMAIN table[new]
    BY <1>1, <1>5, <2>1 DEF SeenInv
  <2>8. seen' = seen \union {new}
    BY <1>12 DEF new
  <2>9. \A n \in seen' : \A j \in DOMAIN table[n] \ unread'[n] :
            EmbedsHere(table[n][j], DOMAIN table) => table[n][j].type.name \in seen'
    <3> SUFFICES ASSUME NEW n \in seen', NEW j \in DOMAIN table[n] \ unread'[n], EmbedsHere(table[n][j], DOMAIN table)
                 PROVE  table[n][j].type.name \in seen'
      OBVIOUS
    <3>1. n \in seen
      BY <2>7, <2>8
    <3>2. CASE j \in DOMAIN table[n] \ unread[n]
      BY <3>1, <3>2, <2>8, <1>1 DEF SeenInv
    <3>3. CASE n = r /\ j = i
      BY <3>3, <2>8 DEF new
    <3> QED
      BY <3>1, <3>2, <3>3, <1>7
  <2>10. \A k \in DOMAIN trail' : trail'[k] \in seen'
    BY <1>1, <1>2, <2>5, <2>6, <2>8 DEF SeenInv
  <2>11. \A n \in seen' : unread'[n] = {} \/ \E k \in DOMAIN trail' : trail'[k] = n
    <3> SUFFICES ASSUME NEW n \in seen' PROVE unread'[n] = {} \/ \E k \in DOMAIN trail' : trail'[k] = n
      OBVIOUS
    <3>1. CASE n = new
      BY <3>1, <1>2, <2>5, <2>6
    <3>2. CASE n \in seen /\ \E k \in DOMAIN trail : trail[k] = n
      BY <3>2, <1>2, <2>5, <2>6
    <3>3. CASE n \in seen /\ unread[n] = {}
      BY <3>3, <1>5, <1>6
    <3> QED
      BY <3>1, <3>2, <3>3, <2>8, <1>1 DEF SeenInv
  <2>12. \A n \in DOMAIN table \ seen' : unread'[n] = DOMAIN table[n]
    BY <1>1, <1>2, <1>5, <2>8 DEF SeenInv
  <2>13. root \in seen' /\ seen' \subseteq Reached(table, root)
    BY <1>1, <2>3, <2>8 DEF SeenInv
  <2>14. SeenInv(table, root)'
    BY <2>5, <2>9, <2>10, <2>11, <2>12, <2>13, <1>5 DEF SeenInv
  <2>15. \A n \in seen' : \A j \in DOMAIN table[n] \ unread'[n] :
            table[n][j].head = "method" => \E k \in DOMAIN methods : methods[k].name = table[n][j].name
    <3> SUFFICES ASSUME NEW n \in seen', NEW j \in DOMAIN table[n] \ unread'[n], table[n][j].head = "method"
                 PROVE  \E k \in DOMAIN methods : methods[k].name = table[n][j].name
      OBVIOUS
    <3>1. n \in seen
      BY <2>7, <2>8
    <3>2. j \in DOMAIN table[n] \ unread[n]
      BY <3>1, <1>7, <2>1
    <3> QED
      BY <3>1, <3>2, <1>1 DEF MethodsInv
  <2>16. MethodsInv(table)'
    <3>1. methods' = methods
      BY <1>12
    <3> QED
      BY <3>1, <2>8, <2>15, <1>1 DEF MethodsInv
  <2> QED
    BY <2>14, <2>16, <1>1 DEF WalkInv
<1>13. CASE /\ it.head # "method" /\ ~EmbedsHere(it, DOMAIN table) /\ UNCHANGED <<trail, methods, seen>>
  BY <1>1, <1>8, <1>9, <1>13 DEF WalkInv
<1> QED
  BY <1>1, <1>3, <1>10, <1>11, <1>12, <1>13

\* An interface read to the end leaves the trail.
LEMMA ReturnKeeps ==
    ASSUME NEW table, NEW root, WalkInv(table, root), Return
    PROVE  WalkInv(table, root)'
<1>1. /\ trail # <<>> /\ unread[Reading] = {} /\ trail' = SubSeq(trail, 1, Len(trail) - 1)
      /\ ifaces' = ifaces /\ unread' = unread /\ methods' = methods /\ seen' = seen
      /\ ifaces = table /\ SeenInv(table, root) /\ MethodsInv(table)
  BY DEF Return, WalkInv
<1>2. /\ Len(trail) \in Nat \ {0} /\ DOMAIN trail = 1..Len(trail)
      /\ Reading = trail[Len(trail)]
  BY <1>1, ReadingIs
<1>3. trail \in Seq(DOMAIN table) /\ Len(trail) # 0
  BY <1>1, <1>2 DEF SeenInv
<1>4. /\ trail' \in Seq(DOMAIN table) /\ DOMAIN trail' = 1..(Len(trail) - 1)
      /\ \A i \in 1..(Len(trail) - 1) : trail'[i] = trail[i]
  BY <1>1, <1>3, WithoutLast
<1>5. \A n \in seen : unread[n] = {} \/ \E i \in DOMAIN trail' : trail'[i] = n
  <2> SUFFICES ASSUME NEW n \in seen, unread[n] # {} PROVE \E i \in DOMAIN trail' : trail'[i] = n
    OBVIOUS
  <2>1. PICK i \in DOMAIN trail : trail[i] = n
    BY <1>1 DEF SeenInv
  <2>2. i # Len(trail)
    BY <2>1, <1>1, <1>2
  <2> QED
    BY <2>1, <2>2, <1>2, <1>4
<1>6. \A i \in DOMAIN trail' : trail'[i] \in seen
  BY <1>1, <1>2, <1>4 DEF SeenInv
<1>7. SeenInv(table, root)'
  BY <1>1, <1>4, <1>5, <1>6 DEF SeenInv
<1>8. MethodsInv(table)'
  BY <1>1 DEF MethodsInv
<1> QED
  BY <1>1, <1>7, <1>8 DEF WalkInv

\* Every step of the walk keeps its invariant.
LEMMA WalkKeeps ==
    ASSUME NEW table, NEW root, WalkInv(table, root), WalkNext
    PROVE  WalkInv(table, root)'
  BY ReadItemKeeps, ReturnKeeps DEF WalkNext

\* A walk that ends well has found every method and nothing else.
LEMMA WalkEnds ==
    ASSUME NEW table, NEW root, WalkInv(table, root), Walked, ~again
    PROVE  WalkedRight(table, root, methods)
<1>1. trail = <<>> /\ SeenInv(table, root) /\ MethodsInv(table)
  BY DEF Walked, WalkInv
<1>2. DOMAIN trail = {}
  BY <1>1
<1>3. \A n \in seen : unread[n] = {}
  BY <1>1, <1>2 DEF SeenInv
<1>4. seen \in SUBSET DOMAIN table /\ ClosedIn(table, seen) /\ root \in seen
  BY <1>1, <1>3 DEF SeenInv, ClosedIn, Reached
<1>5. seen = Reached(table, root)
  BY <1>1, <1>4 DEF SeenInv, Reached
<1> QED
  BY <1>1, <1>3, <1>5 DEF MethodsInv, WalkedRight

\* ------------------------------------------------- what validation accepted
LEMMA NoErrorsIn ==
    ASSUME NEW p0, NEW strict, ValidateErrors(p0, strict) = {},
           NEW p \in Range(p0.packages), NEW i \in DOMAIN p.items
    PROVE  ItemErrorsIn(p.items[i], p, p0.go, strict) = {}
<1>1. PackageErrors(p, p0.go, strict) = {}
  BY DEF ValidateErrors
<1>2. p.items[i] \in Range(p.items)
  BY DEF Range
<1> QED
  BY <1>1, <1>2 DEF PackageErrors

\* Of an entity: each store has an ID field before it, and each op is known.
LEMMA NoErrorsInEntity ==
    ASSUME NEW it, it.head = "entity", NEW p, NEW go, NEW strict, ItemErrorsIn(it, p, go, strict) = {},
           NEW i \in StoresAt(it)
    PROVE  /\ "ID" \in FieldsBefore(it, i)
           /\ \A op \in Range(it.items[i].ops) : OpErrors(it, i, op) = {}
<1>1. StructErrors(it) = {}
  BY DEF ItemErrorsIn, Unchecked
<1>2. StoreErrors(it, i) = {}
  BY <1>1 DEF StructErrors, StoresAt
<1>3. \A op \in Range(it.items[i].ops) : OpErrors(it, i, op) = {}
  BY <1>2 DEF StoreErrors
<1>4. "ID" \in FieldsBefore(it, i)
  BY <1>2 DEF StoreErrors
<1> QED
  BY <1>3, <1>4

\* The type of a field declared before a store is a type of the entity.
LEMMA FieldTypeIsOne ==
    ASSUME NEW it, NEW i, NEW n, n \in FieldsBefore(it, i)
    PROVE  FieldType(it, n) \in {f.type : f \in Fields(it)}
<1>1. PICK j \in PlacesOf(it.items, "field") : it.items[j].name = n
  BY DEF FieldsBefore
<1>2. it.items[j] \in Fields(it)
  BY <1>1 DEF Fields, FormsOf
<1> QED
  BY <1>1, <1>2 DEF FieldType

\* The signature of an op names what its entity names, and the entity.
LEMMA OpTypesAreOf ==
    ASSUME NEW it, it.head = "entity", NEW p, NEW go, NEW strict, ItemErrorsIn(it, p, go, strict) = {},
           NEW i \in StoresAt(it), NEW op \in Range(it.items[i].ops), NEW t \in OpTypes(it, op)
    PROVE  t \in TypesOf(it) \/ t = Here(it.name)
<1>1. "ID" \in FieldsBefore(it, i) /\ OpErrors(it, i, op) = {}
  BY NoErrorsInEntity
<1>2. {f.type : f \in Fields(it)} \subseteq TypesOf(it)
  BY DEF TypesOf
<1>3. CASE op.kind \in {"get", "delete"}
  <2>1. t \in {FieldType(it, "ID"), Here(it.name)}
    BY <1>3 DEF OpTypes, FieldOps
  <2> QED
    BY <2>1, <1>1, <1>2, FieldTypeIsOne
<1>4. CASE op.kind \in FieldOps
  <2>1. t \in {FieldType(it, op.field), Here(it.name)}
    BY <1>4 DEF OpTypes, FieldOps
  <2>2. op.field \in FieldsBefore(it, i)
    BY <1>1, <1>4 DEF OpErrors
  <2> QED
    BY <2>1, <2>2, <1>2, FieldTypeIsOne
<1>5. CASE op.kind = "method"
  <2>1. t \in op.types
    BY <1>5 DEF OpTypes, FieldOps
  <2>2. op \in CustomMethods(it)
    BY <1>5 DEF CustomMethods, Stores, FormsOf, StoresAt
  <2> QED
    BY <2>1, <2>2 DEF TypesOf
<1>6. CASE op.kind \notin {"get", "delete"} \union FieldOps \union {"method"}
  BY <1>6 DEF OpTypes
<1> QED
  BY <1>3, <1>4, <1>5, <1>6

\* ------------------------------------------------------- lowered packages
KeptStore(it) == CHOOSE s \in LastStore(it) : TRUE

\* A form that is not an entity expands to itself.
LEMMA ExpandedPlain ==
    ASSUME NEW it, it.head # "entity"
    PROVE  DOMAIN Expanded(it) = {1} /\ Expanded(it)[1] = it
<1>1. Expanded(it) = <<it>>
  BY DEF Expanded
<1>2. DOMAIN <<it>> = {1} /\ <<it>>[1] = it
  OBVIOUS
<1> QED
  BY <1>1, <1>2

\* An entity expands to a struct and, with a store, an interface and an impl.
LEMMA ExpandedEntity ==
    ASSUME NEW it, it.head = "entity"
    PROVE  /\ 1 \in DOMAIN Expanded(it) /\ Expanded(it)[1] = StructForm(it)
           /\ LastStore(it) # {} =>
                  /\ DOMAIN Expanded(it) = {1, 2, 3}
                  /\ Expanded(it)[2] = InterfaceForm(it, Ops(KeptStore(it)))
                  /\ Expanded(it)[3] = ImplForm(it, Ops(KeptStore(it)))
           /\ LastStore(it) = {} => DOMAIN Expanded(it) = {1}
<1>1. CASE LastStore(it) = {}
  <2>1. Expanded(it) = <<StructForm(it)>>
    BY <1>1 DEF Expanded
  <2>2. DOMAIN <<StructForm(it)>> = {1} /\ <<StructForm(it)>>[1] = StructForm(it)
    OBVIOUS
  <2> QED
    BY <1>1, <2>1, <2>2
<1>2. CASE LastStore(it) # {}
  <2> DEFINE a == StructForm(it)
             b == InterfaceForm(it, Ops(KeptStore(it)))
             c == ImplForm(it, Ops(KeptStore(it)))
  <2>1. Expanded(it) = <<a, b, c>>
    BY <1>2 DEF Expanded, KeptStore
  <2> HIDE DEF a, b, c
  <2>2. DOMAIN <<a, b, c>> = {1, 2, 3} /\ <<a, b, c>>[1] = a /\ <<a, b, c>>[2] = b /\ <<a, b, c>>[3] = c
    OBVIOUS
  <2> QED
    BY <1>2, <2>1, <2>2 DEF a, b, c
<1> QED
  BY <1>1, <1>2

\* A package after expand and concretize, and its items, one by one.
LoweredOf(p) == Concretize(Expand(p))

\* Name, directory, places and items of a lowered package.
LEMMA LoweredParts ==
    ASSUME NEW p
    PROVE  /\ LoweredOf(p).name = p.name
           /\ LoweredOf(p).dir = DirOf(Expand(p))
           /\ LoweredOf(p).at = p.at
           /\ DOMAIN LoweredOf(p).items = {a \in ExpandedPlaces(p.items) : Expand(p).items[a].head # "dir"}
           /\ DOMAIN Expand(p).items = ExpandedPlaces(p.items)
           /\ \A a \in DOMAIN LoweredOf(p).items : LoweredOf(p).items[a] = ConcretizeItem(Expand(p).items[a])
           /\ \A a \in ExpandedPlaces(p.items) : Expand(p).items[a] = Expanded(p.items[a[1]])[a[2]]
           /\ \A a \in ExpandedPlaces(p.items) :
                  /\ a = <<a[1], a[2]>> /\ a[1] \in DOMAIN p.items /\ a[2] \in DOMAIN Expanded(p.items[a[1]])
<1>1. DOMAIN Expand(p).items = ExpandedPlaces(p.items)
  BY DEF Expand
<1>2. \A a \in ExpandedPlaces(p.items) : Expand(p).items[a] = Expanded(p.items[a[1]])[a[2]]
  BY DEF Expand
<1>3. Expand(p).name = p.name /\ Expand(p).at = p.at
  BY DEF Expand
<1>4. \A a \in ExpandedPlaces(p.items) :
          a = <<a[1], a[2]>> /\ a[1] \in DOMAIN p.items /\ a[2] \in DOMAIN Expanded(p.items[a[1]])
  BY DEF ExpandedPlaces
<1> DEFINE e == Expand(p)
<1> HIDE DEF e
<1>5. /\ Concretize(e).name = e.name /\ Concretize(e).dir = DirOf(e) /\ Concretize(e).at = e.at
      /\ DOMAIN Concretize(e).items = DOMAIN e.items \ PlacesOf(e.items, "dir")
      /\ \A a \in DOMAIN Concretize(e).items : Concretize(e).items[a] = ConcretizeItem(e.items[a])
  BY DEF Concretize
<1>6. DOMAIN e.items \ PlacesOf(e.items, "dir") = {a \in DOMAIN e.items : e.items[a].head # "dir"}
  BY DEF PlacesOf
<1> QED
  BY <1>1, <1>2, <1>3, <1>4, <1>5, <1>6 DEF LoweredOf, e

\* What an item of a lowered package comes from.
LEMMA LoweredFrom ==
    ASSUME NEW p, NEW a \in DOMAIN LoweredOf(p).items
    PROVE  \E i \in DOMAIN p.items : LET it == p.items[i]
                                        x  == LoweredOf(p).items[a]
           IN  \/ it.head \notin {"entity", "interface", "dir"} /\ x = it
               \/ it.head = "interface" /\ x = ConcretizeItem(it)
               \/ it.head = "entity" /\ x = StructForm(it)
               \/ /\ it.head = "entity" /\ LastStore(it) # {}
                  /\ \/ x = ConcretizeItem(InterfaceForm(it, Ops(KeptStore(it))))
                     \/ x = ImplForm(it, Ops(KeptStore(it)))
<1> DEFINE i == a[1]
           it == p.items[i]
           e == Expanded(it)[a[2]]
           x == LoweredOf(p).items[a]
<1>1. i \in DOMAIN p.items /\ a[2] \in DOMAIN Expanded(it) /\ x = ConcretizeItem(e) /\ e.head # "dir"
  BY LoweredParts
<1> HIDE DEF i, x
<1>2. CASE it.head # "entity"
  <2>1. e = it
    BY <1>1, <1>2, ExpandedPlain
  <2>2. CASE it.head = "interface"
    BY <2>1, <2>2, <1>1 DEF x, i
  <2>3. CASE it.head # "interface"
    <3>1. x = it
      BY <2>1, <2>3, <1>1 DEF ConcretizeItem
    <3> QED
      BY <3>1, <2>1, <2>3, <1>1, <1>2 DEF x, i
  <2> QED
    BY <2>2, <2>3
<1>3. CASE it.head = "entity"
  <2>1. CASE a[2] = 1
    <3>1. e = StructForm(it)
      BY <2>1, <1>3, ExpandedEntity
    <3>2. x = StructForm(it)
      BY <3>1, <1>1 DEF ConcretizeItem, StructForm
    <3> QED
      BY <3>2, <1>1, <1>3 DEF x, i
  <2>2. CASE a[2] # 1
    <3>1. LastStore(it) # {} /\ a[2] \in {2, 3}
      BY <2>2, <1>1, <1>3, ExpandedEntity
    <3>2. CASE a[2] = 2
      <4>1. x = ConcretizeItem(InterfaceForm(it, Ops(KeptStore(it))))
        BY <3>1, <3>2, <1>1, <1>3, ExpandedEntity
      <4> QED
        BY <4>1, <3>1, <1>1, <1>3 DEF x, i
    <3>3. CASE a[2] = 3
      <4>1. e = ImplForm(it, Ops(KeptStore(it)))
        BY <3>1, <3>3, <1>3, ExpandedEntity
      <4>2. x = ImplForm(it, Ops(KeptStore(it)))
        BY <4>1, <1>1 DEF ConcretizeItem, ImplForm
      <4> QED
        BY <4>2, <3>1, <1>1, <1>3 DEF x, i
    <3> QED
      BY <3>1, <3>2, <3>3
  <2> QED
    BY <2>1, <2>2
<1> QED
  BY <1>2, <1>3

\* Where the items of the spec stand in the lowered package.
LEMMA LoweredHas ==
    ASSUME NEW p, NEW i \in DOMAIN p.items, p.items[i].head # "dir"
    PROVE  LET it == p.items[i]
               L  == LoweredOf(p)
           IN  /\ it.head # "entity" =>
                      <<i, 1>> \in DOMAIN L.items /\ L.items[<<i, 1>>] = ConcretizeItem(it)
               /\ it.head = "entity" =>
                      <<i, 1>> \in DOMAIN L.items /\ L.items[<<i, 1>>] = StructForm(it)
               /\ it.head = "entity" /\ LastStore(it) # {} =>
                      /\ <<i, 2>> \in DOMAIN L.items
                      /\ L.items[<<i, 2>>] = ConcretizeItem(InterfaceForm(it, Ops(KeptStore(it))))
                      /\ <<i, 3>> \in DOMAIN L.items
                      /\ L.items[<<i, 3>>] = ImplForm(it, Ops(KeptStore(it)))
<1> DEFINE it == p.items[i]
<1>1. ASSUME NEW k \in DOMAIN Expanded(it), Expanded(it)[k].head # "dir"
      PROVE  /\ <<i, k>> \in DOMAIN LoweredOf(p).items
             /\ LoweredOf(p).items[<<i, k>>] = ConcretizeItem(Expanded(it)[k])
  <2>1. <<i, k>> \in ExpandedPlaces(p.items)
    BY DEF ExpandedPlaces
  <2>2. Expand(p).items[<<i, k>>] = Expanded(it)[k]
    BY <2>1, LoweredParts
  <2> QED
    BY <2>1, <2>2, <1>1, LoweredParts
<1>2. CASE it.head # "entity"
  BY <1>1, <1>2, ExpandedPlain
<1>3. CASE it.head = "entity"
  <2>1. ConcretizeItem(StructForm(it)) = StructForm(it) /\ StructForm(it).head = "struct"
    BY DEF ConcretizeItem, StructForm
  <2>2. InterfaceForm(it, Ops(KeptStore(it))).head = "interface"
    BY DEF InterfaceForm
  <2>3. /\ ConcretizeItem(ImplForm(it, Ops(KeptStore(it)))) = ImplForm(it, Ops(KeptStore(it)))
        /\ ImplForm(it, Ops(KeptStore(it))).head = "impl"
    BY DEF ConcretizeItem, ImplForm
  <2> QED
    BY <1>1, <1>3, <2>1, <2>2, <2>3, ExpandedEntity
<1> QED
  BY <1>2, <1>3

\* ------------------------------------------------- the types of lowered items
LEMMA KeptIsStore ==
    ASSUME NEW it, LastStore(it) # {}
    PROVE  KeptStore(it) \in LastStore(it) /\ \E i \in StoresAt(it) : KeptStore(it) = it.items[i]
<1>1. KeptStore(it) \in LastStore(it)
  BY DEF KeptStore
<1> QED
  BY <1>1 DEF LastStore

\* The struct of an entity has its fields and no store.
LEMMA StructFormFields ==
    ASSUME NEW it
    PROVE  /\ Fields(StructForm(it)) = Fields(it)
           /\ Stores(StructForm(it)) = {}
           /\ CustomMethods(StructForm(it)) = {}
<1> DEFINE s == StructForm(it).items
<1>1. DOMAIN s = DOMAIN it.items \ StoresAt(it) /\ \A i \in DOMAIN s : s[i] = it.items[i]
  BY DEF StructForm
<1>2. PlacesOf(s, "field") = PlacesOf(it.items, "field")
  BY <1>1 DEF PlacesOf, StoresAt
<1>3. PlacesOf(s, "store") = {}
  BY <1>1 DEF PlacesOf, StoresAt
<1>4. \A i \in PlacesOf(s, "field") : s[i] = it.items[i]
  BY <1>1 DEF PlacesOf
<1> HIDE DEF s
<1>5. FormsOf(s, "field") = FormsOf(it.items, "field") /\ FormsOf(s, "store") = {}
  BY <1>2, <1>3, <1>4 DEF FormsOf
<1>6. Fields(StructForm(it)) = Fields(it) /\ Stores(StructForm(it)) = {}
  BY <1>5 DEF Fields, Stores, s
<1> QED
  BY <1>6 DEF CustomMethods

\* It names no type the entity does not.
LEMMA StructFormTypes ==
    ASSUME NEW it, it.head = "entity"
    PROVE  TypesOf(StructForm(it)) \subseteq TypesOf(it)
<1>1. StructForm(it).head = "struct"
  BY DEF StructForm
<1>2. TypesOf(StructForm(it)) = {f.type : f \in Fields(it)}
  BY <1>1, StructFormFields DEF TypesOf
<1> QED
  BY <1>2 DEF TypesOf

\* Putting the context in front adds its type to the methods and no other.
LEMMA WithContextIs ==
    ASSUME NEW m
    PROVE  /\ WithContext(m).head = m.head
           /\ m.head = "method" => WithContext(m).name = m.name /\ WithContext(m).types = m.types \union {ContextType}
           /\ m.head # "method" => WithContext(m) = m
  BY DEF WithContext

\* Concretize keeps an interface, its name and the places of its methods, and
\* adds the context type.
LEMMA ConcretizedInterface ==
    ASSUME NEW it, it.head = "interface"
    PROVE  /\ ConcretizeItem(it).head = "interface" /\ ConcretizeItem(it).name = it.name
           /\ DOMAIN ConcretizeItem(it).items = DOMAIN it.items
           /\ \A i \in DOMAIN it.items : ConcretizeItem(it).items[i] = WithContext(it.items[i])
           /\ TypesOf(ConcretizeItem(it)) \subseteq TypesOf(it) \union {ContextType}
<1> DEFINE x == ConcretizeItem(it)
<1>1. /\ x.head = "interface" /\ x.name = it.name /\ DOMAIN x.items = DOMAIN it.items
      /\ \A i \in DOMAIN it.items : x.items[i] = WithContext(it.items[i])
  BY DEF ConcretizeItem
<1> HIDE DEF x
<1>2. ASSUME NEW m \in Methods(x), NEW t \in m.types PROVE t \in TypesOf(it) \union {ContextType}
  <2>1. PICK i \in DOMAIN x.items : m = x.items[i] /\ m.head = "method"
    BY DEF Methods, FormsOf, PlacesOf
  <2>2. m = WithContext(it.items[i]) /\ it.items[i].head = "method"
    BY <2>1, <1>1, WithContextIs
  <2>3. t \in it.items[i].types \union {ContextType}
    BY <2>2, WithContextIs
  <2>4. it.items[i] \in Methods(it)
    BY <2>1, <2>2, <1>1 DEF Methods, FormsOf, PlacesOf
  <2> QED
    BY <2>3, <2>4 DEF TypesOf
<1>3. ASSUME NEW e \in Embeds(x) PROVE e.type \in TypesOf(it)
  <2>1. PICK i \in DOMAIN x.items : e = x.items[i] /\ e.head = "embed"
    BY DEF Embeds, FormsOf, PlacesOf
  <2>2. e = it.items[i]
    BY <2>1, <1>1, WithContextIs
  <2>3. e \in Embeds(it)
    BY <2>1, <2>2, <1>1 DEF Embeds, FormsOf, PlacesOf
  <2> QED
    BY <2>3 DEF TypesOf
<1>4. TypesOf(x) \subseteq TypesOf(it) \union {ContextType}
  <2>1. TypesOf(x) = {e.type : e \in Embeds(x)} \union UNION {m.types : m \in Methods(x)}
    BY <1>1 DEF TypesOf
  <2> QED
    BY <2>1, <1>2, <1>3
<1> QED
  BY <1>1, <1>4 DEF x

\* The interface made of a store: a method for each of its ops.
LEMMA InterfaceFormIs ==
    ASSUME NEW it, NEW ops
    PROVE  LET x == InterfaceForm(it, ops) IN
           /\ x.head = "interface" /\ x.name = StoreName(it)
           /\ DOMAIN x.items = DOMAIN ops
           /\ \A j \in DOMAIN ops : /\ x.items[j].head = "method"
                                    /\ x.items[j].name = OpMethodName(ops[j])
                                    /\ x.items[j].types = OpTypes(it, ops[j])
  BY DEF InterfaceForm

\* The interface of an accepted entity names the types of the entity and its own.
LEMMA InterfaceFormTypes ==
    ASSUME NEW it, it.head = "entity", NEW p, NEW go, NEW strict, ItemErrorsIn(it, p, go, strict) = {},
           LastStore(it) # {}
    PROVE  TypesOf(InterfaceForm(it, Ops(KeptStore(it)))) \subseteq TypesOf(it) \union {Here(it.name)}
<1> DEFINE ops == Ops(KeptStore(it))
           x == InterfaceForm(it, ops)
<1>1. PICK i \in StoresAt(it) : KeptStore(it) = it.items[i]
  BY KeptIsStore
<1>2. \A j \in DOMAIN ops : ops[j] \in Range(it.items[i].ops)
  BY <1>1 DEF Ops, Range
<1> HIDE DEF ops
<1>3. /\ x.head = "interface" /\ DOMAIN x.items = DOMAIN ops
      /\ \A j \in DOMAIN ops : x.items[j].head = "method" /\ x.items[j].types = OpTypes(it, ops[j])
  BY InterfaceFormIs
<1> HIDE DEF x
<1>4. Embeds(x) = {}
  BY <1>3 DEF Embeds, FormsOf, PlacesOf
<1>5. ASSUME NEW m \in Methods(x), NEW t \in m.types PROVE t \in TypesOf(it) \union {Here(it.name)}
  <2>1. PICK j \in DOMAIN x.items : m = x.items[j]
    BY DEF Methods, FormsOf, PlacesOf
  <2>2. t \in OpTypes(it, ops[j]) /\ ops[j] \in Range(it.items[i].ops)
    BY <2>1, <1>2, <1>3
  <2> QED
    BY <2>2, OpTypesAreOf
<1>6. TypesOf(x) = {e.type : e \in Embeds(x)} \union UNION {m.types : m \in Methods(x)}
  BY <1>3 DEF TypesOf
<1>7. TypesOf(x) \subseteq TypesOf(it) \union {Here(it.name)}
  BY <1>4, <1>5, <1>6
<1> QED
  BY <1>7 DEF x, ops

\* The qualifiers of the types that a package's own forms become.
PlainQ(p) == Qualifiers(p.items) \union Std \union {Local}
NoItemErrors(p, go, strict) == \A i \in DOMAIN p.items : ItemErrorsIn(p.items[i], p, go, strict) = {}

\* Expand and concretize add no qualifier: the types of a lowered form are
\* qualified as those of the package's own forms, or standard.
LEMMA LoweredTypes ==
    ASSUME NEW p, NEW go, NEW strict, NoItemErrors(p, go, strict),
           NEW a \in DOMAIN LoweredOf(p).items, NEW t \in TypesOf(LoweredOf(p).items[a])
    PROVE  t.q \in PlainQ(p)
<1> DEFINE x == LoweredOf(p).items[a]
<1>1. ASSUME NEW i \in DOMAIN p.items, NEW u \in TypesOf(p.items[i]) PROVE u.q \in PlainQ(p)
  BY DEF PlainQ, Qualifiers, Range
<1>2. ContextType.q \in PlainQ(p) /\ \A n : Here(n).q \in PlainQ(p)
  BY StdAssumption DEF ContextType, TypeNamed, Here, PlainQ
<1>3. PICK i \in DOMAIN p.items : LET it == p.items[i]
           IN  \/ it.head \notin {"entity", "interface", "dir"} /\ x = it
               \/ it.head = "interface" /\ x = ConcretizeItem(it)
               \/ it.head = "entity" /\ x = StructForm(it)
               \/ /\ it.head = "entity" /\ LastStore(it) # {}
                  /\ \/ x = ConcretizeItem(InterfaceForm(it, Ops(KeptStore(it))))
                     \/ x = ImplForm(it, Ops(KeptStore(it)))
  BY LoweredFrom
<1> DEFINE it == p.items[i]
<1>4. ItemErrorsIn(it, p, go, strict) = {}
  BY DEF NoItemErrors
<1>t. t \in TypesOf(x)
  OBVIOUS
<1> HIDE DEF x
<1>5. CASE x = it
  BY <1>1, <1>5, <1>t
<1>6. CASE it.head = "interface" /\ x = ConcretizeItem(it)
  <2>1. t \in TypesOf(it) \union {ContextType}
    BY <1>6, <1>t, ConcretizedInterface
  <2> QED
    BY <2>1, <1>1, <1>2
<1>7. CASE it.head = "entity" /\ x = StructForm(it)
  <2>1. t \in TypesOf(it)
    BY <1>7, <1>t, StructFormTypes
  <2> QED
    BY <2>1, <1>1
<1>8. CASE it.head = "entity" /\ LastStore(it) # {} /\ x = ConcretizeItem(InterfaceForm(it, Ops(KeptStore(it))))
  <2> DEFINE y == InterfaceForm(it, Ops(KeptStore(it)))
  <2>1. y.head = "interface"
    BY InterfaceFormIs
  <2>2. TypesOf(y) \subseteq TypesOf(it) \union {Here(it.name)}
    BY <1>4, <1>8, InterfaceFormTypes
  <2> HIDE DEF y
  <2>3. t \in TypesOf(y) \union {ContextType}
    BY <2>1, <1>8, <1>t, ConcretizedInterface DEF y
  <2> QED
    BY <2>2, <2>3, <1>1, <1>2
<1>9. CASE it.head = "entity" /\ x = ImplForm(it, Ops(KeptStore(it)))
  <2>1. x.head = "impl"
    BY <1>9 DEF ImplForm
  <2>2. TypesOf(x) = {}
    BY <2>1 DEF TypesOf
  <2> QED
    BY <2>2, <1>t
<1> QED
  BY <1>3, <1>5, <1>6, <1>7, <1>8, <1>9

\* ------------------------------------------------ the types of what is written
QOk(types, Q) == \A t \in types : t.q \in Q
DeclsOk(decls, Q) == \A d \in decls : QOk(d.types, Q)

\* Two sets of types with their qualifiers in Q, together.
LEMMA UnionOk ==
    ASSUME NEW A, NEW B, NEW Q, QOk(A, Q), QOk(B, Q)
    PROVE  QOk(A \union B, Q)
  BY DEF QOk

\* The stubs of methods name the types of the methods.
LEMMA StubsOk ==
    ASSUME NEW impl, NEW ms, NEW Q, QOk(TypesIn(ms), Q)
    PROVE  DeclsOk(Stubs(impl, ms), Q)
<1> SUFFICES ASSUME NEW m \in ms PROVE QOk(Method(impl, m.name, m.types, m.nth).types, Q)
  BY DEF DeclsOk, Stubs
<1>1. Method(impl, m.name, m.types, m.nth).types = m.types
  BY DEF Method
<1>2. m.types \subseteq TypesIn(ms)
  BY DEF TypesIn
<1> QED
  BY <1>1, <1>2 DEF QOk

\* The code of a type names the types of its fields and methods.
LEMMA TypeCodeOk ==
    ASSUME NEW name, NEW types, NEW ms, NEW Q, QOk(types, Q), QOk(TypesIn(ms), Q)
    PROVE  DeclsOk(TypeCode(name, types, ms), Q)
<1>1. DeclsOk(Stubs(name, ms), Q)
  BY StubsOk
<1>2. Decl(name, types).types = types /\ Decl(<<"New">> \o name, {}).types = {}
  BY DEF Decl
<1> QED
  BY <1>1, <1>2 DEF TypeCode, DeclsOk, QOk

\* The methods among the items of an interface name what it names.
LEMMA MethodsInTypes ==
    ASSUME NEW x, x.head = "interface"
    PROVE  TypesIn(MethodsIn(x.items)) \subseteq TypesOf(x)
<1> SUFFICES ASSUME NEW m \in MethodsIn(x.items), NEW t \in m.types PROVE t \in TypesOf(x)
  BY DEF TypesIn
<1>1. PICK i \in PlacesOf(x.items, "method") : m = [name |-> x.items[i].name, types |-> x.items[i].types, nth |-> i]
  BY DEF MethodsIn
<1>2. t \in x.items[i].types
  BY <1>1
<1>3. x.items[i] \in Methods(x)
  BY DEF Methods, FormsOf
<1> QED
  BY <1>2, <1>3 DEF TypesOf

\* A form found by its name has it, and is a form of the package.
LEMMA CalledIs ==
    ASSUME NEW pkg, NEW h, NEW n, NEW x \in Called(pkg, h, n)
    PROVE  x.head = h /\ x.name = n /\ \E a \in DOMAIN pkg.items : x = pkg.items[a]
  BY DEF Called, Standing, PlacesOf

\* The table the walk reads holds the items of an interface of that name.
LEMMA InterfaceTableIs ==
    ASSUME NEW pkg, NEW n \in IfaceNames(pkg)
    PROVE  \E x \in Called(pkg, "interface", n) : InterfaceTable(pkg)[n] = x.items
<1>1. Called(pkg, "interface", n) # {}
  BY DEF IfaceNames, Called
<1> DEFINE x == CHOOSE i \in Called(pkg, "interface", n) : TRUE
<1>2. x \in Called(pkg, "interface", n)
  BY <1>1
<1>3. InterfaceTable(pkg)[n] = x.items
  BY DEF InterfaceTable
<1> QED
  BY <1>2, <1>3

\* It has the names of the package's interfaces.
LEMMA InterfaceTableDomain ==
    ASSUME NEW pkg
    PROVE  DOMAIN InterfaceTable(pkg) = IfaceNames(pkg)
  BY DEF InterfaceTable

\* What the walks have found for the implement forms of a lowered package.
WalksRight(L, w) ==
    \A it \in FormsOf(L.items, "implement") :
        LET found == w[[pkg |-> L.name, iface |-> it.iface]]
        IN  it.iface \in IfaceNames(L) /\ found.ok => WalkedRight(InterfaceTable(L), it.iface, found.methods)

\* The qualifiers a package's files may name: those of its forms, of standard
\* packages, and of what the chosen tiles bring.
OkQ(p, c) == PlainQ(p) \union ToolPackages(c) \union UNION {Catalog[t].imports : t \in Used(c)}

\* The types a used tile names are of packages it brings (CatalogAssumption).
LEMMA CatalogTypesOk ==
    ASSUME NEW p, NEW c, NEW tile \in DOMAIN Catalog, tile \in Used(c)
    PROVE  QOk(Catalog[tile].types, OkQ(p, c))
<1> SUFFICES ASSUME NEW t \in Catalog[tile].types PROVE t.q \in OkQ(p, c)
  BY DEF QOk
<1>1. t.q \in Catalog[tile].imports \union Catalog[tile].packages \union Std \union {Local}
  BY CatalogAssumption
<1> QED
  BY <1>1 DEF OkQ, PlainQ, ToolPackages

\* What is assumed of a package and a cover in the lemmas that follow.
Selectable(p, go, strict, c) ==
    /\ NoItemErrors(p, go, strict)
    /\ \A n \in DOMAIN c : c[n] \in DOMAIN Catalog
    /\ \A n \in NeedsOf(p) : n.id \in DOMAIN c

\* So are the types of every form of a lowered package.
LEMMA LoweredOk ==
    ASSUME NEW p, NEW go, NEW strict, NEW c, Selectable(p, go, strict, c), NEW a \in DOMAIN LoweredOf(p).items
    PROVE  QOk(TypesOf(LoweredOf(p).items[a]), OkQ(p, c))
<1> SUFFICES ASSUME NEW t \in TypesOf(LoweredOf(p).items[a]) PROVE t.q \in OkQ(p, c)
  BY DEF QOk
<1>1. t.q \in PlainQ(p)
  BY LoweredTypes DEF Selectable
<1> QED
  BY <1>1 DEF OkQ

\* The types tilegen itself writes are standard, or the package's own.
LEMMA ConstantTypesOk ==
    ASSUME NEW p, NEW c
    PROVE  /\ ContextType.q \in OkQ(p, c) /\ RequestType.q \in OkQ(p, c)
           /\ TypeNamed("http", <<"ServeMux">>).q \in OkQ(p, c)
           /\ \A n : Here(n).q \in OkQ(p, c)
  BY StdAssumption DEF ContextType, RequestType, TypeNamed, Here, OkQ, PlainQ

\* And those of a form found by its name.
LEMMA CalledOk ==
    ASSUME NEW p, NEW go, NEW strict, NEW c, Selectable(p, go, strict, c),
           NEW h, NEW n, NEW x \in Called(LoweredOf(p), h, n)
    PROVE  QOk(TypesOf(x), OkQ(p, c))
  BY CalledIs, LoweredOk

\* The type of an entity's ID is one of a struct of the package.
LEMMA IdTypesOk ==
    ASSUME NEW p, NEW go, NEW strict, NEW c, Selectable(p, go, strict, c), NEW entity
    PROVE  QOk(IdTypes(LoweredOf(p), entity), OkQ(p, c))
<1> SUFFICES ASSUME NEW t \in IdTypes(LoweredOf(p), entity) PROVE t.q \in OkQ(p, c)
  BY DEF QOk
<1>1. PICK s \in Called(LoweredOf(p), "struct", entity) : \E f \in Fields(s) : t = f.type
  BY DEF IdTypes
<1>2. s.head = "struct" /\ QOk(TypesOf(s), OkQ(p, c))
  BY CalledIs, CalledOk
<1>3. t \in TypesOf(s)
  BY <1>1, <1>2 DEF TypesOf
<1> QED
  BY <1>2, <1>3 DEF QOk

FilesOk(files, pkg, Q) == \A f \in files : f.pkg = pkg /\ DeclsOk(f.decls, Q)
YieldOk(y, pkg, Q) == DeclsOk(y.decls, Q) /\ FilesOk(y.files, pkg, Q)

\* The parts of a yield, and of a failure.
LEMMA YieldIs ==
    ASSUME NEW decls, NEW files, NEW tasks, NEW es
    PROVE  /\ Yield(decls, files, tasks).decls = decls /\ Yield(decls, files, tasks).files = files
           /\ Yield(decls, files, tasks).tasks = tasks /\ Yield(decls, files, tasks).errs = {}
           /\ Failed(es).decls = {} /\ Failed(es).files = {} /\ Failed(es).tasks = {} /\ Failed(es).errs = es
  BY DEF Yield, Failed

\* The parts of a file.
LEMMA GoFileIs ==
    ASSUME NEW pkg, NEW at, NEW stem, NEW mode, NEW decls
    PROVE  LET f == GoFile(pkg, at, stem, mode, decls)
           IN  f.pkg = pkg.name /\ f.decls = decls /\ f.dir = pkg.dir /\ f.stem = stem
  BY DEF GoFile

\* The code of a store names only what the package may.
LEMMA StoreCodeOk ==
    ASSUME NEW p, NEW go, NEW strict, NEW c, Selectable(p, go, strict, c), NEW at, NEW it, NEW project_,
           NEW tile \in DOMAIN Catalog, tile \in Used(c),
           NEW i, i.head = "interface", QOk(TypesOf(i), OkQ(p, c)), NEW s
    PROVE  YieldOk(StoreCode(at, it, LoweredOf(p), project_, c, tile, i, s), p.name, OkQ(p, c))
<1> DEFINE L == LoweredOf(p)
           Q == OkQ(p, c)
           impl == <<tile>> \o it.iface
           ms == MethodsIn(i.items)
           y == StoreCode(at, it, L, project_, c, tile, i, s)
           code == TypeCode(impl, StoreTypes(tile, it.for, L), ms)
<1>1. y.decls = {Decl(<<"ErrNotFound">>, {})} /\ y.files = {GoFile(L, at \o <<1>>, impl, "keep", code)}
  BY DEF StoreCode
<1>2. QOk(TypesIn(ms), Q)
  BY MethodsInTypes DEF QOk
<1>3. QOk(StoreTypes(tile, it.for, L), Q)
  <2>1. QOk(Catalog[tile].types, Q)
    BY CatalogTypesOk
  <2>2. QOk({Here(it.for)} \union IdTypes(L, it.for), Q)
    BY IdTypesOk, ConstantTypesOk DEF QOk
  <2>3. StoreTypes(tile, it.for, L) \subseteq Catalog[tile].types \union ({Here(it.for)} \union IdTypes(L, it.for))
    BY DEF StoreTypes
  <2> QED
    BY <2>1, <2>2, <2>3 DEF QOk
<1>4. DeclsOk(code, Q)
  BY <1>2, <1>3, TypeCodeOk
<1>5. Decl(<<"ErrNotFound">>, {}).types = {}
  BY DEF Decl
<1>6. L.name = p.name
  BY LoweredParts
<1> HIDE DEF y, code, L, Q
<1>7. DeclsOk(y.decls, Q)
  BY <1>1, <1>5 DEF DeclsOk, QOk
<1>8. FilesOk(y.files, p.name, Q)
  BY <1>1, <1>4, <1>6, GoFileIs DEF FilesOk
<1> QED
  BY <1>7, <1>8 DEF YieldOk, y, L, Q

\* The tile of a store is the one chosen for the need of that name.
LEMMA StoreTileIs ==
    ASSUME NEW pkg, NEW iface, NEW c, NEW tile \in StoreTile(pkg, iface, c)
    PROVE  /\ <<pkg.name, iface>> \in DOMAIN c /\ tile = c[<<pkg.name, iface>>]
           /\ tile \in Used(c) /\ Catalog[tile].capability = "store"
  BY DEF StoreTile, Used

\* A failure writes nothing.
LEMMA NothingOk ==
    ASSUME NEW es, NEW pkg, NEW Q
    PROVE  YieldOk(Failed(es), pkg, Q)
  BY YieldIs DEF YieldOk, DeclsOk, FilesOk

\* Select of an impl form: the code of its store, or a failure.
LEMMA SelectImplOk ==
    ASSUME NEW p, NEW go, NEW strict, NEW c, Selectable(p, go, strict, c), NEW at, NEW it, NEW project_
    PROVE  YieldOk(SelectImpl(at, it, LoweredOf(p), project_, c), p.name, OkQ(p, c))
<1> DEFINE L == LoweredOf(p)
           tiles == StoreTile(L, it.iface, c)
           called == Called(L, "interface", it.iface)
           structs == Called(L, "struct", it.for)
           t == CHOOSE t \in tiles : TRUE
           i == CHOOSE i \in called : TRUE
           s == CHOOSE s \in structs : TRUE
<1>1. CASE tiles = {} \/ called = {} \/ structs = {}
  <2>1. \E es : SelectImpl(at, it, L, project_, c) = Failed(es)
    BY <1>1 DEF SelectImpl
  <2> QED
    BY <2>1, NothingOk
<1>2. CASE tiles # {} /\ called # {} /\ structs # {}
  <2>1. SelectImpl(at, it, L, project_, c) = StoreCode(at, it, L, project_, c, t, i, s)
    BY <1>2 DEF SelectImpl
  <2>2. t \in tiles /\ i \in called
    BY <1>2
  <2> HIDE DEF t, i, s
  <2>3. t \in DOMAIN Catalog /\ t \in Used(c)
    <3>1. <<L.name, it.iface>> \in DOMAIN c /\ t = c[<<L.name, it.iface>>] /\ t \in Used(c)
      BY <2>2, StoreTileIs
    <3>2. \A n \in DOMAIN c : c[n] \in DOMAIN Catalog
      BY DEF Selectable
    <3> QED
      BY <3>1, <3>2
  <2>4. i.head = "interface" /\ QOk(TypesOf(i), OkQ(p, c))
    BY <2>2, CalledIs, CalledOk
  <2> QED
    BY <2>1, <2>3, <2>4, StoreCodeOk
<1> QED
  BY <1>1, <1>2

\* The types of the methods a walk has found.
LEMMA FoundTypesOk ==
    ASSUME NEW p, NEW go, NEW strict, NEW c, Selectable(p, go, strict, c), NEW root, NEW found,
           WalkedRight(InterfaceTable(LoweredOf(p)), root, found)
    PROVE  QOk(TypesIn(MethodsIn(found)), OkQ(p, c))
<1> DEFINE L == LoweredOf(p)
           table == InterfaceTable(L)
<1> SUFFICES ASSUME NEW m \in MethodsIn(found), NEW t \in m.types PROVE t.q \in OkQ(p, c)
  BY DEF QOk, TypesIn
<1>1. PICK k \in PlacesOf(found, "method") : m = [name |-> found[k].name, types |-> found[k].types, nth |-> k]
  BY DEF MethodsIn
<1>2. k \in DOMAIN found /\ t \in found[k].types
  BY <1>1 DEF PlacesOf
<1>3. PICK n \in Reached(table, root) : \E i \in DOMAIN table[n] : found[k] = table[n][i] /\ table[n][i].head = "method"
  BY <1>2 DEF WalkedRight
<1>4. n \in IfaceNames(L)
  BY InterfaceTableDomain DEF Reached
<1>5. PICK x \in Called(L, "interface", n) : table[n] = x.items
  BY <1>4, InterfaceTableIs
<1>6. x.head = "interface" /\ QOk(TypesOf(x), OkQ(p, c))
  BY CalledIs, CalledOk
<1>7. found[k] \in Methods(x)
  BY <1>3, <1>5 DEF Methods, FormsOf, PlacesOf
<1>8. t \in TypesOf(x)
  BY <1>2, <1>6, <1>7 DEF TypesOf
<1> QED
  BY <1>6, <1>8 DEF QOk

\* Select of an implement form: the stubs of the methods found, or a failure.
LEMMA SelectImplementOk ==
    ASSUME NEW p, NEW go, NEW strict, NEW c, Selectable(p, go, strict, c), NEW at \in DOMAIN LoweredOf(p).items,
           LoweredOf(p).items[at].head = "implement", NEW w, WalksRight(LoweredOf(p), w), NEW project_
    PROVE  YieldOk(SelectImplement(at, LoweredOf(p).items[at], LoweredOf(p), project_, w), p.name, OkQ(p, c))
<1> DEFINE L == LoweredOf(p)
           Q == OkQ(p, c)
           it == L.items[at]
           found == w[[pkg |-> L.name, iface |-> it.iface]]
           fields == {f.type : f \in Range(it.fields)}
           ms == MethodsIn(found.methods)
           code == TypeCode(it.as[1], fields, ms)
           y == SelectImplement(at, it, L, project_, w)
<1>1. CASE it.iface \notin IfaceNames(L) \/ ~found.ok
  <2>1. \E es : y = Failed(es)
    BY <1>1 DEF SelectImplement
  <2> QED
    BY <2>1, NothingOk
<1>2. CASE it.iface \in IfaceNames(L) /\ found.ok
  <2> DEFINE F == GoFile(L, at \o <<1>>, it.as[1], "keep", code)
  <2>1. \E tasks : y = Yield({}, {F}, tasks)
    BY <1>2 DEF SelectImplement
  <2>2. y.decls = {} /\ y.files = {F}
    <3> HIDE DEF F, y
    <3> QED
      BY <2>1, YieldIs
  <2>3. it \in FormsOf(L.items, "implement")
    BY DEF FormsOf, PlacesOf
  <2>4. WalkedRight(InterfaceTable(L), it.iface, found.methods)
    BY <1>2, <2>3 DEF WalksRight
  <2>5. QOk(TypesIn(ms), Q)
    BY <2>4, FoundTypesOk
  <2>6. TypesOf(it) = fields
    BY DEF TypesOf
  <2>7. QOk(fields, Q)
    BY <2>6, LoweredOk
  <2>8. DeclsOk(code, Q)
    BY <2>5, <2>7, TypeCodeOk
  <2>9. L.name = p.name
    BY LoweredParts
  <2> HIDE DEF y, code, L, Q
  <2>10. FilesOk(y.files, p.name, Q)
    BY <2>2, <2>8, <2>9, GoFileIs DEF FilesOk
  <2>11. YieldOk(y, p.name, Q)
    BY <2>2, <2>10 DEF YieldOk, DeclsOk
  <2> QED
    BY <2>11 DEF y, L, Q
<1> QED
  BY <1>1, <1>2

\* The parts of a declaration.
LEMMA DeclIs ==
    ASSUME NEW name, NEW types, NEW recv, NEW nth
    PROVE  /\ Decl(name, types) = [name |-> name, recv |-> <<>>, types |-> types, nth |-> 0]
           /\ Decl(name, types).name = name /\ Decl(name, types).types = types
           /\ Decl(name, types).recv = <<>> /\ Decl(name, types).nth = 0
           /\ Method(recv, name, types, nth).name = name /\ Method(recv, name, types, nth).types = types
           /\ Method(recv, name, types, nth).recv = recv /\ Method(recv, name, types, nth).nth = nth
  BY DEF Decl, Method

\* An enum names no type.
LEMMA EnumOk ==
    ASSUME NEW it, NEW pkg, NEW Q
    PROVE  YieldOk(SelectEnum(it), pkg, Q)
<1> DEFINE decls == {Decl(it.name, {}), Decl(it.name \o <<"Values">>, {}),
                     Method(it.name, <<"Valid">>, {}, 1), Decl(<<"Parse">> \o it.name, {})}
                      \union {Decl(it.name \o v, {}) : v \in Range(it.values)}
<1>1. \A d \in decls : d.types = {}
  BY DEF Decl, Method
<1> HIDE DEF decls
<1>2. DeclsOk(decls, Q)
  BY <1>1 DEF DeclsOk, QOk
<1>3. SelectEnum(it) = Yield(decls, {}, {})
  BY DEF SelectEnum, decls
<1> QED
  BY <1>2, <1>3, YieldIs DEF YieldOk, FilesOk

\* A struct or an interface.
LEMMA PlainFormOk ==
    ASSUME NEW p, NEW go, NEW strict, NEW c, Selectable(p, go, strict, c), NEW at \in DOMAIN LoweredOf(p).items
    PROVE  YieldOk(Yield({Decl(LoweredOf(p).items[at].name, TypesOf(LoweredOf(p).items[at]))}, {}, {}), p.name, OkQ(p, c))
<1> DEFINE it == LoweredOf(p).items[at]
<1>1. QOk(TypesOf(it), OkQ(p, c))
  BY LoweredOk
<1> HIDE DEF it
<1>2. DeclsOk({Decl(it.name, TypesOf(it))}, OkQ(p, c))
  BY <1>1, DeclIs DEF DeclsOk
<1>3. YieldOk(Yield({Decl(it.name, TypesOf(it))}, {}, {}), p.name, OkQ(p, c))
  BY <1>2, YieldIs DEF YieldOk, FilesOk
<1> QED
  BY <1>3 DEF it

\* A task without a file, and a doc form, write nothing.
LEMMA OpenTaskOk ==
    ASSUME NEW pkg, NEW at, NEW context, NEW n, NEW Q
    PROVE  YieldOk(OpenTask(pkg, at, context), n, Q) /\ YieldOk(Yield({}, {}, {}), n, Q)
  BY YieldIs DEF OpenTask, YieldOk, DeclsOk, FilesOk

\* The holes of a handler name the entities served.
LEMMA HandlerHolesOk ==
    ASSUME NEW p, NEW c, NEW served
    PROVE  QOk(TypesIn(HandlerHoles(served)), OkQ(p, c))
<1> SUFFICES ASSUME NEW m \in HandlerHoles(served), NEW t \in m.types PROVE t.q \in OkQ(p, c)
  BY DEF QOk, TypesIn
<1>1. CASE \E e \in served : m = [name |-> <<"validate">> \o e, types |-> {Here(e)}, nth |-> 1]
  <2>1. \E e \in served : t = Here(e)
    BY <1>1
  <2> QED
    BY <2>1, ConstantTypesOk
<1>2. CASE \E e \in served : m = [name |-> <<"statusFor">> \o e, types |-> {}, nth |-> 1]
  BY <1>2
<1> QED
  BY <1>1, <1>2 DEF HandlerHoles

\* Select of an http form.
LEMMA HTTPOk ==
    ASSUME NEW p, NEW go, NEW strict, NEW c, Selectable(p, go, strict, c), NEW at, NEW it
    PROVE  YieldOk(SelectHTTP(at, it, LoweredOf(p)), p.name, OkQ(p, c))
<1> DEFINE L == LoweredOf(p)
           Q == OkQ(p, c)
           served == {r.entity : r \in Range(it.items)}
           orphan == {e \in served : e \o <<"Store">> \notin IfaceNames(L)}
           code == HandlerCode(it, L, served)
           stubs == Stubs(<<"Handler">>, HandlerHoles(served))
           files == {GoFile(L, at \o <<1>>, <<"http", "gen">>, "generated", code),
                     GoFile(L, at \o <<2>>, <<"http">>, "keep", stubs)}
           y == SelectHTTP(at, it, L)
<1>1. CASE orphan # {}
  <2>1. \E errs_ : y = Failed(errs_)
    BY <1>1 DEF SelectHTTP
  <2> QED
    BY <2>1, NothingOk
<1>2. CASE orphan = {}
  <2>1. \E tasks : y = Yield({}, files, tasks)
    BY <1>2 DEF SelectHTTP
  <2>2. y.decls = {} /\ y.files = files
    <3> HIDE DEF y, files
    <3> QED
      BY <2>1, YieldIs
  <2>3. DeclsOk(stubs, Q)
    BY StubsOk, HandlerHolesOk
  <2>4. ASSUME NEW r PROVE QOk(HandlerTypes(r, L), Q)
    <3>1. QOk(IdTypes(L, r.entity), Q)
      BY IdTypesOk
    <3>2. Here(r.entity).q \in Q /\ RequestType.q \in Q
      BY ConstantTypesOk
    <3> HIDE DEF Q, L
    <3>3. HandlerTypes(r, L) \subseteq {Here(r.entity), RequestType} \union IdTypes(L, r.entity)
      BY DEF HandlerTypes
    <3> QED
      BY <3>1, <3>2, <3>3 DEF QOk
  <2>5. DeclsOk(code, Q)
    <3> SUFFICES ASSUME NEW d \in code, NEW t \in d.types PROVE t.q \in Q
      BY DEF DeclsOk, QOk
    <3>1. CASE d = Decl(<<"Handler">>, {Here(e \o <<"Store">>) : e \in served})
      <4>1. \E n : t = Here(n)
        BY <3>1, DeclIs
      <4> QED
        BY <4>1, ConstantTypesOk
    <3>2. CASE d = Decl(<<"New", "Handler">>, {})
      BY <3>2, DeclIs
    <3>3. CASE d = Method(<<"Handler">>, <<"Routes">>, {TypeNamed("http", <<"ServeMux">>)}, 1)
      <4>1. t = TypeNamed("http", <<"ServeMux">>)
        BY <3>3, DeclIs
      <4> QED
        BY <4>1, ConstantTypesOk
    <3>4. CASE \E i \in DOMAIN it.items :
                  d = Method(<<"Handler">>, HandlerName(it.items[i]), HandlerTypes(it.items[i], L), i)
      <4>1. \E i \in DOMAIN it.items : t \in HandlerTypes(it.items[i], L)
        BY <3>4, DeclIs
      <4> QED
        BY <4>1, <2>4 DEF QOk
    <3> QED
      BY <3>1, <3>2, <3>3, <3>4 DEF HandlerCode
  <2>6. L.name = p.name
    BY LoweredParts
  <2> HIDE DEF y, code, stubs, L, Q
  <2>7. FilesOk(files, p.name, Q)
    BY <2>3, <2>5, <2>6, GoFileIs DEF FilesOk
  <2>8. YieldOk(y, p.name, Q)
    BY <2>2, <2>7 DEF YieldOk, DeclsOk
  <2> QED
    BY <2>8 DEF y, L, Q
<1> QED
  BY <1>1, <1>2

\* What events and auth share, and what the chosen tile writes.
LEMMA SharedAndOwnOk ==
    ASSUME NEW p, NEW c, NEW at, NEW stem, NEW shared, DeclsOk(shared, OkQ(p, c)),
           NEW tile \in DOMAIN Catalog, tile \in Used(c), NEW impl, NEW ms, QOk(TypesIn(ms), OkQ(p, c)), NEW context
    PROVE  YieldOk(SharedAndOwn(at, LoweredOf(p), stem, shared, tile, impl, ms, context), p.name, OkQ(p, c))
<1> DEFINE L == LoweredOf(p)
           Q == OkQ(p, c)
           own == TypeCode(impl, Catalog[tile].types, ms)
           y == SharedAndOwn(at, L, stem, shared, tile, impl, ms, context)
<1>1. DeclsOk(own, Q)
  BY CatalogTypesOk, TypeCodeOk
<1>2. L.name = p.name
  BY LoweredParts
<1>3. DeclsOk(shared \union own, Q)
  BY <1>1 DEF DeclsOk
<1>4. CASE ~Catalog[tile].holes
  <2> DEFINE files == {GoFile(L, at \o <<1>>, stem, "generated", shared \union own)}
  <2>1. y = Yield({}, files, {})
    BY <1>4 DEF SharedAndOwn
  <2>2. y.decls = {} /\ y.files = files
    <3> HIDE DEF y, files
    <3> QED
      BY <2>1, YieldIs
  <2> HIDE DEF y, own, L, Q
  <2>3. FilesOk(y.files, p.name, Q)
    BY <2>2, <1>2, <1>3, GoFileIs DEF FilesOk
  <2>4. YieldOk(y, p.name, Q)
    BY <2>2, <2>3 DEF YieldOk, DeclsOk
  <2> QED
    BY <2>4 DEF y, L, Q
<1>5. CASE Catalog[tile].holes
  <2> DEFINE files == {GoFile(L, at \o <<1>>, stem, "generated", shared), GoFile(L, at \o <<2>>, impl, "keep", own)}
  <2>1. \E tasks : y = Yield({}, files, tasks)
    BY <1>5 DEF SharedAndOwn
  <2>2. y.decls = {} /\ y.files = files
    <3> HIDE DEF y, files
    <3> QED
      BY <2>1, YieldIs
  <2> HIDE DEF y, own, L, Q
  <2>3. FilesOk(y.files, p.name, Q)
    BY <2>2, <1>1, <1>2, GoFileIs DEF FilesOk, L, Q
  <2>4. YieldOk(y, p.name, Q)
    BY <2>2, <2>3 DEF YieldOk, DeclsOk
  <2> QED
    BY <2>4 DEF y, L, Q
<1> QED
  BY <1>4, <1>5

\* The methods of a bus name the events and the context.
LEMMA BusMethodsOk ==
    ASSUME NEW p, NEW c, NEW it
    PROVE  QOk(TypesIn(BusMethods(it)), OkQ(p, c))
<1> SUFFICES ASSUME NEW m \in BusMethods(it), NEW t \in m.types PROVE t.q \in OkQ(p, c)
  BY DEF QOk, TypesIn
<1>1. PICK i \in DOMAIN it.items, how \in {"Publish", "On"} :
          m = [name |-> <<how>> \o it.items[i].name, types |-> {Here(it.items[i].name), ContextType}, nth |-> i]
  BY DEF BusMethods
<1>2. t \in {Here(it.items[i].name), ContextType}
  BY <1>1
<1> QED
  BY <1>2, ConstantTypesOk

\* Select of an events form.
LEMMA EventsOk ==
    ASSUME NEW p, NEW go, NEW strict, NEW c, Selectable(p, go, strict, c), NEW at,
           NEW i \in DOMAIN p.items, p.items[i].head = "events",
           QOk(TypesOf(p.items[i]), OkQ(p, c))
    PROVE  YieldOk(SelectEvents(at, p.items[i], LoweredOf(p), c), p.name, OkQ(p, c))
<1> DEFINE it == p.items[i]
           tile == c[<<p.name, <<"Bus">>>>]
           Q == OkQ(p, c)
<1>1. <<p.name, <<"Bus">>>> \in DOMAIN c
  <2>1. it \in FormsOf(p.items, "events")
    BY DEF FormsOf, PlacesOf
  <2>2. Need(p, <<"Bus">>, "event-bus", it.requires) \in NeedsOf(p)
    BY <2>1 DEF NeedsOf
  <2>3. Need(p, <<"Bus">>, "event-bus", it.requires).id = <<p.name, <<"Bus">>>>
    BY DEF Need
  <2> QED
    BY <2>2, <2>3 DEF Selectable
<1>2. tile \in DOMAIN Catalog /\ tile \in Used(c)
  BY <1>1 DEF Selectable, Used
<1>3. QOk(TypesIn(BusMethods(it)), Q)
  BY BusMethodsOk
<1>4. DeclsOk(BusDecls(it), Q)
  <2> SUFFICES ASSUME NEW d \in BusDecls(it) PROVE QOk(d.types, Q)
    BY DEF DeclsOk
  <2>1. CASE \E e \in Range(it.items) : d = Decl(e.name, {f.type : f \in Fields(e)})
    <3>1. PICK e \in Range(it.items) : d = Decl(e.name, {f.type : f \in Fields(e)})
      BY <2>1
    <3>2. d.types = {f.type : f \in Fields(e)}
      BY <3>1, DeclIs
    <3>3. TypesOf(it) = UNION {{f.type : f \in Fields(x)} : x \in Range(it.items)}
      BY DEF TypesOf
    <3>4. d.types \subseteq TypesOf(it)
      BY <3>2, <3>3
    <3> QED
      BY <3>4 DEF QOk
  <2>2. CASE d = Decl(<<"Bus">>, TypesIn(BusMethods(it)))
    BY <2>2, <1>3, DeclIs
  <2> QED
    BY <2>1, <2>2 DEF BusDecls
<1>5. LoweredOf(p).name = p.name
  BY LoweredParts
<1> HIDE DEF it, tile
<1>6. SelectEvents(at, it, LoweredOf(p), c)
        = SharedAndOwn(at, LoweredOf(p), <<"events", "gen">>, BusDecls(it), tile, <<tile, "Bus">>, BusMethods(it), {GenPath(LoweredOf(p))})
  BY <1>5 DEF SelectEvents, tile
<1>7. YieldOk(SelectEvents(at, it, LoweredOf(p), c), p.name, Q)
  BY <1>2, <1>3, <1>4, <1>6, SharedAndOwnOk
<1> QED
  BY <1>7 DEF it

\* Select of an auth form.
LEMMA AuthOk ==
    ASSUME NEW p, NEW go, NEW strict, NEW c, Selectable(p, go, strict, c), NEW at,
           NEW i \in DOMAIN p.items, p.items[i].head = "auth"
    PROVE  YieldOk(SelectAuth(at, LoweredOf(p), c), p.name, OkQ(p, c))
<1> DEFINE tile == c[<<p.name, <<"Auth">>>>]
           L == LoweredOf(p)
           Q == OkQ(p, c)
<1>1. <<p.name, <<"Auth">>>> \in DOMAIN c
  <2>1. p.items[i] \in FormsOf(p.items, "auth")
    BY DEF FormsOf, PlacesOf
  <2>2. Need(p, <<"Auth">>, "auth", p.items[i].requires) \in NeedsOf(p)
    BY <2>1 DEF NeedsOf
  <2>3. Need(p, <<"Auth">>, "auth", p.items[i].requires).id = <<p.name, <<"Auth">>>>
    BY DEF Need
  <2> QED
    BY <2>2, <2>3 DEF Selectable
<1>2. tile \in DOMAIN Catalog /\ tile \in Used(c)
  BY <1>1 DEF Selectable, Used
<1>3. QOk(TypesIn(AuthMethods), Q)
  <2>1. TypesIn(AuthMethods) = {ContextType, RequestType, Here(<<"Principal">>)}
    BY DEF TypesIn, AuthMethods
  <2> QED
    BY <2>1, ConstantTypesOk DEF QOk
<1>4. DeclsOk(AuthDecls, Q)
  BY <1>3, DeclIs DEF AuthDecls, DeclsOk, QOk
<1>5. L.name = p.name
  BY LoweredParts
<1> HIDE DEF tile
<1>6. SelectAuth(at, L, c)
        = SharedAndOwn(at, L, <<"auth", "gen">>, AuthDecls, tile, <<tile, "Authenticator">>, AuthMethods,
                       {GenPath(L), <<L.dir, <<"auth", "gen">>>>})
  BY <1>5 DEF SelectAuth, tile
<1>7. YieldOk(SelectAuth(at, L, c), p.name, Q)
  BY <1>2, <1>3, <1>4, <1>6, SharedAndOwnOk
<1> QED
  BY <1>7

\* A lowered form that is no struct, interface or impl is one of the spec.
LEMMA FromPlain ==
    ASSUME NEW p, NEW a \in DOMAIN LoweredOf(p).items,
           LoweredOf(p).items[a].head \notin {"struct", "interface", "impl"}
    PROVE  \E i \in DOMAIN p.items : LoweredOf(p).items[a] = p.items[i]
<1>1. StructForm(LoweredOf(p)).head = "struct" /\ \A it : StructForm(it).head = "struct"
  BY DEF StructForm
<1>2. \A it, ops : ImplForm(it, ops).head = "impl"
  BY DEF ImplForm
<1>3. \A it : it.head = "interface" => ConcretizeItem(it).head = "interface"
  BY ConcretizedInterface
<1>4. \A it, ops : ConcretizeItem(InterfaceForm(it, ops)).head = "interface"
  BY <1>3, InterfaceFormIs
<1> QED
  BY <1>1, <1>2, <1>3, <1>4, LoweredFrom

\* Whatever form select is given, what it writes names only what its package may.
LEMMA SelectItemOk ==
    ASSUME NEW p, NEW go, NEW strict, NEW c, Selectable(p, go, strict, c), NEW at \in DOMAIN LoweredOf(p).items,
           NEW w, WalksRight(LoweredOf(p), w), NEW project_
    PROVE  YieldOk(SelectItem(at, LoweredOf(p), project_, c, w), p.name, OkQ(p, c))
<1> DEFINE L == LoweredOf(p)
           it == L.items[at]
           Q == OkQ(p, c)
           y == SelectItem(at, L, project_, c, w)
<1>0. QOk(TypesOf(it), Q)
  BY LoweredOk
<1>1. CASE it.head \in {"struct", "interface"}
  <2>1. y = Yield({Decl(it.name, TypesOf(it))}, {}, {})
    BY <1>1 DEF SelectItem
  <2> QED
    BY <2>1, PlainFormOk
<1>2. CASE it.head = "enum"
  <2>1. y = SelectEnum(it)
    BY <1>2 DEF SelectItem
  <2> QED
    BY <2>1, EnumOk
<1>3. CASE it.head = "impl"
  <2>1. y = SelectImpl(at, it, L, project_, c)
    BY <1>3 DEF SelectItem
  <2> QED
    BY <2>1, SelectImplOk
<1>4. CASE it.head = "implement"
  <2>1. y = SelectImplement(at, it, L, project_, w)
    BY <1>4 DEF SelectItem
  <2> QED
    BY <2>1, <1>4, SelectImplementOk
<1>5. CASE it.head = "http"
  <2>1. y = SelectHTTP(at, it, L)
    BY <1>5 DEF SelectItem
  <2> QED
    BY <2>1, HTTPOk
<1>6. CASE it.head = "events"
  <2>1. y = SelectEvents(at, it, L, c)
    BY <1>6 DEF SelectItem
  <2>2. PICK i \in DOMAIN p.items : it = p.items[i]
    BY <1>6, FromPlain
  <2>3. p.items[i].head = "events" /\ QOk(TypesOf(p.items[i]), Q)
    BY <2>2, <1>6, <1>0
  <2>4. YieldOk(SelectEvents(at, p.items[i], L, c), p.name, Q)
    BY <2>3, EventsOk
  <2> QED
    BY <2>1, <2>2, <2>4
<1>7. CASE it.head = "auth"
  <2>1. y = SelectAuth(at, L, c)
    BY <1>7 DEF SelectItem
  <2>2. \E i \in DOMAIN p.items : p.items[i].head = "auth"
    BY <1>7, FromPlain
  <2> QED
    BY <2>1, <2>2, AuthOk
<1>8. CASE it.head \notin {"struct", "interface", "enum", "impl", "implement", "http", "events", "auth"}
  <2>1. y = Yield({}, {}, {}) \/ \E context : y = OpenTask(L, at, context)
    BY <1>8 DEF SelectItem
  <2> HIDE DEF y, L
  <2>2. YieldOk(y, p.name, Q)
    BY <2>1, OpenTaskOk
  <2> QED
    BY <2>2 DEF y, L
<1> QED
  BY <1>1, <1>2, <1>3, <1>4, <1>5, <1>6, <1>7, <1>8

\* So do all files of a package.
LEMMA SelectPackageOk ==
    ASSUME NEW p, NEW go, NEW strict, NEW c, Selectable(p, go, strict, c),
           NEW w, WalksRight(LoweredOf(p), w), NEW project_
    PROVE  FilesOk(SelectPackage(LoweredOf(p), project_, c, w).files, p.name, OkQ(p, c))
<1> DEFINE L == LoweredOf(p)
           Q == OkQ(p, c)
           yields == {SelectItem(at, L, project_, c, w) : at \in DOMAIN L.items}
           decls == UNION {y.decls : y \in yields}
           gen == {f \in {GoFile(L, <<0, 0, 0>>, <<L.name, "gen">>, "generated", decls)} : decls # {}}
<1>1. \A y \in yields : YieldOk(y, p.name, Q)
  BY SelectItemOk
<1>2. L.name = p.name
  BY LoweredParts
<1>3. SelectPackage(L, project_, c, w).files = gen \union UNION {y.files : y \in yields}
  BY DEF SelectPackage
<1> HIDE DEF yields, L, Q
<1>4. DeclsOk(decls, Q)
  BY <1>1 DEF YieldOk, DeclsOk
<1>5. FilesOk(gen, p.name, Q)
  <2> HIDE DEF decls
  <2> QED
    BY <1>2, <1>4, GoFileIs DEF FilesOk
<1>6. FilesOk(UNION {y.files : y \in yields}, p.name, Q)
  BY <1>1 DEF YieldOk, FilesOk
<1>7. FilesOk(SelectPackage(L, project_, c, w).files, p.name, Q)
  BY <1>3, <1>5, <1>6 DEF FilesOk
<1> QED
  BY <1>7 DEF L, Q

\* What is assumed of a project, its cover and its walks: the compile has got
\* as far as select.
Good(pr, strict, c, w) ==
    \A n \in DOMAIN pr.packages : /\ Selectable(pr.packages[n], pr.go, strict, c)
                                  /\ WalksRight(LoweredOf(pr.packages[n]), w)

\* The packages select is given.
LEMMA LoweredPackagesAre ==
    ASSUME NEW pr
    PROVE  /\ DOMAIN LoweredPackages(pr) = DOMAIN pr.packages
           /\ \A n \in DOMAIN pr.packages : LoweredPackages(pr)[n] = LoweredOf(pr.packages[n])
  BY DEF LoweredPackages, LoweredOf

\* And all files of the project: each belongs to a package, and names only what
\* that one may.
LEMMA SelectedFiles ==
    ASSUME NEW pr, NEW strict, NEW c, NEW w, Good(pr, strict, c, w),
           NEW f \in Lowered(pr, c, w).files
    PROVE  \E n \in DOMAIN pr.packages :
               f.pkg = pr.packages[n].name /\ DeclsOk(f.decls, OkQ(pr.packages[n], c))
<1> DEFINE packs == LoweredPackages(pr)
           yields == {SelectPackage(q, packs, c, w) : q \in Range(packs)}
<1>1. Lowered(pr, c, w).files = UNION {y.files : y \in yields}
  BY DEF Lowered, SelectProject
<1>2. PICK q \in Range(packs) : f \in SelectPackage(q, packs, c, w).files
  BY <1>1
<1>3. PICK n \in DOMAIN pr.packages : q = LoweredOf(pr.packages[n])
  BY LoweredPackagesAre DEF Range
<1>4. FilesOk(SelectPackage(LoweredOf(pr.packages[n]), packs, c, w).files, pr.packages[n].name, OkQ(pr.packages[n], c))
  BY SelectPackageOk DEF Good
<1> HIDE DEF packs, yields
<1> QED
  BY <1>2, <1>3, <1>4 DEF FilesOk

\* ------------------------------------------------- the invariant of a compile
AfterValid == {"valid", "covered", "lowered", "emitted", "planning", "planned", "cyclic plan"}
AfterCover == AfterValid \ {"valid"}
AfterLower == AfterCover \ {"covered"}
AfterEmit == AfterLower \ {"lowered"}

TableOf(p, w) == InterfaceTable(LoweredPackages(p)[w.pkg])

\* Nothing is there before it is read; a package is under its own name.
ProjectInv ==
    /\ \A n \in DOMAIN project.packages : project.packages[n].name = n
    /\ phase = "read" => project = NoProject
    /\ phase \in {"read", "linked", "panicked"} => loop = <<>>
    /\ phase \in {"read", "linked", "panicked", "searching", "valid"} => walked = <<>> /\ walking = {}

\* What the search for cycles has shown.
ValidInv ==
    \A g \in {Deps(project.packages)} :
        /\ phase = "searching" => SearchInv(g) /\ errs = ValidateErrors(project, spec.strict)
        /\ phase \in AfterValid => ~Cyclic(g) /\ ValidateErrors(project, spec.strict) = {}
        /\ phase = "refused" /\ Cyclic(g) => <<"cycle", loop>> \in errs
        /\ loop # <<>> => IsLoop(g, loop)

CoverInv == phase \in AfterCover => cover \in Covers /\ ReservedErrors(cover) = {}

\* What the walks have found, and the one that is under way.
WalksInv ==
    /\ \A w \in DOMAIN walked : \A table \in {TableOf(project, w)} :
           w \in Walks(project) /\ (walked[w].ok => WalkedRight(table, w.iface, walked[w].methods))
    /\ \A w \in walking : \A table \in {TableOf(project, w)} :
           w \in Walks(project) /\ WalkInv(table, w.iface)
    /\ \A v, w \in walking : v = w

\* What select returned, and what is staged of it.
OutInv ==
    /\ phase \in AfterLower => /\ out = Lowered(project, cover, walked) /\ out.errs = {}
                               /\ Walks(project) \subseteq DOMAIN walked
    /\ phase \in AfterEmit => staged = Stage(Files)

CompileInv ==
    /\ ProjectInv
    /\ ValidInv
    /\ CoverInv
    /\ WalksInv
    /\ OutInv

\* The invariant holds before anything is read.
LEMMA InitCompileInv == Init => CompileInv
<1> SUFFICES ASSUME Init PROVE CompileInv
  OBVIOUS
<1>1. /\ phase = "read" /\ project = NoProject /\ walking = {} /\ walked = <<>> /\ loop = <<>>
  BY DEF Init, Fresh, NoSearch, SearchInit
<1>2. DOMAIN project.packages = {} /\ DOMAIN walked = {}
  BY <1>1 DEF NoProject
<1>3. ProjectInv
  BY <1>1, <1>2 DEF ProjectInv
<1>4. ValidInv
  BY <1>1 DEF ValidInv, AfterValid
<1>5. CoverInv /\ WalksInv /\ OutInv
  BY <1>1, <1>2 DEF CoverInv, WalksInv, OutInv, AfterValid, AfterCover, AfterLower, AfterEmit
<1> QED
  BY <1>3, <1>4, <1>5 DEF CompileInv

\* What the parts say depends on a few variables each.
LEMMA SameProject ==
    ASSUME project' = project
    PROVE  /\ Covers' = Covers
           /\ \A c : ReservedErrors(c)' = ReservedErrors(c)
<1>1. Needs' = Needs
  BY DEF Needs
<1>2. \A n : Legal(n)' = Legal(n)
  BY DEF Legal
<1>3. Covers' = Covers
  BY <1>1, <1>2 DEF Covers
<1>4. \A c : ReservedErrors(c)' = ReservedErrors(c)
  BY DEF ReservedErrors
<1> QED
  BY <1>3, <1>4

\* The walks say the same as long as nothing they are about changes.
LEMMA SameWalks ==
    ASSUME WalksInv, UNCHANGED <<project, walking, walked, walkVars>>
    PROVE  WalksInv'
<1>1. /\ project' = project /\ walking' = walking /\ walked' = walked
      /\ ifaces' = ifaces /\ trail' = trail /\ unread' = unread /\ methods' = methods /\ seen' = seen /\ again' = again
  BY DEF walkVars
<1>2. \A table, root : WalkInv(table, root)' = WalkInv(table, root)
  BY <1>1 DEF WalkInv, SeenInv, MethodsInv
<1> QED
  BY <1>1, <1>2 DEF WalksInv

\* Linking puts each package under its own name.
LEMMA LinkedNames ==
    ASSUME NEW forms
    PROVE  \A n \in DOMAIN Linked(forms).packages : Linked(forms).packages[n].name = n
  BY DEF Linked

\* Linking reads the files: nothing is found yet.
LEMMA LinkKeeps ==
    ASSUME CompileInv, Link
    PROVE  CompileInv'
<1> DEFINE forms == ReadSpec(spec.files)
<1>1. /\ phase = "read" /\ phase' \in {"panicked", "linked", "refused"}
      /\ phase' = "refused" => project' = project
      /\ project' \in {project, Linked(forms)}
      /\ cover' = cover /\ walking' = walking /\ walked' = walked /\ loop' = loop
  BY DEF Link, Proceed, searchVars
<1>2. /\ project = NoProject /\ loop = <<>> /\ walked = <<>> /\ walking = {}
      /\ \A n \in DOMAIN project.packages : project.packages[n].name = n
  BY <1>1 DEF CompileInv, ProjectInv
<1>3. ProjectInv'
  <2>1. \A n \in DOMAIN project'.packages : project'.packages[n].name = n
    BY <1>1, <1>2, LinkedNames
  <2> QED
    BY <2>1, <1>1, <1>2 DEF ProjectInv
<1>4. ~Cyclic(Deps(NoProject.packages))
  <2>1. NoProject.packages = <<>>
    BY DEF NoProject
  <2>2. Range(<<>>) = {}
    BY DEF Range
  <2>3. Deps(<<>>).node = {}
    BY <2>2 DEF Deps
  <2> QED
    BY <2>1, <2>3 DEF Cyclic
<1>5. ValidInv'
  BY <1>1, <1>2, <1>4 DEF ValidInv, AfterValid
<1>6. CoverInv' /\ OutInv'
  BY <1>1 DEF CoverInv, OutInv, AfterValid, AfterCover, AfterLower, AfterEmit
<1>7. WalksInv'
  <2>1. DOMAIN walked' = {} /\ walking' = {}
    BY <1>1, <1>2
  <2> QED
    BY <2>1 DEF WalksInv
<1> QED
  BY <1>3, <1>5, <1>6, <1>7 DEF CompileInv

\* Validation collects the errors and starts the search.
LEMMA ValidateKeeps ==
    ASSUME CompileInv, Validate
    PROVE  CompileInv'
<1>1. /\ phase = "linked" /\ phase' = "searching" /\ StartSearch(Deps(project.packages))
      /\ errs' = ValidateErrors(project, spec.strict) /\ spec' = spec /\ project' = project
      /\ walking' = walking /\ walked' = walked /\ UNCHANGED <<project, walking, walked, walkVars>>
  BY DEF Validate
<1>2. loop' = <<>>
  BY <1>1 DEF StartSearch
<1>3. ProjectInv'
  BY <1>1 DEF CompileInv, ProjectInv
<1>4. ValidInv'
  <2>1. \A g : StartSearch(g) => SearchInv(g)'
    BY SearchStarts
  <2>2. PICK g : g = Deps(project.packages)
    OBVIOUS
  <2>3. StartSearch(g)
    BY <1>1, <2>2 DEF StartSearch
  <2>4. SearchInv(g)'
    BY <2>1, <2>3
  <2> QED
    BY <1>1, <1>2, <2>2, <2>4 DEF ValidInv, AfterValid
<1>5. CoverInv' /\ OutInv'
  BY <1>1 DEF CoverInv, OutInv, AfterValid, AfterCover, AfterLower, AfterEmit
<1>6. WalksInv'
  BY <1>1, SameWalks DEF CompileInv
<1> QED
  BY <1>3, <1>4, <1>5, <1>6 DEF CompileInv

\* A step of the search.
LEMMA SearchStepKeeps ==
    ASSUME CompileInv, Search
    PROVE  CompileInv'
<1>1. /\ phase = "searching" /\ phase' = phase /\ SearchNext
      /\ errs' = errs /\ spec' = spec /\ project' = project
      /\ walking' = walking /\ walked' = walked /\ UNCHANGED <<project, walking, walked, walkVars>>
  BY DEF Search, compileVars
<1>3. ProjectInv'
  BY <1>1 DEF CompileInv, ProjectInv
<1>4. ValidInv'
  <2>1. PICK g : g = Deps(project.packages)
    OBVIOUS
  <2>2. SearchInv(g) /\ errs = ValidateErrors(project, spec.strict)
    BY <1>1, <2>1 DEF CompileInv, ValidInv
  <2>3. SearchInv(g)'
    BY <1>1, <2>2, SearchKeeps
  <2>4. loop' # <<>> => IsLoop(g, loop')
    BY <2>3 DEF SearchInv
  <2> QED
    BY <1>1, <2>1, <2>2, <2>3, <2>4 DEF ValidInv, AfterValid
<1>5. CoverInv' /\ OutInv'
  BY <1>1 DEF CoverInv, OutInv, AfterValid, AfterCover, AfterLower, AfterEmit
<1>6. WalksInv'
  BY <1>1, SameWalks DEF CompileInv
<1> QED
  BY <1>3, <1>4, <1>5, <1>6 DEF CompileInv

\* The search is over: without a loop there is no cycle, and what it found is
\* among the errors.
LEMMA EndValidateKeeps ==
    ASSUME CompileInv, EndValidate
    PROVE  CompileInv'
<1> DEFINE found == errs \union {e \in {<<"cycle", loop>>} : loop # <<>>}
<1>1. /\ phase = "searching" /\ Searched /\ errs' = found
      /\ phase' = IF found = {} THEN "valid" ELSE "refused"
      /\ spec' = spec /\ project' = project /\ loop' = loop
      /\ walking' = walking /\ walked' = walked /\ UNCHANGED <<project, walking, walked, walkVars>>
  BY DEF EndValidate, Proceed, searchVars
<1>2. PICK g : g = Deps(project.packages)
  OBVIOUS
<1>3. SearchInv(g) /\ errs = ValidateErrors(project, spec.strict) /\ (loop # <<>> => IsLoop(g, loop))
  BY <1>1, <1>2 DEF CompileInv, ValidInv
<1>4. ProjectInv'
  BY <1>1 DEF CompileInv, ProjectInv
<1>5. ValidInv'
  <2>1. loop = <<>> => ~Cyclic(g)
    BY <1>1, <1>3, SearchTells
  <2>2. CASE found = {}
    <3>1. loop = <<>> /\ errs = {}
      BY <2>2
    <3> HIDE DEF found
    <3> QED
      BY <1>1, <1>2, <1>3, <2>1, <2>2, <3>1 DEF ValidInv, AfterValid
  <2>3. CASE found # {}
    <3>1. loop # <<>> => <<"cycle", loop>> \in found
      OBVIOUS
    <3> HIDE DEF found
    <3> QED
      BY <1>1, <1>2, <1>3, <2>1, <2>3, <3>1 DEF ValidInv, AfterValid
  <2> QED
    BY <2>2, <2>3
<1>6. CoverInv' /\ OutInv'
  BY <1>1 DEF CoverInv, OutInv, AfterValid, AfterCover, AfterLower, AfterEmit
<1>7. WalksInv'
  BY <1>1, SameWalks DEF CompileInv
<1> QED
  BY <1>4, <1>5, <1>6, <1>7 DEF CompileInv

\* Once valid, the project and what validation has shown of it stay.
LEMMA StaysValid ==
    ASSUME CompileInv, phase \in AfterValid, phase' \in AfterValid \union {"refused"},
           spec' = spec, project' = project, loop' = loop
    PROVE  ValidInv'
  BY DEF CompileInv, ValidInv, AfterValid

\* A legal tile is chosen for every need, and no name is reserved.
LEMMA CoverKeeps ==
    ASSUME CompileInv, Cover
    PROVE  CompileInv'
<1>1. /\ phase = "valid" /\ phase' \in {"covered", "refused"} /\ spec' = spec /\ project' = project /\ loop' = loop
      /\ walking' = walking /\ walked' = walked /\ UNCHANGED <<project, walking, walked, walkVars>>
  BY DEF Cover, Proceed, searchVars
<1>2. phase' = "covered" => cover' \in Covers /\ ReservedErrors(cover') = {}
  BY DEF Cover, Proceed
<1>3. ProjectInv'
  BY <1>1 DEF CompileInv, ProjectInv
<1>4. ValidInv'
  BY <1>1, StaysValid DEF AfterValid
<1>5. CoverInv'
  <2>1. Covers' = Covers /\ ReservedErrors(cover)' = ReservedErrors(cover')
    BY <1>1, SameProject DEF ReservedErrors
  <2> QED
    BY <1>1, <1>2, <2>1 DEF CoverInv, AfterValid, AfterCover
<1>6. OutInv'
  BY <1>1 DEF OutInv, AfterValid, AfterCover, AfterLower, AfterEmit
<1>7. WalksInv'
  BY <1>1, SameWalks DEF CompileInv
<1> QED
  BY <1>3, <1>4, <1>5, <1>6, <1>7 DEF CompileInv

\* Once chosen, the tiles stay.
LEMMA StaysCovered ==
    ASSUME CompileInv, phase \in AfterCover, phase' \in AfterCover \union {"refused"},
           project' = project, cover' = cover
    PROVE  CoverInv'
<1>1. Covers' = Covers /\ ReservedErrors(cover)' = ReservedErrors(cover)
  BY SameProject DEF ReservedErrors
<1> QED
  BY <1>1 DEF CompileInv, CoverInv, AfterValid, AfterCover

\* A walk is of an interface of a package of the project.
LEMMA WalksAre ==
    ASSUME NEW w \in Walks(project), ProjectInv
    PROVE  /\ w = [pkg |-> w.pkg, iface |-> w.iface]
           /\ w.pkg \in DOMAIN project.packages
           /\ w.iface \in DOMAIN TableOf(project, w)
<1>1. PICK n \in DOMAIN project.packages :
          \E it : it.iface \in IfaceNames(LoweredPackages(project)[n]) /\ w = [pkg |-> n, iface |-> it.iface]
  BY DEF Walks
<1> QED
  BY <1>1, InterfaceTableDomain DEF TableOf

\* A walk starts.
LEMMA BeginWalkKeeps ==
    ASSUME CompileInv, BeginWalk
    PROVE  CompileInv'
<1>1. PICK w \in Walks(project) : walking' = {w} /\ StartWalk(TableOf(project, w), w.iface)
  BY DEF BeginWalk, TableOf
<1>2. /\ phase = "covered" /\ phase' = phase /\ spec' = spec /\ project' = project /\ loop' = loop
      /\ cover' = cover /\ walked' = walked
  BY DEF BeginWalk, searchVars
<1>3. ProjectInv'
  BY <1>2 DEF CompileInv, ProjectInv
<1>4. ValidInv'
  BY <1>2, StaysValid DEF AfterValid
<1>5. CoverInv'
  BY <1>2, StaysCovered DEF AfterValid, AfterCover
<1>6. OutInv'
  BY <1>2 DEF OutInv, AfterValid, AfterCover, AfterLower, AfterEmit
<1>7. WalksInv'
  <2>1. PICK table : table = TableOf(project, w)
    OBVIOUS
  <2>2. w.iface \in DOMAIN table
    BY <2>1, WalksAre DEF CompileInv
  <2>3. StartWalk(table, w.iface)
    BY <1>1, <2>1 DEF StartWalk
  <2>4. WalkInv(table, w.iface)'
    BY <2>2, <2>3, WalkStarts
  <2>5. TableOf(project', w) = table /\ Walks(project') = Walks(project)
    BY <1>2, <2>1
  <2> QED
    BY <1>1, <1>2, <2>4, <2>5 DEF CompileInv, WalksInv
<1> QED
  BY <1>3, <1>4, <1>5, <1>6, <1>7 DEF CompileInv

\* A walk goes on.
LEMMA WalkStepKeeps ==
    ASSUME CompileInv, Walk
    PROVE  CompileInv'
<1>1. WalkNext
  BY DEF Walk
<1>2. /\ phase = "covered" /\ phase' = phase /\ spec' = spec /\ project' = project /\ loop' = loop
      /\ cover' = cover /\ walked' = walked /\ walking' = walking
  BY DEF Walk, searchVars, compileVars
<1>3. ProjectInv'
  BY <1>2 DEF CompileInv, ProjectInv
<1>4. ValidInv'
  BY <1>2, StaysValid DEF AfterValid
<1>5. CoverInv'
  BY <1>2, StaysCovered DEF AfterValid, AfterCover
<1>6. OutInv'
  BY <1>2 DEF OutInv, AfterValid, AfterCover, AfterLower, AfterEmit
<1>7. WalksInv'
  <2>1. ASSUME NEW w \in walking, NEW table, table = TableOf(project, w)
        PROVE  WalkInv(table, w.iface)'
    <3>1. WalkInv(table, w.iface)
      BY <2>1 DEF CompileInv, WalksInv
    <3> QED
      BY <3>1, <1>1, WalkKeeps
  <2>2. \A w : TableOf(project', w) = TableOf(project, w)
    BY <1>2
  <2> QED
    BY <1>2, <2>1, <2>2 DEF CompileInv, WalksInv
<1> QED
  BY <1>3, <1>4, <1>5, <1>6, <1>7 DEF CompileInv

\* A walk is over: what it found is right, or an interface embeds itself.
LEMMA EndWalkKeeps ==
    ASSUME CompileInv, EndWalk
    PROVE  CompileInv'
<1>1. /\ Walked /\ walked' = [w \in DOMAIN walked \union walking |-> IF w \in walking THEN Result ELSE walked[w]]
      /\ walking' = {}
  BY DEF EndWalk
<1>2. /\ phase = "covered" /\ phase' = phase /\ spec' = spec /\ project' = project /\ loop' = loop /\ cover' = cover
  BY DEF EndWalk, searchVars
<1>3. ProjectInv'
  BY <1>2 DEF CompileInv, ProjectInv
<1>4. ValidInv'
  BY <1>2, StaysValid DEF AfterValid
<1>5. CoverInv'
  BY <1>2, StaysCovered DEF AfterValid, AfterCover
<1>6. OutInv'
  BY <1>2 DEF OutInv, AfterValid, AfterCover, AfterLower, AfterEmit
<1>7. WalksInv'
  <2>1. ASSUME NEW w \in walking, NEW table, table = TableOf(project, w)
        PROVE  w \in Walks(project) /\ (Result.ok => WalkedRight(table, w.iface, Result.methods))
    <3>1. WalkInv(table, w.iface) /\ w \in Walks(project)
      BY <2>1 DEF CompileInv, WalksInv
    <3>2. Result.ok = ~again /\ Result.methods = methods
      BY DEF Result
    <3> QED
      BY <3>1, <3>2, <1>1, WalkEnds
  <2>2. \A w : TableOf(project', w) = TableOf(project, w)
    BY <1>2
  <2>3. ASSUME NEW w \in DOMAIN walked', NEW table, table = TableOf(project, w)
        PROVE  w \in Walks(project) /\ (walked'[w].ok => WalkedRight(table, w.iface, walked'[w].methods))
    <3>1. CASE w \in walking
      <4>1. walked'[w] = Result
        BY <1>1, <3>1
      <4> QED
        BY <3>1, <4>1, <2>1, <2>3
    <3>2. CASE w \notin walking
      <4>1. w \in DOMAIN walked /\ walked'[w] = walked[w]
        BY <1>1, <3>2
      <4> QED
        BY <4>1, <2>3 DEF CompileInv, WalksInv
    <3> QED
      BY <3>1, <3>2
  <2> QED
    BY <1>1, <1>2, <2>2, <2>3 DEF WalksInv
<1> QED
  BY <1>3, <1>4, <1>5, <1>6, <1>7 DEF CompileInv

\* The passes run once the walks are over, and an error of theirs ends it.
LEMMA LowerKeeps ==
    ASSUME CompileInv, Lower
    PROVE  CompileInv'
<1>1. /\ out' = Lowered(project, cover, walked) /\ Walks(project) \subseteq DOMAIN walked
      /\ phase' = "lowered" => out'.errs = {}
      /\ phase = "covered" /\ phase' \in {"lowered", "refused"} /\ spec' = spec /\ project' = project /\ loop' = loop
      /\ cover' = cover /\ walked' = walked /\ walking' = walking /\ UNCHANGED <<project, walking, walked, walkVars>>
  BY DEF Lower, Proceed, searchVars
<1>3. ProjectInv'
  BY <1>1 DEF CompileInv, ProjectInv
<1>4. ValidInv'
  BY <1>1, StaysValid DEF AfterValid
<1>5. CoverInv'
  BY <1>1, StaysCovered DEF AfterValid, AfterCover
<1>6. OutInv'
  BY <1>1 DEF OutInv, AfterValid, AfterCover, AfterLower, AfterEmit
<1>7. WalksInv'
  BY <1>1, SameWalks DEF CompileInv
<1> QED
  BY <1>3, <1>4, <1>5, <1>6, <1>7 DEF CompileInv

\* The files are staged.
LEMMA EmitKeeps ==
    ASSUME CompileInv, Emit
    PROVE  CompileInv'
<1>1. /\ staged' = Stage(Files) /\ out' = out
      /\ phase = "lowered" /\ phase' = "emitted" /\ spec' = spec /\ project' = project /\ loop' = loop
      /\ cover' = cover /\ walked' = walked /\ walking' = walking /\ UNCHANGED <<project, walking, walked, walkVars>>
  BY DEF Emit, searchVars
<1>3. ProjectInv'
  BY <1>1 DEF CompileInv, ProjectInv
<1>4. ValidInv'
  BY <1>1, StaysValid DEF AfterValid
<1>5. CoverInv'
  BY <1>1, StaysCovered DEF AfterValid, AfterCover
<1>6. OutInv'
  <2>1. Files' = Files
    BY <1>1 DEF Files
  <2> QED
    BY <1>1, <2>1 DEF CompileInv, OutInv, AfterValid, AfterCover, AfterLower, AfterEmit
<1>7. WalksInv'
  BY <1>1, SameWalks DEF CompileInv
<1> QED
  BY <1>3, <1>4, <1>5, <1>6, <1>7 DEF CompileInv

\* The plan graph changes nothing of what was compiled.
LEMMA PlanKeeps ==
    ASSUME CompileInv, BuildGraph \/ Layout \/ Report
    PROVE  CompileInv'
<1>1. /\ staged' = staged /\ out' = out /\ spec' = spec /\ project' = project /\ loop' = loop
      /\ phase \in AfterEmit /\ phase' \in AfterEmit
      /\ cover' = cover /\ walked' = walked /\ walking' = walking /\ UNCHANGED <<project, walking, walked, walkVars>>
  BY DEF BuildGraph, Layout, Report, searchVars, compileVars, AfterValid, AfterCover, AfterLower, AfterEmit
<1>2. phase \in AfterValid /\ phase' \in AfterValid /\ phase \in AfterCover /\ phase' \in AfterCover
  BY <1>1 DEF AfterCover, AfterLower, AfterEmit
<1>3. ProjectInv'
  BY <1>1 DEF CompileInv, ProjectInv, AfterValid, AfterCover, AfterLower, AfterEmit
<1>4. ValidInv'
  BY <1>1, <1>2, StaysValid
<1>5. CoverInv'
  BY <1>1, <1>2, StaysCovered
<1>6. OutInv'
  <2>1. Files' = Files
    BY <1>1 DEF Files
  <2> QED
    BY <1>1, <2>1 DEF CompileInv, OutInv, AfterLower, AfterEmit
<1>7. WalksInv'
  BY <1>1, SameWalks DEF CompileInv
<1> QED
  BY <1>3, <1>4, <1>5, <1>6, <1>7 DEF CompileInv

\* Nothing changes.
LEMMA StutterKeeps ==
    ASSUME CompileInv, UNCHANGED vars
    PROVE  CompileInv'
<1>1. /\ phase' = phase /\ spec' = spec /\ project' = project /\ cover' = cover /\ walking' = walking
      /\ walked' = walked /\ out' = out /\ staged' = staged /\ errs' = errs /\ loop' = loop
      /\ imports' = imports /\ stack' = stack /\ left' = left /\ done' = done
      /\ UNCHANGED <<project, walking, walked, walkVars>>
  BY DEF vars, compileVars, searchVars
<1>2. \A g : SearchInv(g)' = SearchInv(g)
  BY <1>1 DEF SearchInv, StackInv, LeftInv, DoneInv, Active
<1>3. ProjectInv'
  BY <1>1 DEF CompileInv, ProjectInv
<1>4. ValidInv'
  BY <1>1, <1>2 DEF CompileInv, ValidInv
<1>5. CoverInv'
  <2>1. Covers' = Covers /\ ReservedErrors(cover)' = ReservedErrors(cover)
    BY <1>1, SameProject DEF ReservedErrors
  <2> QED
    BY <1>1, <2>1 DEF CompileInv, CoverInv
<1>6. OutInv'
  <2>1. Files' = Files
    BY <1>1 DEF Files
  <2> QED
    BY <1>1, <2>1 DEF CompileInv, OutInv
<1>7. WalksInv'
  BY <1>1, SameWalks DEF CompileInv
<1> QED
  BY <1>3, <1>4, <1>5, <1>6, <1>7 DEF CompileInv

\* In every state of every compile: what is past validation has no error and no
\* import cycle, what is past selection a legal tile for every need, what a walk
\* found is what its interface is made of, and what is emitted is what the passes
\* made of the project (compile.go CompileProject).
THEOREM SpecCompileInv == Spec => []CompileInv
<1>1. CompileInv /\ [Next]_vars => CompileInv'
  BY LinkKeeps, ValidateKeeps, SearchStepKeeps, EndValidateKeeps, CoverKeeps, BeginWalkKeeps, WalkStepKeeps,
     EndWalkKeeps, LowerKeeps, EmitKeeps, PlanKeeps, StutterKeeps DEF Next
<1> QED
  BY <1>1, InitCompileInv, PTL DEF Spec

\* Whatever the spec, validation accepts no import cycle, reports one that there
\* is however the rest may be wrong, and the packages it reports import each the
\* next, back to the first (validate.go cycles).
THEOREM CyclesAreReported == Spec => []CyclesReported
<1>1. CompileInv => CyclesReported
  BY DEF CompileInv, ValidInv, CyclesReported, AfterValid
<1> QED
  BY <1>1, SpecCompileInv, PTL

\* A compile that got as far as its files is past every check.
LEMMA EmittedPhase == Emitted => phase \in AfterEmit
  BY DEF Emitted, AfterEmit, AfterLower, AfterCover, AfterValid

\* So its packages have no error, its needs a tile, and its walks are right.
LEMMA EmittedIsGood ==
    ASSUME CompileInv, Emitted
    PROVE  Good(project, spec.strict, cover, walked)
<1>1. phase \in AfterValid /\ phase \in AfterCover /\ phase \in AfterLower
  BY EmittedPhase DEF AfterEmit, AfterLower, AfterCover
<1>2. /\ ValidateErrors(project, spec.strict) = {} /\ cover \in Covers
      /\ out = Lowered(project, cover, walked) /\ Walks(project) \subseteq DOMAIN walked
  BY <1>1 DEF CompileInv, ValidInv, CoverInv, OutInv
<1> SUFFICES ASSUME NEW n \in DOMAIN project.packages
             PROVE  /\ Selectable(project.packages[n], project.go, spec.strict, cover)
                    /\ WalksRight(LoweredOf(project.packages[n]), walked)
  BY DEF Good
<1> DEFINE p == project.packages[n]
<1>3. p \in Range(project.packages)
  BY DEF Range
<1>4. Selectable(p, project.go, spec.strict, cover)
  <2>1. NoItemErrors(p, project.go, spec.strict)
    BY <1>2, <1>3, NoErrorsIn DEF NoItemErrors
  <2>2. cover \in [{x.id : x \in Needs} -> DOMAIN Catalog]
    BY <1>2 DEF Covers
  <2>3. NeedsOf(p) \subseteq Needs
    BY <1>3 DEF Needs
  <2> HIDE DEF p
  <2>4. /\ \A x \in DOMAIN cover : cover[x] \in DOMAIN Catalog
        /\ \A x \in NeedsOf(p) : x.id \in DOMAIN cover
    BY <2>2, <2>3
  <2> QED
    BY <2>1, <2>4 DEF Selectable
<1>5. WalksRight(LoweredOf(p), walked)
  <2> DEFINE L == LoweredOf(p)
  <2> SUFFICES ASSUME NEW it \in FormsOf(L.items, "implement"), it.iface \in IfaceNames(L),
                      walked[[pkg |-> L.name, iface |-> it.iface]].ok
               PROVE  WalkedRight(InterfaceTable(L), it.iface, walked[[pkg |-> L.name, iface |-> it.iface]].methods)
    BY DEF WalksRight
  <2> DEFINE w == [pkg |-> n, iface |-> it.iface]
  <2>1. L.name = n
    BY LoweredParts DEF CompileInv, ProjectInv
  <2>2. LoweredPackages(project)[n] = L
    BY LoweredPackagesAre
  <2>3. w \in Walks(project)
    BY <2>2 DEF Walks
  <2>4. w \in DOMAIN walked /\ walked[w].ok
    BY <1>2, <2>1, <2>3
  <2>5. TableOf(project, w) = InterfaceTable(L) /\ w.iface = it.iface
    BY <2>2 DEF TableOf
  <2>6. WalkedRight(TableOf(project, w), w.iface, walked[w].methods)
    BY <2>4 DEF CompileInv, WalksInv
  <2> QED
    BY <2>1, <2>5, <2>6
<1> QED
  BY <1>4, <1>5

\* And what is staged is what the passes made of it.
LEMMA StagedIs ==
    ASSUME CompileInv, Emitted
    PROVE  /\ staged \subseteq Files
           /\ staged = Stage(Files)
           /\ out = Lowered(project, cover, walked)
           /\ out.errs = {}
           /\ ReservedErrors(cover) = {}
           /\ ~Cyclic(Deps(project.packages))
<1>1. phase \in AfterValid /\ phase \in AfterCover /\ phase \in AfterLower /\ phase \in AfterEmit
  BY EmittedPhase DEF AfterEmit, AfterLower, AfterCover
<1> QED
  BY <1>1 DEF CompileInv, ValidInv, CoverInv, OutInv, Stage

\* What a file imports from the project, its package's forms name.
LEMMA ImportsAreDeps ==
    ASSUME CompileInv, Emitted, ProjectNames \intersect Std = {},
           NEW f \in staged, NEW q \in ProjectNames,
           q \in LocalImports(f, Requires(project, cover), Locals(project, cover))
    PROVE  <<f.pkg, q>> \in Deps(project.packages).edge
<1>1. q \in Qualified(f) /\ q \notin Requires(project, cover) /\ q # f.pkg
  BY DEF LocalImports, Resolve
<1>2. PICK d \in f.decls : \E t \in d.types : t.q = q /\ q # Local
  BY <1>1 DEF Qualified
<1>3. f \in Lowered(project, cover, walked).files
  <2>1. f \in out.files \union SqlFiles(out.sql)
    BY StagedIs DEF Files
  <2>2. f \notin SqlFiles(out.sql)
    BY <1>2 DEF SqlFiles, SqlFile
  <2> QED
    BY <2>1, <2>2, StagedIs
<1>4. PICK n \in DOMAIN project.packages :
          f.pkg = project.packages[n].name /\ DeclsOk(f.decls, OkQ(project.packages[n], cover))
  BY <1>3, EmittedIsGood, SelectedFiles
<1> DEFINE p == project.packages[n]
<1>5. q \in OkQ(p, cover)
  BY <1>2, <1>4 DEF DeclsOk, QOk
<1>6. q \notin UNION {Catalog[t].imports : t \in Used(cover)}
  BY <1>1 DEF Requires
<1>7. q \notin ToolPackages(cover)
  BY StagedIs DEF ProjectNames, ReservedErrors
<1>8. q \in Qualifiers(p.items)
  BY <1>2, <1>5, <1>6, <1>7 DEF OkQ, PlainQ
<1>9. p \in Range(project.packages)
  BY DEF Range
<1>10. q \in (Qualifiers(p.items) \intersect ProjectNames) \ {p.name}
  BY <1>1, <1>4, <1>8
<1>11. Deps(project.packages).edge
         = UNION {{<<r.name, x>> : x \in (Qualifiers(r.items) \intersect ProjectNames) \ {r.name}} : r \in Range(project.packages)}
  BY DEF Deps, ProjectNames
<1> HIDE DEF p
<1> QED
  BY <1>4, <1>9, <1>10, <1>11 DEF p

\* Whatever the spec, the tiles and what they bring, the generated packages do
\* not import each other in a cycle: a file imports a package of the project only
\* when a form of its own package names a type of it, and validation saw that.
THEOREM NoCycleReachesTheCode == Spec => []NoCycleInTheCode
<1>1. ASSUME CompileInv, Emitted, ProjectNames \intersect Std = {} PROVE ~Cyclic(CodeDeps)
  <2>1. CodeDeps.node = Deps(project.packages).node
    BY DEF CodeDeps, Deps, ProjectNames
  <2>2. CodeDeps.edge \subseteq Deps(project.packages).edge
    <3> SUFFICES ASSUME NEW e \in CodeDeps.edge PROVE e \in Deps(project.packages).edge
      OBVIOUS
    <3>1. PICK f \in staged : \E q \in ProjectNames \intersect LocalImports(f, Requires(project, cover), Locals(project, cover)) :
              e = <<f.pkg, q>>
      BY DEF CodeDeps
    <3> QED
      BY <1>1, <3>1, ImportsAreDeps
  <2>3. ~Cyclic(Deps(project.packages))
    BY <1>1, StagedIs
  <2> QED
    BY <2>1, <2>2, <2>3 DEF Cyclic
<1>2. CompileInv => NoCycleInTheCode
  BY <1>1 DEF NoCycleInTheCode
<1> QED
  BY <1>2, SpecCompileInv, PTL

\* ------------------------------------------------- the interfaces of a package
OneInterfaceEach(p) ==
    LET items == Expand(p).items
    IN  \A a, b \in PlacesOf(items, "interface") : items[a].name = items[b].name => a = b

\* Where the interfaces stand, before and after concretize.
LEMMA InterfacePlaces ==
    ASSUME NEW p
    PROVE  /\ PlacesOf(LoweredOf(p).items, "interface") = PlacesOf(Expand(p).items, "interface")
           /\ \A a \in PlacesOf(Expand(p).items, "interface") :
                  /\ LoweredOf(p).items[a] = ConcretizeItem(Expand(p).items[a])
                  /\ LoweredOf(p).items[a].name = Expand(p).items[a].name
<1> DEFINE e == Expand(p).items
           l == LoweredOf(p).items
<1>1. /\ DOMAIN l = {a \in DOMAIN e : e[a].head # "dir"}
      /\ \A a \in DOMAIN l : l[a] = ConcretizeItem(e[a])
  BY LoweredParts
<1> HIDE DEF e, l
<1>2. \A a \in DOMAIN l : e[a].head = "interface" => l[a].head = "interface" /\ l[a].name = e[a].name
  BY <1>1, ConcretizedInterface
<1>3. \A a \in DOMAIN l : e[a].head # "interface" => l[a] = e[a]
  BY <1>1 DEF ConcretizeItem
<1>4. PlacesOf(l, "interface") = PlacesOf(e, "interface")
  BY <1>1, <1>2, <1>3 DEF PlacesOf
<1>5. \A a \in PlacesOf(e, "interface") : a \in DOMAIN l /\ l[a] = ConcretizeItem(e[a]) /\ l[a].name = e[a].name
  BY <1>1, <1>2 DEF PlacesOf
<1> QED
  BY <1>4, <1>5 DEF e, l

\* With each name once, the interface select reads is the one of that name.
LEMMA TableReads ==
    ASSUME NEW p, OneInterfaceEach(p), NEW a \in PlacesOf(Expand(p).items, "interface")
    PROVE  LET x == Expand(p).items[a]
               table == InterfaceTable(LoweredOf(p))
           IN  /\ Called(LoweredOf(p), "interface", x.name) = {ConcretizeItem(x)}
               /\ x.name \in DOMAIN table
               /\ DOMAIN table[x.name] = DOMAIN x.items
               /\ \A i \in DOMAIN x.items : table[x.name][i] = WithContext(x.items[i])
<1> DEFINE L == LoweredOf(p)
           x == Expand(p).items[a]
           Same(name) == {b \in PlacesOf(L.items, "interface") : L.items[b].name = name}
<1>1. /\ PlacesOf(L.items, "interface") = PlacesOf(Expand(p).items, "interface")
      /\ \A b \in PlacesOf(L.items, "interface") : L.items[b] = ConcretizeItem(Expand(p).items[b])
                                                  /\ L.items[b].name = Expand(p).items[b].name
  BY InterfacePlaces
<1>2. \A b, d \in PlacesOf(L.items, "interface") : L.items[b].name = L.items[d].name => b = d
  BY <1>1 DEF OneInterfaceEach
<1> HIDE DEF L, x
<1>3. \A b \in PlacesOf(L.items, "interface") : LastOf(Same(L.items[b].name)) = {b}
  <2> TAKE b \in PlacesOf(L.items, "interface")
  <2>1. Same(L.items[b].name) = {b}
    BY <1>2
  <2>2. LastOf({b}) = {b}
    BY DEF LastOf
  <2> QED
    BY <2>1, <2>2
<1>4. Standing(L, "interface") = {L.items[b] : b \in PlacesOf(L.items, "interface")}
  <2>1. Standing(L, "interface") = {L.items[b] : b \in {b \in PlacesOf(L.items, "interface") : b \in LastOf(Same(L.items[b].name))}}
    BY DEF Standing
  <2>2. {b \in PlacesOf(L.items, "interface") : b \in LastOf(Same(L.items[b].name))} = PlacesOf(L.items, "interface")
    BY <1>3
  <2> QED
    BY <2>1, <2>2
<1>5. L.items[a] = ConcretizeItem(x) /\ L.items[a].name = x.name /\ a \in PlacesOf(L.items, "interface")
  BY <1>1 DEF x
<1>6. Called(L, "interface", x.name) = {ConcretizeItem(x)}
  <2>1. \A f \in Called(L, "interface", x.name) : f = L.items[a]
    BY <1>2, <1>4, <1>5 DEF Called
  <2>2. L.items[a] \in Called(L, "interface", x.name)
    BY <1>4, <1>5 DEF Called
  <2> QED
    BY <2>1, <2>2, <1>5
<1>7. x.name \in IfaceNames(L)
  BY <1>6 DEF IfaceNames, Called
<1>8. InterfaceTable(L)[x.name] = ConcretizeItem(x).items
  BY <1>6, <1>7, InterfaceTableIs
<1>9. x.head = "interface"
  BY DEF x, PlacesOf
<1>10. DOMAIN ConcretizeItem(x).items = DOMAIN x.items /\ \A i \in DOMAIN x.items : ConcretizeItem(x).items[i] = WithContext(x.items[i])
  BY <1>9, ConcretizedInterface
<1> QED
  BY <1>6, <1>7, <1>8, <1>10, InterfaceTableDomain DEF x, L

\* The table has no name that is not an interface of the expanded package.
LEMMA TableNames ==
    ASSUME NEW p, NEW n \in DOMAIN InterfaceTable(LoweredOf(p))
    PROVE  \E a \in PlacesOf(Expand(p).items, "interface") : Expand(p).items[a].name = n
<1>1. n \in IfaceNames(LoweredOf(p))
  BY InterfaceTableDomain
<1>2. \E a \in PlacesOf(LoweredOf(p).items, "interface") : LoweredOf(p).items[a].name = n
  BY <1>1 DEF IfaceNames, Standing
<1> QED
  BY <1>2, InterfacePlaces

\* The interfaces a walk is to reach are those the interface is made of.
LEMMA ReachedIsMadeOf ==
    ASSUME NEW p, OneInterfaceEach(p), NEW root
    PROVE  Reached(InterfaceTable(LoweredOf(p)), root) = MadeOf(FormsOf(Expand(p).items, "interface"), root)
<1> DEFINE table == InterfaceTable(LoweredOf(p))
           items == Expand(p).items
           forms == FormsOf(items, "interface")
           names == {i.name : i \in forms}
<1>1. forms = {items[a] : a \in PlacesOf(items, "interface")}
  BY DEF FormsOf
<1>2. /\ \A a \in PlacesOf(items, "interface") :
             /\ items[a].name \in DOMAIN table /\ DOMAIN table[items[a].name] = DOMAIN items[a].items
             /\ \A i \in DOMAIN items[a].items : table[items[a].name][i] = WithContext(items[a].items[i])
      /\ \A n \in DOMAIN table : \E a \in PlacesOf(items, "interface") : items[a].name = n
  BY TableReads, TableNames
<1> HIDE DEF table, items, forms
<1>3. DOMAIN table = names
  <2>1. ASSUME NEW n \in DOMAIN table PROVE n \in names
    <3>1. PICK a \in PlacesOf(items, "interface") : items[a].name = n
      BY <1>2
    <3>2. items[a] \in forms
      BY <1>1
    <3> QED
      BY <3>1, <3>2
  <2>2. ASSUME NEW x \in forms PROVE x.name \in DOMAIN table
    BY <1>1, <1>2
  <2> QED
    BY <2>1, <2>2
<1>4. ASSUME NEW S \in SUBSET names
      PROVE  ClosedIn(table, S) <=> Closed(forms, S)
  <2>1. ASSUME Closed(forms, S), NEW n \in S, NEW i \in DOMAIN table[n], EmbedsHere(table[n][i], DOMAIN table)
        PROVE  table[n][i].type.name \in S
    <3>1. PICK a \in PlacesOf(items, "interface") : items[a].name = n
      BY <1>2, <1>3
    <3>2. table[n][i] = WithContext(items[a].items[i]) /\ i \in DOMAIN items[a].items
      BY <1>2, <2>1, <3>1
    <3>3. table[n][i] = items[a].items[i] /\ table[n][i].head = "embed"
      BY <2>1, <3>2, WithContextIs DEF EmbedsHere
    <3>4. table[n][i] \in Embeds(items[a])
      BY <3>2, <3>3 DEF Embeds, FormsOf, PlacesOf
    <3>5. items[a] \in forms
      BY <1>1
    <3> QED
      BY <2>1, <3>1, <3>4, <3>5, <1>3 DEF Closed
  <2>2. ASSUME ClosedIn(table, S), NEW x \in forms, x.name \in S, NEW e \in Embeds(x), EmbedsHere(e, names)
        PROVE  e.type.name \in S
    <3>1. PICK a \in PlacesOf(items, "interface") : x = items[a]
      BY <1>1
    <3>2. PICK i \in DOMAIN x.items : e = x.items[i] /\ e.head = "embed"
      BY DEF Embeds, FormsOf, PlacesOf
    <3>3. i \in DOMAIN table[x.name] /\ table[x.name][i] = e
      BY <1>2, <3>1, <3>2, WithContextIs
    <3> QED
      BY <2>2, <3>3, <1>3 DEF ClosedIn
  <2> QED
    BY <2>1, <2>2 DEF ClosedIn, Closed
<1>5. Reached(table, root) = MadeOf(forms, root)
  BY <1>3, <1>4 DEF Reached, MadeOf
<1> QED
  BY <1>5 DEF table, forms, items

\* The names of the methods a walk finds, and no two alike.
LEMMA FoundMethods ==
    ASSUME NEW p, OneInterfaceEach(p), NEW root, NEW found,
           WalkedRight(InterfaceTable(LoweredOf(p)), root, found)
    PROVE  LET forms == FormsOf(Expand(p).items, "interface")
               ms == MethodsIn(found)
           IN  /\ {m.name : m \in ms} = UNION {{m.name : m \in Methods(i)} : i \in {i \in forms : i.name \in MadeOf(forms, root)}}
               /\ \A m, n \in ms : m.name = n.name => m = n
               /\ \A m \in ms : m.nth # 0
<1> DEFINE table == InterfaceTable(LoweredOf(p))
           items == Expand(p).items
           forms == FormsOf(items, "interface")
           ms == MethodsIn(found)
           made == {i \in forms : i.name \in MadeOf(forms, root)}
<1>1. Reached(table, root) = MadeOf(forms, root)
  BY ReachedIsMadeOf
<1>2. /\ found \in Seq(AllItems(table))
      /\ \A k, l \in DOMAIN found : found[k].name = found[l].name => k = l
      /\ \A k \in DOMAIN found : \E n \in Reached(table, root) : \E i \in DOMAIN table[n] :
             found[k] = table[n][i] /\ table[n][i].head = "method"
      /\ \A n \in Reached(table, root) : \A i \in DOMAIN table[n] :
             table[n][i].head = "method" => \E k \in DOMAIN found : found[k].name = table[n][i].name
  BY DEF WalkedRight
<1>3. PlacesOf(found, "method") = DOMAIN found
  <2>1. \A k \in DOMAIN found : found[k].head = "method"
    <3> HIDE DEF table
    <3> QED
      BY <1>2
  <2> QED
    BY <2>1 DEF PlacesOf
<1>4. ms = {[name |-> found[k].name, types |-> found[k].types, nth |-> k] : k \in DOMAIN found}
  BY <1>3 DEF MethodsIn
<1>5. \A k \in DOMAIN found : k # 0
  <2>1. DOMAIN found = 1..Len(found) /\ Len(found) \in Nat
    BY <1>2
  <2> QED
    BY <2>1
<1>6. forms = {items[a] : a \in PlacesOf(items, "interface")}
  BY DEF FormsOf
<1>7. /\ \A a \in PlacesOf(items, "interface") :
             /\ items[a].name \in DOMAIN table /\ DOMAIN table[items[a].name] = DOMAIN items[a].items
             /\ \A i \in DOMAIN items[a].items : table[items[a].name][i] = WithContext(items[a].items[i])
      /\ \A n \in DOMAIN table : \E a \in PlacesOf(items, "interface") : items[a].name = n
  BY TableReads, TableNames
<1> HIDE DEF table, items, forms, ms
<1>8. ASSUME NEW k \in DOMAIN found
      PROVE  \E x \in made : \E m \in Methods(x) : m.name = found[k].name
  <2>1. PICK n \in Reached(table, root) : \E i \in DOMAIN table[n] : found[k] = table[n][i] /\ table[n][i].head = "method"
    BY <1>2
  <2>2. PICK i \in DOMAIN table[n] : found[k] = table[n][i] /\ table[n][i].head = "method"
    BY <2>1
  <2>3. PICK a \in PlacesOf(items, "interface") : items[a].name = n
    BY <1>7 DEF Reached
  <2>4. i \in DOMAIN items[a].items /\ table[n][i] = WithContext(items[a].items[i])
    BY <1>7, <2>3
  <2>5. items[a].items[i].head = "method" /\ items[a].items[i].name = found[k].name
    BY <2>2, <2>4, WithContextIs
  <2>6. items[a].items[i] \in Methods(items[a])
    BY <2>4, <2>5 DEF Methods, FormsOf, PlacesOf
  <2>7. items[a] \in made
    BY <1>1, <1>6, <2>3
  <2> QED
    BY <2>5, <2>6, <2>7
<1>9. ASSUME NEW x \in made, NEW m \in Methods(x)
      PROVE  \E k \in DOMAIN found : found[k].name = m.name
  <2>1. PICK a \in PlacesOf(items, "interface") : x = items[a]
    BY <1>6
  <2>2. PICK i \in DOMAIN x.items : m = x.items[i] /\ m.head = "method"
    BY DEF Methods, FormsOf, PlacesOf
  <2>3. i \in DOMAIN table[x.name] /\ table[x.name][i].head = "method" /\ table[x.name][i].name = m.name
    BY <1>7, <2>1, <2>2, WithContextIs
  <2>4. x.name \in Reached(table, root)
    BY <1>1
  <2> QED
    BY <1>2, <2>3, <2>4
<1>10. {m.name : m \in ms} = UNION {{m.name : m \in Methods(i)} : i \in made}
  <2>1. ASSUME NEW m \in ms PROVE \E x \in made : \E n \in Methods(x) : n.name = m.name
    <3>1. PICK k \in DOMAIN found : m = [name |-> found[k].name, types |-> found[k].types, nth |-> k]
      BY <1>4
    <3>2. m.name = found[k].name
      BY <3>1
    <3> QED
      BY <3>2, <1>8
  <2>2. ASSUME NEW x \in made, NEW n \in Methods(x) PROVE \E m \in ms : m.name = n.name
    <3>1. PICK k \in DOMAIN found : found[k].name = n.name
      BY <1>9
    <3> DEFINE m == [name |-> found[k].name, types |-> found[k].types, nth |-> k]
    <3>2. m \in ms /\ m.name = found[k].name
      BY <1>4
    <3> QED
      BY <3>1, <3>2
  <2> HIDE DEF made
  <2> QED
    BY <2>1, <2>2
<1>11. \A m, n \in ms : m.name = n.name => m = n
  BY <1>2, <1>4
<1>12. \A m \in ms : m.nth # 0
  BY <1>4, <1>5
<1> QED
  BY <1>10, <1>11, <1>12 DEF ms, forms, items, table

\* -------------------------------------------------------- what a form yields
YieldOf(n, at) == SelectItem(at, LoweredOf(project.packages[n]), LoweredPackages(project), cover, walked)

GenFile(n) ==
    LET L == LoweredOf(project.packages[n])
    IN  GoFile(L, <<0, 0, 0>>, <<L.name, "gen">>, "generated", UNION {YieldOf(n, at).decls : at \in DOMAIN L.items})

\* Select keeps what each form yields: its files and tasks, and its
\* declarations in the package's generated file; and none of them failed.
LEMMA YieldIsKept ==
    ASSUME CompileInv, Emitted, NEW n \in DOMAIN project.packages,
           NEW at \in DOMAIN LoweredOf(project.packages[n]).items
    PROVE  /\ YieldOf(n, at).files \subseteq out.files
           /\ YieldOf(n, at).tasks \subseteq out.tasks
           /\ YieldOf(n, at).errs = {}
           /\ YieldOf(n, at).decls # {} => GenFile(n) \in out.files
           /\ YieldOf(n, at).decls \subseteq GenFile(n).decls
<1> DEFINE packs == LoweredPackages(project)
           L == LoweredOf(project.packages[n])
           ys == {SelectItem(a, L, packs, cover, walked) : a \in DOMAIN L.items}
           y == YieldOf(n, at)
           pk == SelectPackage(L, packs, cover, walked)
           yields == {SelectPackage(q, packs, cover, walked) : q \in Range(packs)}
           all == Lowered(project, cover, walked)
           decls == UNION {x.decls : x \in ys}
           gen == {f \in {GoFile(L, <<0, 0, 0>>, <<L.name, "gen">>, "generated", decls)} : decls # {}}
<1>1. y \in ys
  BY DEF YieldOf
<1>2. /\ pk.files = gen \union UNION {x.files : x \in ys} /\ pk.tasks = UNION {x.tasks : x \in ys}
      /\ pk.errs = UNION {x.errs : x \in ys}
  BY DEF SelectPackage
<1>3. pk \in yields
  <2>1. L \in Range(packs)
    BY LoweredPackagesAre DEF Range
  <2> QED
    BY <2>1
<1>4. /\ all.files = UNION {x.files : x \in yields} /\ all.tasks = UNION {x.tasks : x \in yields}
      /\ all.errs = UNION ({x.errs : x \in yields}
                             \union {ImportErrors(f, Requires(project, cover), Locals(project, cover)) : f \in UNION {x.files : x \in yields}})
  BY DEF Lowered, SelectProject
<1>5. out = all /\ out.errs = {}
  BY StagedIs
<1>6. GenFile(n) = GoFile(L, <<0, 0, 0>>, <<L.name, "gen">>, "generated", decls) /\ GenFile(n).decls = decls
  <2>1. decls = UNION {YieldOf(n, a).decls : a \in DOMAIN L.items}
    BY DEF YieldOf
  <2> HIDE DEF decls, L
  <2>2. GenFile(n) = GoFile(L, <<0, 0, 0>>, <<L.name, "gen">>, "generated", decls)
    BY <2>1 DEF GenFile, L
  <2> QED
    BY <2>2, GoFileIs
<1> HIDE DEF ys, y, pk, yields, all, L
<1>7. pk.files \subseteq out.files /\ pk.tasks \subseteq out.tasks /\ pk.errs \subseteq out.errs
  BY <1>3, <1>4, <1>5
<1>8. y.decls \subseteq decls
  BY <1>1
<1> HIDE DEF decls
<1>9. y.decls # {} => GenFile(n) \in pk.files
  BY <1>2, <1>6, <1>8
<1> QED
  BY <1>1, <1>2, <1>5, <1>6, <1>7, <1>8, <1>9 DEF y

\* With distinct paths everything is staged.
LEMMA AllStaged ==
    ASSUME CompileInv, Emitted, PathsDistinct
    PROVE  staged = Files /\ out.files \subseteq staged
<1>1. Stage(Files) = Files
  BY DEF Stage, PathsDistinct
<1> QED
  BY <1>1, StagedIs DEF Files

\* There is one stub for each method.
LEMMA StubsAre ==
    ASSUME NEW impl, NEW ms
    PROVE  /\ \A d \in Stubs(impl, ms) : d.recv = impl /\ \E m \in ms : d = Method(impl, m.name, m.types, m.nth)
           /\ \A m \in ms : Method(impl, m.name, m.types, m.nth) \in Stubs(impl, ms)
  BY DeclIs DEF Stubs

\* ------------------------------------------------------------ implement forms
FoundFor(pkg, it) == walked[[pkg |-> pkg.name, iface |-> it.iface]]
FieldTypes(it) == {f.type : f \in Range(it.fields)}
ImplementCode(pkg, it) == TypeCode(it.as[1], FieldTypes(it), MethodsIn(FoundFor(pkg, it).methods))
ImplementFile(pkg, i, it) == GoFile(pkg, <<i, 1>> \o <<1>>, it.as[1], "keep", ImplementCode(pkg, it))
ImplementTasks(pkg, it) ==
    LET ms == MethodsIn(FoundFor(pkg, it).methods)
    IN  Tasks(pkg, it.as[1], it.as[1], ms,
              {GenPath(pkg)} \union ForeignGen(pkg, TypesIn(ms) \union FieldTypes(it), LoweredPackages(project)))

\* A failure has an error.
LEMMA FailedFails ==
    ASSUME NEW e, NEW y, y = Failed({e})
    PROVE  y.errs # {}
  BY YieldIs

\* What an implement form comes out as.
ImplementedAs(n, i, it, L) ==
    /\ <<i, 1>> \in DOMAIN L.items /\ L.items[<<i, 1>>] = it
    /\ it.iface \in IfaceNames(L)
    /\ WalkedRight(InterfaceTable(L), it.iface, FoundFor(L, it).methods)
    /\ YieldOf(n, <<i, 1>>) = Yield({}, {ImplementFile(L, i, it)}, ImplementTasks(L, it))

\* So comes out every implement form of a package selected without an error.
LEMMA ImplementYields ==
    ASSUME CompileInv, Emitted, NEW n \in DOMAIN project.packages, NEW i \in DOMAIN project.packages[n].items,
           NEW it, it = project.packages[n].items[i], it.head = "implement",
           NEW L, L = LoweredOf(project.packages[n])
    PROVE  ImplementedAs(n, i, it, L)
<1> DEFINE at == <<i, 1>>
           found == FoundFor(L, it)
<1>1. at \in DOMAIN L.items /\ L.items[at] = it
  <2>1. ConcretizeItem(it) = it
    BY DEF ConcretizeItem
  <2> QED
    BY <2>1, LoweredHas
<1>2. YieldOf(n, at) = SelectImplement(at, it, L, LoweredPackages(project), walked)
  BY <1>1 DEF YieldOf, SelectItem
<1>3. YieldOf(n, at).errs = {}
  BY <1>1, YieldIsKept
<1>4. it.iface \in IfaceNames(L) /\ found.ok
  <2>1. CASE it.iface \notin IfaceNames(L)
    <3>1. YieldOf(n, at) = Failed({<<"no interface", it.iface>>})
      BY <1>2, <2>1 DEF SelectImplement
    <3> QED
      BY <3>1, <1>3, FailedFails
  <2>2. CASE it.iface \in IfaceNames(L) /\ ~found.ok
    <3>1. YieldOf(n, at) = Failed({<<"embeds itself", it.iface>>})
      BY <1>2, <2>2 DEF SelectImplement, FoundFor
    <3> QED
      BY <3>1, <1>3, FailedFails
  <2> QED
    BY <2>1, <2>2
<1>5. YieldOf(n, at) = Yield({}, {ImplementFile(L, i, it)}, ImplementTasks(L, it))
  BY <1>2, <1>4 DEF SelectImplement, ImplementFile, ImplementTasks, ImplementCode, FoundFor, FieldTypes
<1>6. WalkedRight(InterfaceTable(L), it.iface, found.methods)
  <2>1. it \in FormsOf(L.items, "implement")
    BY <1>1 DEF FormsOf, PlacesOf
  <2>2. WalksRight(L, walked)
    BY EmittedIsGood DEF Good
  <2> QED
    BY <2>1, <2>2, <1>4 DEF WalksRight, FoundFor
<1> QED
  BY <1>1, <1>4, <1>5, <1>6 DEF ImplementedAs

\* The path of a file.
LEMMA PathIs ==
    ASSUME NEW pkg, NEW at, NEW stem, NEW mode, NEW decls
    PROVE  PathOf(GoFile(pkg, at, stem, mode, decls)) = <<pkg.dir, stem>>
  BY GoFileIs DEF PathOf

\* Whatever interfaces embed each other, in whatever order they are read, an
\* implement form gets exactly one stub for each method of its interface and of
\* all it is made of (implement.go interfaceMethods).
THEOREM StubsCoverTheInterface == Spec => []StubsCoverInterface
<1>1. ASSUME CompileInv, Emitted, PathsDistinct, InterfacesDistinct,
             NEW p \in Range(project.packages), NEW it \in FormsOf(p.items, "implement")
      PROVE  LET forms  == FormsOf(Expand(p).items, "interface")
                 wanted == UNION {{m.name : m \in Methods(i)}
                                  : i \in {i \in forms : i.name \in MadeOf(forms, it.iface)}}
                 file   == {f \in staged : PathOf(f) = <<DirOf(Expand(p)), it.as[1]>>}
                 stubs  == {d \in UNION {f.decls : f \in file} : d.nth # 0}
             IN  {d.name : d \in stubs} = wanted /\ \A d, e \in stubs : d.name = e.name => d = e
  <2> DEFINE forms  == FormsOf(Expand(p).items, "interface")
             wanted == UNION {{m.name : m \in Methods(i)}
                              : i \in {i \in forms : i.name \in MadeOf(forms, it.iface)}}
             file   == {f \in staged : PathOf(f) = <<DirOf(Expand(p)), it.as[1]>>}
             stubs  == {d \in UNION {f.decls : f \in file} : d.nth # 0}
  <2>1. PICK n \in DOMAIN project.packages : p = project.packages[n]
    BY DEF Range
  <2>2. PICK i \in DOMAIN p.items : it = p.items[i] /\ it.head = "implement"
    BY DEF FormsOf, PlacesOf
  <2> DEFINE L == LoweredOf(p)
             ms == MethodsIn(FoundFor(L, it).methods)
             F == ImplementFile(L, i, it)
  <2>3. /\ WalkedRight(InterfaceTable(L), it.iface, FoundFor(L, it).methods)
        /\ <<i, 1>> \in DOMAIN L.items
        /\ YieldOf(n, <<i, 1>>) = Yield({}, {F}, ImplementTasks(L, it))
    <3>1. L = LoweredOf(project.packages[n]) /\ i \in DOMAIN project.packages[n].items
          /\ it = project.packages[n].items[i] /\ it.head = "implement"
      BY <2>1, <2>2
    <3>2. ImplementedAs(n, i, it, L)
      <4> HIDE DEF L
      <4> QED
        BY <1>1, <3>1, ImplementYields
    <3> QED
      BY <3>2 DEF ImplementedAs
  <2>4. F \in staged
    <3>1. F \in YieldOf(n, <<i, 1>>).files
      BY <2>3, YieldIs
    <3>2. YieldOf(n, <<i, 1>>).files \subseteq out.files
      BY <1>1, <2>1, <2>3, YieldIsKept
    <3> QED
      BY <1>1, <3>1, <3>2, AllStaged
  <2>5. PathOf(F) = <<DirOf(Expand(p)), it.as[1]>> /\ F.decls = ImplementCode(L, it)
    BY PathIs, GoFileIs, LoweredParts DEF ImplementFile
  <2>6. file = {F}
    <3>1. \A f \in staged : PathOf(f) = PathOf(F) => f = F
      BY <1>1, <2>4, AllStaged DEF PathsDistinct
    <3> HIDE DEF F
    <3> QED
      BY <2>4, <2>5, <3>1
  <2>7. OneInterfaceEach(p)
    BY <1>1 DEF InterfacesDistinct, OneInterfaceEach
  <2>8. /\ {m.name : m \in ms} = wanted
        /\ \A m, k \in ms : m.name = k.name => m = k
        /\ \A m \in ms : m.nth # 0
    <3>1. PICK f : f = FoundFor(L, it).methods
      OBVIOUS
    <3>2. WalkedRight(InterfaceTable(LoweredOf(p)), it.iface, f)
      BY <2>3, <3>1
    <3> QED
      BY <2>7, <3>1, <3>2, FoundMethods
  <2> HIDE DEF F, ms, wanted, file
  <2>9. stubs = Stubs(it.as[1], ms)
    <3>1. stubs = {d \in ImplementCode(L, it) : d.nth # 0}
      BY <2>5, <2>6
    <3>2. \A d \in Stubs(it.as[1], ms) : d.nth # 0
      BY <2>8, StubsAre, DeclIs
    <3>3. ImplementCode(L, it) = {Decl(it.as[1], FieldTypes(it)), Decl(<<"New">> \o it.as[1], {})} \union Stubs(it.as[1], ms)
      BY DEF ImplementCode, TypeCode, ms
    <3>4. \A n_, t_ : Decl(n_, t_).nth = 0
      BY DeclIs
    <3> HIDE DEF stubs
    <3> QED
      BY <3>1, <3>2, <3>3, <3>4
  <2> HIDE DEF stubs
  <2>10. /\ \A d \in stubs : \E m \in ms : d = Method(it.as[1], m.name, m.types, m.nth) /\ d.name = m.name
         /\ \A m \in ms : \E d \in stubs : d.name = m.name
    BY <2>9, StubsAre, DeclIs
  <2>11. {d.name : d \in stubs} = {m.name : m \in ms}
    BY <2>10
  <2>12. \A d, e \in stubs : d.name = e.name => d = e
    BY <2>8, <2>10
  <2> QED
    BY <2>8, <2>11, <2>12 DEF stubs, file, wanted
<1>2. CompileInv => StubsCoverInterface
  BY <1>1 DEF StubsCoverInterface
<1> QED
  BY <1>2, SpecCompileInv, PTL

\* ------------------------------------------------------------ what tasks show
\* The types of a file's holes are of standard packages, of the package, or of
\* a package whose generated file is in the context.
HolesShown(F, L, packs, context) ==
    \A d \in F.decls : d.nth # 0 =>
        \A type \in d.types :
            \/ type.q \in Std \union {Local}
            \/ \A r \in Range(packs) : r.name # L.name /\ type.q = r.name => GenPath(r) \in context

\* A task has no file, or is about a hole of one of the files it comes with.
TaskOk(t, files, L, packs) ==
    \/ t.file = <<>>
    \/ /\ t.id[1] = L.name
       /\ GenPath(L) \in t.context
       /\ \E F \in files : PathOf(F) = t.file /\ HolesShown(F, L, packs, t.context)

TasksOk(y, L, packs) == \A t \in y.tasks : TaskOk(t, y.files, L, packs)

\* There is one task for each method.
LEMMA TasksAre ==
    ASSUME NEW pkg, NEW impl, NEW stem, NEW ms, NEW context
    PROVE  /\ \A t \in Tasks(pkg, impl, stem, ms, context) :
                  /\ t.id[1] = pkg.name /\ t.file = <<pkg.dir, stem>> /\ t.context = context
           /\ \A m \in ms : \E t \in Tasks(pkg, impl, stem, ms, context) :
                  t.id = <<pkg.name, impl, m.name>> /\ t.file = <<pkg.dir, stem>> /\ t.context = context
<1> DEFINE Task(m) == [id |-> <<pkg.name, impl, m.name>>, file |-> <<pkg.dir, stem>>, context |-> context]
<1>1. Tasks(pkg, impl, stem, ms, context) = {Task(m) : m \in ms}
  BY DEF Tasks
<1>2. \A m : /\ Task(m).id = <<pkg.name, impl, m.name>> /\ Task(m).id[1] = pkg.name
             /\ Task(m).file = <<pkg.dir, stem>> /\ Task(m).context = context
  OBVIOUS
<1> HIDE DEF Task
<1> QED
  BY <1>1, <1>2

\* What the declarations of a file must be for its holes to be shown.
HolesAmong(decls, types) == \A d \in decls : d.nth # 0 => d.types \subseteq types

\* The holes of the code of a type name the types of its methods.
LEMMA TypeCodeHoles ==
    ASSUME NEW name, NEW types, NEW ms
    PROVE  HolesAmong(TypeCode(name, types, ms), TypesIn(ms)) /\ HolesAmong(Stubs(name, ms), TypesIn(ms))
<1>1. \A d \in Stubs(name, ms) : d.types \subseteq TypesIn(ms)
  <2> SUFFICES ASSUME NEW d \in Stubs(name, ms) PROVE d.types \subseteq TypesIn(ms)
    OBVIOUS
  <2>1. PICK m \in ms : d = Method(name, m.name, m.types, m.nth)
    BY DEF Stubs
  <2>2. d.types = m.types
    BY <2>1, DeclIs
  <2> QED
    BY <2>2 DEF TypesIn
<1>2. \A n, u : Decl(n, u).nth = 0
  BY DeclIs
<1> QED
  BY <1>1, <1>2 DEF HolesAmong, TypeCode

\* The tasks of a file whose holes' types are all looked up in other packages.
LEMMA ForeignShown ==
    ASSUME NEW L, NEW packs, NEW F, NEW types, NEW named, HolesAmong(F.decls, types), types \subseteq named,
           NEW context, ForeignGen(L, named, packs) \subseteq context
    PROVE  HolesShown(F, L, packs, context)
<1> SUFFICES ASSUME NEW d \in F.decls, d.nth # 0, NEW type \in d.types,
                    NEW r \in Range(packs), r.name # L.name, type.q = r.name
             PROVE  GenPath(r) \in context
  BY DEF HolesShown
<1>1. type \in named
  BY DEF HolesAmong
<1>2. r \in {p \in Range(packs) : p.name # L.name /\ \E t \in named : t.q = p.name}
  BY <1>1
<1> QED
  BY <1>2 DEF ForeignGen

\* Those of a file whose holes name types of the package and standard ones.
LEMMA PlainShown ==
    ASSUME NEW L, NEW packs, NEW F, NEW types, HolesAmong(F.decls, types),
           \A t \in types : t.q \in Std \union {Local}, NEW context
    PROVE  HolesShown(F, L, packs, context)
  BY DEF HolesShown, HolesAmong

\* Tasks about a file whose holes are shown.
LEMMA ShownTasks ==
    ASSUME NEW L, NEW packs, NEW files, NEW F \in files, NEW impl, NEW stem, NEW ms, NEW context,
           PathOf(F) = <<L.dir, stem>>, GenPath(L) \in context, HolesShown(F, L, packs, context)
    PROVE  \A t \in Tasks(L, impl, stem, ms, context) : TaskOk(t, files, L, packs)
  BY TasksAre DEF TaskOk

\* A form without tasks.
LEMMA NoTasks ==
    ASSUME NEW y, y.tasks = {}, NEW L, NEW packs
    PROVE  TasksOk(y, L, packs)
  BY DEF TasksOk

\* The tasks of a store.
LEMMA StoreTasksOk ==
    ASSUME NEW at, NEW it, NEW L, NEW packs, NEW c, NEW tile, NEW i, NEW s
    PROVE  TasksOk(StoreCode(at, it, L, packs, c, tile, i, s), L, packs)
<1> DEFINE impl == <<tile>> \o it.iface
           ms == MethodsIn(i.items)
           named == TypesIn(ms) \union {f.type : f \in Fields(s)}
           code == TypeCode(impl, StoreTypes(tile, it.for, L), ms)
           F == GoFile(L, at \o <<1>>, impl, "keep", code)
           context == {GenPath(L)} \union ForeignGen(L, named, packs) \union SqlContext(tile)
           y == StoreCode(at, it, L, packs, c, tile, i, s)
<1>1. y.files = {F} /\ y.tasks = Tasks(L, impl, impl, ms, context)
  BY DEF StoreCode
<1>2. HolesAmong(code, TypesIn(ms))
  BY TypeCodeHoles
<1> HIDE DEF code, impl, ms
<1>3. F.decls = code /\ PathOf(F) = <<L.dir, impl>>
  BY GoFileIs, PathIs
<1> HIDE DEF F
<1>4. HolesShown(F, L, packs, context)
  <2>1. TypesIn(ms) \subseteq named /\ ForeignGen(L, named, packs) \subseteq context
    OBVIOUS
  <2> HIDE DEF named, context
  <2> QED
    BY <1>2, <1>3, <2>1, ForeignShown
<1>5. GenPath(L) \in context
  OBVIOUS
<1> HIDE DEF context, y
<1>6. \A t \in y.tasks : TaskOk(t, y.files, L, packs)
  BY <1>1, <1>3, <1>4, <1>5, ShownTasks
<1>7. TasksOk(y, L, packs)
  BY <1>6 DEF TasksOk
<1> QED
  BY <1>7 DEF y

\* The tasks of an impl form.
LEMMA ImplTasksOk ==
    ASSUME NEW at, NEW it, NEW L, NEW packs, NEW c
    PROVE  TasksOk(SelectImpl(at, it, L, packs, c), L, packs)
<1>1. \/ \E e : SelectImpl(at, it, L, packs, c) = Failed(e)
      \/ \E tile, i, s : SelectImpl(at, it, L, packs, c) = StoreCode(at, it, L, packs, c, tile, i, s)
  BY DEF SelectImpl
<1> QED
  BY <1>1, YieldIs, NoTasks, StoreTasksOk

\* The tasks of an implement form.
LEMMA ImplementTasksOk ==
    ASSUME NEW at, NEW it, NEW L, NEW packs, NEW w
    PROVE  TasksOk(SelectImplement(at, it, L, packs, w), L, packs)
<1> DEFINE impl == it.as[1]
           found == w[[pkg |-> L.name, iface |-> it.iface]]
           ms == MethodsIn(found.methods)
           fields == {f.type : f \in Range(it.fields)}
           named == TypesIn(ms) \union fields
           code == TypeCode(impl, fields, ms)
           F == GoFile(L, at \o <<1>>, impl, "keep", code)
           context == {GenPath(L)} \union ForeignGen(L, named, packs)
           y == SelectImplement(at, it, L, packs, w)
<1>1. (\E e : y = Failed(e)) \/ y = Yield({}, {F}, Tasks(L, impl, impl, ms, context))
  BY DEF SelectImplement
<1>2. HolesAmong(code, TypesIn(ms))
  BY TypeCodeHoles
<1>3. TypesIn(ms) \subseteq named
  OBVIOUS
<1> HIDE DEF code, impl, ms, named
<1>4. F.decls = code /\ PathOf(F) = <<L.dir, impl>>
  BY GoFileIs, PathIs
<1> HIDE DEF F
<1>5. HolesShown(F, L, packs, context)
  <2>1. ForeignGen(L, named, packs) \subseteq context
    OBVIOUS
  <2> HIDE DEF context
  <2> QED
    BY <1>2, <1>3, <1>4, <2>1, ForeignShown
<1>6. GenPath(L) \in context
  OBVIOUS
<1> HIDE DEF context, y
<1>7. TasksOk(y, L, packs)
  <2>1. CASE \E e : y = Failed(e)
    BY <2>1, YieldIs, NoTasks
  <2>2. CASE y = Yield({}, {F}, Tasks(L, impl, impl, ms, context))
    <3>1. y.files = {F} /\ y.tasks = Tasks(L, impl, impl, ms, context)
      BY <2>2, YieldIs
    <3> QED
      BY <3>1, <1>4, <1>5, <1>6, ShownTasks DEF TasksOk
  <2> QED
    BY <1>1, <2>1, <2>2
<1> QED
  BY <1>7 DEF y

\* The tasks of an http form.
LEMMA HTTPTasksOk ==
    ASSUME NEW at, NEW it, NEW L, NEW packs
    PROVE  TasksOk(SelectHTTP(at, it, L), L, packs)
<1> DEFINE served == {r.entity : r \in Range(it.items)}
           holes == HandlerHoles(served)
           stubs == Stubs(<<"Handler">>, holes)
           F == GoFile(L, at \o <<2>>, <<"http">>, "keep", stubs)
           files == {GoFile(L, at \o <<1>>, <<"http", "gen">>, "generated", HandlerCode(it, L, served)), F}
           context == {GenPath(L), <<L.dir, <<"http", "gen">>>>}
           y == SelectHTTP(at, it, L)
<1>1. (\E e : y = Failed(e)) \/ y = Yield({}, files, Tasks(L, <<"Handler">>, <<"http">>, holes, context))
  BY DEF SelectHTTP
<1>2. HolesAmong(stubs, TypesIn(holes))
  BY TypeCodeHoles
<1>3. \A t \in TypesIn(holes) : t.q \in Std \union {Local}
  <2> SUFFICES ASSUME NEW m \in holes, NEW t \in m.types PROVE t.q = Local
    BY DEF TypesIn
  <2>1. \E e : t = Here(e)
    BY DEF HandlerHoles
  <2> QED
    BY <2>1 DEF Here, TypeNamed
<1> HIDE DEF stubs, holes, served
<1>4. F.decls = stubs /\ PathOf(F) = <<L.dir, <<"http">>>>
  BY GoFileIs, PathIs
<1>5. F \in files /\ GenPath(L) \in context
  OBVIOUS
<1> HIDE DEF F, files, context, y
<1>6. HolesShown(F, L, packs, context)
  BY <1>2, <1>3, <1>4, PlainShown
<1>7. TasksOk(y, L, packs)
  <2>1. CASE \E e : y = Failed(e)
    BY <2>1, YieldIs, NoTasks
  <2>2. CASE y = Yield({}, files, Tasks(L, <<"Handler">>, <<"http">>, holes, context))
    <3>1. y.files = files /\ y.tasks = Tasks(L, <<"Handler">>, <<"http">>, holes, context)
      BY <2>2, YieldIs
    <3> QED
      BY <3>1, <1>4, <1>5, <1>6, ShownTasks DEF TasksOk
  <2> QED
    BY <1>1, <2>1, <2>2
<1> QED
  BY <1>7 DEF y

\* The tasks of what a chosen tile writes.
LEMMA SharedTasksOk ==
    ASSUME NEW at, NEW L, NEW packs, NEW stem, NEW shared, NEW tile, NEW impl, NEW ms, NEW context,
           GenPath(L) \in context, \A t \in TypesIn(ms) : t.q \in Std \union {Local}
    PROVE  TasksOk(SharedAndOwn(at, L, stem, shared, tile, impl, ms, context), L, packs)
<1> DEFINE own == TypeCode(impl, Catalog[tile].types, ms)
           F == GoFile(L, at \o <<2>>, impl, "keep", own)
           files == {GoFile(L, at \o <<1>>, stem, "generated", shared), F}
           y == SharedAndOwn(at, L, stem, shared, tile, impl, ms, context)
<1>1. (\E f : y = Yield({}, f, {})) \/ y = Yield({}, files, Tasks(L, impl, impl, ms, context))
  BY DEF SharedAndOwn
<1>2. HolesAmong(own, TypesIn(ms))
  BY TypeCodeHoles
<1> HIDE DEF own
<1>3. F.decls = own /\ PathOf(F) = <<L.dir, impl>>
  BY GoFileIs, PathIs
<1>4. F \in files
  OBVIOUS
<1> HIDE DEF F, files, y
<1>5. HolesShown(F, L, packs, context)
  BY <1>2, <1>3, PlainShown
<1>6. TasksOk(y, L, packs)
  <2>1. CASE \E f : y = Yield({}, f, {})
    BY <2>1, YieldIs, NoTasks
  <2>2. CASE y = Yield({}, files, Tasks(L, impl, impl, ms, context))
    <3>1. y.files = files /\ y.tasks = Tasks(L, impl, impl, ms, context)
      BY <2>2, YieldIs
    <3> QED
      BY <3>1, <1>3, <1>4, <1>5, ShownTasks DEF TasksOk
  <2> QED
    BY <1>1, <2>1, <2>2
<1> QED
  BY <1>6 DEF y

\* The types tilegen itself writes.
LEMMA StandardTypes ==
    /\ ContextType.q \in Std /\ RequestType.q \in Std
    /\ \A n : Here(n).q = Local
  BY StdAssumption DEF ContextType, RequestType, Here, TypeNamed

\* The tasks of an events form.
LEMMA EventsTasksOk ==
    ASSUME NEW at, NEW it, NEW L, NEW packs, NEW c
    PROVE  TasksOk(SelectEvents(at, it, L, c), L, packs)
<1>1. ASSUME NEW m \in BusMethods(it), NEW t \in m.types PROVE t.q \in Std \union {Local}
  <2>1. PICK i \in DOMAIN it.items, how \in {"Publish", "On"} :
            m = [name |-> <<how>> \o it.items[i].name, types |-> {Here(it.items[i].name), ContextType}, nth |-> i]
    BY DEF BusMethods
  <2>2. t \in {Here(it.items[i].name), ContextType}
    BY <2>1
  <2> QED
    BY <2>2, StandardTypes
<1>2. \A t \in TypesIn(BusMethods(it)) : t.q \in Std \union {Local}
  BY <1>1 DEF TypesIn
<1> DEFINE tile == c[<<L.name, <<"Bus">>>>]
<1>3. SelectEvents(at, it, L, c)
        = SharedAndOwn(at, L, <<"events", "gen">>, BusDecls(it), tile, <<tile, "Bus">>, BusMethods(it), {GenPath(L)})
  BY DEF SelectEvents
<1> HIDE DEF tile
<1> QED
  BY <1>2, <1>3, SharedTasksOk

\* The tasks of an auth form.
LEMMA AuthTasksOk ==
    ASSUME NEW at, NEW L, NEW packs, NEW c
    PROVE  TasksOk(SelectAuth(at, L, c), L, packs)
<1>1. TypesIn(AuthMethods) = {ContextType, RequestType, Here(<<"Principal">>)}
  BY DEF TypesIn, AuthMethods
<1>2. \A t \in TypesIn(AuthMethods) : t.q \in Std \union {Local}
  BY <1>1, StandardTypes
<1> DEFINE tile == c[<<L.name, <<"Auth">>>>]
           context == {GenPath(L), <<L.dir, <<"auth", "gen">>>>}
<1>3. SelectAuth(at, L, c)
        = SharedAndOwn(at, L, <<"auth", "gen">>, AuthDecls, tile, <<tile, "Authenticator">>, AuthMethods, context)
  BY DEF SelectAuth
<1>4. GenPath(L) \in context
  OBVIOUS
<1> HIDE DEF tile, context
<1> QED
  BY <1>2, <1>3, <1>4, SharedTasksOk

\* A task without a file.
LEMMA OpenTaskIs ==
    ASSUME NEW L, NEW at, NEW context
    PROVE  /\ OpenTask(L, at, context).tasks = {[id |-> <<L.name, <<"llm">>, at>>, file |-> <<>>, context |-> context]}
           /\ OpenTask(L, at, context).files = {} /\ OpenTask(L, at, context).decls = {}
  BY DEF OpenTask, Yield

\* The tasks of any form.
LEMMA ItemTasksOk ==
    ASSUME NEW at, NEW L, NEW packs, NEW c, NEW w
    PROVE  TasksOk(SelectItem(at, L, packs, c, w), L, packs)
<1> DEFINE it == L.items[at]
           y == SelectItem(at, L, packs, c, w)
<1>1. CASE it.head \in {"struct", "interface", "enum", "doc"}
  <2>1. \E decls : y = Yield(decls, {}, {})
    BY <1>1 DEF SelectItem, SelectEnum
  <2> QED
    BY <2>1, YieldIs, NoTasks
<1>2. CASE it.head = "impl"
  <2>1. y = SelectImpl(at, it, L, packs, c)
    BY <1>2 DEF SelectItem
  <2> QED
    BY <2>1, ImplTasksOk
<1>3. CASE it.head = "implement"
  <2>1. y = SelectImplement(at, it, L, packs, w)
    BY <1>3 DEF SelectItem
  <2> QED
    BY <2>1, ImplementTasksOk
<1>4. CASE it.head = "http"
  <2>1. y = SelectHTTP(at, it, L)
    BY <1>4 DEF SelectItem
  <2> QED
    BY <2>1, HTTPTasksOk
<1>5. CASE it.head = "events"
  <2>1. y = SelectEvents(at, it, L, c)
    BY <1>5 DEF SelectItem
  <2> QED
    BY <2>1, EventsTasksOk
<1>6. CASE it.head = "auth"
  <2>1. y = SelectAuth(at, L, c)
    BY <1>6 DEF SelectItem
  <2> QED
    BY <2>1, AuthTasksOk
<1>7. CASE it.head \notin {"struct", "interface", "enum", "doc", "impl", "implement", "http", "events", "auth"}
  <2>1. \E context : y = OpenTask(L, at, context)
    BY <1>7 DEF SelectItem
  <2> HIDE DEF y
  <2>2. \A t \in y.tasks : t.file = <<>>
    BY <2>1, OpenTaskIs
  <2>3. TasksOk(y, L, packs)
    BY <2>2 DEF TasksOk, TaskOk
  <2> QED
    BY <2>3 DEF y
<1> QED
  BY <1>1, <1>2, <1>3, <1>4, <1>5, <1>6, <1>7

\* Every task is of some form.
LEMMA TaskIsOf ==
    ASSUME CompileInv, Emitted, NEW t \in out.tasks
    PROVE  \E n \in DOMAIN project.packages : \E at \in DOMAIN LoweredOf(project.packages[n]).items :
               t \in YieldOf(n, at).tasks
<1> DEFINE packs == LoweredPackages(project)
           yields == {SelectPackage(q, packs, cover, walked) : q \in Range(packs)}
<1>1. Lowered(project, cover, walked).tasks = UNION {y.tasks : y \in yields}
  BY DEF Lowered, SelectProject
<1>2. PICK q \in Range(packs) : t \in SelectPackage(q, packs, cover, walked).tasks
  BY <1>1, StagedIs
<1>3. PICK n \in DOMAIN project.packages : q = LoweredOf(project.packages[n])
  BY LoweredPackagesAre DEF Range
<1>4. SelectPackage(q, packs, cover, walked).tasks = UNION {SelectItem(at, q, packs, cover, walked).tasks : at \in DOMAIN q.items}
  BY DEF SelectPackage
<1>5. PICK at \in DOMAIN q.items : t \in SelectItem(at, q, packs, cover, walked).tasks
  BY <1>2, <1>4
<1>6. t \in YieldOf(n, at).tasks
  BY <1>3, <1>5 DEF YieldOf
<1> QED
  BY <1>3, <1>5, <1>6

\* A struct, an entity, an interface and an enum are declared in the generated
\* file of their package.
LEMMA FormIsDeclared ==
    ASSUME CompileInv, Emitted, PathsDistinct, NEW n \in DOMAIN project.packages,
           NEW it \in Range(project.packages[n].items), it.head \in {"struct", "entity", "interface", "enum"}
    PROVE  /\ GenFile(n) \in staged
           /\ Declares(GenFile(n), it.name, <<>>)
<1> DEFINE p == project.packages[n]
           L == LoweredOf(p)
<1>1. PICK i \in DOMAIN p.items : it = p.items[i]
  BY DEF Range
<1> DEFINE at == <<i, 1>>
           y == YieldOf(n, at)
<1>2. at \in DOMAIN L.items /\ \E types : Decl(it.name, types) \in y.decls
  <2>1. CASE it.head = "struct"
    <3>1. ConcretizeItem(it) = it
      BY <2>1 DEF ConcretizeItem
    <3>2. at \in DOMAIN L.items /\ L.items[at] = it
      BY <1>1, <2>1, <3>1, LoweredHas
    <3>3. y = Yield({Decl(it.name, TypesOf(it))}, {}, {})
      BY <2>1, <3>2 DEF YieldOf, SelectItem
    <3> QED
      BY <3>2, <3>3, YieldIs
  <2>2. CASE it.head = "entity"
    <3>1. StructForm(it).head = "struct" /\ StructForm(it).name = it.name
      BY DEF StructForm
    <3>2. at \in DOMAIN L.items /\ L.items[at] = StructForm(it)
      BY <1>1, <2>2, LoweredHas
    <3>3. y = Yield({Decl(it.name, TypesOf(StructForm(it)))}, {}, {})
      BY <3>1, <3>2 DEF YieldOf, SelectItem
    <3> QED
      BY <3>2, <3>3, YieldIs
  <2>3. CASE it.head = "interface"
    <3> DEFINE x == ConcretizeItem(it)
    <3>1. x.head = "interface" /\ x.name = it.name
      BY <2>3, ConcretizedInterface
    <3>2. at \in DOMAIN L.items /\ L.items[at] = x
      BY <1>1, <2>3, LoweredHas
    <3> HIDE DEF x
    <3>3. y = Yield({Decl(it.name, TypesOf(x))}, {}, {})
      BY <3>1, <3>2 DEF YieldOf, SelectItem
    <3> QED
      BY <3>2, <3>3, YieldIs
  <2>4. CASE it.head = "enum"
    <3>1. ConcretizeItem(it) = it
      BY <2>4 DEF ConcretizeItem
    <3>2. at \in DOMAIN L.items /\ L.items[at] = it
      BY <1>1, <2>4, <3>1, LoweredHas
    <3>3. y = SelectEnum(it)
      BY <2>4, <3>2 DEF YieldOf, SelectItem
    <3>4. Decl(it.name, {}) \in SelectEnum(it).decls
      BY YieldIs DEF SelectEnum
    <3> QED
      BY <3>2, <3>3, <3>4
  <2> QED
    BY <2>1, <2>2, <2>3, <2>4
<1>3. /\ y.decls # {} => GenFile(n) \in out.files
      /\ y.decls \subseteq GenFile(n).decls
  BY <1>2, YieldIsKept
<1>4. out.files \subseteq staged
  BY AllStaged
<1> HIDE DEF y
<1>5. PICK types : Decl(it.name, types) \in GenFile(n).decls /\ GenFile(n) \in staged
  BY <1>2, <1>3, <1>4
<1>6. Decl(it.name, types).name = it.name /\ Decl(it.name, types).recv = <<>>
  BY DeclIs
<1> QED
  BY <1>5, <1>6 DEF Declares

\* The package and the path of the generated file.
LEMMA GenFileIs ==
    ASSUME NEW n \in DOMAIN project.packages
    PROVE  /\ GenFile(n).pkg = project.packages[n].name
           /\ PathOf(GenFile(n)) = GenPath(LoweredOf(project.packages[n]))
<1> DEFINE L == LoweredOf(project.packages[n])
<1>1. L.name = project.packages[n].name
  BY LoweredParts
<1>2. \E decls : GenFile(n) = GoFile(L, <<0, 0, 0>>, <<L.name, "gen">>, "generated", decls)
  BY DEF GenFile
<1> HIDE DEF L
<1>3. GenFile(n).pkg = L.name /\ PathOf(GenFile(n)) = <<L.dir, <<L.name, "gen">>>>
  BY <1>2, GoFileIs, PathIs
<1> QED
  BY <1>1, <1>3 DEF GenPath, L

\* The prompt of every hole shows the declaration of each type its method names
\* that a struct, entity, interface or enum form of the project declares, in
\* whichever package (foreignGenFiles, pass_select.go, and the contexts of the
\* tiles), where no two files have one path and no package a standard name.  Not
\* so the types of events.
THEOREM HolesSeeTheirTypes == Spec => []HolesSeeTypes
<1>1. ASSUME CompileInv, Emitted, PathsDistinct, ProjectNames \intersect Std = {},
             NEW t \in out.tasks, NEW f \in staged, PathOf(f) = t.file, NEW d \in f.decls, d.nth # 0,
             NEW type \in d.types, NEW p \in Range(project.packages),
             NamesTypeOf(type, t.id[1], p), DeclaredByForm(p, type.name)
      PROVE  Shown(t, p, type.name)
  <2>1. PICK n \in DOMAIN project.packages : \E at \in DOMAIN LoweredOf(project.packages[n]).items :
               t \in YieldOf(n, at).tasks
    BY <1>1, TaskIsOf
  <2>2. PICK at \in DOMAIN LoweredOf(project.packages[n]).items : t \in YieldOf(n, at).tasks
    BY <2>1
  <2> DEFINE L == LoweredOf(project.packages[n])
             packs == LoweredPackages(project)
  <2>3. TaskOk(t, YieldOf(n, at).files, L, packs)
    BY <2>2, ItemTasksOk DEF TasksOk, YieldOf
  <2>4. t.file # <<>>
    <3>1. PathOf(f) = <<f.dir, f.stem>>
      BY DEF PathOf
    <3> QED
      BY <1>1, <3>1
  <2>5. PICK F \in YieldOf(n, at).files : PathOf(F) = t.file /\ HolesShown(F, L, packs, t.context)
    BY <2>3, <2>4 DEF TaskOk
  <2>6. t.id[1] = L.name /\ GenPath(L) \in t.context
    BY <2>3, <2>4 DEF TaskOk
  <2>7. F = f
    <3>1. F \in out.files
      BY <1>1, <2>2, YieldIsKept
    <3>2. F \in Files /\ f \in Files
      BY <1>1, <3>1, AllStaged
    <3> QED
      BY <1>1, <2>5, <3>2 DEF PathsDistinct
  <2>8. PICK m \in DOMAIN project.packages : p = project.packages[m]
    BY <1>1 DEF Range
  <2>9. L.name = n /\ p.name = m /\ LoweredOf(p).name = m
    BY <1>1, <2>8, LoweredParts DEF CompileInv, ProjectInv
  <2>10. GenPath(LoweredOf(p)) \in t.context
    <3>1. CASE m = n
      BY <3>1, <2>6, <2>8
    <3>2. CASE m # n
      <4>1. type.q = p.name /\ type.q # Local
        BY <1>1, <3>2, <2>6, <2>9 DEF NamesTypeOf
      <4>2. p.name \in ProjectNames
        BY <1>1 DEF ProjectNames
      <4>3. type.q \notin Std \union {Local}
        BY <1>1, <4>1, <4>2
      <4>4. LoweredOf(p) \in Range(packs)
        BY <2>8, LoweredPackagesAre DEF Range
      <4> HIDE DEF L, packs
      <4>5. \A r \in Range(packs) : r.name # L.name /\ type.q = r.name => GenPath(r) \in t.context
        BY <1>1, <2>5, <2>7, <4>3 DEF HolesShown
      <4> QED
        BY <4>1, <4>4, <4>5, <2>9, <3>2
    <3> QED
      BY <3>1, <3>2
  <2>11. PICK it \in Range(p.items) : it.head \in {"struct", "entity", "interface", "enum"} /\ it.name = type.name
    BY <1>1 DEF DeclaredByForm
  <2>12. GenFile(m) \in staged /\ Declares(GenFile(m), type.name, <<>>)
    BY <1>1, <2>8, <2>11, FormIsDeclared
  <2>13. GenFile(m).pkg = p.name /\ PathOf(GenFile(m)) = GenPath(LoweredOf(p))
    BY <2>8, GenFileIs
  <2> QED
    BY <2>10, <2>12, <2>13 DEF Shown
<1>2. CompileInv => HolesSeeTypes
  <2> SUFFICES ASSUME CompileInv, Emitted, PathsDistinct, ProjectNames \intersect Std = {}, NEW t \in out.tasks
               PROVE  LET Holds(type) == \A p \in Range(project.packages) :
                             NamesTypeOf(type, t.id[1], p) /\ DeclaredByForm(p, type.name) => Shown(t, p, type.name)
                      IN  HoleTypes(t, Holds)
    BY DEF HolesSeeTypes
  <2> QED
    BY <1>1 DEF HoleTypes
<1> QED
  BY <1>2, SpecCompileInv, PTL

\* ------------------------------------------------ what each form comes out as
LEMMA StagedDeclares ==
    ASSUME CompileInv, Emitted, PathsDistinct, NEW n \in DOMAIN project.packages,
           NEW at \in DOMAIN LoweredOf(project.packages[n]).items, NEW F \in YieldOf(n, at).files,
           F.pkg = project.packages[n].name, NEW name, NEW recv, Declares(F, name, recv)
    PROVE  F \in staged /\ DeclaredIn(project.packages[n].name, name, recv)
<1>1. F \in staged
  BY YieldIsKept, AllStaged
<1> QED
  BY <1>1 DEF DeclaredIn

\* A task of a form, about a stub of a staged file.
LEMMA TaskAsked ==
    ASSUME CompileInv, Emitted, NEW n \in DOMAIN project.packages,
           NEW at \in DOMAIN LoweredOf(project.packages[n]).items, NEW t \in YieldOf(n, at).tasks,
           NEW F \in staged, PathOf(F) = t.file, NEW impl, NEW name,
           t.id = <<project.packages[n].name, impl, name>>, Declares(F, name, impl)
    PROVE  Asked(project.packages[n].name, impl, name)
<1>1. t \in out.tasks
  BY YieldIsKept
<1> QED
  BY <1>1 DEF Asked

\* The stub of a method is in the code of a type, and in a file of stubs.
LEMMA StubDeclared ==
    ASSUME NEW F, NEW name, NEW types, NEW ms, NEW m \in ms,
           F.decls = TypeCode(name, types, ms) \/ F.decls = Stubs(name, ms)
    PROVE  Declares(F, m.name, name)
<1> DEFINE d == Method(name, m.name, m.types, m.nth)
<1>1. d \in Stubs(name, ms)
  BY StubsAre
<1>2. d.name = m.name /\ d.recv = name
  BY DeclIs
<1> HIDE DEF d
<1>3. d \in F.decls
  BY <1>1 DEF TypeCode
<1> QED
  BY <1>2, <1>3 DEF Declares

\* The item of a lowered package that a form of the spec stays.
LEMMA StaysAsItIs ==
    ASSUME NEW n, NEW i \in DOMAIN project.packages[n].items, NEW it, it = project.packages[n].items[i],
           it.head \notin {"entity", "interface", "dir"}
    PROVE  LET L == LoweredOf(project.packages[n])
           IN  <<i, 1>> \in DOMAIN L.items /\ L.items[<<i, 1>>] = it
<1>1. ConcretizeItem(it) = it
  BY DEF ConcretizeItem
<1> QED
  BY <1>1, LoweredHas

\* An enum comes out as a type and a constant for each value.
LEMMA EnumKept ==
    ASSUME CompileInv, Emitted, PathsDistinct, NEW n \in DOMAIN project.packages,
           NEW it \in Range(project.packages[n].items), it.head = "enum"
    PROVE  ItemKept(it, project.packages[n])
<1> DEFINE p == project.packages[n]
<1>1. PICK i \in DOMAIN p.items : it = p.items[i]
  BY DEF Range
<1> DEFINE at == <<i, 1>>
           L == LoweredOf(p)
<1>2. at \in DOMAIN L.items /\ L.items[at] = it
  BY <1>1, StaysAsItIs
<1>3. YieldOf(n, at) = SelectEnum(it)
  BY <1>2 DEF YieldOf, SelectItem
<1>4. {Decl(it.name, {})} \union {Decl(it.name \o v, {}) : v \in Range(it.values)} \subseteq YieldOf(n, at).decls
  BY <1>3, YieldIs DEF SelectEnum
<1>5. YieldOf(n, at).decls \subseteq GenFile(n).decls
  BY <1>2, YieldIsKept
<1>6. \A name : Decl(name, {}).name = name /\ Decl(name, {}).recv = <<>>
  BY DeclIs
<1>7. GenFile(n) \in staged /\ GenFile(n).pkg = p.name /\ Declares(GenFile(n), it.name, <<>>)
  BY FormIsDeclared, GenFileIs
<1>8. ASSUME NEW v \in Range(it.values) PROVE Declares(GenFile(n), it.name \o v, <<>>)
  <2>1. Decl(it.name \o v, {}) \in GenFile(n).decls
    <3>1. Decl(it.name \o v, {}) \in YieldOf(n, at).decls
      BY <1>4
    <3> HIDE DEF p, at
    <3> QED
      BY <3>1, <1>5
  <2>2. PICK d \in GenFile(n).decls : d = Decl(it.name \o v, {})
    BY <2>1
  <2>3. d.name = it.name \o v /\ d.recv = <<>>
    BY <2>2, <1>6
  <2> QED
    BY <2>3 DEF Declares
<1> HIDE DEF p
<1>9. ItemKept(it, p)
  BY <1>7, <1>8 DEF ItemKept, DeclaredIn
<1> QED
  BY <1>9 DEF p

\* A struct and an interface as a type.
LEMMA PlainKept ==
    ASSUME CompileInv, Emitted, PathsDistinct, NEW n \in DOMAIN project.packages,
           NEW it \in Range(project.packages[n].items), it.head \in {"struct", "interface"}
    PROVE  ItemKept(it, project.packages[n])
<1>1. /\ GenFile(n) \in staged /\ GenFile(n).pkg = project.packages[n].name
      /\ Declares(GenFile(n), it.name, <<>>)
  BY FormIsDeclared, GenFileIs
<1> QED
  BY <1>1 DEF ItemKept, DeclaredIn

\* An implement form as a type.
LEMMA ImplementKept ==
    ASSUME CompileInv, Emitted, PathsDistinct, NEW n \in DOMAIN project.packages,
           NEW it \in Range(project.packages[n].items), it.head = "implement"
    PROVE  ItemKept(it, project.packages[n])
<1> DEFINE p == project.packages[n]
           L == LoweredOf(p)
<1>1. PICK i \in DOMAIN p.items : it = p.items[i]
  BY DEF Range
<1> DEFINE F == ImplementFile(L, i, it)
<1>2. <<i, 1>> \in DOMAIN L.items /\ YieldOf(n, <<i, 1>>) = Yield({}, {F}, ImplementTasks(L, it))
  <2>1. ImplementedAs(n, i, it, L)
    BY <1>1, ImplementYields
  <2> QED
    BY <2>1 DEF ImplementedAs
<1>3. F \in YieldOf(n, <<i, 1>>).files
  BY <1>2, YieldIs
<1>4. F.pkg = p.name /\ F.decls = ImplementCode(L, it)
  BY GoFileIs, LoweredParts DEF ImplementFile
<1>5. Declares(F, it.as[1], <<>>)
  <2>1. Decl(it.as[1], FieldTypes(it)) \in F.decls
    BY <1>4 DEF ImplementCode, TypeCode
  <2> HIDE DEF F
  <2> QED
    BY <2>1, DeclIs DEF Declares
<1> HIDE DEF F
<1>6. DeclaredIn(p.name, it.as[1], <<>>)
  BY <1>2, <1>3, <1>4, <1>5, StagedDeclares
<1> QED
  BY <1>6 DEF ItemKept

\* A route as a handler, and a task to validate its entity.
LEMMA HTTPKept ==
    ASSUME CompileInv, Emitted, PathsDistinct, NEW n \in DOMAIN project.packages,
           NEW it \in Range(project.packages[n].items), it.head = "http"
    PROVE  ItemKept(it, project.packages[n])
<1> DEFINE p == project.packages[n]
           L == LoweredOf(p)
           served == {r.entity : r \in Range(it.items)}
           holes == HandlerHoles(served)
           code == HandlerCode(it, L, served)
           stubs == Stubs(<<"Handler">>, holes)
<1>1. PICK i \in DOMAIN p.items : it = p.items[i]
  BY DEF Range
<1> DEFINE at == <<i, 1>>
           F == GoFile(L, at \o <<1>>, <<"http", "gen">>, "generated", code)
           G == GoFile(L, at \o <<2>>, <<"http">>, "keep", stubs)
           tasks == Tasks(L, <<"Handler">>, <<"http">>, holes, {GenPath(L), <<L.dir, <<"http", "gen">>>>})
           y == YieldOf(n, at)
<1>2. at \in DOMAIN L.items /\ L.items[at] = it
  BY <1>1, StaysAsItIs
<1>3. y = SelectHTTP(at, it, L)
  BY <1>2 DEF YieldOf, SelectItem
<1>4. y.errs = {}
  BY <1>2, YieldIsKept
<1>5. y = Yield({}, {F, G}, tasks)
  <2> DEFINE orphan == {e \in served : e \o <<"Store">> \notin IfaceNames(L)}
  <2>1. CASE orphan # {}
    <3> DEFINE es == {<<"no store", e>> : e \in orphan}
    <3>0. es # {}
      BY <2>1
    <3>1. y = Failed(es)
      BY <1>3, <2>1 DEF SelectHTTP
    <3> HIDE DEF es
    <3> HIDE DEF y
    <3>2. FALSE
      BY <1>4, <3>0, <3>1, YieldIs
    <3> QED
      BY <3>2
  <2>2. CASE orphan = {}
    BY <1>3, <2>2 DEF SelectHTTP
  <2> QED
    BY <2>1, <2>2
<1>6. /\ F.pkg = p.name /\ F.decls = code
      /\ G.pkg = p.name /\ G.decls = stubs /\ PathOf(G) = <<L.dir, <<"http">>>>
  BY GoFileIs, PathIs, LoweredParts
<1>7. \A r \in Range(it.items) : \E i_ \in DOMAIN it.items : r = it.items[i_]
  BY DEF Range
<1>8. \A r \in Range(it.items) : \E types, k : Method(<<"Handler">>, HandlerName(r), types, k) \in code
  BY <1>7 DEF HandlerCode
<1>9. \A r \in Range(it.items) : \E m \in holes : m.name = <<"validate">> \o r.entity
  <2> SUFFICES ASSUME NEW r \in Range(it.items) PROVE \E m \in holes : m.name = <<"validate">> \o r.entity
    OBVIOUS
  <2> DEFINE m == [name |-> <<"validate">> \o r.entity, types |-> {Here(r.entity)}, nth |-> 1]
  <2>1. m \in holes /\ m.name = <<"validate">> \o r.entity
    BY DEF HandlerHoles
  <2> QED
    BY <2>1
<1>10. /\ \A t \in tasks : t.file = <<L.dir, <<"http">>>>
       /\ \A m \in holes : \E t \in tasks : t.id = <<p.name, <<"Handler">>, m.name>>
  <2> DEFINE context == {GenPath(L), <<L.dir, <<"http", "gen">>>>}
  <2>1. L.name = p.name
    BY LoweredParts
  <2>2. tasks = Tasks(L, <<"Handler">>, <<"http">>, holes, context)
    OBVIOUS
  <2> DEFINE h == <<"Handler">>
             stem == <<"http">>
  <2>3. tasks = Tasks(L, h, stem, holes, context)
    OBVIOUS
  <2> HIDE DEF holes, L, p, context, tasks, h, stem
  <2>4. ASSUME NEW t \in tasks PROVE t.file = <<L.dir, stem>>
    <3>1. t \in Tasks(L, h, stem, holes, context)
      BY <2>3
    <3> QED
      BY <3>1, TasksAre
  <2>5. ASSUME NEW m \in holes PROVE \E t \in tasks : t.id = <<L.name, h, m.name>>
    <3>1. \E t \in Tasks(L, h, stem, holes, context) :
              t.id = <<L.name, h, m.name>> /\ t.file = <<L.dir, stem>> /\ t.context = context
      BY TasksAre
    <3> QED
      BY <3>1, <2>3
  <2> QED
    BY <2>1, <2>4, <2>5 DEF h, stem
<1> HIDE DEF F, G, y, code, holes, tasks
<1>11. y.files = {F, G} /\ y.tasks = tasks
  BY <1>5, YieldIs
<1>12. ASSUME NEW r \in Range(it.items) PROVE DeclaredIn(p.name, HandlerName(r), <<"Handler">>)
  <2>1. PICK types, k : Method(<<"Handler">>, HandlerName(r), types, k) \in F.decls
    BY <1>6, <1>8
  <2>2. Declares(F, HandlerName(r), <<"Handler">>)
    BY <2>1, DeclIs DEF Declares
  <2> QED
    BY <1>2, <1>6, <1>11, <2>2, StagedDeclares DEF y
<1>13. ASSUME NEW r \in Range(it.items) PROVE Asked(p.name, <<"Handler">>, <<"validate">> \o r.entity)
  <2>1. PICK m \in holes : m.name = <<"validate">> \o r.entity
    BY <1>9
  <2>2. PICK t \in tasks : t.id = <<p.name, <<"Handler">>, m.name>>
    BY <1>10
  <2>3. Declares(G, m.name, <<"Handler">>)
    BY <1>6, StubDeclared
  <2>4. G \in staged
    BY <1>2, <1>6, <1>11, <2>3, StagedDeclares DEF y
  <2>5. Asked(p.name, <<"Handler">>, m.name)
    BY <1>2, <1>6, <1>10, <1>11, <2>2, <2>3, <2>4, TaskAsked DEF y
  <2> QED
    BY <2>1, <2>5
<1> QED
  BY <1>12, <1>13 DEF ItemKept

\* What an events and an auth form share, and the type the tile writes.
LEMMA SharedAndOwnKept ==
    ASSUME CompileInv, Emitted, PathsDistinct, NEW n \in DOMAIN project.packages,
           NEW at \in DOMAIN LoweredOf(project.packages[n]).items,
           NEW stem, NEW shared, NEW tile, NEW impl, NEW ms, NEW context,
           YieldOf(n, at) = SharedAndOwn(at, LoweredOf(project.packages[n]), stem, shared, tile, impl, ms, context)
    PROVE  /\ \A d \in shared : DeclaredIn(project.packages[n].name, d.name, d.recv)
           /\ \A m \in ms : DeclaredIn(project.packages[n].name, m.name, impl)
<1> DEFINE p == project.packages[n]
           L == LoweredOf(p)
           own == TypeCode(impl, Catalog[tile].types, ms)
           y == YieldOf(n, at)
<1>0. L.name = p.name
  BY LoweredParts
<1>1. \E F, G : /\ F \in y.files /\ F.pkg = p.name /\ shared \subseteq F.decls
                /\ G \in y.files /\ G.pkg = p.name /\ own \subseteq G.decls
  <2>1. CASE Catalog[tile].holes
    <3> DEFINE F == GoFile(L, at \o <<1>>, stem, "generated", shared)
               G == GoFile(L, at \o <<2>>, impl, "keep", own)
    <3>1. \E tasks : y = Yield({}, {F, G}, tasks)
      BY <2>1 DEF SharedAndOwn
    <3>2. F.pkg = p.name /\ F.decls = shared /\ G.pkg = p.name /\ G.decls = own
      BY <1>0, GoFileIs
    <3> HIDE DEF F, G, y, own
    <3>3. F \in y.files /\ G \in y.files
      BY <3>1, YieldIs
    <3> QED
      BY <3>2, <3>3
  <2>2. CASE ~Catalog[tile].holes
    <3> DEFINE F == GoFile(L, at \o <<1>>, stem, "generated", shared \union own)
    <3>1. y = Yield({}, {F}, {})
      BY <2>2 DEF SharedAndOwn
    <3>2. F.pkg = p.name /\ F.decls = shared \union own
      BY <1>0, GoFileIs
    <3> HIDE DEF F, y, own
    <3>3. F \in y.files
      BY <3>1, YieldIs
    <3> QED
      BY <3>2, <3>3
  <2> QED
    BY <2>1, <2>2
<1>2. PICK F, G : /\ F \in y.files /\ F.pkg = p.name /\ shared \subseteq F.decls
                  /\ G \in y.files /\ G.pkg = p.name /\ own \subseteq G.decls
  BY <1>1
<1>3. ASSUME NEW d \in shared PROVE DeclaredIn(p.name, d.name, d.recv)
  <2>1. Declares(F, d.name, d.recv)
    BY <1>2 DEF Declares
  <2> QED
    BY <1>2, <2>1, StagedDeclares
<1>4. ASSUME NEW m \in ms PROVE DeclaredIn(p.name, m.name, impl)
  <2> DEFINE d == Method(impl, m.name, m.types, m.nth)
  <2>1. d \in own
    BY StubsAre DEF TypeCode
  <2>2. d.name = m.name /\ d.recv = impl
    BY DeclIs
  <2> HIDE DEF d, own
  <2>3. Declares(G, m.name, impl)
    BY <1>2, <2>1, <2>2 DEF Declares
  <2> QED
    BY <1>2, <2>3, StagedDeclares
<1> QED
  BY <1>3, <1>4

\* An event as a struct, and two methods of the bus.
LEMMA EventsKept ==
    ASSUME CompileInv, Emitted, PathsDistinct, NEW n \in DOMAIN project.packages,
           NEW it \in Range(project.packages[n].items), it.head = "events"
    PROVE  ItemKept(it, project.packages[n])
<1> DEFINE p == project.packages[n]
           L == LoweredOf(p)
           tile == cover[<<p.name, <<"Bus">>>>]
           bus == <<tile, "Bus">>
<1>1. PICK i \in DOMAIN p.items : it = p.items[i]
  BY DEF Range
<1> DEFINE at == <<i, 1>>
<1>2. at \in DOMAIN L.items /\ L.items[at] = it
  BY <1>1, StaysAsItIs
<1>3. YieldOf(n, at) = SelectEvents(at, it, L, cover)
  BY <1>2 DEF YieldOf, SelectItem
<1>4. L.name = p.name
  BY LoweredParts
<1>5. YieldOf(n, at) = SharedAndOwn(at, L, <<"events", "gen">>, BusDecls(it), tile, bus, BusMethods(it), {GenPath(L)})
  BY <1>3, <1>4 DEF SelectEvents
<1>6. /\ \A d \in BusDecls(it) : DeclaredIn(p.name, d.name, d.recv)
      /\ \A m \in BusMethods(it) : DeclaredIn(p.name, m.name, bus)
  BY <1>2, <1>5, SharedAndOwnKept
<1> HIDE DEF bus
<1>7. ASSUME NEW e \in Range(it.items)
      PROVE  /\ DeclaredIn(p.name, e.name, <<>>)
             /\ DeclaredIn(p.name, <<"Publish">> \o e.name, bus) /\ DeclaredIn(p.name, <<"On">> \o e.name, bus)
  <2>1. Decl(e.name, {f.type : f \in Fields(e)}) \in BusDecls(it)
    BY DEF BusDecls
  <2>2. DeclaredIn(p.name, e.name, <<>>)
    BY <2>1, <1>6, DeclIs
  <2>3. PICK k \in DOMAIN it.items : e = it.items[k]
    BY DEF Range
  <2>4. ASSUME NEW how \in {"Publish", "On"} PROVE DeclaredIn(p.name, <<how>> \o e.name, bus)
    <3> DEFINE mk(h, i_) == [name |-> <<h>> \o it.items[i_].name, types |-> {Here(it.items[i_].name), ContextType}, nth |-> i_]
               m == mk(how, k)
    <3>1. m \in BusMethods(it)
      <4>1. BusMethods(it) = UNION {{mk(h, i_) : h \in {"Publish", "On"}} : i_ \in DOMAIN it.items}
        BY DEF BusMethods
      <4> HIDE DEF mk
      <4>2. m \in {mk(h, k) : h \in {"Publish", "On"}}
        OBVIOUS
      <4> QED
        BY <4>1, <4>2, <2>3
    <3>2. m.name = <<how>> \o e.name
      BY <2>3
    <3> HIDE DEF m
    <3> QED
      BY <3>1, <3>2, <1>6
  <2> QED
    BY <2>2, <2>4
<1>8. ItemKept(it, p)
  BY <1>7 DEF ItemKept, bus
<1> QED
  BY <1>8

\* An auth form as an Authenticate.
LEMMA AuthKept ==
    ASSUME CompileInv, Emitted, PathsDistinct, NEW n \in DOMAIN project.packages,
           NEW it \in Range(project.packages[n].items), it.head = "auth"
    PROVE  ItemKept(it, project.packages[n])
<1> DEFINE p == project.packages[n]
           L == LoweredOf(p)
           tile == cover[<<p.name, <<"Auth">>>>]
           impl == <<tile, "Authenticator">>
<1>1. PICK i \in DOMAIN p.items : it = p.items[i]
  BY DEF Range
<1> DEFINE at == <<i, 1>>
<1>2. at \in DOMAIN L.items /\ L.items[at] = it
  BY <1>1, StaysAsItIs
<1>3. YieldOf(n, at) = SelectAuth(at, L, cover)
  BY <1>2 DEF YieldOf, SelectItem
<1>4. L.name = p.name
  BY LoweredParts
<1>5. \E context : YieldOf(n, at) = SharedAndOwn(at, L, <<"auth", "gen">>, AuthDecls, tile, impl, AuthMethods, context)
  BY <1>3, <1>4 DEF SelectAuth
<1>6. \A m \in AuthMethods : DeclaredIn(p.name, m.name, impl)
  BY <1>2, <1>5, SharedAndOwnKept
<1>7. \E m \in AuthMethods : m.name = <<"Authenticate">>
  BY DEF AuthMethods
<1>8. DeclaredIn(p.name, <<"Authenticate">>, impl)
  BY <1>6, <1>7
<1> QED
  BY <1>8 DEF ItemKept

\* A form no tile covers as a task.
LEMMA OpenKept ==
    ASSUME CompileInv, Emitted, PathsDistinct, NEW n \in DOMAIN project.packages,
           NEW it \in Range(project.packages[n].items),
           it.head \notin {"struct", "interface", "entity", "enum", "implement", "events", "http", "auth", "impl"}
    PROVE  ItemKept(it, project.packages[n])
<1> DEFINE p == project.packages[n]
           L == LoweredOf(p)
<1>1. CASE it.head \in {"doc", "dir"}
  BY <1>1 DEF ItemKept
<1>2. CASE it.head \notin {"doc", "dir"}
  <2>1. ASSUME NEW i \in DOMAIN p.items, p.items[i] = it
        PROVE  \E u \in out.tasks : u.file = <<>> /\ u.id = <<p.name, <<"llm">>, <<i, 1>>>>
    <3> DEFINE at == <<i, 1>>
    <3>1. at \in DOMAIN L.items /\ L.items[at] = it
      BY <1>2, <2>1, StaysAsItIs
    <3>2. YieldOf(n, at) = SelectItem(at, L, LoweredPackages(project), cover, walked)
      BY DEF YieldOf
    <3>3. PICK context : YieldOf(n, at) = OpenTask(L, at, context)
      <4>1. CASE it.head = "llm"
        BY <3>1, <3>2, <4>1 DEF SelectItem
      <4>2. CASE it.head # "llm"
        BY <1>2, <3>1, <3>2, <4>2 DEF SelectItem
      <4> QED
        BY <4>1, <4>2
    <3> DEFINE t == [id |-> <<L.name, <<"llm">>, at>>, file |-> <<>>, context |-> context]
    <3>4. t \in YieldOf(n, at).tasks
      BY <3>3, OpenTaskIs
    <3>5. t.file = <<>> /\ t.id = <<L.name, <<"llm">>, at>>
      OBVIOUS
    <3>6. t \in out.tasks /\ L.name = p.name
      <4> HIDE DEF t
      <4> QED
        BY <3>1, <3>4, YieldIsKept, LoweredParts
    <3> HIDE DEF t
    <3> QED
      BY <3>5, <3>6
  <2> QED
    BY <1>2, <2>1 DEF ItemKept
<1> QED
  BY <1>1, <1>2

\* ---------------------------------------------------------- stores of entities
LEMMA ImplYields ==
    ASSUME CompileInv, Emitted, NEW n \in DOMAIN project.packages,
           NEW L, L = LoweredOf(project.packages[n]), NEW at \in DOMAIN L.items,
           NEW it, it = L.items[at], it.head = "impl"
    PROVE  /\ StoreTile(L, it.iface, cover) # {}
           /\ \E x \in Called(L, "interface", it.iface) : \E s :
                  YieldOf(n, at) = StoreCode(at, it, L, LoweredPackages(project), cover,
                                             cover[<<L.name, it.iface>>], x, s)
<1> DEFINE y == YieldOf(n, at)
           tiles == StoreTile(L, it.iface, cover)
           xs == Called(L, "interface", it.iface)
           structs == Called(L, "struct", it.for)
<1>1. y = SelectImpl(at, it, L, LoweredPackages(project), cover)
  BY DEF YieldOf, SelectItem
<1>2. y.errs = {}
  BY YieldIsKept
<1> HIDE DEF y
<1>3. tiles # {}
  <2> SUFFICES ASSUME tiles = {} PROVE FALSE
    OBVIOUS
  <2>1. y = Failed({<<"no tile", it.iface>>})
    BY <1>1 DEF SelectImpl
  <2> QED
    BY <1>2, <2>1, FailedFails
<1>4. xs # {} /\ structs # {}
  <2> SUFFICES ASSUME xs = {} \/ structs = {} PROVE FALSE
    OBVIOUS
  <2>1. y = Failed({<<"not found", it.iface>>})
    BY <1>1, <1>3 DEF SelectImpl
  <2> QED
    BY <1>2, <2>1, FailedFails
<1> DEFINE tile == CHOOSE t \in tiles : TRUE
           x == CHOOSE i \in xs : TRUE
           s == CHOOSE s \in structs : TRUE
<1>5. y = StoreCode(at, it, L, LoweredPackages(project), cover, tile, x, s)
  BY <1>1, <1>3, <1>4 DEF SelectImpl
<1>6. tile \in tiles /\ x \in xs
  BY <1>3, <1>4
<1> HIDE DEF tiles, tile, x, xs, s
<1>7. tile = cover[<<L.name, it.iface>>]
  BY <1>6, StoreTileIs DEF tiles
<1> QED
  BY <1>3, <1>5, <1>6, <1>7 DEF y, tiles, xs

StoreImpl(tile, iface) == <<tile>> \o iface

\* A file of what a form yields has a stub, and a task is about it.
Asks(y, pkg, impl, name) ==
    \E F \in y.files : \E t \in y.tasks :
        /\ F.pkg = pkg /\ PathOf(F) = t.file /\ Declares(F, name, impl)
        /\ t.id = <<pkg, impl, name>>

\* The code of a store asks for each of its methods.
LEMMA StoreAsks ==
    ASSUME NEW at, NEW it, NEW L, NEW packs, NEW c, NEW tile, NEW x, NEW s, NEW m \in MethodsIn(x.items)
    PROVE  Asks(StoreCode(at, it, L, packs, c, tile, x, s), L.name, StoreImpl(tile, it.iface), m.name)
<1> DEFINE impl == StoreImpl(tile, it.iface)
           ms == MethodsIn(x.items)
           types == StoreTypes(tile, it.for, L)
           context == {GenPath(L)} \union ForeignGen(L, TypesIn(ms) \union {f.type : f \in Fields(s)}, packs) \union SqlContext(tile)
           F == GoFile(L, at \o <<1>>, impl, "keep", TypeCode(impl, types, ms))
           y == StoreCode(at, it, L, packs, c, tile, x, s)
<1>1. F \in y.files /\ y.tasks = Tasks(L, impl, impl, ms, context)
  BY DEF StoreCode, StoreImpl
<1> HIDE DEF context, types, ms, impl, y
<1>2. F.pkg = L.name /\ F.decls = TypeCode(impl, types, ms)
  BY GoFileIs
<1>3. PathOf(F) = <<L.dir, impl>>
  BY PathIs
<1> HIDE DEF F
<1>4. Declares(F, m.name, impl)
  BY <1>2, StubDeclared DEF ms
<1>5. \E t \in Tasks(L, impl, impl, ms, context) :
          t.id = <<L.name, impl, m.name>> /\ t.file = <<L.dir, impl>> /\ t.context = context
  <2>1. m \in ms
    BY DEF ms
  <2> QED
    BY <1>1, <2>1, TasksAre
<1>6. \E t \in y.tasks : t.id = <<L.name, impl, m.name>> /\ t.file = <<L.dir, impl>>
  BY <1>1, <1>5
<1>7. \E t \in y.tasks : /\ F.pkg = L.name /\ PathOf(F) = t.file /\ Declares(F, m.name, impl)
                         /\ t.id = <<L.name, impl, m.name>>
  BY <1>2, <1>3, <1>4, <1>6
<1> QED
  BY <1>1, <1>7 DEF y, impl, Asks

\* The method of an op of a store an impl form is about.
LEMMA StoreMethodAsked ==
    ASSUME CompileInv, Emitted, PathsDistinct, NEW n \in DOMAIN project.packages,
           NEW L, L = LoweredOf(project.packages[n]), NEW at \in DOMAIN L.items,
           NEW it, it = L.items[at], it.head = "impl", NEW x, Called(L, "interface", it.iface) = {x},
           NEW m \in MethodsIn(x.items)
    PROVE  Asked(project.packages[n].name, StoreImpl(cover[<<L.name, it.iface>>], it.iface), m.name)
<1> DEFINE y == YieldOf(n, at)
           impl == StoreImpl(cover[<<L.name, it.iface>>], it.iface)
<1>0. L.name = project.packages[n].name
  BY LoweredParts
<1>1. PICK s : y = StoreCode(at, it, L, LoweredPackages(project), cover, cover[<<L.name, it.iface>>], x, s)
  <2>1. \E v \in Called(L, "interface", it.iface) : \E s :
            y = StoreCode(at, it, L, LoweredPackages(project), cover, cover[<<L.name, it.iface>>], v, s)
    BY ImplYields
  <2> HIDE DEF y
  <2> QED
    BY <2>1
<1> HIDE DEF y
<1>2. Asks(y, L.name, impl, m.name)
  BY <1>1, StoreAsks
<1>3. PICK F \in y.files, t \in y.tasks :
          /\ F.pkg = L.name /\ PathOf(F) = t.file /\ Declares(F, m.name, impl)
          /\ t.id = <<L.name, impl, m.name>>
  BY <1>2 DEF Asks
<1>4. F \in staged
  BY <1>0, <1>3, StagedDeclares DEF y
<1>5. Asked(project.packages[n].name, impl, m.name)
  BY <1>0, <1>3, <1>4, TaskAsked DEF y
<1> QED
  BY <1>5 DEF impl

\* Of one store, that one is kept.
LEMMA OneStoreKept ==
    ASSUME NEW it, \A i, j \in StoresAt(it) : i = j, NEW s \in Stores(it)
    PROVE  LastStore(it) # {} /\ KeptStore(it) = s
<1>1. PICK k \in StoresAt(it) : s = it.items[k]
  BY DEF Stores, StoresAt, FormsOf
<1>2. s \in LastStore(it)
  BY <1>1 DEF LastStore
<1>3. PICK i \in StoresAt(it) : KeptStore(it) = it.items[i]
  BY <1>2, KeptIsStore
<1> QED
  BY <1>1, <1>2, <1>3

\* An entity comes out as a type, and each op of its store as a stub and a task
\* about it.
LEMMA EntityKept ==
    ASSUME CompileInv, Emitted, PathsDistinct, OneStoreEach, InterfacesDistinct, NEW n \in DOMAIN project.packages,
           NEW it \in Range(project.packages[n].items), it.head = "entity"
    PROVE  ItemKept(it, project.packages[n])
<1> DEFINE p == project.packages[n]
           L == LoweredOf(p)
<1>0. L.name = p.name /\ p \in Range(project.packages)
  BY LoweredParts DEF Range
<1>1. DeclaredIn(p.name, it.name, <<>>)
  <2>1. /\ GenFile(n) \in staged /\ GenFile(n).pkg = p.name
        /\ Declares(GenFile(n), it.name, <<>>)
    BY FormIsDeclared, GenFileIs
  <2> QED
    BY <2>1 DEF DeclaredIn
<1>2. ASSUME NEW s \in Stores(it), NEW op \in Range(s.ops), op.kind \notin Requirements \union {"constraint"}
      PROVE  Asked(p.name, <<cover[<<p.name, StoreName(it)>>]>> \o StoreName(it), OpMethodName(op))
  <2>1. PICK i \in DOMAIN p.items : it = p.items[i]
    BY DEF Range
  <2>2. \A j, k \in StoresAt(it) : j = k
    <3>1. it \in FormsOf(p.items, "entity")
      BY <2>1 DEF FormsOf, PlacesOf
    <3> QED
      BY <1>0, <3>1 DEF OneStoreEach
  <2>3. LastStore(it) # {} /\ KeptStore(it) = s
    BY <2>2, OneStoreKept
  <2>4. PICK j \in DOMAIN s.ops : op = s.ops[j]
    BY DEF Range
  <2>5. j \in DOMAIN Ops(s) /\ Ops(s)[j] = op
    BY <1>2, <2>4 DEF Ops, IsMethodOp
  <2> DEFINE X == InterfaceForm(it, Ops(s))
             I == ImplForm(it, Ops(s))
             at == <<i, 3>>
  <2>6. I.head = "impl" /\ I.iface = StoreName(it)
    BY DEF ImplForm
  <2>7. at \in DOMAIN L.items /\ L.items[at] = I
    <3>1. ConcretizeItem(I) = I
      BY <2>6 DEF ConcretizeItem
    <3> HIDE DEF L, I, X
    <3> QED
      BY <2>1, <2>3, <3>1, LoweredHas DEF L, I
  <2>8. <<i, 2>> \in PlacesOf(Expand(p).items, "interface") /\ Expand(p).items[<<i, 2>>] = X
    <3>1. 2 \in DOMAIN Expanded(it) /\ Expanded(it)[2] = X
      BY <2>3, ExpandedEntity
    <3>2. <<i, 2>> \in ExpandedPlaces(p.items)
      BY <2>1, <3>1 DEF ExpandedPlaces
    <3>3. Expand(p).items[<<i, 2>>] = X /\ <<i, 2>> \in DOMAIN Expand(p).items
      BY <2>1, <3>1, <3>2, LoweredParts
    <3>4. X.head = "interface"
      BY InterfaceFormIs
    <3> QED
      BY <3>3, <3>4 DEF PlacesOf
  <2>9. /\ X.head = "interface" /\ X.name = StoreName(it) /\ DOMAIN X.items = DOMAIN Ops(s)
        /\ X.items[j].head = "method" /\ X.items[j].name = OpMethodName(op)
    BY <2>5, InterfaceFormIs
  <2> HIDE DEF X, I, at, L
  <2>10. OneInterfaceEach(p)
    <3> HIDE DEF p
    <3> QED
      BY <1>0 DEF InterfacesDistinct, OneInterfaceEach
  <2> DEFINE x == ConcretizeItem(X)
  <2>11. Called(L, "interface", StoreName(it)) = {x}
    <3>1. <<i, 2>> \in PlacesOf(Expand(p).items, "interface") /\ Expand(p).items[<<i, 2>>].name = StoreName(it)
      BY <2>8, <2>9
    <3> HIDE DEF p
    <3>2. Called(LoweredOf(p), "interface", Expand(p).items[<<i, 2>>].name)
              = {ConcretizeItem(Expand(p).items[<<i, 2>>])}
      BY <2>10, <3>1, TableReads
    <3> QED
      BY <2>8, <3>1, <3>2 DEF L
  <2>12. /\ DOMAIN x.items = DOMAIN X.items /\ x.items[j] = WithContext(X.items[j])
         /\ x.items[j].head = "method" /\ x.items[j].name = OpMethodName(op)
    BY <2>5, <2>9, ConcretizedInterface, WithContextIs
  <2> HIDE DEF x
  <2> DEFINE mk(k) == [name |-> x.items[k].name, types |-> x.items[k].types, nth |-> k]
  <2>16. j \in PlacesOf(x.items, "method")
    BY <2>5, <2>9, <2>12 DEF PlacesOf
  <2>17. mk(j) \in MethodsIn(x.items)
    BY <2>16 DEF MethodsIn
  <2>18. mk(j).name = OpMethodName(op)
    BY <2>12
  <2> HIDE DEF mk
  <2>13. \E m \in MethodsIn(x.items) : m.name = OpMethodName(op)
    BY <2>17, <2>18
  <2>14. PICK m \in MethodsIn(x.items) : m.name = OpMethodName(op)
    BY <2>13
  <2>15. Asked(p.name, StoreImpl(cover[<<L.name, I.iface>>], I.iface), m.name)
    BY <2>6, <2>7, <2>11, StoreMethodAsked DEF L
  <2> QED
    BY <1>0, <2>6, <2>14, <2>15 DEF L, StoreImpl
<1> HIDE DEF L, p
<1>3. ItemKept(it, p)
  BY <1>1, <1>2 DEF ItemKept
<1> QED
  BY <1>3 DEF p

\* Where select puts the first file of the form at some place.
FilePlace(L, at) == <<L.at>> \o (at \o <<1>>)

\* The file of the k-th form an item became has k in its place.
LEMMA FilePlaceIs ==
    ASSUME NEW L, NEW i, NEW k
    PROVE  FilePlace(L, <<i, k>>)[3] = k
<1> DEFINE S == {L.at, i, k, 1}
           head == <<L.at>>
           form == <<i, k>>
           one == <<1>>
           tail == form \o one
<1>1. head \in Seq(S) /\ form \in Seq(S) /\ one \in Seq(S)
  OBVIOUS
<1>2. Len(head) = 1 /\ Len(form) = 2 /\ Len(one) = 1 /\ form[2] = k
  OBVIOUS
<1> HIDE DEF head, form, one, S
<1>3. /\ tail \in Seq(S) /\ Len(tail) = Len(form) + Len(one)
      /\ \A m \in 1 .. Len(form) + Len(one) : tail[m] = IF m <= Len(form) THEN form[m] ELSE one[m - Len(form)]
  BY <1>1, ConcatProperties
<1> HIDE DEF tail
<1>5. Len(tail) = 3 /\ tail[2] = k
  BY <1>2, <1>3
<1>6. \A m \in 1 .. Len(head) + Len(tail) :
          (head \o tail)[m] = IF m <= Len(head) THEN head[m] ELSE tail[m - Len(head)]
  BY <1>1, <1>3, ConcatProperties
<1>4. (head \o tail)[3] = k
  <2>1. 3 \in 1 .. Len(head) + Len(tail) /\ ~(3 <= Len(head)) /\ 3 - Len(head) = 2
    BY <1>2, <1>5
  <2> QED
    BY <1>5, <1>6, <2>1
<1> QED
  BY <1>4 DEF FilePlace, head, form, one, tail

\* The path and the place of the file of a store.
StoredAt(files, L, at, tile, iface) ==
    \E F \in files : PathOf(F) = <<L.dir, StoreImpl(tile, iface)>> /\ F.at = FilePlace(L, at)

\* The file of a store is at the place of its form.
LEMMA StoreFileAt ==
    ASSUME NEW at, NEW it, NEW L, NEW packs, NEW c, NEW tile, NEW x, NEW s
    PROVE  StoredAt(StoreCode(at, it, L, packs, c, tile, x, s).files, L, at, tile, it.iface)
<1> DEFINE stem == StoreImpl(tile, it.iface)
           code == TypeCode(stem, StoreTypes(tile, it.for, L), MethodsIn(x.items))
           F == GoFile(L, at \o <<1>>, stem, "keep", code)
           y == StoreCode(at, it, L, packs, c, tile, x, s)
<1>1. F \in y.files
  BY DEF StoreCode, StoreImpl
<1>2. F.at = FilePlace(L, at)
  BY DEF GoFile, FilePlace
<1>3. PathOf(F) = <<L.dir, stem>>
  BY PathIs
<1> HIDE DEF F, y
<1>4. StoredAt(y.files, L, at, tile, it.iface)
  BY <1>1, <1>2, <1>3 DEF StoredAt
<1> QED
  BY <1>4 DEF y

\* And so is that of an impl form.
LEMMA ImplFileAt ==
    ASSUME CompileInv, Emitted, NEW n \in DOMAIN project.packages,
           NEW L, L = LoweredOf(project.packages[n]), NEW at \in DOMAIN L.items,
           NEW it, it = L.items[at], it.head = "impl"
    PROVE  StoredAt(out.files, L, at, cover[<<L.name, it.iface>>], it.iface)
<1> DEFINE y == YieldOf(n, at)
           tile == cover[<<L.name, it.iface>>]
           packs == LoweredPackages(project)
<1>1. PICK x, s : y = StoreCode(at, it, L, packs, cover, tile, x, s)
  BY ImplYields
<1>2. y.files \subseteq out.files
  BY YieldIsKept
<1> HIDE DEF y, tile
<1>3. StoredAt(y.files, L, at, tile, it.iface)
  BY <1>1, StoreFileAt
<1>4. StoredAt(out.files, L, at, tile, it.iface)
  BY <1>2, <1>3 DEF StoredAt
<1> QED
  BY <1>4 DEF tile

\* A store is asked for by an entity of its package.
LEMMA StoreNeedIsOf ==
    ASSUME NEW q, NEW u \in NeedsOf(q), u.capability = "store"
    PROVE  \E e \in FormsOf(q.items, "entity") : Stores(e) # {} /\ u.id = <<q.name, StoreName(e)>>
<1>1. CASE \E e \in FormsOf(q.items, "entity") :
               Stores(e) # {} /\ u = Need(q, StoreName(e), "store", UNION {StoreRequires(s) : s \in FirstStore(e)})
  BY <1>1 DEF Need
<1>2. CASE \E e \in FormsOf(q.items, "events") : u = Need(q, <<"Bus">>, "event-bus", e.requires)
  BY <1>2 DEF Need
<1>3. CASE \E e \in FormsOf(q.items, "auth") : u = Need(q, <<"Auth">>, "auth", e.requires)
  BY <1>3 DEF Need
<1> QED
  BY <1>1, <1>2, <1>3 DEF NeedsOf

\* A store with a tile is that of an entity of its package.
LEMMA StoreTileIsAsked ==
    ASSUME CompileInv, Emitted, NEW n \in DOMAIN project.packages,
           NEW iface, StoreTile(LoweredOf(project.packages[n]), iface, cover) # {}
    PROVE  \E e \in FormsOf(project.packages[n].items, "entity") : Stores(e) # {} /\ StoreName(e) = iface
<1> DEFINE p == project.packages[n]
           id == <<p.name, iface>>
<1>1. LoweredOf(p).name = p.name
  BY LoweredParts
<1>2. id \in DOMAIN cover /\ Catalog[cover[id]].capability = "store"
  BY <1>1, StoreTileIs
<1>3. cover \in Covers
  BY EmittedPhase DEF CompileInv, CoverInv, AfterEmit, AfterLower
<1>4. PICK u \in Needs : u.id = id
  <2>1. cover \in [{v.id : v \in Needs} -> DOMAIN Catalog]
    BY <1>3 DEF Covers
  <2> HIDE DEF id
  <2> QED
    BY <1>2, <2>1
<1>5. u.capability = "store"
  <2>1. cover[u.id] \in Legal(u)
    BY <1>3 DEF Covers
  <2> QED
    BY <1>2, <1>4, <2>1 DEF Legal
<1>6. PICK q \in Range(project.packages) : u \in NeedsOf(q)
  BY DEF Needs
<1>7. PICK e \in FormsOf(q.items, "entity") : Stores(e) # {} /\ u.id = <<q.name, StoreName(e)>>
  BY <1>5, <1>6, StoreNeedIsOf
<1>8. q.name = p.name /\ StoreName(e) = iface
  BY <1>4, <1>7
<1>9. PICK k \in DOMAIN project.packages : q = project.packages[k]
  BY <1>6 DEF Range
<1>10. q = p
  <2>1. project.packages[k].name = k /\ project.packages[n].name = n
    BY DEF CompileInv, ProjectInv
  <2> QED
    BY <1>8, <1>9, <2>1
<1> QED
  BY <1>7, <1>8, <1>10

\* No accepted spec has an impl form of its own: there is no store for it, or
\* its file would be that of the entity's store.
LEMMA NoOwnImpl ==
    ASSUME CompileInv, Emitted, PathsDistinct, OneStoreEach, NEW n \in DOMAIN project.packages,
           NEW it \in Range(project.packages[n].items)
    PROVE  it.head # "impl"
<1> SUFFICES ASSUME it.head = "impl" PROVE FALSE
  OBVIOUS
<1> DEFINE p == project.packages[n]
           L == LoweredOf(p)
<1>1. PICK i \in DOMAIN p.items : it = p.items[i]
  BY DEF Range
<1> DEFINE at == <<i, 1>>
<1>2. at \in DOMAIN L.items /\ L.items[at] = it
  BY <1>1, StaysAsItIs
<1>3. StoreTile(L, it.iface, cover) # {}
  BY <1>2, ImplYields
<1>4. PICK e \in FormsOf(p.items, "entity") : Stores(e) # {} /\ StoreName(e) = it.iface
  BY <1>3, StoreTileIsAsked
<1>5. PICK j \in DOMAIN p.items : e = p.items[j] /\ e.head = "entity"
  BY DEF FormsOf, PlacesOf
<1>6. LastStore(e) # {}
  <2>1. \A k, l \in StoresAt(e) : k = l
    BY DEF OneStoreEach, Range
  <2> QED
    BY <1>4, <2>1, OneStoreKept
<1> DEFINE I == ImplForm(e, Ops(KeptStore(e)))
           to == <<j, 3>>
<1>7. I.head = "impl" /\ I.iface = it.iface
  BY <1>4 DEF ImplForm
<1>8. to \in DOMAIN L.items /\ L.items[to] = I
  <2>1. ConcretizeItem(I) = I
    BY <1>7 DEF ConcretizeItem
  <2> HIDE DEF L, I
  <2> QED
    BY <1>5, <1>6, <2>1, LoweredHas DEF L, I
<1> DEFINE tile == cover[<<L.name, it.iface>>]
<1> HIDE DEF I, L
<1>9. StoredAt(out.files, L, at, tile, it.iface)
  BY <1>2, ImplFileAt DEF L
<1>10. StoredAt(out.files, L, to, tile, it.iface)
  <2> HIDE DEF to
  <2>1. StoredAt(out.files, L, to, cover[<<L.name, I.iface>>], I.iface)
    BY <1>7, <1>8, ImplFileAt DEF L
  <2> QED
    BY <1>7, <2>1
<1>11. FilePlace(L, at) = FilePlace(L, to)
  <2> HIDE DEF at, to, tile
  <2>1. PICK F \in out.files : PathOf(F) = <<L.dir, StoreImpl(tile, it.iface)>> /\ F.at = FilePlace(L, at)
    BY <1>9 DEF StoredAt
  <2>2. PICK G \in out.files : PathOf(G) = <<L.dir, StoreImpl(tile, it.iface)>> /\ G.at = FilePlace(L, to)
    BY <1>10 DEF StoredAt
  <2>3. F = G
    BY <2>1, <2>2 DEF PathsDistinct, Files
  <2> QED
    BY <2>1, <2>2, <2>3
<1>12. FilePlace(L, at)[3] = 1 /\ FilePlace(L, to)[3] = 3
  BY FilePlaceIs
<1> QED
  BY <1>11, <1>12

\* Every form of an accepted spec comes out as code or as a task.
LEMMA EveryItemKept ==
    ASSUME CompileInv, Emitted, PathsDistinct, OneStoreEach, InterfacesDistinct, NEW n \in DOMAIN project.packages,
           NEW it \in Range(project.packages[n].items)
    PROVE  ItemKept(it, project.packages[n])
<1>1. CASE it.head \in {"struct", "interface"}
  BY <1>1, PlainKept
<1>2. CASE it.head = "entity"
  BY <1>2, EntityKept
<1>3. CASE it.head = "enum"
  BY <1>3, EnumKept
<1>4. CASE it.head = "implement"
  BY <1>4, ImplementKept
<1>5. CASE it.head = "events"
  BY <1>5, EventsKept
<1>6. CASE it.head = "http"
  BY <1>6, HTTPKept
<1>7. CASE it.head = "auth"
  BY <1>7, AuthKept
<1>8. CASE it.head \notin {"struct", "interface", "entity", "enum", "implement", "events", "http", "auth"}
  BY <1>8, NoOwnImpl, OpenKept
<1> QED
  BY <1>1, <1>2, <1>3, <1>4, <1>5, <1>6, <1>7, <1>8

\* Nothing of an accepted spec is silently dropped: whatever passes and tiles do,
\* each of its forms is in the generated code or is a task of its own, with the
\* stub it is about in the file it names (pass_select.go selectUncovered), where
\* no two files have one path, no entity two stores and no package two interfaces
\* of one name.
THEOREM NothingIsDropped == Spec => []NothingDropped
<1>1. CompileInv => NothingDropped
  <2> SUFFICES ASSUME CompileInv, Emitted, PathsDistinct, OneStoreEach, InterfacesDistinct,
                      NEW p \in Range(project.packages), NEW it \in Range(p.items)
               PROVE  ItemKept(it, p)
    BY DEF NothingDropped
  <2>1. PICK n \in DOMAIN project.packages : p = project.packages[n]
    BY DEF Range
  <2> QED
    BY <2>1, EveryItemKept
<1> QED
  BY <1>1, SpecCompileInv, PTL

\* ------------------------------------------------------ the levels of a plan
\* A graph to lay out: every node has its dependencies.
FiniteGraph(g) == IsFiniteSet(g.node) /\ DOMAIN g.deps = g.node

Waiting(n) == Inside(n) \ placed

LevelTypeOK ==
    /\ FiniteGraph(graph)
    /\ indeg \in [graph.node -> Nat]
    /\ ready \subseteq graph.node
    /\ placed \subseteq graph.node
    /\ levels \in Seq(SUBSET graph.node)

CountsWaiting == \A n \in graph.node : indeg[n] = Cardinality(Waiting(n))

ReadyIsNext == ready = {n \in graph.node \ placed : indeg[n] = 0}

PlacedIsLevels == \A n : n \in placed <=> \E i \in DOMAIN levels : n \in levels[i]

PlacedIsDone == \A n \in placed : indeg[n] = 0

LevelInv ==
    /\ LevelTypeOK
    /\ CountsWaiting
    /\ ReadyIsNext
    /\ PlacedIsLevels
    /\ PlacedIsDone
    /\ LevelsInOrder

\* Counting a level off a set leaves the size of what is left: the arithmetic
\* of the decrement loop of Levels.
LEMMA CountedOff ==
    ASSUME NEW D, IsFiniteSet(D), NEW P, NEW R, R \intersect P = {}
    PROVE  /\ Cardinality(D \ (P \union R)) \in Nat
           /\ Cardinality(D \ P) - Cardinality(D \intersect R) = Cardinality(D \ (P \union R))
<1> DEFINE E == D \ P
<1>1. IsFiniteSet(E)
    BY FS_Difference
<1>2. E \intersect R = D \intersect R /\ E \ R = D \ (P \union R)
    OBVIOUS
<1>3. /\ IsFiniteSet(E \ R)
      /\ Cardinality(E \ R) = Cardinality(E) - Cardinality(E \intersect R)
    BY <1>1, FS_Difference
<1>4. Cardinality(E \ R) \in Nat
    BY <1>3, FS_CardinalityType
<1> QED
    BY <1>2, <1>3, <1>4

\* What a node depends on inside the plan is finite, and a count of zero means
\* that all of it is placed.
LEMMA InsideFinite ==
    ASSUME LevelTypeOK, NEW n \in graph.node
    PROVE  /\ IsFiniteSet(Inside(n))
           /\ IsFiniteSet(Waiting(n))
           /\ Cardinality(Waiting(n)) \in Nat
           /\ Cardinality(Waiting(n)) = 0 <=> Inside(n) \subseteq placed
<1>1. IsFiniteSet(graph.node)
    BY DEF LevelTypeOK, FiniteGraph
<1>2. IsFiniteSet(Inside(n))
    BY <1>1, FS_Subset DEF Inside
<1>3. IsFiniteSet(Waiting(n))
    BY <1>2, FS_Difference DEF Waiting
<1>4. Cardinality(Waiting(n)) = 0 <=> Waiting(n) = {}
    BY <1>3, FS_EmptySet
<1> QED
    BY <1>2, <1>3, <1>4, FS_CardinalityType DEF Waiting

\* The invariant holds before the first level of any finite graph.
LEMMA InitLevelInv ==
    ASSUME FiniteGraph(graph), indeg = Count(graph), ready = {n \in graph.node : indeg[n] = 0},
           levels = <<>>, placed = {}
    PROVE  LevelInv
<1>1. IsFiniteSet(graph.node) /\ DOMAIN graph.deps = graph.node
    BY DEF FiniteGraph
<1>2. \A n \in graph.node : /\ Inside(n) \subseteq graph.node
                            /\ IsFiniteSet(Inside(n))
                            /\ Cardinality(Inside(n)) \in Nat
    BY <1>1, FS_Subset, FS_CardinalityType DEF Inside
<1>3. \A n \in graph.node : indeg[n] = Cardinality(Inside(n))
    BY DEF Count, Inside
<1>4. LevelTypeOK
    <2>1. indeg \in [graph.node -> Nat]
        BY <1>2 DEF Count, Inside
    <2> QED
        BY <2>1 DEF LevelTypeOK
<1>5. CountsWaiting
    <2>1. \A n \in graph.node : Waiting(n) = Inside(n)
        BY DEF Waiting
    <2> QED
        BY <1>3, <2>1 DEF CountsWaiting
<1>6. ReadyIsNext /\ PlacedIsLevels /\ PlacedIsDone /\ LevelsInOrder
    BY DEF ReadyIsNext, PlacedIsLevels, PlacedIsDone, LevelsInOrder
<1> QED
    BY <1>4, <1>5, <1>6 DEF LevelInv

\* And when a compile starts on the levels of a plan.
LEMMA StartLevelsInv ==
    ASSUME NEW g, StartLevels(g), FiniteGraph(g)
    PROVE  LevelInv'
<1>1. graph' = g /\ indeg' = Count(g) /\ levels' = <<>> /\ placed' = {}
    BY DEF StartLevels
<1>2. ready' = {n \in g.node : indeg'[n] = 0}
    BY DEF StartLevels
<1>3. FiniteGraph(graph)' /\ Count(graph)' = Count(g)
    BY <1>1 DEF FiniteGraph, Count
<1>4. IsFiniteSet(g.node) /\ DOMAIN g.deps = g.node
    BY DEF FiniteGraph
<1>5. \A n \in g.node : /\ Inside(n)' \subseteq g.node
                        /\ IsFiniteSet(Inside(n)')
                        /\ Cardinality(Inside(n)') \in Nat
    BY <1>1, <1>4, FS_Subset, FS_CardinalityType DEF Inside
<1>6. \A n \in g.node : indeg'[n] = Cardinality(Inside(n)')
    BY <1>1 DEF Count, Inside
<1>7. LevelTypeOK'
    <2>1. indeg' \in [g.node -> Nat]
        BY <1>1, <1>5, <1>6 DEF Count
    <2> QED
        BY <1>1, <1>2, <1>3, <2>1 DEF LevelTypeOK
<1>8. CountsWaiting'
    <2>1. \A n \in g.node : Waiting(n)' = Inside(n)'
        BY <1>1 DEF Waiting
    <2> QED
        BY <1>1, <1>6, <2>1 DEF CountsWaiting
<1>9. (ReadyIsNext /\ PlacedIsLevels /\ PlacedIsDone /\ LevelsInOrder)'
    BY <1>1, <1>2 DEF ReadyIsNext, PlacedIsLevels, PlacedIsDone, LevelsInOrder
<1> QED
    BY <1>7, <1>8, <1>9 DEF LevelInv

\* A round of the loop keeps it.
LEMMA NextLevelKeeps == LevelInv /\ NextLevel => LevelInv'
<1> SUFFICES ASSUME LevelInv, NextLevel PROVE LevelInv'
    OBVIOUS
<1> DEFINE fewer == [n \in graph.node |-> indeg[n] - Cardinality(Inside(n) \intersect ready)]
<1>1. /\ levels' = Append(levels, ready)
      /\ placed' = placed \union ready
      /\ indeg' = fewer
      /\ ready' = {n \in graph.node : indeg[n] > 0 /\ fewer[n] = 0}
      /\ graph' = graph
    BY DEF NextLevel
<1>2. ready \intersect placed = {}
    BY DEF LevelInv, ReadyIsNext
<1>3. \A n \in graph.node : Inside(n)' = Inside(n)
    BY <1>1 DEF Inside
<1>4. \A n \in graph.node : /\ fewer[n] = Cardinality(Inside(n) \ placed')
                            /\ fewer[n] \in Nat
    <2> TAKE n \in graph.node
    <2>1. IsFiniteSet(Inside(n))
        BY InsideFinite DEF LevelInv
    <2>2. indeg[n] = Cardinality(Inside(n) \ placed)
        BY DEF LevelInv, CountsWaiting, Waiting
    <2>3. /\ Cardinality(Inside(n) \ (placed \union ready)) \in Nat
          /\ Cardinality(Inside(n) \ placed) - Cardinality(Inside(n) \intersect ready)
               = Cardinality(Inside(n) \ (placed \union ready))
        <3> HIDE DEF fewer
        <3>1. ready \intersect placed = {}
            BY <1>2
        <3> DEFINE D == Inside(n)
        <3>2. IsFiniteSet(D)
            BY <2>1
        <3> HIDE DEF D
        <3>3. /\ Cardinality(D \ (placed \union ready)) \in Nat
              /\ Cardinality(D \ placed) - Cardinality(D \intersect ready) = Cardinality(D \ (placed \union ready))
            BY <3>1, <3>2, CountedOff
        <3> QED
            BY <3>3 DEF D
    <2>4. fewer[n] = indeg[n] - Cardinality(Inside(n) \intersect ready)
        OBVIOUS
    <2> HIDE DEF fewer
    <2> QED
        BY <1>1, <2>2, <2>3, <2>4
<1>5. \A n \in graph.node : indeg[n] \in Nat /\ (indeg[n] = 0 <=> Inside(n) \subseteq placed)
    BY InsideFinite DEF LevelInv, CountsWaiting, LevelTypeOK
<1>6. LevelTypeOK'
    <2>1. indeg' \in [graph.node -> Nat]
        BY <1>1, <1>4
    <2>2. levels' \in Seq(SUBSET graph.node)
        BY <1>1 DEF LevelInv, LevelTypeOK
    <2> QED
        BY <1>1, <2>1, <2>2 DEF LevelInv, LevelTypeOK
<1>7. CountsWaiting'
    BY <1>1, <1>3, <1>4 DEF CountsWaiting, Waiting
<1>8. \A n \in graph.node : n \in placed' => indeg[n] = 0
    BY <1>1 DEF LevelInv, ReadyIsNext, PlacedIsDone
<1>9. PlacedIsDone'
    <2> SUFFICES ASSUME NEW n \in placed' PROVE fewer[n] = 0
        BY <1>1 DEF PlacedIsDone
    <2>1. n \in graph.node /\ Inside(n) \subseteq placed
        BY <1>1, <1>5, <1>8 DEF LevelInv, LevelTypeOK
    <2>2. Inside(n) \ placed' = {}
        BY <1>1, <2>1
    <2> QED
        BY <1>4, <2>1, <2>2, FS_EmptySet
<1>10. ReadyIsNext'
    <2>1. \A n \in graph.node : indeg[n] > 0 <=> n \notin placed'
        BY <1>1, <1>5, <1>8 DEF LevelInv, ReadyIsNext
    <2> QED
        BY <1>1, <2>1 DEF ReadyIsNext
<1>11. /\ levels \in Seq(SUBSET graph.node)
       /\ Len(levels) \in Nat
       /\ DOMAIN levels = 1 .. Len(levels)
       /\ DOMAIN levels' = 1 .. (Len(levels) + 1)
       /\ \A i \in DOMAIN levels : levels'[i] = levels[i]
       /\ levels'[Len(levels) + 1] = ready
    BY <1>1 DEF LevelInv, LevelTypeOK
<1>12. PlacedIsLevels'
    BY <1>1, <1>11 DEF LevelInv, PlacedIsLevels
<1>13. LevelsInOrder'
    <2> SUFFICES ASSUME NEW i \in DOMAIN levels', NEW n \in levels'[i]
                 PROVE  /\ \A d \in Inside(n) : \E j \in DOMAIN levels' : j < i /\ d \in levels'[j]
                        /\ \A j \in DOMAIN levels' : n \in levels'[j] => j = i
        <3>1. \A k \in DOMAIN levels' : levels'[k] \subseteq graph.node
            BY <1>11 DEF LevelInv, LevelTypeOK
        <3> QED
            BY <1>3, <3>1 DEF LevelsInOrder
    <2>1. CASE i \in DOMAIN levels
        <3>1. n \in levels[i] /\ n \in placed
            BY <1>11, <2>1 DEF LevelInv, PlacedIsLevels
        <3>2. n \notin ready
            BY <1>2, <3>1
        <3>3. /\ \A d \in Inside(n) : \E j \in DOMAIN levels : j < i /\ d \in levels[j]
              /\ \A j \in DOMAIN levels : n \in levels[j] => j = i
            BY <2>1, <3>1 DEF LevelInv, LevelsInOrder
        <3> QED
            BY <1>11, <3>2, <3>3
    <2>2. CASE i = Len(levels) + 1
        <3>1. n \in ready
            BY <1>11, <2>2
        <3>2. Inside(n) \subseteq placed /\ n \notin placed
            BY <1>5, <3>1 DEF LevelInv, ReadyIsNext
        <3>3. \A d \in Inside(n) : \E j \in DOMAIN levels : d \in levels[j]
            BY <3>2 DEF LevelInv, PlacedIsLevels
        <3>4. \A j \in DOMAIN levels : n \notin levels[j]
            BY <3>2 DEF LevelInv, PlacedIsLevels
        <3> QED
            BY <1>11, <2>2, <3>3, <3>4
    <2> QED
        BY <1>11, <2>1, <2>2
<1> QED
    BY <1>6, <1>7, <1>9, <1>10, <1>12, <1>13 DEF LevelInv

\* Nothing changes it but a round.
LEMMA SameLevels == LevelInv /\ UNCHANGED graphVars => LevelInv'
<1> SUFFICES ASSUME LevelInv, UNCHANGED graphVars PROVE LevelInv'
    OBVIOUS
<1>1. /\ graph' = graph /\ indeg' = indeg /\ ready' = ready
      /\ levels' = levels /\ placed' = placed
    BY DEF graphVars
<1>2. \A n : Inside(n)' = Inside(n) /\ Waiting(n)' = Waiting(n)
    BY <1>1 DEF Inside, Waiting
<1> QED
    BY <1>1, <1>2 DEF LevelInv, LevelTypeOK, FiniteGraph, CountsWaiting, ReadyIsNext, PlacedIsLevels,
                      PlacedIsDone, LevelsInOrder

\* When the loop stops, the nodes that are stuck wait for each other.
LEMMA StuckOnes == LevelInv => StuckMeansCycle
<1> SUFFICES ASSUME LevelInv, ready = {}
             PROVE  /\ Stuck = graph.node \ placed
                    /\ \A n \in Stuck : Inside(n) \intersect Stuck # {}
    BY DEF StuckMeansCycle
<1>1. \A n \in graph.node : indeg[n] \in Nat
    BY DEF LevelInv, LevelTypeOK
<1>2. Stuck = graph.node \ placed
    BY <1>1 DEF LevelInv, ReadyIsNext, PlacedIsDone, Stuck
<1>3. ASSUME NEW n \in Stuck PROVE Inside(n) \intersect Stuck # {}
    <2>1. n \in graph.node /\ indeg[n] # 0
        BY <1>1 DEF Stuck
    <2>2. ~(Inside(n) \subseteq placed)
        BY <2>1, InsideFinite DEF LevelInv, CountsWaiting
    <2> QED
        BY <1>2, <2>2 DEF Inside
<1> QED
    BY <1>2, <1>3

\* The invariant of the levels, in every state of the layout of a graph.
THEOREM LevelSpecInv == LevelSpec => []LevelInv
<1>1. LevelInit => LevelInv
    <2> SUFFICES ASSUME LevelInit PROVE LevelInv
        OBVIOUS
    <2>1. FiniteGraph(graph)
        BY PlanGraphsAssumption DEF LevelInit, FiniteGraph
    <2> QED
        BY <2>1, InitLevelInv DEF LevelInit
<1> QED
    BY <1>1, SameLevels, NextLevelKeeps, PTL DEF LevelSpec

\* `tilegen plan` lists a node only after everything it depends on, and once:
\* Levels never puts a node in a level with, or before, one of its dependencies.
THEOREM LevelsAreInOrder == LevelSpec => []LevelsInOrder
<1>1. LevelInv => LevelsInOrder
    BY DEF LevelInv
<1> QED
    BY <1>1, LevelSpecInv, PTL

\* When Levels has no ready node left, the nodes it calls stuck are exactly the
\* ones it has not placed, and each of them waits for another stuck node: it
\* reports a cycle only when there is one, and otherwise places every node.
THEOREM StuckIsACycle == LevelSpec => []StuckMeansCycle
    BY StuckOnes, LevelSpecInv, PTL

\* The plan of a compile, which is finite when the project is.
PlanInv == IsFiniteSet(graph.node) => LevelInv

\* A compile keeps the invariant of its plan, before there is one and after.
LEMMA PlanInvKept == PlanInv /\ [Next]_vars => PlanInv'
<1> SUFFICES ASSUME PlanInv, [Next]_vars PROVE PlanInv'
    OBVIOUS
<1>1. CASE UNCHANGED graphVars
    <2>1. graph' = graph
        BY <1>1 DEF graphVars
    <2> QED
        BY <1>1, <2>1, SameLevels DEF PlanInv
<1>2. CASE BuildGraph
    <2> DEFINE g == [node |-> PlanNodes, deps |-> [n \in PlanNodes |-> NodeDeps(n)]]
    <2>1. StartLevels(g)
        BY <1>2 DEF BuildGraph
    <2>2. DOMAIN g.deps = g.node
        OBVIOUS
    <2> HIDE DEF g
    <2>3. graph' = g
        BY <2>1 DEF StartLevels
    <2> SUFFICES ASSUME IsFiniteSet(g.node) PROVE LevelInv'
        BY <2>3 DEF PlanInv
    <2> QED
        BY <2>1, <2>2, StartLevelsInv DEF FiniteGraph
<1>3. CASE Layout
    <2>1. NextLevel /\ graph' = graph
        BY <1>3 DEF Layout, NextLevel
    <2> QED
        BY <2>1, NextLevelKeeps DEF PlanInv
<1>4. CASE Link \/ Validate \/ Search \/ EndValidate \/ Cover \/ BeginWalk \/ Walk \/ EndWalk \/ Lower \/ Emit \/ Report
    BY <1>1, <1>4 DEF Link, Validate, Search, EndValidate, Cover, BeginWalk, Walk, EndWalk, Lower, Emit, Report
<1>5. CASE UNCHANGED vars
    BY <1>1, <1>5 DEF vars
<1> QED
    BY <1>2, <1>3, <1>4, <1>5 DEF Next

\* The plan of every compile is laid out so: whatever the project and its tiles,
\* the levels printed are in order, and a cycle is reported only when there is
\* one (plangraph.go Levels, on the graph of buildPlanGraph).
THEOREM PlanIsLaidOut == Spec => [](IsFiniteSet(graph.node) => LevelsInOrder /\ StuckMeansCycle)
<1>1. Init => PlanInv
    <2> SUFFICES ASSUME Init PROVE LevelInv
        BY DEF PlanInv
    <2>1. NoGraph
        BY DEF Init, Fresh
    <2>2. /\ graph.node = {} /\ DOMAIN graph.deps = {} /\ indeg = <<>> /\ ready = {}
          /\ levels = <<>> /\ placed = {}
        BY <2>1 DEF NoGraph
    <2>3. FiniteGraph(graph)
        BY <2>2, FS_EmptySet DEF FiniteGraph
    <2>4. indeg = Count(graph)
        BY <2>2 DEF Count
    <2> QED
        BY <2>2, <2>3, <2>4, InitLevelInv
<1>2. PlanInv => (IsFiniteSet(graph.node) => LevelsInOrder /\ StuckMeansCycle)
    BY StuckOnes DEF PlanInv, LevelInv
<1> QED
    BY <1>1, <1>2, PlanInvKept, PTL DEF Spec
=============================================================================
