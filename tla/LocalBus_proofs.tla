--------------------------- MODULE LocalBus_proofs ---------------------------
(***************************************************************************)
(* The generated bus keeps its list right and implements Bus, for any      *)
(* number of calls and of handlers.                                        *)
(***************************************************************************)
EXTENDS LocalBus, SequenceTheorems, TLAPS

(***************************************************************************)
(* Sequences.                                                              *)
(***************************************************************************)
Precedes(s, g, h) == \E i, j \in DOMAIN s : i < j /\ s[i] = g /\ s[j] = h

Once(s) == \A i, j \in DOMAIN s : s[i] = s[j] => i = j

\* One element more.
LEMMA ElemsOfAppend ==
    ASSUME NEW S, NEW s \in Seq(S), NEW e \in S
    PROVE  /\ Append(s, e) \in Seq(S)
           /\ DOMAIN Append(s, e) = DOMAIN s \cup {Len(s) + 1}
           /\ \A i \in DOMAIN s : Append(s, e)[i] = s[i]
           /\ Append(s, e)[Len(s) + 1] = e
           /\ Elems(Append(s, e)) = Elems(s) \cup {e}
<1>1. Append(s, e) \in Seq(S) /\ Len(Append(s, e)) = Len(s) + 1
  OBVIOUS
<1>2. DOMAIN s = 1 .. Len(s) /\ Len(s) \in Nat
  BY LenProperties
<1>3. DOMAIN Append(s, e) = 1 .. Len(s) + 1
  BY <1>1, LenProperties
<1>4. /\ \A i \in DOMAIN s : Append(s, e)[i] = s[i]
      /\ Append(s, e)[Len(s) + 1] = e
  BY <1>2
<1>5. DOMAIN Append(s, e) = DOMAIN s \cup {Len(s) + 1}
  BY <1>2, <1>3
<1> QED BY <1>1, <1>4, <1>5 DEF Elems

\* A new last element comes after the others and moves none.
LEMMA PrecedesAppend ==
    ASSUME NEW S, NEW s \in Seq(S), NEW e \in S
    PROVE  /\ \A g, h : Precedes(s, g, h) => Precedes(Append(s, e), g, h)
           /\ \A g \in Elems(s) : Precedes(Append(s, e), g, e)
           /\ Once(s) /\ e \notin Elems(s) => Once(Append(s, e))
<1>1. DOMAIN s = 1 .. Len(s) /\ Len(s) \in Nat
  BY LenProperties
<1>2. /\ DOMAIN Append(s, e) = DOMAIN s \cup {Len(s) + 1}
      /\ \A i \in DOMAIN s : Append(s, e)[i] = s[i]
      /\ Append(s, e)[Len(s) + 1] = e
  BY ElemsOfAppend
<1>3. ASSUME NEW g, NEW h, Precedes(s, g, h) PROVE Precedes(Append(s, e), g, h)
  BY <1>2, <1>3 DEF Precedes
<1>4. ASSUME NEW g \in Elems(s) PROVE Precedes(Append(s, e), g, e)
  BY <1>1, <1>2 DEF Precedes, Elems
<1>5. ASSUME Once(s), e \notin Elems(s) PROVE Once(Append(s, e))
  BY <1>2, <1>5 DEF Once, Elems
<1> QED BY <1>3, <1>4, <1>5

\* One element less.
LEMMA WithoutOne ==
    ASSUME NEW S, NEW s \in Seq(S), NEW k \in DOMAIN s
    PROVE  /\ Without(s, k) \in Seq(S)
           /\ \A i \in DOMAIN Without(s, k) :
                  /\ (IF i < k THEN i ELSE i + 1) \in DOMAIN s \ {k}
                  /\ Without(s, k)[i] = s[IF i < k THEN i ELSE i + 1]
           /\ \A i \in DOMAIN s \ {k} :
                  /\ (IF i < k THEN i ELSE i - 1) \in DOMAIN Without(s, k)
                  /\ Without(s, k)[IF i < k THEN i ELSE i - 1] = s[i]
<1>1. DOMAIN s = 1 .. Len(s) /\ Len(s) \in Nat /\ k \in 1 .. Len(s)
  BY LenProperties
<1> DEFINE a == SubSeq(s, 1, k - 1)
           b == SubSeq(s, k + 1, Len(s))
<1>2. /\ a \in Seq(S) /\ Len(a) = k - 1
      /\ \A i \in 1 .. k - 1 : a[i] = s[i]
  <2>1. \A i \in 1 .. k - 1 : s[i] \in S
    BY <1>1, ElementOfSeq
  <2>2. 1 \in Int /\ k - 1 \in Int
    BY <1>1
  <2>3. /\ SubSeq(s, 1, k - 1) \in Seq(S)
        /\ Len(SubSeq(s, 1, k - 1)) = IF 1 <= k - 1 THEN k - 1 - 1 + 1 ELSE 0
        /\ \A i \in 1 .. k - 1 - 1 + 1 : SubSeq(s, 1, k - 1)[i] = s[1 + i - 1]
    BY <2>1, <2>2, SubSeqProperties
  <2> QED BY <1>1, <2>3
<1>3. /\ b \in Seq(S) /\ Len(b) = Len(s) - k
      /\ \A i \in 1 .. Len(s) - k : b[i] = s[i + k]
  <2>1. \A i \in k + 1 .. Len(s) : s[i] \in S
    BY <1>1, ElementOfSeq
  <2>2. k + 1 \in Int /\ Len(s) \in Int
    BY <1>1
  <2>3. /\ SubSeq(s, k + 1, Len(s)) \in Seq(S)
        /\ Len(SubSeq(s, k + 1, Len(s))) = IF k + 1 <= Len(s) THEN Len(s) - (k + 1) + 1 ELSE 0
        /\ \A i \in 1 .. Len(s) - (k + 1) + 1 : SubSeq(s, k + 1, Len(s))[i] = s[k + 1 + i - 1]
    BY <2>1, <2>2, SubSeqProperties
  <2> QED BY <1>1, <2>3
<1> HIDE DEF a, b
<1>4. /\ a \o b \in Seq(S) /\ Len(a \o b) = Len(a) + Len(b)
      /\ \A i \in 1 .. Len(a) + Len(b) :
             (a \o b)[i] = IF i <= Len(a) THEN a[i] ELSE b[i - Len(a)]
  BY <1>2, <1>3, ConcatProperties
<1>5. DOMAIN (a \o b) = 1 .. Len(s) - 1
  <2>1. Len(a) + Len(b) = Len(s) - 1
    BY <1>1, <1>2, <1>3
  <2>2. DOMAIN (a \o b) = 1 .. Len(a \o b)
    BY <1>4, LenProperties
  <2> QED BY <1>4, <2>1, <2>2
<1>6. Without(s, k) = a \o b
  BY DEF Without, a, b
<1> DEFINE w == Without(s, k)
<1>7. ASSUME NEW i \in DOMAIN w
      PROVE  /\ (IF i < k THEN i ELSE i + 1) \in DOMAIN s \ {k}
             /\ w[i] = s[IF i < k THEN i ELSE i + 1]
  <2>1. i \in 1 .. Len(s) - 1
    BY <1>5, <1>6
  <2>2. CASE i < k
    BY <1>1, <1>2, <1>3, <1>4, <1>6, <2>1, <2>2
  <2>3. CASE ~(i < k)
    <3>1. i - (k - 1) \in 1 .. Len(s) - k /\ i - (k - 1) + k = i + 1
      BY <1>1, <2>1, <2>3
    <3>2. w[i] = b[i - (k - 1)]
      BY <1>1, <1>2, <1>3, <1>4, <1>6, <2>1, <2>3
    <3> QED BY <1>1, <1>3, <2>1, <2>3, <3>1, <3>2
  <2> QED BY <2>2, <2>3
<1> HIDE DEF w
<1>8. ASSUME NEW i \in DOMAIN s \ {k}
      PROVE  /\ (IF i < k THEN i ELSE i - 1) \in DOMAIN w
             /\ w[IF i < k THEN i ELSE i - 1] = s[i]
  <2>1. DOMAIN w = 1 .. Len(s) - 1
    BY <1>5, <1>6 DEF w
  <2>2. CASE i < k
    BY <1>1, <1>7, <2>1, <2>2
  <2>3. CASE i > k
    <3>1. i - 1 \in DOMAIN w /\ ~(i - 1 < k) /\ ~(i < k) /\ i - 1 + 1 = i
      BY <1>1, <2>1, <2>3
    <3> QED BY <1>7, <3>1
  <2> QED BY <1>1, <2>2, <2>3
<1> QED BY <1>4, <1>6, <1>7, <1>8 DEF w

\* The first element is left out.
LEMMA TailLeaves ==
    ASSUME NEW S, NEW s \in Seq(S), s # <<>>
    PROVE  /\ Head(s) \in S /\ Head(s) = s[1] /\ 1 \in DOMAIN s
           /\ Tail(s) \in Seq(S)
           /\ \A i \in DOMAIN Tail(s) :
                  i + 1 \in DOMAIN s /\ i + 1 > 1 /\ Tail(s)[i] = s[i + 1]
           /\ Elems(s) = {Head(s)} \cup Elems(Tail(s))
<1>1. DOMAIN s = 1 .. Len(s) /\ Len(s) \in Nat /\ Len(s) # 0
  BY LenProperties, EmptySeq
<1>2. /\ Head(s) \in S /\ Tail(s) \in Seq(S) /\ Len(Tail(s)) = Len(s) - 1
      /\ \A i \in 1 .. Len(Tail(s)) : Tail(s)[i] = s[i + 1]
  BY HeadTailProperties
<1>3. DOMAIN Tail(s) = 1 .. Len(s) - 1
  BY <1>2, LenProperties
<1>4. Head(s) = s[1]
  OBVIOUS
<1>5. \A i \in DOMAIN Tail(s) :
          i + 1 \in DOMAIN s /\ i + 1 > 1 /\ Tail(s)[i] = s[i + 1]
  BY <1>1, <1>2, <1>3
<1>6. \A i \in DOMAIN s : i = 1 \/ (i - 1 \in DOMAIN Tail(s) /\ Tail(s)[i - 1] = s[i])
  BY <1>1, <1>2, <1>3
<1>7. Elems(s) = {Head(s)} \cup Elems(Tail(s))
  <2>1. ASSUME NEW i \in DOMAIN s PROVE s[i] \in {Head(s)} \cup Elems(Tail(s))
    BY <1>4, <1>6 DEF Elems
  <2>2. Head(s) \in Elems(s)
    BY <1>1, <1>4 DEF Elems
  <2>3. ASSUME NEW i \in DOMAIN Tail(s) PROVE Tail(s)[i] \in Elems(s)
    BY <1>5 DEF Elems
  <2> QED BY <2>1, <2>2, <2>3 DEF Elems
<1> QED BY <1>1, <1>2, <1>4, <1>5, <1>7

\* The handlers of a list.
LEMMA FnsType ==
    ASSUME NEW s \in Seq([id : Ids, fn : Handlers])
    PROVE  /\ Fns(s) \in Seq(Handlers)
           /\ DOMAIN Fns(s) = DOMAIN s
           /\ \A i \in DOMAIN s : s[i].fn \in Handlers /\ s[i].id \in Ids /\ Fns(s)[i] = s[i].fn
<1>1. /\ DOMAIN s = 1 .. Len(s) /\ Len(s) \in Nat
      /\ \A i \in 1 .. Len(s) : s[i] \in [id : Ids, fn : Handlers]
  BY LenProperties, ElementOfSeq
<1>2. \A i \in 1 .. Len(s) : s[i].fn \in Handlers /\ s[i].id \in Ids
  BY <1>1
<1>3. Fns(s) \in [1 .. Len(s) -> Handlers]
  BY <1>1, <1>2 DEF Fns
<1> QED BY <1>1, <1>2, <1>3 DEF Fns

(***************************************************************************)
(* The inductive invariant, in parts.                                      *)
(***************************************************************************)

\* What a call is for decides where it can be.
CallsMakeSense ==
    \A c \in Calls :
        /\ pc[c] = "unused" => op[c] = "none" /\ arg[c] = None
        /\ pc[c] \in {"lock", "locked"} => op[c] \in {"add", "unsubscribe"} /\ arg[c] \in Handlers
        /\ pc[c] \in {"rlock", "copy", "loop", "handler"} => op[c] = "publish"
        /\ pc[c] = "locked" <=> writer = c

\* add was called once for each handler, and the handlers it has put in the
\* list are those subscribed.
AddedOnce ==
    /\ \A c, d \in Calls :
           op[c] = "add" /\ op[d] = "add" /\ arg[c] = arg[d] => c = d
    /\ \A h \in Elems(subscribed) :
           \E c \in Calls : pc[c] = "done" /\ op[c] = "add" /\ arg[c] = h
    /\ Once(subscribed)
    /\ dropped \subseteq Elems(subscribed)

\* A handler's id is its own.
Captured ==
    /\ \A h \in Handlers : closure[h] <= next
    /\ \A g, h \in Handlers : closure[g] = closure[h] /\ closure[g] # 0 => g = h
    /\ \A i \in DOMAIN list : list[i].id = closure[list[i].fn]

ListInOrder ==
    /\ \A h : (\E i \in DOMAIN list : list[i].fn = h) <=> h \in Elems(subscribed) \ dropped
    /\ \A i, j \in DOMAIN list :
           i < j => Precedes(subscribed, list[i].fn, list[j].fn)

\* What is left of the list a publish copied, with what it has called, covers
\* what it must call, in order and within what it may.
Ahead(c) == {i \in DOMAIN rest[c] : pc[c] = "handler" => i > 1}

BeforeCopy(c) ==
    /\ got[c] = <<>>
    /\ must[c] \subseteq Elems(subscribed) \ dropped
    /\ Elems(subscribed) \ dropped \subseteq may[c]

InLoop(c) ==
    /\ Elems(rest[c]) \subseteq may[c]
    /\ must[c] \subseteq Elems(got[c]) \cup Elems(rest[c])
    /\ \A i, j \in DOMAIN rest[c] :
           i < j => Precedes(subscribed, rest[c][i], rest[c][j])
    /\ \A g \in Elems(got[c]), i \in Ahead(c) : Precedes(subscribed, g, rest[c][i])
    /\ pc[c] = "handler" =>
           rest[c] # <<>> /\ got[c] # <<>> /\ got[c][Len(got[c])] = Head(rest[c])

DeliversAt(c) ==
    /\ errs[c] = failed[c]
    /\ pc[c] = "unused" => got[c] = <<>>
    /\ pc[c] \in {"rlock", "copy"} => BeforeCopy(c)
    /\ pc[c] \in {"loop", "handler"} => InLoop(c)

Delivers == \A c \in Calls : DeliversAt(c)

IInv ==
    /\ TypeOK
    /\ CallsMakeSense
    /\ AddedOnce
    /\ Captured
    /\ ListInOrder
    /\ Delivers

(***************************************************************************)
(* Every step keeps it.                                                    *)
(***************************************************************************)
\* No two places of the list hold one id.
LEMMA HoldsOne ==
    ASSUME IInv, NEW id, NEW i \in Holds(id)
    PROVE  /\ i \in DOMAIN list /\ list[i].id = id /\ FirstOf(Holds(id)) = i
           /\ \A j \in DOMAIN list : list[j].fn = list[i].fn => j = i
           /\ closure[list[i].fn] = id /\ id # 0
<1>1. list \in Seq([id : Ids, fn : Handlers]) /\ i \in DOMAIN list /\ list[i].id = id
  BY DEF IInv, TypeOK, Holds
<1>2. \A j \in DOMAIN list : /\ list[j].fn \in Handlers /\ list[j].id \in Ids
                             /\ list[j].id = closure[list[j].fn] /\ j \in Nat
  <2>1. list[i].id = closure[list[i].fn] /\ DOMAIN list = 1 .. Len(list) /\ Len(list) \in Nat
    BY <1>1, LenProperties DEF IInv, Captured
  <2>2. \A j \in DOMAIN list : list[j].fn \in Handlers /\ list[j].id \in Ids
    BY <1>1, FnsType
  <2> QED BY <2>1, <2>2 DEF IInv, Captured
<1>3. ASSUME NEW j \in DOMAIN list, NEW k \in DOMAIN list, j < k, list[j].fn = list[k].fn
      PROVE  FALSE
  <2>1. Precedes(subscribed, list[j].fn, list[k].fn)
    BY <1>3 DEF IInv, ListInOrder
  <2>2. Once(subscribed) /\ DOMAIN subscribed \subseteq Nat
    BY LenProperties DEF IInv, AddedOnce, TypeOK
  <2> QED BY <1>3, <2>1, <2>2 DEF Precedes, Once
<1>4. \A j \in DOMAIN list : list[j].fn = list[i].fn => j = i
  BY <1>1, <1>2, <1>3
<1>5. id # 0 /\ closure[list[i].fn] = id
  BY <1>1, <1>2 DEF Ids
<1>6. ASSUME NEW j \in Holds(id) PROVE j = i
  <2>1. j \in DOMAIN list /\ closure[list[j].fn] = id
    BY <1>2 DEF Holds
  <2>2. list[j].fn = list[i].fn
    BY <1>1, <1>2, <1>5, <2>1 DEF IInv, Captured
  <2> QED BY <1>4, <2>1, <2>2
<1>7. Holds(id) = {i} /\ i <= i
  BY <1>1, <1>2, <1>6
<1> QED BY <1>1, <1>4, <1>5, <1>7 DEF FirstOf

LEMMA InitInv == Init => IInv
<1> SUFFICES ASSUME Init PROVE IInv
  OBVIOUS
<1>1. TypeOK
  BY NoneAssumption DEF Init, TypeOK, LockIsUsed, Ids
<1>2. CallsMakeSense
  BY NoneAssumption DEF Init, CallsMakeSense, Calls
<1>3. AddedOnce
  BY DEF Init, AddedOnce, Elems, Once
<1>4. Captured /\ ListInOrder
  BY DEF Init, Captured, ListInOrder, Elems
<1>5. Delivers
  BY DEF Init, Delivers, DeliversAt
<1> QED BY <1>1, <1>2, <1>3, <1>4, <1>5 DEF IInv

\* The types stay right (every method of the bus).
LEMMA TypeStep ==
    ASSUME IInv, [Next]_vars
    PROVE  TypeOK'
<1> USE DEF TypeOK, LockIsUsed
<1>0. None \notin Calls
  BY NoneAssumption DEF Calls
<1>1. TypeOK /\ CallsMakeSense
  BY DEF IInv
<1>2. ASSUME NEW c \in Calls, NEW p \in Calls \cup {None}, CallPublish(c, p)
      PROVE  TypeOK'
  <2>1. pc[c] = "unused"
    BY <1>2 DEF CallPublish, Begin, Calls
  <2>2. Elems(subscribed) \subseteq Handlers
    BY <1>1, LenProperties DEF Elems
  <2> QED BY <1>0, <1>1, <1>2, <2>1, <2>2 DEF CallPublish, Begin, lock
<1>3. ASSUME NEW c \in Calls, NEW p \in Calls \cup {None}, NEW h \in Handlers,
             CallAdd(c, p, h) \/ CallUnsubscribe(c, p, h)
      PROVE  TypeOK'
  <2>1. pc[c] = "unused"
    BY <1>3 DEF CallAdd, CallUnsubscribe, Begin, Calls
  <2>2. /\ Begin(c, p, "add", h, "lock") \/ Begin(c, p, "unsubscribe", h, "lock")
        /\ UNCHANGED <<must, may>>
    BY <1>3 DEF CallAdd, CallUnsubscribe
  <2>3. /\ pc' = [pc EXCEPT ![c] = "lock"]
        /\ op' \in [Calls -> {"none", "add", "unsubscribe", "publish"}]
        /\ arg' \in [Calls -> Handlers \cup {None}]
        /\ parent' \in [Calls -> Calls \cup {None}]
        /\ UNCHANGED <<list, next, lock, rest, errs, closure, subscribed, dropped, got,
                       failed, answer>>
    <3>1. /\ pc' = [pc EXCEPT ![c] = "lock"]
          /\ op' = [op EXCEPT ![c] = "add"] \/ op' = [op EXCEPT ![c] = "unsubscribe"]
          /\ arg' = [arg EXCEPT ![c] = h] /\ parent' = [parent EXCEPT ![c] = p]
          /\ UNCHANGED <<list, next, lock, rest, errs, closure, subscribed, dropped, got,
                         failed, answer>>
      BY <2>2 DEF Begin
    <3> QED BY <1>1, <3>1
  <2>4. LockIsUsed'
    BY <1>0, <1>1, <2>1, <2>3 DEF lock
  <2> QED BY <1>1, <2>2, <2>3, <2>4 DEF lock
<1>4. ASSUME NEW c \in Calls, Lock(c) PROVE TypeOK'
  BY <1>0, <1>1, <1>4 DEF Lock, call, history
<1>5. ASSUME NEW c \in Calls, Add(c) PROVE TypeOK'
  <2>1. arg[c] \in Handlers /\ writer = c
    BY <1>1, <1>5 DEF Add, Locked, CallsMakeSense
  <2>2. next + 1 \in Ids /\ [id |-> next + 1, fn |-> arg[c]] \in [id : Ids, fn : Handlers]
    BY <1>1, <2>1 DEF Ids
  <2>3. list' \in Seq([id : Ids, fn : Handlers])
    BY <1>1, <1>5, <2>2, ElemsOfAppend DEF Add, Insert
  <2>4. subscribed' \in Seq(Handlers)
    BY <1>1, <1>5, <2>1, ElemsOfAppend DEF Add, Insert
  <2>5. next' \in Nat /\ closure' \in [Handlers -> Nat] /\ may' \in [Calls -> SUBSET Handlers]
    BY <1>1, <1>5, <2>1 DEF Add, Insert
  <2> QED BY <1>0, <1>1, <1>5, <2>1, <2>3, <2>4, <2>5 DEF Add, Locked, Unlock, call
<1>6. ASSUME NEW c \in Calls, Remove(c) PROVE TypeOK'
  <2>1. arg[c] \in Handlers /\ writer = c
    BY <1>1, <1>6 DEF Remove, Locked, CallsMakeSense
  <2>2. list' \in Seq([id : Ids, fn : Handlers])
    <3>1. CASE Holds(closure[arg[c]]) = {}
      BY <1>1, <1>6, <3>1 DEF Remove
    <3>2. CASE Holds(closure[arg[c]]) # {}
      <4>1. FirstOf(Holds(closure[arg[c]])) \in DOMAIN list
        BY <3>2, HoldsOne
      <4>2. list' = Without(list, FirstOf(Holds(closure[arg[c]])))
        BY <1>6, <3>2 DEF Remove
      <4> QED BY <1>1, <4>1, <4>2, WithoutOne
    <3> QED BY <3>1, <3>2
  <2>3. dropped' \subseteq Handlers /\ must' \in [Calls -> SUBSET Handlers]
    BY <1>1, <1>6, <2>1 DEF Remove
  <2> QED BY <1>0, <1>1, <1>6, <2>1, <2>2, <2>3 DEF Remove, Locked, Unlock, call
<1>7. ASSUME NEW c \in Calls, RLock(c) PROVE TypeOK'
  BY <1>0, <1>1, <1>7 DEF RLock, call, history
<1>8. ASSUME NEW c \in Calls, Copy(c) PROVE TypeOK'
  <2>1. rest' \in [Calls -> Seq(Handlers)]
    BY <1>1, <1>8, FnsType DEF Copy
  <2> QED BY <1>0, <1>1, <1>8, <2>1 DEF Copy, call, history
<1>9. ASSUME NEW c \in Calls, CallHandler(c) PROVE TypeOK'
  <2>1. Head(rest[c]) \in Handlers
    BY <1>1, <1>9, TailLeaves DEF CallHandler
  <2>2. got' \in [Calls -> Seq(Handlers)]
    BY <1>1, <1>9, <2>1, ElemsOfAppend DEF CallHandler
  <2> QED BY <1>0, <1>1, <1>9, <2>2 DEF CallHandler, lock, call
<1>10. ASSUME NEW c \in Calls, EndHandler(c) PROVE TypeOK'
  <2>1. rest[c] # <<>>
    BY <1>10 DEF EndHandler, HandlerEnds, IInv, Delivers, DeliversAt, InLoop
  <2>2. Head(rest[c]) \in Handlers /\ Tail(rest[c]) \in Seq(Handlers)
    BY <1>1, <2>1, TailLeaves
  <2>3. /\ rest' \in [Calls -> Seq(Handlers)]
        /\ errs' \in [Calls -> SUBSET Handlers] /\ failed' \in [Calls -> SUBSET Handlers]
    <3>1. /\ rest' = [rest EXCEPT ![c] = Tail(rest[c])]
          /\ \/ errs' = errs /\ failed' = failed
             \/ /\ errs' = [errs EXCEPT ![c] = errs[c] \cup {Head(rest[c])}]
                /\ failed' = [failed EXCEPT ![c] = failed[c] \cup {Head(rest[c])}]
      BY <1>1, <1>10 DEF EndHandler
    <3>2. rest' \in [Calls -> Seq(Handlers)]
      BY <1>1, <2>2, <3>1
    <3>3. errs' \in [Calls -> SUBSET Handlers] /\ failed' \in [Calls -> SUBSET Handlers]
      <4>1. /\ errs[c] \cup {Head(rest[c])} \in SUBSET Handlers
            /\ failed[c] \cup {Head(rest[c])} \in SUBSET Handlers
        BY <1>1, <2>2
      <4>2. errs' = errs \/ errs' = [errs EXCEPT ![c] = errs[c] \cup {Head(rest[c])}]
        BY <3>1
      <4>3. failed' = failed \/ failed' = [failed EXCEPT ![c] = failed[c] \cup {Head(rest[c])}]
        BY <3>1
      <4>4. errs \in [Calls -> SUBSET Handlers] /\ failed \in [Calls -> SUBSET Handlers]
        BY <1>1
      <4>5. errs' \in [Calls -> SUBSET Handlers]
        BY ONLY <4>1, <4>2, <4>4
      <4>6. failed' \in [Calls -> SUBSET Handlers]
        BY ONLY <4>1, <4>3, <4>4
      <4> QED BY <4>5, <4>6
    <3> QED BY <3>2, <3>3
  <2> QED BY <1>0, <1>1, <1>10, <2>3 DEF EndHandler, HandlerEnds, lock, call
<1>11. ASSUME NEW c \in Calls, PanicHandler(c) \/ Return(c) PROVE TypeOK'
  <2>1. pc[c] \in {"loop", "handler"} /\ End(c)
    BY <1>11 DEF PanicHandler, Return, HandlerEnds
  <2>2. /\ answer' \in [Calls -> SUBSET Handlers]
        /\ UNCHANGED <<list, next, lock, call, closure, subscribed, dropped>>
    BY <1>1, <1>11 DEF PanicHandler, Return
  <2>3. /\ rest' \in [Calls -> Seq(Handlers)] /\ got' \in [Calls -> Seq(Handlers)]
        /\ errs' \in [Calls -> SUBSET Handlers] /\ failed' \in [Calls -> SUBSET Handlers]
        /\ must' \in [Calls -> SUBSET Handlers] /\ may' \in [Calls -> SUBSET Handlers]
    BY <1>1, <2>1 DEF End
  <2>4. pc' = [pc EXCEPT ![c] = "done"]
    BY <2>1 DEF End
  <2>5. LockIsUsed'
    BY <1>0, <1>1, <2>1, <2>2, <2>4 DEF lock
  <2> QED BY <1>1, <2>2, <2>3, <2>4, <2>5 DEF call
<1>12. CASE UNCHANGED vars
  BY <1>1, <1>12 DEF vars, lock, call, history
<1> QED BY <1>2, <1>3, <1>4, <1>5, <1>6, <1>7, <1>8, <1>9, <1>10, <1>11, <1>12 DEF Next, Step

LEMMA CallsStep ==
    ASSUME IInv, [Next]_vars
    PROVE  CallsMakeSense'
<1> USE DEF CallsMakeSense
<1>0. None \notin Calls /\ None \notin Handlers
  BY NoneAssumption DEF Calls, Handlers
<1>1. /\ CallsMakeSense
      /\ pc \in [Calls -> {"unused", "lock", "locked", "rlock", "copy", "loop",
                           "handler", "done"}]
      /\ op \in [Calls -> {"none", "add", "unsubscribe", "publish"}]
      /\ arg \in [Calls -> Handlers \cup {None}]
  BY DEF IInv, TypeOK
<1>2. ASSUME NEW c \in Calls, NEW p \in Calls \cup {None},
             \/ CallPublish(c, p)
             \/ \E h \in Handlers : CallAdd(c, p, h) \/ CallUnsubscribe(c, p, h)
      PROVE  CallsMakeSense'
  <2>1. pc[c] = "unused" /\ writer' = writer
    BY <1>2 DEF CallPublish, CallAdd, CallUnsubscribe, Begin, Calls, lock
  <2>2. PICK h \in Handlers \cup {None} :
            \/ /\ pc' = [pc EXCEPT ![c] = "rlock"] /\ op' = [op EXCEPT ![c] = "publish"]
               /\ arg' = [arg EXCEPT ![c] = None]
            \/ /\ pc' = [pc EXCEPT ![c] = "lock"]
               /\ \/ op' = [op EXCEPT ![c] = "add"]
                  \/ op' = [op EXCEPT ![c] = "unsubscribe"]
               /\ arg' = [arg EXCEPT ![c] = h] /\ h \in Handlers
    BY <1>2 DEF CallPublish, CallAdd, CallUnsubscribe, Begin
  <2>3. \A d \in Calls \ {c} : pc'[d] = pc[d] /\ op'[d] = op[d] /\ arg'[d] = arg[d]
    BY <1>1, <2>2
  <2>4. /\ pc'[c] \in {"rlock", "lock"}
        /\ pc'[c] = "lock" => op'[c] \in {"add", "unsubscribe"} /\ arg'[c] \in Handlers
        /\ pc'[c] = "rlock" => op'[c] = "publish"
    BY <1>1, <2>2
  <2> QED BY <1>1, <2>1, <2>3, <2>4
<1>3. ASSUME NEW c \in Calls, Lock(c) PROVE CallsMakeSense'
  BY <1>0, <1>1, <1>3 DEF Lock, call
<1>4. ASSUME NEW c \in Calls, Add(c) \/ Remove(c) PROVE CallsMakeSense'
  BY <1>0, <1>1, <1>4 DEF Add, Remove, Locked, Unlock, call
<1>5. ASSUME NEW c \in Calls, RLock(c) \/ Copy(c) PROVE CallsMakeSense'
  BY <1>1, <1>5 DEF RLock, Copy, call
<1>6. ASSUME NEW c \in Calls, CallHandler(c) \/ EndHandler(c) PROVE CallsMakeSense'
  BY <1>1, <1>6 DEF CallHandler, EndHandler, HandlerEnds, call, lock
<1>7. ASSUME NEW c \in Calls, PanicHandler(c) \/ Return(c) PROVE CallsMakeSense'
  BY <1>1, <1>7 DEF PanicHandler, Return, HandlerEnds, End, call, lock
<1>8. CASE UNCHANGED vars
  BY <1>1, <1>8 DEF vars, lock, call
<1> QED BY <1>2, <1>3, <1>4, <1>5, <1>6, <1>7, <1>8 DEF Next, Step

\* Only add and the func it returns touch the list.
LEMMA WhoTouchesTheList ==
    ASSUME [Next]_vars
    PROVE  \/ \E c \in Calls : Add(c) \/ Remove(c)
           \/ UNCHANGED <<list, next, closure, subscribed, dropped>>
<1> USE DEF history
<1>1. ASSUME NEW c \in Calls, NEW p \in Calls \cup {None},
             \/ CallPublish(c, p)
             \/ \E h \in Handlers : CallAdd(c, p, h) \/ CallUnsubscribe(c, p, h)
      PROVE  UNCHANGED <<list, next, closure, subscribed, dropped>>
  BY <1>1 DEF CallPublish, CallAdd, CallUnsubscribe, Begin
<1>2. ASSUME NEW c \in Calls,
             \/ Lock(c) \/ RLock(c) \/ Copy(c) \/ CallHandler(c) \/ EndHandler(c)
             \/ PanicHandler(c) \/ Return(c)
      PROVE  UNCHANGED <<list, next, closure, subscribed, dropped>>
  BY <1>2 DEF Lock, RLock, Copy, CallHandler, EndHandler, PanicHandler, Return
<1>3. CASE UNCHANGED vars
  BY <1>3 DEF vars
<1> QED BY <1>1, <1>2, <1>3 DEF Next, Step

\* The handler an add puts in the list is new to it.
LEMMA AddsNew ==
    ASSUME IInv, NEW c \in Calls, Add(c)
    PROVE  arg[c] \in Handlers /\ arg[c] \notin Elems(subscribed)
<1>1. op[c] = "add" /\ pc[c] = "locked" /\ arg[c] \in Handlers
  BY DEF Add, Locked, IInv, CallsMakeSense
<1>2. \A d \in Calls : op[d] = "add" /\ arg[d] = arg[c] => d = c
  BY <1>1 DEF IInv, AddedOnce
<1> QED BY <1>1, <1>2 DEF IInv, AddedOnce

\* What an unsubscribe takes out is its own handler.
LEMMA RemovesItsOwn ==
    ASSUME IInv, NEW c \in Calls, Remove(c)
    PROVE  \/ UNCHANGED <<list, dropped, must>>
           \/ \E i \in DOMAIN list :
                  /\ list[i].fn = arg[c]
                  /\ \A j \in DOMAIN list : list[j].fn = arg[c] => j = i
                  /\ list' = Without(list, i)
                  /\ dropped' = dropped \cup {arg[c]}
                  /\ must' = [d \in Calls |-> must[d] \ {arg[c]}]
<1> DEFINE at == Holds(closure[arg[c]])
<1>1. arg[c] \in Handlers
  BY DEF Remove, Locked, IInv, CallsMakeSense
<1>2. CASE at = {}
  BY <1>2 DEF Remove
<1>3. CASE at # {}
  <2>1. PICK i \in at : TRUE
    BY <1>3
  <2>2. /\ i \in DOMAIN list /\ FirstOf(at) = i
        /\ \A j \in DOMAIN list : list[j].fn = list[i].fn => j = i
        /\ closure[list[i].fn] = closure[arg[c]] /\ closure[arg[c]] # 0
    BY <2>1, HoldsOne
  <2>3. list[i].fn \in Handlers
    BY <2>2, FnsType DEF IInv, TypeOK
  <2>4. list[i].fn = arg[c]
    BY <1>1, <2>2, <2>3 DEF IInv, Captured
  <2>5. /\ list' = Without(list, FirstOf(at))
        /\ dropped' = dropped \cup {arg[c]}
        /\ must' = [d \in Calls |-> must[d] \ {arg[c]}]
    BY <1>3 DEF Remove
  <2> QED BY <2>2, <2>4, <2>5
<1> QED BY <1>2, <1>3

LEMMA AddedOnceStep ==
    ASSUME IInv, [Next]_vars
    PROVE  AddedOnce'
<1> USE DEF AddedOnce
<1>0. /\ AddedOnce /\ subscribed \in Seq(Handlers)
      /\ pc \in [Calls -> {"unused", "lock", "locked", "rlock", "copy", "loop",
                           "handler", "done"}]
      /\ op \in [Calls -> {"none", "add", "unsubscribe", "publish"}]
      /\ arg \in [Calls -> Handlers \cup {None}]
  BY DEF IInv, TypeOK
<1>1. ASSUME UNCHANGED <<op, arg, subscribed, dropped>>,
             \A d \in Calls : pc[d] = "done" => pc'[d] = "done"
      PROVE  AddedOnce'
  <2>1. \A h \in Elems(subscribed) :
            \E d \in Calls : pc'[d] = "done" /\ op'[d] = "add" /\ arg'[d] = h
    BY <1>0, <1>1
  <2> QED BY <1>0, <1>1, <2>1
<1>2. ASSUME NEW c \in Calls, NEW p \in Calls \cup {None},
             \/ CallPublish(c, p)
             \/ \E h \in Handlers : CallAdd(c, p, h) \/ CallUnsubscribe(c, p, h)
      PROVE  AddedOnce'
  <2>1. pc[c] = "unused" /\ UNCHANGED <<subscribed, dropped>>
    BY <1>2 DEF CallPublish, CallAdd, CallUnsubscribe, Begin, Calls
  <2>2. /\ \A d \in Calls \ {c} : pc'[d] = pc[d] /\ op'[d] = op[d] /\ arg'[d] = arg[d]
        /\ op'[c] = "add" => \A d \in Calls : arg[d] # arg'[c]
    <3>1. CASE CallPublish(c, p)
      BY <1>0, <3>1 DEF CallPublish, Begin
    <3>2. ASSUME NEW h \in Handlers, CallAdd(c, p, h)
          PROVE  <2>2!1 /\ <2>2!2
      <4>1. ~(h < h)
        BY DEF Handlers
      <4> QED BY <1>0, <3>2, <4>1 DEF CallAdd, Begin
    <3>3. ASSUME NEW h \in Handlers, CallUnsubscribe(c, p, h)
          PROVE  <2>2!1 /\ <2>2!2
      BY <1>0, <3>3 DEF CallUnsubscribe, Begin
    <3> QED BY <1>2, <3>1, <3>2, <3>3
  <2>3. \A d, e \in Calls : op'[d] = "add" /\ op'[e] = "add" /\ arg'[d] = arg'[e] => d = e
    BY <1>0, <2>2
  <2>4. \A h \in Elems(subscribed) :
            \E d \in Calls : pc'[d] = "done" /\ op'[d] = "add" /\ arg'[d] = h
    BY <1>0, <2>1, <2>2
  <2> QED BY <1>0, <2>1, <2>3, <2>4
<1>3. ASSUME NEW c \in Calls, Add(c) PROVE AddedOnce'
  <2>1. arg[c] \in Handlers /\ arg[c] \notin Elems(subscribed)
    BY <1>3, AddsNew
  <2>2. subscribed' = Append(subscribed, arg[c]) /\ UNCHANGED <<op, arg, dropped>>
    BY <1>3 DEF Add, Insert, call
  <2>3. pc' = [pc EXCEPT ![c] = "done"] /\ op[c] = "add"
    BY <1>3 DEF Add, Locked, Unlock
  <2>4. Elems(subscribed') = Elems(subscribed) \cup {arg[c]} /\ Once(subscribed')
    BY <1>0, <2>1, <2>2, ElemsOfAppend, PrecedesAppend
  <2>5. \A h \in Elems(subscribed') :
            \E d \in Calls : pc'[d] = "done" /\ op'[d] = "add" /\ arg'[d] = h
    BY <1>0, <2>2, <2>3, <2>4
  <2>6. \A d, e \in Calls : op'[d] = "add" /\ op'[e] = "add" /\ arg'[d] = arg'[e] => d = e
    BY <1>0, <2>2
  <2>7. dropped' \subseteq Elems(subscribed')
    BY <1>0, <2>2, <2>4
  <2> QED BY ONLY <2>4, <2>5, <2>6, <2>7 DEF AddedOnce
<1>4. ASSUME NEW c \in Calls, Remove(c) PROVE AddedOnce'
  <2>1. \/ dropped' = dropped
        \/ /\ dropped' = dropped \cup {arg[c]}
           /\ \E i \in DOMAIN list : list[i].fn = arg[c]
    BY <1>4, RemovesItsOwn
  <2>2. dropped' \subseteq Elems(subscribed)
    BY <1>0, <2>1 DEF IInv, ListInOrder
  <2>3. /\ UNCHANGED <<op, arg, subscribed>>
        /\ pc' = [pc EXCEPT ![c] = "done"]
    BY <1>4 DEF Remove, Unlock, call
  <2>4. \A h \in Elems(subscribed) :
            \E d \in Calls : pc'[d] = "done" /\ op'[d] = "add" /\ arg'[d] = h
    BY <1>0, <2>3
  <2> QED BY <1>0, <2>2, <2>3, <2>4
<1>5. ASSUME NEW c \in Calls, Lock(c) \/ RLock(c) \/ Copy(c) PROVE AddedOnce'
  BY <1>0, <1>1, <1>5 DEF Lock, RLock, Copy, call, history
<1>6. ASSUME NEW c \in Calls, CallHandler(c) \/ EndHandler(c) PROVE AddedOnce'
  BY <1>0, <1>1, <1>6 DEF CallHandler, EndHandler, HandlerEnds, call, lock
<1>7. ASSUME NEW c \in Calls, PanicHandler(c) \/ Return(c) PROVE AddedOnce'
  BY <1>0, <1>1, <1>7 DEF PanicHandler, Return, HandlerEnds, End, call, lock
<1>8. CASE UNCHANGED vars
  BY <1>0, <1>1, <1>8 DEF vars, lock, call, history
<1> QED BY <1>2, <1>3, <1>4, <1>5, <1>6, <1>7, <1>8 DEF Next, Step

LEMMA CapturedStep ==
    ASSUME IInv, [Next]_vars
    PROVE  Captured'
<1>1. /\ Captured /\ list \in Seq([id : Ids, fn : Handlers]) /\ next \in Nat
      /\ closure \in [Handlers -> Nat]
  BY DEF IInv, TypeOK
<1>2. \A i \in DOMAIN list : list[i].fn \in Handlers /\ list[i].id \in Ids
  BY <1>1, FnsType
<1>3. CASE UNCHANGED <<list, next, closure, subscribed, dropped>>
  BY <1>1, <1>3 DEF Captured
<1>4. ASSUME NEW c \in Calls, Add(c) PROVE Captured'
  <2>1. arg[c] \in Handlers /\ arg[c] \notin Elems(subscribed)
    BY <1>4, AddsNew
  <2>2. /\ list' = Append(list, [id |-> next + 1, fn |-> arg[c]])
        /\ closure' = [closure EXCEPT ![arg[c]] = next + 1] /\ next' = next + 1
    BY <1>4 DEF Add, Insert
  <2>3. /\ DOMAIN list' = DOMAIN list \cup {Len(list) + 1}
        /\ \A i \in DOMAIN list : list'[i] = list[i]
        /\ list'[Len(list) + 1] = [id |-> next + 1, fn |-> arg[c]]
    BY <1>1, <2>1, <2>2, ElemsOfAppend DEF Ids
  <2>4. \A h \in Handlers : closure[h] <= next
    BY <1>1 DEF Captured
  <2>5. \A h \in Handlers : closure'[h] <= next'
    BY <1>1, <2>2, <2>4
  <2>6. \A g, h \in Handlers : closure'[g] = closure'[h] /\ closure'[g] # 0 => g = h
    BY <1>1, <2>2, <2>4 DEF Captured
  <2>7. ASSUME NEW i \in DOMAIN list PROVE list'[i].id = closure'[list'[i].fn]
    <3>1. list[i].fn # arg[c]
      BY <2>1 DEF IInv, ListInOrder
    <3> QED BY <1>1, <1>2, <2>2, <2>3, <3>1 DEF Captured
  <2>8. list'[Len(list) + 1].id = closure'[list'[Len(list) + 1].fn]
    BY <1>1, <2>1, <2>2, <2>3
  <2> QED BY <2>3, <2>5, <2>6, <2>7, <2>8 DEF Captured
<1>5. ASSUME NEW c \in Calls, Remove(c) PROVE Captured'
  <2>1. UNCHANGED <<closure, next>>
    BY <1>5 DEF Remove
  <2>2. \A i \in DOMAIN list' : \E j \in DOMAIN list : list'[i] = list[j]
    <3>1. CASE list' = list
      BY <3>1
    <3>2. ASSUME NEW k \in DOMAIN list, list' = Without(list, k)
          PROVE  \A i \in DOMAIN list' : \E j \in DOMAIN list : list'[i] = list[j]
      BY <1>1, <3>2, WithoutOne
    <3> QED BY <1>5, <3>1, <3>2, RemovesItsOwn
  <2> QED BY <1>1, <2>1, <2>2 DEF Captured
<1> QED BY <1>3, <1>4, <1>5, WhoTouchesTheList

LEMMA ListInOrderStep ==
    ASSUME IInv, [Next]_vars
    PROVE  ListInOrder'
<1>1. /\ ListInOrder /\ list \in Seq([id : Ids, fn : Handlers])
      /\ subscribed \in Seq(Handlers) /\ dropped \subseteq Elems(subscribed)
      /\ next \in Nat
  BY DEF IInv, TypeOK, AddedOnce
<1>2. CASE UNCHANGED <<list, next, closure, subscribed, dropped>>
  BY <1>1, <1>2 DEF ListInOrder
<1>3. ASSUME NEW c \in Calls, Add(c) PROVE ListInOrder'
  <2>1. arg[c] \in Handlers /\ arg[c] \notin Elems(subscribed)
    BY <1>3, AddsNew
  <2>2. /\ list' = Append(list, [id |-> next + 1, fn |-> arg[c]])
        /\ subscribed' = Append(subscribed, arg[c]) /\ dropped' = dropped
    BY <1>3 DEF Add, Insert
  <2>3. /\ DOMAIN list' = DOMAIN list \cup {Len(list) + 1}
        /\ \A i \in DOMAIN list : list'[i] = list[i]
        /\ list'[Len(list) + 1].fn = arg[c]
        /\ DOMAIN list = 1 .. Len(list) /\ Len(list) \in Nat
    BY <1>1, <2>1, <2>2, ElemsOfAppend, LenProperties DEF Ids
  <2>4. /\ Elems(subscribed') = Elems(subscribed) \cup {arg[c]}
        /\ \A g, h : Precedes(subscribed, g, h) => Precedes(subscribed', g, h)
        /\ \A g \in Elems(subscribed) : Precedes(subscribed', g, arg[c])
    BY <1>1, <2>1, <2>2, ElemsOfAppend, PrecedesAppend
  <2>5. ASSUME NEW h
        PROVE  (\E i \in DOMAIN list' : list'[i].fn = h) <=> h \in Elems(subscribed') \ dropped'
    BY <1>1, <2>1, <2>2, <2>3, <2>4 DEF ListInOrder
  <2>6. ASSUME NEW i \in DOMAIN list', NEW j \in DOMAIN list', i < j
        PROVE  Precedes(subscribed', list'[i].fn, list'[j].fn)
    <3>1. i \in DOMAIN list
      BY <2>3, <2>6
    <3>2. list[i].fn \in Elems(subscribed)
      BY <1>1, <3>1 DEF ListInOrder
    <3>3. CASE j \in DOMAIN list
      BY <1>1, <2>3, <2>4, <2>6, <3>1, <3>3 DEF ListInOrder
    <3>4. CASE j = Len(list) + 1
      BY <2>3, <2>4, <3>1, <3>2, <3>4
    <3> QED BY <2>3, <3>3, <3>4
  <2> QED BY <2>5, <2>6 DEF ListInOrder
<1>4. ASSUME NEW c \in Calls, Remove(c) PROVE ListInOrder'
  <2>1. subscribed' = subscribed
    BY <1>4 DEF Remove
  <2>2. CASE UNCHANGED <<list, dropped, must>>
    BY <1>1, <2>1, <2>2 DEF ListInOrder
  <2>3. ASSUME NEW k \in DOMAIN list,
               list[k].fn = arg[c],
               \A j \in DOMAIN list : list[j].fn = arg[c] => j = k,
               list' = Without(list, k),
               dropped' = dropped \cup {arg[c]}
        PROVE  ListInOrder'
    <3> DEFINE Old(i) == IF i < k THEN i ELSE i + 1
               New(i) == IF i < k THEN i ELSE i - 1
    <3>1. /\ list' \in Seq([id : Ids, fn : Handlers])
          /\ \A i \in DOMAIN list' : Old(i) \in DOMAIN list \ {k} /\ list'[i] = list[Old(i)]
          /\ \A i \in DOMAIN list \ {k} : New(i) \in DOMAIN list' /\ list'[New(i)] = list[i]
      BY <1>1, <2>3, WithoutOne
    <3>2. DOMAIN list \subseteq Nat /\ DOMAIN list' \subseteq Nat
      BY <1>1, <3>1, LenProperties
    <3>3. \A i, j \in DOMAIN list' : i < j => Old(i) < Old(j)
      BY <2>3, <3>2
    <3> HIDE DEF Old, New
    <3>4. ASSUME NEW h
          PROVE  (\E i \in DOMAIN list' : list'[i].fn = h) <=> h \in Elems(subscribed) \ dropped'
      <4>1. (\E i \in DOMAIN list' : list'[i].fn = h) <=> \E i \in DOMAIN list \ {k} : list[i].fn = h
        BY <3>1
      <4>2. (\E i \in DOMAIN list \ {k} : list[i].fn = h)
                <=> (\E i \in DOMAIN list : list[i].fn = h) /\ h # arg[c]
        BY <2>3
      <4> QED BY <1>1, <2>3, <4>1, <4>2 DEF ListInOrder
    <3>5. ASSUME NEW i \in DOMAIN list', NEW j \in DOMAIN list', i < j
          PROVE  Precedes(subscribed, list'[i].fn, list'[j].fn)
      BY <1>1, <3>1, <3>3, <3>5, SMTT(30) DEF ListInOrder
    <3> QED BY <2>1, <3>4, <3>5 DEF ListInOrder
  <2> QED BY <1>4, <2>2, <2>3, RemovesItsOwn
<1> QED BY <1>2, <1>3, <1>4, WhoTouchesTheList

(***************************************************************************)
(* Deliveries: first the calls that the step is not of.                    *)
(***************************************************************************)
\* Nothing changes that a call's deliveries are about.
LEMMA Undisturbed ==
    ASSUME NEW d \in Calls, DeliversAt(d),
           pc'[d] = pc[d], rest'[d] = rest[d], got'[d] = got[d],
           errs'[d] = errs[d], failed'[d] = failed[d],
           must'[d] = must[d], may'[d] = may[d],
           UNCHANGED <<subscribed, dropped>>
    PROVE  DeliversAt(d)'
<1>1. pc[d] \in {"rlock", "copy"} => BeforeCopy(d)'
  BY DEF DeliversAt, BeforeCopy
<1>2. pc[d] \in {"loop", "handler"} => InLoop(d)'
  BY DEF DeliversAt, InLoop, Ahead
<1> QED BY <1>1, <1>2 DEF DeliversAt

\* A handler more: every publish under way may call it.
LEMMA AddDelivers ==
    ASSUME IInv, NEW c \in Calls, Add(c), NEW d \in Calls, DeliversAt(d)
    PROVE  DeliversAt(d)'
<1>1. /\ pc \in [Calls -> {"unused", "lock", "locked", "rlock", "copy", "loop",
                           "handler", "done"}]
      /\ subscribed \in Seq(Handlers) /\ arg[c] \in Handlers
  BY AddsNew DEF IInv, TypeOK
<1>2. /\ pc' = [pc EXCEPT ![c] = "done"] /\ pc[c] = "locked"
      /\ UNCHANGED <<rest, got, errs, failed, must, dropped>>
      /\ subscribed' = Append(subscribed, arg[c])
      /\ may' = [e \in Calls |-> IF e \in Publishing THEN may[e] \cup {arg[c]} ELSE may[e]]
  BY DEF Add, Locked, Insert, Unlock
<1>3. /\ Elems(subscribed') = Elems(subscribed) \cup {arg[c]}
      /\ \A g, h : Precedes(subscribed, g, h) => Precedes(subscribed', g, h)
  BY <1>1, <1>2, ElemsOfAppend, PrecedesAppend
<1>4. may[d] \subseteq may'[d]
  BY <1>2
<1>5. ASSUME pc'[d] \in {"rlock", "copy"} PROVE BeforeCopy(d)'
  <2>1. pc[d] = pc'[d] /\ BeforeCopy(d)
    BY <1>1, <1>2, <1>5 DEF DeliversAt
  <2>2. d \in Publishing
    BY <1>5, <2>1 DEF IInv, CallsMakeSense, Publishing, Active
  <2>3. may'[d] = may[d] \cup {arg[c]}
    BY <1>2, <2>2
  <2>4. arg[c] \notin dropped
    BY AddsNew DEF IInv, AddedOnce
  <2> QED BY <1>2, <1>3, <2>1, <2>3, <2>4 DEF BeforeCopy
<1>6. ASSUME pc'[d] \in {"loop", "handler"} PROVE InLoop(d)'
  <2>1. pc[d] = pc'[d] /\ InLoop(d)
    BY <1>1, <1>2, <1>6 DEF DeliversAt
  <2>2. Ahead(d)' = Ahead(d) /\ UNCHANGED <<rest, got, must>>
    BY <1>2, <2>1 DEF Ahead
  <2> QED BY <1>3, <1>4, <2>1, <2>2 DEF InLoop
<1>7. errs'[d] = failed'[d] /\ (pc'[d] = "unused" => got'[d] = <<>>)
  BY <1>1, <1>2 DEF DeliversAt
<1> QED BY <1>5, <1>6, <1>7 DEF DeliversAt

\* A handler less: no publish under way must call it.
LEMMA RemoveDelivers ==
    ASSUME IInv, NEW c \in Calls, Remove(c), NEW d \in Calls, DeliversAt(d)
    PROVE  DeliversAt(d)'
<1>1. pc \in [Calls -> {"unused", "lock", "locked", "rlock", "copy", "loop",
                       "handler", "done"}]
  BY DEF IInv, TypeOK
<1>2. /\ pc' = [pc EXCEPT ![c] = "done"] /\ pc[c] = "locked"
      /\ UNCHANGED <<rest, got, errs, failed, may, subscribed>>
  BY DEF Remove, Locked, Unlock
<1>3. /\ must'[d] \subseteq must[d]
      /\ \/ dropped' = dropped
         \/ dropped' = dropped \cup {arg[c]} /\ must'[d] = must[d] \ {arg[c]}
  BY RemovesItsOwn
<1>4. ASSUME pc'[d] \in {"rlock", "copy"} PROVE BeforeCopy(d)'
  <2>1. BeforeCopy(d)
    BY <1>1, <1>2, <1>4 DEF DeliversAt
  <2> QED BY <1>2, <1>3, <2>1 DEF BeforeCopy
<1>5. ASSUME pc'[d] \in {"loop", "handler"} PROVE InLoop(d)'
  <2>1. pc[d] = pc'[d] /\ InLoop(d)
    BY <1>1, <1>2, <1>5 DEF DeliversAt
  <2>2. Ahead(d)' = Ahead(d) /\ UNCHANGED <<rest, got, may, subscribed>>
    BY <1>2, <2>1 DEF Ahead
  <2> QED BY <1>3, <2>1, <2>2 DEF InLoop
<1>6. errs'[d] = failed'[d] /\ (pc'[d] = "unused" => got'[d] = <<>>)
  BY <1>1, <1>2 DEF DeliversAt
<1> QED BY <1>4, <1>5, <1>6 DEF DeliversAt

\* What a publish copies from the list.
LEMMA Copied ==
    ASSUME list \in Seq([id : Ids, fn : Handlers]), ListInOrder
    PROVE  /\ DOMAIN Fns(list) = DOMAIN list
           /\ \A i \in DOMAIN list : Fns(list)[i] = list[i].fn
           /\ Elems(Fns(list)) = Elems(subscribed) \ dropped
<1>1. /\ DOMAIN Fns(list) = DOMAIN list
      /\ \A i \in DOMAIN list : Fns(list)[i] = list[i].fn
  BY FnsType
<1>2. \A h : h \in Elems(Fns(list)) <=> \E i \in DOMAIN list : list[i].fn = h
  BY <1>1 DEF Elems
<1>3. \A h : h \in Elems(Fns(list)) <=> h \in Elems(subscribed) \ dropped
  BY <1>2 DEF ListInOrder
<1> QED BY <1>1, <1>3

\* The call's own steps.
LEMMA OwnStepDelivers ==
    ASSUME IInv, NEW c \in Calls,
           \/ Lock(c) \/ RLock(c) \/ Copy(c) \/ CallHandler(c) \/ EndHandler(c)
           \/ PanicHandler(c) \/ Return(c)
    PROVE  DeliversAt(c)'
<1>0. /\ pc \in [Calls -> {"unused", "lock", "locked", "rlock", "copy", "loop",
                           "handler", "done"}]
      /\ rest \in [Calls -> Seq(Handlers)] /\ got \in [Calls -> Seq(Handlers)]
      /\ errs \in [Calls -> SUBSET Handlers] /\ failed \in [Calls -> SUBSET Handlers]
      /\ must \in [Calls -> SUBSET Handlers] /\ may \in [Calls -> SUBSET Handlers]
      /\ list \in Seq([id : Ids, fn : Handlers])
      /\ DeliversAt(c) /\ ListInOrder
  BY DEF IInv, TypeOK, Delivers
<1>1. CASE Lock(c)
  BY <1>0, <1>1 DEF Lock, history, DeliversAt
<1>2. CASE RLock(c)
  <2>1. pc'[c] = "copy" /\ BeforeCopy(c) /\ UNCHANGED <<rest, errs, history>>
    BY <1>0, <1>2 DEF RLock, DeliversAt
  <2>2. BeforeCopy(c)'
    BY <2>1 DEF BeforeCopy, history
  <2> QED BY <1>0, <2>1, <2>2 DEF DeliversAt, history
<1>3. CASE Copy(c)
  <2>1. /\ pc'[c] = "loop" /\ BeforeCopy(c) /\ UNCHANGED <<errs, history>>
        /\ rest'[c] = Fns(list)
    BY <1>0, <1>3 DEF Copy, DeliversAt
  <2>2. /\ DOMAIN rest'[c] = DOMAIN list
        /\ \A i \in DOMAIN list : rest'[c][i] = list[i].fn
        /\ Elems(rest'[c]) = Elems(subscribed) \ dropped
    BY <1>0, <2>1, Copied
  <2>3. /\ got'[c] = <<>> /\ subscribed' = subscribed
        /\ must'[c] \subseteq Elems(rest'[c]) /\ Elems(rest'[c]) \subseteq may'[c]
    BY <2>1, <2>2 DEF BeforeCopy, history
  <2>4. \A i, j \in DOMAIN rest'[c] : i < j => Precedes(subscribed, rest'[c][i], rest'[c][j])
    BY <1>0, <2>2 DEF ListInOrder
  <2>5. InLoop(c)'
    <3>1. \A g : g \notin Elems(got'[c])
      BY <2>3 DEF Elems
    <3> QED BY <2>1, <2>3, <2>4, <3>1 DEF InLoop
  <2> QED BY <1>0, <2>1, <2>5 DEF DeliversAt, history
<1>4. CASE CallHandler(c)
  <2>1. /\ pc[c] = "loop" /\ pc'[c] = "handler" /\ InLoop(c) /\ rest[c] # <<>>
        /\ got'[c] = Append(got[c], Head(rest[c]))
        /\ UNCHANGED <<rest, errs, must, may, failed, subscribed>>
    BY <1>0, <1>4 DEF CallHandler, DeliversAt
  <2>2. rest[c] \in Seq(Handlers) /\ got[c] \in Seq(Handlers)
    BY <1>0
  <2>3. Head(rest[c]) \in Handlers /\ Head(rest[c]) = rest[c][1] /\ 1 \in DOMAIN rest[c]
    BY <2>1, <2>2, TailLeaves
  <2>4. /\ Elems(got'[c]) = Elems(got[c]) \cup {Head(rest[c])}
        /\ got'[c] # <<>> /\ got'[c][Len(got'[c])] = Head(rest[c])
    <3>1. /\ got'[c] \in Seq(Handlers) /\ Elems(got'[c]) = Elems(got[c]) \cup {Head(rest[c])}
          /\ DOMAIN got'[c] = DOMAIN got[c] \cup {Len(got[c]) + 1}
          /\ got'[c][Len(got[c]) + 1] = Head(rest[c])
      BY <2>1, <2>2, <2>3, ElemsOfAppend
    <3>2. Len(got'[c]) = Len(got[c]) + 1
      BY <2>1, <2>2, <2>3
    <3> QED BY <3>1, <3>2, EmptySeq, LenProperties, <2>2
  <2>5. ASSUME NEW g \in Elems(got'[c]), NEW i \in DOMAIN rest[c], i > 1
        PROVE  Precedes(subscribed, g, rest[c][i])
    BY <2>1, <2>3, <2>4, <2>5 DEF InLoop, Ahead
  <2>6. InLoop(c)'
    BY <2>1, <2>4, <2>5 DEF InLoop, Ahead
  <2> QED BY <1>0, <2>1, <2>6 DEF DeliversAt
<1>5. CASE EndHandler(c)
  <2>1. /\ pc[c] = "handler" /\ pc'[c] = "loop" /\ InLoop(c) /\ rest[c] # <<>>
        /\ rest'[c] = Tail(rest[c])
        /\ UNCHANGED <<got, must, may, subscribed>>
    BY <1>0, <1>5 DEF EndHandler, HandlerEnds, DeliversAt, InLoop
  <2>2. errs'[c] = failed'[c]
    <3>1. c \in DOMAIN errs /\ c \in DOMAIN failed /\ errs[c] = failed[c]
      BY <1>0 DEF DeliversAt
    <3>2. CASE UNCHANGED <<errs, failed>>
      BY ONLY <3>1, <3>2
    <3>3. CASE /\ errs' = [errs EXCEPT ![c] = @ \cup {Head(rest[c])}]
               /\ failed' = [failed EXCEPT ![c] = @ \cup {Head(rest[c])}]
      BY ONLY <3>1, <3>3
    <3> QED BY <1>5, <3>2, <3>3 DEF EndHandler
  <2>3. /\ \A i \in DOMAIN Tail(rest[c]) :
               i + 1 \in DOMAIN rest[c] /\ i + 1 > 1 /\ Tail(rest[c])[i] = rest[c][i + 1]
        /\ Elems(rest[c]) = {Head(rest[c])} \cup Elems(Tail(rest[c]))
        /\ Tail(rest[c]) \in Seq(Handlers)
    BY <1>0, <2>1, TailLeaves
  <2>4. Head(rest[c]) \in Elems(got[c])
    <3>1. got[c] \in Seq(Handlers) /\ got[c] # <<>> /\ got[c][Len(got[c])] = Head(rest[c])
      BY <1>0, <2>1 DEF InLoop
    <3>2. Len(got[c]) \in DOMAIN got[c]
      BY <3>1, EmptySeq, LenProperties
    <3> QED BY <3>1, <3>2 DEF Elems
  <2>5. \A i, j \in DOMAIN rest'[c] : i < j => Precedes(subscribed, rest'[c][i], rest'[c][j])
    <3>1. DOMAIN Tail(rest[c]) \subseteq Nat
      BY <2>3, LenProperties
    <3>2. \A i, j \in DOMAIN Tail(rest[c]) : i < j => i + 1 < j + 1
      BY <3>1
    <3> QED BY <2>1, <2>3, <3>2 DEF InLoop
  <2>6. \A g \in Elems(got[c]), i \in DOMAIN rest'[c] : Precedes(subscribed, g, rest'[c][i])
    BY <2>1, <2>3 DEF InLoop, Ahead
  <2>7. InLoop(c)'
    BY <2>1, <2>3, <2>4, <2>5, <2>6 DEF InLoop, Ahead
  <2> QED BY <2>1, <2>2, <2>7 DEF DeliversAt
<1>6. CASE PanicHandler(c) \/ Return(c)
  <2>1. pc'[c] = "done" /\ errs'[c] = {} /\ failed'[c] = {}
    BY <1>0, <1>6 DEF PanicHandler, Return, End
  <2> QED BY <2>1 DEF DeliversAt
<1> QED BY <1>1, <1>2, <1>3, <1>4, <1>5, <1>6

LEMMA DeliversStep ==
    ASSUME IInv, [Next]_vars
    PROVE  Delivers'
<1> USE DEF Delivers
<1>0. /\ Delivers
      /\ pc \in [Calls -> {"unused", "lock", "locked", "rlock", "copy", "loop",
                           "handler", "done"}]
      /\ rest \in [Calls -> Seq(Handlers)] /\ got \in [Calls -> Seq(Handlers)]
      /\ errs \in [Calls -> SUBSET Handlers] /\ failed \in [Calls -> SUBSET Handlers]
      /\ must \in [Calls -> SUBSET Handlers] /\ may \in [Calls -> SUBSET Handlers]
  BY DEF IInv, TypeOK
<1>1. ASSUME NEW c \in Calls, NEW p \in Calls \cup {None}, CallPublish(c, p)
      PROVE  Delivers'
  <2>1. /\ pc[c] = "unused" /\ pc' = [pc EXCEPT ![c] = "rlock"]
        /\ UNCHANGED <<rest, errs, subscribed, dropped, got, failed>>
        /\ must' = [must EXCEPT ![c] = Elems(subscribed) \ dropped]
        /\ may' = [may EXCEPT ![c] = Elems(subscribed) \ dropped]
    BY <1>1 DEF CallPublish, Begin, Calls
  <2>2. ASSUME NEW d \in Calls, d # c PROVE DeliversAt(d)'
    BY <1>0, <2>1, <2>2, Undisturbed
  <2>3. BeforeCopy(c)'
    BY <1>0, <2>1 DEF BeforeCopy, DeliversAt
  <2>4. DeliversAt(c)'
    BY <1>0, <2>1, <2>3 DEF DeliversAt
  <2> QED BY <2>2, <2>4
<1>2. ASSUME NEW c \in Calls, NEW p \in Calls \cup {None}, NEW h \in Handlers,
             CallAdd(c, p, h) \/ CallUnsubscribe(c, p, h)
      PROVE  Delivers'
  <2>1. /\ pc[c] = "unused" /\ pc' = [pc EXCEPT ![c] = "lock"]
        /\ UNCHANGED <<rest, errs, subscribed, dropped, got, failed, must, may>>
    BY <1>2 DEF CallAdd, CallUnsubscribe, Begin, Calls
  <2>2. ASSUME NEW d \in Calls, d # c PROVE DeliversAt(d)'
    BY <1>0, <2>1, <2>2, Undisturbed
  <2>3. DeliversAt(c)'
    BY <1>0, <2>1 DEF DeliversAt
  <2> QED BY <2>2, <2>3
<1>3. ASSUME NEW c \in Calls, Add(c) \/ Remove(c) PROVE Delivers'
  BY <1>0, <1>3, AddDelivers, RemoveDelivers
<1>4. ASSUME NEW c \in Calls,
             \/ Lock(c) \/ RLock(c) \/ Copy(c) \/ CallHandler(c) \/ EndHandler(c)
             \/ PanicHandler(c) \/ Return(c)
      PROVE  Delivers'
  <2>1. ASSUME NEW d \in Calls, d # c
        PROVE  /\ pc'[d] = pc[d] /\ rest'[d] = rest[d] /\ got'[d] = got[d]
               /\ errs'[d] = errs[d] /\ failed'[d] = failed[d]
               /\ must'[d] = must[d] /\ may'[d] = may[d]
               /\ UNCHANGED <<subscribed, dropped>>
    <3>1. CASE Lock(c) \/ RLock(c) \/ Copy(c)
      BY <1>0, <2>1, <3>1 DEF Lock, RLock, Copy, history
    <3>2. CASE CallHandler(c)
      BY <1>0, <2>1, <3>2 DEF CallHandler
    <3>3. CASE EndHandler(c)
      BY <1>0, <2>1, <3>3 DEF EndHandler
    <3>4. CASE PanicHandler(c) \/ Return(c)
      BY <1>0, <2>1, <3>4 DEF PanicHandler, Return, End
    <3> QED BY <1>4, <3>1, <3>2, <3>3, <3>4
  <2>2. ASSUME NEW d \in Calls, d # c PROVE DeliversAt(d)'
    BY <1>0, <2>1, <2>2, Undisturbed
  <2>3. DeliversAt(c)'
    BY <1>4, OwnStepDelivers
  <2> QED BY <2>2, <2>3
<1>5. CASE UNCHANGED vars
  BY <1>0, <1>5, Undisturbed DEF vars, lock, call, history
<1> QED BY <1>1, <1>2, <1>3, <1>4, <1>5 DEF Next, Step

LEMMA StepInv == IInv /\ [Next]_vars => IInv'
  BY TypeStep, CallsStep, AddedOnceStep, CapturedStep, ListInOrderStep, DeliversStep DEF IInv

LEMMA SpecInv == Spec => []IInv
  BY InitInv, StepInv, PTL DEF Spec

\* The generated bus keeps its types and never leaves its lock held.
THEOREM TypeCorrect == Spec => []TypeOK
<1>1. IInv => TypeOK
  BY DEF IInv
<1> QED BY <1>1, SpecInv, PTL

\* The list is the handlers subscribed and not unsubscribed, in order, whatever
\* calls run at once: the func that add returned takes out no other's handler.
THEOREM ListCorrect == Spec => []ListIsSubscriptions
<1>1. ASSUME IInv PROVE ListIsSubscriptions
  <2>1. ListInOrder /\ list \in Seq([id : Ids, fn : Handlers])
    BY <1>1 DEF IInv, TypeOK
  <2>2. Elems(Fns(list)) = ABus!Current
    BY <2>1, Copied DEF Elems, ABus!Current, ABus!Elems
  <2>3. \A i, j \in DOMAIN list : i < j => ABus!Before(list[i].fn, list[j].fn)
    BY <2>1 DEF ListInOrder, Precedes, ABus!Before
  <2> QED BY <2>2, <2>3 DEF ListIsSubscriptions
<1> QED BY <1>1, SpecInv, PTL

(***************************************************************************)
(* The bus implements Bus.                                                 *)
(***************************************************************************)
LEMMA InitRefines == Init => ABus!Init
<1> SUFFICES ASSUME Init PROVE ABus!Init
  OBVIOUS
<1>1. Publishing = {}
  BY DEF Init, Publishing, Active
<1> QED BY <1>1 DEF Init, ABus!Init

\* A call other than publish comes and goes unseen.
LEMMA SamePublishing ==
    ASSUME NEW c \in Calls, c \notin Publishing,
           \A d \in Calls \ {c} : pc'[d] = pc[d] /\ op'[d] = op[d],
           op'[c] # "publish"
    PROVE  Publishing' = Publishing
  BY DEF Publishing, Active

\* A publish goes on.
LEMMA StillPublishing ==
    ASSUME NEW c \in Calls, c \in Publishing,
           \A d \in Calls \ {c} : pc'[d] = pc[d],
           op' = op, pc'[c] \notin {"unused", "done"}
    PROVE  Publishing' = Publishing
  BY DEF Publishing, Active

LEMMA StepRefines ==
    ASSUME IInv, [Next]_vars
    PROVE  [ABus!Next]_(ABus!vars)
<1>0. /\ pc \in [Calls -> {"unused", "lock", "locked", "rlock", "copy", "loop",
                           "handler", "done"}]
      /\ op \in [Calls -> {"none", "add", "unsubscribe", "publish"}]
      /\ rest \in [Calls -> Seq(Handlers)] /\ got \in [Calls -> Seq(Handlers)]
      /\ errs \in [Calls -> SUBSET Handlers] /\ failed \in [Calls -> SUBSET Handlers]
      /\ must \in [Calls -> SUBSET Handlers] /\ may \in [Calls -> SUBSET Handlers]
      /\ list \in Seq([id : Ids, fn : Handlers])
      /\ CallsMakeSense /\ \A c \in Calls : DeliversAt(c)
  BY DEF IInv, TypeOK, Delivers
<1>1. \A c \in Calls : c \in Publishing <=> pc[c] \in {"rlock", "copy", "loop", "handler"}
  BY <1>0 DEF Publishing, Active, CallsMakeSense
<1>2. ASSUME NEW c \in Calls, NEW p \in Calls \cup {None}, CallPublish(c, p)
      PROVE  ABus!Publish(c)
  <2>1. /\ pc[c] = "unused" /\ pc' = [pc EXCEPT ![c] = "rlock"]
        /\ op' = [op EXCEPT ![c] = "publish"]
        /\ UNCHANGED <<subscribed, dropped, got, failed, answer>>
        /\ must' = [must EXCEPT ![c] = Elems(subscribed) \ dropped]
        /\ may' = [may EXCEPT ![c] = Elems(subscribed) \ dropped]
    BY <1>2 DEF CallPublish, Begin, Calls
  <2>2. c \notin Publishing /\ Publishing' = Publishing \cup {c}
    BY <1>0, <2>1 DEF Publishing, Active
  <2>3. ABus!Current = Elems(subscribed) \ dropped
    BY DEF ABus!Current, ABus!Elems, Elems
  <2> QED BY <2>1, <2>2, <2>3 DEF ABus!Publish
<1>3. ASSUME NEW c \in Calls, NEW p \in Calls \cup {None}, NEW h \in Handlers,
             CallAdd(c, p, h) \/ CallUnsubscribe(c, p, h)
      PROVE  UNCHANGED ABus!vars
  <2>1. /\ pc[c] = "unused" /\ pc' = [pc EXCEPT ![c] = "lock"]
        /\ op' = [op EXCEPT ![c] = "add"] \/ op' = [op EXCEPT ![c] = "unsubscribe"]
        /\ UNCHANGED <<subscribed, dropped, got, failed, answer, must, may>>
    BY <1>3 DEF CallAdd, CallUnsubscribe, Begin, Calls
  <2>2. Publishing' = Publishing
    BY <1>0, <1>1, <2>1, SamePublishing
  <2> QED BY <2>1, <2>2 DEF ABus!vars
<1>4. ASSUME NEW c \in Calls, Lock(c) PROVE UNCHANGED ABus!vars
  <2>1. Publishing' = Publishing
    BY <1>0, <1>1, <1>4, SamePublishing DEF Lock, call, CallsMakeSense
  <2> QED BY <1>4, <2>1 DEF Lock, history, ABus!vars
<1>5. ASSUME NEW c \in Calls, Add(c) PROVE ABus!Subscribe(arg[c]) /\ arg[c] \in Handlers
  <2>1. Publishing' = Publishing
    BY <1>0, <1>1, <1>5, SamePublishing DEF Add, Locked, Unlock, call
  <2>2. arg[c] \in Handlers /\ arg[c] \notin ABus!Elems(subscribed)
    BY <1>5, AddsNew DEF Elems, ABus!Elems
  <2> QED BY <1>5, <2>1, <2>2 DEF Add, Insert, ABus!Subscribe
<1>6. ASSUME NEW c \in Calls, Remove(c)
      PROVE  UNCHANGED ABus!vars \/ (ABus!Unsubscribe(arg[c]) /\ arg[c] \in Handlers)
  <2>1. Publishing' = Publishing
    BY <1>0, <1>1, <1>6, SamePublishing DEF Remove, Locked, Unlock, call
  <2>2. UNCHANGED <<subscribed, may, got, failed, answer>>
    BY <1>6 DEF Remove
  <2>3. CASE UNCHANGED <<list, dropped, must>>
    BY <2>1, <2>2, <2>3 DEF ABus!vars
  <2>4. ASSUME NEW i \in DOMAIN list, list[i].fn = arg[c],
               dropped' = dropped \cup {arg[c]},
               must' = [d \in Calls |-> must[d] \ {arg[c]}]
        PROVE  ABus!Unsubscribe(arg[c]) /\ arg[c] \in Handlers
    <3>1. arg[c] \in Handlers
      BY <1>0, <2>4, FnsType
    <3>2. arg[c] \in ABus!Current
      BY <2>4 DEF IInv, ListInOrder, Elems, ABus!Current, ABus!Elems
    <3> QED BY <2>1, <2>2, <2>4, <3>1, <3>2 DEF ABus!Unsubscribe
  <2> QED BY <1>6, <2>3, <2>4, RemovesItsOwn
<1>7. ASSUME NEW c \in Calls, RLock(c) \/ Copy(c) PROVE UNCHANGED ABus!vars
  <2>1. Publishing' = Publishing
    BY <1>0, <1>1, <1>7, StillPublishing DEF RLock, Copy, call
  <2> QED BY <1>7, <2>1 DEF RLock, Copy, history, ABus!vars
<1>8. ASSUME NEW c \in Calls, CallHandler(c)
      PROVE  ABus!Deliver(c, Head(rest[c])) /\ Head(rest[c]) \in Handlers
  <2>1. /\ pc[c] = "loop" /\ InLoop(c) /\ rest[c] # <<>>
        /\ pc' = [pc EXCEPT ![c] = "handler"] /\ op' = op
    BY <1>0, <1>8 DEF CallHandler, DeliversAt, call
  <2>2. c \in Publishing /\ Publishing' = Publishing
    BY <1>0, <1>1, <2>1, StillPublishing
  <2>3. Head(rest[c]) \in Handlers /\ Head(rest[c]) = rest[c][1] /\ 1 \in DOMAIN rest[c]
    BY <1>0, <2>1, TailLeaves
  <2>4. Head(rest[c]) \in may[c]
    BY <2>1, <2>3 DEF InLoop, Elems
  <2>5. \A g \in ABus!Elems(got[c]) : ABus!Before(g, Head(rest[c]))
    <3>1. \A g \in Elems(got[c]) : Precedes(subscribed, g, rest[c][1])
      BY <2>1, <2>3 DEF InLoop, Ahead
    <3> QED BY <2>3, <3>1 DEF Elems, ABus!Elems, Precedes, ABus!Before
  <2> QED BY <1>8, <2>2, <2>3, <2>4, <2>5 DEF CallHandler, ABus!Deliver
<1>9. ASSUME NEW c \in Calls, EndHandler(c) PROVE UNCHANGED ABus!vars \/ ABus!Fail(c)
  <2>1. /\ pc[c] = "handler" /\ InLoop(c)
        /\ pc' = [pc EXCEPT ![c] = "loop"] /\ op' = op
    BY <1>0, <1>9 DEF EndHandler, HandlerEnds, DeliversAt, call
  <2>2. c \in Publishing /\ Publishing' = Publishing
    BY <1>0, <1>1, <2>1, StillPublishing
  <2>3. UNCHANGED <<subscribed, dropped, must, may, got, answer>>
    BY <1>9 DEF EndHandler
  <2>4. CASE failed' = failed
    BY <2>2, <2>3, <2>4 DEF ABus!vars
  <2>5. CASE failed' = [failed EXCEPT ![c] = @ \cup {Head(rest[c])}]
    BY <2>1, <2>2, <2>3, <2>5 DEF InLoop, ABus!Fail
  <2> QED BY <1>9, <2>4, <2>5 DEF EndHandler
<1>10. ASSUME NEW c \in Calls, End(c), c \in Publishing, op' = op
       PROVE  ABus!Forget(c) /\ Publishing' = Publishing \ {c}
  BY <1>0, <1>10 DEF End, ABus!Forget, Publishing, Active
<1>11. ASSUME NEW c \in Calls, PanicHandler(c) PROVE ABus!Panic(c)
  <2>1. /\ pc[c] = "handler" /\ End(c) /\ op' = op /\ InLoop(c)
        /\ UNCHANGED <<subscribed, dropped, answer>>
    BY <1>0, <1>11 DEF PanicHandler, HandlerEnds, DeliversAt, call
  <2> QED BY <1>1, <1>10, <2>1 DEF InLoop, ABus!Panic
<1>12. ASSUME NEW c \in Calls, Return(c) PROVE ABus!Return(c)
  <2>1. /\ pc[c] = "loop" /\ End(c) /\ op' = op /\ InLoop(c) /\ rest[c] = <<>>
        /\ errs[c] = failed[c] /\ answer' = [answer EXCEPT ![c] = errs[c]]
        /\ UNCHANGED <<subscribed, dropped>>
    BY <1>0, <1>12 DEF Return, DeliversAt, call
  <2>2. must[c] \subseteq ABus!Elems(got[c])
    BY <2>1 DEF InLoop, Elems, ABus!Elems
  <2> QED BY <1>1, <1>10, <2>1, <2>2 DEF ABus!Return
<1>13. CASE UNCHANGED vars
  BY <1>13 DEF vars, call, history, Publishing, Active, ABus!vars
<1>14. CASE \E c \in Calls : Step(c)
  BY <1>4, <1>5, <1>6, <1>7, <1>8, <1>9, <1>12, <1>14 DEF Step, ABus!Next
<1>15. CASE \E c \in Calls : PanicHandler(c)
  BY <1>11, <1>15 DEF ABus!Next
<1>16. CASE \E c \in Calls, p \in Calls \cup {None} :
               \/ CallPublish(c, p)
               \/ \E h \in Handlers : CallAdd(c, p, h) \/ CallUnsubscribe(c, p, h)
  BY <1>2, <1>3, <1>16 DEF ABus!Next
<1> QED BY <1>13, <1>14, <1>15, <1>16 DEF Next

\* What the generated bus does is what Bus promises, for any number of calls
\* and handlers, handlers that publish, subscribe and unsubscribe in a publish
\* and handlers that panic among them.
THEOREM BusImplemented == Spec => ImplementsBus
<1>1. IInv /\ [Next]_vars => [ABus!Next]_(ABus!vars)
  BY StepRefines
<1> QED BY <1>1, SpecInv, InitRefines, PTL DEF Spec, ImplementsBus, ABus!Spec
=============================================================================
