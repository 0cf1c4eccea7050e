------------------------------- MODULE LocalBus -------------------------------
(***************************************************************************)
(* The in-process bus that events.go generates: subscribers[E], a list of  *)
(* handlers under a sync.RWMutex, for one event.  Its methods are called   *)
(* from any number of goroutines, and from handlers while a publish calls  *)
(* them.  A call with a parent is made by the handler the parent is in.    *)
(*                                                                         *)
(* As sync.RWMutex has it, a call of Lock that waits for readers keeps new *)
(* readers out.  What is done under the write lock is one step: all        *)
(* accesses to list and next are under the lock.                           *)
(***************************************************************************)
EXTENDS Naturals, Sequences, FiniteSets

CONSTANTS
    MaxCalls,    \* bound on the calls of the bus's methods
    MaxHandlers, \* bound on the handlers subscribed
    None

ASSUME BoundsAssumption == MaxCalls \in Nat /\ MaxHandlers \in Nat
ASSUME NoneAssumption == None \notin Nat

\* Calls are numbered as they begin, handlers as add is called for them.
Calls == 1 .. MaxCalls
Handlers == 1 .. MaxHandlers

VARIABLES
    list,    \* the subscribers, each an id and a handler
    next,    \* the last id given out
    writer,  \* the call that holds mu for writing, or waits for its readers
    readers, \* the calls that hold mu for reading
    pc,
    op,      \* of each call: add, the func it returned, or publish
    arg,     \* the handler to add or to unsubscribe
    parent,  \* the publish whose handler made the call
    rest,    \* of a publish: handlers still to call, the one it is in first
    errs,    \* of a publish: handlers that returned an error
    closure, \* the id that the func add returned for a handler has captured
    \* History, for Bus:
    subscribed, dropped, must, may, got, failed, answer

lock == <<writer, readers>>
call == <<op, arg, parent>>
history == <<subscribed, dropped, must, may, got, failed, answer>>
vars == <<list, next, lock, pc, call, rest, errs, closure, history>>

Ids == Nat \ {0}
Elems(s) == {s[i] : i \in DOMAIN s}
Fns(s) == [i \in DOMAIN s |-> s[i].fn]

Active == {c \in Calls : pc[c] \notin {"unused", "done"}}
Publishing == {c \in Active : op[c] = "publish"}

\* Who holds the lock is in the midst of what it is for: no way out of a method
\* leaves it held, a second unsubscribe and a panic among them.
LockIsUsed ==
    /\ writer \in {None} \cup {c \in Calls : pc[c] = "locked"}
    /\ readers = {c \in Calls : pc[c] = "copy"}

TypeOK ==
    /\ LockIsUsed
    /\ list \in Seq([id : Ids, fn : Handlers])
    /\ next \in Nat
    /\ pc \in [Calls -> {"unused", "lock", "locked", "rlock", "copy", "loop",
                         "handler", "done"}]
    /\ op \in [Calls -> {"none", "add", "unsubscribe", "publish"}]
    /\ arg \in [Calls -> Handlers \cup {None}]
    /\ parent \in [Calls -> Calls \cup {None}]
    /\ rest \in [Calls -> Seq(Handlers)]
    /\ errs \in [Calls -> SUBSET Handlers]
    /\ closure \in [Handlers -> Nat]
    /\ subscribed \in Seq(Handlers) /\ dropped \subseteq Handlers
    /\ must \in [Calls -> SUBSET Handlers] /\ may \in [Calls -> SUBSET Handlers]
    /\ got \in [Calls -> Seq(Handlers)]
    /\ failed \in [Calls -> SUBSET Handlers] /\ answer \in [Calls -> SUBSET Handlers]

Init ==
    /\ list = <<>> /\ next = 0
    /\ writer = None /\ readers = {}
    /\ pc = [c \in Calls |-> "unused"]
    /\ op = [c \in Calls |-> "none"]
    /\ arg = [c \in Calls |-> None] /\ parent = [c \in Calls |-> None]
    /\ rest = [c \in Calls |-> <<>>] /\ errs = [c \in Calls |-> {}]
    /\ closure = [h \in Handlers |-> 0]
    /\ subscribed = <<>> /\ dropped = {}
    /\ must = [c \in Calls |-> {}] /\ may = [c \in Calls |-> {}]
    /\ got = [c \in Calls |-> <<>>] /\ failed = [c \in Calls |-> {}]
    /\ answer = [c \in Calls |-> {}]
-----------------------------------------------------------------------------
(***************************************************************************)
(* A goroutine, or a handler that waits for no other call it made, calls.  *)
(***************************************************************************)
Waits(c) == \E d \in Active : parent[d] = c

Begin(c, p, o, h, at) ==
    /\ \A d \in Calls : pc[d] = "unused" <=> d >= c
    /\ p # None => pc[p] = "handler" /\ ~Waits(p)
    /\ pc' = [pc EXCEPT ![c] = at]
    /\ op' = [op EXCEPT ![c] = o]
    /\ arg' = [arg EXCEPT ![c] = h]
    /\ parent' = [parent EXCEPT ![c] = p]
    /\ UNCHANGED <<list, next, lock, rest, errs, closure, subscribed, dropped, got,
                   failed, answer>>

CallAdd(c, p, h) ==
    /\ \A g \in Handlers : (\E d \in Calls : arg[d] = g) <=> g < h
    /\ Begin(c, p, "add", h, "lock")
    /\ UNCHANGED <<must, may>>

\* The func is there once add has returned it, and may be called again.
CallUnsubscribe(c, p, h) ==
    /\ closure[h] # 0
    /\ Begin(c, p, "unsubscribe", h, "lock")
    /\ UNCHANGED <<must, may>>

CallPublish(c, p) ==
    /\ Begin(c, p, "publish", None, "rlock")
    /\ must' = [must EXCEPT ![c] = Elems(subscribed) \ dropped]
    /\ may' = [may EXCEPT ![c] = Elems(subscribed) \ dropped]
-----------------------------------------------------------------------------
(***************************************************************************)
(* add and the func it returns.                                            *)
(***************************************************************************)
Lock(c) ==
    /\ pc[c] = "lock"
    /\ writer = None
    /\ writer' = c
    /\ pc' = [pc EXCEPT ![c] = "locked"]
    /\ UNCHANGED <<list, next, readers, call, rest, errs, closure, history>>

Locked(c, o) == pc[c] = "locked" /\ op[c] = o /\ readers = {}

Unlock(c) == writer' = None /\ pc' = [pc EXCEPT ![c] = "done"]

Insert(c, id) ==
    /\ list' = Append(list, [id |-> id, fn |-> arg[c]])
    /\ closure' = [closure EXCEPT ![arg[c]] = id]
    /\ subscribed' = Append(subscribed, arg[c])
    /\ may' = [d \in Calls |-> IF d \in Publishing THEN may[d] \cup {arg[c]} ELSE may[d]]

\* Mutant: next is not advanced.
AddSameId(c) ==
    /\ Locked(c, "add")
    /\ Insert(c, next + 1)
    /\ Unlock(c)
    /\ UNCHANGED <<next, readers, call, rest, errs, dropped, must, got, failed, answer>>

Add(c) ==
    /\ Locked(c, "add")
    /\ next' = next + 1
    /\ Insert(c, next + 1)
    /\ Unlock(c)
    /\ UNCHANGED <<readers, call, rest, errs, dropped, must, got, failed, answer>>

Holds(id) == {i \in DOMAIN list : list[i].id = id}
FirstOf(S) == CHOOSE i \in S : \A j \in S : i <= j
Without(s, i) == SubSeq(s, 1, i - 1) \o SubSeq(s, i + 1, Len(s))

Remove(c) ==
    /\ Locked(c, "unsubscribe")
    /\ LET at == Holds(closure[arg[c]])
       IN  IF at = {} THEN UNCHANGED <<list, dropped, must>>
           ELSE /\ list' = Without(list, FirstOf(at))
                /\ dropped' = dropped \cup {arg[c]}
                /\ must' = [d \in Calls |-> must[d] \ {arg[c]}]
    /\ Unlock(c)
    /\ UNCHANGED <<next, readers, call, rest, errs, closure, subscribed, may, got, failed,
                   answer>>
-----------------------------------------------------------------------------
(***************************************************************************)
(* publish.                                                                *)
(***************************************************************************)
RLock(c) ==
    /\ pc[c] = "rlock"
    /\ writer = None
    /\ readers' = readers \cup {c}
    /\ pc' = [pc EXCEPT ![c] = "copy"]
    /\ UNCHANGED <<list, next, writer, call, rest, errs, closure, history>>

\* Mutant: the read lock is not released before the handlers are called.
CopyKeepsLock(c) ==
    /\ pc[c] = "copy"
    /\ rest' = [rest EXCEPT ![c] = Fns(list)]
    /\ pc' = [pc EXCEPT ![c] = "loop"]
    /\ UNCHANGED <<list, next, lock, call, errs, closure, history>>

Copy(c) ==
    /\ pc[c] = "copy"
    /\ rest' = [rest EXCEPT ![c] = Fns(list)]
    /\ readers' = readers \ {c}
    /\ pc' = [pc EXCEPT ![c] = "loop"]
    /\ UNCHANGED <<list, next, writer, call, errs, closure, history>>

CallHandler(c) ==
    /\ pc[c] = "loop"
    /\ rest[c] # <<>>
    /\ pc' = [pc EXCEPT ![c] = "handler"]
    /\ got' = [got EXCEPT ![c] = Append(@, Head(rest[c]))]
    /\ UNCHANGED <<list, next, lock, call, rest, errs, closure, subscribed, dropped,
                   must, may, failed, answer>>

HandlerEnds(c) == pc[c] = "handler" /\ ~Waits(c)

\* Mutant: the first error ends the loop.
EndHandlerStops(c) ==
    /\ HandlerEnds(c)
    /\ pc' = [pc EXCEPT ![c] = "loop"]
    /\ \/ /\ rest' = [rest EXCEPT ![c] = Tail(@)]
          /\ UNCHANGED <<errs, failed>>
       \/ /\ rest' = [rest EXCEPT ![c] = <<>>]
          /\ errs' = [errs EXCEPT ![c] = @ \cup {Head(rest[c])}]
          /\ failed' = [failed EXCEPT ![c] = @ \cup {Head(rest[c])}]
    /\ UNCHANGED <<list, next, lock, call, closure, subscribed, dropped, must, may, got,
                   answer>>

\* The handler returns nil or an error.
EndHandler(c) ==
    /\ HandlerEnds(c)
    /\ pc' = [pc EXCEPT ![c] = "loop"]
    /\ rest' = [rest EXCEPT ![c] = Tail(@)]
    /\ \/ UNCHANGED <<errs, failed>>
       \/ /\ errs' = [errs EXCEPT ![c] = @ \cup {Head(rest[c])}]
          /\ failed' = [failed EXCEPT ![c] = @ \cup {Head(rest[c])}]
    /\ UNCHANGED <<list, next, lock, call, closure, subscribed, dropped, must, may, got,
                   answer>>

\* The call is over, and what it knew forgotten.
End(c) ==
    /\ pc' = [pc EXCEPT ![c] = "done"]
    /\ rest' = [rest EXCEPT ![c] = <<>>]
    /\ errs' = [errs EXCEPT ![c] = {}]
    /\ must' = [must EXCEPT ![c] = {}] /\ may' = [may EXCEPT ![c] = {}]
    /\ got' = [got EXCEPT ![c] = <<>>] /\ failed' = [failed EXCEPT ![c] = {}]

\* The handler panics, and whoever called publish recovers.
PanicHandler(c) ==
    /\ HandlerEnds(c)
    /\ End(c)
    /\ UNCHANGED <<list, next, lock, call, closure, subscribed, dropped, answer>>

Return(c) ==
    /\ pc[c] = "loop"
    /\ rest[c] = <<>>
    /\ End(c)
    /\ answer' = [answer EXCEPT ![c] = errs[c]]
    /\ UNCHANGED <<list, next, lock, call, closure, subscribed, dropped>>
-----------------------------------------------------------------------------
Step(c) ==
    \/ Lock(c) \/ Add(c) \/ Remove(c)
    \/ RLock(c) \/ Copy(c) \/ CallHandler(c) \/ EndHandler(c) \/ Return(c)

Next ==
    \E c \in Calls :
        \/ Step(c)
        \/ PanicHandler(c)
        \/ \E p \in Calls \cup {None} :
               \/ CallPublish(c, p)
               \/ \E h \in Handlers : CallAdd(c, p, h) \/ CallUnsubscribe(c, p, h)

Spec == Init /\ [][Next]_vars

\* Goroutines are scheduled, and handlers return.
FairSpec == Spec /\ \A c \in Calls : WF_vars(Step(c))
-----------------------------------------------------------------------------
(***************************************************************************)
(* What the bus promises.                                                  *)
(***************************************************************************)

\* The list is the handlers subscribed and not unsubscribed, each once and in
\* the order of their subscription: no call takes another's handler out ("add
\* subscribes fn and returns a func that unsubscribes it", events.go:256).
ABus == INSTANCE Bus WITH open <- Publishing
ListIsSubscriptions ==
    /\ Elems(Fns(list)) = ABus!Current
    /\ \A i, j \in DOMAIN list : i < j => ABus!Before(list[i].fn, list[j].fn)

\* Every call returns, those that handlers make too ("Handlers may subscribe
\* and unsubscribe at any time, even from a handler", events.go:219).
CallsReturn == \A c \in Calls : c \in Active ~> pc[c] = "done"

\* A publish calls each handler subscribed from its call to its return, none
\* that never was meanwhile, none twice, in subscription order, and returns all
\* their errors ("Publish calls every handler in subscription order ... and
\* returns their errors joined", events.go:217).
ImplementsBus == ABus!Spec
=============================================================================
