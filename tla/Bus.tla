--------------------------------- MODULE Bus ---------------------------------
(***************************************************************************)
(* What the Bus interface that events.go generates promises for one event: *)
(* OnE subscribes a handler and returns the func that unsubscribes it,     *)
(* PublishE delivers to every handler, in subscription order, and returns  *)
(* their errors joined.  Handlers come and go while a publish is under     *)
(* way: it may or may not deliver to those.                                *)
(***************************************************************************)
EXTENDS Naturals, Sequences

CONSTANTS
    Calls,    \* calls of the bus's methods
    Handlers

VARIABLES
    subscribed, \* the handlers in the order in which they were subscribed
    dropped,    \* those unsubscribed since
    open,       \* the publishes under way
    must,       \* of each publish: the handlers subscribed ever since its call
    may,        \* those subscribed at some time since
    got,        \* those called, in order
    failed,     \* those that returned an error
    answer      \* the handlers whose errors a publish has returned

vars == <<subscribed, dropped, open, must, may, got, failed, answer>>

Elems(s) == {s[i] : i \in DOMAIN s}
Before(g, h) ==
    \E i, j \in DOMAIN subscribed : i < j /\ subscribed[i] = g /\ subscribed[j] = h

Current == Elems(subscribed) \ dropped

Init ==
    /\ subscribed = <<>> /\ dropped = {}
    /\ open = {}
    /\ must = [c \in Calls |-> {}] /\ may = [c \in Calls |-> {}]
    /\ got = [c \in Calls |-> <<>>] /\ failed = [c \in Calls |-> {}]
    /\ answer = [c \in Calls |-> {}]

Subscribe(h) ==
    /\ h \notin Elems(subscribed)
    /\ subscribed' = Append(subscribed, h)
    /\ may' = [c \in Calls |-> IF c \in open THEN may[c] \cup {h} ELSE may[c]]
    /\ UNCHANGED <<dropped, open, must, got, failed, answer>>

\* A second call of the same func does nothing.
Unsubscribe(h) ==
    /\ h \in Current
    /\ dropped' = dropped \cup {h}
    /\ must' = [c \in Calls |-> must[c] \ {h}]
    /\ UNCHANGED <<subscribed, open, may, got, failed, answer>>

Publish(c) ==
    /\ c \notin open
    /\ open' = open \cup {c}
    /\ must' = [must EXCEPT ![c] = Current]
    /\ may' = [may EXCEPT ![c] = Current]
    /\ UNCHANGED <<subscribed, dropped, got, failed, answer>>

Deliver(c, h) ==
    /\ c \in open
    /\ h \in may[c]
    /\ \A g \in Elems(got[c]) : Before(g, h)
    /\ got' = [got EXCEPT ![c] = Append(@, h)]
    /\ UNCHANGED <<subscribed, dropped, open, must, may, failed, answer>>

\* The handler called last returns an error.
Fail(c) ==
    /\ c \in open
    /\ got[c] # <<>>
    /\ failed' = [failed EXCEPT ![c] = @ \cup {got[c][Len(got[c])]}]
    /\ UNCHANGED <<subscribed, dropped, open, must, may, got, answer>>

Forget(c) ==
    /\ must' = [must EXCEPT ![c] = {}] /\ may' = [may EXCEPT ![c] = {}]
    /\ got' = [got EXCEPT ![c] = <<>>] /\ failed' = [failed EXCEPT ![c] = {}]

Return(c) ==
    /\ c \in open
    /\ must[c] \subseteq Elems(got[c])
    /\ open' = open \ {c}
    /\ answer' = [answer EXCEPT ![c] = failed[c]]
    /\ Forget(c)
    /\ UNCHANGED <<subscribed, dropped>>

\* A handler panics: its publish ends with it.
Panic(c) ==
    /\ c \in open
    /\ got[c] # <<>>
    /\ open' = open \ {c}
    /\ Forget(c)
    /\ UNCHANGED <<subscribed, dropped, answer>>

Next ==
    \/ \E h \in Handlers : Subscribe(h) \/ Unsubscribe(h)
    \/ \E c \in Calls : Publish(c) \/ Fail(c) \/ Return(c) \/ Panic(c)
    \/ \E c \in Calls, h \in Handlers : Deliver(c, h)

Spec == Init /\ [][Next]_vars
=============================================================================
