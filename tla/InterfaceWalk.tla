---------------------------- MODULE InterfaceWalk ----------------------------
(***************************************************************************)
(* interfaceMethods of implement.go: the methods of an interface and of    *)
(* what it embeds from its own package.  trail is the chain of calls, and  *)
(* unread what the loop of each of them has left; seen is shared by all    *)
(* the calls below the first.  The list each call returns is added to its  *)
(* caller's by name, so one list for all of them holds the same methods.   *)
(* The methods of embedded standard interfaces, which the Go type checker  *)
(* supplies, and the names that cannot be resolved are left out.           *)
(***************************************************************************)
EXTENDS Validation

VARIABLES ifaces,     \* the items of each interface of the package
          trail,      \* the interfaces being read, each embedded in the one before
          unread,     \* of each interface, the items not read yet
          methods,    \* the methods found, in order
          seen,       \* the interfaces met
          again       \* whether one was met twice, which ends the walk

walkVars == <<ifaces, trail, unread, methods, seen, again>>

NoWalk ==
    /\ ifaces = <<>>
    /\ trail = <<>>
    /\ unread = <<>>
    /\ methods = <<>>
    /\ seen = {}
    /\ again = FALSE

StartWalk(table, name) ==
    /\ ifaces' = table
    /\ trail' = <<name>>
    /\ unread' = [n \in DOMAIN table |-> DOMAIN table[n]]
    /\ methods' = <<>>
    /\ seen' = {name}
    /\ again' = FALSE

\* An interface of the package that another embeds.
EmbedsHere(it, names) == it.head = "embed" /\ it.type.q = Local /\ it.type.name \in names

\* Mutant: a method is added whether it is there or not.
AddAnyMethod(have, m) == Append(have, m)

AddMethod(have, m) == IF \E i \in DOMAIN have : have[i].name = m.name THEN have ELSE Append(have, m)

Reading == trail[Len(trail)]

\* The loop of interfaceMethods comes to its next item: a method, an interface
\* of the package, or something else.
ReadItem ==
    /\ ~again
    /\ trail # <<>>
    /\ \E i \in unread[Reading] :
          LET it == ifaces[Reading][i]
          IN  /\ \A j \in unread[Reading] : i <= j
              /\ unread' = [unread EXCEPT ![Reading] = @ \ {i}]
              /\ \/ /\ it.head = "method"
                    /\ methods' = AddMethod(methods, it)
                    /\ UNCHANGED <<trail, seen, again>>
                 \/ /\ EmbedsHere(it, DOMAIN ifaces)
                    /\ it.type.name \in seen
                    /\ again' = TRUE
                    /\ UNCHANGED <<trail, methods, seen>>
                 \/ /\ EmbedsHere(it, DOMAIN ifaces)
                    /\ it.type.name \notin seen
                    /\ seen' = seen \union {it.type.name}
                    /\ trail' = Append(trail, it.type.name)
                    /\ UNCHANGED <<methods, again>>
                 \/ /\ it.head # "method"
                    /\ ~EmbedsHere(it, DOMAIN ifaces)
                    /\ UNCHANGED <<trail, methods, seen, again>>
    /\ UNCHANGED ifaces

\* A call returns to the one that embeds its interface.
Return ==
    /\ ~again
    /\ trail # <<>>
    /\ unread[Reading] = {}
    /\ trail' = SubSeq(trail, 1, Len(trail) - 1)
    /\ UNCHANGED <<ifaces, unread, methods, seen, again>>

WalkNext == ReadItem \/ Return

Walked == again \/ trail = <<>>
Result == [ok |-> ~again, methods |-> methods]
=============================================================================
