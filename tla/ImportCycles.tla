----------------------------- MODULE ImportCycles -----------------------------
(***************************************************************************)
(* validator.cycles of validate.go: a depth-first search of the packages   *)
(* of a project for an import cycle.  stack is the Go stack; left holds,   *)
(* for each call of visit that is on it, the rest of its loop.  The        *)
(* packages come in file order and the dependencies in name order in the   *)
(* code; here they come in any order.                                      *)
(***************************************************************************)
EXTENDS Naturals, Sequences

VARIABLES imports,    \* [node, edge]: which package names types of which
          stack,      \* the packages being visited, each named by the one before
          left,       \* of each package, the dependencies not looked at yet
          done,       \* the packages found to be on no cycle
          loop        \* the cycle that is reported, <<>> for none

searchVars == <<imports, stack, left, done, loop>>

Dependencies(g, pkg) == {n \in g.node : <<pkg, n>> \in g.edge}

SearchInit(g) ==
    /\ imports = g
    /\ stack = <<>>
    /\ left = [n \in g.node |-> Dependencies(g, n)]
    /\ done = {}
    /\ loop = <<>>

NoSearch == SearchInit([node |-> {}, edge |-> {}])

StartSearch(g) ==
    /\ imports' = g
    /\ stack' = <<>>
    /\ left' = [n \in g.node |-> Dependencies(g, n)]
    /\ done' = {}
    /\ loop' = <<>>

\* A package no visit has come to is visited.
Begin ==
    /\ loop = <<>>
    /\ stack = <<>>
    /\ \E pkg \in imports.node \ done : stack' = <<pkg>>
    /\ UNCHANGED <<imports, left, done, loop>>

Top == stack[Len(stack)]
Active(pkg) == \E i \in DOMAIN stack : stack[i] = pkg

\* The stack from a package on, and the package again.
LoopTo(pkg) ==
    Append(SubSeq(stack, CHOOSE i \in DOMAIN stack : stack[i] = pkg, Len(stack)), pkg)

\* visit looks at one dependency: it closes a loop, or is known, or is next.
Look ==
    /\ loop = <<>>
    /\ stack # <<>>
    /\ \E dep \in left[Top] :
          /\ left' = [left EXCEPT ![Top] = @ \ {dep}]
          /\ \/ Active(dep) /\ loop' = LoopTo(dep) /\ UNCHANGED stack
             \/ dep \in done /\ UNCHANGED <<stack, loop>>
             \/ ~Active(dep) /\ dep \notin done /\ stack' = Append(stack, dep) /\ UNCHANGED loop
    /\ UNCHANGED <<imports, done>>

\* visit returns.
Leave ==
    /\ loop = <<>>
    /\ stack # <<>>
    /\ left[Top] = {}
    /\ stack' = SubSeq(stack, 1, Len(stack) - 1)
    /\ done' = done \union {Top}
    /\ UNCHANGED <<imports, left, loop>>

SearchNext == Begin \/ Look \/ Leave

\* Mutant: the search starts at one package only.
SearchedOnce == loop # <<>> \/ (stack = <<>> /\ (done # {} \/ imports.node = {}))

Searched == loop # <<>> \/ (stack = <<>> /\ done = imports.node)

\* Some packages each import one of them: what a finite graph has exactly when
\* it has a cycle.
Cyclic(g) == \E S \in SUBSET g.node : S # {} /\ \A n \in S : \E m \in S : <<n, m>> \in g.edge

\* A sequence of imports that ends where it starts.
IsLoop(g, path) ==
    /\ Len(path) > 1
    /\ path[1] = path[Len(path)]
    /\ \A i \in 1..(Len(path) - 1) : <<path[i], path[i + 1]>> \in g.edge
=============================================================================
