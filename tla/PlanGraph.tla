------------------------------ MODULE PlanGraph ------------------------------
(***************************************************************************)
(* PlanGraph.Levels of plangraph.go: the nodes of the plan in dependency   *)
(* order, a level at a time.  Each round takes every node that is ready    *)
(* and counts it off the nodes that depend on it; a node whose count gets  *)
(* to zero is ready for the next round.  The graph is a set of nodes and,  *)
(* for each, what it depends on, which may name nodes outside the plan.    *)
(***************************************************************************)
EXTENDS Naturals, Sequences, FiniteSets

CONSTANT PlanGraphs   \* the graphs to lay out

ASSUME PlanGraphsAssumption ==
    \A g \in PlanGraphs : IsFiniteSet(g.node) /\ DOMAIN g.deps = g.node

VARIABLES graph,      \* [node, deps]
          indeg,      \* of each node, how many dependencies are not placed
          ready,      \* the nodes of the next level
          levels,     \* the levels so far
          placed      \* the nodes in them

graphVars == <<graph, indeg, ready, levels, placed>>

\* A dependency outside the plan, a file on disk say, does not count.
Inside(n) == graph.deps[n] \intersect graph.node

\* Mutant: a dependency outside the plan is waited for.
CountAll(g) == [n \in g.node |-> Cardinality(g.deps[n])]

Count(g) == [n \in g.node |-> Cardinality(g.deps[n] \intersect g.node)]

LevelInit ==
    /\ graph \in PlanGraphs
    /\ indeg = Count(graph)
    /\ ready = {n \in graph.node : indeg[n] = 0}
    /\ levels = <<>>
    /\ placed = {}

\* A plan without files or needs has nothing to lay out.
NoGraph ==
    /\ graph = [node |-> {}, deps |-> <<>>]
    /\ indeg = <<>>
    /\ ready = {}
    /\ levels = <<>>
    /\ placed = {}

StartLevels(g) ==
    /\ graph' = g
    /\ indeg' = Count(g)
    /\ ready' = {n \in g.node : Count(g)[n] = 0}
    /\ levels' = <<>>
    /\ placed' = {}

\* Mutant: a node is ready when one of its dependencies is placed.
NextLevelEarly ==
    LET left == [n \in graph.node |-> indeg[n] - Cardinality(Inside(n) \intersect ready)]
    IN  /\ ready # {}
        /\ levels' = Append(levels, ready)
        /\ placed' = placed \union ready
        /\ indeg' = left
        /\ ready' = {n \in graph.node \ placed' : left[n] < indeg[n]}
        /\ UNCHANGED graph

\* One round of the loop.
NextLevel ==
    LET left == [n \in graph.node |-> indeg[n] - Cardinality(Inside(n) \intersect ready)]
    IN  /\ ready # {}
        /\ levels' = Append(levels, ready)
        /\ placed' = placed \union ready
        /\ indeg' = left
        /\ ready' = {n \in graph.node : indeg[n] > 0 /\ left[n] = 0}
        /\ UNCHANGED graph

LevelSpec == LevelInit /\ [][NextLevel]_graphVars

\* The nodes a cycle keeps from being placed: those on one and those behind it.
Stuck == {n \in graph.node : indeg[n] > 0}

\* Everything in a level depends only on earlier levels, and no node is in two:
\* what `tilegen plan` promises, and what a parallel fill would rely on.
LevelsInOrder ==
    \A i \in DOMAIN levels : \A n \in levels[i] :
        /\ \A d \in Inside(n) : \E j \in DOMAIN levels : j < i /\ d \in levels[j]
        /\ \A j \in DOMAIN levels : n \in levels[j] => j = i

\* When no node is ready, the ones not placed are exactly those reported, and
\* each waits for another of them: there is a cycle, or every node is placed.
StuckMeansCycle ==
    ready = {} => /\ Stuck = graph.node \ placed
                  /\ \A n \in Stuck : Inside(n) \intersect Stuck # {}
=============================================================================
