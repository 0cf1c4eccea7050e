------------------------------ MODULE Scaffold ------------------------------
(***************************************************************************)
(* What one run of tilegen makes of a project directory: the plan that     *)
(* Emit computes from the spec and the files on disk (emit.go,             *)
(* reconcile.go, plan.go).  Everything here is a function of its           *)
(* arguments; the run that applies the plan is in Generation.              *)
(*                                                                         *)
(* A scaffolded ("keep") file holds one receiver type, its constructor and *)
(* one method per method of the interface it implements.  Beside it the    *)
(* spec makes a generated file, the interface and the compile-time         *)
(* assertion, whose text depends on the spec alone; and each run rewrites  *)
(* tilegen.tasks.json, the list of open holes.                             *)
(***************************************************************************)
EXTENDS Naturals, FiniteSets

CONSTANTS
    Files,       \* scaffolded files, each with a generated file beside it
    StructFiles, \* those that declare their own struct (http.go does not)
    Methods,     \* method names
    Sigs,        \* method signatures
    NoSig,       \* the spec does not want the method
    NoFile,      \* the spec does not produce the file
    NoMethod,    \* the file does not declare the method
    Gone,        \* there is no such file on disk
    Torn,        \* truncated by a write that a crash cut short
    Tampered     \* a generated file edited by hand, its header intact

ASSUME StructFilesAssumption == StructFiles \subseteq Files
-----------------------------------------------------------------------------
(***************************************************************************)
(* The spec: for each file it produces, the signature of each method the   *)
(* file must have.                                                         *)
(***************************************************************************)
Wants == [Methods -> Sigs \cup {NoSig}]
Specs == [Files -> Wants \cup {NoFile}]

Produced(sp) == {f \in Files : sp[f] # NoFile}
WantedIn(sp, f) == {m \in Methods : sp[f][m] # NoSig}

(***************************************************************************)
(* A method as untouchedStub and findHolesSrc see it: a body that is still *)
(* just the hole, one that has user code and still the hole's panic in it, *)
(* and one without the hole.                                               *)
(***************************************************************************)
MethodDecl == [body : {"stub", "partial", "written"}, sig : Sigs]
StubOf(s) == [body |-> "stub", sig |-> s]

UntouchedStub(d) == d # NoMethod /\ d.body = "stub"
HasHole(d) == d # NoMethod /\ d.body \in {"stub", "partial"}

(***************************************************************************)
(* A scaffolded file: its methods, whether the user declared something of  *)
(* their own beside them (a var, a const, a function, another type),       *)
(* whether they changed the struct's fields or the constructor's body, and *)
(* whether go/parser accepts it at the moment.                             *)
(***************************************************************************)
KeepContent == [methods : [Methods -> MethodDecl \cup {NoMethod}],
                decls : BOOLEAN, ctor : BOOLEAN, parses : BOOLEAN]
ASSUME ContentAssumption == Gone \notin KeepContent /\ Torn \notin KeepContent

KeepFile == KeepContent \cup {Gone, Torn}
GenFile == Wants \cup {Tampered, Gone, Torn}

Parses(c) == c \notin {Gone, Torn} /\ c.parses
\* The first line says whose file it is; a torn file has none.
Marked(c) == c \notin {Gone, Torn}

(***************************************************************************)
(* What in a scaffolded file is the user's: every method that is not an    *)
(* untouched stub, the declarations beside them, and the whole text while  *)
(* it does not parse.                                                      *)
(***************************************************************************)
UserCode(c) ==
    IF c \in {Gone, Torn} THEN {}
    ELSE {<<m, c.methods[m]>> : m \in {n \in Methods :
              c.methods[n] # NoMethod /\ ~UntouchedStub(c.methods[n])}}
         \cup (IF c.decls THEN {<<"decls", TRUE>>} ELSE {})
         \cup (IF c.parses THEN {} ELSE {<<"unparsable", c>>})
-----------------------------------------------------------------------------
(***************************************************************************)
(* emitGoFile, reconcileKeep and sweep: the content each scaffolded file   *)
(* will have.                                                              *)
(***************************************************************************)
\* Mutant: a stub for every method of the type, wanted or not.
FreshOfAll(want) ==
    [methods |-> [m \in Methods |-> StubOf(want[m])],
     decls |-> FALSE, ctor |-> FALSE, parses |-> TRUE]

Fresh(want) ==
    [methods |-> [m \in Methods |->
                    IF want[m] = NoSig THEN NoMethod ELSE StubOf(want[m])],
     decls |-> FALSE, ctor |-> FALSE, parses |-> TRUE]

\* Mutant: a drifted method is rewritten like an untouched stub.
RewriteDrifted(d, want, managed) ==
    IF want # NoSig
    THEN IF d = NoMethod \/ d.sig # want THEN StubOf(want) ELSE d
    ELSE IF managed /\ UntouchedStub(d) THEN NoMethod ELSE d

\* Mutant: an untouched stub does not follow the spec.
NeverRestub(d, want, managed) ==
    IF want # NoSig THEN IF d = NoMethod THEN StubOf(want) ELSE d
    ELSE IF managed /\ UntouchedStub(d) THEN NoMethod ELSE d

\* One method of an existing file: missing, matching, untouched, drifted or
\* no longer wanted.  managed: the spec still wants a method of the type.
ReconciledMethod(d, want, managed) ==
    IF want # NoSig
    THEN IF d = NoMethod \/ UntouchedStub(d) THEN StubOf(want) ELSE d
    ELSE IF managed /\ UntouchedStub(d) THEN NoMethod ELSE d

Managed(want) == \E m \in Methods : want[m] # NoSig

ReconcileKeep(c, want) ==
    IF ~Parses(c) THEN c
    ELSE [c EXCEPT !.methods =
            [m \in Methods |->
                ReconciledMethod(c.methods[m], want[m], Managed(want))]]

\* Mutant: the declarations the user added are overlooked.
PureBesideDecls(f, c) ==
    /\ Parses(c)
    /\ f \in StructFiles
    /\ \A m \in Methods : c.methods[m] = NoMethod \/ UntouchedStub(c.methods[m])

\* pureScaffolding looks at declarations and method bodies only, never into
\* the struct or the constructor.
PureScaffolding(f, c) ==
    /\ Parses(c)
    /\ f \in StructFiles
    /\ ~c.decls
    /\ \A m \in Methods : c.methods[m] = NoMethod \/ UntouchedStub(c.methods[m])

PlannedKeep(sp, f, c) ==
    IF sp[f] # NoFile
    THEN IF c = Gone THEN Fresh(sp[f]) ELSE ReconcileKeep(c, sp[f])
    ELSE IF Marked(c) /\ PureScaffolding(f, c) THEN Gone ELSE c

\* Mutant: a generated file that exists is kept.
KeepExistingGen(sp, f, g) ==
    IF sp[f] # NoFile THEN IF g = Gone THEN sp[f] ELSE g
    ELSE IF Marked(g) THEN Gone ELSE g

PlannedGen(sp, f, g) ==
    IF sp[f] # NoFile THEN sp[f]
    ELSE IF Marked(g) THEN Gone ELSE g
-----------------------------------------------------------------------------
(***************************************************************************)
(* emitTasks.  k is the plan's view of the scaffolded files, k0 the disk's.*)
(* Line numbers and prompts are left out.                                  *)
(***************************************************************************)
Drifted(sp, k, f, m) ==
    /\ Parses(k[f])
    /\ k[f].methods[m] # NoMethod
    /\ k[f].methods[m].sig # sp[f][m]

\* Mutant: a hole counts only while it is the whole body.
StatusOfStubs(sp, k, f, m) ==
    CASE Drifted(sp, k, f, m) -> "drift"
      [] ~Drifted(sp, k, f, m) /\ UntouchedStub(k[f].methods[m]) -> "open"
      [] OTHER -> "done"

Status(sp, k, f, m) ==
    CASE Drifted(sp, k, f, m) -> "drift"
      [] ~Drifted(sp, k, f, m) /\ HasHole(k[f].methods[m]) -> "open"
      [] OTHER -> "done"

TaskList(sp, k) ==
    {[file |-> x[1], method |-> x[2], contract |-> sp[x[1]][x[2]],
      status |-> Status(sp, k, x[1], x[2])] :
        x \in {y \in Produced(sp) \X Methods :
                /\ sp[y[1]][y[2]] # NoSig
                /\ Status(sp, k, y[1], y[2]) # "done"}}

OrphanMethods(sp, k0) ==
    {x \in Produced(sp) \X Methods :
        /\ Parses(k0[x[1]])
        /\ Managed(sp[x[1]])
        /\ sp[x[1]][x[2]] = NoSig
        /\ k0[x[1]].methods[x[2]] # NoMethod
        /\ ~UntouchedStub(k0[x[1]].methods[x[2]])}

OrphanFiles(sp, k0) ==
    {f \in Files :
        \/ sp[f] = NoFile /\ Marked(k0[f]) /\ ~PureScaffolding(f, k0[f])
        \/ sp[f] # NoFile /\ k0[f] # Gone /\ ~Parses(k0[f])}

PlannedTasks(sp, k, k0) ==
    [tasks |-> TaskList(sp, k), methods |-> OrphanMethods(sp, k0),
     files |-> OrphanFiles(sp, k0)]

Statuses == {"drift", "open", "done"}
TasksContent ==
    [tasks : SUBSET [file : Files, method : Methods, contract : Sigs \cup {NoSig},
                     status : Statuses],
     methods : SUBSET (Files \X Methods),
     files : SUBSET Files]
TasksFile == TasksContent \cup {Gone, Torn}
ASSUME AbsenceAssumption ==
    /\ NoMethod \notin MethodDecl
    /\ Gone \notin Wants
    /\ Gone \notin TasksContent /\ Torn \notin TasksContent

\* findHolesSrc fails the run on a file with tasks that does not parse, though
\* reconcileKeep only noted it.
PlanFails(sp, k) ==
    \E f \in Produced(sp) :
        k[f] # Gone /\ ~Parses(k[f]) /\ Managed(sp[f])
-----------------------------------------------------------------------------
(***************************************************************************)
(* The plan, with finalize's split of the staged files into new and        *)
(* changed ones.                                                           *)
(***************************************************************************)
Paths == ({"keep", "gen"} \X Files) \cup {<<"tasks">>}

Keep(f) == <<"keep", f>>
Gen(f) == <<"gen", f>>
Tasks == <<"tasks">>

PlannedKeeps(sp, k) == [f \in Files |-> PlannedKeep(sp, f, k[f])]
PlannedGens(sp, g) == [f \in Files |-> PlannedGen(sp, f, g[f])]

NewPaths(sp, k, g, t) ==
    {x \in Paths :
        \/ \E f \in Produced(sp) :
              \/ x = Keep(f) /\ k[f] = Gone
              \/ x = Gen(f) /\ g[f] = Gone
        \/ x = Tasks /\ t = Gone}

ChangedPaths(sp, k, g, t, pk, pg, pt) ==
    {x \in Paths :
        \/ \E f \in Produced(sp) :
              \/ x = Keep(f) /\ k[f] # Gone /\ pk[f] # k[f]
              \/ x = Gen(f) /\ g[f] # Gone /\ pg[f] # g[f]
        \/ x = Tasks /\ t # Gone /\ pt # t}

GonePaths(sp, k, g, pk, pg) ==
    {x \in Paths :
        \E f \in Files \ Produced(sp) :
            \/ x = Keep(f) /\ pk[f] # k[f]
            \/ x = Gen(f) /\ pg[f] # g[f]}

PlanFor(sp, k, g, t, pk, pg, pt) ==
    [spec |-> sp, keep |-> pk, gen |-> pg, tasks |-> pt,
     new |-> NewPaths(sp, k, g, t),
     changed |-> ChangedPaths(sp, k, g, t, pk, pg, pt),
     gone |-> GonePaths(sp, k, g, pk, pg)]

PlanOf(sp, k, g, t) ==
    PlanFor(sp, k, g, t, PlannedKeeps(sp, k), PlannedGens(sp, g),
            PlannedTasks(sp, PlannedKeeps(sp, k), k))

Plans == [spec : Specs, keep : [Files -> KeepFile], gen : [Files -> GenFile],
          tasks : TasksFile, new : SUBSET Paths, changed : SUBSET Paths,
          gone : SUBSET Paths]

(***************************************************************************)
(* checkResult: what `tilegen check` makes of the plan.  A changed file    *)
(* that reconcileKeep updated is not counted among the stale ones.         *)
(***************************************************************************)
Updated(p) == {x \in p.changed : x[1] = "keep"}
Stale(p) == p.changed \ Updated(p)

\* Mutant: files that would be rewritten are not counted.
CheckPassesOnStale(p, allowHoles) ==
    /\ p.new = {} /\ p.gone = {}
    /\ \A x \in p.tasks.tasks : x.status # "drift"
    /\ allowHoles \/ p.tasks.tasks = {}

CheckPasses(p, allowHoles) ==
    /\ p.new = {} /\ Stale(p) = {} /\ p.gone = {}
    /\ \A x \in p.tasks.tasks : x.status # "drift"
    /\ allowHoles \/ p.tasks.tasks = {}
=============================================================================
