------------------------------- MODULE Compile -------------------------------
(***************************************************************************)
(* compileForms, Emit and the plan of `tilegen plan`: a spec goes through  *)
(* merge, validation, selection, the passes, staging and the layout of the *)
(* plan graph, one phase after another, and stops at the first phase that  *)
(* finds something wrong.                                                  *)
(*                                                                         *)
(* whole is the spec as one file would hold it.  The compiler never sees   *)
(* it: it is what the files are compared with.  Which of the legal tiles a *)
(* need gets is left open, as a lock or a config can pin any of them; how  *)
(* it is chosen is the business of Selection.                              *)
(***************************************************************************)
EXTENDS Lowering, InterfaceWalk, ImportCycles, PlanGraph

CONSTANT Specs        \* what there is to compile: [whole, files, strict]

VARIABLES phase,      \* how far the compile has come
          spec,       \* what is compiled
          project,    \* the linked project
          cover,      \* the tile of each need
          walking,    \* whose methods are being listed: [pkg, iface]
          walked,     \* what was found for those that were
          out,        \* what select returned: files, tasks and sql
          staged,     \* the files to write
          errs        \* why it stopped

compileVars == <<phase, spec, project, cover, walking, walked, out, staged, errs>>
vars == <<compileVars, searchVars, walkVars, graphVars>>

NoProject == [go |-> 0, packages |-> <<>>, requires |-> <<>>, others |-> {}]
NoOutput == [files |-> {}, tasks |-> {}, sql |-> {}, errs |-> {}]

\* Before anything is read.
Fresh ==
    /\ project = NoProject
    /\ cover = <<>>
    /\ walking = {}
    /\ walked = <<>>
    /\ out = NoOutput
    /\ staged = {}
    /\ errs = {}
    /\ NoSearch
    /\ NoWalk

Init ==
    /\ phase = "read"
    /\ spec \in Specs
    /\ Fresh
    /\ NoGraph

\* A phase that finds errors reports them and is the last.
Proceed(to, found) ==
    /\ errs' = found
    /\ phase' = IF found = {} THEN to ELSE "refused"

Link ==
    LET forms == ReadSpec(spec.files)
    IN  /\ phase = "read"
        /\ \/ /\ LinkPanics(forms)
              /\ phase' = "panicked"
              /\ UNCHANGED <<project, errs>>
           \/ /\ ~LinkPanics(forms)
              /\ Proceed("linked", LinkErrors(forms))
              /\ project' = IF LinkErrors(forms) = {} THEN Linked(forms) ELSE project
        /\ UNCHANGED <<spec, cover, walking, walked, out, staged, searchVars, walkVars, graphVars>>

\* Validate looks at every form, then searches the imports for a cycle, and
\* reports all it has found.
Validate ==
    /\ phase = "linked"
    /\ phase' = "searching"
    /\ StartSearch(Deps(project.packages))
    /\ errs' = ValidateErrors(project, spec.strict)
    /\ UNCHANGED <<spec, project, cover, walking, walked, out, staged, walkVars, graphVars>>

Search ==
    /\ phase = "searching"
    /\ SearchNext
    /\ UNCHANGED <<compileVars, walkVars, graphVars>>

EndValidate ==
    /\ phase = "searching"
    /\ Searched
    /\ Proceed("valid", errs \union {e \in {<<"cycle", loop>>} : loop # <<>>})
    /\ UNCHANGED <<spec, project, cover, walking, walked, out, staged, searchVars, walkVars, graphVars>>

\* ---------------------------------------------------------------- selection
Needs == UNION {NeedsOf(p) : p \in Range(project.packages)}

Legal(need) ==
    {t \in DOMAIN Catalog : /\ Catalog[t].capability = need.capability
                            /\ need.requires \intersect Catalog[t].refuses = {}}

\* coverAll: every need gets a legal tile.
Covers == {c \in [{n.id : n \in Needs} -> DOMAIN Catalog] : \A n \in Needs : c[n.id] \in Legal(n)}

ToolPackages(c) == UNION {Catalog[t].packages : t \in Used(c)}

\* checkReserved: no package may have the name of one a chosen tile needs.
ReservedErrors(c) ==
    {<<"reserved", p.name>> : p \in {p \in Range(project.packages) : p.name \in ToolPackages(c)}}

Cover ==
    /\ phase = "valid"
    /\ \/ \E c \in Covers :
            /\ cover' = c
            /\ Proceed("covered", ReservedErrors(c))
       \/ /\ Covers = {}
          /\ Proceed("covered", {<<"no legal tile">>})
          /\ UNCHANGED cover
    /\ UNCHANGED <<spec, project, walking, walked, out, staged, searchVars, walkVars, graphVars>>

\* ------------------------------------------------------------------- passes
\* What select may import: the declared requires and those the tiles add, and
\* the packages of the project and of the tiles' tools.
Requires(p, c) == {e.alias : e \in Range(p.requires)} \union UNION {Catalog[t].imports : t \in Used(c)}
Locals(p, c) == {q.name : q \in Range(p.packages)} \union ToolPackages(c)

LoweredPackages(p) == [n \in DOMAIN p.packages |-> Concretize(Expand(p.packages[n]))]
Lowered(p, c, w) == SelectProject(LoweredPackages(p), c, w, Requires(p, c), Locals(p, c))

\* The interfaces that implement forms name, whose methods select lists.
Walks(p) ==
    UNION {{[pkg |-> n, iface |-> it.iface] : it \in {it \in FormsOf(LoweredPackages(p)[n].items, "implement") :
                                                         it.iface \in IfaceNames(LoweredPackages(p)[n])}}
           : n \in DOMAIN p.packages}

BeginWalk ==
    /\ phase = "covered"
    /\ walking = {}
    /\ \E w \in Walks(project) \ DOMAIN walked :
          /\ walking' = {w}
          /\ StartWalk(InterfaceTable(LoweredPackages(project)[w.pkg]), w.iface)
    /\ UNCHANGED <<phase, spec, project, cover, walked, out, staged, errs, searchVars, graphVars>>

Walk ==
    /\ phase = "covered"
    /\ walking # {}
    /\ WalkNext
    /\ UNCHANGED <<compileVars, searchVars, graphVars>>

EndWalk ==
    /\ phase = "covered"
    /\ walking # {}
    /\ Walked
    /\ walked' = [w \in DOMAIN walked \union walking |-> IF w \in walking THEN Result ELSE walked[w]]
    /\ walking' = {}
    /\ UNCHANGED <<phase, spec, project, cover, out, staged, errs, searchVars, walkVars, graphVars>>

Lower ==
    /\ phase = "covered"
    /\ walking = {}
    /\ Walks(project) \subseteq DOMAIN walked
    /\ out' = Lowered(project, cover, walked)
    /\ Proceed("lowered", out'.errs)
    /\ UNCHANGED <<spec, project, cover, walking, walked, staged, searchVars, walkVars, graphVars>>

\* ----------------------------------------------------------------- emission
\* A path staged twice holds what was staged last.
Stage(files) == {f \in files : \A g \in files : PathOf(g) = PathOf(f) => g = f \/ Before(g.at, f.at)}
Paths == {PathOf(f) : f \in staged}

\* No go file has the path of an sql file.
SqlFile(path) == [at |-> <<0, 0, 0, 0>>, dir |-> path[1], stem |-> path[2], mode |-> "generated",
                  pkg |-> Local, decls |-> {}]

\* The schema is written when there are tables, the queries when there are some.
SqlFiles(sql) ==
    {f \in {SqlFile(SchemaFile)} : sql # {}} \union {f \in {SqlFile(QueryFile)} : \E s \in sql : s.kind = "query"}

Files == out.files \union SqlFiles(out.sql)

Emit ==
    /\ phase = "lowered"
    /\ staged' = Stage(Files)
    /\ phase' = "emitted"
    /\ UNCHANGED <<spec, project, cover, walking, walked, out, errs, searchVars, walkVars, graphVars>>

\* --------------------------------------------------------------- plan graph
\* producerOf: a go file is credited to the tile its name starts with, the sql to
\* a tile that runs sqlc.
SqlProducer == {t \in Used(cover) : Catalog[t].sql = "queries"}
Producer(path) ==
    IF path \in {SchemaFile, QueryFile} THEN {t \in SqlProducer : t = CHOOSE u \in SqlProducer : TRUE}
    ELSE {t \in Used(cover) : /\ path[2][1] = t
                              /\ Catalog[t].capability \in {"store", "event-bus"}
                              /\ Last(path[2]) \in {"Store", "Bus"}}

\* The sqlc tiles share one command.
ToolDirs == IF SqlProducer = {} THEN {} ELSE {<<"dir", "internal/db">>}
Tools == IF SqlProducer = {} THEN {} ELSE {<<"tool", "sqlc generate">>}

ContextNodes(path) ==
    IF path \in Paths THEN {<<"file", path>>}
    ELSE IF path[1] = "internal/db" THEN ToolDirs ELSE {}

TaskDeps(id) ==
    LET own == {t \in out.tasks : t.id = id}
    IN  UNION {UNION {ContextNodes(c) : c \in t.context \union ({t.file} \ {<<>>})} : t \in own}

NodeDeps(n) ==
    CASE n[1] = "need" -> {<<"tile", cover[n[2]]>>}
      [] n[1] = "file" -> {<<"tile", t>> : t \in Producer(n[2])}
      [] n[1] = "tool" -> {<<"file", p>> : p \in {p \in Paths : p[1] = "db"}}
      [] n[1] = "dir"  -> Tools
      [] n[1] = "task" -> TaskDeps(n[2])
      [] OTHER         -> {}

\* buildPlanGraph
PlanNodes ==
    UNION {{<<"need", id>> : id \in DOMAIN cover}, {<<"tile", t>> : t \in Used(cover)},
           {<<"file", p>> : p \in Paths}, Tools, ToolDirs, {<<"task", t.id>> : t \in out.tasks}}

BuildGraph ==
    /\ phase = "emitted"
    /\ StartLevels([node |-> PlanNodes, deps |-> [n \in PlanNodes |-> NodeDeps(n)]])
    /\ phase' = "planning"
    /\ UNCHANGED <<spec, project, cover, walking, walked, out, staged, errs, searchVars, walkVars>>

Layout ==
    /\ phase = "planning"
    /\ NextLevel
    /\ UNCHANGED <<compileVars, searchVars, walkVars>>

\* The levels are printed, and the cycle if not every node is in one.
Report ==
    /\ phase = "planning"
    /\ ready = {}
    /\ phase' = IF Stuck = {} THEN "planned" ELSE "cyclic plan"
    /\ UNCHANGED <<spec, project, cover, walking, walked, out, staged, errs, searchVars, walkVars, graphVars>>

Next ==
    \/ Link \/ Validate \/ Search \/ EndValidate
    \/ Cover \/ BeginWalk \/ Walk \/ EndWalk \/ Lower
    \/ Emit \/ BuildGraph \/ Layout \/ Report

Spec == Init /\ [][Next]_vars

\* ---------------------------------------------------------------------------
\* A compile that got as far as its files.
Emitted == spec.files # <<>> /\ phase \in {"emitted", "planning", "planned", "cyclic plan"}

Declares(f, name, recv) == \E d \in f.decls : d.name = name /\ d.recv = recv
DeclaredIn(pkg, name, recv) == \E f \in staged : f.pkg = pkg /\ Declares(f, name, recv)
Contents(files) == {[path |-> PathOf(f), pkg |-> f.pkg, mode |-> f.mode, decls |-> f.decls] : f \in files}

\* Staging keeps one file of a path, expand one store of an entity and select
\* one interface of a name.  Validation refuses none of the three: specs that
\* use one of them twice are left out where a property says so.
PathsDistinct == \A f, g \in Files : PathOf(f) = PathOf(g) => f = g
OneStoreEach ==
    \A p \in Range(project.packages) : \A e \in FormsOf(p.items, "entity") :
        \A i, j \in StoresAt(e) : i = j
InterfacesDistinct ==
    \A p \in Range(project.packages) : LET items == Expand(p).items IN
        \A a, b \in PlacesOf(items, "interface") : items[a].name = items[b].name => a = b

ProjectNames == {p.name : p \in Range(project.packages)}

\* A spec fares the same however it is split into files, and in whichever of
\* them the header stands, as long as the parts of a package and the requires
\* keep their order: it links, or merge refuses it for the same reasons or fails
\* on it; validation has the same to say and the same needs are covered; and with
\* the same tiles the passes refuse it for the same reasons or make the same
\* files, sql and tasks (README.md "Specs across files", merge.go Merge).
SplitIsImmaterial ==
    /\ phase = "panicked" => LinkPanics(spec.whole)
    /\ phase = "refused" /\ project = NoProject =>
           ~LinkPanics(spec.whole) /\ errs = LinkErrors(spec.whole)
    /\ phase = "linked" =>
           /\ ~LinkPanics(spec.whole) /\ LinkErrors(spec.whole) = {}
           /\ \A one \in {Linked(spec.whole)} :
                  /\ ValidateErrors(project, spec.strict) = ValidateErrors(one, spec.strict)
                  /\ Deps(project.packages) = Deps(one.packages)
                  /\ Needs = UNION {NeedsOf(p) : p \in Range(one.packages)}
    /\ phase = "lowered" \/ (phase = "refused" /\ out # NoOutput) =>
           \A low \in {Lowered(Linked(spec.whole), cover, walked)} :
               /\ out.errs = low.errs
               /\ out.errs = {} /\ PathsDistinct =>
                      /\ Contents(out.files) = Contents(low.files)
                      /\ out.sql = low.sql
                      /\ {t.id : t \in out.tasks} = {t.id : t \in low.tasks}

\* What validation accepts has no import cycle.  One that there is is found
\* however the rest of the spec may be wrong, and the cycle that is reported is
\* one: packages that each import the next, back to the first (validate.go
\* cycles).
CyclesReported ==
    LET deps == Deps(project.packages)
    IN  /\ phase = "valid" => ~Cyclic(deps)
        /\ phase = "refused" /\ Cyclic(deps) => <<"cycle", loop>> \in errs
        /\ loop # <<>> => IsLoop(deps, loop)

\* What a generated file imports from the project, package by package.
CodeDeps ==
    [node |-> ProjectNames,
     edge |-> UNION {{<<f.pkg, q>> : q \in ProjectNames \intersect
                          LocalImports(f, Requires(project, cover), Locals(project, cover))}
                     : f \in {f \in staged : f.pkg \in ProjectNames}}]

\* No import cycle reaches go build: what validation accepts, the passes do not
\* turn into generated packages that import each other, whatever tiles are
\* chosen and whatever they add.  A project package called like a standard one
\* that tilegen's own code names is the exception: that code then imports it.
NoCycleInTheCode == Emitted /\ ProjectNames \intersect Std = {} => ~Cyclic(CodeDeps)

\* The task of a method, with the stub it is about in the file it names.
Asked(pkg, impl, name) ==
    \E t \in out.tasks : /\ t.id = <<pkg, impl, name>>
                          /\ \E f \in staged : PathOf(f) = t.file /\ Declares(f, name, impl)

ItemKept(it, p) ==
    CASE it.head \in {"struct", "interface"} -> DeclaredIn(p.name, it.name, <<>>)
      [] it.head = "entity" ->
             /\ DeclaredIn(p.name, it.name, <<>>)
             /\ \A s \in Stores(it) : \A op \in Range(s.ops) :
                    op.kind \notin Requirements \union {"constraint"} =>
                        Asked(p.name, <<cover[<<p.name, StoreName(it)>>]>> \o StoreName(it), OpMethodName(op))
      [] it.head = "enum" ->
             /\ DeclaredIn(p.name, it.name, <<>>)
             /\ \A v \in Range(it.values) : DeclaredIn(p.name, it.name \o v, <<>>)
      [] it.head = "implement" -> DeclaredIn(p.name, it.as[1], <<>>)
      [] it.head = "events" ->
             LET bus == <<cover[<<p.name, <<"Bus">>>>], "Bus">>
             IN  \A e \in Range(it.items) : /\ DeclaredIn(p.name, e.name, <<>>)
                                           /\ DeclaredIn(p.name, <<"Publish">> \o e.name, bus)
                                           /\ DeclaredIn(p.name, <<"On">> \o e.name, bus)
      [] it.head = "http" ->
             \A r \in Range(it.items) : /\ DeclaredIn(p.name, HandlerName(r), <<"Handler">>)
                                       /\ Asked(p.name, <<"Handler">>, <<"validate">> \o r.entity)
      [] it.head = "auth" ->
             DeclaredIn(p.name, <<"Authenticate">>, <<cover[<<p.name, <<"Auth">>>>], "Authenticator">>)
      [] it.head \in {"doc", "dir"} -> TRUE
      [] OTHER ->
             \A i \in {i \in DOMAIN p.items : p.items[i] = it} : \E t \in out.tasks :
                 t.file = <<>> /\ t.id = <<p.name, <<"llm">>, <<i, 1>>>>

\* Every form of an accepted spec comes out as code or as a task: a store's ops
\* and a route's holes as a stub with its task, in the file the task names; a
\* form no tile covers as a task of its own, however many there are.  Nothing is
\* silently dropped between the passes (pass_select.go selectUncovered).
NothingDropped ==
    Emitted /\ PathsDistinct /\ OneStoreEach /\ InterfacesDistinct =>
        \A p \in Range(project.packages) : \A it \in Range(p.items) : ItemKept(it, p)

\* The interfaces one is made of, itself included: those in every set that has
\* it and, with an interface, all it embeds from the package.
Closed(forms, names) ==
    \A i \in forms : i.name \in names =>
        \A e \in Embeds(i) : EmbedsHere(e, {j.name : j \in forms}) => e.type.name \in names
MadeOf(forms, name) ==
    {n \in {i.name : i \in forms} :
        \A names \in SUBSET {i.name : i \in forms} : name \in names /\ Closed(forms, names) => n \in names}

\* An implement form gets one stub for each method of its interface and of all
\* it embeds from the package, and no other: the type satisfies the interface
\* and no hole is asked for twice (implement.go interfaceMethods).
StubsCoverInterface ==
    Emitted /\ PathsDistinct /\ InterfacesDistinct =>
        \A p \in Range(project.packages) : \A it \in FormsOf(p.items, "implement") :
            LET forms  == FormsOf(Expand(p).items, "interface")
                wanted == UNION {{m.name : m \in Methods(i)}
                                 : i \in {i \in forms : i.name \in MadeOf(forms, it.iface)}}
                file   == {f \in staged : PathOf(f) = <<DirOf(Expand(p)), it.as[1]>>}
                stubs  == {d \in UNION {f.decls : f \in file} : d.nth # 0}
            IN  /\ {d.name : d \in stubs} = wanted
                /\ \A d, e \in stubs : d.name = e.name => d = e

\* The project package whose type a type named in pkg is.
NamesTypeOf(type, pkg, p) == p.name = IF type.q = Local THEN pkg ELSE type.q

DeclaredByForm(p, name) ==
    \E it \in Range(p.items) : it.head \in {"struct", "entity", "interface", "enum"} /\ it.name = name

\* The declaration of a type is in the context of a task, or in its file.
Shown(t, p, name) ==
    \E f \in staged : PathOf(f) \in t.context \union {t.file} /\ f.pkg = p.name /\ Declares(f, name, <<>>)

\* What each type a hole's method names must satisfy.
HoleTypes(t, Holds(_)) ==
    \A f \in {f \in staged : PathOf(f) = t.file} : \A d \in f.decls :
        d.nth # 0 /\ d.recv = t.id[2] /\ d.name = t.id[3] => \A type \in d.types : Holds(type)

\* The prompt of a hole shows the declaration of each type its method names
\* that a struct, entity, interface or enum form of the project declares,
\* whichever package it is in and whatever the tiles: the context of the task,
\* or its own file, holds it (pass_select.go foreignGenFiles).  The types of
\* events are left out: see TasksSeeTheirTypes.
HolesSeeTypes ==
    Emitted /\ PathsDistinct /\ ProjectNames \intersect Std = {} =>
        \A t \in out.tasks : LET Holds(type) ==
                \A p \in Range(project.packages) :
                    NamesTypeOf(type, t.id[1], p) /\ DeclaredByForm(p, type.name) => Shown(t, p, type.name)
            IN  HoleTypes(t, Holds)

\* The same of every type a file of the project declares, events included.
TasksSeeTheirTypes ==
    Emitted => \A t \in out.tasks : LET Holds(type) ==
            \A p \in Range(project.packages) :
                NamesTypeOf(type, t.id[1], p) /\ DeclaredIn(p.name, type.name, <<>>) => Shown(t, p, type.name)
        IN  HoleTypes(t, Holds)

\* "the SQL a backend writes is its own dialect's" (tilegen_test.go:3654).
SqlIsItsBackends ==
    \A s \in out.sql : s.dialect = IF Catalog[s.tile].dialect THEN s.tile ELSE "postgresql"
=============================================================================
