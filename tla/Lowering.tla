----------------------------- MODULE Lowering -----------------------------
(***************************************************************************)
(* The passes that turn a validated project into target forms: expand,     *)
(* concretize and select, with the tiles of stores, implement, enum, http, *)
(* events and auth.                                                        *)
(*                                                                         *)
(* What a tile yields is a record of sets: decls for the package's         *)
(* generated file, files, tasks, sql and errs.  A declaration is [name,    *)
(* recv, types, nth]: recv is the type a method is on (<<>> for none),     *)
(* types what its signature names, nth which of its tile's methods it is   *)
(* (0 for none), so that a method written twice is there twice.  A file is *)
(* [at, dir, stem, mode, pkg, decls]; its stem is the name it is made      *)
(* from, in snake case, so words stand for both.                           *)
(*                                                                         *)
(* A form of an expanded package is at <<i, k>>: it is the k-th the i-th   *)
(* item of the spec became.  A file is at <<p, i, k, n>>: the n-th of that *)
(* form, in the package that stands at p among the items of the project.   *)
(***************************************************************************)
EXTENDS Validation

CONSTANTS Std,             \* the qualifiers of standard packages
          Ambiguous,       \* those that several standard packages have
          Catalog          \* what each registered tile is: see CatalogAssumption

\* The capability a tile offers; the requirements it cannot meet; the types its
\* own code names, and whether the entity and the type of its ID are among them;
\* the qualifiers it adds to the requires; the packages its tool writes, reserved
\* for it; whether it writes no sql, tables, or queries too; whether that is in a
\* dialect of its own; and whether its methods are holes.  A tile uses the
\* packages it brings "and nothing else beyond the standard library"
\* (tilespec.go:280).
ASSUME CatalogAssumption ==
    /\ Catalog \in [DOMAIN Catalog ->
        [capability : {"store", "event-bus", "auth"}, refuses : SUBSET STRING,
         types : SUBSET [q : STRING, name : Seq(STRING)], keyed : BOOLEAN, imports : SUBSET STRING, packages : SUBSET STRING,
         sql : {"none", "tables", "queries"}, dialect : BOOLEAN, holes : BOOLEAN]]
    /\ \A tile \in DOMAIN Catalog : \A t \in Catalog[tile].types :
           t.q \in Catalog[tile].imports \union Catalog[tile].packages \union Std \union {Local}

ASSUME StdAssumption == {"context", "http"} \subseteq Std \ Ambiguous /\ Ambiguous \subseteq Std

TypeNamed(q, n) == [q |-> q, name |-> n]
Here(name) == TypeNamed(Local, name)
ContextType == TypeNamed("context", <<"Context">>)
RequestType == TypeNamed("http", <<"Request">>)

\* ------------------------------------------------------------------- places
\* What comes last of some places, or none; the first store, and the last.
Before(a, b) == \E m \in DOMAIN a : a[m] < b[m] /\ \A l \in DOMAIN a : l < m => a[l] = b[l]
LastOf(places) == {a \in places : \A b \in places : b = a \/ Before(b, a)}

StoresAt(it) == PlacesOf(it.items, "store")
FirstStore(it) == {it.items[i] : i \in {i \in StoresAt(it) : \A j \in StoresAt(it) : j = i \/ i < j}}
LastStore(it) == {it.items[i] : i \in {i \in StoresAt(it) : \A j \in StoresAt(it) : j = i \/ j < i}}

\* ------------------------------------------------------------------- expand
FieldType(it, name) == (CHOOSE f \in Fields(it) : f.name = name).type

OpTypes(it, op) ==
    CASE op.kind \in {"get", "delete"} -> {FieldType(it, "ID"), Here(it.name)}
      [] op.kind \in FieldOps -> {FieldType(it, op.field), Here(it.name)}
      [] op.kind = "method"   -> op.types
      [] OTHER                -> {Here(it.name)}

\* Mutant: a custom method is not an op.
IsPlainOp(op) == op.kind \notin Requirements \union {"constraint", "method"}

IsMethodOp(op) == op.kind \notin Requirements \union {"constraint"}

StructForm(it) ==
    [head |-> "struct", name |-> it.name,
     items |-> [i \in DOMAIN it.items \ StoresAt(it) |-> it.items[i]]]

\* The ops of a store that get a method, where they stand.
Ops(store) == [j \in {j \in DOMAIN store.ops : IsMethodOp(store.ops[j])} |-> store.ops[j]]

InterfaceForm(it, ops) ==
    [head |-> "interface", name |-> StoreName(it),
     items |-> [j \in DOMAIN ops |-> [head |-> "method", name |-> OpMethodName(ops[j]),
                                      types |-> OpTypes(it, ops[j])]]]

ImplForm(it, ops) == [head |-> "impl", iface |-> StoreName(it), for |-> it.name, ops |-> ops]

\* An entity is a struct, an interface and a promise to implement it.  Of
\* several stores the last is taken.
Expanded(it) ==
    IF it.head # "entity" THEN <<it>>
    ELSE IF LastStore(it) = {} THEN <<StructForm(it)>>
    ELSE LET ops == Ops(CHOOSE s \in LastStore(it) : TRUE)
         IN  <<StructForm(it), InterfaceForm(it, ops), ImplForm(it, ops)>>

ExpandedPlaces(items) == UNION {{i} \X DOMAIN Expanded(items[i]) : i \in DOMAIN items}

Expand(pkg) ==
    [name |-> pkg.name, at |-> pkg.at,
     items |-> [a \in ExpandedPlaces(pkg.items) |-> Expanded(pkg.items[a[1]])[a[2]]]]

\* --------------------------------------------------------------- concretize
\* A package says where it goes, or the layout does.
DirOf(pkg) ==
    LET dirs == LastOf(PlacesOf(pkg.items, "dir"))
    IN  IF dirs = {} THEN pkg.name ELSE pkg.items[CHOOSE a \in dirs : TRUE].path

WithContext(m) ==
    IF m.head # "method" THEN m
    ELSE [head |-> "method", name |-> m.name, types |-> m.types \union {ContextType}]

\* The house style puts ctx first in every method.  The tile chosen for a store,
\* which the code writes on the impl here, is looked up in select.
ConcretizeItem(it) ==
    IF it.head # "interface" THEN it
    ELSE [head |-> "interface", name |-> it.name, items |-> [i \in DOMAIN it.items |-> WithContext(it.items[i])]]

Concretize(pkg) ==
    [name |-> pkg.name, at |-> pkg.at, dir |-> DirOf(pkg),
     items |-> [a \in DOMAIN pkg.items \ PlacesOf(pkg.items, "dir") |-> ConcretizeItem(pkg.items[a])]]

\* ------------------------------------------------------------------- needs
Need(pkg, name, capability, requires) ==
    [id |-> <<pkg.name, name>>, capability |-> capability, requires |-> requires]

\* What a store asks for in so many words, and what its ops imply.
StoreRequires(store) ==
    LET kinds == {op.kind : op \in Range(store.ops)}
    IN  (kinds \intersect Requirements)
          \union (IF kinds \intersect FieldOps # {} THEN {"lookup-by-field"} ELSE {})

\* needsOf takes an entity's first store.
NeedsOf(pkg) ==
    {Need(pkg, StoreName(e), "store", UNION {StoreRequires(s) : s \in FirstStore(e)})
        : e \in {e \in FormsOf(pkg.items, "entity") : Stores(e) # {}}}
    \union {Need(pkg, <<"Bus">>, "event-bus", e.requires) : e \in FormsOf(pkg.items, "events")}
    \union {Need(pkg, <<"Auth">>, "auth", e.requires) : e \in FormsOf(pkg.items, "auth")}

\* ------------------------------------------------------------------- select
Decl(name, types) == [name |-> name, recv |-> <<>>, types |-> types, nth |-> 0]
Method(recv, name, types, nth) == [name |-> name, recv |-> recv, types |-> types, nth |-> nth]

Yield(decls, files, tasks) == [decls |-> decls, files |-> files, tasks |-> tasks, sql |-> {}, errs |-> {}]
Failed(errs) == [decls |-> {}, files |-> {}, tasks |-> {}, sql |-> {}, errs |-> errs]

GoFile(pkg, at, stem, mode, decls) ==
    [at |-> <<pkg.at>> \o at, dir |-> pkg.dir, stem |-> stem, mode |-> mode, pkg |-> pkg.name, decls |-> decls]
PathOf(f) == <<f.dir, f.stem>>
GenPath(pkg) == <<pkg.dir, <<pkg.name, "gen">>>>
SchemaFile == <<"db", <<"schema">>>>
QueryFile == <<"db", <<"query">>>>

\* The forms of a head, of several of one name the last, and those of a name.
Standing(pkg, h) ==
    LET Same(name) == {b \in PlacesOf(pkg.items, h) : pkg.items[b].name = name}
    IN  {pkg.items[a] : a \in {a \in PlacesOf(pkg.items, h) : a \in LastOf(Same(pkg.items[a].name))}}

Called(pkg, h, name) == {f \in Standing(pkg, h) : f.name = name}

IfaceNames(pkg) == {i.name : i \in Standing(pkg, "interface")}

\* What the walk of InterfaceWalk reads.
InterfaceTable(pkg) == [n \in IfaceNames(pkg) |-> (CHOOSE i \in Called(pkg, "interface", n) : TRUE).items]

\* The methods among some items: what stubs and tasks are made of.
MethodsIn(items) ==
    {[name |-> items[i].name, types |-> items[i].types, nth |-> i] : i \in PlacesOf(items, "method")}

TypesIn(methods) == UNION {m.types : m \in methods}

\* stubsAndTasks: one stub and one task for each method.
Stubs(impl, methods) == {Method(impl, m.name, m.types, m.nth) : m \in methods}
Tasks(pkg, impl, stem, methods, context) ==
    {[id |-> <<pkg.name, impl, m.name>>, file |-> <<pkg.dir, stem>>, context |-> context] : m \in methods}

\* A type a tile writes, its constructor and its methods.
TypeCode(name, types, methods) ==
    {Decl(name, types), Decl(<<"New">> \o name, {})} \union Stubs(name, methods)

\* Mutant: a type of another package is looked for in this one.
OwnGen(pkg, types, project) == {GenPath(pkg)}

\* The generated files of the other packages whose types are named.
ForeignGen(pkg, types, project) ==
    {GenPath(p) : p \in {p \in Range(project) : p.name # pkg.name /\ \E t \in types : t.q = p.name}}

SelectEnum(it) ==
    Yield({Decl(it.name, {}), Decl(it.name \o <<"Values">>, {}),
           Method(it.name, <<"Valid">>, {}, 1), Decl(<<"Parse">> \o it.name, {})}
            \union {Decl(it.name \o v, {}) : v \in Range(it.values)}, {}, {})

\* usedBackends and dialectOf: the project has one dialect, that of a used tile
\* with one of its own.
Used(cover) == {cover[n] : n \in DOMAIN cover}
Dialect(cover) ==
    IF \E t \in Used(cover) : Catalog[t].dialect
    THEN CHOOSE t \in Used(cover) : Catalog[t].dialect ELSE "postgresql"

\* A store's table and queries, named by the entity alone.  A custom method has
\* no query; a tile without sqlc keeps only the table.
SqlFor(it, tile, pkg, cover) ==
    LET Statement(kind, name) == [kind |-> kind, entity |-> it.for, name |-> name, dialect |-> Dialect(cover),
                                  pkg |-> pkg.name, tile |-> tile]
        known == {op \in Range(it.ops) : op.kind # "method" /\ Catalog[tile].sql = "queries"}
    IN  IF Catalog[tile].sql = "none" THEN {}
        ELSE {Statement("table", <<>>)} \union {Statement("query", OpMethodName(op)) : op \in known}

SqlContext(tile) ==
    CASE Catalog[tile].sql = "none"    -> {}
      [] Catalog[tile].sql = "tables"  -> {SchemaFile}
      [] Catalog[tile].sql = "queries" -> {QueryFile, <<"internal/db", <<"models">>>>}

IdTypes(pkg, entity) ==
    {f.type : f \in {f \in UNION {Fields(s) : s \in Called(pkg, "struct", entity)} : f.name = "ID"}}

\* The types a store's own code names.
StoreTypes(tile, entity, pkg) ==
    Catalog[tile].types
      \union (IF Catalog[tile].keyed THEN {Here(entity)} \union IdTypes(pkg, entity) ELSE {})

\* The tile chosen for a store: none for an impl that no entity became.
StoreTile(pkg, iface, cover) ==
    {cover[n] : n \in {n \in DOMAIN cover : n = <<pkg.name, iface>> /\ Catalog[cover[n]].capability = "store"}}

\* The code of a store, with the interface and the struct it is about.
StoreCode(at, it, pkg, project, cover, tile, i, s) ==
    LET impl    == <<tile>> \o it.iface
        methods == MethodsIn(i.items)
        named   == TypesIn(methods) \union {f.type : f \in Fields(s)}
    IN  [decls |-> {Decl(<<"ErrNotFound">>, {})},
         files |-> {GoFile(pkg, at \o <<1>>, impl, "keep", TypeCode(impl, StoreTypes(tile, it.for, pkg), methods))},
         tasks |-> Tasks(pkg, impl, impl, methods, {GenPath(pkg)} \union ForeignGen(pkg, named, project) \union SqlContext(tile)),
         sql |-> SqlFor(it, tile, pkg, cover), errs |-> {}]

SelectImpl(at, it, pkg, project, cover) ==
    LET tiles   == StoreTile(pkg, it.iface, cover)
        ifaces  == Called(pkg, "interface", it.iface)
        structs == Called(pkg, "struct", it.for)
    IN  IF tiles = {} THEN Failed({<<"no tile", it.iface>>})
        ELSE IF ifaces = {} \/ structs = {} THEN Failed({<<"not found", it.iface>>})
        ELSE StoreCode(at, it, pkg, project, cover, CHOOSE t \in tiles : TRUE,
                       CHOOSE i \in ifaces : TRUE, CHOOSE s \in structs : TRUE)

\* walked has what the walk of each interface found: see Compile.
SelectImplement(at, it, pkg, project, walked) ==
    LET impl    == it.as[1]
        found   == walked[[pkg |-> pkg.name, iface |-> it.iface]]
        methods == MethodsIn(found.methods)
        fields  == {f.type : f \in Range(it.fields)}
    IN  IF it.iface \notin IfaceNames(pkg) THEN Failed({<<"no interface", it.iface>>})
        ELSE IF ~found.ok THEN Failed({<<"embeds itself", it.iface>>})
        ELSE Yield({}, {GoFile(pkg, at \o <<1>>, impl, "keep", TypeCode(impl, fields, methods))},
                   Tasks(pkg, impl, impl, methods,
                         {GenPath(pkg)} \union ForeignGen(pkg, TypesIn(methods) \union fields, project)))

\* http: a handler per route, and two holes per entity served.
HandlerName(r) == IF r.verb = "list" THEN <<"list">> \o r.entity \o <<"s">> ELSE <<r.verb>> \o r.entity

HandlerTypes(r, pkg) ==
    {Here(r.entity), RequestType} \union (IF HasID(r) THEN IdTypes(pkg, r.entity) ELSE {})

HandlerHoles(entities) ==
    {[name |-> <<"validate">> \o e, types |-> {Here(e)}, nth |-> 1] : e \in entities}
      \union {[name |-> <<"statusFor">> \o e, types |-> {}, nth |-> 1] : e \in entities}

HandlerCode(it, pkg, served) ==
    {Decl(<<"Handler">>, {Here(e \o <<"Store">>) : e \in served}), Decl(<<"New", "Handler">>, {}),
     Method(<<"Handler">>, <<"Routes">>, {TypeNamed("http", <<"ServeMux">>)}, 1)}
      \union {Method(<<"Handler">>, HandlerName(it.items[i]), HandlerTypes(it.items[i], pkg), i) : i \in DOMAIN it.items}

SelectHTTP(at, it, pkg) ==
    LET served == {r.entity : r \in Range(it.items)}
        orphan == {e \in served : e \o <<"Store">> \notin IfaceNames(pkg)}
    IN  IF orphan # {} THEN Failed({<<"no store", e>> : e \in orphan})
        ELSE Yield({}, {GoFile(pkg, at \o <<1>>, <<"http", "gen">>, "generated", HandlerCode(it, pkg, served)),
                        GoFile(pkg, at \o <<2>>, <<"http">>, "keep", Stubs(<<"Handler">>, HandlerHoles(served)))},
                   Tasks(pkg, <<"Handler">>, <<"http">>, HandlerHoles(served),
                         {GenPath(pkg), <<pkg.dir, <<"http", "gen">>>>}))

\* What an events or auth form yields: shared declarations, and what the chosen
\* tile writes, which is complete code in one generated file with them or a
\* scaffolded file with holes.
SharedAndOwn(at, pkg, stem, shared, tile, impl, methods, context) ==
    LET own == TypeCode(impl, Catalog[tile].types, methods)
    IN  IF ~Catalog[tile].holes
        THEN Yield({}, {GoFile(pkg, at \o <<1>>, stem, "generated", shared \union own)}, {})
        ELSE Yield({}, {GoFile(pkg, at \o <<1>>, stem, "generated", shared), GoFile(pkg, at \o <<2>>, impl, "keep", own)},
                   Tasks(pkg, impl, impl, methods, context))

\* events: the structs, the Bus, and the chosen transport's bus.
BusMethods(it) ==
    UNION {{[name |-> <<how>> \o it.items[i].name, types |-> {Here(it.items[i].name), ContextType}, nth |-> i]
            : how \in {"Publish", "On"}} : i \in DOMAIN it.items}

BusDecls(it) ==
    {Decl(e.name, {f.type : f \in Fields(e)}) : e \in Range(it.items)} \union {Decl(<<"Bus">>, TypesIn(BusMethods(it)))}

SelectEvents(at, it, pkg, cover) ==
    LET tile == cover[<<pkg.name, <<"Bus">>>>]
    IN  SharedAndOwn(at, pkg, <<"events", "gen">>, BusDecls(it), tile, <<tile, "Bus">>, BusMethods(it), {GenPath(pkg)})

\* auth: the shared parts, and the chosen scheme's Authenticate.
AuthMethods ==
    {[name |-> <<"Authenticate">>, types |-> {ContextType, RequestType, Here(<<"Principal">>)}, nth |-> 1]}

AuthDecls == {Decl(<<"Principal">>, {}), Decl(<<"Authenticator">>, TypesIn(AuthMethods))}

SelectAuth(at, pkg, cover) ==
    LET tile == cover[<<pkg.name, <<"Auth">>>>]
    IN  SharedAndOwn(at, pkg, <<"auth", "gen">>, AuthDecls, tile, <<tile, "Authenticator">>, AuthMethods,
                     {GenPath(pkg), <<pkg.dir, <<"auth", "gen">>>>})

\* An explicit hole, or a form no tile covers, is a task without a file.  The
\* numbers that make such ids differ run through the project.
OpenTask(pkg, at, context) ==
    Yield({}, {}, {[id |-> <<pkg.name, <<"llm">>, at>>, file |-> <<>>, context |-> context]})

SelectItem(at, pkg, project, cover, walked) ==
    LET it == pkg.items[at]
    IN  CASE it.head \in {"struct", "interface"} -> Yield({Decl(it.name, TypesOf(it))}, {}, {})
          [] it.head = "enum"      -> SelectEnum(it)
          [] it.head = "impl"      -> SelectImpl(at, it, pkg, project, cover)
          [] it.head = "implement" -> SelectImplement(at, it, pkg, project, walked)
          [] it.head = "http"      -> SelectHTTP(at, it, pkg)
          [] it.head = "events"    -> SelectEvents(at, it, pkg, cover)
          [] it.head = "auth"      -> SelectAuth(at, pkg, cover)
          [] it.head = "doc"       -> Yield({}, {}, {})
          [] it.head = "llm"       -> OpenTask(pkg, at, {GenPath(pkg)})
          [] OTHER                 -> OpenTask(pkg, at, {})

\* The package's own declarations, each once, make its generated file, unless
\* every tile wrote a file of its own.
SelectPackage(pkg, project, cover, walked) ==
    LET yields == {SelectItem(at, pkg, project, cover, walked) : at \in DOMAIN pkg.items}
        decls  == UNION {y.decls : y \in yields}
        gen    == {f \in {GoFile(pkg, <<0, 0, 0>>, <<pkg.name, "gen">>, "generated", decls)} : decls # {}}
    IN  [files |-> gen \union UNION {y.files : y \in yields}, tasks |-> UNION {y.tasks : y \in yields},
         sql |-> UNION {y.sql : y \in yields}, errs |-> UNION {y.errs : y \in yields}]

\* ----------------------------------------------------------------- imports
Qualified(f) == {t.q : t \in UNION {d.types : d \in f.decls}} \ {Local}

\* goFile: a qualifier is a require, a package of the project or of a tool, or a
\* standard package, tried in this order.  Of the last there may be several, such
\* as math/rand and crypto/rand, and none is preferred.
Resolve(q, f, requires, locals) ==
    IF q \in requires THEN "require"
    ELSE IF q \in locals /\ q # f.pkg THEN "local"
    ELSE IF q \in Ambiguous THEN "ambiguous"
    ELSE IF q \in Std THEN "std" ELSE "unknown"

LocalImports(f, requires, locals) == {q \in Qualified(f) : Resolve(q, f, requires, locals) = "local"}
ImportErrors(f, requires, locals) ==
    {e \in {"ambiguous", "unknown"} \X Qualified(f) : Resolve(e[2], f, requires, locals) = e[1]}

\* The whole pass, over the project's packages.
SelectProject(project, cover, walked, requires, locals) ==
    LET yields == {SelectPackage(p, project, cover, walked) : p \in Range(project)}
        files  == UNION {y.files : y \in yields}
    IN  [files |-> files, tasks |-> UNION {y.tasks : y \in yields}, sql |-> UNION {y.sql : y \in yields},
         errs |-> UNION ({y.errs : y \in yields} \union {ImportErrors(f, requires, locals) : f \in files})]
=============================================================================
