------------------------------- MODULE MCCompile -------------------------------
EXTENDS Compile

\* ------------------------------------------------------------- the registry
MCTile(capability, refuses, types, brings, packages, sql, dialect, holes) ==
    [capability |-> capability, refuses |-> refuses, types |-> types,
     keyed |-> packages = {} /\ brings = {} /\ capability = "store", imports |-> brings,
     packages |-> packages, sql |-> sql, dialect |-> dialect, holes |-> holes]

Named(q, n) == [q |-> q, name |-> <<n>>]

MCCatalog ==
    [memory   |-> MCTile("store", {"durable", "cross-process"}, {Named("sync", "Mutex")}, {}, {}, "none", FALSE, TRUE),
     pgx      |-> MCTile("store", {"no-broker"}, {Named("pgxpool", "Pool")}, {"pgxpool"}, {}, "tables", FALSE, TRUE),
     postgres |-> MCTile("store", {"no-broker"}, {Named("db", "Queries")}, {}, {"db"}, "queries", FALSE, TRUE),
     sqlite   |-> MCTile("store", {"cross-process"}, {Named("db", "Queries")}, {}, {"db"}, "queries", TRUE, TRUE),
     Local    |-> MCTile("event-bus", {"durable", "cross-process"}, {Named("sync", "RWMutex")}, {}, {}, "none", FALSE, FALSE),
     Nats     |-> MCTile("event-bus", {"durable", "no-broker"}, {Named("nats", "Conn")}, {"nats"}, {}, "none", FALSE, TRUE),
     JWT      |-> MCTile("auth", {"revocable"}, {}, {"jwt"}, {}, "none", FALSE, TRUE)]

\* ------------------------------------------------------------------- forms
Prim == Named("", "string")
Field(n, t) == [head |-> "field", name |-> n, type |-> t]
ID == Field("ID", Prim)
Op(k) == [kind |-> k]
OpBy(k, f) == [kind |-> k, field |-> f]
Custom(n, types) == [kind |-> "method", name |-> <<n>>, types |-> types]
Store(ops) == [head |-> "store", ops |-> ops]
Struct(n, items) == [head |-> "struct", name |-> <<n>>, items |-> items]
Entity(n, items) == [head |-> "entity", name |-> <<n>>, items |-> items]
Fn(n, types) == [head |-> "method", name |-> <<n>>, types |-> types]
Embed(t) == [head |-> "embed", type |-> t]
Interface(n, items) == [head |-> "interface", name |-> <<n>>, items |-> items]
Implement(i, as, fields) == [head |-> "implement", iface |-> <<i>>, as |-> as, fields |-> fields]
Enum(n, values) == [head |-> "enum", name |-> <<n>>, values |-> values]
Events(items, requires) == [head |-> "events", items |-> items, requires |-> requires]
Event(n, t) == [head |-> "event", name |-> <<n>>, items |-> <<Field("What", t)>>]
Route(method, path, verb, e) == [method |-> method, path |-> path, verb |-> verb, entity |-> <<e>>]
Http(routes) == [head |-> "http", items |-> routes]
Auth(requires) == [head |-> "auth", requires |-> requires]
Bare(h) == [head |-> h]

Package(n, items) == [head |-> "package", name |-> n, items |-> items]
Require(alias, path) == [head |-> "require", entries |-> <<[alias |-> alias, path |-> path]>>]
Project(go, items) == [head |-> "project", named |-> TRUE, go |-> go, items |-> items]

OneFile(forms, strict) == [whole |-> forms, files |-> <<forms>>, strict |-> strict]
\* A project of these packages and a require for uuid.
Plain(packages) == OneFile(<<Project(22, packages \o <<Require("uuid", "uuid")>>)>>, FALSE)

\* ------------------------------------------------------- specs over files
\* Two halves of package a, package b that uses it, requires that agree or not,
\* and forms that may stand there once or not at all.
Pieces ==
    {Package("a", <<Struct("Order", <<ID>>)>>),
     Package("a", <<Bare("doc"), Enum("Kind", <<<<"New">>, <<"Old">>>>)>>),
     Package("b", <<Bare("doc"), Struct("User", <<Field("Last", Named("a", "Order")), Field("Key", Named("uuid", "UUID"))>>)>>),
     Require("uuid", "uuid"), Require("uuid", "fork"), Bare("config"), Bare("entty")}

Main == Project(22, <<Package("c", <<Interface("Clock", <<Fn("Now", {Named("b", "User")})>>)>>)>>)

\* The orders the files may bring: those of one package keep theirs.
KeepsParts(s, t) == \A n \in {"a", "b"} : PartsOf(s, n) = PartsOf(t, n) /\ Headed(s, "require") = Headed(t, "require")

SplitSpecs ==
    UNION {LET one == SetToSeq(set)
           IN  {[whole |-> <<Main>> \o one, strict |-> FALSE,
                 files |-> <<SubSeq(s, 1, i) \o <<Main>>, SubSeq(s, i + 1, Len(s))>>]
                   : s \in {s \in SetToSeqs(set) : KeepsParts(one, s)}, i \in 0..Cardinality(set)}
           : set \in {set \in SUBSET Pieces : Cardinality(set) <= 3}}

\* What merge itself refuses, or fails on.
MergeSpecs ==
    {OneFile(forms, FALSE) : forms \in
        {<<Main, Project(22, <<>>)>>, <<Bare("config"), Bare("config"), Main>>, <<Package("a", <<Struct("Order", <<ID>>)>>)>>,
         <<Main, Bare("repo"), Bare("repo")>>, <<Main, Package("b", <<Bare("doc")>>), Package("b", <<Bare("doc")>>)>>,
         <<[Main EXCEPT !.named = FALSE]>>}}

\* --------------------------------------------------------------- cycles
\* Which packages' types a package names, and where it names them.
Use(how, qs) ==
    LET types == {Named(q, "T") : q \in qs}
        seq   == SetToSeq(types)
        fields == [i \in DOMAIN seq |-> Field("F" \o ToString(i), seq[i])]
    IN  CASE how = "struct"    -> <<Struct("T", fields)>>
          [] how = "entity"    -> <<Entity("T", <<ID>> \o fields \o <<Store(<<Op("get")>>)>>)>>
          [] how = "custom"    -> <<Entity("T", <<ID, Store(<<Custom("Find", types)>>)>>)>>
          [] how = "interface" -> <<Struct("T", <<>>), Interface("I", <<Fn("Do", types)>> \o [i \in DOMAIN seq |-> Embed(seq[i])])>>
          [] how = "implement" -> <<Struct("T", <<>>), Interface("I", <<Fn("Do", {})>>), Implement("I", <<<<"Impl">>>>, fields)>>
          [] how = "events"    -> <<Events(<<[head |-> "event", name |-> <<"T">>, items |-> fields]>>, {"no-broker"})>>

CycleSpecs ==
    {Plain(<<Package("a", Use(how, f["a"])), Package("b", Use("struct", f["b"])), Package("c", Use("struct", f["c"]))>>) :
        how \in {"struct", "entity", "custom", "interface", "implement", "events"},
        f \in {f \in [{"a", "b", "c"} -> SUBSET {"a", "b", "c"}] : f["a"] # {"a"} /\ \A n \in {"b", "c"} : n \notin f[n]}}
    \union {Plain(<<Package("a", Use("entity", {"sync"})), Package("sync", Use("struct", qs))>>) : qs \in {{}, {"a"}}}

\* ---------------------------------------------------------- one package
Order(stores) == Entity("Order", <<ID, Field("Buyer", Named("b", "User"))>> \o stores)

Orders ==
    {Order(s) : s \in
        {<<>>, <<Store(<<Op("get"), Op("save")>>)>>, <<Store(<<Op("list"), Op("durable"), Custom("Rank", {Named("b", "User")})>>)>>,
         <<Store(<<OpBy("get-by", "Buyer"), Op("durable"), Op("no-broker")>>)>>,
         <<Store(<<Op("get")>>), Store(<<Op("save"), Op("durable")>>)>>,
         <<Store(<<Op("durable"), Op("cross-process"), Op("no-broker"), Op("get")>>)>>}}

Parts ==
    {Interface("Clock", <<Fn("Now", {Named("b", "User")}), Embed(Named("io", "Closer"))>>),
     Implement("Clock", <<<<"Wall">>>>, <<Field("Zone", Named("b", "Zone"))>>),
     Implement("OrderStore", <<<<"Cached">>>>, <<>>),
     Enum("Kind", <<<<"New">>, <<"Old">>>>),
     Events(<<Event("Placed", Named("b", "User")), Event("Paid", Prim)>>, {}),
     Http(<<Route("GET", "/x/{id}", "get", "Order"), Route("POST", "/x", "save", "Order")>>),
     Auth({}), Bare("llm"), Bare("job"), [head |-> "dir", path |-> "."],
     [head |-> "impl", iface |-> <<"Order", "Store">>, for |-> <<"Order">>, ops |-> <<>>]}

PackageB == Package("b", <<Struct("User", <<ID>>), Enum("Zone", <<<<"East">>>>)>>)

PartSpecs ==
    {Plain(<<Package("a", <<o>> \o SetToSeq(ps)), PackageB>>) :
        o \in Orders, ps \in {ps \in SUBSET Parts : Cardinality(ps) <= 2}}

\* Two stores of one project, and events of another package.
PairSpecs ==
    {Plain(<<Package("a", <<o>>), Package(n, <<Entity("Item", <<ID, Store(<<Op("get"), Op("durable")>>)>>), Struct("User", <<>>)>>)>>) :
        o \in Orders, n \in {"b", "db"}}
    \union {Plain(<<Package("a", <<Interface("Watch", <<Fn("See", {Named("b", "Placed")})>>), Implement("Watch", <<<<"Eye">>>>, <<>>)>>),
                   Package("b", <<Events(<<Event("Placed", Prim)>>, {}), Struct("User", <<>>)>>)>>)}

\* --------------------------------------------------------------- embedding
\* I and K have a method of one name.
EmbedSpecs ==
    {Plain(<<Package("a", [i \in 1..3 |->
                LET n == <<"I", "J", "K">>[i]
                    es == SetToSeq(f[n])
                    m == IF n = "K" THEN Fn("DoI", {Named("io", "Reader")}) ELSE Fn("Do" \o n, {})
                IN  Interface(n, <<m>> \o [k \in DOMAIN es |-> Embed(Named("", es[k]))])]
               \o <<Implement("I", <<<<"Impl">>>>, <<>>)>>)>>) : f \in [{"I", "J", "K"} -> SUBSET {"I", "J", "K"}]}

\* ---------------------------------------------------------- what is wrong
Bad ==
    {<<Struct("T", <<ID, ID>>)>>, <<Struct("T", <<>>), Enum("T", <<<<"A">>>>)>>, <<Struct("T", <<Store(<<>>)>>)>>,
     <<Entity("T", <<Store(<<Op("get")>>)>>)>>, <<Entity("T", <<ID, Store(<<Op("get"), Op("get")>>)>>)>>,
     <<Entity("T", <<ID, Store(<<OpBy("get-by", "Name"), Op("frob")>>)>>)>>, <<Enum("T", <<>>)>>,
     <<Enum("T", <<<<"A">>, <<"A">>>>)>>, <<Implement("Nope", <<>>, <<>>)>>, <<Events(<<>>, {})>>, <<Http(<<>>)>>,
     <<Struct("T", <<Field("X", Named("*", "bad"))>>)>>, <<Struct("T", <<Field("X", Named("a", "T"))>>)>>,
     <<Struct("T", <<Field("X", Named("nowhere", "T"))>>)>>, <<Struct("T", <<Field("X", Named("rand", "Rand"))>>)>>,
     <<Auth({"revocable"})>>, <<Bare("entty")>>, <<Bare("job")>>, <<Auth({}), Auth({})>>}

WrongSpecs ==
    {OneFile(<<Project(go, <<Package("a", items)>>)>>, TRUE) : go \in {18, 22}, items \in Bad}
    \union {OneFile(<<Project(go, <<Package("a", <<Order(<<Store(<<Op("get"), Op("list")>>)>>), Http(<<r, s>>), Events(<<Event("Paid", Prim)>>, {})>>), PackageB>>)>>, FALSE) :
              go \in {20, 22},
              r \in {Route("GET", p, v, "Order") : p \in {"/x", "/x/{id}"}, v \in {"get", "list", "save", "delete", "count"}},
              s \in {Route("GET", "/x", "list", e) : e \in {"Order", "Shop"}}}
    \union {OneFile(<<Project(22, <<Bare("config")>>)>>, FALSE)}

MCSpecs == UNION {SplitSpecs, MergeSpecs, CycleSpecs, PartSpecs, PairSpecs, EmbedSpecs, WrongSpecs}

\* --------------------------------------------------------------- plan graphs
\* Levels is given any graph, cyclic ones and ones with dependencies outside.
MCPlanGraphs ==
    {[node |-> 1..4, deps |-> d] : d \in {d \in [1..4 -> SUBSET (1..4)] : \A n \in 1..4 : n \notin d[n]}}
    \union {[node |-> 1..2, deps |-> d] : d \in [1..2 -> SUBSET (1..3)]}

NoPlanGraphs == {}

MCInit ==
    \/ Init
    \/ /\ LevelInit
       /\ phase = "planning"
       /\ spec = [whole |-> <<>>, files |-> <<>>, strict |-> FALSE]
       /\ Fresh

MCSpec == MCInit /\ [][Next]_vars
=============================================================================
