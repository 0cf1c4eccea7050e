----------------------------- MODULE Validation -----------------------------
(***************************************************************************)
(* validate.go and the Validate hooks of the tiles: what is wrong with a   *)
(* linked project.  A name is a sequence of words, as in the Go names made *)
(* from it: OrderStore is <<"Order", "Store">>.  A type is [q, name]: a    *)
(* package qualifier (Local for none) and the name it qualifies.           *)
(*                                                                         *)
(* Items of a package, by head:                                            *)
(*   struct, entity, event  name, items: fields [name, type] and stores    *)
(*   interface              name, items: methods [name, types], embeds     *)
(*   implement              iface, as (the names given), fields            *)
(*   enum                   name, values (names)                           *)
(*   events                 items: events; requires                        *)
(*   auth                   requires                                       *)
(*   http                   items: routes [method, path, verb, entity]     *)
(*   llm, doc, dir          and any other head, which no tile may know     *)
(* The shape of one form and the spelling of one name are not looked at:   *)
(* every form of the model has its parts and every name is an identifier.  *)
(***************************************************************************)
EXTENDS Linking

CONSTANTS Local,      \* the qualifier of a type of the package itself
          Wild        \* the qualifier of a type that is not a Go type

StoreOps == {"get", "list", "save", "delete", "count"}
FieldOps == {"list-by", "get-by", "count-by", "exists-by", "delete-by"}
Requirements == {"durable", "cross-process", "no-broker"}

\* The Go method an op becomes; a custom method brings its own name.
OpMethodName(op) ==
    CASE op.kind \in StoreOps -> <<op.kind>>
      [] op.kind \in FieldOps -> <<op.kind, op.field>>
      [] op.kind = "method"   -> op.name
      [] OTHER                -> <<>>

\* The forms of one head, and where they stand.
PlacesOf(items, h) == {i \in DOMAIN items : items[i].head = h}
FormsOf(items, h) == {items[i] : i \in PlacesOf(items, h)}

Fields(it) == FormsOf(it.items, "field")
Methods(it) == FormsOf(it.items, "method")
Embeds(it) == FormsOf(it.items, "embed")
Stores(it) == FormsOf(it.items, "store")

\* -------------------------------------------------------------------- names
\* What an item adds to the names its package has taken, in order.
Declared(it) ==
    CASE it.head \in {"struct", "entity", "interface"} -> <<it.name>>
      [] it.head = "implement" -> it.as
      [] it.head = "enum"      -> <<it.name>> \o [i \in DOMAIN it.values |-> it.name \o it.values[i]]
      [] it.head = "events"    ->
             <<<<"Bus">>, <<"Local", "Bus">>>> \o [i \in DOMAIN it.items |-> it.items[i].name]
      [] it.head = "auth"      -> <<<<"Principal">>, <<"Authenticator">>>>
      [] it.head = "http"      -> <<<<"Handler">>, <<"New", "Handler">>>>
      [] OTHER                 -> <<>>

TakenTwice(items) ==
    \E i, j \in DOMAIN items : \E k \in DOMAIN Declared(items[i]), l \in DOMAIN Declared(items[j]) :
        <<i, k>> # <<j, l>> /\ Declared(items[i])[k] = Declared(items[j])[l]

\* The interfaces of a package, those its entities' stores will be included.
StoreName(entity) == entity.name \o <<"Store">>

PackageInterfaces(items) ==
    {it.name : it \in FormsOf(items, "interface")}
        \union {StoreName(e) : e \in {e \in FormsOf(items, "entity") : Stores(e) # {}}}

\* -------------------------------------------------------------------- types
\* A store's custom methods are methods too.
CustomMethods(it) == UNION {{op \in Range(s.ops) : op.kind = "method"} : s \in Stores(it)}

\* Mutant: the types of an implement's fields are not looked at.
TypesOfForms(it) ==
    CASE it.head \in {"struct", "entity", "event"} ->
             {f.type : f \in Fields(it)} \union UNION {m.types : m \in CustomMethods(it)}
      [] it.head = "interface" ->
             {e.type : e \in Embeds(it)} \union UNION {m.types : m \in Methods(it)}
      [] it.head = "events"    -> UNION {{f.type : f \in Fields(e)} : e \in Range(it.items)}
      [] OTHER                 -> {}

TypesOf(it) ==
    CASE it.head \in {"struct", "entity", "event"} ->
             {f.type : f \in Fields(it)} \union UNION {m.types : m \in CustomMethods(it)}
      [] it.head = "interface" ->
             {e.type : e \in Embeds(it)} \union UNION {m.types : m \in Methods(it)}
      [] it.head = "implement" -> {f.type : f \in Range(it.fields)}
      [] it.head = "events"    -> UNION {{f.type : f \in Fields(e)} : e \in Range(it.items)}
      [] OTHER                 -> {}

Qualifiers(items) == UNION {{t.q : t \in TypesOf(it)} : it \in Range(items)}

\* Which project packages a package's types name.
Deps(packages) ==
    LET names == {p.name : p \in Range(packages)}
    IN  [node |-> names,
         edge |-> UNION {{<<p.name, q>> : q \in (Qualifiers(p.items) \intersect names) \ {p.name}}
                         : p \in Range(packages)}]

TypeErrors(pkg) ==
    UNION {IF pkg.name \in Qualifiers(pkg.items) THEN {<<"own qualifier", pkg.name>>} ELSE {},
           IF Wild \in Qualifiers(pkg.items) THEN {<<"not a type", pkg.name>>} ELSE {}}

\* -------------------------------------------------------------------- forms
\* The fields declared before the i-th item of an entity.
FieldsBefore(it, i) == {it.items[j].name : j \in {j \in PlacesOf(it.items, "field") : j < i}}

OpErrors(it, i, op) ==
    UNION {IF op.kind \notin StoreOps \union FieldOps \union Requirements \union {"method", "constraint"}
           THEN {<<"unknown op", op.kind>>} ELSE {},
           IF op.kind \in FieldOps /\ op.field \notin FieldsBefore(it, i)
           THEN {<<"no such field", op.field>>} ELSE {}}

\* The ops of a store that become methods.
MethodOps(it, i) ==
    {j \in DOMAIN it.items[i].ops : /\ OpErrors(it, i, it.items[i].ops[j]) = {}
                                    /\ OpMethodName(it.items[i].ops[j]) # <<>>}

StoreErrors(it, i) ==
    LET ops == it.items[i].ops
    IN  UNION ({OpErrors(it, i, op) : op \in Range(ops)}
          \union {IF "ID" \notin FieldsBefore(it, i) THEN {<<"no ID", it.name>>} ELSE {},
                  IF \E j, k \in MethodOps(it, i) : j # k /\ OpMethodName(ops[j]) = OpMethodName(ops[k])
                  THEN {<<"duplicate method", it.name>>} ELSE {}})

FieldErrors(items) ==
    IF \E j, k \in PlacesOf(items, "field") : j # k /\ items[j].name = items[k].name
    THEN {<<"duplicate field">>} ELSE {}

StructErrors(it) ==
    FieldErrors(it.items)
      \union (IF it.head = "entity"
              THEN UNION {StoreErrors(it, i) : i \in PlacesOf(it.items, "store")}
              ELSE {<<"store outside entity", it.name>> : s \in Stores(it)})

ImplementErrors(it, ifaces) ==
    UNION {IF it.iface \notin ifaces THEN {<<"no interface", it.iface>>} ELSE {},
           IF Len(it.as) # 1 THEN {<<"one (as Name)", it.iface>>} ELSE {},
           FieldErrors(it.fields)}

EnumErrors(it) ==
    UNION {IF it.values = <<>> THEN {<<"empty", it.name>>} ELSE {},
           IF ~IsInjective(it.values) THEN {<<"duplicate value", it.name>>} ELSE {}}

\* The paths of the model are "/x" and "/x/{id}".
HasID(route) == route.path = "/x/{id}"

RouteErrors(r) ==
    UNION {IF r.verb \notin {"get", "list", "save", "delete"} THEN {<<"verb", r.verb>>} ELSE {},
           IF r.verb \in {"get", "delete"} /\ ~HasID(r) THEN {<<"needs id", r.path>>} ELSE {},
           IF r.verb \in {"list", "save"} /\ HasID(r) THEN {<<"no id here", r.path>>} ELSE {}}

HttpErrors(it, go) ==
    UNION ({RouteErrors(r) : r \in Range(it.items)}
      \union {IF go < 22 THEN {<<"go version", "http">>} ELSE {},
              IF it.items = <<>> THEN {<<"empty", "http">>} ELSE {},
              IF \E j, k \in DOMAIN it.items : /\ j < k
                                               /\ it.items[j].method = it.items[k].method
                                               /\ it.items[j].path = it.items[k].path
              THEN {<<"duplicate route">>} ELSE {}})

EventsErrors(it, go) ==
    UNION ({StructErrors(e) : e \in Range(it.items)}
      \union {IF go < 20 THEN {<<"go version", "events">>} ELSE {},
              IF it.items = <<>> THEN {<<"empty", "events">>} ELSE {}})

\* A head close to a known one is a typo; a strange one is a task for the LLM,
\* and an error under -strict.  What is checked of these is not in the model.
Unchecked == {"interface", "auth", "doc", "llm", "dir"}

ItemErrorsIn(it, pkg, go, strict) ==
    CASE it.head \in {"struct", "entity"} -> StructErrors(it)
      [] it.head = "implement" -> ImplementErrors(it, PackageInterfaces(pkg.items))
      [] it.head = "enum"      -> EnumErrors(it)
      [] it.head = "http"      -> HttpErrors(it, go)
      [] it.head = "events"    -> EventsErrors(it, go)
      [] it.head \in Unchecked -> {}
      [] it.head = "entty"     -> {<<"typo", it.head>>}
      [] OTHER                 -> IF strict THEN {<<"strict", it.head>>} ELSE {}

PackageErrors(pkg, go, strict) ==
    UNION ({ItemErrorsIn(it, pkg, go, strict) : it \in Range(pkg.items)}
      \union {TypeErrors(pkg),
              IF TakenTwice(pkg.items) THEN {<<"duplicate type", pkg.name>>} ELSE {}})

\* What is wrong with the project beside import cycles, all at once.
ValidateErrors(project, strict) ==
    UNION ({PackageErrors(p, project.go, strict) : p \in Range(project.packages)}
      \union {{<<"unknown item", h>> : h \in project.others},
              IF DOMAIN project.packages = {} THEN {<<"no package">>} ELSE {}})
=============================================================================
