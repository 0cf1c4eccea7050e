------------------------------ MODULE Registry -------------------------------
(***************************************************************************)
(* The tiles compiled into tilegen that compete to cover a need, what each *)
(* costs and refuses, and how a policy prices them: the data solve runs    *)
(* over.  Solve quantifies over releases; here is the one of this commit.  *)
(*                                                                         *)
(* The transport capability is left out: no form of a spec needs it.       *)
(***************************************************************************)
EXTENDS Integers, FiniteSets, TLC

Cost(llm_work, maintenance, dependency, runtime, operations) ==
    [llm_work |-> llm_work, maintenance |-> maintenance, dependency |-> dependency,
     runtime |-> runtime, operations |-> operations]

DefaultWeights == Cost(4, 3, 1, 1, 3)

Score(cost, weights) ==
    cost.llm_work * weights.llm_work + cost.maintenance * weights.maintenance
    + cost.dependency * weights.dependency + cost.runtime * weights.runtime
    + cost.operations * weights.operations
-----------------------------------------------------------------------------
(***************************************************************************)
(* Capabilities, with the requirements a need of them may state, and what  *)
(* each tile says of those: it cannot, it can, or nobody has checked.      *)
(***************************************************************************)
StoreReqs == {"durable", "cross-process", "lookup-by-field", "no-broker"}
BusReqs == {"durable", "cross-process", "replay", "ordered", "at-least-once",
            "fan-out", "consumer-groups", "no-broker"}
AuthReqs == {"revocable", "third-party-idp", "offline-verify", "expiring"}
Requirements == [store |-> StoreReqs, bus |-> BusReqs, auth |-> AuthReqs]
Caps == DOMAIN Requirements

Offer(capability, form, cost, illegal, satisfies, unverified) ==
    [capability |-> capability, form |-> form, cost |-> cost, illegal |-> illegal,
     satisfies |-> satisfies, unverified |-> unverified]

Memory == Offer("store", "domain", Cost(2, 1, 0, 1, 0),
    {"durable", "cross-process"}, {"lookup-by-field", "no-broker"}, {})
Bolt == Offer("store", "domain", Cost(7, 6, 1, 1, 0),
    {"cross-process", "lookup-by-field"}, {"durable", "no-broker"}, {})
Badger == Offer("store", "domain", Cost(4, 3, 2, 2, 0),
    {"cross-process", "lookup-by-field"}, {"durable", "no-broker"}, {})
Mongo == Offer("store", "bson-docs", Cost(5, 3, 3, 2, 5),
    {"no-broker"}, {"cross-process", "lookup-by-field"}, {"durable"})
Pgx == Offer("store", "domain", Cost(7, 5, 1, 1, 5),
    {"no-broker"}, {"durable", "cross-process", "lookup-by-field"}, {})
Postgres == Offer("store", "db-rows", Cost(3, 2, 3, 1, 5),
    {"no-broker"}, {"durable", "cross-process", "lookup-by-field"}, {})
SQLite == Offer("store", "db-rows", Cost(3, 2, 1, 1, 0),
    {"cross-process"}, {"durable", "lookup-by-field", "no-broker"}, {})

LocalBus == Offer("bus", "domain", Cost(0, 0, 0, 1, 0),
    {"durable", "replay", "cross-process", "consumer-groups", "at-least-once"},
    {"ordered", "fan-out", "no-broker"}, {})
NatsCore == Offer("bus", "domain", Cost(4, 2, 4, 1, 2),
    {"durable", "replay", "at-least-once", "no-broker"},
    {"cross-process", "fan-out", "consumer-groups"}, {"ordered"})
JetStream == Offer("bus", "domain", Cost(5, 3, 4, 2, 4),
    {"no-broker"}, BusReqs \ {"no-broker"}, {})
Kafka == Offer("bus", "domain", Cost(5, 5, 4, 4, 9),
    {"no-broker"}, BusReqs \ {"no-broker"}, {})
RedisStreams == Offer("bus", "domain", Cost(4, 3, 2, 2, 3),
    {"no-broker", "durable"}, BusReqs \ {"no-broker", "durable"}, {})
RabbitMQ == Offer("bus", "domain", Cost(4, 4, 3, 3, 5),
    {"no-broker", "replay"},
    {"cross-process", "at-least-once", "fan-out", "consumer-groups"},
    {"durable", "ordered"})

JWTLocal == Offer("auth", "domain", Cost(3, 2, 1, 0, 1),
    {"revocable", "third-party-idp"}, {"offline-verify", "expiring"}, {})
OIDC == Offer("auth", "domain", Cost(4, 2, 2, 1, 5), {}, AuthReqs, {})
SessionStore == Offer("auth", "domain", Cost(3, 2, 0, 2, 1),
    {"offline-verify", "third-party-idp"}, {"revocable", "expiring"}, {})
APIKey == Offer("auth", "domain", Cost(2, 2, 0, 2, 1),
    {"expiring", "offline-verify", "third-party-idp"}, {"revocable"}, {})

Offers ==
    "memory" :> Memory @@ "bolt" :> Bolt @@ "badger" :> Badger @@ "mongo" :> Mongo
    @@ "postgres-pgx" :> Pgx @@ "postgres-sqlc" :> Postgres @@ "sqlite-sqlc" :> SQLite
    @@ "local-bus" :> LocalBus @@ "nats-core" :> NatsCore
    @@ "nats-jetstream" :> JetStream @@ "kafka" :> Kafka
    @@ "redis-streams" :> RedisStreams @@ "rabbitmq" :> RabbitMQ
    @@ "jwt-local" :> JWTLocal @@ "oidc" :> OIDC
    @@ "session-store" :> SessionStore @@ "api-key" :> APIKey
Tiles == DOMAIN Offers

NamesInOrder ==
    <<"api-key", "badger", "bolt", "jwt-local", "kafka", "local-bus", "memory",
      "mongo", "nats-core", "nats-jetstream", "oidc", "postgres-pgx",
      "postgres-sqlc", "rabbitmq", "redis-streams", "session-store", "sqlite-sqlc">>

\* A requirement a tile neither claims nor refuses counts as not checked, and
\* what nobody has checked is not met.
Unverified(o) == o.unverified \cup (Requirements[o.capability] \ (o.illegal \cup o.satisfies))
Meets(o) == Requirements[o.capability] \ (o.illegal \cup Unverified(o))

Release == [offers |-> [k \in Caps |-> {t \in Tiles : Offers[t].capability = k}],
            meets |-> [t \in Tiles |-> Meets(Offers[t])]]

CheckRegistry ==
    /\ \A k \in Caps : Release.offers[k] # {}
    /\ \A t \in Tiles : Offers[t].illegal \cap Offers[t].satisfies = {}
    /\ {NamesInOrder[i] : i \in DOMAIN NamesInOrder} = Tiles

\* tilegen compiles nothing otherwise.
ASSUME RegistryIsCoherent == CheckRegistry
-----------------------------------------------------------------------------
(***************************************************************************)
(* What it takes to convert a tile's form to domain values: hand-written   *)
(* mapping that grows with the entity.  An entity is a set of fields       *)
(* [name, type, pointer]; a type that is no SQL type and no enum ends up   *)
(* in JSONB and is "struct" here.                                          *)
(***************************************************************************)
FieldTypes == {"scalar", "uuid", "time", "enum", "struct"}

\* sqlite hands uuids and times back as the text it stored.
Parsed(f, tile) ==
    \/ f.type = "enum"
    \/ tile = "sqlite-sqlc" /\ f.type \in {"uuid", "time"}

Mapping(units) == Cost(units, (units + 1) \div 2, 0, 0, 0)

RowMapper(entity, tile) ==
    LET structs == {f \in entity : f.type = "struct"}
        parsed == {f \in entity : Parsed(f, tile)}
        nullable == {f \in entity \ structs : f.pointer}
    IN  Mapping(1 + 2 * Cardinality(structs) + Cardinality(parsed) + Cardinality(nullable))

DocMapper(entity) ==
    Mapping(1 + Cardinality({f \in entity : f.type = "enum"})
              + Cardinality({f \in entity : f.pointer}))

\* Each form has at most one chain, straight to domain values.
Convert(tile, entity) ==
    CASE Offers[tile].form = "db-rows" -> RowMapper(entity, tile)
      [] Offers[tile].form = "bson-docs" -> DocMapper(entity)
      [] OTHER -> Cost(0, 0, 0, 0, 0)

Price(tile, entity, weights) ==
    Score(Offers[tile].cost, weights) + Score(Convert(tile, entity), weights)
-----------------------------------------------------------------------------
(***************************************************************************)
(* (policy ...) over the defaults, and the covering of the needs of a      *)
(* spec: one of a capability at most, reqs[k] what it requires.            *)
(***************************************************************************)
Over(f, defaults) ==
    [x \in DOMAIN f \cup DOMAIN defaults |-> IF x \in DOMAIN f THEN f[x] ELSE defaults[x]]

ParsePolicy(form) ==
    [weights |-> Over(form.weights, DefaultWeights),
     prefer |-> Over(form.prefer, [t \in Tiles |-> "none"]),
     avoid |-> form.avoid,
     margin |-> form.margin]

DefaultPolicy == ParsePolicy([weights |-> <<>>, prefer |-> <<>>, avoid |-> {}, margin |-> 0])

\* Names of tiles that are not registered.
UnknownTiles(policy) == (DOMAIN policy.prefer \cup policy.avoid) \ Tiles

INSTANCE Solve WITH
    CapOf <- [k \in Caps |-> k],
    NameOf <- [t \in Tiles |-> CHOOSE i \in DOMAIN NamesInOrder : NamesInOrder[i] = t]

Context(reqs, entity, policy) ==
    [reqs |-> reqs, release |-> Release,
     policy |-> [price |-> [k \in Caps |-> [t \in Release.offers[k] |->
                                Price(t, entity, policy.weights)]],
                 prefer |-> policy.prefer, avoid |-> policy.avoid,
                 margin |-> policy.margin]]
=============================================================================
