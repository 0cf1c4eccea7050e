----------------------------- MODULE MCSelection -----------------------------
(***************************************************************************)
(* Selection for two stores and three backends: memory is cheap and cannot *)
(* be durable, sqlite and postgres can.                                    *)
(***************************************************************************)
EXTENDS Selection, TLC

CONSTANTS orders, sessions, store, memory, sqlite, postgres, durable

MCCapOf == orders :> store @@ sessions :> store
MCNameOf == memory :> 1 @@ postgres :> 2 @@ sqlite :> 3

Durable(ts) == [t \in Tiles |-> IF t \in ts THEN {durable} ELSE {}]

\* The second release no longer offers memory, and no longer claims that sqlite
\* is durable.
MCReleases ==
    {[offers |-> [k \in Caps |-> Tiles], meets |-> Durable({sqlite, postgres})],
     [offers |-> [k \in Caps |-> {sqlite, postgres}], meets |-> Durable({postgres})]}

\* An order has enum and nullable fields: sqlite's mapper costs more there.
Prices(m, s, p) ==
    [n \in Needs |-> memory :> m @@ sqlite :> (IF n = orders THEN s + 2 ELSE s) @@ postgres :> p]
NoPreference == [t \in Tiles |-> "none"]

\* In turn: cost alone; sqlite preferred, for a session at a price just within
\* the margin of memory's and for an order beyond it, where the store is durable
\* a tie and just within; sqlite preferred whatever it costs; one of two required.
MCPolicies ==
    {[price |-> Prices(1, 2, 4), prefer |-> NoPreference, avoid |-> {}, margin |-> 0],
     [price |-> Prices(1, 3, 3), prefer |-> [NoPreference EXCEPT ![sqlite] = "weak"],
      avoid |-> {}, margin |-> 2],
     [price |-> Prices(1, 2, 4),
      prefer |-> [NoPreference EXCEPT ![sqlite] = "strong", ![memory] = "weak"],
      avoid |-> {postgres}, margin |-> 0],
     [price |-> Prices(1, 2, 4),
      prefer |-> [NoPreference EXCEPT ![postgres] = "required", ![sqlite] = "required"],
      avoid |-> {}, margin |-> 0]}
=============================================================================
