------------------------------- MODULE MCFill -------------------------------
(***************************************************************************)
(* Fill on two packages, billing imports orders; and on three, where stock *)
(* does as well.                                                           *)
(***************************************************************************)
EXTENDS Fill, TLC

CONSTANTS orders, billing, stock, get, put, bill, ship, k1, k2, k3

MCPkgOf == get :> orders @@ put :> orders @@ bill :> billing
MCDependsOn == orders :> {} @@ billing :> {orders}

\* Every order in which emitTasks could list the tasks is that of one spec:
\* the importing package's first.
MCPlace == bill :> 1 @@ get :> 2 @@ put :> 3

MCKeyOf == get :> k1 @@ put :> k2 @@ bill :> k3

\* Two packages whose stores have the same name.
SameKeyOf == get :> k1 @@ put :> k2 @@ bill :> k1

\* A method in each of three packages.
WidePkgOf == get :> orders @@ bill :> billing @@ ship :> stock
WideDependsOn == orders :> {} @@ billing :> {orders} @@ stock :> {orders}
WidePlace == bill :> 1 @@ get :> 2 @@ ship :> 3
WideKeyOf == get :> k1 @@ bill :> k2 @@ ship :> k3
=============================================================================
