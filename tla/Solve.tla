-------------------------------- MODULE Solve --------------------------------
(***************************************************************************)
(* solve and pickOffer (solve.go), of one need.  A context c has what a    *)
(* need is covered from: reqs, release (what is offered and what each tile *)
(* meets) and policy (prices, preferences, tiles to avoid, the margin).    *)
(* No registered offer has needs of its own, so a covering is one tile.    *)
(***************************************************************************)
EXTENDS Naturals

CONSTANTS
    CapOf,  \* the capability of each need
    NameOf  \* a tile's place among the names in order
-----------------------------------------------------------------------------
Last(S) == CHOOSE t \in S : \A u \in S : NameOf[u] <= NameOf[t]

\* Offers are tried in the order of their names, and the last one that a
\* policy requires is the required one.
Candidates(c, n) ==
    LET offers == c.release.offers[CapOf[n]]
        required == {t \in offers : c.policy.prefer[t] = "required"}
    IN  IF required = {} THEN offers ELSE {Last(required)}

Legal(c, n) ==
    {t \in Candidates(c, n) :
        c.reqs[n] \subseteq c.release.meets[t] /\ t \notin c.policy.avoid}

Cheapest(c, n, S) ==
    LET price == c.policy.price[n]
    IN  CHOOSE t \in S : \A u \in S :
            price[t] < price[u] \/ (price[t] = price[u] /\ NameOf[t] <= NameOf[u])

\* Mutant: a weak preference wins whatever it costs.
PickBeyondMargin(c, n) ==
    LET legal == Legal(c, n)
        best == Cheapest(c, n, legal)
        wanted(t, strengths) == c.policy.prefer[t] \in strengths
        strong == {t \in legal : wanted(t, {"strong"})}
        near == {t \in legal \ {best} : wanted(t, {"weak", "required"})}
    IN  IF strong # {} THEN Cheapest(c, n, strong)
        ELSE IF c.policy.prefer[best] = "none" /\ near # {}
             THEN Cheapest(c, n, near)
             ELSE best

PickOffer(c, n) ==
    LET legal == Legal(c, n)
        best == Cheapest(c, n, legal)
        price == c.policy.price[n]
        strong == {t \in legal : c.policy.prefer[t] = "strong"}
        near == {t \in legal \ {best} :
                    /\ c.policy.prefer[t] # "none"
                    /\ price[t] <= price[best] + c.policy.margin}
    IN  IF strong # {} THEN Cheapest(c, n, strong)
        ELSE IF c.policy.prefer[best] = "none" /\ near # {}
             THEN Cheapest(c, n, near)
             ELSE best
=============================================================================
