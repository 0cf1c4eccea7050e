-------------------------- MODULE Selection_proofs --------------------------
(***************************************************************************)
(* What a need gets is explained by the policy, the lock says what the     *)
(* project was generated for, pins hold and a second run is quiet: for any *)
(* needs, tiles, releases and policies, and any edits between the steps of *)
(* a run.                                                                  *)
(***************************************************************************)
EXTENDS Selection, FiniteSetTheorems, WellFoundedInduction, TLAPS

(***************************************************************************)
(* The least and the greatest.                                             *)
(***************************************************************************)
LEMMA LeastNat ==
    ASSUME NEW S, S \subseteq Nat, S # {}
    PROVE  \E n \in S : \A m \in S : n <= m
<1>1. IsWellFoundedOn(OpToRel(<, Nat), Nat)
  BY NatLessThanWellFounded
<1>2. PICK n \in S : \A m \in S : ~(<<m, n>> \in OpToRel(<, Nat))
  BY <1>1, WFMin
<1>3. \A m \in S : ~(m < n)
  BY <1>2 DEF OpToRel
<1> QED BY <1>3

\* Of the tiles a policy requires there is a last one.
LEMMA LastIn ==
    ASSUME NEW S, S \subseteq Tiles, S # {}
    PROVE  Last(S) \in S
<1> DEFINE N == Cardinality(Tiles)
           Ms == {N - NameOf[t] : t \in S}
<1>1. N \in Nat /\ \A t \in Tiles : NameOf[t] \in 1 .. N
  BY NameAssumption, FS_CardinalityType
<1>2. Ms \subseteq Nat /\ Ms # {}
  BY <1>1
<1> HIDE DEF N
<1>3. PICK m \in Ms : \A k \in Ms : m <= k
  BY <1>2, LeastNat
<1>4. PICK t \in S : m = N - NameOf[t]
  OBVIOUS
<1>5. ASSUME NEW u \in S PROVE NameOf[u] <= NameOf[t]
  <2>1. m <= N - NameOf[u]
    BY <1>3
  <2> QED BY <1>1, <1>4, <2>1
<1> QED BY <1>5 DEF Last

(***************************************************************************)
(* What solve works on.                                                    *)
(***************************************************************************)
LEMMA ContextIs ==
    ASSUME NEW c \in Contexts
    PROVE  /\ \A n \in Needs : CapOf[n] \in Caps /\ c.release.offers[CapOf[n]] \subseteq Tiles
           /\ \A n \in Needs, t \in Tiles : c.policy.price[n][t] \in Nat
           /\ \A t \in Tiles : c.policy.prefer[t] \in Strengths
           /\ c.policy.margin \in Nat
           /\ \A n \in Needs : Explicit(c, n) \in Tiles \cup {Automatic}
           /\ c.lock \in Locks
<1>1. c.policy \in Policy /\ c.release \in Release
  BY ReleasesAssumption, PoliciesAssumption DEF Contexts
<1>2. c.config \in [Caps -> Tiles \cup {Automatic}] /\ c.lock \in Locks
  BY DEF Contexts
<1>3. \A n \in Needs : CapOf[n] \in Caps
  BY CapAssumption
<1>4. \A n \in Needs : c.release.offers[CapOf[n]] \subseteq Tiles
  BY <1>1, <1>3 DEF Release
<1>5. /\ \A n \in Needs, t \in Tiles : c.policy.price[n][t] \in Nat
      /\ \A t \in Tiles : c.policy.prefer[t] \in Strengths
      /\ c.policy.margin \in Nat
  BY <1>1 DEF Policy
<1> QED BY <1>2, <1>3, <1>4, <1>5 DEF Explicit

LEMMA LegalTiles ==
    ASSUME NEW c \in Contexts, NEW n \in Needs
    PROVE  Legal(c, n) \subseteq Tiles
<1> DEFINE offers == c.release.offers[CapOf[n]]
           required == {t \in offers : c.policy.prefer[t] = "required"}
<1>1. offers \subseteq Tiles
  BY ContextIs
<1>2. required # {} => Last(required) \in required
  BY <1>1, LastIn
<1>3. Candidates(c, n) \subseteq Tiles
  BY <1>1, <1>2 DEF Candidates
<1> QED BY <1>3 DEF Legal

\* Among legal tiles one is cheapest, ties going to the first name.
LEMMA CheapestIs ==
    ASSUME NEW c \in Contexts, NEW n \in Needs, NEW S, S \subseteq Tiles, S # {}
    PROVE  /\ Cheapest(c, n, S) \in S
           /\ \A u \in S : c.policy.price[n][Cheapest(c, n, S)] <= c.policy.price[n][u]
<1> DEFINE price == c.policy.price[n]
           prices == {price[t] : t \in S}
<1>1. \A t \in Tiles : price[t] \in Nat /\ NameOf[t] \in Nat
  <2>1. NameOf \in [Tiles -> 1 .. Cardinality(Tiles)] /\ Cardinality(Tiles) \in Nat
    BY NameAssumption, FS_CardinalityType
  <2>2. \A t \in Tiles : NameOf[t] \in Nat
    BY <2>1
  <2> QED BY <2>2, ContextIs
<1>2. prices \subseteq Nat /\ prices # {}
  BY <1>1
<1>3. PICK p \in prices : \A q \in prices : p <= q
  BY <1>2, LeastNat
<1> DEFINE ties == {t \in S : price[t] = p}
           names == {NameOf[t] : t \in ties}
<1>4. names \subseteq Nat /\ names # {}
  BY <1>1, <1>3
<1>5. PICK i \in names : \A j \in names : i <= j
  BY <1>4, LeastNat
<1>6. PICK t \in ties : i = NameOf[t]
  OBVIOUS
<1>7. t \in S /\ \A u \in S : price[t] < price[u] \/ (price[t] = price[u] /\ NameOf[t] <= NameOf[u])
  <2>1. SUFFICES ASSUME NEW u \in S
                 PROVE  price[t] < price[u] \/ (price[t] = price[u] /\ NameOf[t] <= NameOf[u])
    OBVIOUS
  <2>2. price[t] = p /\ p <= price[u] /\ p \in Nat /\ price[u] \in Nat
    BY <1>1, <1>3
  <2>3. price[u] = p => NameOf[t] <= NameOf[u]
    BY <1>5, <1>6
  <2> QED BY <2>2, <2>3
<1>8. /\ Cheapest(c, n, S) \in S
      /\ \A u \in S : \/ price[Cheapest(c, n, S)] < price[u]
                      \/ price[Cheapest(c, n, S)] = price[u] /\ NameOf[Cheapest(c, n, S)] <= NameOf[u]
  BY <1>7 DEF Cheapest
<1> QED BY <1>1, <1>8

\* What pickOffer picks, and what excuses a dearer pick (choose.go, policy.go).
LEMMA PickIs ==
    ASSUME NEW c \in Contexts, NEW n \in Needs, Legal(c, n) # {}
    PROVE  LET t == PickOffer(c, n)
               price == c.policy.price[n]
               prefer == c.policy.prefer
           IN  /\ t \in Legal(c, n)
               /\ \A u \in Legal(c, n) :
                      /\ prefer[u] = "strong" => prefer[t] = "strong"
                      /\ price[u] < price[t] =>
                            \/ prefer[t] = "strong"
                            \/ /\ prefer[t] # "none"
                               /\ price[t] <= price[u] + c.policy.margin
<1> DEFINE t == PickOffer(c, n)
           price == c.policy.price[n]
           prefer == c.policy.prefer
           legal == Legal(c, n)
           best == Cheapest(c, n, legal)
           strong == {s \in legal : prefer[s] = "strong"}
           near == {s \in legal \ {best} :
                       prefer[s] # "none" /\ price[s] <= price[best] + c.policy.margin}
<1>1. /\ legal \subseteq Tiles
      /\ \A u \in Tiles : price[u] \in Nat
      /\ c.policy.margin \in Nat
  BY LegalTiles, ContextIs
<1>2. best \in legal /\ \A u \in legal : price[best] <= price[u]
  BY <1>1, CheapestIs
<1>3. strong # {} => Cheapest(c, n, strong) \in strong
  BY <1>1, CheapestIs
<1>4. near # {} => Cheapest(c, n, near) \in near
  BY <1>1, CheapestIs
<1>5. t = IF strong # {} THEN Cheapest(c, n, strong)
          ELSE IF prefer[best] = "none" /\ near # {} THEN Cheapest(c, n, near) ELSE best
  BY DEF PickOffer
<1> HIDE DEF t, legal, best, price, prefer
<1>6. CASE strong # {}
  BY <1>3, <1>5, <1>6 DEF legal, price, prefer, t
<1>7. CASE strong = {} /\ prefer[best] = "none" /\ near # {}
  <2>1. t \in near
    BY <1>4, <1>5, <1>7
  <2>2. \A u \in legal : price[t] <= price[u] + c.policy.margin
    BY <1>1, <1>2, <2>1
  <2> QED BY <1>7, <2>1, <2>2 DEF legal, price, prefer, t
<1>8. CASE strong = {} /\ ~(prefer[best] = "none" /\ near # {})
  <2>1. t = best
    BY <1>5, <1>8
  <2>2. \A u \in legal : ~(price[u] < price[t])
    BY <1>1, <1>2, <2>1
  <2> QED BY <1>2, <1>8, <2>1, <2>2 DEF legal, price, prefer, t
<1> QED BY <1>6, <1>7, <1>8

\* A need that some legal tile covers gets a legal one, or what the config says.
LEMMA TileForIs ==
    ASSUME NEW c \in Contexts, NEW n \in Needed(c), NEW reselect \in BOOLEAN, ~SelectFails(c)
    PROVE  TileFor(c, n, reselect) \in Legal(c, n) /\ TileFor(c, n, reselect) \in Tiles
<1>1. n \in Needs /\ Legal(c, n) # {}
  BY DEF SelectFails, Needed
<1>2. Explicit(c, n) # Automatic => Explicit(c, n) \in Legal(c, n)
  BY DEF SelectFails
<1>3. PickOffer(c, n) \in Legal(c, n)
  BY <1>1, PickIs
<1> QED BY <1>1, <1>2, <1>3, LegalTiles DEF TileFor

LEMMA CoverType ==
    ASSUME NEW c \in Contexts, NEW reselect \in BOOLEAN, ~SelectFails(c)
    PROVE  Cover(c, reselect) \in Covers
  BY TileForIs DEF Cover, Covers

\* A covering is no lock file that could be refused or missed.
LEMMA CoverIsALock ==
    ASSUME NEW cover \in Covers
    PROVE  cover \in Locks /\ cover \notin {None, Malformed, Old}
  BY SentinelsAssumption DEF Covers, Locks

(***************************************************************************)
(* The inductive invariant, in parts.                                      *)
(***************************************************************************)

\* A run applies what it selected.
Applies ==
    Applying => ~SelectFails(run.read) /\ run.cover = Cover(run.read, run.reselect)

\* Code a run has not replaced is what the lock it read pins.
PinsKept ==
    Applying /\ crashes = 0 =>
        \A n \in Needs \ run.repinned :
            built[n] # None => Pin(run.read, n) = built[n] \/ built[n] = run.cover[n]

\* Once a run has written the lock, only the user takes an entry from it.
LockWritten ==
    Applying /\ crashes = 0 /\ run.locked /\ ctx.lock # Malformed =>
        \A n \in Needs \ repinned : run.cover[n] # None => Pin(ctx, n) = run.cover[n]

LockUntouched ==
    Applying /\ repinned = {} =>
        /\ ctx.lock # Malformed
        /\ run.locked => Needed(run.read) = {} \/ ctx.lock = run.cover

SelInv ==
    /\ TypeOK
    /\ Applies
    /\ PinsKept
    /\ LockWritten
    /\ LockUntouched
    /\ LockRecordsBuilt

LEMMA InitSel == Init => SelInv
<1> SUFFICES ASSUME Init PROVE SelInv
  OBVIOUS
<1>1. ctx \in Contexts
  BY DEF Init, Contexts, Locks
<1>2. TypeOK
  BY <1>1 DEF Init, TypeOK, Covers
<1>3. LockRecordsBuilt
  BY DEF Init, LockRecordsBuilt
<1> QED BY <1>2, <1>3 DEF Init, SelInv, Applies, PinsKept, LockWritten, LockUntouched, Applying

(***************************************************************************)
(* What the user does.                                                     *)
(***************************************************************************)
Edit ==
    \/ EditPolicy \/ Upgrade \/ EditLock
    \/ \E n \in Needs : EditNeed(n)
    \/ \E k \in Caps : EditConfig(k)

\* A context is its fields.
LEMMA ContextFields ==
    ASSUME NEW c \in Contexts
    PROVE  /\ c = [reqs |-> c.reqs, release |-> c.release, policy |-> c.policy,
                  config |-> c.config, lock |-> c.lock]
           /\ c.reqs \in [Needs -> (SUBSET Reqs) \cup {None}] /\ c.release \in Releases
           /\ c.policy \in Policies /\ c.config \in [Caps -> Tiles \cup {Automatic}]
           /\ c.lock \in Locks
  BY DEF Contexts

LEMMA EditIs ==
    ASSUME TypeOK, Edit
    PROVE  /\ ctx' \in Contexts /\ repinned' \subseteq Needs /\ edits' \in Nat
           /\ UNCHANGED <<built, run, crashes>>
           /\ \/ ctx'.lock = ctx.lock /\ repinned' = repinned
              \/ ctx'.lock \in {None, Malformed} /\ repinned' = Needs
              \/ /\ ctx.lock \in Covers
                 /\ \E n \in Needs, t \in Tiles \cup {None} :
                       /\ ctx'.lock = [ctx.lock EXCEPT ![n] = t]
                       /\ repinned' = repinned \cup {n}
<1>0. UserActs
  BY DEF Edit, EditPolicy, Upgrade, EditLock, EditNeed, EditConfig
<1>1. edits' \in Nat /\ UNCHANGED <<built, run, crashes>> /\ repinned \subseteq Needs /\ ctx \in Contexts
  BY <1>0 DEF UserActs, TypeOK
<1>2. /\ ctx = [reqs |-> ctx.reqs, release |-> ctx.release, policy |-> ctx.policy,
               config |-> ctx.config, lock |-> ctx.lock]
      /\ ctx.reqs \in [Needs -> (SUBSET Reqs) \cup {None}] /\ ctx.release \in Releases
      /\ ctx.policy \in Policies /\ ctx.config \in [Caps -> Tiles \cup {Automatic}]
      /\ ctx.lock \in Locks
  BY <1>1, ContextFields
<1>3. CASE EditPolicy
  <2>1. PICK p \in Policies : ctx' = [ctx EXCEPT !.policy = p]
    BY <1>3 DEF EditPolicy
  <2>2. ctx' = [reqs |-> ctx.reqs, release |-> ctx.release, policy |-> p,
                config |-> ctx.config, lock |-> ctx.lock]
    BY ONLY <1>2, <2>1
  <2> QED BY <1>1, <1>2, <1>3, <2>2 DEF EditPolicy, Contexts
<1>4. CASE Upgrade
  <2>1. PICK r \in Releases : ctx' = [ctx EXCEPT !.release = r]
    BY <1>4 DEF Upgrade
  <2>2. ctx' = [reqs |-> ctx.reqs, release |-> r, policy |-> ctx.policy,
                config |-> ctx.config, lock |-> ctx.lock]
    BY ONLY <1>2, <2>1
  <2> QED BY <1>1, <1>2, <1>4, <2>2 DEF Upgrade, Contexts
<1>5. CASE EditLock
  <2>1. ASSUME NEW l \in Locks, ctx' = [ctx EXCEPT !.lock = l]
        PROVE  ctx' \in Contexts /\ ctx'.lock = l
    <3>1. ctx' = [reqs |-> ctx.reqs, release |-> ctx.release, policy |-> ctx.policy,
                  config |-> ctx.config, lock |-> l]
      BY ONLY <1>2, <2>1
    <3> QED BY <1>2, <2>1, <3>1 DEF Contexts
  <2>2. CASE ctx' = [ctx EXCEPT !.lock = None] /\ repinned' = Needs
    BY <1>1, <2>1, <2>2 DEF Locks
  <2>3. CASE ctx' = [ctx EXCEPT !.lock = Malformed] /\ repinned' = Needs
    BY <1>1, <2>1, <2>3 DEF Locks
  <2>4. ASSUME NEW n \in Needs, NEW t \in Tiles \cup {None},
               ctx.lock \notin {None, Malformed, Old},
               ctx' = [ctx EXCEPT !.lock[n] = t], repinned' = repinned \cup {n}
        PROVE  /\ ctx' \in Contexts /\ ctx.lock \in Covers /\ repinned' \subseteq Needs
               /\ ctx'.lock = [ctx.lock EXCEPT ![n] = t]
    <3>1. ctx.lock \in Covers
      BY <1>2, <2>4 DEF Locks, Covers
    <3>2. [ctx.lock EXCEPT ![n] = t] \in Covers
      BY <2>4, <3>1 DEF Covers
    <3>3. ctx' = [ctx EXCEPT !.lock = [ctx.lock EXCEPT ![n] = t]]
      BY <2>4
    <3>4. [ctx.lock EXCEPT ![n] = t] \in Locks
      BY <3>2 DEF Locks, Covers
    <3> QED BY <1>1, <2>1, <2>4, <3>1, <3>3, <3>4
  <2> QED BY <1>1, <1>5, <2>2, <2>3, <2>4 DEF EditLock
<1>6. ASSUME NEW n \in Needs, EditNeed(n)
      PROVE  ctx' \in Contexts /\ ctx'.lock = ctx.lock /\ repinned' = repinned
  <2>1. PICK r \in (SUBSET Reqs) \cup {None} : ctx' = [ctx EXCEPT !.reqs[n] = r]
    BY <1>6 DEF EditNeed
  <2>2. ctx' = [ctx EXCEPT !.reqs = [ctx.reqs EXCEPT ![n] = r]]
    BY <2>1
  <2>3. ctx' = [reqs |-> [ctx.reqs EXCEPT ![n] = r], release |-> ctx.release,
                policy |-> ctx.policy, config |-> ctx.config, lock |-> ctx.lock]
    BY ONLY <1>2, <2>2
  <2>4. [ctx.reqs EXCEPT ![n] = r] \in [Needs -> (SUBSET Reqs) \cup {None}]
    BY <1>2
  <2> QED BY <1>2, <1>6, <2>3, <2>4 DEF EditNeed, Contexts
<1>7. ASSUME NEW k \in Caps, EditConfig(k)
      PROVE  ctx' \in Contexts /\ ctx'.lock = ctx.lock /\ repinned' = repinned
  <2>1. PICK t \in ctx.release.offers[k] \cup {Automatic} : ctx' = [ctx EXCEPT !.config[k] = t]
    BY <1>7 DEF EditConfig
  <2>2. t \in Tiles \cup {Automatic}
    <3>1. ctx.release \in Release
      BY <1>2, ReleasesAssumption
    <3> QED BY <2>1, <3>1 DEF Release
  <2>3. ctx' = [ctx EXCEPT !.config = [ctx.config EXCEPT ![k] = t]]
    BY <2>1
  <2>4. ctx' = [reqs |-> ctx.reqs, release |-> ctx.release, policy |-> ctx.policy,
                config |-> [ctx.config EXCEPT ![k] = t], lock |-> ctx.lock]
    BY ONLY <1>2, <2>3
  <2>5. [ctx.config EXCEPT ![k] = t] \in [Caps -> Tiles \cup {Automatic}]
    BY <1>2, <2>2
  <2> QED BY <1>2, <1>7, <2>4, <2>5 DEF EditConfig, Contexts
<1> QED BY <1>1, <1>3, <1>4, <1>5, <1>6, <1>7 DEF Edit

\* What an edit leaves of the lock.
LEMMA EditKeepsPins ==
    ASSUME TypeOK, Edit, ctx'.lock # Malformed
    PROVE  /\ \A n \in Needs \ repinned' : Pin(ctx', n) = Pin(ctx, n) /\ n \notin repinned
           /\ \A n \in Needs \ repinned' : ctx.lock # Malformed
<1>1. CASE ctx'.lock = ctx.lock /\ repinned' = repinned
  BY <1>1 DEF Pin
<1>2. CASE repinned' = Needs
  BY <1>2
<1>3. ASSUME NEW n \in Needs, NEW t \in Tiles \cup {None}, ctx.lock \in Covers,
             ctx'.lock = [ctx.lock EXCEPT ![n] = t], repinned' = repinned \cup {n}
      PROVE  /\ \A m \in Needs \ repinned' : Pin(ctx', m) = Pin(ctx, m) /\ m \notin repinned
             /\ ctx.lock # Malformed
  <2>1. [ctx.lock EXCEPT ![n] = t] \in Covers
    BY <1>3 DEF Covers
  <2>2. ctx.lock \notin {None, Malformed, Old} /\ ctx'.lock \notin {None, Malformed, Old}
    BY <1>3, <2>1, CoverIsALock
  <2>3. \A m \in Needs \ {n} : ctx'.lock[m] = ctx.lock[m]
    BY <1>3 DEF Covers
  <2> QED BY <1>3, <2>2, <2>3 DEF Pin
<1> QED BY <1>1, <1>2, <1>3, EditIs

LEMMA EditInv == ASSUME SelInv, Edit PROVE SelInv'
<1>1. /\ ctx' \in Contexts /\ repinned' \subseteq Needs /\ edits' \in Nat
      /\ UNCHANGED <<built, run, crashes>>
  BY EditIs DEF SelInv
<1>2. TypeOK'
  BY <1>1 DEF SelInv, TypeOK
<1>3. Applies' /\ PinsKept'
  BY <1>1 DEF SelInv, Applies, PinsKept, Applying
<1>4. ctx'.lock # Malformed =>
          /\ \A n \in Needs \ repinned' : Pin(ctx', n) = Pin(ctx, n) /\ n \notin repinned
          /\ \A n \in Needs \ repinned' : ctx.lock # Malformed
  BY EditKeepsPins DEF SelInv
<1>5. LockWritten'
  BY <1>1, <1>4 DEF SelInv, LockWritten, Applying
<1>6. LockRecordsBuilt'
  BY <1>1, <1>4 DEF SelInv, LockRecordsBuilt
<1>7. LockUntouched'
  <2>1. SUFFICES ASSUME repinned' = {}
                 PROVE  ctx'.lock = ctx.lock /\ repinned = {}
    BY <1>1 DEF SelInv, LockUntouched, Applying
  <2> QED BY <2>1, EditIs, CapAssumption DEF SelInv
<1> QED BY <1>2, <1>3, <1>5, <1>6, <1>7 DEF SelInv

(***************************************************************************)
(* What a run does.                                                        *)
(***************************************************************************)
LEMMA SelectInv == ASSUME SelInv, NEW reselect \in BOOLEAN, Select(reselect) PROVE SelInv'
<1> DEFINE cover == Cover(ctx, reselect)
<1>1. /\ run = Idle /\ ~SelectFails(ctx) /\ repinned' = {}
      /\ UNCHANGED <<ctx, built, edits, crashes>>
      /\ run' = [pc |-> "apply", read |-> ctx, reselect |-> reselect, cover |-> cover,
                 repinned |-> repinned, locked |-> Needed(ctx) = {} \/ cover = ctx.lock]
  BY DEF Select, LockText
<1>2. ctx \in Contexts /\ built \in Covers /\ repinned \subseteq Needs /\ TypeOK
  BY DEF SelInv, TypeOK
<1>3. cover \in Covers
  BY <1>1, <1>2, CoverType
<1>4. ctx.lock # Malformed
  BY <1>1 DEF SelectFails
<1> HIDE DEF cover
<1>5. run' \in Runs
  BY <1>1, <1>2, <1>3 DEF Runs
<1>6. TypeOK'
  BY <1>1, <1>2, <1>5 DEF TypeOK
<1>7. Applies'
  BY <1>1 DEF Applies, cover
<1>8. PinsKept'
  BY <1>1, <1>4 DEF PinsKept, SelInv, LockRecordsBuilt
<1>9. run'.locked => Needed(ctx) = {} \/ ctx.lock = cover
  BY <1>1
<1>10. Needed(ctx) = {} => \A n \in Needs : cover[n] = None
  BY DEF Cover, cover
<1>11. ctx.lock = cover => \A n \in Needs : Pin(ctx, n) = cover[n]
  BY <1>3, CoverIsALock DEF Pin
<1>12. LockWritten'
  BY <1>1, <1>9, <1>10, <1>11 DEF LockWritten
<1>13. LockUntouched'
  BY <1>1, <1>4, <1>9 DEF LockUntouched
<1>14. LockRecordsBuilt'
  <2>1. run' # Idle
    BY <1>1 DEF Idle
  <2> QED BY <2>1 DEF LockRecordsBuilt
<1> QED BY <1>6, <1>7, <1>8, <1>12, <1>13, <1>14 DEF SelInv

\* A run is its fields.
LEMMA RunFields ==
    ASSUME TypeOK, Applying
    PROVE  /\ run = [pc |-> "apply", read |-> run.read, reselect |-> run.reselect,
                    cover |-> run.cover, repinned |-> run.repinned, locked |-> run.locked]
           /\ run.read \in Contexts /\ run.reselect \in BOOLEAN /\ run.cover \in Covers
           /\ run.repinned \subseteq Needs /\ run.locked \in BOOLEAN
<1>1. run \in Runs
  BY DEF TypeOK, Applying
<1> QED BY <1>1 DEF Runs

LEMMA WriteCodeInv == ASSUME SelInv, NEW n \in Needs, WriteCode(n) PROVE SelInv'
<1>1. /\ Applying /\ n \in Unwritten /\ built' = [built EXCEPT ![n] = run.cover[n]]
      /\ UNCHANGED <<ctx, run, repinned, edits, crashes>>
  BY DEF WriteCode
<1>2. TypeOK /\ built \in Covers /\ run.cover \in Covers
  BY <1>1, RunFields DEF SelInv, TypeOK
<1>3. /\ built' \in Covers
      /\ \A m \in Needs : built'[m] = IF m = n THEN run.cover[n] ELSE built[m]
  BY <1>1, <1>2 DEF Covers
<1>4. TypeOK'
  BY <1>1, <1>2, <1>3 DEF TypeOK
<1>5. PinsKept'
  BY <1>1, <1>3 DEF SelInv, PinsKept, Applying
<1>6. LockRecordsBuilt'
  BY <1>1 DEF LockRecordsBuilt, Applying
<1>7. Applies' /\ LockWritten' /\ LockUntouched'
  BY <1>1 DEF SelInv, Applies, LockWritten, LockUntouched, Applying
<1> QED BY <1>4, <1>5, <1>6, <1>7 DEF SelInv

LEMMA WriteLockInv == ASSUME SelInv, WriteLock PROVE SelInv'
<1>1. /\ Applying /\ ctx' = [ctx EXCEPT !.lock = run.cover] /\ run' = [run EXCEPT !.locked = TRUE]
      /\ repinned' = {} /\ UNCHANGED <<built, edits, crashes>>
  BY DEF WriteLock, LockIsNext, LockText
<1>2. /\ run = [pc |-> "apply", read |-> run.read, reselect |-> run.reselect,
               cover |-> run.cover, repinned |-> run.repinned, locked |-> run.locked]
      /\ run.read \in Contexts /\ run.reselect \in BOOLEAN /\ run.cover \in Covers
      /\ run.repinned \subseteq Needs /\ run.locked \in BOOLEAN
  BY <1>1, RunFields DEF SelInv
<1>3. run' = [pc |-> "apply", read |-> run.read, reselect |-> run.reselect,
              cover |-> run.cover, repinned |-> run.repinned, locked |-> TRUE]
  <2>1. run = [pc |-> "apply", read |-> run.read, reselect |-> run.reselect,
               cover |-> run.cover, repinned |-> run.repinned, locked |-> run.locked]
    BY <1>2
  <2>2. ASSUME NEW v
        PROVE  [run EXCEPT !.locked = v]
                  = [pc |-> "apply", read |-> run.read, reselect |-> run.reselect,
                     cover |-> run.cover, repinned |-> run.repinned, locked |-> v]
    BY ONLY <2>1
  <2>3. run' = [run EXCEPT !.locked = TRUE]
    BY <1>1
  <2> QED BY ONLY <2>2, <2>3
<1>4. run' \in Runs
  BY <1>2, <1>3 DEF Runs
<1>5. ctx \in Contexts
  BY DEF SelInv, TypeOK
<1>6. /\ ctx = [reqs |-> ctx.reqs, release |-> ctx.release, policy |-> ctx.policy,
               config |-> ctx.config, lock |-> ctx.lock]
      /\ ctx.reqs \in [Needs -> (SUBSET Reqs) \cup {None}] /\ ctx.release \in Releases
      /\ ctx.policy \in Policies /\ ctx.config \in [Caps -> Tiles \cup {Automatic}]
  BY <1>5, ContextFields
<1>7. ctx' = [reqs |-> ctx.reqs, release |-> ctx.release, policy |-> ctx.policy,
              config |-> ctx.config, lock |-> run.cover]
  BY ONLY <1>1, <1>6
<1>8. run.cover \in Locks /\ run.cover \notin {None, Malformed, Old}
  BY <1>2, CoverIsALock
<1>9. ctx' \in Contexts
  BY <1>6, <1>7, <1>8 DEF Contexts
<1>10. TypeOK'
  BY <1>1, <1>4, <1>9 DEF SelInv, TypeOK
<1>11. Applies' /\ PinsKept'
  BY <1>1, <1>3 DEF SelInv, Applies, PinsKept, Applying
<1>12. ctx'.lock = run.cover /\ \A n \in Needs : Pin(ctx', n) = run.cover[n]
  BY <1>7, <1>8 DEF Pin
<1>13. LockWritten' /\ LockUntouched'
  BY <1>3, <1>8, <1>12 DEF LockWritten, LockUntouched
<1>14. LockRecordsBuilt'
  BY <1>3 DEF LockRecordsBuilt, Idle
<1> QED BY <1>10, <1>11, <1>13, <1>14 DEF SelInv

LEMMA FinishInv == ASSUME SelInv, FinishRun PROVE SelInv'
<1>1. /\ Applying /\ run.locked /\ Unwritten = {} /\ built' = run.cover /\ run' = Idle
      /\ UNCHANGED <<ctx, repinned, edits, crashes>>
  BY DEF FinishRun
<1>2. TypeOK'
  BY <1>1, RunFields DEF SelInv, TypeOK
<1>3. LockRecordsBuilt'
  BY <1>1 DEF SelInv, LockWritten, LockRecordsBuilt
<1> QED BY <1>1, <1>2, <1>3
        DEF SelInv, Applies, PinsKept, LockWritten, LockUntouched, Applying

LEMMA CrashInv == ASSUME SelInv, Crash PROVE SelInv'
<1>1. /\ Applying /\ crashes' = crashes + 1 /\ run' = Idle
      /\ ctx' = ctx \/ ctx' = [ctx EXCEPT !.lock = Malformed]
      /\ repinned' = repinned \cup run.repinned /\ UNCHANGED <<built, edits>>
  BY DEF Crash
<1>2. TypeOK /\ ctx \in Contexts /\ crashes \in Nat /\ run.repinned \subseteq Needs
  BY <1>1, RunFields DEF SelInv, TypeOK
<1>3. /\ ctx = [reqs |-> ctx.reqs, release |-> ctx.release, policy |-> ctx.policy,
               config |-> ctx.config, lock |-> ctx.lock]
      /\ ctx.reqs \in [Needs -> (SUBSET Reqs) \cup {None}] /\ ctx.release \in Releases
      /\ ctx.policy \in Policies /\ ctx.config \in [Caps -> Tiles \cup {Automatic}]
  BY <1>2, ContextFields
<1>4. [ctx EXCEPT !.lock = Malformed]
        = [reqs |-> ctx.reqs, release |-> ctx.release, policy |-> ctx.policy,
           config |-> ctx.config, lock |-> Malformed]
  BY ONLY <1>3
<1>5. ctx' \in Contexts
  BY <1>1, <1>2, <1>3, <1>4 DEF Contexts, Locks
<1>6. TypeOK'
  BY <1>1, <1>2, <1>5 DEF TypeOK
<1>7. crashes' # 0
  BY <1>1, <1>2
<1> QED BY <1>1, <1>6, <1>7
        DEF SelInv, Applies, PinsKept, LockWritten, LockUntouched, LockRecordsBuilt, Applying

LEMMA StutterInv == ASSUME SelInv, UNCHANGED vars PROVE SelInv'
  BY DEF SelInv, vars, TypeOK, Applies, PinsKept, LockWritten, LockUntouched,
         LockRecordsBuilt, Applying

LEMMA NextSel == ASSUME SelInv, [Next]_vars PROVE SelInv'
<1>1. CASE Edit
  BY <1>1, EditInv
<1>2. CASE \E reselect \in BOOLEAN : Select(reselect)
  BY <1>2, SelectInv
<1>3. CASE \E reselect \in BOOLEAN : Fails(reselect)
  BY <1>3, StutterInv DEF Fails
<1>4. CASE RunStep
  BY <1>4, WriteLockInv, FinishInv, WriteCodeInv DEF RunStep
<1>5. CASE Crash
  BY <1>5, CrashInv
<1>6. CASE UNCHANGED vars
  BY <1>6, StutterInv
<1> QED BY <1>1, <1>2, <1>3, <1>4, <1>5, <1>6 DEF Next, Edit

LEMMA Inductive == Spec => []SelInv
  BY InitSel, NextSel, PTL DEF Spec

(***************************************************************************)
(* The results.                                                            *)
(***************************************************************************)

\* The context, the covering a run applies and what it replaces have their
\* types, whatever is edited and wherever a run dies.
THEOREM TypeCorrect == Spec => []TypeOK
<1>1. SelInv => TypeOK
  BY DEF SelInv
<1> QED BY <1>1, Inductive, PTL

\* Between runs the lock names the tile each need's code was generated for
\* (lockText, lock.go).
THEOREM LockCorrect == Spec => []LockRecordsBuilt
<1>1. SelInv => LockRecordsBuilt
  BY DEF SelInv
<1> QED BY <1>1, Inductive, PTL

\* A choice that neither the config nor the lock made is dearer than a legal
\* one only by a preference of the policy (pickOffer, choose.go).
THEOREM PreferenceExplains == Spec => []PreferenceExplainsCost
<1>1. ASSUME SelInv, Applying, NEW n \in Needed(run.read),
             Explicit(run.read, n) = Automatic,
             run.reselect \/ Pin(run.read, n) # run.cover[n]
      PROVE  LET c == run.read
                 t == run.cover[n]
                 price == c.policy.price[n]
                 prefer == c.policy.prefer
             IN  \A u \in Legal(c, n) :
                    /\ prefer[u] = "strong" => prefer[t] = "strong"
                    /\ price[u] < price[t] =>
                          \/ prefer[t] = "strong"
                          \/ /\ prefer[t] # "none"
                             /\ price[t] <= price[u] + c.policy.margin
  <2>1. /\ ~SelectFails(run.read) /\ run.read \in Contexts /\ n \in Needs
        /\ run.cover[n] = TileFor(run.read, n, run.reselect)
    BY <1>1, RunFields DEF SelInv, Applies, Cover, Needed
  <2>2. run.cover[n] = PickOffer(run.read, n)
    BY <1>1, <2>1 DEF TileFor
  <2>3. Legal(run.read, n) # {}
    BY <1>1, <2>1 DEF SelectFails
  <2> QED BY <2>1, <2>2, <2>3, PickIs
<1>2. SelInv => PreferenceExplainsCost
  BY <1>1 DEF PreferenceExplainsCost
<1> QED BY <1>2, Inductive, PTL

\* While runs end, the code of a need moves to another tile only for a reason
\* the user can see (applyChoice, lock.go).
THEOREM PinsHold == Spec => PinHolds
<1>1. ASSUME SelInv, crashes = 0, NEW m \in Needs, WriteCode(m), NEW n \in Needs, Moves(n)
      PROVE  MayMove(n)
  <2>1. /\ Applying /\ built \in Covers /\ built' = [built EXCEPT ![m] = run.cover[m]]
    BY <1>1 DEF WriteCode, SelInv, TypeOK
  <2>2. n = m /\ built'[n] = run.cover[n]
    BY <1>1, <2>1 DEF Moves, Covers
  <2>3. built[n] # None /\ run.cover[n] # None /\ run.cover[n] # built[n]
    BY <1>1, <2>2 DEF Moves
  <2>4. n \in run.repinned \/ Pin(run.read, n) = built[n]
    BY <1>1, <2>1, <2>3 DEF SelInv, PinsKept
  <2>5. run.cover[n] = TileFor(run.read, n, run.reselect)
    BY <1>1, <2>1, <2>3 DEF SelInv, Applies, Cover
  <2> QED BY <2>3, <2>4, <2>5 DEF MayMove, TileFor
<1>2. ASSUME SelInv, FinishRun, NEW n \in Needs PROVE ~Moves(n)
  BY <1>2 DEF FinishRun, Unwritten, Moves
<1>3. ASSUME SelInv, NEW n \in Needs, built' = built PROVE ~Moves(n)
  BY <1>3 DEF Moves
<1>4. ASSUME SelInv, [Next]_vars
      PROVE  \/ built' = built \/ FinishRun
             \/ \E m \in Needs : WriteCode(m)
  <2>1. CASE Edit
    BY <1>4, <2>1, EditIs DEF SelInv
  <2> QED BY <1>4, <2>1 DEF Next, Edit, Select, Fails, RunStep, WriteLock, Crash, vars
<1>5. SelInv /\ [Next]_vars => [crashes = 0 => \A n \in Needs : Moves(n) => MayMove(n)]_vars
  BY <1>1, <1>2, <1>3, <1>4
<1> QED BY <1>5, Inductive, PTL DEF Spec, PinHolds

\* Once a run has ended another finds nothing to change (applyChoice, lock.go).
THEOREM SecondRun == Spec => SecondRunQuiet
<1> DEFINE Quiet == /\ ~SelectFails(ctx)
                    /\ Cover(ctx, FALSE) = built'
                    /\ Needed(ctx) # {} => ctx.lock = built'
<1>1. ASSUME SelInv, FinishRun, repinned = {}, ctx = [run.read EXCEPT !.lock = ctx.lock]
      PROVE  Quiet
  <2> DEFINE c == run.read
  <2>1. Applying /\ run.locked /\ built' = run.cover
    BY <1>1 DEF FinishRun
  <2>2. /\ c \in Contexts /\ run.cover \in Covers /\ run.reselect \in BOOLEAN
        /\ ~SelectFails(c) /\ run.cover = Cover(c, run.reselect)
    BY <1>1, <2>1, RunFields DEF SelInv, Applies
  <2>3. ctx.lock # Malformed /\ (Needed(c) = {} \/ ctx.lock = run.cover)
    BY <1>1, <2>1 DEF SelInv, LockUntouched
  <2>4. c = [reqs |-> c.reqs, release |-> c.release, policy |-> c.policy,
             config |-> c.config, lock |-> c.lock]
    BY <2>2, ContextFields
  <2> HIDE DEF c
  <2>5. /\ ctx.reqs = c.reqs /\ ctx.release = c.release
        /\ ctx.policy = c.policy /\ ctx.config = c.config
    BY <1>1, <2>4 DEF c
  <2>6. Needed(ctx) = Needed(c) /\ \A n \in Needs : Explicit(ctx, n) = Explicit(c, n)
    BY <2>5 DEF Needed, Explicit
  <2>7. \A n \in Needs : Legal(ctx, n) = Legal(c, n)
    BY <2>5 DEF Legal, Candidates
  <2>8. ~SelectFails(ctx)
    BY <2>2, <2>3, <2>6, <2>7 DEF SelectFails, Needed
  <2>9. ASSUME NEW n \in Needed(c) PROVE TileFor(ctx, n, FALSE) = run.cover[n]
    <3>1. /\ n \in Needs /\ run.cover[n] = TileFor(c, n, run.reselect)
      BY <2>2, <2>9 DEF Cover, Needed
    <3>2. run.cover[n] \in Legal(c, n)
      BY <2>2, <2>9, <3>1, TileForIs
    <3>3. ctx.lock = run.cover /\ Pin(ctx, n) = run.cover[n]
      BY <2>2, <2>3, <2>9, CoverIsALock DEF Pin
    <3> QED BY <2>6, <2>7, <3>1, <3>2, <3>3 DEF TileFor
  <2>10. Cover(ctx, FALSE) = run.cover
    BY <2>2, <2>6, <2>9 DEF Cover
  <2> QED BY <2>1, <2>3, <2>6, <2>8, <2>10
<1>2. SelInv => [(FinishRun /\ repinned = {} /\ ctx = [run.read EXCEPT !.lock = ctx.lock])
                    => Quiet]_vars
  BY <1>1
<1> QED BY <1>2, Inductive, PTL DEF Spec, SecondRunQuiet
=============================================================================
