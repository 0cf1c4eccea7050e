------------------------------ MODULE Selection ------------------------------
(***************************************************************************)
(* Which tile each need of the spec gets (Solve, choose.go), and the       *)
(* lock file that keeps the choice from one run to the next (lock.go): the *)
(* policy, the config, the tilegen release and the lock itself change      *)
(* under a project whose code was generated for an earlier choice.         *)
(*                                                                         *)
(* Needs are of one capability each; no registered offer has needs of its  *)
(* own, so a covering is one tile.                                         *)
(***************************************************************************)
EXTENDS Solve, FiniteSets

CONSTANTS
    Needs,     \* orders.OrderStore, ...
    Caps,      \* capabilities
    Tiles,
    Reqs,      \* requirements: durable, ...
    Releases,  \* what the tiles of a tilegen release offer, and meet
    Policies,  \* prices, preferences, tiles to avoid, and the margin
    None,      \* no tile, no lock file, a need the spec does not have
    Automatic,      \* the config leaves the choice to the cost
    Malformed, \* a lock file loadLock refuses, say after a merge conflict
    Old,       \* one in the format of an older tilegen, read as empty
    MaxEdits, MaxCrashes  \* bounds

Strengths == {"none", "weak", "strong", "required"}
Release == [offers : [Caps -> SUBSET Tiles], meets : [Tiles -> SUBSET Reqs]]
\* The price of a tile for a need has the chain that converts its form in it.
Policy == [price : [Needs -> [Tiles -> Nat]], prefer : [Tiles -> Strengths],
           avoid : SUBSET Tiles, margin : Nat]

ASSUME CapAssumption == Needs # {} /\ CapOf \in [Needs -> Caps]
ASSUME NameAssumption ==
    /\ IsFiniteSet(Tiles)
    /\ NameOf \in [Tiles -> 1 .. Cardinality(Tiles)]
    /\ \A t, u \in Tiles : NameOf[t] = NameOf[u] => t = u
ASSUME ReleasesAssumption == Releases \subseteq Release
ASSUME PoliciesAssumption == Policies \subseteq Policy
ASSUME SentinelsAssumption ==
    /\ None \notin Tiles /\ Automatic \notin Tiles
    /\ \A R \in SUBSET Reqs : R # None
    /\ \A f \in [Needs -> Tiles \cup {None}] : f # Malformed /\ f # Old /\ f # None
    /\ Malformed # None /\ Malformed # Old /\ Old # None
ASSUME BoundsAssumption == MaxEdits \in Nat /\ MaxCrashes \in Nat
-----------------------------------------------------------------------------
(***************************************************************************)
(* What a run makes of its context, which has the config and the lock too. *)
(***************************************************************************)
Needed(c) == {n \in Needs : c.reqs[n] # None}

\* What the lock pins a need to.
Pin(c, n) == IF c.lock \in {None, Old} THEN None ELSE c.lock[n]

(***************************************************************************)
(* applyChoice: the config first, then the lock while its tile is legal.   *)
(***************************************************************************)
Explicit(c, n) == c.config[CapOf[n]]

\* Mutant: the lock is not asked.
TileForUnpinned(c, n, reselect) ==
    IF Explicit(c, n) # Automatic THEN Explicit(c, n) ELSE PickOffer(c, n)

TileFor(c, n, reselect) ==
    IF Explicit(c, n) # Automatic THEN Explicit(c, n)
    ELSE IF ~reselect /\ Pin(c, n) \in Legal(c, n) THEN Pin(c, n)
         ELSE PickOffer(c, n)

\* coverAll reports a need that nothing legal covers and a config that chose
\* an illegal tile; either ends the run.
SelectFails(c) ==
    \/ c.lock = Malformed
    \/ \E n \in Needed(c) :
          \/ Legal(c, n) = {}
          \/ Explicit(c, n) # Automatic /\ Explicit(c, n) \notin Legal(c, n)

Cover(c, reselect) ==
    [n \in Needs |-> IF n \in Needed(c) THEN TileFor(c, n, reselect) ELSE None]

\* Mutants: entries of needs the spec no longer has stay in the file; the file
\* has what cost chose, not what the config or the lock made of it.
LockTextKeeps(c, cover) ==
    [n \in Needs |-> IF cover[n] = None THEN Pin(c, n) ELSE cover[n]]

LockTextOfPick(c, cover) ==
    [n \in Needs |-> IF cover[n] = None THEN None ELSE PickOffer(c, n)]

LockText(c, cover) == cover
-----------------------------------------------------------------------------
VARIABLES
    ctx,      \* what the next run would read, the lock file on disk included
    built,    \* the tile each need's code in the project was generated for
    run,      \* the run applying its plan, or Idle
    repinned, \* needs whose lock entry the user changed since a run read it
    edits, crashes

vars == <<ctx, built, run, repinned, edits, crashes>>

Locks == [Needs -> Tiles \cup {None}] \cup {None, Malformed, Old}
Contexts == [reqs : [Needs -> (SUBSET Reqs) \cup {None}], release : Releases,
             policy : Policies, config : [Caps -> Tiles \cup {Automatic}], lock : Locks]

Covers == [Needs -> Tiles \cup {None}]
Idle == [pc |-> "idle"]
Runs == [pc : {"apply"}, read : Contexts, reselect : BOOLEAN, cover : Covers,
         repinned : SUBSET Needs, locked : BOOLEAN]

TypeOK ==
    /\ ctx \in Contexts
    /\ built \in Covers
    /\ run \in Runs \cup {Idle}
    /\ repinned \subseteq Needs
    /\ edits \in Nat /\ crashes \in Nat

Init ==
    /\ ctx \in [reqs : [Needs -> (SUBSET Reqs) \cup {None}], release : Releases,
                policy : Policies, config : [Caps -> {Automatic}], lock : {None, Old}]
    /\ built = [n \in Needs |-> None]
    /\ run = Idle
    /\ repinned = {}
    /\ edits = 0 /\ crashes = 0
-----------------------------------------------------------------------------
(***************************************************************************)
(* The user edits the spec, the policy or the config, installs another     *)
(* release, or edits, deletes or breaks the lock file.                     *)
(***************************************************************************)
UserActs ==
    /\ edits < MaxEdits
    /\ edits' = edits + 1
    /\ UNCHANGED <<built, run, crashes>>

EditNeed(n) ==
    /\ UserActs
    /\ \E r \in (SUBSET Reqs) \cup {None} : ctx' = [ctx EXCEPT !.reqs[n] = r]
    /\ UNCHANGED repinned

EditPolicy ==
    /\ UserActs
    /\ \E p \in Policies : ctx' = [ctx EXCEPT !.policy = p]
    /\ UNCHANGED repinned

\* choicesFor accepts only tiles that offer the capability.
EditConfig(k) ==
    /\ UserActs
    /\ \E t \in ctx.release.offers[k] \cup {Automatic} : ctx' = [ctx EXCEPT !.config[k] = t]
    /\ UNCHANGED repinned

Upgrade ==
    /\ UserActs
    /\ \E r \in Releases : ctx' = [ctx EXCEPT !.release = r]
    /\ UNCHANGED repinned

EditLock ==
    /\ UserActs
    /\ \/ /\ ctx' = [ctx EXCEPT !.lock = None]
          /\ repinned' = Needs
       \/ /\ ctx' = [ctx EXCEPT !.lock = Malformed]
          /\ repinned' = Needs
       \/ /\ ctx.lock \notin {None, Malformed, Old}
          /\ \E n \in Needs, t \in Tiles \cup {None} :
                /\ ctx' = [ctx EXCEPT !.lock[n] = t]
                /\ repinned' = repinned \cup {n}
-----------------------------------------------------------------------------
(***************************************************************************)
(* tilegen [-reselect] SPEC.                                               *)
(***************************************************************************)
Select(reselect) ==
    /\ run = Idle
    /\ ~SelectFails(ctx)
    /\ LET cover == Cover(ctx, reselect)
       IN  run' = [pc |-> "apply", read |-> ctx, reselect |-> reselect,
                   cover |-> cover, repinned |-> repinned,
                   locked |-> Needed(ctx) = {} \/ LockText(ctx, cover) = ctx.lock]
    /\ repinned' = {}
    /\ UNCHANGED <<ctx, built, edits, crashes>>

Fails(reselect) ==
    /\ run = Idle
    /\ SelectFails(ctx)
    /\ UNCHANGED vars

Applying == run # Idle
LockIsNew == run.read.lock = None

\* The needs whose code is still to be written.
Unwritten == {n \in Needs : run.cover[n] # None /\ built[n] # run.cover[n]}
NewCode(n) == built[n] = None

\* Apply writes new files before changed ones, and the lock file after the
\* code of its group.
WriteCode(n) ==
    /\ Applying
    /\ n \in Unwritten
    /\ ~NewCode(n) => /\ \A u \in Unwritten : ~NewCode(u)
                      /\ LockIsNew => run.locked
    /\ built' = [built EXCEPT ![n] = run.cover[n]]
    /\ UNCHANGED <<ctx, run, repinned, edits, crashes>>

\* A lock file that already has the text is not written; with no need covered
\* Emit does not stage one at all.
LockIsNext ==
    /\ Applying
    /\ ~run.locked
    /\ IF LockIsNew THEN \A n \in Unwritten : ~NewCode(n) ELSE Unwritten = {}

WriteLock ==
    /\ LockIsNext
    /\ ctx' = [ctx EXCEPT !.lock = LockText(run.read, run.cover)]
    /\ run' = [run EXCEPT !.locked = TRUE]
    /\ repinned' = {}
    /\ UNCHANGED <<built, edits, crashes>>

\* Mutant: nothing is deleted.
FinishLeaves ==
    /\ Applying
    /\ run.locked /\ Unwritten = {}
    /\ run' = Idle
    /\ UNCHANGED <<ctx, built, repinned, edits, crashes>>

\* The deletions come last: the code of needs the spec no longer has.
FinishRun ==
    /\ Applying
    /\ run.locked /\ Unwritten = {}
    /\ built' = run.cover
    /\ run' = Idle
    /\ UNCHANGED <<ctx, repinned, edits, crashes>>

\* The process dies, or a write fails and Apply returns its error.  What a
\* write cut short makes of the lock file loadLock refuses.
Crash ==
    /\ Applying
    /\ crashes < MaxCrashes
    /\ crashes' = crashes + 1
    /\ run' = Idle
    /\ \/ UNCHANGED ctx
       \/ /\ LockIsNext
          /\ ctx' = [ctx EXCEPT !.lock = Malformed]
    /\ repinned' = repinned \cup run.repinned
    /\ UNCHANGED <<built, edits>>

RunStep == WriteLock \/ FinishRun \/ \E n \in Needs : WriteCode(n)

Next ==
    \/ EditPolicy \/ Upgrade \/ EditLock
    \/ \E n \in Needs : EditNeed(n)
    \/ \E k \in Caps : EditConfig(k)
    \/ \E reselect \in BOOLEAN : Select(reselect) \/ Fails(reselect)
    \/ RunStep
    \/ Crash

Spec == Init /\ [][Next]_vars
FairSpec == Spec /\ WF_vars(RunStep) /\ WF_vars(Select(FALSE))
-----------------------------------------------------------------------------
(***************************************************************************)
(* What selection promises.                                                *)
(***************************************************************************)

\* Between runs the lock names, for every need with code in the project, the
\* tile that code was generated for, unless the user changed the entry or a run
\* died ("the tile each need got, pinned", lock.go:72).
LockRecordsBuilt ==
    (run = Idle /\ crashes = 0 /\ ctx.lock # Malformed) =>
        \A n \in Needs \ repinned : built[n] # None => Pin(ctx, n) = built[n]

Moves(n) == built[n] # None /\ built'[n] \notin {built[n], None}

\* Reasons a user can see for the code of a need to move to another tile.
MayMove(n) ==
    \/ run.reselect
    \/ Explicit(run.read, n) # Automatic
    \/ built[n] \notin Legal(run.read, n)
    \/ n \in run.repinned

\* "So a changed cost or weight never silently moves a store and rewrites its
\* implementation" (lock.go:12), while runs end.
PinHolds == [][crashes = 0 => \A n \in Needs : Moves(n) => MayMove(n)]_vars

\* Where neither the config nor the lock decided, the choice is dearer than
\* another legal one only by a preference: a strong one, or any within the
\* margin; and a strong preference is passed over only for another.
PreferenceExplainsCost ==
    Applying =>
        \A n \in Needed(run.read) :
            LET c == run.read
                t == run.cover[n]
                price == c.policy.price[n]
                prefer == c.policy.prefer
            IN  (Explicit(c, n) = Automatic /\ (run.reselect \/ Pin(c, n) # t)) =>
                    \A u \in Legal(c, n) :
                        /\ prefer[u] = "strong" => prefer[t] = "strong"
                        /\ price[u] < price[t] =>
                              \/ prefer[t] = "strong"
                              \/ /\ prefer[t] # "none"
                                 /\ price[t] <= price[u] + c.policy.margin

\* "The same spec, policy and lock always give the same covering"
\* (README.md:746): once a run has ended, another one changes nothing, not even
\* after -reselect or a choice of the config.
SecondRunQuiet ==
    [][(FinishRun /\ repinned = {} /\ ctx = [run.read EXCEPT !.lock = ctx.lock]) =>
          /\ ~SelectFails(ctx)
          /\ Cover(ctx, FALSE) = built'
          /\ Needed(ctx) # {} => ctx.lock = built']_vars

\* After the last edit and crash the project comes to have, for every need, the
\* tile a run would choose, and a lock that says so, or runs fail until the user
\* mends what they complain of.
Settles ==
    <>[](\/ SelectFails(ctx)
         \/ /\ built = Cover(ctx, FALSE)
            /\ Needed(ctx) # {} => ctx.lock = built)
-----------------------------------------------------------------------------
(***************************************************************************)
(* What a document says and the code does not do: violated.                *)
(***************************************************************************)

\* lock.go:12 as it stands, a run that failed half way among the runs.
NeverSilentlyMoves == [][\A n \in Needs : Moves(n) => MayMove(n)]_vars
=============================================================================
