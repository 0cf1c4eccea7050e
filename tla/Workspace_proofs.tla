-------------------------- MODULE Workspace_proofs --------------------------
(***************************************************************************)
(* For every workspace, any number of terminals, edits and failures: its   *)
(* type correctness; that the commands keep uncommitted work and branches; *)
(* what -git promises of the repository, up and down running beside it;    *)
(* what down leaves, and up makes; and where the commands that up types    *)
(* land.                                                                   *)
(***************************************************************************)
EXTENDS Workspace, Repo_proofs, SequenceTheorems

-----------------------------------------------------------------------------
(***************************************************************************)
(* The repository and -git (repo.go), beside up and down.                  *)
(***************************************************************************)

\* A step of up or down changes nothing of the repository but the counters.
LEMMA RunKeepsRepo ==
    ASSUME NEW p \in Terminals,
           \/ \E op \in {"up", "down", "prune"}, dry \in DryRuns : StartRun(p, op, dry)
           \/ RunStep(p) \/ RunFails(p)
    PROVE  /\ UNCHANGED <<main, github, job>>
           /\ \/ UNCHANGED budget
              \/ budget.runs < MaxRuns /\ budget' = [budget EXCEPT !.runs = @ + 1]
              \/ budget.faults < MaxFaults /\ budget' = [budget EXCEPT !.faults = @ + 1]
<1>1. CASE \E op \in {"up", "down", "prune"}, dry \in DryRuns : StartRun(p, op, dry)
  BY <1>1 DEF StartRun
<1>2. CASE RunStep(p)
  BY <1>2 DEF RunStep, List, Tree, AddTree, HasSession, ListWindows, NewWindow, TypeRun,
              FirstPane, SplitPane, TypePane, Layout, KillSession, RemoveTree, repoVars
<1>3. CASE RunFails(p)
  BY <1>3 DEF RunFails
<1> QED BY <1>1, <1>2, <1>3

\* The user's steps in the worktrees and the session are counted as edits.
LEMMA UserKeepsRepo ==
    ASSUME UserNext
    PROVE  UserStep
BY DEF UserNext, Work, CommitTree, DeleteTree, Occupy, Becoming, OpenWindow, CloseWindow

\* With up, down and the user's work beside them too.
LEMMA RepoInvariant == Spec => []RepoInv
<1>1. Init => RepoInv
  BY RepoInvInit DEF Init
<1>2. RepoInv /\ [Next]_vars => RepoInv'
  <2> SUFFICES ASSUME RepoInv, [Next]_vars PROVE RepoInv'
    OBVIOUS
  <2>0. budget \in Budget
    BY DEF RepoInv, RepoTypeOK, Budget
  <2>1. CASE MakeRepo
    BY <2>1, RepoStepKeeps DEF MakeRepo
  <2>2. ASSUME NEW p \in Terminals,
               \/ \E op \in {"up", "down", "prune"}, dry \in DryRuns : StartRun(p, op, dry)
               \/ RunStep(p) \/ RunFails(p)
        PROVE  RepoInv'
    <3>1. UNCHANGED <<main, github, job>> /\ budget' \in Budget
      BY <2>0, <2>2, RunKeepsRepo, BudgetGrows
    <3> QED BY <3>1, ElsewhereKeepsRepo
  <2>3. CASE UserNext
    <3>1. UNCHANGED <<main, github, job>> /\ budget' \in Budget
      BY <2>0, <2>3, UserKeepsRepo, BudgetGrows DEF UserStep
    <3> QED BY <3>1, ElsewhereKeepsRepo
  <2>4. CASE UNCHANGED vars
    BY <2>0, <2>4, ElsewhereKeepsRepo DEF vars, repoVars
  <2> QED BY <2>1, <2>2, <2>3, <2>4 DEF Next
<1> QED BY <1>1, <1>2, PTL DEF Spec

\* Type correctness of the repository, GitHub and the -git run, with the place
\* a run has in its steps (gitPrepare, gitFinish).
THEOREM RepoTypeCorrect == Spec => []RepoTypeOK
<1>1. RepoInv => RepoTypeOK
  BY DEF RepoInv
<1> QED BY <1>1, RepoInvariant, PTL

\* "New repositories get a buildable first commit and, with (github ...), a GitHub
\* repository and topics": EndsAsSaid, in every workspace, with any number of
\* runs, edits and failures before (gitFinish).
THEOREM GitEndsAsSaid == Spec => []EndsAsSaid
<1>1. RepoInv => EndsAsSaid
  BY DEF RepoInv
<1> QED BY <1>1, RepoInvariant, PTL

\* PublishesTheScaffold: whatever happens between the steps of a run, what gh
\* creates and pushes has the scaffold (gitFinish).
THEOREM ScaffoldPublished == Spec => []PublishesTheScaffold
<1>1. RepoInv => PublishesTheScaffold
  BY DEF RepoInv
<1> QED BY <1>1, RepoInvariant, PTL

-----------------------------------------------------------------------------
(***************************************************************************)
(* What the commands leave alone.                                          *)
(***************************************************************************)

\* "Existing and cloned ones are left for you to review and commit": LeftForReview,
\* for every workspace (gitFinish).
THEOREM FoundRepositoriesLeftForReview == Spec => LeftForReview
<1>1. RepoTypeOK /\ [Next]_vars
        => [(budget'.edits = budget.edits /\ main.git) =>
               \/ main'.head = main.head /\ main'.staged = main.staged
               \/ job.mode = "new"]_repoVars
  <2> SUFFICES ASSUME RepoTypeOK, [Next]_vars, budget'.edits = budget.edits, main.git
               PROVE  \/ main'.head = main.head /\ main'.staged = main.staged
                      \/ job.mode = "new"
    OBVIOUS
  <2>1. CASE MakeRepo
    BY <2>1, RepoStepLeavesCommits DEF MakeRepo
  <2>2. CASE \E p \in Terminals :
               \/ \E op \in {"up", "down", "prune"}, dry \in DryRuns : StartRun(p, op, dry)
               \/ RunStep(p) \/ RunFails(p)
    BY <2>2, RunKeepsRepo
  <2>3. CASE UserNext
    BY <2>3, UserKeepsRepo DEF UserStep
  <2>4. CASE UNCHANGED vars
    BY <2>4 DEF vars, repoVars
  <2> QED BY <2>1, <2>2, <2>3, <2>4 DEF Next
<1> QED BY <1>1, RepoTypeCorrect, PTL DEF Spec, LeftForReview

\* A step of up or down drops no branch and leaves a worktree with uncommitted
\* changes, and what else is at its path, as it is (Up, Down).
LEMMA RunLeavesWork ==
    ASSUME disk \in [Trees -> {"absent", "clean", "dirty", "foreign"}],
           NEW p \in Terminals,
           \/ \E op \in {"up", "down", "prune"}, dry \in DryRuns : StartRun(p, op, dry)
           \/ RunStep(p) \/ RunFails(p)
    PROVE  /\ branches \subseteq branches'
           /\ \A t \in Trees : disk[t] \in {"dirty", "foreign"} => disk'[t] = disk[t]
<1>1. CASE \E op \in {"up", "down", "prune"}, dry \in DryRuns : StartRun(p, op, dry)
  BY <1>1 DEF StartRun
<1>2. CASE RunStep(p)
  <2>1. CASE AddTree(p)
    BY <2>1 DEF AddTree, CanAdd
  <2>2. CASE RemoveTree(p)
    BY <2>2 DEF RemoveTree, CanRemove
  <2>3. CASE \/ List(p) \/ Tree(p) \/ HasSession(p) \/ ListWindows(p) \/ NewWindow(p)
             \/ TypeRun(p) \/ FirstPane(p) \/ SplitPane(p) \/ TypePane(p) \/ Layout(p)
             \/ KillSession(p)
    BY <2>3 DEF List, Tree, HasSession, ListWindows, NewWindow, TypeRun, FirstPane,
                SplitPane, TypePane, Layout, KillSession
  <2> QED BY <1>2, <2>1, <2>2, <2>3 DEF RunStep
<1>3. CASE RunFails(p)
  BY <1>3 DEF RunFails
<1> QED BY <1>1, <1>2, <1>3

\* What there may be at the path of a worktree.
DiskOK == disk \in [Trees -> {"absent", "clean", "dirty", "foreign"}]

\* The commands and the user leave one of these at every path.
LEMMA DiskCorrect == Spec => []DiskOK
<1>1. Init => DiskOK
  BY DEF Init, DiskOK
<1>2. DiskOK /\ [Next]_vars => DiskOK'
  <2> SUFFICES ASSUME DiskOK, [Next]_vars PROVE DiskOK'
    OBVIOUS
  <2>1. CASE MakeRepo \/ UNCHANGED vars
    BY <2>1 DEF MakeRepo, vars, wsVars, DiskOK
  <2>2. ASSUME NEW p \in Terminals,
               \/ \E op \in {"up", "down", "prune"}, dry \in DryRuns : StartRun(p, op, dry)
               \/ RunFails(p)
        PROVE  DiskOK'
    BY <2>2 DEF StartRun, RunFails, DiskOK
  <2>3. ASSUME NEW p \in Terminals, AddTree(p) \/ RemoveTree(p)
        PROVE  DiskOK'
    BY <2>3 DEF AddTree, RemoveTree, DiskOK
  <2>4. ASSUME NEW p \in Terminals, RunStep(p), ~AddTree(p), ~RemoveTree(p)
        PROVE  DiskOK'
    BY <2>4 DEF RunStep, List, Tree, HasSession, ListWindows, NewWindow, TypeRun,
                FirstPane, SplitPane, TypePane, Layout, KillSession, DiskOK
  <2>5. CASE UserNext
    BY <2>5 DEF UserNext, Work, CommitTree, DeleteTree, Occupy, Becoming, OpenWindow,
                CloseWindow, DiskOK
  <2> QED BY <2>1, <2>2, <2>3, <2>4, <2>5 DEF Next
<1> QED BY <1>1, <1>2, PTL DEF Spec

\* "git worktree remove, which refuses to delete uncommitted work, and branches
\* are always kept": WorkIsSafe, for every workspace and any number of
\* overlapping and failing runs (Up, Down).
THEOREM UserWorkIsSafe == Spec => WorkIsSafe
<1> DEFINE Safe == /\ branches \subseteq branches'
                   /\ \A t \in Trees : disk[t] \in {"dirty", "foreign"} => disk'[t] = disk[t]
<1>1. RepoTypeOK /\ DiskOK /\ [Next]_vars => [budget'.edits = budget.edits => Safe]_vars
  <2> SUFFICES ASSUME RepoTypeOK, DiskOK, [Next]_vars, budget'.edits = budget.edits
               PROVE  Safe
    OBVIOUS
  <2>1. CASE MakeRepo \/ UNCHANGED vars
    BY <2>1 DEF MakeRepo, vars, wsVars
  <2>2. CASE \E p \in Terminals :
               \/ \E op \in {"up", "down", "prune"}, dry \in DryRuns : StartRun(p, op, dry)
               \/ RunStep(p) \/ RunFails(p)
    BY <2>2, RunLeavesWork DEF DiskOK
  <2>3. CASE UserNext
    BY <2>3, UserKeepsRepo DEF UserStep, RepoTypeOK
  <2> QED BY <2>1, <2>2, <2>3 DEF Next
<1> QED BY <1>1, RepoTypeCorrect, DiskCorrect, PTL DEF Spec, WorkIsSafe

-----------------------------------------------------------------------------
(***************************************************************************)
(* The runs of up and down: how they move, and where they are.             *)
(***************************************************************************)

AllWords == UNION {WordsOf[n] : n \in DOMAIN WordsOf}
RunPcs == {"idle", "list", "tree", "add", "has", "windows", "window", "keys", "panes",
           "split", "type", "layout", "kill", "prune"}
Run == [op : {"none", "up", "down", "prune"}, pc : RunPcs, dry : BOOLEAN,
        have : SUBSET Trees, existing : SUBSET AllWords, running : BOOLEAN,
        reuse : BOOLEAN, i : Nat, k : Nat, at : Nat \X Nat, errs : BOOLEAN,
        calm : BOOLEAN, result : {"none", "ok", "failed"}]

\* Which steps a command of the user's leads to, and which worktree, window and
\* pane a run is at (Up, tmuxUp, splitPanes, Down).
InPlace(r) ==
    /\ r.pc = "idle" <=> r.result # "none" \/ r.op = "none"
    /\ r.result # "none" => r.calm /\ ~r.dry
    /\ r.pc \in {"tree", "add", "windows", "window", "keys", "panes", "split", "type", "layout"}
          => r.op = "up"
    /\ r.pc = "list" => r.op \in {"up", "prune"}
    /\ r.pc = "kill" => r.op \in {"down", "prune"}
    /\ r.pc = "prune" => r.op = "prune"
    /\ r.pc \in {"tree", "prune"} => r.i \in 1 .. Len(Worktrees) + 1
    /\ r.pc = "add" => r.i \in 1 .. Len(Worktrees)
    /\ r.pc = "windows" => r.i = 1
    /\ r.pc = "window" => r.i \in 1 .. Len(Windows) + 1
    /\ r.pc \in {"keys", "panes", "split", "type", "layout"} => r.i \in 1 .. Len(Windows)
    /\ r.pc \in {"keys", "panes"} => r.k = 1
    /\ r.pc = "split" => r.k \in 1 .. Len(Windows[r.i].panes) + 1
    /\ r.pc = "type" => r.k \in 1 .. Len(Windows[r.i].panes)

RunOK == run \in [Terminals -> Run] /\ \A p \in Terminals : InPlace(run[p])

\* What a step leaves of the other runs: they are as they were, or forgotten if
\* they have ended and disturbed if they have not.
Disturb(r) == IF r.pc = "idle" THEN NoRun ELSE [r EXCEPT !.calm = FALSE]

\* A run that has not begun.
LEMMA NoRunInPlace == NoRun \in Run /\ InPlace(NoRun)
BY DEF NoRun, Run, RunPcs, InPlace

\* A disturbed run is where it was.
LEMMA DisturbedInPlace ==
    ASSUME NEW r \in Run, InPlace(r)
    PROVE  /\ Disturb(r) \in Run /\ InPlace(Disturb(r))
           /\ \/ Disturb(r) = NoRun
              \/ ~Disturb(r).calm
<1>1. CASE r.pc = "idle"
  BY <1>1, NoRunInPlace DEF Disturb
<1>2. CASE r.pc # "idle"
  <2>1. Disturb(r) = [r EXCEPT !.calm = FALSE]
    BY <1>2 DEF Disturb
  <2>2. Disturb(r) \in Run /\ ~Disturb(r).calm
    BY <2>1 DEF Run
  <2>3. /\ Disturb(r).op = r.op /\ Disturb(r).pc = r.pc /\ Disturb(r).i = r.i
        /\ Disturb(r).k = r.k /\ Disturb(r).result = r.result
    BY <2>1 DEF Run
  <2> QED BY <1>2, <2>2, <2>3 DEF InPlace
<1> QED BY <1>1, <1>2

\* A run takes a step, alone or disturbing the others.
LEMMA RunTakesStep ==
    ASSUME RunOK, NEW p \in Terminals, NEW r \in Run, InPlace(r),
           Moves(p, r) \/ Becomes(p, r)
    PROVE  /\ RunOK' /\ run'[p] = r
           /\ \A q \in Terminals \ {p} :
                 \/ Moves(p, r) /\ run'[q] = run[q]
                 \/ Becomes(p, r) /\ run'[q] = Disturb(run[q])
<1>1. CASE Moves(p, r)
  BY <1>1 DEF Moves, RunOK
<1>2. CASE Becomes(p, r)
  <2>1. Disturbed = [q \in Terminals |-> Disturb(run[q])]
    BY DEF Disturbed, Disturb
  <2>2. Disturbed \in [Terminals -> Run] /\ \A q \in Terminals : InPlace(Disturbed[q])
    BY <2>1, DisturbedInPlace DEF RunOK
  <2>3. run' = [Disturbed EXCEPT ![p] = r]
    BY <1>2 DEF Becomes
  <2> QED BY <1>2, <2>1, <2>2, <2>3 DEF RunOK
<1> QED BY <1>1, <1>2

\* All runs are disturbed.
LEMMA AllDisturbed ==
    ASSUME RunOK, run' = Disturbed
    PROVE  RunOK' /\ \A q \in Terminals : run'[q] = Disturb(run[q])
<1>1. Disturbed = [q \in Terminals |-> Disturb(run[q])]
  BY DEF Disturbed, Disturb
<1> QED BY <1>1, DisturbedInPlace DEF RunOK

\* How a run ends is remembered of an undisturbed one only.
LEMMA DoneInPlace ==
    ASSUME RunOK, NEW p \in Terminals, NEW result \in {"ok", "failed"},
           run[p].pc # "idle"
    PROVE  /\ Done(p, result) \in Run /\ InPlace(Done(p, result))
           /\ Done(p, result).pc = "idle"
           /\ Done(p, result) # NoRun => run[p].calm /\ ~run[p].dry
           /\ run[p].calm /\ ~run[p].dry =>
                 /\ Done(p, result).op = run[p].op /\ Done(p, result).have = run[p].have
                 /\ Done(p, result).existing = run[p].existing
                 /\ Done(p, result).result = result
<1>1. run[p] \in Run /\ InPlace(run[p]) /\ run[p].op # "none"
  BY DEF RunOK, InPlace
<1>2. CASE run[p].calm /\ ~run[p].dry
  <2>1. Done(p, result) = [NoRun EXCEPT !.op = run[p].op, !.have = run[p].have,
                                        !.existing = run[p].existing, !.result = result]
    BY <1>2 DEF Done
  <2> DEFINE d == [NoRun EXCEPT !.op = run[p].op, !.have = run[p].have,
                                !.existing = run[p].existing, !.result = result]
  <2>2. NoRun \in Run /\ NoRun.pc = "idle" /\ NoRun.calm /\ ~NoRun.dry
    BY NoRunInPlace DEF NoRun
  <2>3. d \in Run /\ d.pc = "idle" /\ d.op = run[p].op /\ d.have = run[p].have
        /\ d.existing = run[p].existing /\ d.result = result /\ d.calm /\ ~d.dry
    BY <1>1, <2>2 DEF Run
  <2>4. /\ Done(p, result) \in Run
        /\ Done(p, result).pc = "idle" /\ Done(p, result).op = run[p].op
        /\ Done(p, result).have = run[p].have /\ Done(p, result).existing = run[p].existing
        /\ Done(p, result).result = result /\ Done(p, result).calm /\ ~Done(p, result).dry
    BY ONLY <2>1, <2>3 DEF d
  <2>5. InPlace(Done(p, result))
    BY <2>4 DEF InPlace
  <2> QED BY <1>2, <2>4, <2>5
<1>3. CASE ~(run[p].calm /\ ~run[p].dry)
  <2>1. Done(p, result) = NoRun
    BY <1>3 DEF Done
  <2> QED BY <1>3, <2>1, NoRunInPlace DEF NoRun
<1> QED BY <1>2, <1>3

-----------------------------------------------------------------------------
(***************************************************************************)
(* The windows of the session: how up and the user change them.            *)
(***************************************************************************)

\* A session has a window, and tmux never gives an id twice.
SessionOK ==
    /\ opened \in Nat
    /\ session # None =>
          /\ session \in Seq(Window) /\ session # <<>>
          /\ Len(session) <= opened
          /\ \A i \in DOMAIN session : session[i].id \in 1 .. opened
          /\ \A i, j \in DOMAIN session : session[i].id = session[j].id => i = j

\* What each window of a session is.
LEMMA WindowIs ==
    ASSUME SessionOK, session # None, NEW i \in DOMAIN session
    PROVE  session[i] \in Window /\ session[i].panes \in Seq(Pane)
<1> DEFINE s == session
<1>1. s \in Seq(Window) /\ i \in DOMAIN s
  BY DEF SessionOK
<1> HIDE DEF s
<1>2. s[i] \in Window
  BY ONLY <1>1
<1> QED BY <1>2 DEF Window, s

\* Where the element appended is.
LEMMA AppendedLast ==
    ASSUME NEW S, NEW s \in Seq(S), NEW x
    PROVE  /\ Len(Append(s, x)) = Len(s) + 1
           /\ Len(Append(s, x)) \in DOMAIN Append(s, x)
OBVIOUS

\* A window stays what it is, with its panes where they are and perhaps more.
Keeps(v, w) ==
    /\ w.id = v.id /\ w.name = v.name /\ w.ours = v.ours
    /\ \A k \in DOMAIN v.panes : k \in DOMAIN w.panes /\ w.panes[k].dir = v.panes[k].dir

\* Every window is an older one, or has got an id of its own.
SessionGoesOn ==
    /\ opened <= opened'
    /\ session' # None =>
          \A i \in DOMAIN session' :
             \/ session'[i].id > opened
             \/ session # None /\ \E j \in DOMAIN session : Keeps(session[j], session'[i])

\* Only the i-th window changes.
OnlyAt(i, w) ==
    /\ session' # None /\ DOMAIN session' = DOMAIN session
    /\ session'[i] = w
    /\ \A j \in DOMAIN session \ {i} : session'[j] = session[j]

\* Nothing happens to the windows.
LEMMA SessionStays ==
    ASSUME SessionOK, UNCHANGED <<session, opened>>
    PROVE  SessionOK' /\ SessionGoesOn
BY DEF SessionOK, SessionGoesOn, Keeps

\* The session is closed (tmux kill-session).
LEMMA SessionEnds ==
    ASSUME SessionOK, session' = None, opened' = opened
    PROVE  SessionOK' /\ SessionGoesOn
BY DEF SessionOK, SessionGoesOn

\* A window is opened, the first one with a new session.
LEMMA WindowOpens ==
    ASSUME SessionOK, NEW w \in Window, w.id = opened + 1, opened' = opened + 1,
           session' = Append(IF session = None THEN <<>> ELSE session, w)
    PROVE  /\ SessionOK' /\ SessionGoesOn
           /\ \A i \in DOMAIN session' :
                 \/ session'[i] = w
                 \/ session # None /\ i \in DOMAIN session /\ session'[i] = session[i]
           /\ session'[Len(session')] = w
           /\ \A i \in DOMAIN session' : session'[i].id = opened + 1 => i = Len(session')
<1> DEFINE old == IF session = None THEN <<>> ELSE session
<1>1. /\ old \in Seq(Window) /\ Len(old) <= opened /\ opened \in Nat
      /\ \A i \in DOMAIN old : old[i].id \in 1 .. opened
      /\ \A i, j \in DOMAIN old : old[i].id = old[j].id => i = j
      /\ \A i \in DOMAIN old : session # None /\ i \in DOMAIN session /\ old[i] = session[i]
  BY DEF SessionOK
<1>2. session' = Append(old, w)
  OBVIOUS
<1> HIDE DEF old
<1>3. /\ session' \in Seq(Window) /\ Len(session') = Len(old) + 1 /\ session' # <<>>
      /\ DOMAIN session' = 1 .. Len(old) + 1 /\ session'[Len(old) + 1] = w
      /\ DOMAIN old = 1 .. Len(old) /\ Len(old) \in Nat
      /\ \A i \in 1 .. Len(old) : session'[i] = old[i]
  <2>1. old \in Seq(Window) /\ w \in Window /\ session' = Append(old, w)
    BY <1>1, <1>2
  <2>2. /\ session' \in Seq(Window) /\ Len(session') = Len(old) + 1
        /\ DOMAIN session' = 1 .. Len(old) + 1 /\ session'[Len(old) + 1] = w
        /\ DOMAIN old = 1 .. Len(old) /\ Len(old) \in Nat
    BY ONLY <2>1
  <2>3. \A i \in 1 .. Len(old) : session'[i] = old[i]
    BY ONLY <2>1, <2>2
  <2>4. session' # <<>>
    BY ONLY <2>2
  <2> QED BY ONLY <2>2, <2>3, <2>4
<1>4. \A i \in DOMAIN session' : i \in DOMAIN old \/ i = Len(old) + 1
  BY <1>3
<1>5. SessionOK'
  <2>1. Len(session') <= opened' /\ opened' \in Nat
    BY <1>1, <1>3
  <2>2. \A i \in DOMAIN session' : session'[i].id \in 1 .. opened'
    BY <1>1, <1>3, <1>4
  <2>3. \A i, j \in DOMAIN session' : session'[i].id = session'[j].id => i = j
    BY <1>1, <1>3, <1>4
  <2> QED BY <1>3, <2>1, <2>2, <2>3 DEF SessionOK
<1>6. \A i \in DOMAIN old : Keeps(old[i], session'[i])
  BY <1>3 DEF Keeps
<1>7. SessionGoesOn
  BY <1>1, <1>3, <1>4, <1>6 DEF SessionGoesOn
<1> QED BY <1>1, <1>3, <1>4, <1>5, <1>7

\* A window gets other panes that are where the old ones were (split-window,
\* send-keys).
LEMMA WindowChanges ==
    ASSUME SessionOK, session # None, opened' = opened, NEW i \in DOMAIN session,
           NEW panes \in Seq(Pane) \ {<<>>},
           \A k \in DOMAIN session[i].panes :
              k \in DOMAIN panes /\ panes[k].dir = session[i].panes[k].dir,
           session' = [session EXCEPT ![i].panes = panes]
    PROVE  /\ SessionOK' /\ SessionGoesOn
           /\ OnlyAt(i, [session[i] EXCEPT !.panes = panes])
           /\ Keeps(session[i], session'[i]) /\ session'[i].panes = panes
<1> DEFINE w == [session[i] EXCEPT !.panes = panes]
<1>1. session[i] \in Window /\ session \in Seq(Window) /\ DOMAIN session = 1 .. Len(session)
  BY DEF SessionOK
<1>2. /\ w \in Window /\ w.id = session[i].id /\ w.name = session[i].name
      /\ w.ours = session[i].ours /\ w.panes = panes
  BY <1>1 DEF Window
<1>3. session' = [session EXCEPT ![i] = w]
  OBVIOUS
<1> HIDE DEF w
<1>4. /\ session' \in Seq(Window) /\ Len(session') = Len(session)
      /\ DOMAIN session' = DOMAIN session /\ session'[i] = w
      /\ \A j \in DOMAIN session \ {i} : session'[j] = session[j]
  BY <1>1, <1>2, <1>3, SMTT(30)
<1>5. Keeps(session[i], session'[i]) /\ session'[i].panes = panes
  BY <1>2, <1>4 DEF Keeps
<1>6. \A j \in DOMAIN session : Keeps(session[j], session'[j]) /\ session'[j].id = session[j].id
  BY <1>4, <1>5 DEF Keeps
<1>7. SessionOK'
  <2>1. session' # <<>>
    BY <1>1, <1>4
  <2> QED BY <1>4, <1>6, <2>1 DEF SessionOK
<1>8. SessionGoesOn
  <2>1. opened <= opened'
    BY DEF SessionOK
  <2> QED BY <1>4, <1>6, <2>1 DEF SessionGoesOn
<1>9. session' # None
  BY <1>4, NoSessionAssumption
<1> QED BY <1>4, <1>5, <1>7, <1>8, <1>9 DEF w, OnlyAt

\* A command is typed into a pane, which stays where it is.
Typed(pane, d) == [dir |-> pane.dir, typed |-> d]
TypesInto(i, k, d) ==
    session' = [session EXCEPT ![i].panes =
                   [session[i].panes EXCEPT ![k] = [session[i].panes[k] EXCEPT !.typed = d]]]
TypedInto(i, k, d) ==
    /\ SessionOK' /\ SessionGoesOn
    /\ session' # None /\ DOMAIN session' = DOMAIN session
    /\ \A j \in DOMAIN session \ {i} : session'[j] = session[j]
    /\ Keeps(session[i], session'[i])
    /\ session'[i].panes = [session[i].panes EXCEPT ![k] = Typed(session[i].panes[k], d)]

LEMMA PaneTyped ==
    ASSUME SessionOK, session # None, opened' = opened, NEW i \in DOMAIN session,
           NEW k \in DOMAIN session[i].panes, NEW d \in Dirs, TypesInto(i, k, d)
    PROVE  TypedInto(i, k, d)
<1> SUFFICES /\ SessionOK' /\ SessionGoesOn
             /\ session' # None /\ DOMAIN session' = DOMAIN session
             /\ \A j \in DOMAIN session \ {i} : session'[j] = session[j]
             /\ Keeps(session[i], session'[i])
             /\ session'[i].panes
                  = [session[i].panes EXCEPT ![k] = Typed(session[i].panes[k], d)]
  BY DEF TypedInto
<1> DEFINE old == session[i].panes
           panes == [old EXCEPT ![k] = Typed(old[k], d)]
<1>1. session[i] \in Window
  BY DEF SessionOK
<1>2. old \in Seq(Pane) /\ old # <<>> /\ k \in DOMAIN old /\ k \in 1 .. Len(old)
  BY <1>1 DEF Window
<1>3. old[k] \in Pane
  BY <1>2
<1>4. [old[k] EXCEPT !.typed = d] = Typed(old[k], d) /\ Typed(old[k], d) \in Pane
  BY <1>3 DEF Pane, Typed
<1>5. session' = [session EXCEPT ![i].panes = [old EXCEPT ![k] = [old[k] EXCEPT !.typed = d]]]
  BY DEF TypesInto
<1>6. session' = [session EXCEPT ![i].panes = panes]
  BY <1>4, <1>5
<1> HIDE DEF old
<1>7. panes \in Seq(Pane) /\ DOMAIN panes = DOMAIN old
  BY <1>2, <1>4
<1>8. \A m \in DOMAIN old : panes[m].dir = old[m].dir
  BY <1>2, <1>4 DEF Typed
<1>9. panes # <<>>
  BY <1>2, <1>7
<1>10. /\ panes \in Seq(Pane) \ {<<>>}
       /\ \A m \in DOMAIN session[i].panes :
             m \in DOMAIN panes /\ panes[m].dir = session[i].panes[m].dir
  BY <1>7, <1>8, <1>9 DEF old
<1>11. panes = [session[i].panes EXCEPT ![k] = Typed(session[i].panes[k], d)]
  BY DEF old
<1> HIDE DEF panes
<1>12. /\ SessionOK' /\ SessionGoesOn
       /\ OnlyAt(i, [session[i] EXCEPT !.panes = panes])
       /\ Keeps(session[i], session'[i]) /\ session'[i].panes = panes
  BY <1>6, <1>10, WindowChanges
<1> QED BY <1>11, <1>12 DEF OnlyAt

\* A window is split.
LEMMA PaneOpens ==
    ASSUME SessionOK, session # None, opened' = opened, NEW i \in DOMAIN session,
           NEW d \in Dirs,
           session' = [session EXCEPT ![i].panes = Append(session[i].panes, NewPane(d))]
    PROVE  /\ SessionOK' /\ SessionGoesOn
           /\ session' # None /\ DOMAIN session' = DOMAIN session
           /\ \A j \in DOMAIN session \ {i} : session'[j] = session[j]
           /\ Keeps(session[i], session'[i])
           /\ session'[i].panes = Append(session[i].panes, NewPane(d))
<1> DEFINE old == session[i].panes
           panes == Append(old, NewPane(d))
<1>1. session[i] \in Window
  BY DEF SessionOK
<1>2. old \in Seq(Pane)
  BY <1>1 DEF Window
<1>3. NewPane(d) \in Pane
  BY DEF NewPane, Pane
<1> HIDE DEF old
<1>4. panes \in Seq(Pane) /\ panes # <<>> /\ \A k \in DOMAIN old : k \in DOMAIN panes /\ panes[k] = old[k]
  BY <1>2, <1>3
<1>5. session' = [session EXCEPT ![i].panes = panes]
  BY DEF old
<1>10. /\ panes \in Seq(Pane) \ {<<>>}
       /\ \A m \in DOMAIN session[i].panes :
             m \in DOMAIN panes /\ panes[m].dir = session[i].panes[m].dir
  BY <1>4 DEF old
<1>11. panes = Append(session[i].panes, NewPane(d))
  BY DEF old
<1> HIDE DEF panes
<1>12. /\ SessionOK' /\ SessionGoesOn
       /\ OnlyAt(i, [session[i] EXCEPT !.panes = panes])
       /\ Keeps(session[i], session'[i]) /\ session'[i].panes = panes
  BY <1>5, <1>10, WindowChanges
<1> QED BY <1>11, <1>12 DEF OnlyAt

\* The user closes a window.
LEMMA WindowCloses ==
    ASSUME SessionOK, session # None, NEW i \in DOMAIN session, opened' = opened,
           session' = IF Len(session) = 1 THEN None
                      ELSE [j \in 1 .. Len(session) - 1 |-> session[IF j < i THEN j ELSE j + 1]]
    PROVE  /\ SessionOK' /\ SessionGoesOn
           /\ session' # None => \A j \in DOMAIN session' :
                                    \E k \in DOMAIN session : session'[j] = session[k]
<1>1. CASE Len(session) = 1
  BY <1>1, SessionEnds
<1>2. CASE Len(session) # 1
  <2> DEFINE n == Len(session) - 1
             at(j) == IF j < i THEN j ELSE j + 1
  <2>1. /\ session \in Seq(Window) /\ DOMAIN session = 1 .. Len(session)
        /\ Len(session) \in Nat /\ session # <<>>
        /\ \A j \in DOMAIN session : session[j] \in Window
    BY DEF SessionOK
  <2>2. n \in Nat \ {0} /\ n <= Len(session)
    BY <1>2, <2>1
  <2>3. \A j \in 1 .. n : at(j) \in DOMAIN session
    BY <2>1
  <2>4. \A j, k \in 1 .. n : at(j) = at(k) => j = k
    BY <2>1
  <2>5. session' = [j \in 1 .. n |-> session[at(j)]]
    BY <1>2
  <2> HIDE DEF at, n
  <2>6. session' \in [1 .. n -> Window]
    BY <2>1, <2>3, <2>5
  <2>7. /\ session' \in Seq(Window) /\ Len(session') = n /\ session' # <<>>
        /\ DOMAIN session' = 1 .. n
    <3>1. session' \in Seq(Window)
      BY <2>2, <2>6, SeqDef
    <3>2. DOMAIN session' = 1 .. n
      BY <2>6
    <3>3. Len(session') = n
      BY <2>2, <3>1, <3>2, LenProperties
    <3>4. session' # <<>>
      BY <2>2, <3>1, <3>3, EmptySeq
    <3> QED BY <3>1, <3>2, <3>3, <3>4
  <2>8. \A j \in DOMAIN session' : session'[j] = session[at(j)] /\ at(j) \in DOMAIN session
    BY <2>3, <2>5, <2>7
  <2>9. SessionOK'
    <3>1. Len(session') <= opened' /\ opened' \in Nat
      <4>1. Len(session) <= opened /\ opened \in Nat
        BY DEF SessionOK
      <4> QED BY ONLY <2>1, <2>2, <2>7, <4>1, opened' = opened
    <3>2. \A j, k \in DOMAIN session' : session'[j].id = session'[k].id => j = k
      <4>1. \A j, k \in DOMAIN session : session[j].id = session[k].id => j = k
        BY DEF SessionOK
      <4> SUFFICES ASSUME NEW j \in DOMAIN session', NEW k \in DOMAIN session',
                          session'[j].id = session'[k].id
                   PROVE  j = k
        OBVIOUS
      <4>2. j \in 1 .. n /\ k \in 1 .. n
        BY ONLY <2>7
      <4>3. /\ session'[j] = session[at(j)] /\ at(j) \in DOMAIN session
            /\ session'[k] = session[at(k)] /\ at(k) \in DOMAIN session
        BY ONLY <2>8
      <4>4. session[at(j)].id = session[at(k)].id
        BY <4>3
      <4>5. at(j) = at(k)
        BY ONLY <4>1, <4>3, <4>4
      <4> QED BY ONLY <2>4, <4>2, <4>5
    <3> QED BY <2>7, <2>8, <3>1, <3>2, SMTT(30) DEF SessionOK
  <2>10. SessionGoesOn
    BY <2>8 DEF SessionGoesOn, SessionOK, Keeps
  <2> QED BY <2>8, <2>9, <2>10
<1> QED BY <1>1, <1>2

\* What a run sees of the windows: one it addresses by its name has the name or
\* one that starts with it, unless the name is a number; one it addresses by its
\* id is the one of that id.
LEMMA WindowFound ==
    ASSUME SessionOK
    PROVE  /\ \A name : \A i \in Targets(name) :
                 /\ session # None /\ i \in DOMAIN session
                 /\ NoNumbers => session[i].name \in {name} \cup StartsOf[name]
           /\ \A id : Alive(id) =>
                 /\ session # None /\ Place(id) \in DOMAIN session
                 /\ session[Place(id)].id = id
                 /\ \A i \in DOMAIN session : session[i].id = id => i = Place(id)
<1>1. ASSUME NEW name, NEW i \in Targets(name)
      PROVE  /\ session # None /\ i \in DOMAIN session
             /\ NoNumbers => session[i].name \in {name} \cup StartsOf[name]
  <2>1. /\ session # None /\ i \in DOMAIN session
        /\ Matching(name) = {i} \/ name \in Numbers
    BY <1>1 DEF Targets
  <2>2. ASSUME NoNumbers PROVE i \in Called({name}) \/ i \in Called(StartsOf[name])
    <3>1. i \in Matching(name)
      BY <2>1, <2>2 DEF NoNumbers
    <3> QED BY <3>1 DEF Matching
  <2> QED BY <2>1, <2>2 DEF Called
<1>2. ASSUME NEW id, Alive(id)
      PROVE  /\ session # None /\ Place(id) \in DOMAIN session
             /\ session[Place(id)].id = id
             /\ \A i \in DOMAIN session : session[i].id = id => i = Place(id)
  <2>1. session # None /\ \E i \in DOMAIN session : session[i].id = id
    BY <1>2 DEF Alive
  <2>2. Place(id) \in DOMAIN session /\ session[Place(id)].id = id
    BY <2>1 DEF Place
  <2> QED BY <2>1, <2>2 DEF SessionOK
<1> QED BY <1>1, <1>2

-----------------------------------------------------------------------------
(***************************************************************************)
(* Every step of up and down leaves the runs and the session well formed.  *)
(***************************************************************************)

\* What the spec says of a window and its panes is of its form (ParseWorkspace).
LEMMA Declared ==
    /\ Len(Worktrees) \in Nat /\ DOMAIN Worktrees = 1 .. Len(Worktrees)
    /\ \A j \in 1 .. Len(Worktrees) : Worktrees[j] \in Trees
    /\ Len(Windows) \in Nat /\ DOMAIN Windows = 1 .. Len(Windows)
    /\ \A j \in 1 .. Len(Windows) :
          /\ Windows[j].name \in Names /\ Windows[j].dir \in Dirs
          /\ Windows[j].run \in BOOLEAN
          /\ Windows[j].panes \in Seq(PaneForm)
          /\ Len(Windows[j].panes) \in Nat
          /\ Windows[j].panes # <<>> => Len(Windows[j].panes) >= 1
          /\ \A k \in 1 .. Len(Windows[j].panes) :
                Windows[j].panes[k].dir \in Dirs /\ Windows[j].panes[k].run \in BOOLEAN
<1>1. /\ Len(Worktrees) \in Nat /\ DOMAIN Worktrees = 1 .. Len(Worktrees)
      /\ \A j \in 1 .. Len(Worktrees) : Worktrees[j] \in Trees
  BY WorktreesAssumption
<1>2. /\ Len(Windows) \in Nat /\ DOMAIN Windows = 1 .. Len(Windows)
      /\ \A j \in 1 .. Len(Windows) : Windows[j] \in WindowForm
  BY WindowsAssumption
<1>3. ASSUME NEW j \in 1 .. Len(Windows)
      PROVE  /\ Windows[j].name \in Names /\ Windows[j].dir \in Dirs
             /\ Windows[j].run \in BOOLEAN
             /\ Windows[j].panes \in Seq(PaneForm)
             /\ Len(Windows[j].panes) \in Nat
             /\ Windows[j].panes # <<>> => Len(Windows[j].panes) >= 1
             /\ \A k \in 1 .. Len(Windows[j].panes) :
                   Windows[j].panes[k].dir \in Dirs /\ Windows[j].panes[k].run \in BOOLEAN
  <2>1. /\ Windows[j].name \in Names /\ Windows[j].dir \in Trees \cup {Main}
        /\ Windows[j].run \in BOOLEAN /\ Windows[j].panes \in Seq(PaneForm)
    BY <1>2 DEF WindowForm
  <2>2. \A k \in 1 .. Len(Windows[j].panes) : Windows[j].panes[k] \in PaneForm
    BY <2>1
  <2>3. /\ Len(Windows[j].panes) \in Nat
        /\ Windows[j].panes # <<>> => Len(Windows[j].panes) >= 1
    BY <2>1, EmptySeq, LenProperties
  <2> QED BY <2>1, <2>2, <2>3 DEF PaneForm, Dirs
<1> QED BY <1>1, <1>2, <1>3

\* The next step of a run, as its record says.
LEMMA ToIs ==
    ASSUME RunOK, NEW p \in Terminals, NEW pc \in RunPcs
    PROVE  /\ To(p, pc) \in Run /\ To(p, pc).pc = pc
           /\ To(p, pc).op = run[p].op /\ To(p, pc).dry = run[p].dry
           /\ To(p, pc).have = run[p].have /\ To(p, pc).existing = run[p].existing
           /\ To(p, pc).running = run[p].running /\ To(p, pc).reuse = run[p].reuse
           /\ To(p, pc).i = run[p].i /\ To(p, pc).k = run[p].k
           /\ To(p, pc).at = run[p].at /\ To(p, pc).errs = run[p].errs
           /\ To(p, pc).calm = run[p].calm /\ To(p, pc).result = run[p].result
BY DEF RunOK, To, Run

\* A run at another place in the spec is otherwise as it was.
LEMMA PlaceIs ==
    ASSUME NEW u \in Run, NEW j \in Nat
    PROVE  LET n == [u EXCEPT !.i = j]
           IN  /\ n \in Run /\ n.i = j /\ n.pc = u.pc /\ n.op = u.op /\ n.dry = u.dry
               /\ n.have = u.have /\ n.existing = u.existing /\ n.calm = u.calm
               /\ n.running = u.running /\ n.result = u.result
BY DEF Run

\* What a step of p leaves of the windows and of the other runs: all of it, or
\* it disturbs them.
Quiet(p) ==
    UNCHANGED <<session, opened>> /\ \A q \in Terminals \ {p} : run'[q] = run[q]
Loud(p) == \A q \in Terminals \ {p} : run'[q] = Disturb(run[q])

\* p goes on with what it is about, at another step.
GoesTo(p, pc) ==
    /\ run'[p].pc = pc /\ run'[p].op = run[p].op /\ run'[p].dry = run[p].dry
    /\ run'[p].have = run[p].have /\ run'[p].existing = run[p].existing
    /\ run'[p].calm = run[p].calm /\ run'[p].i = run[p].i

GoesOn(p, pc) ==
    /\ run'[p].pc = pc /\ run'[p].op = run[p].op /\ run'[p].dry = run[p].dry
    /\ run'[p].calm = run[p].calm /\ run'[p].existing = run[p].existing

StartedWindow(w) ==
    [id |-> opened + 1, name |-> w.name, ours |-> TRUE, panes |-> <<NewPane(StartDir(w.dir))>>]

\* A shell starts in the directory of the spec, or at home.
LEMMA StartDirIs ==
    ASSUME NEW d \in Dirs
    PROVE  StartDir(d) \in Dirs /\ StartDir(d) \in {d, Home}
BY DEF StartDir, Dirs

\* A step that changes nothing of the windows and of no other run.
LEMMA QuietMove ==
    ASSUME RunOK, NEW p \in Terminals, NEW r, Moves(p, r), UNCHANGED <<session, opened>>
    PROVE  Quiet(p)
BY DEF Quiet, Moves, RunOK

\* A step that asks only, or is only printed: p moves, and nothing else.
LEMMA Asking ==
    ASSUME RunOK, NEW p \in Terminals, NEW r \in Run, InPlace(r), Moves(p, r),
           UNCHANGED <<session, opened>>
    PROVE  RunOK' /\ Quiet(p) /\ run'[p] = r
BY RunTakesStep, QuietMove

\* A step that disturbs the other runs.
LEMMA Disturbing ==
    ASSUME RunOK, NEW p \in Terminals, NEW r \in Run, InPlace(r), Becomes(p, r)
    PROVE  RunOK' /\ Loud(p) /\ run'[p] = r
<1>1. RunOK' /\ run'[p] = r
  BY RunTakesStep
<1> QED BY <1>1 DEF Loud, Becomes, Disturbed, Disturb, RunOK

\* The steps of worktreesOf (List).
LEMMA ListSteps ==
    ASSUME RunOK, listed \subseteq Trees, NEW p \in Terminals, List(p)
    PROVE  /\ RunOK' /\ Quiet(p) /\ UNCHANGED <<main, listed, disk, branches>>
           /\ run[p].pc = "list"
           /\ \/ ~main.git /\ run'[p] = Done(p, "failed")
              \/ /\ main.git /\ GoesOn(p, IF run[p].op = "up" THEN "tree" ELSE "prune")
                 /\ run'[p].have = listed /\ run'[p].i = 1 /\ run'[p].errs = run[p].errs
<1> DEFINE r == run[p]
<1>1. /\ r \in Run /\ InPlace(r) /\ r.pc = "list" /\ r.op \in {"up", "prune"}
      /\ r.result = "none"
  BY DEF RunOK, List, At, InPlace
<1>2. UNCHANGED <<main, listed, disk, branches, session, opened>>
  BY DEF List, repoVars
<1>3. CASE main.git
  <2> DEFINE pc == IF r.op = "up" THEN "tree" ELSE "prune"
             n == [To(p, pc) EXCEPT !.have = listed, !.i = 1]
  <2>1. Moves(p, n)
    BY <1>3 DEF List
  <2>2. pc \in {"tree", "prune"} /\ (pc = "tree" => r.op = "up") /\ (pc = "prune" => r.op = "prune")
    BY <1>1
  <2>3. /\ n \in Run /\ n.pc = pc /\ n.op = r.op /\ n.dry = r.dry /\ n.calm = r.calm
        /\ n.existing = r.existing /\ n.have = listed /\ n.i = 1 /\ n.errs = r.errs
        /\ n.result = "none"
    <3> DEFINE t == To(p, pc)
    <3>1. /\ t \in Run /\ t.pc = pc /\ t.op = r.op /\ t.dry = r.dry /\ t.calm = r.calm
          /\ t.existing = r.existing /\ t.errs = r.errs /\ t.result = "none"
      BY <1>1, <2>2, ToIs DEF RunPcs
    <3>2. n = [t EXCEPT !.have = listed, !.i = 1]
      OBVIOUS
    <3> HIDE DEF t, pc, n
    <3> QED BY <3>1, <3>2 DEF Run
  <2>4. InPlace(n)
    <3> HIDE DEF pc, n
    <3> QED BY <1>1, <2>2, <2>3, Declared DEF InPlace
  <2> HIDE DEF n
  <2> QED BY <1>1, <1>2, <1>3, <2>1, <2>3, <2>4, Asking DEF GoesOn
<1>4. CASE ~main.git
  <2>1. Moves(p, Done(p, "failed"))
    BY <1>4 DEF List
  <2> QED BY <1>1, <1>2, <1>4, <2>1, DoneInPlace, Asking
<1> QED BY <1>3, <1>4

\* The steps of Up over the worktrees (Tree).
LEMMA TreeSteps ==
    ASSUME RunOK, NEW p \in Terminals, Tree(p)
    PROVE  /\ RunOK' /\ Quiet(p) /\ UNCHANGED <<main, listed, disk, branches>>
           /\ run[p].pc = "tree" /\ run[p].op = "up"
           /\ \/ run[p].i = Len(Worktrees) + 1 /\ run'[p] = To(p, "has")
              \/ /\ run[p].i \in 1 .. Len(Worktrees)
                 /\ LET t == Worktrees[run[p].i]
                    IN  \/ /\ t \in run[p].have /\ GoesOn(p, "tree")
                           /\ run'[p].have = run[p].have /\ run'[p].i = run[p].i + 1
                        \/ /\ t \notin run[p].have /\ disk[t] # "absent"
                           /\ run'[p] = Done(p, "failed")
                        \/ /\ t \notin run[p].have /\ disk[t] = "absent" /\ GoesTo(p, "add")
                           /\ run'[p].reuse = (BranchOf[t] \in branches)
<1> DEFINE r == run[p]
           t == Worktrees[r.i]
<1>1. /\ r \in Run /\ InPlace(r) /\ r.pc = "tree" /\ r.op = "up" /\ r.result = "none"
      /\ r.i \in 1 .. Len(Worktrees) + 1
  BY DEF RunOK, Tree, At, InPlace
<1>2. UNCHANGED <<main, listed, disk, branches, session, opened>>
  BY DEF Tree, repoVars
<1>3. CASE r.i > Len(Worktrees)
  <2>1. Moves(p, To(p, "has"))
    BY <1>3 DEF Tree
  <2>2. To(p, "has") \in Run /\ InPlace(To(p, "has"))
    BY <1>1, ToIs DEF InPlace, RunPcs
  <2> QED BY <1>1, <1>2, <1>3, <2>1, <2>2, Declared, Asking
<1>4. CASE r.i \in 1 .. Len(Worktrees) /\ t \in r.have
  <2> DEFINE n == [r EXCEPT !.i = @ + 1]
  <2>1. Moves(p, n)
    BY <1>4, Declared DEF Tree
  <2>2. /\ n \in Run /\ n.pc = "tree" /\ n.op = "up" /\ n.result = "none" /\ n.i = r.i + 1
        /\ n.dry = r.dry /\ n.calm = r.calm /\ n.existing = r.existing /\ n.have = r.have
    <3>1. r.i + 1 \in Nat /\ n = [r EXCEPT !.i = r.i + 1]
      BY <1>1
    <3> HIDE DEF n
    <3> QED BY <1>1, <3>1, PlaceIs
  <2> HIDE DEF n
  <2>3. InPlace(n)
    BY <1>4, <2>2, Declared DEF InPlace
  <2> QED BY <1>1, <1>2, <1>4, <2>1, <2>2, <2>3, Asking DEF GoesOn
<1>5. CASE r.i \in 1 .. Len(Worktrees) /\ t \notin r.have /\ disk[t] # "absent"
  <2>1. Moves(p, Done(p, "failed"))
    BY <1>5, Declared DEF Tree
  <2> QED BY <1>1, <1>2, <1>5, <2>1, DoneInPlace, Asking
<1>6. CASE r.i \in 1 .. Len(Worktrees) /\ t \notin r.have /\ disk[t] = "absent"
  <2> DEFINE b == BranchOf[t] \in branches
             n == [To(p, "add") EXCEPT !.reuse = b]
  <2>1. Moves(p, n)
    BY <1>6, Declared DEF Tree
  <2>2. b \in BOOLEAN
    OBVIOUS
  <2>3. /\ n \in Run /\ n.pc = "add" /\ n.op = "up" /\ n.result = "none" /\ n.i = r.i
        /\ n.dry = r.dry /\ n.calm = r.calm /\ n.existing = r.existing /\ n.have = r.have
        /\ n.reuse = b
    <3> DEFINE u == To(p, "add")
    <3>1. /\ u \in Run /\ u.pc = "add" /\ u.op = "up" /\ u.result = "none" /\ u.i = r.i
          /\ u.dry = r.dry /\ u.calm = r.calm /\ u.existing = r.existing /\ u.have = r.have
      BY <1>1, ToIs DEF RunPcs
    <3>2. n = [u EXCEPT !.reuse = b]
      OBVIOUS
    <3> HIDE DEF u, b, n
    <3> QED BY <2>2, <3>1, <3>2 DEF Run
  <2> HIDE DEF n
  <2>4. InPlace(n)
    BY <1>6, <2>3, Declared DEF InPlace
  <2>5. RunOK' /\ Quiet(p) /\ run'[p] = n
    BY <1>2, <2>1, <2>3, <2>4, Asking
  <2>6. GoesTo(p, "add") /\ run'[p].reuse = (BranchOf[t] \in branches)
    BY <1>1, <2>3, <2>5 DEF GoesTo
  <2> QED BY <1>1, <1>2, <1>6, <2>5, <2>6
<1> QED BY <1>1, <1>3, <1>4, <1>5, <1>6, Declared

\* The steps of git worktree add.
LEMMA AddTreeSteps ==
    ASSUME RunOK, NEW p \in Terminals, AddTree(p)
    PROVE  /\ RunOK' /\ UNCHANGED <<main, session, opened>>
           /\ run[p].pc = "add" /\ run[p].op = "up" /\ run[p].i \in 1 .. Len(Worktrees)
           /\ LET t == Worktrees[run[p].i]
              IN  \/ /\ Quiet(p) /\ ~run[p].dry /\ ~CanAdd(t, run[p].reuse)
                     /\ run'[p] = Done(p, "failed") /\ UNCHANGED <<listed, disk, branches>>
                  \/ /\ GoesOn(p, "tree") /\ run'[p].have = run[p].have
                     /\ run'[p].i = run[p].i + 1
                     /\ \/ Quiet(p) /\ run[p].dry /\ UNCHANGED <<listed, disk, branches>>
                        \/ /\ Loud(p) /\ ~run[p].dry /\ CanAdd(t, run[p].reuse)
                           /\ listed' = listed \cup {t}
                           /\ disk' = [disk EXCEPT ![t] = "clean"]
                           /\ branches' = branches \cup {BranchOf[t]}
<1> DEFINE r == run[p]
           t == Worktrees[r.i]
           n == [To(p, "tree") EXCEPT !.i = @ + 1]
<1>1. /\ r \in Run /\ InPlace(r) /\ r.pc = "add" /\ r.op = "up" /\ r.result = "none"
      /\ r.i \in 1 .. Len(Worktrees)
  BY DEF RunOK, AddTree, At, InPlace
<1>2. UNCHANGED <<main, session, opened>>
  BY DEF AddTree, repoVars
<1>3. /\ n \in Run /\ n.pc = "tree" /\ n.op = "up" /\ n.result = "none" /\ n.i = r.i + 1
      /\ n.dry = r.dry /\ n.calm = r.calm /\ n.existing = r.existing /\ n.have = r.have
  <2> DEFINE u == To(p, "tree")
  <2>1. /\ u \in Run /\ u.pc = "tree" /\ u.op = "up" /\ u.result = "none" /\ u.i = r.i
        /\ u.dry = r.dry /\ u.calm = r.calm /\ u.existing = r.existing /\ u.have = r.have
    BY <1>1, ToIs DEF RunPcs
  <2>2. n = [u EXCEPT !.i = u.i + 1]
    OBVIOUS
  <2> HIDE DEF u, n
  <2>3. u.i + 1 \in Nat
    BY <1>1, <2>1
  <2> QED BY <2>1, <2>2, <2>3, PlaceIs
<1>4. InPlace(n)
  <2> HIDE DEF n
  <2> QED BY <1>1, <1>3, Declared DEF InPlace
<1>5. CASE r.dry
  <2>1. Moves(p, n) /\ UNCHANGED <<listed, disk, branches>>
    BY <1>5 DEF AddTree
  <2> HIDE DEF n
  <2> QED BY <1>1, <1>2, <1>3, <1>4, <1>5, <2>1, Asking DEF GoesOn
<1>6. CASE ~r.dry /\ ~CanAdd(t, r.reuse)
  <2>1. Moves(p, Done(p, "failed")) /\ UNCHANGED <<listed, disk, branches>>
    BY <1>6 DEF AddTree
  <2> QED BY <1>1, <1>2, <1>6, <2>1, DoneInPlace, Asking
<1>7. CASE ~r.dry /\ CanAdd(t, r.reuse)
  <2>1. /\ Becomes(p, n) /\ listed' = listed \cup {t}
        /\ disk' = [disk EXCEPT ![t] = "clean"] /\ branches' = branches \cup {BranchOf[t]}
    BY <1>7 DEF AddTree
  <2> HIDE DEF n
  <2>2. RunOK' /\ Loud(p) /\ run'[p] = n
    BY <1>3, <1>4, <2>1, Disturbing
  <2>3. GoesOn(p, "tree") /\ run'[p].have = r.have /\ run'[p].i = r.i + 1
    BY <1>1, <1>3, <2>2 DEF GoesOn
  <2> QED BY <1>1, <1>2, <1>7, <2>1, <2>2, <2>3
<1> QED BY <1>5, <1>6, <1>7

\* On to the next window.
LEMMA NextInPlace ==
    ASSUME RunOK, NEW p \in Terminals, run[p].op = "up", run[p].result = "none",
           run[p].i \in 1 .. Len(Windows)
    PROVE  /\ NextWindow(p) \in Run /\ InPlace(NextWindow(p))
           /\ NextWindow(p).pc = "window" /\ NextWindow(p).i = run[p].i + 1
           /\ NextWindow(p).op = "up" /\ NextWindow(p).calm = run[p].calm
           /\ NextWindow(p).dry = run[p].dry /\ NextWindow(p).have = run[p].have
           /\ NextWindow(p).existing = run[p].existing
           /\ NextWindow(p).running = run[p].running
<1> DEFINE t == To(p, "window")
<1>1. /\ t \in Run /\ t.pc = "window" /\ t.op = "up" /\ t.result = "none" /\ t.i = run[p].i
      /\ t.calm = run[p].calm /\ t.dry = run[p].dry /\ t.have = run[p].have
      /\ t.existing = run[p].existing /\ t.running = run[p].running
  BY ToIs DEF RunPcs
<1>2. NextWindow(p) = [t EXCEPT !.i = t.i + 1]
  BY DEF NextWindow
<1> HIDE DEF t
<1>3. /\ NextWindow(p) \in Run /\ NextWindow(p).pc = "window"
      /\ NextWindow(p).i = run[p].i + 1 /\ NextWindow(p).op = "up"
      /\ NextWindow(p).result = "none" /\ NextWindow(p).calm = run[p].calm
      /\ NextWindow(p).dry = run[p].dry /\ NextWindow(p).have = run[p].have
      /\ NextWindow(p).existing = run[p].existing
      /\ NextWindow(p).running = run[p].running
  BY <1>1, <1>2, PlaceIs
<1>4. InPlace(NextWindow(p))
  BY <1>3, Declared DEF InPlace
<1> QED BY <1>3, <1>4

\* The steps of tmux has-session.
LEMMA HasSessionSteps ==
    ASSUME RunOK, NEW p \in Terminals, HasSession(p)
    PROVE  /\ RunOK' /\ Quiet(p) /\ UNCHANGED <<main, listed, disk, branches>>
           /\ run[p].pc = "has"
           /\ \/ /\ run[p].op = "up"
                 /\ GoesOn(p, IF session = None THEN "window" ELSE "windows")
                 /\ run'[p].have = run[p].have /\ run'[p].i = 1
                 /\ run'[p].running = (session # None)
              \/ run[p].op # "up" /\ session # None /\ run'[p] = To(p, "kill")
              \/ run[p].op = "prune" /\ session = None /\ run'[p] = To(p, "list")
              \/ run[p].op = "down" /\ session = None /\ run'[p] = Done(p, "ok")
<1> DEFINE r == run[p]
<1>1. /\ r \in Run /\ InPlace(r) /\ r.pc = "has" /\ r.op \in {"up", "down", "prune"}
      /\ r.result = "none"
  BY DEF RunOK, HasSession, At, InPlace, Run
<1>2. UNCHANGED <<main, listed, disk, branches, session, opened>>
  BY DEF HasSession, repoVars
<1>3. CASE r.op = "up"
  <2> DEFINE pc == IF session = None THEN "window" ELSE "windows"
             b == session # None
             n == [To(p, pc) EXCEPT !.running = b, !.i = 1]
  <2>1. Moves(p, n)
    BY <1>3 DEF HasSession
  <2>2. pc \in {"window", "windows"} /\ b \in BOOLEAN
    OBVIOUS
  <2>3. /\ n \in Run /\ n.pc = pc /\ n.op = "up" /\ n.result = "none" /\ n.i = 1
        /\ n.dry = r.dry /\ n.calm = r.calm /\ n.existing = r.existing /\ n.have = r.have
        /\ n.running = b
    <3> DEFINE u == To(p, pc)
    <3>1. /\ u \in Run /\ u.pc = pc /\ u.op = "up" /\ u.result = "none" /\ u.dry = r.dry
          /\ u.calm = r.calm /\ u.existing = r.existing /\ u.have = r.have
      BY <1>1, <1>3, <2>2, ToIs DEF RunPcs
    <3>2. n = [u EXCEPT !.running = b, !.i = 1]
      OBVIOUS
    <3> HIDE DEF u, b, pc, n
    <3> QED BY <2>2, <3>1, <3>2 DEF Run
  <2>4. InPlace(n)
    <3> HIDE DEF n, pc
    <3> QED BY <2>2, <2>3, Declared DEF InPlace
  <2> HIDE DEF n
  <2>5. RunOK' /\ Quiet(p) /\ run'[p] = n
    BY <1>2, <2>1, <2>3, <2>4, Asking
  <2>6. GoesOn(p, pc) /\ run'[p].have = r.have /\ run'[p].i = 1 /\ run'[p].running = b
    BY <1>1, <1>3, <2>3, <2>5 DEF GoesOn
  <2> QED BY <1>1, <1>2, <1>3, <2>5, <2>6
<1>4. CASE r.op # "up" /\ session # None
  <2>1. Moves(p, To(p, "kill"))
    BY <1>4 DEF HasSession
  <2>2. To(p, "kill") \in Run /\ InPlace(To(p, "kill"))
    BY <1>1, <1>4, ToIs DEF InPlace, RunPcs
  <2> QED BY <1>1, <1>2, <1>4, <2>1, <2>2, Asking
<1>5. CASE r.op = "prune" /\ session = None
  <2>1. Moves(p, To(p, "list"))
    BY <1>5 DEF HasSession
  <2>2. To(p, "list") \in Run /\ InPlace(To(p, "list"))
    BY <1>1, <1>5, ToIs DEF InPlace, RunPcs
  <2> QED BY <1>1, <1>2, <1>5, <2>1, <2>2, Asking
<1>6. CASE r.op = "down" /\ session = None
  <2>1. Moves(p, Done(p, "ok"))
    BY <1>6 DEF HasSession
  <2> QED BY <1>1, <1>2, <1>6, <2>1, DoneInPlace, Asking
<1> QED BY <1>1, <1>3, <1>4, <1>5, <1>6

\* The steps of tmux list-windows.
WordsSeen == IF session = None THEN {} ELSE Words({session[i].name : i \in DOMAIN session})
LEMMA ListWindowsSteps ==
    ASSUME RunOK, SessionOK, NEW p \in Terminals, ListWindows(p)
    PROVE  /\ RunOK' /\ Quiet(p) /\ UNCHANGED <<main, listed, disk, branches>>
           /\ run[p].pc = "windows" /\ run[p].i = 1 /\ run'[p].i = 1
           /\ run'[p].pc = "window" /\ run'[p].op = "up" /\ run[p].op = "up"
           /\ run'[p].dry = run[p].dry /\ run'[p].calm = run[p].calm
           /\ run'[p].have = run[p].have /\ run'[p].running = run[p].running
           /\ run'[p].existing = WordsSeen
<1> DEFINE r == run[p]
           n == [To(p, "window") EXCEPT !.existing = WordsSeen]
<1>1. /\ Moves(p, n) /\ InPlace(r) /\ r.pc = "windows" /\ r.op = "up" /\ r.result = "none"
      /\ r.i = 1
  BY DEF ListWindows, At, InPlace, RunOK, WordsSeen
<1>2. UNCHANGED <<main, listed, disk, branches, session, opened>>
  BY DEF ListWindows, repoVars
<1>3. WordsSeen \subseteq AllWords
  <2>1. session # None => session \in Seq(Window)
    BY DEF SessionOK
  <2>2. session # None => \A i \in DOMAIN session : session[i] \in Window
    BY ONLY <2>1
  <2>3. session # None => \A i \in DOMAIN session : session[i].name \in Names \cup Titles
    BY ONLY <2>2 DEF Window
  <2>4. session # None => \A i \in DOMAIN session : session[i].name \in DOMAIN WordsOf
    BY ONLY <2>3, WindowsAssumption
  <2> QED BY <2>4 DEF Words, AllWords, WordsSeen
<1>4. /\ n \in Run /\ n.pc = "window" /\ n.op = "up" /\ n.result = "none" /\ n.i = 1
      /\ n.dry = r.dry /\ n.calm = r.calm /\ n.have = r.have /\ n.running = r.running
      /\ n.existing = WordsSeen
  <2>1. /\ To(p, "window") \in Run /\ To(p, "window").pc = "window"
        /\ To(p, "window").op = "up" /\ To(p, "window").result = "none"
        /\ To(p, "window").i = 1 /\ To(p, "window").dry = r.dry
        /\ To(p, "window").calm = r.calm /\ To(p, "window").have = r.have
        /\ To(p, "window").running = r.running
    BY <1>1, ToIs DEF RunPcs
  <2> QED BY <1>3, <2>1 DEF Run
<1> HIDE DEF n
<1>5. InPlace(n)
  BY <1>4, Declared DEF InPlace
<1> QED BY <1>1, <1>2, <1>4, <1>5, Asking

\* The steps of firstPaneID.
LEMMA FirstPaneSteps ==
    ASSUME RunOK, SessionOK, NEW p \in Terminals, FirstPane(p)
    PROVE  /\ RunOK' /\ Quiet(p) /\ UNCHANGED <<main, listed, disk, branches>>
           /\ run[p].pc = "panes" /\ run[p].i \in 1 .. Len(Windows) /\ run[p].k = 1
           /\ \/ Misses(Win(p).name) /\ run'[p] = Done(p, "failed")
              \/ /\ GoesTo(p, "split") /\ run'[p].k = 1
                 /\ run'[p].running = run[p].running
                 /\ \E w \in Targets(Win(p).name) : run'[p].at = <<session[w].id, 1>>
<1> DEFINE r == run[p]
<1>1. /\ InPlace(r) /\ r.pc = "panes" /\ r.op = "up" /\ r.result = "none" /\ r.k = 1
      /\ r.i \in 1 .. Len(Windows)
  BY DEF RunOK, FirstPane, At, InPlace
<1>2. UNCHANGED <<main, listed, disk, branches, session, opened>>
  BY DEF FirstPane, repoVars
<1>3. ASSUME NEW w \in Targets(Win(p).name),
             Moves(p, [To(p, "split") EXCEPT !.at = <<session[w].id, 1>>])
      PROVE  /\ RunOK' /\ Quiet(p)
             /\ GoesTo(p, "split") /\ run'[p].k = 1 /\ run'[p].running = run[p].running
             /\ run'[p].at = <<session[w].id, 1>>
  <2> DEFINE id == session[w].id
             n == [To(p, "split") EXCEPT !.at = <<id, 1>>]
  <2>1. Moves(p, n)
    BY <1>3
  <2>2. id \in Nat
    <3>1. session # None /\ w \in DOMAIN session
      BY <1>3, WindowFound
    <3> QED BY <3>1 DEF SessionOK
  <2>3. /\ n \in Run /\ n.pc = "split" /\ n.op = "up" /\ n.result = "none" /\ n.k = 1
        /\ n.i = r.i /\ n.dry = r.dry /\ n.have = r.have /\ n.existing = r.existing
        /\ n.calm = r.calm /\ n.running = r.running /\ n.at = <<id, 1>>
    <3> DEFINE u == To(p, "split")
    <3>1. /\ u \in Run /\ u.pc = "split" /\ u.op = "up" /\ u.result = "none" /\ u.k = 1
          /\ u.i = r.i /\ u.dry = r.dry /\ u.have = r.have /\ u.existing = r.existing
          /\ u.calm = r.calm /\ u.running = r.running
      BY <1>1, ToIs DEF RunPcs
    <3>2. n = [u EXCEPT !.at = <<id, 1>>]
      OBVIOUS
    <3> HIDE DEF id, u, n
    <3> QED BY <2>2, <3>1, <3>2 DEF Run
  <2> HIDE DEF n
  <2>4. InPlace(n)
    BY <1>1, <2>3, Declared DEF InPlace
  <2>5. RunOK' /\ Quiet(p) /\ run'[p] = n
    BY <1>2, <2>1, <2>3, <2>4, Asking
  <2>6. /\ GoesTo(p, "split") /\ run'[p].k = 1 /\ run'[p].running = r.running
        /\ run'[p].at = <<id, 1>>
    BY <1>1, <2>3, <2>5 DEF GoesTo
  <2> QED BY <2>5, <2>6
<1>4. ASSUME Misses(Win(p).name), Moves(p, Done(p, "failed"))
      PROVE  RunOK' /\ Quiet(p) /\ run'[p] = Done(p, "failed")
  BY <1>1, <1>2, <1>4, DoneInPlace, Asking
<1>5. \/ Misses(Win(p).name) /\ Moves(p, Done(p, "failed"))
      \/ \E w \in Targets(Win(p).name) :
            Moves(p, [To(p, "split") EXCEPT !.at = <<session[w].id, 1>>])
  BY DEF FirstPane
<1> QED BY <1>1, <1>2, <1>3, <1>4, <1>5

\* The steps of select-layout.
LEMMA LayoutSteps ==
    ASSUME RunOK, NEW p \in Terminals, Layout(p)
    PROVE  /\ RunOK' /\ Quiet(p) /\ UNCHANGED <<main, listed, disk, branches>>
           /\ run[p].pc = "layout" /\ run[p].i \in 1 .. Len(Windows)
           /\ \/ run'[p] = NextWindow(p)
              \/ ~run[p].dry /\ Misses(Win(p).name) /\ run'[p] = Done(p, "failed")
<1> DEFINE r == run[p]
<1>1. /\ InPlace(r) /\ r.pc = "layout" /\ r.op = "up" /\ r.result = "none"
      /\ r.i \in 1 .. Len(Windows)
  BY DEF Layout, At, InPlace, RunOK
<1>2. UNCHANGED <<main, listed, disk, branches, session, opened>>
  BY DEF Layout, repoVars
<1>3. \/ Moves(p, NextWindow(p))
      \/ ~r.dry /\ Misses(Win(p).name) /\ Moves(p, Done(p, "failed"))
  BY DEF Layout
<1> QED BY <1>1, <1>2, <1>3, NextInPlace, DoneInPlace, Asking

\* The steps of NewWindow.
LEMMA NewWindowSteps ==
    ASSUME RunOK, SessionOK, NEW p \in Terminals, NewWindow(p)
    PROVE  /\ RunOK' /\ SessionOK' /\ SessionGoesOn /\ run[p].pc = "window"
           /\ \/ /\ Quiet(p) /\ run[p].i > Len(Windows)
                 /\ run'[p] = Done(p, "ok")
              \/ /\ Quiet(p) /\ run[p].i \in 1 .. Len(Windows)
                 /\ Win(p).name \notin run[p].existing /\ ~run[p].dry
                 /\ run[p].running # (session # None)
                 /\ run'[p] = Done(p, "failed")
              \/ /\ Quiet(p) /\ run[p].i \in 1 .. Len(Windows)
                 /\ Win(p).name \in run[p].existing
                 /\ run'[p] = NextWindow(p)
              \/ /\ GoesTo(p, "keys") /\ run[p].i \in 1 .. Len(Windows)
                 /\ run'[p].k = 1 /\ run'[p].running
                 /\ Win(p).name \notin run[p].existing
                 /\ \/ Quiet(p) /\ run[p].dry
                    \/ /\ Loud(p) /\ ~run[p].dry
                       /\ run[p].running = (session # None)
                       /\ StartedWindow(Win(p)) \in Window
                       /\ opened' = opened + 1
                       /\ session' = Append(IF session = None THEN <<>> ELSE session,
                                            StartedWindow(Win(p)))
<1> DEFINE r == run[p]
           n == [To(p, "keys") EXCEPT !.running = TRUE, !.k = 1]
<1>1. /\ r \in Run /\ InPlace(r) /\ r.pc = "window" /\ r.op = "up" /\ r.result = "none"
      /\ r.i \in 1 .. Len(Windows) + 1
  BY DEF RunOK, NewWindow, At, InPlace
<1>2. CASE r.i > Len(Windows)
  <2>1. Moves(p, Done(p, "ok")) /\ UNCHANGED <<session, opened>>
    BY <1>2 DEF NewWindow
  <2> QED BY <1>1, <1>2, <2>1, DoneInPlace, RunTakesStep, SessionStays DEF Quiet, Moves, RunOK
<1>3. CASE r.i \in 1 .. Len(Windows) /\ Win(p).name \in r.existing
  <2>1. Moves(p, NextWindow(p)) /\ UNCHANGED <<session, opened>>
    BY <1>3, Declared DEF NewWindow
  <2> QED BY <1>1, <1>3, <2>1, NextInPlace, RunTakesStep, SessionStays DEF Quiet, Moves, RunOK
<1>4. CASE r.i \in 1 .. Len(Windows) /\ Win(p).name \notin r.existing
  <2>1. /\ n \in Run /\ n.pc = "keys" /\ n.op = r.op /\ n.dry = r.dry /\ n.have = r.have
        /\ n.existing = r.existing /\ n.calm = r.calm /\ n.i = r.i /\ n.k = 1 /\ n.running
        /\ n.result = "none"
    <3> DEFINE t == To(p, "keys")
    <3>1. /\ t \in Run /\ t.pc = "keys" /\ t.op = r.op /\ t.dry = r.dry /\ t.have = r.have
          /\ t.existing = r.existing /\ t.calm = r.calm /\ t.i = r.i /\ t.result = "none"
      BY <1>1, ToIs DEF RunPcs
    <3> HIDE DEF t
    <3>2. ASSUME NEW b \in BOOLEAN
          PROVE  LET u == [t EXCEPT !.running = b, !.k = 1]
                 IN  /\ u \in Run /\ u.pc = "keys" /\ u.op = r.op /\ u.dry = r.dry
                     /\ u.have = r.have /\ u.existing = r.existing /\ u.calm = r.calm
                     /\ u.i = r.i /\ u.k = 1 /\ u.running = b /\ u.result = "none"
      BY <3>1 DEF Run
    <3>3. n = [t EXCEPT !.running = TRUE, !.k = 1]
      BY DEF t
    <3> HIDE DEF n
    <3> QED BY <3>2, <3>3
  <2>2. InPlace(n)
    BY <1>1, <1>4, <2>1, Declared DEF InPlace
  <2>3. CASE r.dry
    <3>1. Moves(p, n) /\ UNCHANGED <<session, opened>>
      BY <1>4, <2>3, Declared DEF NewWindow
    <3> HIDE DEF n
    <3> QED BY <1>1, <1>4, <2>1, <2>2, <2>3, <3>1, RunTakesStep, SessionStays
            DEF Quiet, Moves, RunOK, GoesTo
  <2>4. CASE ~r.dry /\ r.running # (session # None)
    <3>1. Moves(p, Done(p, "failed")) /\ UNCHANGED <<session, opened>>
      BY <1>4, <2>4, Declared DEF NewWindow
    <3> QED BY <1>1, <1>4, <2>4, <3>1, DoneInPlace, RunTakesStep, SessionStays
            DEF Quiet, Moves, RunOK
  <2>5. CASE ~r.dry /\ r.running = (session # None)
    <3>1. /\ Becomes(p, n) /\ opened' = opened + 1
          /\ session' = Append(IF session = None THEN <<>> ELSE session,
                               StartedWindow(Win(p)))
      BY <1>4, <2>5, Declared DEF NewWindow, StartedWindow
    <3>2. StartedWindow(Win(p)) \in Window /\ StartedWindow(Win(p)).id = opened + 1
      <4>1. /\ Win(p).name \in Names /\ StartDir(Win(p).dir) \in Dirs
        BY <1>4, Declared, StartDirIs DEF Win
      <4>2. NewPane(StartDir(Win(p).dir)) \in Pane
        BY <4>1 DEF NewPane, Pane
      <4>3. <<NewPane(StartDir(Win(p).dir))>> \in Seq(Pane) \ {<<>>}
        BY <4>2
      <4> QED BY <4>1, <4>3 DEF StartedWindow, Window, SessionOK
    <3>3. SessionOK' /\ SessionGoesOn
      BY <3>1, <3>2, WindowOpens
    <3> HIDE DEF n
    <3>4. RunOK' /\ run'[p] = n /\ Loud(p)
      <4>1. /\ RunOK' /\ run'[p] = n
            /\ \A q \in Terminals \ {p} :
                  \/ Moves(p, n) /\ run'[q] = run[q]
                  \/ Becomes(p, n) /\ run'[q] = Disturb(run[q])
        BY <2>1, <2>2, <3>1, RunTakesStep
      <4>2. \A q \in Terminals \ {p} : run'[q] = Disturb(run[q])
        BY <3>1 DEF Becomes, Disturbed, Disturb
      <4> QED BY <4>1, <4>2 DEF Loud
    <3>5. GoesTo(p, "keys") /\ run'[p].k = 1 /\ run'[p].running
      BY ONLY <2>1, <3>4 DEF GoesTo
    <3> QED BY <1>1, <1>4, <2>5, <3>1, <3>2, <3>3, <3>4, <3>5
  <2> QED BY <2>3, <2>4, <2>5
<1> QED BY <1>1, <1>2, <1>3, <1>4, Declared

\* What comes after a window's command.
LEMMA AfterRunIs ==
    ASSUME RunOK, NEW p \in Terminals, run[p].op = "up", run[p].result = "none",
           run[p].i \in 1 .. Len(Windows), run[p].k = 1
    PROVE  /\ AfterRun(p) \in Run /\ InPlace(AfterRun(p))
           /\ Win(p).panes = <<>> => AfterRun(p) = NextWindow(p)
           /\ Win(p).panes # <<>> =>
                 /\ AfterRun(p) = To(p, "panes") /\ AfterRun(p).pc = "panes"
<1>1. InPlace(To(p, "panes"))
  BY ToIs DEF InPlace, RunPcs
<1> QED BY <1>1, ToIs, NextInPlace DEF AfterRun, RunPcs

\* A command of d is typed into the first pane of the i-th window.
TypedIn(i, d) ==
    /\ i \in DOMAIN session /\ session # None
    /\ 1 \in DOMAIN session[i].panes
    /\ session' # None /\ DOMAIN session' = DOMAIN session
    /\ \A j \in DOMAIN session \ {i} : session'[j] = session[j]
    /\ Keeps(session[i], session'[i])
    /\ session'[i].panes = [session[i].panes EXCEPT ![1] = Typed(session[i].panes[1], d)]

\* The steps of TypeRun.
LEMMA TypeRunSteps ==
    ASSUME RunOK, SessionOK, NEW p \in Terminals, TypeRun(p)
    PROVE  /\ RunOK' /\ SessionOK' /\ SessionGoesOn /\ run[p].pc = "keys"
           /\ run[p].i \in 1 .. Len(Windows)
           /\ \/ /\ Quiet(p) /\ run'[p] = AfterRun(p)
                 /\ ~Win(p).run \/ run[p].dry
              \/ /\ Quiet(p) /\ run'[p] = Done(p, "failed")
                 /\ Win(p).run /\ ~run[p].dry /\ Misses(Win(p).name)
              \/ /\ Loud(p) /\ run'[p] = AfterRun(p) /\ opened' = opened
                 /\ Win(p).run /\ ~run[p].dry
                 /\ \E i \in Targets(Win(p).name) : TypedIn(i, Win(p).dir)
<1> DEFINE r == run[p]
<1>1. /\ r \in Run /\ InPlace(r) /\ r.pc = "keys" /\ r.op = "up" /\ r.result = "none"
      /\ r.i \in 1 .. Len(Windows) /\ r.k = 1
  BY DEF RunOK, TypeRun, At, InPlace
<1>2. ASSUME ~Win(p).run \/ r.dry, Moves(p, AfterRun(p)), UNCHANGED <<session, opened>>
      PROVE  RunOK' /\ SessionOK' /\ SessionGoesOn /\ Quiet(p) /\ run'[p] = AfterRun(p)
  BY <1>1, <1>2, AfterRunIs, RunTakesStep, SessionStays DEF Quiet, Moves, RunOK
<1>3. ASSUME Moves(p, Done(p, "failed")), UNCHANGED <<session, opened>>
      PROVE  RunOK' /\ SessionOK' /\ SessionGoesOn /\ Quiet(p) /\ run'[p] = Done(p, "failed")
  BY <1>1, <1>3, DoneInPlace, RunTakesStep, SessionStays DEF Quiet, Moves, RunOK
<1>4. ASSUME NEW i \in Targets(Win(p).name), Becomes(p, AfterRun(p)), opened' = opened,
             session' = [session EXCEPT ![i].panes[1].typed = Win(p).dir]
      PROVE  /\ RunOK' /\ SessionOK' /\ SessionGoesOn /\ Loud(p) /\ run'[p] = AfterRun(p)
             /\ TypedIn(i, Win(p).dir)
  <2>1. session # None /\ i \in DOMAIN session
    BY <1>4, WindowFound
  <2>2. 1 \in DOMAIN session[i].panes /\ Win(p).dir \in Dirs
    <3>1. session[i] \in Window
      BY <2>1 DEF SessionOK
    <3>2. session[i].panes \in Seq(Pane) /\ session[i].panes # <<>>
      BY <3>1 DEF Window
    <3>3. 1 \in DOMAIN session[i].panes
      BY <3>2
    <3> QED BY <1>1, <3>3, Declared DEF Win
  <2>3. SessionOK' /\ SessionGoesOn /\ TypedIn(i, Win(p).dir)
    <3> DEFINE d == Win(p).dir
    <3>1. TypesInto(i, 1, d)
      BY <1>4 DEF TypesInto
    <3>2. d \in Dirs /\ opened' = opened
      BY <1>4, <2>2
    <3> HIDE DEF d
    <3>3. TypedInto(i, 1, d)
      BY ONLY SessionOK, <2>1, <2>2, <3>1, <3>2, PaneTyped
    <3> QED BY <2>1, <2>2, <3>3 DEF d, TypedInto, TypedIn
  <2>4. RunOK' /\ run'[p] = AfterRun(p) /\ Loud(p)
    <3>1. RunOK' /\ run'[p] = AfterRun(p)
      BY <1>1, <1>4, AfterRunIs, RunTakesStep
    <3> QED BY <1>4, <3>1 DEF Loud, Becomes, Disturbed, Disturb
  <2> QED BY <2>3, <2>4
<1>5. /\ opened' = opened
      /\ \/ /\ ~Win(p).run \/ r.dry
            /\ Moves(p, AfterRun(p)) /\ UNCHANGED session
         \/ /\ Win(p).run /\ ~r.dry /\ Misses(Win(p).name)
            /\ Moves(p, Done(p, "failed")) /\ UNCHANGED session
         \/ /\ Win(p).run /\ ~r.dry /\ Becomes(p, AfterRun(p))
            /\ \E i \in Targets(Win(p).name) :
                  session' = [session EXCEPT ![i].panes[1].typed = Win(p).dir]
  BY DEF TypeRun
<1> QED BY <1>1, <1>2, <1>3, <1>4, <1>5

\* The pane a run made last is where it made it, as long as the window is there.
PaneIsThere(r) ==
    r.pc \in {"split", "type"} =>
        /\ r.at[1] \in 1 .. opened
        /\ session # None =>
              \A i \in DOMAIN session :
                 session[i].id = r.at[1] => r.at[2] \in DOMAIN session[i].panes
PanesThere == \A p \in Terminals : PaneIsThere(run[p])

\* p splits the window its last pane is in, and is at the new pane.
SplitsWindow(p) ==
    /\ Loud(p) /\ GoesTo(p, "type") /\ opened' = opened
    /\ run'[p].k = run[p].k /\ run'[p].running = run[p].running
    /\ run[p].k \in 1 .. Len(Win(p).panes) /\ ~IsTheWindow(Win(p), run[p].k)
    /\ LET i == Place(run[p].at[1])
       IN  /\ i \in DOMAIN session /\ session # None
           /\ session[i].id = run[p].at[1]
           /\ session' # None /\ DOMAIN session' = DOMAIN session
           /\ \A j \in DOMAIN session \ {i} : session'[j] = session[j]
           /\ Keeps(session[i], session'[i])
           /\ session'[i].panes =
                 Append(session[i].panes, NewPane(StartDir(Win(p).panes[run[p].k].dir)))
           /\ run'[p].at = <<run[p].at[1], Len(session'[i].panes)>>

\* The steps of SplitPane.
LEMMA SplitPaneSteps ==
    ASSUME RunOK, SessionOK, NEW p \in Terminals, SplitPane(p)
    PROVE  /\ RunOK' /\ SessionOK' /\ SessionGoesOn /\ run[p].pc = "split"
           /\ run[p].i \in 1 .. Len(Windows)
           /\ \/ /\ Quiet(p) /\ run'[p] = To(p, "layout")
                 /\ run[p].k = Len(Win(p).panes) + 1
              \/ /\ Quiet(p) /\ run'[p] = To(p, "type")
                 /\ run[p].k \in 1 .. Len(Win(p).panes) /\ IsTheWindow(Win(p), run[p].k)
              \/ /\ Quiet(p) /\ run'[p] = Done(p, "failed") /\ ~Alive(run[p].at[1])
                 /\ run[p].k \in 1 .. Len(Win(p).panes)
              \/ SplitsWindow(p)
<1> DEFINE r == run[p]
           i == Place(r.at[1])
<1>1. /\ r \in Run /\ InPlace(r) /\ r.pc = "split" /\ r.op = "up" /\ r.result = "none"
      /\ r.i \in 1 .. Len(Windows) /\ r.k \in 1 .. Len(Win(p).panes) + 1
  BY DEF RunOK, SplitPane, At, InPlace, Win
<1>2. Len(Win(p).panes) \in Nat
  BY <1>1, Declared DEF Win
<1>3. CASE r.k > Len(Win(p).panes)
  <2>1. Moves(p, To(p, "layout")) /\ UNCHANGED <<session, opened>>
    BY <1>3 DEF SplitPane
  <2>2. To(p, "layout") \in Run /\ InPlace(To(p, "layout"))
    BY <1>1, ToIs DEF InPlace, RunPcs
  <2> QED BY <1>1, <1>2, <1>3, <2>1, <2>2, RunTakesStep, SessionStays DEF Quiet, Moves, RunOK
<1>4. CASE r.k <= Len(Win(p).panes) /\ IsTheWindow(Win(p), r.k)
  <2>1. Moves(p, To(p, "type")) /\ UNCHANGED <<session, opened>>
    BY <1>1, <1>2, <1>4 DEF SplitPane
  <2>2. To(p, "type") \in Run /\ InPlace(To(p, "type"))
    <3>1. /\ To(p, "type") \in Run /\ To(p, "type").pc = "type"
          /\ To(p, "type").i = r.i /\ To(p, "type").k = r.k
          /\ To(p, "type").op = "up" /\ To(p, "type").result = "none"
      BY <1>1, ToIs DEF RunPcs
    <3>2. r.k \in 1 .. Len(Win(p).panes)
      BY <1>1, <1>2, <1>4
    <3> QED BY <1>1, <3>1, <3>2 DEF InPlace, Win
  <2> QED BY <1>1, <1>2, <1>4, <2>1, <2>2, RunTakesStep, SessionStays DEF Quiet, Moves, RunOK
<1>5. CASE r.k <= Len(Win(p).panes) /\ ~IsTheWindow(Win(p), r.k) /\ ~Alive(r.at[1])
  <2>1. Moves(p, Done(p, "failed")) /\ UNCHANGED <<session, opened>>
    BY <1>1, <1>2, <1>5 DEF SplitPane
  <2> QED BY <1>1, <1>2, <1>5, <2>1, DoneInPlace, RunTakesStep, SessionStays
          DEF Quiet, Moves, RunOK
<1>6. CASE r.k <= Len(Win(p).panes) /\ ~IsTheWindow(Win(p), r.k) /\ Alive(r.at[1])
  <2> DEFINE d == StartDir(Win(p).panes[r.k].dir)
             new == Append(session[i].panes, NewPane(d))
             n == [To(p, "type") EXCEPT !.at = <<r.at[1], Len(new)>>]
  <2>1. /\ Becomes(p, n) /\ opened' = opened
        /\ session' = [session EXCEPT ![i].panes = new]
    BY <1>1, <1>2, <1>6, SMTT(30) DEF SplitPane
  <2>2. session # None /\ i \in DOMAIN session /\ session[i].id = r.at[1]
    BY <1>6, WindowFound
  <2>3. d \in Dirs
    BY <1>1, <1>2, <1>6, Declared, StartDirIs DEF Win
  <2>4. Len(new) \in Nat /\ r.at[1] \in Nat
    <3>1. session[i].panes \in Seq(Pane)
      <4>1. session[i] \in Window
        BY <2>2 DEF SessionOK
      <4> QED BY <4>1 DEF Window
    <3>2. NewPane(d) \in Pane
      BY <2>3 DEF NewPane, Pane
    <3> HIDE DEF d
    <3> QED BY <1>1, <3>1, <3>2 DEF Run
  <2>5. /\ SessionOK' /\ SessionGoesOn
        /\ session' # None /\ DOMAIN session' = DOMAIN session
        /\ \A j \in DOMAIN session \ {i} : session'[j] = session[j]
        /\ Keeps(session[i], session'[i])
        /\ session'[i].panes = new
    <3> HIDE DEF i, d
    <3> QED BY ONLY SessionOK, <2>1, <2>2, <2>3, PaneOpens, Zenon DEF new
  <2>6. /\ n \in Run /\ n.pc = "type" /\ n.op = r.op /\ n.dry = r.dry /\ n.have = r.have
        /\ n.existing = r.existing /\ n.calm = r.calm /\ n.i = r.i /\ n.k = r.k
        /\ n.running = r.running /\ n.result = "none" /\ n.at = <<r.at[1], Len(new)>>
    <3> DEFINE t == To(p, "type")
    <3>1. /\ t \in Run /\ t.pc = "type" /\ t.op = r.op /\ t.dry = r.dry /\ t.have = r.have
          /\ t.existing = r.existing /\ t.calm = r.calm /\ t.i = r.i /\ t.k = r.k
          /\ t.running = r.running /\ t.result = "none"
      BY <1>1, ToIs DEF RunPcs
    <3> DEFINE m == Len(new)
    <3>2. n = [t EXCEPT !.at = <<r.at[1], m>>] /\ m = Len(new) /\ m \in Nat
      BY <2>4
    <3> HIDE DEF t, m
    <3>3. LET u == [t EXCEPT !.at = <<r.at[1], m>>]
          IN  /\ u \in Run /\ u.pc = "type" /\ u.op = r.op /\ u.dry = r.dry /\ u.have = r.have
              /\ u.existing = r.existing /\ u.calm = r.calm /\ u.i = r.i /\ u.k = r.k
              /\ u.running = r.running /\ u.result = "none" /\ u.at = <<r.at[1], m>>
      BY <2>4, <3>1, <3>2 DEF Run
    <3> HIDE DEF n, new
    <3> QED BY ONLY <3>2, <3>3
  <2>7. InPlace(n)
    <3> HIDE DEF n
    <3> QED BY <1>1, <1>2, <1>6, <2>6, Declared DEF InPlace, Win
  <2> HIDE DEF n, new, i
  <2>8. RunOK' /\ run'[p] = n /\ Loud(p)
    <3>1. RunOK' /\ run'[p] = n
      BY <2>1, <2>6, <2>7, RunTakesStep
    <3> QED BY <2>1, <3>1 DEF Loud, Becomes, Disturbed, Disturb
  <2>9. GoesTo(p, "type")
    BY <2>6, <2>8 DEF GoesTo
  <2>10. r.k \in 1 .. Len(Win(p).panes)
    BY <1>1, <1>2, <1>6
  <2>11. session'[i].panes = Append(session[i].panes, NewPane(StartDir(Win(p).panes[r.k].dir)))
    BY <2>5 DEF new
  <2>12. run'[p].at = <<r.at[1], Len(session'[i].panes)>>
    BY <2>5, <2>6, <2>8
  <2>13. run'[p].k = r.k /\ run'[p].running = r.running /\ Keeps(session[i], session'[i])
    BY <2>5, <2>6, <2>8
  <2>14. i = Place(r.at[1])
    BY DEF i
  <2>15. SplitsWindow(p)
    BY ONLY <1>6, <2>1, <2>2, <2>5, <2>8, <2>9, <2>10, <2>11, <2>12, <2>13, <2>14
       DEF SplitsWindow
  <2> QED BY <1>1, <2>5, <2>8, <2>15
<1> QED BY <1>1, <1>2, <1>3, <1>4, <1>5, <1>6

\* The steps of TypePane.
LEMMA TypePaneSteps ==
    ASSUME RunOK, SessionOK, PanesThere, NEW p \in Terminals, TypePane(p)
    PROVE  /\ RunOK' /\ SessionOK' /\ SessionGoesOn /\ run[p].pc = "type"
           /\ run[p].i \in 1 .. Len(Windows) /\ run[p].k \in 1 .. Len(Win(p).panes)
           /\ \/ /\ Quiet(p) /\ run'[p] = Done(p, "failed") /\ ~Alive(run[p].at[1])
                 /\ Win(p).panes[run[p].k].run /\ ~run[p].dry
              \/ /\ GoesTo(p, "split") /\ run'[p].k = run[p].k + 1
                 /\ run'[p].at = run[p].at /\ run'[p].running = run[p].running
                 /\ \/ Quiet(p) /\ (~Win(p).panes[run[p].k].run \/ run[p].dry)
                    \/ /\ Loud(p) /\ opened' = opened
                       /\ Win(p).panes[run[p].k].run /\ ~run[p].dry
                       /\ LET i == Place(run[p].at[1])
                          IN  /\ i \in DOMAIN session /\ session # None
                              /\ session[i].id = run[p].at[1]
                              /\ run[p].at[2] \in DOMAIN session[i].panes
                              /\ session' # None /\ DOMAIN session' = DOMAIN session
                              /\ \A j \in DOMAIN session \ {i} : session'[j] = session[j]
                              /\ Keeps(session[i], session'[i])
                              /\ session'[i].panes =
                                    [session[i].panes EXCEPT
                                        ![run[p].at[2]] = Typed(session[i].panes[run[p].at[2]],
                                                                Win(p).panes[run[p].k].dir)]
<1> DEFINE r == run[p]
           i == Place(r.at[1])
           m == r.at[2]
           d == Win(p).panes[r.k].dir
           n == [To(p, "split") EXCEPT !.k = @ + 1]
<1>1. /\ r \in Run /\ InPlace(r) /\ r.pc = "type" /\ r.op = "up" /\ r.result = "none"
      /\ r.i \in 1 .. Len(Windows) /\ r.k \in 1 .. Len(Win(p).panes)
  BY DEF RunOK, TypePane, At, InPlace, Win
<1>2. Len(Win(p).panes) \in Nat /\ d \in Dirs
  BY <1>1, Declared DEF Win
<1>3. /\ n \in Run /\ n.pc = "split" /\ n.op = r.op /\ n.dry = r.dry /\ n.have = r.have
      /\ n.existing = r.existing /\ n.calm = r.calm /\ n.i = r.i /\ n.k = r.k + 1
      /\ n.running = r.running /\ n.result = "none" /\ n.at = r.at
  <2> DEFINE t == To(p, "split")
  <2>0. n = [t EXCEPT !.k = @ + 1]
    OBVIOUS
  <2>1. /\ t \in Run /\ t.pc = "split" /\ t.op = r.op /\ t.dry = r.dry /\ t.have = r.have
        /\ t.existing = r.existing /\ t.calm = r.calm /\ t.i = r.i /\ t.k = r.k
        /\ t.running = r.running /\ t.result = "none" /\ t.at = r.at
    BY <1>1, ToIs DEF RunPcs
  <2> HIDE DEF t
  <2>2. LET u == [t EXCEPT !.k = @ + 1]
        IN  /\ u \in Run /\ u.pc = "split" /\ u.op = r.op /\ u.dry = r.dry /\ u.have = r.have
            /\ u.existing = r.existing /\ u.calm = r.calm /\ u.i = r.i /\ u.k = r.k + 1
            /\ u.running = r.running /\ u.result = "none" /\ u.at = r.at
    BY <1>1, <2>1 DEF Run
  <2> HIDE DEF n
  <2> QED BY ONLY <2>0, <2>2
<1>4. InPlace(n)
  <2> HIDE DEF n
  <2> QED BY <1>1, <1>2, <1>3, Declared DEF InPlace, Win
<1>5. CASE ~Win(p).panes[r.k].run \/ r.dry
  <2>1. Moves(p, n) /\ UNCHANGED <<session, opened>>
    BY <1>5 DEF TypePane
  <2> HIDE DEF n
  <2>2. RunOK' /\ run'[p] = n /\ Quiet(p)
    BY <1>3, <1>4, <2>1, RunTakesStep DEF Quiet, Moves, RunOK
  <2>3. GoesTo(p, "split") /\ run'[p].k = r.k + 1 /\ run'[p].at = r.at /\ run'[p].running = r.running
    BY <1>3, <2>2 DEF GoesTo
  <2> QED BY <1>1, <1>5, <2>1, <2>2, <2>3, SessionStays
<1>6. CASE ~(~Win(p).panes[r.k].run \/ r.dry) /\ ~Alive(r.at[1])
  <2>1. Moves(p, Done(p, "failed")) /\ UNCHANGED <<session, opened>>
    BY <1>6 DEF TypePane
  <2> QED BY <1>1, <1>6, <2>1, DoneInPlace, RunTakesStep, SessionStays DEF Quiet, Moves, RunOK
<1>7. CASE ~(~Win(p).panes[r.k].run \/ r.dry) /\ Alive(r.at[1])
  <2>1. Becomes(p, n) /\ opened' = opened
    BY <1>7 DEF TypePane
  <2>2. session' = [session EXCEPT ![i].panes =
                      [session[i].panes EXCEPT ![m] =
                         [session[i].panes[m] EXCEPT !.typed = d]]]
    BY <1>7 DEF TypePane
  <2>3. session # None /\ i \in DOMAIN session /\ session[i].id = r.at[1]
    BY <1>7, WindowFound
  <2>4. m \in DOMAIN session[i].panes
    BY <1>1, <2>3 DEF PanesThere, PaneIsThere
  <2> HIDE DEF i, m, d, n
  <2>5. /\ SessionOK' /\ SessionGoesOn
        /\ session' # None /\ DOMAIN session' = DOMAIN session
        /\ \A j \in DOMAIN session \ {i} : session'[j] = session[j]
        /\ Keeps(session[i], session'[i])
        /\ session'[i].panes
             = [session[i].panes EXCEPT ![m] = Typed(session[i].panes[m], d)]
    <3>1. d \in Dirs /\ opened' = opened
      BY ONLY <1>2, <2>1
    <3>2. TypesInto(i, m, d)
      BY <2>2 DEF TypesInto
    <3>3. TypedInto(i, m, d)
      BY ONLY SessionOK, <2>3, <2>4, <3>1, <3>2, PaneTyped
    <3> QED BY <3>3 DEF TypedInto
  <2>6. RunOK' /\ run'[p] = n /\ Loud(p)
    <3>1. RunOK' /\ run'[p] = n
      BY <1>3, <1>4, <2>1, RunTakesStep
    <3> QED BY <2>1, <3>1 DEF Loud, Becomes, Disturbed, Disturb
  <2>7. GoesTo(p, "split") /\ run'[p].k = r.k + 1 /\ run'[p].at = r.at /\ run'[p].running = r.running
    BY <1>3, <2>6 DEF GoesTo
  <2>8. i = Place(r.at[1]) /\ m = r.at[2] /\ d = Win(p).panes[r.k].dir
    BY DEF i, m, d
  <2>9. LET j == Place(run[p].at[1])
        IN  /\ j \in DOMAIN session /\ session # None
            /\ session[j].id = run[p].at[1]
            /\ run[p].at[2] \in DOMAIN session[j].panes
            /\ session' # None /\ DOMAIN session' = DOMAIN session
            /\ \A q \in DOMAIN session \ {j} : session'[q] = session[q]
            /\ Keeps(session[j], session'[j])
            /\ session'[j].panes =
                  [session[j].panes EXCEPT
                      ![run[p].at[2]] = Typed(session[j].panes[run[p].at[2]],
                                              Win(p).panes[run[p].k].dir)]
    BY ONLY <2>3, <2>4, <2>5, <2>8
  <2> QED BY <1>1, <1>7, <2>1, <2>5, <2>6, <2>7, <2>9
<1> QED BY <1>5, <1>6, <1>7

\* The steps of KillSession.
LEMMA KillSessionSteps ==
    ASSUME RunOK, SessionOK, NEW p \in Terminals, KillSession(p)
    PROVE  /\ RunOK' /\ SessionOK' /\ SessionGoesOn /\ run[p].pc = "kill"
           /\ UNCHANGED <<listed, disk>>
           /\ \/ Quiet(p) /\ ~run[p].dry /\ session = None /\ run'[p] = Done(p, "failed")
              \/ /\ run'[p] = IF run[p].op = "prune" THEN To(p, "list") ELSE Done(p, "ok")
                 /\ \/ Quiet(p) /\ run[p].dry
                    \/ Loud(p) /\ ~run[p].dry /\ session' = None
<1> DEFINE r == run[p]
           n == IF r.op = "prune" THEN To(p, "list") ELSE Done(p, "ok")
<1>1. r \in Run /\ InPlace(r) /\ r.pc = "kill" /\ r.op \in {"down", "prune"} /\ r.result = "none"
  BY DEF RunOK, KillSession, At, InPlace
<1>2. n \in Run /\ InPlace(n)
  <2>1. r.op = "prune" => To(p, "list") \in Run /\ InPlace(To(p, "list"))
    BY <1>1, ToIs DEF InPlace, RunPcs
  <2> QED BY <1>1, <2>1, DoneInPlace
<1>3. UNCHANGED <<listed, disk, opened>>
  BY DEF KillSession
<1>4. CASE r.dry
  <2>1. Moves(p, n) /\ session' = session
    BY <1>4 DEF KillSession
  <2> HIDE DEF n
  <2>2. RunOK' /\ run'[p] = n /\ Quiet(p)
    BY <1>2, <1>3, <2>1, RunTakesStep DEF Quiet, Moves, RunOK
  <2> QED BY <1>1, <1>3, <1>4, <2>1, <2>2, SessionStays DEF n
<1>5. CASE ~r.dry /\ session = None
  <2>1. Moves(p, Done(p, "failed")) /\ session' = session
    BY <1>5 DEF KillSession
  <2> QED BY <1>1, <1>3, <1>5, <2>1, DoneInPlace, RunTakesStep, SessionStays
          DEF Quiet, Moves, RunOK
<1>6. CASE ~r.dry /\ session # None
  <2>1. Becomes(p, n) /\ session' = None
    BY <1>6 DEF KillSession
  <2> HIDE DEF n
  <2>2. RunOK' /\ run'[p] = n
    BY <1>2, <2>1, RunTakesStep
  <2>3. Loud(p)
    BY <2>1 DEF Loud, Becomes, Disturbed, Disturb, RunOK
  <2> QED BY <1>1, <1>3, <1>6, <2>1, <2>2, <2>3, SessionEnds DEF n
<1> QED BY <1>4, <1>5, <1>6

\* p goes on to the next worktree to be removed.
PrunesOn(p) ==
    /\ run'[p].pc = "prune" /\ run'[p].op = "prune" /\ run'[p].i = run[p].i + 1
    /\ run'[p].dry = run[p].dry /\ run'[p].have = run[p].have

\* The steps of RemoveTree.
LEMMA RemoveTreeSteps ==
    ASSUME RunOK, NEW p \in Terminals, RemoveTree(p)
    PROVE  /\ RunOK' /\ run[p].pc = "prune" /\ UNCHANGED <<session, opened, branches>>
           /\ \/ /\ Quiet(p) /\ run[p].i = Len(Worktrees) + 1 /\ UNCHANGED <<listed, disk>>
                 /\ run'[p] = Done(p, IF run[p].errs THEN "failed" ELSE "ok")
              \/ /\ run[p].i \in 1 .. Len(Worktrees) /\ PrunesOn(p)
                 /\ run'[p].calm = run[p].calm
                 /\ LET t == Worktrees[run[p].i]
                    IN  \/ /\ Quiet(p) /\ (t \notin run[p].have \/ run[p].dry)
                           /\ run'[p].errs = run[p].errs /\ UNCHANGED <<listed, disk>>
                        \/ /\ Quiet(p) /\ t \in run[p].have /\ ~run[p].dry /\ ~CanRemove(t)
                           /\ run'[p].errs /\ UNCHANGED <<listed, disk>>
                        \/ /\ Loud(p) /\ t \in run[p].have /\ ~run[p].dry /\ CanRemove(t)
                           /\ run'[p].errs = run[p].errs
                           /\ listed' = listed \ {t}
                           /\ disk' = [disk EXCEPT ![t] = "absent"]
<1> DEFINE r == run[p]
           t == Worktrees[r.i]
           n == [r EXCEPT !.i = @ + 1]
           e == [n EXCEPT !.errs = TRUE]
<1>1. /\ r \in Run /\ InPlace(r) /\ r.pc = "prune" /\ r.op = "prune" /\ r.result = "none"
      /\ r.i \in 1 .. Len(Worktrees) + 1
  BY DEF RunOK, RemoveTree, At, InPlace
<1>2. UNCHANGED <<session, opened, branches>>
  BY DEF RemoveTree
<1>3. CASE r.i > Len(Worktrees)
  <2>1. /\ Moves(p, Done(p, IF r.errs THEN "failed" ELSE "ok"))
        /\ UNCHANGED <<listed, disk>>
    BY <1>3 DEF RemoveTree
  <2> QED BY <1>1, <1>2, <1>3, <2>1, Declared, DoneInPlace, RunTakesStep DEF Quiet, Moves, RunOK
<1>4. CASE r.i \in 1 .. Len(Worktrees)
  <2>1. /\ n \in Run /\ n.pc = "prune" /\ n.op = "prune" /\ n.i = r.i + 1 /\ n.dry = r.dry
        /\ n.have = r.have /\ n.calm = r.calm /\ n.errs = r.errs /\ n.result = "none"
    BY <1>1 DEF Run
  <2>2. InPlace(n)
    <3> HIDE DEF n
    <3> QED BY <1>4, <2>1, Declared DEF InPlace
  <2>3. ~(r.i > Len(Worktrees))
    BY <1>4, Declared
  <2>4. CASE t \notin r.have \/ r.dry
    <3>1. Moves(p, n) /\ UNCHANGED <<listed, disk>>
      BY <2>3, <2>4 DEF RemoveTree
    <3> HIDE DEF n
    <3>2. RunOK' /\ run'[p] = n /\ Quiet(p)
      BY <1>2, <2>1, <2>2, <3>1, RunTakesStep DEF Quiet, Moves, RunOK
    <3>3. PrunesOn(p) /\ run'[p].calm = r.calm /\ run'[p].errs = r.errs
      BY <2>1, <3>2 DEF PrunesOn
    <3> QED BY <1>1, <1>2, <1>4, <2>4, <3>1, <3>2, <3>3
  <2>5. CASE t \in r.have /\ ~r.dry /\ ~CanRemove(t)
    <3>1. Moves(p, e) /\ UNCHANGED <<listed, disk>>
      BY <2>3, <2>5 DEF RemoveTree
    <3>2. /\ e \in Run /\ e.pc = "prune" /\ e.op = "prune" /\ e.i = r.i + 1 /\ e.dry = r.dry
          /\ e.have = r.have /\ e.calm = r.calm /\ e.errs /\ e.result = "none"
      <4>1. ASSUME NEW b \in BOOLEAN
            PROVE  LET u == [n EXCEPT !.errs = b]
                   IN  /\ u \in Run /\ u.pc = "prune" /\ u.op = "prune" /\ u.i = r.i + 1
                       /\ u.dry = r.dry /\ u.have = r.have /\ u.calm = r.calm /\ u.errs = b
                       /\ u.result = "none"
        <5> HIDE DEF n
        <5> QED BY <2>1 DEF Run
      <4>2. e = [n EXCEPT !.errs = TRUE]
        OBVIOUS
      <4> HIDE DEF e, n
      <4> QED BY <4>1, <4>2
    <3> HIDE DEF e
    <3>3. InPlace(e)
      BY <1>4, <3>2, Declared DEF InPlace
    <3>4. RunOK' /\ run'[p] = e /\ Quiet(p)
      BY <1>2, <3>1, <3>2, <3>3, RunTakesStep DEF Quiet, Moves, RunOK
    <3>5. PrunesOn(p) /\ run'[p].calm = r.calm /\ run'[p].errs
      BY <3>2, <3>4 DEF PrunesOn
    <3> QED BY <1>1, <1>2, <1>4, <2>5, <3>1, <3>4, <3>5
  <2>6. CASE t \in r.have /\ ~r.dry /\ CanRemove(t)
    <3>1. /\ Becomes(p, n) /\ listed' = listed \ {t}
          /\ disk' = [disk EXCEPT ![t] = "absent"]
      BY <2>3, <2>6 DEF RemoveTree
    <3> HIDE DEF n
    <3>2. RunOK' /\ run'[p] = n
      BY <2>1, <2>2, <3>1, RunTakesStep
    <3>3. Loud(p)
      BY <3>1 DEF Loud, Becomes, Disturbed, Disturb, RunOK
    <3>4. PrunesOn(p) /\ run'[p].calm = r.calm /\ run'[p].errs = r.errs
      BY <2>1, <3>2 DEF PrunesOn
    <3> QED BY <1>1, <1>2, <1>4, <2>6, <3>1, <3>2, <3>3, <3>4
  <2> QED BY <2>4, <2>5, <2>6
<1> QED BY <1>1, <1>3, <1>4, Declared

\* A run is started; one that fails ends, or passes over a worktree.
LEMMA StartRunSteps ==
    ASSUME RunOK, NEW p \in Terminals, NEW op \in {"up", "down", "prune"}, NEW dry \in DryRuns,
           StartRun(p, op, dry)
    PROVE  /\ RunOK' /\ Quiet(p) /\ UNCHANGED <<main, listed, disk, branches>>
           /\ run'[p].pc \in {"list", "has"} /\ run'[p].op = op
           /\ run'[p].pc = "list" => op = "up"
           /\ run'[p].existing = {} /\ ~run'[p].errs
           /\ run'[p].pc = "has" /\ op = "up" => Worktrees = <<>> /\ run'[p].have = {}
<1> DEFINE pc == IF op = "up" /\ Worktrees # <<>> THEN "list" ELSE "has"
           n == [NoRun EXCEPT !.op = op, !.dry = dry, !.pc = pc]
<1>1. Moves(p, n) /\ UNCHANGED <<main, listed, disk, branches, session, opened>>
  BY DEF StartRun
<1>2. pc \in {"list", "has"} /\ (pc = "list" => op = "up") /\ (pc = "has" /\ op = "up" => Worktrees = <<>>)
  OBVIOUS
<1> HIDE DEF pc
<1>3. /\ n \in Run /\ n.pc = pc /\ n.op = op /\ n.result = "none" /\ n.existing = {}
      /\ n.have = {} /\ ~n.errs
  <2>1. ASSUME NEW b \in BOOLEAN
        PROVE  LET u == [NoRun EXCEPT !.op = op, !.dry = b, !.pc = pc]
               IN  /\ u \in Run /\ u.pc = pc /\ u.op = op /\ u.result = "none" /\ u.existing = {}
                   /\ u.have = {} /\ ~u.errs
    <3>1. /\ NoRun \in Run /\ NoRun.result = "none" /\ NoRun.existing = {}
          /\ NoRun.have = {} /\ ~NoRun.errs
      BY NoRunInPlace DEF NoRun
    <3> DEFINE named == [NoRun EXCEPT !.op = op]
               dried == [named EXCEPT !.dry = b]
               begun == [dried EXCEPT !.pc = pc]
    <3>2. named \in Run /\ named.op = op /\ named.result = "none" /\ named.existing = {}
          /\ named.have = {} /\ ~named.errs
      BY <3>1 DEF Run
    <3>3. dried \in Run /\ dried.op = op /\ dried.result = "none" /\ dried.existing = {}
          /\ dried.have = {} /\ ~dried.errs
      <4> HIDE DEF named
      <4> QED BY <3>2 DEF Run
    <3>4. begun \in Run /\ begun.pc = pc /\ begun.op = op /\ begun.result = "none"
          /\ begun.existing = {} /\ begun.have = {} /\ ~begun.errs
      <4> HIDE DEF dried
      <4> QED BY <1>2, <3>3 DEF Run, RunPcs
    <3>5. begun = [NoRun EXCEPT !.op = op, !.dry = b, !.pc = pc]
      OBVIOUS
    <3> HIDE DEF begun
    <3> QED BY <3>4, <3>5
  <2> QED BY <2>1, DryRunsAssumption
<1> HIDE DEF n
<1>4. InPlace(n)
  BY <1>2, <1>3 DEF InPlace
<1> QED BY <1>1, <1>2, <1>3, <1>4, QuietMove, RunTakesStep

LEMMA RunFailsSteps ==
    ASSUME RunOK, NEW p \in Terminals, RunFails(p)
    PROVE  /\ RunOK' /\ Quiet(p) /\ UNCHANGED <<main, listed, disk, branches>>
           /\ run'[p] = NoRun \/ (run'[p].pc = "prune" /\ ~run'[p].calm)
<1> DEFINE r == run[p]
           n == [r EXCEPT !.i = @ + 1, !.errs = TRUE, !.calm = FALSE]
<1>1. /\ UNCHANGED <<main, listed, disk, branches, session, opened>>
      /\ Moves(p, NoRun) \/ (r.pc = "prune" /\ r.i <= Len(Worktrees) /\ Moves(p, n))
  BY DEF RunFails, At
<1>2. CASE Moves(p, NoRun)
  BY <1>1, <1>2, NoRunInPlace, QuietMove, RunTakesStep
<1>3. CASE r.pc = "prune" /\ r.i <= Len(Worktrees) /\ Moves(p, n)
  <2>1. /\ r \in Run /\ InPlace(r) /\ r.op = "prune" /\ r.result = "none"
        /\ r.i \in 1 .. Len(Worktrees)
    BY <1>3, Declared DEF RunOK, InPlace
  <2>2. ASSUME NEW v \in Run, NEW b \in BOOLEAN, NEW c \in BOOLEAN
        PROVE  LET u == [v EXCEPT !.i = v.i + 1, !.errs = b, !.calm = c]
               IN  /\ u \in Run /\ u.pc = v.pc /\ u.op = v.op /\ u.result = v.result
                   /\ u.i = v.i + 1 /\ u.calm = c
    <3> DEFINE u == [v EXCEPT !.i = v.i + 1, !.errs = b, !.calm = c]
    <3>1. u.pc = v.pc /\ u.op = v.op /\ u.result = v.result /\ u.i = v.i + 1
      BY DEF Run
    <3>2. u.calm = c
      BY DEF Run
    <3>3. u \in Run
      <4> DEFINE w == [v EXCEPT !.i = v.i + 1, !.errs = b]
      <4>1. w \in Run
        <5> DEFINE x == [v EXCEPT !.i = v.i + 1]
        <5>1. x \in Run
          BY DEF Run
        <5>2. w = [x EXCEPT !.errs = b]
          BY DEF Run
        <5> HIDE DEF w, x
        <5> QED BY <5>1, <5>2 DEF Run
      <4>2. u = [w EXCEPT !.calm = c]
        BY DEF Run
      <4> HIDE DEF w
      <4> QED BY <4>1, <4>2 DEF Run
    <3> QED BY <3>1, <3>2, <3>3
  <2>3. /\ n \in Run /\ n.pc = r.pc /\ n.op = "prune" /\ n.result = "none"
        /\ n.i = r.i + 1 /\ ~n.calm
    BY <2>1, <2>2
  <2> HIDE DEF n
  <2>4. InPlace(n)
    BY <1>3, <2>1, <2>3, Declared DEF InPlace
  <2>5. Moves(p, n)
    BY <1>3
  <2>6. Quiet(p)
    BY <1>1, <2>5, QuietMove
  <2> QED BY <1>1, <1>3, <2>3, <2>4, <2>5, <2>6, RunTakesStep
<1> QED BY <1>1, <1>2, <1>3

\* What a step of p leaves of the others.
LEMMA OthersAre ==
    ASSUME RunOK, NEW p \in Terminals, Quiet(p) \/ Loud(p)
    PROVE  \A q \in Terminals \ {p} :
              \/ run'[q] = run[q]
              \/ /\ run'[q].pc \in {"idle", run[q].pc} /\ run'[q].at \in {<<0, 0>>, run[q].at}
                 /\ run'[q].pc # "idle" =>
                       /\ run'[q].i = run[q].i /\ run'[q].k = run[q].k
                       /\ run'[q].at = run[q].at /\ run'[q].op = run[q].op
                       /\ run'[q].pc = run[q].pc
                 /\ run'[q] = NoRun \/ ~run'[q].calm
<1>1. ASSUME NEW r \in Run, InPlace(r)
      PROVE  LET d == Disturb(r)
             IN  /\ d.pc \in {"idle", r.pc} /\ d.at \in {<<0, 0>>, r.at}
                 /\ d.pc # "idle" =>
                       /\ d.i = r.i /\ d.k = r.k /\ d.at = r.at /\ d.op = r.op /\ d.pc = r.pc
                 /\ d = NoRun \/ ~d.calm
  <2>1. CASE r.pc = "idle"
    BY <2>1 DEF Disturb, NoRun
  <2>2. CASE r.pc # "idle"
    <3>1. Disturb(r) = [r EXCEPT !.calm = FALSE]
      BY <2>2 DEF Disturb
    <3> QED BY <3>1 DEF Run
  <2> QED BY <2>1, <2>2
<1> QED BY <1>1 DEF Quiet, Loud, RunOK

\* A pane stays where it was made.
LEMMA PaneStaysThere ==
    ASSUME SessionOK, SessionOK', SessionGoesOn, NEW id \in 1 .. opened, NEW m,
           session # None =>
              \A i \in DOMAIN session : session[i].id = id => m \in DOMAIN session[i].panes
    PROVE  /\ id \in 1 .. opened'
           /\ session' # None =>
                 \A i \in DOMAIN session' :
                    session'[i].id = id => m \in DOMAIN session'[i].panes
<1>1. opened \in Nat /\ opened' \in Nat /\ opened <= opened'
  BY DEF SessionOK, SessionGoesOn
<1>2. ASSUME session' # None, NEW i \in DOMAIN session', session'[i].id = id
      PROVE  m \in DOMAIN session'[i].panes
  <2>1. session # None /\ \E j \in DOMAIN session : Keeps(session[j], session'[i])
    BY <1>1, <1>2 DEF SessionGoesOn
  <2> QED BY <1>2, <2>1 DEF Keeps
<1> QED BY <1>1, <1>2

\* Every command of up and down: the runs, the session and the pane p is at.
LEMMA RunStepTyped ==
    ASSUME RunOK, SessionOK, PanesThere, listed \subseteq Trees, NEW p \in Terminals,
           RunStep(p)
    PROVE  /\ RunOK' /\ SessionOK' /\ SessionGoesOn /\ PanesThere'
           /\ Quiet(p) \/ Loud(p)
<1> DEFINE There(r) ==
             r.pc \in {"split", "type"} =>
                /\ r.at[1] \in 1 .. opened'
                /\ session' # None =>
                      \A i \in DOMAIN session' :
                         session'[i].id = r.at[1] => r.at[2] \in DOMAIN session'[i].panes
<1>1. PaneIsThere(run[p])
  BY DEF PanesThere
<1>2. ASSUME RunOK', SessionOK', SessionGoesOn, Quiet(p) \/ Loud(p), There(run'[p])
      PROVE  PanesThere'
  <2>1. ASSUME NEW q \in Terminals PROVE There(run'[q])
    <3>1. CASE q = p
      BY <1>2, <3>1
    <3>2. CASE q # p /\ run'[q].pc \in {"split", "type"}
      <4>1. run'[q].pc = run[q].pc /\ run'[q].at = run[q].at
        BY <1>2, <3>2, OthersAre
      <4>2. PaneIsThere(run[q])
        BY DEF PanesThere
      <4>3. /\ run[q].at[1] \in 1 .. opened
            /\ session # None =>
                  \A i \in DOMAIN session :
                     session[i].id = run[q].at[1] => run[q].at[2] \in DOMAIN session[i].panes
        BY <3>2, <4>1, <4>2 DEF PaneIsThere
      <4>4. /\ run[q].at[1] \in 1 .. opened'
            /\ session' # None =>
                  \A i \in DOMAIN session' :
                     session'[i].id = run[q].at[1] => run[q].at[2] \in DOMAIN session'[i].panes
        BY <1>2, <4>3, PaneStaysThere
      <4> QED BY <4>1, <4>4
    <3> QED BY <3>1, <3>2
  <2> QED BY <2>1 DEF PanesThere, PaneIsThere
<1>3. ASSUME RunOK', SessionOK', SessionGoesOn, Quiet(p) \/ Loud(p),
             run'[p].pc \notin {"split", "type"}
      PROVE  PanesThere'
  BY <1>2, <1>3
<1>4. CASE List(p)
  BY <1>3, <1>4, ListSteps, SessionStays, DoneInPlace DEF Quiet, GoesOn
<1>5. CASE Tree(p)
  BY <1>3, <1>5, TreeSteps, SessionStays, DoneInPlace, ToIs DEF Quiet, GoesOn, GoesTo, RunPcs
<1>6. CASE AddTree(p)
  BY <1>3, <1>6, AddTreeSteps, SessionStays, DoneInPlace DEF GoesOn
<1>7. CASE HasSession(p)
  BY <1>3, <1>7, HasSessionSteps, SessionStays, DoneInPlace, ToIs DEF Quiet, GoesOn, RunPcs
<1>8. CASE ListWindows(p)
  BY <1>3, <1>8, ListWindowsSteps, SessionStays DEF Quiet
<1>9. CASE NewWindow(p)
  <2>1. NextWindow(p).pc = "window"
    BY DEF NextWindow, To, RunOK, Run
  <2> QED BY <1>3, <1>9, <2>1, NewWindowSteps, DoneInPlace DEF GoesTo
<1>10. CASE TypeRun(p)
  <2>1. AfterRun(p).pc \in {"window", "panes"}
    BY DEF AfterRun, NextWindow, To, RunOK, Run
  <2> QED BY <1>3, <1>10, <2>1, TypeRunSteps, DoneInPlace
<1>11. CASE FirstPane(p)
  <2>1. RunOK' /\ Quiet(p) /\ SessionOK' /\ SessionGoesOn /\ run[p].pc = "panes"
    BY <1>11, FirstPaneSteps, SessionStays DEF Quiet
  <2>2. CASE run'[p] = Done(p, "failed")
    BY <1>3, <2>1, <2>2, DoneInPlace
  <2>3. ASSUME NEW w \in Targets(Win(p).name), run'[p].at = <<session[w].id, 1>>
        PROVE  There(run'[p])
    <3>1. session # None /\ w \in DOMAIN session
      BY <2>3, WindowFound
    <3>2. UNCHANGED <<session, opened>> /\ session[w].id \in 1 .. opened
      BY <2>1, <3>1 DEF Quiet, SessionOK
    <3>3. \A i \in DOMAIN session : 1 \in DOMAIN session[i].panes
      <4>1. \A i \in DOMAIN session : session[i] \in Window
        BY <3>1 DEF SessionOK
      <4>2. \A i \in DOMAIN session : session[i].panes \in Seq(Pane) /\ session[i].panes # <<>>
        BY <4>1 DEF Window
      <4> QED BY <4>2
    <3>4. run'[p].at[1] = session[w].id /\ run'[p].at[2] = 1
      BY <2>3
    <3> QED BY <3>2, <3>3, <3>4
  <2>4. CASE \E w \in Targets(Win(p).name) : run'[p].at = <<session[w].id, 1>>
    BY <1>2, <2>1, <2>3, <2>4
  <2> QED BY <1>11, <2>2, <2>4, FirstPaneSteps
<1>12. CASE SplitPane(p)
  <2>1. /\ RunOK' /\ SessionOK' /\ SessionGoesOn /\ run[p].pc = "split"
        /\ Quiet(p) \/ Loud(p)
    BY <1>12, SplitPaneSteps DEF SplitsWindow
  <2>2. CASE run'[p].pc \notin {"split", "type"}
    BY <1>3, <2>1, <2>2
  <2>3. CASE Quiet(p) /\ run'[p] = To(p, "type")
    <3>1. run'[p].at = run[p].at
      BY <2>3, ToIs DEF RunPcs
    <3> QED BY <1>1, <1>2, <2>1, <2>3, <3>1 DEF Quiet, PaneIsThere
  <2>4. CASE SplitsWindow(p)
    <3> DEFINE i == Place(run[p].at[1])
    <3>1. /\ i \in DOMAIN session /\ session # None /\ session[i].id = run[p].at[1]
          /\ DOMAIN session' = DOMAIN session
          /\ \A j \in DOMAIN session \ {i} : session'[j] = session[j]
          /\ Keeps(session[i], session'[i])
          /\ session'[i].panes = Append(session[i].panes,
                                        NewPane(StartDir(Win(p).panes[run[p].k].dir)))
          /\ run'[p].at = <<run[p].at[1], Len(session'[i].panes)>>
          /\ opened' = opened
      BY <2>4 DEF SplitsWindow
    <3>2. session'[i].id = session[i].id
      BY <3>1 DEF Keeps
    <3>3. Len(session'[i].panes) \in DOMAIN session'[i].panes
      <4> DEFINE x == NewPane(StartDir(Win(p).panes[run[p].k].dir))
      <4>1. session[i].panes \in Seq(Pane)
        BY <1>1, <3>1, WindowIs
      <4>2. session'[i].panes = Append(session[i].panes, x)
        BY <3>1
      <4> HIDE DEF x
      <4>3. Len(Append(session[i].panes, x)) \in DOMAIN Append(session[i].panes, x)
        BY ONLY <4>1, AppendedLast
      <4> QED BY ONLY <4>2, <4>3
    <3>4. session' # None => \A j \in DOMAIN session' : session'[j].id = run[p].at[1] => j = i
      BY <2>1, <3>1, <3>2 DEF SessionOK
    <3>5. run[p].at[1] \in 1 .. opened'
      BY <1>1, <2>1, <3>1 DEF PaneIsThere
    <3>6. There(run'[p])
      <4> HIDE DEF i
      <4> QED BY <3>1, <3>3, <3>4, <3>5
    <3> QED BY <1>2, <2>1, <3>6
  <2>5. run'[p] \in {To(p, "layout"), Done(p, "failed")} => run'[p].pc \notin {"split", "type"}
    BY <2>1, ToIs, DoneInPlace DEF RunPcs
  <2> QED BY <1>12, <2>2, <2>3, <2>4, <2>5, SplitPaneSteps
<1>13. CASE TypePane(p)
  <2>1. /\ RunOK' /\ SessionOK' /\ SessionGoesOn /\ run[p].pc = "type"
        /\ Quiet(p) \/ Loud(p)
    BY <1>13, TypePaneSteps
  <2>2. CASE run'[p] = Done(p, "failed")
    BY <1>3, <2>1, <2>2, DoneInPlace
  <2>3. CASE run'[p].at = run[p].at
    <3>1. There(run[p])
      BY <1>1, <2>1, PaneStaysThere DEF PaneIsThere
    <3> QED BY <1>2, <2>1, <2>3, <3>1
  <2> QED BY <1>13, <2>1, <2>2, <2>3, TypePaneSteps
<1>14. CASE Layout(p)
  <2>1. NextWindow(p).pc = "window"
    BY DEF NextWindow, To, RunOK, Run
  <2> QED BY <1>3, <1>14, <2>1, LayoutSteps, SessionStays, DoneInPlace DEF Quiet
<1>15. CASE KillSession(p)
  BY <1>3, <1>15, KillSessionSteps, ToIs, DoneInPlace DEF RunPcs
<1>16. CASE RemoveTree(p)
  BY <1>3, <1>16, RemoveTreeSteps, SessionStays, DoneInPlace DEF PrunesOn
<1> QED BY <1>4, <1>5, <1>6, <1>7, <1>8, <1>9, <1>10, <1>11, <1>12, <1>13, <1>14, <1>15,
           <1>16 DEF RunStep

\* The user's steps in the session.
LEMMA UserKeepsSession ==
    ASSUME SessionOK, UserNext
    PROVE  SessionOK' /\ SessionGoesOn /\ run' = Disturbed
<1>1. run' = Disturbed
  BY UserKeepsRepo DEF UserStep
<1>2. CASE \E t \in Trees : Work(t) \/ CommitTree(t) \/ DeleteTree(t) \/ Occupy(t)
  BY <1>1, <1>2, SessionStays DEF Work, CommitTree, DeleteTree, Occupy, Becoming
<1>3. ASSUME NEW title \in Titles, OpenWindow(title)
      PROVE  SessionOK' /\ SessionGoesOn
  <2> DEFINE w == [id |-> opened + 1, name |-> title, ours |-> FALSE,
                   panes |-> <<NewPane(Main)>>]
  <2>1. /\ opened' = opened + 1
        /\ session' = Append(IF session = None THEN <<>> ELSE session, w)
    BY <1>3 DEF OpenWindow
  <2>2. w \in Window /\ w.id = opened + 1
    <3>1. NewPane(Main) \in Pane
      BY DEF NewPane, Pane, Dirs
    <3>2. <<NewPane(Main)>> \in Seq(Pane) \ {<<>>}
      BY <3>1
    <3> QED BY <3>2 DEF Window, SessionOK
  <2> HIDE DEF w
  <2> QED BY <2>1, <2>2, WindowOpens
<1>4. ASSUME session # None, NEW i \in DOMAIN session, CloseWindow(i)
      PROVE  SessionOK' /\ SessionGoesOn
  BY <1>4, WindowCloses DEF CloseWindow
<1> QED BY <1>1, <1>2, <1>3, <1>4 DEF UserNext

\* A disturbed run is at the pane it was at.
LEMMA DisturbedThere ==
    ASSUME RunOK, SessionOK, SessionOK', SessionGoesOn, PanesThere, run' = Disturbed
    PROVE  PanesThere'
<1>1. ASSUME NEW q \in Terminals, run'[q].pc \in {"split", "type"}
      PROVE  /\ run'[q].at[1] \in 1 .. opened'
             /\ session' # None =>
                   \A i \in DOMAIN session' :
                      session'[i].id = run'[q].at[1] => run'[q].at[2] \in DOMAIN session'[i].panes
  <2>1. run'[q] = Disturb(run[q]) /\ run[q] \in Run
    BY AllDisturbed DEF RunOK
  <2>2. run[q].pc # "idle"
    BY <1>1, <2>1 DEF Disturb, NoRun
  <2>3. run'[q].pc = run[q].pc /\ run'[q].at = run[q].at
    <3>1. run'[q] = [run[q] EXCEPT !.calm = FALSE]
      BY <2>1, <2>2 DEF Disturb
    <3> QED BY <2>1, <3>1 DEF Run
  <2>4. PaneIsThere(run[q])
    BY DEF PanesThere
  <2>5. /\ run[q].at[1] \in 1 .. opened
        /\ session # None =>
              \A i \in DOMAIN session :
                 session[i].id = run[q].at[1] => run[q].at[2] \in DOMAIN session[i].panes
    BY <1>1, <2>3, <2>4 DEF PaneIsThere
  <2>6. /\ run[q].at[1] \in 1 .. opened'
        /\ session' # None =>
              \A i \in DOMAIN session' :
                 session'[i].id = run[q].at[1] => run[q].at[2] \in DOMAIN session'[i].panes
    BY <2>5, PaneStaysThere
  <2> QED BY <2>3, <2>6
<1> QED BY <1>1 DEF PanesThere, PaneIsThere

-----------------------------------------------------------------------------
(***************************************************************************)
(* Type correctness.                                                       *)
(***************************************************************************)

\* What git lists has its branch, and was made after a first commit; at the path
\* of what it does not list there is nothing of a run's.
GitOK ==
    /\ listed \subseteq Trees /\ branches \subseteq Branches /\ DiskOK
    /\ \A t \in Trees \ listed : disk[t] \in {"absent", "foreign"}
    /\ listed # {} => main.head # None
    /\ \A t \in listed : BranchOf[t] \in branches

WsInv == RepoTypeOK /\ GitOK /\ RunOK /\ SessionOK /\ PanesThere

\* Once there is a commit there always is one.
LEMMA HeadStays ==
    ASSUME RepoTypeOK, RepoNext, main.head # None
    PROVE  main'.head # None
<1>1. main \in Checkout /\ main.git /\ main.staged # None /\ main.files # None
  BY NoneAssumption DEF RepoTypeOK, Checkout
<1>2. CASE JobStep
  <2>1. CASE Stat \/ View \/ GhCreate \/ GhTopics
    BY <2>1 DEF Stat, View, GhCreate, GhTopics
  <2>2. CASE Clone
    BY <1>1, <2>2 DEF Clone
  <2>3. CASE GitInit
    BY <1>1, <2>3 DEF GitInit, Checkout
  <2>4. CASE Generate
    BY <1>1, <2>4 DEF Generate, Checkout
  <2>5. CASE GitAdd
    BY <1>1, <2>5 DEF GitAdd, Checkout
  <2>6. CASE GitCommit
    BY <1>1, <2>6 DEF GitCommit, Checkout
  <2> QED BY <1>2, <2>1, <2>2, <2>3, <2>4, <2>5, <2>6 DEF JobStep
<1>3. CASE \E published \in BOOLEAN, dry \in DryRuns : StartGit(published, dry)
  BY <1>3 DEF StartGit
<1>4. CASE JobFails
  BY <1>4 DEF JobFails
<1>5. CASE Save \/ UserInit \/ UserCommit \/ TheyCreate
  BY <1>1, <1>5 DEF Save, UserInit, UserCommit, TheyCreate, Checkout
<1> QED BY <1>2, <1>3, <1>4, <1>5 DEF RepoNext

\* git worktree add and remove keep it.
LEMMA TreesStayOK ==
    ASSUME GitOK, RunOK, NEW p \in Terminals, AddTree(p) \/ RemoveTree(p)
    PROVE  GitOK'
<1>0. main' = main
  BY DEF AddTree, RemoveTree, repoVars
<1>1. CASE UNCHANGED <<listed, disk, branches>>
  BY <1>0, <1>1 DEF GitOK, DiskOK
<1>2. CASE AddTree(p) /\ ~UNCHANGED <<listed, disk, branches>>
  <2> DEFINE t == Worktrees[run[p].i]
  <2>1. /\ run[p].i \in 1 .. Len(Worktrees) /\ CanAdd(t, run[p].reuse)
        /\ listed' = listed \cup {t} /\ disk' = [disk EXCEPT ![t] = "clean"]
        /\ branches' = branches \cup {BranchOf[t]}
    BY <1>2, AddTreeSteps
  <2>2. t \in Trees
    BY <2>1, Declared
  <2> HIDE DEF t
  <2>3. main.head # None
    BY <2>1 DEF CanAdd
  <2>4. BranchOf[t] \in Branches
    BY <2>2 DEF Branches
  <2> QED BY <1>0, <2>1, <2>2, <2>3, <2>4 DEF GitOK, DiskOK
<1>3. CASE RemoveTree(p) /\ ~UNCHANGED <<listed, disk, branches>>
  <2> DEFINE t == Worktrees[run[p].i]
  <2>1. /\ run[p].i \in 1 .. Len(Worktrees)
        /\ listed' = listed \ {t} /\ disk' = [disk EXCEPT ![t] = "absent"]
        /\ branches' = branches
    BY <1>3, RemoveTreeSteps
  <2>2. t \in Trees
    BY <2>1, Declared
  <2> HIDE DEF t
  <2> QED BY <1>0, <2>1, <2>2 DEF GitOK, DiskOK
<1> QED BY <1>1, <1>2, <1>3

LEMMA OtherCommandsLeaveTrees ==
    ASSUME NEW p \in Terminals, RunStep(p), ~AddTree(p), ~RemoveTree(p)
    PROVE  UNCHANGED <<main, listed, disk, branches>>
BY DEF RunStep, List, Tree, HasSession, ListWindows, NewWindow, TypeRun, FirstPane,
       SplitPane, TypePane, Layout, KillSession, repoVars

\* The user's steps in the worktrees.
LEMMA UserKeepsTrees ==
    ASSUME GitOK, UserNext
    PROVE  GitOK'
<1>1. main' = main
  BY UserKeepsRepo DEF UserStep
<1>2. CASE UNCHANGED <<listed, disk, branches>>
  BY <1>1, <1>2 DEF GitOK, DiskOK
<1>3. ASSUME NEW t \in Trees, Work(t) \/ CommitTree(t) \/ DeleteTree(t) \/ Occupy(t)
      PROVE  GitOK'
  <2>1. UNCHANGED <<listed, branches>>
    BY <1>3 DEF Work, CommitTree, DeleteTree, Occupy, Becoming
  <2>2. \/ disk[t] \in {"clean", "dirty"} /\ disk' = [disk EXCEPT ![t] = "dirty"]
        \/ disk[t] \in {"clean", "dirty"} /\ disk' = [disk EXCEPT ![t] = "clean"]
        \/ disk' = [disk EXCEPT ![t] = "absent"]
        \/ disk' = [disk EXCEPT ![t] = "foreign"]
    BY <1>3 DEF Work, CommitTree, DeleteTree, Occupy, Becoming
  <2> QED BY <1>1, <2>1, <2>2 DEF GitOK, DiskOK
<1> QED BY <1>2, <1>3 DEF UserNext, OpenWindow, CloseWindow

\* The inductive invariant.
LEMMA WsInvariant == Spec => []WsInv
<1>1. Init => WsInv
  <2> SUFFICES ASSUME Init PROVE WsInv
    OBVIOUS
  <2>1. RunOK /\ PanesThere
    BY NoRunInPlace DEF Init, RunOK, PanesThere, PaneIsThere, NoRun
  <2>2. SessionOK
    BY DEF Init, SessionOK
  <2>3. GitOK
    BY DEF Init, GitOK, DiskOK
  <2> QED BY <2>1, <2>2, <2>3, RepoInitType DEF WsInv, Init
<1>2. WsInv /\ RepoTypeOK' /\ [Next]_vars => WsInv'
  <2> SUFFICES ASSUME WsInv, RepoTypeOK', [Next]_vars
               PROVE  GitOK' /\ RunOK' /\ SessionOK' /\ PanesThere'
    BY DEF WsInv
  <2>0. RepoTypeOK /\ GitOK /\ RunOK /\ SessionOK /\ PanesThere
    BY DEF WsInv
  <2>1. CASE MakeRepo
    <3>1. UNCHANGED <<listed, disk, branches, session, opened>> /\ RepoNext
      BY <2>1 DEF MakeRepo
    <3>2. GitOK'
      BY <2>0, <3>1, HeadStays DEF GitOK, DiskOK
    <3>3. SessionOK' /\ SessionGoesOn
      BY <2>0, <3>1, SessionStays
    <3>4. CASE run' = run
      BY <2>0, <3>1, <3>2, <3>3, <3>4 DEF RunOK, PanesThere, PaneIsThere
    <3>5. CASE run' = Disturbed
      BY <2>0, <3>2, <3>3, <3>5, AllDisturbed, DisturbedThere
    <3> QED BY <2>1, <3>4, <3>5 DEF MakeRepo
  <2>2. ASSUME NEW p \in Terminals, NEW op \in {"up", "down", "prune"}, NEW dry \in DryRuns,
               StartRun(p, op, dry)
        PROVE  GitOK' /\ RunOK' /\ SessionOK' /\ PanesThere'
    <3>1. /\ RunOK' /\ Quiet(p) /\ UNCHANGED <<main, listed, disk, branches, session, opened>>
          /\ run'[p].pc \in {"list", "has"}
      BY <2>0, <2>2, StartRunSteps DEF Quiet
    <3> QED BY <2>0, <3>1, SessionStays DEF GitOK, DiskOK, Quiet, PanesThere, PaneIsThere
  <2>3. ASSUME NEW p \in Terminals, RunFails(p)
        PROVE  GitOK' /\ RunOK' /\ SessionOK' /\ PanesThere'
    <3>1. /\ RunOK' /\ Quiet(p) /\ UNCHANGED <<main, listed, disk, branches, session, opened>>
          /\ run'[p].pc \in {"idle", "prune"}
      BY <2>0, <2>3, RunFailsSteps DEF Quiet, NoRun
    <3> QED BY <2>0, <3>1, SessionStays DEF GitOK, DiskOK, Quiet, PanesThere, PaneIsThere
  <2>4. ASSUME NEW p \in Terminals, RunStep(p)
        PROVE  GitOK' /\ RunOK' /\ SessionOK' /\ PanesThere'
    <3>1. RunOK' /\ SessionOK' /\ PanesThere'
      BY <2>0, <2>4, RunStepTyped DEF GitOK
    <3>2. CASE AddTree(p) \/ RemoveTree(p)
      BY <2>0, <3>1, <3>2, TreesStayOK
    <3>3. CASE ~AddTree(p) /\ ~RemoveTree(p)
      BY <2>0, <2>4, <3>1, <3>3, OtherCommandsLeaveTrees DEF GitOK, DiskOK
    <3> QED BY <3>2, <3>3
  <2>5. CASE UserNext
    BY <2>0, <2>5, UserKeepsTrees, UserKeepsSession, AllDisturbed, DisturbedThere
  <2>6. CASE UNCHANGED vars
    BY <2>0, <2>6, SessionStays DEF vars, wsVars, repoVars, GitOK, DiskOK, RunOK, PanesThere, PaneIsThere
  <2> QED BY <2>1, <2>2, <2>3, <2>4, <2>5, <2>6 DEF Next
<1> QED BY <1>1, <1>2, RepoTypeCorrect, PTL DEF Spec

\* Type correctness of the workspace: the worktrees git lists, what is at their
\* paths, the session and the runs (workspace.go).
THEOREM WorkspaceTypeCorrect == Spec => []TypeOK
<1>1. WsInv => TypeOK
  <2> SUFFICES ASSUME WsInv PROVE TypeOK
    OBVIOUS
  <2>1. RepoTypeOK /\ GitOK /\ RunOK /\ SessionOK
    BY DEF WsInv
  <2>2. listed # {} => main.head # None /\ {BranchOf[t] : t \in listed} \subseteq branches
    BY <2>1 DEF GitOK
  <2>3. session # None => /\ Len(session) \in 1 .. opened
                          /\ \A i \in DOMAIN session : session[i].panes \in Seq(Pane) \ {<<>>}
    <3> SUFFICES ASSUME session # None
                 PROVE  /\ Len(session) \in 1 .. opened
                        /\ \A i \in DOMAIN session : session[i].panes \in Seq(Pane) \ {<<>>}
      OBVIOUS
    <3>1. session \in Seq(Window) /\ session # <<>> /\ Len(session) <= opened
      BY <2>1 DEF SessionOK
    <3>2. Len(session) \in Nat \ {0}
      BY <3>1, EmptySeq, LenProperties
    <3>3. \A i \in DOMAIN session : session[i] \in Window
      BY <3>1
    <3> QED BY <2>1, <3>1, <3>2, <3>3 DEF Window, SessionOK
  <2>4. ASSUME NEW p \in Terminals
        PROVE  /\ DOMAIN run[p] = DOMAIN NoRun
               /\ run[p].pc = "idle" <=> run[p].result # "none" \/ run[p].op = "none"
    BY <2>1 DEF RunOK, Run, NoRun, InPlace
  <2> QED BY <2>1, <2>2, <2>3, <2>4 DEF TypeOK, GitOK, DiskOK
<1> QED BY <1>1, WsInvariant, PTL

-----------------------------------------------------------------------------
(***************************************************************************)
(* What down leaves.                                                       *)
(***************************************************************************)

\* Of the worktrees before the r.i-th, git lists those it refused to remove,
\* and r.errs says if there is one; the others are as the run found them (Down).
PrunedSoFar(r) ==
    /\ main.git
    /\ \A j \in 1 .. Len(Worktrees) :
          LET t == Worktrees[j]
          IN  /\ j < r.i => (t \in listed => disk[t] \in {"dirty", "foreign"})
              /\ j >= r.i => (t \in r.have <=> t \in listed)
    /\ r.errs <=> \E j \in 1 .. Len(Worktrees) : j < r.i /\ Worktrees[j] \in listed

DownDone(r) ==
    /\ session = None
    /\ r.op = "down" => r.result = "ok"
    /\ r.op = "prune" =>
          /\ main.git => \A t \in listed : disk[t] \in {"dirty", "foreign"}
          /\ r.result = "ok" <=> main.git /\ listed = {}

\* Where an undisturbed down is, and what it has done by then.
DownProceeds(p) ==
    LET r == run[p]
    IN  r.calm /\ ~r.dry /\ r.op \in {"down", "prune"} =>
            /\ r.pc \in {"has", "kill", "list"} => ~r.errs
            /\ r.pc = "kill" => session # None
            /\ r.pc \in {"list", "prune"} => session = None
            /\ r.pc = "prune" => PrunedSoFar(r)
            /\ r.pc = "idle" => DownDone(r)

\* A run of up, or one that was disturbed or forgotten, promises none of it.
LEMMA NothingOfDown ==
    ASSUME NEW p \in Terminals, run'[p].op \in {"up", "none"} \/ ~run'[p].calm
    PROVE  DownProceeds(p)'
BY DEF DownProceeds

\* The other runs are told of what changes (Becomes, UserStep).
LEMMA OthersProceed ==
    ASSUME RunOK, NEW p \in Terminals, \A q \in Terminals : DownProceeds(q),
           \/ Quiet(p) /\ UNCHANGED <<main, listed, disk>>
           \/ Loud(p)
    PROVE  \A q \in Terminals \ {p} : DownProceeds(q)'
<1> SUFFICES ASSUME NEW q \in Terminals \ {p} PROVE DownProceeds(q)'
  OBVIOUS
<1>1. CASE Quiet(p) /\ UNCHANGED <<main, listed, disk>>
  <2>1. run'[q] = run[q] /\ UNCHANGED <<main, listed, disk, session>>
    BY <1>1 DEF Quiet
  <2> QED BY <2>1 DEF DownProceeds, PrunedSoFar, DownDone
<1>2. CASE Loud(p)
  <2>1. run'[q] = Disturb(run[q])
    BY <1>2 DEF Loud
  <2>2. run[q] \in Run /\ InPlace(run[q])
    BY DEF RunOK
  <2>3. run'[q] = NoRun \/ ~run'[q].calm
    BY <2>1, <2>2, DisturbedInPlace
  <2> QED BY <2>3, NothingOfDown DEF NoRun
<1> QED BY <1>1, <1>2

\* A run that ends remembers what it was of, if it does.
LEMMA DoneOf ==
    ASSUME RunOK, NEW p \in Terminals, NEW result \in {"ok", "failed"}, run[p].pc # "idle"
    PROVE  Done(p, result).op \in {run[p].op, "none"}
<1>1. CASE run[p].calm /\ ~run[p].dry
  BY <1>1, DoneInPlace
<1>2. CASE ~(run[p].calm /\ ~run[p].dry)
  BY <1>2, DoneInPlace DEF NoRun
<1> QED BY <1>1, <1>2

\* What a run of up does is no matter of down's.
LEMMA UpProceeds ==
    ASSUME RunOK, SessionOK, PanesThere, listed \subseteq Trees, NEW p \in Terminals,
           \/ Tree(p) \/ AddTree(p) \/ ListWindows(p) \/ NewWindow(p) \/ TypeRun(p)
           \/ FirstPane(p) \/ SplitPane(p) \/ TypePane(p) \/ Layout(p)
    PROVE  run'[p].op \in {"up", "none"}
<1>1. /\ run[p].pc \in {"tree", "add", "windows", "window", "keys", "panes", "split", "type",
                        "layout"}
      /\ InPlace(run[p]) /\ run[p] \in Run
  BY DEF RunOK, Tree, AddTree, ListWindows, NewWindow, TypeRun, FirstPane, SplitPane,
         TypePane, Layout, At
<1>2. run[p].op = "up" /\ run[p].pc # "idle" /\ run[p].result = "none"
  BY <1>1 DEF InPlace
<1>3. Done(p, "ok").op \in {"up", "none"} /\ Done(p, "failed").op \in {"up", "none"}
  BY <1>2, DoneOf
<1>4. \A pc \in RunPcs : To(p, pc).op = "up"
  BY <1>2, ToIs
<1>5. To(p, "has").op = "up" /\ To(p, "layout").op = "up" /\ To(p, "type").op = "up"
      /\ To(p, "panes").op = "up"
  BY <1>4 DEF RunPcs
<1>6. CASE Tree(p) \/ AddTree(p) \/ ListWindows(p)
  BY <1>2, <1>3, <1>5, <1>6, TreeSteps, AddTreeSteps, ListWindowsSteps DEF GoesOn, GoesTo
<1>7. ASSUME run[p].i \in 1 .. Len(Windows) PROVE NextWindow(p).op = "up"
  BY <1>2, <1>7, NextInPlace
<1>8. CASE NewWindow(p) \/ FirstPane(p) \/ Layout(p)
  BY <1>2, <1>3, <1>5, <1>7, <1>8, NewWindowSteps, FirstPaneSteps, LayoutSteps DEF GoesTo
<1>9. CASE TypeRun(p)
  <2>1. run[p].k = 1
    BY <1>1, <1>9 DEF InPlace, TypeRun, At
  <2>2. run[p].i \in 1 .. Len(Windows)
    BY <1>9, TypeRunSteps
  <2>3. AfterRun(p).op = "up"
    BY <1>2, <1>5, <1>7, <2>1, <2>2, AfterRunIs
  <2> QED BY <1>3, <1>9, <2>3, TypeRunSteps
<1>10. CASE SplitPane(p)
  BY <1>2, <1>3, <1>5, <1>10, SplitPaneSteps DEF SplitsWindow, GoesTo
<1>11. CASE TypePane(p)
  BY <1>2, <1>3, <1>11, TypePaneSteps DEF GoesTo
<1> QED BY <1>6, <1>8, <1>9, <1>10, <1>11

\* Whether there is a session, and git's list of worktrees (workspaceCmd, Down).
LEMMA DownLooks ==
    ASSUME RunOK, listed \subseteq Trees, NEW p \in Terminals, DownProceeds(p),
           HasSession(p) \/ List(p)
    PROVE  DownProceeds(p)'
<1>1. /\ InPlace(run[p]) /\ run[p] \in Run /\ run[p].pc \in {"has", "list"}
      /\ run[p].pc # "idle"
  BY DEF RunOK, HasSession, List, At
<1>2. UNCHANGED <<main, listed, disk, session>>
  BY HasSessionSteps, ListSteps DEF Quiet
<1>3. CASE run'[p].op \in {"up", "none"} \/ ~run'[p].calm
  BY <1>3, NothingOfDown
<1>4. CASE HasSession(p) /\ ~(run'[p].op \in {"up", "none"} \/ ~run'[p].calm)
  <2>1. \/ run[p].op # "up" /\ session # None /\ run'[p] = To(p, "kill")
        \/ run[p].op = "prune" /\ session = None /\ run'[p] = To(p, "list")
        \/ run[p].op = "down" /\ session = None /\ run'[p] = Done(p, "ok")
    BY <1>4, HasSessionSteps DEF GoesOn
  <2>2. run[p].pc = "has"
    BY <1>4, HasSessionSteps
  <2>3. ASSUME NEW pc \in {"kill", "list"}, run'[p] = To(p, pc),
               pc = "kill" <=> session # None
        PROVE  DownProceeds(p)'
    <3>1. /\ run'[p].pc = pc /\ run'[p].op = run[p].op /\ run'[p].errs = run[p].errs
          /\ run'[p].calm = run[p].calm /\ run'[p].dry = run[p].dry
      BY <2>3, ToIs DEF RunPcs
    <3> QED BY <1>2, <2>2, <2>3, <3>1 DEF DownProceeds
  <2>4. CASE run[p].op = "down" /\ session = None /\ run'[p] = Done(p, "ok")
    <3>1. Done(p, "ok") # NoRun
      BY <1>4, <2>4 DEF NoRun
    <3>2. run'[p].op = "down" /\ run'[p].result = "ok" /\ run'[p].pc = "idle"
      BY <1>1, <2>4, <3>1, DoneInPlace
    <3> QED BY <1>2, <2>4, <3>2 DEF DownProceeds, DownDone
  <2> QED BY <2>1, <2>3, <2>4
<1>5. CASE List(p) /\ ~(run'[p].op \in {"up", "none"} \/ ~run'[p].calm)
  <2>1. run[p].pc = "list"
    BY <1>5, ListSteps
  <2>2. CASE ~main.git /\ run'[p] = Done(p, "failed")
    <3>1. Done(p, "failed") # NoRun
      BY <1>5, <2>2 DEF NoRun
    <3>2. /\ run[p].calm /\ ~run[p].dry
          /\ run'[p].op = run[p].op /\ run'[p].result = "failed" /\ run'[p].pc = "idle"
      BY <1>1, <2>2, <3>1, DoneInPlace
    <3>3. run[p].op = "prune"
      BY <1>1, <1>5, <2>1, <3>2 DEF InPlace
    <3>4. session = None
      BY <2>1, <3>2, <3>3 DEF DownProceeds
    <3> QED BY <1>2, <2>2, <3>2, <3>3, <3>4 DEF DownProceeds, DownDone
  <2>3. CASE /\ main.git /\ GoesOn(p, IF run[p].op = "up" THEN "tree" ELSE "prune")
             /\ run'[p].have = listed /\ run'[p].i = 1 /\ run'[p].errs = run[p].errs
    <3>1. run'[p].pc = "prune" /\ run'[p].op = "prune" /\ run[p].op = "prune"
          /\ run'[p].dry = run[p].dry /\ run'[p].calm = run[p].calm
      BY <1>1, <1>5, <2>1, <2>3 DEF GoesOn, InPlace
    <3>2. ASSUME ~run'[p].dry
          PROVE  session = None /\ ~run[p].errs
      BY <1>5, <2>1, <3>1, <3>2 DEF DownProceeds
    <3>3. ASSUME ~run'[p].errs
          PROVE  PrunedSoFar(run[p])'
      BY <1>2, <2>3, <3>3 DEF PrunedSoFar
    <3> QED BY <1>2, <2>3, <3>1, <3>2, <3>3 DEF DownProceeds
  <2> QED BY <1>5, <2>2, <2>3, ListSteps
<1> QED BY <1>3, <1>4, <1>5

\* tmux kill-session (Down).
LEMMA DownKills ==
    ASSUME RunOK, SessionOK, NEW p \in Terminals, DownProceeds(p), KillSession(p)
    PROVE  DownProceeds(p)'
<1>1. InPlace(run[p]) /\ run[p] \in Run /\ run[p].pc = "kill" /\ run[p].pc # "idle"
  BY DEF RunOK, KillSession, At
<1>2. run[p].op \in {"down", "prune"}
  BY <1>1 DEF InPlace
<1>3. CASE run'[p].op \in {"up", "none"} \/ ~run'[p].calm \/ run'[p].dry
  BY <1>3 DEF DownProceeds
<1>4. CASE ~(run'[p].op \in {"up", "none"} \/ ~run'[p].calm \/ run'[p].dry)
  <2>1. ASSUME NEW result \in {"ok", "failed"}, run'[p] = Done(p, result)
        PROVE  /\ run[p].calm /\ ~run[p].dry
               /\ run'[p].op = run[p].op /\ run'[p].result = result /\ run'[p].pc = "idle"
    <3>1. Done(p, result) # NoRun
      BY <1>4, <2>1 DEF NoRun
    <3> QED BY <1>1, <2>1, <3>1, DoneInPlace
  <2>2. CASE run[p].op = "prune" /\ run'[p] = To(p, "list")
    <3>1. /\ run'[p].pc = "list" /\ run'[p].op = "prune" /\ run'[p].errs = run[p].errs
          /\ run'[p].calm = run[p].calm /\ run'[p].dry = run[p].dry
      BY <2>2, ToIs DEF RunPcs
    <3>2. ~run[p].errs
      BY <1>1, <1>2, <1>4, <3>1 DEF DownProceeds
    <3>3. session' = None
      BY <1>4, <3>1, <2>2, KillSessionSteps DEF Quiet
    <3> QED BY <3>1, <3>2, <3>3 DEF DownProceeds
  <2>3. CASE run[p].op = "down" /\ run'[p] = Done(p, "ok")
    <3>1. session' = None
      BY <2>1, <2>3, KillSessionSteps
    <3> QED BY <2>1, <2>3, <3>1 DEF DownProceeds, DownDone
  <2>4. CASE session = None /\ run'[p] = Done(p, "failed")
    BY <1>1, <1>2, <2>1, <2>4 DEF DownProceeds
  <2> QED BY <1>2, <2>2, <2>3, <2>4, KillSessionSteps
<1> QED BY <1>3, <1>4

\* git worktree remove, of one worktree after the other (Down).
LEMMA DownPrunes ==
    ASSUME RunOK, GitOK, NEW p \in Terminals, DownProceeds(p), RemoveTree(p)
    PROVE  DownProceeds(p)'
<1> DEFINE r == run[p]
           i == r.i
           t == Worktrees[i]
<1>1. InPlace(r) /\ r \in Run /\ r.pc = "prune" /\ r.pc # "idle" /\ r.op = "prune"
  BY RemoveTreeSteps DEF RunOK, InPlace
<1>2. i \in 1 .. Len(Worktrees) + 1 /\ Len(Worktrees) \in Nat
  BY <1>1, Declared DEF InPlace
<1>3. UNCHANGED <<main, session>>
  BY DEF RemoveTree, repoVars
<1>4. CASE run'[p].op \in {"up", "none"} \/ ~run'[p].calm \/ run'[p].dry
  BY <1>4 DEF DownProceeds
<1>5. CASE /\ ~(run'[p].op \in {"up", "none"} \/ ~run'[p].calm \/ run'[p].dry)
           /\ i = Len(Worktrees) + 1
  <2>1. /\ run'[p] = Done(p, IF r.errs THEN "failed" ELSE "ok")
        /\ UNCHANGED <<listed, disk>>
    BY <1>2, <1>5, RemoveTreeSteps
  <2>2. run'[p] # NoRun
    BY <1>5 DEF NoRun
  <2>3. /\ r.calm /\ ~r.dry /\ run'[p].op = "prune" /\ run'[p].pc = "idle"
        /\ run'[p].result = IF r.errs THEN "failed" ELSE "ok"
    BY <1>1, <2>1, <2>2, DoneInPlace
  <2>4. session = None /\ PrunedSoFar(r)
    BY <1>1, <2>3 DEF DownProceeds
  <2>5. \A u \in listed : \E j \in 1 .. Len(Worktrees) : j < i /\ Worktrees[j] = u
    BY <1>2, <1>5, Declared DEF GitOK, Trees
  <2>6. \A u \in listed : disk[u] \in {"dirty", "foreign"}
    BY <2>4, <2>5 DEF PrunedSoFar
  <2>7. r.errs <=> listed # {}
    BY <2>4, <2>5 DEF PrunedSoFar
  <2> QED BY <1>3, <2>1, <2>3, <2>4, <2>6, <2>7 DEF DownProceeds, DownDone, PrunedSoFar
<1>6. CASE /\ ~(run'[p].op \in {"up", "none"} \/ ~run'[p].calm \/ run'[p].dry)
           /\ i \in 1 .. Len(Worktrees)
  <2>1. /\ run'[p].pc = "prune" /\ run'[p].op = "prune" /\ run'[p].i = i + 1
        /\ run'[p].have = r.have /\ r.calm /\ ~r.dry
    BY <1>2, <1>5, <1>6, RemoveTreeSteps DEF PrunesOn
  <2>2. session = None /\ PrunedSoFar(r)
    BY <1>1, <2>1 DEF DownProceeds
  <2>3. /\ t \in Trees /\ disk[t] \in {"absent", "clean", "dirty", "foreign"}
        /\ \A j \in 1 .. Len(Worktrees) : Worktrees[j] = t => j = i
        /\ \A j \in 1 .. Len(Worktrees) : Worktrees[j] \in Trees
    BY <1>6, Declared, WorktreesAssumption DEF GitOK, DiskOK
  <2>4. t \in r.have <=> t \in listed
    BY <1>2, <1>6, <2>2 DEF PrunedSoFar
  <2>5. PrunedSoFar(r)'
    <3>1. \/ /\ t \notin listed /\ run'[p].errs = r.errs /\ UNCHANGED <<listed, disk>>
          \/ /\ t \in listed /\ disk[t] \in {"dirty", "foreign"} /\ run'[p].errs
             /\ UNCHANGED <<listed, disk>>
          \/ /\ t \in listed /\ run'[p].errs = r.errs
             /\ listed' = listed \ {t} /\ disk' = [disk EXCEPT ![t] = "absent"]
      BY <1>2, <1>6, <2>1, <2>3, <2>4, RemoveTreeSteps DEF CanRemove
    <3>2. \A j \in 1 .. Len(Worktrees) : j < i + 1 <=> j < i \/ j = i
      BY <1>2
    <3>3. \A j \in 1 .. Len(Worktrees) : j >= i + 1 => j >= i /\ j # i
      BY <1>2
    <3>4. main'.git
      BY <1>3, <2>2 DEF PrunedSoFar
    <3>5. ASSUME NEW j \in 1 .. Len(Worktrees)
          PROVE  LET u == Worktrees[j]
                 IN  /\ j < i + 1 => (u \in listed' => disk'[u] \in {"dirty", "foreign"})
                     /\ j >= i + 1 => (u \in r.have <=> u \in listed')
      <4> DEFINE u == Worktrees[j]
      <4>1. /\ j < i => (u \in listed => disk[u] \in {"dirty", "foreign"})
            /\ j >= i => (u \in r.have <=> u \in listed)
        BY <2>2 DEF PrunedSoFar
      <4>2. u = t => j = i
        BY <2>3
      <4>3. u \in Trees /\ disk \in [Trees -> {"absent", "clean", "dirty", "foreign"}]
        BY <2>3 DEF GitOK, DiskOK
      <4>4. u # t => (u \in listed' <=> u \in listed) /\ disk'[u] = disk[u]
        BY <3>1, <4>3
      <4>5. t \in listed' => disk'[t] \in {"dirty", "foreign"}
        BY <3>1
      <4> HIDE DEF u, t
      <4> QED BY <3>2, <3>3, <4>1, <4>2, <4>4, <4>5 DEF u, t
    <3>6. run'[p].errs <=> \E j \in 1 .. Len(Worktrees) : j < i + 1 /\ Worktrees[j] \in listed'
      <4>1. r.errs <=> \E j \in 1 .. Len(Worktrees) : j < i /\ Worktrees[j] \in listed
        BY <2>2 DEF PrunedSoFar
      <4>2. \A j \in 1 .. Len(Worktrees) : j < i => Worktrees[j] # t
        BY <1>2, <2>3
      <4>3. run'[p].errs <=> r.errs \/ t \in listed'
        BY <3>1
      <4>4. \A j \in 1 .. Len(Worktrees) :
               j < i => (Worktrees[j] \in listed' <=> Worktrees[j] \in listed)
        BY <3>1, <4>2
      <4> QED BY <1>6, <3>2, <4>1, <4>3, <4>4
    <3> QED BY <2>1, <3>4, <3>5, <3>6 DEF PrunedSoFar
  <2> QED BY <1>3, <2>1, <2>2, <2>5 DEF DownProceeds
<1> QED BY <1>2, <1>4, <1>5, <1>6

\* DownDelivers, of every workspace: undisturbed, down leaves no session, and with
\* prune no worktree but those with work in them or not git's, and says so (Down).
THEOREM DownIsDone == Spec => []DownDelivers
<1> DEFINE Inv == \A p \in Terminals : DownProceeds(p)
<1>1. Init => Inv
  BY NoRunInPlace DEF Init, NoRun, DownProceeds
<1>2. WsInv /\ Inv /\ [Next]_vars => Inv'
  <2> SUFFICES ASSUME WsInv, Inv, [Next]_vars, NEW q \in Terminals
               PROVE  DownProceeds(q)'
    OBVIOUS
  <2>0. RunOK /\ SessionOK /\ PanesThere /\ GitOK /\ listed \subseteq Trees
    BY DEF WsInv, GitOK
  <2>1. ASSUME UNCHANGED <<main, listed, disk, session, run>>
        PROVE  DownProceeds(q)'
    BY <2>1 DEF DownProceeds, PrunedSoFar, DownDone
  <2>2. ASSUME run' = Disturbed
        PROVE  DownProceeds(q)'
    <3>1. run'[q] = NoRun \/ ~run'[q].calm
      BY <2>0, <2>2, AllDisturbed, DisturbedInPlace DEF RunOK
    <3> QED BY <3>1, NothingOfDown DEF NoRun
  <2>3. CASE MakeRepo
    BY <2>1, <2>2, <2>3 DEF MakeRepo
  <2>4. ASSUME NEW p \in Terminals, NEW op \in {"up", "down", "prune"}, NEW dry \in DryRuns,
               StartRun(p, op, dry)
        PROVE  DownProceeds(q)'
    <3>1. Quiet(p) /\ UNCHANGED <<main, listed, disk>>
      BY <2>0, <2>4, StartRunSteps
    <3>2. DownProceeds(p)'
      <4>1. run'[p].pc \in {"list", "has"} /\ ~run'[p].errs
            /\ (run'[p].pc = "list" => run'[p].op = "up")
        BY <2>0, <2>4, StartRunSteps
      <4> QED BY <4>1 DEF DownProceeds
    <3> QED BY <2>0, <3>1, <3>2, OthersProceed
  <2>5. ASSUME NEW p \in Terminals, RunFails(p)
        PROVE  DownProceeds(q)'
    <3>1. /\ Quiet(p) /\ UNCHANGED <<main, listed, disk>>
          /\ run'[p] = NoRun \/ ~run'[p].calm
      BY <2>0, <2>5, RunFailsSteps
    <3>2. DownProceeds(p)'
      BY <3>1, NothingOfDown DEF NoRun
    <3> QED BY <2>0, <3>1, <3>2, OthersProceed
  <2>6. ASSUME NEW p \in Terminals, RunStep(p)
        PROVE  DownProceeds(q)'
    <3>1. Quiet(p) \/ Loud(p)
      BY <2>0, <2>6, RunStepTyped
    <3>2. Quiet(p) /\ ~AddTree(p) /\ ~RemoveTree(p) => UNCHANGED <<main, listed, disk>>
      BY <2>6, OtherCommandsLeaveTrees
    <3>3. AddTree(p) => Loud(p) \/ UNCHANGED <<main, listed, disk>>
      BY <2>0, AddTreeSteps
    <3>4. RemoveTree(p) => Loud(p) \/ UNCHANGED <<main, listed, disk>>
      BY <2>0, RemoveTreeSteps DEF RemoveTree, repoVars
    <3>5. \A u \in Terminals \ {p} : DownProceeds(u)'
      BY <2>0, <3>1, <3>2, <3>3, <3>4, OthersProceed
    <3>6. DownProceeds(p)'
      <4>1. CASE HasSession(p) \/ List(p)
        BY <2>0, <4>1, DownLooks
      <4>2. CASE KillSession(p)
        BY <2>0, <4>2, DownKills
      <4>3. CASE RemoveTree(p)
        BY <2>0, <4>3, DownPrunes
      <4>4. CASE \/ Tree(p) \/ AddTree(p) \/ ListWindows(p) \/ NewWindow(p) \/ TypeRun(p)
                 \/ FirstPane(p) \/ SplitPane(p) \/ TypePane(p) \/ Layout(p)
        BY <2>0, <4>4, UpProceeds, NothingOfDown
      <4> QED BY <2>6, <4>1, <4>2, <4>3, <4>4 DEF RunStep
    <3> QED BY <3>5, <3>6
  <2>7. CASE UserNext
    BY <2>2, <2>7, UserKeepsRepo DEF UserStep
  <2>8. CASE UNCHANGED vars
    BY <2>1, <2>8 DEF vars, wsVars, repoVars
  <2> QED BY <2>3, <2>4, <2>5, <2>6, <2>7, <2>8 DEF Next
<1>3. WsInv /\ Inv => DownDelivers
  <2> SUFFICES ASSUME WsInv, Inv, NEW p \in Terminals, run[p].result # "none",
                      run[p].op \in {"down", "prune"}
               PROVE  DownDone(run[p])
    BY DEF DownDelivers, RunEnded, DownDone
  <2>1. run[p].calm /\ ~run[p].dry /\ run[p].pc = "idle"
    BY DEF WsInv, RunOK, InPlace
  <2> QED BY <2>1 DEF DownProceeds
<1> QED BY <1>1, <1>2, <1>3, WsInvariant, PTL DEF Spec

-----------------------------------------------------------------------------
(***************************************************************************)
(* Where commands are typed.                                               *)
(***************************************************************************)

\* A window of up's: its first pane is where the spec has it, or at home, and
\* commands were typed where they belong (tmuxUp).
WindowLands(w) ==
    w.ours =>
        /\ w.name \in Names
        /\ \A i \in 1 .. Len(Windows) :
              Windows[i].name = w.name => w.panes[1].dir \in {Windows[i].dir, Home}
        /\ \A k \in DOMAIN w.panes :
              w.panes[k].typed \in {None, w.panes[k].dir} \/ w.panes[k].dir = Home

WindowsLand == session # None => \A i \in DOMAIN session : WindowLands(session[i])

\* The pane a run holds by its id is in the window it is about, if up made the one
\* it found, and was started for the command that comes next (splitPanes).
PaneIsKnown(p) ==
    LET r == run[p]
    IN  r.pc \in {"split", "type"} /\ session # None =>
            \A i \in DOMAIN session :
                session[i].id = r.at[1] /\ session[i].ours =>
                    /\ session[i].name = Win(p).name
                    /\ r.pc = "split" /\ r.k = 1 => r.at[2] = 1
                    /\ r.pc = "type" /\ Win(p).panes[r.k].run =>
                          session[i].panes[r.at[2]].dir \in {Win(p).panes[r.k].dir, Home}

PanesKnown == \A p \in Terminals : PaneIsKnown(p)

\* A command is typed into a pane of the directory it belongs to (send-keys).
LEMMA TypedLands ==
    ASSUME NEW v \in Window, NEW w, Keeps(v, w), WindowLands(v), NEW k \in DOMAIN v.panes,
           NEW d, v.ours => v.panes[k].dir \in {d, Home},
           w.panes = [v.panes EXCEPT ![k] = Typed(v.panes[k], d)]
    PROVE  WindowLands(w)
<1> SUFFICES ASSUME w.ours PROVE WindowLands(w)
  BY DEF WindowLands
<1>1. v.ours /\ w.name = v.name /\ v.panes \in Seq(Pane) /\ v.panes # <<>>
  BY DEF Keeps, Window
<1>2. 1 \in DOMAIN v.panes /\ DOMAIN w.panes = DOMAIN v.panes
  BY <1>1
<1>3. w.panes[1].dir = v.panes[1].dir
  BY <1>2 DEF Keeps
<1>4. ASSUME NEW m \in DOMAIN w.panes
      PROVE  w.panes[m].typed \in {None, w.panes[m].dir} \/ w.panes[m].dir = Home
  <2>1. CASE m = k
    <3>1. w.panes[m] = Typed(v.panes[k], d)
      BY <1>2, <2>1
    <3> QED BY <1>1, <3>1 DEF Typed
  <2>2. CASE m # k
    <3>1. w.panes[m] = v.panes[m] /\ m \in DOMAIN v.panes
      BY <1>2, <1>4, <2>2
    <3> QED BY <1>1, <3>1 DEF WindowLands
  <2> QED BY <2>1, <2>2
<1> QED BY <1>1, <1>3, <1>4 DEF WindowLands

\* A new pane has no command yet (split-window).
LEMMA SplitLands ==
    ASSUME NEW v \in Window, NEW w, Keeps(v, w), WindowLands(v), NEW d,
           w.panes = Append(v.panes, NewPane(d))
    PROVE  WindowLands(w)
<1> SUFFICES ASSUME w.ours PROVE WindowLands(w)
  BY DEF WindowLands
<1>1. v.ours /\ w.name = v.name /\ v.panes \in Seq(Pane) /\ v.panes # <<>>
  BY DEF Keeps, Window
<1>2. 1 \in DOMAIN v.panes
  BY <1>1
<1>3. w.panes[1].dir = v.panes[1].dir
  BY <1>2 DEF Keeps
<1>4. ASSUME NEW m \in DOMAIN w.panes
      PROVE  \/ m \in DOMAIN v.panes /\ w.panes[m] = v.panes[m]
             \/ w.panes[m] = NewPane(d)
  BY <1>1, <1>4
<1>5. ASSUME NEW m \in DOMAIN w.panes
      PROVE  w.panes[m].typed \in {None, w.panes[m].dir} \/ w.panes[m].dir = Home
  <2>1. CASE m \in DOMAIN v.panes /\ w.panes[m] = v.panes[m]
    BY <1>1, <2>1 DEF WindowLands
  <2>2. CASE w.panes[m] = NewPane(d)
    BY <2>2 DEF NewPane
  <2> QED BY <1>4, <2>1, <2>2
<1> QED BY <1>1, <1>3, <1>5 DEF WindowLands

\* The other windows are as they were.
LEMMA OneLands ==
    ASSUME WindowsLand, session # None, NEW i \in DOMAIN session, WindowLands(session'[i]),
           DOMAIN session' = DOMAIN session,
           \A j \in DOMAIN session \ {i} : session'[j] = session[j]
    PROVE  WindowsLand'
<1>1. \A j \in DOMAIN session' : WindowLands(session'[j])
  BY DEF WindowsLand
<1> QED BY <1>1 DEF WindowsLand, WindowLands

\* A run at rest in its window, whatever becomes of the session, finds the pane
\* it knew, or none.
LEMMA PaneStaysKnown ==
    ASSUME SessionOK, SessionOK', SessionGoesOn, NEW p \in Terminals, PaneIsThere(run[p]),
           PaneIsKnown(p),
           \/ run'[p] = run[p]
           \/ run'[p].pc \notin {"split", "type"}
           \/ /\ run'[p].pc = run[p].pc /\ run'[p].i = run[p].i /\ run'[p].k = run[p].k
              /\ run'[p].at = run[p].at
    PROVE  PaneIsKnown(p)'
<1> SUFFICES ASSUME run'[p].pc \in {"split", "type"}, session' # None,
                    NEW i \in DOMAIN session',
                    session'[i].id = run'[p].at[1], session'[i].ours
             PROVE  /\ session'[i].name = Windows[run'[p].i].name
                    /\ run'[p].pc = "split" /\ run'[p].k = 1 => run'[p].at[2] = 1
                    /\ run'[p].pc = "type" /\ Windows[run'[p].i].panes[run'[p].k].run =>
                          session'[i].panes[run'[p].at[2]].dir
                              \in {Windows[run'[p].i].panes[run'[p].k].dir, Home}
  BY DEF PaneIsKnown, Win
<1>1. /\ run'[p].pc = run[p].pc /\ run'[p].i = run[p].i /\ run'[p].k = run[p].k
      /\ run'[p].at = run[p].at
  OBVIOUS
<1>2. run[p].at[1] \in 1 .. opened /\ opened \in Nat
  BY <1>1 DEF PaneIsThere, SessionOK
<1>3. ~(session'[i].id > opened)
  BY <1>1, <1>2
<1>4. session # None /\ \E j \in DOMAIN session : Keeps(session[j], session'[i])
  BY <1>3 DEF SessionGoesOn
<1>5. PICK j \in DOMAIN session : Keeps(session[j], session'[i])
  BY <1>4
<1>6. /\ session[j].id = run[p].at[1] /\ session[j].ours
      /\ session'[i].name = session[j].name
  BY <1>1, <1>5 DEF Keeps
<1>7. run[p].at[2] \in DOMAIN session[j].panes
  BY <1>1, <1>4, <1>6 DEF PaneIsThere
<1>8. session'[i].panes[run[p].at[2]].dir = session[j].panes[run[p].at[2]].dir
  BY <1>5, <1>7 DEF Keeps
<1>9. /\ session[j].name = Windows[run[p].i].name
      /\ run[p].pc = "split" /\ run[p].k = 1 => run[p].at[2] = 1
      /\ run[p].pc = "type" /\ Windows[run[p].i].panes[run[p].k].run =>
            session[j].panes[run[p].at[2]].dir
                \in {Windows[run[p].i].panes[run[p].k].dir, Home}
  BY <1>1, <1>4, <1>6 DEF PaneIsKnown, Win
<1> QED BY <1>1, <1>6, <1>8, <1>9

\* The steps that open a window or type a command by a window's name (tmuxUp).
LEMMA WindowStepsLand ==
    ASSUME NamesApart, NoNumbers, RunOK, SessionOK, WindowsLand, NEW p \in Terminals,
           NewWindow(p) \/ TypeRun(p)
    PROVE  WindowsLand'
<1>1. CASE UNCHANGED session
  BY <1>1 DEF WindowsLand, WindowLands
<1>2. CASE NewWindow(p) /\ ~UNCHANGED session
  <2> DEFINE w == StartedWindow(Win(p))
  <2>1. /\ run[p].i \in 1 .. Len(Windows) /\ w \in Window /\ opened' = opened + 1
        /\ session' = Append(IF session = None THEN <<>> ELSE session, w)
    BY <1>2, NewWindowSteps DEF Quiet
  <2>2. w.id = opened + 1
    BY DEF StartedWindow
  <2>3. WindowLands(w)
    <3>1. Win(p).name \in Names /\ Win(p).dir \in Dirs
      BY <2>1, Declared DEF Win
    <3>2. StartDir(Win(p).dir) \in {Win(p).dir, Home}
      BY <3>1, StartDirIs
    <3>3. \A i \in 1 .. Len(Windows) : Windows[i].name = Win(p).name => Windows[i] = Win(p)
      BY <2>1, Declared, WindowsAssumption DEF Win
    <3> DEFINE panes == <<NewPane(StartDir(Win(p).dir))>>
    <3>4. panes[1] = NewPane(StartDir(Win(p).dir)) /\ DOMAIN panes = {1}
      OBVIOUS
    <3>5. w.name = Win(p).name /\ w.panes = panes
      BY DEF StartedWindow
    <3> HIDE DEF panes, w
    <3> QED BY <3>1, <3>2, <3>3, <3>4, <3>5 DEF WindowLands, NewPane
  <2> HIDE DEF w
  <2>4. \A i \in DOMAIN session' :
           \/ session'[i] = w
           \/ session # None /\ i \in DOMAIN session /\ session'[i] = session[i]
    BY <2>1, <2>2, WindowOpens
  <2>5. \A i \in DOMAIN session' : WindowLands(session'[i])
    BY <2>3, <2>4 DEF WindowsLand
  <2> QED BY <2>5 DEF WindowsLand, WindowLands
<1>3. CASE TypeRun(p) /\ ~UNCHANGED session
  <2>1. /\ run[p].i \in 1 .. Len(Windows)
        /\ \E j \in Targets(Win(p).name) : TypedIn(j, Win(p).dir)
    BY <1>3, TypeRunSteps DEF Quiet
  <2> PICK i \in Targets(Win(p).name) : TypedIn(i, Win(p).dir)
    BY <2>1
  <2>2. session[i].name \in {Win(p).name} \cup StartsOf[Win(p).name]
    BY WindowFound
  <2>3. session[i] \in Window /\ WindowLands(session[i])
    BY DEF TypedIn, SessionOK, WindowsLand
  <2>4. Win(p).name \in Names
    BY <2>1, Declared DEF Win
  <2>5. ASSUME session[i].ours PROVE session[i].panes[1].dir \in {Win(p).dir, Home}
    <3>1. session[i].name \in Names
      BY <2>3, <2>5 DEF WindowLands
    <3>2. session[i].name = Win(p).name
      BY <2>2, <2>4, <3>1 DEF NamesApart
    <3> QED BY <2>1, <2>3, <2>5, <3>2 DEF WindowLands, Win
  <2>6. WindowLands(session'[i])
    BY <2>1, <2>3, <2>5, TypedLands DEF TypedIn
  <2> QED BY <2>1, <2>6, OneLands DEF TypedIn
<1> QED BY <1>1, <1>2, <1>3

\* A run gets to a pane, makes one, or types into one by its id (splitPanes).
LEMMA PaneStepsLand ==
    ASSUME NamesApart, NoNumbers, FirstCommandsAgree, WsInv, WindowsLand, PanesKnown, NEW p \in Terminals,
           FirstPane(p) \/ SplitPane(p) \/ TypePane(p)
    PROVE  WindowsLand' /\ PaneIsKnown(p)'
<1>0. /\ RunOK /\ SessionOK /\ PanesThere /\ PaneIsThere(run[p]) /\ PaneIsKnown(p)
      /\ listed \subseteq Trees
  BY DEF WsInv, PanesThere, PanesKnown, GitOK
<1>1. SessionOK' /\ SessionGoesOn
  BY <1>0, RunStepTyped DEF RunStep
<1>2. ASSUME UNCHANGED session PROVE WindowsLand'
  BY <1>2 DEF WindowsLand, WindowLands
<1>3. ASSUME run'[p].pc \notin {"split", "type"} PROVE PaneIsKnown(p)'
  BY <1>3 DEF PaneIsKnown
<1>4. CASE FirstPane(p)
  <2>1. UNCHANGED session
    BY <1>4 DEF FirstPane
  <2>2. CASE run'[p] = Done(p, "failed")
    <3>1. run[p].pc # "idle"
      BY <1>4 DEF FirstPane, At
    <3> QED BY <1>0, <1>2, <1>3, <2>1, <2>2, <3>1, DoneInPlace
  <2>3. ASSUME GoesTo(p, "split"), NEW w \in Targets(Win(p).name),
               run'[p].at = <<session[w].id, 1>>
        PROVE  WindowsLand' /\ PaneIsKnown(p)'
    <3>1. /\ session # None /\ w \in DOMAIN session
          /\ session[w].name \in {Win(p).name} \cup StartsOf[Win(p).name]
      BY <1>0, <2>3, WindowFound
    <3>2. run[p].i \in 1 .. Len(Windows)
      BY <1>0, <1>4, FirstPaneSteps
    <3>3. Win(p).name \in Names
      BY <3>2, Declared DEF Win
    <3>4. run'[p].at[1] = session[w].id /\ run'[p].at[2] = 1
      BY <2>3
    <3>5. run'[p].pc = "split" /\ run'[p].i = run[p].i
      BY <2>3 DEF GoesTo
    <3>6. ASSUME NEW i \in DOMAIN session, session[i].id = session[w].id, session[i].ours
          PROVE  session[i].name = Win(p).name
      <4>1. i = w
        BY <1>0, <3>1, <3>6 DEF SessionOK
      <4>2. session[i].name \in Names
        BY <3>1, <3>6 DEF WindowsLand, WindowLands
      <4> QED BY <3>1, <3>3, <4>1, <4>2 DEF NamesApart
    <3>7. PaneIsKnown(p)'
      BY <2>1, <3>4, <3>5, <3>6 DEF PaneIsKnown, Win
    <3> QED BY <1>2, <2>1, <3>7
  <2> QED BY <1>0, <1>4, <2>2, <2>3, FirstPaneSteps
<1>5. CASE SplitPane(p)
  <2>1. run[p].pc = "split" /\ run[p].i \in 1 .. Len(Windows)
    BY <1>0, <1>5, SplitPaneSteps
  <2>2. CASE Quiet(p) /\ run'[p] \in {To(p, "layout"), Done(p, "failed")}
    <3>1. run'[p].pc \notin {"split", "type"}
      BY <1>0, <2>1, <2>2, ToIs, DoneInPlace DEF RunPcs
    <3> QED BY <1>2, <1>3, <2>2, <3>1 DEF Quiet
  <2>3. CASE /\ Quiet(p) /\ run'[p] = To(p, "type")
             /\ run[p].k \in 1 .. Len(Win(p).panes) /\ IsTheWindow(Win(p), run[p].k)
    <3>1. /\ run'[p].pc = "type" /\ run'[p].i = run[p].i /\ run'[p].k = run[p].k
          /\ run'[p].at = run[p].at
      BY <1>0, <2>3, ToIs DEF RunPcs
    <3>2. run[p].k = 1 /\ ~Win(p).run /\ Win(p).panes # <<>>
      <4>1. Win(p).panes \in Seq(PaneForm)
        BY <2>1, Declared DEF Win
      <4> QED BY <2>3, <4>1 DEF IsTheWindow
    <3>3. Win(p).panes[1].run => Win(p).panes[1].dir = Win(p).dir
      BY <2>1, <3>2, Declared DEF FirstCommandsAgree, Win
    <3>4. session' = session
      BY <2>3 DEF Quiet
    <3>5. ASSUME session # None, NEW i \in DOMAIN session,
                 session[i].id = run[p].at[1], session[i].ours
          PROVE  /\ session[i].name = Win(p).name
                 /\ run[p].at[2] = 1
                 /\ session[i].panes[1].dir \in {Win(p).dir, Home}
      <4>1. session[i].name = Win(p).name /\ run[p].at[2] = 1
        BY <1>0, <2>1, <3>2, <3>5 DEF PaneIsKnown
      <4>2. WindowLands(session[i])
        BY <3>5 DEF WindowsLand
      <4> QED BY <2>1, <3>5, <4>1, <4>2 DEF WindowLands, Win
    <3>6. PaneIsKnown(p)'
      <4>1. Win(p)' = Win(p)
        BY <3>1 DEF Win
      <4>2. ASSUME session # None, NEW i \in DOMAIN session,
                   session[i].id = run[p].at[1], session[i].ours
            PROVE  /\ session[i].name = Win(p).name
                   /\ Win(p).panes[1].run =>
                         session[i].panes[run[p].at[2]].dir \in {Win(p).panes[1].dir, Home}
        BY <3>3, <3>5, <4>2
      <4>3. run[p].k = 1
        BY <3>2
      <4>4. ASSUME session' # None, NEW i \in DOMAIN session',
                   session'[i].id = run'[p].at[1], session'[i].ours
            PROVE  /\ session'[i].name = Win(p)'.name
                   /\ Win(p)'.panes[1].run =>
                         session'[i].panes[run'[p].at[2]].dir \in {Win(p)'.panes[1].dir, Home}
        BY ONLY <3>1, <3>4, <4>1, <4>2, <4>4
      <4> QED BY ONLY <3>1, <4>3, <4>4 DEF PaneIsKnown
    <3> QED BY <1>2, <3>4, <3>6
  <2>4. CASE SplitsWindow(p)
    <3> DEFINE i == Place(run[p].at[1])
               d == StartDir(Win(p).panes[run[p].k].dir)
    <3>1. /\ i \in DOMAIN session /\ session # None /\ session[i].id = run[p].at[1]
          /\ DOMAIN session' = DOMAIN session
          /\ \A j \in DOMAIN session \ {i} : session'[j] = session[j]
          /\ Keeps(session[i], session'[i])
          /\ session'[i].panes = Append(session[i].panes, NewPane(d))
          /\ run'[p].at = <<run[p].at[1], Len(session'[i].panes)>>
          /\ run'[p].pc = "type" /\ run'[p].i = run[p].i /\ run'[p].k = run[p].k
          /\ run[p].k \in 1 .. Len(Win(p).panes)
      BY <2>4 DEF SplitsWindow, GoesTo
    <3>2. d \in {Win(p).panes[run[p].k].dir, Home}
      <4>1. Win(p).panes[run[p].k].dir \in Dirs
        BY <2>1, <3>1, Declared DEF Win
      <4> QED BY <4>1, StartDirIs
    <3> HIDE DEF i, d
    <3>3. session[i] \in Window /\ WindowLands(session[i])
      BY <1>0, <3>1 DEF SessionOK, WindowsLand
    <3>4. WindowsLand'
      <4>1. WindowLands(session'[i])
        BY <3>1, <3>3, SplitLands
      <4> QED BY <3>1, <4>1, OneLands
    <3>5. session'[i].panes[Len(session'[i].panes)] = NewPane(d)
      <4>1. session[i].panes \in Seq(Pane) /\ session'[i].panes = Append(session[i].panes, NewPane(d))
        BY <3>1, <3>3 DEF Window
      <4> QED BY ONLY <4>1
    <3>6. /\ session'[i].id = session[i].id /\ session'[i].name = session[i].name
          /\ session'[i].ours = session[i].ours
      BY <3>1 DEF Keeps
    <3>7. session' # None => \A j \in DOMAIN session' : session'[j].id = run[p].at[1] => j = i
      BY <1>1, <3>1, <3>6 DEF SessionOK
    <3>8. session[i].ours => session[i].name = Win(p).name
      BY <1>0, <2>1, <3>1 DEF PaneIsKnown
    <3>9. PaneIsKnown(p)'
      <4>1. run'[p].at[1] = run[p].at[1] /\ run'[p].at[2] = Len(session'[i].panes)
        BY <3>1
      <4>2. NewPane(d).dir = d
        BY DEF NewPane
      <4>3. run'[p].pc = "type" /\ run'[p].k = run[p].k /\ Win(p)' = Win(p)
        BY <3>1 DEF Win
      <4>4. ASSUME NEW j \in DOMAIN session', session' # None,
                   session'[j].id = run'[p].at[1], session'[j].ours
            PROVE  /\ session'[j].name = Win(p).name
                   /\ session'[j].panes[run'[p].at[2]].dir
                        \in {Win(p).panes[run[p].k].dir, Home}
        <5>1. j = i
          BY <3>7, <4>1, <4>4
        <5>2. session'[i].panes[run'[p].at[2]] = NewPane(d)
          BY <3>5, <4>1
        <5>3. session'[i].name = Win(p).name
          BY <3>6, <3>8, <4>4, <5>1
        <5> QED BY <3>2, <4>2, <5>1, <5>2, <5>3
      <4> QED BY <4>3, <4>4 DEF PaneIsKnown
    <3> QED BY <3>4, <3>9
  <2> QED BY <1>0, <1>5, <2>2, <2>3, <2>4, SplitPaneSteps
<1>6. CASE TypePane(p)
  <2>1. /\ run[p].pc = "type" /\ run[p].i \in 1 .. Len(Windows)
        /\ run[p].k \in 1 .. Len(Win(p).panes)
    BY <1>0, <1>6, TypePaneSteps
  <2>2. CASE Quiet(p) /\ run'[p] = Done(p, "failed")
    BY <1>0, <1>2, <1>3, <2>1, <2>2, DoneInPlace DEF Quiet
  <2>3. CASE GoesTo(p, "split") /\ run'[p].k = run[p].k + 1 /\ run'[p].at = run[p].at
    <3>1. run'[p].k # 1
      BY <2>1, <2>3
    <3>2. run'[p].pc = "split" /\ run'[p].i = run[p].i
      BY <2>3 DEF GoesTo
    <3>3. PaneIsKnown(p)'
      <4> SUFFICES ASSUME session' # None, NEW i \in DOMAIN session',
                          session'[i].id = run[p].at[1], session'[i].ours
                   PROVE  session'[i].name = Win(p).name
        BY <2>3, <3>1, <3>2 DEF PaneIsKnown, Win
      <4>1. run[p].at[1] \in 1 .. opened /\ opened \in Nat
        BY <1>0, <2>1 DEF PaneIsThere, SessionOK
      <4>2. session # None /\ \E j \in DOMAIN session : Keeps(session[j], session'[i])
        BY <1>1, <4>1 DEF SessionGoesOn
      <4>3. PICK j \in DOMAIN session : Keeps(session[j], session'[i])
        BY <4>2
      <4>4. session[j].id = run[p].at[1] /\ session[j].ours /\ session'[i].name = session[j].name
        BY <4>3 DEF Keeps
      <4> QED BY <1>0, <2>1, <4>2, <4>4 DEF PaneIsKnown
    <3>4. WindowsLand'
      <4>1. CASE UNCHANGED session
        BY <1>2, <4>1
      <4>2. CASE ~UNCHANGED session
        <5> DEFINE i == Place(run[p].at[1])
                   k == run[p].at[2]
                   d == Win(p).panes[run[p].k].dir
        <5>1. /\ i \in DOMAIN session /\ session # None /\ session[i].id = run[p].at[1]
              /\ Win(p).panes[run[p].k].run
              /\ k \in DOMAIN session[i].panes /\ DOMAIN session' = DOMAIN session
              /\ \A j \in DOMAIN session \ {i} : session'[j] = session[j]
              /\ Keeps(session[i], session'[i])
              /\ session'[i].panes
                    = [session[i].panes EXCEPT ![k] = Typed(session[i].panes[k], d)]
          BY <1>0, <1>6, <4>2, TypePaneSteps DEF Quiet
        <5> HIDE DEF i
        <5>2. session[i] \in Window /\ WindowLands(session[i])
          BY <1>0, <5>1 DEF SessionOK, WindowsLand
        <5>3. session[i].ours => session[i].panes[k].dir \in {d, Home}
          BY <1>0, <2>1, <5>1 DEF PaneIsKnown
        <5> HIDE DEF k, d
        <5>4. WindowLands(session'[i])
          BY <5>1, <5>2, <5>3, TypedLands
        <5> QED BY <5>1, <5>4, OneLands
      <4> QED BY <4>1, <4>2
    <3> QED BY <3>3, <3>4
  <2> QED BY <1>0, <1>6, <2>2, <2>3, TypePaneSteps
<1> QED BY <1>4, <1>5, <1>6

\* The other commands are of no pane.
LEMMA OtherStepsLeavePanes ==
    ASSUME RunOK, SessionOK, listed \subseteq Trees, NEW p \in Terminals, RunStep(p),
           ~(FirstPane(p) \/ SplitPane(p) \/ TypePane(p))
    PROVE  run'[p].pc \notin {"split", "type"}
<1>1. run[p].pc # "idle" /\ run[p] \in Run
  BY DEF RunOK, RunStep, List, Tree, AddTree, HasSession, ListWindows, NewWindow, TypeRun,
         FirstPane, SplitPane, TypePane, Layout, KillSession, RemoveTree, At
<1>2. \A result \in {"ok", "failed"} : Done(p, result).pc = "idle"
  BY <1>1, DoneInPlace
<1>3. NextWindow(p).pc = "window" /\ AfterRun(p).pc \in {"window", "panes"}
  BY <1>1 DEF NextWindow, AfterRun, To, Run
<1>4. To(p, "has").pc = "has" /\ To(p, "kill").pc = "kill" /\ To(p, "list").pc = "list"
  BY ToIs DEF RunPcs
<1>5. CASE List(p) \/ Tree(p) \/ AddTree(p) \/ HasSession(p) \/ ListWindows(p)
  BY <1>2, <1>4, <1>5, ListSteps, TreeSteps, AddTreeSteps, HasSessionSteps, ListWindowsSteps
     DEF GoesOn, GoesTo
<1>6. CASE NewWindow(p) \/ TypeRun(p) \/ Layout(p)
  BY <1>2, <1>3, <1>6, NewWindowSteps, TypeRunSteps, LayoutSteps DEF GoesTo
<1>7. CASE KillSession(p) \/ RemoveTree(p)
  BY <1>2, <1>4, <1>7, KillSessionSteps, RemoveTreeSteps DEF PrunesOn
<1> QED BY <1>5, <1>6, <1>7 DEF RunStep

\* CommandsLand, of every workspace whose declared names are apart and no numbers
\* and whose first panes, where they have a command, have the directory of their
\* window: whatever runs overlap and fail and whatever windows the user opens and
\* closes, a command is typed into a shell of its own directory, or at home
\* (tmuxUp, splitPanes).
THEOREM CommandsAlwaysLand ==
    ASSUME NamesApart, NoNumbers, FirstCommandsAgree
    PROVE  Spec => []CommandsLand
<1> DEFINE Inv == WindowsLand /\ PanesKnown
<1>1. Init => Inv
  BY DEF Init, WindowsLand, PanesKnown, PaneIsKnown
<1>2. WsInv /\ Inv /\ [Next]_vars => Inv'
  <2> SUFFICES ASSUME WsInv, Inv, [Next]_vars PROVE Inv'
    OBVIOUS
  <2>0. /\ RunOK /\ SessionOK /\ PanesThere /\ GitOK /\ listed \subseteq Trees
        /\ \A q \in Terminals : PaneIsThere(run[q]) /\ PaneIsKnown(q)
    BY DEF WsInv, GitOK, PanesThere, PanesKnown
  <2>1. ASSUME UNCHANGED session PROVE WindowsLand'
    BY <2>1 DEF WindowsLand, WindowLands
  <2>2. ASSUME SessionOK', SessionGoesOn, run' = Disturbed
        PROVE  PanesKnown'
    <3> SUFFICES ASSUME NEW q \in Terminals PROVE PaneIsKnown(q)'
      BY DEF PanesKnown
    <3>1. run'[q] = Disturb(run[q]) /\ run[q] \in Run
      BY <2>0, <2>2, AllDisturbed DEF RunOK
    <3>2. \/ run'[q].pc = "idle"
          \/ /\ run'[q].pc = run[q].pc /\ run'[q].i = run[q].i /\ run'[q].k = run[q].k
             /\ run'[q].at = run[q].at
      BY <3>1 DEF Disturb, NoRun, Run
    <3> QED BY <2>0, <2>2, <3>2, PaneStaysKnown
  <2>3. ASSUME NEW p \in Terminals, SessionOK', SessionGoesOn, Quiet(p) \/ Loud(p)
        PROVE  \A q \in Terminals \ {p} : PaneIsKnown(q)'
    <3> SUFFICES ASSUME NEW q \in Terminals \ {p} PROVE PaneIsKnown(q)'
      OBVIOUS
    <3>1. \/ run'[q] = run[q]
          \/ run'[q].pc \notin {"split", "type"}
          \/ /\ run'[q].pc = run[q].pc /\ run'[q].i = run[q].i /\ run'[q].k = run[q].k
             /\ run'[q].at = run[q].at
      BY <2>0, <2>3, OthersAre
    <3> QED BY <2>0, <2>3, <3>1, PaneStaysKnown
  <2>4. CASE UNCHANGED <<session, opened, run>>
    <3>1. SessionOK' /\ SessionGoesOn
      BY <2>0, <2>4, SessionStays
    <3> QED BY <2>0, <2>1, <2>4, <3>1, PaneStaysKnown DEF PanesKnown
  <2>5. CASE MakeRepo
    <3>1. UNCHANGED <<session, opened>> /\ (run' = run \/ run' = Disturbed)
      BY <2>5 DEF MakeRepo
    <3>2. SessionOK' /\ SessionGoesOn
      BY <2>0, <3>1, SessionStays
    <3> QED BY <2>1, <2>2, <2>4, <3>1, <3>2
  <2>6. ASSUME NEW p \in Terminals, NEW op \in {"up", "down", "prune"}, NEW dry \in DryRuns,
               StartRun(p, op, dry)
        PROVE  Inv'
    <3>1. Quiet(p) /\ UNCHANGED <<session, opened>> /\ run'[p].pc \in {"list", "has"}
      BY <2>0, <2>6, StartRunSteps DEF Quiet
    <3>2. SessionOK' /\ SessionGoesOn
      BY <2>0, <3>1, SessionStays
    <3>3. PaneIsKnown(p)'
      BY <3>1 DEF PaneIsKnown
    <3> QED BY <2>1, <2>3, <3>1, <3>2, <3>3 DEF PanesKnown
  <2>7. ASSUME NEW p \in Terminals, RunFails(p)
        PROVE  Inv'
    <3>1. Quiet(p) /\ UNCHANGED <<session, opened>> /\ run'[p].pc \in {"idle", "prune"}
      BY <2>0, <2>7, RunFailsSteps DEF Quiet, NoRun
    <3>2. SessionOK' /\ SessionGoesOn
      BY <2>0, <3>1, SessionStays
    <3>3. PaneIsKnown(p)'
      BY <3>1 DEF PaneIsKnown
    <3> QED BY <2>1, <2>3, <3>1, <3>2, <3>3 DEF PanesKnown
  <2>8. ASSUME NEW p \in Terminals, RunStep(p)
        PROVE  Inv'
    <3>1. SessionOK' /\ SessionGoesOn /\ (Quiet(p) \/ Loud(p))
      BY <2>0, <2>8, RunStepTyped
    <3>2. CASE FirstPane(p) \/ SplitPane(p) \/ TypePane(p)
      BY <2>3, <3>1, <3>2, PaneStepsLand DEF PanesKnown
    <3>3. CASE ~(FirstPane(p) \/ SplitPane(p) \/ TypePane(p))
      <4>1. WindowsLand'
        <5>1. CASE NewWindow(p) \/ TypeRun(p)
          BY <2>0, <5>1, WindowStepsLand
        <5>2. CASE KillSession(p)
          <6>1. session' = session \/ session' = None
            BY <5>2 DEF KillSession
          <6> QED BY <2>1, <6>1 DEF WindowsLand
        <5>3. CASE \/ List(p) \/ Tree(p) \/ AddTree(p) \/ HasSession(p) \/ ListWindows(p)
                   \/ Layout(p) \/ RemoveTree(p)
          BY <2>1, <5>3 DEF List, Tree, AddTree, HasSession, ListWindows, Layout, RemoveTree
        <5> QED BY <2>8, <3>3, <5>1, <5>2, <5>3 DEF RunStep
      <4>2. PaneIsKnown(p)'
        <5>1. run'[p].pc \notin {"split", "type"}
          BY <2>0, <2>8, <3>3, OtherStepsLeavePanes
        <5> QED BY <5>1 DEF PaneIsKnown
      <4> QED BY <2>3, <3>1, <4>1, <4>2 DEF PanesKnown
    <3> QED BY <3>2, <3>3
  <2>9. CASE UserNext
    <3>1. SessionOK' /\ SessionGoesOn /\ run' = Disturbed
      BY <2>0, <2>9, UserKeepsSession
    <3>2. WindowsLand'
      <4>1. CASE \E t \in Trees : Work(t) \/ CommitTree(t) \/ DeleteTree(t) \/ Occupy(t)
        BY <2>1, <4>1 DEF Work, CommitTree, DeleteTree, Occupy, Becoming
      <4>2. ASSUME NEW title \in Titles, OpenWindow(title)
            PROVE  WindowsLand'
        <5> DEFINE w == [id |-> opened + 1, name |-> title, ours |-> FALSE,
                         panes |-> <<NewPane(Main)>>]
        <5>1. /\ opened' = opened + 1
              /\ session' = Append(IF session = None THEN <<>> ELSE session, w)
          BY <4>2 DEF OpenWindow
        <5>2. w \in Window /\ w.id = opened + 1 /\ ~w.ours
          <6>1. NewPane(Main) \in Pane
            BY DEF NewPane, Pane, Dirs
          <6>2. <<NewPane(Main)>> \in Seq(Pane) \ {<<>>}
            BY <6>1
          <6> QED BY <2>0, <6>2 DEF Window, SessionOK
        <5> HIDE DEF w
        <5>3. \A i \in DOMAIN session' :
                 \/ session'[i] = w
                 \/ session # None /\ i \in DOMAIN session /\ session'[i] = session[i]
          BY <2>0, <5>1, <5>2, WindowOpens
        <5>4. \A i \in DOMAIN session' : WindowLands(session'[i])
          BY <5>2, <5>3 DEF WindowsLand, WindowLands
        <5> QED BY <5>4 DEF WindowsLand, WindowLands
      <4>3. ASSUME session # None, NEW i \in DOMAIN session, CloseWindow(i)
            PROVE  WindowsLand'
        <5>1. session' # None => \A j \in DOMAIN session' :
                                    \E k \in DOMAIN session : session'[j] = session[k]
          BY <2>0, <4>3, WindowCloses DEF CloseWindow
        <5>2. session' # None => \A j \in DOMAIN session' : WindowLands(session'[j])
          BY <4>3, <5>1 DEF WindowsLand
        <5> QED BY <5>2 DEF WindowsLand, WindowLands
      <4> QED BY <2>9, <4>1, <4>2, <4>3 DEF UserNext
    <3> QED BY <2>2, <3>1, <3>2
  <2>10. CASE UNCHANGED vars
    BY <2>4, <2>10 DEF vars, wsVars
  <2> QED BY <2>5, <2>6, <2>7, <2>8, <2>9, <2>10 DEF Next
<1>3. Inv => CommandsLand
  BY DEF WindowsLand, WindowLands, CommandsLand
<1> QED BY <1>1, <1>2, <1>3, WsInvariant, PTL DEF Spec

-----------------------------------------------------------------------------
(***************************************************************************)
(* What up makes.                                                          *)
(***************************************************************************)

\* DeclaredPanes, of a disk.
StartIn(d, dk) == IF d \in Trees /\ dk[d] = "absent" THEN Home ELSE d
Forms(w) ==
    IF w.run \/ w.panes = <<>> THEN <<[dir |-> w.dir, run |-> w.run]>> \o w.panes ELSE w.panes
Decl(w, dk) ==
    [k \in DOMAIN Forms(w) |->
        [dir |-> StartIn(Forms(w)[k].dir, dk),
         typed |-> IF Forms(w)[k].run THEN Forms(w)[k].dir ELSE None]]

\* The first n of the panes D are there, the last of them perhaps without its
\* command yet.
Opened(panes, D, n, open) ==
    /\ panes \in Seq(Pane) /\ Len(panes) = n
    /\ \A m \in 1 .. n :
          panes[m] = IF m = n /\ open THEN NewPane(D[m].dir) ELSE D[m]

\* c is the one window called n of a session.
Alone(s, n, c) == c \in DOMAIN s /\ \A j \in DOMAIN s : s[j].name = n <=> j = c
NoneCalled(s, n) == s # None => \A j \in DOMAIN s : s[j].name # n
IsMade(s, w, dk) ==
    s # None /\ \E c \in DOMAIN s : Alone(s, w.name, c) /\ s[c].panes = Decl(w, dk)

\* Of the windows that a run did not see, those before the i-th are made.
MadeBefore(s, dk, existing, i) ==
    \A j \in 1 .. Len(Windows) :
        j < i /\ Windows[j].name \notin existing => IsMade(s, Windows[j], dk)
NoneFrom(s, existing, i) ==
    \A j \in 1 .. Len(Windows) :
        j >= i /\ Windows[j].name \notin existing => NoneCalled(s, Windows[j].name)

\* What a run of up knows and has done, at each of its steps.
Making(r) == r.calm /\ ~r.dry /\ r.op = "up"

TreesSoFar(r, ls, dk) ==
    \A j \in 1 .. Len(Worktrees) :
        LET t == Worktrees[j]
        IN  /\ j < r.i => t \in ls /\ (t \notin r.have => dk[t] = "clean")
            /\ j >= r.i => (t \in ls <=> t \in r.have)
AboutToAdd(r, dk, br) ==
    LET t == Worktrees[r.i]
    IN  t \notin r.have /\ dk[t] = "absent" /\ r.reuse = (BranchOf[t] \in br)
TreesMade(r, ls, dk) == ls = Trees /\ \A t \in Trees \ r.have : dk[t] = "clean"

WindowsSoFar(r, dk, s) ==
    /\ r.running = (s # None)
    /\ MadeBefore(s, dk, r.existing, r.i) /\ NoneFrom(s, r.existing, r.i)

\* The panes of the window that a run is at, the one with its own command first.
Own(w) == IF w.run THEN 1 ELSE 0
PanesSoFar(r, v, w, D) ==
    LET o == Own(w)
    IN  /\ r.pc = "keys" => Opened(v.panes, D, 1, TRUE)
        /\ r.pc # "keys" => w.panes # <<>>
        /\ r.pc = "panes" => Opened(v.panes, D, 1, ~w.run)
        /\ r.pc \in {"split", "type"} => r.at[1] = v.id
        /\ r.pc = "split" =>
              IF IsTheWindow(w, r.k) THEN Opened(v.panes, D, 1, TRUE) /\ r.at[2] = 1
              ELSE Opened(v.panes, D, o + r.k - 1, FALSE)
        /\ r.pc = "type" => Opened(v.panes, D, o + r.k, TRUE) /\ r.at[2] = o + r.k
        /\ r.pc = "layout" => v.panes = D

WindowBegun(r, dk, s) ==
    LET w == Windows[r.i]
    IN  /\ s # None /\ r.running /\ w.name \notin r.existing
        /\ MadeBefore(s, dk, r.existing, r.i) /\ NoneFrom(s, r.existing, r.i + 1)
        /\ \E c \in DOMAIN s : Alone(s, w.name, c) /\ PanesSoFar(r, s[c], w, Decl(w, dk))

UpEnded(r, m, ls, dk, s) ==
    IF r.result = "ok"
    THEN TreesMade(r, ls, dk) /\ MadeBefore(s, dk, r.existing, Len(Windows) + 1)
    ELSE m.head = None \/ \E t \in Trees \ ls : dk[t] = "foreign"

AtWindow == {"keys", "panes", "split", "type", "layout"}
UpAt(r, m, ls, dk, br, s) ==
    Making(r) =>
        /\ r.pc \in {"list", "tree", "add", "has"} => r.existing = {}
        /\ r.pc \in {"tree", "add"} => TreesSoFar(r, ls, dk)
        /\ r.pc = "add" => AboutToAdd(r, dk, br)
        /\ r.pc \in {"has", "windows", "window"} \cup AtWindow => TreesMade(r, ls, dk)
        /\ r.pc = "windows" => s # None /\ r.running
        /\ r.pc = "window" => WindowsSoFar(r, dk, s)
        /\ r.pc \in AtWindow => WindowBegun(r, dk, s)
        /\ r.pc = "idle" => UpEnded(r, m, ls, dk, s)

\* A pane gets the command that it is to have.
LEMMA CommandTyped ==
    ASSUME NEW D \in Seq(Pane), NEW n \in 1 .. Len(D), NEW ps, Opened(ps, D, n, TRUE),
           NEW qs, qs = [ps EXCEPT ![n] = Typed(ps[n], D[n].typed)]
    PROVE  Opened(qs, D, n, FALSE)
<1>1. ps \in Seq(Pane) /\ Len(ps) = n /\ n \in DOMAIN ps /\ ps[n] = NewPane(D[n].dir)
  BY DEF Opened
<1>2. D[n] \in Pane
  OBVIOUS
<1>3. Typed(ps[n], D[n].typed) = D[n]
  BY <1>1, <1>2 DEF Typed, NewPane, Pane
<1>4. qs = [ps EXCEPT ![n] = D[n]]
  BY <1>3
<1>5. qs \in Seq(Pane) /\ Len(qs) = n /\ qs[n] = D[n] /\ \A m \in 1 .. n : m # n => qs[m] = ps[m]
  BY <1>1, <1>2, <1>4
<1>6. \A m \in 1 .. n : m # n => ps[m] = D[m]
  BY DEF Opened
<1> QED BY <1>5, <1>6 DEF Opened

\* There is none for it to have.
LEMMA NothingToType ==
    ASSUME NEW D \in Seq(Pane), NEW n \in 1 .. Len(D), NEW ps, Opened(ps, D, n, TRUE),
           D[n].typed = None
    PROVE  Opened(ps, D, n, FALSE)
<1>1. D[n] \in Pane
  OBVIOUS
<1>2. NewPane(D[n].dir) = D[n]
  BY <1>1 DEF NewPane, Pane
<1> QED BY <1>2 DEF Opened

\* One more pane.
LEMMA PaneSplit ==
    ASSUME NEW D \in Seq(Pane), NEW n \in Nat, n + 1 \in 1 .. Len(D),
           NEW ps, Opened(ps, D, n, FALSE)
    PROVE  Opened(Append(ps, NewPane(D[n + 1].dir)), D, n + 1, TRUE)
<1> DEFINE q == NewPane(D[n + 1].dir)
           qs == Append(ps, q)
<1>1. ps \in Seq(Pane) /\ Len(ps) = n /\ \A m \in 1 .. n : ps[m] = D[m]
  BY DEF Opened
<1>2. D[n + 1] \in Pane
  OBVIOUS
<1>3. q \in Pane
  BY <1>2 DEF NewPane, Pane
<1> HIDE DEF q
<1>4. qs \in Seq(Pane) /\ Len(qs) = n + 1 /\ qs[n + 1] = q /\ \A m \in 1 .. n : qs[m] = ps[m]
  BY <1>1, <1>3
<1> HIDE DEF qs
<1>5. \A m \in 1 .. n + 1 : m = n + 1 \/ m \in 1 .. n
  OBVIOUS
<1>6. Opened(qs, D, n + 1, TRUE)
  BY <1>1, <1>4, <1>5 DEF Opened, q
<1> QED BY <1>6 DEF q, qs

\* All of them.
LEMMA PanesAll ==
    ASSUME NEW D \in Seq(Pane), NEW ps, Opened(ps, D, Len(D), FALSE)
    PROVE  ps = D
<1>1. ps \in Seq(Pane) /\ Len(ps) = Len(D) /\ \A m \in 1 .. Len(D) : ps[m] = D[m]
  BY DEF Opened
<1> QED BY <1>1, SeqEqual

\* A window just opened.
LEMMA FirstPaneOpens ==
    ASSUME NEW D \in Seq(Pane), D # <<>>, NEW d \in Dirs, D[1].dir = d
    PROVE  Opened(<<NewPane(d)>>, D, 1, TRUE)
<1>1. NewPane(d) \in Pane
  BY DEF NewPane, Pane
<1> QED BY <1>1 DEF Opened

\* The panes that the spec declares for its i-th window.
LEMMA DeclIs ==
    ASSUME NEW i \in 1 .. Len(Windows), NEW dk
    PROVE  LET w == Windows[i]
               D == Decl(w, dk)
           IN  /\ D \in Seq(Pane) /\ D # <<>>
               /\ w.panes = <<>> =>
                     /\ Len(D) = 1 /\ D[1].dir = StartIn(w.dir, dk)
                     /\ ~w.run => D[1].typed = None
               /\ w.run => D[1].dir = StartIn(w.dir, dk) /\ D[1].typed = w.dir
               /\ w.panes # <<>> =>
                     /\ Len(D) = Own(w) + Len(w.panes)
                     /\ \A k \in 1 .. Len(w.panes) :
                           /\ D[Own(w) + k].dir = StartIn(w.panes[k].dir, dk)
                           /\ w.panes[k].run => D[Own(w) + k].typed = w.panes[k].dir
                           /\ ~w.panes[k].run => D[Own(w) + k].typed = None
<1> DEFINE w == Windows[i]
           D == Decl(w, dk)
           own == [dir |-> w.dir, run |-> w.run]
           o == Own(w)
           F == Forms(w)
<1>1. /\ w.dir \in Trees \cup {Main} /\ w.run \in BOOLEAN /\ w.panes \in Seq(PaneForm)
      /\ Len(w.panes) \in Nat
  <2>1. w \in WindowForm
    BY Declared, WindowsAssumption
  <2> QED BY <2>1, LenProperties DEF WindowForm
<1>2. own \in PaneForm
  BY <1>1 DEF PaneForm
<1>3. <<own>> \o w.panes \in Seq(PaneForm)
  BY <1>1, <1>2
<1>4. F \in Seq(PaneForm) /\ F # <<>>
  BY <1>1, <1>3 DEF Forms
<1>5. \A f \in PaneForm : StartIn(f.dir, dk) \in Dirs /\ f.dir \in Dirs /\ f.run \in BOOLEAN
  BY DEF PaneForm, StartIn, Dirs
<1>6. DOMAIN F = 1 .. Len(F) /\ Len(F) \in Nat \ {0} /\ \A k \in 1 .. Len(F) : F[k] \in PaneForm
  BY <1>4, EmptySeq, LenProperties
<1>7. D = [k \in 1 .. Len(F) |->
             [dir |-> StartIn(F[k].dir, dk),
              typed |-> IF F[k].run THEN F[k].dir ELSE None]]
  BY <1>6 DEF Decl
<1> HIDE DEF D, F
<1>8. \A k \in 1 .. Len(F) :
         [dir |-> StartIn(F[k].dir, dk), typed |-> IF F[k].run THEN F[k].dir ELSE None] \in Pane
  BY <1>5, <1>6 DEF Pane
<1>9. D \in Seq(Pane) /\ Len(D) = Len(F) /\ D # <<>>
  <2>1. D \in [1 .. Len(F) -> Pane]
    BY <1>7, <1>8
  <2>2. D \in Seq(Pane) /\ Len(D) = Len(F)
    BY ONLY <1>6, <2>1
  <2> QED BY <1>6, <2>2, EmptySeq
<1>10. \A k \in 1 .. Len(F) :
          D[k].dir = StartIn(F[k].dir, dk) /\ D[k].typed = IF F[k].run THEN F[k].dir ELSE None
  BY <1>7
<1>11. /\ D \in Seq(Pane) /\ D # <<>>
       /\ w.panes = <<>> =>
             /\ Len(D) = 1 /\ D[1].dir = StartIn(w.dir, dk)
             /\ ~w.run => D[1].typed = None
       /\ w.run => D[1].dir = StartIn(w.dir, dk) /\ D[1].typed = w.dir
       /\ w.panes # <<>> =>
             /\ Len(D) = o + Len(w.panes)
             /\ \A k \in 1 .. Len(w.panes) :
                   /\ D[o + k].dir = StartIn(w.panes[k].dir, dk)
                   /\ w.panes[k].run => D[o + k].typed = w.panes[k].dir
                   /\ ~w.panes[k].run => D[o + k].typed = None
  <2>1. CASE w.run \/ w.panes = <<>>
    <3>1. F = <<own>> \o w.panes
      BY <2>1 DEF F, Forms
    <3>2. Len(F) = 1 + Len(w.panes) /\ F[1] = own
          /\ \A k \in 1 .. Len(w.panes) : F[1 + k] = w.panes[k]
      <4> HIDE DEF own, w
      <4> QED BY <1>1, <1>2, <3>1
    <3>3. own.dir = w.dir /\ own.run = w.run
      OBVIOUS
    <3> HIDE DEF own
    <3>4. D[1].dir = StartIn(w.dir, dk) /\ D[1].typed = IF w.run THEN w.dir ELSE None
      BY <1>1, <1>10, <3>2, <3>3
    <3>5. w.panes # <<>> =>
            \A k \in 1 .. Len(w.panes) :
               /\ D[1 + k].dir = StartIn(w.panes[k].dir, dk)
               /\ w.panes[k].run => D[1 + k].typed = w.panes[k].dir
               /\ ~w.panes[k].run => D[1 + k].typed = None
      <4> SUFFICES ASSUME NEW k \in 1 .. Len(w.panes)
                   PROVE  /\ D[1 + k].dir = StartIn(w.panes[k].dir, dk)
                          /\ w.panes[k].run => D[1 + k].typed = w.panes[k].dir
                          /\ ~w.panes[k].run => D[1 + k].typed = None
        OBVIOUS
      <4>1. 1 + k \in 1 .. Len(F) /\ F[1 + k] = w.panes[k]
        BY <1>1, <3>2
      <4> QED BY <1>10, <4>1
    <3>6. w.panes = <<>> => Len(w.panes) = 0
      BY EmptySeq
    <3>7. w.panes # <<>> => w.run /\ o = 1
      BY <2>1 DEF Own
    <3> HIDE DEF w, o
    <3>8. w.panes = <<>> => Len(D) = 1
      BY <1>9, <3>2, <3>6
    <3>9. w.run => D[1].dir = StartIn(w.dir, dk) /\ D[1].typed = w.dir
      BY <3>4
    <3>10. w.panes # <<>> =>
             /\ Len(D) = o + Len(w.panes)
             /\ \A k \in 1 .. Len(w.panes) :
                   /\ D[o + k].dir = StartIn(w.panes[k].dir, dk)
                   /\ w.panes[k].run => D[o + k].typed = w.panes[k].dir
                   /\ ~w.panes[k].run => D[o + k].typed = None
      BY <1>9, <3>2, <3>5, <3>7
    <3> QED BY <1>9, <3>4, <3>8, <3>9, <3>10
  <2>2. CASE ~(w.run \/ w.panes = <<>>)
    <3>1. F = w.panes
      BY <2>2 DEF F, Forms
    <3>2. o = 0 /\ \A k \in 1 .. Len(w.panes) : o + k = k
      BY <1>1, <2>2 DEF Own
    <3> HIDE DEF w, o
    <3>3. ~w.run /\ w.panes # <<>> /\ Len(D) = o + Len(w.panes)
      BY <1>1, <1>9, <2>2, <3>1, <3>2
    <3>4. \A k \in 1 .. Len(w.panes) :
             /\ D[o + k].dir = StartIn(w.panes[k].dir, dk)
             /\ w.panes[k].run => D[o + k].typed = w.panes[k].dir
             /\ ~w.panes[k].run => D[o + k].typed = None
      BY <1>10, <3>1, <3>2
    <3> QED BY ONLY <1>9, <3>3, <3>4, Zenon
  <2> QED BY <2>1, <2>2
<1> QED BY <1>11 DEF D

\* DeclaredPanes and Called are what is said here, of the state.
LEMMA DeclaredNow ==
    /\ \A w : DeclaredPanes(w) = Decl(w, disk)
    /\ \A d : StartDir(d) = StartIn(d, disk)
    /\ \A n, c : Alone(session, n, c) => Called({n}) = {c}
<1>1. \A d : StartDir(d) = StartIn(d, disk)
  BY DEF StartDir, StartIn
<1>2. ASSUME NEW w PROVE DeclaredPanes(w) = Decl(w, disk)
  BY <1>1 DEF DeclaredPanes, Decl, Forms
<1>3. \A n, c : Alone(session, n, c) => Called({n}) = {c}
  BY DEF Alone, Called
<1> QED BY <1>1, <1>2, <1>3

LEMMA NamesDiffer ==
    \A i, j \in 1 .. Len(Windows) : Windows[i].name = Windows[j].name => i = j
BY Declared, WindowsAssumption

\* A window that is alone under its name is the one that tmux finds.
LEMMA AloneFound ==
    ASSUME NoNumbers, NEW n, NEW c, session # None, Alone(session, n, c)
    PROVE  Targets(n) = {c} /\ ~Misses(n)
<1>1. Called({n}) = {c} /\ c \in DOMAIN session
  BY DeclaredNow DEF Alone
<1>2. Matching(n) = {c}
  BY <1>1 DEF Matching
<1> QED BY <1>1, <1>2 DEF Targets, Misses, NoNumbers

\* The windows made and to be made are so still if one other changes, or is added.
LEMMA MadeStays ==
    ASSUME NEW dk, NEW existing, NEW i \in 1 .. Len(Windows), NEW c,
           session # None, session' # None, DOMAIN session' = DOMAIN session,
           Alone(session, Windows[i].name, c),
           \A j \in DOMAIN session \ {c} : session'[j] = session[j],
           session'[c].name = session[c].name,
           MadeBefore(session, dk, existing, i), NoneFrom(session, existing, i + 1)
    PROVE  /\ MadeBefore(session', dk, existing, i) /\ NoneFrom(session', existing, i + 1)
           /\ Alone(session', Windows[i].name, c)
<1> DEFINE s == session
           u == session'
<1>1. \A j \in DOMAIN u : u[j].name = s[j].name
  OBVIOUS
<1>2. Alone(u, Windows[i].name, c)
  BY <1>1 DEF Alone
<1>3. NoneFrom(u, existing, i + 1)
  BY <1>1 DEF NoneFrom, NoneCalled
<1>4. MadeBefore(u, dk, existing, i)
  <2> SUFFICES ASSUME NEW j \in 1 .. Len(Windows), j < i, Windows[j].name \notin existing
               PROVE  IsMade(u, Windows[j], dk)
    BY DEF MadeBefore
  <2>1. PICK b \in DOMAIN s : Alone(s, Windows[j].name, b) /\ s[b].panes = Decl(Windows[j], dk)
    BY DEF MadeBefore, IsMade
  <2>2. Windows[j].name # Windows[i].name
    BY Declared, NamesDiffer
  <2>3. b # c
    BY <2>1, <2>2 DEF Alone
  <2>4. Alone(u, Windows[j].name, b) /\ u[b] = s[b]
    BY <1>1, <2>1, <2>3 DEF Alone
  <2> QED BY <2>1, <2>4 DEF IsMade
<1> QED BY <1>2, <1>3, <1>4

LEMMA MadeGrows ==
    ASSUME SessionOK, NEW w \in Window, NEW dk, NEW existing,
           NEW i \in 1 .. Len(Windows), w.name = Windows[i].name, w.name \notin existing,
           MadeBefore(session, dk, existing, i), NoneFrom(session, existing, i),
           session' = Append(IF session = None THEN <<>> ELSE session, w)
    PROVE  /\ session' # None /\ session'[Len(session')] = w
           /\ Alone(session', w.name, Len(session'))
           /\ MadeBefore(session', dk, existing, i) /\ NoneFrom(session', existing, i + 1)
<1> DEFINE s == session
           u == session'
           v == IF s = None THEN <<>> ELSE s
           n == Len(v) + 1
<1>0. s = None \/ s \in Seq(Window)
  BY DEF SessionOK
<1>1. v \in Seq(Window) /\ Len(v) \in Nat /\ DOMAIN v = 1 .. Len(v)
  BY <1>0
<1>2. u = Append(v, w)
  OBVIOUS
<1>3. v # <<>> => s # None /\ v = s
  OBVIOUS
<1>4. s # None => v = s
  OBVIOUS
<1>5. Len(v) # 0 => s # None
  BY <1>1, <1>3, EmptySeq
<1> HIDE DEF v
<1>6. /\ u \in Seq(Window) /\ Len(u) = n /\ DOMAIN u = 1 .. n /\ u[n] = w
      /\ \A j \in 1 .. Len(v) : u[j] = v[j]
  <2>1. u \in Seq(Window) /\ Len(u) = Len(v) + 1 /\ u[Len(v) + 1] = w
        /\ \A j \in 1 .. Len(v) : u[j] = v[j]
    <3> HIDE DEF u
    <3> QED BY <1>1, <1>2, AppendProperties
  <2>2. DOMAIN u = 1 .. Len(u)
    BY <2>1
  <2> QED BY <2>1, <2>2
<1>7. u # None
  BY <1>6, NoSessionAssumption
<1>8. NoneCalled(s, w.name)
  BY DEF NoneFrom
<1>9. \A j \in DOMAIN u : j = n \/ (j \in 1 .. Len(v) /\ s # None /\ j \in DOMAIN s /\ u[j] = s[j])
  BY <1>1, <1>4, <1>5, <1>6
<1>10. n \in DOMAIN u /\ \A j \in 1 .. Len(v) : j # n
  BY <1>1, <1>6
<1>11. Alone(u, w.name, n)
  BY <1>6, <1>8, <1>9, <1>10 DEF Alone, NoneCalled
<1>12. NoneFrom(u, existing, i + 1)
  <2> SUFFICES ASSUME NEW j \in 1 .. Len(Windows), j >= i + 1, Windows[j].name \notin existing
               PROVE  NoneCalled(u, Windows[j].name)
    BY DEF NoneFrom
  <2>1. NoneCalled(s, Windows[j].name)
    BY DEF NoneFrom
  <2>2. Windows[j].name # w.name
    BY Declared, NamesDiffer
  <2> QED BY <1>6, <1>9, <2>1, <2>2 DEF NoneCalled
<1>13. MadeBefore(u, dk, existing, i)
  <2> SUFFICES ASSUME NEW j \in 1 .. Len(Windows), j < i, Windows[j].name \notin existing
               PROVE  IsMade(u, Windows[j], dk)
    BY DEF MadeBefore
  <2>1. IsMade(s, Windows[j], dk)
    BY DEF MadeBefore
  <2>2. PICK b \in DOMAIN s : Alone(s, Windows[j].name, b) /\ s[b].panes = Decl(Windows[j], dk)
    BY <2>1 DEF IsMade
  <2>3. s # None
    BY <2>1 DEF IsMade
  <2>4. Windows[j].name # w.name
    BY Declared, NamesDiffer
  <2>5. b \in 1 .. Len(v) /\ b \in DOMAIN u /\ u[b] = s[b]
    BY <1>1, <1>4, <1>6, <2>2, <2>3
  <2>6. Alone(u, Windows[j].name, b)
    BY <1>6, <1>9, <2>2, <2>4, <2>5 DEF Alone
  <2> QED BY <1>7, <2>2, <2>5, <2>6 DEF IsMade
<1> QED BY <1>6, <1>7, <1>11, <1>12, <1>13

UpNow(p) == UpAt(run[p], main, listed, disk, branches, session)

\* A run of down, or one that was disturbed or forgotten, promises none of it.
LEMMA NothingOfUp ==
    ASSUME NEW p \in Terminals, ~Making(run'[p])
    PROVE  UpNow(p)'
BY DEF UpNow, UpAt

\* The other runs are told of what changes (Becomes, UserStep).
LEMMA OthersGoOn ==
    ASSUME RunOK, NEW p \in Terminals, \A q \in Terminals : UpNow(q),
           \/ Quiet(p) /\ UNCHANGED <<main, listed, disk, branches>>
           \/ Loud(p)
    PROVE  \A q \in Terminals \ {p} : UpNow(q)'
<1> SUFFICES ASSUME NEW q \in Terminals \ {p} PROVE UpNow(q)'
  OBVIOUS
<1>1. CASE Quiet(p) /\ UNCHANGED <<main, listed, disk, branches>>
  BY <1>1 DEF Quiet, UpNow
<1>2. CASE Loud(p)
  <2>1. run'[q] = Disturb(run[q])
    BY <1>2 DEF Loud
  <2>2. run[q] \in Run /\ InPlace(run[q])
    BY DEF RunOK
  <2>3. run'[q] = NoRun \/ ~run'[q].calm
    BY <2>1, <2>2, DisturbedInPlace
  <2> QED BY <2>3, NothingOfUp DEF NoRun, Making
<1> QED BY <1>1, <1>2

\* A run that ends remembers what it found if it was undisturbed and not dry.
LEMMA DoneMaking ==
    ASSUME RunOK, NEW p \in Terminals, NEW result \in {"ok", "failed"}, run[p].pc # "idle"
    PROVE  LET d == Done(p, result)
           IN  /\ d.pc = "idle"
               /\ Making(d) => /\ Making(run[p]) /\ d.result = result
                               /\ d.have = run[p].have /\ d.existing = run[p].existing
<1>1. CASE run[p].calm /\ ~run[p].dry
  BY <1>1, DoneInPlace DEF Making
<1>2. CASE ~(run[p].calm /\ ~run[p].dry)
  <2>1. Done(p, result) = NoRun
    BY <1>2, DoneInPlace
  <2> QED BY <2>1 DEF NoRun, Making
<1> QED BY <1>1, <1>2

\* Git's list of worktrees.
LEMMA UpLists ==
    ASSUME RunOK, RepoTypeOK, GitOK, NEW p \in Terminals, UpNow(p), List(p)
    PROVE  UpNow(p)'
<1> SUFFICES ASSUME Making(run'[p]) PROVE UpNow(p)'
  BY NothingOfUp
<1>1. /\ UNCHANGED <<main, listed, disk, branches>> /\ run[p].pc = "list"
      /\ \/ ~main.git /\ run'[p] = Done(p, "failed")
         \/ /\ GoesOn(p, IF run[p].op = "up" THEN "tree" ELSE "prune")
            /\ run'[p].have = listed /\ run'[p].i = 1
  BY ListSteps DEF GitOK
<1>2. CASE ~main.git /\ run'[p] = Done(p, "failed")
  <2>1. run'[p].pc = "idle" /\ run'[p].result = "failed"
    BY <1>1, <1>2, DoneMaking
  <2>2. main'.head = None
    BY <1>1, <1>2 DEF RepoTypeOK
  <2> QED BY <2>1, <2>2 DEF UpNow, UpAt, UpEnded, AtWindow
<1>3. CASE /\ GoesOn(p, IF run[p].op = "up" THEN "tree" ELSE "prune")
           /\ run'[p].have = listed /\ run'[p].i = 1
  <2>1. Making(run[p]) /\ run'[p].pc = "tree" /\ run'[p].existing = {}
    BY <1>1, <1>3 DEF GoesOn, Making, UpNow, UpAt
  <2>2. TreesSoFar(run'[p], listed', disk')
    BY <1>1, <1>3 DEF TreesSoFar
  <2> QED BY <2>1, <2>2 DEF UpNow, UpAt, AtWindow
<1> QED BY <1>1, <1>2, <1>3

\* The worktrees, one after the other.
LEMMA UpLooks ==
    ASSUME RunOK, RepoTypeOK, GitOK, NEW p \in Terminals, UpNow(p), Tree(p)
    PROVE  UpNow(p)'
<1> SUFFICES ASSUME Making(run'[p]) PROVE UpNow(p)'
  BY NothingOfUp
<1> DEFINE r == run[p]
           t == Worktrees[r.i]
<1>1. UNCHANGED <<main, listed, disk, branches>> /\ r.pc = "tree" /\ r \in Run
  BY TreeSteps DEF RunOK
<1>2. Making(r) => TreesSoFar(r, listed, disk) /\ r.existing = {}
  BY <1>1 DEF UpNow, UpAt
<1>3. CASE r.i = Len(Worktrees) + 1 /\ run'[p] = To(p, "has")
  <2>1. /\ run'[p].pc = "has" /\ Making(r) /\ run'[p].have = r.have
        /\ run'[p].existing = r.existing
    BY <1>3, ToIs DEF RunPcs, Making
  <2>2. \A u \in Trees : \E j \in 1 .. Len(Worktrees) : j < r.i /\ u = Worktrees[j]
    BY <1>3, Declared DEF Trees
  <2>3. TreesMade(run'[p], listed', disk')
    <3>1. listed \subseteq Trees
      BY DEF GitOK
    <3>2. \A u \in Trees : u \in listed /\ (u \notin r.have => disk[u] = "clean")
      <4> SUFFICES ASSUME NEW u \in Trees
                   PROVE  u \in listed /\ (u \notin r.have => disk[u] = "clean")
        OBVIOUS
      <4>1. PICK j \in 1 .. Len(Worktrees) : j < r.i /\ u = Worktrees[j]
        BY <2>2
      <4> HIDE DEF r
      <4> QED BY <1>2, <2>1, <4>1 DEF TreesSoFar
    <3> QED BY <1>1, <2>1, <3>1, <3>2 DEF TreesMade
  <2> QED BY <1>2, <2>1, <2>3 DEF UpNow, UpAt, AtWindow
<1>4. CASE /\ r.i \in 1 .. Len(Worktrees) /\ t \in r.have /\ GoesOn(p, "tree")
           /\ run'[p].have = r.have /\ run'[p].i = r.i + 1
  <2>1. Making(r) /\ run'[p].pc = "tree" /\ run'[p].existing = {}
    BY <1>2, <1>4 DEF GoesOn, Making
  <2>2. TreesSoFar(run'[p], listed', disk')
    BY <1>1, <1>2, <1>4, <2>1, Declared DEF TreesSoFar
  <2> QED BY <2>1, <2>2 DEF UpNow, UpAt, AtWindow
<1>5. CASE /\ r.i \in 1 .. Len(Worktrees) /\ t \notin r.have /\ disk[t] # "absent"
           /\ run'[p] = Done(p, "failed")
  <2>1. run'[p].pc = "idle" /\ run'[p].result = "failed" /\ Making(r)
    BY <1>1, <1>5, DoneMaking
  <2>2. t \in Trees \ listed
    BY <1>2, <1>5, <2>1, Declared DEF TreesSoFar
  <2>3. disk[t] = "foreign"
    BY <1>5, <2>2 DEF GitOK
  <2> QED BY <1>1, <2>1, <2>2, <2>3 DEF UpNow, UpAt, UpEnded, AtWindow
<1>6. CASE /\ r.i \in 1 .. Len(Worktrees) /\ t \notin r.have /\ disk[t] = "absent"
           /\ GoesTo(p, "add") /\ run'[p].reuse = (BranchOf[t] \in branches)
  <2>1. /\ Making(r) /\ run'[p].pc = "add" /\ run'[p].existing = {} /\ run'[p].i = r.i
        /\ run'[p].have = r.have
    BY <1>2, <1>6 DEF GoesTo, Making
  <2>2. TreesSoFar(run'[p], listed', disk')
    BY <1>1, <1>2, <2>1 DEF TreesSoFar
  <2>3. AboutToAdd(run'[p], disk', branches')
    BY <1>1, <1>6, <2>1 DEF AboutToAdd
  <2> QED BY <2>1, <2>2, <2>3 DEF UpNow, UpAt, AtWindow
<1> QED BY <1>3, <1>4, <1>5, <1>6, TreeSteps

\* git worktree add.
LEMMA UpAdds ==
    ASSUME BranchesDiffer, RunOK, RepoTypeOK, GitOK, NEW p \in Terminals, UpNow(p), AddTree(p)
    PROVE  UpNow(p)'
<1> SUFFICES ASSUME Making(run'[p]) PROVE UpNow(p)'
  BY NothingOfUp
<1> DEFINE r == run[p]
           t == Worktrees[r.i]
<1>1. /\ UNCHANGED main /\ r.pc = "add" /\ r \in Run /\ r.i \in 1 .. Len(Worktrees)
      /\ t \in Trees
  BY AddTreeSteps, Declared DEF RunOK
<1>2. Making(r) =>
         TreesSoFar(r, listed, disk) /\ AboutToAdd(r, disk, branches) /\ r.existing = {}
  BY <1>1 DEF UpNow, UpAt
<1>3. CASE /\ ~r.dry /\ ~CanAdd(t, r.reuse) /\ run'[p] = Done(p, "failed")
           /\ UNCHANGED <<listed, disk, branches>>
  <2>1. run'[p].pc = "idle" /\ run'[p].result = "failed" /\ Making(r)
    BY <1>1, <1>3, DoneMaking
  <2>2. t \notin listed /\ disk[t] = "absent" /\ r.reuse = (BranchOf[t] \in branches)
    BY <1>1, <1>2, <2>1 DEF TreesSoFar, AboutToAdd
  <2>3. BranchOf[t] \notin {BranchOf[u] : u \in listed}
    BY <1>1, <2>2 DEF BranchesDiffer, GitOK
  <2>4. main.head = None
    BY <1>3, <2>2, <2>3 DEF CanAdd
  <2> QED BY <1>1, <2>1, <2>4 DEF UpNow, UpAt, UpEnded, AtWindow
<1>4. CASE /\ GoesOn(p, "tree") /\ run'[p].have = r.have /\ run'[p].i = r.i + 1
           /\ ~r.dry /\ listed' = listed \cup {t}
           /\ disk' = [disk EXCEPT ![t] = "clean"]
  <2>1. Making(r) /\ run'[p].pc = "tree" /\ run'[p].existing = {}
    BY <1>2, <1>4 DEF GoesOn, Making
  <2>2. \A u \in Trees : disk'[u] = IF u = t THEN "clean" ELSE disk[u]
    BY <1>1, <1>4 DEF GitOK, DiskOK
  <2>3. TreesSoFar(run'[p], listed', disk')
    <3> SUFFICES ASSUME NEW j \in 1 .. Len(Worktrees)
                 PROVE  LET u == Worktrees[j]
                        IN  /\ j < r.i + 1 =>
                                  u \in listed' /\ (u \notin r.have => disk'[u] = "clean")
                            /\ j >= r.i + 1 => (u \in listed' <=> u \in r.have)
      BY <1>4 DEF TreesSoFar
    <3> DEFINE u == Worktrees[j]
               i == r.i
    <3>1. u \in Trees /\ (u = t <=> j = i)
      BY <1>1, Declared, WorktreesAssumption
    <3>2. /\ j < i => u \in listed /\ (u \notin r.have => disk[u] = "clean")
          /\ j >= i => (u \in listed <=> u \in r.have)
      BY <1>2, <2>1 DEF TreesSoFar
    <3>3. /\ u \in listed' <=> u \in listed \/ u = t
          /\ disk'[u] = IF u = t THEN "clean" ELSE disk[u]
      BY <1>4, <2>2, <3>1
    <3>4. /\ j < i + 1 <=> j < i \/ j = i
          /\ j >= i + 1 <=> j >= i /\ j # i
      BY <1>1, Declared
    <3> HIDE DEF u, i, t
    <3>5. j < i + 1 => u \in listed' /\ (u \notin r.have => disk'[u] = "clean")
      BY ONLY <3>1, <3>2, <3>3, <3>4
    <3>6. j >= i + 1 => (u \in listed' <=> u \in r.have)
      BY ONLY <3>1, <3>2, <3>3, <3>4
    <3> QED BY <3>5, <3>6 DEF u, i
  <2> QED BY <2>1, <2>3 DEF UpNow, UpAt, AtWindow
<1>5. ~(GoesOn(p, "tree") /\ r.dry)
  BY DEF GoesOn, Making
<1> QED BY <1>3, <1>4, <1>5, AddTreeSteps

\* What the runs of up are for is no matter of down's.
LEMMA NextMaking ==
    ASSUME RunOK, NEW p \in Terminals, run[p].op = "up", run[p].result = "none",
           run[p].i \in 1 .. Len(Windows)
    PROVE  LET n == NextWindow(p)
           IN  /\ n.pc = "window" /\ n.i = run[p].i + 1 /\ n.have = run[p].have
               /\ n.existing = run[p].existing /\ n.running = run[p].running
               /\ Making(n) <=> Making(run[p])
BY NextInPlace DEF Making

\* tmux has-session.
LEMMA UpAsks ==
    ASSUME RunOK, NEW p \in Terminals, UpNow(p), HasSession(p)
    PROVE  UpNow(p)'
<1> SUFFICES ASSUME Making(run'[p]) PROVE UpNow(p)'
  BY NothingOfUp
<1>1. /\ UNCHANGED <<main, listed, disk, branches, session>> /\ run[p].pc = "has"
      /\ run[p] \in Run /\ InPlace(run[p])
  BY HasSessionSteps DEF Quiet, RunOK
<1>2. CASE /\ run[p].op = "up"
           /\ GoesOn(p, IF session = None THEN "window" ELSE "windows")
           /\ run'[p].have = run[p].have /\ run'[p].i = 1
           /\ run'[p].running = (session # None)
  <2>1. Making(run[p]) /\ run'[p].pc \in {"window", "windows"} /\ run'[p].existing = {}
    BY <1>1, <1>2 DEF GoesOn, Making, UpNow, UpAt
  <2>2. TreesMade(run'[p], listed', disk')
    BY <1>1, <1>2, <2>1 DEF UpNow, UpAt, TreesMade
  <2>3. run'[p].pc = "windows" => session' # None /\ run'[p].running
    BY <1>1, <1>2 DEF GoesOn
  <2>4. run'[p].pc = "window" => WindowsSoFar(run'[p], disk', session')
    <3>1. run'[p].pc = "window" => session' = None
      BY <1>1, <1>2 DEF GoesOn
    <3>2. MadeBefore(session', disk', run'[p].existing, run'[p].i)
      BY <1>2 DEF MadeBefore
    <3> QED BY <1>1, <1>2, <3>1, <3>2 DEF WindowsSoFar, NoneFrom, NoneCalled
  <2> QED BY <2>1, <2>2, <2>3, <2>4 DEF UpNow, UpAt, AtWindow
<1>3. ASSUME run[p].op # "up" PROVE FALSE
  <2>1. Done(p, "ok").op \in {run[p].op, "none"}
    BY <1>1, DoneOf
  <2>2. To(p, "kill").op = run[p].op /\ To(p, "list").op = run[p].op
    BY ToIs DEF RunPcs
  <2>3. run'[p].op \in {run[p].op, "none"}
    BY <1>3, <2>1, <2>2, HasSessionSteps
  <2> QED BY <1>3, <2>3 DEF Making
<1> QED BY <1>2, <1>3, HasSessionSteps

\* tmux list-windows.
LEMMA UpSees ==
    ASSUME RunOK, SessionOK, NEW p \in Terminals, UpNow(p), ListWindows(p)
    PROVE  UpNow(p)'
<1> SUFFICES ASSUME Making(run'[p]) PROVE UpNow(p)'
  BY NothingOfUp
<1>1. /\ UNCHANGED <<main, listed, disk, branches, session>>
      /\ run[p].pc = "windows" /\ run'[p].i = 1
      /\ run'[p].pc = "window" /\ run'[p].op = "up" /\ run[p].op = "up"
      /\ run'[p].dry = run[p].dry /\ run'[p].calm = run[p].calm
      /\ run'[p].have = run[p].have /\ run'[p].running = run[p].running
      /\ run'[p].existing = WordsSeen
  BY ListWindowsSteps DEF Quiet
<1>2. Making(run[p])
  BY <1>1 DEF Making
<1>3. TreesMade(run'[p], listed', disk') /\ session # None /\ run'[p].running
  BY <1>1, <1>2 DEF UpNow, UpAt, TreesMade
<1>4. MadeBefore(session', disk', run'[p].existing, run'[p].i)
  BY <1>1 DEF MadeBefore
<1>5. NoneFrom(session', run'[p].existing, run'[p].i)
  <2> SUFFICES ASSUME NEW j \in 1 .. Len(Windows), NEW k \in DOMAIN session,
                      session[k].name = Windows[j].name
               PROVE  Windows[j].name \in WordsSeen
    BY <1>1 DEF NoneFrom, NoneCalled
  <2>1. WordsOf[Windows[j].name] = {Windows[j].name}
    BY Declared, WordsAssumption
  <2> QED BY <1>3, <2>1 DEF WordsSeen, Words
<1> QED BY <1>1, <1>3, <1>4, <1>5 DEF UpNow, UpAt, AtWindow, WindowsSoFar

\* The window that a run is done with joins those made.
LEMMA WindowFinished ==
    ASSUME NEW i \in 1 .. Len(Windows), NEW s, s # None, NEW dk, NEW existing, NEW c,
           Alone(s, Windows[i].name, c), s[c].panes = Decl(Windows[i], dk),
           MadeBefore(s, dk, existing, i)
    PROVE  MadeBefore(s, dk, existing, i + 1)
<1> SUFFICES ASSUME NEW j \in 1 .. Len(Windows), j < i + 1, Windows[j].name \notin existing
             PROVE  IsMade(s, Windows[j], dk)
  BY DEF MadeBefore
<1>1. i \in Nat /\ j \in Nat
  BY Declared
<1>2. CASE j < i
  BY <1>2 DEF MadeBefore
<1>3. CASE j = i
  BY <1>3 DEF IsMade, Alone
<1> QED BY <1>1, <1>2, <1>3

\* A window opens in the directory of its first pane.
LEMMA OpensRight ==
    ASSUME FirstPanesAgree, NEW i \in 1 .. Len(Windows), NEW dk
    PROVE  Opened(<<NewPane(StartIn(Windows[i].dir, dk))>>, Decl(Windows[i], dk), 1, TRUE)
<1> DEFINE w == Windows[i]
           D == Decl(w, dk)
<1>1. /\ D \in Seq(Pane) /\ D # <<>>
      /\ w.panes = <<>> => D[1].dir = StartIn(w.dir, dk)
      /\ w.run => D[1].dir = StartIn(w.dir, dk)
      /\ w.panes # <<>> =>
            \A k \in 1 .. Len(w.panes) : D[Own(w) + k].dir = StartIn(w.panes[k].dir, dk)
  <2>1. D \in Seq(Pane) /\ D # <<>>
    BY DeclIs, ZenonT(30)
  <2>3. w.panes = <<>> => D[1].dir = StartIn(w.dir, dk)
    BY DeclIs, ZenonT(30)
  <2>4. w.run => D[1].dir = StartIn(w.dir, dk) /\ D[1].typed = w.dir
    BY DeclIs, ZenonT(30)
  <2>2. w.panes # <<>> =>
           \A k \in 1 .. Len(w.panes) : D[Own(w) + k].dir = StartIn(w.panes[k].dir, dk)
    BY DeclIs, ZenonT(30)
  <2> QED BY <2>1, <2>2, <2>3, <2>4, Zenon
<1>2. w.panes # <<>> /\ ~w.run => D[1].dir = StartIn(w.dir, dk)
  <2> SUFFICES ASSUME w.panes # <<>>, ~w.run PROVE D[1].dir = StartIn(w.dir, dk)
    OBVIOUS
  <2>1. w.panes[1].dir = w.dir
    BY Declared DEF FirstPanesAgree
  <2>2. 1 \in 1 .. Len(w.panes) /\ Own(w) + 1 = 1
    BY Declared DEF Own
  <2> HIDE DEF w, D
  <2> QED BY <1>1, <2>1, <2>2
<1>3. StartIn(w.dir, dk) \in Dirs
  BY Declared DEF StartIn, Dirs
<1>4. D[1].dir = StartIn(w.dir, dk)
  BY <1>1, <1>2
<1> HIDE DEF D
<1>5. Opened(<<NewPane(StartIn(w.dir, dk))>>, D, 1, TRUE)
  BY <1>1, <1>3, <1>4, FirstPaneOpens
<1> QED BY <1>5 DEF D

\* tmux new-session and new-window.
LEMMA UpOpens ==
    ASSUME FirstPanesAgree, RunOK, SessionOK, NEW p \in Terminals, UpNow(p), NewWindow(p)
    PROVE  UpNow(p)'
<1> SUFFICES ASSUME Making(run'[p]) PROVE UpNow(p)'
  BY NothingOfUp
<1> DEFINE r == run[p]
           w == Windows[r.i]
<1>1. /\ UNCHANGED <<main, listed, disk, branches>> /\ r.pc = "window" /\ r \in Run
      /\ InPlace(r) /\ r.op = "up" /\ r.result = "none"
  BY NewWindowSteps DEF RunOK, NewWindow, repoVars, InPlace, At
<1>2. Making(r) => WindowsSoFar(r, disk, session) /\ TreesMade(r, listed, disk)
  BY <1>1 DEF UpNow, UpAt
<1>3. CASE Quiet(p) /\ r.i > Len(Windows) /\ run'[p] = Done(p, "ok")
  <2>1. /\ run'[p].pc = "idle" /\ run'[p].result = "ok" /\ Making(r)
        /\ run'[p].have = r.have /\ run'[p].existing = r.existing
    BY <1>1, <1>3, DoneMaking
  <2>2. r.i = Len(Windows) + 1
    BY <1>1, <1>3, Declared DEF InPlace
  <2>3. MadeBefore(session', disk', run'[p].existing, Len(Windows) + 1)
    BY <1>1, <1>2, <1>3, <2>1, <2>2 DEF WindowsSoFar, Quiet
  <2>4. TreesMade(run'[p], listed', disk')
    BY <1>1, <1>2, <2>1 DEF TreesMade
  <2> QED BY <2>1, <2>3, <2>4 DEF UpNow, UpAt, UpEnded, AtWindow
<1>4. ASSUME r.running # (session # None), run'[p] = Done(p, "failed") PROVE FALSE
  BY <1>1, <1>2, <1>4, DoneMaking DEF WindowsSoFar
<1>5. CASE /\ Quiet(p) /\ r.i \in 1 .. Len(Windows) /\ w.name \in r.existing
           /\ run'[p] = NextWindow(p)
  <2>1. /\ run'[p].pc = "window" /\ run'[p].i = r.i + 1 /\ run'[p].have = r.have
        /\ run'[p].existing = r.existing /\ run'[p].running = r.running /\ Making(r)
    BY <1>1, <1>5, NextMaking
  <2>2. MadeBefore(session, disk, r.existing, r.i + 1)
    BY <1>2, <1>5, <2>1, Declared DEF WindowsSoFar, MadeBefore
  <2>3. NoneFrom(session, r.existing, r.i + 1)
    BY <1>2, <1>5, <2>1, Declared DEF WindowsSoFar, NoneFrom
  <2>4. WindowsSoFar(run'[p], disk', session')
    BY <1>1, <1>2, <1>5, <2>1, <2>2, <2>3 DEF WindowsSoFar, Quiet
  <2>5. TreesMade(run'[p], listed', disk')
    BY <1>1, <1>2, <2>1 DEF TreesMade
  <2> QED BY <2>1, <2>4, <2>5 DEF UpNow, UpAt, AtWindow
<1>6. CASE /\ GoesTo(p, "keys") /\ r.i \in 1 .. Len(Windows)
           /\ run'[p].k = 1 /\ run'[p].running /\ w.name \notin r.existing
           /\ StartedWindow(w) \in Window
           /\ session' = Append(IF session = None THEN <<>> ELSE session, StartedWindow(w))
  <2>1. /\ run'[p].pc = "keys" /\ run'[p].i = r.i /\ run'[p].have = r.have
        /\ run'[p].existing = r.existing /\ Making(r)
    BY <1>6 DEF GoesTo, Making
  <2>2. StartedWindow(w).name = w.name /\ StartedWindow(w).panes = <<NewPane(StartIn(w.dir, disk))>>
    BY DeclaredNow DEF StartedWindow
  <2> DEFINE v == StartedWindow(w)
  <2>3. /\ session' # None /\ session'[Len(session')] = v
        /\ Alone(session', v.name, Len(session'))
        /\ MadeBefore(session', disk, r.existing, r.i)
        /\ NoneFrom(session', r.existing, r.i + 1)
    <3>2. PICK i \in 1 .. Len(Windows) : i = r.i
      BY <1>6
    <3>3. MadeBefore(session, disk, r.existing, i) /\ NoneFrom(session, r.existing, i)
      BY <1>2, <2>1, <3>2 DEF WindowsSoFar
    <3>4. v \in Window /\ v.name = Windows[i].name /\ v.name \notin r.existing
          /\ session' = Append(IF session = None THEN <<>> ELSE session, v)
      BY <1>6, <2>2, <3>2
    <3> HIDE DEF v
    <3>5. /\ session' # None /\ session'[Len(session')] = v
          /\ Alone(session', v.name, Len(session'))
          /\ MadeBefore(session', disk, r.existing, i)
          /\ NoneFrom(session', r.existing, i + 1)
      BY ONLY SessionOK, <3>3, <3>4, MadeGrows, ZenonT(60)
    <3> QED BY <3>2, <3>5
  <2>4. Opened(v.panes, Decl(w, disk), 1, TRUE)
    <3>1. Opened(<<NewPane(StartIn(w.dir, disk))>>, Decl(w, disk), 1, TRUE)
      BY <1>6, OpensRight, Zenon
    <3> QED BY <2>2, <3>1
  <2>5. WindowBegun(run'[p], disk', session')
    <3>1. PanesSoFar(run'[p], v, w, Decl(w, disk))
      BY <2>1, <2>4 DEF PanesSoFar
    <3>2. Len(session') \in DOMAIN session'
      BY <2>3 DEF Alone
    <3> HIDE DEF v
    <3>3. v.name = w.name
      BY <2>2 DEF v
    <3> QED BY <1>1, <1>6, <2>1, <2>3, <3>1, <3>2, <3>3 DEF WindowBegun
  <2>6. TreesMade(run'[p], listed', disk')
    BY <1>1, <1>2, <2>1 DEF TreesMade
  <2> QED BY <2>1, <2>5, <2>6 DEF UpNow, UpAt, AtWindow
<1>7. ~(GoesTo(p, "keys") /\ r.dry)
  BY DEF GoesTo, Making
<1> QED BY <1>3, <1>4, <1>5, <1>6, <1>7, NewWindowSteps DEF Win

\* At a window, what a run of up knows.
LEMMA BegunIs ==
    ASSUME RunOK, NEW p \in Terminals, UpNow(p), Making(run[p]), run[p].pc \in AtWindow
    PROVE  /\ run[p].i \in 1 .. Len(Windows) /\ TreesMade(run[p], listed, disk)
           /\ session # None /\ run[p].running /\ Win(p).name \notin run[p].existing
           /\ MadeBefore(session, disk, run[p].existing, run[p].i)
           /\ NoneFrom(session, run[p].existing, run[p].i + 1)
           /\ \E c : /\ Alone(session, Win(p).name, c)
                     /\ PanesSoFar(run[p], session[c], Win(p), Decl(Win(p), disk))
<1>1. run[p].i \in 1 .. Len(Windows)
  BY DEF RunOK, InPlace, AtWindow
<1>2. WindowBegun(run[p], disk, session) /\ TreesMade(run[p], listed, disk)
  BY DEF UpNow, UpAt, AtWindow
<1> QED BY <1>1, <1>2 DEF WindowBegun, Win

\* It goes on at that window, which alone may change.
ChangesOnly(p, c) ==
    /\ Alone(session, Win(p).name, c)
    /\ session' # None /\ DOMAIN session' = DOMAIN session
    /\ \A j \in DOMAIN session \ {c} : session'[j] = session[j]
    /\ session'[c].name = session[c].name

LEMMA ChangesNothing ==
    ASSUME NEW p \in Terminals, NEW c, Alone(session, Win(p).name, c), session # None, Quiet(p)
    PROVE  ChangesOnly(p, c) /\ session'[c] = session[c]
BY DEF ChangesOnly, Quiet

LEMMA ChangesStay ==
    ASSUME RunOK, NEW p \in Terminals, UpNow(p), Making(run[p]), run[p].pc \in AtWindow,
           NEW c, ChangesOnly(p, c)
    PROVE  /\ MadeBefore(session', disk, run[p].existing, run[p].i)
           /\ NoneFrom(session', run[p].existing, run[p].i + 1)
           /\ Alone(session', Win(p).name, c)
<1>1. PICK i \in 1 .. Len(Windows) : i = run[p].i
  BY BegunIs
<1>2. /\ session # None /\ MadeBefore(session, disk, run[p].existing, i)
      /\ NoneFrom(session, run[p].existing, i + 1) /\ Alone(session, Windows[i].name, c)
  BY <1>1, BegunIs DEF ChangesOnly, Win
<1>3. /\ MadeBefore(session', disk, run[p].existing, i)
      /\ NoneFrom(session', run[p].existing, i + 1) /\ Alone(session', Windows[i].name, c)
  BY <1>2, MadeStays, ZenonT(60) DEF ChangesOnly
<1> QED BY <1>1, <1>3 DEF Win

LEMMA BegunGoesOn ==
    ASSUME RunOK, NEW p \in Terminals, UpNow(p), Making(run[p]), run[p].pc \in AtWindow,
           NEW c, ChangesOnly(p, c), UNCHANGED <<listed, disk>>,
           run'[p].pc \in AtWindow, run'[p].i = run[p].i, run'[p].have = run[p].have,
           run'[p].existing = run[p].existing, run'[p].running = run[p].running,
           PanesSoFar(run'[p], session'[c], Win(p), Decl(Win(p), disk))
    PROVE  UpNow(p)'
<1>1. WindowBegun(run'[p], disk', session')
  <2>1. c \in DOMAIN session'
    BY DEF ChangesOnly, Alone
  <2> QED BY <2>1, BegunIs, ChangesStay DEF WindowBegun, Win, ChangesOnly
<1>2. TreesMade(run'[p], listed', disk')
  BY BegunIs DEF TreesMade
<1> QED BY <1>1, <1>2 DEF UpNow, UpAt, AtWindow

\* It is done with it.
LEMMA BegunEnds ==
    ASSUME RunOK, NEW p \in Terminals, UpNow(p), Making(run[p]), run[p].pc \in AtWindow,
           NEW c, ChangesOnly(p, c), UNCHANGED <<listed, disk>>,
           run'[p] = NextWindow(p), session'[c].panes = Decl(Win(p), disk)
    PROVE  UpNow(p)'
<1>1. run[p].i \in 1 .. Len(Windows) /\ run[p].op = "up" /\ run[p].result = "none"
  BY BegunIs DEF Making, RunOK, InPlace, AtWindow
<1>2. /\ run'[p].pc = "window" /\ run'[p].i = run[p].i + 1 /\ run'[p].have = run[p].have
      /\ run'[p].existing = run[p].existing /\ run'[p].running = run[p].running
  BY <1>1, NextMaking
<1>3. session' # None
  BY DEF ChangesOnly
<1>4. MadeBefore(session', disk, run[p].existing, run[p].i + 1)
  <2>1. PICK i \in 1 .. Len(Windows) : i = run[p].i
    BY <1>1
  <2>2. /\ MadeBefore(session', disk, run[p].existing, i) /\ Alone(session', Windows[i].name, c)
        /\ session'[c].panes = Decl(Windows[i], disk)
    BY <2>1, ChangesStay DEF Win
  <2>3. MadeBefore(session', disk, run[p].existing, i + 1)
    BY ONLY <1>3, <2>2, WindowFinished, ZenonT(60)
  <2> QED BY <2>1, <2>3
<1>5. WindowsSoFar(run'[p], disk', session')
  BY <1>2, <1>3, <1>4, BegunIs, ChangesStay DEF WindowsSoFar
<1>6. TreesMade(run'[p], listed', disk')
  BY <1>2, BegunIs DEF TreesMade
<1> QED BY <1>2, <1>5, <1>6 DEF UpNow, UpAt, AtWindow

\* The declared panes of the window that a run is at.
LEMMA DeclHere ==
    ASSUME NEW p, run[p].i \in 1 .. Len(Windows)
    PROVE  LET w == Win(p)
               D == Decl(w, disk)
           IN  /\ D \in Seq(Pane) /\ D # <<>> /\ Len(D) \in Nat \ {0}
               /\ w.run \in BOOLEAN /\ w.dir \in Dirs /\ Own(w) \in {0, 1}
               /\ Len(w.panes) \in Nat
               /\ w.panes = <<>> => Len(D) = 1 /\ (~w.run => D[1].typed = None)
               /\ w.run => D[1].typed = w.dir
               /\ w.panes # <<>> =>
                     /\ Len(D) = Own(w) + Len(w.panes)
                     /\ \A k \in 1 .. Len(w.panes) :
                           /\ w.panes[k].dir \in Dirs /\ w.panes[k].run \in BOOLEAN
                           /\ D[Own(w) + k].dir = StartIn(w.panes[k].dir, disk)
                           /\ w.panes[k].run => D[Own(w) + k].typed = w.panes[k].dir
                           /\ ~w.panes[k].run => D[Own(w) + k].typed = None
<1>1. ASSUME NEW i \in 1 .. Len(Windows)
      PROVE  LET w == Windows[i]
                 D == Decl(w, disk)
             IN  /\ D \in Seq(Pane) /\ D # <<>>
                 /\ w.panes = <<>> => Len(D) = 1 /\ (~w.run => D[1].typed = None)
                 /\ w.run => D[1].typed = w.dir
                 /\ w.panes # <<>> =>
                       /\ Len(D) = Own(w) + Len(w.panes)
                       /\ \A k \in 1 .. Len(w.panes) :
                             /\ D[Own(w) + k].dir = StartIn(w.panes[k].dir, disk)
                             /\ w.panes[k].run => D[Own(w) + k].typed = w.panes[k].dir
                             /\ ~w.panes[k].run => D[Own(w) + k].typed = None
  BY DeclIs, ZenonT(60)
<1>2. \A D \in Seq(Pane) : D # <<>> => Len(D) \in Nat \ {0}
  BY EmptySeq, LenProperties
<1>3. ASSUME NEW i \in 1 .. Len(Windows)
      PROVE  LET w == Windows[i]
             IN  /\ w.run \in BOOLEAN /\ w.dir \in Dirs /\ Own(w) \in {0, 1}
                 /\ Len(w.panes) \in Nat
                 /\ \A k \in 1 .. Len(w.panes) :
                       w.panes[k].dir \in Dirs /\ w.panes[k].run \in BOOLEAN
  BY Declared DEF Own
<1> QED BY <1>1, <1>2, <1>3, ZenonT(60) DEF Win

\* send-keys of the window's own command.
LEMMA UpTypes ==
    ASSUME NoNumbers, RunOK, SessionOK, NEW p \in Terminals, UpNow(p), TypeRun(p)
    PROVE  UpNow(p)'
<1> SUFFICES ASSUME Making(run'[p]) PROVE UpNow(p)'
  BY NothingOfUp
<1> DEFINE r == run[p]
           w == Win(p)
           D == Decl(w, disk)
<1>1. /\ UNCHANGED <<listed, disk>> /\ r.pc = "keys" /\ r \in Run /\ InPlace(r)
      /\ r.op = "up" /\ r.result = "none" /\ r.k = 1 /\ r.i \in 1 .. Len(Windows)
  BY TypeRunSteps DEF RunOK, TypeRun, repoVars, InPlace, At
<1>2. /\ AfterRun(p).pc \in {"panes", "window"}
      /\ w.panes = <<>> => AfterRun(p) = NextWindow(p)
      /\ w.panes # <<>> =>
            /\ AfterRun(p).pc = "panes" /\ AfterRun(p).i = r.i /\ AfterRun(p).have = r.have
            /\ AfterRun(p).existing = r.existing /\ AfterRun(p).running = r.running
      /\ Making(AfterRun(p)) => Making(r)
  <2>1. CASE w.panes = <<>>
    BY <1>1, <2>1, AfterRunIs, NextMaking
  <2>2. CASE w.panes # <<>>
    BY <1>1, <2>2, AfterRunIs, ToIs DEF RunPcs, Making
  <2> QED BY <2>1, <2>2
<1>3. Making(r)
  <2>1. run'[p] = AfterRun(p) \/ run'[p] = Done(p, "failed")
    BY TypeRunSteps
  <2> QED BY <1>1, <1>2, <2>1, DoneMaking
<1>4. PICK c : Alone(session, w.name, c) /\ PanesSoFar(r, session[c], w, D)
  BY <1>1, <1>3, BegunIs DEF AtWindow
<1>5. /\ session # None /\ Targets(w.name) = {c} /\ ~Misses(w.name)
      /\ Opened(session[c].panes, D, 1, TRUE)
  <2>1. session # None
    BY <1>1, <1>3, BegunIs DEF AtWindow
  <2> QED BY <1>1, <1>4, <2>1, AloneFound DEF PanesSoFar
<1>6. /\ D \in Seq(Pane) /\ 1 \in 1 .. Len(D) /\ w.run \in BOOLEAN
      /\ w.panes = <<>> => Len(D) = 1
      /\ w.panes = <<>> /\ ~w.run => D[1].typed = None
      /\ w.run => D[1].typed = w.dir
  BY <1>1, DeclHere
<1> HIDE DEF D
<1>7. ASSUME ChangesOnly(p, c), run'[p] = AfterRun(p), Opened(session'[c].panes, D, 1, ~w.run),
             w.panes = <<>> => Opened(session'[c].panes, D, 1, FALSE)
      PROVE  UpNow(p)'
  <2>1. CASE w.panes = <<>>
    <3>1. session'[c].panes = D
      BY <1>6, <1>7, <2>1, PanesAll
    <3> QED BY <1>1, <1>2, <1>3, <1>7, <2>1, <3>1, BegunEnds DEF AtWindow, D
  <2>2. CASE w.panes # <<>>
    <3>1. PanesSoFar(run'[p], session'[c], w, D)
      BY <1>2, <1>7, <2>2 DEF PanesSoFar
    <3> QED BY <1>1, <1>2, <1>3, <1>7, <2>2, <3>1, BegunGoesOn DEF AtWindow, D
  <2> QED BY <2>1, <2>2
<1>8. CASE Quiet(p) /\ run'[p] = AfterRun(p) /\ ~w.run
  <2>1. ChangesOnly(p, c) /\ session'[c] = session[c]
    BY <1>4, <1>5, <1>8, ChangesNothing
  <2>2. w.panes = <<>> => Opened(session'[c].panes, D, 1, FALSE)
    BY <1>5, <1>6, <1>8, <2>1, NothingToType
  <2>3. Opened(session'[c].panes, D, 1, ~w.run)
    <3>1. (~w.run) = TRUE
      BY <1>8
    <3> QED BY <1>5, <2>1, <3>1
  <2> QED BY <1>7, <1>8, <2>1, <2>2, <2>3
<1>9. CASE run'[p] = AfterRun(p) /\ w.run /\ TypedIn(c, w.dir)
  <2>1. ChangesOnly(p, c)
    BY <1>4, <1>5, <1>9 DEF ChangesOnly, Keeps, TypedIn
  <2>2. session'[c].panes
           = [session[c].panes EXCEPT ![1] = Typed(session[c].panes[1], D[1].typed)]
    BY <1>6, <1>9 DEF TypedIn
  <2>3. Opened(session'[c].panes, D, 1, FALSE)
    BY <1>5, <1>6, <2>2, CommandTyped
  <2>4. (~w.run) = FALSE
    BY <1>9
  <2> QED BY <1>7, <1>9, <2>1, <2>3, <2>4
<1>10. \/ Quiet(p) /\ run'[p] = AfterRun(p) /\ (~w.run \/ r.dry)
       \/ run'[p] = AfterRun(p) /\ w.run /\ TypedIn(c, w.dir)
  <2>1. \/ Quiet(p) /\ run'[p] = AfterRun(p) /\ (~w.run \/ r.dry)
        \/ Misses(w.name)
        \/ run'[p] = AfterRun(p) /\ w.run /\ \E i \in Targets(w.name) : TypedIn(i, w.dir)
    BY TypeRunSteps
  <2> QED BY <1>5, <2>1
<1> QED BY <1>3, <1>8, <1>9, <1>10 DEF Making

\* tmux list-panes.
LEMMA UpEnters ==
    ASSUME NoNumbers, RunOK, SessionOK, NEW p \in Terminals, UpNow(p), FirstPane(p)
    PROVE  UpNow(p)'
<1> SUFFICES ASSUME Making(run'[p]) PROVE UpNow(p)'
  BY NothingOfUp
<1> DEFINE r == run[p]
           w == Win(p)
           D == Decl(w, disk)
<1>1. /\ UNCHANGED <<listed, disk>> /\ Quiet(p) /\ r.pc = "panes" /\ r \in Run
      /\ r.i \in 1 .. Len(Windows)
  BY FirstPaneSteps DEF RunOK
<1>2. Making(r)
  BY <1>1, FirstPaneSteps, DoneMaking DEF GoesTo, Making
<1>3. PICK c : Alone(session, w.name, c) /\ PanesSoFar(r, session[c], w, D)
  BY <1>1, <1>2, BegunIs DEF AtWindow
<1>4. /\ session # None /\ Targets(w.name) = {c} /\ ~Misses(w.name)
      /\ Opened(session[c].panes, D, 1, ~w.run) /\ w.panes # <<>>
  <2>1. session # None
    BY <1>1, <1>2, BegunIs DEF AtWindow
  <2> QED BY <1>1, <1>3, <2>1, AloneFound DEF PanesSoFar
<1>5. /\ GoesTo(p, "split") /\ run'[p].k = 1 /\ run'[p].running = r.running
      /\ run'[p].at = <<session[c].id, 1>>
  BY <1>4, FirstPaneSteps
<1>6. ChangesOnly(p, c) /\ session'[c] = session[c]
  BY <1>1, <1>3, <1>4, ChangesNothing
<1>7. PanesSoFar(run'[p], session'[c], w, D)
  <2>1. run'[p].pc = "split" /\ run'[p].at[1] = session[c].id /\ run'[p].at[2] = 1
    BY <1>5 DEF GoesTo
  <2>2. w.run \in BOOLEAN
    BY <1>1, DeclHere
  <2> HIDE DEF D
  <2>3. CASE w.run
    <3>1. Opened(session[c].panes, D, 1, FALSE)
      <4>1. (~w.run) = FALSE
        BY <2>3
      <4> QED BY <1>4, <4>1
    <3>2. ~IsTheWindow(w, 1) /\ Own(w) + 1 - 1 = 1
      BY <2>3 DEF IsTheWindow, Own
    <3> QED BY <1>4, <1>5, <1>6, <2>1, <3>1, <3>2 DEF PanesSoFar
  <2>4. CASE ~w.run
    <3>1. Opened(session[c].panes, D, 1, TRUE)
      <4>1. (~w.run) = TRUE
        BY <2>4
      <4> QED BY <1>4, <4>1
    <3>2. IsTheWindow(w, 1)
      BY <2>4 DEF IsTheWindow
    <3> QED BY <1>4, <1>5, <1>6, <2>1, <3>1, <3>2 DEF PanesSoFar
  <2> QED BY <2>2, <2>3, <2>4
<1> QED BY <1>1, <1>2, <1>5, <1>6, <1>7, BegunGoesOn DEF AtWindow, GoesTo

\* select-layout.
LEMMA UpLaysOut ==
    ASSUME NoNumbers, RunOK, SessionOK, NEW p \in Terminals, UpNow(p), Layout(p)
    PROVE  UpNow(p)'
<1> SUFFICES ASSUME Making(run'[p]) PROVE UpNow(p)'
  BY NothingOfUp
<1> DEFINE r == run[p]
           w == Win(p)
<1>1. /\ UNCHANGED <<listed, disk>> /\ Quiet(p) /\ r.pc = "layout" /\ r \in Run /\ InPlace(r)
      /\ r.i \in 1 .. Len(Windows) /\ r.op = "up" /\ r.result = "none"
  BY LayoutSteps DEF RunOK, InPlace
<1>2. Making(r)
  BY <1>1, LayoutSteps, DoneMaking, NextMaking
<1>3. PICK c : Alone(session, w.name, c) /\ PanesSoFar(r, session[c], w, Decl(w, disk))
  BY <1>1, <1>2, BegunIs DEF AtWindow
<1>4. session # None /\ ~Misses(w.name) /\ session[c].panes = Decl(w, disk)
  <2>1. session # None
    BY <1>1, <1>2, BegunIs DEF AtWindow
  <2> QED BY <1>1, <1>3, <2>1, AloneFound DEF PanesSoFar
<1>5. ChangesOnly(p, c) /\ session'[c] = session[c]
  BY <1>1, <1>3, <1>4, ChangesNothing
<1>6. run'[p] = NextWindow(p)
  BY <1>4, LayoutSteps
<1> QED BY <1>1, <1>2, <1>4, <1>5, <1>6, BegunEnds DEF AtWindow

\* split-window.
LEMMA UpSplits ==
    ASSUME RunOK, SessionOK, NEW p \in Terminals, UpNow(p), SplitPane(p)
    PROVE  UpNow(p)'
<1> SUFFICES ASSUME Making(run'[p]) PROVE UpNow(p)'
  BY NothingOfUp
<1> DEFINE r == run[p]
           w == Win(p)
           D == Decl(w, disk)
<1>1. /\ UNCHANGED <<listed, disk>> /\ r.pc = "split" /\ r \in Run
      /\ r.i \in 1 .. Len(Windows) /\ r.k \in Nat
  BY SplitPaneSteps DEF RunOK, SplitPane, repoVars, Run
<1>2. Making(r)
  <2>1. \/ run'[p] = To(p, "layout") \/ run'[p] = To(p, "type") \/ run'[p] = Done(p, "failed")
        \/ GoesTo(p, "type")
    BY SplitPaneSteps DEF SplitsWindow
  <2>2. Making(Done(p, "failed")) => Making(r)
    BY <1>1, DoneMaking
  <2>3. \A pc \in RunPcs : run'[p] = To(p, pc) => Making(r)
    BY ToIs DEF Making
  <2>4. GoesTo(p, "type") => Making(r)
    BY DEF GoesTo, Making
  <2>5. "layout" \in RunPcs /\ "type" \in RunPcs
    BY DEF RunPcs
  <2> HIDE DEF r
  <2> QED BY <2>1, <2>2, <2>3, <2>4, <2>5, Zenon
<1>3. PICK c : Alone(session, w.name, c) /\ PanesSoFar(r, session[c], w, D)
  BY <1>1, <1>2, BegunIs DEF AtWindow
<1>4. /\ session # None /\ c \in DOMAIN session /\ session[c].id = r.at[1] /\ w.panes # <<>>
      /\ IsTheWindow(w, r.k) => Opened(session[c].panes, D, 1, TRUE) /\ r.at[2] = 1
      /\ ~IsTheWindow(w, r.k) => Opened(session[c].panes, D, Own(w) + r.k - 1, FALSE)
  <2>1. session # None
    BY <1>1, <1>2, BegunIs DEF AtWindow
  <2> QED BY <1>1, <1>3, <2>1 DEF PanesSoFar, Alone
<1>5. Alive(r.at[1]) /\ Place(r.at[1]) = c
  <2>1. Alive(r.at[1])
    BY <1>4 DEF Alive
  <2> QED BY <1>4, <2>1, WindowFound
<1>6. /\ D \in Seq(Pane) /\ Len(D) = Own(w) + Len(w.panes) /\ Own(w) \in {0, 1}
      /\ Len(w.panes) \in Nat /\ w.run \in BOOLEAN
      /\ \A k \in 1 .. Len(w.panes) : D[Own(w) + k].dir = StartIn(w.panes[k].dir, disk)
  BY <1>1, <1>4, DeclHere
<1>7. IsTheWindow(w, r.k) => r.k = 1 /\ Own(w) = 0
  BY DEF IsTheWindow, Own
<1> HIDE DEF D
<1>8. CASE Quiet(p) /\ run'[p] = To(p, "layout") /\ r.k = Len(w.panes) + 1
  <2>1. Len(w.panes) # 0
    BY <1>1, <1>4, Declared DEF Win
  <2>2. ~IsTheWindow(w, r.k) /\ Own(w) + r.k - 1 = Len(D)
    BY <1>6, <1>7, <1>8, <2>1
  <2>3. session[c].panes = D
    BY <1>4, <1>6, <2>2, PanesAll
  <2>4. ChangesOnly(p, c) /\ session'[c] = session[c]
    BY <1>3, <1>4, <1>8, ChangesNothing
  <2>5. /\ run'[p].pc = "layout" /\ run'[p].i = r.i /\ run'[p].have = r.have
        /\ run'[p].existing = r.existing /\ run'[p].running = r.running
    BY <1>8, ToIs DEF RunPcs
  <2>6. PanesSoFar(run'[p], session'[c], w, D)
    BY <1>4, <2>3, <2>4, <2>5 DEF PanesSoFar
  <2> QED BY <1>1, <1>2, <2>4, <2>5, <2>6, BegunGoesOn DEF AtWindow, D
<1>9. CASE Quiet(p) /\ run'[p] = To(p, "type") /\ IsTheWindow(w, r.k)
  <2>1. ChangesOnly(p, c) /\ session'[c] = session[c]
    BY <1>3, <1>4, <1>9, ChangesNothing
  <2>2. /\ run'[p].pc = "type" /\ run'[p].i = r.i /\ run'[p].have = r.have
        /\ run'[p].existing = r.existing /\ run'[p].running = r.running
        /\ run'[p].k = r.k /\ run'[p].at = r.at
    BY <1>9, ToIs DEF RunPcs
  <2>3. PanesSoFar(run'[p], session'[c], w, D)
    <3>1. Opened(session'[c].panes, D, 1, TRUE) /\ r.at[2] = 1 /\ r.at[1] = session'[c].id
      BY <1>4, <1>9, <2>1
    <3>2. r.k = 1 /\ Own(w) = 0 /\ Own(w) + r.k = 1
      BY <1>7, <1>9
    <3>3. Opened(session'[c].panes, D, Own(w) + run'[p].k, TRUE) /\ run'[p].at[2] = Own(w) + run'[p].k
      BY <2>2, <3>1, <3>2
    <3>4. run'[p].pc = "type" /\ run'[p].at[1] = session'[c].id
      BY <2>2, <3>1
    <3> HIDE DEF w, r
    <3> QED BY <1>4, <3>3, <3>4 DEF PanesSoFar
  <2> QED BY <1>1, <1>2, <2>1, <2>2, <2>3, BegunGoesOn DEF AtWindow, D
<1>10. CASE SplitsWindow(p)
  <2> DEFINE d == StartDir(w.panes[r.k].dir)
  <2>1. /\ r.k \in 1 .. Len(w.panes) /\ ~IsTheWindow(w, r.k)
        /\ session' # None /\ DOMAIN session' = DOMAIN session
        /\ \A j \in DOMAIN session \ {c} : session'[j] = session[j]
        /\ Keeps(session[c], session'[c])
        /\ session'[c].panes = Append(session[c].panes, NewPane(d))
        /\ run'[p].at = <<r.at[1], Len(session'[c].panes)>>
        /\ run'[p].pc = "type" /\ run'[p].i = r.i /\ run'[p].have = r.have
        /\ run'[p].existing = r.existing /\ run'[p].running = r.running
        /\ run'[p].k = r.k
    BY <1>5, <1>10 DEF SplitsWindow, GoesTo
  <2>2. d = D[Own(w) + r.k].dir
    BY <1>6, <2>1, DeclaredNow
  <2> HIDE DEF d
  <2> DEFINE n == Own(w) + r.k - 1
  <2>3. n \in Nat /\ n + 1 = Own(w) + r.k /\ n + 1 \in 1 .. Len(D)
    <3> DEFINE o == Own(w)
               k == r.k
               l == Len(w.panes)
               m == Len(D)
    <3>1. o \in {0, 1} /\ k \in 1 .. l /\ l \in Nat /\ m = o + l
      BY <1>6, <2>1
    <3>2. n = o + k - 1
      OBVIOUS
    <3> HIDE DEF o, k, l, m, n
    <3>3. n \in Nat /\ n + 1 = o + k /\ n + 1 \in 1 .. m
      BY ONLY <3>1, <3>2
    <3> QED BY <3>3 DEF o, k, m
  <2>4. Opened(session[c].panes, D, n, FALSE)
    BY <1>4, <2>1
  <2> HIDE DEF n
  <2>5. Opened(session'[c].panes, D, n + 1, TRUE)
    BY <1>6, <2>1, <2>2, <2>3, <2>4, PaneSplit
  <2>6. ChangesOnly(p, c)
    BY <1>3, <2>1 DEF ChangesOnly, Keeps
  <2>7. PanesSoFar(run'[p], session'[c], w, D)
    <3>1. run'[p].at[1] = session'[c].id /\ run'[p].at[2] = Own(w) + run'[p].k
      BY <1>4, <2>1, <2>3, <2>5 DEF Opened, Keeps
    <3> QED BY <1>4, <2>1, <2>3, <2>5, <3>1 DEF PanesSoFar
  <2> QED BY <1>1, <1>2, <2>1, <2>6, <2>7, BegunGoesOn DEF AtWindow, D
<1> QED BY <1>5, <1>8, <1>9, <1>10, SplitPaneSteps

\* send-keys of a pane's command.
LEMMA UpFills ==
    ASSUME RunOK, SessionOK, PanesThere, NEW p \in Terminals, UpNow(p), TypePane(p)
    PROVE  UpNow(p)'
<1> SUFFICES ASSUME Making(run'[p]) PROVE UpNow(p)'
  BY NothingOfUp
<1> DEFINE r == run[p]
           w == Win(p)
           D == Decl(w, disk)
           n == Own(w) + r.k
<1>1. /\ UNCHANGED <<listed, disk>> /\ r.pc = "type" /\ r \in Run
      /\ r.i \in 1 .. Len(Windows) /\ r.k \in 1 .. Len(w.panes)
  BY TypePaneSteps DEF RunOK, TypePane, repoVars
<1>2. Making(r)
  <2>1. run'[p] = Done(p, "failed") \/ GoesTo(p, "split")
    BY TypePaneSteps
  <2>2. Making(Done(p, "failed")) => Making(r)
    BY <1>1, DoneMaking
  <2>3. GoesTo(p, "split") => Making(r)
    BY DEF GoesTo, Making
  <2> QED BY <2>1, <2>2, <2>3
<1>3. PICK c : Alone(session, w.name, c) /\ PanesSoFar(r, session[c], w, D)
  BY <1>1, <1>2, BegunIs DEF AtWindow
<1>4. /\ session # None /\ c \in DOMAIN session /\ session[c].id = r.at[1] /\ w.panes # <<>>
      /\ Opened(session[c].panes, D, n, TRUE) /\ r.at[2] = n
  <2>1. session # None
    BY <1>1, <1>2, BegunIs DEF AtWindow
  <2> QED BY <1>1, <1>3, <2>1 DEF PanesSoFar, Alone
<1>5. Alive(r.at[1]) /\ Place(r.at[1]) = c
  <2>1. Alive(r.at[1])
    BY <1>4 DEF Alive
  <2> QED BY <1>4, <2>1, WindowFound
<1>6. /\ D \in Seq(Pane) /\ n \in 1 .. Len(D) /\ Own(w) \in {0, 1} /\ r.k \in Nat
      /\ w.panes[r.k].run => D[n].typed = w.panes[r.k].dir
      /\ ~w.panes[r.k].run => D[n].typed = None
      /\ w.panes[r.k].run \in BOOLEAN
  <2>1. /\ D \in Seq(Pane) /\ Len(D) = Own(w) + Len(w.panes) /\ Own(w) \in {0, 1}
        /\ Len(w.panes) \in Nat
    BY <1>1, <1>4, DeclHere
  <2>2. /\ w.panes[r.k].run => D[n].typed = w.panes[r.k].dir
        /\ ~w.panes[r.k].run => D[n].typed = None
        /\ w.panes[r.k].run \in BOOLEAN
    BY <1>1, <1>4, DeclHere
  <2> QED BY <1>1, <2>1, <2>2
<1>7. /\ GoesTo(p, "split") /\ run'[p].k = r.k + 1 /\ run'[p].at = r.at
      /\ run'[p].running = r.running
  BY <1>5, TypePaneSteps
<1> HIDE DEF D, n
<1>8. ASSUME ChangesOnly(p, c), session'[c].id = session[c].id,
             Opened(session'[c].panes, D, n, FALSE)
      PROVE  UpNow(p)'
  <2>1. /\ run'[p].pc = "split" /\ run'[p].i = r.i /\ run'[p].have = r.have
        /\ run'[p].existing = r.existing /\ run'[p].at[1] = session'[c].id
    BY <1>4, <1>7, <1>8 DEF GoesTo
  <2>2. ~IsTheWindow(w, r.k + 1)
    BY <1>1, <1>6 DEF IsTheWindow
  <2>3. Own(w) + (r.k + 1) - 1 = n
    BY <1>6 DEF n
  <2>4. PanesSoFar(run'[p], session'[c], w, D)
    BY <1>4, <1>7, <1>8, <2>1, <2>2, <2>3 DEF PanesSoFar
  <2> QED BY <1>1, <1>2, <1>7, <1>8, <2>1, <2>4, BegunGoesOn DEF AtWindow, D
<1>9. CASE Quiet(p) /\ ~w.panes[r.k].run
  <2>1. ChangesOnly(p, c) /\ session'[c] = session[c]
    BY <1>3, <1>4, <1>9, ChangesNothing
  <2>2. Opened(session'[c].panes, D, n, FALSE)
    BY <1>4, <1>6, <1>9, <2>1, NothingToType
  <2> QED BY <1>8, <2>1, <2>2
<1>10. CASE /\ w.panes[r.k].run
            /\ LET i == Place(r.at[1])
               IN  /\ session' # None /\ DOMAIN session' = DOMAIN session
                   /\ \A j \in DOMAIN session \ {i} : session'[j] = session[j]
                   /\ Keeps(session[i], session'[i])
                   /\ session'[i].panes =
                         [session[i].panes EXCEPT
                             ![r.at[2]] = Typed(session[i].panes[r.at[2]],
                                                w.panes[r.k].dir)]
  <2>1. ChangesOnly(p, c) /\ session'[c].id = session[c].id
    BY <1>3, <1>5, <1>10 DEF ChangesOnly, Keeps
  <2>2. session'[c].panes
           = [session[c].panes EXCEPT ![n] = Typed(session[c].panes[n], D[n].typed)]
    BY <1>4, <1>5, <1>6, <1>10
  <2>3. Opened(session'[c].panes, D, n, FALSE)
    BY <1>4, <1>6, <2>2, CommandTyped
  <2> QED BY <1>8, <2>1, <2>3
<1> QED BY <1>2, <1>5, <1>9, <1>10, TypePaneSteps DEF Making

\* UpDelivers, of every workspace whose worktrees have branches of their own, in
\* which the first pane of a window is in the window's directory, and whose window
\* names are no numbers and do not start with a -: undisturbed, up
\* makes what it found missing, worktrees and windows, as the spec declares them, or
\* fails because there is no commit or no free path (Up, tmuxUp, splitPanes).
THEOREM UpMakesTheRest ==
    ASSUME BranchesDiffer, FirstPanesAgree, NoNumbers
    PROVE  Spec => []UpDelivers
<1> DEFINE Inv == \A p \in Terminals : UpNow(p)
<1>1. Init => Inv
  BY DEF Init, NoRun, UpNow, UpAt, Making
<1>2. WsInv /\ Inv /\ [Next]_vars => Inv'
  <2> SUFFICES ASSUME WsInv, Inv, [Next]_vars, NEW q \in Terminals
               PROVE  UpNow(q)'
    OBVIOUS
  <2>0. RunOK /\ SessionOK /\ PanesThere /\ GitOK /\ RepoTypeOK /\ listed \subseteq Trees
    BY DEF WsInv, GitOK
  <2>1. ASSUME UNCHANGED <<main, listed, disk, branches, session, run>>
        PROVE  UpNow(q)'
    BY <2>1 DEF UpNow
  <2>2. ASSUME run' = Disturbed
        PROVE  UpNow(q)'
    <3>1. run'[q] = NoRun \/ ~run'[q].calm
      BY <2>0, <2>2, AllDisturbed, DisturbedInPlace DEF RunOK
    <3> QED BY <3>1, NothingOfUp DEF NoRun, Making
  <2>3. CASE MakeRepo
    BY <2>1, <2>2, <2>3 DEF MakeRepo
  <2>4. ASSUME NEW p \in Terminals, NEW op \in {"up", "down", "prune"}, NEW dry \in DryRuns,
               StartRun(p, op, dry)
        PROVE  UpNow(q)'
    <3>1. Quiet(p) /\ UNCHANGED <<main, listed, disk, branches>>
      BY <2>0, <2>4, StartRunSteps
    <3>2. UpNow(p)'
      <4>1. /\ run'[p].pc \in {"list", "has"} /\ run'[p].op = op /\ run'[p].existing = {}
            /\ run'[p].pc = "has" /\ op = "up" => Worktrees = <<>>
        BY <2>0, <2>4, StartRunSteps
      <4>2. Worktrees = <<>> => Trees = {}
        BY DEF Trees
      <4>3. run'[p].op = "up" /\ run'[p].pc = "has" => TreesMade(run'[p], listed', disk')
        BY <2>0, <3>1, <4>1, <4>2 DEF TreesMade
      <4> QED BY <4>1, <4>3 DEF UpNow, UpAt, Making, AtWindow
    <3> QED BY <2>0, <3>1, <3>2, OthersGoOn
  <2>5. ASSUME NEW p \in Terminals, RunFails(p)
        PROVE  UpNow(q)'
    <3>1. /\ Quiet(p) /\ UNCHANGED <<main, listed, disk, branches>>
          /\ run'[p] = NoRun \/ ~run'[p].calm
      BY <2>0, <2>5, RunFailsSteps
    <3>2. UpNow(p)'
      BY <3>1, NothingOfUp DEF NoRun, Making
    <3> QED BY <2>0, <3>1, <3>2, OthersGoOn
  <2>6. ASSUME NEW p \in Terminals, RunStep(p)
        PROVE  UpNow(q)'
    <3>1. Quiet(p) \/ Loud(p)
      BY <2>0, <2>6, RunStepTyped
    <3>2. ~AddTree(p) /\ ~RemoveTree(p) => UNCHANGED <<main, listed, disk, branches>>
      BY <2>6, OtherCommandsLeaveTrees
    <3>3. AddTree(p) => Loud(p) \/ UNCHANGED <<main, listed, disk, branches>>
      BY <2>0, AddTreeSteps
    <3>4. RemoveTree(p) => Loud(p) \/ UNCHANGED <<main, listed, disk, branches>>
      BY <2>0, RemoveTreeSteps DEF RemoveTree, repoVars
    <3>5. \A u \in Terminals \ {p} : UpNow(u)'
      BY <2>0, <3>1, <3>2, <3>3, <3>4, OthersGoOn
    <3>6. UpNow(p)'
      <4>1. CASE List(p) \/ Tree(p) \/ AddTree(p)
        BY <2>0, <4>1, UpLists, UpLooks, UpAdds
      <4>2. CASE HasSession(p) \/ ListWindows(p) \/ NewWindow(p)
        BY <2>0, <4>2, UpAsks, UpSees, UpOpens
      <4>3. CASE TypeRun(p) \/ FirstPane(p) \/ Layout(p)
        BY <2>0, <4>3, UpTypes, UpEnters, UpLaysOut
      <4>4. CASE SplitPane(p) \/ TypePane(p)
        BY <2>0, <4>4, UpSplits, UpFills
      <4>5. CASE KillSession(p) \/ RemoveTree(p)
        <5>1. /\ run[p].op # "up" /\ run[p].pc # "idle"
              /\ Done(p, "ok").op \in {run[p].op, "none"}
              /\ Done(p, "failed").op \in {run[p].op, "none"}
          <6>1. run[p].pc \in {"kill", "prune"}
            BY <4>5 DEF KillSession, RemoveTree, At
          <6>2. run[p].op # "up"
            BY <2>0, <6>1 DEF RunOK, InPlace
          <6> QED BY <2>0, <6>1, <6>2, DoneOf
        <5>2. To(p, "list").op = run[p].op
          BY <2>0, ToIs DEF RunPcs
        <5>3. run'[p].op # "up"
          <6>1. CASE KillSession(p)
            BY <2>0, <5>1, <5>2, <6>1, KillSessionSteps
          <6>2. CASE RemoveTree(p)
            BY <2>0, <5>1, <6>2, RemoveTreeSteps DEF PrunesOn
          <6> QED BY <4>5, <6>1, <6>2
        <5> QED BY <5>3, NothingOfUp DEF Making
      <4> QED BY <2>6, <4>1, <4>2, <4>3, <4>4, <4>5 DEF RunStep
    <3> QED BY <3>5, <3>6
  <2>7. CASE UserNext
    BY <2>2, <2>7 DEF UserNext, Work, CommitTree, DeleteTree, Occupy, Becoming, OpenWindow,
                      CloseWindow, UserStep
  <2>8. CASE UNCHANGED vars
    BY <2>1, <2>8 DEF vars, wsVars, repoVars
  <2> QED BY <2>3, <2>4, <2>5, <2>6, <2>7, <2>8 DEF Next
<1>3. WsInv /\ Inv => UpDelivers
  <2> SUFFICES ASSUME WsInv, Inv, NEW p \in Terminals, RunEnded(p, "up")
               PROVE  CASE run[p].result = "ok" ->
                             /\ listed = Trees
                             /\ \A t \in Trees \ run[p].have : disk[t] = "clean"
                             /\ \A i \in DOMAIN Windows :
                                   LET w == Windows[i]
                                   IN  w.name \notin run[p].existing =>
                                          \E j \in DOMAIN session :
                                              /\ Called({w.name}) = {j}
                                              /\ session[j].panes = DeclaredPanes(w)
                        [] OTHER -> \/ main.head = None
                                    \/ \E t \in Trees \ listed : disk[t] = "foreign"
    BY DEF UpDelivers
  <2>1. Making(run[p]) /\ run[p].pc = "idle"
    BY DEF WsInv, RunOK, InPlace, Making, RunEnded
  <2>2. UpEnded(run[p], main, listed, disk, session)
    BY <2>1 DEF UpNow, UpAt
  <2>3. CASE run[p].result = "ok"
    <3>1. /\ listed = Trees
          /\ \A t \in Trees \ run[p].have : disk[t] = "clean"
          /\ MadeBefore(session, disk, run[p].existing, Len(Windows) + 1)
      BY <2>2, <2>3 DEF UpEnded, TreesMade
    <3>2. ASSUME NEW i \in DOMAIN Windows, Windows[i].name \notin run[p].existing
          PROVE  \E j \in DOMAIN session :
                     /\ Called({Windows[i].name}) = {j}
                     /\ session[j].panes = DeclaredPanes(Windows[i])
      <4>1. i \in 1 .. Len(Windows) /\ i < Len(Windows) + 1
        BY Declared
      <4>2. IsMade(session, Windows[i], disk)
        BY <3>1, <3>2, <4>1 DEF MadeBefore
      <4> QED BY <4>2, DeclaredNow DEF IsMade
    <3> QED BY <2>3, <3>1, <3>2
  <2>4. CASE run[p].result # "ok"
    BY <2>2, <2>4 DEF UpEnded
  <2> QED BY <2>3, <2>4
<1> QED BY <1>1, <1>2, <1>3, WsInvariant, PTL DEF Spec

=============================================================================
