------------------------------- MODULE Workspace -------------------------------
(***************************************************************************)
(* tilegen up, down and status (workspace.go): git worktrees beside the    *)
(* repository that Repo makes, and a tmux session with windows and panes   *)
(* in them.  Runs in two terminals may overlap; each command may fail, and *)
(* a run may be killed between two of them.  The user works in the         *)
(* worktrees and the session meanwhile.                                    *)
(*                                                                         *)
(* Attaching to the session changes nothing and is left out.               *)
(***************************************************************************)
EXTENDS Repo, Sequences

CONSTANTS
    Terminals,
    Worktrees, \* names of worktrees, in the order of the spec
    BranchOf,  \* the branch of each
    Windows,   \* in the order of the spec; a dir is Main or a worktree's name
    Titles,    \* names of windows the user opens
    WordsOf,   \* the words of each window's name
    StartsOf,  \* the names of windows that start with a declared one's, its own excepted
    Numbers,   \* the declared names that are a number or start with a -
    Main, Home \* directories

Trees == {Worktrees[i] : i \in DOMAIN Worktrees}
Branches == {BranchOf[t] : t \in Trees}
Names == {Windows[i].name : i \in DOMAIN Windows}
Dirs == Trees \cup {Main, Home}

\* split windows have panes; run: a command is declared for it.
PaneForm == [dir : Trees \cup {Main}, run : BOOLEAN]
WindowForm == [name : Names, dir : Trees \cup {Main}, run : BOOLEAN, panes : Seq(PaneForm)]
ASSUME WorktreesAssumption ==
    /\ Worktrees \in Seq(Trees)
    /\ \A i, j \in DOMAIN Worktrees : Worktrees[i] = Worktrees[j] => i = j
ASSUME WindowsAssumption ==
    /\ Windows \in Seq(WindowForm)
    /\ \A i, j \in DOMAIN Windows : Windows[i].name = Windows[j].name => i = j
    /\ Windows # <<>>
    /\ Names \cup Titles \subseteq DOMAIN WordsOf /\ Names \subseteq DOMAIN StartsOf
    /\ Numbers \subseteq Names
ASSUME WordsAssumption == \A n \in Names : WordsOf[n] = {n}

VARIABLES
    listed,   \* the worktrees git lists
    disk,     \* what there is at the path of each
    branches, \* the branches of the repository
    session,  \* the windows of the tmux session, or None
    opened,   \* windows opened so far: the last window's id
    run       \* the run of up or down in each terminal

wsVars == <<listed, disk, branches, session, opened, run>>
vars == <<repoVars, wsVars>>

\* A pane was started in a directory; typed is the directory of the spec that the
\* command typed into it belongs to.
Pane == [dir : Dirs, typed : Dirs \cup {None}]
NewPane(dir) == [dir |-> dir, typed |-> None]

\* ours: up made it; id tells the windows apart. A session is a sequence of them.
Window == [id : Nat, name : Names \cup Titles, ours : BOOLEAN, panes : Seq(Pane) \ {<<>>}]
ASSUME NoSessionAssumption == None \notin Seq(Window)

\* have and existing are what a run found; own is the window it makes, at the
\* pane it made last; i, j, k its places in the spec; calm as in Repo.
NoRun == [op |-> "none", pc |-> "idle", dry |-> FALSE, have |-> {}, existing |-> {},
          running |-> FALSE, reuse |-> FALSE, i |-> 1, k |-> 1, at |-> <<0, 0>>,
          errs |-> FALSE, calm |-> TRUE, result |-> "none"]

TypeOK ==
    /\ RepoTypeOK
    /\ listed \subseteq Trees /\ branches \subseteq Branches
    /\ disk \in [Trees -> {"absent", "clean", "dirty", "foreign"}]
    /\ \A t \in Trees \ listed : disk[t] \in {"absent", "foreign"}
    /\ listed # {} => main.head # None /\ {BranchOf[t] : t \in listed} \subseteq branches
    /\ session # None =>
          /\ Len(session) \in 1 .. opened
          /\ \A i \in DOMAIN session : session[i].panes \in Seq(Pane) \ {<<>>}
    /\ \A p \in Terminals :
          /\ DOMAIN run[p] = DOMAIN NoRun
          /\ run[p].pc = "idle" <=> run[p].result # "none" \/ run[p].op = "none"

Init ==
    /\ RepoInit
    /\ listed = {}
    /\ disk \in [Trees -> {"absent"}]
    /\ branches = {}
    /\ session = None /\ opened = 0
    /\ run = [p \in Terminals |-> NoRun]
-----------------------------------------------------------------------------
(***************************************************************************)
(* Steps of a run.  Whatever changes something disturbs the other runs.    *)
(***************************************************************************)
Disturbed ==
    [q \in Terminals |->
        IF run[q].pc = "idle" THEN NoRun ELSE [run[q] EXCEPT !.calm = FALSE]]
\* p becomes r, and something changed.
Becomes(p, r) == run' = [Disturbed EXCEPT ![p] = r]
Moves(p, r) == run' = [run EXCEPT ![p] = r]
At(p, pc) == run[p].pc = pc
To(p, pc) == [run[p] EXCEPT !.pc = pc]
\* What a run found and how it ended is remembered until something changes, if
\* it was undisturbed and not dry.
Done(p, result) ==
    IF run[p].calm /\ ~run[p].dry
    THEN [NoRun EXCEPT !.op = run[p].op, !.have = run[p].have,
                       !.existing = run[p].existing, !.result = result]
    ELSE NoRun

StartRun(p, op, dry) ==
    /\ At(p, "idle") /\ budget.runs < MaxRuns
    /\ Moves(p, [NoRun EXCEPT !.op = op, !.dry = dry,
                    !.pc = IF op = "up" /\ Worktrees # <<>> THEN "list" ELSE "has"])
    /\ budget' = [budget EXCEPT !.runs = @ + 1]
    /\ UNCHANGED <<main, github, job, listed, disk, branches, session, opened>>

\* worktreesOf, for Up and for Down.
List(p) ==
    /\ At(p, "list")
    /\ IF main.git
       THEN Moves(p, [To(p, IF run[p].op = "up" THEN "tree" ELSE "prune")
                        EXCEPT !.have = listed, !.i = 1])
       ELSE Moves(p, Done(p, "failed"))
    /\ UNCHANGED <<repoVars, listed, disk, branches, session, opened>>

\* Mutant: the branch is always to be made.
TreeOfNewBranch(p) ==
    /\ At(p, "tree")
    /\ LET t == Worktrees[run[p].i]
       IN  IF run[p].i > Len(Worktrees) THEN Moves(p, To(p, "has"))
           ELSE IF t \in run[p].have THEN Moves(p, [run[p] EXCEPT !.i = @ + 1])
           ELSE IF disk[t] # "absent" THEN Moves(p, Done(p, "failed"))
           ELSE Moves(p, To(p, "add"))
    /\ UNCHANGED <<repoVars, listed, disk, branches, session, opened>>

\* Up passes over the worktrees git lists, and looks for the branch of one that
\* is not there.
Tree(p) ==
    /\ At(p, "tree")
    /\ LET t == Worktrees[run[p].i]
       IN  IF run[p].i > Len(Worktrees) THEN Moves(p, To(p, "has"))
           ELSE IF t \in run[p].have THEN Moves(p, [run[p] EXCEPT !.i = @ + 1])
           ELSE IF disk[t] # "absent" THEN Moves(p, Done(p, "failed"))
           ELSE Moves(p, [To(p, "add") EXCEPT !.reuse = BranchOf[t] \in branches])
    /\ UNCHANGED <<repoVars, listed, disk, branches, session, opened>>

\* git worktree add, with -b for a branch of its own.
CanAdd(t, reuse) ==
    /\ main.head # None
    /\ t \notin listed /\ disk[t] = "absent"
    /\ reuse = (BranchOf[t] \in branches)
    /\ BranchOf[t] \notin {BranchOf[u] : u \in listed}
AddTree(p) ==
    /\ At(p, "add")
    /\ LET t == Worktrees[run[p].i]
           next == [To(p, "tree") EXCEPT !.i = @ + 1]
       IN  IF run[p].dry
           THEN Moves(p, next) /\ UNCHANGED <<listed, disk, branches>>
           ELSE IF ~CanAdd(t, run[p].reuse)
           THEN Moves(p, Done(p, "failed")) /\ UNCHANGED <<listed, disk, branches>>
           ELSE /\ Becomes(p, next)
                /\ listed' = listed \cup {t}
                /\ disk' = [disk EXCEPT ![t] = "clean"]
                /\ branches' = branches \cup {BranchOf[t]}
    /\ UNCHANGED <<repoVars, session, opened>>
-----------------------------------------------------------------------------
(***************************************************************************)
(* tmuxUp and splitPanes.  A window is addressed by its name: tmux takes   *)
(* the one window of that name or, if there is none, the one whose name    *)
(* starts with it.  Before that it takes a number for the index of a       *)
(* window, and what starts with a - for an offset from the current one.    *)
(* Which windows those are is up to the base-index and to the user, who    *)
(* moves and selects windows: it may be any.  A pane is addressed by its   *)
(* id.                                                                     *)
(***************************************************************************)
Words(names) == UNION {WordsOf[n] : n \in names}
Called(names) == {i \in DOMAIN session : session[i].name \in names}
Matching(name) == IF Called({name}) # {} THEN Called({name}) ELSE Called(StartsOf[name])
Targets(name) ==
    IF session = None THEN {}
    ELSE {i \in DOMAIN session : Matching(name) = {i} \/ name \in Numbers}
Misses(name) == session # None => \A i \in DOMAIN session : Matching(name) # {i}
Alive(id) == session # None /\ \E i \in DOMAIN session : session[i].id = id
Place(id) == CHOOSE i \in DOMAIN session : session[i].id = id

\* tmux starts a shell at home if its directory is missing.
StartDir(d) == IF d \in Trees /\ disk[d] = "absent" THEN Home ELSE d

Win(p) == Windows[run[p].i]
\* After a window has its command, its panes; after those, the next window.
NextWindow(p) == [To(p, "window") EXCEPT !.i = @ + 1]
AfterRun(p) == IF Win(p).panes = <<>> THEN NextWindow(p) ELSE To(p, "panes")

\* Down goes on to the worktrees without a session.
HasSession(p) ==
    /\ At(p, "has")
    /\ IF run[p].op = "up"
       THEN Moves(p, [To(p, IF session = None THEN "window" ELSE "windows")
                        EXCEPT !.running = session # None, !.i = 1])
       ELSE IF session # None THEN Moves(p, To(p, "kill"))
       ELSE Moves(p, IF run[p].op = "prune" THEN To(p, "list") ELSE Done(p, "ok"))
    /\ UNCHANGED <<repoVars, listed, disk, branches, session, opened>>

\* The error of list-windows is dropped.
ListWindows(p) ==
    /\ At(p, "windows")
    /\ Moves(p, [To(p, "window") EXCEPT
                    !.existing = IF session = None THEN {}
                                 ELSE Words({session[i].name : i \in DOMAIN session})])
    /\ UNCHANGED <<repoVars, listed, disk, branches, session, opened>>

NewWindow(p) ==
    /\ At(p, "window")
    /\ LET w == Win(p)
           r == [To(p, "keys") EXCEPT !.running = TRUE, !.k = 1]
           pane == NewPane(StartDir(w.dir))
       IN  IF run[p].i > Len(Windows)
           THEN Moves(p, Done(p, "ok")) /\ UNCHANGED <<session, opened>>
           ELSE IF w.name \in run[p].existing
           THEN Moves(p, NextWindow(p)) /\ UNCHANGED <<session, opened>>
           ELSE IF run[p].dry
           THEN Moves(p, r) /\ UNCHANGED <<session, opened>>
           ELSE IF run[p].running # (session # None) \* no such session, or one more
           THEN Moves(p, Done(p, "failed")) /\ UNCHANGED <<session, opened>>
           ELSE /\ Becomes(p, r)
                /\ opened' = opened + 1
                /\ session' = Append(IF session = None THEN <<>> ELSE session,
                                     [id |-> opened + 1, name |-> w.name, ours |-> TRUE,
                                      panes |-> <<pane>>])
    /\ UNCHANGED <<repoVars, listed, disk, branches>>

\* send-keys to the window's name: typed into its first pane.
TypeRun(p) ==
    /\ At(p, "keys")
    /\ LET w == Win(p)
       IN  \/ /\ ~w.run \/ run[p].dry
              /\ Moves(p, AfterRun(p)) /\ UNCHANGED session
           \/ /\ w.run /\ ~run[p].dry /\ Misses(w.name)
              /\ Moves(p, Done(p, "failed")) /\ UNCHANGED session
           \/ /\ w.run /\ ~run[p].dry
              /\ Becomes(p, AfterRun(p))
              /\ \E i \in Targets(w.name) :
                    session' = [session EXCEPT ![i].panes[1].typed = w.dir]
    /\ UNCHANGED <<repoVars, listed, disk, branches, opened>>

\* firstPaneID only asks, also in a dry run.
FirstPane(p) ==
    /\ At(p, "panes")
    /\ \/ Misses(Win(p).name) /\ Moves(p, Done(p, "failed"))
       \/ \E i \in Targets(Win(p).name) :
             Moves(p, [To(p, "split") EXCEPT !.at = <<session[i].id, 1>>])
    /\ UNCHANGED <<repoVars, listed, disk, branches, session, opened>>

\* The first pane of a window without a command of its own is the window itself.
IsTheWindow(w, k) == k = 1 /\ ~w.run
\* Mutant: the id of the new pane is not kept.
SplitPaneForgets(p) ==
    /\ At(p, "split")
    /\ LET w == Win(p)
           id == run[p].at[1]
           here == Place(id)
       IN  IF run[p].k > Len(w.panes)
           THEN Moves(p, To(p, "layout")) /\ UNCHANGED session
           ELSE IF IsTheWindow(w, run[p].k)
           THEN Moves(p, To(p, "type")) /\ UNCHANGED session
           ELSE /\ Alive(id) /\ Becomes(p, To(p, "type"))
                /\ session' = [session EXCEPT
                        ![here].panes = Append(@, NewPane(StartDir(w.panes[run[p].k].dir)))]
    /\ UNCHANGED <<repoVars, listed, disk, branches, opened>>

SplitPane(p) ==
    /\ At(p, "split")
    /\ LET w == Win(p)
           k == run[p].k
           id == run[p].at[1]
       IN  IF k > Len(w.panes)
           THEN Moves(p, To(p, "layout")) /\ UNCHANGED session
           ELSE IF IsTheWindow(w, k)
           THEN Moves(p, To(p, "type")) /\ UNCHANGED session
           ELSE IF ~Alive(id) THEN Moves(p, Done(p, "failed")) /\ UNCHANGED session
           ELSE LET panes == Append(session[Place(id)].panes, NewPane(StartDir(w.panes[k].dir)))
                IN  /\ Becomes(p, [To(p, "type") EXCEPT !.at = <<id, Len(panes)>>])
                    /\ session' = [session EXCEPT ![Place(id)].panes = panes]
    /\ UNCHANGED <<repoVars, listed, disk, branches, opened>>

TypePane(p) ==
    /\ At(p, "type")
    /\ LET pane == Win(p).panes[run[p].k]
           id == run[p].at[1]
           next == [To(p, "split") EXCEPT !.k = @ + 1]
       IN  IF ~pane.run \/ run[p].dry THEN Moves(p, next) /\ UNCHANGED session
           ELSE IF ~Alive(id) THEN Moves(p, Done(p, "failed")) /\ UNCHANGED session
           ELSE /\ Becomes(p, next)
                /\ session' = [session EXCEPT
                                 ![Place(id)].panes[run[p].at[2]].typed = pane.dir]
    /\ UNCHANGED <<repoVars, listed, disk, branches, opened>>

\* select-layout, for two panes and more.
Layout(p) ==
    /\ At(p, "layout")
    /\ LET asks == Len(Win(p).panes) > 1 /\ ~run[p].dry
       IN  \/ /\ asks => Targets(Win(p).name) # {}
              /\ Moves(p, NextWindow(p))
           \/ /\ asks /\ Misses(Win(p).name)
              /\ Moves(p, Done(p, "failed"))
    /\ UNCHANGED <<repoVars, listed, disk, branches, session, opened>>
-----------------------------------------------------------------------------
(***************************************************************************)
(* Down.                                                                   *)
(***************************************************************************)
KillSession(p) ==
    /\ At(p, "kill")
    /\ LET next == IF run[p].op = "prune" THEN To(p, "list") ELSE Done(p, "ok")
       IN  IF run[p].dry THEN Moves(p, next) /\ UNCHANGED session
           ELSE IF session = None THEN Moves(p, Done(p, "failed")) /\ UNCHANGED session
           ELSE Becomes(p, next) /\ session' = None
    /\ UNCHANGED <<repoVars, listed, disk, branches, opened>>

\* Mutants: git forgets the worktree and its directory stays; the first error
\* ends the run; git worktree remove --force.
RemoveTreeForgets(p) ==
    /\ At(p, "prune") /\ run[p].i <= Len(Worktrees)
    /\ Becomes(p, [run[p] EXCEPT !.i = @ + 1])
    /\ listed' = listed \ {Worktrees[run[p].i]}
    /\ UNCHANGED <<repoVars, disk, branches, session, opened>>
RemoveTreeIf(p, can(_), stops) ==
    /\ At(p, "prune")
    /\ LET t == Worktrees[run[p].i]
       IN  IF run[p].i > Len(Worktrees)
           THEN Moves(p, Done(p, "ok")) /\ UNCHANGED <<listed, disk>>
           ELSE IF t \in run[p].have /\ can(t)
           THEN /\ Becomes(p, [run[p] EXCEPT !.i = @ + 1])
                /\ listed' = listed \ {t}
                /\ disk' = [disk EXCEPT ![t] = "absent"]
           ELSE /\ Moves(p, IF stops /\ t \in run[p].have THEN Done(p, "failed")
                            ELSE [run[p] EXCEPT !.i = @ + 1])
                /\ UNCHANGED <<listed, disk>>
    /\ UNCHANGED <<repoVars, branches, session, opened>>
RemoveTreeStops(p) ==
    RemoveTreeIf(p, LAMBDA t : t \in listed /\ disk[t] \in {"clean", "absent"}, TRUE)
RemoveTreeForce(p) == RemoveTreeIf(p, LAMBDA t : t \in listed, FALSE)

\* git worktree remove; one whose directory is gone is only forgotten.
CanRemove(t) == t \in listed /\ disk[t] \in {"clean", "absent"}
RemoveTree(p) ==
    /\ At(p, "prune")
    /\ LET t == Worktrees[run[p].i]
           next == [run[p] EXCEPT !.i = @ + 1]
       IN  IF run[p].i > Len(Worktrees)
           THEN /\ Moves(p, Done(p, IF run[p].errs THEN "failed" ELSE "ok"))
                /\ UNCHANGED <<listed, disk>>
           ELSE IF t \notin run[p].have \/ run[p].dry
           THEN Moves(p, next) /\ UNCHANGED <<listed, disk>>
           ELSE IF ~CanRemove(t)
           THEN Moves(p, [next EXCEPT !.errs = TRUE]) /\ UNCHANGED <<listed, disk>>
           ELSE /\ Becomes(p, next)
                /\ listed' = listed \ {t}
                /\ disk' = [disk EXCEPT ![t] = "absent"]
    /\ UNCHANGED <<repoVars, branches, session, opened>>

\* A command fails without effect, or the run is killed.  An error of git worktree
\* remove does not end the run.
RunFails(p) ==
    /\ ~At(p, "idle") /\ budget.faults < MaxFaults
    /\ budget' = [budget EXCEPT !.faults = @ + 1]
    /\ \/ Moves(p, NoRun)
       \/ /\ At(p, "prune") /\ run[p].i <= Len(Worktrees)
          /\ Moves(p, [run[p] EXCEPT !.i = @ + 1, !.errs = TRUE, !.calm = FALSE])
    /\ UNCHANGED <<main, github, job, listed, disk, branches, session, opened>>

RunStep(p) ==
    \/ List(p) \/ Tree(p) \/ AddTree(p)
    \/ HasSession(p) \/ ListWindows(p) \/ NewWindow(p) \/ TypeRun(p)
    \/ FirstPane(p) \/ SplitPane(p) \/ TypePane(p) \/ Layout(p)
    \/ KillSession(p) \/ RemoveTree(p)
-----------------------------------------------------------------------------
(***************************************************************************)
(* Status, of a worktree.                                                  *)
(***************************************************************************)
StatusOf(t) ==
    CASE disk[t] = "absent" -> "missing (run tilegen up)"
      [] disk[t] = "foreign" -> "not a git checkout"
      [] disk[t] = "dirty" -> "changed"
      [] OTHER -> "clean"
-----------------------------------------------------------------------------
(***************************************************************************)
(* The user, in the worktrees and in the session.                          *)
(***************************************************************************)
UserStep ==
    /\ budget.edits < MaxEdits
    /\ budget' = [budget EXCEPT !.edits = @ + 1]
    /\ run' = Disturbed
    /\ UNCHANGED <<main, github, job>>

\* Works in a worktree, commits, deletes it, has something else in its place.
Becoming(t, from, to) ==
    /\ UserStep
    /\ disk[t] \in from
    /\ disk' = [disk EXCEPT ![t] = to]
    /\ UNCHANGED <<listed, branches, session, opened>>
Work(t) == Becoming(t, {"clean"}, "dirty")
CommitTree(t) == Becoming(t, {"dirty"}, "clean")
DeleteTree(t) == Becoming(t, {"clean", "dirty", "foreign"}, "absent")
Occupy(t) == Becoming(t, {"absent"}, "foreign")

OpenWindow(title) ==
    /\ UserStep
    /\ opened' = opened + 1
    /\ session' = Append(IF session = None THEN <<>> ELSE session,
                         [id |-> opened + 1, name |-> title, ours |-> FALSE,
                          panes |-> <<NewPane(Main)>>])
    /\ UNCHANGED <<listed, disk, branches>>

\* The session ends with its last window.
CloseWindow(i) ==
    /\ UserStep
    /\ session' = IF Len(session) = 1 THEN None
                  ELSE [j \in 1 .. Len(session) - 1 |-> session[IF j < i THEN j ELSE j + 1]]
    /\ UNCHANGED <<listed, disk, branches, opened>>

UserNext ==
    \/ \E t \in Trees : Work(t) \/ CommitTree(t) \/ DeleteTree(t) \/ Occupy(t)
    \/ \E title \in Titles : OpenWindow(title)
    \/ session # None /\ \E i \in DOMAIN session : CloseWindow(i)

\* A change of the main checkout disturbs the runs too.
MakeRepo ==
    /\ RepoNext
    /\ run' = IF main' = main THEN run ELSE Disturbed
    /\ UNCHANGED <<listed, disk, branches, session, opened>>

Next ==
    \/ MakeRepo
    \/ \E p \in Terminals :
          \/ \E op \in {"up", "down", "prune"}, dry \in DryRuns : StartRun(p, op, dry)
          \/ RunStep(p) \/ RunFails(p)
    \/ UserNext

Spec == Init /\ [][Next]_vars
-----------------------------------------------------------------------------
(***************************************************************************)
(* What the commands promise.                                              *)
(***************************************************************************)

\* "git worktree remove, which refuses to delete uncommitted work, and branches
\* are always kept" (README.md:326): no step but the user's own undoes work in
\* a worktree, touches what else may be at its path, or drops a branch.
WorkIsSafe ==
    [][budget'.edits = budget.edits =>
          /\ branches \subseteq branches'
          /\ \A t \in Trees : disk[t] \in {"dirty", "foreign"} => disk'[t] = disk[t]]_vars

RunEnded(p, op) == run[p].op = op /\ run[p].result # "none"

\* What the spec says of the panes of a window.
DeclaredPanes(w) ==
    LET forms == IF w.run \/ w.panes = <<>>
                 THEN <<[dir |-> w.dir, run |-> w.run]>> \o w.panes
                 ELSE w.panes
    IN  [k \in DOMAIN forms |->
            [dir |-> StartDir(forms[k].dir),
             typed |-> IF forms[k].run THEN forms[k].dir ELSE None]]

\* "Up creates missing worktrees, then creates or completes the tmux session"
\* (workspace.go:340): undisturbed, it makes every worktree git did not list and
\* one window of every name it did not see, with its panes where the spec has
\* them, or fails for want of a commit or of a free path.
UpDelivers ==
    \A p \in Terminals :
        RunEnded(p, "up") =>
            CASE run[p].result = "ok" ->
                   /\ listed = Trees
                   /\ \A t \in Trees \ run[p].have : disk[t] = "clean"
                   /\ \A i \in DOMAIN Windows :
                         LET w == Windows[i]
                         IN  w.name \notin run[p].existing =>
                                \E j \in DOMAIN session :
                                    /\ Called({w.name}) = {j}
                                    /\ session[j].panes = DeclaredPanes(w)
              [] OTHER -> \/ main.head = None
                          \/ \E t \in Trees \ listed : disk[t] = "foreign"

\* "Down closes the tmux session. With prune it also removes worktrees"
\* (workspace.go:500): undisturbed, it leaves no session and, of the worktrees,
\* those with uncommitted changes or not git's any more, and says so.
DownDelivers ==
    \A p \in Terminals :
        /\ RunEnded(p, "down") => session = None /\ run[p].result = "ok"
        /\ RunEnded(p, "prune") =>
              /\ session = None
              /\ main.git => \A t \in listed : disk[t] \in {"dirty", "foreign"}
              /\ run[p].result = "ok" <=> main.git /\ listed = {}

\* A window without a command is its own first pane. One directory for both, at
\* least if there is a command to type there.
FirstPanesAgree ==
    \A i \in DOMAIN Windows :
        LET w == Windows[i] IN w.panes # <<>> /\ ~w.run => w.panes[1].dir = w.dir
FirstCommandsAgree ==
    \A i \in DOMAIN Windows :
        LET w == Windows[i]
        IN  w.panes # <<>> /\ ~w.run /\ w.panes[1].run => w.panes[1].dir = w.dir

\* A branch is checked out in one worktree at most.
BranchesDiffer == \A t, u \in Trees : BranchOf[t] = BranchOf[u] => t = u

\* No declared name starts with another, and none is a number or starts with a -.
NamesApart == \A n \in Names : StartsOf[n] \cap Names = {}
NoNumbers == Numbers = {}

\* "The commands land where the spec says whatever the config" (workspace.go:431):
\* in a window that up made, whatever runs overlap and fail, a command is typed
\* into a shell of its own directory, or at home for want of that directory.
CommandsLand ==
    session # None =>
        \A i \in DOMAIN session :
            session[i].ours =>
                \A k \in DOMAIN session[i].panes :
                    LET pane == session[i].panes[k]
                    IN  pane.typed \in {None, pane.dir} \/ pane.dir = Home
-----------------------------------------------------------------------------
(***************************************************************************)
(* What a document says and the code does not do: violated.                *)
(***************************************************************************)

\* "It reuses existing worktrees, recreates missing ones from their branches"
\* (README.md:324), and status says of one whose directory is gone "missing (run
\* tilegen up)" (workspace.go:563): git still lists it, so up passes over it.
UpRecreatesMissing ==
    \A p \in Terminals :
        RunEnded(p, "up") /\ run[p].result = "ok" =>
            \A t \in Trees : StatusOf(t) # "missing (run tilegen up)"

\* "Query is read-only and always runs; Do changes something and is only printed
\* under -dry-run" (repo.go:321): split-window is run by Query.
DryRunChangesNothing ==
    [][\A p \in Terminals :
          (run[p].dry /\ run'[p].pc # run[p].pc /\ run[p].pc # "idle") =>
              UNCHANGED <<main, github, listed, disk, branches, session>>]_vars

\* "A pane takes the same (dir ...), (worktree ...) and (run ...) as a window"
\* (README.md:317): the directory of the first pane of a window without a
\* command is never looked at.
PanesAsDeclared ==
    \A p \in Terminals :
        RunEnded(p, "up") /\ run[p].result = "ok" =>
            \A i \in DOMAIN Windows :
                \E j \in DOMAIN session :
                    /\ session[j].name = Windows[i].name
                    /\ session[j].panes = DeclaredPanes(Windows[i])
=============================================================================
