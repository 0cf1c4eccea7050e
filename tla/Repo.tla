-------------------------------- MODULE Repo --------------------------------
(***************************************************************************)
(* tilegen -git: gitPrepare before a project is generated, gitFinish after *)
(* it (repo.go).  Each command they run may fail, the run may be killed    *)
(* between two of them, and the user works in the same directory and runs  *)
(* it again.                                                               *)
(*                                                                         *)
(* Of the files in the directory it matters whose they are.  What the Go   *)
(* tools add to them (go.sum, sqlc's code) comes with the scaffold: both   *)
(* failing is only a warning.                                              *)
(***************************************************************************)
EXTENDS Naturals

CONSTANTS
    None,    \* no commit, no GitHub repository
    DryRuns, \* whether runs have -dry-run: some do, none does, or all do
    Taken,   \* as DryRuns, whether the name is taken on GitHub at first
    MaxRuns, MaxEdits, MaxFaults \* bounds

Owners == {"mine", "scaffold", "theirs"}

ASSUME DryRunsAssumption == DryRuns \subseteq BOOLEAN
ASSUME TakenAssumption == Taken \subseteq BOOLEAN
ASSUME NoneAssumption == \A s \in SUBSET Owners : None # s
ASSUME RepoBoundsAssumption ==
    MaxRuns \in Nat /\ MaxEdits \in Nat /\ MaxFaults \in Nat

VARIABLES
    main,   \* the directory: whether it has .git, its files, index and HEAD
    github, \* the GitHub repository of the spec: its HEAD and whether it has topics
    job,    \* the run of tilegen -git
    budget  \* runs, edits and faults so far

Checkout == [git : BOOLEAN, files : SUBSET Owners, staged : SUBSET Owners,
             head : {None} \cup SUBSET Owners]
GitHub == [head : {None} \cup SUBSET Owners, topics : BOOLEAN]
ASSUME NoRepositoryAssumption == None \notin GitHub
\* published: the spec has (repo (github ...)), of a repository whose name stays.
\* calm: nothing else has happened to the directory or on GitHub since it began.
Job == [pc : {"idle", "stat", "view", "clone", "init", "generate", "add", "commit",
              "create", "topics"},
        mode : {"none", "existing", "cloned", "new"},
        published : BOOLEAN, dry : BOOLEAN,
        calm : BOOLEAN, result : {"none", "ok", "failed"}]

\* A run commits and creates only after git init, and clones what is there.
JobHasItsPlace ==
    /\ job.pc = "clone" => github # None
    /\ job.pc \in {"add", "commit", "create"} => job.mode = "new"
    /\ (job.mode = "new" /\ ~job.dry /\ job.pc # "idle") => main.git

RepoTypeOK ==
    /\ main \in Checkout
    /\ ~main.git => main.head = None /\ main.staged = {}
    /\ github \in {None} \cup GitHub
    /\ job \in Job /\ JobHasItsPlace
    /\ budget \in [runs : 0 .. MaxRuns, edits : 0 .. MaxEdits, faults : 0 .. MaxFaults]

Theirs == [head |-> {"theirs"}, topics |-> FALSE]
NoJob == [pc |-> "idle", mode |-> "none", published |-> FALSE, dry |-> FALSE,
          calm |-> TRUE, result |-> "none"]

RepoInit ==
    /\ main \in [git : {FALSE}, files : SUBSET {"mine"}, staged : {{}}, head : {None}]
              \cup {[git |-> TRUE, files |-> {"mine"}, staged |-> {"mine"}, head |-> {"mine"}]}
    /\ github \in {IF taken THEN Theirs ELSE None : taken \in Taken}
    /\ job = NoJob
    /\ budget = [runs |-> 0, edits |-> 0, faults |-> 0]
-----------------------------------------------------------------------------
StartGit(published, dry) ==
    /\ job.pc = "idle" /\ budget.runs < MaxRuns
    /\ job' = [NoJob EXCEPT !.pc = "stat", !.published = published, !.dry = dry]
    /\ budget' = [budget EXCEPT !.runs = @ + 1]
    /\ UNCHANGED <<main, github>>

Go(from, to) == job.pc = from /\ job' = [job EXCEPT !.pc = to]
\* Only of a run that was undisturbed and not dry its end is remembered.
EndOf(result) ==
    IF job.calm /\ ~job.dry THEN [job EXCEPT !.pc = "idle", !.result = result] ELSE NoJob
End(result) == job' = EndOf(result)
Enter(from, mode) ==
    /\ job.pc = from
    /\ job' = [job EXCEPT !.pc = "generate", !.mode = mode]

\* .git is there, or GitHub may have the repository, or it is a new one.
Stat ==
    /\ IF main.git THEN Enter("stat", "existing")
       ELSE Go("stat", IF job.published THEN "view" ELSE "init")
    /\ UNCHANGED <<main, github, budget>>

View ==
    /\ job.pc = "view"
    /\ IF github = None THEN Go("view", "init")
       ELSE IF main.files # {} \/ main.git THEN End("failed")
       ELSE Go("view", "clone")
    /\ UNCHANGED <<main, github, budget>>

\* Runner.Do prints the command in a dry run.
Clone ==
    /\ job.pc = "clone"
    /\ IF ~job.dry /\ (main.files # {} \/ main.git)
       THEN End("failed") /\ UNCHANGED main
       ELSE /\ Enter("clone", "cloned")
            /\ main' = IF job.dry THEN main
                       ELSE LET files == IF github.head = None THEN {} ELSE github.head
                            IN  [git |-> TRUE, files |-> files, staged |-> files,
                                 head |-> github.head]
    /\ UNCHANGED <<github, budget>>

\* Mutant: the first commit is made before the project is generated.
GitInitCommitsFirst ==
    /\ job.pc = "init"
    /\ job' = [job EXCEPT !.pc = "add", !.mode = "new"]
    /\ main' = [main EXCEPT !.git = TRUE]
    /\ UNCHANGED <<github, budget>>

\* git init leaves a repository that has come to be there as it is.
GitInit ==
    /\ Enter("init", "new")
    /\ main' = IF job.dry THEN main ELSE [main EXCEPT !.git = TRUE]
    /\ UNCHANGED <<github, budget>>

\* Mutant: an existing repository gets a first commit too.
AfterGenerateCommits(mode) == IF mode = "cloned" THEN "topics" ELSE "add"

\* A dry run does not generate.  What gitFinish does first depends on the mode.
AfterGenerate(mode) ==
    IF mode = "new" THEN "add" ELSE IF job.published THEN "topics" ELSE "idle"
Generate ==
    /\ job.pc = "generate"
    /\ LET next == AfterGenerate(job.mode)
       IN  IF next = "idle" THEN End("ok") ELSE Go("generate", next)
    /\ main' = IF job.dry THEN main ELSE [main EXCEPT !.files = @ \cup {"scaffold"}]
    /\ UNCHANGED <<github, budget>>

GitAdd ==
    /\ Go("add", "commit")
    /\ main' = IF job.dry THEN main ELSE [main EXCEPT !.staged = main.files]
    /\ UNCHANGED <<github, budget>>

\* There may be nothing to commit, when the user has committed meanwhile.
GitCommit ==
    /\ job.pc = "commit"
    /\ IF ~job.dry /\ main.staged = main.head
       THEN End("failed") /\ UNCHANGED main
       ELSE /\ IF job.published THEN Go("commit", "create") ELSE End("ok")
            /\ main' = IF job.dry THEN main ELSE [main EXCEPT !.head = main.staged]
    /\ UNCHANGED <<github, budget>>

\* Mutant: without --push.
GhCreateOnly ==
    /\ Go("create", "topics")
    /\ github = None /\ github' = [head |-> None, topics |-> FALSE]
    /\ UNCHANGED <<main, budget>>

\* gh repo create --push; a push that fails leaves the repository without one.
GhCreate ==
    /\ job.pc = "create"
    /\ IF ~job.dry /\ github # None
       THEN End("failed") /\ UNCHANGED <<github, budget>>
       ELSE \/ /\ Go("create", "topics")
               /\ github' = IF job.dry THEN github
                            ELSE [head |-> main.head, topics |-> FALSE]
               /\ UNCHANGED budget
            \/ /\ ~job.dry /\ budget.faults < MaxFaults
               /\ github' = [head |-> None, topics |-> FALSE]
               /\ job' = NoJob
               /\ budget' = [budget EXCEPT !.faults = @ + 1]
    /\ UNCHANGED main

\* Every project has topics.
GhTopics ==
    /\ job.pc = "topics"
    /\ IF job.dry THEN End("ok") /\ UNCHANGED github
       ELSE IF github = None THEN End("failed") /\ UNCHANGED github
       ELSE End("ok") /\ github' = [github EXCEPT !.topics = TRUE]
    /\ UNCHANGED <<main, budget>>

\* A command fails without effect, the generation fails, or the run is killed.
JobFails ==
    /\ job.pc # "idle" /\ budget.faults < MaxFaults
    /\ job' = NoJob
    /\ budget' = [budget EXCEPT !.faults = @ + 1]
    /\ UNCHANGED <<main, github>>

JobStep ==
    \/ Stat \/ View \/ Clone \/ GitInit \/ Generate
    \/ GitAdd \/ GitCommit \/ GhCreate \/ GhTopics
-----------------------------------------------------------------------------
(***************************************************************************)
(* The user, and whoever else may create the GitHub repository.            *)
(***************************************************************************)
Edit ==
    /\ budget.edits < MaxEdits
    /\ budget' = [budget EXCEPT !.edits = @ + 1]
    /\ job' = IF job.pc = "idle" THEN NoJob ELSE [job EXCEPT !.calm = FALSE]

Save ==
    /\ Edit
    /\ "mine" \notin main.files
    /\ main' = [main EXCEPT !.files = @ \cup {"mine"}]
    /\ UNCHANGED github

UserInit ==
    /\ Edit
    /\ ~main.git
    /\ main' = [main EXCEPT !.git = TRUE]
    /\ UNCHANGED github

UserCommit ==
    /\ Edit
    /\ main.git /\ main.files \notin {{}, main.head}
    /\ main' = [main EXCEPT !.staged = main.files, !.head = main.files]
    /\ UNCHANGED github

TheyCreate ==
    /\ Edit
    /\ github = None
    /\ github' = Theirs
    /\ UNCHANGED main

RepoNext ==
    \/ \E published \in BOOLEAN, dry \in DryRuns : StartGit(published, dry)
    \/ JobStep \/ JobFails
    \/ Save \/ UserInit \/ UserCommit \/ TheyCreate

repoVars == <<main, github, job, budget>>
RepoSpec == RepoInit /\ [][RepoNext]_repoVars
-----------------------------------------------------------------------------
(***************************************************************************)
(* What -git promises.                                                     *)
(***************************************************************************)
Ended(result) == job.pc = "idle" /\ job.result = result

\* "New repositories get a buildable first commit and, with (github ...), a
\* GitHub repository and topics" (repo.go:399): a run that says so has left
\* GitHub with what it committed, the scaffold in it.
EndsAsSaid ==
    Ended("ok") =>
        /\ main.git /\ "scaffold" \in main.files
        /\ job.published => github # None /\ github.topics
        /\ job.mode = "new" =>
              /\ main.head = main.files
              /\ job.published => github.head = main.head

\* "Existing and cloned ones are left for you to review and commit"
\* (repo.go:401): what the user did not commit, in a repository that a run
\* found, is committed by the user only.
LeftForReview ==
    [][(budget'.edits = budget.edits /\ main.git) =>
          \/ main'.head = main.head /\ main'.staged = main.staged
          \/ job.mode = "new"]_repoVars

\* A new GitHub repository has the scaffold or, its push failed, nothing.
PublishesTheScaffold ==
    github \notin {None, Theirs, [Theirs EXCEPT !.topics = TRUE]} =>
        github.head = None \/ "scaffold" \in github.head
-----------------------------------------------------------------------------
(***************************************************************************)
(* What a document says and the code does not do: violated.                *)
(***************************************************************************)

\* "add (repo (github owner/name)) to publish it" (repo.go:432): a run with
\* -git that nothing disturbs and no command of which fails gets there.
GitGetsThere ==
    (job.published /\ github = None /\ main.head # None /\ "scaffold" \in main.head) =>
        ~Ended("failed")
=============================================================================
