----------------------------- MODULE Repo_proofs -----------------------------
(***************************************************************************)
(* The steps of -git, of the user and of others in one repository: what    *)
(* they keep, whatever runs beside them.  Workspace_proofs makes theorems  *)
(* of its specification of them.                                           *)
(***************************************************************************)
EXTENDS Repo, TLAPS

-----------------------------------------------------------------------------
(***************************************************************************)
(* Types.                                                                  *)
(***************************************************************************)

Pcs == {"idle", "stat", "view", "clone", "init", "generate", "add", "commit",
        "create", "topics"}
Budget == [runs : 0 .. MaxRuns, edits : 0 .. MaxEdits, faults : 0 .. MaxFaults]

\* What a run is about, and whether it was disturbed, stays as it is.
SameJob ==
    /\ job'.published = job.published /\ job'.dry = job.dry /\ job'.calm = job.calm

\* How a command moves the run: to the next one, to its end, to the generation.
LEMMA JobMoves ==
    ASSUME job \in Job
    PROVE  /\ \A from : \A to \in Pcs :
                 Go(from, to) => /\ job' \in Job /\ job.pc = from /\ job'.pc = to
                                 /\ job'.mode = job.mode /\ SameJob
           /\ \A result \in {"ok", "failed"} :
                 End(result) =>
                    /\ job' \in Job /\ job'.pc = "idle"
                    /\ job'.result # "none" =>
                          /\ job.calm /\ ~job.dry /\ job'.result = result
                          /\ job'.mode = job.mode /\ job'.published = job.published
           /\ \A from : \A mode \in {"existing", "cloned", "new"} :
                 Enter(from, mode) => /\ job' \in Job /\ job.pc = from /\ job'.pc = "generate"
                                      /\ job'.mode = mode /\ SameJob
<1>1. ASSUME NEW from, NEW to \in Pcs, Go(from, to)
      PROVE  /\ job' \in Job /\ job.pc = from /\ job'.pc = to
             /\ job'.mode = job.mode /\ SameJob
  BY <1>1 DEF Go, Job, Pcs, SameJob
<1>2. ASSUME NEW result \in {"ok", "failed"}, End(result)
      PROVE  /\ job' \in Job /\ job'.pc = "idle"
             /\ job'.result # "none" =>
                   /\ job.calm /\ ~job.dry /\ job'.result = result
                   /\ job'.mode = job.mode /\ job'.published = job.published
  <2>1. CASE job.calm /\ ~job.dry
    <3>1. job' = [job EXCEPT !.pc = "idle", !.result = result]
      BY <1>2, <2>1 DEF End, EndOf
    <3> QED BY <2>1, <3>1 DEF Job
  <2>2. CASE ~(job.calm /\ ~job.dry)
    <3>1. job' = NoJob
      BY <1>2, <2>2 DEF End, EndOf
    <3> QED BY <3>1 DEF NoJob, Job
  <2> QED BY <2>1, <2>2
<1>3. ASSUME NEW from, NEW mode \in {"existing", "cloned", "new"}, Enter(from, mode)
      PROVE  /\ job' \in Job /\ job.pc = from /\ job'.pc = "generate"
             /\ job'.mode = mode /\ SameJob
  BY <1>3 DEF Enter, Job, SameJob
<1> QED BY <1>1, <1>2, <1>3

\* The counters stay within their bounds.
LEMMA BudgetGrows ==
    ASSUME budget \in Budget
    PROVE  /\ budget.runs < MaxRuns => [budget EXCEPT !.runs = @ + 1] \in Budget
           /\ budget.edits < MaxEdits => [budget EXCEPT !.edits = @ + 1] \in Budget
           /\ budget.faults < MaxFaults => [budget EXCEPT !.faults = @ + 1] \in Budget
BY RepoBoundsAssumption DEF Budget

\* The state a project starts in is well formed.
LEMMA RepoInitType == RepoInit => RepoTypeOK
<1> SUFFICES ASSUME RepoInit PROVE RepoTypeOK
  OBVIOUS
<1>0. {"theirs"} \in SUBSET Owners /\ {"mine"} \in SUBSET Owners /\ {} \in SUBSET Owners
  BY DEF Owners
<1>1. main \in Checkout /\ (~main.git => main.head = None /\ main.staged = {})
  <2>1. CASE main \in [git : {FALSE}, files : SUBSET {"mine"}, staged : {{}}, head : {None}]
    BY <2>1 DEF Checkout, Owners
  <2>2. CASE main = [git |-> TRUE, files |-> {"mine"}, staged |-> {"mine"}, head |-> {"mine"}]
    BY <1>0, <2>2 DEF Checkout
  <2> QED BY <2>1, <2>2 DEF RepoInit
<1>2. github \in {None} \cup GitHub
  <2>1. Theirs \in GitHub
    BY <1>0 DEF GitHub, Theirs
  <2> QED BY <2>1 DEF RepoInit
<1>3. job \in Job /\ JobHasItsPlace
  BY DEF RepoInit, NoJob, Job, JobHasItsPlace
<1>4. budget \in Budget
  BY RepoBoundsAssumption DEF RepoInit, Budget
<1> QED BY <1>1, <1>2, <1>3, <1>4 DEF RepoTypeOK, Budget

\* Every command of a -git run leaves the state well formed.
LEMMA JobStepType ==
    ASSUME RepoTypeOK, JobStep
    PROVE  RepoTypeOK'
<1>1. /\ job \in Job /\ JobHasItsPlace
      /\ main \in Checkout /\ (~main.git => main.head = None /\ main.staged = {})
      /\ github \in {None} \cup GitHub /\ budget \in Budget
  BY DEF RepoTypeOK, Budget
<1> DEFINE Goal == /\ main' \in Checkout
                   /\ ~main'.git => main'.head = None /\ main'.staged = {}
                   /\ github' \in {None} \cup GitHub
                   /\ job' \in Job /\ JobHasItsPlace'
                   /\ budget' \in Budget
<1> SUFFICES Goal
  BY DEF RepoTypeOK, Budget
<1> USE JobMoves, <1>1 DEF Pcs, JobHasItsPlace, SameJob
<1>2. CASE Stat
  BY <1>2 DEF Stat
<1>3. CASE View
  BY <1>3 DEF View
<1>4. CASE Clone
  <2>1. CASE ~job.dry /\ (main.files # {} \/ main.git)
    BY <1>4, <2>1 DEF Clone
  <2>2. CASE ~(~job.dry /\ (main.files # {} \/ main.git))
    <3>1. /\ Enter("clone", "cloned")
          /\ UNCHANGED <<github, budget>>
      BY <1>4, <2>2 DEF Clone
    <3>2. github \in GitHub
      BY <3>1, JobMoves
    <3>3. main' \in Checkout /\ (~main'.git => main'.head = None /\ main'.staged = {})
      <4>1. CASE job.dry
        BY <1>4, <2>2, <4>1 DEF Clone
      <4>2. CASE ~job.dry
        <5> DEFINE files == IF github.head = None THEN {} ELSE github.head
        <5>1. main' = [git |-> TRUE, files |-> files, staged |-> files,
                       head |-> github.head]
          BY <1>4, <4>2, <2>2 DEF Clone
        <5>2. github.head \in {None} \cup SUBSET Owners
          BY <3>2 DEF GitHub
        <5>3. files \in SUBSET Owners
          BY <5>2
        <5> HIDE DEF files
        <5> QED BY <5>1, <5>2, <5>3 DEF Checkout
      <4> QED BY <4>1, <4>2
    <3> QED BY <3>1, <3>3
  <2> QED BY <2>1, <2>2
<1>5. CASE GitInit
  <2>1. /\ main' \in Checkout /\ (~main'.git => main'.head = None /\ main'.staged = {})
        /\ ~job.dry => main'.git
    BY <1>5 DEF GitInit, Checkout
  <2>2. Enter("init", "new") /\ UNCHANGED <<github, budget>>
    BY <1>5 DEF GitInit
  <2> QED BY <2>1, <2>2
<1>6. CASE Generate
  <2>1. /\ main' \in Checkout /\ (~main'.git => main'.head = None /\ main'.staged = {})
        /\ main'.git = main.git /\ UNCHANGED <<github, budget>>
    BY <1>6 DEF Generate, Checkout, Owners
  <2>2. \/ End("ok")
        \/ Go("generate", "topics")
        \/ job.mode = "new" /\ Go("generate", "add")
    BY <1>6 DEF Generate, AfterGenerate
  <2> QED BY <2>1, <2>2
<1>7. CASE GitAdd
  <2>1. Go("add", "commit") /\ UNCHANGED <<github, budget>>
    BY <1>7 DEF GitAdd
  <2>2. job.dry \/ main.git
    BY <2>1 DEF Go
  <2>3. /\ main' \in Checkout /\ (~main'.git => main'.head = None /\ main'.staged = {})
        /\ main'.git = main.git
    BY <1>7, <2>2 DEF GitAdd, Checkout
  <2> QED BY <2>1, <2>3
<1>8. CASE GitCommit
  <2>1. /\ \/ End("failed") \/ End("ok") \/ Go("commit", "create")
        /\ UNCHANGED <<github, budget>>
    BY <1>8 DEF GitCommit
  <2>2. job.dry \/ main.git
    BY <1>8 DEF GitCommit
  <2>3. /\ main' \in Checkout /\ (~main'.git => main'.head = None /\ main'.staged = {})
        /\ main'.git = main.git
    BY <1>8, <2>2 DEF GitCommit, Checkout
  <2> QED BY <2>1, <2>3
<1>9. CASE GhCreate
  <2>1. main' = main
    BY <1>9 DEF GhCreate
  <2>2. github' \in {None} \cup GitHub
    <3>1. main.head \in {None} \cup SUBSET Owners
      BY DEF Checkout
    <3>2. /\ [head |-> main.head, topics |-> FALSE] \in GitHub
          /\ [head |-> None, topics |-> FALSE] \in GitHub
      BY <3>1 DEF GitHub
    <3>3. \/ github' = github
          \/ github' = [head |-> main.head, topics |-> FALSE]
          \/ github' = [head |-> None, topics |-> FALSE]
      BY <1>9 DEF GhCreate
    <3> QED BY <3>2, <3>3
  <2>3. /\ \/ End("failed") \/ Go("create", "topics") \/ job' = NoJob
        /\ \/ UNCHANGED budget
           \/ budget.faults < MaxFaults /\ budget' = [budget EXCEPT !.faults = @ + 1]
    BY <1>9 DEF GhCreate
  <2>4. NoJob \in Job /\ NoJob.pc = "idle"
    BY DEF NoJob, Job
  <2> QED BY <2>1, <2>2, <2>3, <2>4, BudgetGrows
<1>10. CASE GhTopics
  <2>1. End("ok") \/ End("failed")
    BY <1>10 DEF GhTopics
  <2>2. github' \in {None} \cup GitHub /\ UNCHANGED <<main, budget>>
    BY <1>10 DEF GhTopics, GitHub
  <2> QED BY <2>1, <2>2
<1> QED BY <1>2, <1>3, <1>4, <1>5, <1>6, <1>7, <1>8, <1>9, <1>10 DEF JobStep

\* So do a run's start and failure, and what the user and others do.
LEMMA OtherRepoStepType ==
    ASSUME RepoTypeOK,
           \/ \E published \in BOOLEAN, dry \in DryRuns : StartGit(published, dry)
           \/ JobFails \/ Save \/ UserInit \/ UserCommit \/ TheyCreate
    PROVE  RepoTypeOK'
<1>1. /\ job \in Job /\ JobHasItsPlace
      /\ main \in Checkout /\ (~main.git => main.head = None /\ main.staged = {})
      /\ github \in {None} \cup GitHub /\ budget \in Budget
  BY DEF RepoTypeOK, Budget
<1>2. NoJob \in Job /\ NoJob.pc = "idle"
  BY DEF NoJob, Job
<1>3. CASE \E published \in BOOLEAN, dry \in DryRuns : StartGit(published, dry)
  <2>1. /\ job' \in Job /\ job'.pc = "stat" /\ job'.mode = "none"
        /\ budget.runs < MaxRuns /\ budget' = [budget EXCEPT !.runs = @ + 1]
        /\ UNCHANGED <<main, github>>
    BY <1>3, DryRunsAssumption DEF StartGit, NoJob, Job
  <2> QED BY <1>1, <2>1, BudgetGrows DEF RepoTypeOK, Budget, JobHasItsPlace
<1>4. CASE JobFails
  BY <1>1, <1>2, <1>4, BudgetGrows DEF JobFails, RepoTypeOK, Budget, JobHasItsPlace
<1>5. ASSUME Edit
      PROVE  /\ job' \in Job /\ budget' \in Budget
             /\ \/ job'.pc = "idle"
                \/ /\ job'.pc = job.pc /\ job'.mode = job.mode
                   /\ job'.dry = job.dry
  <2>1. budget' \in Budget
    BY <1>1, <1>5, BudgetGrows DEF Edit
  <2>2. CASE job.pc = "idle"
    BY <1>2, <1>5, <2>1, <2>2 DEF Edit
  <2>3. CASE job.pc # "idle"
    <3>1. job' = [job EXCEPT !.calm = FALSE]
      BY <1>5, <2>3 DEF Edit
    <3> QED BY <1>1, <2>1, <3>1 DEF Job
  <2> QED BY <2>2, <2>3
<1>6. CASE Save
  <2>1. /\ main' \in Checkout /\ main'.git = main.git
        /\ main'.head = main.head /\ main'.staged = main.staged
    BY <1>1, <1>6 DEF Save, Checkout, Owners
  <2> QED BY <1>1, <1>5, <1>6, <2>1 DEF Save, RepoTypeOK, Budget, JobHasItsPlace
<1>7. CASE UserInit
  <2>1. main' \in Checkout /\ main'.git
    BY <1>1, <1>7 DEF UserInit, Checkout
  <2> QED BY <1>1, <1>5, <1>7, <2>1 DEF UserInit, RepoTypeOK, Budget, JobHasItsPlace
<1>8. CASE UserCommit
  <2>1. main' \in Checkout /\ main'.git
    BY <1>1, <1>8 DEF UserCommit, Checkout
  <2> QED BY <1>1, <1>5, <1>8, <2>1 DEF UserCommit, RepoTypeOK, Budget, JobHasItsPlace
<1>9. CASE TheyCreate
  <2>1. github' \in GitHub
    <3>1. {"theirs"} \in SUBSET Owners
      BY DEF Owners
    <3> QED BY <1>9, <3>1 DEF TheyCreate, Theirs, GitHub
  <2>2. github = None /\ main' = main /\ Edit
    BY <1>9 DEF TheyCreate
  <2>3. job'.pc # "clone"
    BY <1>1, <1>2, <2>2 DEF Edit, JobHasItsPlace, Job
  <2> QED BY <1>1, <1>5, <2>1, <2>2, <2>3 DEF RepoTypeOK, Budget, JobHasItsPlace
<1> QED BY <1>3, <1>4, <1>6, <1>7, <1>8, <1>9

\* A step of -git that is no edit commits only in a repository it initialised
\* (gitFinish's test of the mode).
LEMMA RepoStepLeavesCommits ==
    ASSUME RepoTypeOK, RepoNext, budget'.edits = budget.edits, main.git
    PROVE  \/ main'.head = main.head /\ main'.staged = main.staged
           \/ job.mode = "new"
<1>1. CASE JobStep
  <2> USE DEF RepoTypeOK, JobHasItsPlace, Checkout
  <2>1. CASE Stat \/ View \/ GhCreate \/ GhTopics
    BY <2>1 DEF Stat, View, GhCreate, GhTopics
  <2>2. CASE Clone
    BY <2>2 DEF Clone
  <2>3. CASE GitInit
    BY <2>3 DEF GitInit
  <2>4. CASE Generate
    BY <2>4 DEF Generate
  <2>5. CASE GitAdd \/ GitCommit
    BY <2>5 DEF GitAdd, GitCommit, Go
  <2> QED BY <1>1, <2>1, <2>2, <2>3, <2>4, <2>5 DEF JobStep
<1>2. CASE \E published \in BOOLEAN, dry \in DryRuns : StartGit(published, dry)
  BY <1>2 DEF StartGit
<1>3. CASE JobFails
  BY <1>3 DEF JobFails
<1>4. ASSUME Edit PROVE FALSE
  BY <1>4 DEF Edit, RepoTypeOK
<1> QED BY <1>1, <1>2, <1>3, <1>4 DEF RepoNext, Save, UserInit, UserCommit, TheyCreate

-----------------------------------------------------------------------------
(***************************************************************************)
(* What a run of -git has reached.                                         *)
(***************************************************************************)

\* An undisturbed run, at each of its steps: it knows whose the repository is,
\* what gitFinish is about to stage, commit and push has not changed since, and
\* of a new project there is still none on GitHub.
CalmJob ==
    job.calm /\ ~job.dry =>
        /\ job.pc \in {"stat", "view", "clone", "init"} => job.mode = "none"
        /\ job.pc \in {"generate", "topics"} => job.mode # "none"
        /\ job.mode # "none" /\ job.pc # "idle" => main.git
        /\ job.pc \in {"add", "commit", "create", "topics"} => "scaffold" \in main.files
        /\ job.pc \in {"view", "clone", "create", "topics"} => job.published
        /\ /\ job.published
           /\ job.pc = "init" \/ (job.mode = "new" /\ job.pc \notin {"idle", "topics"})
           => github = None
        /\ job.pc = "commit" => main.staged = main.files
        /\ (job.pc = "create" \/ (job.pc = "topics" /\ job.mode = "new"))
              => main.head = main.files
        /\ job.pc = "topics" /\ job.mode = "new" => github # None /\ github.head = main.head

\* Disturbed or not, from the generation to the push the scaffold is there: in
\* the directory, then in the index, then in HEAD.
ScaffoldStays ==
    job.mode = "new" /\ ~job.dry =>
        /\ job.pc \in {"add", "commit", "create"} => "scaffold" \in main.files
        /\ job.pc = "commit" => "scaffold" \in main.staged
        /\ job.pc = "create" => main.head # None /\ "scaffold" \in main.head

RepoInv ==
    RepoTypeOK /\ CalmJob /\ ScaffoldStays /\ EndsAsSaid /\ PublishesTheScaffold

\* Before the first run there is nothing to say.
LEMMA RepoInvInit == RepoInit => RepoInv
<1> SUFFICES ASSUME RepoInit PROVE RepoInv
  OBVIOUS
<1>1. RepoTypeOK
  BY RepoInitType
<1>2. CalmJob /\ ScaffoldStays /\ EndsAsSaid
  BY DEF RepoInit, NoJob, CalmJob, ScaffoldStays, EndsAsSaid, Ended
<1>3. PublishesTheScaffold
  BY DEF RepoInit, PublishesTheScaffold
<1> QED BY <1>1, <1>2, <1>3 DEF RepoInv

\* A run that is idle promises nothing of its next step.
LEMMA IdlePromisesNothing ==
    ASSUME job'.pc = "idle"
    PROVE  CalmJob' /\ ScaffoldStays'
BY DEF CalmJob, ScaffoldStays

\* What an undisturbed run has reached, step by step (gitPrepare, gitFinish).
LEMMA JobStepKeepsCalm ==
    ASSUME RepoInv, JobStep
    PROVE  CalmJob' /\ EndsAsSaid'
<1>1. /\ job \in Job /\ JobHasItsPlace /\ CalmJob
      /\ main \in Checkout /\ github \in {None} \cup GitHub
  BY DEF RepoInv, RepoTypeOK
<1> USE JobMoves, <1>1 DEF Pcs, SameJob, CalmJob, EndsAsSaid, Ended
<1>2. CASE Stat
  BY <1>2 DEF Stat
<1>3. CASE View
  BY <1>3 DEF View
<1>4. CASE Clone
  BY <1>4 DEF Clone
<1>5. CASE GitInit
  BY <1>5 DEF GitInit, Checkout
<1>6. CASE Generate
  BY <1>6 DEF Generate, AfterGenerate, Checkout
<1>7. CASE GitAdd
  BY <1>7 DEF GitAdd, JobHasItsPlace, Checkout
<1>8. CASE GitCommit
  BY <1>8 DEF GitCommit, JobHasItsPlace, Checkout
<1>9. CASE GhCreate
  <2>1. job.mode = "new" /\ main' = main
    BY <1>9 DEF GhCreate, JobHasItsPlace
  <2>2. CASE End("failed") \/ job' = NoJob
    BY <2>2 DEF NoJob
  <2>3. CASE Go("create", "topics")
    <3>1. ~job.dry => github' = [head |-> main.head, topics |-> FALSE]
      BY <1>9, <2>3 DEF GhCreate, NoJob
    <3>2. main.head \in {None} \cup SUBSET Owners
      BY DEF Checkout
    <3>3. [head |-> main.head, topics |-> FALSE] \in GitHub
      BY <3>2 DEF GitHub
    <3>4. ASSUME ~job.dry PROVE github' \in GitHub /\ github'.head = main.head
      <4>1. github' = [head |-> main.head, topics |-> FALSE]
        BY ONLY <3>1, <3>4
      <4> QED BY ONLY <4>1, <3>3
    <3> QED BY <2>1, <2>3, <3>4, NoRepositoryAssumption
  <2> QED BY <1>9, <2>2, <2>3 DEF GhCreate
<1>10. CASE GhTopics
  <2>1. End("ok") \/ End("failed")
    BY <1>10 DEF GhTopics
  <2>2. job.pc = "topics" /\ job'.pc = "idle" /\ main' = main
    BY <1>10, <2>1 DEF GhTopics
  <2>3. CASE job'.result = "ok"
    <3>1. ~job.dry /\ job.calm
      BY <2>1, <2>3
    <3>2. github \in GitHub /\ github' = [github EXCEPT !.topics = TRUE]
      BY <1>10, <2>1, <2>3, <3>1 DEF GhTopics
    <3>3. github' \in GitHub /\ github'.topics /\ github'.head = github.head
      BY <3>2 DEF GitHub
    <3> QED BY <2>1, <2>2, <2>3, <3>1, <3>3, NoRepositoryAssumption
  <2> QED BY <2>2, <2>3
<1> QED BY <1>2, <1>3, <1>4, <1>5, <1>6, <1>7, <1>8, <1>9, <1>10 DEF JobStep

\* The scaffold stays in the directory and goes where the run puts it, and what
\* gh pushes has it (gitFinish).
LEMMA JobStepKeepsScaffold ==
    ASSUME RepoInv, JobStep
    PROVE  ScaffoldStays' /\ PublishesTheScaffold'
<1>1. /\ job \in Job /\ JobHasItsPlace /\ ScaffoldStays /\ PublishesTheScaffold
      /\ main \in Checkout /\ github \in {None} \cup GitHub
  BY DEF RepoInv, RepoTypeOK
<1>3. CASE GhCreate
  <2>1. main' = main /\ job.pc = "create" /\ job.mode = "new"
    BY <1>1, <1>3, JobMoves DEF GhCreate, Pcs, JobHasItsPlace, Go
  <2>2. ScaffoldStays'
    BY <1>1, <1>3, <2>1, JobMoves DEF GhCreate, Pcs, NoJob, ScaffoldStays
  <2>3. CASE github' = github
    BY <1>1, <2>2, <2>3 DEF PublishesTheScaffold
  <2>4. CASE github' # github
    <3>1. ~job.dry
      BY <1>3, <2>4 DEF GhCreate
    <3>2. github'.head \in {None, main.head}
      BY <1>3, <2>4, <3>1 DEF GhCreate
    <3>3. github'.head = None \/ "scaffold" \in github'.head
      BY <1>1, <2>1, <3>1, <3>2 DEF ScaffoldStays
    <3>4. PublishesTheScaffold'
      BY ONLY <3>3 DEF PublishesTheScaffold
    <3> QED BY <2>2, <3>4
  <2> QED BY <2>2, <2>3, <2>4
<1>4. CASE GhTopics
  <2>1. ScaffoldStays'
    BY <1>1, <1>4, JobMoves, IdlePromisesNothing DEF GhTopics
  <2>2. CASE github' = github
    BY <1>1, <2>1, <2>2 DEF PublishesTheScaffold
  <2>3. CASE github' # github
    <3>1. github \in GitHub /\ github' = [github EXCEPT !.topics = TRUE]
      BY <1>1, <1>4, <2>3 DEF GhTopics
    <3>2. github'.head = github.head
      BY <3>1 DEF GitHub
    <3>3. github \in {Theirs, [Theirs EXCEPT !.topics = TRUE]}
             => github' = [Theirs EXCEPT !.topics = TRUE]
      BY <3>1 DEF Theirs
    <3>4. github # None
      BY <3>1, NoRepositoryAssumption
    <3> QED BY <1>1, <2>1, <3>2, <3>3, <3>4 DEF PublishesTheScaffold
  <2> QED BY <2>1, <2>2, <2>3
<1>5. CASE Stat \/ View \/ Clone \/ GitInit \/ Generate \/ GitAdd \/ GitCommit
  <2>1. github' = github
    BY <1>5 DEF Stat, View, Clone, GitInit, Generate, GitAdd, GitCommit
  <2>2. PublishesTheScaffold'
    BY <1>1, <2>1 DEF PublishesTheScaffold
  <2> USE JobMoves, <1>1, IdlePromisesNothing DEF Pcs, SameJob, ScaffoldStays
  <2>3. CASE Stat
    BY <2>2, <2>3 DEF Stat
  <2>4. CASE View
    BY <2>2, <2>4 DEF View
  <2>5. CASE Clone
    BY <2>2, <2>5 DEF Clone
  <2>6. CASE GitInit
    BY <2>2, <2>6 DEF GitInit
  <2>7. CASE Generate
    BY <2>2, <2>7 DEF Generate, AfterGenerate, Checkout
  <2>8. CASE GitAdd
    BY <2>2, <2>8 DEF GitAdd, Checkout
  <2>9. CASE GitCommit
    <3>1. CASE End("ok") \/ End("failed")
      BY <2>2, <3>1
    <3>2. CASE Go("commit", "create")
      <4>1. ~job.dry => main' = [main EXCEPT !.head = main.staged]
        BY <2>9, <3>2 DEF GitCommit, End, EndOf, NoJob
      <4>2. main.staged \in SUBSET Owners
        BY DEF Checkout
      <4>3. ~job.dry => /\ main'.head = main.staged /\ main'.files = main.files
                        /\ main'.head # None
        BY <4>1, <4>2, NoneAssumption DEF Checkout
      <4>4. job'.mode = job.mode /\ job'.dry = job.dry /\ job'.pc = "create" /\ job.pc = "commit"
        BY <3>2
      <4> QED BY <2>2, <4>3, <4>4
    <3> QED BY <2>9, <3>1, <3>2 DEF GitCommit
  <2> QED BY <1>5, <2>3, <2>4, <2>5, <2>6, <2>7, <2>8, <2>9
<1> QED BY <1>3, <1>4, <1>5 DEF JobStep

\* So do a run's start and failure, and what the user and others do: an edit
\* disturbs the run and takes the scaffold from no commit.
LEMMA OthersKeepRepo ==
    ASSUME RepoInv,
           \/ \E published \in BOOLEAN, dry \in DryRuns : StartGit(published, dry)
           \/ JobFails \/ Save \/ UserInit \/ UserCommit \/ TheyCreate
    PROVE  CalmJob' /\ ScaffoldStays' /\ EndsAsSaid' /\ PublishesTheScaffold'
<1>1. /\ job \in Job /\ ScaffoldStays /\ EndsAsSaid /\ PublishesTheScaffold
      /\ main \in Checkout
  BY DEF RepoInv, RepoTypeOK
<1>2. CASE \E published \in BOOLEAN, dry \in DryRuns : StartGit(published, dry)
  <2>1. /\ job'.pc = "stat" /\ job'.mode = "none" /\ UNCHANGED <<main, github>>
    BY <1>2 DEF StartGit, NoJob
  <2> QED BY <1>1, <2>1 DEF CalmJob, ScaffoldStays, EndsAsSaid, Ended, PublishesTheScaffold
<1>3. CASE JobFails
  <2>1. job'.pc = "idle" /\ job'.result = "none" /\ UNCHANGED <<main, github>>
    BY <1>3 DEF JobFails, NoJob
  <2> QED BY <1>1, <2>1, IdlePromisesNothing DEF EndsAsSaid, Ended, PublishesTheScaffold
<1>4. ASSUME Edit
      PROVE  /\ CalmJob' /\ EndsAsSaid'
             /\ \/ job'.pc = "idle"
                \/ job'.pc = job.pc /\ job'.mode = job.mode /\ job'.dry = job.dry
  <2>1. CASE job.pc = "idle"
    <3>1. job'.pc = "idle" /\ job'.result = "none"
      BY <1>4, <2>1 DEF Edit, NoJob
    <3> QED BY <3>1, IdlePromisesNothing DEF EndsAsSaid, Ended
  <2>2. CASE job.pc # "idle"
    <3>1. job' = [job EXCEPT !.calm = FALSE]
      BY <1>4, <2>2 DEF Edit
    <3>2. /\ job'.pc = job.pc /\ job'.mode = job.mode /\ job'.dry = job.dry
          /\ ~job'.calm
      BY <1>1, <3>1 DEF Job
    <3> QED BY <2>2, <3>2 DEF CalmJob, EndsAsSaid, Ended
  <2> QED BY <2>1, <2>2
<1>5. CASE Save \/ UserInit \/ UserCommit
  <2>1. github' = github /\ Edit
    BY <1>5 DEF Save, UserInit, UserCommit
  <2>2. PublishesTheScaffold'
    BY <1>1, <2>1 DEF PublishesTheScaffold
  <2>3. CASE Save \/ UserInit
    <3>1. /\ "scaffold" \in main.files => "scaffold" \in main'.files
          /\ main'.head = main.head /\ main'.staged = main.staged
      BY <1>1, <2>3 DEF Save, UserInit, Checkout
    <3> QED BY <1>1, <1>4, <2>1, <2>2, <3>1 DEF ScaffoldStays
  <2>4. CASE UserCommit
    <3>1. main' = [main EXCEPT !.staged = main.files, !.head = main.files]
      BY <2>4 DEF UserCommit
    <3>2. main.files \in SUBSET Owners
      BY <1>1 DEF Checkout
    <3>3. /\ main'.files = main.files /\ main'.staged = main.files
          /\ main'.head = main.files /\ main'.head # None
      BY <1>1, <3>1, <3>2, NoneAssumption DEF Checkout
    <3>4. CASE job'.pc = "idle"
      BY <1>4, <2>1, <2>2, <3>4, IdlePromisesNothing
    <3>5. CASE job'.pc = job.pc /\ job'.mode = job.mode /\ job'.dry = job.dry
      <4>1. /\ job.mode = "new" /\ ~job.dry /\ job.pc \in {"add", "commit", "create"}
               => "scaffold" \in main.files
        BY <1>1 DEF ScaffoldStays
      <4> QED BY <1>4, <2>1, <2>2, <3>3, <3>5, <4>1 DEF ScaffoldStays
    <3> QED BY <1>4, <2>1, <3>4, <3>5
  <2> QED BY <1>5, <2>3, <2>4
<1>6. CASE TheyCreate
  <2>1. main' = main /\ github' = Theirs /\ Edit
    BY <1>6 DEF TheyCreate
  <2>2. PublishesTheScaffold'
    BY <2>1 DEF PublishesTheScaffold
  <2> QED BY <1>1, <1>4, <2>1, <2>2 DEF ScaffoldStays
<1> QED BY <1>2, <1>3, <1>5, <1>6

\* Every step of the repository keeps all of it.
LEMMA RepoStepKeeps ==
    ASSUME RepoInv, RepoNext
    PROVE  RepoInv'
<1>1. RepoTypeOK
  BY DEF RepoInv
<1>2. CASE JobStep
  BY <1>1, <1>2, JobStepType, JobStepKeepsCalm, JobStepKeepsScaffold DEF RepoInv
<1>3. CASE \/ \E published \in BOOLEAN, dry \in DryRuns : StartGit(published, dry)
           \/ JobFails \/ Save \/ UserInit \/ UserCommit \/ TheyCreate
  BY <1>1, <1>3, OtherRepoStepType, OthersKeepRepo DEF RepoInv
<1> QED BY <1>2, <1>3 DEF RepoNext

\* What happens elsewhere is none of its business but for the counters.
LEMMA ElsewhereKeepsRepo ==
    ASSUME RepoInv, UNCHANGED <<main, github, job>>, budget' \in Budget
    PROVE  RepoInv'
BY DEF RepoInv, RepoTypeOK, JobHasItsPlace, Budget, CalmJob, ScaffoldStays, EndsAsSaid,
       Ended, PublishesTheScaffold

=============================================================================
