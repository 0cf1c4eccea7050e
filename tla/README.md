# A verification of tilegen

tilegen compiles a spec (S-expressions) into a Go project: it chooses a *tile*
for each capability the spec needs, writes generated code that it owns and
scaffolded code that belongs to the user, keeps both in step with the spec on
every later run, and lets an LLM command fill the method bodies left open.
What can go wrong is of two kinds. One is in a single compile: forms split over
files, names and types that refer to each other, passes that each rewrite what
the last one made, tiles that were written apart. The other is in what a project
goes through over its life: a spec edited between runs, files saved while a run
writes, a run that dies half way, a lock file older than the policy, a build that
is broken on purpose while methods drift, requests that overlap. These modules
model both, TLC checks them on small specs and projects, and TLAPS proves what
matters most for every one: that code the user wrote is not lost, neither by
generating or filling nor by setting up and closing a workspace nor on the
service's page; that `check`, a finished run, `fill`, the lock file, `up`, `down`
and `-git` mean what they say; that the generated bus is a bus; and of a single
compile, that what it accepts comes out whole, in packages that import each other
in no cycle, with every hole beside the types it is about (those of events
excepted), and in an order a plan can be followed in.

All paths below are relative to the repository's root.

## The system

| part | source | state | operations | interacts with |
|---|---|---|---|---|
| compile | `main.go` 200-268, `merge.go`, `validate.go`, `pass_*.go` | none between runs | `ReadSpec`, `Merge`, `Validate`, the passes, `Emit`'s staging | reads spec, config, policy, lock; yields the files and tasks `Emit` reconciles |
| tiles of a form | `http.go`, `sql.go`, `implement.go`, `dialect.go`, `auth.go`, `events.go`, `enum.go` | none | `Lower` of each | called by select; see each other's output only through the forms |
| plan graph | `plangraph.go` | none | `buildPlanGraph`, `Levels` | drawn by `tilegen plan` |
| selection | `solve.go`, `choose.go`, `policy.go`, `config.go`, `capabilities.go`, `chain.go` | the coverings of a run | `solve`, `pickOffer`, `applyChoice`, `coverAll` | reads the lock, is written to it by `Emit` |
| lock file | `lock.go` | `tilegen.lock`, in the project | `loadLock`, `lockText` | survives runs, edited by people and merges |
| plan and apply | `plan.go`, `emit.go` | a `Report`: staged files, unlinks | `stage`, `unlink`, `read`, `finalize`, `Apply` | reads every file before it writes any |
| reconciliation | `reconcile.go` | markers in the user's files (`// Scaffolded by tilegen`, the hole panic) | `reconcileKeep`, `sweep`, `pureScaffolding` | its verdicts are in the plan |
| check | `main.go` 430-492 | none | `checkResult` | the plan of a run, not applied |
| task list | `emit.go` 390-479 | `tilegen.tasks.json` | `emitTasks`, `findHolesSrc` | read by editors, by `prompt` and `fill` |
| fill | `fill.go` | the pending drift of one run | `fillCmd`, `fillOne`, `ask`, `splice`, `runBuild` | an LLM command, `go build`, the user's editor |
| event bus (generated) | `events.go` 189-289 | handlers under an RWMutex | `add`, unsubscribe, `publish` | called by goroutines of the user's program, and by handlers |
| workspace | `workspace.go`, `repo.go` | git worktrees, a tmux session, a GitHub repository | `Up`, `Down`, `Status`, `gitPrepare`, `gitFinish` | external commands that may fail |
| registry | `registry.go`, `capabilities.go`, `chain.go`, one file for each backend, bus and authenticator | the offers, set by `init` | `RegisterOffer`, `checkRegistry`, `convert` | read by selection |
| HTTP service | `serve.go`, `json.go` | `jsonWeights` | explain, generate, and routes that only read | concurrent requests; runs a compile for each |
| page | `serve_index.go` | two documents, a pane, a form, a panel, in the browser | the form, the tabs, typing, clear, rebuild, a sample, explain, download | asks the service |
| text | `sexp.go`, `tile.go`, `tilespec.go`, `import*.go`, `apisurface.go`, `prompt.go`, `serve_docs.go`, ... | none | parse, match, print | |

The parts meet in four places. A run is `compile`, then `Emit`, which computes
the whole plan against the disk, then `Apply`, which writes it; `check` stops
after the plan, and `fill` calls `Emit` before and after its loop. The files of
the project are shared with the user, who is not locked out by anything. The
lock file carries the choices of one run into the next. And the service compiles
what the page sends it, several requests at a time, writing nothing.

What is hard, and what it would take to be correct:

- **A spec is compiled by parts that do not know of each other**: files merged
  in name order, validation that sees the spec and not the code, some twenty
  tiles each rewriting its own form. Correct: how a spec is split is immaterial,
  what validation accepts has no import cycle when generated, every form comes
  out as code or as a task, and a task sees the types it is about.
- **Nothing but the files tells one run what the last did.** Whether a method
  is the user's must be found from its body; whether a run died, from nothing
  at all. Correct: user code survives, a finished run conforms to the spec and
  leaves nothing to do, and running again mends what a crash left.
- **`check` must mean something**: it passes only on a project whose wanted
  methods are written and whose generated files are the spec's. Its own usage
  text promises more, that it fails where a run would change any file, and is
  not kept: a run may still rewrite a scaffolded file (`doc_check`).
- **`fill` holds a file for minutes** and writes it back from what it read. It
  works on a project whose build is meant to fail. Correct: it changes what it
  says it changed, is not misled by the drift it tolerates, and ends.
- **The lock is written after the code it describes.** Correct: a store moves
  only for a reason the user gave or is told, and repeated runs are quiet.
- **The event bus is called from its own handlers.** Correct: no deadlock, no
  handler missed or called twice, nobody else's handler unsubscribed.
- **Setting up worktrees, sessions and repositories** takes several commands,
  each of which may fail, and is to be run again.
- **The page has two owners for one text**, the form and the reader's hands, and
  answers that come late, in any order or not at all. Correct: what is seen is
  what is sent, hand edits stay, every click ends in an answer, and the answer is
  to what was asked.

`PROJECT.json` lists each hazard with its line, and the properties about it.

## The modules

| module | models | notes |
|---|---|---|
| `Scaffold` | the plan as a function of the spec and the disk, and the verdict of check | no state; used by `Generation` |
| `Generation` | a project's life: user edits, `Emit`, each write and deletion of `Apply`, crashes | the core |
| `Generation_proofs` | the safety of user code, what `check` and a finished run mean, proved | |
| `Fill` | one or more runs of `tilegen fill` beside an editing user | |
| `Fill_proofs` | its four safety properties, proved | |
| `Linking` | `ReadSpec` and `Merge` | no state |
| `Validation` | `Validate` and the tiles' own checks | no state; extends `Linking` |
| `Lowering` | expand, concretize, select, and the tile of each form | no state; extends `Validation` |
| `PlanGraph` | `Levels`, a round at a time | |
| `ImportCycles` | `cycles` of the validator, a step of the depth-first search at a time | |
| `InterfaceWalk` | `interfaceMethods`, an item of an interface at a time | extends `Validation` |
| `Compile` | a compile from the files of a spec to the staged files and the plan's graph, a phase at a time | composes the six |
| `Compile_proofs` | the compile's invariants but one, and the levels of any plan, proved | |
| `Solve` | `solve` and `pickOffer` of one need, for any release and policy | no state |
| `Selection` | choosing tiles, and the lock file from run to run | extends `Solve` |
| `Selection_proofs` | its four safety properties, proved | |
| `Registry` | the offers of this commit, their costs, chains and prices, and `ParsePolicy` | no state; an instance of `Solve` |
| `Service` | explain and generate requests running side by side | extends `Registry` |
| `Page` | the page of the service beside it | extends `Service` |
| `Page_proofs` | the safety properties of `Page`, proved | |
| `Repo` | `tilegen -git` and the user in the same repository | a component of `Workspace`, and checked alone by `doc_git` |
| `Workspace` | `up`, `down` and `status` beside `Repo`: worktrees and a tmux session | |
| `Repo_proofs` | what each step of `Repo` keeps, whatever runs beside it | lemmas, for `Workspace_proofs` |
| `Workspace_proofs` | all eight of the properties that `workspace` checks, proved | |
| `Bus` | what an event bus promises to those who publish and subscribe | abstract |
| `LocalBus` | the generated in-process bus, with its lock; implements `Bus` | |
| `LocalBus_proofs` | its list, and that it implements `Bus`, proved | |
| `MC...` | the values of the constants for TLC | |

### Scaffold and Generation

A *file* is a scaffolded file with the generated file beside it, for one
receiver type. `KeepContent` keeps of a scaffolded file what the code looks at:
each method's signature and whether its body is the untouched hole, user code
with the hole's panic still in it, or written; whether the user declared
anything beside the methods; whether they changed the struct or its constructor
(which no code looks at, and one property is about); and whether it parses. The
spec wants a signature, or nothing, of each method of each file it produces.

`PlanOf` follows `Emit`: `ReconcileKeep` for a file that exists, `Fresh` for one
that does not, deletions of generated files and of untouched scaffolding by
`sweep`, then the task list of the files *as the plan will leave them*, then
`finalize`'s split into new and changed. `PlanFails` is the run that
`emitTasks` ends before anything is written, because a file with tasks does not
parse. In `Generation`, `Emit` is one step, which the code justifies by reading
everything before the first write; each `os.WriteFile` and `os.Remove` is
another, in the order of `Apply`. User edits come between any two of them.
`Crash` ends a run between two writes or inside one, which may leave that file
truncated (`Torn`; a truncated generated file that keeps its header is
`Tampered`). It also stands for a failed write, after which `Apply` returns.

`raced` names the files saved by the user since the run in progress read them.
It is not in the program: it delimits the one case in which losing a save is
how the program works.

### Fill

A task is a method; its package, the packages that one imports, its drift key
and where `emitTasks` lists it (`Place`) are constants. `todo` has the tasks still
to come; `Sooner` is their order, drifted methods first. The code on disk is one of *hole*, *drift* (user code for an
old signature), *good*, *bad* (does not compile) and *torn*. `NextTask`, `Splice`,
`Build`, `Retry` and `EndTask` are the loop of `fillOne`; what the command
answers is any of: no answer, an answer that cannot be spliced, code that
compiles, code that does not, and the hole again. `go build` is external. It is
modelled as it works: a package is compiled only if the packages it imports
compile, and the compile-time interface check of a type reports one method.
`runBuild` keeps 40 lines of its output and adds `...`, which `onlyDrift` takes for
an error: `MaxReports` is how many packages' drift fits, and `Cut` that it does not.

### Linking, Validation, Lowering, Compile

A spec is a sequence of files of forms; a form is a record with a head. `Linking`
gives the one project `Merge` makes of them and what it refuses, `Validation`
the set of things wrong with that project but for import cycles, `Lowering` what
the passes make of a package: `Expanded` turns an entity into a struct, an
interface and a promise to implement it, `Concretize` puts the context in, and
select asks the tile of each form for declarations, files, tasks and SQL. A name is a
sequence of words, so that two names are equal when the Go names or file names
made from them are; a declaration keeps its receiver and the types its
signature names. That is what the properties tell apart: the body's text is not
kept. A form of a lowered package is known by its place (which item of the spec,
and which of the forms that one became), since two may be alike.

What the code does by recursion is here a machine of its own, with the Go stack as
a variable. `ImportCycles` is `cycles`: `Begin` visits a package, `Look` takes one
of its dependencies, `Leave` returns. `InterfaceWalk` is `interfaceMethods`: `ReadItem`
is its loop, `Return` the end of a call; `again` is the error of an interface met
twice. Which package is visited and which dependency looked at next is left open, so what is
shown does not depend on the order of names.

`Compile` runs them as the code does, each phase stopping at what it finds: `Link`,
`Validate`, `Search` and `EndValidate`, which reports the cycle with everything else that is
wrong, `Cover`, then for each implement form `BeginWalk`, `Walk` and `EndWalk`, `Lower`, `Emit`,
`BuildGraph` and the layout of the plan. The walks come before `Lower` and not inside
it; they read nothing that it writes. `Cover` takes *any* legal covering, because a
lock or a config can pin any. `whole` is the spec in one file, which the
compiler never sees: `SplitIsImmaterial` compares.
`PlanGraph` is the loop of `Levels`, with its counts and its ready set, given the
graph of a finished compile, or any other.

### Solve, Registry and Selection

`Solve` is the choice for one need from a context: requirements, release and
policy. `Selection` ranges over contexts; `Registry` has the one that is compiled
in, with each tile's cost, form, and what it cannot do, can, and is not known to
do, and prices a store with the chain from its form to the entity's fields.
With the chains that are registered, a form has exactly one, straight to the
domain's values, so `convert`'s search is a look-up there. The assumption
`RegistryIsCoherent` is `checkRegistry`, which panics in `init`.

In `Selection` a run reads a context with config and lock. `TileFor` is `applyChoice`; a tile has a
price for each need, which contains its conversion chain. `Select` computes the covering,
`WriteCode` and `WriteLock` apply it in the order of `Apply`: new code, a new lock
file, changed code, a changed lock file, deletions. `built` is the tile each
need's code on disk was written for, which no file says. `repinned` has the
needs whose lock entry the user changed.

### Service and Page

A request is a record with a program counter: `Handle` is the handler up to the
compiled spec, and only an explain goes on, to set `jsonWeights` (`SetWeights`) and
to read it for each need (`ReadWeights`). `Answers` tabulates what each text is
answered over the real registry. The deadline `withLimits` puts on a request is
read by no handler, so no action stands for it.

`ui` is the state of the page's script: the form, the tab (`cur`), the text in the
pane, the three documents, which of them were edited by hand, and the terminal
block (`curl`). A browser runs a handler to its end, so a handler is an action,
and inside it `PaintF`, `ShowDoc` and `Refresh` are functions from one `ui` to the
next, in the order the code calls them, events that bubble to the form included
(`Type`). A request is sent by an action of the page and its answer received by
another: answers overtake each other, and `Lose` is a connection that fails while
the handler runs on. `BuildSpec` and `BuildPolicy` write what the form says, so
that the answer the panel shows can be held against the store that was picked.

### Repo and Workspace

`Repo` is `gitPrepare`, the generation and `gitFinish`, one action per command they
run: `Stat`, `View`, `Clone`, `GitInit`, `Generate`, `GitAdd`, `GitCommit`,
`GhCreate`, `GhTopics`. Of the main checkout (`main`) it keeps whether it is a
repository and whose files are in its directory, its index and its HEAD: the
user's, the scaffold, those of a GitHub repository that was there. `github` is the
repository the spec names. `-dry-run` runs what `Query` runs and prints the rest,
which is why each action that `Runner.Do` makes asks for `job.dry`.

`Workspace` has the same run-step structure for `Up` and `Down`, each with its
own `run[p]` in a terminal `p`; runs overlap freely, with each other, with
`-git` and with the user, who works in a worktree, commits, deletes it, puts
something else at its path, opens and closes tmux windows. `have`, `existing`
and `running` are what a run read and goes on using: the map of `worktreesOf`,
the window names, and whether the session was there. `listed` is what git
lists, `disk` is what is at the path of each worktree, and the two may disagree.

`git worktree add` and `remove` (`CanAdd`, `CanRemove`), and how tmux finds a
window, are external. `Matching` is the one of that name or, without one, the one whose
name starts with it; none if there are several. Before it looks for a name, tmux takes
a number for an index and what starts with a `-` for an offset from the
current window. Which window has that place depends on its configuration and on what
the user does there, so a name of `Numbers` may reach any window or none (`Targets`,
`Misses`). A pane remembers
in which directory its shell was started and which directory the command typed
into it was declared for.

`calm`, in both, is history: whether anything else happened since the run
began. What a run promises of the state it leaves (`EndsAsSaid`, `UpDelivers`,
`DownDelivers`) it can promise only of a calm one; `result`, `have` and
`existing` are kept of it until something changes. `WorkIsSafe`, `LeftForReview`,
`PublishesTheScaffold` and `CommandsLand` are promised of all.

### Bus and LocalBus

`Bus` says what the interface's doc comments say: a publish calls handlers in the
order of their subscription, none twice; those subscribed from its call to its
return all of them, those subscribed for a part of it perhaps, others never; and
it returns the errors of all that failed. `must` and `may` are the two bounds.
It leaves open when within the call the handlers are looked up.

`LocalBus` is the generated code: `list` under an RWMutex, `add`, the func it
returns, which holds an id (`closure`), and `publish`, which copies the list under
the read lock and calls the handlers without it. A call has a number and a
program counter; one made by a handler names the publish that called the handler
as its `parent`, and that handler does not go on before it returns. `writer` and
`readers` are the mutex: as in `sync.RWMutex`, a waiting writer keeps new readers
out, which is what makes a lock held across handlers deadlock. `subscribed`,
`dropped`, `must`, `may`, `got`, `failed` and `answer` are history, for the refinement;
no guard reads them. A handler may return nil or an error, or panic with its
caller recovering.

## What TLC checks

| run | instance | shows |
|---|---|---|
| `compile` | 2541 specs of 1 to 3 packages, with every legal cover, and every plan graph of 4 nodes | `SplitIsImmaterial`, `CyclesReported`, `NoCycleInTheCode`, `NothingDropped`, `StubsCoverInterface`, `HolesSeeTypes`, `LevelsInOrder`, `StuckMeansCycle` |
| `page` | 6 ways to fill in the form, 5 texts to type, 1 sample, 4 inputs, 2 requests at a time | `SeenIsSent`, `HandEditsSurvive`, `PickWins`, `PanelSettles` |
| `generation_code` | 2 files, 1 method, 2 signatures, 3 edits, no crash | `TypeOK`, `PlanIsFresh`, `UserCodeSurvives`, `RunSettles`, `CheckMeansDone` |
| `generation_crash` | 1 file, 2 methods, 2 edits, 1 crash | `RunSettles`, `CheckMeansDone`, and `Recovers` |
| `fill` | 3 tasks in 2 packages, one importing the other, 1 retry, 1 edit, 1 fault, output never cut | `OnlyFilledChange`, `CleanBetweenTasks`, `GoodAnswerAccepted`, `RunEnds` |
| `selection` | 2 stores, 3 backends, 2 releases, 4 policies, 2 edits, 1 crash | `LockRecordsBuilt`, `PinHolds`, `PreferenceExplainsCost`, `SecondRunQuiet`, `Settles` |
| `workspace` | 2 worktrees, 2 windows, one with 2 panes, 2 terminals, 3 runs, 1 user step, 1 fault | `TypeOK`, `UpDelivers`, `DownDelivers`, `CommandsLand`, `EndsAsSaid`, `PublishesTheScaffold`, `WorkIsSafe`, `LeftForReview` |
| `local_bus` | 4 calls, 2 handlers | `ListIsSubscriptions`, `CallsReturn`, `ImplementsBus` |
| `doc_check` | 1 file, 1 method | `check -allow-holes` passes on a project that a run would change |
| `doc_fill_masked` | as `fill` | a bad reply is accepted while an imported package drifts |
| `doc_dialect` | two stores of one project | the postgres store's SQL is written in SQLite's dialect |
| `doc_weights` | as `page` | two explains at once: the weights shown in one answer are the other's |

The four `doc_` runs state a sentence of the repository's own and are violated; what
each shows is in `PROJECT.json` under `findings`, with the line quoted. More such
sentences are stated in the modules and refuted by TLC the same way. Those with
a `.cfg` are repeated by `tlc -config <cfg> <module>`:

| property | module | configuration | what TLC shows |
|---|---|---|---|
| `EditedConstructorSurvives` | `MCGeneration` | `Doc_ctor.cfg` | an edited constructor is deleted as untouched scaffolding |
| `UpRecreatesMissing` | `MCWorkspace` | `Doc_up.cfg` | `up` does not make a deleted worktree again |
| `DryRunChangesNothing` | `MCWorkspace` | `Doc_dry.cfg` | `up -dry-run` splits a window of the user |
| `CommandsLand` | `MCWorkspace` | `Doc_index.cfg` | the command of a window named `1` is typed into the window of that index |
| `EveryGoodAnswerAccepted` | `MCFill` | `Doc_fill_cut.cfg` | a good answer is turned down: the drift it uncovers is more than is kept of a build's output |
| `GitGetsThere` | `Repo` | `Doc_git.cfg` | a local repository is not published the way `-git` says |
| `TasksSeeTheirTypes` | `MCCompile` | `Doc_context.cfg` | a task whose method names another package's event is not given its file |
| `SampleOpens` | `MCPage` | `Doc_try.cfg` | "open this in the editor" puts the pane's text over the sample |
| `ClashIsRefused` | `MCPage` | `Doc_clash.cfg` | in memory and durable, with "prefer": another store is chosen, nothing refused |
| `NoStoresIsSaid` | `MCPage` | `Doc_nostores.cfg` | a spec without needs ends in an exception of the page |
| `AnswerFollows` | `MCPage` | `Doc_follows.cfg` | the form changes and the answer beside it does not |
| `RemovedStubsGo` | `MCGeneration` | as `Doc_check.cfg` | |
| `UntouchedScaffoldGoes` | `MCGeneration` | as `Doc_check.cfg`, with `StructFiles = {}` | |
| `GoodAnswerAccepted` | `MCFill` | as `Doc_fill_masked.cfg`, with `KeyOf <- SameKeyOf` | |
| `FillsOnlyHoles` | `MCFill` | as `Doc_fill_masked.cfg`, with `MaxEdits = 1` | |
| `NeverSilentlyMoves` | `MCSelection` | as `Selection.cfg` | |
| `PanesAsDeclared` | `MCWorkspace` | as `Doc_up.cfg`, with one terminal and a fault in place of the user's step | |
| `CommandsLand` | `MCWorkspace` | as `Workspace.cfg`, with `demo` among the `StartsOf` of `code` and without `TargetsAssumption` | |

`TypeOK` of `Fill`, `Selection` and `LocalBus` holds under their configurations and can be
added to them; the runs spend their time on the other properties.

**Bounds.** Each is a constant named in its module. `MaxEdits = 3` lets a spec want
a method, want it with another signature and drop it, with `Init` already
starting from every spec. Two files are what it takes for a spec edit to drop
one scaffold and want another (a storage switch); a second method is what it
takes for one to go while its type stays managed. Two crashes in a row leave
nothing that one crash after edits does not: a crash ends the run, and the next
begins from the disk alone. In `Fill` a second run begins from code that `Init`
already ranges over, so one is enough. One retry shows both a retry and the
last attempt. With two packages, one importing the other, no more than one reports
drift at a time, and `MaxReports = 1` never cuts; `Doc_fill_cut.cfg` has two packages that
import a third, where it does, one package standing for the ten whose drift fits into 40
lines. The four properties hold there too, `GoodAnswerAccepted` being about builds whose
output is not cut; the theorems are about any `MaxReports`. In `Selection` two edits are what it takes for the policy to
change around a run that was changed before; `Init` ranges over releases,
policies and requirements. Of the four policies one is cost alone. One prefers a
store weakly, at a price just within the margin for one need and beyond it for
the other, which with durable stores only is a tie and a price within. One
prefers a dearer store strongly over a cheaper one preferred weakly. And one requires one of two.

In `Compile` nothing is bounded but the specs themselves (`MCSpecs` in `MCCompile`):
every way to cut up to three forms of two packages over two files, the header
anywhere; every import graph of three packages, through each kind of form that
can name a type, and a package called like a standard one; an entity with each
of six sets of ops beside every pair of the other forms, each covered by every
legal choice of seven tiles that differ in what they emit; every embedding of
three interfaces in each other, two of which have a method of one name; and specs that are wrong in some forty ways, an auth form
no scheme can cover and a package alias two standard packages share (`Ambiguous`) among them.
Three packages make a cycle that does not go through the package the search starts from.
`Levels` gets every graph of four nodes, those with cycles included.

In `Page` four inputs are enough for a sample or a typed text to go through two
tabs and be asked about, and for two requests to overtake each other; `Texts` has
every text those inputs can send. The registry and the prices are the real ones.

In `Workspace` three runs are an `up`, the `down` that undoes it and an `up` that
finds what that left, or two that overlap on a repository the third made; a
user's step and a failure fall anywhere among them. The two windows are one of
each form, in the main checkout and in a worktree; one name of the user's
(`demos`) starts like a declared one and the other (`code review`) has two
words, the two ways to be mistaken for a declared one. No run of `workspace` is
dry: that of `Doc_dry.cfg` is, and shows that dry runs are not without effect. The name
is free on GitHub at first (`Taken`), and the user's step may be that somebody takes it; the
theorems are about either beginning. Terminals are a symmetry set. The first pane of
`demo` is in the window's own directory; the findings say what the code does when it is not.

In `LocalBus` four calls are two subscriptions beside
two calls that interfere, or a publish whose handler calls what another
goroutine's call delays.

Signatures are a symmetry set in `generation_code`, which checks no liveness and
whose definitions tell no two signatures apart.

**Fairness.** `RunStep`, `ApplyStep` and `FillStep` are weakly fair: a process
that can go on does, until it ends or dies. The LLM command is killed at its
timeout, so asking ends. The build command has no timeout in the code; a build
that hangs is the one assumption `RunEnds` makes beyond the process going on.
`Emit` in `Recovers`, and `Select(FALSE)` in `Settles`, are weakly fair: the user runs tilegen again. Both
properties say what that is enough for, and each names the states in which the
run fails until somebody repairs a file. Nothing is assumed of the user's edits,
of crashes, or of `-reselect`.

`Step` of each call in `LocalBus` is weakly fair: goroutines are scheduled and handlers
return. Calls are finite, so a writer is not overtaken forever; Go's mutex
grants that for any number.

In `Page` the steps of a handler and the arrival of an answer are weakly fair: the
service runs every request it has taken, and a browser settles every fetch, with
an answer or, by `Lose`, with an error. Nothing is assumed of the reader.
`Compile` and `PlanGraph` state no liveness: their loops are bounded by the spec.

`CHECK_DEADLOCK FALSE` is given for `Compile`, `Page`, `Fill`, `Workspace`, `Repo` and `LocalBus` only: they
stop when the compile is done, or when their inputs, runs or calls are used up. A deadlock of calls is what `CallsReturn` finds.

## What is proved

Of the 25 invariants and 15 action or temporal properties that the passing runs
check, a theorem below states all but six, for every value of the constants; the rest of
the theorems are the invariants behind them. None
bounds the edits, crashes, failures or calls: those bounds are constants, and the
proofs know of them only that they are numbers. An assumption of a theorem
is either an `ASSUME` of a module, which TLC evaluates in the runs, or a hypothesis of
the theorem itself; the latter are named here, and all of them hold of the
instances TLC checks, where they are not what a `doc_` run is about.

### User code

`Generation_proofs` proves, for every set of files, methods and signatures and any
number of edits and crashes, from the assumptions on the constants stated in
`Scaffold` and `Generation`:

- `TypeCorrect`: `Spec => []TypeOK`.
- `PlanFresh`: `Spec => []PlanIsFresh`.
- `UserCodeIsSafe`: `Spec => UserCodeSurvives`. No write or deletion of any run
  takes user code out of a scaffolded file that was not saved during that run.
- `CheckCorrect`: `Spec => []CheckMeansDone`. A `check` that passes without
  `-allow-holes` passes on a project with every method the spec wants written, with the
  signature it wants, every generated file as the spec has it and none left over.
  Not on one that a run would leave alone: the untouched stub of a method the
  spec does not want is only in `Report.Updated`, which `checkResult` drops, and a run takes it out.
- `RunsSettle`: `Spec => RunSettles`. A run that ends with nobody saving meanwhile
  leaves what the spec asks for, and another one has nothing to do.

The argument: `PlanKeepsUserCode`, a lemma about the pure plan, says that the
planned version of a file has all of the user code of the version it is planned
from, through reconciliation, deletion and files that do not parse. `FreshInv`
carries that from `Emit` to the write: for each file still to be written or
removed, the *disk's* user code is in the plan's version, unless the user saved
it. `PlanIsFresh` alone is not enough for the deletions, whose effect on the disk is
`Gone` and not the plan's version, so `FreshInv` adds that a scaffolded file to be
deleted is one the plan has as `Gone`. An edit falls under `raced`, a write makes disk and
plan equal, a crash empties the plan.

`CheckMeansDone` needs no invariant beyond types: `CheckedIsDone` follows what `check`
looks at, file by file. `RunSettles` needs two things. One is about the plan alone
(`PlannedAgain`, `TasksAgain`): what `Emit` plans, planned again, is the same, so
reconciliation is idempotent, stubs that were just removed and task lists
included. The other is `SettleInv`: unless the user saved, every file is on disk as
planned or still to be written or removed. `AbsenceAssumption` says that a missing
method or file is not one that is there.

### Fill

`Fill_proofs` proves, for every project, replies, saves, failed writes and crashes:

- `TypeCorrect`: `Spec => []TypeOK`.
- `OnlyFilled`: `Spec => []OnlyFilledChange`.
- `CleanBetween` and `GoodAnswers`: `Spec => []CleanBetweenTasks` and
  `Spec => GoodAnswerAccepted`, if no two tasks share their key (`KeysDistinct`). The
  latter is about builds whose output is not cut, for any length it is cut at: where it is,
  good answers are turned down (`EveryGoodAnswerAccepted` above).

`OnlyFilledChange` speaks of the disk, and a failed attempt writes back what
`fillOne` read: `Held` adds that this was what the file must be. `CleanBetweenTasks` is
carried by `DriftKnown` (drift on disk is in the list of drift, and pending unless
it is being filled) and `Restorable` (what an attempt puts back was clean, for the
builds there may be). `KeysDistinct` is a hypothesis and no assumption because the
code does not see to it: the key is `Type.Method` without the package, and the row
of `GoodAnswerAccepted` with `SameKeyOf` above is what happens otherwise.
That good answers are accepted also needs a package none of whose imports is
at fault, which is where imports being finite and without cycles comes in
(`PackagesAssumption`, well-founded induction on the size of what is imported).

### The choice of tiles, and the lock

`Selection_proofs` proves, for any needs, tiles, releases and policies, any edits
between the steps of a run, and crashes:

- `TypeCorrect`: `Spec => []TypeOK`.
- `LockCorrect`: `Spec => []LockRecordsBuilt`.
- `PreferenceExplains`: `Spec => []PreferenceExplainsCost`.
- `PinsHold`: `Spec => PinHolds`.
- `SecondRun`: `Spec => SecondRunQuiet`.

`CheapestIs` and `PickIs` say what the two `CHOOSE`s of `Solve` return; that there is a
cheapest tile, and one only, is an induction on a finite set, for which names are
numbered (`NameAssumption`). `SelInv` relates three things that a run holds at different
times: code it has not replaced yet is what the lock it read pins (`PinsKept`), the lock it
has written says what it chose (`LockWritten`), and before that the lock is as it was
read (`LockUntouched`), each except where the user edited an entry. `SentinelsAssumption`
says that no lock is mistaken for a missing or malformed one.

### The generated bus

`LocalBus_proofs` proves, for any number of calls and handlers, nested as they may be:

- `TypeCorrect`: `Spec => []TypeOK`.
- `ListCorrect`: `Spec => []ListIsSubscriptions`.
- `BusImplemented`: `Spec => ImplementsBus`, that is `ABus!Spec`.

`IInv` says of the list that ids are handed out once (`Captured`) and that it is what was
added less what was dropped, in order (`ListInOrder`); of a publish that what it has called
and what is left of its copy cover all it must call, in order and within what
it may (`InLoop`). `StepRefines` maps each step of the code to one of `Bus` or to
none: adding under the lock is `Subscribe`, copying the list is none.
What appending to and removing from a sequence without repetitions does
to its order is said in lemmas of their own at the top.

### Worktrees, sessions and repositories

`Workspace_proofs` proves all that the run `workspace` checks, for every list of worktrees
and windows, any number of terminals, runs, edits and failures. Of the repository,
`up` and `down` running beside `-git`:

- `RepoTypeCorrect`: `Spec => []RepoTypeOK`.
- `FoundRepositoriesLeftForReview`: `Spec => LeftForReview`. Only the user
  commits or stages in a repository that a `-git` run found.
- `GitEndsAsSaid`: `Spec => []EndsAsSaid`.
- `ScaffoldPublished`: `Spec => []PublishesTheScaffold`.

The invariant is `RepoInv`. Types alone do not carry `LeftForReview`: a commit must be
known to be of a run in mode `new`, and a clone to have something to clone, so
`JobHasItsPlace` relates the run's step to its mode, to `.git` and to GitHub.
`CalmJob` says what an undisturbed run has done by each of its steps, and
`ScaffoldStays` what even a disturbed one can rely on, since nobody takes the scaffold out
of a directory or an index: that is what the two invariants come from at the end of a run. `Repo_proofs` has
these facts of the steps of `Repo` with whatever is beside them left open
(`ElsewhereKeepsRepo`), and `RunKeepsRepo` shows that `up` and `down` are such: they
change nothing of `Repo` but the counters.

Of the worktrees and the session:

- `UserWorkIsSafe`: `Spec => WorkIsSafe`. No step of any command drops a branch or
  touches a worktree with uncommitted changes, or what else is at its path.
- `WorkspaceTypeCorrect`: `Spec => []TypeOK`.
- `DownIsDone`: `Spec => []DownDelivers`.
- `UpMakesTheRest`: `Spec => []UpDelivers`, if no two worktrees have one branch
  (`BranchesDiffer`), a window without a command of its own has its first
  pane in its own directory (`FirstPanesAgree`), and no declared name of a window is a
  number or starts with a `-` (`NoNumbers`).
- `CommandsAlwaysLand`: `Spec => []CommandsLand`, if no declared name starts with
  another (`NamesApart`), none is a number or starts with a `-` (`NoNumbers`), and the command of
  such a first pane is one for the window's directory (`FirstCommandsAgree`). It is about the
  windows `up` made; of the user's own windows nothing is promised.

`WsInv` is what all of these rest on. Its parts are the repository, what git lists
and what is on disk (`GitOK`), where each run is and what it carries there (`RunOK`,
`InPlace`), the windows (`SessionOK`: ids are never used again) and `PanesThere`: the pane a run
of `up` goes on with is there, if the window still is. Every command has a
lemma that says all it may do (`TreeSteps`, `NewWindowSteps`, ...): it moves its
own run, disturbs the others or not (`Quiet`, `Loud`), and changes at most one
window; the invariants below are proved from these lemmas and no more.

`DownProceeds` is what `down` has done by each of its steps. `UpNow` is that of `up`:
`TreesSoFar`, then `TreesMade`, `WindowsSoFar` between two windows, and `WindowBegun` inside one, where
`PanesSoFar` compares the panes that are there with the first of those declared.
TLC checked `UpNow` on the instance of the run before it was proved. `CommandsLand`
is of disturbed runs too, so nothing a run remembers may be used: `WindowsLand` is about the
windows up made, and `PanesKnown` about the pane a run holds by its id, which is in the
window the run is about even when everything else has changed.

The five hypotheses are about the spec file. The program refuses duplicate names of
worktrees and of windows, and names with a `.` or a `:` (`workspace.go` 57, 134 and 196), and nothing
else of this kind. What it does with names or directories that do not satisfy them is in the findings; with
one branch for two worktrees `up` fails at the second, on a repository that is in order. `MCWorkspace`
assumes four of them of its workspace (`TargetsAssumption`), and its configurations give
`Numbers`, empty in all but `Doc_index.cfg`. The modules' own assumptions are that the bounds are numbers, that the spec's windows
and worktrees are named apart, and that no repository and no session is
`None` (`NoRepositoryAssumption`, `NoSessionAssumption`).

### A compile

`Compile_proofs` proves, for every set of specs, catalog of tiles and set of
standard packages, and for whatever legal tiles are chosen:

- `SpecCompileInv`: `Spec => []CompileInv`.
- `CyclesAreReported`: `Spec => []CyclesReported`. What is accepted has no import cycle; one that there is
  is reported, and what is reported is one.
- `NoCycleReachesTheCode`: `Spec => []NoCycleInTheCode`. The generated packages of an accepted spec import
  each other in no cycle.
- `StubsCoverTheInterface`: `Spec => []StubsCoverInterface`. One stub for each method of the interface an
  implement form names and of all it embeds, and no other.
- `HolesSeeTheirTypes`: `Spec => []HolesSeeTypes`. The task of a hole is given the declaration of each
  type its method names that a struct, entity, interface or enum form of the project declares. The types
  events declare are left out: for them it is false (`TasksSeeTheirTypes`, `Doc_context.cfg`).
- `NothingIsDropped`: `Spec => []NothingDropped`. Every form comes out as code, as tasks with their
  stubs, or, where no tile covers it, as a task of its own.

`CompileInv` says of each phase what it leaves to those after it: what is covered
has no errors and no cycle (`ValidInv`), every need has a legal tile (`CoverInv`), what
was found for an interface is right (`WalksInv`), and `out` is what select makes of these
(`OutInv`). Without it none of the five is inductive: each speaks of the last
phases only, and follows from what an earlier phase refused. The invariants of
the two machines carry it. `SearchInv`: the stack is a path of imports, and what the search is
done with is closed under dependencies and has no cycle in it (`DoneInv`: in no part of it does
every package import one of that part). `WalkInv`: everything
met is what the interface is made of, all it embeds was met or is still unread, and the
methods are those of the items read, each name once.

`NoCycleReachesTheCode` is a statement about tiles that were written apart. Its
core is a lemma for each kind of form (`SelectImplOk`, `EventsOk`, ...): a file of a package names
only types whose package is a standard one, one that a chosen tile brings, or one that a form
of *this* package names, after expansion and with the context put in
(`OkQ`). So what the code imports is among what validation searched. `StubsCoverTheInterface`,
`HolesSeeTheirTypes` and `NothingIsDropped` likewise have a lemma per form for its stubs, its context and
what it keeps (`ImplementedAs`, `TasksOk`, `EntityKept`, ...). `NothingIsDropped` needs one more
thing: a form no tile covers becomes a task, except one headed `impl`, and
`NoOwnImpl` shows that no spec with such a form gets as far as its files without one path
being staged twice.

The hypotheses are in the properties themselves, and each is a finding about the code:
`PathsDistinct`, `OneStoreEach` and `InterfacesDistinct` name three things that validation does not
refuse and that lose something silently. `NothingDropped` has all three, `StubsCoverInterface` the
first and the third, `HolesSeeTypes` the first. `ProjectNames \intersect Std = {}`, in `NoCycleInTheCode` and
`HolesSeeTypes`, leaves out projects with a package called like a standard one, which Go
would not confuse and tilegen's resolution of names does. `CatalogAssumption` says what `Catalog` is, with one fact of substance:
a tile's own code names only types of packages it declares, of standard ones or of the
package it writes. `tilespec.go` 280 says so of tile files, and the backends, buses and authenticators
register accordingly. `StdAssumption` is that the list of standard packages has `context` and
`net/http`, and that neither is a name two of them share.

The first attempt failed on the model and not on the prover. `Resolve` was a CASE whose guards
may hold together (a required alias may also be a package of the project). TLC takes the first that
does; TLA+ leaves open which, and so did the model which import a file gets, where the code tries them in
order. It is a chain of IFs now. The attempt also asked about `impl` forms written by
the user, which are since among the specs TLC compiles.

### The layout of a plan

- `LevelsAreInOrder`: `LevelSpec => []LevelsInOrder`, for every finite graph (`PlanGraphsAssumption`).
  A node comes after all it depends on, and once.
- `StuckIsACycle`: `LevelSpec => []StuckMeansCycle`. What `Levels` calls stuck is
  what it has not placed, and each such node waits for another one.
- `PlanIsLaidOut`: both, of the graph that `Compile` builds, whenever it is finite:
  `Spec => [](IsFiniteSet(graph.node) => LevelsInOrder /\ StuckMeansCycle)`.

`LevelInv` relates the counts to the levels: the count of a node is the number of its
dependencies inside the plan that are not placed, and the ready ones are those
that are not placed and count zero. `CountedOff` is the arithmetic of the
decrement loop, a cardinality taken over a set less another; finiteness of the
graph is what it needs. Nothing in `Compile` makes specs or tiles finite, so `PlanIsLaidOut`
asks for it where it matters.

### The page

`Page_proofs` proves, for every form, typed text, sample and service:

- `SeenIsAlwaysSent`: `Spec => []SeenIsSent`.
- `HandEditsAreSafe`: `Spec => HandEditsSurvive`.
- `PickAlwaysWins`: `Spec => []PickWins`.

`Consistent` is `SeenIsSent` and the shape of `ui`, with one fact without which it
would not be inductive: the tiles document is never marked as edited, so that
`Rebuild` is never asked of it. Between two functions of one handler the pane may be ahead of
its document; `Open` says how far, and `KeepStores`, `PaintFSettles`, `ShowDocSettles` and
`RefreshSettles` say that each function, given an open page, leaves a consistent one
and which documents it left alone. `HandlerSettles` has a case for each handler.
Documents are opaque to these two.

`PickAlwaysWins` looks into them. `Written` says what each document may be (a spec the
form or the reader wrote, a policy of theirs, and, until it is edited, the policy of the
form as it stands), `RequestsSent` that a request carries one of the texts the
service takes and, once handled, the answer to that very text, and `PanelAnswers`
that what the panel shows is the answer to the text beside it. The rest is about one
text: its last form is the form's policy, and a text that compiles has one
(`LastPolicyCounts`); that policy prefers one tile and no other (`FormPrefers`); and a tile
that alone is preferred, strongly or as the only one allowed, is picked wherever it is
legal, whatever anything costs (`PickIsPreferred`). Of the registry only its coherence
is used: that every tile has a place among the names. `TextsAssumption` says that a
text is a sequence of forms and that the service takes whatever the page can send.

### Only model-checked

- Liveness under fairness is beyond this prover: `RunEnds`, `Recovers`, `Settles`,
  `CallsReturn`, `PanelSettles`.
- `SplitIsImmaterial` compares the spec in one file with its files, in both directions: they link or are
  refused for the same reasons, validation says the same, and the passes refuse them alike or make the same of them. That the two go together is a
  property of `Specs`, and that merging one gives what merging the other does is an
  induction over the files, with folds and flattened sequences on both sides: induction
  over data, which the installed provers cannot do.

## What is not modelled

- The parser and the pattern matcher (`sexp.go`, `tile.go`), tile files (`tilespec.go`,
  `tiles_cmd.go`), import and the API surface (`import*.go`, `apisurface.go`), the guide and
  the generated list of the standard library: text to text, run once, no state.
- Of validation, the shape of a single form and the spelling of an identifier.
  Of the passes, the bodies, tags, hints and constraints they write.
- Of `Scaffold`, renamed receiver types, imports of scaffolded files and `go.mod`.
- Of `Fill`, `os/exec`'s handling of orphaned pipes: a child of the command's shell
  that outlives the timeout keeps `Run` waiting, and a build has no timeout at all.
  Neither is a step of the loop; `RunEnds` assumes both return.
- Of `Workspace`, attaching to a tmux session, which changes nothing, workspaces
  that declare no session, and symbolic links: `canonical` (`workspace.go` 311) is the identity
  on the paths of the model, so two paths of one directory are two directories.
- Of the plan graph, the nodes of `go.mod` and `sqlc.yaml`.
- Of the registry, the transport offers, which no form of a spec needs, and needs
  of a tile's own, which no registered tile has.
- Of the service, the routes that only read (tiles, plan, version, healthz) and the
  text of the zip. Of the page, colours, the guide's tabs and the copy buttons.

## Plan

1. `Scaffold`, `Generation`: modelled, checked and proved, but for `Recovers`.
2. `Fill`: the same, but for `RunEnds`.
3. `Solve`, `Selection`: the same, but for `Settles`.
4. `Bus`, `LocalBus`: the same, the refinement included, but for `CallsReturn`.
5. `Repo`, `Workspace`: modelled, checked and proved.
6. `Linking`, `Validation`, `ImportCycles`, `Lowering`, `InterfaceWalk`, `PlanGraph`, `Compile`: the
   same, but for `SplitIsImmaterial`.
7. `Registry`, `Service`, `Page`: modelled, checked and proved, but for `PanelSettles`.
