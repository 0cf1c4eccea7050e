----------------------------- MODULE Generation -----------------------------
(***************************************************************************)
(* A project directory over its life: the user edits the spec and the      *)
(* code, tilegen plans and applies, and a run may die half way.  Emit      *)
(* reads the whole project before Apply writes its first file, so the plan *)
(* is one step and each write or deletion of Apply is another; the user    *)
(* can save a file in between.                                             *)
(***************************************************************************)
EXTENDS Scaffold

CONSTANTS
    MaxEdits,    \* bound on the user's edits, of the spec and of files
    MaxCrashes   \* bound on runs that die while applying

ASSUME BoundsAssumption == MaxEdits \in Nat /\ MaxCrashes \in Nat

VARIABLES
    spec,     \* the spec as it is now
    keep,     \* the scaffolded files on disk
    gen,      \* the generated files on disk
    tasks,    \* tilegen.tasks.json on disk
    plan,     \* the plan being applied, its path sets shrinking as it goes
    pc,       \* "idle", or "apply" while a run is applying its plan
    raced,    \* paths the user saved since the run in progress read them
    edits,    \* user edits so far
    crashes   \* runs that died so far

disk == <<keep, gen, tasks>>
vars == <<spec, keep, gen, tasks, plan, pc, raced, edits, crashes>>

NoPlan == [spec |-> [f \in Files |-> NoFile],
           keep |-> [f \in Files |-> Gone],
           gen |-> [f \in Files |-> Gone],
           tasks |-> Gone, new |-> {}, changed |-> {}, gone |-> {}]

TypeOK ==
    /\ spec \in Specs
    /\ keep \in [Files -> KeepFile]
    /\ gen \in [Files -> GenFile]
    /\ tasks \in TasksFile
    /\ plan \in Plans
    /\ pc \in {"idle", "apply"}
    /\ raced \subseteq Paths
    /\ edits \in Nat
    /\ crashes \in Nat

Init ==
    /\ spec \in Specs
    /\ keep = [f \in Files |-> Gone]
    /\ gen = [f \in Files |-> Gone]
    /\ tasks = Gone
    /\ plan = NoPlan
    /\ pc = "idle"
    /\ raced = {}
    /\ edits = 0
    /\ crashes = 0
-----------------------------------------------------------------------------
(***************************************************************************)
(* The user.  They may save a file at any time, also while a run applies.  *)
(***************************************************************************)
UserActs ==
    /\ edits < MaxEdits
    /\ edits' = edits + 1
    /\ UNCHANGED <<plan, pc, crashes>>

Touch(x) == raced' = IF pc = "apply" THEN raced \cup {x} ELSE raced

EditSpec ==
    /\ UserActs
    /\ \E sp \in Specs \ {spec} : spec' = sp
    /\ UNCHANGED <<disk, raced>>

\* One edit: a method's declaration, something beside the methods, the
\* struct or constructor, a syntax error made or mended.
WithMethods(c) ==
    {[c EXCEPT !.methods = ms] :
        ms \in {[c.methods EXCEPT ![m] = d] :
                   m \in Methods, d \in MethodDecl \cup {NoMethod}}}

Edited(c) ==
    WithMethods(c)
    \cup {[c EXCEPT !.decls = ~@], [c EXCEPT !.ctor = ~@], [c EXCEPT !.parses = ~@]}

\* The user edits or deletes a file, or restores one that a crash tore.
EditKeep(f) ==
    /\ UserActs
    /\ keep[f] # Gone
    /\ \E c \in ({Gone} \cup IF keep[f] = Torn THEN KeepContent
                             ELSE Edited(keep[f])) \ {keep[f]} :
           keep' = [keep EXCEPT ![f] = c]
    /\ Touch(Keep(f))
    /\ UNCHANGED <<spec, gen, tasks>>

EditGen(f) ==
    /\ UserActs
    /\ gen[f] # Gone
    /\ \E c \in {Tampered, Gone} \ {gen[f]} : gen' = [gen EXCEPT ![f] = c]
    /\ Touch(Gen(f))
    /\ UNCHANGED <<spec, keep, tasks>>

DeleteTasks ==
    /\ UserActs
    /\ tasks # Gone
    /\ tasks' = Gone
    /\ Touch(Tasks)
    /\ UNCHANGED <<spec, keep, gen>>
-----------------------------------------------------------------------------
(***************************************************************************)
(* tilegen SPEC.  A run whose plan fails returns before it writes.         *)
(***************************************************************************)
EmitError ==
    /\ pc = "idle"
    /\ PlanFails(spec, keep)
    /\ UNCHANGED vars

Emit ==
    /\ pc = "idle"
    /\ ~PlanFails(spec, keep)
    /\ plan' = PlanOf(spec, keep, gen, tasks)
    /\ pc' = "apply"
    /\ raced' = {}
    /\ UNCHANGED <<spec, disk, edits, crashes>>

Writable ==
    IF plan.new # {} THEN plan.new ELSE plan.changed

\* New files before changed ones.  Within a group the order is that of staging:
\* a package's generated file before its scaffolded one, the packages as the
\* spec has them, tilegen.tasks.json last.
NextWrite(x) ==
    /\ pc = "apply"
    /\ x \in Writable
    /\ x = Tasks => Writable = {Tasks}
    /\ \A f \in Files : x = Keep(f) => Gen(f) \notin Writable

Written(x) == plan' = [plan EXCEPT !.new = @ \ {x}, !.changed = @ \ {x}]

Running == UNCHANGED <<spec, pc, raced, edits, crashes>>

WriteKeep(f) ==
    /\ NextWrite(Keep(f))
    /\ keep' = [keep EXCEPT ![f] = plan.keep[f]]
    /\ Written(Keep(f))
    /\ Running /\ UNCHANGED <<gen, tasks>>

WriteGen(f) ==
    /\ NextWrite(Gen(f))
    /\ gen' = [gen EXCEPT ![f] = plan.gen[f]]
    /\ Written(Gen(f))
    /\ Running /\ UNCHANGED <<keep, tasks>>

WriteTasks ==
    /\ NextWrite(Tasks)
    /\ tasks' = plan.tasks
    /\ Written(Tasks)
    /\ Running /\ UNCHANGED <<keep, gen>>

NextRemove(x) ==
    /\ pc = "apply"
    /\ Writable = {}
    /\ x \in plan.gone
    /\ plan' = [plan EXCEPT !.gone = @ \ {x}]

RemoveKeep(f) ==
    /\ NextRemove(Keep(f))
    /\ keep' = [keep EXCEPT ![f] = Gone]
    /\ Running /\ UNCHANGED <<gen, tasks>>

RemoveGen(f) ==
    /\ NextRemove(Gen(f))
    /\ gen' = [gen EXCEPT ![f] = Gone]
    /\ Running /\ UNCHANGED <<keep, tasks>>

\* Mutant: the run ends before its deletions.
FinishEarly ==
    /\ pc = "apply"
    /\ Writable = {}
    /\ pc' = "idle"
    /\ plan' = NoPlan
    /\ raced' = {}
    /\ UNCHANGED <<spec, disk, edits, crashes>>

Finish ==
    /\ pc = "apply"
    /\ Writable = {} /\ plan.gone = {}
    /\ pc' = "idle"
    /\ plan' = NoPlan
    /\ raced' = {}
    /\ UNCHANGED <<spec, disk, edits, crashes>>

(***************************************************************************)
(* The process dies, or a write fails and Apply returns its error.  The    *)
(* file os.WriteFile was in may be left truncated: a generated one before  *)
(* or after its header.                                                    *)
(***************************************************************************)
Crash ==
    /\ pc = "apply"
    /\ crashes < MaxCrashes
    /\ crashes' = crashes + 1
    /\ pc' = "idle"
    /\ plan' = NoPlan
    /\ raced' = {}
    /\ \/ UNCHANGED disk
       \/ \E f \in Files : /\ NextWrite(Keep(f))
                           /\ keep' = [keep EXCEPT ![f] = Torn]
                           /\ UNCHANGED <<gen, tasks>>
       \/ \E f \in Files : /\ NextWrite(Gen(f))
                           /\ \E c \in {Torn, Tampered} : gen' = [gen EXCEPT ![f] = c]
                           /\ UNCHANGED <<keep, tasks>>
       \/ /\ NextWrite(Tasks)
          /\ tasks' = Torn
          /\ UNCHANGED <<keep, gen>>
    /\ UNCHANGED <<spec, edits>>

ApplyStep ==
    \/ WriteTasks
    \/ Finish
    \/ \E f \in Files :
           WriteKeep(f) \/ WriteGen(f) \/ RemoveKeep(f) \/ RemoveGen(f)

Next ==
    \/ EditSpec
    \/ DeleteTasks
    \/ \E f \in Files : EditKeep(f) \/ EditGen(f)
    \/ Emit
    \/ EmitError
    \/ ApplyStep
    \/ Crash

Spec == Init /\ [][Next]_vars

\* A started run goes on to its end or dies; the user runs tilegen again.
FairSpec == Spec /\ WF_vars(ApplyStep) /\ WF_vars(Emit)
-----------------------------------------------------------------------------
(***************************************************************************)
(* What the project promises.                                              *)
(***************************************************************************)

\* No write or deletion of a run loses or changes user code (README "anything
\* you wrote is never changed"), unless the user saved that very file between
\* the run's reading it and its writing it.
UserCodeSurvives ==
    [][\A f \in Files :
          (ApplyStep /\ Keep(f) \notin raced)
              => UserCode(keep[f]) \subseteq UserCode(keep'[f])]_vars

\* The window in which a save can be lost is one file and one run: what a
\* write replaces is either what the run read or a file raced names.
PlanIsFresh ==
    pc = "apply" =>
        \A f \in Files :
            (Keep(f) \in plan.new \cup plan.changed \cup plan.gone
                /\ Keep(f) \notin raced)
            => UserCode(keep[f]) \subseteq UserCode(plan.keep[f])

\* The project agrees with sp: every wanted file and method is there, what
\* tilegen owns follows sp, and tilegen.tasks.json lists exactly the wanted
\* methods that still have a hole or another signature.
Conforms(sp, k, g, t) ==
    /\ \A f \in Produced(sp) :
          /\ g[f] = sp[f]
          /\ k[f] # Gone
          /\ Parses(k[f]) => \A m \in Methods :
                /\ sp[f][m] # NoSig =>
                      /\ k[f].methods[m] # NoMethod
                      /\ UntouchedStub(k[f].methods[m])
                            => k[f].methods[m].sig = sp[f][m]
                /\ sp[f][m] = NoSig /\ Managed(sp[f])
                      => ~UntouchedStub(k[f].methods[m])
    /\ \A f \in Files \ Produced(sp) :
          /\ g[f] \in {Gone, Torn}
          /\ ~PureScaffolding(f, k[f])
    /\ t \notin {Gone, Torn}
    /\ \A f \in Produced(sp), m \in Methods :
          sp[f][m] # NoSig =>
             ((\E x \in t.tasks : x.file = f /\ x.method = m)
                <=> (\/ k[f].methods[m].sig # sp[f][m]
                     \/ HasHole(k[f].methods[m])))

NothingToDo(p) == p.new = {} /\ p.changed = {} /\ p.gone = {}

\* A run that finishes undisturbed leaves a project that agrees with the spec
\* it read, and that a second run, or check, finds nothing to do in.
RunSettles ==
    [][(Finish /\ raced = {}) =>
          /\ Conforms(plan.spec, keep, gen, tasks)
          /\ ~PlanFails(plan.spec, keep)
          /\ NothingToDo(PlanOf(plan.spec, keep, gen, tasks))]_vars

\* `tilegen check` without -allow-holes passes only on a finished project:
\* every wanted method implemented with the wanted signature, every generated
\* file as the spec has it and none left over.
CheckMeansDone ==
    (pc = "idle" /\ ~PlanFails(spec, keep)
        /\ CheckPasses(PlanOf(spec, keep, gen, tasks), FALSE))
    => /\ \A f \in Produced(spec) :
             /\ gen[f] = spec[f]
             /\ \A m \in WantedIn(spec, f) :
                   keep[f].methods[m] = [body |-> "written", sig |-> spec[f][m]]
       /\ \A f \in Files \ Produced(spec) : gen[f] \in {Gone, Torn}

\* Whatever crashes and edits came before, once they stop and tilegen is run
\* again the project comes to agree with the spec and stays so; only a
\* scaffolded file that does not parse (torn by a crash, or broken by the user)
\* stands in the way, and it does until somebody repairs it.
Recovers ==
    <>[](\/ PlanFails(spec, keep)
         \/ /\ Conforms(spec, keep, gen, tasks)
            /\ NothingToDo(PlanOf(spec, keep, gen, tasks)))
-----------------------------------------------------------------------------
(***************************************************************************)
(* What a document says and the code does not do: each is violated.        *)
(***************************************************************************)

\* main.go:431, "Exit status 1 if generating would change any file": when
\* check passes, a run would change nothing.
CheckSeesEveryChange ==
    (pc = "idle" /\ ~PlanFails(spec, keep)
        /\ CheckPasses(PlanOf(spec, keep, gen, tasks), TRUE))
    => NothingToDo(PlanOf(spec, keep, gen, tasks))

\* README.md:611, "anything you wrote is never changed", read with the user's
\* edits of the struct and its constructor among what they wrote.
EditedConstructorSurvives ==
    [][\A f \in Files :
          (ApplyStep /\ Keep(f) \notin raced /\ Marked(keep[f]) /\ keep[f].ctor)
              => Marked(keep'[f]) /\ keep'[f].ctor]_vars

\* README.md:618, "a method is removed, stub untouched: removes the stub",
\* also when it was the last method of its type.
RemovedStubsGo ==
    [][(Finish /\ raced = {}) =>
          \A f \in Produced(plan.spec), m \in Methods :
              (Parses(keep[f]) /\ plan.spec[f][m] = NoSig)
                  => ~UntouchedStub(keep[f].methods[m])]_vars

\* README.md:620, a package is removed: its "scaffolded files that are still
\* pure scaffolding" are deleted, whichever tile scaffolded them.
UntouchedScaffoldGoes ==
    [][(Finish /\ raced = {}) =>
          \A f \in Files \ Produced(plan.spec) :
              Parses(keep[f]) => UserCode(keep[f]) # {} \/ keep[f].ctor]_vars
=============================================================================
