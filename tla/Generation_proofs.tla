-------------------------- MODULE Generation_proofs --------------------------
(***************************************************************************)
(* Generation's type correctness, that a run never loses user code it had  *)
(* the chance to see, that check means done, and that a run which finishes *)
(* undisturbed leaves nothing to do: for every set of files, methods and   *)
(* signatures and any number of edits and crashes.                         *)
(***************************************************************************)
EXTENDS Generation, TLAPS

(***************************************************************************)
(* Types of what a plan is made of.                                        *)
(***************************************************************************)

\* A fresh scaffold of a wanted file is a well-formed file (renderGo).
LEMMA FreshType ==
    ASSUME NEW want \in Wants
    PROVE  Fresh(want) \in KeepContent
  BY DEF Fresh, Wants, KeepContent, MethodDecl, StubOf

\* Reconciling a file that parses leaves a well-formed file (reconcileKeep).
LEMMA ReconcileParsed ==
    ASSUME NEW c \in KeepContent, Parses(c), NEW want \in Wants
    PROVE  ReconcileKeep(c, want) \in KeepContent
<1>1. \A m \in Methods :
          ReconciledMethod(c.methods[m], want[m], Managed(want))
              \in MethodDecl \cup {NoMethod}
  BY DEF ReconciledMethod, KeepContent, Wants, MethodDecl, StubOf
<1> QED BY <1>1 DEF ReconcileKeep, KeepContent

\* Reconciling leaves a well-formed file, or the one it could not parse.
LEMMA ReconcileKeepType ==
    ASSUME NEW c \in KeepFile, NEW want \in Wants
    PROVE  ReconcileKeep(c, want) \in KeepFile
<1>1. CASE ~Parses(c)
  BY <1>1 DEF ReconcileKeep
<1>2. CASE Parses(c)
  <2>1. c \in KeepContent
    BY <1>2 DEF Parses, KeepFile
  <2> QED BY <1>2, <2>1, ReconcileParsed DEF KeepFile
<1> QED BY <1>1, <1>2

\* The plan holds a well-formed file, or none, for every path (emitGoFile,
\* sweep).
LEMMA PlannedKeepType ==
    ASSUME NEW sp \in Specs, NEW f \in Files, NEW c \in KeepFile
    PROVE  PlannedKeep(sp, f, c) \in KeepFile
<1>1. CASE sp[f] # NoFile
  <2>1. sp[f] \in Wants
    BY <1>1 DEF Specs
  <2> QED BY <1>1, <2>1, FreshType, ReconcileKeepType DEF PlannedKeep, KeepFile
<1>2. CASE sp[f] = NoFile
  BY <1>2 DEF PlannedKeep, KeepFile
<1> QED BY <1>1, <1>2

\* emitTasks lists tasks and orphans of the project's own files and methods.
LEMMA PlannedTasksType ==
    ASSUME NEW sp \in Specs, NEW k, NEW k0
    PROVE  PlannedTasks(sp, k, k0) \in TasksContent
<1>1. \A f \in Produced(sp), m \in Methods : sp[f][m] \in Sigs \cup {NoSig}
  BY DEF Produced, Specs, Wants
<1>2. \A f, m : Status(sp, k, f, m) \in Statuses
  BY DEF Status, Statuses
<1>3. TaskList(sp, k) \subseteq
        [file : Files, method : Methods, contract : Sigs \cup {NoSig},
         status : Statuses]
  BY <1>1, <1>2 DEF TaskList, Produced
<1>4. OrphanMethods(sp, k0) \subseteq Files \X Methods
  BY DEF OrphanMethods, Produced
<1>5. OrphanFiles(sp, k0) \subseteq Files
  BY DEF OrphanFiles
<1> QED BY <1>3, <1>4, <1>5 DEF PlannedTasks, TasksContent

\* Emit's plan is well formed.
LEMMA PlanOfType ==
    ASSUME NEW sp \in Specs, NEW k \in [Files -> KeepFile],
           NEW g \in [Files -> GenFile], NEW t
    PROVE  PlanOf(sp, k, g, t) \in Plans
<1>1. PlannedKeeps(sp, k) \in [Files -> KeepFile]
  BY PlannedKeepType DEF PlannedKeeps
<1>2. \A f \in Files : PlannedGen(sp, f, g[f]) \in GenFile
  BY DEF PlannedGen, Specs, GenFile
<1>3. PlannedGens(sp, g) \in [Files -> GenFile]
  BY <1>2 DEF PlannedGens
<1>4. PlannedTasks(sp, PlannedKeeps(sp, k), k) \in TasksFile
  BY PlannedTasksType DEF TasksFile
<1>5. \A pk, pg, pt : /\ NewPaths(sp, k, g, t) \subseteq Paths
                     /\ ChangedPaths(sp, k, g, t, pk, pg, pt) \subseteq Paths
                     /\ GonePaths(sp, k, g, pk, pg) \subseteq Paths
  BY DEF NewPaths, ChangedPaths, GonePaths
<1> QED BY <1>1, <1>3, <1>4, <1>5 DEF PlanOf, PlanFor, Plans

(***************************************************************************)
(* The plan loses nothing of the user's.                                   *)
(***************************************************************************)

\* reconcileKeep leaves every method that is not an untouched stub as it is,
\* and sweep deletes only files that hold nothing else.
LEMMA PlanKeepsUserCode ==
    ASSUME NEW sp \in Specs, NEW f \in Files, NEW c \in KeepFile
    PROVE  UserCode(c) \subseteq UserCode(PlannedKeep(sp, f, c))
<1>1. CASE c \in {Gone, Torn}
  BY <1>1 DEF UserCode
<1>2. CASE c \notin {Gone, Torn} /\ ~c.parses
  BY <1>2 DEF PlannedKeep, ReconcileKeep, PureScaffolding, Parses
<1>3. CASE c \notin {Gone, Torn} /\ c.parses /\ sp[f] = NoFile
  <2>1. CASE PureScaffolding(f, c)
    BY <1>3, <2>1 DEF UserCode, PureScaffolding
  <2>2. CASE ~PureScaffolding(f, c)
    BY <1>3, <2>2 DEF PlannedKeep
  <2> QED BY <2>1, <2>2
<1>4. CASE c \notin {Gone, Torn} /\ c.parses /\ sp[f] # NoFile
  <2> DEFINE r == ReconcileKeep(c, sp[f])
  <2>1. c \in KeepContent /\ sp[f] \in Wants
    BY <1>4 DEF KeepFile, Specs
  <2>2. r \in KeepContent
    BY <1>4, <2>1, ReconcileParsed DEF Parses
  <2>3. r \notin {Gone, Torn}
    BY <2>2, ContentAssumption
  <2>4. r.decls = c.decls /\ r.parses
    BY <1>4, <2>1 DEF ReconcileKeep, Parses, KeepContent
  <2>5. \A m \in Methods :
           (c.methods[m] # NoMethod /\ ~UntouchedStub(c.methods[m]))
               => r.methods[m] = c.methods[m]
    BY <1>4, <2>1 DEF ReconcileKeep, Parses, KeepContent, ReconciledMethod
  <2>6. UserCode(c) \subseteq UserCode(r)
    <3> HIDE DEF r
    <3> QED BY <1>4, <2>3, <2>4, <2>5 DEF UserCode
  <2> QED BY <1>4, <2>6 DEF PlannedKeep
<1> QED BY <1>1, <1>2, <1>3, <1>4

\* One edit of the user's leaves a well-formed file.
LEMMA EditedType ==
    ASSUME NEW c \in KeepContent
    PROVE  Edited(c) \subseteq KeepContent
<1>1. WithMethods(c) \subseteq KeepContent
  <2>1. c.methods \in [Methods -> MethodDecl \cup {NoMethod}]
    BY DEF KeepContent
  <2>2. {[c.methods EXCEPT ![m] = d] : m \in Methods, d \in MethodDecl \cup {NoMethod}}
            \subseteq [Methods -> MethodDecl \cup {NoMethod}]
    BY <2>1
  <2>3. \A ms \in [Methods -> MethodDecl \cup {NoMethod}] :
            [c EXCEPT !.methods = ms] \in KeepContent
    BY DEF KeepContent
  <2> QED BY <2>2, <2>3 DEF WithMethods
<1>2. /\ [c EXCEPT !.decls = ~@] \in KeepContent
      /\ [c EXCEPT !.ctor = ~@] \in KeepContent
      /\ [c EXCEPT !.parses = ~@] \in KeepContent
  BY DEF KeepContent
<1> QED BY <1>1, <1>2 DEF Edited

(***************************************************************************)
(* The specification.                                                      *)
(***************************************************************************)

\* Type correctness of Generation.
THEOREM TypeCorrect == Spec => []TypeOK
<1>1. Init => TypeOK
  BY DEF Init, TypeOK, Plans, NoPlan, Specs, KeepFile, GenFile, TasksFile
<1>2. TypeOK /\ [Next]_vars => TypeOK'
  <2> SUFFICES ASSUME TypeOK, [Next]_vars
               PROVE  TypeOK'
    OBVIOUS
  <2> USE DEF TypeOK
  <2>1. CASE EditSpec
    BY <2>1 DEF EditSpec, UserActs, disk
  <2>2. CASE DeleteTasks
    BY <2>2 DEF DeleteTasks, UserActs, Touch, TasksFile, Paths, Tasks
  <2>3. ASSUME NEW f \in Files, EditKeep(f)
        PROVE  TypeOK'
    <3>1. PICK c \in ({Gone} \cup IF keep[f] = Torn THEN KeepContent
                                  ELSE Edited(keep[f])) :
              keep' = [keep EXCEPT ![f] = c]
      BY <2>3 DEF EditKeep
    <3>2. CASE c \in {Gone} \cup KeepContent
      BY <2>3, <3>1, <3>2 DEF EditKeep, UserActs, Touch, KeepFile, Paths, Keep
    <3>3. CASE c \in Edited(keep[f]) /\ keep[f] # Torn
      <4>1. keep[f] \in KeepContent
        BY <2>3, <3>3 DEF EditKeep, KeepFile
      <4>2. Edited(keep[f]) \subseteq KeepContent
        BY <4>1, EditedType
      <4> QED BY <3>2, <3>3, <4>2
    <3> QED BY <3>1, <3>2, <3>3
  <2>4. ASSUME NEW f \in Files, EditGen(f)
        PROVE  TypeOK'
    BY <2>4 DEF EditGen, UserActs, Touch, GenFile, Paths, Gen
  <2>5. CASE Emit
    BY <2>5, PlanOfType DEF Emit, disk
  <2>6. CASE EmitError
    BY <2>6 DEF EmitError, vars
  <2>7. CASE WriteTasks
    BY <2>7 DEF WriteTasks, NextWrite, Written, Running, Plans
  <2>8. CASE Finish
    BY <2>8 DEF Finish, disk, Plans, NoPlan, Specs, KeepFile, GenFile, TasksFile
  <2>9. ASSUME NEW f \in Files, WriteKeep(f)
        PROVE  TypeOK'
    BY <2>9 DEF WriteKeep, NextWrite, Written, Running, Plans
  <2>10. ASSUME NEW f \in Files, WriteGen(f)
         PROVE  TypeOK'
    BY <2>10 DEF WriteGen, NextWrite, Written, Running, Plans
  <2>11. ASSUME NEW f \in Files, RemoveKeep(f)
         PROVE  TypeOK'
    BY <2>11 DEF RemoveKeep, NextRemove, Running, Plans, KeepFile
  <2>12. ASSUME NEW f \in Files, RemoveGen(f)
         PROVE  TypeOK'
    BY <2>12 DEF RemoveGen, NextRemove, Running, Plans, GenFile
  <2>13. CASE Crash
    <3>1. plan' \in Plans
      BY <2>13 DEF Crash, Plans, NoPlan, Specs, KeepFile, GenFile, TasksFile
    <3>2. /\ keep' \in [Files -> KeepFile]
          /\ gen' \in [Files -> GenFile]
          /\ tasks' \in TasksFile
      BY <2>13 DEF Crash, disk, KeepFile, GenFile, TasksFile
    <3> QED BY <2>13, <3>1, <3>2 DEF Crash
  <2>14. CASE UNCHANGED vars
    BY <2>14 DEF vars
  <2> QED BY <2>1, <2>2, <2>3, <2>4, <2>5, <2>6, <2>7, <2>8, <2>9, <2>10,
             <2>11, <2>12, <2>13, <2>14 DEF Next, ApplyStep
<1> QED BY <1>1, <1>2, PTL DEF Spec

(***************************************************************************)
(* What a write replaces is what the run read, so the plan's gain is the   *)
(* disk's.  The inductive invariant adds to PlanIsFresh that a file to be  *)
(* removed is one the plan holds as gone.                                  *)
(***************************************************************************)
FreshInv ==
    /\ PlanIsFresh
    /\ \A f \in Files : Keep(f) \in plan.gone => plan.keep[f] = Gone

\* The paths of two files differ.
LEMMA PathsDiffer ==
    /\ \A f, g \in Files : Keep(f) = Keep(g) => f = g
    /\ \A f, g \in Files : Gen(f) = Gen(g) => f = g
    /\ \A f, g \in Files : Keep(f) # Gen(g)
    /\ \A f \in Files : Keep(f) # Tasks /\ Gen(f) # Tasks
  BY DEF Keep, Gen, Tasks

\* A step that leaves the scaffolded files alone and only shortens the plan
\* keeps the invariant.
LEMMA ShorterPlan ==
    ASSUME TypeOK, FreshInv, pc = "apply", UNCHANGED <<keep, pc>>,
           raced \subseteq raced', plan'.keep = plan.keep,
           plan'.new \subseteq plan.new, plan'.changed \subseteq plan.changed,
           plan'.gone \subseteq plan.gone
    PROVE  FreshInv'
  BY DEF FreshInv, PlanIsFresh

\* FreshInv holds of every state: between Emit and the write of a file, the
\* plan's version of the file has all the user code of the disk's.
LEMMA FreshInvariant == Spec => []FreshInv
<1>1. Init => FreshInv
  BY DEF Init, FreshInv, PlanIsFresh, NoPlan
<1>2. TypeOK /\ FreshInv /\ [Next]_vars => FreshInv'
  <2> SUFFICES ASSUME TypeOK, FreshInv, [Next]_vars
               PROVE  FreshInv'
    OBVIOUS
  <2>1. CASE EditSpec
    BY <2>1 DEF EditSpec, UserActs, disk, FreshInv, PlanIsFresh
  <2>2. CASE DeleteTasks
    BY <2>2 DEF DeleteTasks, UserActs, Touch, FreshInv, PlanIsFresh
  <2>3. ASSUME NEW f \in Files, EditKeep(f)
        PROVE  FreshInv'
    <3>1. /\ UNCHANGED <<plan, pc>>
          /\ \A g \in Files \ {f} : keep'[g] = keep[g]
          /\ raced \subseteq raced'
          /\ pc = "apply" => Keep(f) \in raced'
      BY <2>3 DEF EditKeep, UserActs, Touch, TypeOK
    <3> QED BY <3>1 DEF FreshInv, PlanIsFresh
  <2>4. ASSUME NEW f \in Files, EditGen(f)
        PROVE  FreshInv'
    BY <2>4 DEF EditGen, UserActs, Touch, FreshInv, PlanIsFresh
  <2>5. CASE Emit
    <3>1. /\ keep' = keep
          /\ plan'.keep = PlannedKeeps(spec, keep)
          /\ plan'.gone = GonePaths(spec, keep, gen, PlannedKeeps(spec, keep),
                                    PlannedGens(spec, gen))
      BY <2>5 DEF Emit, PlanOf, PlanFor, disk
    <3>2. ASSUME NEW f \in Files
          PROVE  UserCode(keep[f]) \subseteq UserCode(PlannedKeep(spec, f, keep[f]))
      BY PlanKeepsUserCode DEF TypeOK
    <3>3. PlanIsFresh'
      BY <3>1, <3>2 DEF PlanIsFresh, PlannedKeeps
    <3>4. ASSUME NEW f \in Files, Keep(f) \in plan'.gone
          PROVE  plan'.keep[f] = Gone
      <4>1. PICK g \in Files \ Produced(spec) :
                \/ Keep(f) = Keep(g) /\ PlannedKeeps(spec, keep)[g] # keep[g]
                \/ Keep(f) = Gen(g)
        BY <3>1, <3>4 DEF GonePaths
      <4>2. g = f /\ PlannedKeep(spec, f, keep[f]) # keep[f] /\ spec[f] = NoFile
        BY <4>1, PathsDiffer DEF PlannedKeeps, Produced
      <4> QED BY <3>1, <4>2 DEF PlannedKeep, PlannedKeeps
    <3> QED BY <3>3, <3>4 DEF FreshInv
  <2>6. CASE EmitError
    BY <2>6 DEF EmitError, vars, FreshInv, PlanIsFresh
  <2>7. CASE WriteTasks
    <3>1. /\ pc = "apply" /\ UNCHANGED <<keep, pc, raced>>
          /\ plan'.keep = plan.keep /\ plan'.new \subseteq plan.new
          /\ plan'.changed \subseteq plan.changed /\ plan'.gone = plan.gone
      BY <2>7 DEF WriteTasks, NextWrite, Written, Running, TypeOK, Plans
    <3> QED BY <3>1, ShorterPlan
  <2>8. CASE Finish
    BY <2>8 DEF Finish, NoPlan, FreshInv, PlanIsFresh
  <2>9. ASSUME NEW f \in Files, WriteKeep(f)
        PROVE  FreshInv'
    <3>1. /\ keep' = [keep EXCEPT ![f] = plan.keep[f]]
          /\ UNCHANGED <<pc, raced>>
          /\ plan'.keep = plan.keep /\ plan'.new \subseteq plan.new
          /\ plan'.changed \subseteq plan.changed /\ plan'.gone = plan.gone
      BY <2>9 DEF WriteKeep, Written, Running, TypeOK, Plans
    <3>2. /\ keep'[f] = plan.keep[f]
          /\ \A g \in Files \ {f} : keep'[g] = keep[g]
      BY <3>1 DEF TypeOK
    <3> QED BY <3>1, <3>2 DEF FreshInv, PlanIsFresh
  <2>10. ASSUME NEW f \in Files, WriteGen(f)
         PROVE  FreshInv'
    <3>1. /\ pc = "apply" /\ UNCHANGED <<keep, pc, raced>>
          /\ plan'.keep = plan.keep /\ plan'.new \subseteq plan.new
          /\ plan'.changed \subseteq plan.changed /\ plan'.gone = plan.gone
      BY <2>10 DEF WriteGen, NextWrite, Written, Running, TypeOK, Plans
    <3> QED BY <3>1, ShorterPlan
  <2>11. ASSUME NEW f \in Files, RemoveKeep(f)
         PROVE  FreshInv'
    <3>1. /\ keep' = [keep EXCEPT ![f] = Gone]
          /\ Keep(f) \in plan.gone
          /\ UNCHANGED <<pc, raced>>
          /\ plan'.keep = plan.keep /\ plan'.new = plan.new
          /\ plan'.changed = plan.changed /\ plan'.gone \subseteq plan.gone
      BY <2>11 DEF RemoveKeep, NextRemove, Running, TypeOK, Plans
    <3>2. /\ keep'[f] = plan.keep[f]
          /\ \A g \in Files \ {f} : keep'[g] = keep[g]
      BY <3>1 DEF TypeOK, FreshInv
    <3> QED BY <3>1, <3>2 DEF FreshInv, PlanIsFresh
  <2>12. ASSUME NEW f \in Files, RemoveGen(f)
         PROVE  FreshInv'
    <3>1. /\ pc = "apply" /\ UNCHANGED <<keep, pc, raced>>
          /\ plan'.keep = plan.keep /\ plan'.new = plan.new
          /\ plan'.changed = plan.changed /\ plan'.gone \subseteq plan.gone
      BY <2>12 DEF RemoveGen, NextRemove, Running, TypeOK, Plans
    <3> QED BY <3>1, ShorterPlan
  <2>13. CASE Crash
    BY <2>13 DEF Crash, NoPlan, FreshInv, PlanIsFresh
  <2>14. CASE UNCHANGED vars
    BY <2>14 DEF vars, FreshInv, PlanIsFresh
  <2> QED BY <2>1, <2>2, <2>3, <2>4, <2>5, <2>6, <2>7, <2>8, <2>9, <2>10,
             <2>11, <2>12, <2>13, <2>14 DEF Next, ApplyStep
<1> QED BY <1>1, <1>2, TypeCorrect, PTL DEF Spec

\* No file that a run is about to write or remove holds user code the plan
\* lacks, unless the user saved it during the run.
THEOREM PlanFresh == Spec => []PlanIsFresh
<1>1. FreshInv => PlanIsFresh
  BY DEF FreshInv
<1> QED BY <1>1, FreshInvariant, PTL

\* A run never changes or deletes what the user wrote in a file, unless the
\* user saved that file during the run.
THEOREM UserCodeIsSafe == Spec => UserCodeSurvives
<1>1. TypeOK /\ FreshInv /\ [Next]_vars
        => [\A f \in Files :
              (ApplyStep /\ Keep(f) \notin raced)
                  => UserCode(keep[f]) \subseteq UserCode(keep'[f])]_vars
  <2> SUFFICES ASSUME TypeOK, FreshInv, ApplyStep,
                      NEW f \in Files, Keep(f) \notin raced
               PROVE  UserCode(keep[f]) \subseteq UserCode(keep'[f])
    OBVIOUS
  <2>1. CASE keep'[f] = keep[f]
    BY <2>1
  <2>2. ASSUME NEW g \in Files, WriteKeep(g)
        PROVE  UserCode(keep[f]) \subseteq UserCode(keep'[f])
    <3>1. CASE g = f
      <4>1. keep'[f] = plan.keep[f] /\ Keep(f) \in plan.new \cup plan.changed
        BY <2>2, <3>1 DEF WriteKeep, NextWrite, Writable, TypeOK
      <4> QED BY <2>2, <4>1 DEF WriteKeep, NextWrite, FreshInv, PlanIsFresh
    <3>2. CASE g # f
      BY <2>2, <3>2, <2>1 DEF WriteKeep, TypeOK
    <3> QED BY <3>1, <3>2
  <2>3. ASSUME NEW g \in Files, RemoveKeep(g)
        PROVE  UserCode(keep[f]) \subseteq UserCode(keep'[f])
    <3>1. CASE g = f
      <4>1. keep'[f] = plan.keep[f] /\ Keep(f) \in plan.gone
        BY <2>3, <3>1 DEF RemoveKeep, NextRemove, TypeOK, FreshInv
      <4> QED BY <2>3, <4>1 DEF RemoveKeep, NextRemove, FreshInv, PlanIsFresh
    <3>2. CASE g # f
      BY <2>3, <3>2, <2>1 DEF RemoveKeep, TypeOK
    <3> QED BY <3>1, <3>2
  <2>4. CASE WriteTasks
    BY <2>4, <2>1 DEF WriteTasks
  <2>5. CASE Finish
    BY <2>5, <2>1 DEF Finish, disk
  <2>6. ASSUME NEW g \in Files, WriteGen(g) \/ RemoveGen(g)
        PROVE  UserCode(keep[f]) \subseteq UserCode(keep'[f])
    BY <2>6, <2>1 DEF WriteGen, RemoveGen
  <2> QED BY <2>2, <2>3, <2>4, <2>5, <2>6 DEF ApplyStep
<1> QED BY <1>1, TypeCorrect, FreshInvariant, PTL DEF Spec, UserCodeSurvives

(***************************************************************************)
(* What `tilegen check` vouches for.                                       *)
(***************************************************************************)

\* The plan's version of a method the spec wants, in a file that parses.
LEMMA PlannedMethod ==
    ASSUME NEW sp \in Specs, NEW f \in Produced(sp), NEW c \in KeepFile, Parses(c)
    PROVE  /\ PlannedKeep(sp, f, c) \in KeepContent /\ Parses(PlannedKeep(sp, f, c))
           /\ \A m \in Methods :
                 PlannedKeep(sp, f, c).methods[m]
                    = ReconciledMethod(c.methods[m], sp[f][m], Managed(sp[f]))
<1>1. c \in KeepContent /\ c # Gone /\ sp[f] \in Wants /\ sp[f] # NoFile
  BY DEF Parses, KeepFile, Specs, Produced
<1>2. PlannedKeep(sp, f, c) = ReconcileKeep(c, sp[f])
  BY <1>1 DEF PlannedKeep
<1>3. ReconcileKeep(c, sp[f]) \in KeepContent
  BY <1>1, ReconcileParsed
<1>4. /\ ReconcileKeep(c, sp[f]).parses
      /\ \A m \in Methods : ReconcileKeep(c, sp[f]).methods[m]
            = ReconciledMethod(c.methods[m], sp[f][m], Managed(sp[f]))
  BY <1>1 DEF ReconcileKeep, Parses, KeepContent
<1> QED BY <1>2, <1>3, <1>4, ContentAssumption DEF Parses

\* tilegen.tasks.json has a task for each wanted method that is not done
\* (emitTasks).
LEMMA TaskListIs ==
    ASSUME NEW sp, NEW k, NEW f \in Produced(sp), NEW m \in WantedIn(sp, f)
    PROVE  (\E x \in TaskList(sp, k) : x.file = f /\ x.method = m)
              <=> Status(sp, k, f, m) # "done"
<1> DEFINE Todo == {y \in Produced(sp) \X Methods :
                     /\ sp[y[1]][y[2]] # NoSig
                     /\ Status(sp, k, y[1], y[2]) # "done"}
           TaskOf(x) == [file |-> x[1], method |-> x[2], contract |-> sp[x[1]][x[2]],
                         status |-> Status(sp, k, x[1], x[2])]
<1>1. TaskList(sp, k) = {TaskOf(x) : x \in Todo}
  BY DEF TaskList
<1>2. \A x \in Todo : /\ TaskOf(x).file = x[1] /\ TaskOf(x).method = x[2]
                      /\ x = <<x[1], x[2]>>
                      /\ Status(sp, k, x[1], x[2]) # "done"
  OBVIOUS
<1>3. <<f, m>> \in Todo <=> Status(sp, k, f, m) # "done"
  BY DEF WantedIn
<1> HIDE DEF Todo, TaskOf
<1>4. ASSUME NEW x \in TaskList(sp, k), x.file = f, x.method = m PROVE <<f, m>> \in Todo
  <2>1. PICK y \in Todo : x = TaskOf(y)
    BY <1>1, <1>4
  <2>2. y = <<f, m>>
    BY <1>2, <1>4, <2>1
  <2> QED BY <2>1, <2>2
<1>5. ASSUME <<f, m>> \in Todo
      PROVE  \E x \in TaskList(sp, k) : x.file = f /\ x.method = m
  <2>1. TaskOf(<<f, m>>) \in TaskList(sp, k)
    BY <1>1, <1>5
  <2>2. TaskOf(<<f, m>>).file = f /\ TaskOf(<<f, m>>).method = m
    BY DEF TaskOf
  <2> QED BY <2>1, <2>2
<1> QED BY <1>3, <1>4, <1>5

\* A wanted method without a task is written, with the spec's signature
\* (findHolesSrc, checkResult).
LEMMA NoTaskIsWritten ==
    ASSUME NEW sp \in Specs, NEW f \in Produced(sp), NEW c \in KeepFile, Parses(c),
           NEW k, k[f] = PlannedKeep(sp, f, c),
           NEW m \in WantedIn(sp, f), Status(sp, k, f, m) = "done"
    PROVE  c.methods[m] = [body |-> "written", sig |-> sp[f][m]]
<1> DEFINE d == c.methods[m]
           r == k[f].methods[m]
<1>1. /\ c \in KeepContent /\ sp[f] \in Wants /\ m \in Methods
      /\ sp[f][m] \in Sigs /\ sp[f][m] # NoSig
  BY DEF Parses, KeepFile, Specs, Produced, WantedIn, Wants
<1>2. Parses(k[f]) /\ r = ReconciledMethod(d, sp[f][m], Managed(sp[f]))
  BY <1>1, PlannedMethod
<1>3. ~Drifted(sp, k, f, m) /\ ~HasHole(r)
  BY DEF Status
<1>4. d \in MethodDecl \cup {NoMethod}
  BY <1>1 DEF KeepContent
<1> HIDE DEF d, r
<1>5. StubOf(sp[f][m]) \in MethodDecl /\ StubOf(sp[f][m]).body = "stub"
  BY <1>1 DEF StubOf, MethodDecl
<1>6. ~(d = NoMethod \/ UntouchedStub(d))
  BY <1>1, <1>2, <1>3, <1>5, AbsenceAssumption DEF ReconciledMethod, HasHole
<1>7. r = d /\ d \in MethodDecl /\ d.body # "stub" /\ d # NoMethod
  BY <1>1, <1>2, <1>4, <1>6 DEF ReconciledMethod, UntouchedStub
<1>8. d.sig = sp[f][m] /\ d.body = "written"
  BY <1>2, <1>3, <1>7 DEF Drifted, HasHole, MethodDecl, r
<1> QED BY <1>7, <1>8 DEF MethodDecl, d

LEMMA CheckedIsDone ==
    ASSUME TypeOK, ~PlanFails(spec, keep),
           CheckPasses(PlanOf(spec, keep, gen, tasks), FALSE)
    PROVE  /\ \A f \in Produced(spec) :
                 /\ gen[f] = spec[f]
                 /\ \A m \in WantedIn(spec, f) :
                       keep[f].methods[m] = [body |-> "written", sig |-> spec[f][m]]
           /\ \A f \in Files \ Produced(spec) : gen[f] \in {Gone, Torn}
<1> DEFINE pk == PlannedKeeps(spec, keep)
           pg == PlannedGens(spec, gen)
           pt == PlannedTasks(spec, pk, keep)
           changed == ChangedPaths(spec, keep, gen, tasks, pk, pg, pt)
<1>1. /\ NewPaths(spec, keep, gen, tasks) = {}
      /\ \A x \in changed : x[1] = "keep"
      /\ GonePaths(spec, keep, gen, pk, pg) = {}
      /\ TaskList(spec, pk) = {}
  BY DEF CheckPasses, PlanOf, PlanFor, Stale, Updated, PlannedTasks
<1>2. /\ \A f \in Files : pk[f] = PlannedKeep(spec, f, keep[f])
      /\ \A f \in Files : pg[f] = PlannedGen(spec, f, gen[f])
  BY DEF PlannedKeeps, PlannedGens
<1>3. spec \in Specs /\ keep \in [Files -> KeepFile]
  BY DEF TypeOK
<1> HIDE DEF pk, pg, pt, changed
<1>4. ASSUME NEW f \in Produced(spec) PROVE gen[f] = spec[f]
  <2>1. f \in Files /\ spec[f] # NoFile /\ Gen(f) \in Paths /\ Gen(f)[1] # "keep"
    BY DEF Produced, Gen, Paths
  <2>2. gen[f] # Gone
    BY <1>1, <1>4, <2>1 DEF NewPaths
  <2>3. pg[f] = gen[f]
    BY <1>1, <1>4, <2>1, <2>2 DEF ChangedPaths, changed
  <2> QED BY <1>2, <2>1, <2>3 DEF PlannedGen
<1>5. ASSUME NEW f \in Produced(spec), NEW m \in WantedIn(spec, f)
      PROVE  keep[f].methods[m] = [body |-> "written", sig |-> spec[f][m]]
  <2>1. f \in Files /\ spec[f] # NoFile /\ Keep(f) \in Paths /\ m \in Methods /\ spec[f][m] # NoSig
    BY DEF Produced, Keep, Paths, WantedIn
  <2>2. keep[f] # Gone
    BY <1>1, <1>5, <2>1 DEF NewPaths
  <2>3. Parses(keep[f])
    BY <2>1, <2>2 DEF PlanFails, Managed
  <2>4. Status(spec, pk, f, m) = "done"
    BY <1>1, <1>5, TaskListIs
  <2> QED BY <1>2, <1>3, <1>5, <2>1, <2>3, <2>4, NoTaskIsWritten
<1>6. ASSUME NEW f \in Files \ Produced(spec) PROVE gen[f] \in {Gone, Torn}
  <2>1. spec[f] = NoFile /\ Gen(f) \in Paths
    BY DEF Produced, Gen, Paths
  <2>2. pg[f] = gen[f]
    BY <1>1, <1>6, <2>1 DEF GonePaths
  <2> QED BY <1>2, <2>1, <2>2 DEF PlannedGen, Marked
<1> QED BY <1>4, <1>5, <1>6

\* `tilegen check` without -allow-holes passes only on a project where every
\* wanted method is written with the wanted signature, and every generated file
\* is the spec's (checkResult, main.go).
THEOREM CheckCorrect == Spec => []CheckMeansDone
<1>1. TypeOK => CheckMeansDone
  BY CheckedIsDone DEF CheckMeansDone
<1> QED BY <1>1, TypeCorrect, PTL

(***************************************************************************)
(* A plan is a project that agrees with the spec it was made for and that  *)
(* another plan would leave alone: a run can only settle what it plans.    *)
(***************************************************************************)
Settled(sp, k, g, t) ==
    /\ Conforms(sp, k, g, t)
    /\ ~PlanFails(sp, k)
    /\ NothingToDo(PlanOf(sp, k, g, t))

\* A wanted file that was not there is scaffolded as reconciling would leave it.
LEMMA FreshIs ==
    ASSUME NEW sp \in Specs, NEW f \in Produced(sp)
    PROVE  /\ PlannedKeep(sp, f, Gone) \in KeepContent /\ Parses(PlannedKeep(sp, f, Gone))
           /\ \A m \in Methods :
                 PlannedKeep(sp, f, Gone).methods[m]
                    = ReconciledMethod(NoMethod, sp[f][m], Managed(sp[f]))
<1>1. sp[f] \in Wants /\ sp[f] # NoFile
  BY DEF Specs, Produced
<1>2. PlannedKeep(sp, f, Gone) = Fresh(sp[f]) /\ Fresh(sp[f]) \in KeepContent
  BY <1>1, FreshType DEF PlannedKeep
<1>3. Parses(Fresh(sp[f]))
  BY <1>2, ContentAssumption DEF Parses, Fresh
<1>4. \A m \in Methods :
          Fresh(sp[f]).methods[m] = ReconciledMethod(NoMethod, sp[f][m], Managed(sp[f]))
  BY DEF Fresh, ReconciledMethod, UntouchedStub
<1> QED BY <1>2, <1>3, <1>4

\* Reconciling a method twice is reconciling it once; what it leaves is there
\* and follows the spec, or is not an untouched stub.
LEMMA ReconciledOnce ==
    ASSUME NEW d, NEW want \in Sigs \cup {NoSig}, NEW managed \in BOOLEAN
    PROVE  LET r == ReconciledMethod(d, want, managed)
           IN  /\ ReconciledMethod(r, want, managed) = r
               /\ want # NoSig => r # NoMethod /\ (UntouchedStub(r) => r.sig = want)
               /\ want = NoSig /\ managed => ~UntouchedStub(r)
               /\ want = NoSig /\ managed =>
                     (r # NoMethod /\ ~UntouchedStub(r) <=> d # NoMethod /\ ~UntouchedStub(d))
<1>1. want # NoSig => /\ StubOf(want) # NoMethod /\ UntouchedStub(StubOf(want))
                      /\ StubOf(want).sig = want
  BY AbsenceAssumption DEF StubOf, MethodDecl, UntouchedStub
<1>2. ~UntouchedStub(NoMethod)
  BY DEF UntouchedStub
<1>3. CASE want # NoSig
  BY <1>1, <1>3 DEF ReconciledMethod
<1>4. CASE want = NoSig
  BY <1>2, <1>4 DEF ReconciledMethod
<1> QED BY <1>3, <1>4

\* The plan's version of a wanted file: what an unparsable one stays, or
\* methods that are there, follow the spec and would not be reconciled again.
LEMMA PlannedIs ==
    ASSUME NEW sp \in Specs, NEW f \in Produced(sp), NEW c \in KeepFile
    PROVE  LET r == PlannedKeep(sp, f, c)
           IN  /\ r # Gone
               /\ c # Gone /\ ~Parses(c) => r = c
               /\ c = Gone \/ Parses(c) =>
                     /\ Parses(r) /\ r \in KeepContent
                     /\ \A m \in Methods :
                           /\ ReconciledMethod(r.methods[m], sp[f][m], Managed(sp[f]))
                                 = r.methods[m]
                           /\ sp[f][m] # NoSig =>
                                 /\ r.methods[m] # NoMethod
                                 /\ UntouchedStub(r.methods[m]) => r.methods[m].sig = sp[f][m]
                           /\ sp[f][m] = NoSig /\ Managed(sp[f]) =>
                                 /\ ~UntouchedStub(r.methods[m])
                                 /\ r.methods[m] # NoMethod <=>
                                       /\ Parses(c)
                                       /\ c.methods[m] # NoMethod
                                       /\ ~UntouchedStub(c.methods[m])
<1> DEFINE r == PlannedKeep(sp, f, c)
<1>1. sp[f] \in Wants /\ sp[f] # NoFile /\ Managed(sp[f]) \in BOOLEAN
  BY DEF Specs, Produced, Managed
<1>2. \A m \in Methods : sp[f][m] \in Sigs \cup {NoSig}
  BY <1>1 DEF Wants
<1>3. CASE c # Gone /\ ~Parses(c)
  BY <1>1, <1>3 DEF PlannedKeep, ReconcileKeep
<1>4. ASSUME NEW d \in [Methods -> MethodDecl \cup {NoMethod}],
             \A m \in Methods : d[m] # NoMethod <=> Parses(c) /\ c.methods[m] # NoMethod,
             Parses(c) => d = c.methods,
             r \in KeepContent, Parses(r),
             \A m \in Methods :
                 r.methods[m] = ReconciledMethod(d[m], sp[f][m], Managed(sp[f]))
      PROVE  /\ r # Gone
             /\ \A m \in Methods :
                   /\ ReconciledMethod(r.methods[m], sp[f][m], Managed(sp[f])) = r.methods[m]
                   /\ sp[f][m] # NoSig =>
                         /\ r.methods[m] # NoMethod
                         /\ UntouchedStub(r.methods[m]) => r.methods[m].sig = sp[f][m]
                   /\ sp[f][m] = NoSig /\ Managed(sp[f]) =>
                         /\ ~UntouchedStub(r.methods[m])
                         /\ r.methods[m] # NoMethod <=>
                               /\ Parses(c)
                               /\ c.methods[m] # NoMethod
                               /\ ~UntouchedStub(c.methods[m])
  <2>1. r # Gone
    BY <1>4 DEF Parses
  <2>2. SUFFICES
          ASSUME NEW m \in Methods
          PROVE  LET x == r.methods[m]
                 IN  /\ ReconciledMethod(x, sp[f][m], Managed(sp[f])) = x
                     /\ sp[f][m] # NoSig =>
                           x # NoMethod /\ (UntouchedStub(x) => x.sig = sp[f][m])
                     /\ sp[f][m] = NoSig /\ Managed(sp[f]) =>
                           /\ ~UntouchedStub(x)
                           /\ x # NoMethod <=>
                                 /\ Parses(c)
                                 /\ c.methods[m] # NoMethod
                                 /\ ~UntouchedStub(c.methods[m])
    BY <2>1
  <2> DEFINE x == r.methods[m]
  <2>3. x = ReconciledMethod(d[m], sp[f][m], Managed(sp[f]))
    BY <1>4
  <2>4. sp[f][m] \in Sigs \cup {NoSig} /\ Managed(sp[f]) \in BOOLEAN
    BY <1>1, <1>2
  <2>5. d[m] # NoMethod /\ ~UntouchedStub(d[m]) <=>
           Parses(c) /\ c.methods[m] # NoMethod /\ ~UntouchedStub(c.methods[m])
    BY <1>4
  <2> DEFINE y == d[m]
             want == sp[f][m]
             managed == Managed(sp[f])
  <2> HIDE DEF x, y, want, managed
  <2>6. /\ ReconciledMethod(x, sp[f][m], Managed(sp[f])) = x
        /\ sp[f][m] # NoSig => x # NoMethod /\ (UntouchedStub(x) => x.sig = sp[f][m])
        /\ sp[f][m] = NoSig /\ Managed(sp[f]) => ~UntouchedStub(x)
        /\ sp[f][m] = NoSig /\ Managed(sp[f]) =>
              (x # NoMethod /\ ~UntouchedStub(x) <=> d[m] # NoMethod /\ ~UntouchedStub(d[m]))
    <3>1. x = ReconciledMethod(y, want, managed)
      BY <2>3 DEF y, want, managed
    <3>2. want \in Sigs \cup {NoSig} /\ managed \in BOOLEAN
      BY <2>4 DEF want, managed
    <3>3. /\ ReconciledMethod(x, want, managed) = x
          /\ want # NoSig => x # NoMethod /\ (UntouchedStub(x) => x.sig = want)
          /\ want = NoSig /\ managed => ~UntouchedStub(x)
          /\ want = NoSig /\ managed =>
                (x # NoMethod /\ ~UntouchedStub(x) <=> y # NoMethod /\ ~UntouchedStub(y))
      BY <3>1, <3>2, ReconciledOnce
    <3> QED BY <3>3 DEF y, want, managed
  <2>7. sp[f][m] = NoSig /\ Managed(sp[f]) =>
           /\ ~UntouchedStub(x)
           /\ x # NoMethod <=>
                 /\ Parses(c)
                 /\ c.methods[m] # NoMethod
                 /\ ~UntouchedStub(c.methods[m])
    BY <2>5, <2>6
  <2> QED BY <2>6, <2>7 DEF x
<1> DEFINE none == [m \in Methods |-> NoMethod]
<1>5. CASE Parses(c)
  <2>1. c \in KeepContent /\ c # Gone
    BY <1>5 DEF Parses, KeepFile
  <2>2. c.methods \in [Methods -> MethodDecl \cup {NoMethod}]
    BY <2>1 DEF KeepContent
  <2>3. /\ r \in KeepContent /\ Parses(r)
        /\ \A m \in Methods :
              r.methods[m] = ReconciledMethod(c.methods[m], sp[f][m], Managed(sp[f]))
    BY <1>5, PlannedMethod
  <2> HIDE DEF r
  <2> QED BY <1>4, <1>5, <2>1, <2>2, <2>3 DEF r
<1>6. CASE c = Gone
  <2>1. ~Parses(c)
    BY <1>6 DEF Parses
  <2>2. /\ none \in [Methods -> MethodDecl \cup {NoMethod}]
        /\ \A m \in Methods : none[m] = NoMethod
    OBVIOUS
  <2>3. /\ r \in KeepContent /\ Parses(r)
        /\ \A m \in Methods :
              r.methods[m] = ReconciledMethod(none[m], sp[f][m], Managed(sp[f]))
    BY <1>6, FreshIs
  <2> HIDE DEF r, none
  <2> QED BY <1>4, <1>6, <2>1, <2>2, <2>3 DEF r
<1> QED BY <1>3, <1>5, <1>6

\* Planning again for a file as planned changes nothing (reconcileKeep, sweep).
LEMMA PlannedAgain ==
    ASSUME NEW sp \in Specs, NEW f \in Files, NEW c \in KeepFile
    PROVE  PlannedKeep(sp, f, PlannedKeep(sp, f, c)) = PlannedKeep(sp, f, c)
<1> DEFINE r == PlannedKeep(sp, f, c)
<1>1. CASE sp[f] = NoFile
  BY <1>1 DEF PlannedKeep, Marked
<1>2. CASE sp[f] # NoFile
  <2>1. f \in Produced(sp)
    BY <1>2 DEF Produced
  <2>2. r # Gone
    BY <2>1, PlannedIs
  <2>3. c # Gone /\ ~Parses(c) => r = c
    BY <2>1, PlannedIs
  <2>4. c = Gone \/ Parses(c) =>
           /\ Parses(r) /\ r \in KeepContent
           /\ \A m \in Methods :
                 ReconciledMethod(r.methods[m], sp[f][m], Managed(sp[f])) = r.methods[m]
    BY <2>1, PlannedIs
  <2> HIDE DEF r
  <2>5. PlannedKeep(sp, f, r) = ReconcileKeep(r, sp[f])
    BY <1>2, <2>2 DEF PlannedKeep
  <2>6. CASE c # Gone /\ ~Parses(c)
    BY <2>3, <2>5, <2>6 DEF ReconcileKeep, r
  <2>7. CASE c = Gone \/ Parses(c)
    <3>1. r.methods \in [Methods -> MethodDecl \cup {NoMethod}]
      BY <2>4, <2>7 DEF KeepContent
    <3>2. [m \in Methods |-> ReconciledMethod(r.methods[m], sp[f][m], Managed(sp[f]))]
             = r.methods
      BY <2>4, <2>7, <3>1
    <3>3. ReconcileKeep(r, sp[f]) = [r EXCEPT !.methods = r.methods]
      BY <2>4, <2>7, <3>2 DEF ReconcileKeep
    <3>4. [r EXCEPT !.methods = r.methods] = r
      BY <2>4, <2>7 DEF KeepContent
    <3> QED BY <2>5, <3>3, <3>4 DEF r
  <2> QED BY <2>6, <2>7
<1> QED BY <1>1, <1>2

\* What the plan leaves of a file the spec does not want.
LEMMA LeftoverIs ==
    ASSUME NEW sp \in Specs, NEW f \in Files \ Produced(sp), NEW c \in KeepFile
    PROVE  LET r == PlannedKeep(sp, f, c)
           IN  /\ ~PureScaffolding(f, r)
               /\ Marked(r) <=> Marked(c) /\ ~PureScaffolding(f, c)
<1>1. sp[f] = NoFile
  BY DEF Produced
<1> QED BY <1>1 DEF PlannedKeep, PureScaffolding, Parses, Marked

\* The plan's own orphans are those of the disk it was made for, so a second
\* run writes the same task list (emitTasks).
LEMMA TasksAgain ==
    ASSUME NEW sp \in Specs, NEW k \in [Files -> KeepFile]
    PROVE  LET pk == PlannedKeeps(sp, k)
           IN  PlannedTasks(sp, PlannedKeeps(sp, pk), pk) = PlannedTasks(sp, pk, k)
<1> DEFINE pk == PlannedKeeps(sp, k)
<1>1. \A f \in Files : k[f] \in KeepFile /\ pk[f] = PlannedKeep(sp, f, k[f])
  BY DEF PlannedKeeps
<1>2. \A f \in Files : pk[f] \in KeepFile
  BY <1>1, PlannedKeepType
<1> HIDE DEF pk
<1>3. \A f \in Files : PlannedKeep(sp, f, pk[f]) = pk[f]
  BY <1>1, PlannedAgain
<1>4. PlannedKeeps(sp, pk) = pk
  <2>1. pk = [f \in Files |-> PlannedKeep(sp, f, k[f])]
    BY DEF pk, PlannedKeeps
  <2> QED BY <1>3, <2>1 DEF PlannedKeeps
<1>5. ASSUME NEW f \in Produced(sp), NEW m \in Methods, Managed(sp[f]), sp[f][m] = NoSig
      PROVE  /\ Parses(pk[f]) /\ pk[f].methods[m] # NoMethod
                   /\ ~UntouchedStub(pk[f].methods[m])
             <=> /\ Parses(k[f]) /\ k[f].methods[m] # NoMethod
                 /\ ~UntouchedStub(k[f].methods[m])
  <2>1. f \in Files
    BY DEF Produced
  <2>2. CASE k[f] # Gone /\ ~Parses(k[f])
    <3>1. pk[f] = k[f]
      BY <1>1, <2>1, <2>2, PlannedIs
    <3> QED BY <3>1
  <2>3. CASE k[f] = Gone \/ Parses(k[f])
    <3>1. /\ Parses(pk[f])
          /\ ~UntouchedStub(pk[f].methods[m])
          /\ pk[f].methods[m] # NoMethod <=>
                /\ Parses(k[f]) /\ k[f].methods[m] # NoMethod
                /\ ~UntouchedStub(k[f].methods[m])
      BY <1>1, <1>5, <2>1, <2>3, PlannedIs
    <3> QED BY <3>1
  <2> QED BY <2>2, <2>3
<1>6. OrphanMethods(sp, pk) = OrphanMethods(sp, k)
  <2>1. \A x \in Produced(sp) \X Methods :
           /\ x[1] \in Produced(sp) /\ x[2] \in Methods
    OBVIOUS
  <2> QED BY <1>5, <2>1 DEF OrphanMethods
<1>7. ASSUME NEW f \in Files, sp[f] = NoFile
      PROVE  Marked(pk[f]) /\ ~PureScaffolding(f, pk[f])
                <=> Marked(k[f]) /\ ~PureScaffolding(f, k[f])
  <2>1. f \in Files \ Produced(sp)
    BY <1>7 DEF Produced
  <2> QED BY <1>1, <2>1, LeftoverIs
<1>8. ASSUME NEW f \in Files, sp[f] # NoFile
      PROVE  pk[f] # Gone /\ ~Parses(pk[f]) <=> k[f] # Gone /\ ~Parses(k[f])
  <2>1. f \in Produced(sp)
    BY <1>8 DEF Produced
  <2>2. /\ pk[f] # Gone
        /\ k[f] # Gone /\ ~Parses(k[f]) => pk[f] = k[f]
        /\ k[f] = Gone \/ Parses(k[f]) => Parses(pk[f])
    BY <1>1, <2>1, PlannedIs
  <2> QED BY <2>2
<1>9. OrphanFiles(sp, pk) = OrphanFiles(sp, k)
  BY <1>7, <1>8 DEF OrphanFiles
<1> QED BY <1>4, <1>6, <1>9 DEF PlannedTasks, pk

\* Every plan Emit makes is settled.
LEMMA PlanIsSettled ==
    ASSUME NEW sp \in Specs, NEW k \in [Files -> KeepFile], NEW g \in [Files -> GenFile],
           ~PlanFails(sp, k)
    PROVE  LET pk == PlannedKeeps(sp, k)
           IN  Settled(sp, pk, PlannedGens(sp, g), PlannedTasks(sp, pk, k))
<1> DEFINE pk == PlannedKeeps(sp, k)
           pg == PlannedGens(sp, g)
           pt == PlannedTasks(sp, pk, k)
<1>1. \A f \in Files : k[f] \in KeepFile /\ pk[f] = PlannedKeep(sp, f, k[f])
  BY DEF PlannedKeeps
<1>2. \A f \in Files : pg[f] = PlannedGen(sp, f, g[f])
  BY DEF PlannedGens
<1>3. pt.tasks = TaskList(sp, pk) /\ pt \notin {Gone, Torn}
  <2>1. pt \in TasksContent
    BY PlannedTasksType
  <2>2. pt.tasks = TaskList(sp, pk)
    BY DEF PlannedTasks
  <2> QED BY <2>1, <2>2, AbsenceAssumption
<1>4. PlannedTasks(sp, PlannedKeeps(sp, pk), pk) = pt
  BY TasksAgain
<1>5. \A f \in Files : PlannedKeeps(sp, pk)[f] = pk[f]
  BY <1>1, PlannedAgain DEF PlannedKeeps
<1>6. \A f \in Files : PlannedGens(sp, pg)[f] = pg[f]
  BY <1>2 DEF PlannedGens, PlannedGen, Marked
<1> HIDE DEF pk, pg, pt
<1>7. \A f \in Produced(sp) :
         /\ f \in Files /\ sp[f] # NoFile /\ sp[f] \in Wants
         /\ pk[f] # Gone
         /\ k[f] # Gone /\ ~Parses(k[f]) => pk[f] = k[f]
         /\ k[f] = Gone \/ Parses(k[f]) => Parses(pk[f])
  BY <1>1, PlannedIs DEF Produced, Specs
<1>8. ~PlanFails(sp, pk)
  BY <1>7 DEF PlanFails
<1>9. ASSUME NEW f \in Produced(sp)
      PROVE  pg[f] = sp[f] /\ pg[f] # Gone
  BY <1>2, <1>7, AbsenceAssumption DEF PlannedGen
<1>10. ASSUME NEW f \in Produced(sp), Parses(pk[f]), NEW m \in Methods
       PROVE  /\ sp[f][m] # NoSig =>
                    /\ pk[f].methods[m] # NoMethod
                    /\ UntouchedStub(pk[f].methods[m]) => pk[f].methods[m].sig = sp[f][m]
              /\ sp[f][m] = NoSig /\ Managed(sp[f]) => ~UntouchedStub(pk[f].methods[m])
  <2>1. k[f] = Gone \/ Parses(k[f])
    BY <1>7, <1>10
  <2> QED BY <1>1, <1>7, <2>1, PlannedIs
<1>11. ASSUME NEW f \in Files \ Produced(sp)
       PROVE  pg[f] \in {Gone, Torn} /\ ~PureScaffolding(f, pk[f])
  <2>1. sp[f] = NoFile
    BY DEF Produced
  <2>2. pg[f] \in {Gone, Torn}
    BY <1>2, <2>1 DEF PlannedGen, Marked
  <2> QED BY <1>1, <2>2, LeftoverIs
<1>12. ASSUME NEW f \in Produced(sp), NEW m \in Methods, sp[f][m] # NoSig
       PROVE  (\E x \in pt.tasks : x.file = f /\ x.method = m)
                 <=> (pk[f].methods[m].sig # sp[f][m] \/ HasHole(pk[f].methods[m]))
  <2>1. Managed(sp[f])
    BY <1>12 DEF Managed
  <2>2. Parses(pk[f])
    BY <1>7, <1>8, <1>12, <2>1 DEF PlanFails
  <2>3. pk[f].methods[m] # NoMethod
    BY <1>10, <1>12, <2>2
  <2>4. (\E x \in pt.tasks : x.file = f /\ x.method = m) <=> Status(sp, pk, f, m) # "done"
    BY <1>3, <1>12, TaskListIs DEF WantedIn
  <2>5. Status(sp, pk, f, m) # "done"
           <=> pk[f].methods[m].sig # sp[f][m] \/ HasHole(pk[f].methods[m])
    BY <2>2, <2>3 DEF Status, Drifted
  <2> QED BY <2>4, <2>5
<1>13. Conforms(sp, pk, pg, pt)
  BY <1>3, <1>7, <1>9, <1>10, <1>11, <1>12 DEF Conforms
<1>14. NothingToDo(PlanOf(sp, pk, pg, pt))
  <2>1. NewPaths(sp, pk, pg, pt) = {}
    BY <1>3, <1>7, <1>9 DEF NewPaths
  <2>2. ChangedPaths(sp, pk, pg, pt, PlannedKeeps(sp, pk), PlannedGens(sp, pg), pt) = {}
    BY <1>5, <1>6, <1>7 DEF ChangedPaths
  <2>3. GonePaths(sp, pk, pg, PlannedKeeps(sp, pk), PlannedGens(sp, pg)) = {}
    BY <1>5, <1>6 DEF GonePaths
  <2> QED BY <1>4, <2>1, <2>2, <2>3 DEF NothingToDo, PlanOf, PlanFor
<1> QED BY <1>8, <1>13, <1>14 DEF Settled, pk, pg, pt

(***************************************************************************)
(* A run that nobody disturbs brings the disk to its plan: whatever path   *)
(* is not pending is as planned.                                           *)
(***************************************************************************)
Pending == plan.new \cup plan.changed \cup plan.gone

PlanSettles == pc = "apply" => Settled(plan.spec, plan.keep, plan.gen, plan.tasks)

GoneFromPlan == \A f \in Files : /\ Keep(f) \in plan.gone => plan.keep[f] = Gone
                                 /\ Gen(f) \in plan.gone => plan.gen[f] = Gone

DiskAsPlanned ==
    pc = "apply" /\ raced = {} =>
        /\ \A f \in Files : /\ Keep(f) \in Pending \/ keep[f] = plan.keep[f]
                            /\ Gen(f) \in Pending \/ gen[f] = plan.gen[f]
        /\ Tasks \in Pending \/ tasks = plan.tasks

SettleInv == PlanSettles /\ GoneFromPlan /\ DiskAsPlanned

\* A plan's deletions are of files it holds as gone, and a path it does not
\* touch is on disk as planned (sweep, finalize).
LEMMA PlanDiffers ==
    ASSUME NEW sp \in Specs, NEW k, NEW g, NEW t, NEW f \in Files
    PROVE  LET p == PlanOf(sp, k, g, t)
               pending == p.new \cup p.changed \cup p.gone
           IN  /\ Keep(f) \in p.gone => p.keep[f] = Gone
               /\ Gen(f) \in p.gone => p.gen[f] = Gone
               /\ Keep(f) \in pending \/ k[f] = p.keep[f]
               /\ Gen(f) \in pending \/ g[f] = p.gen[f]
<1> DEFINE pk == PlannedKeeps(sp, k)
           pg == PlannedGens(sp, g)
           pt == PlannedTasks(sp, pk, k)
           p == PlanOf(sp, k, g, t)
<1>1. /\ p.keep = pk /\ p.gen = pg /\ p.tasks = pt
      /\ p.new = NewPaths(sp, k, g, t)
      /\ p.changed = ChangedPaths(sp, k, g, t, pk, pg, pt)
      /\ p.gone = GonePaths(sp, k, g, pk, pg)
  BY DEF PlanOf, PlanFor
<1>2. pk[f] = PlannedKeep(sp, f, k[f]) /\ pg[f] = PlannedGen(sp, f, g[f])
  BY DEF PlannedKeeps, PlannedGens
<1>3. Keep(f) \in Paths /\ Gen(f) \in Paths
  BY DEF Paths, Keep, Gen
<1> HIDE DEF pk, pg, pt, p
<1>4. Keep(f) \in p.gone => sp[f] = NoFile /\ pk[f] # k[f]
  <2>1. SUFFICES ASSUME Keep(f) \in p.gone PROVE sp[f] = NoFile /\ pk[f] # k[f]
    OBVIOUS
  <2>2. PICK h \in Files \ Produced(sp) :
           (Keep(f) = Keep(h) /\ pk[h] # k[h]) \/ Keep(f) = Gen(h)
    BY <1>1, <2>1 DEF GonePaths
  <2>3. h = f /\ pk[h] # k[h]
    BY <2>2, PathsDiffer
  <2> QED BY <2>3 DEF Produced
<1>5. Gen(f) \in p.gone => sp[f] = NoFile /\ pg[f] # g[f]
  <2>1. SUFFICES ASSUME Gen(f) \in p.gone PROVE sp[f] = NoFile /\ pg[f] # g[f]
    OBVIOUS
  <2>2. PICK h \in Files \ Produced(sp) :
           Gen(f) = Keep(h) \/ (Gen(f) = Gen(h) /\ pg[h] # g[h])
    BY <1>1, <2>1 DEF GonePaths
  <2>3. h = f /\ pg[h] # g[h]
    BY <2>2, PathsDiffer
  <2> QED BY <2>3 DEF Produced
<1>6. /\ Keep(f) \in p.gone => p.keep[f] = Gone
      /\ Gen(f) \in p.gone => p.gen[f] = Gone
  BY <1>1, <1>2, <1>4, <1>5 DEF PlannedKeep, PlannedGen
<1>7. CASE f \in Produced(sp)
  <2>1. /\ k[f] = Gone => Keep(f) \in p.new
        /\ k[f] # Gone /\ pk[f] # k[f] => Keep(f) \in p.changed
    BY <1>1, <1>3, <1>7 DEF NewPaths, ChangedPaths
  <2>2. /\ g[f] = Gone => Gen(f) \in p.new
        /\ g[f] # Gone /\ pg[f] # g[f] => Gen(f) \in p.changed
    BY <1>1, <1>3, <1>7 DEF NewPaths, ChangedPaths
  <2> QED BY <1>1, <1>6, <2>1, <2>2 DEF p
<1>8. CASE f \notin Produced(sp)
  <2>1. /\ pk[f] # k[f] => Keep(f) \in p.gone
        /\ pg[f] # g[f] => Gen(f) \in p.gone
    BY <1>1, <1>3, <1>8 DEF GonePaths
  <2> QED BY <1>1, <1>6, <2>1 DEF p
<1> QED BY <1>7, <1>8

\* A step that writes or removes one path x, leaving it as planned, keeps the
\* invariant.
LEMMA OnePathDone ==
    ASSUME SettleInv, NEW x, UNCHANGED <<pc, raced>>,
           plan'.spec = plan.spec, plan'.keep = plan.keep,
           plan'.gen = plan.gen, plan'.tasks = plan.tasks,
           plan'.gone \subseteq plan.gone, Pending \ {x} \subseteq Pending',
           \A f \in Files : /\ keep'[f] = IF x = Keep(f) THEN plan.keep[f] ELSE keep[f]
                            /\ gen'[f] = IF x = Gen(f) THEN plan.gen[f] ELSE gen[f],
           tasks' = IF x = Tasks THEN plan.tasks ELSE tasks
    PROVE  SettleInv'
<1>1. PlanSettles' /\ GoneFromPlan'
  BY DEF SettleInv, PlanSettles, GoneFromPlan
<1>2. DiskAsPlanned'
  BY DEF SettleInv, DiskAsPlanned
<1> QED BY <1>1, <1>2 DEF SettleInv

\* What a write or a removal makes of the plan.
LEMMA ShorterIs ==
    ASSUME plan \in Plans, NEW x
    PROVE  /\ Written(x) => /\ plan'.spec = plan.spec /\ plan'.keep = plan.keep
                            /\ plan'.gen = plan.gen /\ plan'.tasks = plan.tasks
                            /\ plan'.gone = plan.gone
                            /\ plan'.new = plan.new \ {x}
                            /\ plan'.changed = plan.changed \ {x}
           /\ NextRemove(x) => /\ plan'.spec = plan.spec /\ plan'.keep = plan.keep
                               /\ plan'.gen = plan.gen /\ plan'.tasks = plan.tasks
                               /\ plan'.gone = plan.gone \ {x} /\ x \in plan.gone
                               /\ plan'.new = plan.new
                               /\ plan'.changed = plan.changed
<1>1. plan = [spec |-> plan.spec, keep |-> plan.keep, gen |-> plan.gen, tasks |-> plan.tasks,
              new |-> plan.new, changed |-> plan.changed, gone |-> plan.gone]
  BY DEF Plans
<1> QED BY <1>1 DEF Written, NextRemove

LEMMA EmitSettles == ASSUME TypeOK, Emit PROVE SettleInv'
<1>1. /\ pc' = "apply" /\ raced' = {} /\ UNCHANGED disk
      /\ plan' = PlanOf(spec, keep, gen, tasks) /\ ~PlanFails(spec, keep)
      /\ spec \in Specs /\ keep \in [Files -> KeepFile] /\ gen \in [Files -> GenFile]
  BY DEF Emit, TypeOK
<1> DEFINE pk == PlannedKeeps(spec, keep)
           pg == PlannedGens(spec, gen)
           pt == PlannedTasks(spec, pk, keep)
<1>2. /\ plan'.spec = spec /\ plan'.keep = pk /\ plan'.gen = pg /\ plan'.tasks = pt
      /\ plan'.new = NewPaths(spec, keep, gen, tasks)
      /\ plan'.changed = ChangedPaths(spec, keep, gen, tasks, pk, pg, pt)
  BY <1>1 DEF PlanOf, PlanFor
<1>3. PlanSettles'
  <2>1. Settled(spec, pk, pg, pt)
    BY <1>1, PlanIsSettled
  <2> HIDE DEF pk, pg, pt
  <2> QED BY <1>2, <2>1 DEF PlanSettles
<1>4. /\ GoneFromPlan'
      /\ \A f \in Files : /\ Keep(f) \in Pending' \/ keep[f] = plan'.keep[f]
                          /\ Gen(f) \in Pending' \/ gen[f] = plan'.gen[f]
  BY <1>1, PlanDiffers DEF GoneFromPlan, Pending
<1>5. Tasks \in Pending' \/ tasks = plan'.tasks
  <2>1. Tasks \in Paths
    BY DEF Tasks, Paths
  <2> HIDE DEF pk, pg, pt
  <2>2. /\ tasks = Gone => Tasks \in plan'.new
        /\ tasks # Gone /\ pt # tasks => Tasks \in plan'.changed
    BY <1>2, <2>1 DEF NewPaths, ChangedPaths
  <2> QED BY <1>2, <2>2 DEF Pending
<1> QED BY <1>1, <1>3, <1>4, <1>5 DEF SettleInv, DiskAsPlanned, disk

LEMMA SettleInvariant == Spec => []SettleInv
<1>1. Init => SettleInv
  BY DEF Init, SettleInv, PlanSettles, GoneFromPlan, DiskAsPlanned, NoPlan
<1>2. TypeOK /\ SettleInv /\ [Next]_vars => SettleInv'
  <2> SUFFICES ASSUME TypeOK, SettleInv, [Next]_vars
               PROVE  SettleInv'
    OBVIOUS
  <2>1. CASE UNCHANGED <<plan, pc>> /\ (raced' # {} \/ UNCHANGED <<disk, raced>>)
    BY <2>1 DEF SettleInv, PlanSettles, GoneFromPlan, DiskAsPlanned, Pending, disk
  <2>2. CASE pc' = "idle" /\ plan' \in {plan, NoPlan}
    BY <2>2 DEF SettleInv, PlanSettles, GoneFromPlan, DiskAsPlanned, NoPlan
  <2>3. ASSUME UserActs, NEW x, Touch(x) PROVE SettleInv'
    <3>1. CASE pc = "apply"
      BY <2>1, <2>3, <3>1 DEF UserActs, Touch
    <3>2. CASE pc # "apply"
      BY <2>2, <2>3, <3>2 DEF UserActs, TypeOK
    <3> QED BY <3>1, <3>2
  <2>4. CASE EditSpec \/ DeleteTasks \/ \E f \in Files : EditKeep(f) \/ EditGen(f)
    BY <2>1, <2>3, <2>4 DEF EditSpec, DeleteTasks, EditKeep, EditGen, UserActs, disk
  <2>5. CASE Emit
    BY <2>5, EmitSettles
  <2>6. CASE WriteTasks
    <3>1. /\ tasks' = plan.tasks /\ Written(Tasks) /\ UNCHANGED <<pc, raced, keep, gen>>
      BY <2>6 DEF WriteTasks, Running
    <3> QED BY <3>1, OnePathDone, ShorterIs, PathsDiffer DEF Pending, TypeOK
  <2>7. ASSUME NEW f \in Files, WriteKeep(f) PROVE SettleInv'
    <3>1. /\ keep' = [keep EXCEPT ![f] = plan.keep[f]] /\ Written(Keep(f))
          /\ UNCHANGED <<pc, raced, gen, tasks>>
      BY <2>7 DEF WriteKeep, Running
    <3>2. \A h \in Files : keep'[h] = IF Keep(f) = Keep(h) THEN plan.keep[h] ELSE keep[h]
      BY <3>1, PathsDiffer DEF TypeOK
    <3> QED BY <3>1, <3>2, OnePathDone, ShorterIs, PathsDiffer DEF Pending, TypeOK
  <2>8. ASSUME NEW f \in Files, WriteGen(f) PROVE SettleInv'
    <3>1. /\ gen' = [gen EXCEPT ![f] = plan.gen[f]] /\ Written(Gen(f))
          /\ UNCHANGED <<pc, raced, keep, tasks>>
      BY <2>8 DEF WriteGen, Running
    <3>2. \A h \in Files : gen'[h] = IF Gen(f) = Gen(h) THEN plan.gen[h] ELSE gen[h]
      BY <3>1, PathsDiffer DEF TypeOK
    <3> QED BY <3>1, <3>2, OnePathDone, ShorterIs, PathsDiffer DEF Pending, TypeOK
  <2>9. ASSUME NEW f \in Files, RemoveKeep(f) PROVE SettleInv'
    <3>1. /\ keep' = [keep EXCEPT ![f] = Gone] /\ NextRemove(Keep(f))
          /\ UNCHANGED <<pc, raced, gen, tasks>>
      BY <2>9 DEF RemoveKeep, Running
    <3>2. plan.keep[f] = Gone
      BY <3>1 DEF NextRemove, SettleInv, GoneFromPlan
    <3>3. \A h \in Files : keep'[h] = IF Keep(f) = Keep(h) THEN plan.keep[h] ELSE keep[h]
      BY <3>1, <3>2, PathsDiffer DEF TypeOK
    <3> QED BY <3>1, <3>3, OnePathDone, ShorterIs, PathsDiffer DEF Pending, TypeOK
  <2>10. ASSUME NEW f \in Files, RemoveGen(f) PROVE SettleInv'
    <3>1. /\ gen' = [gen EXCEPT ![f] = Gone] /\ NextRemove(Gen(f))
          /\ UNCHANGED <<pc, raced, keep, tasks>>
      BY <2>10 DEF RemoveGen, Running
    <3>2. plan.gen[f] = Gone
      BY <3>1 DEF NextRemove, SettleInv, GoneFromPlan
    <3>3. \A h \in Files : gen'[h] = IF Gen(f) = Gen(h) THEN plan.gen[h] ELSE gen[h]
      BY <3>1, <3>2, PathsDiffer DEF TypeOK
    <3> QED BY <3>1, <3>3, OnePathDone, ShorterIs, PathsDiffer DEF Pending, TypeOK
  <2>11. CASE EmitError \/ Finish \/ Crash
    BY <2>1, <2>2, <2>11 DEF EmitError, Finish, Crash, vars, disk
  <2>12. CASE UNCHANGED vars
    BY <2>1, <2>12 DEF vars, disk
  <2> QED BY <2>4, <2>5, <2>6, <2>7, <2>8, <2>9, <2>10, <2>11, <2>12 DEF Next, ApplyStep
<1> QED BY <1>1, <1>2, TypeCorrect, PTL DEF Spec

\* A run that finishes undisturbed leaves the project it planned: it agrees
\* with the spec, and a second run or check has nothing to do (Apply, plan.go:96).
THEOREM RunsSettle == Spec => RunSettles
<1>1. ASSUME TypeOK, SettleInv, Finish, raced = {}
      PROVE  Settled(plan.spec, keep, gen, tasks)
  <2>1. pc = "apply" /\ plan.new = {} /\ plan.changed = {} /\ plan.gone = {}
    BY <1>1 DEF Finish, Writable
  <2>2. Pending = {}
    BY <2>1 DEF Pending
  <2>3. /\ \A f \in Files : keep[f] = plan.keep[f] /\ gen[f] = plan.gen[f]
        /\ tasks = plan.tasks
    BY <1>1, <2>1, <2>2 DEF SettleInv, DiskAsPlanned
  <2>4. /\ keep \in [Files -> KeepFile] /\ plan.keep \in [Files -> KeepFile]
        /\ gen \in [Files -> GenFile] /\ plan.gen \in [Files -> GenFile]
    BY <1>1 DEF TypeOK, Plans
  <2>5. keep = plan.keep /\ gen = plan.gen
    BY <2>3, <2>4
  <2> QED BY <1>1, <2>1, <2>3, <2>5 DEF SettleInv, PlanSettles
<1>2. TypeOK /\ SettleInv /\ [Next]_vars
        => [(Finish /\ raced = {}) =>
              /\ Conforms(plan.spec, keep, gen, tasks)
              /\ ~PlanFails(plan.spec, keep)
              /\ NothingToDo(PlanOf(plan.spec, keep, gen, tasks))]_vars
  BY <1>1 DEF Settled
<1> QED BY <1>2, TypeCorrect, SettleInvariant, PTL DEF Spec, RunSettles
=============================================================================
