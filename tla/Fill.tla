-------------------------------- MODULE Fill --------------------------------
(***************************************************************************)
(* tilegen fill (fill.go): the holes are filled one at a time by an LLM    *)
(* command.  Each attempt reads the method's file, asks (for minutes),     *)
(* splices the reply into what it read, writes, builds, and puts the file  *)
(* back when the build fails.  The user can save files all the while, a    *)
(* write can fail, and the process can die.                                *)
(*                                                                         *)
(* The spec does not change during a run, so Emit's part in it is only the *)
(* list of tasks; a package's tasks are in one file.                       *)
(***************************************************************************)
EXTENDS Naturals, FiniteSets

CONSTANTS
    Tasks,      \* the methods the spec wants
    Place,      \* where in its list emitTasks puts each task
    Packages,
    PkgOf,      \* the package of each task
    DependsOn,  \* the packages each package imports, directly or not
    Keys,
    KeyOf,      \* driftKey: Type.Method, without the package
    Retries,
    MaxReports, \* the packages whose drift fits into the 40 lines kept of a build
    MaxRuns, MaxEdits, MaxFaults,  \* bounds on runs, user edits, failed writes and crashes
    NoTask

ASSUME TasksAssumption == NoTask \notin Tasks
ASSUME PlaceAssumption ==
    /\ Place \in [Tasks -> Nat]
    /\ \A t, u \in Tasks : Place[t] = Place[u] => t = u
ASSUME PackagesAssumption ==
    /\ IsFiniteSet(Packages)
    /\ PkgOf \in [Tasks -> Packages]
    /\ DependsOn \in [Packages -> SUBSET Packages]
    /\ \A p \in Packages : p \notin DependsOn[p]
    /\ \A p \in Packages : \A q \in DependsOn[p] : DependsOn[q] \subseteq DependsOn[p]
ASSUME KeysAssumption == KeyOf \in [Tasks -> Keys]
ASSUME BoundsAssumption ==
    /\ Retries \in Nat
    /\ MaxReports \in Nat
    /\ MaxRuns \in Nat /\ MaxEdits \in Nat /\ MaxFaults \in Nat

VARIABLES
    code,     \* the method of each task, on disk
    pc,       \* "idle", "check", "next", "ask" or "build"
    todo,     \* the tasks still to fill
    drift,    \* the tasks that had drifted when the run listed them
    pending,  \* the keys whose drift a build may report
    cur,      \* the task being filled
    attempt,
    orig,     \* the file of cur's package, as the attempt read it
    filled,   \* tasks reported filled
    failed,   \* tasks reported open, "hole restored"
    base,     \* what each method was when the run began, or the user last saved
    raced,    \* methods the user saved while fill held their file
    runs, edits, faults

run == <<pc, todo, drift, pending, cur, attempt, orig, filled, failed>>
user == <<base, raced>>
counters == <<runs, edits, faults>>
vars == <<code, run, user, counters>>

\* A stub; user code with an old signature; code that compiles; code that
\* does not; and a method whose file a write left truncated.
Method == {"hole", "drift", "good", "bad", "torn"}
Sources == Method \ {"torn"}

InPkg(p) == {t \in Tasks : PkgOf[t] = p}

TypeOK ==
    /\ code \in [Tasks -> Method]
    /\ pc \in {"idle", "check", "next", "ask", "build"}
    /\ todo \subseteq Tasks
    /\ drift \subseteq Tasks
    /\ pending \subseteq Keys
    /\ cur \in Tasks \cup {NoTask}
    /\ attempt \in 0 .. Retries + 1
    /\ orig \in [Tasks -> Method]
    /\ filled \subseteq Tasks
    /\ failed \subseteq Tasks
    /\ base \in [Tasks -> Method]
    /\ raced \subseteq Tasks
    /\ runs \in Nat /\ edits \in Nat /\ faults \in Nat

Init ==
    /\ code \in [Tasks -> Sources]
    /\ pc = "idle"
    /\ todo = {}
    /\ drift = {} /\ pending = {}
    /\ cur = NoTask /\ attempt = 0
    /\ orig = code
    /\ filled = {} /\ failed = {}
    /\ base = code /\ raced = {}
    /\ runs = 0 /\ edits = 0 /\ faults = 0
-----------------------------------------------------------------------------
(***************************************************************************)
(* go build ./...: a package is compiled only when all it imports compiled,*)
(* so an error hides those of the packages that import it.  A compile-time *)
(* interface check names one method with the wrong type.                   *)
(***************************************************************************)
Faulty(c) == {p \in Packages : \E t \in InPkg(p) : c[t] \notin {"hole", "good"}}
Compiled(c) == {p \in Packages : DependsOn[p] \cap Faulty(c) = {}}

Builds(c) == Faulty(c) = {}

OtherError(c) ==
    \E t \in Tasks : c[t] = "torn" \/ (c[t] = "bad" /\ PkgOf[t] \in Compiled(c))

DriftedIn(c, p) == {t \in InPkg(p) : c[t] = "drift"}
Reporting(c) == {p \in Compiled(c) : DriftedIn(c, p) # {}}
DriftReports(c) ==
    {{KeyOf[d[p]] : p \in Reporting(c)} :
        d \in {e \in [Reporting(c) -> Tasks] :
                  \A p \in Reporting(c) : e[p] \in DriftedIn(c, p)}}

\* runBuild keeps 40 lines; a package's drift is a header, the error, what it
\* has and what it wants.
Cut(c) == Cardinality(Reporting(c)) > MaxReports

\* onlyDrift, of a build that reported the methods in rep and perhaps
\* something else: the "..." of an output that was cut is taken for an error.
OnlyDrift(c, rep, pend) ==
    /\ pend # {}
    /\ ~OtherError(c)
    /\ ~Cut(c)
    /\ rep # {}
    /\ rep \subseteq pend

Accepts(c, rep, pend) == Builds(c) \/ OnlyDrift(c, rep, pend)
-----------------------------------------------------------------------------
(***************************************************************************)
(* fillCmd: list the tasks, build once, and go through them.               *)
(***************************************************************************)
Open(c) == {t \in Tasks : c[t] \in {"hole", "drift"}}

\* Emit fails on a torn file; a run with nothing to do ends at once.
Start ==
    /\ pc = "idle"
    /\ runs < MaxRuns
    /\ runs' = runs + 1
    /\ \A t \in Tasks : code[t] # "torn"
    /\ \E wanted \in SUBSET Open(code) :
          /\ wanted # {}
          /\ todo' = wanted
    /\ drift' = {t \in Tasks : code[t] = "drift"}
    /\ pending' = {KeyOf[t] : t \in drift'}
    /\ filled' = {} /\ failed' = {}
    /\ base' = code /\ raced' = {}
    /\ pc' = "check"
    /\ UNCHANGED <<code, cur, attempt, orig, edits, faults>>

\* The build before filling; other errors than drift end the run.
Check ==
    /\ pc = "check"
    /\ \E rep \in DriftReports(code) :
          IF Accepts(code, rep, pending)
          THEN pc' = "next" /\ UNCHANGED todo
          ELSE pc' = "idle" /\ todo' = {}
    /\ UNCHANGED <<code, drift, pending, cur, attempt, orig, filled, failed, user,
                   counters>>

\* The drifted tasks first, otherwise in the order of the list.
Sooner(t, u) ==
    IF t \in drift <=> u \in drift THEN Place[t] < Place[u] ELSE t \in drift

\* It is t's turn, and fillOne's first attempt reads its file.
Turn(t) ==
    /\ pc = "next"
    /\ \A u \in todo \ {t} : Sooner(t, u)
    /\ cur' = t
    /\ todo' = todo \ {t}
    /\ attempt' = 1
    /\ orig' = code
    /\ pc' = "ask"
    /\ UNCHANGED <<code, drift, filled, failed, user, counters>>

\* Mutant: the keys of all drifted methods are dropped, not this one's.
NextTaskForgets ==
    \E t \in todo : Turn(t) /\ pending' = {}

\* A task's own drift must be gone once it is filled.
NextTask ==
    \E t \in todo : Turn(t) /\ pending' = pending \ {KeyOf[t]}

WriteFile(file) ==
    code' = [t \in Tasks |-> IF PkgOf[t] = PkgOf[cur] THEN file[t] ELSE code[t]]

\* A write that fails, or that the process died in, leaves the file truncated.
TornFile == [t \in Tasks |-> "torn"]

Fault == faults < MaxFaults /\ faults' = faults + 1

\* Mutant: a drifted task that stays open is no longer tolerated.
EndTaskForgets(done) ==
    /\ pc' = "next"
    /\ cur' = NoTask
    /\ attempt' = 0
    /\ filled' = IF done THEN filled \cup {cur} ELSE filled
    /\ failed' = IF done THEN failed ELSE failed \cup {cur}
    /\ UNCHANGED <<todo, drift, pending, orig>>

\* fillOne returns: the task is reported, and a drifted one tolerated again
\* if it stays open.
EndTask(done) ==
    /\ pc' = "next"
    /\ cur' = NoTask
    /\ attempt' = 0
    /\ filled' = IF done THEN filled \cup {cur} ELSE filled
    /\ failed' = IF done THEN failed ELSE failed \cup {cur}
    /\ pending' = IF ~done /\ cur \in drift THEN pending \cup {KeyOf[cur]}
                  ELSE pending
    /\ UNCHANGED <<todo, drift, orig>>

\* Mutant: attempts are not counted.
RetryForever ==
    IF attempt <= Retries
    THEN /\ orig' = code'
         /\ pc' = "ask"
         /\ UNCHANGED <<todo, drift, pending, cur, filled, failed, attempt>>
    ELSE EndTask(FALSE)

\* The next attempt reads the file again, after a restore what that left.
Retry ==
    IF attempt <= Retries
    THEN /\ attempt' = attempt + 1
         /\ orig' = code'
         /\ pc' = "ask"
         /\ UNCHANGED <<todo, drift, pending, cur, filled, failed>>
    ELSE EndTask(FALSE)

\* The command fails or times out: no retry.
AskFails ==
    /\ pc = "ask"
    /\ EndTask(FALSE)
    /\ UNCHANGED <<code, user, counters>>

\* The reply is not the method, or the file has become unreadable to splice.
SpliceFails ==
    /\ pc = "ask"
    /\ UNCHANGED code
    /\ Retry
    /\ UNCHANGED <<user, counters>>

\* The reply has the right signature: it may compile, fail to, or be the
\* hole again.
Splice ==
    /\ pc = "ask"
    /\ orig[cur] # "torn"
    /\ \E reply \in {"good", "bad", "hole"} :
          WriteFile([orig EXCEPT ![cur] = reply])
    /\ pc' = "build"
    /\ UNCHANGED <<todo, drift, pending, cur, attempt, orig, filled, failed, user,
                   counters>>

WriteFails ==
    /\ pc = "ask"
    /\ orig[cur] # "torn"
    /\ Fault
    /\ WriteFile(TornFile)
    /\ EndTask(FALSE)
    /\ UNCHANGED <<user, runs, edits>>

\* Mutant: only an answer that will be retried is taken out of the file.
BuildLeavesLast ==
    /\ pc = "build"
    /\ \E rep \in DriftReports(code) :
          IF Accepts(code, rep, pending)
          THEN /\ EndTask(TRUE)
               /\ UNCHANGED <<code, counters>>
          ELSE /\ IF attempt <= Retries THEN WriteFile(orig) ELSE UNCHANGED code
               /\ UNCHANGED counters
               /\ Retry
    /\ UNCHANGED user

\* The build, and the file put back when it fails.  That write's error is
\* ignored.
Build ==
    /\ pc = "build"
    /\ \E rep \in DriftReports(code) :
          IF Accepts(code, rep, pending)
          THEN /\ EndTask(TRUE)
               /\ UNCHANGED <<code, counters>>
          ELSE /\ \/ WriteFile(orig) /\ UNCHANGED counters
                  \/ WriteFile(TornFile) /\ Fault /\ UNCHANGED <<runs, edits>>
               /\ Retry
    /\ UNCHANGED user

\* The last Emit lists what is left.
Finish ==
    /\ pc = "next" /\ todo = {}
    /\ pc' = "idle"
    /\ UNCHANGED <<code, todo, drift, pending, cur, attempt, orig, filled, failed,
                   user, counters>>
-----------------------------------------------------------------------------
Crash ==
    /\ pc # "idle"
    /\ Fault
    /\ \/ UNCHANGED code
       \/ pc = "ask" /\ WriteFile(TornFile)
    /\ pc' = "idle"
    /\ todo' = {}
    /\ cur' = NoTask
    /\ attempt' = 0
    /\ UNCHANGED <<drift, pending, orig, filled, failed, user, runs, edits>>

\* The user saves a method, or repairs a truncated file.
EditMethod(t) ==
    /\ edits < MaxEdits
    /\ edits' = edits + 1
    /\ \E v \in Sources \ {code[t]} :
          LET saved == IF code[t] = "torn" THEN InPkg(PkgOf[t]) ELSE {t}
          IN  /\ code' = [u \in Tasks |-> IF u \in saved THEN v ELSE code[u]]
              /\ base' = [u \in Tasks |-> IF u \in saved THEN v ELSE base[u]]
              /\ raced' = IF pc \in {"ask", "build"} /\ PkgOf[t] = PkgOf[cur]
                          THEN raced \cup saved ELSE raced
    /\ UNCHANGED <<run, runs, faults>>

FillStep ==
    \/ Check \/ NextTask \/ AskFails \/ SpliceFails \/ Splice \/ Build \/ Finish

Next ==
    \/ Start
    \/ FillStep
    \/ WriteFails
    \/ Crash
    \/ \E t \in Tasks : EditMethod(t)

Spec == Init /\ [][Next]_vars

\* The command is killed at its timeout; a build that hangs is not modelled.
FairSpec == Spec /\ WF_vars(FillStep)
-----------------------------------------------------------------------------
(***************************************************************************)
(* What fill promises.                                                     *)
(***************************************************************************)

\* A run changes the methods it reports filled and no others: what it could
\* not fill is back as it was ("hole restored"), and so is what the user saved
\* meanwhile, in any file but the one fill held at that moment.
OnlyFilledChange ==
    faults = 0 =>
        \A t \in Tasks \ (filled \cup raced) :
            code[t] = base[t] \/ (pc = "build" /\ t = cur)

\* From the build before filling on, whenever fill moves on to another task a
\* build of the project reports nothing but the drift of pending tasks.
CleanBetweenTasks ==
    (pc = "next" /\ edits = 0 /\ faults = 0) =>
        \A rep \in DriftReports(code) : Accepts(code, rep, pending)

\* "Drifted methods break the build by design, so their errors are expected
\* until they are filled" (fill.go:151): an answer that compiles is not turned
\* down for the drift of other tasks, if what the build says of that is not cut.
Sound(t) == code[t] \in {"hole", "good"} \/ (code[t] = "drift" /\ t \in drift)
GoodAnswerBuilt ==
    Build /\ code[cur] = "good" /\ edits = 0 /\ faults = 0 /\ \A t \in Tasks : Sound(t)
GoodAnswerAccepted ==
    [][GoodAnswerBuilt /\ ~Cut(code) => cur \in filled']_vars

\* A run ends, whatever the command answers.
RunEnds == pc # "idle" ~> pc = "idle"
-----------------------------------------------------------------------------
(***************************************************************************)
(* What a document says and the code does not do: each is violated.        *)
(***************************************************************************)

\* fill.go:35, "A hole it cannot fill stays a hole, so the project never ends
\* up broken": a run leaves no method that does not compile behind, unless it
\* was there before.
NeverEndsUpBroken ==
    [][(Finish /\ edits = 0 /\ faults = 0) =>
          \A t \in Tasks : code[t] = "bad" => base[t] = "bad"]_vars

\* fill.go:151 again, however much drift there is: filling a package uncovers
\* that of all the packages which import it.
EveryGoodAnswerAccepted == [][GoodAnswerBuilt => cur \in filled']_vars

\* README.md:413, "For each hole, fill sends the prompt": what fill replaces
\* is a hole or a drifted method, not what the user has written by now.
FillsOnlyHoles ==
    [][Splice => orig[cur] \in {"hole", "drift"}]_vars
=============================================================================
