----------------------------- MODULE Fill_proofs -----------------------------
(***************************************************************************)
(* A fill run changes only what it reports filled, for any project, any    *)
(* replies and any number of saves; and where no two methods share their   *)
(* Type.Method, it is never misled by the drift it tolerates.              *)
(***************************************************************************)
EXTENDS Fill, FiniteSetTheorems, WellFoundedInduction, TLAPS

\* What holds of a task under way: fill.go:204-262.
AtWork == pc \in {"ask", "build"}

TypeInv == TypeOK /\ (AtWork => cur \in Tasks)

\* What fillOne read of the methods it may not change is what they must be.
Held ==
    faults = 0 /\ AtWork =>
        \A t \in InPkg(PkgOf[cur]) \ (filled \cup raced) : orig[t] = base[t]

SafeInv == TypeInv /\ Held /\ OnlyFilledChange

LEMMA InitSafe == Init => SafeInv
<1> SUFFICES ASSUME Init PROVE SafeInv
  OBVIOUS
<1>1. code \in [Tasks -> Method]
  BY DEF Init, Sources
<1> QED BY <1>1, BoundsAssumption
        DEF Init, SafeInv, TypeInv, AtWork, Held, OnlyFilledChange, TypeOK

LEMMA WriteType ==
    ASSUME TypeInv, NEW file \in [Tasks -> Method], WriteFile(file)
    PROVE  code' \in [Tasks -> Method]
  BY DEF TypeInv, TypeOK, WriteFile

LEMMA EndTaskType ==
    ASSUME TypeInv, AtWork, NEW done \in BOOLEAN, EndTask(done), code' \in [Tasks -> Method],
           UNCHANGED <<user, runs, edits>>, faults' \in Nat
    PROVE  TypeInv'
  BY KeysAssumption, BoundsAssumption
     DEF TypeInv, TypeOK, EndTask, AtWork, user

LEMMA RetryType ==
    ASSUME TypeInv, AtWork, Retry, code' \in [Tasks -> Method],
           UNCHANGED <<user, runs, edits>>, faults' \in Nat
    PROVE  TypeInv'
<1>1. CASE attempt <= Retries
  BY <1>1, BoundsAssumption DEF TypeInv, TypeOK, Retry, AtWork, user
<1>2. CASE ~(attempt <= Retries)
  BY <1>2, EndTaskType DEF Retry
<1> QED BY <1>1, <1>2

LEMMA TypeStep ==
    ASSUME TypeInv, [Next]_vars
    PROVE  TypeInv'
<1> USE BoundsAssumption
<1>0. /\ code \in [Tasks -> Method] /\ orig \in [Tasks -> Method]
      /\ faults \in Nat /\ TornFile \in [Tasks -> Method]
  BY DEF TypeInv, TypeOK, TornFile, Method
<1>1. CASE Start
  BY <1>1, KeysAssumption DEF Start, TypeInv, TypeOK, AtWork, Open
<1>2. CASE Check
  BY <1>2 DEF Check, TypeInv, TypeOK, AtWork, user, counters
<1>3. CASE NextTask
  BY <1>3 DEF NextTask, Turn, TypeInv, TypeOK, AtWork, user, counters
<1>4. CASE AskFails
  BY <1>0, <1>4, EndTaskType DEF AskFails, AtWork, counters
<1>5. CASE SpliceFails
  BY <1>0, <1>5, RetryType DEF SpliceFails, AtWork, counters
<1>6. CASE Splice
  <2>1. PICK reply \in {"good", "bad", "hole"} : WriteFile([orig EXCEPT ![cur] = reply])
    BY <1>6 DEF Splice
  <2>2. [orig EXCEPT ![cur] = reply] \in [Tasks -> Method]
    BY <1>0 DEF Method
  <2>3. code' \in [Tasks -> Method]
    BY <2>1, <2>2, WriteType
  <2> QED BY <1>6, <2>3 DEF Splice, TypeInv, TypeOK, AtWork, user, counters
<1>7. CASE WriteFails
  <2>1. code' \in [Tasks -> Method]
    BY <1>0, <1>7, WriteType DEF WriteFails
  <2>2. Fault /\ pc = "ask" /\ EndTask(FALSE) /\ UNCHANGED <<user, runs, edits>>
    BY <1>7 DEF WriteFails
  <2>3. faults' \in Nat
    BY <1>0, <2>2 DEF Fault
  <2> QED BY <2>1, <2>2, <2>3, EndTaskType DEF AtWork
<1>8. CASE Build
  <2>1. AtWork /\ UNCHANGED user
    BY <1>8 DEF Build, AtWork
  <2>2. CASE EndTask(TRUE) /\ UNCHANGED <<code, counters>>
    BY <1>0, <2>1, <2>2, EndTaskType DEF counters
  <2>3. CASE WriteFile(orig) /\ UNCHANGED counters /\ Retry
    BY <1>0, <2>1, <2>3, WriteType, RetryType DEF counters
  <2>4. CASE WriteFile(TornFile) /\ Fault /\ UNCHANGED <<runs, edits>> /\ Retry
    BY <1>0, <2>1, <2>4, WriteType, RetryType DEF Fault
  <2> QED BY <1>8, <2>2, <2>3, <2>4 DEF Build
<1>9. CASE Finish
  BY <1>9 DEF Finish, TypeInv, TypeOK, AtWork, user, counters
<1>10. CASE Crash
  <2>1. code' \in [Tasks -> Method]
    BY <1>0, <1>10, WriteType DEF Crash
  <2> QED BY <1>10, <2>1 DEF Crash, Fault, TypeInv, TypeOK, AtWork, user
<1>11. ASSUME NEW t \in Tasks, EditMethod(t) PROVE TypeInv'
  <2>1. PICK v \in Sources \ {code[t]} :
            LET saved == IF code[t] = "torn" THEN InPkg(PkgOf[t]) ELSE {t}
            IN  /\ code' = [u \in Tasks |-> IF u \in saved THEN v ELSE code[u]]
                /\ base' = [u \in Tasks |-> IF u \in saved THEN v ELSE base[u]]
                /\ raced' = raced \/ raced' = raced \cup saved
    BY <1>11 DEF EditMethod
  <2>2. /\ code' \in [Tasks -> Method] /\ base' \in [Tasks -> Method]
        /\ raced' \subseteq Tasks
    BY <2>1 DEF TypeInv, TypeOK, Sources, InPkg
  <2> QED BY <1>11, <2>2 DEF EditMethod, TypeInv, TypeOK, AtWork, run
<1>12. CASE UNCHANGED vars
  BY <1>12 DEF vars, run, user, counters, TypeInv, TypeOK, AtWork
<1> QED BY <1>1, <1>2, <1>3, <1>4, <1>5, <1>6, <1>7, <1>8, <1>9, <1>10, <1>11, <1>12
        DEF Next, FillStep

(***************************************************************************)
(* What a run changes.                                                     *)
(***************************************************************************)

\* A task ends, its file as the attempt read it or its answer taken.
LEMMA EndTaskSafe ==
    ASSUME SafeInv, AtWork, NEW done \in BOOLEAN, EndTask(done), UNCHANGED <<user, faults>>,
           \A t \in InPkg(PkgOf[cur]) : t = cur \/ code'[t] = code[t] \/ code'[t] = orig[t],
           \A t \in Tasks \ InPkg(PkgOf[cur]) : code'[t] = code[t],
           done \/ code'[cur] = orig[cur] \/ (code'[cur] = code[cur] /\ pc = "ask")
    PROVE  Held' /\ OnlyFilledChange'
<1>1. pc' = "next" /\ ~AtWork'
  BY DEF EndTask, AtWork
<1>2. filled' = (IF done THEN filled \cup {cur} ELSE filled) /\ base' = base /\ raced' = raced
  BY DEF EndTask, user
<1>3. ASSUME faults = 0, NEW t \in Tasks \ (filled' \cup raced')
      PROVE  code'[t] = base'[t]
  <2>1. t \notin filled /\ t \notin raced /\ (done => t # cur)
    BY <1>2, <1>3
  <2>2. t \in InPkg(PkgOf[cur]) => orig[t] = base[t]
    BY <1>3, <2>1 DEF SafeInv, Held
  <2>3. code[t] = base[t] \/ (pc = "build" /\ t = cur)
    BY <1>3, <2>1 DEF SafeInv, OnlyFilledChange
  <2>4. cur \in InPkg(PkgOf[cur])
    BY DEF SafeInv, TypeInv, InPkg
  <2> QED BY <1>2, <2>1, <2>2, <2>3, <2>4
<1> QED BY <1>1, <1>3 DEF Held, OnlyFilledChange

\* An attempt fails, its file as it read it.
LEMMA RetrySafe ==
    ASSUME SafeInv, AtWork, Retry, UNCHANGED <<user, faults>>,
           \A t \in InPkg(PkgOf[cur]) :
               code'[t] = orig[t] \/ (code'[t] = code[t] /\ (t # cur \/ pc = "ask")),
           \A t \in Tasks \ InPkg(PkgOf[cur]) : code'[t] = code[t]
    PROVE  Held' /\ OnlyFilledChange'
<1>1. cur \in InPkg(PkgOf[cur])
  BY DEF SafeInv, TypeInv, InPkg
<1>2. CASE attempt <= Retries
  <2>1. /\ pc' = "ask" /\ orig' = code'
        /\ UNCHANGED <<cur, filled, base, raced>>
    BY <1>2 DEF Retry, user
  <2>2. ASSUME faults = 0, NEW t \in Tasks \ (filled \cup raced) PROVE code'[t] = base[t]
    <3>1. t \in InPkg(PkgOf[cur]) => orig[t] = base[t]
      BY <2>2 DEF SafeInv, Held
    <3>2. code[t] = base[t] \/ (pc = "build" /\ t = cur)
      BY <2>2 DEF SafeInv, OnlyFilledChange
    <3> QED BY <1>1, <3>1, <3>2
  <2> QED BY <2>1, <2>2 DEF Held, OnlyFilledChange, InPkg
<1>3. CASE ~(attempt <= Retries)
  BY <1>1, <1>3, EndTaskSafe DEF Retry
<1> QED BY <1>2, <1>3

LEMMA SafeStep ==
    ASSUME SafeInv, [Next]_vars
    PROVE  Held' /\ OnlyFilledChange'
<1>0. /\ code \in [Tasks -> Method] /\ orig \in [Tasks -> Method] /\ faults \in Nat
      /\ AtWork => cur \in Tasks
  BY DEF SafeInv, TypeInv, TypeOK
<1>1. CASE Start
  BY <1>1 DEF Start, Held, OnlyFilledChange, AtWork
<1>2. CASE Check \/ Finish
  <2>1. pc # "build" /\ pc' \notin {"ask", "build"} /\ UNCHANGED <<code, filled, base, raced, faults>>
    BY <1>2 DEF Check, Finish, user, counters
  <2> QED BY <2>1 DEF SafeInv, Held, OnlyFilledChange, AtWork
<1>3. CASE NextTask
  <2>1. PICK t \in todo : Turn(t)
    BY <1>3 DEF NextTask
  <2>2. /\ pc = "next" /\ pc' = "ask" /\ orig' = code /\ cur' = t
        /\ UNCHANGED <<code, filled, base, raced, faults>>
    BY <2>1 DEF Turn, user, counters
  <2> QED BY <2>2 DEF SafeInv, Held, OnlyFilledChange, AtWork, InPkg
<1>4. CASE AskFails
  BY <1>4, EndTaskSafe DEF AskFails, AtWork, counters
<1>5. CASE SpliceFails
  BY <1>5, RetrySafe DEF SpliceFails, AtWork, counters
<1>6. CASE Splice
  <2>1. PICK reply \in {"good", "bad", "hole"} : WriteFile([orig EXCEPT ![cur] = reply])
    BY <1>6 DEF Splice
  <2>2. /\ pc = "ask" /\ pc' = "build"
        /\ UNCHANGED <<cur, orig, filled, base, raced, faults>>
    BY <1>6 DEF Splice, user, counters
  <2>3. \A t \in Tasks : code'[t] = IF PkgOf[t] = PkgOf[cur] /\ t # cur THEN orig[t]
                                   ELSE IF t = cur THEN reply ELSE code[t]
    BY <1>0, <2>1, <2>2 DEF WriteFile, AtWork
  <2>4. Held'
    BY <2>2 DEF SafeInv, Held, AtWork, InPkg
  <2>5. ASSUME faults = 0, NEW t \in Tasks \ (filled \cup raced), t # cur
        PROVE  code'[t] = base[t]
    <3>1. t \in InPkg(PkgOf[cur]) => orig[t] = base[t]
      BY <2>2, <2>5 DEF SafeInv, Held, AtWork
    <3>2. code[t] = base[t]
      BY <2>5 DEF SafeInv, OnlyFilledChange
    <3> QED BY <2>3, <2>5, <3>1, <3>2 DEF InPkg
  <2> QED BY <2>2, <2>4, <2>5 DEF OnlyFilledChange
<1>7. CASE WriteFails \/ Crash
  <2>1. faults' # 0
    <3>1. Fault
      BY <1>7 DEF WriteFails, Crash
    <3> QED BY <1>0, <3>1 DEF Fault
  <2> QED BY <2>1 DEF Held, OnlyFilledChange
<1>8. CASE Build
  <2>1. pc = "build" /\ AtWork /\ UNCHANGED user
    BY <1>8 DEF Build, AtWork
  <2>2. CASE EndTask(TRUE) /\ UNCHANGED <<code, counters>>
    BY <2>1, <2>2, EndTaskSafe DEF counters
  <2>3. CASE WriteFile(orig) /\ UNCHANGED counters /\ Retry
    <3>1. \A t \in Tasks : code'[t] = IF t \in InPkg(PkgOf[cur]) THEN orig[t] ELSE code[t]
      BY <2>3 DEF WriteFile, InPkg
    <3> QED BY <2>1, <2>3, <3>1, RetrySafe DEF counters, InPkg
  <2>4. CASE Fault
    BY <1>0, <2>4 DEF Fault, Held, OnlyFilledChange
  <2> QED BY <1>8, <2>2, <2>3, <2>4 DEF Build
<1>9. ASSUME NEW t \in Tasks, EditMethod(t) PROVE Held' /\ OnlyFilledChange'
  <2> DEFINE saved == IF code[t] = "torn" THEN InPkg(PkgOf[t]) ELSE {t}
  <2>1. saved \subseteq InPkg(PkgOf[t])
    BY DEF InPkg
  <2>2. PICK v :
            /\ code' = [u \in Tasks |-> IF u \in saved THEN v ELSE code[u]]
            /\ base' = [u \in Tasks |-> IF u \in saved THEN v ELSE base[u]]
    BY <1>9 DEF EditMethod
  <2>3. /\ raced' = IF AtWork /\ PkgOf[t] = PkgOf[cur] THEN raced \cup saved ELSE raced
        /\ UNCHANGED <<pc, cur, orig, filled, faults>>
    BY <1>9 DEF EditMethod, run, AtWork
  <2> HIDE DEF saved
  <2>4. OnlyFilledChange'
    <3>1. raced \subseteq raced'
      BY <2>3
    <3> QED BY <2>2, <2>3, <3>1 DEF SafeInv, OnlyFilledChange
  <2>5. Held'
    <3>1. SUFFICES ASSUME faults = 0, AtWork, NEW u \in InPkg(PkgOf[cur]) \ (filled \cup raced')
                   PROVE  orig[u] = base'[u]
      BY <2>3 DEF Held, AtWork, InPkg
    <3>2. u \notin raced /\ u \in Tasks /\ u \notin saved
      BY <2>1, <2>3, <3>1 DEF InPkg
    <3>3. base'[u] = base[u]
      BY <2>2, <3>2
    <3> QED BY <3>1, <3>2, <3>3 DEF SafeInv, Held
  <2> QED BY <2>4, <2>5
<1>10. CASE UNCHANGED vars
  <2>1. UNCHANGED <<code, pc, cur, orig, filled, base, raced, faults>>
    BY <1>10 DEF vars, run, user, counters
  <2> QED BY <2>1 DEF SafeInv, Held, OnlyFilledChange, AtWork
<1> QED BY <1>1, <1>2, <1>3, <1>4, <1>5, <1>6, <1>7, <1>8, <1>9, <1>10 DEF Next, FillStep

LEMMA SafeInvariant == Spec => []SafeInv
<1>1. SafeInv /\ [Next]_vars => SafeInv'
  BY TypeStep, SafeStep DEF SafeInv
<1> QED BY <1>1, InitSafe, PTL DEF Spec

\* A run's state keeps its types.
THEOREM TypeCorrect == Spec => []TypeOK
<1>1. SafeInv => TypeOK
  BY DEF SafeInv, TypeInv
<1> QED BY <1>1, SafeInvariant, PTL

\* A run changes the methods it reports filled and no others, whatever the
\* command replies and the user saves, as long as no write fails.
THEOREM OnlyFilled == Spec => []OnlyFilledChange
<1>1. SafeInv => OnlyFilledChange
  BY DEF SafeInv
<1> QED BY <1>1, SafeInvariant, PTL

(***************************************************************************)
(* Drift: what a build reports.                                            *)
(***************************************************************************)
LEMMA ReportIs ==
    ASSUME NEW c, NEW rep \in DriftReports(c)
    PROVE  /\ \A k \in rep : \E t \in Tasks : c[t] = "drift" /\ k = KeyOf[t]
           /\ rep = {} <=> Reporting(c) = {}
<1>1. PICK d \in {e \in [Reporting(c) -> Tasks] : \A p \in Reporting(c) : e[p] \in DriftedIn(c, p)} :
          rep = {KeyOf[d[p]] : p \in Reporting(c)}
  BY DEF DriftReports
<1>2. \A p \in Reporting(c) : d[p] \in Tasks /\ c[d[p]] = "drift"
  BY DEF DriftedIn, InPkg
<1> QED BY <1>1, <1>2

\* Where all drift is expected, a build's verdict is not a matter of chance.
LEMMA AnyReport ==
    ASSUME NEW c, NEW pend, NEW rep \in DriftReports(c), NEW other \in DriftReports(c),
           \A t \in Tasks : c[t] = "drift" => KeyOf[t] \in pend,
           Accepts(c, rep, pend)
    PROVE  Accepts(c, other, pend)
  BY ReportIs DEF Accepts, OnlyDrift

(***************************************************************************)
(* The inductive invariant of a run that nobody disturbs.                  *)
(***************************************************************************)
\* No two tasks of the project share their Type.Method (driftKey): in a package
\* none do, and in two packages those that do mislead the code.
KeysDistinct == \A t, u \in Tasks : KeyOf[t] = KeyOf[u] => t = u

\* The keys pending when cur stays open.
PendingIfOpen == IF cur \in drift THEN pending \cup {KeyOf[cur]} ELSE pending

\* All drift is pending, that of the task under way apart.
DriftKnown ==
    /\ pending \subseteq {KeyOf[t] : t \in drift}
    /\ pc # "idle" =>
           \A t \in Tasks : code[t] = "drift" =>
               t \in drift /\ (KeyOf[t] \in pending \/ (AtWork /\ t = cur))

\* What an attempt puts back is a project that was clean.
Restorable ==
    AtWork =>
        /\ \A rep \in DriftReports(orig) : Accepts(orig, rep, PendingIfOpen)
        /\ \A t \in Tasks : orig[t] = "drift" =>
               t \in drift /\ (KeyOf[t] \in pending \/ t = cur)
        /\ \A t \in Tasks : code[t] = orig[t] \/ (pc = "build" /\ t = cur)
        /\ pc = "build" => code[cur] \in {"good", "bad", "hole"}

Undisturbed == edits = 0 /\ faults = 0

CleanInv == TypeInv /\ CleanBetweenTasks /\ (Undisturbed => DriftKnown /\ Restorable)

LEMMA InitClean == Init => CleanInv
<1> SUFFICES ASSUME Init PROVE CleanInv
  OBVIOUS
<1>1. TypeInv
  BY InitSafe DEF SafeInv
<1> QED BY <1>1 DEF Init, CleanInv, CleanBetweenTasks, DriftKnown, Restorable, AtWork

\* A task ends open, its file as the attempt read it.
LEMMA EndOpenClean ==
    ASSUME CleanInv, Undisturbed, AtWork, EndTask(FALSE), code' = orig
    PROVE  CleanBetweenTasks' /\ DriftKnown' /\ Restorable'
<1>1. /\ pc' = "next" /\ pending' = PendingIfOpen /\ drift' = drift
  BY DEF EndTask, PendingIfOpen
<1>2. ~AtWork'
  BY <1>1 DEF AtWork
<1>3. CleanBetweenTasks'
  BY <1>1 DEF CleanInv, Restorable, CleanBetweenTasks
<1>4. pending' \subseteq {KeyOf[t] : t \in drift}
  BY <1>1 DEF CleanInv, DriftKnown, PendingIfOpen
<1>5. ASSUME NEW t \in Tasks, orig[t] = "drift" PROVE t \in drift /\ KeyOf[t] \in pending'
  <2>1. t \in drift /\ (KeyOf[t] \in pending \/ t = cur)
    BY <1>5 DEF CleanInv, Restorable
  <2> QED BY <1>1, <2>1 DEF PendingIfOpen
<1> QED BY <1>1, <1>2, <1>3, <1>4, <1>5 DEF DriftKnown, Restorable

\* An attempt fails, its file as it read it.
LEMMA RetryClean ==
    ASSUME CleanInv, Undisturbed, AtWork, Retry, code' = orig
    PROVE  CleanBetweenTasks' /\ DriftKnown' /\ Restorable'
<1>1. CASE attempt <= Retries
  <2>1. /\ pc' = "ask" /\ orig' = orig
        /\ UNCHANGED <<pending, drift, cur>>
    BY <1>1 DEF Retry
  <2>2. CleanBetweenTasks'
    BY <2>1 DEF CleanBetweenTasks
  <2>3. Restorable'
    BY <2>1 DEF CleanInv, Restorable, AtWork, PendingIfOpen
  <2>4. DriftKnown'
    BY <2>1 DEF CleanInv, DriftKnown, Restorable, AtWork
  <2> QED BY <2>2, <2>3, <2>4
<1>2. CASE ~(attempt <= Retries)
  BY <1>2, EndOpenClean DEF Retry
<1> QED BY <1>1, <1>2

LEMMA CleanStep ==
    ASSUME CleanInv, [Next]_vars, KeysDistinct, Undisturbed'
    PROVE  CleanBetweenTasks' /\ DriftKnown' /\ Restorable'
<1>0. /\ code \in [Tasks -> Method] /\ orig \in [Tasks -> Method]
      /\ faults \in Nat /\ edits \in Nat
      /\ AtWork => cur \in Tasks
  BY DEF CleanInv, TypeInv, TypeOK
<1>1. CASE Start
  <2>1. /\ pc' = "check" /\ code' = code /\ drift' = {t \in Tasks : code[t] = "drift"}
        /\ pending' = {KeyOf[t] : t \in drift'}
    BY <1>1 DEF Start
  <2> QED BY <2>1 DEF CleanBetweenTasks, DriftKnown, Restorable, AtWork
<1>2. CASE Check
  <2>1. /\ Undisturbed /\ DriftKnown /\ ~AtWork /\ pc = "check"
        /\ UNCHANGED <<code, drift, pending>>
        /\ pc' \in {"next", "idle"}
    BY <1>2 DEF Check, counters, Undisturbed, CleanInv, AtWork
  <2>2. CleanBetweenTasks'
    <3>1. SUFFICES ASSUME pc' = "next", NEW other \in DriftReports(code)
                   PROVE  Accepts(code, other, pending)
      BY <2>1 DEF CleanBetweenTasks
    <3>2. PICK rep \in DriftReports(code) : Accepts(code, rep, pending)
      BY <1>2, <3>1 DEF Check
    <3> QED BY <2>1, <3>2, AnyReport DEF DriftKnown
  <2> QED BY <2>1, <2>2 DEF DriftKnown, Restorable, AtWork
<1>3. CASE NextTask
  <2>1. PICK t \in todo : Turn(t) /\ pending' = pending \ {KeyOf[t]}
    BY <1>3 DEF NextTask
  <2>2. /\ Undisturbed /\ pc = "next" /\ pc' = "ask" /\ orig' = code /\ cur' = t
        /\ UNCHANGED <<code, drift>> /\ t \in Tasks
    BY <2>1 DEF Turn, counters, Undisturbed, CleanInv, TypeInv, TypeOK
  <2>3. DriftKnown
    BY <2>2 DEF CleanInv
  <2>4. \A u \in Tasks : code[u] = "drift" => u \in drift /\ (KeyOf[u] \in pending' \/ u = t)
    BY <2>1, <2>2, <2>3 DEF DriftKnown, AtWork, KeysDistinct
  <2>5. PendingIfOpen' = pending \/ (PendingIfOpen' = pending \cup {KeyOf[t]} /\ t \in drift)
    BY <2>1, <2>2, <2>3 DEF PendingIfOpen, DriftKnown, KeysDistinct, CleanInv, TypeInv, TypeOK
  <2>6. ASSUME NEW rep \in DriftReports(code) PROVE Accepts(code, rep, PendingIfOpen')
    <3>1. Accepts(code, rep, pending)
      BY <2>2 DEF CleanInv, CleanBetweenTasks, Undisturbed
    <3> QED BY <2>5, <3>1 DEF Accepts, OnlyDrift
  <2>7. DriftKnown'
    BY <2>1, <2>2, <2>3, <2>4 DEF DriftKnown, AtWork
  <2>8. Restorable'
    BY <2>2, <2>4, <2>6 DEF Restorable
  <2> QED BY <2>2, <2>7, <2>8 DEF CleanBetweenTasks
<1>4. CASE AskFails \/ SpliceFails
  <2>1. Undisturbed /\ AtWork /\ pc = "ask" /\ code' = code
    BY <1>4 DEF AskFails, SpliceFails, counters, Undisturbed, AtWork
  <2>2. code' = orig
    BY <1>0, <2>1 DEF CleanInv, Restorable
  <2> QED BY <1>4, <2>1, <2>2, EndOpenClean, RetryClean DEF AskFails, SpliceFails
<1>5. CASE Splice
  <2>1. PICK reply \in {"good", "bad", "hole"} : WriteFile([orig EXCEPT ![cur] = reply])
    BY <1>5 DEF Splice
  <2>2. /\ pc = "ask" /\ pc' = "build" /\ AtWork /\ AtWork' /\ Undisturbed /\ cur \in Tasks
        /\ UNCHANGED <<cur, orig, drift, pending>>
    BY <1>0, <1>5 DEF Splice, counters, AtWork, Undisturbed
  <2>3. \A t \in Tasks : code[t] = orig[t]
    BY <2>2 DEF CleanInv, Restorable
  <2>4. code'[cur] = reply /\ \A t \in Tasks \ {cur} : code'[t] = orig[t]
    BY <1>0, <2>1, <2>2, <2>3 DEF WriteFile
  <2>5. Restorable /\ DriftKnown
    BY <2>2 DEF CleanInv
  <2>6. PendingIfOpen' = PendingIfOpen
    BY <2>2 DEF PendingIfOpen
  <2>7. Restorable'
    BY <2>2, <2>4, <2>5, <2>6 DEF Restorable
  <2>8. DriftKnown'
    BY <2>2, <2>4, <2>5 DEF DriftKnown, Restorable
  <2> QED BY <2>2, <2>7, <2>8 DEF CleanBetweenTasks
<1>6. CASE Build
  <2>1. pc = "build" /\ AtWork
    BY <1>6 DEF Build, AtWork
  <2>2. ASSUME NEW rep \in DriftReports(code), Accepts(code, rep, pending),
               EndTask(TRUE), UNCHANGED <<code, counters>>
        PROVE  CleanBetweenTasks' /\ DriftKnown' /\ Restorable'
    <3>1. /\ Undisturbed /\ pc' = "next" /\ ~AtWork' /\ UNCHANGED <<code, drift, pending>>
      BY <2>2 DEF EndTask, counters, Undisturbed, AtWork
    <3>2. \A t \in Tasks : code[t] = "drift" => t \in drift /\ KeyOf[t] \in pending
      BY <2>1, <3>1 DEF CleanInv, DriftKnown, Restorable
    <3>3. \A other \in DriftReports(code) : Accepts(code, other, pending)
      BY <2>2, <3>2, AnyReport
    <3> QED BY <3>1, <3>2, <3>3 DEF CleanInv, CleanBetweenTasks, DriftKnown, Restorable
  <2>3. CASE WriteFile(orig) /\ UNCHANGED counters /\ Retry
    <3>1. Undisturbed
      BY <2>3 DEF counters, Undisturbed
    <3>2. code' = orig
      BY <1>0, <2>1, <2>3, <3>1 DEF WriteFile, CleanInv, Restorable
    <3> QED BY <2>1, <2>3, <3>1, <3>2, RetryClean
  <2>4. CASE Fault
    BY <1>0, <2>4 DEF Fault, Undisturbed
  <2> QED BY <1>6, <2>2, <2>3, <2>4 DEF Build
<1>7. CASE Finish
  <2>1. /\ Undisturbed /\ pc' = "idle" /\ ~AtWork' /\ UNCHANGED <<drift, pending>>
    BY <1>7 DEF Finish, counters, Undisturbed, AtWork
  <2> QED BY <2>1 DEF CleanInv, CleanBetweenTasks, DriftKnown, Restorable
<1>8. CASE WriteFails \/ Crash
  <2>1. Fault
    BY <1>8 DEF WriteFails, Crash
  <2> QED BY <1>0, <2>1 DEF Fault, Undisturbed
<1>9. ASSUME NEW t \in Tasks, EditMethod(t)
      PROVE  CleanBetweenTasks' /\ DriftKnown' /\ Restorable'
  <2>1. edits' = edits + 1
    BY <1>9 DEF EditMethod
  <2> QED BY <1>0, <2>1 DEF Undisturbed
<1>10. CASE UNCHANGED vars
  <2>1. UNCHANGED <<code, pc, cur, orig, drift, pending, edits, faults>>
    BY <1>10 DEF vars, run, counters
  <2>2. Undisturbed /\ CleanBetweenTasks /\ DriftKnown /\ Restorable
    BY <2>1 DEF Undisturbed, CleanInv
  <2>3. CleanBetweenTasks'
    BY <2>1, <2>2 DEF CleanBetweenTasks
  <2> QED BY <2>1, <2>2, <2>3 DEF DriftKnown, Restorable, AtWork, PendingIfOpen
<1> QED BY <1>1, <1>2, <1>3, <1>4, <1>5, <1>6, <1>7, <1>8, <1>9, <1>10 DEF Next, FillStep

LEMMA CleanInvariant ==
    ASSUME KeysDistinct
    PROVE  Spec => []CleanInv
<1>1. CleanInv /\ [Next]_vars => CleanInv'
  <2>1. SUFFICES ASSUME CleanInv, [Next]_vars PROVE CleanInv'
    OBVIOUS
  <2>2. TypeInv'
    BY <2>1, TypeStep DEF CleanInv
  <2>3. CASE Undisturbed'
    BY <2>1, <2>2, <2>3, CleanStep DEF CleanInv
  <2>4. CASE ~Undisturbed'
    BY <2>2, <2>4 DEF CleanInv, CleanBetweenTasks, Undisturbed
  <2> QED BY <2>3, <2>4
<1> QED BY <1>1, InitClean, PTL DEF Spec

\* Between two tasks the project builds, drift apart that is still pending,
\* whatever the command replied so far (fill.go:168-176, 254-257).
THEOREM CleanBetween ==
    ASSUME KeysDistinct
    PROVE  Spec => []CleanBetweenTasks
<1>1. CleanInv => CleanBetweenTasks
  BY DEF CleanInv
<1> QED BY <1>1, CleanInvariant, PTL

(***************************************************************************)
(* Good answers.                                                           *)
(***************************************************************************)

\* A faulty package that imports no faulty one: go build reports its errors.
LEMMA CompiledFirst ==
    ASSUME NEW c, Faulty(c) # {}
    PROVE  Faulty(c) \cap Compiled(c) # {}
<1> DEFINE Size(p) == Cardinality(DependsOn[p])
           Sizes == {Size(p) : p \in Faulty(c)}
<1>1. /\ IsFiniteSet(Packages) /\ Faulty(c) \subseteq Packages
      /\ \A p \in Packages : DependsOn[p] \subseteq Packages /\ p \notin DependsOn[p]
      /\ \A p \in Packages : \A q \in DependsOn[p] : DependsOn[q] \subseteq DependsOn[p]
  BY PackagesAssumption DEF Faulty
<1>2. \A p \in Packages : IsFiniteSet(DependsOn[p]) /\ Size(p) \in Nat
  BY <1>1, FS_Subset, FS_CardinalityType
<1>3. \A p \in Packages : \A q \in DependsOn[p] : Size(q) < Size(p)
  <2>1. SUFFICES ASSUME NEW p \in Packages, NEW q \in DependsOn[p] PROVE Size(q) < Size(p)
    OBVIOUS
  <2>2. DependsOn[q] \subseteq DependsOn[p] /\ q \notin DependsOn[q]
    BY <1>1
  <2>3. DependsOn[q] # DependsOn[p] /\ IsFiniteSet(DependsOn[p])
    BY <1>2, <2>2
  <2>4. /\ Cardinality(DependsOn[q]) <= Cardinality(DependsOn[p])
        /\ Cardinality(DependsOn[q]) # Cardinality(DependsOn[p])
    BY <2>2, <2>3, FS_Subset
  <2>5. Size(q) \in Nat /\ Size(p) \in Nat
    BY <1>1, <1>2
  <2> QED BY <2>4, <2>5
<1>4. PICK p \in Faulty(c) : \A q \in Faulty(c) : ~(Size(q) < Size(p))
  <2>1. IsWellFoundedOn(OpToRel(<, Nat), Nat)
    BY NatLessThanWellFounded
  <2>2. Sizes # {} /\ Sizes \subseteq Nat
    BY <1>1, <1>2
  <2>3. PICK n \in Sizes : \A m \in Sizes : ~(<<m, n>> \in OpToRel(<, Nat))
    BY <2>1, <2>2, WFMin
  <2>4. \A m \in Sizes : ~(m < n)
    BY <2>2, <2>3 DEF OpToRel
  <2> QED BY <2>4
<1>5. DependsOn[p] \cap Faulty(c) = {}
  BY <1>1, <1>3, <1>4
<1> QED BY <1>1, <1>5 DEF Compiled

\* "Drifted methods break the build by design, so their errors are expected
\* until they are filled" (fill.go:151): an answer that compiles is not turned
\* down for the drift of other tasks, in a project of any shape, as long as the
\* build's output fits into what runBuild keeps of it (fill.go:361).
THEOREM GoodAnswers ==
    ASSUME KeysDistinct
    PROVE  Spec => GoodAnswerAccepted
<1>1. ASSUME CleanInv, GoodAnswerBuilt, ~Cut(code)
      PROVE  cur \in filled'
  <2>0. Build /\ code[cur] = "good" /\ Undisturbed /\ \A t \in Tasks : Sound(t)
    BY <1>1 DEF GoodAnswerBuilt, Undisturbed
  <2>1. PICK rep \in DriftReports(code) :
            IF Accepts(code, rep, pending) THEN EndTask(TRUE) ELSE Retry
    BY <2>0 DEF Build
  <2>2. pc = "build" /\ DriftKnown
    BY <1>1, <2>0 DEF Build, CleanInv
  <2>3. \A t \in Tasks : code[t] = "drift" => KeyOf[t] \in pending
    BY <2>0, <2>2 DEF DriftKnown
  <2>4. ~OtherError(code)
    BY <2>0 DEF Sound, OtherError
  <2>5. rep \subseteq pending
    BY <2>3, ReportIs
  <2>6. ASSUME Faulty(code) # {} PROVE Accepts(code, rep, pending)
    <3>1. PICK p \in Faulty(code) \cap Compiled(code) : TRUE
      BY <2>6, CompiledFirst
    <3>2. DriftedIn(code, p) # {}
      BY <2>0, <3>1 DEF Faulty, DriftedIn, Sound, InPkg
    <3>3. rep # {}
      BY <3>1, <3>2, ReportIs DEF Reporting
    <3> QED BY <1>1, <2>4, <2>5, <3>3 DEF Accepts, OnlyDrift
  <2>7. Accepts(code, rep, pending)
    BY <2>6 DEF Accepts, Builds
  <2> QED BY <2>1, <2>7 DEF EndTask
<1> QED BY <1>1, CleanInvariant, PTL DEF GoodAnswerAccepted
=============================================================================
