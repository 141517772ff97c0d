--------------------------- MODULE GenerationProofs ---------------------------
(***************************************************************************)
(* Proofs about Generation, for any number of timetables, lessons, slots,  *)
(* runs, requests and faults: its types, one run at a time, and lessons    *)
(* that are exactly one run's.                                             *)
(*                                                                         *)
(* Most steps of a job touch neither the lessons nor the timetable of any  *)
(* run, and only make runs end: they are Quiet, and one lemma answers for  *)
(* all of them.  The six that are not have a lemma each.                   *)
(***************************************************************************)
EXTENDS Generation, TLAPS

(* The job still has lessons to save, or has nothing more to write to them. *)
Working(r) == job[r].pc \in {"begin", "build", "spawn", "worker", "saving", "delete", "insert"}
Settled(r) == job[r].pc \in {"failing", "done", "lost"}

(* The inductive invariant, in parts *)

StartersKnowTheirs ==
    \A s \in Starter : starter[s].tt = None <=> starter[s].pc = "idle"

(* A run that was not created has no job; one with work left is active. *)
RunsFollowJobs ==
    \A r \in Run : /\ runs[r].status = "NONE" => job[r] = NoJob
                   /\ Working(r) => Active(r)

OwnRows == \A r \in Run : \A x \in job[r].rows : x.run = r

(* Of a run's final rows, all or none are in the set. *)
Whole(rows) ==
    \A e \in rows : Settled(e.run) /\ e \in job[e.run].rows /\ job[e.run].rows \subseteq rows

SavedWhole == \A t \in Timetable : Whole(entries[t])
DoomedWhole == \A r \in Run : Whole(job[r].doomed)
SavedDistinct == \A t \in Timetable : Distinct(entries[t])
MetricsSettled == \A t \in Timetable : metrics[t] # None => Settled(metrics[t])

OneStarter ==
    \A s, q \in Starter : starter[s].tt = starter[q].tt /\ starter[s].tt # None => s = q
CreatesWhenFree == \A s \in Starter : starter[s].pc = "create" => ~Busy(starter[s].tt)
OneActive ==
    \A r, q \in Run : Active(r) /\ Active(q) /\ runs[r].tt = runs[q].tt => r = q
DoomsAll == \A r \in Run : job[r].pc = "insert" => job[r].doomed = entries[runs[r].tt]
ShowsOneRun ==
    \A t \in Timetable :
        entries[t] = IF metrics[t] = None THEN {} ELSE job[metrics[t]].rows

Undisturbed == OneStarter /\ CreatesWhenFree /\ OneActive /\ DoomsAll /\ ShowsOneRun

IInv ==
    /\ TypeOK
    /\ StartersKnowTheirs /\ RunsFollowJobs /\ OwnRows
    /\ SavedWhole /\ DoomedWhole /\ SavedDistinct /\ MetricsSettled
    /\ ~overlapped => Undisturbed

(* What a quiet step may do. *)
StartersRest ==
    starter' = starter \/ starter' = [s \in Starter |-> [pc |-> "idle", tt |-> None]]

Quiet ==
    /\ UNCHANGED <<entries, metrics, overlapped>>
    /\ StartersRest
    /\ \A r \in Run :
        /\ job'[r].rows = job[r].rows /\ job'[r].doomed = job[r].doomed
        /\ runs'[r].tt = runs[r].tt
        /\ Active(r)' => Active(r)
        /\ runs'[r].status = "NONE" => runs[r].status = "NONE" /\ job'[r] = job[r]
        /\ Working(r)' => Active(r)'
        /\ Settled(r) => Settled(r)'
        /\ job'[r].pc = "insert" => job[r].pc = "insert"

-----------------------------------------------------------------------------
(* Types *)

LEMMA TypeInit == Init => TypeOK
<1> SUFFICES ASSUME Init PROVE TypeOK OBVIOUS
<1>1. NoJob \in Jobs BY DEF NoJob, Jobs, JobPc
<1>2. job \in [Run -> Jobs] BY <1>1 DEF Init
<1>3. \A r \in Run : job[r].pc = "none" BY DEF Init, NoJob
<1>4. faults \in 0 .. MaxFaults BY BoundAssumption DEF Init
<1>5. overlapped \in BOOLEAN BY DEF Init
<1>6. runs \in [Run -> [status : RunStatus, tt : Timetable \cup {None}]] BY DEF Init, RunStatus
<1>7. starter \in [Starter -> [pc : {"idle", "busy", "create"}, tt : Timetable \cup {None}]]
  BY DEF Init
<1>8. status \in [Timetable -> {"DRAFT", "PUBLISHED", "ARCHIVED"}] BY DEF Init
<1>9. entries \in [Timetable -> SUBSET Rows] BY DEF Init
<1>10. metrics \in [Timetable -> Run \cup {None}] BY DEF Init
<1> QED BY <1>2, <1>3, <1>4, <1>5, <1>6, <1>7, <1>8, <1>9, <1>10, BoundAssumption DEF TypeOK

LEMMA RowsAreRows ==
  ASSUME NEW r \in Run, NEW P \in Placements
  PROVE  RowsOf(r, P) \in SUBSET Rows
  BY DEF RowsOf, Rows, Placements

LEMMA StartTypes ==
  ASSUME TypeOK, StartersKnowTheirs, NEW s \in Starter,
         Start(s) \/ \E t \in Timetable : BeginStart(s, t)
  PROVE  TypeOK'
<1>1. ASSUME NEW t \in Timetable, BeginStart(s, t) PROVE TypeOK'
  BY <1>1 DEF BeginStart, TypeOK, database
<1>2. CASE CheckBusy(s)
  BY <1>2 DEF CheckBusy, NoLongerStarting, TypeOK, database
<1>3. ASSUME NEW r \in Run, CreateRun(s, r) PROVE TypeOK'
  <2> USE <1>3 DEF CreateRun
  <2>1. starter[s].tt \in Timetable BY DEF TypeOK, StartersKnowTheirs
  <2>2. job' \in [Run -> Jobs] BY DEF TypeOK, Jobs, JobPc
  <2>3. runs' \in [Run -> [status : RunStatus, tt : Timetable \cup {None}]]
    BY <2>1 DEF TypeOK, RunStatus
  <2>4. \A q \in Run : job'[q].pc # "none" => runs'[q].tt \in Timetable
    BY <2>1 DEF TypeOK, Jobs
  <2>5. starter' \in [Starter -> [pc : {"idle", "busy", "create"}, tt : Timetable \cup {None}]]
    BY DEF TypeOK, NoLongerStarting
  <2> QED BY <2>2, <2>3, <2>4, <2>5 DEF TypeOK
<1> QED BY <1>1, <1>2, <1>3 DEF Start

(* A job's step: the job gets somewhere, its run's status may change, and  *)
(* the other variables keep their types.                                   *)
LEMMA JobStepTypes ==
  ASSUME TypeOK, NEW r \in Run, job[r].pc # "none",
         NEW j \in Jobs, job' = [job EXCEPT ![r] = j],
         NEW new \in RunStatus, runs' = runs \/ runs' = [runs EXCEPT ![r].status = new],
         entries' \in [Timetable -> SUBSET Rows],
         metrics' \in [Timetable -> Run \cup {None}],
         faults' \in 0 .. MaxFaults,
         UNCHANGED <<status, starter, overlapped>>
  PROVE  TypeOK'
<1>1. job' \in [Run -> Jobs] BY DEF TypeOK
<1>2. runs' \in [Run -> [status : RunStatus, tt : Timetable \cup {None}]] BY DEF TypeOK
<1>3. \A q \in Run : runs'[q].tt = runs[q].tt BY DEF TypeOK
<1>4. \A q \in Run : job'[q].pc # "none" => job[q].pc # "none" BY DEF TypeOK
<1>5. \A q \in Run : job'[q].pc # "none" => runs'[q].tt \in Timetable BY <1>3, <1>4 DEF TypeOK
<1> QED BY <1>1, <1>2, <1>5 DEF TypeOK

LEMMA ProceedsTypes ==
  ASSUME TypeOK, NEW r \in Run, NEW from \in JobPc \ {"none"}, NEW to \in JobPc,
         Proceeds(r, from, to),
         NEW new \in RunStatus, runs' = runs \/ runs' = [runs EXCEPT ![r].status = new]
  PROVE  TypeOK'
<1>1. [job[r] EXCEPT !.pc = to] \in Jobs BY DEF TypeOK, Jobs
<1>2. job' = [job EXCEPT ![r] = [job[r] EXCEPT !.pc = to]] BY DEF Proceeds, TypeOK
<1>3. job[r].pc # "none" /\ UNCHANGED <<status, entries, metrics, starter, faults, overlapped>>
  BY DEF Proceeds
<1> HIDE DEF Proceeds
<1> QED BY <1>1, <1>2, <1>3, JobStepTypes DEF TypeOK

LEMMA SolvedTypes ==
  ASSUME TypeOK, NEW r \in Run, NEW P, job[r].pc # "none", Solved(r, P)
  PROVE  TypeOK'
<1>1. RowsOf(r, P) \in SUBSET Rows BY RowsAreRows DEF Solved
<1> DEFINE j == [job[r] EXCEPT !.pc = "saving", !.rows = RowsOf(r, P)]
<1>0. job[r] \in Jobs BY DEF TypeOK
<1>2. j \in Jobs BY <1>1, <1>0 DEF Jobs, JobPc
<1>3. job' = [job EXCEPT ![r] = j] BY DEF Solved, TypeOK
<1>4. UNCHANGED <<status, entries, metrics, runs, starter, faults, overlapped>>
  BY DEF Solved, database
<1> QED BY <1>2, <1>3, <1>4, JobStepTypes DEF TypeOK, RunStatus

LEMMA CommitTypes ==
  ASSUME TypeOK, NEW r \in Run, job[r].pc = "insert", NEW to \in JobPc,
         Commit(r), job' = [job EXCEPT ![r].pc = to], faults' \in 0 .. MaxFaults
  PROVE  TypeOK'
<1>1. [job[r] EXCEPT !.pc = to] \in Jobs BY DEF TypeOK, Jobs
<1>2. job' = [job EXCEPT ![r] = [job[r] EXCEPT !.pc = to]] BY DEF TypeOK
<1>3. Saved(r) \in SUBSET Rows BY DEF TypeOK, Saved, Jobs
<1>4. /\ entries' \in [Timetable -> SUBSET Rows]
      /\ metrics' \in [Timetable -> Run \cup {None}]
  BY <1>3 DEF Commit, TypeOK
<1>5. runs' = [runs EXCEPT ![r].status = "SUCCEEDED"] /\ UNCHANGED <<status, starter, overlapped>>
  BY DEF Commit
<1> QED BY <1>1, <1>2, <1>4, <1>5, JobStepTypes DEF RunStatus

LEMMA DeathTypes ==
  ASSUME TypeOK, ProcessDies, faults' \in 0 .. MaxFaults
  PROVE  TypeOK'
<1>1. job' \in [Run -> Jobs] BY DEF ProcessDies, TypeOK, Jobs, JobPc
<1>2. \A q \in Run : job'[q].pc # "none" => runs'[q].tt \in Timetable
  BY DEF ProcessDies, TypeOK, InProcess, database
<1> QED BY <1>1, <1>2 DEF ProcessDies, TypeOK, database

LEMMA ExecuteTypes ==
  ASSUME TypeOK, NEW r \in Run, Execute(r)
  PROVE  TypeOK'
<1>0. /\ JobPc = {"none", "begin", "build", "spawn", "worker", "saving", "delete", "insert",
                  "failing", "done", "lost"}
      /\ RunStatus = {"NONE", "QUEUED", "RUNNING", "SUCCEEDED", "FAILED"}
      /\ faults \in 0 .. MaxFaults
  BY DEF JobPc, RunStatus, TypeOK
<1>1. CASE MarkRunning(r)  BY <1>0, <1>1, ProceedsTypes DEF MarkRunning
<1>2. ASSUME NEW solvable \in BOOLEAN, BuildProblem(r, solvable) PROVE TypeOK'
  <2> DEFINE j == [job[r] EXCEPT !.pc = "spawn", !.solvable = solvable]
  <2>0. job[r] \in Jobs BY DEF TypeOK
  <2>1. j \in Jobs BY <2>0 DEF Jobs, JobPc
  <2>2. job' = [job EXCEPT ![r] = j] BY <1>2 DEF BuildProblem, TypeOK
  <2>3. faults' \in 0 .. MaxFaults BY <1>2, <1>0, BoundAssumption DEF BuildProblem
  <2>4. job[r].pc # "none" /\ UNCHANGED <<status, entries, metrics, runs, starter, overlapped>>
    BY <1>2 DEF BuildProblem, database
  <2> QED BY <1>0, <2>1, <2>2, <2>3, <2>4, JobStepTypes DEF TypeOK
<1>3. CASE SpawnWorker(r)  BY <1>0, <1>3, ProceedsTypes DEF SpawnWorker
<1>4. ASSUME NEW P \in Placements, SolveInline(r, P) PROVE TypeOK'
  BY <1>0, <1>4, SolvedTypes, ProceedsTypes DEF SolveInline
<1>5. ASSUME NEW P \in Placements, WorkerAnswers(r, P) PROVE TypeOK'
  BY <1>5, SolvedTypes DEF WorkerAnswers
<1>6. ASSUME NEW P \in Placements, WorkerBreaks(r, P) PROVE TypeOK'
  BY <1>0, <1>6, SolvedTypes, DeathTypes DEF WorkerBreaks
<1>7. CASE MarkSaving(r)  BY <1>0, <1>7, ProceedsTypes DEF MarkSaving
<1>8. CASE DeleteOld(r)
  <2> DEFINE j == [job[r] EXCEPT !.pc = "insert", !.doomed = entries[runs[r].tt]]
  <2>1. runs[r].tt \in Timetable BY <1>8 DEF DeleteOld, TypeOK
  <2>0. job[r] \in Jobs /\ entries[runs[r].tt] \in SUBSET Rows BY <2>1 DEF TypeOK
  <2>2. j \in Jobs BY <2>0 DEF Jobs, JobPc
  <2>3. job' = [job EXCEPT ![r] = j] BY <1>8 DEF DeleteOld, TypeOK
  <2>4. job[r].pc # "none" /\ UNCHANGED <<status, entries, metrics, runs, starter, faults, overlapped>>
    BY <1>8 DEF DeleteOld, database
  <2> QED BY <1>0, <2>2, <2>3, <2>4, JobStepTypes DEF TypeOK
<1>9. CASE CommitRun(r)
  BY <1>0, <1>9, CommitTypes, ProceedsTypes DEF CommitRun
<1>10. CASE StatementFails(r)  BY <1>0, <1>10, ProceedsTypes DEF StatementFails
<1>11. CASE MarkFailed(r)  BY <1>0, <1>11, ProceedsTypes DEF MarkFailed
<1> QED BY <1>1, <1>2, <1>3, <1>4, <1>5, <1>6, <1>7, <1>8, <1>9, <1>10, <1>11 DEF Execute

LEMMA FaultTypes ==
  ASSUME TypeOK, Crash \/ \E r \in Run : CommitAnswerLost(r) \/ MarkFailedFails(r)
  PROVE  TypeOK'
<1>0. faults < MaxFaults => faults + 1 \in 0 .. MaxFaults
  BY BoundAssumption DEF TypeOK
<1>1. CASE Crash
  BY <1>0, <1>1, DeathTypes DEF Crash
<1>2. ASSUME NEW r \in Run, CommitAnswerLost(r) PROVE TypeOK'
  BY <1>0, <1>2, CommitTypes DEF CommitAnswerLost, JobPc
<1>3. ASSUME NEW r \in Run, MarkFailedFails(r) PROVE TypeOK'
  <2>0. job[r] \in Jobs BY DEF TypeOK
  <2>1. [job[r] EXCEPT !.pc = "lost"] \in Jobs BY <2>0 DEF Jobs, JobPc
  <2>2. job' = [job EXCEPT ![r] = [job[r] EXCEPT !.pc = "lost"]]
    BY <1>3 DEF MarkFailedFails, TypeOK
  <2>3. /\ job[r].pc # "none" /\ faults' \in 0 .. MaxFaults
        /\ UNCHANGED <<status, entries, metrics, runs, starter, overlapped>>
    BY <1>0, <1>3 DEF MarkFailedFails, database
  <2> QED BY <2>1, <2>2, <2>3, JobStepTypes DEF TypeOK, RunStatus
<1> QED BY <1>1, <1>2, <1>3

LEMMA TypeStep ==
  ASSUME TypeOK, StartersKnowTheirs, Next
  PROVE  TypeOK'
<1>1. ASSUME NEW t \in Timetable, NEW new \in {"PUBLISHED", "ARCHIVED"}, ChangeStatus(t, new)
      PROVE  TypeOK'
  BY <1>1 DEF ChangeStatus, TypeOK
<1> QED BY <1>1, StartTypes, ExecuteTypes, FaultTypes DEF Next

-----------------------------------------------------------------------------
(* The quiet steps *)

LEMMA RowsTyped ==
  ASSUME TypeOK
  PROVE  /\ \A t \in Timetable : \A e \in entries[t] : e.run \in Run
         /\ \A r \in Run : \A e \in job[r].doomed : e.run \in Run
<1>1. \A x \in Rows : x.run \in Run BY DEF Rows
<1>2. \A r \in Run : job[r].doomed \subseteq Rows BY DEF TypeOK, Jobs
<1> QED BY <1>1, <1>2 DEF TypeOK

LEMMA QuietKeeps ==
  ASSUME IInv, TypeOK', Quiet
  PROVE  IInv'
<1> USE DEF IInv, Quiet
<1>1. StartersKnowTheirs' BY DEF StartersKnowTheirs, StartersRest
<1>2. RunsFollowJobs' BY DEF RunsFollowJobs
<1>3. OwnRows' BY DEF OwnRows
<1>4. SavedWhole' BY RowsTyped DEF SavedWhole, Whole
<1>5. DoomedWhole' BY RowsTyped DEF DoomedWhole, Whole
<1>6. SavedDistinct' BY DEF SavedDistinct, Distinct
<1>7. MetricsSettled' BY DEF MetricsSettled, TypeOK
<1>8. ASSUME ~overlapped' PROVE Undisturbed'
  <2>0. Undisturbed BY <1>8
  <2>1. OneStarter' BY <2>0 DEF Undisturbed, OneStarter, StartersRest
  <2>2. CreatesWhenFree' BY <2>0 DEF Undisturbed, CreatesWhenFree, StartersRest, Busy
  <2>3. OneActive' BY <2>0 DEF Undisturbed, OneActive
  <2>4. DoomsAll' BY <2>0 DEF Undisturbed, DoomsAll
  <2>5. ShowsOneRun' BY <2>0 DEF Undisturbed, ShowsOneRun, TypeOK
  <2> QED BY <2>1, <2>2, <2>3, <2>4, <2>5 DEF Undisturbed
<1> QED BY <1>1, <1>2, <1>3, <1>4, <1>5, <1>6, <1>7, <1>8

(* One job gets on, not yet into the transaction's second half, and its    *)
(* run starts or ends.                                                     *)
LEMMA QuietMove ==
  ASSUME IInv, NEW r \in Run, Working(r) \/ job[r].pc = "failing",
         NEW j \in Jobs, job' = [job EXCEPT ![r] = j],
         j.rows = job[r].rows, j.doomed = job[r].doomed,
         \/ j.pc \in {"failing", "done", "lost"}
         \/ Working(r) /\ j.pc \in {"build", "spawn", "worker", "saving", "delete"},
         NEW new \in {"RUNNING", "FAILED"},
         new = "RUNNING" => Working(r),
         new = "FAILED" => j.pc \in {"failing", "done", "lost"},
         runs' = runs \/ runs' = [runs EXCEPT ![r].status = new],
         UNCHANGED <<entries, metrics, starter, overlapped>>
  PROVE  Quiet
<1>1. TypeOK /\ RunsFollowJobs BY DEF IInv
<1>2. job[r] # NoJob BY DEF NoJob, Working
<1>3. runs[r].status # "NONE" /\ (Working(r) => Active(r)) BY <1>1, <1>2 DEF RunsFollowJobs
<1>4. \A q \in Run : job'[q] = IF q = r THEN j ELSE job[q] BY <1>1 DEF TypeOK
<1>5. \A q \in Run : /\ runs'[q].tt = runs[q].tt
                     /\ q # r => runs'[q] = runs[q]
  BY <1>1 DEF TypeOK
<1>6. runs'[r].status \in {runs[r].status, new} BY <1>1 DEF TypeOK
<1>7. ASSUME NEW q \in Run, q # r
      PROVE  /\ job'[q] = job[q] /\ runs'[q] = runs[q]
  BY <1>4, <1>5, <1>7
<1>8. /\ job'[r] = j
      /\ Active(r)' => Active(r)
      /\ runs'[r].status # "NONE"
      /\ Working(r)' => Active(r)'
      /\ Settled(r) => Settled(r)'
      /\ job'[r].pc # "insert"
  BY <1>3, <1>4, <1>6 DEF Active, Working, Settled
<1>9. StartersRest /\ UNCHANGED <<entries, metrics, overlapped>> BY DEF StartersRest
<1>10. ASSUME NEW q \in Run
      PROVE  /\ job'[q].rows = job[q].rows /\ job'[q].doomed = job[q].doomed
             /\ runs'[q].tt = runs[q].tt
             /\ Active(q)' => Active(q)
             /\ runs'[q].status = "NONE" => runs[q].status = "NONE" /\ job'[q] = job[q]
             /\ Working(q)' => Active(q)'
             /\ Settled(q) => Settled(q)'
             /\ job'[q].pc = "insert" => job[q].pc = "insert"
  <2>1. CASE q = r BY <2>1, <1>5, <1>8 DEF Active, Working, Settled
  <2>2. CASE q # r
    BY <2>2, <1>1, <1>7 DEF RunsFollowJobs, Active, Working, Settled
  <2> QED BY <2>1, <2>2
<1> QED BY <1>9, <1>10 DEF Quiet

LEMMA QuietProceeds ==
  ASSUME IInv, TypeOK', NEW r \in Run, NEW from, NEW to, Proceeds(r, from, to),
         Working(r) \/ job[r].pc = "failing",
         \/ to \in {"failing", "done", "lost"}
         \/ Working(r) /\ to \in {"build", "spawn", "worker", "saving", "delete"},
         NEW new \in {"RUNNING", "FAILED"},
         new = "RUNNING" => Working(r),
         new = "FAILED" => to \in {"failing", "done", "lost"},
         runs' = runs \/ runs' = [runs EXCEPT ![r].status = new]
  PROVE  IInv'
<1> DEFINE j == [job[r] EXCEPT !.pc = to]
<1>1. job \in [Run -> Jobs] /\ job' \in [Run -> Jobs] BY DEF IInv, TypeOK
<1>2. job' = [job EXCEPT ![r] = j] BY <1>1 DEF Proceeds
<1>3. job'[r] \in Jobs /\ job'[r] = j BY <1>1, <1>2
<1>4. j.rows = job[r].rows /\ j.doomed = job[r].doomed /\ j.pc = to BY <1>1 DEF Jobs
<1>5. UNCHANGED <<entries, metrics, starter, overlapped>> BY DEF Proceeds
<1>6. Quiet BY <1>2, <1>3, <1>4, <1>5, QuietMove
<1> QED BY <1>6, QuietKeeps

LEMMA DeathIsQuiet ==
  ASSUME IInv, ProcessDies
  PROVE  Quiet
<1>1. TypeOK /\ RunsFollowJobs BY DEF IInv
<1>2. /\ UNCHANGED <<entries, metrics, runs, overlapped>> /\ StartersRest
  BY DEF ProcessDies, database, StartersRest
<1>3. ASSUME NEW r \in Run
      PROVE  /\ job'[r].rows = job[r].rows /\ job'[r].doomed = job[r].doomed
             /\ InProcess(r) => job'[r].pc = "lost"
             /\ ~InProcess(r) => job'[r] = job[r]
  BY <1>1 DEF ProcessDies, TypeOK, Jobs
<1>4. ASSUME NEW r \in Run, runs[r].status = "NONE" PROVE ~InProcess(r)
  BY <1>1, <1>4 DEF RunsFollowJobs, NoJob, InProcess
<1> QED
  BY <1>1, <1>2, <1>3, <1>4 DEF Quiet, Active, Working, Settled, InProcess, RunsFollowJobs

-----------------------------------------------------------------------------
(* The steps that are not quiet *)

LEMMA BeginStartKeeps ==
  ASSUME IInv, TypeOK', NEW s \in Starter, NEW t \in Timetable, BeginStart(s, t)
  PROVE  IInv'
<1> USE DEF IInv
<1>1. /\ UNCHANGED <<entries, metrics, runs, job>>
      /\ starter[s].pc = "idle"
      /\ \A q \in Starter : starter'[q] = IF q = s THEN [pc |-> "busy", tt |-> t] ELSE starter[q]
      /\ overlapped' = (overlapped \/ \E other \in Starter : starter[other].tt = t)
  BY DEF BeginStart, database, TypeOK
<1>2. StartersKnowTheirs' BY <1>1, NullAssumption DEF StartersKnowTheirs
<1>3. (RunsFollowJobs /\ OwnRows /\ SavedWhole /\ DoomedWhole /\ SavedDistinct /\ MetricsSettled)'
  BY <1>1 DEF RunsFollowJobs, OwnRows, SavedWhole, DoomedWhole, SavedDistinct, MetricsSettled,
     Whole, Distinct, Active, Working, Settled
<1>4. ASSUME ~overlapped' PROVE Undisturbed'
  <2>0. Undisturbed /\ \A q \in Starter : starter[q].tt # t BY <1>1, <1>4
  <2>1. OneStarter' BY <2>0, <1>1 DEF Undisturbed, OneStarter
  <2>2. CreatesWhenFree' BY <2>0, <1>1 DEF Undisturbed, CreatesWhenFree, Busy, Active
  <2>3. (OneActive /\ DoomsAll /\ ShowsOneRun)'
    BY <2>0, <1>1 DEF Undisturbed, OneActive, DoomsAll, ShowsOneRun, Active
  <2> QED BY <2>1, <2>2, <2>3 DEF Undisturbed
<1> QED BY <1>2, <1>3, <1>4

LEMMA CheckBusyKeeps ==
  ASSUME IInv, TypeOK', NEW s \in Starter, CheckBusy(s)
  PROVE  IInv'
<1> USE DEF IInv
<1>1. /\ UNCHANGED <<entries, metrics, runs, job, overlapped>>
      /\ starter[s].pc = "busy"
      /\ \A q \in Starter : q # s => starter'[q] = starter[q]
      /\ \/ starter'[s] = [pc |-> "idle", tt |-> None]
         \/ ~Busy(starter[s].tt) /\ starter'[s].pc = "create" /\ starter'[s].tt = starter[s].tt
  BY DEF CheckBusy, NoLongerStarting, database, TypeOK
<1>2. StartersKnowTheirs' BY <1>1 DEF StartersKnowTheirs
<1>3. (RunsFollowJobs /\ OwnRows /\ SavedWhole /\ DoomedWhole /\ SavedDistinct /\ MetricsSettled)'
  BY <1>1 DEF RunsFollowJobs, OwnRows, SavedWhole, DoomedWhole, SavedDistinct, MetricsSettled,
     Whole, Distinct, Active, Working, Settled
<1>4. ASSUME ~overlapped' PROVE Undisturbed'
  <2>0. Undisturbed BY <1>1, <1>4
  <2>1. OneStarter' BY <2>0, <1>1 DEF Undisturbed, OneStarter
  <2>2. CreatesWhenFree' BY <2>0, <1>1 DEF Undisturbed, CreatesWhenFree, Busy, Active
  <2>3. (OneActive /\ DoomsAll /\ ShowsOneRun)'
    BY <2>0, <1>1 DEF Undisturbed, OneActive, DoomsAll, ShowsOneRun, Active
  <2> QED BY <2>1, <2>2, <2>3 DEF Undisturbed
<1> QED BY <1>2, <1>3, <1>4

(* The new run is the only active one of its timetable: no other request   *)
(* has been there since it was found free.                                 *)
LEMMA CreateRunKeeps ==
  ASSUME IInv, TypeOK', NEW s \in Starter, NEW r \in Run, CreateRun(s, r)
  PROVE  IInv'
<1> USE DEF IInv
<1> DEFINE t == starter[s].tt
<1>1. /\ UNCHANGED <<entries, metrics, overlapped>>
      /\ starter[s].pc = "create" /\ runs[r].status = "NONE"
      /\ \A q \in Starter : starter'[q] = IF q = s THEN [pc |-> "idle", tt |-> None] ELSE starter[q]
      /\ \A q \in Run : q # r => runs'[q] = runs[q] /\ job'[q] = job[q]
      /\ runs'[r] = [status |-> "QUEUED", tt |-> t]
      /\ job'[r] = [job[r] EXCEPT !.pc = "begin"]
  BY DEF CreateRun, NoLongerStarting, TypeOK
<1>2. job[r] = NoJob BY <1>1 DEF RunsFollowJobs
<1>3. job'[r].pc = "begin" /\ job'[r].rows = {} /\ job'[r].doomed = {} /\ ~Settled(r)
  BY <1>1, <1>2 DEF NoJob, Settled
<1>4. StartersKnowTheirs' BY <1>1 DEF StartersKnowTheirs
<1>5. RunsFollowJobs' BY <1>1, <1>3 DEF RunsFollowJobs, Active, Working
<1>6. OwnRows' BY <1>1, <1>3 DEF OwnRows
<1>7. \A q \in Run : Settled(q) => q # r /\ job'[q] = job[q] /\ Settled(q)'
  BY <1>1, <1>3 DEF Settled
<1>8. SavedWhole' BY <1>1, <1>7, RowsTyped DEF SavedWhole, Whole
<1>9. DoomedWhole'
  <2> SUFFICES ASSUME NEW q \in Run PROVE Whole(job[q].doomed)' BY DEF DoomedWhole
  <2>1. CASE q = r BY <2>1, <1>3 DEF Whole
  <2>2. CASE q # r BY <2>2, <1>1, <1>7, RowsTyped DEF DoomedWhole, Whole
  <2> QED BY <2>1, <2>2
<1>10. SavedDistinct' BY <1>1 DEF SavedDistinct, Distinct
<1>11. MetricsSettled' BY <1>1, <1>7 DEF MetricsSettled, TypeOK
<1>12. ASSUME ~overlapped' PROVE Undisturbed'
  <2>0. Undisturbed /\ ~Busy(t) BY <1>1, <1>12 DEF Undisturbed, CreatesWhenFree
  <2>1. OneStarter' BY <2>0, <1>1 DEF Undisturbed, OneStarter
  <2>2. \A q \in Starter : starter'[q].pc = "create" => starter[q] = starter'[q] /\ starter[q].tt # t
    BY <2>0, <1>1 DEF Undisturbed, OneStarter, StartersKnowTheirs
  <2>3. \A q \in Run : Active(q)' => q = r \/ (Active(q) /\ runs'[q].tt = runs[q].tt)
    <3> SUFFICES ASSUME NEW q \in Run, q # r, Active(q)'
                 PROVE  Active(q) /\ runs'[q].tt = runs[q].tt
      OBVIOUS
    <3>1. runs'[q] = runs[q] BY <1>1
    <3> QED BY <3>1 DEF Active
  <2>4. CreatesWhenFree' BY <2>0, <2>2, <2>3, <1>1 DEF Undisturbed, CreatesWhenFree, Busy
  <2>5. OneActive' BY <2>0, <2>3, <1>1 DEF Undisturbed, OneActive, Busy
  <2>6. DoomsAll' BY <2>0, <1>1, <1>3 DEF Undisturbed, DoomsAll
  <2>7. ShowsOneRun' BY <2>0, <1>1, <1>7 DEF Undisturbed, ShowsOneRun, MetricsSettled, TypeOK
  <2> QED BY <2>1, <2>4, <2>5, <2>6, <2>7 DEF Undisturbed
<1> QED BY <1>4, <1>5, <1>6, <1>8, <1>9, <1>10, <1>11, <1>12

(* New rows, of a job that has saved none yet. *)
LEMMA SolvedKeeps ==
  ASSUME IInv, TypeOK', NEW r \in Run, job[r].pc \in {"spawn", "worker"},
         NEW P, Solved(r, P)
  PROVE  IInv'
<1> USE DEF IInv
<1>1. /\ UNCHANGED <<entries, metrics, overlapped, runs, starter>>
      /\ \A q \in Run : q # r => job'[q] = job[q]
      /\ job'[r] = [job[r] EXCEPT !.pc = "saving", !.rows = RowsOf(r, P)]
  BY DEF Solved, TypeOK, database
<1>2. /\ job'[r].pc = "saving" /\ job'[r].rows = RowsOf(r, P)
      /\ job'[r].doomed = job[r].doomed
      /\ Working(r) /\ ~Settled(r)
  BY <1>1 DEF TypeOK, Jobs, Working, Settled
<1>3. StartersKnowTheirs' BY <1>1 DEF StartersKnowTheirs
<1>4. RunsFollowJobs'
  <2>1. Active(r) BY <1>2 DEF RunsFollowJobs
  <2> QED BY <2>1, <1>1 DEF RunsFollowJobs, Active, Working
<1>5. OwnRows'
  <2>1. \A x \in RowsOf(r, P) : x.run = r BY DEF RowsOf
  <2> QED BY <2>1, <1>1, <1>2 DEF OwnRows
<1>6. \A q \in Run : Settled(q) => q # r /\ job'[q] = job[q] /\ Settled(q)'
  BY <1>1, <1>2 DEF Settled
<1>7. SavedWhole' BY <1>1, <1>6, RowsTyped DEF SavedWhole, Whole
<1>8. DoomedWhole'
  <2>1. \A q \in Run : job'[q].doomed = job[q].doomed BY <1>1, <1>2
  <2> QED BY <2>1, <1>6, RowsTyped DEF DoomedWhole, Whole
<1>9. SavedDistinct' BY <1>1 DEF SavedDistinct, Distinct
<1>10. MetricsSettled' BY <1>1, <1>6 DEF MetricsSettled, TypeOK
<1>11. ASSUME ~overlapped' PROVE Undisturbed'
  <2>0. Undisturbed BY <1>1, <1>11
  <2>1. (OneStarter /\ CreatesWhenFree /\ OneActive)'
    BY <2>0, <1>1 DEF Undisturbed, OneStarter, CreatesWhenFree, OneActive, Busy, Active
  <2>2. DoomsAll' BY <2>0, <1>1, <1>2 DEF Undisturbed, DoomsAll
  <2>3. ShowsOneRun' BY <2>0, <1>1, <1>6 DEF Undisturbed, ShowsOneRun, MetricsSettled, TypeOK
  <2> QED BY <2>1, <2>2, <2>3 DEF Undisturbed
<1> QED BY <1>3, <1>4, <1>5, <1>7, <1>8, <1>9, <1>10, <1>11

LEMMA DeleteOldKeeps ==
  ASSUME IInv, TypeOK', NEW r \in Run, DeleteOld(r)
  PROVE  IInv'
<1> USE DEF IInv
<1>1. /\ UNCHANGED <<entries, metrics, overlapped, runs, starter>>
      /\ \A q \in Run : q # r => job'[q] = job[q]
      /\ job'[r] = [job[r] EXCEPT !.pc = "insert", !.doomed = entries[runs[r].tt]]
      /\ job[r].pc = "delete"
  BY DEF DeleteOld, TypeOK, database
<1>2. /\ job'[r].pc = "insert" /\ job'[r].rows = job[r].rows
      /\ job'[r].doomed = entries[runs[r].tt]
      /\ Working(r) /\ ~Settled(r) /\ runs[r].tt \in Timetable
  BY <1>1 DEF TypeOK, Jobs, Working, Settled
<1>3. StartersKnowTheirs' BY <1>1 DEF StartersKnowTheirs
<1>4. RunsFollowJobs'
  <2>1. Active(r) BY <1>2 DEF RunsFollowJobs
  <2> QED BY <2>1, <1>1 DEF RunsFollowJobs, Active, Working
<1>5. OwnRows' BY <1>1, <1>2 DEF OwnRows
<1>6. \A q \in Run : Settled(q) => q # r /\ job'[q] = job[q] /\ Settled(q)'
  BY <1>1, <1>2 DEF Settled
<1>7. SavedWhole' BY <1>1, <1>6, RowsTyped DEF SavedWhole, Whole
<1>8. DoomedWhole'
  <2> SUFFICES ASSUME NEW q \in Run PROVE Whole(job[q].doomed)' BY DEF DoomedWhole
  <2>1. CASE q = r
    <3>1. job'[q].doomed = entries'[runs[r].tt] BY <2>1, <1>1, <1>2
    <3> QED BY <3>1, <1>2, <1>7 DEF SavedWhole, Whole
  <2>2. CASE q # r BY <2>2, <1>1, <1>6, RowsTyped DEF DoomedWhole, Whole
  <2> QED BY <2>1, <2>2
<1>9. SavedDistinct' BY <1>1 DEF SavedDistinct, Distinct
<1>10. MetricsSettled' BY <1>1, <1>6 DEF MetricsSettled, TypeOK
<1>11. ASSUME ~overlapped' PROVE Undisturbed'
  <2>0. Undisturbed BY <1>1, <1>11
  <2>1. (OneStarter /\ CreatesWhenFree /\ OneActive)'
    BY <2>0, <1>1 DEF Undisturbed, OneStarter, CreatesWhenFree, OneActive, Busy, Active
  <2>2. DoomsAll' BY <2>0, <1>1, <1>2 DEF Undisturbed, DoomsAll
  <2>3. ShowsOneRun' BY <2>0, <1>1, <1>6 DEF Undisturbed, ShowsOneRun, MetricsSettled, TypeOK
  <2> QED BY <2>1, <2>2, <2>3 DEF Undisturbed
<1> QED BY <1>3, <1>4, <1>5, <1>7, <1>8, <1>9, <1>10, <1>11

(* Whole rows less whole rows are whole. *)
LEMMA WholeWithout ==
  ASSUME OwnRows, NEW t \in Timetable, NEW r \in Run, TypeOK,
         Whole(entries[t]), Whole(job[r].doomed)
  PROVE  Whole(entries[t] \ job[r].doomed)
<1> SUFFICES ASSUME NEW e \in entries[t], e \notin job[r].doomed,
                    NEW f \in job[e.run].rows, f \in job[r].doomed
             PROVE  FALSE
  BY DEF Whole
<1>1. e \in job[e.run].rows BY DEF Whole
<1>2. f.run = e.run BY RowsTyped DEF OwnRows
<1>3. job[f.run].rows \subseteq job[r].doomed BY DEF Whole
<1> QED BY <1>1, <1>2, <1>3

(* The commit: the lessons that were not there to be deleted stay, whole,  *)
(* and there are none of them unless requests overlapped.                  *)
LEMMA CommitKeeps ==
  ASSUME IInv, TypeOK', NEW r \in Run, job[r].pc = "insert", Distinct(Saved(r)),
         Commit(r), NEW to \in {"done", "failing"}, job' = [job EXCEPT ![r].pc = to]
  PROVE  IInv'
<1> USE DEF IInv
<1> DEFINE t == runs[r].tt
<1>1. /\ \A q \in Run : q # r => job'[q] = job[q] /\ runs'[q] = runs[q]
      /\ job'[r] = [job[r] EXCEPT !.pc = to]
      /\ runs'[r] = [runs[r] EXCEPT !.status = "SUCCEEDED"]
      /\ UNCHANGED <<starter, overlapped>>
  BY DEF Commit, TypeOK
<1>2. /\ job'[r].pc = to /\ job'[r].rows = job[r].rows /\ job'[r].doomed = job[r].doomed
      /\ Working(r) /\ ~Settled(r) /\ Settled(r)' /\ t \in Timetable
      /\ runs'[r].status = "SUCCEEDED" /\ runs'[r].tt = t
  BY <1>1 DEF TypeOK, Jobs, Working, Settled
<1>3. /\ entries'[t] = (entries[t] \ job[r].doomed) \cup job[r].rows
      /\ metrics'[t] = r
      /\ \A u \in Timetable : u # t => entries'[u] = entries[u] /\ metrics'[u] = metrics[u]
  BY <1>2 DEF Commit, Saved, TypeOK
<1>4. StartersKnowTheirs' BY <1>1 DEF StartersKnowTheirs
<1>5. RunsFollowJobs' BY <1>1, <1>2 DEF RunsFollowJobs, Active, Working
<1>6. \A q \in Run : job'[q].rows = job[q].rows /\ job'[q].doomed = job[q].doomed
  BY <1>1, <1>2
<1>7. OwnRows' BY <1>6 DEF OwnRows
<1>8. \A q \in Run : Settled(q) => Settled(q)'
  BY <1>1, <1>2 DEF Settled
<1>9. SavedWhole'
  <2> SUFFICES ASSUME NEW u \in Timetable PROVE Whole(entries[u])' BY DEF SavedWhole
  <2>1. CASE u # t BY <2>1, <1>3, <1>6, <1>8, RowsTyped DEF SavedWhole, Whole
  <2>2. CASE u = t
    <3>1. Whole(entries[t] \ job[r].doomed)
      BY <1>2, WholeWithout DEF SavedWhole, DoomedWhole
    <3>2. ASSUME NEW e \in job[r].rows
          PROVE  e.run = r
      BY <3>2 DEF OwnRows
    <3>3. \A e \in entries[t] : e.run \in Run BY <1>2, RowsTyped
    <3>4. ASSUME NEW e \in entries'[t]
          PROVE  /\ Settled(e.run)' /\ e \in job'[e.run].rows
                 /\ job'[e.run].rows \subseteq entries'[t]
      <4>1. CASE e \in job[r].rows BY <4>1, <3>2, <1>2, <1>3
      <4>2. CASE e \in entries[t] \ job[r].doomed
        BY <4>2, <3>1, <3>3, <1>3, <1>6, <1>8 DEF Whole
      <4> QED BY <3>4, <4>1, <4>2, <1>3
    <3> QED BY <2>2, <3>4, <1>2 DEF Whole
  <2> QED BY <2>1, <2>2
<1>10. DoomedWhole' BY <1>6, <1>8, RowsTyped DEF DoomedWhole, Whole
<1>11. SavedDistinct'
  <2>1. Distinct(entries'[t]) BY <1>3 DEF Saved
  <2> QED BY <2>1, <1>3 DEF SavedDistinct, Distinct
<1>12. MetricsSettled' BY <1>2, <1>3, <1>8 DEF MetricsSettled, TypeOK
<1>13. ASSUME ~overlapped' PROVE Undisturbed'
  <2>0. Undisturbed BY <1>1, <1>13
  <2>1. \A q \in Run : Active(q)' => q # r /\ Active(q)
    BY <1>1, <1>2 DEF Active
  <2>2. \A q \in Run : runs'[q].tt = runs[q].tt BY <1>1, <1>2
  <2>3. (OneStarter /\ CreatesWhenFree /\ OneActive)'
    BY <2>0, <2>1, <2>2, <1>1 DEF Undisturbed, OneStarter, CreatesWhenFree, OneActive, Busy
  <2>4. DoomsAll'
    <3> SUFFICES ASSUME NEW q \in Run, job'[q].pc = "insert"
                 PROVE  job'[q].doomed = entries'[runs'[q].tt]
      BY DEF DoomsAll
    <3>1. q # r /\ job[q].pc = "insert" BY <1>1, <1>2
    <3>2. Active(q) /\ Active(r) BY <3>1 DEF RunsFollowJobs, Working
    <3>3. runs[q].tt # t BY <3>1, <3>2, <2>0 DEF Undisturbed, OneActive
    <3>4. runs[q].tt \in Timetable BY <3>1 DEF TypeOK
    <3> QED BY <3>1, <3>3, <3>4, <2>0, <2>2, <1>3, <1>6 DEF Undisturbed, DoomsAll
  <2>5. ShowsOneRun'
    <3> SUFFICES ASSUME NEW u \in Timetable
                 PROVE  entries'[u] = IF metrics'[u] = None THEN {} ELSE job'[metrics'[u]].rows
      BY DEF ShowsOneRun
    <3>1. CASE u # t BY <3>1, <2>0, <1>3, <1>6 DEF Undisturbed, ShowsOneRun, TypeOK
    <3>2. CASE u = t
      <4>1. job[r].doomed = entries[t] BY <2>0 DEF Undisturbed, DoomsAll
      <4> QED BY <3>2, <4>1, <1>2, <1>3, NullAssumption
    <3> QED BY <3>1, <3>2
  <2> QED BY <2>3, <2>4, <2>5 DEF Undisturbed
<1> QED BY <1>4, <1>5, <1>7, <1>9, <1>10, <1>11, <1>12, <1>13

-----------------------------------------------------------------------------
(* The invariant *)

LEMMA InvInit == Init => IInv
<1> SUFFICES ASSUME Init PROVE IInv OBVIOUS
<1>1. TypeOK BY TypeInit
<1>2. /\ \A t \in Timetable : entries[t] = {} /\ metrics[t] = None
      /\ \A r \in Run : /\ runs[r].status = "NONE" /\ job[r] = NoJob
                        /\ job[r].pc = "none" /\ job[r].rows = {} /\ job[r].doomed = {}
      /\ \A s \in Starter : starter[s].pc = "idle" /\ starter[s].tt = None
  BY DEF Init, NoJob
<1>3. /\ StartersKnowTheirs /\ RunsFollowJobs /\ OwnRows
      /\ SavedWhole /\ DoomedWhole /\ SavedDistinct /\ MetricsSettled
  BY <1>2 DEF StartersKnowTheirs, RunsFollowJobs, OwnRows, SavedWhole, DoomedWhole,
     SavedDistinct, MetricsSettled, Whole, Distinct, Working
<1>4. Undisturbed
  BY <1>2 DEF Undisturbed, OneStarter, CreatesWhenFree, OneActive, DoomsAll, ShowsOneRun, Active
<1> QED BY <1>1, <1>3, <1>4 DEF IInv

LEMMA ExecuteKeeps ==
  ASSUME IInv, TypeOK', NEW r \in Run, Execute(r)
  PROVE  IInv'
<1>1. CASE MarkRunning(r)
  BY <1>1, QuietProceeds DEF MarkRunning, Proceeds, Working
<1>2. ASSUME NEW solvable \in BOOLEAN, BuildProblem(r, solvable) PROVE IInv'
  <2> DEFINE j == [job[r] EXCEPT !.pc = "spawn", !.solvable = solvable]
  <2>1. job \in [Run -> Jobs] /\ job' \in [Run -> Jobs] BY DEF IInv, TypeOK
  <2>2. job' = [job EXCEPT ![r] = j] BY <1>2, <2>1 DEF BuildProblem
  <2>3. j \in Jobs BY <2>1, <2>2
  <2>4. j.rows = job[r].rows /\ j.doomed = job[r].doomed /\ j.pc = "spawn" BY <2>1 DEF Jobs
  <2>5. UNCHANGED <<entries, metrics, runs, starter, overlapped>> /\ Working(r)
    BY <1>2 DEF BuildProblem, database, Working
  <2>6. Quiet BY <2>2, <2>3, <2>4, <2>5, QuietMove
  <2> QED BY <2>6, QuietKeeps
<1>3. CASE SpawnWorker(r)
  BY <1>3, QuietProceeds DEF SpawnWorker, Proceeds, Working
<1>4. ASSUME NEW P \in Placements, SolveInline(r, P) PROVE IInv'
  <2>1. job[r].pc = "spawn" /\ Working(r) BY <1>4 DEF SolveInline, Working
  <2>2. CASE job[r].solvable BY <1>4, <2>1, <2>2, SolvedKeeps DEF SolveInline
  <2>3. CASE ~job[r].solvable
    BY <1>4, <2>1, <2>3, QuietProceeds DEF SolveInline
  <2> QED BY <2>2, <2>3
<1>5. ASSUME NEW P \in Placements, WorkerAnswers(r, P) PROVE IInv'
  BY <1>5, SolvedKeeps DEF WorkerAnswers
<1>6. ASSUME NEW P \in Placements, WorkerBreaks(r, P) PROVE IInv'
  BY <1>6, SolvedKeeps, DeathIsQuiet, QuietKeeps DEF WorkerBreaks
<1>7. CASE MarkSaving(r)
  BY <1>7, QuietProceeds DEF MarkSaving, Proceeds, Working
<1>8. CASE DeleteOld(r)  BY <1>8, DeleteOldKeeps
<1>9. CASE CommitRun(r)
  <2>1. job[r].pc = "insert" /\ Working(r) BY <1>9 DEF CommitRun, Working
  <2>2. CASE Distinct(Saved(r)) BY <1>9, <2>1, <2>2, CommitKeeps DEF CommitRun
  <2>3. CASE ~Distinct(Saved(r)) BY <1>9, <2>1, <2>3, QuietProceeds DEF CommitRun
  <2> QED BY <2>2, <2>3
<1>10. CASE StatementFails(r)
  <2>1. PICK pc \in {"begin", "build", "saving", "delete", "insert"} :
            Proceeds(r, pc, "failing") /\ UNCHANGED runs
    BY <1>10 DEF StatementFails
  <2>2. Working(r) BY <2>1 DEF Proceeds, Working
  <2> QED BY <2>1, <2>2, QuietProceeds
<1>11. CASE MarkFailed(r)
  <2>1. job[r].pc = "failing" BY <1>11 DEF MarkFailed, Proceeds
  <2> QED BY <1>11, <2>1, QuietProceeds DEF MarkFailed
<1> QED BY <1>1, <1>2, <1>3, <1>4, <1>5, <1>6, <1>7, <1>8, <1>9, <1>10, <1>11 DEF Execute

LEMMA FaultKeeps ==
  ASSUME IInv, TypeOK', Crash \/ \E r \in Run : CommitAnswerLost(r) \/ MarkFailedFails(r)
  PROVE  IInv'
<1>1. CASE Crash  BY <1>1, DeathIsQuiet, QuietKeeps DEF Crash
<1>2. ASSUME NEW r \in Run, CommitAnswerLost(r) PROVE IInv'
  BY <1>2, CommitKeeps DEF CommitAnswerLost
<1>3. ASSUME NEW r \in Run, MarkFailedFails(r) PROVE IInv'
  <2> DEFINE j == [job[r] EXCEPT !.pc = "lost"]
  <2>1. job \in [Run -> Jobs] /\ job' \in [Run -> Jobs] BY DEF IInv, TypeOK
  <2>2. job' = [job EXCEPT ![r] = j] BY <1>3, <2>1 DEF MarkFailedFails
  <2>3. j \in Jobs BY <2>1, <2>2
  <2>4. j.rows = job[r].rows /\ j.doomed = job[r].doomed /\ j.pc = "lost" BY <2>1 DEF Jobs
  <2>5. UNCHANGED <<entries, metrics, runs, starter, overlapped>> /\ job[r].pc = "failing"
    BY <1>3 DEF MarkFailedFails, database
  <2>6. Quiet BY <2>2, <2>3, <2>4, <2>5, QuietMove
  <2> QED BY <2>6, QuietKeeps
<1> QED BY <1>1, <1>2, <1>3

LEMMA InvNext == IInv /\ [Next]_vars => IInv'
<1> SUFFICES ASSUME IInv, [Next]_vars PROVE IInv' OBVIOUS
<1>1. TypeOK'
  BY TypeStep DEF IInv, vars, database, TypeOK
<1>2. ASSUME NEW s \in Starter, Start(s) PROVE IInv'
  BY <1>1, <1>2, CheckBusyKeeps, CreateRunKeeps DEF Start
<1>3. ASSUME NEW s \in Starter, NEW t \in Timetable, BeginStart(s, t) PROVE IInv'
  BY <1>1, <1>3, BeginStartKeeps
<1>4. ASSUME NEW r \in Run, Execute(r) PROVE IInv'
  BY <1>1, <1>4, ExecuteKeeps
<1>5. CASE Crash \/ \E r \in Run : CommitAnswerLost(r) \/ MarkFailedFails(r)
  BY <1>1, <1>5, FaultKeeps
<1>6. CASE UNCHANGED <<entries, metrics, runs, job, starter, overlapped>>
  <2>1. Quiet BY <1>6 DEF Quiet, StartersRest, IInv, RunsFollowJobs, Active, Working, Settled
  <2> QED BY <1>1, <2>1, QuietKeeps
<1>7. ASSUME NEW t \in Timetable, NEW new \in {"PUBLISHED", "ARCHIVED"}, ChangeStatus(t, new)
      PROVE  IInv'
  BY <1>6, <1>7 DEF ChangeStatus
<1>8. CASE UNCHANGED vars  BY <1>6, <1>8 DEF vars, database
<1> QED BY <1>2, <1>3, <1>4, <1>5, <1>7, <1>8 DEF Next

(* The invariant of every reachable state. *)
THEOREM InvHolds == Spec => []IInv
  BY InvInit, InvNext, PTL DEF Spec

(* Every variable keeps to its values, through crashes and lost answers,   *)
(* and a job that exists always has a timetable to work for.               *)
THEOREM TypeCorrect == Spec => []TypeOK
<1>1. IInv => TypeOK BY DEF IInv
<1> QED BY <1>1, InvHolds, PTL

(* GeneratorService.start refuses a second run while one is active: one    *)
(* run per timetable, as long as two requests for it do not overlap.       *)
THEOREM OneRunHolds == Spec => []OneRunAtATime
<1>1. IInv => OneRunAtATime BY DEF IInv, Undisturbed, OneActive, OneRunAtATime
<1> QED BY <1>1, InvHolds, PTL

(* execute's transaction replaces a timetable's lessons wholesale: they    *)
(* are exactly those of the run whose metrics it shows.                    *)
THEOREM OneRunsLessonsHold == Spec => []LessonsAreOneRuns
<1>1. IInv => LessonsAreOneRuns BY DEF IInv, Undisturbed, ShowsOneRun, LessonsAreOneRuns
<1> QED BY <1>1, InvHolds, PTL

(* However runs overlap and fail, a run's lessons are saved all or none    *)
(* and no two lessons of the class share a slot.                           *)
THEOREM NoPartialRunHolds == Spec => []NoPartialRun
<1>1. IInv => NoPartialRun
  BY DEF IInv, SavedDistinct, SavedWhole, Whole, NoPartialRun
<1> QED BY <1>1, InvHolds, PTL
=============================================================================
