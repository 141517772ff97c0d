------------------------------ MODULE Generation ------------------------------
(***************************************************************************)
(* Generating timetables in the background (GeneratorService).  start      *)
(* checks the timetable, then that no run is active, then creates the run  *)
(* and answers; the job it leaves behind builds the problem, has a worker  *)
(* thread solve it (or solves inline) and saves the lessons in one         *)
(* transaction.  The database outlives the server process: a crash forgets *)
(* the jobs and keeps the runs.                                            *)
(*                                                                         *)
(* The lessons here are the units of one class, so two of them never share *)
(* a slot.  The transaction runs at READ COMMITTED: deleteMany deletes the *)
(* rows that were committed when it began, the unique index sees all.      *)
(***************************************************************************)
EXTENDS Integers, FiniteSets

CONSTANTS
    Timetable,
    Lesson, Slot,
    Run,         \* the runs that may ever be created (a bound)
    Starter,     \* how many generate requests may be in flight at once (a bound)
    MaxFaults,   \* crashes, lost answers and unsolvable problems (a bound)
    None

ASSUME BoundAssumption == MaxFaults \in Nat
ASSUME NullAssumption == None \notin Timetable /\ None \notin Run

VARIABLES
    status,    \* of each timetable
    entries,   \* the timetable_entries rows of each timetable
    metrics,   \* the run whose metrics each timetable carries
    runs,      \* the timetable_runs table
    job,       \* the executions in the server process
    starter,   \* the generate requests in the server process
    faults,    \* how many faults there have been
    overlapped \* history: two generate requests for a timetable overlapped

database == <<status, entries, metrics, runs>>
vars == <<database, job, starter, faults, overlapped>>

RunStatus == {"NONE", "QUEUED", "RUNNING", "SUCCEEDED", "FAILED"}

(* A placement of some of the lessons, each in a slot of its own. *)
RowsOf(r, P) == {[run |-> r, lesson |-> p[1], slot |-> p[2]] : p \in P}
Rows == [run : Run, lesson : Lesson, slot : Slot]
Placements ==
    {P \in SUBSET (Lesson \X Slot) :
        \A p, q \in P : p # q => p[1] # q[1] /\ p[2] # q[2]}

NoJob == [pc |-> "none", solvable |-> TRUE, rows |-> {}, doomed |-> {}]

JobPc == {"none", "begin", "build", "spawn", "worker", "saving", "delete", "insert",
          "failing", "done", "lost"}
Jobs == [pc : JobPc, solvable : BOOLEAN, rows : SUBSET Rows, doomed : SUBSET Rows]

TypeOK ==
    /\ status \in [Timetable -> {"DRAFT", "PUBLISHED", "ARCHIVED"}]
    /\ entries \in [Timetable -> SUBSET Rows]
    /\ metrics \in [Timetable -> Run \cup {None}]
    /\ runs \in [Run -> [status : RunStatus, tt : Timetable \cup {None}]]
    /\ job \in [Run -> Jobs]
    /\ \A r \in Run : job[r].pc # "none" => runs[r].tt \in Timetable
    /\ starter \in [Starter -> [pc : {"idle", "busy", "create"},
                                tt : Timetable \cup {None}]]
    /\ faults \in 0 .. MaxFaults
    /\ overlapped \in BOOLEAN

-----------------------------------------------------------------------------
Active(r) == runs[r].status \in {"QUEUED", "RUNNING"}

InProcess(r) == job[r].pc \notin {"none", "done", "lost"}

(* Faulty variant: only a run that is already solving counts as busy. *)
BusyWhenRunning(t) == \E r \in Run : runs[r].tt = t /\ runs[r].status = "RUNNING"

Busy(t) == \E r \in Run : runs[r].tt = t /\ Active(r)

NoLongerStarting(s) == starter' = [starter EXCEPT ![s] = [pc |-> "idle", tt |-> None]]

BeginStart(s, t) ==
    /\ starter[s].pc = "idle"
    /\ status[t] = "DRAFT"
    /\ starter' = [starter EXCEPT ![s] = [pc |-> "busy", tt |-> t]]
    /\ overlapped' = (overlapped \/ \E other \in Starter : starter[other].tt = t)
    /\ UNCHANGED <<database, job, faults>>

CheckBusy(s) ==
    /\ starter[s].pc = "busy"
    /\ IF Busy(starter[s].tt)
       THEN NoLongerStarting(s)
       ELSE starter' = [starter EXCEPT ![s].pc = "create"]
    /\ UNCHANGED <<database, job, faults, overlapped>>

(* Faulty variant: the run does not say which timetable it is for. *)
CreateRunUnlinked(s, r) ==
    /\ starter[s].pc = "create"
    /\ runs[r].status = "NONE"
    /\ runs' = [runs EXCEPT ![r].status = "QUEUED"]
    /\ job' = [job EXCEPT ![r].pc = "begin"]
    /\ NoLongerStarting(s)
    /\ UNCHANGED <<status, entries, metrics, faults, overlapped>>

(* The run is created, the answer sent, and execute left to itself. *)
CreateRun(s, r) ==
    /\ starter[s].pc = "create"
    /\ runs[r].status = "NONE"
    /\ runs' = [runs EXCEPT ![r] = [status |-> "QUEUED", tt |-> starter[s].tt]]
    /\ job' = [job EXCEPT ![r].pc = "begin"]
    /\ NoLongerStarting(s)
    /\ UNCHANGED <<status, entries, metrics, faults, overlapped>>

-----------------------------------------------------------------------------
(* execute *)

Proceeds(r, from, to) ==
    /\ job[r].pc = from
    /\ job' = [job EXCEPT ![r].pc = to]
    /\ UNCHANGED <<status, entries, metrics, starter, faults, overlapped>>

MarkRunning(r) ==
    /\ Proceeds(r, "begin", "build")
    /\ runs' = [runs EXCEPT ![r].status = "RUNNING"]

(* Some problems make the solver throw, in the worker as well as inline. *)
BuildProblem(r, solvable) ==
    /\ job[r].pc = "build"
    /\ ~solvable => faults < MaxFaults
    /\ faults' = IF solvable THEN faults ELSE faults + 1
    /\ job' = [job EXCEPT ![r].pc = "spawn", ![r].solvable = solvable]
    /\ UNCHANGED <<database, starter, overlapped>>

Solved(r, P) ==
    /\ P \in Placements
    /\ job' = [job EXCEPT ![r].pc = "saving", ![r].rows = RowsOf(r, P)]
    /\ UNCHANGED <<database, starter, faults, overlapped>>

SpawnWorker(r) == Proceeds(r, "spawn", "worker") /\ UNCHANGED runs

(* The worker cannot be created: the solver runs inline, inside the        *)
(* promise, and what it throws becomes the run's failure.                  *)
SolveInline(r, P) ==
    /\ job[r].pc = "spawn"
    /\ IF job[r].solvable THEN Solved(r, P)
       ELSE Proceeds(r, "spawn", "failing") /\ UNCHANGED runs

WorkerAnswers(r, P) ==
    /\ job[r].pc = "worker" /\ job[r].solvable
    /\ Solved(r, P)

(* The whole server process is gone. *)
ProcessDies ==
    /\ job' = [r \in Run |-> IF InProcess(r) THEN [job[r] EXCEPT !.pc = "lost"]
                                             ELSE job[r]]
    /\ starter' = [s \in Starter |-> [pc |-> "idle", tt |-> None]]
    /\ UNCHANGED <<database, overlapped>>

(* The worker reports an error or exits: the solver runs inline in the     *)
(* event listener, where nobody catches what it throws.                    *)
WorkerBreaks(r, P) ==
    /\ job[r].pc = "worker"
    /\ IF job[r].solvable THEN Solved(r, P) ELSE ProcessDies /\ UNCHANGED faults

MarkSaving(r) == Proceeds(r, "saving", "delete") /\ UNCHANGED runs

(* Faulty variant: the old lessons are kept. *)
DeleteNothing(r) ==
    /\ job[r].pc = "delete"
    /\ job' = [job EXCEPT ![r].pc = "insert"]
    /\ UNCHANGED <<database, starter, faults, overlapped>>

(* deleteMany, in the transaction *)
DeleteOld(r) ==
    /\ job[r].pc = "delete"
    /\ job' = [job EXCEPT ![r].pc = "insert", ![r].doomed = entries[runs[r].tt]]
    /\ UNCHANGED <<database, starter, faults, overlapped>>

Distinct(rows) == \A a, b \in rows : a # b => a.slot # b.slot

(* Faulty variant: createMany skips the lessons that do not fit. *)
SavedWhatFits(r) ==
    LET kept == entries[runs[r].tt] \ job[r].doomed IN
    kept \cup {n \in job[r].rows : \A e \in kept : e.slot # n.slot}

Saved(r) == (entries[runs[r].tt] \ job[r].doomed) \cup job[r].rows

Commit(r) ==
    /\ entries' = [entries EXCEPT ![runs[r].tt] = Saved(r)]
    /\ metrics' = [metrics EXCEPT ![runs[r].tt] = r]
    /\ runs' = [runs EXCEPT ![r].status = "SUCCEEDED"]
    /\ UNCHANGED <<status, starter, overlapped>>

(* createMany, the metrics and the run's status, and the commit *)
CommitRun(r) ==
    /\ job[r].pc = "insert"
    /\ IF Distinct(Saved(r))
       THEN Commit(r) /\ job' = [job EXCEPT ![r].pc = "done"] /\ UNCHANGED faults
       ELSE Proceeds(r, "insert", "failing") /\ UNCHANGED runs

(* The commit succeeds and the server does not learn of it. *)
CommitAnswerLost(r) ==
    /\ job[r].pc = "insert"
    /\ faults < MaxFaults
    /\ Distinct(Saved(r))
    /\ Commit(r)
    /\ job' = [job EXCEPT ![r].pc = "failing"]
    /\ faults' = faults + 1

(* A statement of the job fails. *)
StatementFails(r) ==
    \E pc \in {"begin", "build", "saving", "delete", "insert"} :
        Proceeds(r, pc, "failing") /\ UNCHANGED runs

(* Faulty variant: the job ends and leaves the run as it was. *)
MarkFailedForgotten(r) == Proceeds(r, "failing", "done") /\ UNCHANGED runs

MarkFailed(r) ==
    /\ Proceeds(r, "failing", "done")
    /\ runs' = [runs EXCEPT ![r].status = "FAILED"]

(* ... and the error of that update is swallowed. *)
MarkFailedFails(r) ==
    /\ job[r].pc = "failing"
    /\ faults < MaxFaults
    /\ faults' = faults + 1
    /\ job' = [job EXCEPT ![r].pc = "lost"]
    /\ UNCHANGED <<database, starter, overlapped>>

-----------------------------------------------------------------------------
(* Publishing and archiving, by TimetablesService *)
ChangeStatus(t, new) ==
    /\ <<status[t], new>> \in {<<"DRAFT", "PUBLISHED">>, <<"DRAFT", "ARCHIVED">>,
                               <<"PUBLISHED", "ARCHIVED">>}
    /\ status' = [status EXCEPT ![t] = new]
    /\ UNCHANGED <<entries, metrics, runs, job, starter, faults, overlapped>>

Crash ==
    /\ faults < MaxFaults
    /\ faults' = faults + 1
    /\ ProcessDies

-----------------------------------------------------------------------------
Init ==
    /\ status = [t \in Timetable |-> "DRAFT"]
    /\ entries = [t \in Timetable |-> {}]
    /\ metrics = [t \in Timetable |-> None]
    /\ runs = [r \in Run |-> [status |-> "NONE", tt |-> None]]
    /\ job = [r \in Run |-> NoJob]
    /\ starter = [s \in Starter |-> [pc |-> "idle", tt |-> None]]
    /\ faults = 0
    /\ overlapped = FALSE

(* What the server does of itself once a job is running. *)
Execute(r) ==
    \/ MarkRunning(r)
    \/ \E solvable \in BOOLEAN : BuildProblem(r, solvable)
    \/ SpawnWorker(r)
    \/ \E P \in Placements : SolveInline(r, P) \/ WorkerAnswers(r, P) \/ WorkerBreaks(r, P)
    \/ MarkSaving(r) \/ DeleteOld(r) \/ CommitRun(r) \/ StatementFails(r) \/ MarkFailed(r)

Start(s) == CheckBusy(s) \/ \E r \in Run : CreateRun(s, r)

Next ==
    \/ \E s \in Starter : Start(s) \/ \E t \in Timetable : BeginStart(s, t)
    \/ \E r \in Run : Execute(r) \/ CommitAnswerLost(r) \/ MarkFailedFails(r)
    \/ \E t \in Timetable, new \in {"PUBLISHED", "ARCHIVED"} : ChangeStatus(t, new)
    \/ Crash

(* The event loop and the database answer: a job that can go on does.      *)
Spec == Init /\ [][Next]_vars /\ \A r \in Run : WF_vars(Execute(r))

-----------------------------------------------------------------------------
(* Properties *)

(* One run at a time per timetable, through crashes, lost answers and      *)
(* statements that fail, as long as generate requests for it do not        *)
(* overlap: start looks for an active run and creates one in two steps.    *)
OneRunAtATime ==
    ~overlapped =>
        \A r, q \in Run :
            Active(r) /\ Active(q) /\ runs[r].tt = runs[q].tt => r = q

(* A run replaces the timetable's lessons wholesale: what it holds is      *)
(* exactly what the run whose metrics it shows has placed, never a mixture *)
(* or a part, whenever the server dies (under the same proviso: two runs   *)
(* delete the same old lessons and both save theirs).                      *)
LessonsAreOneRuns ==
    ~overlapped =>
        \A t \in Timetable :
            entries[t] = IF metrics[t] = None THEN {} ELSE job[metrics[t]].rows

(* However runs overlap, no two lessons of the class share a slot and a    *)
(* run's lessons are there all together: the transaction is all or nothing. *)
NoPartialRun ==
    /\ \A t \in Timetable : Distinct(entries[t])
    /\ \A t \in Timetable : \A e \in entries[t] : job[e.run].rows \subseteq entries[t]

(* The client that polls sees its run finish, unless the process running   *)
(* it died or its last update was lost.                                    *)
RunFinishesUnlessLost ==
    \A r \in Run : Active(r) ~> (~Active(r) \/ job[r].pc = "lost")
=============================================================================
