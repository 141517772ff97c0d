# GridLearnia: TLA+ models and proofs

GridLearnia is a multi-tenant school API (NestJS on Node.js, Prisma, PostgreSQL).
This directory specifies its own core logic in TLA+: the modules are
model-checked with TLC on small instances, and the most important invariants are
proved with TLAPS for every instance.

Paths below are relative to the repository (`src/timetable/...` is code,
`docs/...` documentation).

## 1. The system

One Node.js process serves all requests. A handler is an `async` method: between
two `await`s other handlers run, and several processes may be deployed side by
side, so **the unit of atomicity is one database statement**, or one
`$transaction` where the code opens one. PostgreSQL runs at its default level,
READ COMMITTED: a transaction's writes are invisible until it commits, a row it
has written stays locked, and its reads see whatever committed meanwhile. The
code takes no explicit locks. What holds under concurrency therefore holds
because of a unique index or a foreign key, or not at all.

Nearly every handler has the same shape: read rows, validate, write by id. What
can go wrong lies between the read and the write, between two commits of one
handler, and in a process that stops half way.

### Components

| Component | State | Operations | Hard behaviour | What makes it correct |
|---|---|---|---|---|
| **Timetable versions** (`timetables.service.ts`) | `timetables`: status, academic year, `effectiveFrom`/`effectiveTo` | create, update, publish (supersedes the open-ended version), archive, remove, activeOn | publish looks its predecessor up outside the transaction that closes it; checks and writes race | at most one published version per day; publishing keeps the past and takes over the future; DRAFT → PUBLISHED → ARCHIVED |
| **Lesson editing** (`entry-edit.service.ts`) | `timetable_entries` | legalMoves, move, swap | validation against a load that others overtake; two implementations of "may this lesson go there" | no class, teacher or room twice at once; what is offered is accepted |
| **Swap requests** (`swap-requests.service.ts`) | `timetable_swap_requests` | create, approve, reject, cancel | an approval is an edit and a mark in two commits; two deciders | the status says what happened; a change is made once |
| **Timetable generation** (`generator.service.ts`, `solver.worker.ts`) | `timetable_runs`, and a job that lives in one process only | start; background: load, solve in a worker thread or inline, save | crash, lost commit, failing statement, overlapping starts | one run at a time; the saved lessons are one run's; a run ends |
| **Timetable solver** (`engine/solver.ts`) | occupancy maps, daily counters, score aggregates, best snapshot | construct, eject and repair, anneal (move, swap, undo) | a long sequence of place/remove that must keep several indexes and a running total equal to a recomputation | hard constraints hold throughout; no lesson is lost; the result is the best seen |
| **Timetable setup** (`timetable-setup.service.ts`) | settings, periods, rooms, requirements, unavailability | replace and generate periods, rooms, requirements, unavailability | dropping a period cascades into every timetable; two replacements of the same list | no lesson in a period or room that does not exist |
| **Readiness** (`capacity.service.ts`) | none | readiness | a pure computation over the setup | never blocks a solvable school |
| **Academic engine** (`src/academics`) | years and terms, sections, grades, classes, curricula and subjects, grading schemes and bands | CRUD with protective deletes, setCurrent, replaceTerms, replaceBands, clone | check-then-delete; one current year; hard deletes that cascade | at most one current year; no live branch on a deleted one; no history lost |
| **Students and enrolments** (`src/sis`) | students, guardians, links, enrolments | CRUD, enrol, transfer, link guardian | enrol against delete; transfer against transfer; one primary guardian | one enrolment per student and year, in its class's year and campus; one primary contact; nobody deleted on roll |
| **Staff and teaching** (`src/staff`) | staff, departments and their subjects, assignments, class teachers | CRUD, link user, assign | three counts before a delete, each against an insert | nobody deleted leads a department or teaches |
| **Attendance** (`attendance.service.ts`) | register rows | roster, mark, summary | a batch of upserts for a class that changes | one row per student and day |
| **Assessment** (`src/assessment`) | assessments, scores | create, update, saveScores, reportCard | scores of pupils who leave; cascades of subjects and classes | scores go only with what they belong to |
| **Campuses** (`campuses.service.ts`) | campuses | create, update (promote, deactivate, activate), remove | two promotions; promote against remove | exactly one live main campus |
| **Schools and modules** (`tenants.service.ts`, `tenant-modules.service.ts`) | tenants, module flags | rename, status, delete, toggle | status changed behind a deletion | a deleted school stays cancelled; a core module stays enabled |
| **Onboarding** (`school-requests.service.ts`) | school requests and their documents | saveDraft, submitDraft, create, approve, requestChanges, reject | reviewers and applicant at once; approve provisions a school in one transaction | one school per approved request; decisions final; a name asked for once |
| **Invitations** (`invitations.service.ts`) | invitations | create, revoke, accept, lapse | accept against revoke, accept against an approval | an accepted invitation is where its user went |
| **Roles and permissions** (`src/rbac`) | roles and grants, a permission cache per process | assign, remove, setPermissions, getAccess | two roots removed at once; a cache filled from a read that a change overtook | a school keeps an organisation admin; a change is seen within the cache's minute |
| **Users** (`users.service.ts`) | users | update, remove | deactivating the last organisation admin | as above |
| **Seeding** (`prisma/seed.ts`) | every table it fills | one script of several hundred statements | no transaction: it may die anywhere and is run again, over rows in use | a finished run leaves every row once; the school's own edits survive; no role is emptied for longer than a statement |
| **Rate limiting** (`src/rate-limit`) | token buckets in memory | consume, evict | refill by elapsed time; eviction at the limit | never more than the burst plus the refill |
| **Accounts and sessions** (`src/auth`) | users, codes, tokens | register, verify, login, refresh | credentials | registration makes the account onboarding is about |
| **Audit, mail, storage, health, Prisma, HTTP plumbing** | none of their own | best-effort output, connection, framework wiring | | |

### How they interact

* Setup, academic engine and staff provide the *problem*: `buildProblem` reads
  periods, rooms, requirements, assignments and unavailability in one go; the
  solver gets it as a value and never touches the database.
* Generation starts from a draft version, runs the solver in a worker thread
  (message passing, with an inline fallback when the worker breaks), and replaces
  all `timetable_entries` of the draft in one transaction.
* Edits and approved swap requests change single entries of a draft or published
  version; approving calls `EntryEditService` and then updates the request.
* Replacing periods deletes entries and requests by foreign-key cascade;
  archiving a version makes its entries read-only for `EntryEditService` alone.
* The record keeping of a school is one set of tables: a handler of one component
  counts rows of another before it deletes, and deletes cascade across components.
* Approving an application, accepting an invitation, linking staff and changing
  roles all write where an account belongs or what it holds, and each then drops
  the account's entry from the permission cache that every guarded route reads.
* The seed writes the rows of all components, and fills the roles the permission
  cache serves.

## 2. Modules

| Module | Models | Extends |
|---|---|---|
| `LiveCalendar` | the abstract promise of the versions: which version is in force when | |
| `TimetableVersions` | `TimetablesService`, statement by statement | |
| `LessonEdits` | `EntryEditService`, `SwapRequestsService`, the unique indexes, the setup changes that touch them | |
| `Generation` | `GeneratorService` with its background job, worker and crashes | |
| `Occupancy` | the solver's hard constraints: `State`'s maps, `candidates`, `canPlace`, `pickRoom` | |
| `Scoring` | the soft constraints: `score`, `addScore`, `subScore` | `Occupancy` |
| `Solver` | `solve`, `tryEject`, the annealing | `Scoring` |
| `SchoolTables` | the tables of a school and what the foreign keys of `schema.prisma` cascade | |
| `SchoolStructure` | campuses, years, sections, grades, classes, curricula, schemes: each handler's check and write | `SchoolTables` |
| `SchoolPeople` | students, guardians, enrolments, staff, departments, teaching, attendance, assessments | `SchoolStructure` |
| `SchoolRecords` | the composition: clients' requests on all of these, interleaved | `SchoolPeople` |
| `Onboarding` | applications, review, schools, modules, roles, accounts, invitations, staff links: each handler's check and write | `SchoolTables` |
| `Memberships` | the composition: these requests interleaved, with the permission cache, restarts and expiry | `Onboarding` |
| `Seeding` | `prisma/seed.ts`, statement by statement, with deaths, re-runs and edits in between | |
| `TimetableVersionsProofs` | theorems about `TimetableVersions`, its refinement of `LiveCalendar` among them | `TimetableVersions` |
| `LessonEditsProofs` | theorems about `LessonEdits`: edits, offers and decisions | `LessonEdits` |
| `GenerationProofs` | theorems about `Generation` | `Generation` |
| `SchoolRecordsProofs` | theorems about `SchoolRecords`: all its properties | `SchoolRecords` |
| `MembershipsProofs` | theorems about `Memberships`: all its safety properties | `Memberships` |
| `FoldLemmas` | induction, minima and sums over finite sets, for the next two | |
| `SolverProofs` | theorems about `Solver`: all its properties | `Solver`, `FoldLemmas` |
| `SeedingProofs` | theorems about `Seeding`: all its properties | `Seeding`, `FoldLemmas` |
| `MC*` | small instances | the module they check |

Operators with the comment "A faulty variant" (or "Faulty variant") are not part
of any specification: each is a plausible bug of one definition, used to confirm
that the properties can fail.

### State and actions against the code

**TimetableVersions.** `rows` is the `timetables` table, `req` the requests in
flight: `pc` names the next statement and the other fields are the handler's
local variables. `today` is the server's date and may move between any two
statements. A publish is `BeginPublish` (load and check), `FindOpenEnded` (the
lookup before the transaction), `CloseAndCheck` (the transaction's update and its
overlap check) and `CommitPublish` (the second update and the commit). The row it
closed is locked in between (`LockedByOther`) and nothing is visible before the
commit. `Fail` ends a request anywhere: a crash, a lost connection or a statement
that fails, which rolls the transaction back.
Names, terms and listings are left out.

**LessonEdits.** `lessons` is the `timetable_entries` table of one timetable.
`move` is `BeginMove` (load of the lesson), `CheckMove` (the five parallel
queries of `load` and the validation), `WriteLessons` (the update). The five
queries are one read. `swap` likewise; its transaction parks one lesson in a
scratch slot, invisible to others, so it is one step that the indexes accept or
not. `approve` is `BeginApprove`, `LoadLesson`, the edit's steps, `Mark`.
`ReplacePeriods`, `RemoveRoom`, `ReplaceUnavailability`, `UpdateTeachingDays` and
`ArchiveTimetable` are the setup handlers as far as they change what an edit
reads.

**Generation.** `job` is what a process knows of a run it executes, the tables
are what others see. `Execute(r)` is the background job: `MarkRunning`,
`BuildProblem`, `SpawnWorker` or `SolveInline`, `WorkerAnswers`,
`WorkerBreaks` (exit or error; the job then solves inline), `MarkSaving`, and the
saving transaction `DeleteOld`, `Commit`. The commit's answer may be lost
(`CommitAnswerLost`), any statement may fail (`StatementFails`), the update that
reports a failure may fail too, and a process may crash. The solver's answer is any
set of placements without collisions.

**Occupancy, Scoring, Solver.** `state.occ` and `state.agg` are class `State`:
its maps are functions, a missing key is `None` or `0`. A step is one lesson
constructed, one position tried by the repair, or one iteration of the
annealing. Random draws, temperature and clock become free choices: any order
allowed by the difficulties, any candidate, any partner, any uphill move accepted
or undone, the deadline between any two iterations. The penalties are scaled by
the number of days so that the mean load is an integer; floating-point drift,
which the code resets every 400 iterations, is left out. `candidates` and
`canPlace` make the same test, so both are `CanPlace`.

**SchoolRecords.** `db` is a record of tables, a table a function from its rows'
keys to the columns a property tells apart. A row that was deleted for good is
not in the domain; a soft-deleted one is there and not live. A row with a unique
column is named by it (a campus by its code, an enrolment by student and year),
so a taken key is the index's refusal and renames are left out. Every route is an
`op`; its handler is three operators: `Accepts` (what its reads let through),
`Admits` (what the database checks at the write: the row to change exists, unique
keys are free, foreign keys point somewhere) and `Written`. `Check(c)` passes the
checks, `Write(c)` writes or meets the database's error, and anything may happen in
between. A handler that clears rows before it sets one (promoting a campus, the
current year, terms, bands, the primary guardian) has a step of its own,
`Statement(c)`: its transaction's `updateMany` fixes the rows it clears (`seen`),
and a row another transaction sets meanwhile is not among them. `seen` is also the
class a transfer compared with. The cascades of `schema.prisma` are in
`SchoolTables`.

**Memberships.** The same shape, with a third step: `Finish(c)` is what a handler
does after its write has committed, dropping the applicant's superseded drafts or
calling `RbacService.invalidate`. `LookUp` and `Fill` are `getAccess`: a miss
reads the roles and stores the entry when the answer has arrived; `Expire` is
`CACHE_TTL_MS`. `Lapse` is an invitation's seventh day. `Restart` forgets cache
and requests. An account is named by its address, a school by its sub-domain,
which is asked for together with the name; a rename changes only the name. Approving is one write from the
application as it was checked, as in the code, whose transaction reads nothing
again; of the provisioned school the modules, the founder and the root role are
kept.

**Seeding.** `Main(y)` is the script as a sequence of statements, built by one
operator per function of `seed.ts`; a statement is an upsert that leaves an existing
row alone (`Ensure`), an update (`Overwrite`), a `deleteMany` (`Clear`) or an insert
guarded by another row (`Create`). `Execute` performs one, `Die` stops the process
between two, `Start` runs the script again, `EditRow` is the school at work.

### History variables

`stale`, `raced` and `overlapped` record that somebody wrote something a handler
had already read, and that it wrote nevertheless; `overtaken` does so per kind of
request. `misfilled` are the cache entries stored from an overtaken read, `torn`
and `applied` tell what happened to a swap request's change, `cut` and `edits` what
a dead seed left and the school changed. Because the code has no locks, several
promises hold only when no race happened. The properties named `...Unraced...` and
`...UnlessRaced` say precisely that, and name the requests whose race breaks
them. In `SchoolRecords` and `Memberships` each exemption is needed: TLC finds the
violation when one is removed (but for the mark lost with the class it was made in:
the year that takes the class takes the enrolment as well). `made` are the keys given so far: the code's keys are
random, so a key is never given twice, even after its row is gone.

## 3. Runs

| Run | Instance | Shows |
|---|---|---|
| `versions_raced` | 2 versions, 2 requests, 2 days | overlaps, bad closings and life-cycle errors come only from a write on a stale read; nothing is closed without a successor, whatever fails |
| `versions_sequential` | 3 versions, 1 request, 3 days, at most one version retired | `TimetableVersions` implements `LiveCalendar`; a publish splits the calendar exactly at its start |
| `edits_raced` | 3 lessons, 2 concurrent edits | the unique indexes are needed only by an overtaken edit, both ends of a swap included |
| `edits_overtaken` | 3 lessons, 2 rooms, 1 edit, setup changes | offered moves and swaps are the accepted ones; an unraced edit is legal |
| `decisions_raced` | 2 lessons, 2 deciders, a setup change | a request's status tells what happened to the timetable; a decision is final; no lesson, unavailability or request outlives a period dropped under edits and approvals in flight |
| `generation` | 2 starts, 2 runs, crashes | one run at a time and lessons of one run unless starts overlap; never a partial run; a run ends unless its process died |
| `solver` | 5 lessons (2 doubles), 2 classes, 2 teachers, 2 rooms, 2 days × 4 periods with a break, 9 availabilities | validity, exact indexes, exact total, best result, no lesson lost, all-or-nothing repair |
| `records` | a school with a row or two in every table, 2 clients, 3 requests out of all 54 kinds | one main campus, current year and primary guardian, a sound tree, enrolments that follow their class, nobody deleted who is needed, no class, enrolment, mark, assessment or score lost but with the row it hangs on: each but for the races it names |
| `memberships` | a school with 2 roots and a teacher, 2 applicants, an address without account, 2 clients, 3 requests out of all 20 kinds, 1 cached user | a school keeps its root, an application its decision, an invitation its outcome, a cached access its truth or its end: each but for the races it names |
| `seeding` | every function of the script with lists of one or two entries, 2 years, 3 starts, 1 edited row | a finished run is complete but for two split pairs; edits survive; a role is empty for one statement only |
| `versions_outside_year` ✗ | 2 years with a holiday between | superseding across years leaves an end outside the version's year (`docs/TIMETABLE.md:122`) |
| `decisions_twice` ✗ | 1 swap request, 1 decider | an approval interrupted between edit and mark is made again (`docs/TIMETABLE.md:264`) |

✗: the run is expected to find a violation; each is recorded with its line in
`PROJECT.json`.

**Why the bounds are enough.** The races are between two handlers, one of which
overtakes the other, so two in flight are the interesting number; a third row
matters only as a bystander, and `versions_sequential` has it. Two days suffice to
close a version and start another; the third separates "before", "from the new
start" and "after". Three lessons in which every pair shares a class, a teacher or
nothing exercise every clause of the validator for both ends of a swap. In
`solver` the busier teacher's availability is chosen so that the greedy phase
leaves lessons over: some ejections succeed, some find the position still
forbidden, some must undo a lesson already rehomed. `FewRetired` bounds
`versions_sequential` to one archived or deleted version at a time: a retired
version is out of every check, and more of them only repeat states.
In `records` and `memberships` two requests make a race and `MaxRequests = 3` lets
one come before or after it; the initial rows are chosen so that every handler can
get past its checks within that bound, and `MCRequests` lists for each route the
requests that meet another one on the same rows. `MaxRejected` is 2 where the code has 3, so
that one more rejection locks an account. In `seeding` three starts are a death, a second death in what the first left,
and a run that ends; the second year makes a re-run meet last year's rows.
`SYMMETRY` is used only with properties of states and steps, never with liveness.

**Deadlock** is not checked where the system may rightly stop: nobody makes a
request any more, the bound on versions, runs or requests is used up, or the solver is
done.

**Fairness.** `Generation` states weak fairness of `Execute(r)` for each run, that
is, the event loop goes on with a job whose next statement is due and the
database answers it or fails it. `RunFinishesUnlessLost` excludes exactly the runs
whose process died or whose last update failed. `Memberships` states weak fairness
of `Fill`, `Write` and `Finish` (an `await` ends) and of `Expire` (a minute
passes); the process may be restarted at any time, which empties the cache.
Nothing forces a request to arrive, a look-up to be made or a crash to happen.

## 4. Proofs

Every safety property of the passing runs is a theorem, and so are their action
properties. All theorems are for arbitrary constants, under the `ASSUME`s of the
module: years have days, null values differ from the values they stand beside,
classes, teachers and subjects are given per lesson and are finitely many, days and
periods come in order, the seed's lists are sequences and name nothing that is
retired, requests are requests of some route, and the school `SchoolRecords` starts from is sound (`SchoolAssumption`: its rows have their
columns, one main campus, no loose branch, enrolments follow their classes), and so
is the platform `Memberships` starts from (`PlatformAssumption`: every school has a
root and was approved, accepted invitations and staff are where their accounts are,
names under review are apart).

**TimetableVersionsProofs**: `TypeCorrect`, `NoOverlapHolds`, `LifecycleHolds`,
`CalendarIsKept`, `CalendarIsImplemented`, `PublishSplits`, `NoClosingHolds`.
No overlap is not inductive: the check is made in one statement and the write in
a later one. The invariant adds, for every request nobody has overtaken, that
what it read is still true (`Fresh`: the draft is still a draft with these dates,
the predecessor still open-ended and live, and the target days free), and that
rows are ordered and apart as long as no race happened:

    IInv == TypeInv /\ (~raced => GoodRows) /\ \A r : Fresh(r)

A write either disturbs a request, which makes it stale, or leaves its knowledge
true; that case split, once per kind of write, is the proof.

The last four are about the calendar. With `IInv`, each write of a
request nobody has overtaken is one step of `LiveCalendar` under the mapping
`Calendar` (the published, live rows with their periods), and every other
statement is a stutter. `CalendarIsKept` says so for overlapping requests as long
as no race happened; with one request at a time nobody is ever overtaken, and the
versions implement `LiveCalendar!Spec`.

**LessonEditsProofs**: `TypeCorrect`, `NothingOutlivesHolds`,
`BackstopUnneededHolds`, `UnracedEditsAreLegalHolds`, `OfferedMovesHold`,
`OfferedSwapsHold`, `StatusTellsTheTruthHolds`, `DecisionIsFinalHolds`. That no class, teacher or room is
booked twice is a part of the invariant and no property of the project: the unique
indexes promise it whatever the code does. That the indexes are *not needed* without
a race is the statement about the code: it takes `Knows` (a handler not overtaken has loaded the lesson as it
is now, and once validated its plan would be accepted) and `SlotsExist` (no lesson
in a dropped period). Two lemmas carry it, `MoveAccepted` and `SwapAccepted`: what
`assertPlaceable` lets through, for one lesson or for both ends of a swap, the
three indexes accept.

`NothingOutlivesHolds` is about the cascades of a period that is dropped while
edits and approvals are between their reads and their writes. The invariant's
`SlotsExist` and `Refers` say that lessons, unavailability and requests refer to
what is there. A write that comes after the drop finds no row (a lesson is updated by its
id) or is refused by the foreign key of its slot; a request goes with the lesson
at either of its ends, and loses only the slot it asks for when that slot's period goes.

The two theorems about offers compare two pieces of code, `legalMoves` and the
validator, in any state where no two lessons collide. The two about decisions need
what a decider knows:
`MadeFirst` (whoever is about to mark an approval has made its change),
`Informed` (a decider nobody overtook is right that the request is pending) and
`Told` (the count of changes made agrees with the status and the deciders in
between).

**GenerationProofs**: `TypeCorrect`, `OneRunHolds`, `OneRunsLessonsHold`,
`NoPartialRunHolds`. That a run is saved whole holds however runs overlap: it
follows from what a job is about to commit (`OwnRows`, `SavedWhole`,
`DoomedWhole`, `SavedDistinct`). That runs do not coexist needs `Undisturbed`: as long
as no two requests were between the check and the insert at once, at most one is,
nobody has created a run behind it, at most one run is active, its delete has seen
every row that was there, and the lessons are those of the run whose metrics were
set last.

**SchoolRecordsProofs**: `TreeHolds`, `NobodyGoneHolds`, `EnrolmentsFollow`,
`SingletonsHold`, `HistoryHolds`. Two lemmas carry all five. `WriteFrame` says, for each
of the 54 kinds of request, which tables its write leaves alone, cascades included;
what is left per property are the few requests that touch its tables. `StillRaced`
says that a write whose kind is not in `overtaken` is one whose checks would
pass again now, and whose first statement would clear the same rows; a check that
still holds at the write keeps what it is for. That an enrolment follows its class,
and that classes take no enrolments with them, needs more, `Keyed`: no key is given
twice, so the class a request names is still the one it looked up, the class of an
enrolment is there, and it is of the year in the enrolment's key (`OfItsYear`); it also
knows that the terms a new or a changed year brings are in order. `HistoryHolds` says of
each lost row which row it went with. `RegisterRows` carries it, over one lemma per
cascade (`DropSubjectsTakes` up to `DropYearTakes`): whatever the request, a mark is lost
only with its enrolment or the class it was made in, a score only with its assessment or
its enrolment, an assessment only with its class, its subject or its curriculum.
`Singles` is `SingletonsUnlessRaced` with "at most one" as "any two are equal".

**MembershipsProofs**: `CacheHolds`. `CacheFollowsRoles` is inductive once it is
known which write changes whose access: for each of the twenty kinds of request a
lemma shows that `Access` of a user it does not invalidate is unchanged. The theorem
is therefore about the list of `invalidate` calls in the code: none is missing.

The other three, `MembershipsHold`, `ApplicationsHold` and `DecisionsHold`, rest on
what handlers know. A handler that has passed its checks holds a `Pledge`: of what it read, the part no other
request can take back (`Grows`). An account in a school stays in one, what is under
review is never a draft again, an invitation is always for the same account. With
its pledge a write keeps the tables `Tied` even when it was overtaken; that is the
inductive core. The three theorems need in addition that the write was `Timely`,
that is, not overtaken, so that its checks would pass again now:

* a school keeps a root because removing or deactivating one requires a second in the
  same state, and nobody but a founder or an invitee, who belong nowhere yet, changes
  schools;
* staff are linked to their neighbours because a link's check still holds at its
  write unless the account moved in between (`LinksPledged`);
* approvals and schools correspond because a founding makes the school and marks the
  application in one transaction, from the row as it was checked, and a name that is
  taken or under review is not given again;
* a deleted school stays closed unless a status change overtook (`ClosedUnlessRaced`).

**FoldLemmas.** The provers do no induction, so it is an argument about a smallest
counterexample: a set of naturals, or of subsets of a finite set, that has the
empty case and goes on has everything (`AllNaturals`, `AllSubsets`). A sum over a
set is a recursive function, which is a `CHOOSE`; that there is a function to choose
is proved level by level (`SumsExist`), and from there on sums are used through
`SumTakesOut`, `SumAdds` and `SumChanges`: what a sum does when its set or one of
its terms changes.

**SolverProofs**: `SolverInvariant`, `SolverTypes`, `SolverStaysValid`,
`SolverIndexesAreExact`, `SolverTotalIsExact`, `SolverBestIsBest`,
`SolverAccountsForLessons`, `SolverRepairsAllOrNothing`. The argument in one sentence:
the whole of class `State`, with its three busy maps, its day counters, the five
groups of penalties and their total, is a function `StateOf(p)` of where the lessons stand.

* `PutLeads` and `TakeLeads`: `Put` takes `StateOf(p)` to `StateOf` of `p` with the
  lesson placed, `Take` to `StateOf` of `p` without it, provided that the cells the
  lesson takes are free and on taught days. So the total kept by deltas is the score,
  after any number of steps, and undoing a move needs no memory of the numbers.
* `Sound(u, p)` is the hard constraints, said of a timetable. `CandidatesAreSound`:
  what `candidates` offers keeps them. `EjectedSoundly`: an ejection that rehomes every
  blocker ends sound, and one that fails half way ends in the very state it began
  in (`Repaired`), aggregates included. `SwappedSoundly`: a swap, of which each half was
  tested with both lessons out, ends sound, too.
* The inductive invariant is then short:

      state = StateOf(state.occ.placed)
      /\ Sound(staffUnavailable, state.occ.placed) /\ Sound(staffUnavailable, snapshot)
      /\ Accounted(todo, state.occ.placed, unplaced)
      /\ (phase \in {"improve", "done"} => BestKnown(best, snapshot, state.occ.placed))

  `Accounted` says that every lesson is waiting, placed or unplaced and in one of the
  three only; `BestKnown` that the snapshot has the score `best`, that nothing settled on
  is better, and that it holds the same lessons.

**SeedingProofs**: `SeedInvariant`, `SeedCompletes`, `SeedKeepsEdits`, `SeedKeepsRoles`.
The first half is about the text of the script. `Good(q)`: every statement of `q`
stands for itself (`Plain`) or is one of two side by side that belong together
(`Pair`: a role emptied and filled, a guardian made and linked, an assessment made
and scored). Concatenations of good parts are good, and `GoodMain` follows function by
function, whatever the lists are. The second half is about running it. `Behind`
says what the statements behind the current one have left; it is not inductive
without `PairsWhole`, that the second row of a pair is missing only between the two
statements or where a process died there (`cut`), `OnceOrSplit`, that nothing but a
guardian so cut off is there twice, and `LinksHaveGuardians`, which is why skipping
both statements when the link is there leaves nothing out. Each kind of statement has
one effect (`Effects`), so a step is one of five cases; `SeedKeepsRoles` is read off the
text, where the clearing of a role stands directly before its filling.

**Model-checked only.** Liveness (`RunFinishesUnlessLost`, `StaleAccessEnds`), which
rests on fairness and ENABLED. The two runs marked ✗ are counterexamples. That the
instances of `records` and `memberships` need each of their exemptions is TLC's
finding, too.

## 5. Where code and documents disagree

Two disagreements have a run (section 3). The following were met while modelling
and have none; the models contain the code's behaviour.

Timetables:

* Two publishes check the calendar in transactions that do not see each other and
  both commit, against "no two `PUBLISHED` versions may cover the same day"
  (`docs/TIMETABLE.md:113`, `timetables.service.ts:200`).
* A status is checked on one read and written by id later, so an archived version
  can be published again and a published one deleted in a race
  (`timetables.service.ts:219`, `:233`); `LifecycleUnlessRaced` states the exact limit.
* `legalMoves` offers swaps for lessons whose room has been deleted; `swap`
  refuses them (`entry-edit.service.ts:59`).
* Dropping a period deletes lessons of archived timetables, too, against
  "archived timetables are read-only" (`docs/TIMETABLE.md:258`,
  `timetable-setup.service.ts:147`), and `replacePeriods` may turn a period into a
  break under the lessons taught in it (`:165`).
* A later decision overwrites an earlier one made at the same time
  (`swap-requests.service.ts:237`).
* Two overlapping generate requests both start, and their saves may mix
  (`generator.service.ts:60`); a timetable published or edited during a run is
  overwritten when it ends (`:39`, `:138`). A run whose process died stays QUEUED or
  RUNNING and blocks its timetable for ever: nothing recovers it (`:65`).
* `docs/TIMETABLE.md:246` says that an edit re-checks every hard constraint; the validator does
  not re-check daily limits, required room types or the adjacency of the two
  halves of a double (`entry-edit.service.ts:195`).
* `docs/TIMETABLE.md:49` calls the adjacency of doubles a soft wish; the solver makes
  it a hard constraint (`solver.ts:262`).
* `bestCandidate` announces a random tie-break and takes the first of the
  cheapest (`solver.ts:711`); the `ignore` parameter of `candidates` is never passed.

Records:

* Promoting an inactive campus makes it the main one without activating it, though a
  main campus may not be deactivated (`campuses.service.ts:110`); removing a campus
  asks neither for its sections nor for its staff (`:150`).
* Removing a class asks for no enrolments; a deleted pupil is on roll again when a
  kept enrolment is set back to ENROLLED (`enrollments.service.ts:119`).
* A transfer takes the campus from the new class only if that class differs from the one
  read before; when another transfer came in between, class and campus of the enrolment
  no longer agree (`enrollments.service.ts:119`). `EnrolmentsFollowTheirClass` exempts an
  overtaken change of an enrolment and nothing else.
* Removing a subject or a curriculum deletes its assessments and their scores;
  replacing the terms of a year takes the term from its assessments
  (`curricula.service.ts:157`, `:102`; `academic-years.service.ts:103`).
* A mark in the register that is corrected after a transfer keeps the class it was
  made in (`attendance.service.ts:76`).
* A maximum may be lowered under scores already saved (`assessment.service.ts:103`).
* Bands are closed intervals that end at whole numbers, so 79.5 % is in none
  (`grading.util.ts:27`).

Memberships:

* A direct application beside one sent back for changes, which is then submitted
  again, gives one applicant two applications under review
  (`school-requests.service.ts:254`); renaming a school does not look at the names
  under review (`tenants.service.ts:169`).
* An applicant may join a school and be deactivated there while the application is
  approved: the school that is founded has no active organisation admin, and the
  other loses a member without being asked (`school-requests.service.ts:572`).
* `users.update` deactivates an account without dropping its cached access; a
  deactivated account is stopped by `JwtAuthGuard`, which reads the user every time.
* The module switches are stored and shown, and no guard of a route reads them.

Seeding:

* A death between an assessment and its scores leaves the scores out for good, one
  between a guardian and its link makes a second guardian (`seed.ts:656`).
* A re-run writes class teachers, department members, weekly loads and the grants of
  system roles over what the school set (`seed.ts:329`, `:755`, `:796`), although the
  script calls itself idempotent. In a new calendar year it creates a second current
  year beside the first (`seed.ts:407`).

## 6. Not modelled

* **Readiness** is a report from one read of the setup; it changes nothing and
  nothing depends on it.
* **Rate limiting** is a synchronous function over a map in memory: no two calls
  interleave, and its arithmetic is in floating point over real time.
* **Accounts and sessions**, but for registration: codes, passwords and tokens are
  read by no other component.
* **The rest of the setup** (generating a bell schedule, names of rooms, required
  lessons) only feeds the solver's input, which is arbitrary here.
* **The report card** only reads.
* **Audit, mail, storage and health** are best-effort output to other services; the
  **database connection, configuration and HTTP plumbing** are framework wiring.
* Formats, names, pagination and the validation of request bodies, everywhere; the
  callers of all handlers have passed the routes' guards.

What the models abstract: the reads of one handler's checks are one step
(except where section 2 says otherwise); one server process in `Memberships`, so one
cache, and one look-up in flight per user; the seed's attendance is one day a year
and its lists are shortened; the documents of an application are whether all
required ones are there.

## 7. What is left

1. **Composition** of edits, generation and versions over one timetable, for edits
   that a save overwrites and for a publish during a run.
2. **Theorems**: every property of a passing run that is not liveness is proved; what
   is left is the composition of 1., whose parts' invariants its own would build on.
3. **Setup**: period generation, and unavailability with the two statements of its
   transaction apart.
4. **Operators**: grading bands and the token bucket against reference definitions.
