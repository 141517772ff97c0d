------------------------------ MODULE Seeding ------------------------------
(***************************************************************************)
(* prisma/seed.ts: the script that installs the permission catalogue, the  *)
(* system roles and their access matrix, the platform administrator, the   *)
(* shared curricula and grading schemes and - outside production - a demo   *)
(* school.  It has no transaction: every statement commits by itself, the  *)
(* process may die between any two of them, and it is meant to be run      *)
(* again ("Idempotent: safe to re-run").  The school works with the seeded  *)
(* rows, and edits them, between runs and during them.                     *)
(*                                                                         *)
(* A row is <<table, key>>; a column the seed writes on rows it did not    *)
(* create (class teacher, department, weekly load) and the permission set  *)
(* of a role are rows of their own.  What a row holds is abstracted to     *)
(* whether it is there, once or twice, and whose value it has.             *)
(***************************************************************************)
EXTENDS Naturals, Sequences, FiniteSets, SequencesExt

CONSTANTS
    Permissions,  \* the catalogue, MODULES x ACTIONS, as a sequence
    Roles,        \* ROLES, in order
    Templates,    \* SYSTEM_CURRICULA, then SYSTEM_GRADING_SCHEMES
    Modules,      \* the module rows of the demo school
    Grades,       \* the grades of DEMO_STRUCTURE, one class "East" in each
    Students,     \* DEMO_STUDENTS, in order
    GradeOf,      \* GradeOf[s]: gradeName of a demo student
    Subjects,     \* the first two subjects of the section's curriculum
    Staff,        \* DEMO_STAFF, in order
    Departments,  \* DEMO_DEPARTMENTS, in order
    TimetableRows,\* the settings row, DEMO_PERIODS and DEMO_ROOMS
    Logins,       \* demoUsers
    Production,   \* NODE_ENV is production
    HasAdmin,     \* the e-mail and password of the super admin are known
    Years,        \* the calendar years the script may run in: 1..n
    MaxRuns,      \* bound on runs of the script
    MaxEdits      \* bound on rows the school edits

ASSUME SeedingAssumption ==
    /\ GradeOf \in [Range(Students) -> Range(Grades)]
    /\ Production \in BOOLEAN /\ HasAdmin \in BOOLEAN
    /\ Years \in Nat \ {0} /\ MaxRuns \in Nat /\ MaxEdits \in Nat
ASSUME ListsAssumption ==
    \A list \in {Permissions, Roles, Templates, Modules, Grades, Students, Subjects, Staff,
                 Departments, TimetableRows, Logins} : list \in Seq(Range(list))
\* What the script takes for retired is what its lists no longer name.
ASSUME RetiredAssumption ==
    "retired" \notin Range(Permissions) /\ "retired" \notin Range(Roles)

VARIABLES
    db,     \* row -> Absent, Seeded, Edited, Twice; rows it has no entry for are absent
    year,   \* the calendar year
    pc,     \* the statement the running script is at; 0 when none runs
    script, \* the statements of the current run, fixed by the year it started in
    runs,   \* how often the script was started
    done,   \* the year of the last run if it came to its end, else 0
    cut,    \* history: the rows whose second statement a dead process never made
    edits   \* history: the rows the school edited

vars == <<db, year, pc, script, runs, done, cut, edits>>

Absent == "absent"
Seeded == "seeded"
Edited == "edited"
Twice  == "twice"

\* The permissions and roles of an earlier release.
Retired == {<<"permission", "retired">>, <<"role", "retired">>}

Value(r) == IF r \in DOMAIN db THEN db[r] ELSE Absent
Put(r, v) == [x \in DOMAIN db \cup {r} |-> IF x = r THEN v ELSE db[x]]
-----------------------------------------------------------------------------
(***************************************************************************)
(* The statements a script is made of.  "unless" is a row whose presence   *)
(* makes the script skip the next "skip" statements, this one included.    *)
(***************************************************************************)
Statement(op, r) == [op |-> op, row |-> r, unless |-> {}, skip |-> 1]
Overwrite(r) == Statement("overwrite", r)    \* update
Clear(r) == Statement("clear", r)            \* deleteMany
Create(r, other, n) == [op |-> "create", row |-> r, unless |-> {other}, skip |-> n]

\* Faulty variants: an insert that does not look first, an upsert that writes
\* the seed's value again.
CreateBlindly(r) == [op |-> "create", row |-> r, unless |-> {}, skip |-> 1]
Resync(r) == Statement("overwrite", r)

Ensure(r) == Statement("ensure", r)          \* upsert with update: {}, or find or create

Each(seq, F(_)) == FlattenSeq([i \in DOMAIN seq |-> F(seq[i])])

\* A faulty variant: empties every role before it fills the first.
SeedRbacInTwoPasses ==
    LET Empty(role) == <<Ensure(<<"role", role>>), Clear(<<"grants", role>>)>>
        Fill(role) == <<Ensure(<<"grants", role>>)>>
        Catalogue(p) == <<Ensure(<<"permission", p>>)>>
    IN  <<Clear(<<"permission", "retired">>), Clear(<<"role", "retired">>)>>
        \o Each(Permissions, Catalogue) \o Each(Roles, Empty) \o Each(Roles, Fill)

SeedRbac ==
    LET Sync(role) == <<Ensure(<<"role", role>>),
                        Clear(<<"grants", role>>), Ensure(<<"grants", role>>)>>
        Catalogue(p) == <<Ensure(<<"permission", p>>)>>
    IN  <<Clear(<<"permission", "retired">>), Clear(<<"role", "retired">>)>>
        \o Each(Permissions, Catalogue) \o Each(Roles, Sync)

AssignSystemRole(user) == <<Ensure(<<"user role", user>>)>>

SeedSuperAdmin ==
    IF HasAdmin THEN <<Ensure(<<"user", "super admin">>)>> \o AssignSystemRole("super admin")
    ELSE <<>>

SeedAcademicTemplates ==
    LET Template(t) == <<Ensure(<<"template", t>>)>> IN Each(Templates, Template)

SeedDemoAcademicStructure(y) ==
    LET Tree(g) == <<Ensure(<<"section", "of all">>), Ensure(<<"grade", g>>),
                     Ensure(<<"class", <<g, y>>>>)>>
    IN  <<Ensure(<<"year", y>>)>> \o Each(Grades, Tree)

\* The guardian and its link are two statements; only the link is looked for.
SeedDemoRoster(y) ==
    LET Enrol(s) == <<Ensure(<<"student", s>>),
                      Create(<<"guardian", s>>, <<"link", s>>, 2), Ensure(<<"link", s>>),
                      Ensure(<<"enrolment", <<s, y>>>>)>>
    IN  Each(Students, Enrol)

\* The assessment and its scores are two statements; only the assessment is looked for.
SeedDemoAttendanceAndAssessment(y) ==
    LET OfClass(g) ==
            LET Mark(s) == IF GradeOf[s] = g THEN <<Ensure(<<"attendance", <<s, y>>>>)>> ELSE <<>>
                Score(sub) == LET a == <<g, sub, y>> IN
                    <<Create(<<"assessment", a>>, <<"assessment", a>>, 2), Ensure(<<"scores", a>>)>>
            IN  IF g \notin Range(GradeOf) THEN <<>>
                ELSE Each(Students, Mark) \o Each(Subjects, Score)
    IN  Each(Grades, OfClass)

SeedDemoStaff(y) ==
    LET Person(t) == <<Ensure(<<"staff", t>>)>>
        Department(d) == <<Ensure(<<"department", d>>), Overwrite(<<"members", d>>),
                           Ensure(<<"department subjects", d>>)>>
        OfClass(g) ==
            LET Assign(sub) == <<Ensure(<<"assignment", <<g, sub, y>>>>)>>
            IN  <<Overwrite(<<"class teacher", <<g, y>>>>)>> \o Each(Subjects, Assign)
    IN  Each(Staff, Person)
        \o Each(Departments, Department) \o Each(Grades, OfClass)

SeedDemoTimetableSetup(y) ==
    LET Row(r) == <<Ensure(<<"timetable", r>>)>>
        Load(g) == LET OfSubject(sub) == <<Overwrite(<<"load", <<g, sub, y>>>>)>>
                   IN  Each(Subjects, OfSubject)
    IN  Each(TimetableRows, Row) \o Each(Grades, Load)

SeedDemoSchool(y) ==
    LET Module(m) == <<Ensure(<<"module", m>>)>>
        Login(u) == <<Ensure(<<"user", u>>)>> \o AssignSystemRole(u)
    IN  <<Ensure(<<"school", "demo">>), Ensure(<<"campus", "MAIN">>)>>
        \o Each(Modules, Module)
        \o SeedDemoAcademicStructure(y) \o SeedDemoRoster(y)
        \o SeedDemoAttendanceAndAssessment(y) \o SeedDemoStaff(y)
        \o SeedDemoTimetableSetup(y) \o Each(Logins, Login)

Main(y) == SeedRbac \o SeedSuperAdmin \o SeedAcademicTemplates
           \o (IF Production THEN <<>> ELSE SeedDemoSchool(y))
-----------------------------------------------------------------------------
Init ==
    /\ db = [r \in Retired |-> Seeded]
    /\ year = 1 /\ pc = 0 /\ script = <<>> /\ runs = 0 /\ done = 0
    /\ cut = {} /\ edits = {}

\* npm run prisma:seed.
Start ==
    /\ pc = 0 /\ runs < MaxRuns
    /\ pc' = 1 /\ script' = Main(year) /\ runs' = runs + 1 /\ done' = 0
    /\ UNCHANGED <<db, year, cut, edits>>

\* The next statement of the script.
Execute ==
    /\ pc \in DOMAIN script
    /\ LET s == script[pc]
           was == Value(s.row)
       IN  IF \E r \in s.unless : Value(r) # Absent
           THEN pc' = pc + s.skip /\ db' = db
           ELSE /\ pc' = pc + 1
                /\ db' = CASE s.op = "ensure"    -> IF was = Absent THEN Put(s.row, Seeded) ELSE db
                           [] s.op = "overwrite" -> Put(s.row, Seeded)
                           [] s.op = "clear"     -> Put(s.row, Absent)
                           [] s.op = "create"    -> Put(s.row, IF was = Absent THEN Seeded ELSE Twice)
    /\ UNCHANGED <<year, script, runs, done, cut, edits>>

Finish ==
    /\ pc > Len(script) /\ pc > 0
    /\ pc' = 0 /\ script' = <<>> /\ done' = year
    /\ UNCHANGED <<db, year, runs, cut, edits>>

\* The process dies, or a statement fails and main() exits with an error.
Die ==
    /\ pc \in DOMAIN script
    /\ cut' = IF pc > 1 /\ script[pc - 1].op = "create" /\ Value(script[pc].row) = Absent
              THEN cut \cup {script[pc].row} ELSE cut
    /\ pc' = 0 /\ script' = <<>>
    /\ UNCHANGED <<db, year, runs, done, edits>>

\* Somebody changes a seeded row through the application and leaves it there.
EditRow(r) ==
    /\ Cardinality(edits) < MaxEdits
    /\ Value(r) = Seeded
    /\ db' = Put(r, Edited) /\ edits' = edits \cup {r}
    /\ UNCHANGED <<year, pc, script, runs, done, cut>>

\* The calendar year turns.  The parts of the script each read the clock; a
\* run takes seconds and is taken to stay within one year.
NewYear ==
    /\ pc = 0 /\ year < Years
    /\ year' = year + 1
    /\ UNCHANGED <<db, pc, script, runs, done, cut, edits>>

Next == Start \/ Execute \/ Finish \/ Die \/ NewYear \/ \E r \in DOMAIN db : EditRow(r)

Spec == Init /\ [][Next]_vars
-----------------------------------------------------------------------------
\* The rows a finished run of year y must have left.
Fixture(y) == {Main(y)[i].row : i \in {j \in DOMAIN Main(y) : Main(y)[j].op # "clear"}}

\* A script that ran to its end has left every row of the fixture exactly
\* once and no retired one, however often it died before; but for the pairs
\* of statements a death has split: there the scores stay missing for good,
\* because the next run finds the assessment, and the guardian is there
\* twice, because it does not look for one.
DoneMeansComplete ==
    (done = year /\ pc = 0) =>
        /\ \A r \in Fixture(year) :
             CASE r \in cut /\ r[1] = "scores" -> TRUE
               [] r[1] = "guardian" /\ <<"link", r[2]>> \in cut -> Value(r) # Absent
               [] OTHER -> Value(r) \in {Seeded, Edited}
        /\ \A r \in Retired : Value(r) = Absent

\* What the school edited, and kept, survives every statement of every run, unless it is
\* one of the four things each run sets anew: the permissions of the system
\* roles, class teachers, departments and weekly loads of demo staff.
Resynced == {"grants", "class teacher", "members", "load"}
EditsSurvive ==
    \A r \in edits : (r[1] \notin Resynced /\ r \notin Retired) => Value(r) \in {Edited, Twice}

\* A role the application may already be serving is without permissions only
\* while the run is between clearing and filling that very role, or after a
\* run that died there and until the next one gets to it.
RolesKeepPermissions ==
    [][\A i \in DOMAIN Roles : LET g == <<"grants", Roles[i]>> IN
         (Value(g) # Absent /\ Value(g)' = Absent) => /\ pc \in DOMAIN script /\ script[pc].row = g
                                                       /\ script'[pc'] = Ensure(g)]_vars
=============================================================================
