---------------------------- MODULE SchoolPeople ----------------------------
(***************************************************************************)
(* Students, guardians and enrolments, staff, departments and teaching     *)
(* assignments, the attendance register and the assessments: for each      *)
(* request when its handler gets past its checks, and what it writes.      *)
(***************************************************************************)
EXTENDS SchoolStructure

CONSTANTS Students, Guardians, Teachers, Departments, Assessments,
          Marks   \* what a score or a maximum may be

Pupils == Students \X Years

(* The routes, and what a request on each of them carries. *)

StudentRequests ==
    [op : {"student.create", "student.update"}, id : Students, campus : Campuses]
    \cup [op : {"student.remove"}, id : Students]
    \cup [op : {"guardian.link", "guardian.createAndLink"}, id : Students, guardian : Guardians,
          primary : BOOLEAN]
    \cup [op : {"guardian.unlink"}, id : Students, guardian : Guardians]
GuardianRequests == [op : {"guardian.create", "guardian.remove"}, id : Guardians]
EnrolmentRequests ==
    [op : {"enrolment.create"}, id : Pupils, class : Classes]
    \cup [op : {"enrolment.update"}, id : Pupils, class : Classes \cup {Null},
          status : {"ENROLLED", "WITHDRAWN", Null}]
    \cup [op : {"enrolment.remove"}, id : Pupils]
StaffRequests ==
    [op : {"staff.create", "staff.update"}, id : Teachers, campus : Campuses,
     department : Departments \cup {Null}]
    \cup [op : {"staff.remove"}, id : Teachers]
DepartmentRequests ==
    [op : {"department.create", "department.update"}, id : Departments, head : Teachers \cup {Null}]
    \cup [op : {"department.remove"}, id : Departments]
    \cup [op : {"department.addSubject", "department.removeSubject"}, id : Departments, subject : Subjects]
AssignmentRequests ==
    [op : {"assignment.create", "assignment.remove"}, id : Teachers \X Classes \X Subjects]
    \cup [op : {"class.teacher"}, id : Classes, teacher : Teachers \cup {Null}]
AttendanceRequests == [op : {"attendance.mark"}, id : Classes, pupils : (SUBSET Pupils) \ {{}}]
AssessmentRequests ==
    [op : {"assessment.create"}, id : Assessments, class : Classes, subject : Subjects,
     term : DOMAIN OrderOf \cup {Null}, max : Marks]
    \cup [op : {"assessment.update"}, id : Assessments, term : DOMAIN OrderOf \cup {Null},
          max : Marks \cup {Null}]
    \cup [op : {"assessment.clear", "assessment.remove"}, id : Assessments]
    \cup [op : {"assessment.scores"}, id : Assessments,
          scores : UNION {[S -> Marks] : S \in (SUBSET Pupils) \ {{}}}]

PeopleRequests == StudentRequests \cup GuardianRequests \cup EnrolmentRequests \cup StaffRequests
                  \cup DepartmentRequests \cup AssignmentRequests
RegisterRequests == AttendanceRequests \cup AssessmentRequests
-----------------------------------------------------------------------------
(* Students and guardians. *)

Enrolled(d, s) == {n \in DOMAIN d.enrolment : n[1] = s /\ d.enrolment[n].status = "ENROLLED"}

MayCreateStudent(d, r) == Live(d.campus, r.campus)
StudentCreated(d, r) == [d EXCEPT !.student = With(@, r.id, [campus |-> r.campus, live |-> TRUE])]

\* The enrolments keep the campus of their class.
MayUpdateStudent(d, r) == Live(d.student, r.id) /\ Live(d.campus, r.campus)
StudentUpdated(d, r) == [d EXCEPT !.student[r.id].campus = r.campus]

MayRemoveStudent(d, r) == Live(d.student, r.id) /\ Enrolled(d, r.id) = {}
StudentRemoved(d, r) == [d EXCEPT !.student[r.id].live = FALSE]

LinksOf(d, s) == {l \in DOMAIN d.link : l[1] = s}
Demoted(links, r, seen) ==
    [l \in DOMAIN links |-> [links[l] EXCEPT !.primary = @ /\ ~(r.primary /\ l \in seen)]]
Linked(d, r, seen) ==
    [d EXCEPT !.link = With(Demoted(@, r, seen), <<r.id, r.guardian>>, [primary |-> r.primary])]

MayLinkGuardian(d, r) ==
    Live(d.student, r.id) /\ Live(d.guardian, r.guardian) /\ <<r.id, r.guardian>> \notin DOMAIN d.link

MayCreateAndLink(d, r) == Live(d.student, r.id) /\ r.guardian \notin DOMAIN d.guardian
CreatedAndLinked(d, r, seen) ==
    [Linked(d, r, seen) EXCEPT !.guardian = With(@, r.guardian, [live |-> TRUE])]

MayUnlink(d, r) == Live(d.student, r.id) /\ <<r.id, r.guardian>> \in DOMAIN d.link
Unlinked(d, r) == [d EXCEPT !.link = Without(@, {<<r.id, r.guardian>>})]

MayCreateGuardian(d, r) == r.id \notin DOMAIN d.guardian
GuardianCreated(d, r) == [d EXCEPT !.guardian = With(@, r.id, [live |-> TRUE])]

MayRemoveGuardian(d, r) == Live(d.guardian, r.id) /\ \A l \in DOMAIN d.link : l[2] # r.id
GuardianRemoved(d, r) == [d EXCEPT !.guardian[r.id].live = FALSE]
-----------------------------------------------------------------------------
(* Enrolments.  The key is <<student, year>>: one enrolment in a year. *)

MayEnrol(d, r) ==
    Live(d.student, r.id[1]) /\ Live(d.class, r.class) /\ d.class[r.class].year = r.id[2]
EnrolmentCreated(d, r) ==
    [d EXCEPT !.enrolment = With(@, r.id, [class |-> r.class, campus |-> d.class[r.class].campus,
                                           status |-> "ENROLLED"])]

\* A class that is the enrolment's own, as it was read, is not looked at
\* again, and then the campus is not written either.
Moves(r, seen) == r.class \notin {Null, seen}
MayUpdateEnrolment(d, r) ==
    /\ r.id \in DOMAIN d.enrolment
    /\ r.class # Null \/ r.status # Null
    /\ Moves(r, d.enrolment[r.id].class) => Live(d.class, r.class) /\ d.class[r.class].year = r.id[2]
\* A faulty variant: the campus stays behind.
EnrolmentMoved(d, r, seen) ==
    [d EXCEPT !.enrolment[r.id].class = Given(r.class, @),
              !.enrolment[r.id].status = Given(r.status, @)]
EnrolmentUpdated(d, r, seen) ==
    [d EXCEPT !.enrolment[r.id] =
        [class  |-> Given(r.class, @.class),
         campus |-> IF Moves(r, seen) THEN d.class[r.class].campus ELSE @.campus,
         status |-> Given(r.status, @.status)]]

MayRemoveEnrolment(d, r) == r.id \in DOMAIN d.enrolment
EnrolmentRemoved(d, r) == DropEnrolments(d, {r.id})
-----------------------------------------------------------------------------
(* Staff, departments and teaching assignments. *)

Heads(d, t) == {x \in DOMAIN d.department : d.department[x].head = t}
TeacherOf(d, t) == {k \in DOMAIN d.class : d.class[k].live /\ d.class[k].teacher = t}
Teaches(d, t) == {a \in d.assignment : a[1] = t}
Members(d, x) == {t \in DOMAIN d.staff : d.staff[t].live /\ d.staff[t].department = x}

MayEmploy(d, r) == Live(d.campus, r.campus) /\ (r.department # Null => Live(d.department, r.department))
StaffCreated(d, r) ==
    [d EXCEPT !.staff = With(@, r.id, [campus |-> r.campus, department |-> r.department, live |-> TRUE])]

MayUpdateStaff(d, r) == Live(d.staff, r.id) /\ MayEmploy(d, r)
StaffUpdated(d, r) ==
    [d EXCEPT !.staff[r.id] = [@ EXCEPT !.campus = r.campus, !.department = r.department]]

\* A faulty variant: class teachers may go.
MayRemoveClassTeacher(d, r) ==
    Live(d.staff, r.id) /\ Heads(d, r.id) = {} /\ Teaches(d, r.id) = {}
MayRemoveStaff(d, r) ==
    Live(d.staff, r.id) /\ Heads(d, r.id) = {} /\ TeacherOf(d, r.id) = {} /\ Teaches(d, r.id) = {}
StaffRemoved(d, r) == [d EXCEPT !.staff[r.id].live = FALSE]

MayHead(d, r) == r.head # Null => Live(d.staff, r.head)
DepartmentCreated(d, r) == [d EXCEPT !.department = With(@, r.id, [head |-> r.head, live |-> TRUE])]

MayUpdateDepartment(d, r) == Live(d.department, r.id) /\ MayHead(d, r)
DepartmentUpdated(d, r) == [d EXCEPT !.department[r.id].head = r.head]

MayRemoveDepartment(d, r) == Live(d.department, r.id) /\ Members(d, r.id) = {}
DepartmentRemoved(d, r) == [d EXCEPT !.department[r.id].live = FALSE]

MayAddToDepartment(d, r) ==
    Live(d.department, r.id) /\ r.subject \in DOMAIN d.subject /\ <<r.id, r.subject>> \notin d.taught
AddedToDepartment(d, r) == [d EXCEPT !.taught = @ \cup {<<r.id, r.subject>>}]

MayTakeFromDepartment(d, r) == Live(d.department, r.id) /\ <<r.id, r.subject>> \in d.taught
TakenFromDepartment(d, r) == [d EXCEPT !.taught = @ \ {<<r.id, r.subject>>}]

\* The class fixes the year, so the year is not part of the key.
MayAssign(d, r) ==
    Live(d.staff, r.id[1]) /\ Live(d.class, r.id[2]) /\ r.id[3] \in DOMAIN d.subject
Assigned(d, r) == [d EXCEPT !.assignment = @ \cup {r.id}]

MayUnassign(d, r) == r.id \in d.assignment
Unassigned(d, r) == [d EXCEPT !.assignment = @ \ {r.id}]

MaySetClassTeacher(d, r) == Live(d.class, r.id) /\ (r.teacher # Null => Live(d.staff, r.teacher))
ClassTeacherSet(d, r) == [d EXCEPT !.class[r.id].teacher = r.teacher]
-----------------------------------------------------------------------------
(* The register of one day, and the assessments.  A pupil is an enrolment. *)

OfClass(d, S, k) == \A n \in S : n \in DOMAIN d.enrolment /\ d.enrolment[n].class = k

\* A mark that is there keeps the class it was made in.
MayMark(d, r) == Live(d.class, r.id) /\ OfClass(d, r.pupils, r.id)
Marked(d, r) ==
    [d EXCEPT !.attendance = [n \in DOMAIN @ \cup r.pupils |-> IF n \in DOMAIN @ THEN @[n] ELSE r.id]]

TermOf(d, y, t) == t = Null \/ (y \in DOMAIN d.year /\ t \in d.year[y].terms)
MayAssess(d, r) ==
    /\ r.id \notin DOMAIN d.assessment
    /\ Live(d.class, r.class) /\ r.subject \in DOMAIN d.subject
    /\ TermOf(d, d.class[r.class].year, r.term)
AssessmentCreated(d, r) ==
    [d EXCEPT !.assessment = With(@, r.id, [class |-> r.class, subject |-> r.subject, term |-> r.term,
                                            max |-> r.max, live |-> TRUE])]

YearOf(d, a) == d.class[d.assessment[a].class].year

MayUpdateAssessment(d, r) ==
    Live(d.assessment, r.id) /\ TermOf(d, YearOf(d, r.id), r.term) /\ (r.term # Null \/ r.max # Null)
AssessmentUpdated(d, r) ==
    [d EXCEPT !.assessment[r.id] = [@ EXCEPT !.term = Given(r.term, @), !.max = Given(r.max, @)]]

\* update with the term set to null.
MayClearTerm(d, r) == Live(d.assessment, r.id)
TermCleared(d, r) == [d EXCEPT !.assessment[r.id].term = Null]

MayRemoveAssessment(d, r) == Live(d.assessment, r.id)
AssessmentRemoved(d, r) == [d EXCEPT !.assessment[r.id].live = FALSE]

MaySaveScores(d, r) ==
    /\ Live(d.assessment, r.id)
    /\ OfClass(d, DOMAIN r.scores, d.assessment[r.id].class)
    /\ \A n \in DOMAIN r.scores : r.scores[n] <= d.assessment[r.id].max
ScoresSaved(d, r) ==
    LET saved == {<<r.id, n>> : n \in DOMAIN r.scores}
    IN  [d EXCEPT !.score = [k \in DOMAIN @ \cup saved |-> IF k \in saved THEN r.scores[k[2]] ELSE @[k]]]
=============================================================================
