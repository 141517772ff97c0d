--------------------------- MODULE SchoolRecords ---------------------------
(***************************************************************************)
(* The record keeping of a school: requests of several clients against the *)
(* tables of SchoolStructure and SchoolPeople.  A handler reads what its   *)
(* checks need and answers with an error or goes on to write; between its  *)
(* reads and its write anything may happen, and what keeps the tables      *)
(* together then is only what the database checks itself.  Handlers that   *)
(* clear rows before they set one do it in a transaction, whose first      *)
(* statement fixes the rows that are cleared.                              *)
(*                                                                         *)
(* The reads of one handler's checks are one step.                         *)
(***************************************************************************)
EXTENDS SchoolPeople

CONSTANTS Clients, School, Requests, MaxRequests

ASSUME RecordsAssumption ==
    /\ MaxRequests \in Nat
    /\ Requests \subseteq StructureRequests \cup PeopleRequests \cup RegisterRequests

Tables == {"campus", "year", "section", "grade", "class", "curriculum", "subject", "scheme",
           "student", "guardian", "link", "enrolment", "staff", "department", "taught",
           "assignment", "attendance", "assessment", "score"}

\* The columns of the tables that are related below.
Columns == [
    campus |-> {"main", "active", "live"}, year |-> {"current", "terms"},
    section |-> {"campus", "curriculum", "scheme", "live"}, grade |-> {"section", "live"},
    class |-> {"grade", "year", "teacher", "live", "campus"}, student |-> {"campus", "live"},
    guardian |-> {"live"}, link |-> {"primary"}, enrolment |-> {"class", "campus", "status"},
    staff |-> {"campus", "department", "live"}, department |-> {"head", "live"}]
Fits(d, t) == \A k \in DOMAIN d[t] : DOMAIN d[t][k] = Columns[t]
Formed(d) == DOMAIN d = Tables /\ \A t \in DOMAIN Columns : Fits(d, t)

PrimaryLinks(d, s) == {l \in LinksOf(d, s) : d.link[l].primary}

(* What must not be found in a school. *)
LooseGrades(d) == {g \in DOMAIN d.grade : d.grade[g].live /\ ~Live(d.section, d.grade[g].section)}
LooseClasses(d) == {k \in DOMAIN d.class : d.class[k].live /\ ~Live(d.grade, d.class[k].grade)}
LooseStaff(d) == {t \in DOMAIN d.staff : /\ d.staff[t].live /\ d.staff[t].department # Null
                                         /\ ~Live(d.department, d.staff[t].department)}
LooseLinks(d) == {l \in DOMAIN d.link : ~Live(d.guardian, l[2])}
Gone(d) == {t \in DOMAIN d.staff : ~d.staff[t].live}
Drifted(d) ==
    {n \in DOMAIN d.enrolment : LET e == d.enrolment[n] IN
        ~(e.class \in DOMAIN d.class /\ e.campus = d.class[e.class].campus /\ n[2] = d.class[e.class].year)}

\* The school that is there at the start is sound.
ASSUME SchoolAssumption ==
    /\ Formed(School)
    /\ \E c \in Campuses : MainCampuses(School) \cap LiveCampuses(School) = {c}
    /\ \A x, y \in CurrentYears(School) : x = y
    /\ \A l, m \in DOMAIN School.link :
           School.link[l].primary /\ School.link[m].primary /\ l[1] = m[1] => l = m
    /\ \A y \in DOMAIN School.year : InOrder(School.year[y].terms)
    /\ LooseGrades(School) \cup LooseClasses(School) \cup LooseStaff(School) \cup LooseLinks(School) = {}
    /\ Drifted(School) = {}
    /\ \A t \in Gone(School) : Heads(School, t) \cup TeacherOf(School, t) \cup Teaches(School, t) = {}
    /\ \A n \in DOMAIN School.enrolment : n[1] \in DOMAIN School.student
    /\ DOMAIN School.staff \subseteq Teachers /\ Null \notin Teachers

VARIABLES
    db,       \* the tables
    held,     \* held[c]: the request client c is being served, past its checks
    asked,    \* how many requests got past their checks
    made,     \* the keys that were ever generated for rows without a unique column
    overtaken \* history: the kinds of requests that wrote on checks no longer true

vars == <<db, held, asked, made, overtaken>>

Idle == [req |-> Null, seen |-> Null, open |-> FALSE]

\* The handlers that are a transaction of several statements.
Transactional == {"campus.promote", "year.create", "year.setCurrent", "year.terms", "scheme.bands",
                  "guardian.link", "guardian.createAndLink"}
\* Tables without a unique column: the new row's key is a generated one, that
\* no row has had before.
FreshKey(r) ==
    CASE r.op \in {"section.create", "grade.create", "class.create", "guardian.create",
                   "assessment.create"} -> {r.id}
      [] r.op \in {"year.create", "year.terms"} -> r.terms
      [] r.op = "guardian.createAndLink" -> {r.guardian}
      [] OTHER -> {}

Accepts(d, r) ==
    CASE r.op = "campus.create" -> MayCreateCampus(d, r)
      [] r.op = "campus.promote" -> MayPromoteCampus(d, r)
      [] r.op = "campus.deactivate" -> MayDeactivateCampus(d, r)
      [] r.op = "campus.activate" -> MayActivateCampus(d, r)
      [] r.op = "campus.remove" -> MayRemoveCampus(d, r)
      [] r.op = "year.create" -> MayCreateYear(d, r)
      [] r.op = "year.setCurrent" -> MaySetCurrent(d, r)
      [] r.op = "year.remove" -> MayRemoveYear(d, r)
      [] r.op = "year.terms" -> MayReplaceTerms(d, r)
      [] r.op = "section.create" -> MayCreateSection(d, r)
      [] r.op = "section.update" -> MayUpdateSection(d, r)
      [] r.op = "section.clear" -> MayClearSection(d, r)
      [] r.op = "section.remove" -> MayRemoveSection(d, r)
      [] r.op = "grade.create" -> MayCreateGrade(d, r)
      [] r.op = "grade.remove" -> MayRemoveGrade(d, r)
      [] r.op = "class.create" -> MayCreateClass(d, r)
      [] r.op = "class.remove" -> MayRemoveClass(d, r)
      [] r.op = "class.teacher" -> MaySetClassTeacher(d, r)
      [] r.op = "curriculum.create" -> MayCreateCurriculum(d, r)
      [] r.op = "curriculum.clone" -> MayCloneCurriculum(d, r)
      [] r.op = "curriculum.remove" -> MayRemoveCurriculum(d, r)
      [] r.op = "subject.add" -> MayAddSubject(d, r)
      [] r.op = "subject.remove" -> MayRemoveSubject(d, r)
      [] r.op = "scheme.create" -> MayCreateScheme(d, r)
      [] r.op = "scheme.clone" -> MayCloneScheme(d, r)
      [] r.op = "scheme.bands" -> MayReplaceBands(d, r)
      [] r.op = "scheme.remove" -> MayRemoveScheme(d, r)
      [] r.op = "student.create" -> MayCreateStudent(d, r)
      [] r.op = "student.update" -> MayUpdateStudent(d, r)
      [] r.op = "student.remove" -> MayRemoveStudent(d, r)
      [] r.op = "guardian.create" -> MayCreateGuardian(d, r)
      [] r.op = "guardian.remove" -> MayRemoveGuardian(d, r)
      [] r.op = "guardian.link" -> MayLinkGuardian(d, r)
      [] r.op = "guardian.createAndLink" -> MayCreateAndLink(d, r)
      [] r.op = "guardian.unlink" -> MayUnlink(d, r)
      [] r.op = "enrolment.create" -> MayEnrol(d, r)
      [] r.op = "enrolment.update" -> MayUpdateEnrolment(d, r)
      [] r.op = "enrolment.remove" -> MayRemoveEnrolment(d, r)
      [] r.op = "staff.create" -> MayEmploy(d, r)
      [] r.op = "staff.update" -> MayUpdateStaff(d, r)
      [] r.op = "staff.remove" -> MayRemoveStaff(d, r)
      [] r.op = "department.create" -> MayHead(d, r)
      [] r.op = "department.update" -> MayUpdateDepartment(d, r)
      [] r.op = "department.remove" -> MayRemoveDepartment(d, r)
      [] r.op = "department.addSubject" -> MayAddToDepartment(d, r)
      [] r.op = "department.removeSubject" -> MayTakeFromDepartment(d, r)
      [] r.op = "assignment.create" -> MayAssign(d, r)
      [] r.op = "assignment.remove" -> MayUnassign(d, r)
      [] r.op = "attendance.mark" -> MayMark(d, r)
      [] r.op = "assessment.create" -> MayAssess(d, r)
      [] r.op = "assessment.update" -> MayUpdateAssessment(d, r)
      [] r.op = "assessment.clear" -> MayClearTerm(d, r)
      [] r.op = "assessment.remove" -> MayRemoveAssessment(d, r)
      [] r.op = "assessment.scores" -> MaySaveScores(d, r)

\* What a handler has read that its write depends on: the rows its first
\* statement clears, or the class an enrolment had.
Seen(d, r) ==
    CASE r.op = "campus.promote" -> MainCampuses(d)
      [] r.op = "year.create" -> IF r.current THEN CurrentYears(d) ELSE {}
      [] r.op = "year.setCurrent" -> CurrentYears(d)
      [] r.op = "year.terms" -> IF r.id \in DOMAIN d.year THEN d.year[r.id].terms ELSE {}
      [] r.op = "scheme.bands" -> IF r.id \in DOMAIN d.scheme THEN d.scheme[r.id] ELSE {}
      [] r.op \in {"guardian.link", "guardian.createAndLink"} -> LinksOf(d, r.id)
      [] r.op = "enrolment.update" -> IF r.id \in DOMAIN d.enrolment THEN d.enrolment[r.id].class ELSE Null
      [] OTHER -> Null

\* What the database checks when the row is written: the row to change is
\* there, unique columns are unique, foreign keys point to rows.
Admits(d, r, seen) ==
    CASE r.op = "campus.create" -> MayCreateCampus(d, r)
      [] r.op = "year.create" -> r.id \notin DOMAIN d.year
      [] r.op \in {"year.setCurrent", "year.remove"} -> r.id \in DOMAIN d.year
      [] r.op = "year.terms" -> r.id \in DOMAIN d.year /\ ~TermsCollide(d, r, seen)
      [] r.op \in {"section.create", "section.update"} ->
            r.curriculum \in d.curriculum \cup {Null} /\ r.scheme \in DOMAIN d.scheme \cup {Null}
      [] r.op = "class.create" -> r.year \in DOMAIN d.year
      [] r.op \in {"class.remove", "class.teacher"} -> r.id \in DOMAIN d.class
      [] r.op \in {"curriculum.create", "curriculum.clone"} -> r.id \notin d.curriculum
      [] r.op = "curriculum.remove" -> r.id \in d.curriculum
      [] r.op = "subject.add" -> MayAddSubject(d, r)
      [] r.op = "subject.remove" -> r.id \in DOMAIN d.subject
      [] r.op \in {"scheme.create", "scheme.clone"} -> r.id \notin DOMAIN d.scheme
      [] r.op = "scheme.bands" -> r.id \in DOMAIN d.scheme /\ ~BandsCollide(d, r, seen)
      [] r.op = "scheme.remove" -> r.id \in DOMAIN d.scheme
      [] r.op = "student.create" -> r.id \notin DOMAIN d.student
      [] r.op = "guardian.link" -> <<r.id, r.guardian>> \notin DOMAIN d.link
      [] r.op = "guardian.unlink" -> <<r.id, r.guardian>> \in DOMAIN d.link
      [] r.op = "enrolment.create" -> r.id \notin DOMAIN d.enrolment /\ r.class \in DOMAIN d.class
      [] r.op = "enrolment.update" ->
            r.id \in DOMAIN d.enrolment /\ r.class \in DOMAIN d.class \cup {Null}
      [] r.op = "enrolment.remove" -> r.id \in DOMAIN d.enrolment
      [] r.op = "staff.create" -> r.id \notin DOMAIN d.staff
      [] r.op = "department.create" -> r.id \notin DOMAIN d.department
      [] r.op = "department.addSubject" ->
            r.subject \in DOMAIN d.subject /\ <<r.id, r.subject>> \notin d.taught
      [] r.op = "department.removeSubject" -> <<r.id, r.subject>> \in d.taught
      [] r.op = "assignment.create" ->
            r.id[2] \in DOMAIN d.class /\ r.id[3] \in DOMAIN d.subject /\ r.id \notin d.assignment
      [] r.op = "assignment.remove" -> r.id \in d.assignment
      [] r.op = "attendance.mark" -> r.id \in DOMAIN d.class /\ r.pupils \subseteq DOMAIN d.enrolment
      [] r.op = "assessment.create" ->
            /\ r.class \in DOMAIN d.class /\ r.subject \in DOMAIN d.subject
            /\ r.term # Null => \E y \in DOMAIN d.year : r.term \in d.year[y].terms
      [] r.op = "assessment.update" ->
            /\ r.id \in DOMAIN d.assessment
            /\ r.term # Null => \E y \in DOMAIN d.year : r.term \in d.year[y].terms
      [] r.op \in {"assessment.clear", "assessment.remove"} -> r.id \in DOMAIN d.assessment
      [] r.op = "assessment.scores" ->
            r.id \in DOMAIN d.assessment /\ DOMAIN r.scores \subseteq DOMAIN d.enrolment
      [] OTHER -> TRUE

Written(d, r, seen) ==
    CASE r.op = "campus.create" -> CampusCreated(d, r)
      [] r.op = "campus.promote" -> CampusPromoted(d, r, seen)
      [] r.op = "campus.deactivate" -> CampusDeactivated(d, r)
      [] r.op = "campus.activate" -> CampusActivated(d, r)
      [] r.op = "campus.remove" -> CampusRemoved(d, r)
      [] r.op = "year.create" -> YearCreated(d, r, seen)
      [] r.op = "year.setCurrent" -> CurrentSet(d, r, seen)
      [] r.op = "year.remove" -> YearRemoved(d, r)
      [] r.op = "year.terms" -> TermsReplaced(d, r, seen)
      [] r.op = "section.create" -> SectionCreated(d, r)
      [] r.op = "section.update" -> SectionUpdated(d, r)
      [] r.op = "section.clear" -> SectionCleared(d, r)
      [] r.op = "section.remove" -> SectionRemoved(d, r)
      [] r.op = "grade.create" -> GradeCreated(d, r)
      [] r.op = "grade.remove" -> GradeRemoved(d, r)
      [] r.op = "class.create" -> ClassCreated(d, r)
      [] r.op = "class.remove" -> ClassRemoved(d, r)
      [] r.op = "class.teacher" -> ClassTeacherSet(d, r)
      [] r.op = "curriculum.create" -> CurriculumCreated(d, r)
      [] r.op = "curriculum.clone" -> CurriculumCloned(d, r)
      [] r.op = "curriculum.remove" -> CurriculumRemoved(d, r)
      [] r.op = "subject.add" -> SubjectAdded(d, r)
      [] r.op = "subject.remove" -> SubjectRemoved(d, r)
      [] r.op = "scheme.create" -> SchemeCreated(d, r)
      [] r.op = "scheme.clone" -> SchemeCloned(d, r)
      [] r.op = "scheme.bands" -> BandsReplaced(d, r, seen)
      [] r.op = "scheme.remove" -> SchemeRemoved(d, r)
      [] r.op = "student.create" -> StudentCreated(d, r)
      [] r.op = "student.update" -> StudentUpdated(d, r)
      [] r.op = "student.remove" -> StudentRemoved(d, r)
      [] r.op = "guardian.create" -> GuardianCreated(d, r)
      [] r.op = "guardian.remove" -> GuardianRemoved(d, r)
      [] r.op = "guardian.link" -> Linked(d, r, seen)
      [] r.op = "guardian.createAndLink" -> CreatedAndLinked(d, r, seen)
      [] r.op = "guardian.unlink" -> Unlinked(d, r)
      [] r.op = "enrolment.create" -> EnrolmentCreated(d, r)
      [] r.op = "enrolment.update" -> EnrolmentUpdated(d, r, seen)
      [] r.op = "enrolment.remove" -> EnrolmentRemoved(d, r)
      [] r.op = "staff.create" -> StaffCreated(d, r)
      [] r.op = "staff.update" -> StaffUpdated(d, r)
      [] r.op = "staff.remove" -> StaffRemoved(d, r)
      [] r.op = "department.create" -> DepartmentCreated(d, r)
      [] r.op = "department.update" -> DepartmentUpdated(d, r)
      [] r.op = "department.remove" -> DepartmentRemoved(d, r)
      [] r.op = "department.addSubject" -> AddedToDepartment(d, r)
      [] r.op = "department.removeSubject" -> TakenFromDepartment(d, r)
      [] r.op = "assignment.create" -> Assigned(d, r)
      [] r.op = "assignment.remove" -> Unassigned(d, r)
      [] r.op = "attendance.mark" -> Marked(d, r)
      [] r.op = "assessment.create" -> AssessmentCreated(d, r)
      [] r.op = "assessment.update" -> AssessmentUpdated(d, r)
      [] r.op = "assessment.clear" -> TermCleared(d, r)
      [] r.op = "assessment.remove" -> AssessmentRemoved(d, r)
      [] r.op = "assessment.scores" -> ScoresSaved(d, r)
-----------------------------------------------------------------------------
Init ==
    /\ db = School /\ held = [c \in Clients |-> Idle] /\ asked = 0 /\ overtaken = {}
    /\ made = UNION {DOMAIN School.section, DOMAIN School.grade, DOMAIN School.class,
                     DOMAIN School.guardian, DOMAIN School.assessment}
              \cup UNION {School.year[y].terms : y \in DOMAIN School.year}

\* The handler's checks; a request they refuse leaves no trace.
Check(c) ==
    /\ held[c] = Idle /\ asked < MaxRequests
    /\ \E r \in Requests :
         /\ Accepts(db, r)
         /\ FreshKey(r) \cap made = {}
         /\ made' = made \cup FreshKey(r)
         /\ held' = [held EXCEPT ![c] = [req |-> r, seen |-> Seen(db, r),
                                         open |-> r.op \notin Transactional]]
    /\ asked' = asked + 1
    /\ UNCHANGED <<db, overtaken>>

\* The first statement of the transaction.
Statement(c) ==
    /\ held[c] # Idle /\ ~held[c].open
    /\ held' = [held EXCEPT ![c].seen = Seen(db, held[c].req), ![c].open = TRUE]
    /\ UNCHANGED <<db, asked, made, overtaken>>

Overtaken(c) == ~Accepts(db, held[c].req) \/ Seen(db, held[c].req) # held[c].seen

\* The write, or the error the database answers it with.
Write(c) ==
    /\ held[c] # Idle /\ held[c].open
    /\ held' = [held EXCEPT ![c] = Idle]
    /\ LET r == held[c].req IN
         IF Admits(db, r, held[c].seen)
         THEN /\ db' = Written(db, r, held[c].seen)
              /\ overtaken' = IF Overtaken(c) THEN overtaken \cup {r.op} ELSE overtaken
         ELSE UNCHANGED <<db, overtaken>>
    /\ UNCHANGED <<asked, made>>

Next == \E c \in Clients : Check(c) \/ Statement(c) \/ Write(c)

Spec == Init /\ [][Next]_vars
-----------------------------------------------------------------------------
Raced(ops) == overtaken \cap ops # {}

\* "Exactly one main per tenant", one current year, one primary guardian: each
\* is kept by clearing the old one in the same transaction, so it can break
\* only when two of the clearing requests, or a deletion of the new main
\* campus, did not see each other.
SingletonsUnlessRaced ==
    /\ Cardinality(MainCampuses(db) \cap LiveCampuses(db)) = 1
         \/ Raced({"campus.promote", "campus.remove"})
    /\ Cardinality(CurrentYears(db)) <= 1 \/ Raced({"year.create", "year.setCurrent"})
    /\ \A s \in DOMAIN db.student :
         \/ Cardinality(PrimaryLinks(db, s)) <= 1
         \/ Raced({"guardian.link", "guardian.createAndLink"})
    /\ \A y \in DOMAIN db.year : InOrder(db.year[y].terms)

\* The tree has no live branch on a deleted one: a live grade is in a live
\* section, a live class in a live grade; no member of staff is in a deleted
\* department.  Each is one count before a deletion against one look-up
\* before an insert.
TreeUnlessRaced ==
    /\ LooseGrades(db) = {} \/ Raced({"section.remove", "grade.create"})
    /\ LooseClasses(db) = {} \/ Raced({"grade.remove", "class.create"})
    /\ LooseStaff(db) = {} \/ Raced({"department.remove", "staff.create", "staff.update"})

\* "An enrollment can't drift to the wrong year/site": the campus and the
\* year of an enrolment are those of its class, unless a change of the
\* enrolment had read a class it no longer was in.
EnrolmentsFollowTheirClass == Drifted(db) = {} \/ Raced({"enrolment.update"})

\* "So nothing silently loses its HOD / class teacher / teacher": nobody who
\* was deleted has responsibilities or children in the school, unless the
\* deletion, or the request that gave them, was overtaken.
NobodyGoneIsNeeded ==
    /\ \A t \in Gone(db) :
         /\ Heads(db, t) = {} \/ Raced({"staff.remove", "department.create", "department.update"})
         /\ TeacherOf(db, t) = {} \/ Raced({"staff.remove", "class.teacher"})
         /\ Teaches(db, t) = {} \/ Raced({"staff.remove", "assignment.create"})
    /\ LooseLinks(db) = {} \/ Raced({"guardian.remove", "guardian.link"})

\* Classes, enrolments, attendance marks, assessments and scores are the
\* school's history, and no row of them goes but with the row it hangs on.  A
\* class is lost only to the deletion of its own year, and then the count of
\* classes was out of date; an enrolment to its own deletion, or with its year
\* in the same way; a mark with its own enrolment, or with the class it was
\* made in; an assessment with its own subject, when that or the curriculum it
\* is in is deleted, or with its class; a score with its assessment or its
\* enrolment.  A deleted pupil is never on roll again, but through a change of
\* the enrolment, which does not ask, or an overtaken check.
Lost(table) == DOMAIN db[table] \ DOMAIN db'[table]
Ends(c) == held[c] # Idle /\ held'[c] = Idle
Removes(op, k) == \E c \in Clients : Ends(c) /\ held[c].req.op = op /\ held[c].req.id = k
RemovesUnaware(op, k) ==
    \E c \in Clients : Ends(c) /\ held[c].req.op = op /\ held[c].req.id = k /\ Overtaken(c)
SubjectGoes(s) ==
    Removes("subject.remove", s) \/ Removes("curriculum.remove", db.subject[s].curriculum)
Writes(ops) == \E c \in Clients : Ends(c) /\ held[c].req.op \in ops
WritesOvertaken(ops) == \E c \in Clients : Ends(c) /\ held[c].req.op \in ops /\ Overtaken(c)
GhostPupils(d) == {n \in DOMAIN d.enrolment : d.enrolment[n].status = "ENROLLED" /\ ~d.student[n[1]].live}
HistoryIsKept ==
    [][/\ \A k \in Lost("class") : RemovesUnaware("year.remove", db.class[k].year)
       /\ \A n \in Lost("enrolment") :
             Removes("enrolment.remove", n) \/ RemovesUnaware("year.remove", n[2])
       /\ \A n \in Lost("attendance") : n \in Lost("enrolment") \/ db.attendance[n] \in Lost("class")
       /\ \A a \in Lost("assessment") :
             SubjectGoes(db.assessment[a].subject) \/ db.assessment[a].class \in Lost("class")
       /\ \A k \in Lost("score") : k[1] \in Lost("assessment") \/ k[2] \in Lost("enrolment")
       /\ (GhostPupils(db) = {} /\ GhostPupils(db') # {}) =>
              \/ Writes({"enrolment.update"})
              \/ WritesOvertaken({"student.remove", "enrolment.create"})]_vars
=============================================================================
