------------------------ MODULE SchoolRecordsProofs ------------------------
(***************************************************************************)
(* Proofs about SchoolRecords, for any school, any number of clients and   *)
(* any requests.                                                           *)
(*                                                                         *)
(* The first part says what a write leaves alone: each of the fifty-four  *)
(* requests changes one table or the few its foreign keys cascade to.  The *)
(* second part takes the properties one by one: a write whose checks still *)
(* hold keeps what they are for, and one whose checks do not is named in   *)
(* overtaken.  What the checks do not say is said of the rows' keys, which *)
(* are never generated twice.                                              *)
(***************************************************************************)
EXTENDS SchoolRecords, FiniteSetTheorems, TLAPS

(* The requests, by the tables they write. *)

CampusOps == {"campus.create", "campus.promote", "campus.deactivate", "campus.activate", "campus.remove"}
YearOps == {"year.create", "year.setCurrent", "year.terms"}
SectionOps == {"section.create", "section.update", "section.clear", "section.remove"}
GradeOps == {"grade.create", "grade.remove"}
ClassOps == {"class.create", "class.remove", "class.teacher"}
CurriculumOps == {"curriculum.create", "curriculum.clone", "subject.add"}
SchemeOps == {"scheme.create", "scheme.clone", "scheme.bands"}
StudentOps == {"student.create", "student.update", "student.remove"}
GuardianOps == {"guardian.create", "guardian.remove"}
LinkOps == {"guardian.link", "guardian.unlink"}
EnrolmentOps == {"enrolment.create", "enrolment.update"}
StaffOps == {"staff.create", "staff.update", "staff.remove"}
DepartmentOps == {"department.create", "department.update", "department.remove"}
TeachingOps == {"department.addSubject", "department.removeSubject", "assignment.create",
                "assignment.remove"}
RegisterOps == {"attendance.mark", "assessment.create", "assessment.update", "assessment.clear",
                "assessment.remove", "assessment.scores"}

(* No table but those of T is another one. *)
Changes(d, e, T) == DOMAIN e = Tables /\ \A t \in Tables \ T : e[t] = d[t]

LEMMA FormedKept ==
  ASSUME NEW d, Formed(d), NEW e, NEW T, Changes(d, e, T), \A t \in T \cap DOMAIN Columns : Fits(e, t)
  PROVE  Formed(e)
<1>1. DOMAIN Columns \subseteq Tables BY DEF Columns, Tables
<1> QED BY <1>1 DEF Formed, Changes, Fits
-----------------------------------------------------------------------------
(* What each write leaves alone. *)


LEMMA WritesCampuses ==
  ASSUME NEW d, Formed(d), NEW r, r.op \in CampusOps, NEW seen
  PROVE  Changes(d, Written(d, r, seen), {"campus"}) /\ Fits(Written(d, r, seen), "campus")
<1> USE DEF Changes, Tables, Formed, Fits, Columns, With
<1>1. CASE r.op = "campus.create" BY <1>1 DEF Written, CampusCreated
<1>2. CASE r.op = "campus.promote" BY <1>2 DEF Written, CampusPromoted, OnlyMain
<1>3. CASE r.op = "campus.deactivate" BY <1>3 DEF Written, CampusDeactivated
<1>4. CASE r.op = "campus.remove"
  <2> DEFINE v == [d.campus[r.id] EXCEPT !.live = FALSE, !.active = FALSE]
  <2>1. DOMAIN v = DOMAIN d.campus[r.id] OBVIOUS
  <2>2. Written(d, r, seen) = [d EXCEPT !.campus = [@ EXCEPT ![r.id] = v]] BY <1>4 DEF Written, CampusRemoved
  <2> HIDE DEF v
  <2> QED BY <2>1, <2>2
<1>5. CASE r.op = "campus.activate" BY <1>5 DEF Written, CampusActivated
<1> QED BY <1>1, <1>2, <1>3, <1>4, <1>5 DEF CampusOps

LEMMA WritesYears ==
  ASSUME NEW d, Formed(d), NEW r, r.op \in YearOps, NEW seen
  PROVE  Changes(d, Written(d, r, seen), {"year", "assessment"}) /\ Fits(Written(d, r, seen), "year")
<1> USE DEF Changes, Tables, Formed, Fits, Columns, With
<1>1. CASE r.op = "year.create"
  <2> DEFINE f == With(d.year, r.id, [current |-> FALSE, terms |-> r.terms])
             g == OnlyCurrent(f, r.id, seen)
             h == IF r.current THEN g ELSE f
  <2>1. Written(d, r, seen) = [d EXCEPT !.year = h] BY <1>1 DEF Written, YearCreated
  <2>2. \A x \in DOMAIN f : DOMAIN f[x] = {"current", "terms"} OBVIOUS
  <2> HIDE DEF f
  <2>3. \A x \in DOMAIN g : DOMAIN g[x] = {"current", "terms"} BY <2>2 DEF OnlyCurrent
  <2> HIDE DEF g
  <2>4. \A x \in DOMAIN h : DOMAIN h[x] = {"current", "terms"} BY <2>2, <2>3
  <2> HIDE DEF h
  <2> QED BY <2>1, <2>4
<1>2. CASE r.op = "year.setCurrent" BY <1>2 DEF Written, CurrentSet, OnlyCurrent
<1>3. CASE r.op = "year.terms"
  <2> DEFINE e == DropTerms(d, seen)
  <2>1. DOMAIN e = Tables /\ \A t \in Tables \ {"assessment"} : e[t] = d[t] BY DEF DropTerms
  <2>2. Written(d, r, seen) = [e EXCEPT !.year[r.id].terms = (@ \ seen) \cup r.terms]
    BY <1>3 DEF Written, TermsReplaced
  <2> HIDE DEF e
  <2> QED BY <2>1, <2>2
<1> QED BY <1>1, <1>2, <1>3 DEF YearOps

LEMMA WritesSections ==
  ASSUME NEW d, Formed(d), NEW r, r.op \in SectionOps, NEW seen
  PROVE  Changes(d, Written(d, r, seen), {"section"}) /\ Fits(Written(d, r, seen), "section")
<1> USE DEF Changes, Tables, Formed, Fits, Columns, With
<1>1. CASE r.op = "section.create" BY <1>1 DEF Written, SectionCreated
<1>2. CASE r.op = "section.update" BY <1>2 DEF Written, SectionUpdated
<1>3. CASE r.op = "section.remove" BY <1>3 DEF Written, SectionRemoved
<1>4. CASE r.op = "section.clear" BY <1>4 DEF Written, SectionCleared
<1> QED BY <1>1, <1>2, <1>3, <1>4 DEF SectionOps

LEMMA WritesGrades ==
  ASSUME NEW d, Formed(d), NEW r, r.op \in GradeOps, NEW seen
  PROVE  Changes(d, Written(d, r, seen), {"grade"}) /\ Fits(Written(d, r, seen), "grade")
<1> USE DEF Changes, Tables, Formed, Fits, Columns, With
<1>1. CASE r.op = "grade.create"
  <2> DEFINE f == With(d.grade, r.id, [section |-> r.section, live |-> TRUE])
  <2>1. Written(d, r, seen) = [d EXCEPT !.grade = f] BY <1>1 DEF Written, GradeCreated
  <2>2. \A x \in DOMAIN f : DOMAIN f[x] = {"section", "live"} OBVIOUS
  <2> HIDE DEF f
  <2> QED BY <2>1, <2>2
<1>2. CASE r.op = "grade.remove"
  <2> DEFINE f == [d.grade EXCEPT ![r.id].live = FALSE]
  <2>1. Written(d, r, seen) = [d EXCEPT !.grade = f] BY <1>2 DEF Written, GradeRemoved
  <2>2. \A x \in DOMAIN f : DOMAIN f[x] = {"section", "live"} OBVIOUS
  <2> HIDE DEF f
  <2> QED BY <2>1, <2>2
<1> QED BY <1>1, <1>2 DEF GradeOps

LEMMA WritesClasses ==
  ASSUME NEW d, Formed(d), NEW r, r.op \in ClassOps, NEW seen
  PROVE  Changes(d, Written(d, r, seen), {"class"}) /\ Fits(Written(d, r, seen), "class")
<1>0. /\ DOMAIN d = Tables
      /\ \A x \in DOMAIN d.class : DOMAIN d.class[x] = {"grade", "year", "teacher", "live", "campus"}
  BY DEF Formed, Fits, Columns, Tables
<1>1. CASE r.op = "class.create"
  <2> DEFINE f == With(d.class, r.id, [grade |-> r.grade, year |-> r.year, teacher |-> Null, live |-> TRUE,
                                     campus |-> d.section[d.grade[r.grade].section].campus])
  <2>1. Written(d, r, seen) = [d EXCEPT !.class = f] BY <1>1 DEF Written, ClassCreated
  <2>2. \A x \in DOMAIN f : DOMAIN f[x] = {"grade", "year", "teacher", "live", "campus"} BY <1>0 DEF With
  <2> HIDE DEF f
  <2> QED BY <2>1, <2>2, <1>0 DEF Changes, Tables, Fits, Columns
<1>2. CASE r.op = "class.remove"
  <2> DEFINE f == [d.class EXCEPT ![r.id].live = FALSE]
  <2>1. Written(d, r, seen) = [d EXCEPT !.class = f] BY <1>2 DEF Written, ClassRemoved
  <2>2. \A x \in DOMAIN f : DOMAIN f[x] = {"grade", "year", "teacher", "live", "campus"} BY <1>0 DEF With
  <2> HIDE DEF f
  <2> QED BY <2>1, <2>2, <1>0 DEF Changes, Tables, Fits, Columns
<1>3. CASE r.op = "class.teacher"
  <2> DEFINE f == [d.class EXCEPT ![r.id].teacher = r.teacher]
  <2>1. Written(d, r, seen) = [d EXCEPT !.class = f] BY <1>3 DEF Written, ClassTeacherSet
  <2>2. \A x \in DOMAIN f : DOMAIN f[x] = {"grade", "year", "teacher", "live", "campus"} BY <1>0 DEF With
  <2> HIDE DEF f
  <2> QED BY <2>1, <2>2, <1>0 DEF Changes, Tables, Fits, Columns
<1> QED BY <1>1, <1>2, <1>3 DEF ClassOps

LEMMA WritesCurricula ==
  ASSUME NEW d, Formed(d), NEW r, r.op \in CurriculumOps, NEW seen
  PROVE  Changes(d, Written(d, r, seen), {"curriculum", "subject"})
<1> USE DEF Changes, Tables, Formed
<1>1. CASE r.op = "curriculum.create" BY <1>1 DEF Written, CurriculumCreated
<1>2. CASE r.op = "curriculum.clone" BY <1>2 DEF Written, CurriculumCloned
<1>3. CASE r.op = "subject.add" BY <1>3 DEF Written, SubjectAdded
<1> QED BY <1>1, <1>2, <1>3 DEF CurriculumOps

LEMMA WritesSchemes ==
  ASSUME NEW d, Formed(d), NEW r, r.op \in SchemeOps, NEW seen
  PROVE  Changes(d, Written(d, r, seen), {"scheme"})
<1> USE DEF Changes, Tables, Formed
<1>1. CASE r.op = "scheme.create" BY <1>1 DEF Written, SchemeCreated
<1>2. CASE r.op = "scheme.clone" BY <1>2 DEF Written, SchemeCloned
<1>3. CASE r.op = "scheme.bands" BY <1>3 DEF Written, BandsReplaced
<1> QED BY <1>1, <1>2, <1>3 DEF SchemeOps

LEMMA WritesStudents ==
  ASSUME NEW d, Formed(d), NEW r, r.op \in StudentOps, NEW seen
  PROVE  Changes(d, Written(d, r, seen), {"student"}) /\ Fits(Written(d, r, seen), "student")
<1> USE DEF Changes, Tables, Formed, Fits, Columns, With
<1>1. CASE r.op = "student.create" BY <1>1 DEF Written, StudentCreated
<1>2. CASE r.op = "student.update" BY <1>2 DEF Written, StudentUpdated
<1>3. CASE r.op = "student.remove" BY <1>3 DEF Written, StudentRemoved
<1> QED BY <1>1, <1>2, <1>3 DEF StudentOps

LEMMA WritesGuardians ==
  ASSUME NEW d, Formed(d), NEW r, r.op \in GuardianOps, NEW seen
  PROVE  Changes(d, Written(d, r, seen), {"guardian"}) /\ Fits(Written(d, r, seen), "guardian")
<1> USE DEF Changes, Tables, Formed, Fits, Columns, With
<1>1. CASE r.op = "guardian.create" BY <1>1 DEF Written, GuardianCreated
<1>2. CASE r.op = "guardian.remove" BY <1>2 DEF Written, GuardianRemoved
<1> QED BY <1>1, <1>2 DEF GuardianOps

LEMMA WritesLinks ==
  ASSUME NEW d, Formed(d), NEW r, r.op \in LinkOps, NEW seen
  PROVE  Changes(d, Written(d, r, seen), {"link"}) /\ Fits(Written(d, r, seen), "link")
<1> USE DEF Changes, Tables, Formed, Fits, Columns, With
<1>1. CASE r.op = "guardian.link"
  <2> DEFINE f == Demoted(d.link, r, seen)
             g == With(f, <<r.id, r.guardian>>, [primary |-> r.primary])
  <2>1. Written(d, r, seen) = [d EXCEPT !.link = g] BY <1>1 DEF Written, Linked
  <2>2. \A x \in DOMAIN f : DOMAIN f[x] = {"primary"} BY DEF Demoted
  <2> HIDE DEF f
  <2>3. \A x \in DOMAIN g : DOMAIN g[x] = {"primary"} BY <2>2
  <2> HIDE DEF g
  <2> QED BY <2>1, <2>3
<1>2. CASE r.op = "guardian.unlink" BY <1>2 DEF Written, Unlinked, Without
<1> QED BY <1>1, <1>2 DEF LinkOps

LEMMA WritesEnrolments ==
  ASSUME NEW d, Formed(d), NEW r, r.op \in EnrolmentOps, NEW seen
  PROVE  Changes(d, Written(d, r, seen), {"enrolment"}) /\ Fits(Written(d, r, seen), "enrolment")
<1> USE DEF Changes, Tables, Formed, Fits, Columns, With
<1>1. CASE r.op = "enrolment.create" BY <1>1 DEF Written, EnrolmentCreated
<1>2. CASE r.op = "enrolment.update" BY <1>2 DEF Written, EnrolmentUpdated
<1> QED BY <1>1, <1>2 DEF EnrolmentOps

LEMMA WritesStaff ==
  ASSUME NEW d, Formed(d), NEW r, r.op \in StaffOps, NEW seen
  PROVE  Changes(d, Written(d, r, seen), {"staff"}) /\ Fits(Written(d, r, seen), "staff")
<1> USE DEF Changes, Tables, Formed, Fits, Columns, With
<1>1. CASE r.op = "staff.create" BY <1>1 DEF Written, StaffCreated
<1>2. CASE r.op = "staff.update"
  <2> DEFINE v == [d.staff[r.id] EXCEPT !.campus = r.campus, !.department = r.department]
  <2>1. DOMAIN v = DOMAIN d.staff[r.id] OBVIOUS
  <2>2. Written(d, r, seen) = [d EXCEPT !.staff = [@ EXCEPT ![r.id] = v]] BY <1>2 DEF Written, StaffUpdated
  <2> HIDE DEF v
  <2> QED BY <2>1, <2>2
<1>3. CASE r.op = "staff.remove" BY <1>3 DEF Written, StaffRemoved
<1> QED BY <1>1, <1>2, <1>3 DEF StaffOps

LEMMA WritesDepartments ==
  ASSUME NEW d, Formed(d), NEW r, r.op \in DepartmentOps, NEW seen
  PROVE  Changes(d, Written(d, r, seen), {"department"}) /\ Fits(Written(d, r, seen), "department")
<1> USE DEF Changes, Tables, Formed, Fits, Columns, With
<1>1. CASE r.op = "department.create" BY <1>1 DEF Written, DepartmentCreated
<1>2. CASE r.op = "department.update" BY <1>2 DEF Written, DepartmentUpdated
<1>3. CASE r.op = "department.remove" BY <1>3 DEF Written, DepartmentRemoved
<1> QED BY <1>1, <1>2, <1>3 DEF DepartmentOps

LEMMA WritesTeaching ==
  ASSUME NEW d, Formed(d), NEW r, r.op \in TeachingOps, NEW seen
  PROVE  Changes(d, Written(d, r, seen), {"taught", "assignment"})
<1> USE DEF Changes, Tables, Formed
<1>1. CASE r.op = "department.addSubject" BY <1>1 DEF Written, AddedToDepartment
<1>2. CASE r.op = "department.removeSubject" BY <1>2 DEF Written, TakenFromDepartment
<1>3. CASE r.op = "assignment.create" BY <1>3 DEF Written, Assigned
<1>4. CASE r.op = "assignment.remove" BY <1>4 DEF Written, Unassigned
<1> QED BY <1>1, <1>2, <1>3, <1>4 DEF TeachingOps

LEMMA WritesRegisters ==
  ASSUME NEW d, Formed(d), NEW r, r.op \in RegisterOps, NEW seen
  PROVE  Changes(d, Written(d, r, seen), {"attendance", "assessment", "score"})
<1> USE DEF Changes, Tables, Formed
<1>1. CASE r.op = "attendance.mark" BY <1>1 DEF Written, Marked
<1>2. CASE r.op = "assessment.create" BY <1>2 DEF Written, AssessmentCreated
<1>3. CASE r.op = "assessment.update" BY <1>3 DEF Written, AssessmentUpdated
<1>4. CASE r.op = "assessment.remove" BY <1>4 DEF Written, AssessmentRemoved
<1>5. CASE r.op = "assessment.scores" BY <1>5 DEF Written, ScoresSaved
<1>6. CASE r.op = "assessment.clear" BY <1>6 DEF Written, TermCleared
<1> QED BY <1>1, <1>2, <1>3, <1>4, <1>5, <1>6 DEF RegisterOps

LEMMA WritesLinkAndGuardian ==
  ASSUME NEW d, Formed(d), NEW r, r.op = "guardian.createAndLink", NEW seen
  PROVE  /\ Changes(d, Written(d, r, seen), {"guardian", "link"})
         /\ Fits(Written(d, r, seen), "guardian") /\ Fits(Written(d, r, seen), "link")
<1> DEFINE e == Linked(d, r, seen)
<1>1. DOMAIN e = Tables /\ \A t \in Tables \ {"link"} : e[t] = d[t] BY DEF Linked, Formed, Tables
<1>2. Fits(e, "link") BY DEF Linked, Demoted, Formed, Tables, Fits, Columns, With
<1>3. Written(d, r, seen) = [e EXCEPT !.guardian = With(@, r.guardian, [live |-> TRUE])]
  BY DEF Written, CreatedAndLinked
<1> HIDE DEF e
<1> QED BY <1>1, <1>2, <1>3 DEF Changes, Tables, Formed, Fits, Columns, With
-----------------------------------------------------------------------------
(* What the deletions leave alone, and what they take from the tables they *)
(* cascade to.                                                             *)

LEMMA DropAssessmentsChanges ==
  ASSUME NEW d, DOMAIN d = Tables, NEW S
  PROVE  /\ Changes(d, DropAssessments(d, S), {"assessment", "score"})
         /\ DropAssessments(d, S).assessment = Without(d.assessment, S)
         /\ \A k \in DOMAIN d.score : k[1] \notin S => k \in DOMAIN DropAssessments(d, S).score
  BY DEF DropAssessments, Changes, Tables, Without

LEMMA DropEnrolmentsChanges ==
  ASSUME NEW d, DOMAIN d = Tables, NEW S
  PROVE  /\ Changes(d, DropEnrolments(d, S), {"enrolment", "attendance", "score"})
         /\ DropEnrolments(d, S).enrolment = Without(d.enrolment, S)
         /\ DropEnrolments(d, S).attendance = Without(d.attendance, S)
         /\ \A k \in DOMAIN d.score : k[2] \notin S => k \in DOMAIN DropEnrolments(d, S).score
<1>1. Changes(d, DropEnrolments(d, S), {"enrolment", "attendance", "score"})
  BY DEF DropEnrolments, Changes, Tables
<1>2. /\ DropEnrolments(d, S).enrolment = Without(d.enrolment, S)
      /\ DropEnrolments(d, S).attendance = Without(d.attendance, S)
  BY DEF DropEnrolments, Tables
<1>3. DropEnrolments(d, S).score = Without(d.score, {k \in DOMAIN d.score : k[2] \in S})
  BY DEF DropEnrolments, Tables
<1> QED BY <1>1, <1>2, <1>3 DEF Without

LEMMA DropSubjectsChanges ==
  ASSUME NEW d, DOMAIN d = Tables, NEW S
  PROVE  /\ Changes(d, DropSubjects(d, S), {"subject", "taught", "assignment", "assessment", "score"})
         /\ DropSubjects(d, S).assignment \subseteq d.assignment
<1> DEFINE e == DropAssessments(d, Keys(d.assessment, LAMBDA a : a.subject \in S))
<1>1. Changes(d, e, {"assessment", "score"}) BY DropAssessmentsChanges
<1>2. DropSubjects(d, S) = [e EXCEPT !.subject = Without(@, S),
                                     !.taught = {l \in @ : l[2] \notin S},
                                     !.assignment = {t \in @ : t[3] \notin S}]
  BY DEF DropSubjects
<1> HIDE DEF e
<1> QED BY <1>1, <1>2 DEF Changes, Tables

(* The sections keep all but their curriculum. *)
LEMMA DropCurriculumChanges ==
  ASSUME NEW d, DOMAIN d = Tables, NEW c
  PROVE  /\ Changes(d, DropCurriculum(d, c), {"subject", "taught", "assignment", "assessment",
                                              "score", "curriculum", "section"})
         /\ DropCurriculum(d, c).assignment \subseteq d.assignment
         /\ DropCurriculum(d, c).section =
               [s \in DOMAIN d.section |-> IF d.section[s].curriculum = c
                                           THEN [d.section[s] EXCEPT !.curriculum = Null]
                                           ELSE d.section[s]]
<1> DEFINE e == DropSubjects(d, Keys(d.subject, LAMBDA s : s.curriculum = c))
<1>1. /\ Changes(d, e, {"subject", "taught", "assignment", "assessment", "score"})
      /\ e.assignment \subseteq d.assignment
  BY DropSubjectsChanges
<1>2. DropCurriculum(d, c) =
        [e EXCEPT !.curriculum = @ \ {c},
                  !.section = [s \in DOMAIN @ |-> IF @[s].curriculum = c
                                                  THEN [@[s] EXCEPT !.curriculum = Null] ELSE @[s]]]
  BY DEF DropCurriculum
<1> HIDE DEF e
<1>3. e.section = d.section /\ "section" \in DOMAIN e BY <1>1 DEF Changes, Tables
<1>4. DropCurriculum(d, c).section =
        [s \in DOMAIN e.section |-> IF e.section[s].curriculum = c
                                    THEN [e.section[s] EXCEPT !.curriculum = Null] ELSE e.section[s]]
  BY <1>2, <1>3
<1>5. Changes(d, DropCurriculum(d, c), {"subject", "taught", "assignment", "assessment",
                                        "score", "curriculum", "section"})
  BY <1>1, <1>2 DEF Changes, Tables
<1>6. DropCurriculum(d, c).assignment \subseteq d.assignment BY <1>1, <1>2 DEF Changes, Tables
<1> QED BY <1>3, <1>4, <1>5, <1>6

LEMMA DropSchemeChanges ==
  ASSUME NEW d, DOMAIN d = Tables, NEW g
  PROVE  /\ Changes(d, DropScheme(d, g), {"scheme", "section"})
         /\ DropScheme(d, g).section =
               [s \in DOMAIN d.section |-> IF d.section[s].scheme = g
                                           THEN [d.section[s] EXCEPT !.scheme = Null]
                                           ELSE d.section[s]]
  BY DEF DropScheme, Changes, Tables

(* The classes of S go with their enrolments, and with what hangs on these. *)
LEMMA DropClassesChanges ==
  ASSUME NEW d, DOMAIN d = Tables, NEW S
  PROVE  /\ Changes(d, DropClasses(d, S), {"class", "assessment", "score", "enrolment", "attendance",
                                           "assignment"})
         /\ DropClasses(d, S).class = Without(d.class, S)
         /\ DropClasses(d, S).enrolment =
               Without(d.enrolment, {n \in DOMAIN d.enrolment : d.enrolment[n].class \in S})
         /\ DropClasses(d, S).assignment \subseteq d.assignment
<1> DEFINE a == Keys(d.assessment, LAMBDA x : x.class \in S)
           n == Keys(d.enrolment, LAMBDA x : x.class \in S)
           f == DropAssessments(d, a)
           e == DropEnrolments(f, n)
<1>1. n = {x \in DOMAIN d.enrolment : d.enrolment[x].class \in S} BY DEF Keys
<1>3. DropClasses(d, S) =
        [e EXCEPT !.class = Without(@, S),
                  !.attendance = Without(@, Keys(e.attendance, LAMBDA x : x \in S)),
                  !.assignment = {t \in @ : t[2] \notin S}]
  BY DEF DropClasses
<1> HIDE DEF a, n
<1>4. Changes(d, f, {"assessment", "score"}) BY DropAssessmentsChanges
<1> HIDE DEF f
<1>5. /\ Changes(f, e, {"enrolment", "attendance", "score"})
      /\ e.enrolment = Without(f.enrolment, n)
  BY <1>4, DropEnrolmentsChanges DEF Changes
<1> HIDE DEF e
<1>6. Changes(d, DropClasses(d, S), {"class", "assessment", "score", "enrolment", "attendance",
                                     "assignment"})
  BY <1>3, <1>4, <1>5 DEF Changes, Tables
<1>7. /\ DropClasses(d, S).class = Without(d.class, S)
      /\ DropClasses(d, S).enrolment = Without(d.enrolment, n)
      /\ DropClasses(d, S).assignment \subseteq d.assignment
  BY <1>3, <1>4, <1>5 DEF Changes, Tables
<1> QED BY <1>1, <1>6, <1>7

ClassesIn(d, y) == {k \in DOMAIN d.class : d.class[k].year = y}
LeavingWith(d, y) == {n \in DOMAIN d.enrolment : d.enrolment[n].class \in ClassesIn(d, y) \/ n[2] = y}

(* A year goes with its classes and with the enrolments in either. *)
LEMMA DropYearChanges ==
  ASSUME NEW d, DOMAIN d = Tables, NEW y
  PROVE  LET e == DropYear(d, y) IN
         /\ Changes(d, e, {"year", "class", "assessment", "score", "enrolment", "attendance",
                           "assignment"})
         /\ e.year = Without(d.year, {y})
         /\ e.class = Without(d.class, ClassesIn(d, y))
         /\ e.enrolment = Without(d.enrolment, LeavingWith(d, y))
         /\ e.assignment \subseteq d.assignment
<1> DEFINE S == ClassesIn(d, y)
           f == DropClasses(d, S)
           n == {x \in DOMAIN d.enrolment : x[2] = y}
           e == DropEnrolments(f, n)
<1>1. DropYear(d, y) = [e EXCEPT !.year = Without(@, {y})]
  BY DEF DropYear, Keys, ClassesIn
<1> HIDE DEF S
<1>2. /\ Changes(d, f, {"class", "assessment", "score", "enrolment", "attendance", "assignment"})
      /\ f.class = Without(d.class, S)
      /\ f.enrolment = Without(d.enrolment, {x \in DOMAIN d.enrolment : d.enrolment[x].class \in S})
      /\ f.assignment \subseteq d.assignment
  BY DropClassesChanges
<1> HIDE DEF f, n
<1>3. /\ Changes(f, e, {"enrolment", "attendance", "score"})
      /\ e.enrolment = Without(f.enrolment, n)
  BY <1>2, DropEnrolmentsChanges DEF Changes
<1> HIDE DEF e
<1>4. Changes(d, DropYear(d, y), {"year", "class", "assessment", "score", "enrolment", "attendance",
                                  "assignment"})
  BY <1>1, <1>2, <1>3 DEF Changes, Tables
<1>5. /\ DropYear(d, y).year = Without(d.year, {y})
      /\ DropYear(d, y).class = Without(d.class, S)
      /\ DropYear(d, y).enrolment = e.enrolment
      /\ DropYear(d, y).assignment \subseteq d.assignment
  BY <1>1, <1>2, <1>3 DEF Changes, Tables
<1>6. e.enrolment = Without(d.enrolment, LeavingWith(d, y))
  BY <1>2, <1>3 DEF Without, n, S, LeavingWith
<1> QED BY <1>4, <1>5, <1>6 DEF S

RemovalOps == {"subject.remove", "curriculum.remove", "scheme.remove", "year.remove", "enrolment.remove"}

LEMMA WritesRemovals ==
  ASSUME NEW d, NEW r, NEW seen
  PROVE  /\ r.op = "subject.remove" => Written(d, r, seen) = DropSubjects(d, {r.id})
         /\ r.op = "curriculum.remove" => Written(d, r, seen) = DropCurriculum(d, r.id)
         /\ r.op = "scheme.remove" => Written(d, r, seen) = DropScheme(d, r.id)
         /\ r.op = "year.remove" => Written(d, r, seen) = DropYear(d, r.id)
         /\ r.op = "enrolment.remove" => Written(d, r, seen) = DropEnrolments(d, {r.id})
<1>1. r.op = "subject.remove" => Written(d, r, seen) = DropSubjects(d, {r.id})
  BY DEF Written, SubjectRemoved
<1>2. r.op = "curriculum.remove" => Written(d, r, seen) = DropCurriculum(d, r.id)
  BY DEF Written, CurriculumRemoved
<1>3. r.op = "scheme.remove" => Written(d, r, seen) = DropScheme(d, r.id)
  BY DEF Written, SchemeRemoved
<1>4. r.op = "year.remove" => Written(d, r, seen) = DropYear(d, r.id)
  BY DEF Written, YearRemoved
<1>5. r.op = "enrolment.remove" => Written(d, r, seen) = DropEnrolments(d, {r.id})
  BY DEF Written, EnrolmentRemoved
<1> QED BY <1>1, <1>2, <1>3, <1>4, <1>5

LEMMA OpsOfRequests ==
  ASSUME NEW r \in Requests
  PROVE  \/ r.op \in CampusOps \cup YearOps \cup SectionOps \cup GradeOps \cup ClassOps
         \/ r.op \in CurriculumOps \cup SchemeOps \cup StudentOps \cup GuardianOps \cup LinkOps
         \/ r.op \in EnrolmentOps \cup StaffOps \cup DepartmentOps \cup TeachingOps \cup RegisterOps
         \/ r.op \in RemovalOps \cup {"guardian.createAndLink"}
<1> USE DEF CampusOps, YearOps, SectionOps, GradeOps, ClassOps, CurriculumOps, SchemeOps, StudentOps,
            GuardianOps, LinkOps, EnrolmentOps, StaffOps, DepartmentOps, TeachingOps, RegisterOps,
            RemovalOps
<1>1. CASE r \in StructureRequests
  BY <1>1 DEF StructureRequests, CampusRequests, YearRequests, SectionRequests, GradeRequests,
     ClassRequests, CurriculumRequests, SchemeRequests
<1>2. CASE r \in PeopleRequests
  BY <1>2 DEF PeopleRequests, StudentRequests, GuardianRequests, EnrolmentRequests, StaffRequests,
     DepartmentRequests, AssignmentRequests
<1>3. CASE r \in RegisterRequests
  BY <1>3 DEF RegisterRequests, AttendanceRequests, AssessmentRequests
<1> QED BY <1>1, <1>2, <1>3, RecordsAssumption

(* The tables the properties are about, and all that write them. *)
LEMMA WriteFrame ==
  ASSUME NEW d, Formed(d), NEW r \in Requests, NEW seen
  PROVE  LET e == Written(d, r, seen) IN
         /\ DOMAIN e = Tables
         /\ r.op \notin CampusOps => e.campus = d.campus
         /\ r.op \notin YearOps \cup {"year.remove"} => e.year = d.year
         /\ r.op \notin SectionOps \cup {"curriculum.remove", "scheme.remove"} => e.section = d.section
         /\ r.op \notin GradeOps => e.grade = d.grade
         /\ r.op \notin ClassOps \cup {"year.remove"} => e.class = d.class
         /\ r.op \notin StudentOps => e.student = d.student
         /\ r.op \notin GuardianOps \cup {"guardian.createAndLink"} => e.guardian = d.guardian
         /\ r.op \notin LinkOps \cup {"guardian.createAndLink"} => e.link = d.link
         /\ r.op \notin EnrolmentOps \cup {"enrolment.remove", "year.remove"} => e.enrolment = d.enrolment
         /\ r.op \notin StaffOps => e.staff = d.staff
         /\ r.op \notin DepartmentOps => e.department = d.department
         /\ r.op \notin TeachingOps \cup {"subject.remove", "curriculum.remove", "year.remove"} =>
                e.assignment = d.assignment
         /\ r.op \notin RegisterOps \cup RemovalOps =>
                e.score = d.score /\ e.attendance = d.attendance
         /\ r.op \notin RegisterOps \cup RemovalOps \cup YearOps => e.assessment = d.assessment
<1> DEFINE e == Written(d, r, seen)
<1> HIDE DEF e
<1>0. DOMAIN d = Tables BY DEF Formed
<1>1. CASE r.op \in CampusOps
  <2>1. Changes(d, e, {"campus"})
    BY <1>0, <1>1, WritesCampuses DEF e
  <2> QED BY <1>1, <2>1 DEF e, Changes, Tables
<1>2. CASE r.op \in YearOps
  <2>1. Changes(d, e, {"year", "assessment"})
    BY <1>0, <1>2, WritesYears DEF e
  <2> QED BY <1>2, <2>1 DEF e, Changes, Tables
<1>3. CASE r.op \in SectionOps
  <2>1. Changes(d, e, {"section"})
    BY <1>0, <1>3, WritesSections DEF e
  <2> QED BY <1>3, <2>1 DEF e, Changes, Tables
<1>4. CASE r.op \in GradeOps
  <2>1. Changes(d, e, {"grade"})
    BY <1>0, <1>4, WritesGrades DEF e
  <2> QED BY <1>4, <2>1 DEF e, Changes, Tables
<1>5. CASE r.op \in ClassOps
  <2>1. Changes(d, e, {"class"})
    BY <1>0, <1>5, WritesClasses DEF e
  <2> QED BY <1>5, <2>1 DEF e, Changes, Tables
<1>6. CASE r.op \in CurriculumOps
  <2>1. Changes(d, e, {"curriculum", "subject"})
    BY <1>0, <1>6, WritesCurricula DEF e
  <2> QED BY <1>6, <2>1 DEF e, Changes, Tables
<1>7. CASE r.op \in SchemeOps
  <2>1. Changes(d, e, {"scheme"})
    BY <1>0, <1>7, WritesSchemes DEF e
  <2> QED BY <1>7, <2>1 DEF e, Changes, Tables
<1>8. CASE r.op \in StudentOps
  <2>1. Changes(d, e, {"student"})
    BY <1>0, <1>8, WritesStudents DEF e
  <2> QED BY <1>8, <2>1 DEF e, Changes, Tables
<1>9. CASE r.op \in GuardianOps
  <2>1. Changes(d, e, {"guardian"})
    BY <1>0, <1>9, WritesGuardians DEF e
  <2> QED BY <1>9, <2>1 DEF e, Changes, Tables
<1>10. CASE r.op \in LinkOps
  <2>1. Changes(d, e, {"link"})
    BY <1>0, <1>10, WritesLinks DEF e
  <2> QED BY <1>10, <2>1 DEF e, Changes, Tables
<1>11. CASE r.op \in EnrolmentOps
  <2>1. Changes(d, e, {"enrolment"})
    BY <1>0, <1>11, WritesEnrolments DEF e
  <2> QED BY <1>11, <2>1 DEF e, Changes, Tables
<1>12. CASE r.op \in StaffOps
  <2>1. Changes(d, e, {"staff"})
    BY <1>0, <1>12, WritesStaff DEF e
  <2> QED BY <1>12, <2>1 DEF e, Changes, Tables
<1>13. CASE r.op \in DepartmentOps
  <2>1. Changes(d, e, {"department"})
    BY <1>0, <1>13, WritesDepartments DEF e
  <2> QED BY <1>13, <2>1 DEF e, Changes, Tables
<1>14. CASE r.op \in TeachingOps
  <2>1. Changes(d, e, {"taught", "assignment"})
    BY <1>0, <1>14, WritesTeaching DEF e
  <2> QED BY <1>14, <2>1 DEF e, Changes, Tables
<1>15. CASE r.op \in RegisterOps
  <2>1. Changes(d, e, {"attendance", "assessment", "score"})
    BY <1>0, <1>15, WritesRegisters DEF e
  <2> QED BY <1>15, <2>1 DEF e, Changes, Tables
<1>16. CASE r.op = "guardian.createAndLink"
  <2>1. Changes(d, e, {"guardian", "link"})
    BY <1>0, <1>16, WritesLinkAndGuardian DEF e
  <2> QED BY <1>16, <2>1 DEF e, Changes, Tables
<1>17. CASE r.op = "subject.remove"
  <2>1. e = DropSubjects(d, {r.id}) BY <1>17, WritesRemovals DEF e
  <2>2. Changes(d, DropSubjects(d, {r.id}), {"subject", "taught", "assignment", "assessment", "score"})
    BY <1>0, DropSubjectsChanges
  <2>3. Changes(d, e, {"subject", "taught", "assignment", "assessment", "score"})
    BY <2>1, <2>2
  <2> QED BY <1>17, <2>3 DEF e, Changes, Tables, RemovalOps
<1>18. CASE r.op = "curriculum.remove"
  <2>1. e = DropCurriculum(d, r.id) BY <1>18, WritesRemovals DEF e
  <2>2. Changes(d, DropCurriculum(d, r.id), {"subject", "taught", "assignment", "assessment", "score",
                                             "curriculum", "section"})
    BY <1>0, DropCurriculumChanges
  <2>3. Changes(d, e, {"subject", "taught", "assignment", "assessment", "score", "curriculum", "section"})
    BY <2>1, <2>2
  <2> QED BY <1>18, <2>3 DEF e, Changes, Tables, RemovalOps
<1>19. CASE r.op = "scheme.remove"
  <2>1. e = DropScheme(d, r.id) BY <1>19, WritesRemovals DEF e
  <2>2. Changes(d, DropScheme(d, r.id), {"scheme", "section"})
    BY <1>0, DropSchemeChanges
  <2>3. Changes(d, e, {"scheme", "section"})
    BY <2>1, <2>2
  <2> QED BY <1>19, <2>3 DEF e, Changes, Tables, RemovalOps
<1>20. CASE r.op = "year.remove"
  <2>1. e = DropYear(d, r.id) BY <1>20, WritesRemovals DEF e
  <2>2. Changes(d, DropYear(d, r.id), {"year", "class", "assessment", "score", "enrolment",
                                       "attendance", "assignment"})
    BY <1>0, DropYearChanges
  <2>3. Changes(d, e, {"year", "class", "assessment", "score", "enrolment", "attendance", "assignment"})
    BY <2>1, <2>2
  <2> QED BY <1>20, <2>3 DEF e, Changes, Tables, RemovalOps
<1>21. CASE r.op = "enrolment.remove"
  <2>1. e = DropEnrolments(d, {r.id}) BY <1>21, WritesRemovals DEF e
  <2>2. Changes(d, DropEnrolments(d, {r.id}), {"enrolment", "attendance", "score"})
    BY <1>0, DropEnrolmentsChanges
  <2>3. Changes(d, e, {"enrolment", "attendance", "score"})
    BY <2>1, <2>2
  <2> QED BY <1>21, <2>3 DEF e, Changes, Tables, RemovalOps
<1> QED BY <1>1, <1>2, <1>3, <1>4, <1>5, <1>6, <1>7, <1>8, <1>9, <1>10, <1>11, <1>12, <1>13, <1>14,
      <1>15, <1>16, <1>17, <1>18, <1>19, <1>20, <1>21, OpsOfRequests DEF RemovalOps
LEMMA TablesWithColumns ==
  DOMAIN Columns = {"campus", "year", "section", "grade", "class", "student", "guardian", "link",
                    "enrolment", "staff", "department"}
  BY DEF Columns

LEMMA WriteFormed ==
  ASSUME NEW d, Formed(d), NEW r \in Requests, NEW seen
  PROVE  Formed(Written(d, r, seen))
<1> DEFINE e == Written(d, r, seen)
<1> SUFFICES Formed(e) OBVIOUS
<1> HIDE DEF e
<1>0. DOMAIN d = Tables BY DEF Formed
<1>1. CASE r.op \in CampusOps
  <2>1. Changes(d, e, {"campus"}) /\ Fits(e, "campus") BY <1>1, WritesCampuses DEF e
  <2> QED BY <2>1, FormedKept, TablesWithColumns
<1>2. CASE r.op \in YearOps
  <2>1. Changes(d, e, {"year", "assessment"}) /\ Fits(e, "year") BY <1>2, WritesYears DEF e
  <2> QED BY <2>1, FormedKept, TablesWithColumns
<1>3. CASE r.op \in SectionOps
  <2>1. Changes(d, e, {"section"}) /\ Fits(e, "section") BY <1>3, WritesSections DEF e
  <2> QED BY <2>1, FormedKept, TablesWithColumns
<1>4. CASE r.op \in GradeOps
  <2>1. Changes(d, e, {"grade"}) /\ Fits(e, "grade") BY <1>4, WritesGrades DEF e
  <2> QED BY <2>1, FormedKept, TablesWithColumns
<1>5. CASE r.op \in ClassOps
  <2>1. Changes(d, e, {"class"}) /\ Fits(e, "class") BY <1>5, WritesClasses DEF e
  <2> QED BY <2>1, FormedKept, TablesWithColumns
<1>6. CASE r.op \in CurriculumOps
  <2>1. Changes(d, e, {"curriculum", "subject"}) BY <1>6, WritesCurricula DEF e
  <2> QED BY <2>1, FormedKept, TablesWithColumns
<1>7. CASE r.op \in SchemeOps
  <2>1. Changes(d, e, {"scheme"}) BY <1>7, WritesSchemes DEF e
  <2> QED BY <2>1, FormedKept, TablesWithColumns
<1>8. CASE r.op \in StudentOps
  <2>1. Changes(d, e, {"student"}) /\ Fits(e, "student") BY <1>8, WritesStudents DEF e
  <2> QED BY <2>1, FormedKept, TablesWithColumns
<1>9. CASE r.op \in GuardianOps
  <2>1. Changes(d, e, {"guardian"}) /\ Fits(e, "guardian") BY <1>9, WritesGuardians DEF e
  <2> QED BY <2>1, FormedKept, TablesWithColumns
<1>10. CASE r.op \in LinkOps
  <2>1. Changes(d, e, {"link"}) /\ Fits(e, "link") BY <1>10, WritesLinks DEF e
  <2> QED BY <2>1, FormedKept, TablesWithColumns
<1>11. CASE r.op \in EnrolmentOps
  <2>1. Changes(d, e, {"enrolment"}) /\ Fits(e, "enrolment") BY <1>11, WritesEnrolments DEF e
  <2> QED BY <2>1, FormedKept, TablesWithColumns
<1>12. CASE r.op \in StaffOps
  <2>1. Changes(d, e, {"staff"}) /\ Fits(e, "staff") BY <1>12, WritesStaff DEF e
  <2> QED BY <2>1, FormedKept, TablesWithColumns
<1>13. CASE r.op \in DepartmentOps
  <2>1. Changes(d, e, {"department"}) /\ Fits(e, "department") BY <1>13, WritesDepartments DEF e
  <2> QED BY <2>1, FormedKept, TablesWithColumns
<1>14. CASE r.op \in TeachingOps
  <2>1. Changes(d, e, {"taught", "assignment"}) BY <1>14, WritesTeaching DEF e
  <2> QED BY <2>1, FormedKept, TablesWithColumns
<1>15. CASE r.op \in RegisterOps
  <2>1. Changes(d, e, {"attendance", "assessment", "score"}) BY <1>15, WritesRegisters DEF e
  <2> QED BY <2>1, FormedKept, TablesWithColumns
<1>16. CASE r.op = "guardian.createAndLink"
  <2>1. Changes(d, e, {"guardian", "link"}) /\ Fits(e, "guardian") /\ Fits(e, "link")
    BY <1>16, WritesLinkAndGuardian DEF e
  <2> QED BY <2>1, FormedKept, TablesWithColumns
<1>17. CASE r.op = "subject.remove"
  <2>1. e = DropSubjects(d, {r.id}) BY <1>17, WritesRemovals DEF e
  <2>2. Changes(d, e, {"subject", "taught", "assignment", "assessment", "score"})
    BY <1>0, <2>1, DropSubjectsChanges
  <2> QED BY <2>2, FormedKept, TablesWithColumns
<1>18. CASE r.op = "curriculum.remove"
  <2>1. e = DropCurriculum(d, r.id) BY <1>18, WritesRemovals DEF e
  <2>2. Changes(d, e, {"subject", "taught", "assignment", "assessment", "score", "curriculum", "section"})
    BY <1>0, <2>1, DropCurriculumChanges
  <2>3. Fits(e, "section")
    <3>1. e.section = [s \in DOMAIN d.section |-> IF d.section[s].curriculum = r.id
                                                 THEN [d.section[s] EXCEPT !.curriculum = Null]
                                                 ELSE d.section[s]]
      BY <1>0, <2>1, DropCurriculumChanges
    <3>2. \A s \in DOMAIN e.section : s \in DOMAIN d.section /\ DOMAIN e.section[s] = DOMAIN d.section[s]
      BY <3>1
    <3> QED BY <3>2 DEF Formed, Fits, Columns
  <2> QED BY <2>2, <2>3, FormedKept, TablesWithColumns
<1>19. CASE r.op = "scheme.remove"
  <2>1. e = DropScheme(d, r.id) BY <1>19, WritesRemovals DEF e
  <2>2. Changes(d, e, {"scheme", "section"})
    BY <1>0, <2>1, DropSchemeChanges
  <2>3. Fits(e, "section")
    <3>1. e.section = [s \in DOMAIN d.section |-> IF d.section[s].scheme = r.id
                                                 THEN [d.section[s] EXCEPT !.scheme = Null]
                                                 ELSE d.section[s]]
      BY <1>0, <2>1, DropSchemeChanges
    <3>2. \A s \in DOMAIN e.section : s \in DOMAIN d.section /\ DOMAIN e.section[s] = DOMAIN d.section[s]
      BY <3>1
    <3> QED BY <3>2 DEF Formed, Fits, Columns
  <2> QED BY <2>2, <2>3, FormedKept, TablesWithColumns
<1>20. CASE r.op = "year.remove"
  <2>1. e = DropYear(d, r.id) BY <1>20, WritesRemovals DEF e
  <2>2. Changes(d, e, {"year", "class", "assessment", "score", "enrolment", "attendance", "assignment"})
    BY <1>0, <2>1, DropYearChanges
  <2>3. Fits(e, "year") /\ Fits(e, "class") /\ Fits(e, "enrolment")
    <3>1. /\ e.year = Without(d.year, {r.id}) /\ e.class = Without(d.class, ClassesIn(d, r.id))
          /\ e.enrolment = Without(d.enrolment, LeavingWith(d, r.id))
      BY <1>0, <2>1, DropYearChanges
    <3> QED BY <3>1, TablesWithColumns DEF Formed, Fits, Without
  <2> QED BY <2>2, <2>3, FormedKept, TablesWithColumns
<1>21. CASE r.op = "enrolment.remove"
  <2>1. e = DropEnrolments(d, {r.id}) BY <1>21, WritesRemovals DEF e
  <2>2. Changes(d, e, {"enrolment", "attendance", "score"})
    BY <1>0, <2>1, DropEnrolmentsChanges
  <2>3. Fits(e, "enrolment")
    <3>1. e.enrolment = Without(d.enrolment, {r.id}) BY <1>0, <2>1, DropEnrolmentsChanges
    <3> QED BY <3>1, TablesWithColumns DEF Formed, Fits, Without
  <2> QED BY <2>2, <2>3, FormedKept, TablesWithColumns
<1> QED BY <1>1, <1>2, <1>3, <1>4, <1>5, <1>6, <1>7, <1>8, <1>9, <1>10, <1>11, <1>12, <1>13, <1>14,
      <1>15, <1>16, <1>17, <1>18, <1>19, <1>20, <1>21, OpsOfRequests DEF RemovalOps
-----------------------------------------------------------------------------
(* The tree.  What hangs on a row stays on it, so a branch comes loose only *)
(* by the removal of the row it is on, and is put in only by its creation.  *)

LEMMA SectionsStay ==
  ASSUME NEW d, Formed(d), NEW r \in Requests, r.op # "section.remove", NEW seen,
         NEW s, Live(d.section, s)
  PROVE  Live(Written(d, r, seen).section, s)
<1> DEFINE e == Written(d, r, seen)
<1> SUFFICES Live(e.section, s) OBVIOUS
<1> HIDE DEF e
<1> USE DEF Live
<1>0. /\ DOMAIN d = Tables /\ "section" \in DOMAIN d
      /\ s \in DOMAIN d.section /\ "live" \in DOMAIN d.section[s] /\ d.section[s].live
  BY DEF Formed, Fits, Columns, Tables
<1>1. CASE r.op = "section.create" BY <1>0, <1>1 DEF e, Written, SectionCreated, With
<1>2. CASE r.op = "section.update" BY <1>0, <1>2 DEF e, Written, SectionUpdated
<1>3. CASE r.op = "curriculum.remove"
  <2>1. e = DropCurriculum(d, r.id) BY <1>3, WritesRemovals DEF e
  <2>2. e.section = [x \in DOMAIN d.section |-> IF d.section[x].curriculum = r.id
                                                THEN [d.section[x] EXCEPT !.curriculum = Null]
                                                ELSE d.section[x]]
    BY <1>0, <2>1, DropCurriculumChanges
  <2> QED BY <1>0, <2>2
<1>4. CASE r.op = "scheme.remove"
  <2>1. e = DropScheme(d, r.id) BY <1>4, WritesRemovals DEF e
  <2>2. e.section = [x \in DOMAIN d.section |-> IF d.section[x].scheme = r.id
                                                THEN [d.section[x] EXCEPT !.scheme = Null]
                                                ELSE d.section[x]]
    BY <1>0, <2>1, DropSchemeChanges
  <2> QED BY <1>0, <2>2
<1>5. CASE r.op \notin SectionOps \cup {"curriculum.remove", "scheme.remove"}
  BY <1>0, <1>5, WriteFrame DEF e
<1>6. CASE r.op = "section.clear" BY <1>0, <1>6 DEF e, Written, SectionCleared
<1> QED BY <1>1, <1>2, <1>3, <1>4, <1>5, <1>6 DEF SectionOps

LEMMA GradesStay ==
  ASSUME NEW d, Formed(d), NEW r \in Requests, r.op # "grade.remove", NEW seen,
         NEW g, Live(d.grade, g)
  PROVE  Live(Written(d, r, seen).grade, g)
<1>0. "grade" \in DOMAIN d BY DEF Formed, Tables
<1>1. CASE r.op = "grade.create" BY <1>0, <1>1 DEF Written, GradeCreated, With, Live
<1>2. CASE r.op \notin GradeOps BY <1>2, WriteFrame
<1> QED BY <1>1, <1>2 DEF GradeOps

LEMMA GradesHold ==
  ASSUME NEW d, Formed(d), NEW r \in Requests, NEW seen, LooseGrades(d) = {},
         r.op \in {"section.remove", "grade.create"} => Accepts(d, r)
  PROVE  LooseGrades(Written(d, r, seen)) = {}
<1> DEFINE e == Written(d, r, seen)
<1> SUFFICES ASSUME NEW g \in DOMAIN e.grade, e.grade[g].live
             PROVE  Live(e.section, e.grade[g].section)
  BY DEF LooseGrades
<1> HIDE DEF e
<1>0. /\ "grade" \in DOMAIN d /\ "section" \in DOMAIN d
      /\ \A x \in DOMAIN d.grade : DOMAIN d.grade[x] = {"section", "live"}
      /\ \A x \in DOMAIN d.section : "live" \in DOMAIN d.section[x]
  BY DEF Formed, Fits, Columns, Tables
<1>1. \A x \in DOMAIN d.grade : d.grade[x].live => Live(d.section, d.grade[x].section)
  BY DEF LooseGrades
<1>2. CASE r.op = "grade.create"
  <2>1. Live(d.section, r.section) BY <1>2 DEF Accepts, MayCreateGrade
  <2>2. e.grade = With(d.grade, r.id, [section |-> r.section, live |-> TRUE])
    BY <1>0, <1>2 DEF e, Written, GradeCreated
  <2>3. e.section = d.section BY <1>2, WriteFrame DEF e, SectionOps
  <2> QED BY <1>1, <2>1, <2>2, <2>3 DEF With
<1>3. CASE r.op = "grade.remove"
  <2>1. e.grade = [d.grade EXCEPT ![r.id].live = FALSE] BY <1>0, <1>3 DEF e, Written, GradeRemoved
  <2>2. e.section = d.section BY <1>3, WriteFrame DEF e, SectionOps
  <2> QED BY <1>0, <1>1, <2>1, <2>2
<1>4. CASE r.op = "section.remove"
  <2>1. \A x \in DOMAIN d.grade : d.grade[x].live => d.grade[x].section # r.id
    BY <1>4 DEF Accepts, MayRemoveSection, LiveGradesOf
  <2>2. e.section = [d.section EXCEPT ![r.id].live = FALSE] BY <1>0, <1>4 DEF e, Written, SectionRemoved
  <2>3. e.grade = d.grade BY <1>4, WriteFrame DEF e, GradeOps
  <2> QED BY <1>0, <1>1, <2>1, <2>2, <2>3 DEF Live
<1>5. CASE r.op \notin GradeOps \cup {"section.remove"}
  BY <1>1, <1>5, WriteFrame, SectionsStay DEF e
<1> QED BY <1>2, <1>3, <1>4, <1>5 DEF GradeOps

LEMMA ClassesHold ==
  ASSUME NEW d, Formed(d), NEW r \in Requests, NEW seen, LooseClasses(d) = {},
         r.op \in {"grade.remove", "class.create"} => Accepts(d, r)
  PROVE  LooseClasses(Written(d, r, seen)) = {}
<1> DEFINE e == Written(d, r, seen)
<1> SUFFICES ASSUME NEW k \in DOMAIN e.class, e.class[k].live
             PROVE  Live(e.grade, e.class[k].grade)
  BY DEF LooseClasses
<1> HIDE DEF e
<1>0. /\ DOMAIN d = Tables /\ "grade" \in DOMAIN d /\ "class" \in DOMAIN d
      /\ \A x \in DOMAIN d.grade : DOMAIN d.grade[x] = {"section", "live"}
      /\ \A x \in DOMAIN d.class : DOMAIN d.class[x] = {"grade", "year", "teacher", "live", "campus"}
  BY DEF Formed, Fits, Columns, Tables
<1>1. \A x \in DOMAIN d.class : d.class[x].live => Live(d.grade, d.class[x].grade)
  BY DEF LooseClasses
<1>2. CASE r.op = "class.create"
  <2>1. Live(d.grade, r.grade) BY <1>2 DEF Accepts, MayCreateClass
  <2> DEFINE v == [grade |-> r.grade, year |-> r.year, teacher |-> Null, live |-> TRUE,
                   campus |-> d.section[d.grade[r.grade].section].campus]
  <2>2. e.class = With(d.class, r.id, v) BY <1>0, <1>2 DEF e, Written, ClassCreated
  <2>3. v.grade = r.grade OBVIOUS
  <2> HIDE DEF v
  <2>4. e.grade = d.grade BY <1>2, WriteFrame DEF e, GradeOps
  <2> QED BY <1>1, <2>1, <2>2, <2>3, <2>4 DEF With
<1>3. CASE r.op = "class.remove"
  <2>1. e.class = [d.class EXCEPT ![r.id].live = FALSE] BY <1>0, <1>3 DEF e, Written, ClassRemoved
  <2>2. e.grade = d.grade BY <1>3, WriteFrame DEF e, GradeOps
  <2> QED BY <1>0, <1>1, <2>1, <2>2
<1>4. CASE r.op = "class.teacher"
  <2>1. e.class = [d.class EXCEPT ![r.id].teacher = r.teacher]
    BY <1>0, <1>4 DEF e, Written, ClassTeacherSet
  <2>2. e.grade = d.grade BY <1>4, WriteFrame DEF e, GradeOps
  <2> QED BY <1>0, <1>1, <2>1, <2>2
<1>5. CASE r.op = "year.remove"
  <2>1. e = DropYear(d, r.id) BY <1>5, WritesRemovals DEF e
  <2>2. e.class = Without(d.class, ClassesIn(d, r.id)) BY <1>0, <2>1, DropYearChanges
  <2>3. e.grade = d.grade BY <1>5, WriteFrame DEF e, GradeOps
  <2> QED BY <1>1, <2>2, <2>3 DEF Without
<1>6. CASE r.op = "grade.remove"
  <2>1. \A x \in DOMAIN d.class : d.class[x].live => d.class[x].grade # r.id
    BY <1>6 DEF Accepts, MayRemoveGrade, LiveClassesOf
  <2>2. e.grade = [d.grade EXCEPT ![r.id].live = FALSE] BY <1>0, <1>6 DEF e, Written, GradeRemoved
  <2>3. e.class = d.class BY <1>6, WriteFrame DEF e, ClassOps
  <2> QED BY <1>0, <1>1, <2>1, <2>2, <2>3 DEF Live
<1>7. CASE r.op \notin ClassOps \cup {"year.remove", "grade.remove"}
  BY <1>1, <1>7, WriteFrame, GradesStay DEF e
<1> QED BY <1>2, <1>3, <1>4, <1>5, <1>6, <1>7 DEF ClassOps

(* The members of a department. *)

LEMMA DepartmentsStay ==
  ASSUME NEW d, Formed(d), NEW r \in Requests, r.op # "department.remove", NEW seen,
         NEW x, Live(d.department, x)
  PROVE  Live(Written(d, r, seen).department, x)
<1>0. "department" \in DOMAIN d /\ DOMAIN d.department[x] = {"head", "live"}
  BY DEF Formed, Fits, Columns, Tables, Live
<1>1. CASE r.op = "department.create" BY <1>0, <1>1 DEF Written, DepartmentCreated, With, Live
<1>2. CASE r.op = "department.update" BY <1>0, <1>2 DEF Written, DepartmentUpdated, Live
<1>3. CASE r.op \notin DepartmentOps BY <1>3, WriteFrame
<1> QED BY <1>1, <1>2, <1>3 DEF DepartmentOps

LEMMA StaffHold ==
  ASSUME NEW d, Formed(d), NEW r \in Requests, NEW seen, LooseStaff(d) = {},
         r.op \in {"department.remove", "staff.create", "staff.update"} => Accepts(d, r)
  PROVE  LooseStaff(Written(d, r, seen)) = {}
<1> DEFINE e == Written(d, r, seen)
<1> SUFFICES ASSUME NEW t \in DOMAIN e.staff, e.staff[t].live, e.staff[t].department # Null
             PROVE  Live(e.department, e.staff[t].department)
  BY DEF LooseStaff
<1> HIDE DEF e
<1>0. /\ "staff" \in DOMAIN d /\ "department" \in DOMAIN d
      /\ \A x \in DOMAIN d.staff : DOMAIN d.staff[x] = {"campus", "department", "live"}
      /\ \A x \in DOMAIN d.department : DOMAIN d.department[x] = {"head", "live"}
  BY DEF Formed, Fits, Columns, Tables
<1>1. \A x \in DOMAIN d.staff : d.staff[x].live /\ d.staff[x].department # Null =>
                                    Live(d.department, d.staff[x].department)
  BY DEF LooseStaff
<1>2. r.op \in StaffOps => e.department = d.department
  BY WriteFrame DEF e, StaffOps, DepartmentOps
<1>3. CASE r.op = "staff.create"
  <2>1. r.department # Null => Live(d.department, r.department) BY <1>3 DEF Accepts, MayEmploy
  <2> DEFINE v == [campus |-> r.campus, department |-> r.department, live |-> TRUE]
  <2>2. e.staff = With(d.staff, r.id, v) BY <1>0, <1>3 DEF e, Written, StaffCreated
  <2>3. v.department = r.department OBVIOUS
  <2> HIDE DEF v
  <2> QED BY <1>1, <1>2, <1>3, <2>1, <2>2, <2>3 DEF With, StaffOps
<1>4. CASE r.op = "staff.update"
  <2>1. r.department # Null => Live(d.department, r.department)
    BY <1>4 DEF Accepts, MayUpdateStaff, MayEmploy
  <2> DEFINE v == [d.staff[r.id] EXCEPT !.campus = r.campus, !.department = r.department]
  <2>2. e = StaffUpdated(d, r) BY <1>4 DEF e, Written
  <2>3. e.staff = [d.staff EXCEPT ![r.id] = v] /\ t \in DOMAIN d.staff BY <1>0, <2>2 DEF StaffUpdated
  <2>4. CASE t = r.id
    <3>1. e.staff[t] = v BY <2>3, <2>4
    <3>2. v.department = r.department BY <1>0, <2>3, <2>4
    <3> HIDE DEF v
    <3> QED BY <1>2, <1>4, <2>1, <3>1, <3>2 DEF StaffOps
  <2>5. CASE t # r.id
    <3>1. e.staff[t] = d.staff[t] BY <2>3, <2>5
    <3> QED BY <1>1, <1>2, <1>4, <2>3, <3>1 DEF StaffOps
  <2> QED BY <2>4, <2>5
<1>5. CASE r.op = "staff.remove"
  <2>1. e.staff = [d.staff EXCEPT ![r.id].live = FALSE] BY <1>0, <1>5 DEF e, Written, StaffRemoved
  <2> QED BY <1>0, <1>1, <1>2, <1>5, <2>1 DEF StaffOps
<1>6. CASE r.op = "department.remove"
  <2>1. \A x \in DOMAIN d.staff : d.staff[x].live => d.staff[x].department # r.id
    BY <1>6 DEF Accepts, MayRemoveDepartment, Members
  <2>2. e.department = [d.department EXCEPT ![r.id].live = FALSE]
    BY <1>0, <1>6 DEF e, Written, DepartmentRemoved
  <2>3. e.staff = d.staff BY <1>6, WriteFrame DEF e, StaffOps
  <2> QED BY <1>0, <1>1, <2>1, <2>2, <2>3 DEF Live
<1>7. CASE r.op \notin StaffOps \cup {"department.remove"}
  BY <1>1, <1>7, WriteFrame, DepartmentsStay DEF e
<1> QED BY <1>3, <1>4, <1>5, <1>6, <1>7 DEF StaffOps

-----------------------------------------------------------------------------
(* Who is gone leaves nothing behind. *)

LEMMA OnlyRemovalsLeave ==
  ASSUME NEW d, Formed(d), NEW r \in Requests, NEW seen,
         NEW t \in Gone(Written(d, r, seen))
  PROVE  t \in Gone(d) \/ (r.op = "staff.remove" /\ t = r.id)
<1> DEFINE e == Written(d, r, seen)
<1>1. t \in DOMAIN e.staff /\ ~e.staff[t].live BY DEF Gone
<1> HIDE DEF e
<1> SUFFICES ASSUME r.op # "staff.remove" \/ t # r.id PROVE t \in DOMAIN d.staff /\ ~d.staff[t].live
  BY DEF Gone
<1>0. /\ "staff" \in DOMAIN d
      /\ \A x \in DOMAIN d.staff : DOMAIN d.staff[x] = {"campus", "department", "live"}
  BY DEF Formed, Fits, Columns, Tables
<1>2. CASE r.op = "staff.create"
  <2> DEFINE v == [campus |-> r.campus, department |-> r.department, live |-> TRUE]
  <2>1. e.staff = With(d.staff, r.id, v) BY <1>0, <1>2 DEF e, Written, StaffCreated
  <2>2. v.live = TRUE OBVIOUS
  <2> HIDE DEF v
  <2> QED BY <1>1, <2>1, <2>2 DEF With
<1>3. CASE r.op = "staff.update"
  <2> DEFINE v == [d.staff[r.id] EXCEPT !.campus = r.campus, !.department = r.department]
  <2>1. e = StaffUpdated(d, r) BY <1>3 DEF e, Written
  <2>2. e.staff = [d.staff EXCEPT ![r.id] = v] BY <1>0, <2>1 DEF StaffUpdated
  <2>3. r.id \in DOMAIN d.staff => v.live = d.staff[r.id].live BY <1>0
  <2> HIDE DEF v
  <2> QED BY <1>1, <2>2, <2>3
<1>4. CASE r.op = "staff.remove"
  <2>1. e.staff = [d.staff EXCEPT ![r.id].live = FALSE] BY <1>0, <1>4 DEF e, Written, StaffRemoved
  <2> QED BY <1>1, <1>4, <2>1
<1>5. CASE r.op \notin StaffOps BY <1>1, <1>5, WriteFrame DEF e
<1> QED BY <1>2, <1>3, <1>4, <1>5 DEF StaffOps

LEMMA EmployedAreTeachers ==
  ASSUME NEW d, Formed(d), NEW r \in Requests, NEW seen, DOMAIN d.staff \subseteq Teachers
  PROVE  DOMAIN Written(d, r, seen).staff \subseteq Teachers
<1> DEFINE e == Written(d, r, seen)
<1> SUFFICES DOMAIN e.staff \subseteq Teachers OBVIOUS
<1> HIDE DEF e
<1>0. "staff" \in DOMAIN d BY DEF Formed, Tables
<1>1. CASE r.op = "staff.create"
  <2>1. r.id \in Teachers
    <3>1. CASE r \in StructureRequests
      BY <1>1, <3>1 DEF StructureRequests, CampusRequests, YearRequests, SectionRequests, GradeRequests,
         ClassRequests, CurriculumRequests, SchemeRequests
    <3>2. CASE r \in PeopleRequests
      BY <1>1, <3>2 DEF PeopleRequests, StudentRequests, GuardianRequests, EnrolmentRequests,
         StaffRequests, DepartmentRequests, AssignmentRequests
    <3>3. CASE r \in RegisterRequests
      BY <1>1, <3>3 DEF RegisterRequests, AttendanceRequests, AssessmentRequests
    <3> QED BY <3>1, <3>2, <3>3, RecordsAssumption
  <2> DEFINE v == [campus |-> r.campus, department |-> r.department, live |-> TRUE]
  <2>2. e.staff = With(d.staff, r.id, v) BY <1>0, <1>1 DEF e, Written, StaffCreated
  <2> HIDE DEF v
  <2> QED BY <2>1, <2>2 DEF With
<1>2. CASE r.op = "staff.update"
  <2> DEFINE v == [d.staff[r.id] EXCEPT !.campus = r.campus, !.department = r.department]
  <2>1. e = StaffUpdated(d, r) BY <1>2 DEF e, Written
  <2>2. e.staff = [d.staff EXCEPT ![r.id] = v] BY <1>0, <2>1 DEF StaffUpdated
  <2> HIDE DEF v
  <2> QED BY <2>2
<1>3. CASE r.op = "staff.remove" BY <1>0, <1>3 DEF e, Written, StaffRemoved
<1>4. CASE r.op \notin StaffOps BY <1>4, WriteFrame DEF e
<1> QED BY <1>1, <1>2, <1>3, <1>4 DEF StaffOps

LEMMA HeadsHold ==
  ASSUME NEW d, Formed(d), DOMAIN d.staff \subseteq Teachers, NEW r \in Requests, NEW seen,
         \A t \in Gone(d) : Heads(d, t) = {},
         r.op \in {"staff.remove", "department.create", "department.update"} => Accepts(d, r),
         NEW t \in Gone(Written(d, r, seen))
  PROVE  Heads(Written(d, r, seen), t) = {}
<1> DEFINE e == Written(d, r, seen)
<1> SUFFICES ASSUME NEW x \in DOMAIN e.department PROVE e.department[x].head # t
  BY DEF Heads
<1>1. t \in Gone(d) \/ (r.op = "staff.remove" /\ t = r.id) BY OnlyRemovalsLeave
<1> HIDE DEF e
<1>0. /\ "department" \in DOMAIN d
      /\ \A y \in DOMAIN d.department : DOMAIN d.department[y] = {"head", "live"}
  BY DEF Formed, Fits, Columns, Tables
<1>2. \A y \in DOMAIN d.department : d.department[y].head # t
  BY <1>1 DEF Heads, Accepts, MayRemoveStaff
<1>3. CASE r.op \in {"department.create", "department.update"}
  <2>1. t \in Gone(d) BY <1>1, <1>3
  <2>2. t # Null BY <2>1, SchoolAssumption DEF Gone
  <2>3. r.head # Null => Live(d.staff, r.head)
    BY <1>3 DEF Accepts, MayHead, MayUpdateDepartment
  <2>4. r.head # t BY <2>1, <2>2, <2>3 DEF Gone, Live
  <2>5. CASE r.op = "department.create"
    <3> DEFINE v == [head |-> r.head, live |-> TRUE]
    <3>1. e.department = With(d.department, r.id, v) BY <1>0, <2>5 DEF e, Written, DepartmentCreated
    <3>2. v.head = r.head OBVIOUS
    <3> HIDE DEF v
    <3> QED BY <1>2, <2>4, <3>1, <3>2 DEF With
  <2>6. CASE r.op = "department.update"
    <3>1. e.department = [d.department EXCEPT ![r.id].head = r.head]
      BY <1>0, <2>6 DEF e, Written, DepartmentUpdated
    <3> QED BY <1>0, <1>2, <2>4, <3>1
  <2> QED BY <1>3, <2>5, <2>6
<1>4. CASE r.op = "department.remove"
  <2>1. e.department = [d.department EXCEPT ![r.id].live = FALSE]
    BY <1>0, <1>4 DEF e, Written, DepartmentRemoved
  <2> QED BY <1>0, <1>2, <2>1
<1>5. CASE r.op \notin DepartmentOps BY <1>2, <1>5, WriteFrame DEF e
<1> QED BY <1>3, <1>4, <1>5 DEF DepartmentOps

LEMMA ClassTeachersHold ==
  ASSUME NEW d, Formed(d), DOMAIN d.staff \subseteq Teachers, NEW r \in Requests, NEW seen,
         \A t \in Gone(d) : TeacherOf(d, t) = {},
         r.op \in {"staff.remove", "class.teacher"} => Accepts(d, r),
         NEW t \in Gone(Written(d, r, seen))
  PROVE  TeacherOf(Written(d, r, seen), t) = {}
<1> DEFINE e == Written(d, r, seen)
<1> SUFFICES ASSUME NEW k \in DOMAIN e.class, e.class[k].live PROVE e.class[k].teacher # t
  BY DEF TeacherOf
<1>1. t \in Gone(d) \/ (r.op = "staff.remove" /\ t = r.id) BY OnlyRemovalsLeave
<1> HIDE DEF e
<1>0. /\ DOMAIN d = Tables /\ "class" \in DOMAIN d
      /\ \A x \in DOMAIN d.class : DOMAIN d.class[x] = {"grade", "year", "teacher", "live", "campus"}
  BY DEF Formed, Fits, Columns, Tables
<1>2. \A x \in DOMAIN d.class : d.class[x].live => d.class[x].teacher # t
  BY <1>1 DEF TeacherOf, Accepts, MayRemoveStaff
<1>3. t \in Gone(d) => t # Null BY SchoolAssumption DEF Gone
<1>4. CASE r.op = "class.create"
  <2> DEFINE v == [grade |-> r.grade, year |-> r.year, teacher |-> Null, live |-> TRUE,
                   campus |-> d.section[d.grade[r.grade].section].campus]
  <2>1. e.class = With(d.class, r.id, v) BY <1>0, <1>4 DEF e, Written, ClassCreated
  <2>2. v.teacher = Null OBVIOUS
  <2> HIDE DEF v
  <2> QED BY <1>1, <1>2, <1>3, <1>4, <2>1, <2>2 DEF With
<1>5. CASE r.op = "class.teacher"
  <2>1. r.teacher # Null => Live(d.staff, r.teacher) BY <1>5 DEF Accepts, MaySetClassTeacher
  <2>2. r.teacher # t BY <1>1, <1>3, <1>5, <2>1 DEF Gone, Live
  <2>3. e.class = [d.class EXCEPT ![r.id].teacher = r.teacher]
    BY <1>0, <1>5 DEF e, Written, ClassTeacherSet
  <2> QED BY <1>0, <1>2, <2>2, <2>3
<1>6. CASE r.op = "class.remove"
  <2>1. e.class = [d.class EXCEPT ![r.id].live = FALSE] BY <1>0, <1>6 DEF e, Written, ClassRemoved
  <2> QED BY <1>0, <1>2, <2>1
<1>7. CASE r.op = "year.remove"
  <2>1. e = DropYear(d, r.id) BY <1>7, WritesRemovals DEF e
  <2>2. e.class = Without(d.class, ClassesIn(d, r.id)) BY <1>0, <2>1, DropYearChanges
  <2> QED BY <1>2, <2>2 DEF Without
<1>8. CASE r.op \notin ClassOps \cup {"year.remove"} BY <1>2, <1>8, WriteFrame DEF e
<1> QED BY <1>4, <1>5, <1>6, <1>7, <1>8 DEF ClassOps

LEMMA LessonsHold ==
  ASSUME NEW d, Formed(d), NEW r \in Requests, NEW seen,
         \A t \in Gone(d) : Teaches(d, t) = {},
         r.op \in {"staff.remove", "assignment.create"} => Accepts(d, r),
         NEW t \in Gone(Written(d, r, seen))
  PROVE  Teaches(Written(d, r, seen), t) = {}
<1> DEFINE e == Written(d, r, seen)
<1> SUFFICES ASSUME NEW a \in e.assignment PROVE a[1] # t
  BY DEF Teaches
<1>1. t \in Gone(d) \/ (r.op = "staff.remove" /\ t = r.id) BY OnlyRemovalsLeave
<1> HIDE DEF e
<1>0. DOMAIN d = Tables /\ "assignment" \in DOMAIN d BY DEF Formed, Tables
<1>2. \A x \in d.assignment : x[1] # t BY <1>1 DEF Teaches, Accepts, MayRemoveStaff
<1>3. CASE r.op = "assignment.create"
  <2>1. r.id[1] # t BY <1>1, <1>3 DEF Accepts, MayAssign, Gone, Live
  <2>2. e.assignment = d.assignment \cup {r.id} BY <1>0, <1>3 DEF e, Written, Assigned
  <2> QED BY <1>2, <2>1, <2>2
<1>4. e.assignment \subseteq d.assignment \/ r.op = "assignment.create"
  <2>1. CASE r.op = "assignment.remove" BY <1>0, <2>1 DEF e, Written, Unassigned
  <2>2. CASE r.op \in {"department.addSubject", "department.removeSubject"}
    <3>1. CASE r.op = "department.addSubject" BY <1>0, <3>1 DEF e, Written, AddedToDepartment
    <3>2. CASE r.op = "department.removeSubject" BY <1>0, <3>2 DEF e, Written, TakenFromDepartment
    <3> QED BY <2>2, <3>1, <3>2
  <2>3. CASE r.op = "subject.remove"
    <3>1. e = DropSubjects(d, {r.id}) BY <2>3, WritesRemovals DEF e
    <3> QED BY <1>0, <3>1, DropSubjectsChanges
  <2>4. CASE r.op = "curriculum.remove"
    <3>1. e = DropCurriculum(d, r.id) BY <2>4, WritesRemovals DEF e
    <3> QED BY <1>0, <3>1, DropCurriculumChanges
  <2>5. CASE r.op = "year.remove"
    <3>1. e = DropYear(d, r.id) BY <2>5, WritesRemovals DEF e
    <3> QED BY <1>0, <3>1, DropYearChanges
  <2>6. CASE r.op \notin TeachingOps \cup {"subject.remove", "curriculum.remove", "year.remove"}
    BY <2>6, WriteFrame DEF e
  <2> QED BY <2>1, <2>2, <2>3, <2>4, <2>5, <2>6 DEF TeachingOps
<1> QED BY <1>2, <1>3, <1>4

LEMMA LinksHold ==
  ASSUME NEW d, Formed(d), NEW r \in Requests, NEW seen, LooseLinks(d) = {},
         r.op \in {"guardian.remove", "guardian.link"} => Accepts(d, r)
  PROVE  LooseLinks(Written(d, r, seen)) = {}
<1> DEFINE e == Written(d, r, seen)
<1> SUFFICES ASSUME NEW l \in DOMAIN e.link PROVE Live(e.guardian, l[2])
  BY DEF LooseLinks
<1>s. DOMAIN Demoted(d.link, r, seen) = DOMAIN d.link BY DEF Demoted
<1> HIDE DEF e
<1>0. /\ "link" \in DOMAIN d /\ "guardian" \in DOMAIN d
      /\ \A x \in DOMAIN d.guardian : DOMAIN d.guardian[x] = {"live"}
  BY DEF Formed, Fits, Columns, Tables
<1>1. \A x \in DOMAIN d.link : Live(d.guardian, x[2]) BY DEF LooseLinks
<1>2. CASE r.op = "guardian.link"
  <2>1. Live(d.guardian, r.guardian) BY <1>2 DEF Accepts, MayLinkGuardian
  <2> DEFINE v == [primary |-> r.primary]
  <2>2. e.link = With(Demoted(d.link, r, seen), <<r.id, r.guardian>>, v)
    BY <1>0, <1>2 DEF e, Written, Linked
  <2> HIDE DEF v
  <2>3. e.guardian = d.guardian BY <1>2, WriteFrame DEF e, GuardianOps
  <2> QED BY <1>1, <1>s, <2>1, <2>2, <2>3 DEF With
<1>3. CASE r.op = "guardian.createAndLink"
  <2> DEFINE f == Linked(d, r, seen)
  <2>1. e = [f EXCEPT !.guardian = With(@, r.guardian, [live |-> TRUE])]
    BY <1>3 DEF e, Written, CreatedAndLinked
  <2>2. /\ f.guardian = d.guardian /\ "link" \in DOMAIN f /\ "guardian" \in DOMAIN f
        /\ f.link = With(Demoted(d.link, r, seen), <<r.id, r.guardian>>, [primary |-> r.primary])
    BY <1>0 DEF Linked
  <2> HIDE DEF f
  <2>3. /\ e.link = With(Demoted(d.link, r, seen), <<r.id, r.guardian>>, [primary |-> r.primary])
        /\ e.guardian = With(d.guardian, r.guardian, [live |-> TRUE])
    BY <2>1, <2>2
  <2>4. \A g : Live(d.guardian, g) \/ g = r.guardian => Live(e.guardian, g)
    BY <2>3 DEF With, Live
  <2>5. l \in DOMAIN d.link \/ l = <<r.id, r.guardian>> BY <1>s, <2>3 DEF With
  <2> QED BY <1>1, <2>4, <2>5
<1>4. CASE r.op = "guardian.unlink"
  <2>1. e.link = Without(d.link, {<<r.id, r.guardian>>}) BY <1>0, <1>4 DEF e, Written, Unlinked
  <2>2. e.guardian = d.guardian BY <1>4, WriteFrame DEF e, GuardianOps
  <2> QED BY <1>1, <2>1, <2>2 DEF Without
<1>5. CASE r.op = "guardian.create"
  <2>1. e.guardian = With(d.guardian, r.id, [live |-> TRUE])
    BY <1>0, <1>5 DEF e, Written, GuardianCreated
  <2>2. e.link = d.link BY <1>5, WriteFrame DEF e, LinkOps
  <2> QED BY <1>1, <2>1, <2>2 DEF With, Live
<1>6. CASE r.op = "guardian.remove"
  <2>1. \A x \in DOMAIN d.link : x[2] # r.id BY <1>6 DEF Accepts, MayRemoveGuardian
  <2>2. e.guardian = [d.guardian EXCEPT ![r.id].live = FALSE]
    BY <1>0, <1>6 DEF e, Written, GuardianRemoved
  <2>3. e.link = d.link BY <1>6, WriteFrame DEF e, LinkOps
  <2> QED BY <1>0, <1>1, <2>1, <2>2, <2>3 DEF Live
<1>7. CASE r.op \notin LinkOps \cup GuardianOps \cup {"guardian.createAndLink"}
  BY <1>1, <1>7, WriteFrame DEF e
<1> QED BY <1>2, <1>3, <1>4, <1>5, <1>6, <1>7 DEF LinkOps, GuardianOps

-----------------------------------------------------------------------------
(* One main campus, one current year, one primary guardian of a child, and *)
(* the terms of a year in order.                                           *)

(* What clearing the mark of the rows seen leaves. *)
LEMMA OnlyMainRows ==
  ASSUME NEW f, \A x \in DOMAIN f : DOMAIN f[x] = {"main", "active", "live"}, NEW k, NEW seen
  PROVE  /\ DOMAIN OnlyMain(f, k, seen) = DOMAIN f
         /\ \A x \in DOMAIN f : /\ OnlyMain(f, k, seen)[x].live = f[x].live
                                /\ OnlyMain(f, k, seen)[x].main <=> x = k \/ (f[x].main /\ x \notin seen)
  BY DEF OnlyMain

LEMMA OnlyCurrentRows ==
  ASSUME NEW f, \A x \in DOMAIN f : DOMAIN f[x] = {"current", "terms"}, NEW k, NEW seen
  PROVE  /\ DOMAIN OnlyCurrent(f, k, seen) = DOMAIN f
         /\ \A x \in DOMAIN f : /\ OnlyCurrent(f, k, seen)[x].terms = f[x].terms
                                /\ OnlyCurrent(f, k, seen)[x].current <=>
                                       x = k \/ (f[x].current /\ x \notin seen)
  BY DEF OnlyCurrent

OneMain(d) == \E x : MainCampuses(d) \cap LiveCampuses(d) = {x}

LEMMA MainCampusHolds ==
  ASSUME NEW d, Formed(d), NEW r \in Requests, NEW seen, Admits(d, r, seen), OneMain(d),
         r.op \in {"campus.promote", "campus.remove"} => Accepts(d, r) /\ Seen(d, r) = seen
  PROVE  OneMain(Written(d, r, seen))
<1>a. PICK c : MainCampuses(d) \cap LiveCampuses(d) = {c} BY DEF OneMain
<1> DEFINE e == Written(d, r, seen)
           Good(x) == x \in DOMAIN e.campus /\ e.campus[x].live /\ e.campus[x].main
<1>b. \A x : (\A y : Good(y) <=> y = x) => OneMain(e)
  <2> SUFFICES ASSUME NEW x, \A y : Good(y) <=> y = x PROVE OneMain(e) OBVIOUS
  <2>1. MainCampuses(e) \cap LiveCampuses(e) = {x} BY DEF MainCampuses, LiveCampuses
  <2> QED BY <2>1 DEF OneMain
<1> SUFFICES OneMain(e) OBVIOUS
<1> HIDE DEF e
<1>0. /\ "campus" \in DOMAIN d
      /\ \A x \in DOMAIN d.campus : DOMAIN d.campus[x] = {"main", "active", "live"}
  BY DEF Formed, Fits, Columns, Tables
<1>1. \A y : (y \in DOMAIN d.campus /\ d.campus[y].live /\ d.campus[y].main) <=> y = c
  BY <1>a DEF MainCampuses, LiveCampuses
<1>2. CASE r.op = "campus.create"
  <2>1. r.id \notin DOMAIN d.campus BY <1>2 DEF Admits, MayCreateCampus
  <2>2. e.campus = With(d.campus, r.id, [main |-> FALSE, active |-> TRUE, live |-> TRUE])
    BY <1>0, <1>2 DEF e, Written, CampusCreated
  <2>3. \A y : Good(y) <=> y = c BY <1>1, <2>1, <2>2 DEF With
  <2> QED BY <1>b, <2>3
<1>3. CASE r.op = "campus.promote"
  <2>1. r.id \in DOMAIN d.campus /\ d.campus[r.id].live BY <1>3 DEF Accepts, MayPromoteCampus, Live
  <2>2. \A y \in DOMAIN d.campus : d.campus[y].main => y \in seen
    <3>1. seen = MainCampuses(d) BY <1>3 DEF Seen
    <3> QED BY <3>1 DEF MainCampuses
  <2>3. e.campus = OnlyMain(d.campus, r.id, seen) BY <1>0, <1>3 DEF e, Written, CampusPromoted
  <2>4. \A y \in DOMAIN d.campus : /\ e.campus[y].live = d.campus[y].live
                                   /\ e.campus[y].main <=> y = r.id
    BY <1>0, <2>2, <2>3, OnlyMainRows
  <2>5. DOMAIN e.campus = DOMAIN d.campus BY <1>0, <2>3, OnlyMainRows
  <2>6. PICK x : x = r.id OBVIOUS
  <2>7. \A y : Good(y) <=> y = x BY <2>1, <2>4, <2>5, <2>6
  <2> QED BY <1>b, <2>7
<1>4. CASE r.op = "campus.deactivate"
  <2>1. e.campus = [d.campus EXCEPT ![r.id].active = FALSE]
    BY <1>0, <1>4 DEF e, Written, CampusDeactivated
  <2>2. \A y \in DOMAIN d.campus : e.campus[y].live = d.campus[y].live /\ e.campus[y].main = d.campus[y].main
    BY <1>0, <2>1
  <2>3. \A y : Good(y) <=> y = c BY <1>1, <2>1, <2>2
  <2> QED BY <1>b, <2>3
<1>5. CASE r.op = "campus.remove"
  <2> DEFINE v == [d.campus[r.id] EXCEPT !.live = FALSE, !.active = FALSE]
  <2>1. r.id # c
    <3>1. ~d.campus[r.id].main BY <1>5 DEF Accepts, MayRemoveCampus
    <3> QED BY <1>1, <3>1
  <2>2. e = CampusRemoved(d, r) BY <1>5 DEF e, Written
  <2>3. e.campus = [d.campus EXCEPT ![r.id] = v] BY <1>0, <2>2 DEF CampusRemoved
  <2>4. r.id \in DOMAIN d.campus => ~v.live BY <1>0
  <2> HIDE DEF v
  <2>5. \A y : Good(y) <=> y = c BY <1>1, <2>1, <2>3, <2>4
  <2> QED BY <1>b, <2>5
<1>6. CASE r.op = "campus.activate"
  <2>1. e.campus = [d.campus EXCEPT ![r.id].active = TRUE]
    BY <1>0, <1>6 DEF e, Written, CampusActivated
  <2>2. \A y \in DOMAIN d.campus : e.campus[y].live = d.campus[y].live /\ e.campus[y].main = d.campus[y].main
    BY <1>0, <2>1
  <2>3. \A y : Good(y) <=> y = c BY <1>1, <2>1, <2>2
  <2> QED BY <1>b, <2>3
<1>7. CASE r.op \notin CampusOps
  <2>1. e.campus = d.campus BY <1>7, WriteFrame DEF e
  <2>2. \A y : Good(y) <=> y = c BY <1>1, <2>1
  <2> QED BY <1>b, <2>2
<1> QED BY <1>2, <1>3, <1>4, <1>5, <1>6, <1>7 DEF CampusOps

OneCurrent(d) == \A x, y \in DOMAIN d.year : d.year[x].current /\ d.year[y].current => x = y

LEMMA CurrentYearHolds ==
  ASSUME NEW d, Formed(d), NEW r \in Requests, NEW seen, Admits(d, r, seen), OneCurrent(d),
         r.op \in {"year.create", "year.setCurrent"} => Accepts(d, r) /\ Seen(d, r) = seen
  PROVE  OneCurrent(Written(d, r, seen))
<1> DEFINE e == Written(d, r, seen)
<1> SUFFICES OneCurrent(e) OBVIOUS
<1> HIDE DEF e
<1>0. /\ DOMAIN d = Tables /\ "year" \in DOMAIN d
      /\ \A x \in DOMAIN d.year : DOMAIN d.year[x] = {"current", "terms"}
  BY DEF Formed, Fits, Columns, Tables
<1>1. CASE r.op = "year.create"
  <2> DEFINE f == With(d.year, r.id, [current |-> FALSE, terms |-> r.terms])
  <2>1. e.year = IF r.current THEN OnlyCurrent(f, r.id, seen) ELSE f
    BY <1>0, <1>1 DEF e, Written, YearCreated
  <2>2. /\ \A x \in DOMAIN f : x = r.id \/ (x \in DOMAIN d.year /\ f[x] = d.year[x])
        /\ f[r.id] = [current |-> FALSE, terms |-> r.terms]
    BY DEF With
  <2> HIDE DEF f
  <2>3. \A x \in DOMAIN f : /\ f[x].current => x \in DOMAIN d.year /\ d.year[x].current
                            /\ DOMAIN f[x] = {"current", "terms"}
    BY <1>0, <2>2
  <2>4. CASE r.current
    <3>1. \A x \in DOMAIN d.year : d.year[x].current => x \in seen
      <4>1. seen = CurrentYears(d) BY <1>1, <2>4 DEF Seen
      <4> QED BY <4>1 DEF CurrentYears
    <3>2. \A x \in DOMAIN e.year : e.year[x].current => x = r.id
      BY <2>1, <2>3, <2>4, <3>1, OnlyCurrentRows
    <3> QED BY <3>2 DEF OneCurrent
  <2>5. CASE ~r.current
    <3>1. e.year = f BY <2>1, <2>5
    <3>2. \A x \in DOMAIN f : f[x].current => x \in DOMAIN d.year /\ d.year[x].current /\ f[x] = d.year[x]
      BY <2>2, <2>3
    <3> QED BY <3>1, <3>2, <2>3 DEF OneCurrent
  <2> QED BY <2>4, <2>5
<1>2. CASE r.op = "year.setCurrent"
  <2>1. \A x \in DOMAIN d.year : d.year[x].current => x \in seen
    <3>1. seen = CurrentYears(d) BY <1>2 DEF Seen
    <3> QED BY <3>1 DEF CurrentYears
  <2>2. e.year = OnlyCurrent(d.year, r.id, seen) BY <1>0, <1>2 DEF e, Written, CurrentSet
  <2>3. /\ DOMAIN OnlyCurrent(d.year, r.id, seen) = DOMAIN d.year
        /\ \A x \in DOMAIN d.year : OnlyCurrent(d.year, r.id, seen)[x].current <=>
                                       x = r.id \/ (d.year[x].current /\ x \notin seen)
    BY <1>0 DEF OnlyCurrent
  <2>4. \A x \in DOMAIN e.year : e.year[x].current => x = r.id BY <2>1, <2>2, <2>3
  <2> QED BY <2>4 DEF OneCurrent
<1>3. CASE r.op = "year.terms"
  <2> DEFINE f == DropTerms(d, seen)
  <2>1. e = [f EXCEPT !.year[r.id].terms = (@ \ seen) \cup r.terms] BY <1>3 DEF e, Written, TermsReplaced
  <2>2. f.year = d.year /\ "year" \in DOMAIN f BY <1>0 DEF DropTerms, Tables
  <2> HIDE DEF f
  <2>3. e.year = [d.year EXCEPT ![r.id].terms = (@ \ seen) \cup r.terms] BY <2>1, <2>2
  <2>4. \A x \in DOMAIN d.year : e.year[x].current = d.year[x].current BY <1>0, <2>3
  <2> QED BY <2>3, <2>4 DEF OneCurrent
<1>4. CASE r.op = "year.remove"
  <2>1. e = DropYear(d, r.id) BY <1>4, WritesRemovals DEF e
  <2>2. e.year = Without(d.year, {r.id}) BY <1>0, <2>1, DropYearChanges
  <2> QED BY <2>2 DEF Without, OneCurrent
<1>5. CASE r.op \notin YearOps \cup {"year.remove"} BY <1>5, WriteFrame DEF e, OneCurrent
<1> QED BY <1>1, <1>2, <1>3, <1>4, <1>5 DEF YearOps

OnePrimary(d) ==
    \A l, m \in DOMAIN d.link : d.link[l].primary /\ d.link[m].primary /\ l[1] = m[1] => l = m

LEMMA LinkKeepsOnePrimary ==
  ASSUME NEW d, Formed(d), NEW r, NEW e, OnePrimary(d),
         e.link = With(Demoted(d.link, r, LinksOf(d, r.id)), <<r.id, r.guardian>>, [primary |-> r.primary])
  PROVE  OnePrimary(e)
<1> DEFINE key == <<r.id, r.guardian>>
           D == Demoted(d.link, r, LinksOf(d, r.id))
<1>0. \A l \in DOMAIN d.link : DOMAIN d.link[l] = {"primary"}
  BY DEF Formed, Fits, Columns, Tables
<1>1. D = [l \in DOMAIN d.link |-> [d.link[l] EXCEPT !.primary = @ /\ ~(r.primary /\ l \in LinksOf(d, r.id))]]
  BY DEF Demoted
<1>2. \A l \in DOMAIN d.link : D[l].primary => d.link[l].primary /\ ~(r.primary /\ l \in LinksOf(d, r.id))
  BY <1>0, <1>1
<1>3. DOMAIN D = DOMAIN d.link BY <1>1
<1>a. e.link = With(D, key, [primary |-> r.primary]) OBVIOUS
<1> HIDE DEF D
<1>4. /\ \A l \in DOMAIN e.link : l = key \/ (l \in DOMAIN d.link /\ e.link[l] = D[l])
      /\ e.link[key] = [primary |-> r.primary]
  BY <1>3, <1>a DEF With
<1>5. SUFFICES ASSUME NEW l \in DOMAIN e.link, NEW m \in DOMAIN e.link,
                      e.link[l].primary, e.link[m].primary, l[1] = m[1]
               PROVE  l = m
  BY DEF OnePrimary
<1>6. key[1] = r.id OBVIOUS
<1> HIDE DEF key
<1>7. CASE l # key /\ m # key BY <1>2, <1>4, <1>5, <1>7 DEF OnePrimary
<1>8. CASE l = key /\ m # key BY <1>2, <1>4, <1>5, <1>6, <1>8 DEF LinksOf
<1>9. CASE l # key /\ m = key BY <1>2, <1>4, <1>5, <1>6, <1>9 DEF LinksOf
<1> QED BY <1>7, <1>8, <1>9

LEMMA PrimaryLinkHolds ==
  ASSUME NEW d, Formed(d), NEW r \in Requests, NEW seen, OnePrimary(d),
         r.op \in {"guardian.link", "guardian.createAndLink"} => Accepts(d, r) /\ Seen(d, r) = seen
  PROVE  OnePrimary(Written(d, r, seen))
<1> DEFINE e == Written(d, r, seen)
<1> SUFFICES OnePrimary(e) OBVIOUS
<1> HIDE DEF e
<1>0. "link" \in DOMAIN d /\ "guardian" \in DOMAIN d BY DEF Formed, Tables
<1>1. CASE r.op = "guardian.link"
  <2>1. seen = LinksOf(d, r.id) BY <1>1 DEF Seen
  <2>2. e.link = With(Demoted(d.link, r, seen), <<r.id, r.guardian>>, [primary |-> r.primary])
    BY <1>0, <1>1 DEF e, Written, Linked
  <2> QED BY <2>1, <2>2, LinkKeepsOnePrimary
<1>2. CASE r.op = "guardian.createAndLink"
  <2>1. seen = LinksOf(d, r.id) BY <1>2 DEF Seen
  <2> DEFINE f == Linked(d, r, seen)
  <2>2. e = [f EXCEPT !.guardian = With(@, r.guardian, [live |-> TRUE])]
    BY <1>2 DEF e, Written, CreatedAndLinked
  <2>3. f.link = With(Demoted(d.link, r, seen), <<r.id, r.guardian>>, [primary |-> r.primary])
    BY <1>0 DEF Linked
  <2> HIDE DEF f
  <2>4. e.link = f.link BY <2>2
  <2> QED BY <2>1, <2>3, <2>4, LinkKeepsOnePrimary
<1>3. CASE r.op = "guardian.unlink"
  <2>1. e.link = Without(d.link, {<<r.id, r.guardian>>}) BY <1>0, <1>3 DEF e, Written, Unlinked
  <2> QED BY <2>1 DEF Without, OnePrimary
<1>4. CASE r.op \notin LinkOps \cup {"guardian.createAndLink"} BY <1>4, WriteFrame DEF e, OnePrimary
<1> QED BY <1>1, <1>2, <1>3, <1>4 DEF LinkOps

TermsInOrder(d) == \A y \in DOMAIN d.year : InOrder(d.year[y].terms)

LEMMA TermsHold ==
  ASSUME NEW d, Formed(d), NEW r \in Requests, NEW seen, Admits(d, r, seen), TermsInOrder(d),
         r.op \in {"year.create", "year.terms"} => InOrder(r.terms)
  PROVE  TermsInOrder(Written(d, r, seen))
<1> DEFINE e == Written(d, r, seen)
<1> SUFFICES TermsInOrder(e) OBVIOUS
<1> HIDE DEF e
<1>0. /\ DOMAIN d = Tables /\ "year" \in DOMAIN d
      /\ \A x \in DOMAIN d.year : DOMAIN d.year[x] = {"current", "terms"}
  BY DEF Formed, Fits, Columns, Tables
<1>1. CASE r.op = "year.create"
  <2> DEFINE f == With(d.year, r.id, [current |-> FALSE, terms |-> r.terms])
  <2>1. e.year = IF r.current THEN OnlyCurrent(f, r.id, seen) ELSE f
    BY <1>0, <1>1 DEF e, Written, YearCreated
  <2>2. /\ \A x \in DOMAIN f : x = r.id \/ (x \in DOMAIN d.year /\ f[x] = d.year[x])
        /\ f[r.id] = [current |-> FALSE, terms |-> r.terms]
    BY DEF With
  <2> HIDE DEF f
  <2>3. \A x \in DOMAIN f : DOMAIN f[x] = {"current", "terms"} /\ InOrder(f[x].terms)
    BY <1>0, <1>1, <2>2 DEF TermsInOrder
  <2>4. /\ DOMAIN OnlyCurrent(f, r.id, seen) = DOMAIN f
        /\ \A x \in DOMAIN f : OnlyCurrent(f, r.id, seen)[x].terms = f[x].terms
    BY <2>3, OnlyCurrentRows
  <2>5. \A x \in DOMAIN e.year : x \in DOMAIN f /\ e.year[x].terms = f[x].terms
    BY <2>1, <2>4
  <2> QED BY <2>3, <2>5 DEF TermsInOrder
<1>2. CASE r.op = "year.setCurrent"
  <2>1. e.year = OnlyCurrent(d.year, r.id, seen) BY <1>0, <1>2 DEF e, Written, CurrentSet
  <2>2. /\ DOMAIN OnlyCurrent(d.year, r.id, seen) = DOMAIN d.year
        /\ \A x \in DOMAIN d.year : OnlyCurrent(d.year, r.id, seen)[x].terms = d.year[x].terms
    BY <1>0 DEF OnlyCurrent
  <2>3. \A x \in DOMAIN e.year : x \in DOMAIN d.year /\ e.year[x].terms = d.year[x].terms
    BY <2>1, <2>2
  <2> QED BY <2>3 DEF TermsInOrder
<1>3. CASE r.op = "year.terms"
  <2> DEFINE f == DropTerms(d, seen)
             new == (d.year[r.id].terms \ seen) \cup r.terms
  <2>1. e = [f EXCEPT !.year[r.id].terms = (@ \ seen) \cup r.terms] BY <1>3 DEF e, Written, TermsReplaced
  <2>2. f.year = d.year /\ "year" \in DOMAIN f BY <1>0 DEF DropTerms, Tables
  <2> HIDE DEF f
  <2>3. e.year = [d.year EXCEPT ![r.id].terms = (@ \ seen) \cup r.terms] BY <2>1, <2>2
  <2>4. /\ \A x \in DOMAIN d.year : x # r.id => e.year[x] = d.year[x]
        /\ r.id \in DOMAIN d.year => e.year[r.id].terms = new
    BY <1>0, <2>3
  <2>5. InOrder(new)
    <3>1. r.id \in DOMAIN d.year /\ ~TermsCollide(d, r, seen) BY <1>3 DEF Admits
    <3>2. InOrder(d.year[r.id].terms) BY <3>1 DEF TermsInOrder
    <3> QED BY <1>3, <3>1, <3>2 DEF TermsCollide, InOrder
  <2> HIDE DEF new
  <2> QED BY <2>3, <2>4, <2>5 DEF TermsInOrder
<1>4. CASE r.op = "year.remove"
  <2>1. e = DropYear(d, r.id) BY <1>4, WritesRemovals DEF e
  <2>2. e.year = Without(d.year, {r.id}) BY <1>0, <2>1, DropYearChanges
  <2> QED BY <2>2 DEF Without, TermsInOrder
<1>5. CASE r.op \notin YearOps \cup {"year.remove"} BY <1>5, WriteFrame DEF e, TermsInOrder
<1> QED BY <1>1, <1>2, <1>3, <1>4, <1>5 DEF YearOps

-----------------------------------------------------------------------------
(* Enrolments and their classes.  The year of a class never changes, and a *)
(* class is gone with its enrolments or not at all.                        *)

OfItsYear(d) ==
    \A n \in DOMAIN d.enrolment : /\ d.enrolment[n].class \in DOMAIN d.class
                                  /\ n[2] = d.class[d.enrolment[n].class].year
OfItsSite(d) ==
    \A n \in DOMAIN d.enrolment : d.enrolment[n].campus = d.class[d.enrolment[n].class].campus

LEMMA NoneDrifted ==
  ASSUME NEW d
  PROVE  Drifted(d) = {} <=> OfItsYear(d) /\ OfItsSite(d)
<1>1. Drifted(d) = {} <=>
        \A n \in DOMAIN d.enrolment : /\ d.enrolment[n].class \in DOMAIN d.class
                                      /\ d.enrolment[n].campus = d.class[d.enrolment[n].class].campus
                                      /\ n[2] = d.class[d.enrolment[n].class].year
  BY DEF Drifted
<1> QED BY <1>1 DEF OfItsYear, OfItsSite

(* A class of before keeps its year and its campus; the new one is new. *)
LEMMA ClassRows ==
  ASSUME NEW d, Formed(d), NEW r \in Requests, NEW seen
  PROVE  LET e == Written(d, r, seen) IN
         /\ \A k \in DOMAIN d.class : (r.op = "class.create" => k # r.id) =>
               \/ /\ k \in DOMAIN e.class /\ e.class[k].year = d.class[k].year
                  /\ e.class[k].campus = d.class[k].campus
               \/ r.op = "year.remove" /\ k \notin DOMAIN e.class /\ d.class[k].year = r.id
         /\ \A k \in DOMAIN e.class : k \in DOMAIN d.class \/ (r.op = "class.create" /\ k = r.id)
<1> DEFINE e == Written(d, r, seen)
<1> HIDE DEF e
<1>0. /\ DOMAIN d = Tables /\ "class" \in DOMAIN d
      /\ \A k \in DOMAIN d.class : DOMAIN d.class[k] = {"grade", "year", "teacher", "live", "campus"}
  BY DEF Formed, Fits, Columns, Tables
<1>1. CASE r.op = "class.create"
  <2> DEFINE v == [grade |-> r.grade, year |-> r.year, teacher |-> Null, live |-> TRUE,
                   campus |-> d.section[d.grade[r.grade].section].campus]
  <2>1. e.class = With(d.class, r.id, v) BY <1>0, <1>1 DEF e, Written, ClassCreated
  <2> HIDE DEF v
  <2> QED BY <1>1, <2>1 DEF e, With
<1>2. CASE r.op = "class.remove"
  <2>1. e.class = [d.class EXCEPT ![r.id].live = FALSE] BY <1>0, <1>2 DEF e, Written, ClassRemoved
  <2> QED BY <1>0, <1>2, <2>1 DEF e
<1>3. CASE r.op = "class.teacher"
  <2>1. e.class = [d.class EXCEPT ![r.id].teacher = r.teacher]
    BY <1>0, <1>3 DEF e, Written, ClassTeacherSet
  <2> QED BY <1>0, <1>3, <2>1 DEF e
<1>4. CASE r.op = "year.remove"
  <2>1. e = DropYear(d, r.id) BY <1>4, WritesRemovals DEF e
  <2>2. e.class = Without(d.class, ClassesIn(d, r.id)) BY <1>0, <2>1, DropYearChanges
  <2> QED BY <1>4, <2>2 DEF e, Without, ClassesIn
<1>5. CASE r.op \notin ClassOps \cup {"year.remove"}
  <2>1. e.class = d.class BY <1>5, WriteFrame DEF e
  <2> QED BY <1>5, <2>1 DEF e, ClassOps
<1> QED BY <1>1, <1>2, <1>3, <1>4, <1>5 DEF ClassOps

(* What becomes of the enrolments. *)
Enrols(d, e, r, n) ==
    /\ r.op = "enrolment.create" /\ n = r.id
    /\ e.enrolment[n] = [class |-> r.class, campus |-> d.class[r.class].campus, status |-> "ENROLLED"]
Alters(d, e, r, seen, n) ==
    /\ r.op = "enrolment.update" /\ n = r.id /\ n \in DOMAIN d.enrolment
    /\ e.enrolment[n].class = Given(r.class, d.enrolment[n].class)
    /\ e.enrolment[n].campus =
           IF Moves(r, seen) THEN d.class[r.class].campus ELSE d.enrolment[n].campus
    /\ e.enrolment[n].status = Given(r.status, d.enrolment[n].status)

LEMMA EnrolmentRows ==
  ASSUME NEW d, Formed(d), NEW r \in Requests, NEW seen
  PROVE  LET e == Written(d, r, seen) IN
         /\ \A n \in DOMAIN e.enrolment :
               \/ /\ n \in DOMAIN d.enrolment /\ e.enrolment[n] = d.enrolment[n]
                  /\ r.op = "year.remove" => n \notin LeavingWith(d, r.id)
               \/ Enrols(d, e, r, n)
               \/ Alters(d, e, r, seen, n)
         /\ \A n \in DOMAIN d.enrolment :
               \/ n \in DOMAIN e.enrolment
               \/ r.op = "enrolment.remove" /\ n = r.id
               \/ r.op = "year.remove" /\ n \in LeavingWith(d, r.id)
<1> DEFINE e == Written(d, r, seen)
<1> HIDE DEF e
<1>0. /\ DOMAIN d = Tables /\ "enrolment" \in DOMAIN d
      /\ \A n \in DOMAIN d.enrolment : DOMAIN d.enrolment[n] = {"class", "campus", "status"}
  BY DEF Formed, Fits, Columns, Tables
<1>1. CASE r.op = "enrolment.create"
  <2>1. e.enrolment = With(d.enrolment, r.id, [class |-> r.class, campus |-> d.class[r.class].campus,
                                               status |-> "ENROLLED"])
    BY <1>0, <1>1 DEF e, Written, EnrolmentCreated
  <2> QED BY <1>1, <2>1 DEF e, With, Enrols
<1>2. CASE r.op = "enrolment.update"
  <2> DEFINE v == [class  |-> Given(r.class, d.enrolment[r.id].class),
                   campus |-> IF Moves(r, seen) THEN d.class[r.class].campus ELSE d.enrolment[r.id].campus,
                   status |-> Given(r.status, d.enrolment[r.id].status)]
  <2>1. e.enrolment = [d.enrolment EXCEPT ![r.id] = v]
    BY <1>0, <1>2 DEF e, Written, EnrolmentUpdated
  <2>2. /\ v.class = Given(r.class, d.enrolment[r.id].class)
        /\ v.campus = IF Moves(r, seen) THEN d.class[r.class].campus ELSE d.enrolment[r.id].campus
        /\ v.status = Given(r.status, d.enrolment[r.id].status)
    OBVIOUS
  <2> HIDE DEF v
  <2> QED BY <1>2, <2>1, <2>2 DEF e, Alters
<1>3. CASE r.op = "enrolment.remove"
  <2>1. e = DropEnrolments(d, {r.id}) BY <1>3, WritesRemovals DEF e
  <2>2. e.enrolment = Without(d.enrolment, {r.id}) BY <1>0, <2>1, DropEnrolmentsChanges
  <2> QED BY <1>3, <2>2 DEF e, Without
<1>4. CASE r.op = "year.remove"
  <2>1. e = DropYear(d, r.id) BY <1>4, WritesRemovals DEF e
  <2>2. e.enrolment = Without(d.enrolment, LeavingWith(d, r.id)) BY <1>0, <2>1, DropYearChanges
  <2> QED BY <1>4, <2>2 DEF e, Without
<1>5. CASE r.op \notin EnrolmentOps \cup {"enrolment.remove", "year.remove"}
  <2>1. e.enrolment = d.enrolment BY <1>5, WriteFrame DEF e
  <2> QED BY <1>5, <2>1 DEF e
<1> QED BY <1>1, <1>2, <1>3, <1>4, <1>5 DEF EnrolmentOps

(* The class a request for an enrolment names, if there, is of its year. *)
NamesItsYear(d, r) ==
    /\ r.op = "enrolment.create" \/ (r.op = "enrolment.update" /\ r.class # Null) =>
           (r.class \in DOMAIN d.class => d.class[r.class].year = r.id[2])
    /\ r.op = "class.create" => r.id \notin DOMAIN d.class

LEMMA YearsHold ==
  ASSUME NEW d, Formed(d), NEW r \in Requests, NEW seen, Admits(d, r, seen), NamesItsYear(d, r),
         OfItsYear(d)
  PROVE  OfItsYear(Written(d, r, seen))
<1> DEFINE e == Written(d, r, seen)
<1>1. SUFFICES ASSUME NEW n \in DOMAIN e.enrolment
               PROVE  e.enrolment[n].class \in DOMAIN e.class /\ n[2] = e.class[e.enrolment[n].class].year
  BY DEF OfItsYear
<1>2. /\ \A k \in DOMAIN d.class : (r.op = "class.create" => k # r.id) =>
            \/ k \in DOMAIN e.class /\ e.class[k].year = d.class[k].year
            \/ r.op = "year.remove" /\ k \notin DOMAIN e.class /\ d.class[k].year = r.id
  BY ClassRows
<1>3. \/ /\ n \in DOMAIN d.enrolment /\ e.enrolment[n] = d.enrolment[n]
         /\ r.op = "year.remove" => n \notin LeavingWith(d, r.id)
      \/ Enrols(d, e, r, n)
      \/ Alters(d, e, r, seen, n)
  BY <1>1, EnrolmentRows
<1> HIDE DEF e
<1>4. CASE n \in DOMAIN d.enrolment /\ e.enrolment[n] = d.enrolment[n]
           /\ (r.op = "year.remove" => n \notin LeavingWith(d, r.id))
  <2>1. /\ d.enrolment[n].class \in DOMAIN d.class
        /\ n[2] = d.class[d.enrolment[n].class].year
    BY <1>4 DEF OfItsYear
  <2>2. r.op = "class.create" => d.enrolment[n].class # r.id BY <2>1 DEF NamesItsYear
  <2>3. r.op = "year.remove" => d.class[d.enrolment[n].class].year # r.id
    BY <1>4, <2>1 DEF LeavingWith, ClassesIn
  <2> QED BY <1>2, <1>4, <2>1, <2>2, <2>3
<1>5. CASE Enrols(d, e, r, n)
  <2>1. r.op = "enrolment.create" /\ n = r.id /\ e.enrolment[n].class = r.class BY <1>5 DEF Enrols
  <2>2. r.class \in DOMAIN d.class BY <2>1 DEF Admits
  <2>3. d.class[r.class].year = n[2] BY <2>1, <2>2 DEF NamesItsYear
  <2> QED BY <1>2, <2>1, <2>2, <2>3
<1>6. CASE Alters(d, e, r, seen, n)
  <2>1. /\ r.op = "enrolment.update" /\ n = r.id /\ n \in DOMAIN d.enrolment
        /\ e.enrolment[n].class = Given(r.class, d.enrolment[n].class)
    BY <1>6 DEF Alters
  <2>2. r.class \in DOMAIN d.class \cup {Null} BY <2>1 DEF Admits
  <2>3. /\ e.enrolment[n].class \in DOMAIN d.class
        /\ n[2] = d.class[e.enrolment[n].class].year
    BY <2>1, <2>2 DEF Given, NamesItsYear, OfItsYear
  <2> QED BY <1>2, <2>1, <2>3
<1> QED BY <1>3, <1>4, <1>5, <1>6

LEMMA SitesHold ==
  ASSUME NEW d, Formed(d), NEW r \in Requests, NEW seen, Admits(d, r, seen), NamesItsYear(d, r),
         OfItsYear(d), OfItsSite(d),
         r.op = "enrolment.update" => Accepts(d, r) /\ Seen(d, r) = seen
  PROVE  OfItsSite(Written(d, r, seen))
<1> DEFINE e == Written(d, r, seen)
<1>1. SUFFICES ASSUME NEW n \in DOMAIN e.enrolment
               PROVE  e.enrolment[n].campus = e.class[e.enrolment[n].class].campus
  BY DEF OfItsSite
<1>2. /\ \A k \in DOMAIN d.class : (r.op = "class.create" => k # r.id) =>
            \/ k \in DOMAIN e.class /\ e.class[k].campus = d.class[k].campus
            \/ r.op = "year.remove" /\ k \notin DOMAIN e.class /\ d.class[k].year = r.id
  BY ClassRows
<1>3. \/ /\ n \in DOMAIN d.enrolment /\ e.enrolment[n] = d.enrolment[n]
         /\ r.op = "year.remove" => n \notin LeavingWith(d, r.id)
      \/ Enrols(d, e, r, n)
      \/ Alters(d, e, r, seen, n)
  BY <1>1, EnrolmentRows
<1> HIDE DEF e
<1>4. CASE n \in DOMAIN d.enrolment /\ e.enrolment[n] = d.enrolment[n]
           /\ (r.op = "year.remove" => n \notin LeavingWith(d, r.id))
  <2>1. /\ d.enrolment[n].class \in DOMAIN d.class
        /\ d.enrolment[n].campus = d.class[d.enrolment[n].class].campus
    BY <1>4 DEF OfItsYear, OfItsSite
  <2>2. r.op = "class.create" => d.enrolment[n].class # r.id BY <2>1 DEF NamesItsYear
  <2>3. r.op = "year.remove" => d.class[d.enrolment[n].class].year # r.id
    BY <1>4, <2>1 DEF LeavingWith, ClassesIn
  <2> QED BY <1>2, <1>4, <2>1, <2>2, <2>3
<1>5. CASE Enrols(d, e, r, n)
  <2>1. /\ r.op = "enrolment.create" /\ e.enrolment[n].class = r.class
        /\ e.enrolment[n].campus = d.class[r.class].campus
    BY <1>5 DEF Enrols
  <2>2. r.class \in DOMAIN d.class BY <2>1 DEF Admits
  <2> QED BY <1>2, <2>1, <2>2
<1>6. CASE Alters(d, e, r, seen, n)
  <2>1. /\ r.op = "enrolment.update" /\ n = r.id /\ n \in DOMAIN d.enrolment
        /\ e.enrolment[n].class = Given(r.class, d.enrolment[n].class)
        /\ e.enrolment[n].campus = IF Moves(r, seen) THEN d.class[r.class].campus ELSE d.enrolment[n].campus
    BY <1>6 DEF Alters
  <2>2. seen = d.enrolment[n].class BY <2>1 DEF Seen
  <2>3. r.class \in DOMAIN d.class \cup {Null} BY <2>1 DEF Admits
  <2>4. /\ d.enrolment[n].class \in DOMAIN d.class
        /\ d.enrolment[n].campus = d.class[d.enrolment[n].class].campus
    BY <2>1 DEF OfItsYear, OfItsSite
  <2>5. /\ e.enrolment[n].class \in DOMAIN d.class
        /\ e.enrolment[n].campus = d.class[e.enrolment[n].class].campus
    BY <2>1, <2>2, <2>3, <2>4 DEF Given, Moves
  <2> QED BY <1>2, <2>1, <2>5
<1> QED BY <1>3, <1>4, <1>5, <1>6

LEMMA StudentsStay ==
  ASSUME NEW d, Formed(d), NEW r \in Requests, NEW seen
  PROVE  DOMAIN d.student \subseteq DOMAIN Written(d, r, seen).student
<1> DEFINE e == Written(d, r, seen)
<1> SUFFICES DOMAIN d.student \subseteq DOMAIN e.student OBVIOUS
<1> HIDE DEF e
<1>0. "student" \in DOMAIN d BY DEF Formed, Tables
<1>1. CASE r.op = "student.create" BY <1>0, <1>1 DEF e, Written, StudentCreated, With
<1>2. CASE r.op = "student.update" BY <1>0, <1>2 DEF e, Written, StudentUpdated
<1>3. CASE r.op = "student.remove" BY <1>0, <1>3 DEF e, Written, StudentRemoved
<1>4. CASE r.op \notin StudentOps BY <1>4, WriteFrame DEF e
<1> QED BY <1>1, <1>2, <1>3, <1>4 DEF StudentOps

-----------------------------------------------------------------------------
(* The steps.  Only a write changes the tables, and then either it is named *)
(* in overtaken or what it had checked and seen is still so.               *)

Serving ==
    /\ DOMAIN held = Clients
    /\ \A c \in Clients : /\ DOMAIN held[c] = {"req", "seen", "open"}
                          /\ held[c] = Idle \/ held[c].req \in Requests

Inv0 == Formed(db) /\ DOMAIN db.staff \subseteq Teachers /\ Serving

Wrote(c) ==
    LET r == held[c].req
        seen == held[c].seen
    IN  /\ r \in Requests /\ Admits(db, r, seen)
        /\ db' = Written(db, r, seen)
        /\ overtaken \subseteq overtaken'
        /\ r.op \notin overtaken' => Accepts(db, r) /\ Seen(db, r) = seen

LEMMA StepCases ==
  ASSUME Inv0, [Next]_vars
  PROVE  UNCHANGED <<db, overtaken>> \/ \E c \in Clients : Write(c) /\ Wrote(c)
<1>1. CASE UNCHANGED vars BY <1>1 DEF vars
<1>2. ASSUME NEW c \in Clients, Check(c) PROVE UNCHANGED <<db, overtaken>> BY <1>2 DEF Check
<1>3. ASSUME NEW c \in Clients, Statement(c) PROVE UNCHANGED <<db, overtaken>> BY <1>3 DEF Statement
<1>4. ASSUME NEW c \in Clients, Write(c) PROVE UNCHANGED <<db, overtaken>> \/ Wrote(c)
  <2>1. held[c].req \in Requests BY <1>4 DEF Inv0, Serving, Write
  <2>2. CASE Admits(db, held[c].req, held[c].seen)
    <3>1. /\ db' = Written(db, held[c].req, held[c].seen)
          /\ overtaken' = IF Overtaken(c) THEN overtaken \cup {held[c].req.op} ELSE overtaken
      BY <1>4, <2>2 DEF Write
    <3> QED BY <2>1, <2>2, <3>1 DEF Wrote, Overtaken
  <2>3. CASE ~Admits(db, held[c].req, held[c].seen) BY <1>4, <2>3 DEF Write
  <2> QED BY <2>2, <2>3
<1> QED BY <1>1, <1>2, <1>3, <1>4 DEF Next

LEMMA StillRaced ==
  ASSUME NEW c, Wrote(c), NEW ops, ~Raced(ops)'
  PROVE  /\ ~Raced(ops)
         /\ held[c].req.op \in ops => Accepts(db, held[c].req) /\ Seen(db, held[c].req) = held[c].seen
  BY DEF Wrote, Raced

LEMMA Inv0Init ==
  ASSUME Init
  PROVE  Inv0
  BY SchoolAssumption DEF Init, Inv0, Serving, Idle

LEMMA Inv0Step ==
  ASSUME Inv0, [Next]_vars
  PROVE  Inv0'
<1>1. Formed(db') /\ DOMAIN db'.staff \subseteq Teachers
  <2>1. CASE UNCHANGED <<db, overtaken>> BY <2>1 DEF Inv0
  <2>2. ASSUME NEW c \in Clients, Wrote(c) PROVE Formed(db') /\ DOMAIN db'.staff \subseteq Teachers
    BY <2>2, WriteFormed, EmployedAreTeachers DEF Wrote, Inv0
  <2> QED BY <2>1, <2>2, StepCases
<1>2. Serving'
  <2>1. CASE UNCHANGED vars BY <2>1 DEF Inv0, Serving, vars
  <2>2. ASSUME NEW c \in Clients, Check(c) PROVE Serving'
    <3>1. PICK r \in Requests : held' = [held EXCEPT ![c] = [req |-> r, seen |-> Seen(db, r),
                                                             open |-> r.op \notin Transactional]]
      BY <2>2 DEF Check
    <3> QED BY <3>1 DEF Inv0, Serving
  <2>3. ASSUME NEW c \in Clients, Statement(c) PROVE Serving'
    <3>1. held[c] # Idle
      BY <2>3 DEF Statement
    <3> DEFINE h == [held[c] EXCEPT !.seen = Seen(db, held[c].req), !.open = TRUE]
    <3>2. held' = [held EXCEPT ![c] = h] BY <2>3 DEF Statement
    <3>3. h.req = held[c].req /\ DOMAIN h = {"req", "seen", "open"} BY DEF Inv0, Serving
    <3> HIDE DEF h
    <3> QED BY <3>1, <3>2, <3>3 DEF Inv0, Serving
  <2>4. ASSUME NEW c \in Clients, Write(c) PROVE Serving'
    <3>1. held' = [held EXCEPT ![c] = Idle] BY <2>4 DEF Write
    <3>2. DOMAIN Idle = {"req", "seen", "open"} BY DEF Idle
    <3>3. \A x \in Clients : held'[x] = IF x = c THEN Idle ELSE held[x] BY <3>1 DEF Inv0, Serving
    <3>4. DOMAIN held' = Clients BY <3>1 DEF Inv0, Serving
    <3> QED BY <3>2, <3>3, <3>4 DEF Inv0, Serving
  <2> QED BY <2>1, <2>2, <2>3, <2>4 DEF Next
<1> QED BY <1>1, <1>2 DEF Inv0

LEMMA Inv0Holds == Spec => []Inv0
<1>1. Init => Inv0 BY Inv0Init
<1>2. Inv0 /\ [Next]_vars => Inv0' BY Inv0Step
<1> QED BY <1>1, <1>2, PTL DEF Spec

(* No live branch is on a deleted one, nobody in a deleted department,     *)
(* unless a deletion and an insert did not see each other.                 *)
THEOREM TreeHolds == Spec => []TreeUnlessRaced
<1>1. Init => TreeUnlessRaced BY SchoolAssumption DEF Init, TreeUnlessRaced
<1>2. Inv0 /\ TreeUnlessRaced /\ [Next]_vars => TreeUnlessRaced'
  <2> SUFFICES ASSUME Inv0, TreeUnlessRaced, [Next]_vars PROVE TreeUnlessRaced' OBVIOUS
  <2>1. CASE UNCHANGED <<db, overtaken>> BY <2>1 DEF TreeUnlessRaced, Raced
  <2>2. ASSUME NEW c \in Clients, Wrote(c) PROVE TreeUnlessRaced'
    <3> DEFINE r == held[c].req
               seen == held[c].seen
    <3>1. r \in Requests /\ Formed(db) /\ db' = Written(db, r, seen) BY <2>2 DEF Wrote, Inv0
    <3> HIDE DEF seen
    <3>2. LooseGrades(db') = {} \/ Raced({"section.remove", "grade.create"})'
      <4> SUFFICES ASSUME ~Raced({"section.remove", "grade.create"})' PROVE LooseGrades(db') = {} OBVIOUS
      <4>1. /\ ~Raced({"section.remove", "grade.create"})
            /\ r.op \in {"section.remove", "grade.create"} => Accepts(db, r)
        BY <2>2, StillRaced
      <4>2. LooseGrades(db) = {} BY <4>1 DEF TreeUnlessRaced
      <4> HIDE DEF r
      <4> QED BY <3>1, <4>1, <4>2, GradesHold
    <3>3. LooseClasses(db') = {} \/ Raced({"grade.remove", "class.create"})'
      <4> SUFFICES ASSUME ~Raced({"grade.remove", "class.create"})' PROVE LooseClasses(db') = {} OBVIOUS
      <4>1. /\ ~Raced({"grade.remove", "class.create"})
            /\ r.op \in {"grade.remove", "class.create"} => Accepts(db, r)
        BY <2>2, StillRaced
      <4>2. LooseClasses(db) = {} BY <4>1 DEF TreeUnlessRaced
      <4> HIDE DEF r
      <4> QED BY <3>1, <4>1, <4>2, ClassesHold
    <3>4. LooseStaff(db') = {} \/ Raced({"department.remove", "staff.create", "staff.update"})'
      <4> SUFFICES ASSUME ~Raced({"department.remove", "staff.create", "staff.update"})'
                   PROVE  LooseStaff(db') = {}
        OBVIOUS
      <4>1. /\ ~Raced({"department.remove", "staff.create", "staff.update"})
            /\ r.op \in {"department.remove", "staff.create", "staff.update"} => Accepts(db, r)
        BY <2>2, StillRaced
      <4>2. LooseStaff(db) = {} BY <4>1 DEF TreeUnlessRaced
      <4> HIDE DEF r
      <4> QED BY <3>1, <4>1, <4>2, StaffHold
    <3> QED BY <3>2, <3>3, <3>4 DEF TreeUnlessRaced
  <2> QED BY <2>1, <2>2, StepCases
<1> QED BY <1>1, <1>2, Inv0Holds, PTL DEF Spec

(* Nobody who was deleted still heads a department, has a class or lessons, *)
(* and no child is linked to a deleted guardian, unless the deletion or the *)
(* request that gave them was overtaken.                                   *)
THEOREM NobodyGoneHolds == Spec => []NobodyGoneIsNeeded
<1>1. Init => NobodyGoneIsNeeded BY SchoolAssumption DEF Init, NobodyGoneIsNeeded
<1>2. Inv0 /\ NobodyGoneIsNeeded /\ [Next]_vars => NobodyGoneIsNeeded'
  <2> SUFFICES ASSUME Inv0, NobodyGoneIsNeeded, [Next]_vars PROVE NobodyGoneIsNeeded' OBVIOUS
  <2>1. CASE UNCHANGED <<db, overtaken>> BY <2>1 DEF NobodyGoneIsNeeded, Raced
  <2>2. ASSUME NEW c \in Clients, Wrote(c) PROVE NobodyGoneIsNeeded'
    <3> DEFINE r == held[c].req
               seen == held[c].seen
    <3>1. /\ r \in Requests /\ Formed(db) /\ DOMAIN db.staff \subseteq Teachers
          /\ db' = Written(db, r, seen)
      BY <2>2 DEF Wrote, Inv0
    <3> HIDE DEF seen
    <3>2. ASSUME NEW t \in Gone(db'), ~Raced({"staff.remove", "department.create", "department.update"})'
          PROVE  Heads(db', t) = {}
      <4>1. /\ ~Raced({"staff.remove", "department.create", "department.update"})
            /\ r.op \in {"staff.remove", "department.create", "department.update"} => Accepts(db, r)
        BY <2>2, <3>2, StillRaced
      <4>2. \A x \in Gone(db) : Heads(db, x) = {} BY <4>1 DEF NobodyGoneIsNeeded
      <4> HIDE DEF r
      <4> QED BY <3>1, <3>2, <4>1, <4>2, HeadsHold
    <3>3. ASSUME NEW t \in Gone(db'), ~Raced({"staff.remove", "class.teacher"})'
          PROVE  TeacherOf(db', t) = {}
      <4>1. /\ ~Raced({"staff.remove", "class.teacher"})
            /\ r.op \in {"staff.remove", "class.teacher"} => Accepts(db, r)
        BY <2>2, <3>3, StillRaced
      <4>2. \A x \in Gone(db) : TeacherOf(db, x) = {} BY <4>1 DEF NobodyGoneIsNeeded
      <4> HIDE DEF r
      <4> QED BY <3>1, <3>3, <4>1, <4>2, ClassTeachersHold
    <3>4. ASSUME NEW t \in Gone(db'), ~Raced({"staff.remove", "assignment.create"})'
          PROVE  Teaches(db', t) = {}
      <4>1. /\ ~Raced({"staff.remove", "assignment.create"})
            /\ r.op \in {"staff.remove", "assignment.create"} => Accepts(db, r)
        BY <2>2, <3>4, StillRaced
      <4>2. \A x \in Gone(db) : Teaches(db, x) = {} BY <4>1 DEF NobodyGoneIsNeeded
      <4> HIDE DEF r
      <4> QED BY <3>1, <3>4, <4>1, <4>2, LessonsHold
    <3>5. LooseLinks(db') = {} \/ Raced({"guardian.remove", "guardian.link"})'
      <4> SUFFICES ASSUME ~Raced({"guardian.remove", "guardian.link"})' PROVE LooseLinks(db') = {} OBVIOUS
      <4>1. /\ ~Raced({"guardian.remove", "guardian.link"})
            /\ r.op \in {"guardian.remove", "guardian.link"} => Accepts(db, r)
        BY <2>2, StillRaced
      <4>2. LooseLinks(db) = {} BY <4>1 DEF NobodyGoneIsNeeded
      <4> HIDE DEF r
      <4> QED BY <3>1, <4>1, <4>2, LinksHold
    <3> QED BY <3>2, <3>3, <3>4, <3>5 DEF NobodyGoneIsNeeded
  <2> QED BY <2>1, <2>2, StepCases
<1> QED BY <1>1, <1>2, Inv0Holds, PTL DEF Spec
-----------------------------------------------------------------------------
(* Keys and requests in flight.  A class that is being created has a key no *)
(* row has, and a request for an enrolment names a class that was there when *)
(* it was checked: so if that class is there at all, it is the one checked. *)

Serves(c, op) == held[c] # Idle /\ held[c].req.op = op
Enrolling(c) ==
    Serves(c, "enrolment.create") \/ (Serves(c, "enrolment.update") /\ held[c].req.class # Null)

NewClassesAreNew ==
    \A c \in Clients : Serves(c, "class.create") =>
        /\ held[c].req.id \in made \ DOMAIN db.class
        /\ \A b \in Clients : Serves(b, "class.create") /\ held[b].req.id = held[c].req.id => b = c
NamedClassesAreKnown ==
    \A c \in Clients : Enrolling(c) =>
        /\ held[c].req.class \in made
        /\ held[c].req.class \in DOMAIN db.class => db.class[held[c].req.class].year = held[c].req.id[2]
        /\ \A b \in Clients : Serves(b, "class.create") => held[b].req.id # held[c].req.class
NewTermsInOrder ==
    \A c \in Clients : Serves(c, "year.create") \/ Serves(c, "year.terms") => InOrder(held[c].req.terms)
PupilsExist ==
    /\ \A n \in DOMAIN db.enrolment : n[1] \in DOMAIN db.student
    /\ \A c \in Clients : Serves(c, "enrolment.create") => held[c].req.id[1] \in DOMAIN db.student

Keyed ==
    /\ DOMAIN db.class \subseteq made /\ OfItsYear(db)
    /\ NewClassesAreNew /\ NamedClassesAreKnown /\ NewTermsInOrder /\ PupilsExist

LEMMA KeyedInit ==
  ASSUME Init
  PROVE  Keyed
<1>1. \A c \in Clients : held[c] = Idle BY DEF Init
<1>2. DOMAIN db.class \subseteq made BY DEF Init
<1>3. OfItsYear(db) BY SchoolAssumption, NoneDrifted DEF Init
<1>4. \A n \in DOMAIN db.enrolment : n[1] \in DOMAIN db.student BY SchoolAssumption DEF Init
<1> QED
  BY <1>1, <1>2, <1>3, <1>4
  DEF Keyed, NewClassesAreNew, NamedClassesAreKnown, NewTermsInOrder, PupilsExist, Serves, Enrolling

(* The request that gets past its checks. *)
LEMMA KeyedCheck ==
  ASSUME Inv0, Keyed, NEW c \in Clients, Check(c)
  PROVE  Keyed'
<1>1. PICK r \in Requests : /\ Accepts(db, r) /\ FreshKey(r) \cap made = {}
                            /\ made' = made \cup FreshKey(r)
                            /\ held' = [held EXCEPT ![c] = [req |-> r, seen |-> Seen(db, r),
                                                            open |-> r.op \notin Transactional]]
  BY DEF Check
<1>2. db' = db BY DEF Check
<1>3. /\ held'[c].req = r
      /\ \A x \in Clients : x # c => held'[x] = held[x]
  BY <1>1 DEF Inv0, Serving
<1>4. r.op = "class.create" => r.id \notin made /\ r.id \in made' BY <1>1 DEF FreshKey
<1>5. ASSUME r.op = "enrolment.create" \/ (r.op = "enrolment.update" /\ r.class # Null)
      PROVE  r.class \in DOMAIN db.class /\ db.class[r.class].year = r.id[2]
  <2>1. CASE r.op = "enrolment.create" BY <1>1, <2>1 DEF Accepts, MayEnrol, Live
  <2>2. CASE r.op = "enrolment.update" /\ r.class # Null
    <3>1. MayUpdateEnrolment(db, r) BY <1>1, <2>2 DEF Accepts
    <3>2. CASE Moves(r, db.enrolment[r.id].class) BY <3>1, <3>2 DEF MayUpdateEnrolment, Live
    <3>3. CASE ~Moves(r, db.enrolment[r.id].class)
      <4>1. r.class = db.enrolment[r.id].class /\ r.id \in DOMAIN db.enrolment
        BY <2>2, <3>1, <3>3 DEF Moves, MayUpdateEnrolment
      <4> QED BY <4>1 DEF Keyed, OfItsYear
    <3> QED BY <3>2, <3>3
  <2> QED BY <1>5, <2>1, <2>2
<1>6. made \subseteq made' BY <1>1
<1>7. NewClassesAreNew'
  <2> SUFFICES ASSUME NEW x \in Clients, Serves(x, "class.create")'
               PROVE  /\ held'[x].req.id \in made' \ DOMAIN db.class
                      /\ \A b \in Clients :
                             Serves(b, "class.create")' /\ held'[b].req.id = held'[x].req.id => b = x
    BY <1>2 DEF NewClassesAreNew
  <2>1. \A b \in Clients : Serves(b, "class.create")' =>
            \/ b = c /\ held'[b].req.id \notin made
            \/ b # c /\ Serves(b, "class.create") /\ held'[b] = held[b] /\ held'[b].req.id \in made
    BY <1>3, <1>4 DEF Serves, Keyed, NewClassesAreNew
  <2>2. held'[x].req.id \in made' \ DOMAIN db.class
    BY <1>3, <1>4, <1>6, <2>1 DEF Keyed, NewClassesAreNew, Serves
  <2>3. ASSUME NEW b \in Clients, Serves(b, "class.create")', held'[b].req.id = held'[x].req.id
        PROVE  b = x
    BY <2>1, <2>3 DEF Keyed, NewClassesAreNew
  <2> QED BY <2>2, <2>3
<1>8. NamedClassesAreKnown'
  <2> SUFFICES ASSUME NEW x \in Clients, Enrolling(x)'
               PROVE  /\ held'[x].req.class \in made'
                      /\ held'[x].req.class \in DOMAIN db.class =>
                             db.class[held'[x].req.class].year = held'[x].req.id[2]
                      /\ \A b \in Clients : Serves(b, "class.create")' => held'[b].req.id # held'[x].req.class
    BY <1>2 DEF NamedClassesAreKnown
  <2>1. CASE x = c
    <3>1. /\ held'[x].req = r /\ r.class \in DOMAIN db.class /\ db.class[r.class].year = r.id[2]
          /\ r.op # "class.create"
      BY <1>3, <1>5, <2>1 DEF Enrolling, Serves
    <3>2. ASSUME NEW b \in Clients, Serves(b, "class.create")' PROVE held'[b].req.id # r.class
      <4>1. b # c BY <2>1, <3>1, <3>2 DEF Serves
      <4>2. Serves(b, "class.create") /\ held'[b] = held[b] BY <1>3, <3>2, <4>1 DEF Serves
      <4> QED BY <3>1, <4>2 DEF Keyed, NewClassesAreNew
    <3> QED BY <1>6, <3>1, <3>2 DEF Keyed
  <2>2. CASE x # c
    <3>1. Enrolling(x) /\ held'[x] = held[x] BY <1>3, <2>2 DEF Enrolling, Serves
    <3>2. /\ held[x].req.class \in made
          /\ held[x].req.class \in DOMAIN db.class => db.class[held[x].req.class].year = held[x].req.id[2]
      BY <3>1 DEF Keyed, NamedClassesAreKnown
    <3>3. ASSUME NEW b \in Clients, Serves(b, "class.create")' PROVE held'[b].req.id # held[x].req.class
      <4>1. CASE b = c BY <1>3, <1>4, <3>2, <3>3, <4>1 DEF Serves
      <4>2. CASE b # c
        <5>1. Serves(b, "class.create") /\ held'[b] = held[b] BY <1>3, <3>3, <4>2 DEF Serves
        <5> QED BY <3>1, <5>1 DEF Keyed, NamedClassesAreKnown
      <4> QED BY <4>1, <4>2
    <3> QED BY <1>6, <3>1, <3>2, <3>3
  <2> QED BY <2>1, <2>2
<1>9. NewTermsInOrder'
  <2>1. r.op \in {"year.create", "year.terms"} => InOrder(r.terms)
    BY <1>1 DEF Accepts, MayReplaceTerms, MayCreateYear
  <2> QED BY <1>3, <2>1 DEF Keyed, NewTermsInOrder, Serves
<1>10. PupilsExist'
  <2>1. r.op = "enrolment.create" => r.id[1] \in DOMAIN db.student BY <1>1 DEF Accepts, MayEnrol, Live
  <2> QED BY <1>2, <1>3, <2>1 DEF Keyed, PupilsExist, Serves
<1> QED BY <1>2, <1>6, <1>7, <1>8, <1>9, <1>10 DEF Keyed

(* A step after the checks: no request is new. *)
LEMMA KeyedServed ==
  ASSUME Keyed, db' = db, made' = made,
         \A x \in Clients : held'[x] = Idle \/ (held[x] # Idle /\ held'[x].req = held[x].req)
  PROVE  Keyed'
<1>1. \A x \in Clients :
          /\ Serves(x, "class.create")' => Serves(x, "class.create") /\ held'[x].req = held[x].req
          /\ Serves(x, "enrolment.create")' => Serves(x, "enrolment.create") /\ held'[x].req = held[x].req
          /\ Serves(x, "enrolment.update")' => Serves(x, "enrolment.update") /\ held'[x].req = held[x].req
          /\ Serves(x, "year.create")' => Serves(x, "year.create") /\ held'[x].req = held[x].req
          /\ Serves(x, "year.terms")' => Serves(x, "year.terms") /\ held'[x].req = held[x].req
  BY DEF Serves
<1>2. \A x \in Clients : Enrolling(x)' => Enrolling(x) /\ held'[x].req = held[x].req
  BY <1>1 DEF Enrolling
<1>3. NewClassesAreNew' BY <1>1 DEF Keyed, NewClassesAreNew
<1>4. NamedClassesAreKnown' BY <1>1, <1>2 DEF Keyed, NamedClassesAreKnown
<1>5. NewTermsInOrder' BY <1>1 DEF Keyed, NewTermsInOrder
<1>6. PupilsExist' BY <1>1 DEF Keyed, PupilsExist
<1>7. OfItsYear(db') BY DEF Keyed
<1> QED BY <1>3, <1>4, <1>5, <1>6, <1>7 DEF Keyed

LEMMA WroteNamed ==
  ASSUME Keyed, NEW c \in Clients, Write(c)
  PROVE  /\ NamesItsYear(db, held[c].req)
         /\ held[c].req.op \in {"year.create", "year.terms"} => InOrder(held[c].req.terms)
<1>1. \A op : held[c].req.op = op => Serves(c, op) BY DEF Serves, Write
<1> QED BY <1>1 DEF Keyed, NamesItsYear, NewClassesAreNew, NamedClassesAreKnown, NewTermsInOrder, Enrolling

LEMMA KeyedWrote ==
  ASSUME Inv0, Keyed, NEW c \in Clients, Write(c), Wrote(c)
  PROVE  Keyed'
<1> DEFINE r == held[c].req
           seen == held[c].seen
<1>1. /\ r \in Requests /\ Formed(db) /\ Admits(db, r, seen) /\ db' = Written(db, r, seen)
  BY DEF Wrote, Inv0
<1>2. made' = made BY DEF Write
<1>3. /\ held'[c] = Idle
      /\ \A x \in Clients : x # c => held'[x] = held[x]
  BY DEF Write, Inv0, Serving
<1>4. NamesItsYear(db, r) BY WroteNamed
<1>5. \A x \in Clients :
          /\ Serves(x, "class.create")' => x # c /\ Serves(x, "class.create") /\ held'[x] = held[x]
          /\ Serves(x, "enrolment.create")' => x # c /\ Serves(x, "enrolment.create") /\ held'[x] = held[x]
          /\ Serves(x, "enrolment.update")' => x # c /\ Serves(x, "enrolment.update") /\ held'[x] = held[x]
          /\ Serves(x, "year.create")' => x # c /\ Serves(x, "year.create") /\ held'[x] = held[x]
          /\ Serves(x, "year.terms")' => x # c /\ Serves(x, "year.terms") /\ held'[x] = held[x]
  BY <1>3 DEF Serves
<1>6. \A x \in Clients : Enrolling(x)' => x # c /\ Enrolling(x) /\ held'[x] = held[x]
  BY <1>5 DEF Enrolling
<1>7. /\ r.op = "class.create" => Serves(c, "class.create")
      /\ r.op = "enrolment.create" => Serves(c, "enrolment.create")
  BY DEF Serves, Write
<1> HIDE DEF seen
<1>8. /\ \A k \in DOMAIN db.class : k \in DOMAIN db'.class => db'.class[k].year = db.class[k].year
      /\ \A k \in DOMAIN db'.class : k \in DOMAIN db.class \/ (r.op = "class.create" /\ k = r.id)
  <2> DEFINE d == db
             e == Written(db, r, seen)
  <2>1. /\ \A k \in DOMAIN d.class : (r.op = "class.create" => k # r.id) =>
               \/ k \in DOMAIN e.class /\ e.class[k].year = d.class[k].year
               \/ k \notin DOMAIN e.class
        /\ \A k \in DOMAIN e.class : k \in DOMAIN d.class \/ (r.op = "class.create" /\ k = r.id)
    BY <1>1, ClassRows
  <2> QED BY <1>1, <1>4, <2>1 DEF NamesItsYear
<1>9. DOMAIN db'.class \subseteq made' BY <1>2, <1>7, <1>8 DEF Keyed, NewClassesAreNew
<1>10. OfItsYear(db') BY <1>1, <1>4, YearsHold DEF Keyed
<1>11. NewClassesAreNew'
  <2> SUFFICES ASSUME NEW x \in Clients, Serves(x, "class.create")'
               PROVE  /\ held'[x].req.id \in made \ DOMAIN db'.class
                      /\ \A b \in Clients :
                             Serves(b, "class.create")' /\ held'[b].req.id = held'[x].req.id => b = x
    BY <1>2 DEF NewClassesAreNew
  <2>1. /\ x # c /\ Serves(x, "class.create") /\ held'[x] = held[x] BY <1>5
  <2>2. r.op = "class.create" => held[x].req.id # r.id BY <1>7, <2>1 DEF Keyed, NewClassesAreNew
  <2>3. held[x].req.id \in made \ DOMAIN db'.class BY <1>8, <2>1, <2>2 DEF Keyed, NewClassesAreNew
  <2>4. ASSUME NEW b \in Clients, Serves(b, "class.create")', held'[b].req.id = held'[x].req.id PROVE b = x
    BY <1>5, <2>1, <2>4 DEF Keyed, NewClassesAreNew
  <2> QED BY <2>1, <2>3, <2>4
<1>12. NamedClassesAreKnown'
  <2> SUFFICES ASSUME NEW x \in Clients, Enrolling(x)'
               PROVE  /\ held'[x].req.class \in made
                      /\ held'[x].req.class \in DOMAIN db'.class =>
                             db'.class[held'[x].req.class].year = held'[x].req.id[2]
                      /\ \A b \in Clients : Serves(b, "class.create")' => held'[b].req.id # held'[x].req.class
    BY <1>2 DEF NamedClassesAreKnown
  <2>1. Enrolling(x) /\ held'[x] = held[x] BY <1>6
  <2>2. /\ held[x].req.class \in made
        /\ held[x].req.class \in DOMAIN db.class => db.class[held[x].req.class].year = held[x].req.id[2]
        /\ \A b \in Clients : Serves(b, "class.create") => held[b].req.id # held[x].req.class
    BY <2>1 DEF Keyed, NamedClassesAreKnown
  <2>3. r.op = "class.create" => held[x].req.class # r.id BY <1>7, <2>2
  <2> QED BY <1>5, <1>8, <2>1, <2>2, <2>3
<1>13. NewTermsInOrder' BY <1>5 DEF Keyed, NewTermsInOrder
<1>14. PupilsExist'
  <2> DEFINE d == db
             e == Written(db, r, seen)
  <2>1. DOMAIN d.student \subseteq DOMAIN e.student BY <1>1, StudentsStay
  <2>2. \A n \in DOMAIN e.enrolment : n \in DOMAIN d.enrolment \/ (r.op = "enrolment.create" /\ n = r.id)
    BY <1>1, EnrolmentRows DEF Enrols, Alters
  <2>3. \A n \in DOMAIN e.enrolment : n[1] \in DOMAIN d.student BY <1>7, <2>2 DEF Keyed, PupilsExist
  <2> QED BY <1>1, <1>5, <2>1, <2>3 DEF Keyed, PupilsExist
<1> QED BY <1>9, <1>10, <1>11, <1>12, <1>13, <1>14 DEF Keyed

LEMMA KeyedStep ==
  ASSUME Inv0, Keyed, [Next]_vars
  PROVE  Keyed'
<1>1. CASE UNCHANGED vars
  BY <1>1, KeyedServed DEF vars
<1>2. ASSUME NEW c \in Clients, Check(c) PROVE Keyed' BY <1>2, KeyedCheck
<1>3. ASSUME NEW c \in Clients, Statement(c) PROVE Keyed'
  <2> DEFINE h == [held[c] EXCEPT !.seen = Seen(db, held[c].req), !.open = TRUE]
  <2>1. held' = [held EXCEPT ![c] = h] /\ held[c] # Idle BY <1>3 DEF Statement
  <2>2. h.req = held[c].req BY DEF Inv0, Serving
  <2> HIDE DEF h
  <2>3. \A x \in Clients : held'[x] = Idle \/ (held[x] # Idle /\ held'[x].req = held[x].req)
    BY <2>1, <2>2 DEF Inv0, Serving
  <2>4. db' = db /\ made' = made BY <1>3 DEF Statement
  <2> QED BY <2>3, <2>4, KeyedServed
<1>4. ASSUME NEW c \in Clients, Write(c) PROVE Keyed'
  <2>1. held[c].req \in Requests BY <1>4 DEF Inv0, Serving, Write
  <2>2. CASE Admits(db, held[c].req, held[c].seen)
    <3>1. /\ db' = Written(db, held[c].req, held[c].seen)
          /\ overtaken' = IF Overtaken(c) THEN overtaken \cup {held[c].req.op} ELSE overtaken
      BY <1>4, <2>2 DEF Write
    <3>2. Wrote(c) BY <2>1, <2>2, <3>1 DEF Wrote, Overtaken
    <3> QED BY <1>4, <3>2, KeyedWrote
  <2>3. CASE ~Admits(db, held[c].req, held[c].seen)
    <3>1. db' = db /\ made' = made BY <1>4, <2>3 DEF Write
    <3>2. \A x \in Clients : held'[x] = Idle \/ (held[x] # Idle /\ held'[x].req = held[x].req)
      <4>1. held' = [held EXCEPT ![c] = Idle] BY <1>4 DEF Write
      <4> QED BY <4>1 DEF Inv0, Serving
    <3> QED BY <3>1, <3>2, KeyedServed
  <2> QED BY <2>2, <2>3
<1> QED BY <1>1, <1>2, <1>3, <1>4 DEF Next

LEMMA KeyedHolds == Spec => []Keyed
<1>1. Init => Keyed BY KeyedInit
<1>2. Inv0 /\ Keyed /\ [Next]_vars => Keyed' BY KeyedStep
<1> QED BY <1>1, <1>2, Inv0Holds, PTL DEF Spec


(* An enrolment's campus and year are those of its class, unless a change  *)
(* of the enrolment had read a class it no longer was in.                  *)
THEOREM EnrolmentsFollow == Spec => []EnrolmentsFollowTheirClass
<1>1. Init => EnrolmentsFollowTheirClass BY SchoolAssumption DEF Init, EnrolmentsFollowTheirClass
<1>2. Inv0 /\ Keyed /\ EnrolmentsFollowTheirClass /\ [Next]_vars /\ Keyed' => EnrolmentsFollowTheirClass'
  <2> SUFFICES ASSUME Inv0, Keyed, EnrolmentsFollowTheirClass, [Next]_vars, Keyed',
                      ~Raced({"enrolment.update"})'
               PROVE  Drifted(db') = {}
    BY DEF EnrolmentsFollowTheirClass
  <2>1. CASE UNCHANGED <<db, overtaken>> BY <2>1 DEF EnrolmentsFollowTheirClass, Raced
  <2>2. ASSUME NEW c \in Clients, Write(c), Wrote(c) PROVE Drifted(db') = {}
    <3> DEFINE r == held[c].req
               seen == held[c].seen
    <3>1. /\ r \in Requests /\ Formed(db) /\ Admits(db, r, seen) /\ db' = Written(db, r, seen)
      BY <2>2 DEF Wrote, Inv0
    <3>2. /\ ~Raced({"enrolment.update"})
          /\ r.op = "enrolment.update" => Accepts(db, r) /\ Seen(db, r) = seen
      BY <2>2, StillRaced
    <3>3. OfItsYear(db) /\ OfItsSite(db) BY <3>2, NoneDrifted DEF EnrolmentsFollowTheirClass
    <3>4. NamesItsYear(db, r) BY <2>2, WroteNamed
    <3> HIDE DEF r, seen
    <3>5. OfItsYear(db') /\ OfItsSite(db') BY <3>1, <3>2, <3>3, <3>4, YearsHold, SitesHold
    <3> QED BY <3>5, NoneDrifted
  <2> QED BY <2>1, <2>2, StepCases
<1> QED BY <1>1, <1>2, Inv0Holds, KeyedHolds, PTL DEF Spec

Singles ==
    /\ OneMain(db) \/ Raced({"campus.promote", "campus.remove"})
    /\ OneCurrent(db) \/ Raced({"year.create", "year.setCurrent"})
    /\ OnePrimary(db) \/ Raced({"guardian.link", "guardian.createAndLink"})
    /\ TermsInOrder(db)

LEMMA AtMostOne ==
  ASSUME NEW S, \A x, y \in S : x = y
  PROVE  Cardinality(S) <= 1
<1>1. CASE S = {} BY <1>1, FS_EmptySet
<1>2. ASSUME NEW x \in S PROVE Cardinality(S) <= 1
  <2>1. S = {x} BY <1>2
  <2> QED BY <2>1, FS_Singleton
<1> QED BY <1>1, <1>2

LEMMA SinglesSuffice ==
  ASSUME Singles
  PROVE  SingletonsUnlessRaced
<1>1. OneMain(db) => Cardinality(MainCampuses(db) \cap LiveCampuses(db)) = 1
  BY FS_Singleton DEF OneMain
<1>2. OneCurrent(db) => Cardinality(CurrentYears(db)) <= 1
  <2> SUFFICES ASSUME OneCurrent(db) PROVE Cardinality(CurrentYears(db)) <= 1 OBVIOUS
  <2>1. \A x, y \in CurrentYears(db) : x = y BY DEF OneCurrent, CurrentYears
  <2> QED BY <2>1, AtMostOne
<1>3. ASSUME OnePrimary(db), NEW s PROVE Cardinality(PrimaryLinks(db, s)) <= 1
  <2>1. \A l, m \in PrimaryLinks(db, s) : l = m BY <1>3 DEF OnePrimary, PrimaryLinks, LinksOf
  <2> QED BY <2>1, AtMostOne
<1> QED BY <1>1, <1>2, <1>3 DEF Singles, SingletonsUnlessRaced, TermsInOrder

LEMMA SinglesStep ==
  ASSUME Inv0, Keyed, Singles, [Next]_vars
  PROVE  Singles'
<1>1. CASE UNCHANGED <<db, overtaken>> BY <1>1 DEF Singles, Raced
<1>2. ASSUME NEW c \in Clients, Write(c), Wrote(c) PROVE Singles'
  <2> DEFINE r == held[c].req
             seen == held[c].seen
  <2>1. r \in Requests /\ Formed(db) /\ Admits(db, r, seen) /\ db' = Written(db, r, seen)
    BY <1>2 DEF Wrote, Inv0
  <2>2. r.op \in {"year.create", "year.terms"} => InOrder(r.terms) BY <1>2, WroteNamed
  <2> HIDE DEF seen
  <2>3. OneMain(db') \/ Raced({"campus.promote", "campus.remove"})'
    <3> SUFFICES ASSUME ~Raced({"campus.promote", "campus.remove"})' PROVE OneMain(db') OBVIOUS
    <3>1. /\ ~Raced({"campus.promote", "campus.remove"})
          /\ r.op \in {"campus.promote", "campus.remove"} => Accepts(db, r) /\ Seen(db, r) = seen
      BY <1>2, StillRaced DEF seen
    <3>2. OneMain(db) BY <3>1 DEF Singles
    <3> HIDE DEF r
    <3> QED BY <2>1, <3>1, <3>2, MainCampusHolds
  <2>4. OneCurrent(db') \/ Raced({"year.create", "year.setCurrent"})'
    <3> SUFFICES ASSUME ~Raced({"year.create", "year.setCurrent"})' PROVE OneCurrent(db') OBVIOUS
    <3>1. /\ ~Raced({"year.create", "year.setCurrent"})
          /\ r.op \in {"year.create", "year.setCurrent"} => Accepts(db, r) /\ Seen(db, r) = seen
      BY <1>2, StillRaced DEF seen
    <3>2. OneCurrent(db) BY <3>1 DEF Singles
    <3> HIDE DEF r
    <3> QED BY <2>1, <3>1, <3>2, CurrentYearHolds
  <2>5. OnePrimary(db') \/ Raced({"guardian.link", "guardian.createAndLink"})'
    <3> SUFFICES ASSUME ~Raced({"guardian.link", "guardian.createAndLink"})' PROVE OnePrimary(db') OBVIOUS
    <3>1. /\ ~Raced({"guardian.link", "guardian.createAndLink"})
          /\ r.op \in {"guardian.link", "guardian.createAndLink"} => Accepts(db, r) /\ Seen(db, r) = seen
      BY <1>2, StillRaced DEF seen
    <3>2. OnePrimary(db) BY <3>1 DEF Singles
    <3> HIDE DEF r
    <3> QED BY <2>1, <3>1, <3>2, PrimaryLinkHolds
  <2>6. TermsInOrder(db')
    <3> HIDE DEF r
    <3> QED BY <2>1, <2>2, TermsHold DEF Singles
  <2> QED BY <2>3, <2>4, <2>5, <2>6 DEF Singles
<1> QED BY <1>1, <1>2, StepCases

(* One main campus, one current year and one primary guardian, as long as  *)
(* no two clearing requests missed each other; terms in order always.      *)
THEOREM SingletonsHold == Spec => []SingletonsUnlessRaced
<1>1. Init => Singles
  <2> SUFFICES ASSUME Init PROVE Singles OBVIOUS
  <2>1. db = School BY DEF Init
  <2>2. OneMain(db) BY <2>1, SchoolAssumption DEF OneMain
  <2>3. OneCurrent(db) BY <2>1, SchoolAssumption DEF OneCurrent, CurrentYears
  <2>4. OnePrimary(db) /\ TermsInOrder(db) BY <2>1, SchoolAssumption DEF OnePrimary, TermsInOrder
  <2> QED BY <2>2, <2>3, <2>4 DEF Singles
<1>2. Inv0 /\ Keyed /\ Singles /\ [Next]_vars => Singles' BY SinglesStep
<1>3. Singles => SingletonsUnlessRaced BY SinglesSuffice
<1> QED BY <1>1, <1>2, <1>3, Inv0Holds, KeyedHolds, PTL DEF Spec
-----------------------------------------------------------------------------
(* What the school's history loses. *)

(* A row of d that is not in e any more. *)
Leaves(d, e, t, k) == k \in DOMAIN d[t] /\ k \notin DOMAIN e[t]
MarksFollow(d, e) ==
    \A n \in DOMAIN d.attendance :
        n \in DOMAIN e.attendance \/ Leaves(d, e, "enrolment", n) \/ Leaves(d, e, "class", d.attendance[n])
ScoresFollow(d, e) ==
    \A k \in DOMAIN d.score :
        k \in DOMAIN e.score \/ Leaves(d, e, "assessment", k[1]) \/ Leaves(d, e, "enrolment", k[2])

LEMMA DropSubjectsTakes ==
  ASSUME NEW d, DOMAIN d = Tables, NEW S
  PROVE  LET e == DropSubjects(d, S) IN
         /\ ScoresFollow(d, e)
         /\ \A a \in DOMAIN d.assessment : a \in DOMAIN e.assessment \/ d.assessment[a].subject \in S
<1> DEFINE A == Keys(d.assessment, LAMBDA a : a.subject \in S)
           f == DropAssessments(d, A)
           e == DropSubjects(d, S)
<1>1. A = {a \in DOMAIN d.assessment : d.assessment[a].subject \in S} BY DEF Keys
<1>2. e = [f EXCEPT !.subject = Without(@, S),
                    !.taught = {l \in @ : l[2] \notin S},
                    !.assignment = {t \in @ : t[3] \notin S}]
  BY DEF DropSubjects
<1> HIDE DEF A
<1>3. /\ Changes(d, f, {"assessment", "score"})
      /\ f.assessment = Without(d.assessment, A)
      /\ \A k \in DOMAIN d.score : k[1] \notin A => k \in DOMAIN f.score
  BY DropAssessmentsChanges
<1> HIDE DEF e, f
<1>4. e.assessment = f.assessment /\ e.score = f.score BY <1>2, <1>3 DEF Changes, Tables
<1>5. ScoresFollow(d, e) BY <1>1, <1>3, <1>4 DEF ScoresFollow, Leaves, Without
<1>6. \A a \in DOMAIN d.assessment : a \in DOMAIN e.assessment \/ d.assessment[a].subject \in S
  BY <1>1, <1>3, <1>4 DEF Without
<1> QED BY <1>5, <1>6 DEF e

LEMMA DropCurriculumTakes ==
  ASSUME NEW d, DOMAIN d = Tables, NEW c
  PROVE  LET e == DropCurriculum(d, c) IN
         /\ ScoresFollow(d, e)
         /\ \A a \in DOMAIN d.assessment :
                a \in DOMAIN e.assessment \/ d.subject[d.assessment[a].subject].curriculum = c
<1> DEFINE S == Keys(d.subject, LAMBDA s : s.curriculum = c)
           f == DropSubjects(d, S)
           e == DropCurriculum(d, c)
<1>1. S = {s \in DOMAIN d.subject : d.subject[s].curriculum = c} BY DEF Keys
<1>2. e = [f EXCEPT !.curriculum = @ \ {c},
                    !.section = [s \in DOMAIN @ |-> IF @[s].curriculum = c
                                                    THEN [@[s] EXCEPT !.curriculum = Null] ELSE @[s]]]
  BY DEF DropCurriculum
<1> HIDE DEF S
<1>3. /\ ScoresFollow(d, f)
      /\ \A a \in DOMAIN d.assessment : a \in DOMAIN f.assessment \/ d.assessment[a].subject \in S
  BY DropSubjectsTakes
<1>4. DOMAIN f = Tables BY DropSubjectsChanges DEF Changes
<1> HIDE DEF e, f
<1>5. e.assessment = f.assessment /\ e.score = f.score /\ e.enrolment = f.enrolment
  BY <1>2, <1>4 DEF Tables
<1>6. ScoresFollow(d, e) BY <1>3, <1>5 DEF ScoresFollow, Leaves
<1>7. \A a \in DOMAIN d.assessment :
          a \in DOMAIN e.assessment \/ d.subject[d.assessment[a].subject].curriculum = c
  BY <1>1, <1>3, <1>5
<1> QED BY <1>6, <1>7 DEF e

LEMMA DropEnrolmentsTakes ==
  ASSUME NEW d, DOMAIN d = Tables, NEW S, S \subseteq DOMAIN d.enrolment
  PROVE  LET e == DropEnrolments(d, S) IN
         MarksFollow(d, e) /\ ScoresFollow(d, e) /\ e.assessment = d.assessment
<1> DEFINE e == DropEnrolments(d, S)
<1>1. /\ Changes(d, e, {"enrolment", "attendance", "score"})
      /\ e.enrolment = Without(d.enrolment, S) /\ e.attendance = Without(d.attendance, S)
      /\ \A k \in DOMAIN d.score : k[2] \notin S => k \in DOMAIN e.score
  BY DropEnrolmentsChanges
<1> HIDE DEF e
<1>2. \A n \in S : Leaves(d, e, "enrolment", n) BY <1>1 DEF Leaves, Without
<1>3. MarksFollow(d, e) BY <1>1, <1>2 DEF MarksFollow, Without
<1>4. ScoresFollow(d, e) BY <1>1, <1>2 DEF ScoresFollow
<1> QED BY <1>1, <1>3, <1>4 DEF e, Changes, Tables

LEMMA DropClassesTakes ==
  ASSUME NEW d, DOMAIN d = Tables, NEW S, S \subseteq DOMAIN d.class
  PROVE  LET e == DropClasses(d, S) IN
         /\ MarksFollow(d, e) /\ ScoresFollow(d, e)
         /\ \A a \in DOMAIN d.assessment :
                a \in DOMAIN e.assessment \/ Leaves(d, e, "class", d.assessment[a].class)
<1> DEFINE A == Keys(d.assessment, LAMBDA a : a.class \in S)
           N == Keys(d.enrolment, LAMBDA n : n.class \in S)
           f == DropAssessments(d, A)
           g == DropEnrolments(f, N)
           e == DropClasses(d, S)
<1>1. /\ A = {a \in DOMAIN d.assessment : d.assessment[a].class \in S}
      /\ N \subseteq DOMAIN d.enrolment
  BY DEF Keys
<1>2. e = [g EXCEPT !.class = Without(@, S),
                    !.attendance = Without(@, Keys(g.attendance, LAMBDA a : a \in S)),
                    !.assignment = {t \in @ : t[2] \notin S}]
  BY DEF DropClasses
<1> HIDE DEF A, N
<1>3. /\ Changes(d, f, {"assessment", "score"})
      /\ f.assessment = Without(d.assessment, A)
      /\ \A k \in DOMAIN d.score : k[1] \notin A => k \in DOMAIN f.score
  BY DropAssessmentsChanges
<1> HIDE DEF f
<1>4. /\ DOMAIN f = Tables /\ f.enrolment = d.enrolment /\ f.attendance = d.attendance
      /\ f.class = d.class
  BY <1>3 DEF Changes, Tables
<1>5. MarksFollow(f, g) /\ ScoresFollow(f, g) /\ g.assessment = f.assessment
  BY <1>1, <1>4, DropEnrolmentsTakes
<1>6. Changes(f, g, {"enrolment", "attendance", "score"}) BY <1>4, DropEnrolmentsChanges
<1> HIDE DEF e, g
<1>7. /\ e.class = Without(d.class, S) /\ e.assessment = g.assessment
      /\ e.enrolment = g.enrolment /\ e.score = g.score
      /\ e.attendance = Without(g.attendance, Keys(g.attendance, LAMBDA a : a \in S))
  BY <1>2, <1>4, <1>6 DEF Changes, Tables
<1>8. \A k \in S : Leaves(d, e, "class", k) BY <1>7 DEF Leaves, Without
<1>9. \A a \in A : Leaves(d, e, "assessment", a) BY <1>1, <1>3, <1>5, <1>7 DEF Leaves, Without
<1>10. \A n : Leaves(f, g, "enrolment", n) => Leaves(d, e, "enrolment", n) BY <1>4, <1>7 DEF Leaves
<1>11. ASSUME NEW n \in DOMAIN d.attendance, n \notin DOMAIN e.attendance,
              ~Leaves(d, e, "enrolment", n)
       PROVE  Leaves(d, e, "class", d.attendance[n])
  <2>1. n \in DOMAIN g.attendance
    BY <1>4, <1>5, <1>6, <1>10, <1>11 DEF MarksFollow, Leaves, Changes, Tables
  <2>2. g.attendance[n] \in S BY <1>7, <1>11, <2>1 DEF Keys, Without
  <2>3. g.attendance[n] = d.attendance[n]
    <3>1. g.attendance = Without(d.attendance, N) BY <1>4, DropEnrolmentsChanges DEF g
    <3> QED BY <2>1, <3>1 DEF Without
  <2> QED BY <1>8, <2>2, <2>3
<1>12. ASSUME NEW k \in DOMAIN d.score, k \notin DOMAIN e.score, ~Leaves(d, e, "assessment", k[1])
       PROVE  Leaves(d, e, "enrolment", k[2])
  <2>1. k \in DOMAIN f.score BY <1>3, <1>9, <1>12
  <2>2. Leaves(f, g, "enrolment", k[2])
    <3>1. ~Leaves(f, g, "assessment", k[1]) BY <1>5 DEF Leaves
    <3> QED BY <1>5, <1>7, <1>12, <2>1, <3>1 DEF ScoresFollow
  <2> QED BY <1>10, <2>2
<1>13. \A a \in DOMAIN d.assessment :
           a \in DOMAIN e.assessment \/ Leaves(d, e, "class", d.assessment[a].class)
  BY <1>1, <1>3, <1>5, <1>7, <1>8 DEF Without
<1>14. MarksFollow(d, e) BY <1>11 DEF MarksFollow
<1>15. ScoresFollow(d, e) BY <1>12 DEF ScoresFollow
<1> QED BY <1>13, <1>14, <1>15 DEF e

LEMMA DropYearTakes ==
  ASSUME NEW d, DOMAIN d = Tables, NEW y
  PROVE  LET e == DropYear(d, y) IN
         /\ MarksFollow(d, e) /\ ScoresFollow(d, e)
         /\ \A a \in DOMAIN d.assessment :
                a \in DOMAIN e.assessment \/ Leaves(d, e, "class", d.assessment[a].class)
<1> DEFINE S == ClassesIn(d, y)
           f == DropClasses(d, S)
           M == {n \in DOMAIN d.enrolment : n[2] = y}
           g == DropEnrolments(f, M)
           e == DropYear(d, y)
<1>1. e = [g EXCEPT !.year = Without(@, {y})] BY DEF DropYear, Keys, ClassesIn
<1>2. S \subseteq DOMAIN d.class BY DEF ClassesIn
<1> HIDE DEF S, M
<1>3. /\ MarksFollow(d, f) /\ ScoresFollow(d, f)
      /\ \A a \in DOMAIN d.assessment :
             a \in DOMAIN f.assessment \/ Leaves(d, f, "class", d.assessment[a].class)
  BY <1>2, DropClassesTakes
<1>4. /\ Changes(d, f, {"class", "assessment", "score", "enrolment", "attendance", "assignment"})
      /\ f.class = Without(d.class, S)
      /\ f.enrolment = Without(d.enrolment, {n \in DOMAIN d.enrolment : d.enrolment[n].class \in S})
      /\ f.assignment \subseteq d.assignment
  BY DropClassesChanges
<1> HIDE DEF f
<1>5. DOMAIN f = Tables BY <1>4 DEF Changes
<1>6. /\ Changes(f, g, {"enrolment", "attendance", "score"})
      /\ g.enrolment = Without(f.enrolment, M) /\ g.attendance = Without(f.attendance, M)
      /\ \A k \in DOMAIN f.score : k[2] \notin M => k \in DOMAIN g.score
  BY <1>5, DropEnrolmentsChanges
<1> HIDE DEF e, g
<1>7. /\ e.class = f.class /\ e.assessment = f.assessment /\ e.enrolment = g.enrolment
      /\ e.score = g.score /\ e.attendance = g.attendance
  BY <1>1, <1>5, <1>6 DEF Changes, Tables
<1>8. /\ \A k : Leaves(d, f, "class", k) => Leaves(d, e, "class", k)
      /\ \A a : Leaves(d, f, "assessment", a) => Leaves(d, e, "assessment", a)
      /\ \A n : Leaves(d, f, "enrolment", n) \/ n \in M => Leaves(d, e, "enrolment", n)
  BY <1>6, <1>7 DEF Leaves, Without, M
<1>9. MarksFollow(d, e) BY <1>3, <1>6, <1>7, <1>8 DEF MarksFollow, Without
<1>10. ScoresFollow(d, e) BY <1>3, <1>6, <1>7, <1>8 DEF ScoresFollow
<1>11. \A a \in DOMAIN d.assessment :
           a \in DOMAIN e.assessment \/ Leaves(d, e, "class", d.assessment[a].class)
  BY <1>3, <1>7, <1>8
<1> QED BY <1>9, <1>10, <1>11 DEF e

(* No row of the registers goes but with the row it hangs on. *)
LEMMA RegisterRows ==
  ASSUME NEW d, Formed(d), NEW r \in Requests, NEW seen, Admits(d, r, seen)
  PROVE  LET e == Written(d, r, seen) IN
         /\ MarksFollow(d, e) /\ ScoresFollow(d, e)
         /\ \A a \in DOMAIN d.assessment :
               \/ a \in DOMAIN e.assessment
               \/ r.op = "subject.remove" /\ d.assessment[a].subject = r.id
               \/ r.op = "curriculum.remove" /\ d.subject[d.assessment[a].subject].curriculum = r.id
               \/ Leaves(d, e, "class", d.assessment[a].class)
<1> DEFINE e == Written(d, r, seen)
           Assessed == \A a \in DOMAIN d.assessment :
               \/ a \in DOMAIN e.assessment
               \/ r.op = "subject.remove" /\ d.assessment[a].subject = r.id
               \/ r.op = "curriculum.remove" /\ d.subject[d.assessment[a].subject].curriculum = r.id
               \/ Leaves(d, e, "class", d.assessment[a].class)
           Kept == /\ DOMAIN d.attendance \subseteq DOMAIN e.attendance
                   /\ DOMAIN d.assessment \subseteq DOMAIN e.assessment
                   /\ DOMAIN d.score \subseteq DOMAIN e.score
<1>a. Kept => MarksFollow(d, e) /\ ScoresFollow(d, e) /\ Assessed BY DEF MarksFollow, ScoresFollow
<1> SUFFICES MarksFollow(d, e) /\ ScoresFollow(d, e) /\ Assessed OBVIOUS
<1> HIDE DEF e
<1>0. DOMAIN d = Tables BY DEF Formed
<1>1. CASE r.op = "attendance.mark"
  <2>1. /\ DOMAIN e.attendance = DOMAIN d.attendance \cup r.pupils
        /\ e.assessment = d.assessment /\ e.score = d.score
    BY <1>0, <1>1 DEF e, Written, Marked, Tables
  <2> QED BY <1>a, <2>1
<1>2. CASE r.op = "assessment.create"
  <2>1. /\ e.attendance = d.attendance /\ e.score = d.score
        /\ DOMAIN e.assessment = DOMAIN d.assessment \cup {r.id}
    BY <1>0, <1>2 DEF e, Written, AssessmentCreated, Tables, With
  <2> QED BY <1>a, <2>1
<1>3. CASE r.op = "assessment.update"
  <2>1. /\ e.attendance = d.attendance /\ e.score = d.score
        /\ DOMAIN e.assessment = DOMAIN d.assessment
    BY <1>0, <1>3 DEF e, Written, AssessmentUpdated, Tables
  <2> QED BY <1>a, <2>1
<1>4. CASE r.op = "assessment.remove" BY <1>0, <1>4, <1>a DEF e, Written, AssessmentRemoved, Tables
<1>5. CASE r.op = "assessment.clear" BY <1>0, <1>5, <1>a DEF e, Written, TermCleared, Tables
<1>6. CASE r.op = "assessment.scores"
  <2> DEFINE saved == {<<r.id, n>> : n \in DOMAIN r.scores}
  <2>1. /\ e.score = [x \in DOMAIN d.score \cup saved |-> IF x \in saved THEN r.scores[x[2]] ELSE d.score[x]]
        /\ e.attendance = d.attendance /\ e.assessment = d.assessment
    BY <1>0, <1>6 DEF e, Written, ScoresSaved, Tables
  <2> HIDE DEF saved
  <2> QED BY <1>a, <2>1
<1>7. CASE r.op \in YearOps
  <2>1. e.attendance = d.attendance /\ e.score = d.score
    <3>1. Changes(d, e, {"year", "assessment"}) BY <1>7, WritesYears DEF e
    <3> QED BY <3>1 DEF Changes, Tables
  <2>2. DOMAIN e.assessment = DOMAIN d.assessment
    <3>1. CASE r.op = "year.terms"
      <4>1. e = [DropTerms(d, seen) EXCEPT !.year[r.id].terms = (@ \ seen) \cup r.terms]
        BY <3>1 DEF e, Written, TermsReplaced
      <4>2. /\ "assessment" \in DOMAIN DropTerms(d, seen)
            /\ DOMAIN DropTerms(d, seen).assessment = DOMAIN d.assessment
        BY <1>0 DEF DropTerms, Tables
      <4> QED BY <4>1, <4>2
    <3>2. CASE r.op = "year.create" BY <1>0, <3>2 DEF e, Written, YearCreated, Tables
    <3>3. CASE r.op = "year.setCurrent" BY <1>0, <3>3 DEF e, Written, CurrentSet, Tables
    <3> QED BY <1>7, <3>1, <3>2, <3>3 DEF YearOps
  <2> QED BY <1>a, <2>1, <2>2
<1>8. CASE r.op = "subject.remove"
  <2>1. e = DropSubjects(d, {r.id}) BY <1>8, WritesRemovals DEF e
  <2>2. ScoresFollow(d, e) /\ Assessed BY <1>0, <1>8, <2>1, DropSubjectsTakes
  <2>3. e.attendance = d.attendance
    <3>1. Changes(d, e, {"subject", "taught", "assignment", "assessment", "score"})
      BY <1>0, <2>1, DropSubjectsChanges
    <3> QED BY <3>1 DEF Changes, Tables
  <2> QED BY <2>2, <2>3 DEF MarksFollow
<1>9. CASE r.op = "curriculum.remove"
  <2>1. e = DropCurriculum(d, r.id) BY <1>9, WritesRemovals DEF e
  <2>2. ScoresFollow(d, e) /\ Assessed BY <1>0, <1>9, <2>1, DropCurriculumTakes
  <2>3. e.attendance = d.attendance
    <3>1. Changes(d, e, {"subject", "taught", "assignment", "assessment", "score", "curriculum", "section"})
      BY <1>0, <2>1, DropCurriculumChanges
    <3> QED BY <3>1 DEF Changes, Tables
  <2> QED BY <2>2, <2>3 DEF MarksFollow
<1>10. CASE r.op = "scheme.remove"
  <2>1. e = DropScheme(d, r.id) BY <1>10, WritesRemovals DEF e
  <2>2. Changes(d, e, {"scheme", "section"}) BY <1>0, <2>1, DropSchemeChanges
  <2> QED BY <1>a, <2>2 DEF Changes, Tables
<1>11. CASE r.op = "year.remove"
  <2>1. e = DropYear(d, r.id) BY <1>11, WritesRemovals DEF e
  <2> QED BY <1>0, <2>1, DropYearTakes
<1>12. CASE r.op = "enrolment.remove"
  <2>1. e = DropEnrolments(d, {r.id}) BY <1>12, WritesRemovals DEF e
  <2>2. r.id \in DOMAIN d.enrolment BY <1>12 DEF Admits
  <2> QED BY <1>0, <2>1, <2>2, DropEnrolmentsTakes
<1>13. CASE r.op \notin RegisterOps \cup RemovalOps \cup YearOps
  <2>1. e.attendance = d.attendance /\ e.score = d.score /\ e.assessment = d.assessment
    BY <1>13, WriteFrame DEF e
  <2> QED BY <1>a, <2>1
<1> QED BY <1>1, <1>2, <1>3, <1>4, <1>5, <1>6, <1>7, <1>8, <1>9, <1>10, <1>11, <1>12, <1>13
        DEF RegisterOps, RemovalOps

(* Only a deletion takes a pupil off the school's books. *)
LEMMA PupilsLive ==
  ASSUME NEW d, Formed(d), NEW r \in Requests, NEW seen, Admits(d, r, seen), NEW s \in DOMAIN d.student
  PROVE  LET e == Written(d, r, seen) IN
         e.student[s].live = d.student[s].live \/ (r.op = "student.remove" /\ s = r.id)
<1> DEFINE e == Written(d, r, seen)
<1> SUFFICES e.student[s].live = d.student[s].live \/ (r.op = "student.remove" /\ s = r.id) OBVIOUS
<1> HIDE DEF e
<1>0. "student" \in DOMAIN d /\ \A x \in DOMAIN d.student : DOMAIN d.student[x] = {"campus", "live"}
  BY DEF Formed, Fits, Columns, Tables
<1>1. CASE r.op = "student.create"
  <2>1. r.id \notin DOMAIN d.student BY <1>1 DEF Admits
  <2>2. e.student = With(d.student, r.id, [campus |-> r.campus, live |-> TRUE])
    BY <1>0, <1>1 DEF e, Written, StudentCreated
  <2> QED BY <2>1, <2>2 DEF With
<1>2. CASE r.op = "student.update"
  <2>1. e.student = [d.student EXCEPT ![r.id].campus = r.campus]
    BY <1>0, <1>2 DEF e, Written, StudentUpdated
  <2> QED BY <1>0, <2>1
<1>3. CASE r.op = "student.remove"
  <2>1. e.student = [d.student EXCEPT ![r.id].live = FALSE] BY <1>0, <1>3 DEF e, Written, StudentRemoved
  <2> QED BY <1>3, <2>1
<1>4. CASE r.op \notin StudentOps
  <2>1. e.student = d.student BY <1>4, WriteFrame DEF e
  <2> QED BY <2>1
<1> QED BY <1>1, <1>2, <1>3, <1>4 DEF StudentOps

LEMMA WritesOf ==
  ASSUME NEW c \in Clients, Write(c), Inv0
  PROVE  /\ Removes(held[c].req.op, held[c].req.id)
         /\ Overtaken(c) => RemovesUnaware(held[c].req.op, held[c].req.id)
         /\ \A ops : held[c].req.op \in ops => Writes(ops) /\ (Overtaken(c) => WritesOvertaken(ops))
<1>1. Ends(c) BY DEF Write, Inv0, Serving, Ends
<1> QED BY <1>1 DEF Writes, WritesOvertaken, Removes, RemovesUnaware

LEMMA NoClassNoEnrolment ==
  ASSUME NEW d, OfItsYear(d), NEW y, \A k \in DOMAIN d.class : d.class[k].year # y
  PROVE  /\ ClassesIn(d, y) = {} /\ LeavingWith(d, y) = {}
         /\ \A n \in DOMAIN d.enrolment : n[2] # y
<1>1. ClassesIn(d, y) = {} BY DEF ClassesIn
<1>2. \A n \in DOMAIN d.enrolment : n[2] # y BY DEF OfItsYear
<1> QED BY <1>1, <1>2 DEF LeavingWith

(* A class is lost only to the deletion of its own year, on a count of     *)
(* classes out of date, an enrolment to its own deletion or with its year, *)
(* a mark, an assessment or a score with the row it hangs on; a deleted    *)
(* pupil is on roll again only by a change of the enrolment or an          *)
(* overtaken check.                                                        *)
THEOREM HistoryHolds == Spec => HistoryIsKept
<1> DEFINE Kept ==
      /\ \A k \in Lost("class") : RemovesUnaware("year.remove", db.class[k].year)
      /\ \A n \in Lost("enrolment") :
            Removes("enrolment.remove", n) \/ RemovesUnaware("year.remove", n[2])
      /\ \A n \in Lost("attendance") : n \in Lost("enrolment") \/ db.attendance[n] \in Lost("class")
      /\ \A a \in Lost("assessment") :
            SubjectGoes(db.assessment[a].subject) \/ db.assessment[a].class \in Lost("class")
      /\ \A k \in Lost("score") : k[1] \in Lost("assessment") \/ k[2] \in Lost("enrolment")
      /\ (GhostPupils(db) = {} /\ GhostPupils(db') # {}) =>
             \/ Writes({"enrolment.update"})
             \/ WritesOvertaken({"student.remove", "enrolment.create"})
<1>1. Inv0 /\ Keyed /\ [Next]_vars => Kept
  <2> SUFFICES ASSUME Inv0, Keyed, [Next]_vars PROVE Kept OBVIOUS
  <2>1. CASE UNCHANGED <<db, overtaken>>
    <3>1. db' = db BY <2>1
    <3> QED BY <3>1 DEF Lost
  <2>2. ASSUME NEW c \in Clients, Write(c), Wrote(c) PROVE Kept
    <3> DEFINE r == held[c].req
               seen == held[c].seen
               e == Written(db, r, seen)
    <3>1. r \in Requests /\ Formed(db) /\ Admits(db, r, seen) /\ db' = e BY <2>2 DEF Wrote, Inv0
    <3>2. NamesItsYear(db, r) BY <2>2, WroteNamed
    <3>3. ~Overtaken(c) => Accepts(db, r) BY DEF Overtaken
    <3>4. /\ Removes(r.op, r.id) /\ (Overtaken(c) => RemovesUnaware(r.op, r.id))
          /\ \A ops : r.op \in ops => Writes(ops) /\ (Overtaken(c) => WritesOvertaken(ops))
      BY <2>2, WritesOf
    <3> HIDE DEF r, seen
    <3>5. \A t \in Tables : \A k : k \in Lost(t) <=> Leaves(db, e, t, k) BY <3>1 DEF Lost, Leaves
    <3>6. ASSUME r.op = "year.remove", ~Overtaken(c)
          PROVE  /\ ClassesIn(db, r.id) = {} /\ LeavingWith(db, r.id) = {}
                 /\ \A n \in DOMAIN db.enrolment : n[2] # r.id
      <4>1. \A k \in DOMAIN db.class : db.class[k].year # r.id BY <3>3, <3>6 DEF Accepts, MayRemoveYear
      <4> QED BY <4>1, NoClassNoEnrolment DEF Keyed
    <3>7. \A k \in Lost("class") : RemovesUnaware("year.remove", db.class[k].year)
      <4> SUFFICES ASSUME NEW k \in DOMAIN db.class, k \notin DOMAIN e.class
                   PROVE  RemovesUnaware("year.remove", db.class[k].year)
        BY <3>1 DEF Lost
      <4>1. r.op = "class.create" => k # r.id BY <3>2 DEF NamesItsYear
      <4>2. r.op = "year.remove" /\ db.class[k].year = r.id BY <3>1, <4>1, ClassRows
      <4>3. k \in ClassesIn(db, r.id) BY <4>2 DEF ClassesIn
      <4> QED BY <3>4, <3>6, <4>2, <4>3
    <3>8. \A n \in Lost("enrolment") :
              Removes("enrolment.remove", n) \/ RemovesUnaware("year.remove", n[2])
      <4> SUFFICES ASSUME NEW n \in DOMAIN db.enrolment, n \notin DOMAIN e.enrolment
                   PROVE  Removes("enrolment.remove", n) \/ RemovesUnaware("year.remove", n[2])
        BY <3>1 DEF Lost
      <4>1. \/ r.op = "enrolment.remove" /\ n = r.id
            \/ r.op = "year.remove" /\ n \in LeavingWith(db, r.id)
        BY <3>1, EnrolmentRows
      <4>2. CASE r.op = "year.remove" /\ n \in LeavingWith(db, r.id)
        <5>1. n[2] = r.id BY <4>2 DEF Keyed, OfItsYear, LeavingWith, ClassesIn
        <5> QED BY <3>4, <3>6, <4>2, <5>1
      <4> QED BY <3>4, <4>1, <4>2
    <3>9. /\ MarksFollow(db, e) /\ ScoresFollow(db, e)
          /\ \A a \in DOMAIN db.assessment :
                \/ a \in DOMAIN e.assessment
                \/ r.op = "subject.remove" /\ db.assessment[a].subject = r.id
                \/ r.op = "curriculum.remove" /\ db.subject[db.assessment[a].subject].curriculum = r.id
                \/ Leaves(db, e, "class", db.assessment[a].class)
      BY <3>1, RegisterRows
    <3>10. \A n \in Lost("attendance") : n \in Lost("enrolment") \/ db.attendance[n] \in Lost("class")
      BY <3>5, <3>9 DEF MarksFollow, Leaves, Tables
    <3>11. \A a \in Lost("assessment") :
               SubjectGoes(db.assessment[a].subject) \/ db.assessment[a].class \in Lost("class")
      <4> SUFFICES ASSUME NEW a \in DOMAIN db.assessment, a \notin DOMAIN e.assessment,
                          ~Leaves(db, e, "class", db.assessment[a].class)
                   PROVE  SubjectGoes(db.assessment[a].subject)
        BY <3>1, <3>5 DEF Lost, Tables
      <4> QED BY <3>4, <3>9 DEF SubjectGoes
    <3>12. \A k \in Lost("score") : k[1] \in Lost("assessment") \/ k[2] \in Lost("enrolment")
      BY <3>5, <3>9 DEF ScoresFollow, Leaves, Tables
    <3>13. (GhostPupils(db) = {} /\ GhostPupils(db') # {}) =>
             \/ Writes({"enrolment.update"})
             \/ WritesOvertaken({"student.remove", "enrolment.create"})
      <4> SUFFICES ASSUME GhostPupils(db) = {}, NEW n \in DOMAIN e.enrolment,
                          e.enrolment[n].status = "ENROLLED", ~e.student[n[1]].live,
                          r.op \in {"student.remove", "enrolment.create"} => ~Overtaken(c)
                   PROVE  r.op = "enrolment.update"
        BY <3>1, <3>4 DEF GhostPupils
      <4>1. CASE n \in DOMAIN db.enrolment /\ e.enrolment[n] = db.enrolment[n]
        <5>1. n[1] \in DOMAIN db.student /\ db.student[n[1]].live
          BY <4>1 DEF Keyed, PupilsExist, GhostPupils
        <5>2. r.op = "student.remove" /\ n[1] = r.id BY <3>1, <5>1, PupilsLive
        <5>3. Enrolled(db, r.id) = {} BY <3>3, <5>2 DEF Accepts, MayRemoveStudent
        <5> QED BY <4>1, <5>2, <5>3 DEF Enrolled
      <4>2. CASE Enrols(db, e, r, n)
        <5>1. r.op = "enrolment.create" /\ n = r.id BY <4>2 DEF Enrols
        <5>2. n[1] \in DOMAIN db.student /\ db.student[n[1]].live
          BY <3>3, <5>1 DEF Accepts, MayEnrol, Live
        <5> QED BY <3>1, <5>1, <5>2, PupilsLive
      <4>3. CASE Alters(db, e, r, seen, n) BY <4>3 DEF Alters
      <4> QED BY <3>1, <4>1, <4>2, <4>3, EnrolmentRows
    <3> QED BY <3>7, <3>8, <3>10, <3>11, <3>12, <3>13
  <2> QED BY <2>1, <2>2, StepCases
<1>2. Inv0 /\ Keyed /\ [Next]_vars => [Kept]_vars BY <1>1
<1>3. [][Kept]_vars => HistoryIsKept BY DEF HistoryIsKept
<1> HIDE DEF Kept
<1> QED BY <1>2, <1>3, Inv0Holds, KeyedHolds, PTL DEF Spec
======
