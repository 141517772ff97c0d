-------------------------- MODULE SchoolStructure --------------------------
(***************************************************************************)
(* Campuses, academic years, the tree of sections, grades and classes, and *)
(* the curricula and grading schemes of a school: for each request the     *)
(* condition under which its handler gets past its checks, and what it     *)
(* then writes.  Handlers that only rename, and the lists, are left out.   *)
(***************************************************************************)
EXTENDS SchoolTables

CONSTANTS
    Campuses, Years, Sections, Grades, Classes, Curricula, Subjects, Schemes,
    TermLists,   \* the lists a request may carry, sets of rows to be: each is a new one
    OrderOf,     \* OrderOf[t]: the order of a term, unique in its year
    BandLists,   \* the lists a replaceBands may carry, sets of band orders
    CurriculumOf,\* the curriculum a subject belongs to
    System       \* the shared curricula and schemes, which no school may change

(* The routes, and what a request on each of them carries. *)

CampusRequests ==
    [op : {"campus.create", "campus.promote", "campus.deactivate", "campus.activate", "campus.remove"},
     id : Campuses]
YearRequests ==
    [op : {"year.create"}, id : Years, current : BOOLEAN, terms : TermLists \cup {{}}]
    \cup [op : {"year.setCurrent", "year.remove"}, id : Years]
    \cup [op : {"year.terms"}, id : Years, terms : TermLists]
SectionRequests ==
    [op : {"section.create"}, id : Sections, campus : Campuses,
     curriculum : Curricula \cup {Null}, scheme : Schemes \cup {Null}]
    \cup [op : {"section.update"}, id : Sections, curriculum : Curricula \cup {Null},
          scheme : Schemes \cup {Null}]
    \cup [op : {"section.clear"}, id : Sections, curriculum : BOOLEAN, scheme : BOOLEAN]
    \cup [op : {"section.remove"}, id : Sections]
GradeRequests ==
    [op : {"grade.create"}, id : Grades, section : Sections] \cup [op : {"grade.remove"}, id : Grades]
ClassRequests ==
    [op : {"class.create"}, id : Classes, grade : Grades, year : Years]
    \cup [op : {"class.remove"}, id : Classes]
CurriculumRequests ==
    [op : {"curriculum.create", "curriculum.remove"}, id : Curricula]
    \cup [op : {"curriculum.clone"}, id : Curricula, from : Curricula]
    \cup [op : {"subject.add", "subject.remove"}, id : Subjects]
SchemeRequests ==
    [op : {"scheme.create", "scheme.remove"}, id : Schemes]
    \cup [op : {"scheme.clone"}, id : Schemes, from : Schemes]
    \cup [op : {"scheme.bands"}, id : Schemes, bands : BandLists]

StructureRequests == CampusRequests \cup YearRequests \cup SectionRequests \cup GradeRequests
                     \cup ClassRequests \cup CurriculumRequests \cup SchemeRequests
-----------------------------------------------------------------------------
(* Campuses. *)

LiveCampuses(d) == {c \in DOMAIN d.campus : d.campus[c].live}
MainCampuses(d) == {c \in DOMAIN d.campus : d.campus[c].main}

MayCreateCampus(d, r) == r.id \notin DOMAIN d.campus
CampusCreated(d, r) ==
    [d EXCEPT !.campus = With(@, r.id, [main |-> FALSE, active |-> TRUE, live |-> TRUE])]

\* update with isMain: true on a campus that is not the main one.
MayPromoteCampus(d, r) == Live(d.campus, r.id) /\ ~d.campus[r.id].main
\* A faulty variant: the old main campus is not cleared.
CampusPromotedBeside(d, r, seen) == [d EXCEPT !.campus[r.id].main = TRUE]
OnlyMain(campuses, x, seen) ==
    [c \in DOMAIN campuses |-> [campuses[c] EXCEPT !.main = c = x \/ (@ /\ c \notin seen)]]
CampusPromoted(d, r, seen) == [d EXCEPT !.campus = OnlyMain(@, r.id, seen)]

\* update with status: INACTIVE.
MayDeactivateCampus(d, r) == Live(d.campus, r.id) /\ ~d.campus[r.id].main
CampusDeactivated(d, r) == [d EXCEPT !.campus[r.id].active = FALSE]

\* update with status: ACTIVE, which nothing is asked for.
MayActivateCampus(d, r) == Live(d.campus, r.id)
CampusActivated(d, r) == [d EXCEPT !.campus[r.id].active = TRUE]

MayRemoveCampus(d, r) ==
    Live(d.campus, r.id) /\ ~d.campus[r.id].main /\ Cardinality(LiveCampuses(d)) > 1
CampusRemoved(d, r) == [d EXCEPT !.campus[r.id] = [@ EXCEPT !.live = FALSE, !.active = FALSE]]
-----------------------------------------------------------------------------
(* Academic years and their terms. *)

CurrentYears(d) == {y \in DOMAIN d.year : d.year[y].current}
OnlyCurrent(years, x, seen) ==
    [y \in DOMAIN years |-> [years[y] EXCEPT !.current = y = x \/ (@ /\ y \notin seen)]]

\* normalizeTerms refuses an order that is there twice.
InOrder(terms) == \A s, t \in terms : OrderOf[s] = OrderOf[t] => s = t

MayCreateYear(d, r) == r.id \notin DOMAIN d.year /\ InOrder(r.terms)
YearCreated(d, r, seen) ==
    LET years == With(d.year, r.id, [current |-> FALSE, terms |-> r.terms])
    IN  [d EXCEPT !.year = IF r.current THEN OnlyCurrent(years, r.id, seen) ELSE years]

MaySetCurrent(d, r) == r.id \in DOMAIN d.year
CurrentSet(d, r, seen) == [d EXCEPT !.year = OnlyCurrent(@, r.id, seen)]

\* A faulty variant: deleted classes do not count.
MayRemoveYearOfDeleted(d, r) ==
    r.id \in DOMAIN d.year /\ \A k \in DOMAIN d.class : d.class[k].live => d.class[k].year # r.id
\* Deleted classes count, too.
MayRemoveYear(d, r) == r.id \in DOMAIN d.year /\ \A k \in DOMAIN d.class : d.class[k].year # r.id
YearRemoved(d, r) == DropYear(d, r.id)

MayReplaceTerms(d, r) == r.id \in DOMAIN d.year /\ InOrder(r.terms)
TermsReplaced(d, r, seen) ==
    [DropTerms(d, seen) EXCEPT !.year[r.id].terms = (@ \ seen) \cup r.terms]
TermsCollide(d, r, seen) ==
    \E s \in d.year[r.id].terms \ seen, t \in r.terms : OrderOf[s] = OrderOf[t]
-----------------------------------------------------------------------------
(* Sections, grades and classes. *)

MayCreateSection(d, r) ==
    /\ r.id \notin DOMAIN d.section /\ Live(d.campus, r.campus)
    /\ r.curriculum \in d.curriculum \cup {Null} /\ r.scheme \in DOMAIN d.scheme \cup {Null}
SectionCreated(d, r) ==
    [d EXCEPT !.section = With(@, r.id, [campus |-> r.campus, curriculum |-> r.curriculum,
                                         scheme |-> r.scheme, live |-> TRUE])]

MayUpdateSection(d, r) ==
    /\ Live(d.section, r.id)
    /\ r.curriculum \in d.curriculum \cup {Null} /\ r.scheme \in DOMAIN d.scheme \cup {Null}
    /\ r.curriculum # Null \/ r.scheme # Null
SectionUpdated(d, r) ==
    [d EXCEPT !.section[r.id] =
        [campus |-> @.campus, live |-> @.live,
         curriculum |-> Given(r.curriculum, @.curriculum), scheme |-> Given(r.scheme, @.scheme)]]

\* update with the curriculum or the scheme set to null.
MayClearSection(d, r) == Live(d.section, r.id) /\ (r.curriculum \/ r.scheme)
SectionCleared(d, r) ==
    [d EXCEPT !.section[r.id] =
        [campus |-> @.campus, live |-> @.live,
         curriculum |-> IF r.curriculum THEN Null ELSE @.curriculum,
         scheme |-> IF r.scheme THEN Null ELSE @.scheme]]

LiveGradesOf(d, s) == {g \in DOMAIN d.grade : d.grade[g].live /\ d.grade[g].section = s}
\* A faulty variant: the grades are not counted.
MayRemoveSectionInUse(d, r) == Live(d.section, r.id)
MayRemoveSection(d, r) == Live(d.section, r.id) /\ LiveGradesOf(d, r.id) = {}
SectionRemoved(d, r) == [d EXCEPT !.section[r.id].live = FALSE]

MayCreateGrade(d, r) == r.id \notin DOMAIN d.grade /\ Live(d.section, r.section)
GradeCreated(d, r) ==
    [d EXCEPT !.grade = With(@, r.id, [section |-> r.section, live |-> TRUE])]

LiveClassesOf(d, g) == {k \in DOMAIN d.class : d.class[k].live /\ d.class[k].grade = g}
MayRemoveGrade(d, r) == Live(d.grade, r.id) /\ LiveClassesOf(d, r.id) = {}
GradeRemoved(d, r) == [d EXCEPT !.grade[r.id].live = FALSE]

\* The grade fixes the campus.
MayCreateClass(d, r) ==
    r.id \notin DOMAIN d.class /\ Live(d.grade, r.grade) /\ r.year \in DOMAIN d.year
ClassCreated(d, r) ==
    [d EXCEPT !.class = With(@, r.id, [grade |-> r.grade, year |-> r.year, teacher |-> Null, live |-> TRUE,
                                       campus |-> d.section[d.grade[r.grade].section].campus])]

MayRemoveClass(d, r) == Live(d.class, r.id)
ClassRemoved(d, r) == [d EXCEPT !.class[r.id].live = FALSE]
-----------------------------------------------------------------------------
(* Curricula, subjects and grading schemes. *)

MayCreateCurriculum(d, r) == r.id \notin d.curriculum \cup System
CurriculumCreated(d, r) == [d EXCEPT !.curriculum = @ \cup {r.id}]

\* A copy keeps its source's key within the school, so a copy of the school's
\* own is always refused.  Its subjects are rows of their own.
MayCloneCurriculum(d, r) == r.from \in d.curriculum \cap System /\ r.id \notin d.curriculum \cup System
CurriculumCloned(d, r) ==
    LET copied == {s \in Subjects : CurriculumOf[s] = r.id
                     /\ \E t \in DOMAIN d.subject : d.subject[t].curriculum = r.from}
    IN  [d EXCEPT !.curriculum = @ \cup {r.id},
                  !.subject = [s \in copied |-> [curriculum |-> r.id]] @@ @]

\* Sections that were deleted do not count.
MayRemoveCurriculum(d, r) ==
    /\ r.id \in d.curriculum \ System
    /\ \A s \in DOMAIN d.section : d.section[s].live => d.section[s].curriculum # r.id
CurriculumRemoved(d, r) == DropCurriculum(d, r.id)

MayAddSubject(d, r) == CurriculumOf[r.id] \in d.curriculum \ System /\ r.id \notin DOMAIN d.subject
SubjectAdded(d, r) == [d EXCEPT !.subject = With(@, r.id, [curriculum |-> CurriculumOf[r.id]])]

\* Nothing is asked about lessons, assignments or assessments of the subject.
MayRemoveSubject(d, r) == r.id \in DOMAIN d.subject /\ CurriculumOf[r.id] \notin System
SubjectRemoved(d, r) == DropSubjects(d, {r.id})

MayCreateScheme(d, r) == r.id \notin DOMAIN d.scheme
SchemeCreated(d, r) == [d EXCEPT !.scheme = With(@, r.id, {})]

MayCloneScheme(d, r) == r.from \in DOMAIN d.scheme \cap System /\ r.id \notin DOMAIN d.scheme
SchemeCloned(d, r) == [d EXCEPT !.scheme = With(@, r.id, d.scheme[r.from])]

MayReplaceBands(d, r) == r.id \in DOMAIN d.scheme \ System
BandsReplaced(d, r, seen) == [d EXCEPT !.scheme[r.id] = (@ \ seen) \cup r.bands]
BandsCollide(d, r, seen) == (d.scheme[r.id] \ seen) \cap r.bands # {}

MayRemoveScheme(d, r) ==
    /\ r.id \in DOMAIN d.scheme \ System
    /\ \A s \in DOMAIN d.section : d.section[s].live => d.section[s].scheme # r.id
SchemeRemoved(d, r) == DropScheme(d, r.id)
=============================================================================
