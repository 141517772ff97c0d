-------------------------- MODULE MCSchoolRecords --------------------------
(***************************************************************************)
(* A small school in which every handler has something to do, and for each *)
(* handler the few requests that meet another one.                         *)
(***************************************************************************)
EXTENDS SchoolRecords
CONSTANTS c1, c2, Main, West, East, Y1, Y2, Y3, S1, S2, S3, S4, G1, G2, G3, G4, K1, K2, K3,
          Cbc, Own, Copy, Maths, Art, Craft, Sums, Sys, Mine, Twin, O1, N1, N2, N3,
          Amina, Brian, Cleo, Ann, Bea, Cat, T1, T2, T3, Sci, Lng, Hum, A1, A2

MCClients == {c1, c2}
Symmetry == Permutations(MCClients)
MCCampuses == {Main, West, East}
MCYears == {Y1, Y2, Y3}
MCSections == {S1, S2, S3, S4}
MCGrades == {G1, G2, G3, G4}
MCClasses == {K1, K2, K3}
MCCurricula == {Cbc, Own, Copy}
MCSubjects == {Maths, Art, Craft, Sums}
MCSchemes == {Sys, Mine, Twin}
MCTermLists == {{N1}, {N2}, {N3}}
MCOrderOf == O1 :> 1 @@ N1 :> 1 @@ N2 :> 2 @@ N3 :> 1
MCBandLists == {{1}, {2}}
MCCurriculumOf == Maths :> Cbc @@ Art :> Own @@ Craft :> Own @@ Sums :> Copy
MCSystem == {Cbc, Sys}
MCStudents == {Amina, Brian, Cleo}
MCGuardians == {Ann, Bea, Cat}
MCTeachers == {T1, T2, T3}
MCDepartments == {Sci, Lng, Hum}
MCAssessments == {A1, A2}
MCMarks == {50, 100}

OfMain(curriculum) == [campus |-> Main, curriculum |-> curriculum, scheme |-> Sys, live |-> TRUE]
GradeOf(s) == [section |-> s, live |-> TRUE]
ClassOf(g, c) == [grade |-> g, year |-> Y1, teacher |-> Null, live |-> TRUE, campus |-> c]
Employed(x) == [campus |-> Main, department |-> x, live |-> TRUE]
MCSchool == [
    campus |-> (Main :> [main |-> TRUE, active |-> TRUE, live |-> TRUE])
               @@ (West :> [main |-> FALSE, active |-> TRUE, live |-> TRUE]),
    year |-> (Y1 :> [current |-> TRUE, terms |-> {O1}]) @@ (Y2 :> [current |-> FALSE, terms |-> {}]),
    section |-> S1 :> OfMain(Cbc) @@ S3 :> OfMain(Null)
                @@ S2 :> [campus |-> West, curriculum |-> Cbc, scheme |-> Null, live |-> TRUE],
    grade |-> G1 :> GradeOf(S1) @@ G2 :> GradeOf(S2) @@ G3 :> GradeOf(S2),
    class |-> K1 :> ClassOf(G1, Main) @@ K2 :> ClassOf(G2, West),
    curriculum |-> {Cbc, Own},
    subject |-> Maths :> [curriculum |-> Cbc] @@ Art :> [curriculum |-> Own],
    scheme |-> Sys :> {1} @@ Mine :> {1},
    student |-> Amina :> [campus |-> Main, live |-> TRUE] @@ Brian :> [campus |-> Main, live |-> TRUE],
    guardian |-> Ann :> [live |-> TRUE] @@ Bea :> [live |-> TRUE],
    link |-> <<Amina, Ann>> :> [primary |-> TRUE],
    enrolment |-> <<Amina, Y1>> :> [class |-> K1, campus |-> Main, status |-> "ENROLLED"],
    staff |-> T1 :> Employed(Sci) @@ T2 :> Employed(Null),
    department |-> Sci :> [head |-> T1, live |-> TRUE] @@ Lng :> [head |-> Null, live |-> TRUE],
    taught |-> {<<Sci, Maths>>},
    assignment |-> {<<T1, K2, Art>>},
    attendance |-> <<Amina, Y1>> :> K1,
    assessment |-> A1 :> [class |-> K1, subject |-> Art, term |-> O1, max |-> 100, live |-> TRUE],
    score |-> <<A1, <<Amina, Y1>>>> :> 100]

MCRequests ==
    [op : {"campus.create", "campus.promote", "campus.deactivate", "campus.activate",
           "campus.remove"}, id : MCCampuses]
    \cup [op : {"year.create"}, id : {Y3}, current : {TRUE}, terms : {{}, {N3}}]
    \cup [op : {"year.setCurrent", "year.remove"}, id : {Y2}]
    \cup [op : {"year.terms"}, id : {Y1}, terms : MCTermLists]
    \cup [op : {"section.create"}, id : {S4}, campus : {West}, curriculum : {Own}, scheme : {Mine}]
    \cup [op : {"section.update"}, id : {S2}, curriculum : {Own}, scheme : {Mine}]
    \cup [op : {"section.clear"}, id : {S2}, curriculum : {TRUE}, scheme : {FALSE}]
    \cup [op : {"section.remove"}, id : {S2, S3}]
    \cup [op : {"grade.create"}, id : {G4}, section : {S3}]
    \cup [op : {"grade.remove"}, id : {G2, G3}]
    \cup [op : {"class.create"}, id : {K3}, grade : {G3}, year : {Y1, Y2}]
    \cup [op : {"class.remove"}, id : {K2, K3}]
    \cup [op : {"class.teacher"}, id : {K1}, teacher : {T2, Null}]
    \cup [op : {"curriculum.create", "curriculum.remove"}, id : {Own, Copy}]
    \cup [op : {"curriculum.clone"}, id : {Copy}, from : {Cbc}]
    \cup [op : {"subject.add", "subject.remove"}, id : {Art, Craft}]
    \cup [op : {"scheme.create", "scheme.remove"}, id : {Mine, Twin}]
    \cup [op : {"scheme.clone"}, id : {Twin}, from : {Sys}]
    \cup [op : {"scheme.bands"}, id : {Mine}, bands : MCBandLists]
    \cup [op : {"student.create"}, id : {Cleo}, campus : {West}]
    \cup [op : {"student.update"}, id : {Amina}, campus : {West}]
    \cup [op : {"student.remove"}, id : {Amina, Brian}]
    \cup [op : {"guardian.create"}, id : {Cat}]
    \cup [op : {"guardian.remove"}, id : {Ann, Bea}]
    \cup [op : {"guardian.link"}, id : {Amina}, guardian : {Bea}, primary : {TRUE}]
    \cup [op : {"guardian.createAndLink"}, id : {Amina}, guardian : {Cat}, primary : {TRUE}]
    \cup [op : {"guardian.unlink"}, id : {Amina}, guardian : {Ann}]
    \cup [op : {"enrolment.create"}, id : {<<Brian, Y1>>}, class : {K1}]
    \cup [op : {"enrolment.create"}, id : {<<Brian, Y2>>}, class : {K3}]
    \cup [op : {"enrolment.update"}, id : {<<Amina, Y1>>}, class : {K1, K2}, status : {Null}]
    \cup [op : {"enrolment.update"}, id : {<<Amina, Y1>>}, class : {Null}, status : {"ENROLLED", "WITHDRAWN"}]
    \cup [op : {"enrolment.remove"}, id : {<<Amina, Y1>>}]
    \cup [op : {"staff.create"}, id : {T3}, campus : {Main}, department : {Lng}]
    \cup [op : {"staff.update"}, id : {T2}, campus : {Main}, department : {Lng}]
    \cup [op : {"staff.remove"}, id : {T1, T2}]
    \cup [op : {"department.create"}, id : {Hum}, head : {T2}]
    \cup [op : {"department.update"}, id : {Lng}, head : {T2}]
    \cup [op : {"department.remove"}, id : {Lng}]
    \cup [op : {"department.addSubject"}, id : {Lng}, subject : {Art}]
    \cup [op : {"department.removeSubject"}, id : {Sci}, subject : {Maths}]
    \cup [op : {"assignment.create"}, id : {<<T2, K1, Art>>}]
    \cup [op : {"assignment.remove"}, id : {<<T1, K2, Art>>}]
    \cup [op : {"attendance.mark"}, id : {K1, K2}, pupils : {{<<Amina, Y1>>}}]
    \cup [op : {"assessment.create"}, id : {A2}, class : {K1}, subject : {Art}, term : {O1}, max : {50}]
    \cup [op : {"assessment.create"}, id : {A2}, class : {K3}, subject : {Art}, term : {Null}, max : {50}]
    \cup [op : {"assessment.update"}, id : {A1}, term : {Null}, max : {50}]
    \cup [op : {"assessment.clear", "assessment.remove"}, id : {A1}]
    \cup [op : {"assessment.scores"}, id : {A1}, scores : {<<Amina, Y1>> :> 50}]
=============================================================================
