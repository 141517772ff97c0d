---------------------------- MODULE SchoolTables ----------------------------
(***************************************************************************)
(* The tables of one school, as the foreign keys of schema.prisma tie them *)
(* together.  A database is a record of tables, a table a function from    *)
(* its rows' keys to the columns that matter.  A row that was deleted for  *)
(* good is not in the domain; one that was only marked (deletedAt) is      *)
(* there and not live.                                                     *)
(*                                                                         *)
(* A row whose table has a unique column (a campus code, a year's name, an *)
(* admission number, a student in a year) is named by that column, so an   *)
(* insert of a key that is taken is the unique index's refusal.            *)
(***************************************************************************)
EXTENDS Integers, Sequences, FiniteSets, TLC

CONSTANT Null

With(f, k, v) == [x \in DOMAIN f \cup {k} |-> IF x = k THEN v ELSE f[x]]
Without(f, S) == [x \in DOMAIN f \ S |-> f[x]]
\* A field that is Null is not in the request.
Given(new, old) == IF new = Null THEN old ELSE new
Live(table, k) == k \in DOMAIN table /\ table[k].live
Keys(table, P(_)) == {k \in DOMAIN table : P(table[k])}

\* onDelete: Cascade and SetNull, table by table.  A table that nothing else
\* hangs on is cut where its parent is.
DropAssessments(d, S) ==
    [d EXCEPT !.assessment = Without(@, S),
              !.score = Without(@, {k \in DOMAIN @ : k[1] \in S})]
DropEnrolments(d, S) ==
    [d EXCEPT !.enrolment = Without(@, S),
              !.attendance = Without(@, S),
              !.score = Without(@, {k \in DOMAIN @ : k[2] \in S})]
DropSubjects(d, S) ==
    [DropAssessments(d, Keys(d.assessment, LAMBDA a : a.subject \in S)) EXCEPT
        !.subject = Without(@, S),
        !.taught = {l \in @ : l[2] \notin S},
        !.assignment = {t \in @ : t[3] \notin S}]
DropCurriculum(d, c) ==
    [DropSubjects(d, Keys(d.subject, LAMBDA s : s.curriculum = c)) EXCEPT
        !.curriculum = @ \ {c},
        !.section = [s \in DOMAIN @ |-> IF @[s].curriculum = c
                                         THEN [@[s] EXCEPT !.curriculum = Null] ELSE @[s]]]
DropScheme(d, g) ==
    [d EXCEPT !.scheme = Without(@, {g}),
              !.section = [s \in DOMAIN @ |-> IF @[s].scheme = g
                                               THEN [@[s] EXCEPT !.scheme = Null] ELSE @[s]]]
DropTerms(d, S) ==
    [d EXCEPT !.assessment = [a \in DOMAIN @ |-> IF @[a].term \in S
                                                  THEN [@[a] EXCEPT !.term = Null] ELSE @[a]]]
DropClasses(d, S) ==
    LET e == DropEnrolments(DropAssessments(d, Keys(d.assessment, LAMBDA a : a.class \in S)),
                            Keys(d.enrolment, LAMBDA n : n.class \in S))
    IN  [e EXCEPT !.class = Without(@, S),
                  !.attendance = Without(@, Keys(e.attendance, LAMBDA a : a \in S)),
                  !.assignment = {t \in @ : t[2] \notin S}]
DropYear(d, y) ==
    LET e == DropEnrolments(DropClasses(d, Keys(d.class, LAMBDA k : k.year = y)),
                            {n \in DOMAIN d.enrolment : n[2] = y})
    IN  [e EXCEPT !.year = Without(@, {y})]
=============================================================================
