------------------------------- MODULE Scoring -------------------------------
(***************************************************************************)
(* The scheduling engine's soft constraints: the penalty of a timetable,   *)
(* computed from nothing (score of engine/solver.ts), and the aggregates   *)
(* that class State keeps so as to adjust a running total with every       *)
(* lesson placed or removed (addScore, subScore).                          *)
(*                                                                         *)
(* All penalties are multiplied by the number of days here, so that the    *)
(* even daily load, a mean over the days, stays an integer; the code's     *)
(* floating point drift is left out.                                       *)
(***************************************************************************)
EXTENDS Occupancy

CONSTANTS
    Subject, SubjectOf,
    PrefersMorning,   \* lessons
    MorningEnds       \* an order, or NoLimit

ASSUME SubjectAssumption ==
    /\ SubjectOf \in [Lesson -> Subject] /\ IsFiniteSet(Subject)
    /\ PrefersMorning \subseteq Lesson
ASSUME MorningAssumption == MorningEnds \in Nat \cup {NoLimit}

Scale == Len(Days)
SubjectRepeatedInDay == 12 * Scale
MorningPreferenceMissed == 8 * Scale
TeacherGap == 5 * Scale
UnevenClassLoad == 3   \* times the deviation, which is scaled by itself
TeacherRoomChange == 1 * Scale

-----------------------------------------------------------------------------
(* Penalties of one group *)

Repeat(n) == IF n > 1 THEN n - 1 ELSE 0

MorningsMissed(l, at) ==
    IF MorningEnds = NoLimit \/ l \notin PrefersMorning THEN 0
    ELSE Cardinality({slot \in Cells(l, at) : Orders[slot[2]] > MorningEnds})

(* The slots a teacher teaches in a day: their period, room and lesson. *)
Entries(l, at) == {[period |-> slot[2], room |-> at.room, lesson |-> l] : slot \in Cells(l, at)}

(* Every teachable period left out between two successive lessons is a gap, *)
(* and every change of rooms between them costs.                           *)
TeacherPenalty(entries) ==
    LET Successive(e, f) ==
            /\ e.period < f.period
            /\ \A g \in entries : g.period <= e.period \/ g.period >= f.period
        pairs == {ef \in entries \X entries : Successive(ef[1], ef[2])}
        Penalty(ef) ==
            TeacherGap * (ef[2].period - ef[1].period - 1)
            + IF NoRoom \notin {ef[1].room, ef[2].room} /\ ef[1].room # ef[2].room
              THEN TeacherRoomChange ELSE 0
    IN SumFunction([ef \in pairs |-> Penalty(ef)])

Deviation(n, total) ==
    LET diff == Scale * n - total IN IF diff < 0 THEN -diff ELSE diff

(* perDay: how many periods a class has on each day *)
ClassPenalty(perDay) ==
    LET total == SumFunctionOnSet(perDay, Day) IN
    SumFunction([d \in Day |-> UnevenClassLoad * Deviation(perDay[d], total)])

-----------------------------------------------------------------------------
(* score: from the placements alone *)

Together(placed, k, d, s) ==
    {l \in Lesson : /\ placed[l] # None /\ placed[l].day = d
                    /\ ClassOf[l] = k /\ SubjectOf[l] = s}

Score(placed) ==
    LET taught == {l \in Lesson : placed[l] # None} IN
    SumFunction([x \in Class \X Day \X Subject |->
        SubjectRepeatedInDay * Repeat(Cardinality(Together(placed, x[1], x[2], x[3])))])
    + SumFunction([l \in taught |-> MorningPreferenceMissed * MorningsMissed(l, placed[l])])
    + SumFunction([x \in Teacher \X Day |-> TeacherPenalty(
          UNION {Entries(l, placed[l]) :
                    l \in {m \in taught : TeacherOf[m] = x[1] /\ placed[m].day = x[2]}})])
    + SumFunction([k \in Class |-> ClassPenalty(
          [d \in Day |-> TaughtOn(placed, {l \in Lesson : ClassOf[l] = k}, d)])])

-----------------------------------------------------------------------------
(* The aggregates of State, and their updates *)

NoScore ==
    [subjCount |-> [x \in Class \X Day \X Subject |-> 0],
     morningPen |-> [l \in Lesson |-> 0],
     teacherList |-> [x \in Teacher \X Day |-> {}],
     teacherPen |-> [x \in Teacher \X Day |-> 0],
     classPerDay |-> [k \in Class |-> [d \in Day |-> 0]],
     classPen |-> [k \in Class |-> 0],
     soft |-> 0]

RecomputeTeacher(a, x) ==
    LET pen == TeacherPenalty(a.teacherList[x]) IN
    [a EXCEPT !.teacherPen[x] = pen, !.soft = @ + pen - a.teacherPen[x]]

RecomputeClass(a, k) ==
    LET pen == ClassPenalty(a.classPerDay[k]) IN
    [a EXCEPT !.classPen[k] = pen, !.soft = @ + pen - a.classPen[k]]

(* The lesson's subject, its morning and its teacher's list, then the       *)
(* teacher's penalty, then its class's days and their penalty.             *)
AddScore(a, l, at) ==
    LET x == <<ClassOf[l], at.day, SubjectOf[l]>>
        n == a.subjCount[x]
        missed == MorningPreferenceMissed * MorningsMissed(l, at)
        listed == [a EXCEPT
            !.subjCount[x] = n + 1,
            !.morningPen[l] = IF missed # 0 THEN missed ELSE @,
            !.teacherList[<<TeacherOf[l], at.day>>] = @ \cup Entries(l, at),
            !.classPerDay = Bump(@, ClassOf[l], at.day, Length[l]),
            !.soft = @ + SubjectRepeatedInDay * (Repeat(n + 1) - Repeat(n)) + missed]
    IN RecomputeClass(RecomputeTeacher(listed, <<TeacherOf[l], at.day>>), ClassOf[l])

(* Faulty variant: the penalty of the lesson's morning stays. *)
SubScoreKeepsMorning(a, l, at) ==
    LET x == <<ClassOf[l], at.day, SubjectOf[l]>>
        n == a.subjCount[x]
        listed == [a EXCEPT
            !.subjCount[x] = n - 1,
            !.teacherList[<<TeacherOf[l], at.day>>] = {e \in @ : e.lesson # l},
            !.classPerDay = Bump(@, ClassOf[l], at.day, -Length[l]),
            !.soft = @ + SubjectRepeatedInDay * (Repeat(n - 1) - Repeat(n))]
    IN RecomputeClass(RecomputeTeacher(listed, <<TeacherOf[l], at.day>>), ClassOf[l])

SubScore(a, l, at) ==
    LET x == <<ClassOf[l], at.day, SubjectOf[l]>>
        n == a.subjCount[x]
        listed == [a EXCEPT
            !.subjCount[x] = IF n - 1 <= 0 THEN 0 ELSE n - 1,
            !.morningPen[l] = 0,
            !.teacherList[<<TeacherOf[l], at.day>>] = {e \in @ : e.lesson # l},
            !.classPerDay = Bump(@, ClassOf[l], at.day, -Length[l]),
            !.soft = @ + SubjectRepeatedInDay * (Repeat(n - 1) - Repeat(n))
                       - a.morningPen[l]]
    IN RecomputeClass(RecomputeTeacher(listed, <<TeacherOf[l], at.day>>), ClassOf[l])
=============================================================================
