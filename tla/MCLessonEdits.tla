--------------------------- MODULE MCLessonEdits ---------------------------
(* LessonEdits on small instances: two classes and two teachers share three *)
(* lessons, so every lesson has a neighbour in its class or at its teacher. *)
EXTENDS LessonEdits, TLC

CONSTANTS A, B, C, ClassX, ClassY, TeacherX, TeacherY

Classes == A :> ClassX @@ B :> ClassX @@ C :> ClassY
Teachers == A :> TeacherX @@ B :> TeacherY @@ C :> TeacherX

TwoClasses == A :> ClassX @@ B :> ClassX
TwoTeachers == A :> TeacherX @@ B :> TeacherY

Slots == Permutations(Period)
Handlers == Permutations(Editor) \cup Permutations(Decider)
SlotsAndHandlers == Slots \cup Handlers
=============================================================================
