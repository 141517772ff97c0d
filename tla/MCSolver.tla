------------------------------ MODULE MCSolver ------------------------------
(* Solver on a small school: two classes and two teachers, two doubles and *)
(* three singles, two days of four periods with a break in the middle.  U  *)
(* teaches only at the start of the first day, where the greedy phase has  *)
(* put a double by then.                                                   *)
EXTENDS Solver, TLC

CONSTANTS A, B, C, D, E, X, Y, T, U, R1, R2, Lab, Plain, Math, Art

TheClasses == A :> X @@ B :> X @@ C :> Y @@ D :> Y @@ E :> Y
TheTeachers == A :> T @@ B :> U @@ C :> T @@ D :> U @@ E :> T
TheLengths == A :> 2 @@ B :> 1 @@ C :> 1 @@ D :> 1 @@ E :> 2
TheNeeds == A :> NoType @@ B :> Lab @@ C :> Lab @@ D :> NoType @@ E :> NoType
TheSubjects == A :> Math @@ B :> Art @@ C :> Math @@ D :> Art @@ E :> Math
TheRoomTypes == R1 :> Plain @@ R2 :> Lab
TheDays == <<1, 2>>
TheOrders == <<1, 2, 4, 5>>
TheRooms == <<R1, R2>>
Week == (1 .. 2) \X (1 .. 4)
OnlyAt(t, S) == {<<t, slot[1], slot[2]>> : slot \in Week \ S}
TheAvailabilities ==
    {OnlyAt(U, S) : S \in kSubset(2, {1} \X (1 .. 4))
                         \cup {{<<1, 1>>}, {<<1, 1>>, <<2, 3>>}, {<<1, 2>>, <<2, 2>>}}}
TheLimits == T :> 4 @@ U :> 2
=============================================================================
