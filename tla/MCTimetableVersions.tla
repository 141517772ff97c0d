------------------------- MODULE MCTimetableVersions -------------------------
(* TimetableVersions on small instances: the calendar of academic years and *)
(* the symmetry of the interchangeable row and request identities.          *)
EXTENDS TimetableVersions, FiniteSets, TLC

CONSTANTS Y1, Y2

(* One year that spans every day. *)
WholeYearStart == [y \in Year |-> 1]
WholeYearEnd == [y \in Year |-> LastDay]

(* Two years with a holiday between them. *)
TwoYearsStart == Y1 :> 1 @@ Y2 :> 4
TwoYearsEnd == Y1 :> 2 @@ Y2 :> 4

RowsAndRequests == Permutations(Timetable) \cup Permutations(Request)
Rows == Permutations(Timetable)

(* A bound: one archived or deleted version among the three. *)
FewRetired ==
    Cardinality({t \in Timetable : rows[t].deleted \/ rows[t].status = "ARCHIVED"}) <= 1
=============================================================================
