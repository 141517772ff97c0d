---------------------------- MODULE MCGeneration ----------------------------
(* Generation on small instances; lessons and slots are interchangeable. *)
EXTENDS Generation, TLC

LessonsSlotsRuns == Permutations(Lesson) \cup Permutations(Slot) \cup Permutations(Run)
=============================================================================
