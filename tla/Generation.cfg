SPECIFICATION Spec
CONSTANTS
    Timetable = {t}
    Lesson = {l1, l2}
    Slot = {s1, s2}
    Run = {r1, r2}
    Starter = {s, q}
    MaxFaults = 2
    None = None
INVARIANTS TypeOK OneRunAtATime LessonsAreOneRuns NoPartialRun
PROPERTY RunFinishesUnlessLost
CHECK_DEADLOCK FALSE
