SPECIFICATION Spec
CONSTANTS
    A = a
    B = b
    C = c
    ClassX = x
    ClassY = y
    TeacherX = tx
    TeacherY = ty
    Lesson = {a, b}
    ClassOf <- TwoClasses
    TeacherOf <- TwoTeachers
    Class = {x, y}
    Teacher = {tx, ty}
    Day = {1}
    Period = {p1, p2, p3}
    Room = {r1}
    NoRoom = NoRoom
    SwapRequest = {q1}
    Editor = {}
    Decider = {g, h}
    MaxSetupChanges = 1
    Manager = Manager
    Keep = Keep
    Gone = Gone
    None = None
SYMMETRY SlotsAndHandlers
INVARIANTS TypeOK StatusTellsTheTruth NothingOutlivesItsPeriod
PROPERTIES DecisionIsFinalUnlessRaced
CHECK_DEADLOCK FALSE
