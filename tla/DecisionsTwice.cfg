SPECIFICATION Spec
CONSTANTS
    A = a
    B = b
    C = c
    ClassX = x
    ClassY = y
    TeacherX = tx
    TeacherY = ty
    Lesson = {a, b}
    ClassOf <- TwoClasses
    TeacherOf <- TwoTeachers
    Class = {x, y}
    Teacher = {tx, ty}
    Day = {1}
    Period = {p1, p2}
    Room = {r1}
    NoRoom = NoRoom
    SwapRequest = {q1}
    Editor = {}
    Decider = {g}
    MaxSetupChanges = 0
    Manager = Manager
    Keep = Keep
    Gone = Gone
    None = None
INVARIANT AppliedAtMostOnce
CHECK_DEADLOCK FALSE
