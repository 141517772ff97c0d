SPECIFICATION Spec
CONSTANTS
    A = a
    B = b
    C = c
    ClassX = x
    ClassY = y
    TeacherX = tx
    TeacherY = ty
    Lesson = {a, b, c}
    ClassOf <- Classes
    TeacherOf <- Teachers
    Class = {x, y}
    Teacher = {tx, ty}
    Day = {1}
    Period = {p1, p2, p3}
    Room = {r1}
    NoRoom = NoRoom
    SwapRequest = {}
    Editor = {g, h}
    Decider = {}
    MaxSetupChanges = 0
    Manager = Manager
    Keep = Keep
    Gone = Gone
    None = None
SYMMETRY SlotsAndHandlers
INVARIANT BackstopUnneeded
CHECK_DEADLOCK FALSE
