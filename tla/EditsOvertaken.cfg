SPECIFICATION Spec
CONSTANTS
    A = a
    B = b
    C = c
    ClassX = x
    ClassY = y
    TeacherX = tx
    TeacherY = ty
    Lesson = {a, b, c}
    ClassOf <- Classes
    TeacherOf <- Teachers
    Class = {x, y}
    Teacher = {tx, ty}
    Day = {1}
    Period = {p1, p2, p3}
    Room = {r1, r2}
    NoRoom = NoRoom
    SwapRequest = {}
    Editor = {g}
    Decider = {}
    MaxSetupChanges = 1
    Manager = Manager
    Keep = Keep
    Gone = Gone
    None = None
SYMMETRY SlotsAndHandlers
INVARIANTS OfferedMovesAreLegal OfferedSwapsAreLegal
PROPERTIES UnracedEditsAreLegal
CHECK_DEADLOCK FALSE
