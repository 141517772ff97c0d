SPECIFICATION Spec
CONSTANTS
    A = a
    B = b
    C = c
    D = d
    E = e
    X = x
    Y = y
    T = t
    U = u
    R1 = r1
    R2 = r2
    Lab = lab
    Plain = plain
    Math = math
    Art = art
    Lesson = {a, b, c, d, e}
    Class = {x, y}
    Teacher = {t, u}
    Subject = {math, art}
    ClassOf <- TheClasses
    TeacherOf <- TheTeachers
    Length <- TheLengths
    Needs <- TheNeeds
    SubjectOf <- TheSubjects
    Days <- TheDays
    Orders <- TheOrders
    Rooms <- TheRooms
    RoomType <- TheRoomTypes
    Availabilities <- TheAvailabilities
    MaxPerClass = 3
    MaxPerTeacher <- TheLimits
    PrefersMorning = {c}
    MorningEnds = 2
    NoType = NoType
    NoRoom = NoRoom
    NoLimit = NoLimit
    None = None
    Unfit = Unfit
INVARIANTS TypeOK StaysValid IndexesAreExact TotalIsExact BestIsBest EveryLessonAccountedFor
PROPERTY RepairIsAllOrNothing
CHECK_DEADLOCK FALSE
