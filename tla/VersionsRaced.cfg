SPECIFICATION Spec
CONSTANTS
    Timetable = {a, b}
    Request = {r, q}
    LastDay = 2
    Year = {y1}
    YearStart <- WholeYearStart
    YearEnd <- WholeYearEnd
    Y1 = y1
    Y2 = y2
    NoEnd = NoEnd
    Keep = Keep
    None = None
    NotLive = NotLive
SYMMETRY RowsAndRequests
INVARIANTS TypeOK NoOverlapUnlessRaced
PROPERTIES UnracedStepsKeepCalendar NoClosingWithoutSuccessor LifecycleUnlessRaced
CHECK_DEADLOCK FALSE
