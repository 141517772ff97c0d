SPECIFICATION Spec
CONSTANTS
    Timetable = {a, b}
    Request = {r}
    LastDay = 4
    Year = {y1, y2}
    YearStart <- TwoYearsStart
    YearEnd <- TwoYearsEnd
    Y1 = y1
    Y2 = y2
    NoEnd = NoEnd
    Keep = Keep
    None = None
    NotLive = NotLive
INVARIANT DatesInsideYear
CHECK_DEADLOCK FALSE
