SPECIFICATION Spec
CONSTANTS
    Timetable = {a, b, c}
    Request = {r}
    LastDay = 3
    Year = {y1}
    YearStart <- WholeYearStart
    YearEnd <- WholeYearEnd
    Y1 = y1
    Y2 = y2
    NoEnd = NoEnd
    Keep = Keep
    None = None
    NotLive = NotLive
SYMMETRY Rows
CONSTRAINT FewRetired
PROPERTIES ImplementsCalendar PublishSplitsTheCalendar
CHECK_DEADLOCK FALSE
