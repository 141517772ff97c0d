SPECIFICATION Spec
CONSTANTS
    P1 = P1
    Root = Root
    Teacher = Teacher
    Cbc = Cbc
    M1 = M1
    G7 = G7
    G8 = G8
    Amina = Amina
    Maths = Maths
    T1 = T1
    Sci = Sci
    Bell = Bell
    Olive = Olive
    Permissions <- MCPermissions
    Roles <- MCRoles
    Templates <- MCTemplates
    Modules <- MCModules
    Grades <- MCGrades
    Students <- MCStudents
    GradeOf <- MCGradeOf
    Subjects <- MCSubjects
    Staff <- MCStaff
    Departments <- MCDepartments
    TimetableRows <- MCTimetableRows
    Logins <- MCLogins
    Production = FALSE
    HasAdmin = TRUE
    Years = 2
    MaxRuns = 3
    MaxEdits = 1
INVARIANTS DoneMeansComplete EditsSurvive
PROPERTY RolesKeepPermissions
CHECK_DEADLOCK FALSE
