SPECIFICATION Spec
SYMMETRY Symmetry
CONSTANTS
    Null = Null
    c1 = c1
    c2 = c2
    Main = Main
    West = West
    East = East
    Y1 = Y1
    Y2 = Y2
    Y3 = Y3
    S1 = S1
    S2 = S2
    S3 = S3
    S4 = S4
    G1 = G1
    G2 = G2
    G3 = G3
    G4 = G4
    K1 = K1
    K2 = K2
    K3 = K3
    Cbc = Cbc
    Own = Own
    Copy = Copy
    Maths = Maths
    Art = Art
    Craft = Craft
    Sums = Sums
    Sys = Sys
    Mine = Mine
    Twin = Twin
    O1 = O1
    N1 = N1
    N2 = N2
    N3 = N3
    Amina = Amina
    Brian = Brian
    Cleo = Cleo
    Ann = Ann
    Bea = Bea
    Cat = Cat
    T1 = T1
    T2 = T2
    T3 = T3
    Sci = Sci
    Lng = Lng
    Hum = Hum
    A1 = A1
    A2 = A2
    Clients <- MCClients
    School <- MCSchool
    Requests <- MCRequests
    Campuses <- MCCampuses
    Years <- MCYears
    Sections <- MCSections
    Grades <- MCGrades
    Classes <- MCClasses
    Curricula <- MCCurricula
    Subjects <- MCSubjects
    Schemes <- MCSchemes
    TermLists <- MCTermLists
    OrderOf <- MCOrderOf
    BandLists <- MCBandLists
    CurriculumOf <- MCCurriculumOf
    System <- MCSystem
    Students <- MCStudents
    Guardians <- MCGuardians
    Teachers <- MCTeachers
    Departments <- MCDepartments
    Assessments <- MCAssessments
    Marks <- MCMarks
    MaxRequests = 3
INVARIANTS SingletonsUnlessRaced TreeUnlessRaced EnrolmentsFollowTheirClass NobodyGoneIsNeeded
PROPERTY HistoryIsKept
CHECK_DEADLOCK FALSE
