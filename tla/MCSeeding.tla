----------------------------- MODULE MCSeeding -----------------------------
EXTENDS Seeding
CONSTANTS P1, Root, Teacher, Cbc, M1, G7, G8, Amina, Maths, T1, Sci, Bell, Olive

MCPermissions == <<P1>>
MCRoles == <<Root, Teacher>>
MCTemplates == <<Cbc>>
MCModules == <<M1>>
MCGrades == <<G7, G8>>
MCStudents == <<Amina>>
MCGradeOf == Amina :> G7
MCSubjects == <<Maths>>
MCStaff == <<T1>>
MCDepartments == <<Sci>>
MCTimetableRows == <<Bell>>
MCLogins == <<Olive>>
=============================================================================
