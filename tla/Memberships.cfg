SPECIFICATION Spec
CONSTANTS
    Null = Null
    c1 = c1
    c2 = c2
    Ann = Ann
    Ben = Ben
    Cat = Cat
    Dan = Dan
    Eve = Eve
    Fay = Fay
    Gil = Gil
    Old = Old
    New = New
    A1 = A1
    A2 = A2
    A3 = A3
    A4 = A4
    Hill = Hill
    Lake = Lake
    Park = Park
    Bay = Bay
    I1 = I1
    I2 = I2
    I3 = I3
    T1 = T1
    T2 = T2
    T3 = T3
    OrgAdmin = OrgAdmin
    Teacher = Teacher
    View = View
    Edit = Edit
    Settings = Settings
    Exams = Exams
    Library = Library
    Root = OrgAdmin
    Clients <- MCClients
    Emails <- MCEmails
    Applications <- MCApplications
    Names <- MCNames
    Invitations <- MCInvitations
    StaffIds <- MCStaffIds
    Roles <- MCRoles
    Permissions <- MCPermissions
    Modules <- MCModules
    CoreModules <- MCCoreModules
    DefaultModules <- MCDefaultModules
    Watched <- MCWatched
    Platform <- MCPlatform
    Requests <- MCRequests
    MaxRejected = 2
    MaxRequests = 3
INVARIANTS MembershipsUnlessRaced ApplicationsUnlessRaced CacheFollowsRoles
PROPERTIES DecisionsAreFinal StaleAccessEnds
CHECK_DEADLOCK FALSE
