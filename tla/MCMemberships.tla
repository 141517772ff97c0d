--------------------------- MODULE MCMemberships ---------------------------
(***************************************************************************)
(* A school with two roots and a teacher, another with one root, an        *)
(* applicant whose application is under review and whom both schools       *)
(* invite, one whose application was sent back, and an address that has no *)
(* account yet.                                                            *)
(***************************************************************************)
EXTENDS Memberships
CONSTANTS c1, c2, Ann, Ben, Cat, Dan, Eve, Fay, Gil, Old, New, A1, A2, A3, A4, Hill, Lake, Park, Bay,
          I1, I2, I3, T1, T2, T3, OrgAdmin, Teacher, View, Edit, Settings, Exams, Library

MCClients == {c1, c2}
MCEmails == {Ann, Ben, Cat, Dan, Eve, Fay, Gil}
MCApplications == {Old, New, A1, A2, A3, A4}
MCNames == {Hill, Lake, Park, Bay}
MCInvitations == {I1, I2, I3}
MCStaffIds == {T1, T2, T3}
MCRoles == {OrgAdmin, Teacher}
MCPermissions == {View, Edit}
MCModules == {Settings, Exams, Library}
MCCoreModules == {Settings}
MCDefaultModules == {Settings, Exams}
MCWatched == {Ben}

MemberOf(s) == [school |-> s, active |-> TRUE, live |-> TRUE]
By(u, status, name) == [user |-> u, status |-> status, name |-> name, complete |-> TRUE]
Invitation(s, u, t) == [school |-> s, user |-> u, roles |-> {Teacher}, staff |-> t,
                        status |-> "PENDING", expired |-> FALSE]
SchoolOf(name) == [name |-> name, status |-> "ACTIVE", live |-> TRUE, modules |-> MCDefaultModules]
Employed(s, u) == [school |-> s, user |-> u, live |-> TRUE]
MCPlatform == [
    user |-> (Ann :> MemberOf(Hill)) @@ (Ben :> MemberOf(Hill)) @@ (Cat :> MemberOf(Hill))
             @@ (Dan :> MemberOf(Null)) @@ (Eve :> MemberOf(Null)) @@ (Gil :> MemberOf(Bay)),
    holds |-> {<<Ann, OrgAdmin>>, <<Ben, OrgAdmin>>, <<Cat, Teacher>>, <<Gil, OrgAdmin>>},
    grants |-> (OrgAdmin :> {View, Edit}) @@ (Teacher :> {View}),
    application |-> (Old :> By(Ann, "APPROVED", Hill)) @@ (New :> By(Gil, "APPROVED", Bay))
                    @@ (A1 :> By(Eve, "CHANGES_REQUESTED", Lake)) @@ (A2 :> By(Dan, "PENDING", Park))
                    @@ (A4 :> By(Dan, "REJECTED", Park)),
    school |-> (Hill :> SchoolOf(Hill)) @@ (Bay :> SchoolOf(Bay)),
    invitation |-> (I1 :> Invitation(Hill, Dan, T1)) @@ (I2 :> Invitation(Bay, Dan, T3)),
    staff |-> (T1 :> Employed(Hill, Null)) @@ (T2 :> Employed(Hill, Cat)) @@ (T3 :> Employed(Bay, Null))]

MCRequests ==
    [op : {"account.register"}, id : {Fay}]
    \cup [op : {"user.remove"}, id : {Ann}]
    \cup [op : {"user.update"}, id : {Ben, Dan}, active : {FALSE}]
    \cup [op : {"draft.save"}, id : {A1}, user : {Eve}, name : {Park}, complete : {FALSE}]
    \cup [op : {"draft.save"}, id : {A2}, user : {Dan}, name : {Lake}, complete : {TRUE}]
    \cup [op : {"draft.save"}, id : {A3}, user : {Dan}, name : {Lake}, complete : {TRUE}]
    \cup [op : {"draft.submit"}, id : {A1}, user : {Eve}]
    \cup [op : {"draft.submit"}, id : {A2, A3}, user : {Dan}]
    \cup [op : {"application.create"}, id : {A3}, user : {Dan, Eve}, name : {Lake}]
    \cup [op : {"application.approve", "application.return", "application.reject"}, id : {A2}]
    \cup [op : {"application.approve"}, id : {A1}]
    \cup [op : {"school.rename"}, id : {Hill}, name : {Park}]
    \cup [op : {"school.status"}, id : {Hill}, status : {"SUSPENDED"}]
    \cup [op : {"school.delete"}, id : {Hill}]
    \cup [op : {"module.set"}, id : {Hill}, module : {Settings}, enabled : {FALSE}]
    \cup [op : {"module.set"}, id : {Hill}, module : {Library}, enabled : {TRUE}]
    \cup [op : {"invitation.create"}, id : {I3}, school : {Hill}, user : {Fay}, roles : {{Teacher}},
          staff : {T1}]
    \cup [op : {"invitation.revoke"}, id : {I1}]
    \cup [op : {"invitation.accept"}, id : {I1, I2}, user : {Dan}]
    \cup [op : {"invitation.accept"}, id : {I3}, user : {Fay}]
    \cup [op : {"staff.link"}, id : {T1}, user : {Ben, Cat}]
    \cup [op : {"role.remove"}, id : {Ann, Ben}, role : {OrgAdmin}, actor : {Ann}]
    \cup [op : {"role.assign"}, id : {Ben}, role : {Teacher}, actor : {Ann}]
    \cup [op : {"role.grants"}, id : {Teacher}, permissions : {{View, Edit}}]
=============================================================================
