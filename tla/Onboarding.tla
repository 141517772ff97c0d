----------------------------- MODULE Onboarding -----------------------------
(***************************************************************************)
(* How an account comes to belong to a school and what it may do there:    *)
(* applications for a new school and their review, invitations, roles and  *)
(* their grants, the link of a member of staff to an account, and what the *)
(* platform does to a school.  For each request when its handler gets past *)
(* its checks, and what it writes.                                         *)
(*                                                                         *)
(* An account is named by its e-mail address, a school by its sub-domain,  *)
(* which is asked for with the school's name and never changes after that. *)
(***************************************************************************)
EXTENDS SchoolTables

CONSTANTS Emails, Applications, Names, Invitations, StaffIds,
          Root,         \* TENANT_ROOT_ROLE
          Roles,        \* the seeded system roles a school can hold
          Permissions,
          Modules, CoreModules, DefaultModules,
          MaxRejected   \* MAX_REJECTED_REQUESTS

ASSUME OnboardingAssumption ==
    /\ Root \in Roles
    /\ CoreModules \subseteq DefaultModules /\ DefaultModules \subseteq Modules
    /\ MaxRejected \in Nat \ {0} /\ Null \notin Names \cup Applications

(* The routes, and what a request on each of them carries. *)

AccountRequests == [op : {"account.register", "user.remove"}, id : Emails]
                   \cup [op : {"user.update"}, id : Emails, active : BOOLEAN]
ApplicationRequests ==
    [op : {"draft.save"}, id : Applications, user : Emails, name : Names, complete : BOOLEAN]
    \cup [op : {"draft.submit"}, id : Applications, user : Emails]
    \cup [op : {"application.create"}, id : Applications, user : Emails, name : Names]
ReviewRequests == [op : {"application.approve", "application.return", "application.reject"},
                   id : Applications]
SchoolRequests ==
    [op : {"school.rename"}, id : Names, name : Names]
    \cup [op : {"school.status"}, id : Names, status : {"TRIAL", "ACTIVE", "SUSPENDED", "CANCELLED"}]
    \cup [op : {"school.delete"}, id : Names]
ModuleRequests == [op : {"module.set"}, id : Names, module : Modules, enabled : BOOLEAN]
InvitationRequests ==
    [op : {"invitation.create"}, id : Invitations, school : Names, user : Emails,
     roles : SUBSET Roles, staff : StaffIds \cup {Null}]
    \cup [op : {"invitation.revoke"}, id : Invitations]
    \cup [op : {"invitation.accept"}, id : Invitations, user : Emails]
StaffLinkRequests == [op : {"staff.link"}, id : StaffIds, user : Emails \cup {Null}]
RoleRequests == [op : {"role.assign", "role.remove"}, id : Emails, role : Roles, actor : Emails]
GrantRequests == [op : {"role.grants"}, id : Roles, permissions : SUBSET Permissions]

OnboardingRequests ==
    AccountRequests \cup ApplicationRequests \cup ReviewRequests \cup SchoolRequests
    \cup ModuleRequests \cup InvitationRequests \cup StaffLinkRequests \cup RoleRequests
    \cup GrantRequests
-----------------------------------------------------------------------------
(* Applications for a school. *)

Tenantless(d, u) == Live(d.user, u) /\ d.user[u].school = Null
ApplicationsOf(d, u, statuses) ==
    {a \in DOMAIN d.application : d.application[a].user = u /\ d.application[a].status \in statuses}
\* "CHANGES_REQUESTED behaves like a draft for the owner."
Editable(d, u) == ApplicationsOf(d, u, {"DRAFT", "CHANGES_REQUESTED"})
Pending(d) == {a \in DOMAIN d.application : d.application[a].status = "PENDING"}
RejectionLocked(d, u) == Cardinality(ApplicationsOf(d, u, {"REJECTED"})) >= MaxRejected
\* The names of the schools there are, and their sub-domains.
Taken(d) == DOMAIN d.school \cup {d.school[s].name : s \in DOMAIN d.school}

\* A faulty variant: only schools are looked at, not the names asked for.
NameOfNoSchool(d, name, except) == name \notin Taken(d)
NameAvailable(d, name, except) ==
    name \notin Taken(d) /\ \A a \in Pending(d) \ {except} : d.application[a].name # name

MaySaveDraft(d, r) ==
    /\ Tenantless(d, r.user) /\ ApplicationsOf(d, r.user, {"PENDING"}) = {}
    /\ \/ r.id \in Editable(d, r.user)
       \/ /\ Editable(d, r.user) = {} /\ r.id \notin DOMAIN d.application
          /\ ~RejectionLocked(d, r.user)
\* An application that exists keeps its status, whatever that is by now.
DraftSaved(d, r, seen) ==
    IF seen = Null
    THEN [d EXCEPT !.application = With(@, r.id, [user |-> r.user, status |-> "DRAFT", name |-> r.name,
                                                  complete |-> r.complete])]
    ELSE [d EXCEPT !.application[r.id] = [@ EXCEPT !.name = r.name, !.complete = r.complete]]

MaySubmit(d, r) ==
    /\ Tenantless(d, r.user) /\ r.id \in Editable(d, r.user)
    /\ NameAvailable(d, d.application[r.id].name, r.id) /\ d.application[r.id].complete
Submitted(d, r) == [d EXCEPT !.application[r.id].status = "PENDING"]

MayApply(d, r) ==
    /\ Tenantless(d, r.user) /\ ~RejectionLocked(d, r.user) /\ r.id \notin DOMAIN d.application
    /\ ApplicationsOf(d, r.user, {"PENDING"}) = {} /\ NameAvailable(d, r.name, Null)
Applied(d, r) ==
    [d EXCEPT !.application = With(@, r.id, [user |-> r.user, status |-> "PENDING", name |-> r.name,
                                             complete |-> TRUE])]
\* "A direct submission supersedes any draft": a statement after the insert.
DraftsDropped(d, r) == [d EXCEPT !.application = Without(@, ApplicationsOf(d, r.user, {"DRAFT"}))]

\* A faulty variant: whatever was submitted can be decided again.
MayReviewAgain(d, r) == r.id \in DOMAIN d.application /\ d.application[r.id].status # "DRAFT"
MayReview(d, r) == r.id \in Pending(d)
Returned(d, r) == [d EXCEPT !.application[r.id].status = "CHANGES_REQUESTED"]
Rejected(d, r) == [d EXCEPT !.application[r.id].status = "REJECTED"]

MayApprove(d, r) ==
    /\ MayReview(d, r)
    /\ d.user[d.application[r.id].user].school = Null
    /\ NameAvailable(d, d.application[r.id].name, r.id)
\* The school with its default modules, its founder and the founder's role are
\* made from the application as it was when it was checked.
Founded(d, r, seen) ==
    [d EXCEPT !.school = With(@, seen.name, [name |-> seen.name, status |-> "TRIAL", live |-> TRUE,
                                             modules |-> DefaultModules]),
              !.user[seen.user].school = seen.name,
              !.holds = @ \cup {<<seen.user, Root>>},
              !.application[r.id].status = "APPROVED"]
-----------------------------------------------------------------------------
(* The platform's view of a school, and its modules. *)

MayRename(d, r) == r.id \in DOMAIN d.school /\ \A s \in DOMAIN d.school \ {r.id} : d.school[s].name # r.name
Renamed(d, r) == [d EXCEPT !.school[r.id].name = r.name]

MaySetStatus(d, r) == Live(d.school, r.id) /\ d.school[r.id].status # r.status
StatusSet(d, r) == [d EXCEPT !.school[r.id].status = r.status]

MayDeleteSchool(d, r) == Live(d.school, r.id)
SchoolDeleted(d, r) == [d EXCEPT !.school[r.id] = [@ EXCEPT !.live = FALSE, !.status = "CANCELLED"]]

MaySetModule(d, r) == Live(d.school, r.id) /\ (r.module \in CoreModules => r.enabled)
ModuleSet(d, r) ==
    [d EXCEPT !.school[r.id].modules = IF r.enabled THEN @ \cup {r.module} ELSE @ \ {r.module}]
-----------------------------------------------------------------------------
(* Roles, grants and accounts. *)

Roots(d, s) == {u \in DOMAIN d.user : /\ <<u, Root>> \in d.holds
                                      /\ d.user[u].school = s /\ d.user[u].live /\ d.user[u].active}
IsLastOrgAdmin(d, u) == <<u, Root>> \in d.holds /\ Cardinality(Roots(d, d.user[u].school)) <= 1

\* The target is looked for in the school of the one who asks.
Administers(d, r) ==
    /\ r.actor \in DOMAIN d.user /\ d.user[r.actor].school # Null
    /\ r.role = Root => <<r.actor, Root>> \in d.holds
    /\ Live(d.user, r.id) /\ d.user[r.id].school = d.user[r.actor].school

MayAssignRole(d, r) == Administers(d, r)
RoleAssigned(d, r) == [d EXCEPT !.holds = @ \cup {<<r.id, r.role>>}]

MayRemoveRole(d, r) == Administers(d, r) /\ ~(r.role = Root /\ IsLastOrgAdmin(d, r.id))
RoleRemoved(d, r) == [d EXCEPT !.holds = @ \ {<<r.id, r.role>>}]

\* PERMISSION_LOCKED_ROLE_KEYS
MaySetGrants(d, r) == r.id # Root
GrantsSet(d, r) == [d EXCEPT !.grants[r.id] = r.permissions]

MayRegister(d, r) == r.id \notin DOMAIN d.user
Registered(d, r) == [d EXCEPT !.user = With(@, r.id, [school |-> Null, active |-> TRUE, live |-> TRUE])]

Member(d, u) == Live(d.user, u) /\ d.user[u].school # Null
\* A faulty variant: the last root can be deactivated.
MayUpdateAnyUser(d, r) == Member(d, r.id)
MayUpdateUser(d, r) == Member(d, r.id) /\ (r.active \/ ~IsLastOrgAdmin(d, r.id))
UserUpdated(d, r) == [d EXCEPT !.user[r.id].active = r.active]

MayRemoveUser(d, r) == Member(d, r.id) /\ ~IsLastOrgAdmin(d, r.id)
UserRemoved(d, r) == [d EXCEPT !.user[r.id] = [@ EXCEPT !.live = FALSE, !.active = FALSE]]
-----------------------------------------------------------------------------
(* Invitations, and the link of a member of staff to an account. *)

MayInvite(d, r) ==
    /\ Root \notin r.roles
    /\ r.user \in DOMAIN d.user => d.user[r.user].school = Null
    /\ \A i \in DOMAIN d.invitation :
         ~(/\ d.invitation[i].school = r.school /\ d.invitation[i].user = r.user
           /\ d.invitation[i].status = "PENDING" /\ ~d.invitation[i].expired)
    /\ r.staff # Null => /\ Live(d.staff, r.staff) /\ d.staff[r.staff].user = Null
                         /\ d.staff[r.staff].school = r.school
Invited(d, r) ==
    [d EXCEPT !.invitation = With(@, r.id, [school |-> r.school, user |-> r.user, roles |-> r.roles,
                                            staff |-> r.staff, status |-> "PENDING", expired |-> FALSE])]

MayRevoke(d, r) == r.id \in DOMAIN d.invitation /\ d.invitation[r.id].status = "PENDING"
Revoked(d, r) == [d EXCEPT !.invitation[r.id].status = "REVOKED"]

MayAccept(d, r) ==
    /\ MayRevoke(d, r) /\ ~d.invitation[r.id].expired
    /\ Tenantless(d, r.user) /\ d.invitation[r.id].user = r.user
\* "Never steal a link that's already set."
LinkedOnAccept(d, r) ==
    LET i == d.invitation[r.id] IN
    {t \in {i.staff} \ {Null} : /\ d.staff[t].school = i.school /\ d.staff[t].user = Null
                                /\ d.staff[t].live}
Accepted(d, r) ==
    LET i == d.invitation[r.id] IN
    [d EXCEPT !.user[r.user].school = i.school,
              !.holds = @ \cup {<<r.user, x>> : x \in i.roles},
              !.staff = [t \in DOMAIN @ |-> IF t \in LinkedOnAccept(d, r)
                                             THEN [@[t] EXCEPT !.user = r.user] ELSE @[t]],
              !.invitation[r.id].status = "ACCEPTED"]

MayLinkUser(d, r) ==
    /\ Live(d.staff, r.id)
    /\ r.user # Null =>
         /\ Live(d.user, r.user) /\ d.user[r.user].school = d.staff[r.id].school
         /\ \A t \in DOMAIN d.staff \ {r.id} : ~(d.staff[t].live /\ d.staff[t].user = r.user)
UserLinked(d, r) == [d EXCEPT !.staff[r.id].user = r.user]
\* Staff.userId is unique.
LinkedElsewhere(d, u, t) == u # Null /\ \E s \in DOMAIN d.staff \ {t} : d.staff[s].user = u
=============================================================================
