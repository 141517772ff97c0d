---------------------------- MODULE Memberships ----------------------------
(***************************************************************************)
(* The requests of Onboarding, served concurrently: a handler checks,      *)
(* then writes, then does what it does after its write, and anything may   *)
(* happen in between.  What a user may do is looked up through RbacService *)
(* .getAccess: a per-process cache that is filled from a read of the       *)
(* database, emptied by the handlers that change roles, and trusted for a  *)
(* minute.  The process may stop at any point and come back without its    *)
(* cache and its requests.                                                 *)
(*                                                                         *)
(* The reads of one handler's checks are one step; every caller has passed *)
(* the guards of the route.                                                *)
(***************************************************************************)
EXTENDS Onboarding

CONSTANTS Clients, Platform, Requests, MaxRequests,
          Watched       \* the users whose access is looked up

ASSUME MembershipsAssumption ==
    MaxRequests \in Nat /\ Requests \subseteq OnboardingRequests /\ Watched \subseteq Emails

(* The tables and their columns. *)
Formed(d) ==
    /\ DOMAIN d = {"user", "holds", "grants", "application", "school", "invitation", "staff"}
    /\ \A u \in DOMAIN d.user : DOMAIN d.user[u] = {"school", "active", "live"}
    /\ \A a \in DOMAIN d.application : DOMAIN d.application[a] = {"user", "status", "name", "complete"}
    /\ \A s \in DOMAIN d.school : DOMAIN d.school[s] = {"name", "status", "live", "modules"}
    /\ \A i \in DOMAIN d.invitation :
         DOMAIN d.invitation[i] = {"school", "user", "roles", "staff", "status", "expired"}
    /\ \A t \in DOMAIN d.staff : DOMAIN d.staff[t] = {"school", "user", "live"}

(* Rows that name one another.  A role is held only by a member of a       *)
(* school, and an account that belongs to none was never deactivated.      *)
Tied(d) ==
    /\ \A u \in DOMAIN d.user : d.user[u].school # Null \/ (d.user[u].live /\ d.user[u].active)
    /\ \A h \in d.holds : h[1] \in DOMAIN d.user /\ d.user[h[1]].school # Null
    /\ \A a \in DOMAIN d.application : /\ d.application[a].user \in DOMAIN d.user
                                       /\ a # Null /\ d.application[a].name # Null
    /\ \A s \in DOMAIN d.school : s # Null /\ CoreModules \subseteq d.school[s].modules
    /\ \A i \in DOMAIN d.invitation : /\ d.invitation[i].school # Null
                                      /\ d.invitation[i].status = "ACCEPTED" =>
                                            d.invitation[i].user \in DOMAIN d.user
    /\ \A t \in DOMAIN d.staff : /\ d.staff[t].school # Null
                                 /\ d.staff[t].user \in DOMAIN d.user \cup {Null}

(* What can be wrong with memberships and applications: a school nobody    *)
(* administers, an accepted invitation or a link of staff whose account is *)
(* elsewhere, names asked for twice, incomplete applications under review, *)
(* approvals without a school and schools without one, deleted schools     *)
(* that are open.                                                          *)
Rootless(d) == {s \in DOMAIN d.school : Roots(d, s) = {}}
Strayed(d) == {i \in DOMAIN d.invitation : /\ d.invitation[i].status = "ACCEPTED"
                                           /\ d.user[d.invitation[i].user].school # d.invitation[i].school}
Mislinked(d) == {t \in DOMAIN d.staff : /\ d.staff[t].user # Null
                                        /\ d.user[d.staff[t].user].school # d.staff[t].school}
Approved(d) == {a \in DOMAIN d.application : d.application[a].status = "APPROVED"}
Twins(d) == {a \in Pending(d) : \E b \in Pending(d) \ {a} : d.application[a].name = d.application[b].name}
Incomplete(d) == {a \in Pending(d) : ~d.application[a].complete}
Unfounded(d) == {a \in Approved(d) : d.application[a].name \notin DOMAIN d.school}
Unapproved(d) == {s \in DOMAIN d.school : \A a \in Approved(d) : d.application[a].name # s}
Reopened(d) == {s \in DOMAIN d.school : ~d.school[s].live /\ d.school[s].status # "CANCELLED"}

\* The platform at the start is in order.
ASSUME PlatformAssumption ==
    /\ Formed(Platform) /\ Tied(Platform)
    /\ Rootless(Platform) \cup Strayed(Platform) \cup Mislinked(Platform) = {}
    /\ Twins(Platform) \cup Incomplete(Platform) \cup Unfounded(Platform) = {}
    /\ Unapproved(Platform) \cup Reopened(Platform) = {}

VARIABLES
    db,        \* the tables
    held,      \* held[c]: the request client c is being served, and how far
    asked,     \* how many requests got past their checks
    overtaken, \* history: the kinds of requests that wrote on checks no longer true
    cache,     \* RbacService.cache, and Null where it has no entry it would serve
    filling,   \* the access a look-up has read and not stored yet
    misfilled  \* history: users whose entry was out of date when it was stored

vars == <<db, held, asked, overtaken, cache, filling, misfilled>>

Idle == [req |-> Null, seen |-> Null, step |-> "check"]

Accepts(d, r) ==
    CASE r.op = "account.register" -> MayRegister(d, r)
      [] r.op = "user.update" -> MayUpdateUser(d, r)
      [] r.op = "user.remove" -> MayRemoveUser(d, r)
      [] r.op = "draft.save" -> MaySaveDraft(d, r)
      [] r.op = "draft.submit" -> MaySubmit(d, r)
      [] r.op = "application.create" -> MayApply(d, r)
      [] r.op = "application.approve" -> MayApprove(d, r)
      [] r.op \in {"application.return", "application.reject"} -> MayReview(d, r)
      [] r.op = "school.rename" -> MayRename(d, r)
      [] r.op = "school.status" -> MaySetStatus(d, r)
      [] r.op = "school.delete" -> MayDeleteSchool(d, r)
      [] r.op = "module.set" -> MaySetModule(d, r)
      [] r.op = "invitation.create" -> MayInvite(d, r) /\ r.id \notin DOMAIN d.invitation
      [] r.op = "invitation.revoke" -> MayRevoke(d, r)
      [] r.op = "invitation.accept" -> MayAccept(d, r)
      [] r.op = "staff.link" -> MayLinkUser(d, r)
      [] r.op = "role.assign" -> MayAssignRole(d, r)
      [] r.op = "role.remove" -> MayRemoveRole(d, r)
      [] r.op = "role.grants" -> MaySetGrants(d, r)

\* The row a handler has read and writes from or over.
Seen(d, r) ==
    IF r.op \in {"draft.save", "application.approve"} /\ r.id \in DOMAIN d.application
    THEN [d.application[r.id] EXCEPT !.status = "any"] ELSE Null

\* What the database checks when it is written: rows to change are there,
\* unique columns are unique.
Admits(d, r, seen) ==
    CASE r.op = "account.register" -> MayRegister(d, r)
      [] r.op = "draft.save" -> (seen # Null) <=> (r.id \in DOMAIN d.application)
      [] r.op = "draft.submit" -> r.id \in DOMAIN d.application
      [] r.op = "application.create" -> r.id \notin DOMAIN d.application
      [] r.op = "application.approve" ->
            seen.name \notin Taken(d) /\ <<seen.user, Root>> \notin d.holds
      [] r.op = "school.rename" -> MayRename(d, r)
      [] r.op = "invitation.create" -> r.id \notin DOMAIN d.invitation
      [] r.op = "invitation.accept" ->
            \A t \in LinkedOnAccept(d, r) : ~LinkedElsewhere(d, r.user, t)
      [] r.op = "staff.link" -> ~LinkedElsewhere(d, r.user, r.id)
      [] OTHER -> TRUE

Written(d, r, seen) ==
    CASE r.op = "account.register" -> Registered(d, r)
      [] r.op = "user.update" -> UserUpdated(d, r)
      [] r.op = "user.remove" -> UserRemoved(d, r)
      [] r.op = "draft.save" -> DraftSaved(d, r, seen)
      [] r.op = "draft.submit" -> Submitted(d, r)
      [] r.op = "application.create" -> Applied(d, r)
      [] r.op = "application.approve" -> Founded(d, r, seen)
      [] r.op = "application.return" -> Returned(d, r)
      [] r.op = "application.reject" -> Rejected(d, r)
      [] r.op = "school.rename" -> Renamed(d, r)
      [] r.op = "school.status" -> StatusSet(d, r)
      [] r.op = "school.delete" -> SchoolDeleted(d, r)
      [] r.op = "module.set" -> ModuleSet(d, r)
      [] r.op = "invitation.create" -> Invited(d, r)
      [] r.op = "invitation.revoke" -> Revoked(d, r)
      [] r.op = "invitation.accept" -> Accepted(d, r)
      [] r.op = "staff.link" -> UserLinked(d, r)
      [] r.op = "role.assign" -> RoleAssigned(d, r)
      [] r.op = "role.remove" -> RoleRemoved(d, r)
      [] r.op = "role.grants" -> GrantsSet(d, r)

\* A faulty variant: new grants reach nobody whose access is cached.
InvalidatesUsersOnly(r, seen) ==
    CASE r.op \in {"role.assign", "role.remove", "user.remove"} -> {r.id}
      [] r.op = "application.approve" -> {seen.user}
      [] r.op = "invitation.accept" -> {r.user}
      [] OTHER -> {}
\* Whose cached access a request drops once its write is done.
Invalidates(r, seen) ==
    CASE r.op \in {"role.assign", "role.remove", "user.remove"} -> {r.id}
      [] r.op = "application.approve" -> {seen.user}
      [] r.op = "invitation.accept" -> {r.user}
      [] r.op = "role.grants" -> Emails
      [] OTHER -> {}
HasMore(r, seen) == r.op = "application.create" \/ Invalidates(r, seen) # {}
-----------------------------------------------------------------------------
(* What getAccess reads: the user's roles and what they grant. *)
Access(d, u) ==
    LET roles == {x \in Roles : <<u, x>> \in d.holds}
    IN  [roles |-> roles, permissions |-> UNION {d.grants[x] : x \in roles}]

Init ==
    /\ db = Platform /\ held = [c \in Clients |-> Idle] /\ asked = 0 /\ overtaken = {}
    /\ cache = [u \in Watched |-> Null] /\ filling = cache /\ misfilled = {}

\* The handler's checks; a request they refuse leaves no trace.
Check(c) ==
    /\ held[c] = Idle /\ asked < MaxRequests
    /\ \E r \in Requests :
         /\ Accepts(db, r)
         \* no two new rows of a table with generated keys are the same row
         /\ \A o \in Clients : held[o] # Idle /\ r.op \in {"application.create", "invitation.create",
                                                            "draft.save"}
                                => held[o].req.id # r.id \/ held[o].seen # Null
         /\ held' = [held EXCEPT ![c] = [req |-> r, seen |-> Seen(db, r), step |-> "write"]]
    /\ asked' = asked + 1
    /\ UNCHANGED <<db, overtaken, cache, filling, misfilled>>

Overtaken(c) == ~Accepts(db, held[c].req) \/ Seen(db, held[c].req) # held[c].seen

\* The write, or the error the database answers it with.
Write(c) ==
    /\ held[c].step = "write"
    /\ LET r == held[c].req
           admitted == Admits(db, r, held[c].seen)
       IN  /\ db' = IF admitted THEN Written(db, r, held[c].seen) ELSE db
           /\ overtaken' = IF admitted /\ Overtaken(c) THEN overtaken \cup {r.op} ELSE overtaken
           /\ held' = [held EXCEPT ![c] = IF admitted /\ HasMore(r, @.seen)
                                           THEN [@ EXCEPT !.step = "after"] ELSE Idle]
    /\ UNCHANGED <<asked, cache, filling, misfilled>>

\* After the write: the drafts an application supersedes, or the invalidation.
Finish(c) ==
    /\ held[c].step = "after"
    /\ LET r == held[c].req
           dropped == Invalidates(r, held[c].seen)
       IN  /\ db' = IF r.op = "application.create" THEN DraftsDropped(db, r) ELSE db
           /\ cache' = [u \in Watched |-> IF u \in dropped THEN Null ELSE cache[u]]
           /\ misfilled' = misfilled \ dropped
    /\ held' = [held EXCEPT ![c] = Idle]
    /\ UNCHANGED <<asked, overtaken, filling>>

\* getAccess: a miss reads the user's roles, and stores the entry when the
\* answer has arrived.
LookUp(u) ==
    /\ cache[u] = Null /\ filling[u] = Null
    /\ filling' = [filling EXCEPT ![u] = Access(db, u)]
    /\ UNCHANGED <<db, held, asked, overtaken, cache, misfilled>>

Fill(u) ==
    /\ filling[u] # Null
    /\ cache' = [cache EXCEPT ![u] = filling[u]] /\ filling' = [filling EXCEPT ![u] = Null]
    /\ misfilled' = IF filling[u] = Access(db, u) THEN misfilled \ {u} ELSE misfilled \cup {u}
    /\ UNCHANGED <<db, held, asked, overtaken>>

\* A faulty variant: an entry that is asked for lives another minute.
Renew(u) == cache[u] # Null /\ UNCHANGED vars
\* The entry is older than CACHE_TTL_MS.
Expire(u) ==
    /\ cache[u] # Null
    /\ cache' = [cache EXCEPT ![u] = Null] /\ misfilled' = misfilled \ {u}
    /\ UNCHANGED <<db, held, asked, overtaken, filling>>

\* Seven days after it was sent an invitation can no longer be accepted.
Lapse(i) ==
    /\ i \in DOMAIN db.invitation /\ db.invitation[i].status = "PENDING" /\ ~db.invitation[i].expired
    /\ db' = [db EXCEPT !.invitation[i].expired = TRUE]
    /\ UNCHANGED <<held, asked, overtaken, cache, filling, misfilled>>

Restart ==
    /\ held' = [c \in Clients |-> Idle]
    /\ cache' = [u \in Watched |-> Null] /\ filling' = cache' /\ misfilled' = {}
    /\ UNCHANGED <<db, asked, overtaken>>

Next ==
    \/ \E c \in Clients : Check(c) \/ Write(c) \/ Finish(c)
    \/ \E u \in Watched : LookUp(u) \/ Fill(u) \/ Expire(u)
    \/ \E i \in Invitations : Lapse(i)
    \/ Restart

\* An await ends and a minute passes; nobody has to ask for anything.
Fairness ==
    /\ \A u \in Watched : WF_vars(Fill(u)) /\ WF_vars(Expire(u))
    /\ \A c \in Clients : WF_vars(Write(c)) /\ WF_vars(Finish(c))

Spec == Init /\ [][Next]_vars /\ Fairness
-----------------------------------------------------------------------------
Raced(ops) == overtaken \cap ops # {}

\* Where an account belongs and what it holds agree.  Every school keeps an
\* active holder of the root role ("a school must always keep at least one
\* holder"); a role is held only by a member of some school; an invitation
\* that was accepted is where its user went; a member of staff is linked to
\* an account of the same school.  Only requests that overtook one another
\* break these: two roots removed at once, an application approved while its
\* applicant accepts an invitation (and may be deactivated where he went).
MembershipsUnlessRaced ==
    /\ Tied(db)
    /\ Rootless(db) = {} \/ Raced({"role.remove", "user.update", "user.remove",
                                  "application.approve", "invitation.accept"})
    /\ Strayed(db) = {} \/ Raced({"application.approve", "invitation.accept"})
    /\ Mislinked(db) = {} \/ Raced({"application.approve", "invitation.accept"})

\* What is under review is complete and its name is asked for once; what was
\* approved has its school, and every school an approved application.  Only a
\* submission, a draft saved over one, or a review that overtook another
\* breaks these.
ApplicationsUnlessRaced ==
    /\ Twins(db) = {} \/ Raced({"draft.save", "draft.submit", "application.create"})
    /\ Incomplete(db) = {} \/ Raced({"draft.save", "draft.submit"})
    /\ Unfounded(db) = {} \/ Raced({"draft.save", "application.approve"})
    /\ Unapproved(db) = {} \/ Raced({"draft.save", "draft.submit", "application.approve",
                                    "application.return", "application.reject"})

\* A review's outcome and the deletion of a school are final, a used or
\* revoked invitation stays so: no later step takes one back, unless it wrote
\* on checks that were no longer true.
DecisionsAreFinal ==
    [][/\ \A a \in DOMAIN db.application : db.application[a].status \in {"APPROVED", "REJECTED"} =>
            \/ a \in DOMAIN db'.application /\ db'.application[a].status = db.application[a].status
            \/ Raced({"draft.submit", "application.approve", "application.return",
                      "application.reject"})'
       /\ \A s \in DOMAIN db.school : ~db.school[s].live =>
            ~db'.school[s].live /\ (db'.school[s].status = "CANCELLED" \/ Raced({"school.status"})')
       /\ \A i \in DOMAIN db.invitation : db.invitation[i].status \in {"ACCEPTED", "REVOKED"} =>
            \/ db'.invitation[i].status = db.invitation[i].status
            \/ Raced({"invitation.revoke", "invitation.accept"})']_vars

\* A cached access is what the database says of the user, unless the request
\* that changed it has still to invalidate it, or the entry was stored from a
\* read that a change had overtaken.
CacheFollowsRoles ==
    \A u \in Watched : (cache[u] # Null /\ cache[u] # Access(db, u)) =>
        \/ u \in misfilled
        \/ \E c \in Clients : held[c].step = "after" /\ u \in Invalidates(held[c].req, held[c].seen)

\* And when it is out of date, that ends.
StaleAccessEnds ==
    \A u \in Watched : (cache[u] # Null /\ cache[u] # Access(db, u))
                        ~> (cache[u] = Null \/ cache[u] = Access(db, u))
=============================================================================
