--------------------------- MODULE MembershipsProofs ---------------------------
(***************************************************************************)
(* Proofs about Memberships, for any platform, any number of clients and   *)
(* any requests.  First the access cache: what a user may do depends on    *)
(* the roles held and on what they grant; of all requests only five change *)
(* either, and each drops the entries of those it may concern after its    *)
(* write.                                                                  *)
(***************************************************************************)
EXTENDS Memberships, FiniteSetTheorems, TLAPS

Tables == {"user", "holds", "grants", "application", "school", "invitation", "staff"}

Shapes ==
    /\ DOMAIN db = Tables
    /\ DOMAIN held = Clients
    /\ \A c \in Clients : DOMAIN held[c] = {"req", "seen", "step"}
    /\ \A c \in Clients : held[c].step # "check" => held[c].req \in Requests
    /\ cache = [u \in Watched |-> cache[u]]

InvalidationPending(u) ==
    \E c \in Clients : held[c].step = "after" /\ u \in Invalidates(held[c].req, held[c].seen)

CInv == Shapes /\ CacheFollowsRoles

SameAccess(d, e, u) == Access(d, u) = Access(e, u)

LEMMA AccessOfSameRoles ==
  ASSUME NEW d, NEW e, NEW u, d.grants = e.grants,
         \A x \in Roles : <<u, x>> \in d.holds <=> <<u, x>> \in e.holds
  PROVE  SameAccess(d, e, u)
  BY DEF SameAccess, Access

(* The requests that leave roles and grants alone. *)
Elsewhere == {"account.register", "user.update", "user.remove", "draft.save", "draft.submit",
              "application.create", "application.return", "application.reject",
              "school.rename", "school.status", "school.delete", "module.set",
              "invitation.create", "invitation.revoke", "staff.link"}

LEMMA OpsOfRequests ==
  ASSUME NEW r \in Requests
  PROVE  r.op \in Elsewhere \cup {"application.approve", "invitation.accept",
                                  "role.assign", "role.remove", "role.grants"}
<1>1. r \in OnboardingRequests BY MembershipsAssumption
<1> QED
  BY <1>1 DEF OnboardingRequests, AccountRequests, ApplicationRequests, ReviewRequests,
     SchoolRequests, ModuleRequests, InvitationRequests, StaffLinkRequests, RoleRequests,
     GrantRequests, Elsewhere

LEMMA WritesElsewhere ==
  ASSUME NEW d, DOMAIN d = Tables, NEW r, r.op \in Elsewhere, NEW seen
  PROVE  /\ DOMAIN Written(d, r, seen) = Tables
         /\ Written(d, r, seen).holds = d.holds
         /\ Written(d, r, seen).grants = d.grants
<1> USE DEF Tables
<1>1. CASE r.op = "account.register" BY <1>1 DEF Written, Registered
<1>2. CASE r.op = "user.update" BY <1>2 DEF Written, UserUpdated
<1>3. CASE r.op = "user.remove" BY <1>3 DEF Written, UserRemoved
<1>4. CASE r.op = "draft.save" BY <1>4 DEF Written, DraftSaved
<1>5. CASE r.op = "draft.submit" BY <1>5 DEF Written, Submitted
<1>6. CASE r.op = "application.create" BY <1>6 DEF Written, Applied
<1>7. CASE r.op = "application.return" BY <1>7 DEF Written, Returned
<1>8. CASE r.op = "application.reject" BY <1>8 DEF Written, Rejected
<1>9. CASE r.op = "school.rename" BY <1>9 DEF Written, Renamed
<1>10. CASE r.op = "school.status" BY <1>10 DEF Written, StatusSet
<1>11. CASE r.op = "school.delete" BY <1>11 DEF Written, SchoolDeleted
<1>12. CASE r.op = "module.set" BY <1>12 DEF Written, ModuleSet
<1>13. CASE r.op = "invitation.create" BY <1>13 DEF Written, Invited
<1>14. CASE r.op = "invitation.revoke" BY <1>14 DEF Written, Revoked
<1>15. CASE r.op = "staff.link" BY <1>15 DEF Written, UserLinked
<1> QED BY <1>1, <1>2, <1>3, <1>4, <1>5, <1>6, <1>7, <1>8, <1>9, <1>10, <1>11, <1>12, <1>13,
           <1>14, <1>15 DEF Elsewhere

(* Whoever's access a write changes is among those it will invalidate. *)
LEMMA WritesKeepAccess ==
  ASSUME NEW d, DOMAIN d = Tables, NEW r \in Requests, NEW seen,
         NEW u \in Watched, u \notin Invalidates(r, seen)
  PROVE  SameAccess(Written(d, r, seen), d, u)
<1> DEFINE e == Written(d, r, seen)
<1> USE DEF Tables
<1>1. CASE r.op \in Elsewhere BY <1>1, WritesElsewhere, AccessOfSameRoles
<1>2. CASE r.op = "application.approve"
  <2>1. u # seen.user BY <1>2 DEF Invalidates
  <2>2. e.holds = d.holds \cup {<<seen.user, Root>>} /\ e.grants = d.grants
    BY <1>2 DEF Written, Founded
  <2>3. \A x \in Roles : <<u, x>> \in e.holds <=> <<u, x>> \in d.holds BY <2>1, <2>2
  <2> HIDE DEF e
  <2>4. SameAccess(e, d, u) BY <2>2, <2>3, AccessOfSameRoles
  <2> QED BY <2>4 DEF e
<1>3. CASE r.op = "invitation.accept"
  <2>1. u # r.user BY <1>3 DEF Invalidates
  <2>2. /\ e.holds = d.holds \cup {<<r.user, x>> : x \in d.invitation[r.id].roles}
        /\ e.grants = d.grants
    BY <1>3 DEF Written, Accepted
  <2>3. \A x \in Roles : <<u, x>> \in e.holds <=> <<u, x>> \in d.holds BY <2>1, <2>2
  <2> HIDE DEF e
  <2>4. SameAccess(e, d, u) BY <2>2, <2>3, AccessOfSameRoles
  <2> QED BY <2>4 DEF e
<1>4. CASE r.op = "role.assign"
  <2>1. u # r.id BY <1>4 DEF Invalidates
  <2>2. e.holds = d.holds \cup {<<r.id, r.role>>} /\ e.grants = d.grants
    BY <1>4 DEF Written, RoleAssigned
  <2>3. \A x \in Roles : <<u, x>> \in e.holds <=> <<u, x>> \in d.holds BY <2>1, <2>2
  <2> HIDE DEF e
  <2>4. SameAccess(e, d, u) BY <2>2, <2>3, AccessOfSameRoles
  <2> QED BY <2>4 DEF e
<1>5. CASE r.op = "role.remove"
  <2>1. u # r.id BY <1>5 DEF Invalidates
  <2>2. e.holds = d.holds \ {<<r.id, r.role>>} /\ e.grants = d.grants
    BY <1>5 DEF Written, RoleRemoved
  <2>3. \A x \in Roles : <<u, x>> \in e.holds <=> <<u, x>> \in d.holds BY <2>1, <2>2
  <2> HIDE DEF e
  <2>4. SameAccess(e, d, u) BY <2>2, <2>3, AccessOfSameRoles
  <2> QED BY <2>4 DEF e
<1>6. r.op # "role.grants" BY MembershipsAssumption DEF Invalidates
<1> QED BY <1>1, <1>2, <1>3, <1>4, <1>5, <1>6, OpsOfRequests

LEMMA WritesKeepTables ==
  ASSUME NEW d, DOMAIN d = Tables, NEW r \in Requests, NEW seen
  PROVE  DOMAIN Written(d, r, seen) = Tables
<1>1. CASE r.op \in Elsewhere BY <1>1, WritesElsewhere
<1>2. CASE r.op = "application.approve" BY <1>2 DEF Written, Founded, Tables
<1>3. CASE r.op = "invitation.accept" BY <1>3 DEF Written, Accepted, Tables
<1>4. CASE r.op = "role.assign" BY <1>4 DEF Written, RoleAssigned, Tables
<1>5. CASE r.op = "role.remove" BY <1>5 DEF Written, RoleRemoved, Tables
<1>6. CASE r.op = "role.grants" BY <1>6 DEF Written, GrantsSet, Tables
<1> QED BY <1>1, <1>2, <1>3, <1>4, <1>5, <1>6, OpsOfRequests

-----------------------------------------------------------------------------

LEMMA CInit == Init => CInv
<1> SUFFICES ASSUME Init PROVE CInv OBVIOUS
<1>1. DOMAIN db = Tables BY PlatformAssumption DEF Init, Formed, Tables
<1>2. \A c \in Clients : held[c].step = "check" /\ DOMAIN held[c] = {"req", "seen", "step"}
  BY DEF Init, Idle
<1>3. \A u \in Watched : cache[u] = Null BY DEF Init
<1> QED BY <1>1, <1>2, <1>3 DEF Init, CInv, Shapes, CacheFollowsRoles

LEMMA CheckKeeps ==
  ASSUME CInv, NEW c \in Clients, Check(c)
  PROVE  CInv'
<1>1. PICK r \in Requests :
          held' = [held EXCEPT ![c] = [req |-> r, seen |-> Seen(db, r), step |-> "write"]]
  BY DEF Check
<1>2. held[c].step = "check" /\ UNCHANGED <<db, cache, misfilled>> BY DEF Check, Idle
<1>3. \A o \in Clients : o # c => held'[o] = held[o] BY <1>1 DEF CInv, Shapes
<1>4. held'[c].step = "write" /\ held'[c].req = r BY <1>1 DEF CInv, Shapes
<1>5. Shapes' BY <1>1, <1>2, <1>3, <1>4 DEF CInv, Shapes
<1>6. ASSUME NEW u \in Watched, InvalidationPending(u) PROVE InvalidationPending(u)'
  BY <1>2, <1>3, <1>6 DEF InvalidationPending
<1>7. CacheFollowsRoles'
  BY <1>2, <1>6 DEF CInv, CacheFollowsRoles, InvalidationPending
<1> QED BY <1>5, <1>7 DEF CInv

(* The write: whose access it changes waits for the invalidation from now  *)
(* on.                                                                     *)
LEMMA WriteKeeps ==
  ASSUME CInv, NEW c \in Clients, Write(c)
  PROVE  CInv'
<1> DEFINE r == held[c].req
           seen == held[c].seen
           admitted == Admits(db, r, seen)
           on == [held[c] EXCEPT !.step = "after"]
<1>1. /\ held[c].step = "write" /\ UNCHANGED <<cache, misfilled>>
      /\ db' = IF admitted THEN Written(db, r, seen) ELSE db
      /\ held' = [held EXCEPT ![c] = IF admitted /\ HasMore(r, seen) THEN on ELSE Idle]
  BY DEF Write
<1>2. r \in Requests BY <1>1 DEF CInv, Shapes
<1>3. DOMAIN db = Tables /\ DOMAIN held = Clients BY DEF CInv, Shapes
<1>4. DOMAIN db' = Tables BY <1>1, <1>2, <1>3, WritesKeepTables
<1>5. \A o \in Clients : o # c => held'[o] = held[o] BY <1>1, <1>3
<1>6. held'[c] = IF admitted /\ HasMore(r, seen) THEN on ELSE Idle BY <1>1, <1>3
<1>7. DOMAIN held' = Clients BY <1>1, <1>3
<1>8. on.req = r /\ on.seen = seen /\ on.step = "after" /\ DOMAIN on = {"req", "seen", "step"}
  BY DEF CInv, Shapes
<1>9. Shapes'
  <2>1. ASSUME NEW o \in Clients
        PROVE  /\ DOMAIN held'[o] = {"req", "seen", "step"}
               /\ held'[o].step # "check" => held'[o].req \in Requests
    <3>1. CASE o = c
      <4> HIDE DEF on, admitted
      <4> QED BY <3>1, <1>2, <1>6, <1>8 DEF Idle
    <3>2. CASE o # c BY <3>2, <1>5 DEF CInv, Shapes
    <3> QED BY <3>1, <3>2
  <2> HIDE DEF on, admitted
  <2> QED BY <2>1, <1>1, <1>4, <1>7 DEF CInv, Shapes
<1>10. CacheFollowsRoles'
  <2> HIDE DEF on, admitted
  <2> SUFFICES ASSUME NEW u \in Watched,
                      cache'[u] # Null /\ cache'[u] # Access(db', u), u \notin misfilled'
               PROVE  InvalidationPending(u)'
    BY DEF CacheFollowsRoles, InvalidationPending
  <2>1. CASE admitted /\ u \in Invalidates(r, seen)
    <3>1. HasMore(r, seen) BY <2>1 DEF HasMore
    <3>2. held'[c] = on BY <3>1, <2>1, <1>6
    <3> QED BY <3>2, <2>1, <1>8 DEF InvalidationPending
  <2>2. CASE ~(admitted /\ u \in Invalidates(r, seen))
    <3>1. Access(db', u) = Access(db, u)
      <4>1. CASE admitted
        BY <4>1, <2>2, <1>1, <1>2, <1>3, WritesKeepAccess DEF SameAccess
      <4>2. CASE ~admitted BY <4>2, <1>1
      <4> QED BY <4>1, <4>2
    <3>2. cache[u] # Null /\ cache[u] # Access(db, u) /\ u \notin misfilled BY <3>1, <1>1
    <3>3. PICK o \in Clients : held[o].step = "after" /\ u \in Invalidates(held[o].req, held[o].seen)
      BY <3>2 DEF CInv, CacheFollowsRoles
    <3>4. o # c BY <3>3, <1>1
    <3> QED BY <3>3, <3>4, <1>5 DEF InvalidationPending
  <2> QED BY <2>1, <2>2
<1> QED BY <1>9, <1>10 DEF CInv

(* The invalidation: the entries it was pending for are gone. *)
LEMMA FinishKeeps ==
  ASSUME CInv, NEW c \in Clients, Finish(c)
  PROVE  CInv'
<1> DEFINE r == held[c].req
           dropped == Invalidates(r, held[c].seen)
<1>1. /\ db' = IF r.op = "application.create" THEN DraftsDropped(db, r) ELSE db
      /\ cache' = [u \in Watched |-> IF u \in dropped THEN Null ELSE cache[u]]
      /\ misfilled' = misfilled \ dropped
      /\ held' = [held EXCEPT ![c] = Idle]
  BY DEF Finish
<1>2. DOMAIN db = Tables /\ DOMAIN held = Clients BY DEF CInv, Shapes
<1>3. DOMAIN db' = Tables /\ db'.holds = db.holds /\ db'.grants = db.grants
  BY <1>1, <1>2 DEF DraftsDropped, Tables
<1>4. \A u : Access(db', u) = Access(db, u) BY <1>3 DEF Access
<1>5. /\ DOMAIN held' = Clients /\ held'[c] = Idle
      /\ \A o \in Clients : o # c => held'[o] = held[o]
  BY <1>1, <1>2
<1>6. Shapes'
  <2>1. ASSUME NEW o \in Clients
        PROVE  /\ DOMAIN held'[o] = {"req", "seen", "step"}
               /\ held'[o].step # "check" => held'[o].req \in Requests
    <3>1. CASE o = c BY <3>1, <1>5 DEF Idle
    <3>2. CASE o # c BY <3>2, <1>5 DEF CInv, Shapes
    <3> QED BY <3>1, <3>2
  <2> HIDE DEF dropped
  <2> QED BY <2>1, <1>1, <1>3, <1>5 DEF Shapes
<1>7. CacheFollowsRoles'
  <2> SUFFICES ASSUME NEW u \in Watched,
                      cache'[u] # Null /\ cache'[u] # Access(db', u), u \notin misfilled'
               PROVE  InvalidationPending(u)'
    BY DEF CacheFollowsRoles, InvalidationPending
  <2>1. u \notin dropped /\ cache'[u] = cache[u] /\ u \notin misfilled BY <1>1
  <2>2. PICK o \in Clients : held[o].step = "after" /\ u \in Invalidates(held[o].req, held[o].seen)
    BY <2>1, <1>4 DEF CInv, CacheFollowsRoles
  <2>3. o # c BY <2>1, <2>2
  <2> QED BY <2>2, <2>3, <1>5 DEF InvalidationPending
<1> QED BY <1>6, <1>7 DEF CInv

(* The cache's own steps, and an invitation that lapses. *)
LEMMA CacheStepsKeep ==
  ASSUME CInv,
         \/ \E u \in Watched : LookUp(u) \/ Fill(u) \/ Expire(u)
         \/ \E i \in Invitations : Lapse(i)
         \/ Restart
  PROVE  CInv'
<1> USE DEF CInv
<1>1. ASSUME NEW u \in Watched, LookUp(u) PROVE CInv'
  BY <1>1 DEF LookUp, Shapes, CacheFollowsRoles
<1>2. ASSUME NEW u \in Watched, Fill(u) PROVE CInv'
  <2>1. /\ UNCHANGED <<db, held>> /\ cache' = [cache EXCEPT ![u] = filling[u]]
        /\ misfilled' = IF filling[u] = Access(db, u) THEN misfilled \ {u} ELSE misfilled \cup {u}
    BY <1>2 DEF Fill
  <2>2. \A v \in Watched : cache'[v] = IF v = u THEN filling[u] ELSE cache[v]
    BY <2>1 DEF Shapes
  <2>3. Shapes' BY <2>1 DEF Shapes
  <2>4. CacheFollowsRoles' BY <2>1, <2>2 DEF CacheFollowsRoles
  <2> QED BY <2>3, <2>4
<1>3. ASSUME NEW u \in Watched, Expire(u) PROVE CInv'
  <2>1. /\ UNCHANGED <<db, held>> /\ cache' = [cache EXCEPT ![u] = Null]
        /\ misfilled' = misfilled \ {u}
    BY <1>3 DEF Expire
  <2>2. \A v \in Watched : cache'[v] = IF v = u THEN Null ELSE cache[v]
    BY <2>1 DEF Shapes
  <2>3. Shapes' BY <2>1 DEF Shapes
  <2>4. CacheFollowsRoles' BY <2>1, <2>2 DEF CacheFollowsRoles
  <2> QED BY <2>3, <2>4
<1>4. ASSUME NEW i \in Invitations, Lapse(i) PROVE CInv'
  <2>1. /\ db' = [db EXCEPT !.invitation[i].expired = TRUE]
        /\ UNCHANGED <<held, cache, misfilled>>
    BY <1>4 DEF Lapse
  <2>2. DOMAIN db' = Tables /\ db'.holds = db.holds /\ db'.grants = db.grants
    BY <2>1 DEF Shapes, Tables
  <2>3. \A u : Access(db', u) = Access(db, u) BY <2>2 DEF Access
  <2>4. Shapes' BY <2>1, <2>2 DEF Shapes
  <2>5. CacheFollowsRoles' BY <2>1, <2>3 DEF CacheFollowsRoles
  <2> QED BY <2>4, <2>5
<1>5. CASE Restart
  <2>1. /\ UNCHANGED db /\ held' = [c \in Clients |-> Idle]
        /\ cache' = [u \in Watched |-> Null]
    BY <1>5 DEF Restart
  <2>2. Shapes' BY <2>1 DEF Shapes, Idle
  <2>3. CacheFollowsRoles' BY <2>1 DEF CacheFollowsRoles
  <2> QED BY <2>2, <2>3
<1> QED BY <1>1, <1>2, <1>3, <1>4, <1>5

LEMMA CNext == CInv /\ [Next]_vars => CInv'
<1> SUFFICES ASSUME CInv, [Next]_vars PROVE CInv' OBVIOUS
<1>1. CASE UNCHANGED vars
  BY <1>1 DEF vars, CInv, Shapes, CacheFollowsRoles
<1>2. CASE Next
  BY <1>2, CheckKeeps, WriteKeeps, FinishKeeps, CacheStepsKeep DEF Next
<1> QED BY <1>1, <1>2

(* RbacService.invalidate, called by the handlers that change what a user  *)
(* may do, reaches everybody their writes concern: an entry of getAccess's *)
(* cache is out of date only while such a call is still to come, or if it  *)
(* was stored from a read that a change overtook.                          *)
THEOREM CacheHolds == Spec => []CacheFollowsRoles
<1>1. CInv => CacheFollowsRoles BY DEF CInv
<1> QED BY <1>1, CInit, CNext, PTL DEF Spec

-----------------------------------------------------------------------------
(***************************************************************************)
(* Then where accounts belong, what becomes of applications, and which     *)
(* decisions are final.                                                    *)
(*                                                                         *)
(* A handler that has passed its checks holds a pledge: of what it read,   *)
(* the part no other request can take back.  An account that belongs to a  *)
(* school always will, what is under review is never a draft again, an     *)
(* invitation is always for the same account.  With its pledge a write     *)
(* keeps the tables tied, overtaken or not; the other properties need that *)
(* it was not overtaken.                                                   *)
(***************************************************************************)

Only(d, e, T) == DOMAIN e = Tables /\ \A t \in Tables \ T : e[t] = d[t]

Pledge(d, r, seen) ==
    /\ r.op \in {"user.update", "user.remove", "role.assign"} =>
          r.id \in DOMAIN d.user /\ d.user[r.id].school # Null
    /\ r.op \in {"draft.save", "application.create"} => r.user \in DOMAIN d.user
    /\ r.op = "application.approve" =>
          /\ r.id \in DOMAIN d.application /\ d.application[r.id].status # "DRAFT"
          /\ seen.user \in DOMAIN d.user /\ seen.name # Null
    /\ r.op = "invitation.accept" =>
          /\ r.id \in DOMAIN d.invitation /\ r.user \in DOMAIN d.user
          /\ d.invitation[r.id].user = r.user
    /\ r.op = "staff.link" => r.id \in DOMAIN d.staff /\ r.user \in DOMAIN d.user \cup {Null}
    /\ r.op = "module.set" => (r.module \in CoreModules => r.enabled)

(* What a write never takes back. *)
Grows(d, e) ==
    /\ \A u \in DOMAIN d.user :
         u \in DOMAIN e.user /\ (d.user[u].school # Null => e.user[u].school # Null)
    /\ \A a \in DOMAIN d.application : d.application[a].status # "DRAFT" =>
          a \in DOMAIN e.application /\ e.application[a].status # "DRAFT"
    /\ \A i \in DOMAIN d.invitation :
         i \in DOMAIN e.invitation /\ e.invitation[i].user = d.invitation[i].user
    /\ \A t \in DOMAIN d.staff : t \in DOMAIN e.staff /\ e.staff[t].school = d.staff[t].school

Pledged == \A c \in Clients : held[c].step = "write" => Pledge(db, held[c].req, held[c].seen)

\* A member of staff is about to be linked to an account of the same school.
Neighbours(d, r) ==
    r.op = "staff.link" /\ r.user # Null => d.user[r.user].school = d.staff[r.id].school
LinksPledged ==
    \/ \A c \in Clients : held[c].step = "write" => Neighbours(db, held[c].req)
    \/ Raced({"application.approve", "invitation.accept"})
-----------------------------------------------------------------------------
(* The fields of a request that a row is made of are values. *)
LEMMA FieldsOfRequests ==
  ASSUME NEW r \in Requests
  PROVE  /\ r.op \in {"draft.save", "application.create"} => r.id # Null /\ r.name # Null
         /\ r.op = "invitation.create" => r.school # Null
<1>1. r \in OnboardingRequests BY MembershipsAssumption
<1>2. r.op \in {"draft.save", "application.create"} => r \in ApplicationRequests
  BY <1>1 DEF OnboardingRequests, AccountRequests, ApplicationRequests, ReviewRequests,
     SchoolRequests, ModuleRequests, InvitationRequests, StaffLinkRequests, RoleRequests, GrantRequests
<1>3. r.op = "invitation.create" => r \in InvitationRequests
  BY <1>1 DEF OnboardingRequests, AccountRequests, ApplicationRequests, ReviewRequests,
     SchoolRequests, ModuleRequests, InvitationRequests, StaffLinkRequests, RoleRequests, GrantRequests
<1> QED
  BY <1>2, <1>3, OnboardingAssumption DEF ApplicationRequests, InvitationRequests

(* What is kept by a write, whatever the others did since its checks. *)
Keeps(d, e) == Formed(e) /\ Tied(e) /\ Grows(d, e)

(* Table by table: it is enough that the changed rows are in order. *)
LEMMA SchoolTable ==
  ASSUME NEW d, Formed(d), Tied(d), NEW e, Only(d, e, {"school"}),
         \A s \in DOMAIN e.school : /\ DOMAIN e.school[s] = {"name", "status", "live", "modules"}
                                    /\ s # Null /\ CoreModules \subseteq e.school[s].modules
  PROVE  Keeps(d, e)
<1>1. /\ e.user = d.user /\ e.holds = d.holds /\ e.application = d.application
      /\ e.invitation = d.invitation /\ e.staff = d.staff /\ DOMAIN e = Tables
  BY DEF Only, Tables
<1>2. Formed(e) BY <1>1 DEF Formed, Tables
<1>3. Tied(e) BY <1>1 DEF Tied
<1>4. Grows(d, e) BY <1>1 DEF Grows
<1> QED BY <1>2, <1>3, <1>4 DEF Keeps

LEMMA ApplicationTable ==
  ASSUME NEW d, Formed(d), Tied(d), NEW e, Only(d, e, {"application"}),
         \A a \in DOMAIN e.application :
            /\ DOMAIN e.application[a] = {"user", "status", "name", "complete"}
            /\ e.application[a].user \in DOMAIN d.user /\ a # Null /\ e.application[a].name # Null,
         \A a \in DOMAIN d.application : d.application[a].status # "DRAFT" =>
            a \in DOMAIN e.application /\ e.application[a].status # "DRAFT"
  PROVE  Keeps(d, e)
<1>1. /\ e.user = d.user /\ e.holds = d.holds /\ e.school = d.school
      /\ e.invitation = d.invitation /\ e.staff = d.staff /\ DOMAIN e = Tables
  BY DEF Only, Tables
<1>2. Formed(e) BY <1>1 DEF Formed, Tables
<1>3. Tied(e) BY <1>1 DEF Tied
<1>4. Grows(d, e) BY <1>1 DEF Grows
<1> QED BY <1>2, <1>3, <1>4 DEF Keeps

LEMMA UserTable ==
  ASSUME NEW d, Formed(d), Tied(d), NEW e, Only(d, e, {"user"}),
         \A u \in DOMAIN e.user :
            /\ DOMAIN e.user[u] = {"school", "active", "live"}
            /\ e.user[u].school # Null \/ (e.user[u].live /\ e.user[u].active),
         \A u \in DOMAIN d.user :
            u \in DOMAIN e.user /\ (d.user[u].school # Null => e.user[u].school # Null)
  PROVE  Keeps(d, e)
<1>1. /\ e.application = d.application /\ e.holds = d.holds /\ e.school = d.school
      /\ e.invitation = d.invitation /\ e.staff = d.staff /\ DOMAIN e = Tables
  BY DEF Only, Tables
<1>2. Formed(e) BY <1>1 DEF Formed, Tables
<1>3. Tied(e) BY <1>1 DEF Tied
<1>4. Grows(d, e) BY <1>1 DEF Grows
<1> QED BY <1>2, <1>3, <1>4 DEF Keeps

LEMMA RoleTables ==
  ASSUME NEW d, Formed(d), Tied(d), NEW e, Only(d, e, {"holds", "grants"}),
         \A h \in e.holds : h \in d.holds \/ (h[1] \in DOMAIN d.user /\ d.user[h[1]].school # Null)
  PROVE  Keeps(d, e)
<1>1. /\ e.application = d.application /\ e.user = d.user /\ e.school = d.school
      /\ e.invitation = d.invitation /\ e.staff = d.staff /\ DOMAIN e = Tables
  BY DEF Only, Tables
<1>2. Formed(e) BY <1>1 DEF Formed, Tables
<1>3. Tied(e) BY <1>1 DEF Tied
<1>4. Grows(d, e) BY <1>1 DEF Grows
<1> QED BY <1>2, <1>3, <1>4 DEF Keeps

LEMMA InvitationTable ==
  ASSUME NEW d, Formed(d), Tied(d), NEW e, Only(d, e, {"invitation"}),
         \A i \in DOMAIN e.invitation :
            /\ DOMAIN e.invitation[i] = {"school", "user", "roles", "staff", "status", "expired"}
            /\ e.invitation[i].school # Null
            /\ e.invitation[i].status = "ACCEPTED" => e.invitation[i].user \in DOMAIN d.user,
         \A i \in DOMAIN d.invitation :
            i \in DOMAIN e.invitation /\ e.invitation[i].user = d.invitation[i].user
  PROVE  Keeps(d, e)
<1>1. /\ e.application = d.application /\ e.user = d.user /\ e.school = d.school
      /\ e.holds = d.holds /\ e.staff = d.staff /\ DOMAIN e = Tables
  BY DEF Only, Tables
<1>2. Formed(e) BY <1>1 DEF Formed, Tables
<1>3. Tied(e) BY <1>1 DEF Tied
<1>4. Grows(d, e) BY <1>1 DEF Grows
<1> QED BY <1>2, <1>3, <1>4 DEF Keeps

LEMMA StaffTable ==
  ASSUME NEW d, Formed(d), Tied(d), NEW e, Only(d, e, {"staff"}), DOMAIN e.staff = DOMAIN d.staff,
         \A t \in DOMAIN d.staff : /\ DOMAIN e.staff[t] = {"school", "user", "live"}
                                   /\ e.staff[t].school = d.staff[t].school
                                   /\ e.staff[t].user \in DOMAIN d.user \cup {Null}
  PROVE  Keeps(d, e)
<1>1. /\ e.application = d.application /\ e.user = d.user /\ e.school = d.school
      /\ e.holds = d.holds /\ e.invitation = d.invitation /\ DOMAIN e = Tables
  BY DEF Only, Tables
<1>2. Formed(e) BY <1>1 DEF Formed, Tables
<1>3. Tied(e) BY <1>1 DEF Tied
<1>4. Grows(d, e) BY <1>1 DEF Grows
<1> QED BY <1>2, <1>3, <1>4 DEF Keeps

LEMMA SchoolWrites ==
  ASSUME NEW d, Formed(d), Tied(d), NEW r \in Requests, NEW seen, Pledge(d, r, seen),
         Admits(d, r, seen),
         r.op \in {"school.rename", "school.status", "school.delete", "module.set"}
  PROVE  Keeps(d, Written(d, r, seen))
<1> DEFINE e == Written(d, r, seen)
<1> SUFFICES Keeps(d, e) OBVIOUS
<1> HIDE DEF e
<1>0. DOMAIN d = Tables BY DEF Formed, Tables
<1>1. CASE r.op = "school.rename"
  <2>1. Only(d, e, {"school"}) BY <1>0, <1>1 DEF e, Written, Renamed, Only, Tables
  <2>2. e.school = [d.school EXCEPT ![r.id].name = r.name] BY <1>0, <1>1 DEF e, Written, Renamed, Tables
  <2>3. \A s \in DOMAIN e.school : /\ s \in DOMAIN d.school
                                   /\ DOMAIN e.school[s] = {"name", "status", "live", "modules"}
                                   /\ e.school[s].modules = d.school[s].modules
    BY <2>2 DEF Formed
  <2> QED BY <2>1, <2>3, SchoolTable DEF Tied
<1>2. CASE r.op = "school.status"
  <2>1. Only(d, e, {"school"}) BY <1>0, <1>2 DEF e, Written, StatusSet, Only, Tables
  <2>2. e.school = [d.school EXCEPT ![r.id].status = r.status]
    BY <1>0, <1>2 DEF e, Written, StatusSet, Tables
  <2>3. \A s \in DOMAIN e.school : /\ s \in DOMAIN d.school
                                   /\ DOMAIN e.school[s] = {"name", "status", "live", "modules"}
                                   /\ e.school[s].modules = d.school[s].modules
    BY <2>2 DEF Formed
  <2> QED BY <2>1, <2>3, SchoolTable DEF Tied
<1>3. CASE r.op = "school.delete"
  <2>1. Only(d, e, {"school"}) BY <1>0, <1>3 DEF e, Written, SchoolDeleted, Only, Tables
  <2>2. e.school = [d.school EXCEPT ![r.id] = [@ EXCEPT !.live = FALSE, !.status = "CANCELLED"]]
    BY <1>0, <1>3 DEF e, Written, SchoolDeleted, Tables
  <2>3. \A s \in DOMAIN e.school : /\ s \in DOMAIN d.school
                                   /\ DOMAIN e.school[s] = {"name", "status", "live", "modules"}
                                   /\ e.school[s].modules = d.school[s].modules
    BY <2>2 DEF Formed
  <2> QED BY <2>1, <2>3, SchoolTable DEF Tied
<1>4. CASE r.op = "module.set"
  <2>1. Only(d, e, {"school"}) BY <1>0, <1>4 DEF e, Written, ModuleSet, Only, Tables
  <2>2. e.school = [d.school EXCEPT ![r.id].modules = IF r.enabled THEN @ \cup {r.module}
                                                                   ELSE @ \ {r.module}]
    BY <1>0, <1>4 DEF e, Written, ModuleSet, Tables
  <2>3. r.module \in CoreModules => r.enabled BY <1>4 DEF Pledge
  <2>4. \A s \in DOMAIN e.school : /\ s \in DOMAIN d.school
                                   /\ DOMAIN e.school[s] = {"name", "status", "live", "modules"}
    BY <2>2 DEF Formed
  <2>5. \A s \in DOMAIN e.school : CoreModules \subseteq e.school[s].modules
    <3> SUFFICES ASSUME NEW s \in DOMAIN e.school PROVE CoreModules \subseteq e.school[s].modules
      OBVIOUS
    <3>1. CoreModules \subseteq d.school[s].modules BY <2>4 DEF Tied
    <3>2. CASE s # r.id BY <2>2, <3>1, <3>2
    <3>3. CASE s = r.id
      <4>1. e.school[s].modules = IF r.enabled THEN d.school[s].modules \cup {r.module}
                                               ELSE d.school[s].modules \ {r.module}
        BY <2>2, <2>4, <3>3 DEF Formed
      <4> QED BY <2>3, <3>1, <4>1
    <3> QED BY <3>2, <3>3
  <2> QED BY <2>1, <2>4, <2>5, SchoolTable DEF Tied
<1> QED BY <1>1, <1>2, <1>3, <1>4

LEMMA ReviewWrites ==
  ASSUME NEW d, Formed(d), Tied(d), NEW r \in Requests, NEW seen, Pledge(d, r, seen),
         Admits(d, r, seen),
         r.op \in {"draft.submit", "application.return", "application.reject"}
  PROVE  Keeps(d, Written(d, r, seen))
<1> DEFINE e == Written(d, r, seen)
<1> SUFFICES Keeps(d, e) OBVIOUS
<1> HIDE DEF e
<1>0. DOMAIN d = Tables BY DEF Formed, Tables
<1>1. PICK x \in {"PENDING", "CHANGES_REQUESTED", "REJECTED"} :
         e.application = [d.application EXCEPT ![r.id].status = x]
  BY <1>0 DEF e, Written, Submitted, Returned, Rejected, Tables
<1>2. Only(d, e, {"application"})
  BY <1>0 DEF e, Written, Submitted, Returned, Rejected, Only, Tables
<1>3. DOMAIN e.application = DOMAIN d.application BY <1>1
<1>4. \A a \in DOMAIN d.application :
        /\ DOMAIN e.application[a] = {"user", "status", "name", "complete"}
        /\ e.application[a].user = d.application[a].user
        /\ e.application[a].name = d.application[a].name
        /\ e.application[a].status \in {x, d.application[a].status}
  BY <1>1 DEF Formed
<1>5. \A a \in DOMAIN e.application :
         /\ DOMAIN e.application[a] = {"user", "status", "name", "complete"}
         /\ e.application[a].user \in DOMAIN d.user /\ a # Null /\ e.application[a].name # Null
  BY <1>3, <1>4 DEF Tied
<1>6. \A a \in DOMAIN d.application : d.application[a].status # "DRAFT" =>
         a \in DOMAIN e.application /\ e.application[a].status # "DRAFT"
  BY <1>3, <1>4
<1> QED BY <1>2, <1>5, <1>6, ApplicationTable

LEMMA ApplicationWrites ==
  ASSUME NEW d, Formed(d), Tied(d), NEW r \in Requests, NEW seen, Pledge(d, r, seen),
         Admits(d, r, seen),
         r.op \in {"draft.save", "application.create"}
  PROVE  Keeps(d, Written(d, r, seen))
<1> DEFINE e == Written(d, r, seen)
<1> SUFFICES Keeps(d, e) OBVIOUS
<1> HIDE DEF e
<1>0. DOMAIN d = Tables BY DEF Formed, Tables
<1>1. CASE r.op = "draft.save" /\ seen = Null
  <2>1. Only(d, e, {"application"}) BY <1>0, <1>1 DEF e, Written, DraftSaved, Only, Tables
  <2>2. e.application =
          With(d.application, r.id,
               [user |-> r.user, status |-> "DRAFT", name |-> r.name, complete |-> r.complete])
    BY <1>0, <1>1 DEF e, Written, DraftSaved, Tables
  <2>3. r.user \in DOMAIN d.user /\ r.id \notin DOMAIN d.application /\ r.id # Null /\ r.name # Null
    BY <1>1, FieldsOfRequests DEF Pledge, Admits
  <2>4. \A a \in DOMAIN e.application :
          IF a = r.id
          THEN e.application[a] =
                  [user |-> r.user, status |-> "DRAFT", name |-> r.name, complete |-> r.complete]
          ELSE a \in DOMAIN d.application /\ e.application[a] = d.application[a]
    BY <2>2 DEF With
  <2>5. \A a \in DOMAIN d.application :
          a \in DOMAIN e.application /\ e.application[a] = d.application[a]
    BY <2>2, <2>3 DEF With
  <2>6. \A a \in DOMAIN e.application :
          /\ DOMAIN e.application[a] = {"user", "status", "name", "complete"}
          /\ e.application[a].user \in DOMAIN d.user /\ a # Null /\ e.application[a].name # Null
    BY <2>3, <2>4 DEF Formed, Tied
  <2> QED BY <2>1, <2>5, <2>6, ApplicationTable
<1>2. CASE r.op = "draft.save" /\ seen # Null
  <2>1. Only(d, e, {"application"}) BY <1>0, <1>2 DEF e, Written, DraftSaved, Only, Tables
  <2>2. e.application =
          [d.application EXCEPT ![r.id] = [@ EXCEPT !.name = r.name, !.complete = r.complete]]
    BY <1>0, <1>2 DEF e, Written, DraftSaved, Tables
  <2>3. r.name # Null
    BY <1>2, FieldsOfRequests
  <2>4. \A a \in DOMAIN d.application :
          /\ a \in DOMAIN e.application /\ e.application[a].status = d.application[a].status
          /\ DOMAIN e.application[a] = {"user", "status", "name", "complete"}
          /\ e.application[a].user = d.application[a].user
          /\ e.application[a].name \in {d.application[a].name, r.name}
    BY <2>2 DEF Formed
  <2>5. DOMAIN e.application = DOMAIN d.application BY <2>2
  <2>6. \A a \in DOMAIN e.application :
          /\ DOMAIN e.application[a] = {"user", "status", "name", "complete"}
          /\ e.application[a].user \in DOMAIN d.user /\ a # Null /\ e.application[a].name # Null
    BY <2>3, <2>4, <2>5 DEF Tied
  <2> QED BY <2>1, <2>4, <2>6, ApplicationTable
<1>3. CASE r.op = "application.create"
  <2>1. Only(d, e, {"application"}) BY <1>0, <1>3 DEF e, Written, Applied, Only, Tables
  <2>2. e.application =
          With(d.application, r.id,
               [user |-> r.user, status |-> "PENDING", name |-> r.name, complete |-> TRUE])
    BY <1>0, <1>3 DEF e, Written, Applied, Tables
  <2>3. r.user \in DOMAIN d.user /\ r.id \notin DOMAIN d.application /\ r.id # Null /\ r.name # Null
    BY <1>3, FieldsOfRequests DEF Pledge, Admits
  <2>4. \A a \in DOMAIN e.application :
          IF a = r.id
          THEN e.application[a] =
                  [user |-> r.user, status |-> "PENDING", name |-> r.name, complete |-> TRUE]
          ELSE a \in DOMAIN d.application /\ e.application[a] = d.application[a]
    BY <2>2 DEF With
  <2>5. \A a \in DOMAIN d.application :
          a \in DOMAIN e.application /\ e.application[a] = d.application[a]
    BY <2>2, <2>3 DEF With
  <2>6. \A a \in DOMAIN e.application :
          /\ DOMAIN e.application[a] = {"user", "status", "name", "complete"}
          /\ e.application[a].user \in DOMAIN d.user /\ a # Null /\ e.application[a].name # Null
    BY <2>3, <2>4 DEF Formed, Tied
  <2> QED BY <2>1, <2>5, <2>6, ApplicationTable
<1> QED BY <1>1, <1>2, <1>3

LEMMA UserWrites ==
  ASSUME NEW d, Formed(d), Tied(d), NEW r \in Requests, NEW seen, Pledge(d, r, seen),
         Admits(d, r, seen),
         r.op \in {"account.register", "user.update", "user.remove"}
  PROVE  Keeps(d, Written(d, r, seen))
<1> DEFINE e == Written(d, r, seen)
<1> SUFFICES Keeps(d, e) OBVIOUS
<1> HIDE DEF e
<1>0. DOMAIN d = Tables BY DEF Formed, Tables
<1>1. CASE r.op = "account.register"
  <2>1. Only(d, e, {"user"}) BY <1>0, <1>1 DEF e, Written, Registered, Only, Tables
  <2>2. e.user = With(d.user, r.id, [school |-> Null, active |-> TRUE, live |-> TRUE])
    BY <1>0, <1>1 DEF e, Written, Registered, Tables
  <2>3. r.id \notin DOMAIN d.user
    BY <1>1 DEF Admits, MayRegister
  <2>4. \A u \in DOMAIN e.user :
          IF u = r.id THEN e.user[u] = [school |-> Null, active |-> TRUE, live |-> TRUE]
                      ELSE u \in DOMAIN d.user /\ e.user[u] = d.user[u]
    BY <2>2 DEF With
  <2>5. \A u \in DOMAIN d.user : u \in DOMAIN e.user /\ e.user[u] = d.user[u]
    BY <2>2, <2>3 DEF With
  <2> QED BY <2>1, <2>3, <2>4, <2>5, UserTable DEF Formed, Tied
<1>2. CASE r.op = "user.update"
  <2>1. Only(d, e, {"user"}) BY <1>0, <1>2 DEF e, Written, UserUpdated, Only, Tables
  <2>2. e.user = [d.user EXCEPT ![r.id].active = r.active]
    BY <1>0, <1>2 DEF e, Written, UserUpdated, Tables
  <2>3. d.user[r.id].school # Null
    BY <1>2 DEF Pledge
  <2> QED BY <2>1, <2>2, <2>3, UserTable DEF Formed, Tied
<1>3. CASE r.op = "user.remove"
  <2>1. Only(d, e, {"user"}) BY <1>0, <1>3 DEF e, Written, UserRemoved, Only, Tables
  <2>2. e.user = [d.user EXCEPT ![r.id] = [@ EXCEPT !.live = FALSE, !.active = FALSE]]
    BY <1>0, <1>3 DEF e, Written, UserRemoved, Tables
  <2>3. d.user[r.id].school # Null
    BY <1>3 DEF Pledge
  <2>4. \A u \in DOMAIN d.user : u \in DOMAIN e.user /\ DOMAIN e.user[u] = {"school", "active", "live"}
    BY <2>2 DEF Formed
  <2>5. \A u \in DOMAIN d.user : e.user[u].school = d.user[u].school BY <2>2 DEF Formed
  <2>6. \A u \in DOMAIN e.user : u \in DOMAIN d.user /\ (u = r.id \/ e.user[u] = d.user[u]) BY <2>2
  <2>7. \A u \in DOMAIN e.user : e.user[u].school # Null \/ (e.user[u].live /\ e.user[u].active)
    BY <2>3, <2>5, <2>6 DEF Tied
  <2> QED BY <2>1, <2>4, <2>5, <2>6, <2>7, UserTable
<1> QED BY <1>1, <1>2, <1>3

LEMMA RoleWrites ==
  ASSUME NEW d, Formed(d), Tied(d), NEW r \in Requests, NEW seen, Pledge(d, r, seen),
         Admits(d, r, seen),
         r.op \in {"role.assign", "role.remove", "role.grants"}
  PROVE  Keeps(d, Written(d, r, seen))
<1> DEFINE e == Written(d, r, seen)
<1> SUFFICES Keeps(d, e) OBVIOUS
<1> HIDE DEF e
<1>0. DOMAIN d = Tables BY DEF Formed, Tables
<1>1. CASE r.op = "role.assign"
  <2>1. Only(d, e, {"holds", "grants"}) BY <1>0, <1>1 DEF e, Written, RoleAssigned, Only, Tables
  <2>2. e.holds = d.holds \cup {<<r.id, r.role>>}
    BY <1>0, <1>1 DEF e, Written, RoleAssigned, Tables
  <2>3. r.id \in DOMAIN d.user /\ d.user[r.id].school # Null
    BY <1>1 DEF Pledge
  <2> QED BY <2>1, <2>2, <2>3, RoleTables DEF Formed, Tied
<1>2. CASE r.op = "role.remove"
  <2>1. Only(d, e, {"holds", "grants"}) BY <1>0, <1>2 DEF e, Written, RoleRemoved, Only, Tables
  <2>2. e.holds = d.holds \ {<<r.id, r.role>>}
    BY <1>0, <1>2 DEF e, Written, RoleRemoved, Tables
  <2> QED BY <2>1, <2>2, RoleTables DEF Formed, Tied
<1>3. CASE r.op = "role.grants"
  <2>1. Only(d, e, {"holds", "grants"}) BY <1>0, <1>3 DEF e, Written, GrantsSet, Only, Tables
  <2>2. e.holds = d.holds
    BY <1>0, <1>3 DEF e, Written, GrantsSet, Tables
  <2> QED BY <2>1, <2>2, RoleTables DEF Formed, Tied
<1> QED BY <1>1, <1>2, <1>3

LEMMA InvitationWrites ==
  ASSUME NEW d, Formed(d), Tied(d), NEW r \in Requests, NEW seen, Pledge(d, r, seen),
         Admits(d, r, seen),
         r.op \in {"invitation.create", "invitation.revoke"}
  PROVE  Keeps(d, Written(d, r, seen))
<1> DEFINE e == Written(d, r, seen)
<1> SUFFICES Keeps(d, e) OBVIOUS
<1> HIDE DEF e
<1>0. DOMAIN d = Tables BY DEF Formed, Tables
<1>1. CASE r.op = "invitation.create"
  <2>1. Only(d, e, {"invitation"}) BY <1>0, <1>1 DEF e, Written, Invited, Only, Tables
  <2>2. e.invitation =
          With(d.invitation, r.id, [school |-> r.school, user |-> r.user, roles |-> r.roles,
                                    staff |-> r.staff, status |-> "PENDING", expired |-> FALSE])
    BY <1>0, <1>1 DEF e, Written, Invited, Tables
  <2>3. r.id \notin DOMAIN d.invitation /\ r.school # Null
    BY <1>1, FieldsOfRequests DEF Admits
  <2>4. \A i \in DOMAIN e.invitation :
          IF i = r.id
          THEN e.invitation[i] = [school |-> r.school, user |-> r.user, roles |-> r.roles,
                                  staff |-> r.staff, status |-> "PENDING", expired |-> FALSE]
          ELSE i \in DOMAIN d.invitation /\ e.invitation[i] = d.invitation[i]
    BY <2>2 DEF With
  <2>5. \A i \in DOMAIN d.invitation : i \in DOMAIN e.invitation /\ e.invitation[i] = d.invitation[i]
    BY <2>2, <2>3 DEF With
  <2> QED BY <2>1, <2>3, <2>4, <2>5, InvitationTable DEF Formed, Tied
<1>2. CASE r.op = "invitation.revoke"
  <2>1. Only(d, e, {"invitation"}) BY <1>0, <1>2 DEF e, Written, Revoked, Only, Tables
  <2>2. e.invitation = [d.invitation EXCEPT ![r.id].status = "REVOKED"]
    BY <1>0, <1>2 DEF e, Written, Revoked, Tables
  <2>3. \A i \in DOMAIN d.invitation :
          /\ i \in DOMAIN e.invitation
          /\ DOMAIN e.invitation[i] = {"school", "user", "roles", "staff", "status", "expired"}
          /\ e.invitation[i].user = d.invitation[i].user
          /\ e.invitation[i].school = d.invitation[i].school
          /\ e.invitation[i].status \in {d.invitation[i].status, "REVOKED"}
    BY <2>2 DEF Formed
  <2>4. DOMAIN e.invitation = DOMAIN d.invitation BY <2>2
  <2> QED BY <2>1, <2>3, <2>4, InvitationTable DEF Tied
<1> QED BY <1>1, <1>2

LEMMA LinkWrites ==
  ASSUME NEW d, Formed(d), Tied(d), NEW r \in Requests, NEW seen, Pledge(d, r, seen),
         Admits(d, r, seen),
         r.op \in {"staff.link"}
  PROVE  Keeps(d, Written(d, r, seen))
<1> DEFINE e == Written(d, r, seen)
<1> SUFFICES Keeps(d, e) OBVIOUS
<1> HIDE DEF e
<1>0. DOMAIN d = Tables BY DEF Formed, Tables
<1>1. CASE r.op = "staff.link"
  <2>1. Only(d, e, {"staff"}) BY <1>0, <1>1 DEF e, Written, UserLinked, Only, Tables
  <2>2. e.staff = [d.staff EXCEPT ![r.id].user = r.user]
    BY <1>0, <1>1 DEF e, Written, UserLinked, Tables
  <2>3. r.user \in DOMAIN d.user \cup {Null}
    BY <1>1 DEF Pledge
  <2> QED BY <2>1, <2>2, <2>3, StaffTable DEF Formed, Tied
<1> QED BY <1>1

(* The two writes that change several tables. *)
IsFounding(d, e, r, seen) ==
    /\ Only(d, e, {"user", "holds", "application", "school"})
    /\ e.holds = d.holds \cup {<<seen.user, Root>>}
    /\ DOMAIN e.user = DOMAIN d.user
    /\ \A u \in DOMAIN d.user : DOMAIN e.user[u] = {"school", "active", "live"}
    /\ \A u \in DOMAIN d.user : u = seen.user \/ e.user[u] = d.user[u]
    /\ e.user[seen.user].school = seen.name
    /\ e.user[seen.user].live = d.user[seen.user].live
    /\ e.user[seen.user].active = d.user[seen.user].active
    /\ DOMAIN e.application = DOMAIN d.application
    /\ \A a \in DOMAIN d.application : DOMAIN e.application[a] = {"user", "status", "name", "complete"}
    /\ \A a \in DOMAIN d.application : a = r.id \/ e.application[a] = d.application[a]
    /\ e.application[r.id].status = "APPROVED"
    /\ e.application[r.id].user = d.application[r.id].user
    /\ e.application[r.id].name = d.application[r.id].name
    /\ DOMAIN e.school = DOMAIN d.school \cup {seen.name}
    /\ \A s \in DOMAIN d.school : s = seen.name \/ e.school[s] = d.school[s]
    /\ e.school[seen.name] = [name |-> seen.name, status |-> "TRIAL", live |-> TRUE,
                              modules |-> DefaultModules]

IsAcceptance(d, e, r) ==
    /\ Only(d, e, {"user", "holds", "invitation", "staff"})
    /\ e.holds = d.holds \cup {<<r.user, x>> : x \in d.invitation[r.id].roles}
    /\ DOMAIN e.user = DOMAIN d.user
    /\ \A u \in DOMAIN d.user : DOMAIN e.user[u] = {"school", "active", "live"}
    /\ \A u \in DOMAIN d.user : u = r.user \/ e.user[u] = d.user[u]
    /\ e.user[r.user].school = d.invitation[r.id].school
    /\ e.user[r.user].live = d.user[r.user].live
    /\ e.user[r.user].active = d.user[r.user].active
    /\ DOMAIN e.invitation = DOMAIN d.invitation
    /\ \A j \in DOMAIN d.invitation :
          DOMAIN e.invitation[j] = {"school", "user", "roles", "staff", "status", "expired"}
    /\ \A j \in DOMAIN d.invitation : j = r.id \/ e.invitation[j] = d.invitation[j]
    /\ e.invitation[r.id].user = d.invitation[r.id].user
    /\ e.invitation[r.id].school = d.invitation[r.id].school
    /\ e.invitation[r.id].status = "ACCEPTED"
    /\ DOMAIN e.staff = DOMAIN d.staff
    /\ \A t \in DOMAIN d.staff : DOMAIN e.staff[t] = {"school", "user", "live"}
    /\ \A t \in DOMAIN d.staff : e.staff[t].school = d.staff[t].school
    /\ \A t \in DOMAIN d.staff : \/ e.staff[t].user = d.staff[t].user
                                 \/ /\ e.staff[t].user = r.user
                                    /\ d.staff[t].school = d.invitation[r.id].school

LEMMA Founding ==
  ASSUME NEW d, Formed(d), NEW r, NEW seen, r.op = "application.approve",
         r.id \in DOMAIN d.application, seen.user \in DOMAIN d.user
  PROVE  IsFounding(d, Written(d, r, seen), r, seen)
<1> DEFINE e == Written(d, r, seen)
<1>0. DOMAIN d = Tables BY DEF Formed, Tables
<1>1. /\ Only(d, e, {"user", "holds", "application", "school"})
      /\ e.holds = d.holds \cup {<<seen.user, Root>>}
  BY <1>0 DEF Written, Founded, Only, Tables
<1>2. e.user = [d.user EXCEPT ![seen.user].school = seen.name] BY <1>0 DEF Written, Founded, Tables
<1>3. e.application = [d.application EXCEPT ![r.id].status = "APPROVED"]
  BY <1>0 DEF Written, Founded, Tables
<1>4. e.school = With(d.school, seen.name, [name |-> seen.name, status |-> "TRIAL", live |-> TRUE,
                                            modules |-> DefaultModules])
  BY <1>0 DEF Written, Founded, Tables
<1> HIDE DEF e
<1>5. DOMAIN e.user = DOMAIN d.user /\ (\A u \in DOMAIN d.user : u = seen.user \/ e.user[u] = d.user[u])
  BY <1>2
<1>6. \A u \in DOMAIN d.user : DOMAIN e.user[u] = {"school", "active", "live"} BY <1>2 DEF Formed
<1>7. /\ e.user[seen.user].school = seen.name
      /\ e.user[seen.user].live = d.user[seen.user].live
      /\ e.user[seen.user].active = d.user[seen.user].active
  BY <1>2 DEF Formed
<1>8. /\ DOMAIN e.application = DOMAIN d.application
      /\ \A a \in DOMAIN d.application : a = r.id \/ e.application[a] = d.application[a]
  BY <1>3
<1>9. \A a \in DOMAIN d.application : DOMAIN e.application[a] = {"user", "status", "name", "complete"}
  BY <1>3 DEF Formed
<1>10. /\ e.application[r.id].status = "APPROVED"
       /\ e.application[r.id].user = d.application[r.id].user
       /\ e.application[r.id].name = d.application[r.id].name
  BY <1>3 DEF Formed
<1>11. /\ DOMAIN e.school = DOMAIN d.school \cup {seen.name}
       /\ \A s \in DOMAIN d.school : s = seen.name \/ e.school[s] = d.school[s]
       /\ e.school[seen.name] = [name |-> seen.name, status |-> "TRIAL", live |-> TRUE,
                                 modules |-> DefaultModules]
  BY <1>4 DEF With
<1> QED BY <1>1, <1>5, <1>6, <1>7, <1>8, <1>9, <1>10, <1>11 DEF e, IsFounding

LEMMA Accepting ==
  ASSUME NEW d, Formed(d), NEW r, NEW seen, r.op = "invitation.accept",
         r.id \in DOMAIN d.invitation, r.user \in DOMAIN d.user
  PROVE  IsAcceptance(d, Written(d, r, seen), r)
<1> DEFINE e == Written(d, r, seen)
           i == d.invitation[r.id]
           linked == LinkedOnAccept(d, r)
<1>0. DOMAIN d = Tables BY DEF Formed, Tables
<1>1. /\ Only(d, e, {"user", "holds", "invitation", "staff"})
      /\ e.holds = d.holds \cup {<<r.user, x>> : x \in i.roles}
  BY <1>0 DEF Written, Accepted, Only, Tables
<1>2. e.user = [d.user EXCEPT ![r.user].school = i.school] BY <1>0 DEF Written, Accepted, Tables
<1>3. e.invitation = [d.invitation EXCEPT ![r.id].status = "ACCEPTED"]
  BY <1>0 DEF Written, Accepted, Tables
<1>4. e.staff = [t \in DOMAIN d.staff |-> IF t \in linked THEN [d.staff[t] EXCEPT !.user = r.user]
                                                         ELSE d.staff[t]]
  BY <1>0 DEF Written, Accepted, Tables
<1>5. \A t \in linked : d.staff[t].school = i.school BY DEF LinkedOnAccept
<1> HIDE DEF e, linked
<1>6. DOMAIN e.user = DOMAIN d.user /\ (\A u \in DOMAIN d.user : u = r.user \/ e.user[u] = d.user[u])
  BY <1>2
<1>7. \A u \in DOMAIN d.user : DOMAIN e.user[u] = {"school", "active", "live"} BY <1>2 DEF Formed
<1>8. /\ e.user[r.user].school = i.school
      /\ e.user[r.user].live = d.user[r.user].live
      /\ e.user[r.user].active = d.user[r.user].active
  BY <1>2 DEF Formed
<1>9. /\ DOMAIN e.invitation = DOMAIN d.invitation
      /\ \A j \in DOMAIN d.invitation : j = r.id \/ e.invitation[j] = d.invitation[j]
  BY <1>3
<1>10. \A j \in DOMAIN d.invitation :
          DOMAIN e.invitation[j] = {"school", "user", "roles", "staff", "status", "expired"}
  BY <1>3 DEF Formed
<1>11. /\ e.invitation[r.id].user = i.user /\ e.invitation[r.id].school = i.school
       /\ e.invitation[r.id].status = "ACCEPTED"
  BY <1>3 DEF Formed
<1>12. \A t \in DOMAIN d.staff :
          e.staff[t] = IF t \in linked THEN [d.staff[t] EXCEPT !.user = r.user] ELSE d.staff[t]
  BY <1>4
<1>13. DOMAIN e.staff = DOMAIN d.staff BY <1>4
<1>14. \A t \in DOMAIN d.staff : DOMAIN e.staff[t] = {"school", "user", "live"}
  BY <1>12 DEF Formed
<1>15. \A t \in DOMAIN d.staff : e.staff[t].school = d.staff[t].school
  BY <1>12 DEF Formed
<1>16. \A t \in DOMAIN d.staff : \/ e.staff[t].user = d.staff[t].user
                                 \/ e.staff[t].user = r.user /\ d.staff[t].school = i.school
  BY <1>5, <1>12 DEF Formed
<1> QED BY <1>1, <1>6, <1>7, <1>8, <1>9, <1>10, <1>11, <1>13, <1>14, <1>15, <1>16 DEF e, IsAcceptance

LEMMA FoundingKeeps ==
  ASSUME NEW d, Formed(d), Tied(d), NEW r, NEW seen, r.op = "application.approve", Pledge(d, r, seen)
  PROVE  Keeps(d, Written(d, r, seen))
<1> DEFINE e == Written(d, r, seen)
<1>0. /\ r.id \in DOMAIN d.application /\ d.application[r.id].status # "DRAFT"
      /\ seen.user \in DOMAIN d.user /\ seen.name # Null
  BY DEF Pledge
<1>f. IsFounding(d, e, r, seen) BY <1>0, Founding
<1> HIDE DEF e
<1>1. Only(d, e, {"user", "holds", "application", "school"}) BY <1>f DEF IsFounding
<1>2. e.invitation = d.invitation /\ e.staff = d.staff /\ DOMAIN e = Tables BY <1>1 DEF Only, Tables
<1>3. /\ DOMAIN e.user = DOMAIN d.user
      /\ \A u \in DOMAIN d.user : DOMAIN e.user[u] = {"school", "active", "live"}
      /\ \A u \in DOMAIN d.user : u = seen.user \/ e.user[u] = d.user[u]
      /\ e.user[seen.user].school = seen.name
  BY <1>f DEF IsFounding
<1>4. /\ DOMAIN e.application = DOMAIN d.application
      /\ \A a \in DOMAIN d.application :
            DOMAIN e.application[a] = {"user", "status", "name", "complete"}
      /\ \A a \in DOMAIN d.application : a = r.id \/ e.application[a] = d.application[a]
      /\ e.application[r.id].status = "APPROVED"
      /\ e.application[r.id].user = d.application[r.id].user
      /\ e.application[r.id].name = d.application[r.id].name
  BY <1>f DEF IsFounding
<1>5. /\ DOMAIN e.school = DOMAIN d.school \cup {seen.name}
      /\ \A s \in DOMAIN d.school : s = seen.name \/ e.school[s] = d.school[s]
      /\ e.school[seen.name] = [name |-> seen.name, status |-> "TRIAL", live |-> TRUE,
                                modules |-> DefaultModules]
  BY <1>f DEF IsFounding
<1>6. e.holds = d.holds \cup {<<seen.user, Root>>} BY <1>f DEF IsFounding
<1>7. Formed(e) BY <1>2, <1>3, <1>4, <1>5 DEF Formed, Tables
<1>8. Tied(e)
  <2>1. \A u \in DOMAIN e.user : e.user[u].school # Null \/ (e.user[u].live /\ e.user[u].active)
    BY <1>0, <1>3 DEF Tied
  <2>2. \A h \in e.holds : h[1] \in DOMAIN e.user /\ e.user[h[1]].school # Null
    BY <1>0, <1>3, <1>6 DEF Tied
  <2>3. \A a \in DOMAIN e.application : /\ e.application[a].user \in DOMAIN e.user
                                        /\ a # Null /\ e.application[a].name # Null
    BY <1>0, <1>3, <1>4 DEF Tied
  <2>4. \A s \in DOMAIN e.school : s # Null /\ CoreModules \subseteq e.school[s].modules
    BY <1>0, <1>5, OnboardingAssumption DEF Tied
  <2> QED BY <1>2, <1>3, <2>1, <2>2, <2>3, <2>4 DEF Tied
<1>9. Grows(d, e) BY <1>0, <1>2, <1>3, <1>4 DEF Grows
<1> QED BY <1>7, <1>8, <1>9 DEF Keeps, e

LEMMA AcceptingKeeps ==
  ASSUME NEW d, Formed(d), Tied(d), NEW r, NEW seen, r.op = "invitation.accept", Pledge(d, r, seen)
  PROVE  Keeps(d, Written(d, r, seen))
<1> DEFINE e == Written(d, r, seen)
           i == d.invitation[r.id]
<1>0. r.id \in DOMAIN d.invitation /\ r.user \in DOMAIN d.user /\ i.user = r.user BY DEF Pledge
<1>f. IsAcceptance(d, e, r) BY <1>0, Accepting
<1> HIDE DEF e
<1>1. Only(d, e, {"user", "holds", "invitation", "staff"}) BY <1>f DEF IsAcceptance
<1>2. e.application = d.application /\ e.school = d.school /\ DOMAIN e = Tables BY <1>1 DEF Only, Tables
<1>3. /\ DOMAIN e.user = DOMAIN d.user
      /\ \A u \in DOMAIN d.user : DOMAIN e.user[u] = {"school", "active", "live"}
      /\ \A u \in DOMAIN d.user : u = r.user \/ e.user[u] = d.user[u]
      /\ e.user[r.user].school = i.school
  BY <1>f DEF IsAcceptance
<1>4. /\ DOMAIN e.invitation = DOMAIN d.invitation
      /\ \A j \in DOMAIN d.invitation :
            DOMAIN e.invitation[j] = {"school", "user", "roles", "staff", "status", "expired"}
      /\ \A j \in DOMAIN d.invitation : j = r.id \/ e.invitation[j] = d.invitation[j]
      /\ e.invitation[r.id].user = i.user /\ e.invitation[r.id].school = i.school
  BY <1>f DEF IsAcceptance
<1>5. /\ DOMAIN e.staff = DOMAIN d.staff
      /\ \A t \in DOMAIN d.staff : /\ DOMAIN e.staff[t] = {"school", "user", "live"}
                                   /\ e.staff[t].school = d.staff[t].school
      /\ \A t \in DOMAIN d.staff : e.staff[t].user \in {d.staff[t].user, r.user}
  BY <1>f DEF IsAcceptance
<1>6. e.holds = d.holds \cup {<<r.user, x>> : x \in i.roles} BY <1>f DEF IsAcceptance
<1>7. Formed(e) BY <1>2, <1>3, <1>4, <1>5 DEF Formed, Tables
<1>8. Tied(e)
  <2>0. i.school # Null BY <1>0 DEF Tied
  <2>1. \A u \in DOMAIN e.user : e.user[u].school # Null \/ (e.user[u].live /\ e.user[u].active)
    BY <1>3, <2>0 DEF Tied
  <2>2. \A h \in e.holds : h[1] \in DOMAIN e.user /\ e.user[h[1]].school # Null
    BY <1>0, <1>3, <1>6, <2>0 DEF Tied
  <2>3. \A j \in DOMAIN e.invitation : /\ e.invitation[j].school # Null
                                       /\ e.invitation[j].status = "ACCEPTED" =>
                                             e.invitation[j].user \in DOMAIN e.user
    BY <1>0, <1>3, <1>4, <2>0 DEF Tied
  <2>4. \A t \in DOMAIN e.staff : /\ e.staff[t].school # Null
                                  /\ e.staff[t].user \in DOMAIN e.user \cup {Null}
    BY <1>0, <1>3, <1>5 DEF Tied
  <2>5. \A a \in DOMAIN e.application : /\ e.application[a].user \in DOMAIN e.user
                                        /\ a # Null /\ e.application[a].name # Null
    BY <1>2, <1>3 DEF Tied
  <2>6. \A s \in DOMAIN e.school : s # Null /\ CoreModules \subseteq e.school[s].modules
    BY <1>2 DEF Tied
  <2> QED BY <2>1, <2>2, <2>3, <2>4, <2>5, <2>6 DEF Tied
<1>9. Grows(d, e) BY <1>2, <1>3, <1>4, <1>5, <1>0 DEF Grows, Tied
<1> QED BY <1>7, <1>8, <1>9 DEF Keeps, e

LEMMA WritesKeepTies ==
  ASSUME NEW d, Formed(d), Tied(d), NEW r \in Requests, NEW seen, Pledge(d, r, seen),
         Admits(d, r, seen)
  PROVE  Keeps(d, Written(d, r, seen))
<1>1. CASE r.op \in {"school.rename", "school.status", "school.delete", "module.set"}
  BY <1>1, SchoolWrites
<1>2. CASE r.op \in {"draft.submit", "application.return", "application.reject"} BY <1>2, ReviewWrites
<1>3. CASE r.op \in {"draft.save", "application.create"} BY <1>3, ApplicationWrites
<1>4. CASE r.op \in {"account.register", "user.update", "user.remove"} BY <1>4, UserWrites
<1>5. CASE r.op \in {"role.assign", "role.remove", "role.grants"} BY <1>5, RoleWrites
<1>6. CASE r.op \in {"invitation.create", "invitation.revoke"} BY <1>6, InvitationWrites
<1>7. CASE r.op \in {"staff.link"} BY <1>7, LinkWrites
<1>8. CASE r.op = "application.approve" BY <1>8, FoundingKeeps
<1>9. CASE r.op = "invitation.accept" BY <1>9, AcceptingKeeps
<1> QED
  BY <1>1, <1>2, <1>3, <1>4, <1>5, <1>6, <1>7, <1>8, <1>9, OpsOfRequests DEF Elsewhere

(* The two writes that are not a request's own. *)
LEMMA DroppingKeeps ==
  ASSUME NEW d, Formed(d), Tied(d), NEW r
  PROVE  Keeps(d, DraftsDropped(d, r))
<1> DEFINE e == DraftsDropped(d, r)
           dropped == ApplicationsOf(d, r.user, {"DRAFT"})
<1>0. DOMAIN d = Tables BY DEF Formed, Tables
<1>1. Only(d, e, {"application"}) /\ e.application = Without(d.application, dropped)
  BY <1>0 DEF DraftsDropped, Only, Tables
<1>2. \A a \in dropped : d.application[a].status = "DRAFT" BY DEF ApplicationsOf
<1> HIDE DEF e, dropped
<1>3. \A a \in DOMAIN e.application : a \in DOMAIN d.application /\ e.application[a] = d.application[a]
  BY <1>1 DEF Without
<1>4. \A a \in DOMAIN d.application : d.application[a].status # "DRAFT" =>
         a \in DOMAIN e.application /\ e.application[a] = d.application[a]
  BY <1>1, <1>2 DEF Without
<1> QED BY <1>1, <1>3, <1>4, ApplicationTable DEF Formed, Tied, e

LEMMA LapsingKeeps ==
  ASSUME NEW d, Formed(d), Tied(d), NEW i
  PROVE  Keeps(d, [d EXCEPT !.invitation[i].expired = TRUE])
<1> DEFINE e == [d EXCEPT !.invitation[i].expired = TRUE]
<1>0. DOMAIN d = Tables BY DEF Formed, Tables
<1>1. Only(d, e, {"invitation"}) /\ e.invitation = [d.invitation EXCEPT ![i].expired = TRUE]
  BY <1>0 DEF Only, Tables
<1> SUFFICES Keeps(d, e) OBVIOUS
<1> HIDE DEF e
<1>2. \A j \in DOMAIN d.invitation :
         /\ j \in DOMAIN e.invitation
         /\ DOMAIN e.invitation[j] = {"school", "user", "roles", "staff", "status", "expired"}
         /\ e.invitation[j].user = d.invitation[j].user
         /\ e.invitation[j].school = d.invitation[j].school
         /\ e.invitation[j].status = d.invitation[j].status
  BY <1>1 DEF Formed
<1>3. DOMAIN e.invitation = DOMAIN d.invitation BY <1>1
<1>4. \A j \in DOMAIN e.invitation : /\ e.invitation[j].school # Null
                                     /\ e.invitation[j].status = "ACCEPTED" =>
                                           e.invitation[j].user \in DOMAIN d.user
  BY <1>2, <1>3 DEF Tied
<1> QED BY <1>1, <1>2, <1>3, <1>4, InvitationTable
-----------------------------------------------------------------------------
(* The steps that matter: a write, and the two that are not a request's    *)
(* own.                                                                    *)
Commits(c) ==
    /\ held[c].step = "write" /\ Admits(db, held[c].req, held[c].seen)
    /\ db' = Written(db, held[c].req, held[c].seen)
    /\ overtaken' = IF Overtaken(c) THEN overtaken \cup {held[c].req.op} ELSE overtaken

LEMMA Steps ==
  ASSUME [Next]_vars
  PROVE  \/ \E c \in Clients : Commits(c)
         \/ /\ overtaken' = overtaken
            /\ \/ db' = db
               \/ \E r : db' = DraftsDropped(db, r)
               \/ \E i \in DOMAIN db.invitation : db' = [db EXCEPT !.invitation[i].expired = TRUE]
<1>1. CASE UNCHANGED vars BY <1>1 DEF vars
<1>2. ASSUME NEW c \in Clients, Check(c) PROVE db' = db /\ overtaken' = overtaken
  BY <1>2 DEF Check
<1>3. ASSUME NEW c \in Clients, Write(c) PROVE Commits(c) \/ (db' = db /\ overtaken' = overtaken)
  BY <1>3 DEF Write, Commits
<1>4. ASSUME NEW c \in Clients, Finish(c)
      PROVE  overtaken' = overtaken /\ (db' = db \/ \E r : db' = DraftsDropped(db, r))
  <2>1. /\ overtaken' = overtaken
        /\ db' = IF held[c].req.op = "application.create" THEN DraftsDropped(db, held[c].req) ELSE db
    BY <1>4 DEF Finish
  <2> QED BY <2>1
<1>5. ASSUME NEW u \in Watched, LookUp(u) \/ Fill(u) \/ Expire(u)
      PROVE  db' = db /\ overtaken' = overtaken
  BY <1>5 DEF LookUp, Fill, Expire
<1>6. ASSUME NEW i \in Invitations, Lapse(i)
      PROVE  /\ overtaken' = overtaken /\ i \in DOMAIN db.invitation
             /\ db' = [db EXCEPT !.invitation[i].expired = TRUE]
  BY <1>6 DEF Lapse
<1>7. CASE Restart BY <1>7 DEF Restart
<1> QED BY <1>1, <1>2, <1>3, <1>4, <1>5, <1>6, <1>7 DEF Next

(* A pledge outlasts every write of the others. *)
LEMMA PledgesOutlast ==
  ASSUME NEW d, NEW e, NEW r, NEW seen, Pledge(d, r, seen), Grows(d, e)
  PROVE  Pledge(e, r, seen)
<1>1. r.op \in {"user.update", "user.remove", "role.assign"} =>
         r.id \in DOMAIN e.user /\ e.user[r.id].school # Null
  BY DEF Pledge, Grows
<1>2. r.op \in {"draft.save", "application.create"} => r.user \in DOMAIN e.user BY DEF Pledge, Grows
<1>3. r.op = "application.approve" =>
         /\ r.id \in DOMAIN e.application /\ e.application[r.id].status # "DRAFT"
         /\ seen.user \in DOMAIN e.user /\ seen.name # Null
  BY DEF Pledge, Grows
<1>4. r.op = "invitation.accept" =>
         /\ r.id \in DOMAIN e.invitation /\ r.user \in DOMAIN e.user
         /\ e.invitation[r.id].user = r.user
  BY DEF Pledge, Grows
<1>5. r.op = "staff.link" => r.id \in DOMAIN e.staff /\ r.user \in DOMAIN e.user \cup {Null}
  BY DEF Pledge, Grows
<1> QED BY <1>1, <1>2, <1>3, <1>4, <1>5 DEF Pledge

(* The checks of a handler give its pledge. *)
LEMMA ChecksPledge ==
  ASSUME NEW d, Formed(d), Tied(d), NEW r \in Requests, Accepts(d, r)
  PROVE  Pledge(d, r, Seen(d, r))
<1>1. r.op \in {"user.update", "user.remove", "role.assign"} =>
         r.id \in DOMAIN d.user /\ d.user[r.id].school # Null
  BY DEF Accepts, MayUpdateUser, MayRemoveUser, MayAssignRole, Administers, Member, Live
<1>2. r.op \in {"draft.save", "application.create"} => r.user \in DOMAIN d.user
  BY DEF Accepts, MaySaveDraft, MayApply, Tenantless, Live
<1>3. ASSUME r.op = "application.approve"
      PROVE  /\ r.id \in DOMAIN d.application /\ d.application[r.id].status # "DRAFT"
             /\ Seen(d, r).user \in DOMAIN d.user /\ Seen(d, r).name # Null
  <2>1. r.id \in DOMAIN d.application /\ d.application[r.id].status = "PENDING"
    BY <1>3 DEF Accepts, MayApprove, MayReview, Pending
  <2>2. Seen(d, r) = [d.application[r.id] EXCEPT !.status = "any"] BY <1>3, <2>1 DEF Seen
  <2>3. Seen(d, r).user = d.application[r.id].user /\ Seen(d, r).name = d.application[r.id].name
    BY <2>1, <2>2 DEF Formed
  <2> QED BY <2>1, <2>3 DEF Tied
<1>4. r.op = "invitation.accept" =>
         /\ r.id \in DOMAIN d.invitation /\ r.user \in DOMAIN d.user
         /\ d.invitation[r.id].user = r.user
  BY DEF Accepts, MayAccept, MayRevoke, Tenantless, Live
<1>5. r.op = "staff.link" => r.id \in DOMAIN d.staff /\ r.user \in DOMAIN d.user \cup {Null}
  BY DEF Accepts, MayLinkUser, Live
<1>6. r.op = "module.set" => (r.module \in CoreModules => r.enabled)
  BY DEF Accepts, MaySetModule
<1> QED BY <1>1, <1>2, <1>3, <1>4, <1>5, <1>6 DEF Pledge

(* So the tables stay tied, whoever overtakes whom. *)
OInv == CInv /\ Formed(db) /\ Tied(db) /\ Pledged

LEMMA OInit == Init => OInv
<1> SUFFICES ASSUME Init PROVE OInv OBVIOUS
<1>1. Formed(db) /\ Tied(db) BY PlatformAssumption DEF Init
<1>2. \A c \in Clients : held[c].step # "write" BY DEF Init, Idle
<1> QED BY <1>1, <1>2, CInit DEF OInv, Pledged

LEMMA StepsKeepTies ==
  ASSUME OInv, [Next]_vars
  PROVE  Keeps(db, db')
<1>1. Keeps(db, db) BY DEF OInv, Keeps, Grows
<1>2. ASSUME NEW c \in Clients, Commits(c) PROVE Keeps(db, db')
  <2>1. held[c].req \in Requests BY <1>2 DEF Commits, OInv, CInv, Shapes
  <2>2. Pledge(db, held[c].req, held[c].seen) BY <1>2 DEF Commits, OInv, Pledged
  <2> QED BY <1>2, <2>1, <2>2, WritesKeepTies DEF Commits, OInv
<1> QED BY <1>1, <1>2, Steps, DroppingKeeps, LapsingKeeps DEF OInv

(* A request is about to be written only because its client checked it. *)
LEMMA NewlyHeld ==
  ASSUME Shapes, [Next]_vars, NEW c \in Clients, held'[c].step = "write", held'[c] # held[c]
  PROVE  Check(c)
<1>1. ~UNCHANGED held OBVIOUS
<1>2. ASSUME NEW o \in Clients, Check(o) PROVE o = c
  <2>1. \A x \in Clients : x # o => held'[x] = held[x] BY <1>2 DEF Check, Shapes
  <2> QED BY <2>1
<1>3. ASSUME NEW o \in Clients, Write(o) PROVE FALSE
  <2>1. held'[o].step # "write" /\ \A x \in Clients : x # o => held'[x] = held[x]
    BY <1>3 DEF Write, Shapes, Idle
  <2> QED BY <2>1
<1>4. ASSUME NEW o \in Clients, Finish(o) PROVE FALSE
  <2>1. held'[o].step # "write" /\ \A x \in Clients : x # o => held'[x] = held[x]
    BY <1>4 DEF Finish, Shapes, Idle
  <2> QED BY <2>1
<1>5. ~Restart BY DEF Restart, Idle
<1>6. UNCHANGED vars => UNCHANGED held BY DEF vars
<1>7. \A u \in Watched : LookUp(u) \/ Fill(u) \/ Expire(u) => UNCHANGED held
  BY DEF LookUp, Fill, Expire
<1>8. \A i \in Invitations : Lapse(i) => UNCHANGED held BY DEF Lapse
<1> QED BY <1>1, <1>2, <1>3, <1>4, <1>5, <1>6, <1>7, <1>8 DEF Next

LEMMA ONext == OInv /\ [Next]_vars => OInv'
<1> SUFFICES ASSUME OInv, [Next]_vars PROVE OInv' OBVIOUS
<1>1. Formed(db)' /\ Tied(db)' /\ Grows(db, db') BY StepsKeepTies DEF Keeps
<1>2. CInv' BY CNext DEF OInv
<1>3. ASSUME NEW c \in Clients, held[c].step = "write"
      PROVE  Pledge(db', held[c].req, held[c].seen)
  BY <1>1, <1>3, PledgesOutlast DEF OInv, Pledged
<1>4. ASSUME NEW c \in Clients, held'[c].step = "write"
      PROVE  Pledge(db', held'[c].req, held'[c].seen)
  <2>1. CASE held'[c] = held[c] BY <1>3, <1>4, <2>1
  <2>2. CASE held'[c] # held[c]
    <3>1. Check(c) BY <1>4, <2>2, NewlyHeld DEF OInv, CInv
    <3>2. PICK r \in Requests :
            /\ Accepts(db, r)
            /\ held' = [held EXCEPT ![c] = [req |-> r, seen |-> Seen(db, r), step |-> "write"]]
      BY <3>1 DEF Check
    <3>3. held'[c].req = r /\ held'[c].seen = Seen(db, r) /\ db' = db
      BY <3>1, <3>2 DEF OInv, CInv, Shapes, Check
    <3> QED BY <3>2, <3>3, ChecksPledge DEF OInv
  <2> QED BY <2>1, <2>2
<1> QED BY <1>1, <1>2, <1>4 DEF OInv, Pledged
-----------------------------------------------------------------------------
(* Which tables a request writes, and which of its rows.                   *)
LeavesAlone(d, e, r) ==
    /\ r.op \notin {"account.register", "user.update", "user.remove", "application.approve",
                    "invitation.accept"} => e.user = d.user
    /\ r.op \notin {"role.assign", "role.remove", "application.approve", "invitation.accept"} =>
          e.holds = d.holds
    /\ r.op \notin {"draft.save", "draft.submit", "application.create", "application.approve",
                    "application.return", "application.reject"} => e.application = d.application
    /\ r.op \notin {"school.rename", "school.status", "school.delete", "module.set",
                    "application.approve"} => e.school = d.school
    /\ r.op \notin {"invitation.create", "invitation.revoke", "invitation.accept"} =>
          e.invitation = d.invitation
    /\ r.op \notin {"staff.link", "invitation.accept"} => e.staff = d.staff

LEMMA OtherTables ==
  ASSUME NEW d, Formed(d), NEW r \in Requests, NEW seen
  PROVE  LeavesAlone(d, Written(d, r, seen), r)
<1>0. DOMAIN d = Tables BY DEF Formed, Tables
<1>1. CASE r.op = "account.register" BY <1>1, <1>0 DEF Written, Registered, LeavesAlone, Tables
<1>2. CASE r.op = "user.update" BY <1>2, <1>0 DEF Written, UserUpdated, LeavesAlone, Tables
<1>3. CASE r.op = "user.remove" BY <1>3, <1>0 DEF Written, UserRemoved, LeavesAlone, Tables
<1>4. CASE r.op = "draft.save" BY <1>4, <1>0 DEF Written, DraftSaved, LeavesAlone, Tables
<1>5. CASE r.op = "draft.submit" BY <1>5, <1>0 DEF Written, Submitted, LeavesAlone, Tables
<1>6. CASE r.op = "application.create" BY <1>6, <1>0 DEF Written, Applied, LeavesAlone, Tables
<1>7. CASE r.op = "application.approve" BY <1>7, <1>0 DEF Written, Founded, LeavesAlone, Tables
<1>8. CASE r.op = "application.return" BY <1>8, <1>0 DEF Written, Returned, LeavesAlone, Tables
<1>9. CASE r.op = "application.reject" BY <1>9, <1>0 DEF Written, Rejected, LeavesAlone, Tables
<1>10. CASE r.op = "school.rename" BY <1>10, <1>0 DEF Written, Renamed, LeavesAlone, Tables
<1>11. CASE r.op = "school.status" BY <1>11, <1>0 DEF Written, StatusSet, LeavesAlone, Tables
<1>12. CASE r.op = "school.delete" BY <1>12, <1>0 DEF Written, SchoolDeleted, LeavesAlone, Tables
<1>13. CASE r.op = "module.set" BY <1>13, <1>0 DEF Written, ModuleSet, LeavesAlone, Tables
<1>14. CASE r.op = "invitation.create" BY <1>14, <1>0 DEF Written, Invited, LeavesAlone, Tables
<1>15. CASE r.op = "invitation.revoke" BY <1>15, <1>0 DEF Written, Revoked, LeavesAlone, Tables
<1>16. CASE r.op = "invitation.accept" BY <1>16, <1>0 DEF Written, Accepted, LeavesAlone, Tables
<1>17. CASE r.op = "staff.link" BY <1>17, <1>0 DEF Written, UserLinked, LeavesAlone, Tables
<1>18. CASE r.op = "role.assign" BY <1>18, <1>0 DEF Written, RoleAssigned, LeavesAlone, Tables
<1>19. CASE r.op = "role.remove" BY <1>19, <1>0 DEF Written, RoleRemoved, LeavesAlone, Tables
<1>20. CASE r.op = "role.grants" BY <1>20, <1>0 DEF Written, GrantsSet, LeavesAlone, Tables
<1> QED
  BY <1>1, <1>2, <1>3, <1>4, <1>5, <1>6, <1>7, <1>8, <1>9, <1>10, <1>11, <1>12, <1>13, <1>14, <1>15,
     <1>16, <1>17, <1>18, <1>19, <1>20, OpsOfRequests DEF Elsewhere

\* Only row k of a table is written.
OnlyRow(f, g, k) ==
    /\ DOMAIN f \ {k} = DOMAIN g \ {k}
    /\ \A x \in DOMAIN f \ {k} : g[x] = f[x]

ApplicationWritten(d, e, r) ==
    /\ OnlyRow(d.application, e.application, r.id)
    /\ r.op = "draft.save" =>
          IF r.id \in DOMAIN d.application
          THEN r.id \in DOMAIN e.application /\ e.application[r.id].status = d.application[r.id].status
          ELSE r.id \in DOMAIN e.application /\ e.application[r.id].status = "DRAFT"
    /\ r.op = "draft.submit" =>
          /\ r.id \in DOMAIN d.application /\ r.id \in DOMAIN e.application
          /\ e.application[r.id].status = "PENDING"
          /\ e.application[r.id].name = d.application[r.id].name
          /\ e.application[r.id].complete = d.application[r.id].complete
    /\ r.op = "application.create" =>
          /\ r.id \notin DOMAIN d.application /\ r.id \in DOMAIN e.application
          /\ e.application[r.id].status = "PENDING"
          /\ e.application[r.id].name = r.name
          /\ e.application[r.id].complete
    /\ r.op \in {"application.return", "application.reject"} =>
          /\ DOMAIN e.application = DOMAIN d.application
          /\ r.id \in DOMAIN d.application =>
                e.application[r.id].status \in {"CHANGES_REQUESTED", "REJECTED"}

LEMMA ApplicationRows ==
  ASSUME NEW d, Formed(d), NEW r \in Requests, NEW seen, Admits(d, r, seen),
         r.op \in {"draft.save", "draft.submit", "application.create", "application.return",
                   "application.reject"}
  PROVE  ApplicationWritten(d, Written(d, r, seen), r)
<1> DEFINE e == Written(d, r, seen)
<1> SUFFICES ApplicationWritten(d, e, r) OBVIOUS
<1> HIDE DEF e
<1>0. DOMAIN d = Tables BY DEF Formed, Tables
<1>1. CASE r.op = "draft.save" /\ seen = Null
  <2>1. r.id \notin DOMAIN d.application BY <1>1 DEF Admits
  <2>2. e.application =
          With(d.application, r.id,
               [user |-> r.user, status |-> "DRAFT", name |-> r.name, complete |-> r.complete])
    BY <1>0, <1>1 DEF e, Written, DraftSaved, Tables
  <2>3. OnlyRow(d.application, e.application, r.id) BY <2>2 DEF OnlyRow, With
  <2>4. r.id \in DOMAIN e.application /\ e.application[r.id].status = "DRAFT" BY <2>2 DEF With
  <2> QED BY <1>1, <2>1, <2>3, <2>4 DEF ApplicationWritten
<1>2. CASE r.op = "draft.save" /\ seen # Null
  <2>1. r.id \in DOMAIN d.application BY <1>2 DEF Admits
  <2>2. e.application =
          [d.application EXCEPT ![r.id] = [@ EXCEPT !.name = r.name, !.complete = r.complete]]
    BY <1>0, <1>2 DEF e, Written, DraftSaved, Tables
  <2>3. OnlyRow(d.application, e.application, r.id) BY <2>2 DEF OnlyRow
  <2>4. r.id \in DOMAIN e.application /\ e.application[r.id].status = d.application[r.id].status
    BY <2>1, <2>2 DEF Formed
  <2> QED BY <1>2, <2>1, <2>3, <2>4 DEF ApplicationWritten
<1>3. CASE r.op = "draft.submit"
  <2>1. r.id \in DOMAIN d.application BY <1>3 DEF Admits
  <2>2. e.application = [d.application EXCEPT ![r.id].status = "PENDING"]
    BY <1>0, <1>3 DEF e, Written, Submitted, Tables
  <2>3. OnlyRow(d.application, e.application, r.id) BY <2>2 DEF OnlyRow
  <2>4. r.id \in DOMAIN e.application /\ e.application[r.id].status = "PENDING"
    BY <2>1, <2>2 DEF Formed
  <2>5. /\ e.application[r.id].name = d.application[r.id].name
        /\ e.application[r.id].complete = d.application[r.id].complete
    BY <2>1, <2>2 DEF Formed
  <2> QED BY <1>3, <2>1, <2>3, <2>4, <2>5 DEF ApplicationWritten
<1>4. CASE r.op = "application.create"
  <2>1. r.id \notin DOMAIN d.application BY <1>4 DEF Admits
  <2>2. e.application =
          With(d.application, r.id,
               [user |-> r.user, status |-> "PENDING", name |-> r.name, complete |-> TRUE])
    BY <1>0, <1>4 DEF e, Written, Applied, Tables
  <2>3. OnlyRow(d.application, e.application, r.id) BY <2>2 DEF OnlyRow, With
  <2>4. r.id \in DOMAIN e.application /\ e.application[r.id].status = "PENDING" BY <2>2 DEF With
  <2>5. e.application[r.id].name = r.name /\ e.application[r.id].complete BY <2>2 DEF With
  <2> QED BY <1>4, <2>1, <2>3, <2>4, <2>5 DEF ApplicationWritten
<1>5. CASE r.op \in {"application.return", "application.reject"}
  <2>1. PICK x \in {"CHANGES_REQUESTED", "REJECTED"} :
           e.application = [d.application EXCEPT ![r.id].status = x]
    BY <1>0, <1>5 DEF e, Written, Returned, Rejected, Tables
  <2>2. OnlyRow(d.application, e.application, r.id) BY <2>1 DEF OnlyRow
  <2>3. DOMAIN e.application = DOMAIN d.application BY <2>1
  <2>4. r.id \in DOMAIN d.application => e.application[r.id].status = x BY <2>1 DEF Formed
  <2> QED BY <1>5, <2>1, <2>2, <2>3, <2>4 DEF ApplicationWritten
<1> QED BY <1>1, <1>2, <1>3, <1>4, <1>5

SchoolWritten(d, e, r) ==
    /\ DOMAIN e.school = DOMAIN d.school
    /\ \A s \in DOMAIN d.school : s = r.id \/ e.school[s] = d.school[s]
    /\ r.op \in {"school.rename", "module.set"} => \A s \in DOMAIN d.school :
          e.school[s].live = d.school[s].live /\ e.school[s].status = d.school[s].status
    /\ r.op = "school.status" => \A s \in DOMAIN d.school : e.school[s].live = d.school[s].live
    /\ r.op = "school.delete" /\ r.id \in DOMAIN d.school =>
          ~e.school[r.id].live /\ e.school[r.id].status = "CANCELLED"

LEMMA SchoolRows ==
  ASSUME NEW d, Formed(d), NEW r \in Requests, NEW seen,
         r.op \in {"school.rename", "school.status", "school.delete", "module.set"}
  PROVE  SchoolWritten(d, Written(d, r, seen), r)
<1> DEFINE e == Written(d, r, seen)
<1> SUFFICES SchoolWritten(d, e, r) OBVIOUS
<1> HIDE DEF e
<1>0. DOMAIN d = Tables BY DEF Formed, Tables
<1>1. CASE r.op = "school.rename"
  <2>1. e.school = [d.school EXCEPT ![r.id].name = r.name] BY <1>0, <1>1 DEF e, Written, Renamed, Tables
  <2>2. /\ DOMAIN e.school = DOMAIN d.school
        /\ \A s \in DOMAIN d.school : s = r.id \/ e.school[s] = d.school[s]
    BY <2>1
  <2>3. \A s \in DOMAIN d.school : /\ e.school[s].live = d.school[s].live
                                   /\ e.school[s].status = d.school[s].status
    BY <2>1 DEF Formed
  <2> QED BY <1>1, <2>2, <2>3 DEF SchoolWritten
<1>2. CASE r.op = "school.status"
  <2>1. e.school = [d.school EXCEPT ![r.id].status = r.status]
    BY <1>0, <1>2 DEF e, Written, StatusSet, Tables
  <2>2. /\ DOMAIN e.school = DOMAIN d.school
        /\ \A s \in DOMAIN d.school : s = r.id \/ e.school[s] = d.school[s]
    BY <2>1
  <2>3. \A s \in DOMAIN d.school : e.school[s].live = d.school[s].live BY <2>1 DEF Formed
  <2> QED BY <1>2, <2>2, <2>3 DEF SchoolWritten
<1>3. CASE r.op = "school.delete"
  <2>1. e.school = [d.school EXCEPT ![r.id] = [@ EXCEPT !.live = FALSE, !.status = "CANCELLED"]]
    BY <1>0, <1>3 DEF e, Written, SchoolDeleted, Tables
  <2>2. /\ DOMAIN e.school = DOMAIN d.school
        /\ \A s \in DOMAIN d.school : s = r.id \/ e.school[s] = d.school[s]
    BY <2>1
  <2>3. ASSUME r.id \in DOMAIN d.school
        PROVE  e.school[r.id].live = FALSE /\ e.school[r.id].status = "CANCELLED"
    <3>1. e.school[r.id] = [d.school[r.id] EXCEPT !.live = FALSE, !.status = "CANCELLED"]
      BY <2>1, <2>3
    <3>2. DOMAIN d.school[r.id] = {"name", "status", "live", "modules"} BY <2>3 DEF Formed
    <3> QED BY <3>1, <3>2
  <2> QED BY <1>3, <2>2, <2>3 DEF SchoolWritten
<1>4. CASE r.op = "module.set"
  <2>1. e.school = [d.school EXCEPT ![r.id].modules = IF r.enabled THEN @ \cup {r.module}
                                                                   ELSE @ \ {r.module}]
    BY <1>0, <1>4 DEF e, Written, ModuleSet, Tables
  <2>2. /\ DOMAIN e.school = DOMAIN d.school
        /\ \A s \in DOMAIN d.school : s = r.id \/ e.school[s] = d.school[s]
    BY <2>1
  <2>3. \A s \in DOMAIN d.school : /\ e.school[s].live = d.school[s].live
                                   /\ e.school[s].status = d.school[s].status
    BY <2>1 DEF Formed
  <2> QED BY <1>4, <2>2, <2>3 DEF SchoolWritten
<1> QED BY <1>1, <1>2, <1>3, <1>4

InvitationWritten(d, e, r) ==
    /\ r.op = "invitation.create" =>
          /\ r.id \notin DOMAIN d.invitation /\ DOMAIN e.invitation = DOMAIN d.invitation \cup {r.id}
          /\ e.invitation[r.id].status = "PENDING"
    /\ r.op = "invitation.revoke" =>
          /\ DOMAIN e.invitation = DOMAIN d.invitation
          /\ r.id \in DOMAIN d.invitation => e.invitation[r.id].status = "REVOKED"
    /\ \A i \in DOMAIN d.invitation : i = r.id \/ e.invitation[i] = d.invitation[i]

LEMMA InvitationRows ==
  ASSUME NEW d, Formed(d), NEW r \in Requests, NEW seen, Admits(d, r, seen),
         r.op \in {"invitation.create", "invitation.revoke"}
  PROVE  InvitationWritten(d, Written(d, r, seen), r)
<1> DEFINE e == Written(d, r, seen)
<1> SUFFICES InvitationWritten(d, e, r) OBVIOUS
<1> HIDE DEF e
<1>0. DOMAIN d = Tables BY DEF Formed, Tables
<1>1. CASE r.op = "invitation.create"
  <2>1. r.id \notin DOMAIN d.invitation BY <1>1 DEF Admits
  <2>2. e.invitation =
          With(d.invitation, r.id, [school |-> r.school, user |-> r.user, roles |-> r.roles,
                                    staff |-> r.staff, status |-> "PENDING", expired |-> FALSE])
    BY <1>0, <1>1 DEF e, Written, Invited, Tables
  <2>3. /\ DOMAIN e.invitation = DOMAIN d.invitation \cup {r.id}
        /\ e.invitation[r.id].status = "PENDING"
        /\ \A i \in DOMAIN d.invitation : i = r.id \/ e.invitation[i] = d.invitation[i]
    BY <2>2 DEF With
  <2> QED BY <1>1, <2>1, <2>3 DEF InvitationWritten
<1>2. CASE r.op = "invitation.revoke"
  <2>1. e.invitation = [d.invitation EXCEPT ![r.id].status = "REVOKED"]
    BY <1>0, <1>2 DEF e, Written, Revoked, Tables
  <2>2. /\ DOMAIN e.invitation = DOMAIN d.invitation
        /\ \A i \in DOMAIN d.invitation : i = r.id \/ e.invitation[i] = d.invitation[i]
    BY <2>1
  <2>3. r.id \in DOMAIN d.invitation => e.invitation[r.id].status = "REVOKED" BY <2>1 DEF Formed
  <2> QED BY <1>2, <2>2, <2>3 DEF InvitationWritten
<1> QED BY <1>1, <1>2
-----------------------------------------------------------------------------
(* Applications.                                                           *)

\* What the checks found is still so.
Timely(d, r, seen) == Accepts(d, r) /\ Seen(d, r) = seen

NoNewPending(d, e) ==
    \A a \in Pending(e) : a \in Pending(d) /\ e.application[a] = d.application[a]
NoNewApproval(d, e) ==
    /\ \A a \in Approved(e) : a \in Approved(d) /\ e.application[a].name = d.application[a].name
    /\ DOMAIN d.school \subseteq DOMAIN e.school
ApprovalsStay(d, e) ==
    /\ \A a \in Approved(d) : a \in Approved(e) /\ e.application[a].name = d.application[a].name
    /\ DOMAIN e.school \subseteq DOMAIN d.school

LEMMA InOrderWithout ==
  ASSUME NEW d, NEW e
  PROVE  /\ NoNewPending(d, e) /\ Twins(d) = {} => Twins(e) = {}
         /\ NoNewPending(d, e) /\ Incomplete(d) = {} => Incomplete(e) = {}
         /\ NoNewApproval(d, e) /\ Unfounded(d) = {} => Unfounded(e) = {}
         /\ ApprovalsStay(d, e) /\ Unapproved(d) = {} => Unapproved(e) = {}
<1>1. NoNewPending(d, e) /\ Twins(d) = {} => Twins(e) = {} BY DEF NoNewPending, Twins
<1>2. NoNewPending(d, e) /\ Incomplete(d) = {} => Incomplete(e) = {} BY DEF NoNewPending, Incomplete
<1>3. NoNewApproval(d, e) /\ Unfounded(d) = {} => Unfounded(e) = {} BY DEF NoNewApproval, Unfounded
<1>4. ApprovalsStay(d, e) /\ Unapproved(d) = {} => Unapproved(e) = {}
  BY DEF ApprovalsStay, Unapproved
<1> QED BY <1>1, <1>2, <1>3, <1>4

LEMMA SameApplications ==
  ASSUME NEW d, NEW e, e.application = d.application, DOMAIN e.school = DOMAIN d.school
  PROVE  NoNewPending(d, e) /\ NoNewApproval(d, e) /\ ApprovalsStay(d, e)
  BY DEF NoNewPending, NoNewApproval, ApprovalsStay, Pending, Approved

(* The status of the row a request is about, if its checks still hold. *)
LEMMA StatusWhenTimely ==
  ASSUME NEW d, NEW r, Accepts(d, r)
  PROVE  /\ r.op \in {"draft.save", "draft.submit"} /\ r.id \in DOMAIN d.application =>
               d.application[r.id].status \in {"DRAFT", "CHANGES_REQUESTED"}
         /\ r.op \in {"application.approve", "application.return", "application.reject"} =>
               r.id \in DOMAIN d.application /\ d.application[r.id].status = "PENDING"
<1>1. r.op = "draft.save" /\ r.id \in DOMAIN d.application =>
         d.application[r.id].status \in {"DRAFT", "CHANGES_REQUESTED"}
  BY DEF Accepts, MaySaveDraft, Editable, ApplicationsOf
<1>2. r.op = "draft.submit" => d.application[r.id].status \in {"DRAFT", "CHANGES_REQUESTED"}
  BY DEF Accepts, MaySubmit, Editable, ApplicationsOf
<1>3. r.op \in {"application.approve", "application.return", "application.reject"} =>
         r.id \in DOMAIN d.application /\ d.application[r.id].status = "PENDING"
  BY DEF Accepts, MayApprove, MayReview, Pending
<1> QED BY <1>1, <1>2, <1>3

(* Which requests put nothing new under review, approve nothing, or leave  *)
(* what was approved alone.                                                *)
LEMMA DraftsAndReviews ==
  ASSUME NEW d, Formed(d), NEW r \in Requests, NEW seen, Admits(d, r, seen),
         r.op \in {"draft.save", "draft.submit", "application.create", "application.return",
                   "application.reject"}
  PROVE  LET e == Written(d, r, seen)
             timely == Timely(d, r, seen)
         IN  /\ timely /\ r.op = "draft.save" => NoNewPending(d, e)
             /\ r.op \in {"application.return", "application.reject"} => NoNewPending(d, e)
             /\ timely \/ r.op # "draft.save" => NoNewApproval(d, e)
             /\ timely \/ r.op = "application.create" => ApprovalsStay(d, e)
<1> DEFINE e == Written(d, r, seen)
           timely == Timely(d, r, seen)
<1>1. ApplicationWritten(d, e, r) BY ApplicationRows
<1>2. e.school = d.school BY OtherTables DEF LeavesAlone
<1>3. timely => Accepts(d, r) BY DEF Timely
<1> HIDE DEF e, timely
<1>4. OnlyRow(d.application, e.application, r.id) BY <1>1 DEF ApplicationWritten
<1>5. ASSUME timely, r.op = "draft.save" PROVE r.id \notin Pending(e) /\ r.id \notin Approved(e)
  BY <1>1, <1>3, <1>5, StatusWhenTimely DEF ApplicationWritten, Pending, Approved
<1>6. ASSUME r.op \in {"application.return", "application.reject"}
      PROVE  r.id \notin Pending(e) /\ r.id \notin Approved(e)
  BY <1>1, <1>6 DEF ApplicationWritten, Pending, Approved
<1>7. ASSUME r.op \in {"draft.submit", "application.create"} PROVE r.id \notin Approved(e)
  BY <1>1, <1>7 DEF ApplicationWritten, Approved
<1>8. ASSUME timely \/ r.op = "application.create" PROVE r.id \notin Approved(d)
  BY <1>1, <1>3, <1>8, StatusWhenTimely DEF ApplicationWritten, Approved
<1>9. r.id \notin Pending(e) => NoNewPending(d, e)
  BY <1>4 DEF OnlyRow, NoNewPending, Pending
<1>10. r.id \notin Approved(e) => NoNewApproval(d, e)
  BY <1>2, <1>4 DEF OnlyRow, NoNewApproval, Approved
<1>11. r.id \notin Approved(d) => ApprovalsStay(d, e)
  BY <1>2, <1>4 DEF OnlyRow, ApprovalsStay, Approved
<1>12. timely /\ r.op = "draft.save" => NoNewPending(d, e) BY <1>5, <1>9
<1>13. r.op \in {"application.return", "application.reject"} => NoNewPending(d, e) BY <1>6, <1>9
<1>14. timely \/ r.op # "draft.save" => NoNewApproval(d, e) BY <1>5, <1>6, <1>7, <1>10
<1>15. timely \/ r.op = "application.create" => ApprovalsStay(d, e) BY <1>8, <1>11
<1> QED BY <1>12, <1>13, <1>14, <1>15 DEF e, timely

LEMMA SubmittedInOrder ==
  ASSUME NEW d, Formed(d), Tied(d), NEW r \in Requests, NEW seen, Admits(d, r, seen),
         r.op \in {"draft.submit", "application.create"}
  PROVE  LET e == Written(d, r, seen)
             timely == Timely(d, r, seen)
         IN  /\ timely /\ Twins(d) = {} => Twins(e) = {}
             /\ (timely \/ r.op = "application.create") /\ Incomplete(d) = {} => Incomplete(e) = {}
<1> DEFINE e == Written(d, r, seen)
           timely == Timely(d, r, seen)
<1>1. ApplicationWritten(d, e, r) BY ApplicationRows
<1>2. timely => Accepts(d, r) BY DEF Timely
<1> HIDE DEF e, timely
<1>3. \A a \in Pending(e) : a = r.id \/ (a \in Pending(d) /\ e.application[a] = d.application[a])
  BY <1>1 DEF ApplicationWritten, OnlyRow, Pending
<1>4. ASSUME timely, NEW a \in Pending(d), a # r.id
      PROVE  d.application[a].name # e.application[r.id].name
  <2>1. CASE r.op = "draft.submit"
    <3>1. NameAvailable(d, d.application[r.id].name, r.id) BY <1>2, <1>4, <2>1 DEF Accepts, MaySubmit
    <3>2. e.application[r.id].name = d.application[r.id].name BY <1>1, <2>1 DEF ApplicationWritten
    <3> QED BY <3>1, <3>2, <1>4 DEF NameAvailable
  <2>2. CASE r.op = "application.create"
    <3>1. NameAvailable(d, r.name, Null) BY <1>2, <1>4, <2>2 DEF Accepts, MayApply
    <3>2. e.application[r.id].name = r.name BY <1>1, <2>2 DEF ApplicationWritten
    <3>3. a # Null BY <1>4 DEF Tied, Pending
    <3> QED BY <3>1, <3>2, <3>3, <1>4 DEF NameAvailable
  <2> QED BY <2>1, <2>2
<1>5. ASSUME timely \/ r.op = "application.create" PROVE e.application[r.id].complete
  <2>1. CASE r.op = "draft.submit"
    <3>1. d.application[r.id].complete BY <1>2, <1>5, <2>1 DEF Accepts, MaySubmit
    <3> QED BY <3>1, <1>1, <2>1 DEF ApplicationWritten
  <2>2. CASE r.op = "application.create" BY <1>1, <2>2 DEF ApplicationWritten
  <2> QED BY <2>1, <2>2
<1>6. ASSUME timely, Twins(d) = {} PROVE Twins(e) = {}
  <2> SUFFICES ASSUME NEW a \in Pending(e), NEW b \in Pending(e), a # b,
                      e.application[a].name = e.application[b].name
               PROVE  FALSE
    BY DEF Twins
  <2>1. CASE a # r.id /\ b # r.id
    <3>1. /\ a \in Pending(d) /\ b \in Pending(d)
          /\ d.application[a].name = d.application[b].name
      BY <1>3, <2>1
    <3> QED BY <3>1, <1>6 DEF Twins
  <2>2. CASE a = r.id \/ b = r.id BY <1>3, <1>4, <1>6, <2>2
  <2> QED BY <2>1, <2>2
<1>7. ASSUME timely \/ r.op = "application.create", Incomplete(d) = {} PROVE Incomplete(e) = {}
  BY <1>3, <1>5, <1>7 DEF Incomplete
<1> QED BY <1>6, <1>7 DEF e, timely

LEMMA SeenRow ==
  ASSUME NEW d, Formed(d), NEW r, r.op = "application.approve", r.id \in DOMAIN d.application
  PROVE  /\ Seen(d, r).user = d.application[r.id].user
         /\ Seen(d, r).name = d.application[r.id].name
<1>1. Seen(d, r) = [d.application[r.id] EXCEPT !.status = "any"] BY DEF Seen
<1> QED BY <1>1 DEF Formed

LEMMA ApprovedInOrder ==
  ASSUME NEW d, Formed(d), Tied(d), NEW r \in Requests, NEW seen, Pledge(d, r, seen),
         r.op = "application.approve"
  PROVE  LET e == Written(d, r, seen)
             timely == Timely(d, r, seen)
         IN  /\ NoNewPending(d, e)
             /\ timely /\ Unfounded(d) = {} => Unfounded(e) = {}
             /\ timely /\ Unapproved(d) = {} => Unapproved(e) = {}
<1> DEFINE e == Written(d, r, seen)
           timely == Timely(d, r, seen)
<1>1. r.id \in DOMAIN d.application /\ seen.user \in DOMAIN d.user BY DEF Pledge
<1>2. IsFounding(d, e, r, seen) BY <1>1, Founding
<1>3. timely => d.application[r.id].status = "PENDING" BY StatusWhenTimely DEF Timely
<1>4. timely => seen.name = d.application[r.id].name BY <1>1, SeenRow DEF Timely
<1> HIDE DEF e, timely
<1>5. /\ DOMAIN e.application = DOMAIN d.application
      /\ \A a \in DOMAIN d.application : a = r.id \/ e.application[a] = d.application[a]
      /\ e.application[r.id].status = "APPROVED"
      /\ e.application[r.id].name = d.application[r.id].name
      /\ DOMAIN e.school = DOMAIN d.school \cup {seen.name}
  BY <1>2 DEF IsFounding
<1>6. NoNewPending(d, e) BY <1>5 DEF NoNewPending, Pending
<1>7. ASSUME timely, Unfounded(d) = {} PROVE Unfounded(e) = {}
  <2>1. \A a \in Approved(e) : a = r.id \/ (a \in Approved(d) /\ e.application[a] = d.application[a])
    BY <1>5 DEF Approved
  <2> QED BY <2>1, <1>4, <1>5, <1>7 DEF Unfounded
<1>8. ASSUME timely, Unapproved(d) = {} PROVE Unapproved(e) = {}
  <2>1. r.id \in Approved(e) /\ e.application[r.id].name = seen.name
    BY <1>1, <1>4, <1>5, <1>8 DEF Approved
  <2>2. \A a \in Approved(d) : a \in Approved(e) /\ e.application[a].name = d.application[a].name
    BY <1>3, <1>5, <1>8 DEF Approved
  <2> SUFFICES ASSUME NEW s \in DOMAIN e.school PROVE \E a \in Approved(e) : e.application[a].name = s
    BY DEF Unapproved
  <2>3. CASE s = seen.name BY <2>1, <2>3
  <2>4. CASE s \in DOMAIN d.school
    <3>1. PICK a \in Approved(d) : d.application[a].name = s BY <1>8, <2>4 DEF Unapproved
    <3> QED BY <2>2, <3>1
  <2> QED BY <2>3, <2>4, <1>5
<1> QED BY <1>6, <1>7, <1>8 DEF e, timely

(* Part by part, with the requests whose write must be timely for it. *)
LEMMA WritesKeepApplications ==
  ASSUME NEW d, Formed(d), Tied(d), NEW r \in Requests, NEW seen, Pledge(d, r, seen),
         Admits(d, r, seen)
  PROVE  LET e == Written(d, r, seen)
             timely(ops) == r.op \in ops => Timely(d, r, seen)
         IN  /\ timely({"draft.save", "draft.submit", "application.create"}) /\ Twins(d) = {} =>
                   Twins(e) = {}
             /\ timely({"draft.save", "draft.submit"}) /\ Incomplete(d) = {} => Incomplete(e) = {}
             /\ timely({"draft.save", "application.approve"}) /\ Unfounded(d) = {} => Unfounded(e) = {}
             /\ /\ timely({"draft.save", "draft.submit", "application.approve", "application.return",
                           "application.reject"})
                /\ Unapproved(d) = {}
                => Unapproved(e) = {}
<1> DEFINE e == Written(d, r, seen)
<1> HIDE DEF e
<1>1. CASE r.op \in {"draft.save", "application.return", "application.reject"}
  BY <1>1, DraftsAndReviews, InOrderWithout DEF e
<1>2. CASE r.op \in {"draft.submit", "application.create"}
  BY <1>2, DraftsAndReviews, SubmittedInOrder, InOrderWithout DEF e
<1>3. CASE r.op = "application.approve" BY <1>3, ApprovedInOrder, InOrderWithout DEF e
<1>4. CASE r.op \notin {"draft.save", "draft.submit", "application.create", "application.approve",
                        "application.return", "application.reject"}
  <2>1. e.application = d.application BY <1>4, OtherTables DEF LeavesAlone, e
  <2>2. DOMAIN e.school = DOMAIN d.school
    <3>1. CASE r.op \in {"school.rename", "school.status", "school.delete", "module.set"}
      BY <3>1, SchoolRows DEF SchoolWritten, e
    <3>2. CASE r.op \notin {"school.rename", "school.status", "school.delete", "module.set"}
      BY <3>2, <1>4, OtherTables DEF LeavesAlone, e
    <3> QED BY <3>1, <3>2
  <2> QED BY <2>1, <2>2, SameApplications, InOrderWithout DEF e
<1> QED BY <1>1, <1>2, <1>3, <1>4

LEMMA DroppingKeepsApplications ==
  ASSUME NEW d, Formed(d), NEW r
  PROVE  LET e == DraftsDropped(d, r)
         IN  NoNewPending(d, e) /\ NoNewApproval(d, e) /\ ApprovalsStay(d, e)
<1> DEFINE e == DraftsDropped(d, r)
           dropped == ApplicationsOf(d, r.user, {"DRAFT"})
<1>0. DOMAIN d = Tables BY DEF Formed, Tables
<1>1. e.application = Without(d.application, dropped) /\ e.school = d.school
  BY <1>0 DEF DraftsDropped, Tables
<1>2. \A a \in dropped : d.application[a].status = "DRAFT" BY DEF ApplicationsOf
<1> HIDE DEF e, dropped
<1>3. \A a \in DOMAIN e.application : a \in DOMAIN d.application /\ e.application[a] = d.application[a]
  BY <1>1 DEF Without
<1>4. \A a \in DOMAIN d.application : d.application[a].status # "DRAFT" =>
         a \in DOMAIN e.application /\ e.application[a] = d.application[a]
  BY <1>1, <1>2 DEF Without
<1> QED BY <1>1, <1>3, <1>4 DEF e, NoNewPending, NoNewApproval, ApprovalsStay, Pending, Approved

(* Who has not overtaken anybody wrote in time.                            *)
LEMMA NotOvertaken ==
  ASSUME NEW c \in Clients, Commits(c), NEW ops, ~Raced(ops)'
  PROVE  ~Raced(ops) /\ (held[c].req.op \in ops => Timely(db, held[c].req, held[c].seen))
  BY DEF Commits, Raced, Overtaken, Timely

LEMMA ApplicationsNext ==
  ASSUME OInv, ApplicationsUnlessRaced, [Next]_vars
  PROVE  ApplicationsUnlessRaced'
<1>1. CASE db' = db /\ overtaken' = overtaken
  BY <1>1 DEF ApplicationsUnlessRaced, Raced, Twins, Incomplete, Unfounded, Unapproved, Pending,
     Approved
<1>2. ASSUME NEW c \in Clients, Commits(c) PROVE ApplicationsUnlessRaced'
  <2> DEFINE r == held[c].req
             seen == held[c].seen
  <2>1. r \in Requests /\ Pledge(db, r, seen) /\ Admits(db, r, seen) /\ db' = Written(db, r, seen)
    BY <1>2 DEF Commits, OInv, Pledged, CInv, Shapes
  <2>2. \A ops : ~Raced(ops)' => ~Raced(ops) /\ (r.op \in ops => Timely(db, r, seen))
    BY <1>2, NotOvertaken
  <2> HIDE DEF r, seen
  <2>3. /\ (Twins(db) = {} /\ ~Raced({"draft.save", "draft.submit", "application.create"})') =>
             Twins(db') = {}
        /\ (Incomplete(db) = {} /\ ~Raced({"draft.save", "draft.submit"})') => Incomplete(db') = {}
        /\ (Unfounded(db) = {} /\ ~Raced({"draft.save", "application.approve"})') => Unfounded(db') = {}
        /\ (/\ Unapproved(db) = {}
            /\ ~Raced({"draft.save", "draft.submit", "application.approve", "application.return",
                       "application.reject"})') => Unapproved(db') = {}
    BY <2>1, <2>2, WritesKeepApplications DEF OInv
  <2> QED BY <2>2, <2>3 DEF ApplicationsUnlessRaced
<1>3. ASSUME overtaken' = overtaken, NoNewPending(db, db'), NoNewApproval(db, db'),
             ApprovalsStay(db, db')
      PROVE  ApplicationsUnlessRaced'
  BY <1>3, InOrderWithout DEF ApplicationsUnlessRaced, Raced
<1>4. ASSUME overtaken' = overtaken, NEW r, db' = DraftsDropped(db, r)
      PROVE  ApplicationsUnlessRaced'
  BY <1>3, <1>4, DroppingKeepsApplications DEF OInv
<1>5. ASSUME overtaken' = overtaken, NEW i, db' = [db EXCEPT !.invitation[i].expired = TRUE]
      PROVE  ApplicationsUnlessRaced'
  <2>1. db'.application = db.application /\ db'.school = db.school
    BY <1>5 DEF OInv, Formed
  <2> QED BY <1>3, <1>5, <2>1, SameApplications
<1> QED BY <1>1, <1>2, <1>4, <1>5, Steps

(* Applications under review are complete and ask for different names, and *)
(* schools and approvals belong together, as long as nobody saved, sent    *)
(* or reviewed an application on checks another request had overtaken.     *)
THEOREM ApplicationsHold == Spec => []ApplicationsUnlessRaced
<1>1. Init => ApplicationsUnlessRaced BY PlatformAssumption DEF Init, ApplicationsUnlessRaced
<1>2. OInv /\ ApplicationsUnlessRaced /\ [Next]_vars => ApplicationsUnlessRaced' BY ApplicationsNext
<1> QED BY <1>1, <1>2, OInit, ONext, PTL DEF Spec
-----------------------------------------------------------------------------
(* Decisions.                                                              *)
ReviewsStay(d, e) ==
    \A a \in DOMAIN d.application : d.application[a].status \in {"APPROVED", "REJECTED"} =>
        a \in DOMAIN e.application /\ e.application[a].status = d.application[a].status
DeletionsStay(d, e) == \A s \in DOMAIN d.school : ~d.school[s].live =>
    s \in DOMAIN e.school /\ ~e.school[s].live
Cancellations(d, e) == \A s \in DOMAIN e.school : ~e.school[s].live =>
    \/ e.school[s].status = "CANCELLED"
    \/ s \in DOMAIN d.school /\ ~d.school[s].live /\ e.school[s].status = d.school[s].status
AnswersStay(d, e) ==
    \A i \in DOMAIN d.invitation : d.invitation[i].status \in {"ACCEPTED", "REVOKED"} =>
        e.invitation[i].status = d.invitation[i].status

LEMMA ReviewsStayDecided ==
  ASSUME NEW d, Formed(d), Tied(d), NEW r \in Requests, NEW seen, Pledge(d, r, seen),
         Admits(d, r, seen),
         r.op \in {"draft.submit", "application.approve", "application.return", "application.reject"}
            => Timely(d, r, seen)
  PROVE  ReviewsStay(d, Written(d, r, seen))
<1> DEFINE e == Written(d, r, seen)
<1> SUFFICES ReviewsStay(d, e) OBVIOUS
<1>1. CASE r.op \in {"draft.save", "draft.submit", "application.create", "application.return",
                     "application.reject"}
  <2>1. ApplicationWritten(d, e, r) BY <1>1, ApplicationRows
  <2>2. r.op \in {"draft.submit", "application.return", "application.reject"} => Accepts(d, r)
    BY DEF Timely
  <2> HIDE DEF e
  <2>3. OnlyRow(d.application, e.application, r.id) BY <2>1 DEF ApplicationWritten
  <2>4. CASE r.op = "draft.save" BY <2>1, <2>3, <2>4 DEF ApplicationWritten, OnlyRow, ReviewsStay
  <2>5. CASE r.op = "application.create"
    BY <2>1, <2>3, <2>5 DEF ApplicationWritten, OnlyRow, ReviewsStay
  <2>6. CASE r.op \in {"draft.submit", "application.return", "application.reject"}
    <3>1. r.id \in DOMAIN d.application => d.application[r.id].status \notin {"APPROVED", "REJECTED"}
      BY <2>2, <2>6, StatusWhenTimely
    <3> QED BY <2>3, <3>1 DEF OnlyRow, ReviewsStay
  <2> QED BY <1>1, <2>4, <2>5, <2>6
<1>2. CASE r.op = "application.approve"
  <2>1. IsFounding(d, e, r, seen) BY <1>2, Founding DEF Pledge
  <2>2. d.application[r.id].status = "PENDING" BY <1>2, StatusWhenTimely DEF Timely
  <2> HIDE DEF e
  <2>3. /\ DOMAIN e.application = DOMAIN d.application
        /\ \A a \in DOMAIN d.application : a = r.id \/ e.application[a] = d.application[a]
    BY <2>1 DEF IsFounding
  <2> QED BY <2>2, <2>3 DEF ReviewsStay
<1>3. CASE r.op \notin {"draft.save", "draft.submit", "application.create", "application.approve",
                        "application.return", "application.reject"}
  <2>1. e.application = d.application BY <1>3, OtherTables DEF LeavesAlone
  <2> HIDE DEF e
  <2> QED BY <2>1 DEF ReviewsStay
<1> QED BY <1>1, <1>2, <1>3

LEMMA SchoolsStayDeleted ==
  ASSUME NEW d, Formed(d), Tied(d), NEW r \in Requests, NEW seen, Pledge(d, r, seen),
         Admits(d, r, seen)
  PROVE  LET e == Written(d, r, seen) IN
         DeletionsStay(d, e) /\ ((r.op = "school.status" => Timely(d, r, seen)) => Cancellations(d, e))
<1> DEFINE e == Written(d, r, seen)
           timely == r.op = "school.status" => Timely(d, r, seen)
<1> SUFFICES DeletionsStay(d, e) /\ (timely => Cancellations(d, e)) OBVIOUS
<1>1. CASE r.op \in {"school.rename", "school.status", "school.delete", "module.set"}
  <2>1. SchoolWritten(d, e, r) BY <1>1, SchoolRows
  <2>2. r.op = "school.status" /\ timely => r.id \in DOMAIN d.school /\ d.school[r.id].live
    BY DEF Timely, Accepts, MaySetStatus, Live
  <2> HIDE DEF e, timely
  <2>3. CASE r.op \in {"school.rename", "module.set"}
    BY <2>1, <2>3 DEF SchoolWritten, DeletionsStay, Cancellations
  <2>4. CASE r.op = "school.status"
    BY <2>1, <2>2, <2>4 DEF SchoolWritten, DeletionsStay, Cancellations
  <2>5. CASE r.op = "school.delete"
    BY <2>1, <2>5 DEF SchoolWritten, DeletionsStay, Cancellations
  <2> QED BY <1>1, <2>3, <2>4, <2>5
<1>2. CASE r.op = "application.approve"
  <2>1. IsFounding(d, e, r, seen) BY <1>2, Founding DEF Pledge
  <2>2. seen.name \notin DOMAIN d.school BY <1>2 DEF Admits, Taken
  <2> HIDE DEF e, timely
  <2>3. /\ DOMAIN e.school = DOMAIN d.school \cup {seen.name}
        /\ \A s \in DOMAIN d.school : e.school[s] = d.school[s]
        /\ e.school[seen.name].live
    BY <2>1, <2>2 DEF IsFounding
  <2> QED BY <2>3 DEF DeletionsStay, Cancellations
<1>3. CASE r.op \notin {"school.rename", "school.status", "school.delete", "module.set",
                        "application.approve"}
  <2>1. e.school = d.school BY <1>3, OtherTables DEF LeavesAlone
  <2> HIDE DEF e, timely
  <2> QED BY <2>1 DEF DeletionsStay, Cancellations
<1> QED BY <1>1, <1>2, <1>3

LEMMA InvitationsStayAnswered ==
  ASSUME NEW d, Formed(d), Tied(d), NEW r \in Requests, NEW seen, Pledge(d, r, seen),
         Admits(d, r, seen),
         r.op \in {"invitation.revoke", "invitation.accept"} => Timely(d, r, seen)
  PROVE  AnswersStay(d, Written(d, r, seen))
<1> DEFINE e == Written(d, r, seen)
<1> SUFFICES AnswersStay(d, e) OBVIOUS
<1>1. r.op \in {"invitation.revoke", "invitation.accept"} => d.invitation[r.id].status = "PENDING"
  BY DEF Timely, Accepts, MayAccept, MayRevoke
<1>2. CASE r.op \in {"invitation.create", "invitation.revoke"}
  <2>1. InvitationWritten(d, e, r) BY <1>2, InvitationRows
  <2> HIDE DEF e
  <2> QED BY <1>1, <1>2, <2>1 DEF InvitationWritten, AnswersStay
<1>3. CASE r.op = "invitation.accept"
  <2>1. IsAcceptance(d, e, r) BY <1>3, Accepting DEF Pledge
  <2> HIDE DEF e
  <2>2. \A i \in DOMAIN d.invitation : i = r.id \/ e.invitation[i] = d.invitation[i]
    BY <2>1 DEF IsAcceptance
  <2> QED BY <1>1, <1>3, <2>2 DEF AnswersStay
<1>4. CASE r.op \notin {"invitation.create", "invitation.revoke", "invitation.accept"}
  <2>1. e.invitation = d.invitation BY <1>4, OtherTables DEF LeavesAlone
  <2> HIDE DEF e
  <2> QED BY <2>1 DEF AnswersStay
<1> QED BY <1>2, <1>3, <1>4

(* A deleted school is closed, unless somebody set its status meanwhile.   *)
ClosedUnlessRaced == Reopened(db) = {} \/ Raced({"school.status"})

Final ==
    /\ ReviewsStay(db, db') \/ Raced({"draft.submit", "application.approve", "application.return",
                                     "application.reject"})'
    /\ DeletionsStay(db, db')
    /\ Cancellations(db, db') \/ Raced({"school.status"})'
    /\ AnswersStay(db, db') \/ Raced({"invitation.revoke", "invitation.accept"})'
    /\ overtaken \subseteq overtaken'

LEMMA StepsAreFinal ==
  ASSUME OInv, [Next]_vars
  PROVE  Final
<1> USE DEF Final
<1>1. CASE db' = db /\ overtaken' = overtaken
  BY <1>1 DEF ReviewsStay, DeletionsStay, Cancellations, AnswersStay
<1>2. ASSUME NEW c \in Clients, Commits(c) PROVE Final
  <2> DEFINE r == held[c].req
             seen == held[c].seen
  <2>1. r \in Requests /\ Pledge(db, r, seen) /\ Admits(db, r, seen) /\ db' = Written(db, r, seen)
    BY <1>2 DEF Commits, OInv, Pledged, CInv, Shapes
  <2>2. \A ops : ~Raced(ops)' => (r.op \in ops => Timely(db, r, seen)) BY <1>2, NotOvertaken
  <2>3. overtaken \subseteq overtaken' BY <1>2 DEF Commits
  <2> HIDE DEF r, seen
  <2>4. ReviewsStay(db, db') \/ Raced({"draft.submit", "application.approve", "application.return",
                                      "application.reject"})'
    BY <2>1, <2>2, ReviewsStayDecided DEF OInv
  <2>5. DeletionsStay(db, db') /\ (Cancellations(db, db') \/ Raced({"school.status"})')
    BY <2>1, <2>2, SchoolsStayDeleted DEF OInv
  <2>6. AnswersStay(db, db') \/ Raced({"invitation.revoke", "invitation.accept"})'
    BY <2>1, <2>2, InvitationsStayAnswered DEF OInv
  <2> QED BY <2>3, <2>4, <2>5, <2>6
<1>3. ASSUME overtaken' = overtaken, NEW r, db' = DraftsDropped(db, r) PROVE Final
  <2> DEFINE e == DraftsDropped(db, r)
             dropped == ApplicationsOf(db, r.user, {"DRAFT"})
  <2>0. DOMAIN db = Tables BY DEF OInv, Formed, Tables
  <2>1. /\ e.application = Without(db.application, dropped)
        /\ e.school = db.school /\ e.invitation = db.invitation
    BY <2>0 DEF DraftsDropped, Tables
  <2>2. \A a \in dropped : db.application[a].status = "DRAFT" BY DEF ApplicationsOf
  <2> HIDE DEF e, dropped
  <2>3. ReviewsStay(db, e) BY <2>1, <2>2 DEF ReviewsStay, Without
  <2>4. DeletionsStay(db, e) /\ Cancellations(db, e) /\ AnswersStay(db, e)
    BY <2>1 DEF DeletionsStay, Cancellations, AnswersStay
  <2> QED BY <1>3, <2>3, <2>4 DEF e
<1>4. ASSUME overtaken' = overtaken, NEW i \in DOMAIN db.invitation,
             db' = [db EXCEPT !.invitation[i].expired = TRUE]
      PROVE  Final
  <2>0. DOMAIN db = Tables BY DEF OInv, Formed, Tables
  <2>1. /\ db'.invitation = [db.invitation EXCEPT ![i].expired = TRUE]
        /\ db'.application = db.application /\ db'.school = db.school
    BY <1>4, <2>0 DEF Tables
  <2>2. \A j \in DOMAIN db.invitation : db'.invitation[j].status = db.invitation[j].status
    BY <2>1 DEF OInv, Formed
  <2>3. ReviewsStay(db, db') /\ DeletionsStay(db, db') /\ Cancellations(db, db')
    BY <2>1 DEF ReviewsStay, DeletionsStay, Cancellations
  <2> QED BY <1>4, <2>2, <2>3 DEF AnswersStay
<1> QED BY <1>1, <1>2, <1>3, <1>4, Steps

LEMMA ClosedNext ==
  ASSUME OInv, ClosedUnlessRaced, [Next]_vars
  PROVE  ClosedUnlessRaced'
<1>1. Final BY StepsAreFinal
<1>2. Raced({"school.status"}) => Raced({"school.status"})' BY <1>1 DEF Final, Raced
<1>3. Reopened(db) = {} /\ Cancellations(db, db') => Reopened(db)' = {}
  BY DEF Reopened, Cancellations
<1> QED BY <1>1, <1>2, <1>3 DEF Final, ClosedUnlessRaced

(* What a reviewer decided, the deletion of a school and the answer to an  *)
(* invitation are taken back by no later request, unless it was overtaken. *)
THEOREM DecisionsHold == Spec => DecisionsAreFinal
<1> DEFINE Kept ==
       /\ \A a \in DOMAIN db.application : db.application[a].status \in {"APPROVED", "REJECTED"} =>
            \/ a \in DOMAIN db'.application /\ db'.application[a].status = db.application[a].status
            \/ Raced({"draft.submit", "application.approve", "application.return",
                      "application.reject"})'
       /\ \A s \in DOMAIN db.school : ~db.school[s].live =>
            ~db'.school[s].live /\ (db'.school[s].status = "CANCELLED" \/ Raced({"school.status"})')
       /\ \A i \in DOMAIN db.invitation : db.invitation[i].status \in {"ACCEPTED", "REVOKED"} =>
            \/ db'.invitation[i].status = db.invitation[i].status
            \/ Raced({"invitation.revoke", "invitation.accept"})'
<1>1. Init => ClosedUnlessRaced BY PlatformAssumption DEF Init, ClosedUnlessRaced
<1>2. OInv /\ ClosedUnlessRaced /\ [Next]_vars => ClosedUnlessRaced' BY ClosedNext
<1>3. ASSUME OInv, ClosedUnlessRaced, ClosedUnlessRaced', [Next]_vars PROVE Kept
  <2>1. Final BY <1>3, StepsAreFinal
  <2>2. \A a \in DOMAIN db.application : db.application[a].status \in {"APPROVED", "REJECTED"} =>
           \/ a \in DOMAIN db'.application /\ db'.application[a].status = db.application[a].status
           \/ Raced({"draft.submit", "application.approve", "application.return",
                     "application.reject"})'
    BY <2>1 DEF Final, ReviewsStay
  <2>3. \A s \in DOMAIN db.school : ~db.school[s].live =>
           ~db'.school[s].live /\ (db'.school[s].status = "CANCELLED" \/ Raced({"school.status"})')
    BY <1>3, <2>1 DEF Final, DeletionsStay, ClosedUnlessRaced, Reopened
  <2>4. \A i \in DOMAIN db.invitation : db.invitation[i].status \in {"ACCEPTED", "REVOKED"} =>
           \/ db'.invitation[i].status = db.invitation[i].status
           \/ Raced({"invitation.revoke", "invitation.accept"})'
    BY <2>1 DEF Final, AnswersStay
  <2> QED BY <2>2, <2>3, <2>4
<1>4. OInv /\ ClosedUnlessRaced /\ ClosedUnlessRaced' /\ [Next]_vars => [Kept]_vars BY <1>3
<1> QED BY <1>1, <1>2, <1>4, OInit, ONext, PTL DEF Spec, DecisionsAreFinal
-----------------------------------------------------------------------------
(* Memberships.                                                            *)
UserWritten(d, e, r) ==
    /\ \A u \in DOMAIN d.user : u \in DOMAIN e.user /\ e.user[u].school = d.user[u].school
    /\ \A u \in DOMAIN d.user : u = r.id \/ e.user[u] = d.user[u]
    /\ r.op = "account.register" => r.id \notin DOMAIN d.user
    /\ r.op = "user.update" /\ r.id \in DOMAIN d.user =>
          e.user[r.id].live = d.user[r.id].live /\ e.user[r.id].active = r.active

LEMMA UserRows ==
  ASSUME NEW d, Formed(d), NEW r \in Requests, NEW seen, Admits(d, r, seen),
         r.op \in {"account.register", "user.update", "user.remove"}
  PROVE  UserWritten(d, Written(d, r, seen), r)
<1> DEFINE e == Written(d, r, seen)
<1> SUFFICES UserWritten(d, e, r) OBVIOUS
<1> HIDE DEF e
<1>0. DOMAIN d = Tables BY DEF Formed, Tables
<1>1. CASE r.op = "account.register"
  <2>1. r.id \notin DOMAIN d.user BY <1>1 DEF Admits, MayRegister
  <2>2. e.user = With(d.user, r.id, [school |-> Null, active |-> TRUE, live |-> TRUE])
    BY <1>0, <1>1 DEF e, Written, Registered, Tables
  <2>3. \A u \in DOMAIN d.user : u \in DOMAIN e.user /\ e.user[u] = d.user[u] BY <2>1, <2>2 DEF With
  <2> QED BY <1>1, <2>1, <2>3 DEF UserWritten
<1>2. CASE r.op = "user.update"
  <2>1. e.user = [d.user EXCEPT ![r.id].active = r.active]
    BY <1>0, <1>2 DEF e, Written, UserUpdated, Tables
  <2>2. \A u \in DOMAIN d.user : u \in DOMAIN e.user /\ (u = r.id \/ e.user[u] = d.user[u]) BY <2>1
  <2>3. \A u \in DOMAIN d.user : e.user[u].school = d.user[u].school BY <2>1 DEF Formed
  <2>4. r.id \in DOMAIN d.user =>
          e.user[r.id].live = d.user[r.id].live /\ e.user[r.id].active = r.active
    BY <2>1 DEF Formed
  <2> QED BY <1>2, <2>2, <2>3, <2>4 DEF UserWritten
<1>3. CASE r.op = "user.remove"
  <2>1. e.user = [d.user EXCEPT ![r.id] = [@ EXCEPT !.live = FALSE, !.active = FALSE]]
    BY <1>0, <1>3 DEF e, Written, UserRemoved, Tables
  <2>2. \A u \in DOMAIN d.user : u \in DOMAIN e.user /\ (u = r.id \/ e.user[u] = d.user[u]) BY <2>1
  <2>3. \A u \in DOMAIN d.user : e.user[u].school = d.user[u].school BY <2>1 DEF Formed
  <2> QED BY <1>3, <2>2, <2>3 DEF UserWritten
<1> QED BY <1>1, <1>2, <1>3

\* Who belongs to a school stays there.
Settled(d, e) ==
    \A u \in DOMAIN d.user : d.user[u].school # Null =>
        u \in DOMAIN e.user /\ e.user[u].school = d.user[u].school

(* An applicant, or whoever accepts an invitation, belongs to no school.   *)
LEMMA NewMembers ==
  ASSUME NEW d, Formed(d), NEW r, NEW seen, Timely(d, r, seen)
  PROVE  /\ r.op = "application.approve" => d.user[seen.user].school = Null
         /\ r.op = "invitation.accept" => d.user[r.user].school = Null
<1>1. ASSUME r.op = "application.approve" PROVE d.user[seen.user].school = Null
  <2>1. r.id \in DOMAIN d.application /\ d.user[d.application[r.id].user].school = Null
    BY <1>1 DEF Timely, Accepts, MayApprove, MayReview, Pending
  <2>2. seen.user = d.application[r.id].user BY <1>1, <2>1, SeenRow DEF Timely
  <2> QED BY <2>1, <2>2
<1>2. r.op = "invitation.accept" => d.user[r.user].school = Null
  BY DEF Timely, Accepts, MayAccept, Tenantless
<1> QED BY <1>1, <1>2

LEMMA WritesSettle ==
  ASSUME NEW d, Formed(d), Tied(d), NEW r \in Requests, NEW seen, Pledge(d, r, seen),
         Admits(d, r, seen),
         r.op \in {"application.approve", "invitation.accept"} => Timely(d, r, seen)
  PROVE  Settled(d, Written(d, r, seen))
<1> DEFINE e == Written(d, r, seen)
<1> SUFFICES Settled(d, e) OBVIOUS
<1>1. CASE r.op \in {"account.register", "user.update", "user.remove"}
  <2>1. UserWritten(d, e, r) BY <1>1, UserRows
  <2> HIDE DEF e
  <2> QED BY <2>1 DEF UserWritten, Settled
<1>2. CASE r.op = "application.approve"
  <2>1. IsFounding(d, e, r, seen) BY <1>2, Founding DEF Pledge
  <2>2. d.user[seen.user].school = Null BY <1>2, NewMembers
  <2> HIDE DEF e
  <2>3. DOMAIN e.user = DOMAIN d.user /\ \A u \in DOMAIN d.user : u = seen.user \/ e.user[u] = d.user[u]
    BY <2>1 DEF IsFounding
  <2> QED BY <2>2, <2>3 DEF Settled
<1>3. CASE r.op = "invitation.accept"
  <2>1. IsAcceptance(d, e, r) BY <1>3, Accepting DEF Pledge
  <2>2. d.user[r.user].school = Null BY <1>3, NewMembers
  <2> HIDE DEF e
  <2>3. DOMAIN e.user = DOMAIN d.user /\ \A u \in DOMAIN d.user : u = r.user \/ e.user[u] = d.user[u]
    BY <2>1 DEF IsAcceptance
  <2> QED BY <2>2, <2>3 DEF Settled
<1>4. CASE r.op \notin {"account.register", "user.update", "user.remove", "application.approve",
                        "invitation.accept"}
  <2>1. e.user = d.user BY <1>4, OtherTables DEF LeavesAlone
  <2> HIDE DEF e
  <2> QED BY <2>1 DEF Settled
<1> QED BY <1>1, <1>2, <1>3, <1>4

LEMMA WritesKeepAcceptances ==
  ASSUME NEW d, Formed(d), Tied(d), NEW r \in Requests, NEW seen, Pledge(d, r, seen),
         Admits(d, r, seen),
         Settled(d, Written(d, r, seen)), Strayed(d) = {}
  PROVE  Strayed(Written(d, r, seen)) = {}
<1> DEFINE e == Written(d, r, seen)
<1> SUFFICES Strayed(e) = {} OBVIOUS
<1>1. ASSUME NEW i \in DOMAIN d.invitation, d.invitation[i].status = "ACCEPTED"
      PROVE  e.user[d.invitation[i].user].school = d.invitation[i].school
  <2>1. /\ d.invitation[i].user \in DOMAIN d.user
        /\ d.user[d.invitation[i].user].school = d.invitation[i].school
        /\ d.invitation[i].school # Null
    BY <1>1 DEF Tied, Strayed
  <2> HIDE DEF e
  <2> QED BY <2>1 DEF Settled, e
<1>2. CASE r.op \in {"invitation.create", "invitation.revoke"}
  <2>1. InvitationWritten(d, e, r) BY <1>2, InvitationRows
  <2> HIDE DEF e
  <2>2. \A i \in DOMAIN e.invitation : e.invitation[i].status = "ACCEPTED" =>
           i \in DOMAIN d.invitation /\ e.invitation[i] = d.invitation[i]
    BY <1>2, <2>1 DEF InvitationWritten
  <2> QED BY <1>1, <2>2 DEF Strayed
<1>3. CASE r.op = "invitation.accept"
  <2>1. IsAcceptance(d, e, r) /\ d.invitation[r.id].user = r.user BY <1>3, Accepting DEF Pledge
  <2> HIDE DEF e
  <2>2. /\ DOMAIN e.invitation = DOMAIN d.invitation
        /\ \A i \in DOMAIN d.invitation : i = r.id \/ e.invitation[i] = d.invitation[i]
        /\ e.user[e.invitation[r.id].user].school = e.invitation[r.id].school
    BY <2>1 DEF IsAcceptance
  <2> QED BY <1>1, <2>2 DEF Strayed
<1>4. CASE r.op \notin {"invitation.create", "invitation.revoke", "invitation.accept"}
  <2>1. e.invitation = d.invitation BY <1>4, OtherTables DEF LeavesAlone
  <2> HIDE DEF e
  <2> QED BY <1>1, <2>1 DEF Strayed
<1> QED BY <1>2, <1>3, <1>4

LEMMA WritesKeepLinks ==
  ASSUME NEW d, Formed(d), Tied(d), NEW r \in Requests, NEW seen, Pledge(d, r, seen),
         Admits(d, r, seen),
         Settled(d, Written(d, r, seen)), Neighbours(d, r), Mislinked(d) = {}
  PROVE  Mislinked(Written(d, r, seen)) = {}
<1> DEFINE e == Written(d, r, seen)
<1> SUFFICES Mislinked(e) = {} OBVIOUS
<1>1. ASSUME NEW t \in DOMAIN d.staff, NEW u \in DOMAIN d.user, d.user[u].school = d.staff[t].school
      PROVE  e.user[u].school = d.staff[t].school
  <2>1. d.staff[t].school # Null BY DEF Tied
  <2> HIDE DEF e
  <2> QED BY <1>1, <2>1 DEF Settled, e
<1>2. ASSUME NEW t \in DOMAIN d.staff, d.staff[t].user # Null
      PROVE  e.user[d.staff[t].user].school = d.staff[t].school
  <2>1. d.staff[t].user \in DOMAIN d.user /\ d.user[d.staff[t].user].school = d.staff[t].school
    BY <1>2 DEF Tied, Mislinked
  <2> HIDE DEF e
  <2> QED BY <1>1, <2>1
<1>3. CASE r.op = "staff.link"
  <2>0. DOMAIN d = Tables BY DEF Formed, Tables
  <2>1. e.staff = [d.staff EXCEPT ![r.id].user = r.user]
    BY <1>3, <2>0 DEF Written, UserLinked, Tables
  <2>2. r.id \in DOMAIN d.staff /\ r.user \in DOMAIN d.user \cup {Null} BY <1>3 DEF Pledge
  <2>3. r.user # Null => d.user[r.user].school = d.staff[r.id].school BY <1>3 DEF Neighbours
  <2> HIDE DEF e
  <2>4. DOMAIN e.staff = DOMAIN d.staff BY <2>1
  <2>5. \A t \in DOMAIN d.staff : t = r.id \/ e.staff[t] = d.staff[t] BY <2>1
  <2>6. e.staff[r.id].user = r.user /\ e.staff[r.id].school = d.staff[r.id].school
    BY <2>1, <2>2 DEF Formed
  <2>7. r.user # Null => e.user[r.user].school = d.staff[r.id].school BY <1>1, <2>2, <2>3
  <2> QED BY <1>2, <2>4, <2>5, <2>6, <2>7 DEF Mislinked
<1>4. CASE r.op = "invitation.accept"
  <2>1. IsAcceptance(d, e, r) BY <1>4, Accepting DEF Pledge
  <2> HIDE DEF e
  <2>2. /\ DOMAIN e.staff = DOMAIN d.staff
        /\ \A t \in DOMAIN d.staff : e.staff[t].school = d.staff[t].school
        /\ \A t \in DOMAIN d.staff : \/ e.staff[t].user = d.staff[t].user
                                     \/ /\ e.staff[t].user = r.user
                                        /\ d.staff[t].school = e.user[r.user].school
    BY <2>1 DEF IsAcceptance
  <2> QED BY <1>2, <2>2 DEF Mislinked
<1>5. CASE r.op \notin {"staff.link", "invitation.accept"}
  <2>1. e.staff = d.staff BY <1>5, OtherTables DEF LeavesAlone
  <2> HIDE DEF e
  <2> QED BY <1>2, <2>1 DEF Mislinked
<1> QED BY <1>3, <1>4, <1>5

(* Roots.  IsRoot says of which school an account is one.                  *)
IsRoot(d, u, s) ==
    /\ u \in DOMAIN d.user /\ <<u, Root>> \in d.holds
    /\ d.user[u].school = s /\ d.user[u].live /\ d.user[u].active
\* No root but perhaps u stops being one.
RootsStayBut(d, e, u) ==
    \A v, s : v # u /\ s # Null /\ IsRoot(d, v, s) => IsRoot(e, v, s)
RootsStay(d, e) == \A v, s : s # Null /\ IsRoot(d, v, s) => IsRoot(e, v, s)
Rooted(d) == \A s \in DOMAIN d.school : \E u : IsRoot(d, u, s)

LEMMA RootedMeans ==
  ASSUME NEW d
  PROVE  Rootless(d) = {} <=> Rooted(d)
<1>1. \A s, u : u \in Roots(d, s) <=> IsRoot(d, u, s) BY DEF Roots, IsRoot
<1> QED BY <1>1 DEF Rootless, Rooted

(* With a second root, the loss of one leaves the school administered.     *)
LEMMA OneRootLess ==
  ASSUME NEW d, Tied(d), Rooted(d), NEW e, DOMAIN e.school = DOMAIN d.school,
         NEW u, RootsStayBut(d, e, u), ~IsLastOrgAdmin(d, u)
  PROVE  Rooted(e)
<1> SUFFICES ASSUME NEW s \in DOMAIN d.school PROVE \E v : IsRoot(e, v, s) BY DEF Rooted
<1>1. PICK v : IsRoot(d, v, s) BY DEF Rooted
<1>2. s # Null BY DEF Tied
<1>3. CASE v # u BY <1>1, <1>2, <1>3 DEF RootsStayBut
<1>4. CASE v = u
  <2>1. ~(Cardinality(Roots(d, s)) <= 1) BY <1>1, <1>4 DEF IsLastOrgAdmin, IsRoot
  <2>2. u \in Roots(d, s) BY <1>1, <1>4 DEF IsRoot, Roots
  <2>3. Roots(d, s) # {u}
    <3>1. Cardinality({u}) = 1 BY FS_Singleton
    <3> SUFFICES ASSUME Roots(d, s) = {u} PROVE FALSE OBVIOUS
    <3>2. Cardinality(Roots(d, s)) = 1 BY <3>1
    <3> HIDE DEF Roots
    <3> QED BY <2>1, <3>2
  <2>4. PICK w : w # u /\ w \in Roots(d, s) BY <2>2, <2>3
  <2>5. IsRoot(d, w, s) BY <2>4 DEF IsRoot, Roots
  <2> QED BY <1>2, <2>4, <2>5 DEF RootsStayBut
<1> QED BY <1>3, <1>4

LEMMA RootsOfRows ==
  ASSUME NEW d, NEW e, d.holds \subseteq e.holds,
         \A u \in DOMAIN d.user :
            u \in DOMAIN e.user /\ (d.user[u].school = Null \/ e.user[u] = d.user[u])
  PROVE  RootsStay(d, e)
  BY DEF RootsStay, IsRoot

LEMMA RolesKeepRoots ==
  ASSUME NEW d, Formed(d), Tied(d), Rooted(d), NEW r \in Requests, NEW seen, Admits(d, r, seen),
         r.op \in {"role.assign", "role.remove", "role.grants"},
         r.op = "role.remove" => Timely(d, r, seen)
  PROVE  Rooted(Written(d, r, seen))
<1> DEFINE e == Written(d, r, seen)
<1> SUFFICES Rooted(e) OBVIOUS
<1>0. DOMAIN d = Tables BY DEF Formed, Tables
<1>1. e.user = d.user /\ e.school = d.school BY OtherTables DEF LeavesAlone
<1>2. CASE r.op \in {"role.assign", "role.grants"}
  <2>1. d.holds \subseteq e.holds BY <1>0, <1>2 DEF Written, RoleAssigned, GrantsSet, Tables
  <2> HIDE DEF e
  <2>2. RootsStay(d, e) BY <1>1, <2>1, RootsOfRows
  <2> QED BY <1>1, <2>2 DEF RootsStay, Rooted, Tied
<1>3. CASE r.op = "role.remove"
  <2>1. e.holds = d.holds \ {<<r.id, r.role>>} BY <1>0, <1>3 DEF Written, RoleRemoved, Tables
  <2>2. ~(r.role = Root /\ IsLastOrgAdmin(d, r.id)) BY <1>3 DEF Timely, Accepts, MayRemoveRole
  <2> HIDE DEF e
  <2>3. CASE r.role # Root
    <3>1. RootsStay(d, e) BY <1>1, <2>1, <2>3 DEF RootsStay, IsRoot
    <3> QED BY <1>1, <3>1 DEF RootsStay, Rooted, Tied
  <2>4. CASE r.role = Root
    <3>1. RootsStayBut(d, e, r.id) BY <1>1, <2>1 DEF RootsStayBut, IsRoot
    <3> QED BY <1>1, <2>2, <2>4, <3>1, OneRootLess
  <2> QED BY <2>3, <2>4
<1> QED BY <1>2, <1>3

LEMMA AccountsKeepRoots ==
  ASSUME NEW d, Formed(d), Tied(d), Rooted(d), NEW r \in Requests, NEW seen, Admits(d, r, seen),
         r.op \in {"account.register", "user.update", "user.remove"},
         r.op \in {"user.update", "user.remove"} => Timely(d, r, seen)
  PROVE  Rooted(Written(d, r, seen))
<1> DEFINE e == Written(d, r, seen)
<1> SUFFICES Rooted(e) OBVIOUS
<1>1. e.holds = d.holds /\ e.school = d.school BY OtherTables DEF LeavesAlone
<1>2. UserWritten(d, e, r) BY UserRows
<1>3. /\ r.op = "user.update" => r.active \/ ~IsLastOrgAdmin(d, r.id)
      /\ r.op = "user.remove" => ~IsLastOrgAdmin(d, r.id)
  BY DEF Timely, Accepts, MayUpdateUser, MayRemoveUser
<1> HIDE DEF e
<1>4. RootsStayBut(d, e, r.id) BY <1>1, <1>2 DEF UserWritten, RootsStayBut, IsRoot
<1>5. CASE r.op = "account.register" \/ (r.op = "user.update" /\ r.active)
  <2>1. \A s : IsRoot(d, r.id, s) => IsRoot(e, r.id, s)
    BY <1>1, <1>2, <1>5 DEF UserWritten, IsRoot
  <2>2. RootsStay(d, e) BY <1>4, <2>1 DEF RootsStay, RootsStayBut
  <2> QED BY <1>1, <2>2 DEF RootsStay, Rooted, Tied
<1>6. CASE ~IsLastOrgAdmin(d, r.id) BY <1>1, <1>4, <1>6, OneRootLess
<1> QED BY <1>3, <1>5, <1>6

LEMMA FoundersAreRoots ==
  ASSUME NEW d, Formed(d), Tied(d), Rooted(d), NEW r \in Requests, NEW seen, Pledge(d, r, seen),
         Admits(d, r, seen), r.op = "application.approve", Timely(d, r, seen)
  PROVE  Rooted(Written(d, r, seen))
<1> DEFINE e == Written(d, r, seen)
<1> SUFFICES Rooted(e) OBVIOUS
<1>1. seen.user \in DOMAIN d.user BY DEF Pledge
<1>2. IsFounding(d, e, r, seen) BY Founding DEF Pledge
<1>3. d.user[seen.user].school = Null BY NewMembers
<1>4. d.user[seen.user].live /\ d.user[seen.user].active BY <1>1, <1>3 DEF Tied
<1> HIDE DEF e
<1>5. /\ e.holds = d.holds \cup {<<seen.user, Root>>} /\ DOMAIN e.user = DOMAIN d.user
      /\ \A u \in DOMAIN d.user : u = seen.user \/ e.user[u] = d.user[u]
      /\ DOMAIN e.school = DOMAIN d.school \cup {seen.name}
  BY <1>2 DEF IsFounding
<1>6. /\ e.user[seen.user].school = seen.name
      /\ e.user[seen.user].live = d.user[seen.user].live
      /\ e.user[seen.user].active = d.user[seen.user].active
  BY <1>2 DEF IsFounding
<1>7. IsRoot(e, seen.user, seen.name) BY <1>1, <1>4, <1>5, <1>6 DEF IsRoot
<1>8. RootsStay(d, e) BY <1>3, <1>5, RootsOfRows
<1> QED BY <1>5, <1>7, <1>8 DEF RootsStay, Rooted, Tied

LEMMA WritesKeepRoots ==
  ASSUME NEW d, Formed(d), Tied(d), Rooted(d), NEW r \in Requests, NEW seen, Pledge(d, r, seen),
         Admits(d, r, seen),
         r.op \in {"role.remove", "user.update", "user.remove", "application.approve",
                   "invitation.accept"}
            => Timely(d, r, seen)
  PROVE  Rooted(Written(d, r, seen))
<1> DEFINE e == Written(d, r, seen)
<1> SUFFICES Rooted(e) OBVIOUS
<1>1. CASE r.op \in {"role.assign", "role.remove", "role.grants"} BY <1>1, RolesKeepRoots
<1>2. CASE r.op \in {"account.register", "user.update", "user.remove"} BY <1>2, AccountsKeepRoots
<1>3. CASE r.op = "application.approve" BY <1>3, FoundersAreRoots
<1>4. CASE r.op = "invitation.accept"
  <2>1. IsAcceptance(d, e, r) BY <1>4, Accepting DEF Pledge
  <2>2. d.user[r.user].school = Null BY <1>4, NewMembers
  <2>3. e.school = d.school BY <1>4, OtherTables DEF LeavesAlone
  <2> HIDE DEF e
  <2>4. /\ d.holds \subseteq e.holds /\ DOMAIN e.user = DOMAIN d.user
        /\ \A u \in DOMAIN d.user : u = r.user \/ e.user[u] = d.user[u]
    BY <2>1 DEF IsAcceptance
  <2>5. RootsStay(d, e) BY <2>2, <2>4, RootsOfRows
  <2> QED BY <2>3, <2>5 DEF RootsStay, Rooted, Tied
<1>5. CASE r.op \notin {"role.assign", "role.remove", "role.grants", "account.register", "user.update",
                        "user.remove", "application.approve", "invitation.accept"}
  <2>1. e.user = d.user /\ e.holds = d.holds BY <1>5, OtherTables DEF LeavesAlone
  <2>2. DOMAIN e.school = DOMAIN d.school
    <3>1. CASE r.op \in {"school.rename", "school.status", "school.delete", "module.set"}
      BY <3>1, SchoolRows DEF SchoolWritten
    <3>2. CASE r.op \notin {"school.rename", "school.status", "school.delete", "module.set"}
      BY <3>2, <1>5, OtherTables DEF LeavesAlone
    <3> QED BY <3>1, <3>2
  <2> HIDE DEF e
  <2> QED BY <2>1, <2>2 DEF Rooted, IsRoot
<1> QED BY <1>1, <1>2, <1>3, <1>4, <1>5

(* Links of staff to accounts of their own school are written as they were *)
(* checked, unless somebody joined a school in a race.                     *)
LEMMA LinksInit == Init => LinksPledged
  BY DEF Init, Idle, LinksPledged

LEMMA StepsSettle ==
  ASSUME OInv, [Next]_vars, ~Raced({"application.approve", "invitation.accept"})'
  PROVE  Settled(db, db')
<1>1. CASE db' = db BY <1>1 DEF Settled
<1>2. ASSUME NEW c \in Clients, Commits(c) PROVE Settled(db, db')
  <2> DEFINE r == held[c].req
             seen == held[c].seen
  <2>1. r \in Requests /\ Pledge(db, r, seen) /\ Admits(db, r, seen) /\ db' = Written(db, r, seen)
    BY <1>2 DEF Commits, OInv, Pledged, CInv, Shapes
  <2>2. r.op \in {"application.approve", "invitation.accept"} => Timely(db, r, seen)
    BY <1>2, NotOvertaken
  <2> HIDE DEF r, seen
  <2> QED BY <2>1, <2>2, WritesSettle DEF OInv
<1>3. ASSUME NEW r, db' = DraftsDropped(db, r) PROVE Settled(db, db')
  BY <1>3 DEF Settled, DraftsDropped, OInv, Formed
<1>4. ASSUME NEW i, db' = [db EXCEPT !.invitation[i].expired = TRUE] PROVE Settled(db, db')
  BY <1>4 DEF Settled, OInv, Formed
<1> QED BY <1>1, <1>2, <1>3, <1>4, Steps

LEMMA LinksNext ==
  ASSUME OInv, LinksPledged, [Next]_vars
  PROVE  LinksPledged'
<1> SUFFICES ASSUME ~Raced({"application.approve", "invitation.accept"})',
                    NEW c \in Clients, held'[c].step = "write"
             PROVE  Neighbours(db', held'[c].req)
  BY DEF LinksPledged
<1>1. ~Raced({"application.approve", "invitation.accept"}) BY StepsAreFinal DEF Final, Raced
<1>2. Settled(db, db') BY StepsSettle
<1>3. CASE held'[c] = held[c]
  <2> DEFINE r == held[c].req
  <2>1. Neighbours(db, r) BY <1>1, <1>3 DEF LinksPledged
  <2>2. Pledge(db, r, held[c].seen) BY <1>3 DEF OInv, Pledged
  <2>3. Grows(db, db') BY StepsKeepTies DEF Keeps
  <2> HIDE DEF r
  <2>4. r.op = "staff.link" /\ r.user # Null =>
           /\ r.id \in DOMAIN db.staff /\ r.user \in DOMAIN db.user
           /\ db.user[r.user].school = db.staff[r.id].school /\ db.staff[r.id].school # Null
    BY <2>1, <2>2 DEF Neighbours, Pledge, OInv, Tied
  <2>5. Neighbours(db', r) BY <1>2, <2>3, <2>4 DEF Neighbours, Settled, Grows
  <2> QED BY <1>3, <2>5 DEF r
<1>4. CASE held'[c] # held[c]
  <2>1. Check(c) BY <1>4, NewlyHeld DEF OInv, CInv
  <2>2. PICK r \in Requests :
          /\ Accepts(db, r)
          /\ held' = [held EXCEPT ![c] = [req |-> r, seen |-> Seen(db, r), step |-> "write"]]
    BY <2>1 DEF Check
  <2>3. held'[c].req = r /\ db' = db BY <2>1, <2>2 DEF OInv, CInv, Shapes, Check
  <2>4. Neighbours(db, r) BY <2>2 DEF Neighbours, Accepts, MayLinkUser
  <2> QED BY <2>3, <2>4
<1> QED BY <1>3, <1>4

LEMMA MembershipsNext ==
  ASSUME OInv, LinksPledged, MembershipsUnlessRaced, [Next]_vars
  PROVE  MembershipsUnlessRaced'
<1> DEFINE Removals == {"role.remove", "user.update", "user.remove", "application.approve",
                        "invitation.accept"}
           Joins == {"application.approve", "invitation.accept"}
<1>1. Tied(db') BY ONext DEF OInv
<1>2. overtaken \subseteq overtaken' BY StepsAreFinal DEF Final
<1>3. /\ ~Raced(Removals)' => Rootless(db) = {}
      /\ ~Raced(Joins)' => Strayed(db) = {} /\ Mislinked(db) = {} /\ Settled(db, db')
  BY <1>2, StepsSettle DEF MembershipsUnlessRaced, Raced
<1>4. ASSUME NEW c \in Clients, Commits(c)
      PROVE  /\ ~Raced(Removals)' => Rootless(db') = {}
             /\ ~Raced(Joins)' => Strayed(db') = {} /\ Mislinked(db') = {}
  <2> DEFINE r == held[c].req
             seen == held[c].seen
  <2>1. r \in Requests /\ Pledge(db, r, seen) /\ Admits(db, r, seen) /\ db' = Written(db, r, seen)
    BY <1>4 DEF Commits, OInv, Pledged, CInv, Shapes
  <2>2. /\ ~Raced(Removals)' => (r.op \in Removals => Timely(db, r, seen))
        /\ ~Raced(Joins)' => ~Raced(Joins)
    BY <1>4, NotOvertaken
  <2>3. ~Raced(Joins) => Neighbours(db, r) BY <1>4 DEF Commits, LinksPledged
  <2> HIDE DEF r, seen
  <2>4. ASSUME ~Raced(Removals)' PROVE Rootless(db') = {}
    <3>1. Rooted(db) BY <1>3, <2>4, RootedMeans
    <3>2. Rooted(db') BY <2>1, <2>2, <2>4, <3>1, WritesKeepRoots DEF OInv
    <3> QED BY <3>2, RootedMeans
  <2>5. ASSUME ~Raced(Joins)' PROVE Strayed(db') = {} /\ Mislinked(db') = {}
    BY <1>3, <2>1, <2>2, <2>3, <2>5, WritesKeepAcceptances, WritesKeepLinks DEF OInv
  <2> QED BY <2>4, <2>5
<1>5. ASSUME db'.user = db.user, db'.holds = db.holds, db'.school = db.school, db'.staff = db.staff,
             \A i \in DOMAIN db'.invitation :
                /\ i \in DOMAIN db.invitation
                /\ db'.invitation[i].status = db.invitation[i].status
                /\ db'.invitation[i].user = db.invitation[i].user
                /\ db'.invitation[i].school = db.invitation[i].school
      PROVE  /\ Rootless(db) = {} => Rootless(db') = {}
             /\ Strayed(db) = {} => Strayed(db') = {}
             /\ Mislinked(db) = {} => Mislinked(db') = {}
  BY <1>5 DEF Rootless, Roots, Strayed, Mislinked
<1>6. ASSUME NEW r, db' = DraftsDropped(db, r)
      PROVE  /\ Rootless(db) = {} => Rootless(db') = {}
             /\ Strayed(db) = {} => Strayed(db') = {}
             /\ Mislinked(db) = {} => Mislinked(db') = {}
  <2>1. /\ db'.user = db.user /\ db'.holds = db.holds /\ db'.school = db.school
        /\ db'.staff = db.staff /\ db'.invitation = db.invitation
    BY <1>6 DEF DraftsDropped, OInv, Formed
  <2> QED BY <1>5, <2>1
<1>7. ASSUME NEW i \in DOMAIN db.invitation, db' = [db EXCEPT !.invitation[i].expired = TRUE]
      PROVE  /\ Rootless(db) = {} => Rootless(db') = {}
             /\ Strayed(db) = {} => Strayed(db') = {}
             /\ Mislinked(db) = {} => Mislinked(db') = {}
  <2>1. /\ db'.user = db.user /\ db'.holds = db.holds /\ db'.school = db.school
        /\ db'.staff = db.staff
        /\ db'.invitation = [db.invitation EXCEPT ![i].expired = TRUE]
    BY <1>7 DEF OInv, Formed
  <2>2. \A j \in DOMAIN db'.invitation :
           /\ j \in DOMAIN db.invitation
           /\ db'.invitation[j].status = db.invitation[j].status
           /\ db'.invitation[j].user = db.invitation[j].user
           /\ db'.invitation[j].school = db.invitation[j].school
    BY <2>1 DEF OInv, Formed
  <2> QED BY <1>5, <2>1, <2>2
<1>8. ASSUME overtaken' = overtaken,
             \/ db' = db
             \/ \E r : db' = DraftsDropped(db, r)
             \/ \E i \in DOMAIN db.invitation : db' = [db EXCEPT !.invitation[i].expired = TRUE]
      PROVE  /\ ~Raced(Removals)' => Rootless(db') = {}
             /\ ~Raced(Joins)' => Strayed(db') = {} /\ Mislinked(db') = {}
  BY <1>3, <1>6, <1>7, <1>8
<1> QED BY <1>1, <1>4, <1>8, Steps DEF MembershipsUnlessRaced

(* Every school keeps an active administrator, accounts are where their    *)
(* accepted invitations and their staff records say, and the tables agree  *)
(* on who there is, unless requests that remove or add members overtook    *)
(* one another.                                                            *)
THEOREM MembershipsHold == Spec => []MembershipsUnlessRaced
<1>1. Init => MembershipsUnlessRaced BY PlatformAssumption DEF Init, MembershipsUnlessRaced
<1>2. OInv /\ LinksPledged /\ [Next]_vars => LinksPledged' BY LinksNext
<1>3. OInv /\ LinksPledged /\ MembershipsUnlessRaced /\ [Next]_vars => MembershipsUnlessRaced'
  BY MembershipsNext
<1> QED BY <1>1, <1>2, <1>3, OInit, ONext, LinksInit, PTL DEF Spec
=============================================================================
