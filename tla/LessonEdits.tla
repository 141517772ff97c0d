----------------------------- MODULE LessonEdits -----------------------------
(***************************************************************************)
(* Changing a generated timetable by hand (EntryEditService) and through   *)
(* teachers' swap requests (SwapRequestsService).                          *)
(*                                                                         *)
(* An edit loads its lesson, loads the rest of the timetable and the       *)
(* school's setup, validates, and writes; an approval does the same between *)
(* reading the request and marking it.  Each of these is a step, so other  *)
(* requests and setup changes come in between.  The five queries that load *)
(* the rest run at once (Promise.all) and count as one read.  A swap's     *)
(* transaction goes through a scratch slot that nobody else can see, so it *)
(* is one step that succeeds if the unique indexes accept its result.      *)
(*                                                                         *)
(* stale and raced are history, as in TimetableVersions; applied counts    *)
(* how often the edit of a swap request was committed (2: more than once). *)
(***************************************************************************)
EXTENDS Integers, FiniteSets

CONSTANTS
    Lesson,           \* the timetable's entries
    Class, Teacher,
    ClassOf, TeacherOf,
    Day, Period,
    Room, NoRoom,     \* NoRoom: roomId = null
    SwapRequest,      \* the swap requests that may ever be made (a bound)
    Editor, Decider,  \* the edits and the decisions on swap requests that may
                      \* be in flight at once (bounds)
    MaxSetupChanges,  \* changes of the school's setup (a bound)
    Manager,          \* an actor who is not a teacher
    Keep,             \* move without naming a room
    Gone,             \* a deleted entry
    None

ASSUME LessonAssumption ==
    ClassOf \in [Lesson -> Class] /\ TeacherOf \in [Lesson -> Teacher]
ASSUME NullAssumption ==
    /\ None \notin Lesson /\ None \notin SwapRequest /\ None \notin Day \X Period
    /\ NoRoom \notin Room /\ Keep \notin Room /\ Keep # NoRoom
    /\ Manager \notin Teacher
    /\ Gone \notin [slot : Day \X Period, room : Room \cup {NoRoom}]
    /\ None \notin [slot : Day \X Period, room : Room \cup {NoRoom}]
ASSUME BoundAssumption == MaxSetupChanges \in Nat

Handler == Editor \cup Decider
Slot == Day \X Period
Place == [slot : Slot, room : Room \cup {NoRoom}]

VARIABLES
    lessons,      \* the timetable_entries table: where each lesson is
    readOnly,     \* the timetable is archived
    period,       \* the bell schedule: "lesson", "break" or "none" (dropped)
    teachingDays,
    unavailable,  \* (teacher, slot) pairs
    rooms,        \* the rooms that are not deleted
    requests,     \* the timetable_swap_requests table
    handler,      \* the edits and decisions in flight
    applied,      \* history: committed edits of each swap request
    torn,         \* history: an approval died between its edit and its mark
    changes,      \* history: how often the setup changed
    raced         \* history: a handler wrote on the strength of a stale read

setup == <<readOnly, period, teachingDays, unavailable, rooms>>
vars == <<lessons, setup, requests, handler, applied, torn, changes, raced>>

RequestStatus == {"NONE", "PENDING", "APPROVED", "REJECTED", "CANCELLED", "DELETED"}
NoRequest == [status |-> "NONE", lesson |-> None, target |-> None, slot |-> None]
Pc == {"idle", "load", "check", "write", "mark"}
Idle == [pc |-> "idle", request |-> None, lesson |-> None, target |-> None,
         slot |-> None, room |-> Keep, at |-> None, plan |-> <<>>,
         verdict |-> "NONE", stale |-> FALSE]

TypeOK ==
    /\ lessons \in [Lesson -> Place \cup {Gone}]
    /\ readOnly \in BOOLEAN
    /\ period \in [Period -> {"lesson", "break", "none"}]
    /\ teachingDays \subseteq Day
    /\ unavailable \subseteq Teacher \X Slot
    /\ rooms \subseteq Room
    /\ requests \in [SwapRequest ->
          [status : RequestStatus, lesson : Lesson \cup {None},
           target : Lesson \cup {None}, slot : Slot \cup {None}]]
    /\ \A h \in Handler :
          /\ handler[h].pc \in Pc
          /\ handler[h].request \in SwapRequest \cup {None}
          /\ handler[h].pc \in {"load", "check"} => handler[h].lesson \in Lesson
          /\ handler[h].pc = "check" => handler[h].at \in Place
          /\ handler[h].pc = "write" =>
                /\ DOMAIN handler[h].plan \subseteq Lesson
                /\ \A x \in DOMAIN handler[h].plan : handler[h].plan[x] \in Place
          /\ handler[h].pc = "mark" =>
                /\ handler[h].request \in SwapRequest
                /\ handler[h].verdict \in {"APPROVED", "REJECTED", "CANCELLED"}
    /\ applied \in [SwapRequest -> 0 .. 2]
    /\ torn \in BOOLEAN
    /\ changes \in 0 .. MaxSetupChanges
    /\ raced \in BOOLEAN

-----------------------------------------------------------------------------
(* The validator *)

Exists(l) == lessons[l] # Gone

InTable(tbl) == {l \in Lesson : tbl[l] # Gone}

Teachable(s) == s[1] \in teachingDays /\ period[s[2]] = "lesson"

SameRoom(p, o) == p.room # NoRoom /\ o.room = p.room

(* Lesson l at place p and lesson o at place q take the same class,        *)
(* teacher or room at the same time.                                       *)
Clashes(l, p, o, q) ==
    /\ p.slot = q.slot
    /\ ClassOf[l] = ClassOf[o] \/ TeacherOf[l] = TeacherOf[o] \/ SameRoom(p, q)

(* Faulty variant: the teacher's availability is not looked at. *)
PlaceableAtAnyTime(tbl, l, p, leftOut) ==
    /\ \A o \in InTable(tbl) \ leftOut : ~Clashes(l, p, o, tbl[o])
    /\ p.room # NoRoom => p.room \in rooms

(* assertPlaceable for l at p among the lessons of tbl that are not left out. *)
Placeable(tbl, l, p, leftOut) ==
    /\ <<TeacherOf[l], p.slot>> \notin unavailable
    /\ \A o \in InTable(tbl) \ leftOut : ~Clashes(l, p, o, tbl[o])
    /\ p.room # NoRoom => p.room \in rooms

CanMove(l, p) == Teachable(p.slot) /\ Placeable(lessons, l, p, {l})

(* Faulty variant: only the dragged lesson is validated. *)
CanSwapOneSided(l, at, target) ==
    /\ l # target /\ Exists(target)
    /\ Placeable(lessons, l, lessons[target], {l, target})

CanSwap(l, at, target) ==
    /\ l # target /\ Exists(target)
    /\ Placeable(lessons, l, lessons[target], {l, target})
    /\ Placeable([lessons EXCEPT ![l] = lessons[target]], target, at, {target})

(* slotFree, roomOk and the two lists legalMoves returns *)
SlotFree(l, s, leftOut) ==
    /\ <<TeacherOf[l], s>> \notin unavailable
    /\ \A o \in InTable(lessons) \ leftOut :
          lessons[o].slot = s =>
             ClassOf[o] # ClassOf[l] /\ TeacherOf[o] # TeacherOf[l]

(* Faulty variant: a deleted room counts as free. *)
RoomOkWhenDeleted(l, s) ==
    LET r == lessons[l].room IN
    r = NoRoom \/ \A o \in InTable(lessons) \ {l} :
                     ~(lessons[o].room = r /\ lessons[o].slot = s)

RoomOk(l, s) ==
    LET r == lessons[l].room IN
    r = NoRoom \/ /\ r \in rooms
                  /\ \A o \in InTable(lessons) \ {l} :
                        ~(lessons[o].room = r /\ lessons[o].slot = s)

FreeSlots(l) ==
    {s \in Slot : /\ Teachable(s) /\ s # lessons[l].slot
                  /\ SlotFree(l, s, {l}) /\ RoomOk(l, s)}

(* Faulty variant: the lesson traded away still blocks its slot. *)
SwapTargetsAgainstAll(l) ==
    {o \in InTable(lessons) \ {l} :
        /\ SlotFree(l, lessons[o].slot, {l})
        /\ SlotFree(o, lessons[l].slot, {o})}

SwapTargets(l) ==
    {o \in InTable(lessons) \ {l} :
        /\ SlotFree(l, lessons[o].slot, {l, o})
        /\ SlotFree(o, lessons[l].slot, {l, o})}

-----------------------------------------------------------------------------
(* The database *)

(* What the three unique indexes on the table accept. *)
Unique(tbl) ==
    \A l, o \in InTable(tbl) : l # o => ~Clashes(l, tbl[l], o, tbl[o])

Replaced(plan) == [l \in Lesson |-> IF l \in DOMAIN plan THEN plan[l] ELSE lessons[l]]

(* The update finds every row it names, their periods exist, and the       *)
(* indexes accept the result.                                              *)
Accepted(plan) ==
    /\ \A l \in DOMAIN plan : Exists(l) /\ period[plan[l].slot[2]] # "none"
    /\ Unique(Replaced(plan))

RowExists(q) == requests[q].status \notin {"NONE", "DELETED"}

(* A write to the timetable or the setup overtakes the edits that have     *)
(* read them; a change made for a swap request or to its row overtakes the *)
(* other decisions about it.                                               *)
OvertakeEdits(hs) ==
    [h \in Handler |->
        [hs[h] EXCEPT !.stale = @ \/ hs[h].pc \in {"check", "write"}]]

OvertakeDecisions(hs, qs) ==
    [h \in Handler |->
        [hs[h] EXCEPT !.stale = @ \/ (hs[h].pc # "idle" /\ hs[h].request \in qs)]]

Continues(h, m) ==
    /\ handler' = [handler EXCEPT ![h] = m]
    /\ UNCHANGED <<lessons, setup, requests, applied, torn, changes, raced>>

Stops(h) == Continues(h, Idle)

-----------------------------------------------------------------------------
(* move and swap *)

(* Faulty variant: the lesson may be gone. *)
LoadedUnseen(h, m) ==
    IF ~readOnly
    THEN Continues(h, [m EXCEPT !.pc = "check", !.at = lessons[m.lesson]])
    ELSE Stops(h)

(* load: the lesson itself, in a timetable that is not archived *)
Loaded(h, m) ==
    IF Exists(m.lesson) /\ ~readOnly
    THEN Continues(h, [m EXCEPT !.pc = "check", !.at = lessons[m.lesson]])
    ELSE Stops(h)

BeginMove(h, l, s, room) ==
    /\ handler[h].pc = "idle"
    /\ Exists(l) /\ ~readOnly
    /\ Loaded(h, [Idle EXCEPT !.lesson = l, !.slot = s, !.room = room])

BeginSwap(h, l, target) ==
    /\ handler[h].pc = "idle"
    /\ l # target
    /\ Exists(l) /\ ~readOnly
    /\ Loaded(h, [Idle EXCEPT !.lesson = l, !.target = target])

LoadLesson(h) ==
    LET m == handler[h] IN
    /\ m.pc = "load"
    /\ IF m.lesson # m.target THEN Loaded(h, m) ELSE Stops(h)

(* load: the rest; then the validation, and what is going to be written.   *)
(* A swap exchanges the places, rooms included, of the lesson as it was    *)
(* loaded and of the target.                                               *)
CheckMove(h) ==
    LET m == handler[h]
        p == [slot |-> m.slot,
              room |-> IF m.room = Keep THEN m.at.room ELSE m.room]
    IN /\ m.pc = "check" /\ m.target = None
       /\ IF CanMove(m.lesson, p)
          THEN Continues(h, [m EXCEPT !.pc = "write",
                                      !.plan = [l \in {m.lesson} |-> p]])
          ELSE Stops(h)

CheckSwap(h) ==
    LET m == handler[h] IN
    /\ m.pc = "check" /\ m.target # None
    /\ IF CanSwap(m.lesson, m.at, m.target)
       THEN Continues(h, [m EXCEPT !.pc = "write",
                !.plan = [l \in {m.lesson, m.target} |->
                            IF l = m.lesson THEN lessons[m.target] ELSE m.at]])
       ELSE Stops(h)

(* The update, or the swap's transaction.  An approval goes on to mark its *)
(* request.                                                                *)
WriteLessons(h) ==
    LET m == handler[h]
        after == IF m.request = None THEN Idle
                 ELSE [Idle EXCEPT !.pc = "mark", !.request = m.request,
                                   !.verdict = "APPROVED", !.stale = m.stale]
    IN /\ m.pc = "write"
       /\ IF Accepted(m.plan)
          THEN /\ lessons' = Replaced(m.plan)
               /\ handler' = [OvertakeDecisions(OvertakeEdits(handler),
                                                {m.request} \ {None})
                               EXCEPT ![h] = after]
               /\ applied' = IF m.request = None THEN applied
                             ELSE [applied EXCEPT ![m.request] = IF @ = 0 THEN 1 ELSE 2]
               /\ raced' = (raced \/ m.stale)
               /\ UNCHANGED <<setup, requests, torn, changes>>
          ELSE Stops(h)

-----------------------------------------------------------------------------
(* Swap requests *)

(* A teacher acts for their own lessons, a manager for anyone's.  A target *)
(* lesson goes before a target slot, so only one of them is kept.          *)
CreateRequest(q, who, l, target, slot) ==
    /\ requests[q].status = "NONE"
    /\ Exists(l) /\ ~readOnly
    /\ who \in {Manager, TeacherOf[l]}
    /\ target # None \/ slot # None
    /\ target # None => Exists(target) /\ slot = None
    /\ slot # None => period[slot[2]] # "none"
    /\ requests' = [requests EXCEPT ![q] = [status |-> "PENDING", lesson |-> l,
                                            target |-> target, slot |-> slot]]
    /\ UNCHANGED <<lessons, setup, handler, applied, torn, changes, raced>>

(* Faulty variant: a decision does not ask whether there is one already. *)
DecidableAgain(q) == RowExists(q)

(* An approval has made its edit and not yet marked the request: a decision *)
(* that begins now is overtaken from the start.                            *)
BeingMarked(q) ==
    \E h \in Handler : /\ handler[h].pc = "mark" /\ handler[h].request = q
                       /\ handler[h].verdict = "APPROVED"

(* getPending *)
Decidable(q) == requests[q].status = "PENDING"

BeginApprove(h, q) ==
    LET row == requests[q] IN
    /\ handler[h].pc = "idle"
    /\ Decidable(q)
    /\ row.target # None \/ row.slot # None
    /\ Continues(h, [Idle EXCEPT !.pc = "load", !.request = q, !.lesson = row.lesson,
                                 !.target = row.target, !.slot = row.slot,
                                 !.stale = BeingMarked(q)])

BeginReject(h, q) ==
    /\ handler[h].pc = "idle"
    /\ Decidable(q)
    /\ Continues(h, [Idle EXCEPT !.pc = "mark", !.request = q,
                                 !.verdict = "REJECTED", !.stale = BeingMarked(q)])

BeginCancel(h, q, who) ==
    /\ handler[h].pc = "idle"
    /\ Decidable(q)
    /\ who \in {Manager, TeacherOf[requests[q].lesson]}
    /\ Continues(h, [Idle EXCEPT !.pc = "mark", !.request = q,
                                 !.verdict = "CANCELLED", !.stale = BeingMarked(q)])

(* The status is written by id, whatever it has become; a row that is gone *)
(* fails the request.                                                      *)
Mark(h) ==
    LET m == handler[h] IN
    /\ m.pc = "mark"
    /\ IF RowExists(m.request)
       THEN /\ requests' = [requests EXCEPT ![m.request].status = m.verdict]
            /\ handler' = [OvertakeDecisions(handler, {m.request}) EXCEPT ![h] = Idle]
            /\ raced' = (raced \/ m.stale)
            /\ UNCHANGED <<lessons, setup, applied, torn, changes>>
       ELSE Stops(h)

-----------------------------------------------------------------------------
(* The school's setup, and failures *)

SetupChanges ==
    /\ changes < MaxSetupChanges
    /\ changes' = changes + 1
    /\ handler' = OvertakeEdits(handler)
    /\ UNCHANGED <<applied, torn, raced>>

SetupOnly == SetupChanges /\ UNCHANGED <<lessons, requests>>

(* Faulty variant: a request does not go with the lesson it would swap with. *)
AboutSource(dead) == {q \in SwapRequest : RowExists(q) /\ requests[q].lesson \in dead}

(* The requests that cascade with the lessons of dead. *)
About(dead) ==
    {q \in SwapRequest :
        RowExists(q) /\ {requests[q].lesson, requests[q].target} \cap dead # {}}

(* A dropped period takes its lessons along, in every timetable, and they  *)
(* the swap requests about them; a request for one of its slots loses it.  *)
ReplacePeriods(new) ==
    LET Dropped(s) == new[s[2]] = "none"
        dead == {l \in InTable(lessons) : Dropped(lessons[l].slot)}
        orphans == About(dead)
    IN /\ changes < MaxSetupChanges
       /\ changes' = changes + 1
       /\ \A p \in Period : period[p] = "none" => new[p] = "none"
       /\ period' = new
       /\ lessons' = [l \in Lesson |-> IF l \in dead THEN Gone ELSE lessons[l]]
       /\ unavailable' = {u \in unavailable : ~Dropped(u[2])}
       /\ requests' = [q \in SwapRequest |->
             IF q \in orphans THEN [requests[q] EXCEPT !.status = "DELETED"]
             ELSE IF requests[q].slot # None /\ Dropped(requests[q].slot)
                  THEN [requests[q] EXCEPT !.slot = None]
             ELSE requests[q]]
       /\ handler' = OvertakeDecisions(OvertakeEdits(handler), orphans)
       /\ UNCHANGED <<readOnly, teachingDays, rooms, applied, torn, raced>>

RemoveRoom(r) ==
    /\ r \in rooms
    /\ rooms' = rooms \ {r}
    /\ UNCHANGED <<readOnly, period, teachingDays, unavailable>>
    /\ SetupOnly

ReplaceUnavailability(t, slots) ==
    /\ \A s \in slots : period[s[2]] # "none"
    /\ unavailable' = {u \in unavailable : u[1] # t} \cup ({t} \X slots)
    /\ UNCHANGED <<readOnly, period, teachingDays, rooms>>
    /\ SetupOnly

UpdateTeachingDays(days) ==
    /\ teachingDays' = days
    /\ UNCHANGED <<readOnly, period, unavailable, rooms>>
    /\ SetupOnly

ArchiveTimetable ==
    /\ ~readOnly
    /\ readOnly' = TRUE
    /\ UNCHANGED <<period, teachingDays, unavailable, rooms>>
    /\ SetupOnly

(* The server crashes, or the handler's next statement fails. *)
Fail(h) ==
    LET m == handler[h] IN
    /\ m.pc # "idle"
    /\ handler' = [handler EXCEPT ![h] = Idle]
    /\ torn' = (torn \/ (m.pc = "mark" /\ m.verdict = "APPROVED"))
    /\ UNCHANGED <<lessons, setup, requests, applied, changes, raced>>

-----------------------------------------------------------------------------
Init ==
    /\ readOnly = FALSE
    /\ period \in [Period -> {"lesson", "break"}]
    /\ teachingDays = Day
    /\ unavailable = {}
    /\ rooms = Room
    /\ lessons \in [Lesson -> Place]
    /\ \A l \in Lesson : Teachable(lessons[l].slot)
    /\ Unique(lessons)
    /\ requests = [q \in SwapRequest |-> NoRequest]
    /\ handler = [h \in Handler |-> Idle]
    /\ applied = [q \in SwapRequest |-> 0]
    /\ torn = FALSE
    /\ changes = 0
    /\ raced = FALSE

BeginEdit(h) ==
    \E l \in Lesson : \/ \E s \in Slot, room \in Room \cup {NoRoom, Keep} :
                            BeginMove(h, l, s, room)
                      \/ \E target \in Lesson : BeginSwap(h, l, target)

Decide(h) ==
    \/ \E q \in SwapRequest : \/ BeginApprove(h, q) \/ BeginReject(h, q)
                              \/ \E who \in Teacher \cup {Manager} : BeginCancel(h, q, who)
    \/ LoadLesson(h) \/ Mark(h)

ChangeSetup ==
    \/ \E new \in [Period -> {"lesson", "break", "none"}] : ReplacePeriods(new)
    \/ \E r \in Room : RemoveRoom(r)
    \/ \E t \in Teacher, slots \in SUBSET Slot : ReplaceUnavailability(t, slots)
    \/ \E days \in SUBSET Day : UpdateTeachingDays(days)
    \/ ArchiveTimetable

Next ==
    \/ \E h \in Handler : CheckMove(h) \/ CheckSwap(h) \/ WriteLessons(h) \/ Fail(h)
    \/ \E h \in Editor : BeginEdit(h)
    \/ \E h \in Decider : Decide(h)
    \/ \E q \in SwapRequest, who \in Teacher \cup {Manager}, l \in Lesson,
          target \in Lesson \cup {None}, slot \in Slot \cup {None} :
             CreateRequest(q, who, l, target, slot)
    \/ ChangeSetup

Spec == Init /\ [][Next]_vars

-----------------------------------------------------------------------------
(* Properties *)

(* However a change of the bell schedule falls among edits and approvals in *)
(* flight, nothing outlives a period it drops: no lesson and no             *)
(* unavailability is in a slot of it, no swap request (decided or not) is   *)
(* about a lesson that went with it or asks for a slot of it.  An edit      *)
(* validated before the drop may still write, and a decision taken before   *)
(* it may still be marked.                                                  *)
NothingOutlivesItsPeriod ==
    /\ \A l \in InTable(lessons) : period[lessons[l].slot[2]] # "none"
    /\ \A u \in unavailable : period[u[2][2]] # "none"
    /\ \A q \in SwapRequest : RowExists(q) =>
          /\ {requests[q].lesson, requests[q].target} \ {None} \subseteq InTable(lessons)
          /\ requests[q].slot # None => period[requests[q].slot[2]] # "none"

(* The indexes are a backstop only: what the validator let through, if     *)
(* nothing was written since the lesson was loaded, the database accepts,  *)
(* both ends of a swap included.                                           *)
BackstopUnneeded ==
    \A h \in Handler :
        handler[h].pc = "write" /\ ~handler[h].stale => Accepted(handler[h].plan)

(* legalMoves and move are two pieces of code; they agree: the slots it    *)
(* highlights are exactly those move accepts.                              *)
OfferedMovesAreLegal ==
    \A l \in InTable(lessons), s \in Slot :
        s # lessons[l].slot =>
            (s \in FreeSlots(l) <=> CanMove(l, [lessons[l] EXCEPT !.slot = s]))

(* Likewise for swaps: it highlights every swap that swap accepts, and     *)
(* only those, as long as the rooms of the two lessons have not been       *)
(* deleted; a lesson whose room is gone is offered swaps that are refused. *)
HasItsRoom(l) == lessons[l].room \in rooms \cup {NoRoom}

OfferedSwapsAreLegal ==
    \A l, o \in InTable(lessons) :
        /\ CanSwap(l, lessons[l], o) => o \in SwapTargets(l)
        /\ HasItsRoom(l) /\ HasItsRoom(o) =>
              (o \in SwapTargets(l) => CanSwap(l, lessons[l], o))

(* An edit overtaken by nobody never puts a lesson where its teacher is    *)
(* unavailable, into a deleted room or into an archived timetable.         *)
UnracedEditsAreLegal ==
    [][\A h \in Handler :
          handler[h].pc = "write" /\ lessons' # lessons /\ handler'[h].pc # "write" /\ ~raced' =>
             /\ ~readOnly
             /\ \A l \in DOMAIN handler[h].plan :
                   /\ <<TeacherOf[l], lessons'[l].slot>> \notin unavailable
                   /\ lessons'[l].room \in rooms \cup {NoRoom}]_lessons

(* What a request's status says is what happened to the timetable: its     *)
(* edit was committed once if it is approved (or about to be marked), and  *)
(* never otherwise, unless decisions raced or one was interrupted.         *)
StatusTellsTheTruth ==
    ~raced /\ ~torn =>
        \A q \in SwapRequest : RowExists(q) =>
            applied[q] = IF requests[q].status = "APPROVED" \/ BeingMarked(q)
                         THEN 1 ELSE 0

(* A request's change is made at most once. *)
AppliedAtMostOnce == \A q \in SwapRequest : applied[q] <= 1

(* PENDING -> APPROVED | REJECTED | CANCELLED: a decision is final, unless *)
(* two of them overlapped and the later mark overwrites the earlier.       *)
DecisionIsFinalUnlessRaced ==
    [][~raced' =>
          \A q \in SwapRequest :
              requests[q].status \in {"APPROVED", "REJECTED", "CANCELLED"} =>
                  requests'[q].status \in {requests[q].status, "DELETED"}]_requests
=============================================================================
