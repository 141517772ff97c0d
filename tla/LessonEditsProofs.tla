-------------------------- MODULE LessonEditsProofs --------------------------
(***************************************************************************)
(* What LessonEdits keeps for every number of lessons, rooms, requests,    *)
(* edits and decisions in flight.  The indexes alone keep double bookings  *)
(* out; that the validator needs them only under a race, and that an       *)
(* unraced edit is legal, rests on what an edit nobody overtook still      *)
(* knows (Knows).                                                          *)
(***************************************************************************)
EXTENDS LessonEdits, TLAPS

Verdict == {"NONE", "APPROVED", "REJECTED", "CANCELLED"}
Plan == UNION {[S -> Place] : S \in SUBSET Lesson}
InFlight ==
    [pc : Pc, request : SwapRequest \cup {None}, lesson : Lesson \cup {None},
     target : Lesson \cup {None}, slot : Slot \cup {None},
     room : Room \cup {NoRoom, Keep}, at : Place \cup {None},
     plan : Plan \cup {<<>>}, verdict : Verdict, stale : BOOLEAN]

(* What a handler carries from one of its steps to the next. *)
Carries(m) ==
    /\ m \in InFlight
    /\ m.pc \in {"load", "check"} =>
          m.lesson \in Lesson /\ (m.target \in Lesson \/ m.slot \in Slot)
    /\ m.pc = "check" => m.at \in Place
    /\ m.pc = "write" => m.plan \in Plan
    /\ m.pc = "mark" => m.request \in SwapRequest /\ m.verdict # "NONE"

RequestRow ==
    [status : RequestStatus, lesson : Lesson \cup {None},
     target : Lesson \cup {None}, slot : Slot \cup {None}]

Tables ==
    /\ lessons \in [Lesson -> Place \cup {Gone}]
    /\ readOnly \in BOOLEAN
    /\ period \in [Period -> {"lesson", "break", "none"}]
    /\ teachingDays \subseteq Day
    /\ unavailable \subseteq Teacher \X Slot
    /\ rooms \subseteq Room
    /\ requests \in [SwapRequest -> RequestRow]
    /\ \A q \in SwapRequest : requests[q].status # "NONE" => requests[q].lesson \in Lesson

History ==
    /\ applied \in [SwapRequest -> 0 .. 2]
    /\ torn \in BOOLEAN
    /\ changes \in 0 .. MaxSetupChanges
    /\ raced \in BOOLEAN

Handlers == handler \in [Handler -> InFlight] /\ \A h \in Handler : Carries(handler[h])

TypeInv == Tables /\ History /\ Handlers

(* What the unique indexes refuse is not in the table. *)
NoDoubleBooking == Unique(lessons)

(* The timetable has no lesson in a period that does not exist. *)
SlotsExist == \A l \in InTable(lessons) : period[lessons[l].slot[2]] # "none"

(* An edit nobody overtook since its first read still knows the truth. *)
Knows(m) ==
    ~m.stale =>
        /\ m.pc = "check" =>
              ~readOnly /\ Exists(m.lesson) /\ m.at = lessons[m.lesson]
        /\ m.pc = "write" =>
              /\ ~readOnly
              /\ Accepted(m.plan)
              /\ \A l \in DOMAIN m.plan :
                    /\ <<TeacherOf[l], m.plan[l].slot>> \notin unavailable
                    /\ m.plan[l].room \in rooms \cup {NoRoom}

IInv ==
    /\ TypeInv
    /\ NoDoubleBooking
    /\ SlotsExist
    /\ \A h \in Handler : Knows(handler[h])

-----------------------------------------------------------------------------
(* What overtaking does to a handler *)

(* n is m, perhaps overtaken. *)
Later(n, m) ==
    /\ n \in InFlight
    /\ n.pc = m.pc /\ n.request = m.request /\ n.lesson = m.lesson
    /\ n.target = m.target /\ n.slot = m.slot /\ n.room = m.room
    /\ n.at = m.at /\ n.plan = m.plan /\ n.verdict = m.verdict
    /\ m.stale => n.stale

LEMMA LaterStale ==
    ASSUME NEW m \in InFlight, NEW s \in BOOLEAN, m.stale => s
    PROVE  LET n == [m EXCEPT !.stale = s] IN Later(n, m) /\ n.stale = s
BY DEF Later, InFlight

LEMMA LaterCarries ==
    ASSUME NEW m, Carries(m), NEW n, Later(n, m)
    PROVE  Carries(n)
BY DEF Later, Carries

LEMMA EditsOvertaken ==
    ASSUME NEW hs \in [Handler -> InFlight]
    PROVE  /\ OvertakeEdits(hs) \in [Handler -> InFlight]
           /\ \A h \in Handler :
                 /\ Later(OvertakeEdits(hs)[h], hs[h])
                 /\ hs[h].pc \in {"check", "write"} => OvertakeEdits(hs)[h].stale
<1>1. ASSUME NEW h \in Handler
      PROVE  /\ Later(OvertakeEdits(hs)[h], hs[h])
             /\ hs[h].pc \in {"check", "write"} => OvertakeEdits(hs)[h].stale
  <2> DEFINE s == hs[h].stale \/ hs[h].pc \in {"check", "write"}
  <2>1. OvertakeEdits(hs)[h] = [hs[h] EXCEPT !.stale = s]
    BY DEF OvertakeEdits
  <2>2. hs[h] \in InFlight /\ s \in BOOLEAN /\ (hs[h].stale => s)
    BY DEF InFlight
  <2>3. hs[h].pc \in {"check", "write"} => s
    OBVIOUS
  <2> HIDE DEF s
  <2> QED
    BY <2>1, <2>2, <2>3, LaterStale
<1> QED
  BY <1>1 DEF OvertakeEdits, Later

LEMMA DecisionsOvertaken ==
    ASSUME NEW hs \in [Handler -> InFlight], NEW qs
    PROVE  /\ OvertakeDecisions(hs, qs) \in [Handler -> InFlight]
           /\ \A h \in Handler : Later(OvertakeDecisions(hs, qs)[h], hs[h])
<1>1. ASSUME NEW h \in Handler
      PROVE  Later(OvertakeDecisions(hs, qs)[h], hs[h])
  <2> DEFINE s == hs[h].stale \/ (hs[h].pc # "idle" /\ hs[h].request \in qs)
  <2>1. OvertakeDecisions(hs, qs)[h] = [hs[h] EXCEPT !.stale = s]
    BY DEF OvertakeDecisions
  <2>2. hs[h] \in InFlight /\ s \in BOOLEAN /\ (hs[h].stale => s)
    BY DEF InFlight
  <2> HIDE DEF s
  <2> QED
    BY <2>1, <2>2, LaterStale
<1> QED
  BY <1>1 DEF OvertakeDecisions, Later

LEMMA LaterTwice ==
    ASSUME NEW m, NEW n, NEW k, Later(n, m), Later(k, n)
    PROVE  Later(k, m) /\ (n.stale => k.stale)
BY DEF Later

(* A write overtakes the edits first and the decisions then. *)
LEMMA BothOvertaken ==
    ASSUME NEW hs \in [Handler -> InFlight], NEW qs
    PROVE  LET both == OvertakeDecisions(OvertakeEdits(hs), qs) IN
           /\ both \in [Handler -> InFlight]
           /\ \A h \in Handler :
                 /\ Later(both[h], hs[h])
                 /\ hs[h].pc \in {"check", "write"} => both[h].stale
<1>1. OvertakeEdits(hs) \in [Handler -> InFlight]
  BY EditsOvertaken
<1>2. \A h \in Handler :
          /\ Later(OvertakeDecisions(OvertakeEdits(hs), qs)[h], OvertakeEdits(hs)[h])
          /\ Later(OvertakeEdits(hs)[h], hs[h])
          /\ hs[h].pc \in {"check", "write"} => OvertakeEdits(hs)[h].stale
  BY <1>1, EditsOvertaken, DecisionsOvertaken
<1> QED
  BY <1>1, <1>2, DecisionsOvertaken, LaterTwice

LEMMA IdleCarries == Carries(Idle) /\ Idle.pc = "idle"
BY DEF Carries, Idle, InFlight, Pc, Verdict

-----------------------------------------------------------------------------
(* Kinds of steps *)

(* A handler goes on without touching the database. *)
LEMMA ContinuesInv ==
    ASSUME IInv, NEW h \in Handler, NEW m, Carries(m), Knows(m), Continues(h, m)
    PROVE  IInv'
<1>1. /\ handler' = [handler EXCEPT ![h] = m]
      /\ UNCHANGED <<lessons, readOnly, period, teachingDays, unavailable, rooms,
                     requests, applied, torn, changes, raced>>
  BY DEF Continues, setup
<1>2. Tables' /\ History'
  BY <1>1 DEF IInv, TypeInv, Tables, History
<1>3. Handlers'
  BY <1>1 DEF IInv, TypeInv, Handlers, Carries
<1>4. NoDoubleBooking' /\ SlotsExist'
  BY <1>1 DEF IInv, NoDoubleBooking, Unique, SlotsExist, InTable, Clashes, SameRoom
<1>5. ASSUME NEW g \in Handler PROVE Knows(handler[g])'
  <2>1. handler'[g] = (IF g = h THEN m ELSE handler[g])
    BY <1>1 DEF IInv, TypeInv, Handlers
  <2>2. Knows(handler'[g])
    BY <2>1 DEF IInv
  <2> QED
    BY <1>1, <2>2 DEF Knows, Exists, Accepted, Replaced, Unique, InTable
<1> QED
  BY <1>2, <1>3, <1>4, <1>5 DEF IInv, TypeInv

LEMMA StopsInv ==
    ASSUME IInv, NEW h \in Handler, Stops(h)
    PROVE  IInv'
<1>1. Knows(Idle)
  BY IdleCarries DEF Knows
<1> QED
  BY <1>1, IdleCarries, ContinuesInv DEF Stops

(* A write that overtakes every edit. *)
LEMMA OvertakenInv ==
    ASSUME IInv, NEW hs \in [Handler -> InFlight],
           Tables', History', NoDoubleBooking', SlotsExist',
           handler' = hs,
           \A h \in Handler :
              /\ Carries(hs[h])
              /\ hs[h].pc \in {"check", "write"} => hs[h].stale
    PROVE  IInv'
BY DEF IInv, TypeInv, Handlers, Knows

(* One that touches neither the timetable nor the setup, and leaves every  *)
(* handler where it was, or idle.                                          *)
LEMMA RequestsOnlyInv ==
    ASSUME IInv, NEW hs \in [Handler -> InFlight],
           UNCHANGED <<lessons, setup>>,
           Tables', History',
           handler' = hs,
           \A h \in Handler : hs[h] = Idle \/ Later(hs[h], handler[h])
    PROVE  IInv'
<1>1. UNCHANGED <<lessons, readOnly, period, teachingDays, unavailable, rooms>>
  BY DEF setup
<1>2. \A h \in Handler : Carries(hs[h]) /\ Knows(hs[h])
  <2> SUFFICES ASSUME NEW h \in Handler PROVE Carries(hs[h]) /\ Knows(hs[h])
    OBVIOUS
  <2>1. CASE hs[h] = Idle
    BY <2>1, IdleCarries DEF Knows
  <2>2. CASE Later(hs[h], handler[h])
    <3>1. Carries(handler[h]) /\ Knows(handler[h])
      BY DEF IInv, TypeInv, Handlers
    <3> QED
      BY <2>2, <3>1, LaterCarries DEF Knows, Later
  <2> QED
    BY <2>1, <2>2
<1>3. \A h \in Handler : Knows(handler[h])'
  BY <1>1, <1>2 DEF Knows, Exists, Accepted, Replaced, Unique, InTable
<1>4. NoDoubleBooking' /\ SlotsExist'
  BY <1>1 DEF IInv, NoDoubleBooking, Unique, SlotsExist, InTable, Clashes, SameRoom
<1> QED
  BY <1>2, <1>3, <1>4 DEF IInv, TypeInv, Handlers

-----------------------------------------------------------------------------
(* What the validator lets through, the indexes accept *)

LEMMA ClashSymmetric ==
    ASSUME NEW l, NEW o, NEW p, NEW q, Clashes(l, p, o, q)
    PROVE  Clashes(o, q, l, p)
BY DEF Clashes, SameRoom

LEMMA PlaceNotGone == Gone \notin Place
BY NullAssumption DEF Place, Slot

LEMMA MoveAccepted ==
    ASSUME IInv, NEW l \in Lesson, NEW p \in Place, Exists(l), CanMove(l, p),
           NEW plan, plan = [x \in {l} |-> p]
    PROVE  /\ Accepted(plan)
           /\ <<TeacherOf[l], p.slot>> \notin unavailable
           /\ p.room \in rooms \cup {NoRoom}
<1>1. /\ period[p.slot[2]] = "lesson"
      /\ <<TeacherOf[l], p.slot>> \notin unavailable
      /\ \A o \in InTable(lessons) \ {l} : ~Clashes(l, p, o, lessons[o])
      /\ p.room \in rooms \cup {NoRoom}
  BY DEF CanMove, Teachable, Placeable
<1>2. DOMAIN plan = {l} /\ plan[l] = p
  OBVIOUS
<1>3. Replaced(plan) = [x \in Lesson |-> IF x = l THEN p ELSE lessons[x]]
  BY <1>2 DEF Replaced
<1>4. Unique(Replaced(plan))
  <2> SUFFICES ASSUME NEW x \in InTable(Replaced(plan)), NEW y \in InTable(Replaced(plan)), x # y
               PROVE  ~Clashes(x, Replaced(plan)[x], y, Replaced(plan)[y])
    BY DEF Unique
  <2>1. CASE x = l
    BY <1>1, <1>3, <2>1 DEF InTable
  <2>2. CASE y = l
    BY <1>1, <1>3, <2>2, ClashSymmetric DEF InTable
  <2>3. CASE x # l /\ y # l
    BY <1>3, <2>3 DEF IInv, NoDoubleBooking, Unique, InTable
  <2> QED
    BY <2>1, <2>2, <2>3
<1> QED
  BY <1>1, <1>2, <1>4 DEF Accepted

LEMMA SwapAccepted ==
    ASSUME IInv, NEW l \in Lesson, NEW target \in Lesson, Exists(l),
           CanSwap(l, lessons[l], target),
           NEW plan, plan = [x \in {l, target} |->
                                IF x = l THEN lessons[target] ELSE lessons[l]]
    PROVE  /\ Accepted(plan)
           /\ \A x \in {l, target} :
                 /\ <<TeacherOf[x], plan[x].slot>> \notin unavailable
                 /\ plan[x].room \in rooms \cup {NoRoom}
<1> DEFINE p == lessons[target]
           at == lessons[l]
<1>1. /\ l # target /\ Exists(target)
      /\ <<TeacherOf[l], p.slot>> \notin unavailable
      /\ p.room \in rooms \cup {NoRoom}
      /\ \A o \in InTable(lessons) \ {l, target} : ~Clashes(l, p, o, lessons[o])
  BY DEF CanSwap, Placeable
<1>2. /\ <<TeacherOf[target], at.slot>> \notin unavailable
      /\ at.room \in rooms \cup {NoRoom}
      /\ \A o \in InTable([lessons EXCEPT ![l] = p]) \ {target} :
            ~Clashes(target, at, o, [lessons EXCEPT ![l] = p][o])
  BY DEF CanSwap, Placeable
<1>3. /\ DOMAIN plan = {l, target} /\ plan[l] = p /\ plan[target] = at
  BY <1>1
<1>4. lessons \in [Lesson -> Place \cup {Gone}]
  BY DEF IInv, TypeInv, Tables
<1>5. /\ ~Clashes(target, at, l, p)
      /\ \A o \in InTable(lessons) \ {l, target} : ~Clashes(target, at, o, lessons[o])
  BY <1>1, <1>2, <1>4 DEF InTable, Exists
<1>6. /\ DOMAIN Replaced(plan) = Lesson
      /\ Replaced(plan)[l] = p /\ Replaced(plan)[target] = at
      /\ \A x \in Lesson \ {l, target} : Replaced(plan)[x] = lessons[x]
  BY <1>3 DEF Replaced
<1> HIDE DEF p, at
<1>7. Unique(Replaced(plan))
  <2> SUFFICES ASSUME NEW x \in InTable(Replaced(plan)), NEW y \in InTable(Replaced(plan)), x # y
               PROVE  ~Clashes(x, Replaced(plan)[x], y, Replaced(plan)[y])
    BY DEF Unique
  <2>1. x \in Lesson /\ y \in Lesson
    BY DEF InTable
  <2>2. CASE {x, y} = {l, target}
    BY <1>5, <1>6, <2>2, ClashSymmetric
  <2>3. CASE x \in {l, target} /\ y \notin {l, target}
    BY <1>1, <1>5, <1>6, <2>1, <2>3 DEF InTable
  <2>4. CASE x \notin {l, target} /\ y \in {l, target}
    BY <1>1, <1>5, <1>6, <2>1, <2>4, ClashSymmetric DEF InTable
  <2>5. CASE x \notin {l, target} /\ y \notin {l, target}
    BY <1>6, <2>1, <2>5 DEF IInv, NoDoubleBooking, Unique, InTable
  <2> QED
    BY <2>1, <2>2, <2>3, <2>4, <2>5
<1>8. period[p.slot[2]] # "none" /\ period[at.slot[2]] # "none"
  BY <1>1 DEF IInv, SlotsExist, InTable, Exists, p, at
<1> QED
  BY <1>1, <1>2, <1>3, <1>7, <1>8 DEF Accepted

-----------------------------------------------------------------------------
(* Edits *)

LEMMA LoadedInv ==
    ASSUME IInv, NEW h \in Handler, NEW m \in InFlight,
           m.lesson \in Lesson, m.target \in Lesson \/ m.slot \in Slot,
           Loaded(h, m)
    PROVE  IInv'
<1>1. CASE Exists(m.lesson) /\ ~readOnly
  <2> DEFINE n == [m EXCEPT !.pc = "check", !.at = lessons[m.lesson]]
  <2>1. lessons[m.lesson] \in Place
    BY <1>1 DEF IInv, TypeInv, Tables, Exists
  <2>2. /\ n \in InFlight /\ n.pc = "check" /\ n.lesson = m.lesson
        /\ n.target = m.target /\ n.slot = m.slot /\ n.at = lessons[m.lesson]
    BY <2>1 DEF InFlight, Pc
  <2>3. Continues(h, n)
    BY <1>1 DEF Loaded
  <2> HIDE DEF n
  <2>4. Carries(n) /\ Knows(n)
    BY <1>1, <2>1, <2>2 DEF Carries, Knows
  <2> QED
    BY <2>3, <2>4, ContinuesInv
<1>2. CASE ~(Exists(m.lesson) /\ ~readOnly)
  BY <1>2, StopsInv DEF Loaded
<1> QED
  BY <1>1, <1>2

LEMMA IdleType ==
    /\ Idle \in InFlight
    /\ Idle.target = None /\ Idle.slot = None
BY DEF Idle, InFlight, Pc, Verdict

LEMMA BeginMoveInv ==
    ASSUME IInv, NEW h \in Handler, NEW l \in Lesson, NEW s \in Slot,
           NEW room \in Room \cup {NoRoom, Keep}, BeginMove(h, l, s, room)
    PROVE  IInv'
<1> DEFINE m == [Idle EXCEPT !.lesson = l, !.slot = s, !.room = room]
<1>1. m \in InFlight /\ m.lesson = l /\ m.slot = s
  BY IdleType DEF InFlight
<1>2. Loaded(h, m)
  BY DEF BeginMove
<1> HIDE DEF m
<1> QED
  BY <1>1, <1>2, LoadedInv

LEMMA BeginSwapInv ==
    ASSUME IInv, NEW h \in Handler, NEW l \in Lesson, NEW target \in Lesson,
           BeginSwap(h, l, target)
    PROVE  IInv'
<1> DEFINE m == [Idle EXCEPT !.lesson = l, !.target = target]
<1>1. m \in InFlight /\ m.lesson = l /\ m.target = target
  BY IdleType DEF InFlight
<1>2. Loaded(h, m)
  BY DEF BeginSwap
<1> HIDE DEF m
<1> QED
  BY <1>1, <1>2, LoadedInv

LEMMA LoadLessonInv ==
    ASSUME IInv, NEW h \in Handler, LoadLesson(h)
    PROVE  IInv'
<1>1. handler[h] \in InFlight /\ Carries(handler[h])
  BY DEF IInv, TypeInv, Handlers
<1> QED
  BY <1>1, LoadedInv, StopsInv DEF LoadLesson, Carries

(* A handler about to write a plan that is known to be good. *)
LEMMA PlannedInv ==
    ASSUME IInv, NEW h \in Handler, NEW plan \in Plan,
           ~handler[h].stale =>
              /\ ~readOnly
              /\ Accepted(plan)
              /\ \A l \in DOMAIN plan :
                    /\ <<TeacherOf[l], plan[l].slot>> \notin unavailable
                    /\ plan[l].room \in rooms \cup {NoRoom},
           Continues(h, [handler[h] EXCEPT !.pc = "write", !.plan = plan])
    PROVE  IInv'
<1> DEFINE n == [handler[h] EXCEPT !.pc = "write", !.plan = plan]
<1>1. handler[h] \in InFlight
  BY DEF IInv, TypeInv, Handlers
<1>2. n \in InFlight /\ n.pc = "write" /\ n.plan = plan /\ n.stale = handler[h].stale
  BY <1>1 DEF InFlight, Pc
<1>3. Continues(h, n)
  OBVIOUS
<1> HIDE DEF n
<1>4. Carries(n) /\ Knows(n)
  BY <1>2 DEF Carries, Knows
<1> QED
  BY <1>3, <1>4, ContinuesInv

LEMMA CheckMoveInv ==
    ASSUME IInv, NEW h \in Handler, CheckMove(h)
    PROVE  IInv'
<1> DEFINE m == handler[h]
           p == [slot |-> m.slot, room |-> IF m.room = Keep THEN m.at.room ELSE m.room]
           plan == [l \in {m.lesson} |-> p]
<1>1. /\ m \in InFlight /\ Carries(m) /\ Knows(m)
      /\ m.pc = "check" /\ m.target = None
  BY DEF IInv, TypeInv, Handlers, CheckMove
<1>2. m.lesson \in Lesson /\ m.slot \in Slot /\ m.at \in Place
  BY <1>1, NullAssumption DEF Carries
<1>3. p \in Place
  BY <1>1, <1>2 DEF InFlight, Place
<1>4. CASE CanMove(m.lesson, p)
  <2>1. plan \in Plan /\ DOMAIN plan = {m.lesson} /\ plan[m.lesson] = p
    <3>1. plan \in [{m.lesson} -> Place] /\ DOMAIN plan = {m.lesson} /\ plan[m.lesson] = p
      BY <1>3
    <3> HIDE DEF plan
    <3> QED
      BY <1>2, <3>1 DEF Plan
  <2>2. Continues(h, [m EXCEPT !.pc = "write", !.plan = plan])
    BY <1>4 DEF CheckMove
  <2>3. ~m.stale => ~readOnly /\ Exists(m.lesson)
    BY <1>1 DEF Knows
  <2>4. ~m.stale =>
           /\ Accepted(plan)
           /\ <<TeacherOf[m.lesson], p.slot>> \notin unavailable
           /\ p.room \in rooms \cup {NoRoom}
    BY <1>2, <1>3, <1>4, <2>3, MoveAccepted
  <2> HIDE DEF p, plan
  <2> QED
    BY <2>1, <2>2, <2>3, <2>4, PlannedInv
<1>5. CASE ~CanMove(m.lesson, p)
  BY <1>5, StopsInv DEF CheckMove
<1> QED
  BY <1>4, <1>5

LEMMA CheckSwapInv ==
    ASSUME IInv, NEW h \in Handler, CheckSwap(h)
    PROVE  IInv'
<1> DEFINE m == handler[h]
           plan == [l \in {m.lesson, m.target} |->
                       IF l = m.lesson THEN lessons[m.target] ELSE m.at]
<1>1. /\ m \in InFlight /\ Carries(m) /\ Knows(m)
      /\ m.pc = "check" /\ m.target # None
  BY DEF IInv, TypeInv, Handlers, CheckSwap
<1>2. m.lesson \in Lesson /\ m.target \in Lesson /\ m.at \in Place
  BY <1>1 DEF Carries, InFlight
<1>3. CASE CanSwap(m.lesson, m.at, m.target)
  <2>1. lessons[m.target] \in Place
    BY <1>2, <1>3 DEF CanSwap, Exists, IInv, TypeInv, Tables
  <2>2. DOMAIN plan = {m.lesson, m.target} /\ plan \in [{m.lesson, m.target} -> Place]
    BY <1>2, <2>1
  <2>3. plan \in Plan
    BY <1>2, <2>2 DEF Plan
  <2>4. Continues(h, [m EXCEPT !.pc = "write", !.plan = plan])
    BY <1>3 DEF CheckSwap
  <2>5. ~m.stale => ~readOnly /\ Exists(m.lesson) /\ m.at = lessons[m.lesson]
    BY <1>1 DEF Knows
  <2>6. ~m.stale =>
           /\ Accepted(plan)
           /\ \A x \in {m.lesson, m.target} :
                 /\ <<TeacherOf[x], plan[x].slot>> \notin unavailable
                 /\ plan[x].room \in rooms \cup {NoRoom}
    BY <1>2, <1>3, <2>5, SwapAccepted
  <2> HIDE DEF plan
  <2> QED
    BY <2>2, <2>3, <2>4, <2>5, <2>6, PlannedInv
<1>4. CASE ~CanSwap(m.lesson, m.at, m.target)
  BY <1>4, StopsInv DEF CheckSwap
<1> QED
  BY <1>3, <1>4

LEMMA WriteLessonsInv ==
    ASSUME IInv, NEW h \in Handler, WriteLessons(h)
    PROVE  IInv'
<1> DEFINE m == handler[h]
           after == IF m.request = None THEN Idle
                    ELSE [Idle EXCEPT !.pc = "mark", !.request = m.request,
                                      !.verdict = "APPROVED", !.stale = m.stale]
           both == OvertakeDecisions(OvertakeEdits(handler), {m.request} \ {None})
           hs == [both EXCEPT ![h] = after]
<1>1. m \in InFlight /\ Carries(m) /\ m.pc = "write" /\ m.plan \in Plan
  BY DEF IInv, TypeInv, Handlers, WriteLessons, Carries
<1>2. CASE Accepted(m.plan)
  <2>1. /\ lessons' = Replaced(m.plan)
        /\ handler' = hs
        /\ applied' = IF m.request = None THEN applied
                      ELSE [applied EXCEPT ![m.request] = IF @ = 0 THEN 1 ELSE 2]
        /\ raced' = (raced \/ m.stale)
        /\ UNCHANGED <<readOnly, period, teachingDays, unavailable, rooms,
                       requests, torn, changes>>
    BY <1>2 DEF WriteLessons, setup
  <2>2. PICK S \in SUBSET Lesson : m.plan \in [S -> Place]
    BY <1>1 DEF Plan
  <2>3. Tables'
    <3>1. lessons' \in [Lesson -> Place \cup {Gone}]
      BY <2>1, <2>2 DEF Replaced, IInv, TypeInv, Tables
    <3> QED
      BY <2>1, <3>1 DEF IInv, TypeInv, Tables
  <2>4. History'
    <3>1. applied' \in [SwapRequest -> 0 .. 2]
      <4>1. applied \in [SwapRequest -> 0 .. 2] /\ 1 \in 0 .. 2 /\ 2 \in 0 .. 2
        BY DEF IInv, TypeInv, History
      <4>2. CASE m.request = None
        BY <2>1, <4>1, <4>2
      <4>3. CASE m.request # None
        <5> DEFINE n == IF applied[m.request] = 0 THEN 1 ELSE 2
        <5>1. applied' = [applied EXCEPT ![m.request] = n] /\ n \in 0 .. 2
          BY <2>1, <4>1, <4>3
        <5> HIDE DEF n
        <5> QED
          BY <4>1, <5>1
      <4> QED
        BY <4>2, <4>3
    <3>2. raced' \in BOOLEAN
      <4>1. raced \in BOOLEAN /\ m.stale \in BOOLEAN
        BY <1>1 DEF IInv, TypeInv, History, InFlight
      <4> QED
        BY <2>1, <4>1
    <3> QED
      BY <2>1, <3>1, <3>2 DEF IInv, TypeInv, History
  <2>5. NoDoubleBooking'
    BY <1>2, <2>1 DEF Accepted, Unique, NoDoubleBooking, InTable
  <2>6. SlotsExist'
    <3> SUFFICES ASSUME NEW l \in InTable(lessons')
                 PROVE  period[lessons'[l].slot[2]] # "none"
      BY <2>1 DEF SlotsExist, InTable
    <3>1. l \in Lesson /\ lessons'[l] # Gone
      BY DEF InTable
    <3>2. CASE l \in DOMAIN m.plan
      BY <1>2, <2>1, <3>1, <3>2 DEF Accepted, Replaced
    <3>3. CASE l \notin DOMAIN m.plan
      BY <2>1, <3>1, <3>3 DEF Replaced, IInv, SlotsExist, InTable
    <3> QED
      BY <3>2, <3>3
  <2>7. after \in InFlight /\ Carries(after) /\ after.pc \in {"idle", "mark"}
    <3>1. CASE m.request = None
      BY <3>1, IdleCarries, IdleType
    <3>2. CASE m.request # None
      <4>1. m.request \in SwapRequest /\ m.stale \in BOOLEAN
        BY <1>1, <3>2 DEF InFlight
      <4>2. /\ after \in InFlight /\ after.pc = "mark"
            /\ after.request = m.request /\ after.verdict = "APPROVED"
        BY <3>2, <4>1, IdleType DEF InFlight, Pc, Verdict
      <4> HIDE DEF after
      <4> QED
        BY <4>1, <4>2 DEF Carries
    <3> QED
      BY <3>1, <3>2
  <2>8. /\ both \in [Handler -> InFlight]
        /\ \A g \in Handler :
              /\ Later(both[g], handler[g])
              /\ handler[g].pc \in {"check", "write"} => both[g].stale
    BY BothOvertaken DEF IInv, TypeInv, Handlers
  <2> HIDE DEF after, both
  <2>9. hs \in [Handler -> InFlight]
    BY <2>7, <2>8
  <2>10. \A g \in Handler :
            /\ Carries(hs[g])
            /\ hs[g].pc \in {"check", "write"} => hs[g].stale
    <3> SUFFICES ASSUME NEW g \in Handler
                 PROVE  /\ Carries(hs[g])
                        /\ hs[g].pc \in {"check", "write"} => hs[g].stale
      OBVIOUS
    <3>1. CASE g = h
      BY <2>7, <2>8, <3>1
    <3>2. CASE g # h
      <4>1. hs[g] = both[g] /\ Carries(handler[g])
        BY <2>8, <3>2 DEF IInv, TypeInv, Handlers
      <4> QED
        BY <2>8, <4>1, LaterCarries DEF Later
    <3> QED
      BY <3>1, <3>2
  <2> HIDE DEF hs
  <2> QED
    BY <2>1, <2>3, <2>4, <2>5, <2>6, <2>9, <2>10, OvertakenInv
<1>3. CASE ~Accepted(m.plan)
  BY <1>3, StopsInv DEF WriteLessons
<1> QED
  BY <1>2, <1>3

LEMMA FailInv ==
    ASSUME IInv, NEW h \in Handler, Fail(h)
    PROVE  IInv'
<1> DEFINE hs == [handler EXCEPT ![h] = Idle]
<1>1. /\ handler' = hs
      /\ torn' = (torn \/ (handler[h].pc = "mark" /\ handler[h].verdict = "APPROVED"))
      /\ UNCHANGED <<lessons, setup, requests, applied, changes, raced>>
  BY DEF Fail
<1>2. torn' \in BOOLEAN
  BY <1>1 DEF IInv, TypeInv, History
<1>3. Tables' /\ History'
  BY <1>1, <1>2 DEF IInv, TypeInv, Tables, History, setup
<1>4. /\ hs \in [Handler -> InFlight]
      /\ \A g \in Handler : hs[g] = Idle \/ Later(hs[g], handler[g])
  BY IdleType DEF IInv, TypeInv, Handlers, Later
<1> HIDE DEF hs
<1> QED
  BY <1>1, <1>3, <1>4, RequestsOnlyInv

-----------------------------------------------------------------------------
(* Decisions *)

LEMMA BeginApproveInv ==
    ASSUME IInv, NEW h \in Handler, NEW q \in SwapRequest, BeginApprove(h, q)
    PROVE  IInv'
<1> DEFINE row == requests[q]
           m == [Idle EXCEPT !.pc = "load", !.request = q, !.lesson = row.lesson,
                             !.target = row.target, !.slot = row.slot,
                             !.stale = BeingMarked(q)]
<1>1. row \in RequestRow /\ row.lesson \in Lesson /\ (row.target # None \/ row.slot # None)
  BY DEF BeginApprove, Decidable, IInv, TypeInv, Tables
<1>2. /\ row.target \in Lesson \cup {None} /\ row.slot \in Slot \cup {None}
  BY <1>1 DEF RequestRow
<1>3. BeingMarked(q) \in BOOLEAN
  BY DEF BeingMarked
<1>4. Continues(h, m)
  BY DEF BeginApprove
<1>5. /\ m \in InFlight /\ m.pc = "load" /\ m.lesson = row.lesson
      /\ m.target = row.target /\ m.slot = row.slot
  BY <1>1, <1>2, <1>3, IdleType DEF InFlight, Pc
<1> HIDE DEF m, row
<1>6. Carries(m) /\ Knows(m)
  BY <1>1, <1>2, <1>5 DEF Carries, Knows
<1> QED
  BY <1>4, <1>6, ContinuesInv

(* A decision that only has the request's row to write. *)
LEMMA MarkingInv ==
    ASSUME IInv, NEW h \in Handler, NEW q \in SwapRequest,
           NEW v \in {"REJECTED", "CANCELLED"},
           Continues(h, [Idle EXCEPT !.pc = "mark", !.request = q, !.verdict = v,
                                     !.stale = BeingMarked(q)])
    PROVE  IInv'
<1> DEFINE m == [Idle EXCEPT !.pc = "mark", !.request = q, !.verdict = v,
                             !.stale = BeingMarked(q)]
<1>1. BeingMarked(q) \in BOOLEAN
  BY DEF BeingMarked
<1>2. m \in InFlight /\ m.pc = "mark" /\ m.request = q /\ m.verdict = v
  BY <1>1, IdleType DEF InFlight, Pc, Verdict
<1>3. Continues(h, m)
  OBVIOUS
<1> HIDE DEF m
<1>4. Carries(m) /\ Knows(m)
  BY <1>2 DEF Carries, Knows
<1> QED
  BY <1>3, <1>4, ContinuesInv

LEMMA MarkInv ==
    ASSUME IInv, NEW h \in Handler, Mark(h)
    PROVE  IInv'
<1> DEFINE m == handler[h]
           marked == [requests EXCEPT ![m.request].status = m.verdict]
           both == OvertakeDecisions(handler, {m.request})
           hs == [both EXCEPT ![h] = Idle]
<1>1. CASE RowExists(m.request)
  <2>1. /\ requests' = marked
        /\ handler' = hs
        /\ raced' = (raced \/ m.stale)
        /\ UNCHANGED <<lessons, setup, applied, torn, changes>>
    BY <1>1 DEF Mark
  <2>2. /\ m \in InFlight /\ m.request \in SwapRequest /\ m.verdict \in RequestStatus
        /\ requests[m.request].status # "NONE"
    BY <1>1 DEF Mark, IInv, TypeInv, Handlers, Carries, InFlight, Verdict, RequestStatus,
                RowExists
  <2>3. /\ requests' \in [SwapRequest -> RequestRow]
        /\ \A q \in SwapRequest : requests'[q].status # "NONE" => requests'[q].lesson \in Lesson
    BY <2>1, <2>2 DEF IInv, TypeInv, Tables, RequestRow
  <2>4. raced' \in BOOLEAN
    <3>1. raced \in BOOLEAN /\ m.stale \in BOOLEAN
      BY <2>2 DEF IInv, TypeInv, History, InFlight
    <3> QED
      BY <2>1, <3>1
  <2>5. Tables' /\ History'
    BY <2>1, <2>3, <2>4 DEF IInv, TypeInv, Tables, History, setup
  <2>6. /\ both \in [Handler -> InFlight]
        /\ \A g \in Handler : Later(both[g], handler[g])
    BY DecisionsOvertaken DEF IInv, TypeInv, Handlers
  <2> HIDE DEF both
  <2>7. /\ hs \in [Handler -> InFlight]
        /\ \A g \in Handler : hs[g] = Idle \/ Later(hs[g], handler[g])
    BY <2>6, IdleType
  <2> HIDE DEF hs
  <2> QED
    BY <2>1, <2>5, <2>7, RequestsOnlyInv
<1>2. CASE ~RowExists(m.request)
  BY <1>2, StopsInv DEF Mark
<1> QED
  BY <1>1, <1>2

LEMMA CreateRequestInv ==
    ASSUME IInv, NEW q \in SwapRequest, NEW who, NEW l \in Lesson,
           NEW target \in Lesson \cup {None}, NEW slot \in Slot \cup {None},
           CreateRequest(q, who, l, target, slot)
    PROVE  IInv'
<1> DEFINE row == [status |-> "PENDING", lesson |-> l, target |-> target, slot |-> slot]
<1>1. /\ requests' = [requests EXCEPT ![q] = row]
      /\ UNCHANGED <<lessons, setup, handler, applied, torn, changes, raced>>
  BY DEF CreateRequest
<1>2. row \in RequestRow /\ row.lesson \in Lesson
  BY DEF RequestRow, RequestStatus
<1> HIDE DEF row
<1>3. Tables' /\ History'
  BY <1>1, <1>2 DEF IInv, TypeInv, Tables, History, setup
<1>4. /\ handler \in [Handler -> InFlight]
      /\ \A g \in Handler : Later(handler[g], handler[g])
  BY DEF IInv, TypeInv, Handlers, Later
<1> QED
  BY <1>1, <1>3, <1>4, RequestsOnlyInv

-----------------------------------------------------------------------------
(* The setup *)

LEMMA OneMoreChange ==
    ASSUME TypeInv, changes < MaxSetupChanges, changes' = changes + 1,
           UNCHANGED <<applied, torn, raced>>
    PROVE  History'
BY BoundAssumption DEF TypeInv, History

LEMMA SetupOnlyInv ==
    ASSUME IInv, SetupOnly, period' = period, Tables'
    PROVE  IInv'
<1>1. /\ handler' = OvertakeEdits(handler)
      /\ lessons' = lessons
  BY DEF SetupOnly, SetupChanges
<1>2. History'
  BY OneMoreChange DEF SetupOnly, SetupChanges, IInv
<1>3. NoDoubleBooking' /\ SlotsExist'
  BY <1>1 DEF IInv, NoDoubleBooking, Unique, SlotsExist, InTable, Clashes, SameRoom
<1>4. /\ OvertakeEdits(handler) \in [Handler -> InFlight]
      /\ \A h \in Handler :
            /\ Later(OvertakeEdits(handler)[h], handler[h])
            /\ handler[h].pc \in {"check", "write"} => OvertakeEdits(handler)[h].stale
            /\ Carries(handler[h])
  BY EditsOvertaken DEF IInv, TypeInv, Handlers
<1>5. \A h \in Handler :
         /\ Carries(OvertakeEdits(handler)[h])
         /\ OvertakeEdits(handler)[h].pc \in {"check", "write"} =>
               OvertakeEdits(handler)[h].stale
  BY <1>4, LaterCarries DEF Later
<1> QED
  BY <1>1, <1>2, <1>3, <1>4, <1>5, OvertakenInv

LEMMA ReplacePeriodsInv ==
    ASSUME IInv, NEW new \in [Period -> {"lesson", "break", "none"}], ReplacePeriods(new)
    PROVE  IInv'
<1> DEFINE Dropped(s) == new[s[2]] = "none"
           dead == {l \in InTable(lessons) : Dropped(lessons[l].slot)}
           orphans == About(dead)
           both == OvertakeDecisions(OvertakeEdits(handler), orphans)
<1>1. /\ period' = new
      /\ lessons' = [l \in Lesson |-> IF l \in dead THEN Gone ELSE lessons[l]]
      /\ unavailable' = {u \in unavailable : ~Dropped(u[2])}
      /\ requests' = [q \in SwapRequest |->
            IF q \in orphans THEN [requests[q] EXCEPT !.status = "DELETED"]
            ELSE IF requests[q].slot # None /\ Dropped(requests[q].slot)
                 THEN [requests[q] EXCEPT !.slot = None]
            ELSE requests[q]]
      /\ handler' = both
      /\ UNCHANGED <<readOnly, teachingDays, rooms>>
  BY DEF ReplacePeriods
<1>2. History'
  BY OneMoreChange DEF ReplacePeriods, IInv
<1>3. lessons' \in [Lesson -> Place \cup {Gone}]
  BY <1>1 DEF IInv, TypeInv, Tables
<1>4. /\ requests' \in [SwapRequest -> RequestRow]
      /\ \A q \in SwapRequest : requests'[q].status # "NONE" => requests'[q].lesson \in Lesson
  <2>1. ASSUME NEW q \in SwapRequest
        PROVE  /\ requests'[q] \in RequestRow
               /\ requests'[q].status # "NONE" => requests'[q].lesson \in Lesson
    <3>1. /\ requests[q] \in RequestRow
          /\ requests[q].status # "NONE" => requests[q].lesson \in Lesson
      BY DEF IInv, TypeInv, Tables
    <3>2. q \in orphans => requests[q].status # "NONE"
      BY DEF About, RowExists
    <3> HIDE DEF orphans, Dropped
    <3>3. CASE q \in orphans
      BY <1>1, <3>1, <3>2, <3>3 DEF RequestRow, RequestStatus
    <3>4. CASE q \notin orphans
      BY <1>1, <3>1, <3>4 DEF RequestRow
    <3> QED
      BY <3>3, <3>4
  <2> QED
    BY <1>1, <2>1
<1>5. Tables'
  BY <1>1, <1>3, <1>4 DEF IInv, TypeInv, Tables
<1>6. \A l \in InTable(lessons') :
         l \in InTable(lessons) /\ lessons'[l] = lessons[l] /\ ~Dropped(lessons[l].slot)
  BY <1>1 DEF InTable
<1>7. NoDoubleBooking' /\ SlotsExist'
  BY <1>1, <1>6 DEF IInv, NoDoubleBooking, Unique, SlotsExist, InTable, Clashes, SameRoom
<1>8. /\ both \in [Handler -> InFlight]
      /\ \A h \in Handler :
            /\ Later(both[h], handler[h])
            /\ handler[h].pc \in {"check", "write"} => both[h].stale
            /\ Carries(handler[h])
  BY BothOvertaken DEF IInv, TypeInv, Handlers
<1> HIDE DEF both
<1>9. \A h \in Handler :
         /\ Carries(both[h])
         /\ both[h].pc \in {"check", "write"} => both[h].stale
  BY <1>8, LaterCarries DEF Later
<1> QED
  BY <1>1, <1>2, <1>5, <1>7, <1>8, <1>9, OvertakenInv

LEMMA ChangeSetupInv ==
    ASSUME IInv, ChangeSetup
    PROVE  IInv'
<1>1. ASSUME NEW new \in [Period -> {"lesson", "break", "none"}], ReplacePeriods(new)
      PROVE  IInv'
  BY <1>1, ReplacePeriodsInv
<1>2. ASSUME NEW r \in Room, RemoveRoom(r) PROVE IInv'
  <2>1. Tables' /\ period' = period
    BY <1>2 DEF RemoveRoom, SetupOnly, IInv, TypeInv, Tables
  <2> QED
    BY <1>2, <2>1, SetupOnlyInv DEF RemoveRoom
<1>3. ASSUME NEW t \in Teacher, NEW slots \in SUBSET Slot, ReplaceUnavailability(t, slots)
      PROVE  IInv'
  <2>1. Tables' /\ period' = period
    BY <1>3 DEF ReplaceUnavailability, SetupOnly, IInv, TypeInv, Tables
  <2> QED
    BY <1>3, <2>1, SetupOnlyInv DEF ReplaceUnavailability
<1>4. ASSUME NEW days \in SUBSET Day, UpdateTeachingDays(days) PROVE IInv'
  <2>1. Tables' /\ period' = period
    BY <1>4 DEF UpdateTeachingDays, SetupOnly, IInv, TypeInv, Tables
  <2> QED
    BY <1>4, <2>1, SetupOnlyInv DEF UpdateTeachingDays
<1>5. ASSUME ArchiveTimetable PROVE IInv'
  <2>1. Tables' /\ period' = period
    BY <1>5 DEF ArchiveTimetable, SetupOnly, IInv, TypeInv, Tables
  <2> QED
    BY <1>5, <2>1, SetupOnlyInv DEF ArchiveTimetable
<1> QED
  BY <1>1, <1>2, <1>3, <1>4, <1>5 DEF ChangeSetup

-----------------------------------------------------------------------------
(* The invariant, and the theorems *)

LEMMA InitInv == Init => IInv
<1> SUFFICES ASSUME Init PROVE IInv
  OBVIOUS
<1>1. Tables
  BY DEF Init, Tables, NoRequest, RequestRow, RequestStatus
<1>2. History
  <2>1. applied \in [SwapRequest -> 0 .. 2]
    BY DEF Init
  <2>2. changes \in 0 .. MaxSetupChanges
    BY BoundAssumption DEF Init
  <2>3. torn \in BOOLEAN /\ raced \in BOOLEAN
    BY DEF Init
  <2> QED
    BY <2>1, <2>2, <2>3 DEF History
<1>3. handler \in [Handler -> InFlight] /\ \A h \in Handler : handler[h] = Idle
  BY IdleType DEF Init
<1>4. Handlers /\ \A h \in Handler : Knows(handler[h])
  BY <1>3, IdleCarries DEF Handlers, Knows
<1>5. NoDoubleBooking
  BY DEF Init, Unique, NoDoubleBooking
<1>6. SlotsExist
  BY DEF Init, SlotsExist, Teachable, InTable
<1> QED
  BY <1>1, <1>2, <1>4, <1>5, <1>6 DEF IInv, TypeInv

LEMMA UnchangedInv == IInv /\ UNCHANGED vars => IInv'
BY DEF vars, setup, IInv, TypeInv, Tables, History, Handlers, NoDoubleBooking, Unique, SlotsExist,
       InTable, Clashes, SameRoom, Knows, Exists, Accepted, Replaced, Unique

LEMMA InvStep == IInv /\ [Next]_vars => IInv'
<1> SUFFICES ASSUME IInv, [Next]_vars PROVE IInv'
  OBVIOUS
<1>1. ASSUME NEW h \in Handler,
             CheckMove(h) \/ CheckSwap(h) \/ WriteLessons(h) \/ Fail(h)
      PROVE  IInv'
  BY <1>1, CheckMoveInv, CheckSwapInv, WriteLessonsInv, FailInv
<1>2. ASSUME NEW h \in Editor, BeginEdit(h) PROVE IInv'
  BY <1>2, BeginMoveInv, BeginSwapInv DEF BeginEdit, Handler
<1>3. ASSUME NEW h \in Decider, Decide(h) PROVE IInv'
  <2>1. h \in Handler
    BY DEF Handler
  <2>2. ASSUME NEW q \in SwapRequest, BeginReject(h, q) PROVE IInv'
    BY <2>1, <2>2, MarkingInv DEF BeginReject
  <2>3. ASSUME NEW q \in SwapRequest, NEW who, BeginCancel(h, q, who) PROVE IInv'
    BY <2>1, <2>3, MarkingInv DEF BeginCancel
  <2> QED
    BY <1>3, <2>1, <2>2, <2>3, BeginApproveInv, LoadLessonInv, MarkInv DEF Decide
<1>4. ASSUME NEW q \in SwapRequest, NEW who \in Teacher \cup {Manager}, NEW l \in Lesson,
             NEW target \in Lesson \cup {None}, NEW slot \in Slot \cup {None},
             CreateRequest(q, who, l, target, slot)
      PROVE  IInv'
  BY <1>4, CreateRequestInv
<1>5. CASE ChangeSetup
  BY <1>5, ChangeSetupInv
<1>6. CASE UNCHANGED vars
  BY <1>6, UnchangedInv
<1> QED
  BY <1>1, <1>2, <1>3, <1>4, <1>5, <1>6 DEF Next

LEMMA Invariance == Spec => []IInv
BY InitInv, InvStep, PTL DEF Spec

(* Every reachable state has the types TypeOK gives it: whatever the       *)
(* tables and the handlers in flight go through, no handler reaches a      *)
(* validation without a lesson or a write without places                   *)
(* (EntryEditService, SwapRequestsService).                                *)
THEOREM TypeCorrect == Spec => []TypeOK
<1>1. IInv => TypeOK
  <2> SUFFICES ASSUME IInv PROVE TypeOK
    OBVIOUS
  <2>1. Tables /\ History /\ Handlers
    BY DEF IInv, TypeInv
  <2>2. ASSUME NEW h \in Handler
        PROVE  /\ handler[h].pc \in Pc
               /\ handler[h].request \in SwapRequest \cup {None}
               /\ handler[h].pc \in {"load", "check"} => handler[h].lesson \in Lesson
               /\ handler[h].pc = "check" => handler[h].at \in Place
               /\ handler[h].pc = "write" =>
                     /\ DOMAIN handler[h].plan \subseteq Lesson
                     /\ \A x \in DOMAIN handler[h].plan : handler[h].plan[x] \in Place
               /\ handler[h].pc = "mark" =>
                     /\ handler[h].request \in SwapRequest
                     /\ handler[h].verdict \in {"APPROVED", "REJECTED", "CANCELLED"}
    <3>1. handler[h] \in InFlight /\ Carries(handler[h])
      BY <2>1 DEF Handlers
    <3> QED
      BY <3>1 DEF InFlight, Carries, Plan, Verdict
  <2> QED
    BY <2>1, <2>2 DEF TypeOK, Tables, History, RequestRow
<1> QED
  BY <1>1, Invariance, PTL

Refers == NothingOutlivesItsPeriod

LEMMA RefersUnchanged ==
    ASSUME Refers, UNCHANGED <<lessons, period, unavailable, requests>>
    PROVE  Refers'
BY DEF Refers, NothingOutlivesItsPeriod, InTable, RowExists

(* A write moves lessons, between slots that exist, and removes none. *)
LEMMA RefersWrite ==
    ASSUME IInv, IInv', Refers, NEW h \in Handler, WriteLessons(h)
    PROVE  Refers'
<1> DEFINE plan == handler[h].plan
<1>1. CASE Accepted(plan)
  <2>1. /\ lessons' = Replaced(plan)
        /\ UNCHANGED <<period, unavailable, requests>>
    BY <1>1 DEF WriteLessons, setup
  <2>2. plan \in Plan
    BY DEF WriteLessons, IInv, TypeInv, Handlers, Carries
  <2>3. \A l \in DOMAIN plan : l \in Lesson /\ plan[l] \in Place /\ lessons[l] # Gone
    BY <1>1, <2>2 DEF Plan, Accepted, Exists
  <2> HIDE DEF plan
  <2>4. \A l \in Lesson : lessons'[l] = IF l \in DOMAIN plan THEN plan[l] ELSE lessons[l]
    BY <2>1 DEF Replaced
  <2>5. Gone \notin Place
    BY NullAssumption DEF Place, Slot
  <2>6. InTable(lessons') = InTable(lessons)
    BY <2>3, <2>4, <2>5 DEF InTable
  <2>7. SlotsExist'
    BY DEF IInv
  <2> QED
    BY <2>1, <2>6, <2>7 DEF Refers, NothingOutlivesItsPeriod, SlotsExist, RowExists
<1>2. CASE ~Accepted(plan)
  <2>1. UNCHANGED <<lessons, period, unavailable, requests>>
    BY <1>2 DEF WriteLessons, Stops, Continues, setup
  <2> QED
    BY <2>1, RefersUnchanged
<1> QED
  BY <1>1, <1>2

LEMMA RefersMark ==
    ASSUME IInv, Refers, NEW h \in Handler, Mark(h)
    PROVE  Refers'
<1> DEFINE m == handler[h]
<1>1. CASE RowExists(m.request)
  <2>1. /\ requests' = [requests EXCEPT ![m.request].status = m.verdict]
        /\ UNCHANGED <<lessons, period, unavailable>>
    BY <1>1 DEF Mark, setup
  <2> HIDE DEF m
  <2>2. \A q \in SwapRequest : /\ requests'[q].lesson = requests[q].lesson
                               /\ requests'[q].target = requests[q].target
                               /\ requests'[q].slot = requests[q].slot
                               /\ RowExists(q)' => RowExists(q)
    BY <1>1, <2>1 DEF IInv, TypeInv, Tables, RequestRow, RowExists
  <2> QED
    BY <2>1, <2>2 DEF Refers, NothingOutlivesItsPeriod, InTable
<1>2. CASE ~RowExists(m.request)
  <2>1. UNCHANGED <<lessons, period, unavailable, requests>>
    BY <1>2 DEF Mark, Stops, Continues, setup
  <2> QED
    BY <2>1, RefersUnchanged
<1> QED
  BY <1>1, <1>2

LEMMA RefersCreate ==
    ASSUME IInv, Refers, NEW q \in SwapRequest, NEW who, NEW l \in Lesson,
           NEW target \in Lesson \cup {None}, NEW slot \in Slot \cup {None},
           CreateRequest(q, who, l, target, slot)
    PROVE  Refers'
<1> DEFINE row == [status |-> "PENDING", lesson |-> l, target |-> target, slot |-> slot]
<1>1. /\ requests' = [requests EXCEPT ![q] = row]
      /\ UNCHANGED <<lessons, period, unavailable>>
  BY DEF CreateRequest, setup
<1>2. /\ {row.lesson, row.target} \ {None} \subseteq InTable(lessons)
      /\ row.slot # None => period[row.slot[2]] # "none"
  BY DEF CreateRequest, Exists, InTable
<1> HIDE DEF row
<1>3. \A r \in SwapRequest : requests'[r] = IF r = q THEN row ELSE requests[r]
  BY <1>1 DEF IInv, TypeInv, Tables
<1> QED
  BY <1>1, <1>2, <1>3 DEF Refers, NothingOutlivesItsPeriod, InTable, RowExists

(* The cascade reaches every row that refers to a dropped period. *)
LEMMA RefersReplacePeriods ==
    ASSUME IInv, IInv', Refers, NEW new \in [Period -> {"lesson", "break", "none"}],
           ReplacePeriods(new)
    PROVE  Refers'
<1> DEFINE Dropped(s) == new[s[2]] = "none"
           dead == {l \in InTable(lessons) : Dropped(lessons[l].slot)}
           orphans == About(dead)
<1>1. /\ period' = new
      /\ lessons' = [l \in Lesson |-> IF l \in dead THEN Gone ELSE lessons[l]]
      /\ unavailable' = {u \in unavailable : ~Dropped(u[2])}
      /\ requests' = [q \in SwapRequest |->
            IF q \in orphans THEN [requests[q] EXCEPT !.status = "DELETED"]
            ELSE IF requests[q].slot # None /\ Dropped(requests[q].slot)
                 THEN [requests[q] EXCEPT !.slot = None]
            ELSE requests[q]]
  BY DEF ReplacePeriods
<1>2. SlotsExist'
  BY DEF IInv
<1>3. \A l \in InTable(lessons) : l \notin dead => l \in InTable(lessons')
  BY <1>1 DEF InTable
<1>4. ASSUME NEW q \in SwapRequest, RowExists(q)'
      PROVE  /\ {requests'[q].lesson, requests'[q].target} \ {None} \subseteq InTable(lessons')
             /\ requests'[q].slot # None => new[requests'[q].slot[2]] # "none"
  <2>1. requests[q] \in RequestRow
    BY DEF IInv, TypeInv, Tables
  <2>2. q \notin orphans
    BY <1>1, <1>4, <2>1 DEF RowExists, RequestRow
  <2>3. /\ requests'[q].lesson = requests[q].lesson /\ requests'[q].target = requests[q].target
        /\ requests'[q].status = requests[q].status
        /\ requests'[q].slot = None \/ (requests'[q].slot = requests[q].slot /\ ~Dropped(requests[q].slot))
    <3> HIDE DEF orphans, Dropped
    <3> QED
      BY <1>1, <2>1, <2>2 DEF RequestRow
  <2>4. RowExists(q)
    BY <1>4, <2>3 DEF RowExists
  <2>5. /\ {requests[q].lesson, requests[q].target} \ {None} \subseteq InTable(lessons)
        /\ {requests[q].lesson, requests[q].target} \cap dead = {}
    <3> HIDE DEF dead
    <3> QED
      BY <2>2, <2>4 DEF Refers, NothingOutlivesItsPeriod, About
  <2> HIDE DEF dead, orphans
  <2>6. {requests[q].lesson, requests[q].target} \ {None} \subseteq InTable(lessons')
    BY <1>3, <2>5
  <2> QED
    BY <2>3, <2>6
<1>5. \A u \in unavailable' : new[u[2][2]] # "none"
  BY <1>1
<1> HIDE DEF dead, orphans
<1> QED
  BY <1>1, <1>2, <1>4, <1>5 DEF Refers, NothingOutlivesItsPeriod, SlotsExist

LEMMA RefersSetup ==
    ASSUME IInv, IInv', Refers, ChangeSetup
    PROVE  Refers'
<1>1. ASSUME NEW new \in [Period -> {"lesson", "break", "none"}], ReplacePeriods(new)
      PROVE  Refers'
  BY <1>1, RefersReplacePeriods
<1>2. ASSUME NEW t \in Teacher, NEW slots \in SUBSET Slot, ReplaceUnavailability(t, slots)
      PROVE  Refers'
  <2>1. UNCHANGED <<lessons, period, requests>>
    BY <1>2 DEF ReplaceUnavailability, SetupOnly
  <2>2. \A u \in unavailable' : period[u[2][2]] # "none"
    BY <1>2 DEF ReplaceUnavailability, Refers, NothingOutlivesItsPeriod
  <2> QED
    BY <2>1, <2>2 DEF Refers, NothingOutlivesItsPeriod, InTable, RowExists
<1>3. ASSUME \/ \E r \in Room : RemoveRoom(r)
             \/ \E days \in SUBSET Day : UpdateTeachingDays(days)
             \/ ArchiveTimetable
      PROVE  Refers'
  <2>1. UNCHANGED <<lessons, period, unavailable, requests>>
    BY <1>3 DEF RemoveRoom, UpdateTeachingDays, ArchiveTimetable, SetupOnly
  <2> QED
    BY <2>1, RefersUnchanged
<1> QED
  BY <1>1, <1>2, <1>3 DEF ChangeSetup

LEMMA RefersStep == IInv /\ IInv' /\ Refers /\ [Next]_vars => Refers'
<1> SUFFICES ASSUME IInv, IInv', Refers, [Next]_vars PROVE Refers'
  OBVIOUS
<1>1. ASSUME NEW h \in Handler, CheckMove(h) \/ CheckSwap(h) \/ Fail(h) PROVE Refers'
  <2>1. UNCHANGED <<lessons, period, unavailable, requests>>
    BY <1>1 DEF CheckMove, CheckSwap, Fail, Stops, Continues, setup
  <2> QED
    BY <2>1, RefersUnchanged
<1>2. ASSUME NEW h \in Handler, WriteLessons(h) PROVE Refers'
  BY <1>2, RefersWrite
<1>3. ASSUME NEW h \in Editor, BeginEdit(h) PROVE Refers'
  <2>1. UNCHANGED <<lessons, period, unavailable, requests>>
    BY <1>3 DEF BeginEdit, BeginMove, BeginSwap, Loaded, Stops, Continues, setup
  <2> QED
    BY <2>1, RefersUnchanged
<1>4. ASSUME NEW h \in Decider, Decide(h) PROVE Refers'
  <2>1. CASE Mark(h)
    BY <2>1, RefersMark DEF Handler
  <2>2. CASE ~Mark(h)
    <3>1. UNCHANGED <<lessons, period, unavailable, requests>>
      BY <1>4, <2>2 DEF Decide, BeginApprove, BeginReject, BeginCancel, LoadLesson, Loaded, Stops,
                        Continues, setup
    <3> QED
      BY <3>1, RefersUnchanged
  <2> QED
    BY <2>1, <2>2
<1>5. ASSUME NEW q \in SwapRequest, NEW who \in Teacher \cup {Manager}, NEW l \in Lesson,
             NEW target \in Lesson \cup {None}, NEW slot \in Slot \cup {None},
             CreateRequest(q, who, l, target, slot)
      PROVE  Refers'
  BY <1>5, RefersCreate
<1>6. CASE ChangeSetup
  BY <1>6, RefersSetup
<1>7. CASE UNCHANGED vars
  BY <1>7, RefersUnchanged DEF vars, setup
<1> QED
  BY <1>1, <1>2, <1>3, <1>4, <1>5, <1>6, <1>7 DEF Next

(* No lesson, unavailability or swap request outlives a period that the    *)
(* bell schedule drops, whatever edits and decisions are in flight         *)
(* (replacePeriods, its cascades, and the writes that follow it).          *)
THEOREM NothingOutlivesHolds == Spec => []NothingOutlivesItsPeriod
<1>1. Init => Refers
  BY DEF Init, Refers, NothingOutlivesItsPeriod, Teachable, InTable, RowExists, NoRequest
<1>2. IInv /\ IInv' /\ Refers /\ [Next]_vars => Refers'
  BY RefersStep
<1>3. Refers => NothingOutlivesItsPeriod
  BY DEF Refers
<1> QED
  BY <1>1, <1>2, <1>3, Invariance, PTL DEF Spec

(* Without a race the indexes are never needed: what move and swap let     *)
(* through the database accepts (assertPlaceable against the indexes).     *)
THEOREM BackstopUnneededHolds == Spec => []BackstopUnneeded
<1>1. IInv => BackstopUnneeded
  BY DEF IInv, Knows, BackstopUnneeded
<1> QED
  BY <1>1, Invariance, PTL

(* An edit overtaken by nobody never puts a lesson where its teacher is    *)
(* unavailable, into a deleted room or into an archived timetable          *)
(* (assertPlaceable, assertEditable).                                      *)
THEOREM UnracedEditsAreLegalHolds == Spec => UnracedEditsAreLegal
<1> DEFINE Legal(h) ==
        handler[h].pc = "write" /\ lessons' # lessons /\ handler'[h].pc # "write" /\ ~raced' =>
           /\ ~readOnly
           /\ \A l \in DOMAIN handler[h].plan :
                 /\ <<TeacherOf[l], lessons'[l].slot>> \notin unavailable
                 /\ lessons'[l].room \in rooms \cup {NoRoom}
<1>1. ASSUME IInv, [Next]_vars, NEW h \in Handler, handler[h].pc = "write",
             lessons' # lessons, handler'[h].pc # "write", ~raced'
      PROVE  Legal(h)
  <2>1. handler \in [Handler -> InFlight]
    BY <1>1 DEF IInv, TypeInv, Handlers
  <2>2. (\E g \in Handler : WriteLessons(g)) \/ (\E new : ReplacePeriods(new))
    BY <1>1 DEF Next, vars, CheckMove, CheckSwap, Fail, BeginEdit, BeginMove, BeginSwap, Loaded,
                Decide, BeginApprove, BeginReject, BeginCancel, LoadLesson, Mark,
                CreateRequest, ChangeSetup, RemoveRoom, ReplaceUnavailability,
                UpdateTeachingDays, ArchiveTimetable, SetupOnly, Continues, Stops
  <2>3. ASSUME NEW new, ReplacePeriods(new) PROVE FALSE
    <3>1. PICK qs : handler' = OvertakeDecisions(OvertakeEdits(handler), qs)
      BY <2>3 DEF ReplacePeriods
    <3> QED
      BY <1>1, <2>1, <3>1, BothOvertaken DEF Later
  <2>4. PICK g \in Handler : WriteLessons(g)
    BY <2>2, <2>3
  <2>5. /\ Accepted(handler[g].plan) /\ lessons' = Replaced(handler[g].plan)
        /\ raced' = (raced \/ handler[g].stale)
    BY <1>1, <2>4 DEF WriteLessons, Stops, Continues
  <2>6. CASE g = h
    <3>1. ~handler[h].stale /\ Knows(handler[h])
      BY <1>1, <2>5, <2>6 DEF IInv
    <3>2. \A l \in DOMAIN handler[h].plan : l \in Lesson /\ lessons'[l] = handler[h].plan[l]
      BY <1>1, <2>5, <2>6 DEF IInv, TypeInv, Handlers, Carries, Plan, Replaced
    <3> QED
      BY <1>1, <3>1, <3>2 DEF Knows
  <2>7. CASE g # h
    <3>1. PICK qs, m : handler' = [OvertakeDecisions(OvertakeEdits(handler), qs) EXCEPT ![g] = m]
      BY <2>4, <2>5 DEF WriteLessons
    <3> QED
      BY <1>1, <2>1, <2>7, <3>1, BothOvertaken DEF Later
  <2> QED
    BY <2>6, <2>7
<1>2. IInv /\ [Next]_vars => [\A h \in Handler : Legal(h)]_lessons
  BY <1>1
<1> QED
  BY <1>2, Invariance, PTL DEF Spec, UnracedEditsAreLegal


-----------------------------------------------------------------------------
(***************************************************************************)
(* Offers and decisions, for every number of lessons, requests, edits      *)
(* and decisions: legalMoves offers what move and swap accept, and what a  *)
(* swap request's status says is what happened.  The second rests on what  *)
(* a decision nobody overtook still knows of its request (Informed).       *)
(***************************************************************************)

-----------------------------------------------------------------------------
(* What is offered *)

LEMMA OfferedMoves == IInv => OfferedMovesAreLegal
<1> SUFFICES ASSUME IInv, NEW l \in InTable(lessons), NEW s \in Slot, s # lessons[l].slot
             PROVE  s \in FreeSlots(l) <=> CanMove(l, [lessons[l] EXCEPT !.slot = s])
  BY DEF OfferedMovesAreLegal
<1> DEFINE p == [lessons[l] EXCEPT !.slot = s]
<1>1. l \in Lesson /\ lessons[l] \in Place
  BY DEF IInv, TypeInv, Tables, InTable
<1>2. p.slot = s /\ p.room = lessons[l].room
  BY <1>1 DEF Place
<1> HIDE DEF p
<1>3. \A o \in InTable(lessons) \ {l} :
         ~Clashes(l, p, o, lessons[o]) <=>
            /\ lessons[o].slot = s => ClassOf[o] # ClassOf[l] /\ TeacherOf[o] # TeacherOf[l]
            /\ p.room # NoRoom => ~(lessons[o].room = p.room /\ lessons[o].slot = s)
  BY <1>2 DEF Clashes, SameRoom
<1>4. Placeable(lessons, l, p, {l}) <=> SlotFree(l, s, {l}) /\ RoomOk(l, s)
  BY <1>2, <1>3 DEF Placeable, SlotFree, RoomOk
<1>5. CanMove(l, p) <=> s \in FreeSlots(l)
  BY <1>2, <1>4 DEF CanMove, FreeSlots
<1> QED
  BY <1>5 DEF p

(* Two lessons of one table can trade places as far as each other's rooms  *)
(* go: nobody else is in them.                                             *)
LEMMA OfferedSwaps == IInv => OfferedSwapsAreLegal
<1> SUFFICES ASSUME IInv, NEW l \in InTable(lessons), NEW o \in InTable(lessons)
             PROVE  /\ CanSwap(l, lessons[l], o) => o \in SwapTargets(l)
                    /\ HasItsRoom(l) /\ HasItsRoom(o) =>
                          (o \in SwapTargets(l) => CanSwap(l, lessons[l], o))
  BY DEF OfferedSwapsAreLegal
<1> DEFINE a == lessons[l]
           b == lessons[o]
           moved == [lessons EXCEPT ![l] = b]
<1>1. /\ l \in Lesson /\ o \in Lesson /\ a \in Place /\ b \in Place
      /\ a # Gone /\ b # Gone /\ Exists(o)
      /\ lessons \in [Lesson -> Place \cup {Gone}]
  BY DEF IInv, TypeInv, Tables, InTable, Exists
<1>2. \A x, y \in InTable(lessons) : x # y => ~Clashes(x, lessons[x], y, lessons[y])
  BY DEF IInv, NoDoubleBooking, Unique
<1>3. l # o => /\ InTable(moved) = InTable(lessons)
               /\ moved[l] = b
               /\ \A x \in InTable(lessons) \ {l} : moved[x] = lessons[x]
  BY <1>1 DEF InTable
<1> HIDE DEF moved
<1>4. ASSUME l # o, CanSwap(l, a, o) PROVE o \in SwapTargets(l)
  <2>1. SlotFree(l, b.slot, {l, o})
    BY <1>4 DEF CanSwap, Placeable, SlotFree, Clashes
  <2>2. \A x \in InTable(lessons) \ {l, o} : ~Clashes(o, a, x, lessons[x])
    BY <1>3, <1>4 DEF CanSwap, Placeable, moved
  <2>3. SlotFree(o, a.slot, {l, o})
    BY <1>4, <2>2 DEF CanSwap, Placeable, SlotFree, Clashes
  <2> QED
    BY <1>4, <2>1, <2>3 DEF SwapTargets
<1>5. ASSUME HasItsRoom(l), HasItsRoom(o), o \in SwapTargets(l)
      PROVE  CanSwap(l, a, o)
  <2>1. l # o /\ SlotFree(l, b.slot, {l, o}) /\ SlotFree(o, a.slot, {l, o})
    BY <1>5 DEF SwapTargets
  <2>2. \A x \in InTable(lessons) \ {l, o} : ~Clashes(l, b, x, lessons[x])
    BY <1>2, <2>1 DEF SlotFree, Clashes, SameRoom
  <2>3. \A x \in InTable(lessons) \ {l, o} : ~Clashes(o, a, x, lessons[x])
    BY <1>2, <2>1 DEF SlotFree, Clashes, SameRoom
  <2>4. ~Clashes(o, a, l, b)
    BY <1>2, <2>1 DEF Clashes, SameRoom
  <2>5. Placeable(lessons, l, b, {l, o})
    BY <1>5, <2>1, <2>2 DEF Placeable, SlotFree, HasItsRoom
  <2>6. Placeable(moved, o, a, {o})
    BY <1>3, <1>5, <2>1, <2>3, <2>4 DEF Placeable, SlotFree, HasItsRoom
  <2> QED
    BY <1>1, <2>1, <2>5, <2>6 DEF CanSwap, moved
<1> QED
  BY <1>4, <1>5 DEF CanSwap

(* legalMoves and move, two pieces of code, agree on which slots a lesson  *)
(* may go to.                                                              *)
THEOREM OfferedMovesHold == Spec => []OfferedMovesAreLegal
BY OfferedMoves, Invariance, PTL

(* legalMoves and swap agree on which lessons may trade places, unless one *)
(* of their rooms is gone.                                                 *)
THEOREM OfferedSwapsHold == Spec => []OfferedSwapsAreLegal
BY OfferedSwaps, Invariance, PTL

-----------------------------------------------------------------------------
(* Decisions *)

Decides(m, q) == m.pc # "idle" /\ m.request = q
Marks(m, q) == m.pc = "mark" /\ m.request = q /\ m.verdict = "APPROVED"

(* Nobody decides about a request that was not made. *)
MadeFirst ==
    \A q \in SwapRequest : requests[q].status = "NONE" =>
        /\ applied[q] = 0
        /\ \A h \in Handler : ~Decides(handler[h], q)

(* What a decision nobody overtook knows: its request is still pending and *)
(* no other approval has made its edit.                                    *)
Informed(h, q) ==
    Decides(handler[h], q) /\ RowExists(q) /\ ~handler[h].stale =>
        /\ requests[q].status = "PENDING"
        /\ \A g \in Handler \ {h} : ~Marks(handler[g], q)

Told(q) ==
    RowExists(q) =>
        applied[q] = IF requests[q].status = "APPROVED" \/ BeingMarked(q) THEN 1 ELSE 0

DInv ==
    /\ MadeFirst
    /\ \A h \in Handler, q \in SwapRequest : Informed(h, q)
    /\ ~raced /\ ~torn => \A q \in SwapRequest : Told(q)

LEMMA MarkedBySomeone ==
    ASSUME NEW q
    PROVE  BeingMarked(q) <=> \E h \in Handler : Marks(handler[h], q)
BY DEF BeingMarked, Marks

(* Nobody but h moves, and the tables of decisions stay. *)
LEMMA AloneKeeps ==
    ASSUME DInv, NEW h \in Handler, NEW m,
           \A g \in Handler : handler'[g] = IF g = h THEN m ELSE handler[g],
           UNCHANGED <<requests, applied>>,
           ~raced' => ~raced, ~torn' => ~torn,
           \A q \in SwapRequest :
              /\ Decides(m, q) => requests[q].status # "NONE"
              /\ Decides(m, q) /\ RowExists(q) /\ ~m.stale =>
                    /\ requests[q].status = "PENDING"
                    /\ \A g \in Handler \ {h} : ~Marks(handler[g], q)
              /\ ~torn' /\ RowExists(q) => (Marks(m, q) <=> Marks(handler[h], q))
              /\ RowExists(q) /\ Marks(m, q) => Marks(handler[h], q)
    PROVE  DInv'
<1>1. MadeFirst'
  BY DEF DInv, MadeFirst, Decides
<1>2. ASSUME NEW g \in Handler, NEW q \in SwapRequest PROVE Informed(g, q)'
  <2>0. \A k \in Handler : RowExists(q) /\ Marks(handler'[k], q) => Marks(handler[k], q)
    OBVIOUS
  <2> SUFFICES ASSUME Decides(handler'[g], q), RowExists(q), ~handler'[g].stale
               PROVE  /\ requests[q].status = "PENDING"
                      /\ \A k \in Handler \ {g} : ~Marks(handler'[k], q)
    BY DEF Informed, RowExists, Decides, Marks
  <2>1. CASE g = h
    BY <2>0, <2>1
  <2>2. CASE g # h
    BY <2>0, <2>2 DEF DInv, Informed
  <2> QED
    BY <2>1, <2>2
<1>3. ASSUME ~raced', ~torn', NEW q \in SwapRequest PROVE Told(q)'
  <2> SUFFICES ASSUME RowExists(q) PROVE Told(q)'
    BY DEF Told, RowExists
  <2>1. Told(q)
    BY <1>3 DEF DInv
  <2>2. \A k \in Handler : Marks(handler'[k], q) <=> Marks(handler[k], q)
    BY <1>3
  <2>3. BeingMarked(q)' <=> BeingMarked(q)
    BY <2>2 DEF BeingMarked, Marks
  <2> QED
    BY <2>1, <2>3 DEF Told, RowExists
<1> QED
  BY <1>1, <1>2, <1>3 DEF DInv

LEMMA AloneContinues ==
    ASSUME IInv, DInv, NEW h \in Handler, NEW m, Continues(h, m),
           \A q \in SwapRequest :
              /\ Decides(m, q) => requests[q].status # "NONE"
              /\ Decides(m, q) /\ RowExists(q) /\ ~m.stale =>
                    /\ requests[q].status = "PENDING"
                    /\ \A g \in Handler \ {h} : ~Marks(handler[g], q)
              /\ RowExists(q) => (Marks(m, q) <=> Marks(handler[h], q))
    PROVE  DInv'
<1>1. /\ UNCHANGED <<requests, applied, raced, torn>>
      /\ \A g \in Handler : handler'[g] = IF g = h THEN m ELSE handler[g]
  BY DEF Continues, IInv, TypeInv, Handlers
<1> QED
  BY <1>1, AloneKeeps

(* A handler goes on with the same request, or gives up. *)
LEMMA GoesOnKeeps ==
    ASSUME IInv, DInv, NEW h \in Handler, NEW m, Continues(h, m),
           handler[h].pc \notin {"idle", "mark"},
           m.pc # "mark",
           m.pc # "idle" => m.request = handler[h].request /\ m.stale = handler[h].stale
    PROVE  DInv'
<1>1. \A q \in SwapRequest : Decides(m, q) => Decides(handler[h], q) /\ m.stale = handler[h].stale
  BY DEF Decides
<1>2. \A q : ~Marks(m, q) /\ ~Marks(handler[h], q)
  BY DEF Marks
<1>3. \A q \in SwapRequest : Informed(h, q) /\ (Decides(m, q) => requests[q].status # "NONE")
  BY <1>1 DEF DInv, MadeFirst
<1> QED
  BY <1>1, <1>2, <1>3, AloneContinues DEF Informed

LEMMA IdleDecidesNothing == \A q : ~Decides(Idle, q) /\ ~Marks(Idle, q)
BY DEF Decides, Marks, Idle

(* A handler that decided about no request, or about one that is gone. *)
LEMMA GivesUpKeeps ==
    ASSUME IInv, DInv, NEW h \in Handler, Stops(h),
           \A q \in SwapRequest : RowExists(q) => ~Marks(handler[h], q)
    PROVE  DInv'
BY IdleDecidesNothing, AloneContinues DEF Stops

(* An edit by hand decides about no request. *)
LEMMA EditKeeps ==
    ASSUME IInv, DInv, NEW h \in Handler, handler[h].pc = "idle",
           NEW m, m.request = None, m.pc = "check", Continues(h, m)
    PROVE  DInv'
<1>1. \A q \in SwapRequest : ~Decides(m, q) /\ ~Marks(m, q) /\ ~Marks(handler[h], q)
  BY NullAssumption DEF Decides, Marks
<1> QED
  BY <1>1, AloneContinues

LEMMA BeginKeeps ==
    ASSUME IInv, DInv, NEW h \in Handler, handler[h].pc = "idle",
           NEW p \in SwapRequest, requests[p].status = "PENDING",
           NEW m, m.request = p, m.stale = BeingMarked(p), m.verdict # "APPROVED", Continues(h, m)
    PROVE  DInv'
<1>1. \A q \in SwapRequest : /\ Decides(m, q) => q = p
                             /\ ~Marks(m, q) /\ ~Marks(handler[h], q)
  BY DEF Decides, Marks
<1>2. ~m.stale => \A g \in Handler : ~Marks(handler[g], p)
  BY MarkedBySomeone
<1> QED
  BY <1>1, <1>2, AloneContinues

(* The timetable's or the setup's changes, and new requests: nobody's      *)
(* decision moves, though it may be overtaken; a request may be made, or   *)
(* deleted with its lesson.                                                *)
LEMMA OthersKeep ==
    ASSUME DInv, UNCHANGED <<applied, raced, torn>>,
           \A h \in Handler : Later(handler'[h], handler[h]),
           \A q \in SwapRequest :
              \/ requests'[q].status \in {requests[q].status, "DELETED"}
              \/ requests[q].status = "NONE" /\ requests'[q].status = "PENDING"
    PROVE  DInv'
<1>1. \A h \in Handler, q \in SwapRequest :
         /\ Decides(handler'[h], q) <=> Decides(handler[h], q)
         /\ Marks(handler'[h], q) <=> Marks(handler[h], q)
         /\ handler[h].stale => handler'[h].stale
  BY DEF Later, Decides, Marks
<1>2. MadeFirst'
  BY <1>1 DEF DInv, MadeFirst, Decides
<1>3. ASSUME NEW q \in SwapRequest, RowExists(q)', requests[q].status = "NONE"
      PROVE  /\ \A h \in Handler : ~Decides(handler'[h], q) /\ ~Marks(handler'[h], q)
             /\ requests'[q].status = "PENDING" /\ applied[q] = 0
  BY <1>1, <1>3 DEF DInv, MadeFirst, RowExists, Decides, Marks
<1>4. ASSUME NEW q \in SwapRequest, RowExists(q)', requests[q].status # "NONE"
      PROVE  RowExists(q) /\ requests'[q].status = requests[q].status
  BY <1>4 DEF RowExists
<1>5. ASSUME NEW h \in Handler, NEW q \in SwapRequest PROVE Informed(h, q)'
  <2> SUFFICES ASSUME Decides(handler'[h], q), RowExists(q)', ~handler'[h].stale
               PROVE  /\ requests'[q].status = "PENDING"
                      /\ \A g \in Handler \ {h} : ~Marks(handler'[g], q)
    BY DEF Informed, Decides, Marks, RowExists
  <2>1. requests[q].status # "NONE"
    BY <1>3
  <2> QED
    BY <1>1, <1>4, <2>1 DEF DInv, Informed
<1>6. ASSUME ~raced', ~torn', NEW q \in SwapRequest, RowExists(q)' PROVE Told(q)'
  <2>1. CASE requests[q].status = "NONE"
    <3>1. ~BeingMarked(q)'
      BY <1>3, <1>6, <2>1 DEF BeingMarked, Marks
    <3> QED
      BY <1>3, <1>6, <2>1, <3>1 DEF Told
  <2>2. CASE requests[q].status # "NONE"
    <3>1. Told(q)
      BY <1>6 DEF DInv
    <3>2. BeingMarked(q)' <=> BeingMarked(q)
      BY <1>1 DEF BeingMarked, Marks
    <3> QED
      BY <1>4, <1>6, <2>2, <3>1, <3>2 DEF Told
  <2> QED
    BY <2>1, <2>2
<1> QED
  BY <1>2, <1>5, <1>6 DEF DInv, Told

-----------------------------------------------------------------------------
(* The steps *)

LEMMA DecidersOvertaken ==
    ASSUME NEW hs \in [Handler -> InFlight], NEW qs, NEW h \in Handler, NEW q \in qs,
           Decides(hs[h], q)
    PROVE  OvertakeDecisions(hs, qs)[h].stale
<1> DEFINE s == hs[h].stale \/ (hs[h].pc # "idle" /\ hs[h].request \in qs)
<1>1. OvertakeDecisions(hs, qs)[h] = [hs[h] EXCEPT !.stale = s]
  BY DEF OvertakeDecisions
<1>2. s = TRUE
  BY DEF Decides
<1>3. hs[h] \in InFlight
  OBVIOUS
<1> HIDE DEF s
<1> QED
  BY <1>1, <1>2, <1>3 DEF InFlight

LEMMA BeginEditKeeps ==
    ASSUME IInv, DInv, NEW h \in Editor, BeginEdit(h)
    PROVE  DInv'
<1>1. h \in Handler
  BY DEF Handler
<1>2. ASSUME NEW l \in Lesson, NEW s \in Slot, NEW room \in Room \cup {NoRoom, Keep},
             BeginMove(h, l, s, room)
      PROVE  DInv'
  <2> DEFINE m == [[Idle EXCEPT !.lesson = l, !.slot = s, !.room = room]
                      EXCEPT !.pc = "check", !.at = lessons[l]]
  <2>1. Continues(h, m) /\ handler[h].pc = "idle"
    BY <1>2 DEF BeginMove, Loaded, Idle
  <2>2. m.request = None /\ m.pc = "check"
    BY DEF Idle
  <2> HIDE DEF m
  <2> QED
    BY <1>1, <2>1, <2>2, EditKeeps
<1>3. ASSUME NEW l \in Lesson, NEW target \in Lesson, BeginSwap(h, l, target)
      PROVE  DInv'
  <2> DEFINE m == [[Idle EXCEPT !.lesson = l, !.target = target]
                      EXCEPT !.pc = "check", !.at = lessons[l]]
  <2>1. Continues(h, m) /\ handler[h].pc = "idle"
    BY <1>3 DEF BeginSwap, Loaded, Idle
  <2>2. m.request = None /\ m.pc = "check"
    BY DEF Idle
  <2> HIDE DEF m
  <2> QED
    BY <1>1, <2>1, <2>2, EditKeeps
<1> QED
  BY <1>2, <1>3 DEF BeginEdit

LEMMA StopEarlyKeeps ==
    ASSUME IInv, DInv, NEW h \in Handler, handler[h].pc # "mark", Stops(h)
    PROVE  DInv'
BY GivesUpKeeps DEF Marks

LEMMA CheckKeeps ==
    ASSUME IInv, DInv, NEW h \in Handler, LoadLesson(h) \/ CheckMove(h) \/ CheckSwap(h)
    PROVE  DInv'
<1>1. handler[h] \in InFlight
  BY DEF IInv, TypeInv, Handlers
<1>2. CASE Stops(h)
  <2>1. handler[h].pc # "mark"
    BY DEF LoadLesson, CheckMove, CheckSwap
  <2> QED
    BY <1>2, <2>1, StopEarlyKeeps
<1>3. CASE LoadLesson(h) /\ ~Stops(h)
  <2> DEFINE m == [handler[h] EXCEPT !.pc = "check", !.at = lessons[handler[h].lesson]]
  <2>1. Continues(h, m) /\ handler[h].pc = "load"
    BY <1>3 DEF LoadLesson, Loaded
  <2>2. m.pc = "check" /\ m.request = handler[h].request /\ m.stale = handler[h].stale
    BY <1>1 DEF InFlight
  <2> HIDE DEF m
  <2> QED
    BY <2>1, <2>2, GoesOnKeeps
<1>4. CASE (CheckMove(h) \/ CheckSwap(h)) /\ ~Stops(h)
  <2>1. PICK plan : Continues(h, [handler[h] EXCEPT !.pc = "write", !.plan = plan])
    BY <1>4 DEF CheckMove, CheckSwap
  <2> DEFINE m == [handler[h] EXCEPT !.pc = "write", !.plan = plan]
  <2>2. m.pc = "write" /\ m.request = handler[h].request /\ m.stale = handler[h].stale
    BY <1>1 DEF InFlight
  <2>3. handler[h].pc = "check"
    BY <1>4 DEF CheckMove, CheckSwap
  <2> HIDE DEF m
  <2> QED
    BY <2>1, <2>2, <2>3, GoesOnKeeps DEF m
<1> QED
  BY <1>2, <1>3, <1>4

LEMMA BeginDecisionKeeps ==
    ASSUME IInv, DInv, NEW h \in Handler, NEW q \in SwapRequest,
           BeginApprove(h, q) \/ BeginReject(h, q) \/ \E who : BeginCancel(h, q, who)
    PROVE  DInv'
<1>1. PICK m : /\ Continues(h, m)
               /\ m.request = q /\ m.stale = BeingMarked(q) /\ m.verdict # "APPROVED"
  <2>1. CASE BeginApprove(h, q)
    <3> DEFINE row == requests[q]
               m == [Idle EXCEPT !.pc = "load", !.request = q, !.lesson = row.lesson,
                                 !.target = row.target, !.slot = row.slot,
                                 !.stale = BeingMarked(q)]
    <3>1. Continues(h, m)
      BY <2>1 DEF BeginApprove
    <3>2. m.request = q /\ m.stale = BeingMarked(q) /\ m.verdict # "APPROVED"
      BY DEF Idle
    <3> HIDE DEF m
    <3> QED
      BY <3>1, <3>2
  <2>2. ASSUME NEW verdict \in {"REJECTED", "CANCELLED"},
               Continues(h, [Idle EXCEPT !.pc = "mark", !.request = q, !.verdict = verdict,
                                         !.stale = BeingMarked(q)])
        PROVE  \E m : /\ Continues(h, m)
                      /\ m.request = q /\ m.stale = BeingMarked(q) /\ m.verdict # "APPROVED"
    <3> DEFINE m == [Idle EXCEPT !.pc = "mark", !.request = q, !.verdict = verdict,
                                 !.stale = BeingMarked(q)]
    <3>1. m.request = q /\ m.stale = BeingMarked(q) /\ m.verdict # "APPROVED"
      BY DEF Idle
    <3> HIDE DEF m
    <3> QED
      BY <2>2, <3>1 DEF m
  <2> QED
    BY <2>1, <2>2 DEF BeginReject, BeginCancel
<1>2. handler[h].pc = "idle" /\ requests[q].status = "PENDING"
  BY DEF BeginApprove, BeginReject, BeginCancel, Decidable
<1> QED
  BY <1>1, <1>2, BeginKeeps

(* An approval that dies before its mark tears edit and status apart. *)
LEMMA FailKeeps ==
    ASSUME IInv, DInv, NEW h \in Handler, Fail(h)
    PROVE  DInv'
<1>1. /\ UNCHANGED <<requests, applied, raced>>
      /\ \A g \in Handler : handler'[g] = IF g = h THEN Idle ELSE handler[g]
      /\ torn' = (torn \/ (handler[h].pc = "mark" /\ handler[h].verdict = "APPROVED"))
  BY DEF Fail, IInv, TypeInv, Handlers
<1>2. \A q : ~torn' => ~Marks(handler[h], q)
  BY <1>1 DEF Marks
<1> QED
  BY <1>1, <1>2, IdleDecidesNothing, AloneKeeps

LEMMA SetupKeeps ==
    ASSUME IInv, DInv, ChangeSetup
    PROVE  DInv'
<1>1. handler \in [Handler -> InFlight] /\ requests \in [SwapRequest -> RequestRow]
  BY DEF IInv, TypeInv, Handlers, Tables
<1>2. CASE SetupOnly
  <2>1. UNCHANGED <<requests, applied, raced, torn>> /\ handler' = OvertakeEdits(handler)
    BY <1>2 DEF SetupOnly, SetupChanges
  <2> QED
    BY <1>1, <2>1, EditsOvertaken, OthersKeep
<1>3. ASSUME NEW new, ReplacePeriods(new) PROVE DInv'
  <2>1. UNCHANGED <<applied, raced, torn>>
    BY <1>3 DEF ReplacePeriods
  <2>2. \A q \in SwapRequest : requests'[q].status \in {requests[q].status, "DELETED"}
    BY <1>1, <1>3 DEF ReplacePeriods, RequestRow
  <2>3. PICK qs : handler' = OvertakeDecisions(OvertakeEdits(handler), qs)
    BY <1>3 DEF ReplacePeriods
  <2>4. \A g \in Handler : Later(handler'[g], handler[g])
    BY <1>1, <2>3, BothOvertaken
  <2> QED
    BY <2>1, <2>2, <2>4, OthersKeep
<1> QED
  BY <1>2, <1>3 DEF ChangeSetup, RemoveRoom, ReplaceUnavailability, UpdateTeachingDays,
     ArchiveTimetable

LEMMA LaterOfSame ==
    ASSUME NEW m \in InFlight
    PROVE  Later(m, m)
BY DEF Later

LEMMA CreateKeeps ==
    ASSUME IInv, DInv, NEW q \in SwapRequest, NEW who, NEW l, NEW target, NEW slot,
           CreateRequest(q, who, l, target, slot)
    PROVE  DInv'
<1>1. /\ UNCHANGED <<applied, raced, torn, handler>> /\ requests[q].status = "NONE"
      /\ \A p \in SwapRequest : IF p = q THEN requests'[p].status = "PENDING"
                                         ELSE requests'[p] = requests[p]
  BY DEF CreateRequest, IInv, TypeInv, Tables
<1>2. \A h \in Handler : Later(handler'[h], handler[h])
  BY <1>1, LaterOfSame DEF IInv, TypeInv, Handlers
<1> QED
  BY <1>1, <1>2, OthersKeep

(* The edit of an approval nobody overtook is the first for its request:   *)
(* from now on the others that decide about it are overtaken.              *)
LEMMA WriteKeeps ==
    ASSUME IInv, DInv, NEW h \in Handler, WriteLessons(h)
    PROVE  DInv'
<1> DEFINE m == handler[h]
           p == m.request
           marking == [Idle EXCEPT !.pc = "mark", !.request = p,
                                   !.verdict = "APPROVED", !.stale = m.stale]
           hs == OvertakeDecisions(OvertakeEdits(handler), {p} \ {None})
<1>1. /\ handler \in [Handler -> InFlight] /\ m.pc = "write"
      /\ requests \in [SwapRequest -> RequestRow] /\ applied \in [SwapRequest -> 0 .. 2]
  BY DEF WriteLessons, IInv, TypeInv, Handlers, Tables, History
<1>2. CASE Stops(h)
  BY <1>1, <1>2, StopEarlyKeeps
<1>3. CASE ~Stops(h) /\ p = None
  <2>1. /\ UNCHANGED <<requests, applied, torn>> /\ raced' = (raced \/ m.stale)
        /\ handler' = [hs EXCEPT ![h] = Idle]
    BY <1>3 DEF WriteLessons
  <2> HIDE DEF hs
  <2>2. hs \in [Handler -> InFlight] /\ \A g \in Handler : Later(hs[g], handler[g])
    BY <1>1, BothOvertaken DEF hs
  <2>3. \A q \in SwapRequest : ~Decides(m, q) /\ ~Marks(m, q)
    BY <1>3, NullAssumption DEF Decides, Marks
  <2>4. \A g \in Handler, q \in SwapRequest :
           /\ Decides(handler'[g], q) <=> Decides(handler[g], q)
           /\ Marks(handler'[g], q) <=> Marks(handler[g], q)
           /\ Decides(handler[g], q) /\ handler[g].stale => handler'[g].stale
    <3> SUFFICES ASSUME NEW g \in Handler, NEW q \in SwapRequest
                 PROVE  /\ Decides(handler'[g], q) <=> Decides(handler[g], q)
                        /\ Marks(handler'[g], q) <=> Marks(handler[g], q)
                        /\ Decides(handler[g], q) /\ handler[g].stale => handler'[g].stale
      OBVIOUS
    <3>1. CASE g = h
      <4>1. handler'[g] = Idle
        BY <2>1, <2>2, <3>1
      <4> QED
        BY <2>3, <3>1, <4>1, IdleDecidesNothing
    <3>2. CASE g # h
      <4>1. handler'[g] = hs[g]
        BY <2>1, <2>2, <3>2
      <4> QED
        BY <2>2, <4>1 DEF Later, Decides, Marks
    <3> QED
      BY <3>1, <3>2
  <2>5. MadeFirst'
    BY <2>1, <2>4 DEF DInv, MadeFirst, Decides
  <2>6. ASSUME NEW g \in Handler, NEW q \in SwapRequest PROVE Informed(g, q)'
    BY <2>1, <2>4 DEF DInv, Informed, Decides, Marks, RowExists
  <2>7. ASSUME ~raced', ~torn', NEW q \in SwapRequest PROVE Told(q)'
    <3>1. Told(q)
      BY <2>1, <2>7 DEF DInv
    <3>2. BeingMarked(q)' <=> BeingMarked(q)
      BY <2>4 DEF BeingMarked, Marks
    <3> QED
      BY <2>1, <3>1, <3>2 DEF Told, RowExists
  <2> QED
    BY <2>5, <2>6, <2>7 DEF DInv
<1>4. CASE ~Stops(h) /\ p # None
  <2>1. /\ UNCHANGED <<requests, torn>> /\ raced' = (raced \/ m.stale)
        /\ handler' = [hs EXCEPT ![h] = marking]
        /\ applied' = [applied EXCEPT ![p] = IF @ = 0 THEN 1 ELSE 2]
    BY <1>4 DEF WriteLessons
  <2>2. p \in SwapRequest /\ m.stale \in BOOLEAN
    BY <1>1, <1>4 DEF InFlight
  <2>3. marking.pc = "mark" /\ marking.request = p /\ marking.stale = m.stale
        /\ marking.verdict = "APPROVED"
    BY DEF Idle
  <2>4. /\ OvertakeEdits(handler) \in [Handler -> InFlight]
        /\ hs \in [Handler -> InFlight]
        /\ \A g \in Handler : Later(OvertakeEdits(handler)[g], handler[g]) /\ Later(hs[g], handler[g])
    BY <1>1, EditsOvertaken, BothOvertaken
  <2>5. ASSUME NEW g \in Handler, Decides(handler[g], p)
        PROVE  hs[g].stale
    <3>1. Decides(OvertakeEdits(handler)[g], p)
      BY <2>4, <2>5 DEF Later, Decides
    <3>2. p \in {p} \ {None}
      BY <1>4
    <3> QED
      BY <2>4, <3>1, <3>2, DecidersOvertaken
  <2> HIDE DEF hs, marking
  <2>6. handler'[h] = marking /\ \A g \in Handler \ {h} : handler'[g] = hs[g]
    BY <2>1, <2>4
  <2>7. \A g \in Handler \ {h}, q \in SwapRequest :
           /\ Decides(handler'[g], q) <=> Decides(handler[g], q)
           /\ Marks(handler'[g], q) <=> Marks(handler[g], q)
           /\ handler[g].stale => handler'[g].stale
           /\ Decides(handler'[g], p) => handler'[g].stale
    BY <2>4, <2>5, <2>6 DEF Later, Decides, Marks
  <2>8. \A q \in SwapRequest : /\ Decides(m, q) <=> q = p
                               /\ Decides(marking, q) <=> q = p
                               /\ Marks(marking, q) <=> q = p
                               /\ ~Marks(m, q)
    BY <1>1, <2>3 DEF Decides, Marks
  <2>9. requests[p].status # "NONE"
    BY <2>2, <2>8 DEF DInv, MadeFirst
  <2>10. \A q \in SwapRequest : q # p => applied'[q] = applied[q]
    BY <1>1, <2>1
  <2>11. MadeFirst'
    <3> SUFFICES ASSUME NEW q \in SwapRequest, requests[q].status = "NONE"
                 PROVE  /\ applied'[q] = 0
                        /\ \A g \in Handler : ~Decides(handler'[g], q)
      BY <2>1 DEF MadeFirst, Decides
    <3>1. q # p /\ applied[q] = 0 /\ \A g \in Handler : ~Decides(handler[g], q)
      BY <2>9 DEF DInv, MadeFirst
    <3> QED
      BY <2>6, <2>7, <2>8, <2>10, <3>1
  <2>12. ASSUME NEW g \in Handler, NEW q \in SwapRequest PROVE Informed(g, q)'
    <3> SUFFICES ASSUME Decides(handler'[g], q), RowExists(q), ~handler'[g].stale
                 PROVE  /\ requests[q].status = "PENDING"
                        /\ \A k \in Handler \ {g} : ~Marks(handler'[k], q)
      BY <2>1 DEF Informed, Decides, Marks, RowExists
    <3>1. CASE g = h
      <4>1. q = p /\ ~m.stale
        BY <2>3, <2>6, <2>8, <3>1
      <4>2. Informed(h, p)
        BY <2>2 DEF DInv
      <4>3. requests[p].status = "PENDING" /\ \A k \in Handler \ {h} : ~Marks(handler[k], p)
        BY <2>2, <2>8, <4>1, <4>2 DEF Informed
      <4> QED
        BY <2>7, <3>1, <4>1, <4>3
    <3>2. CASE g # h
      <4>1. Decides(handler[g], q) /\ ~handler[g].stale /\ q # p
        BY <2>7, <3>2
      <4>2. requests[q].status = "PENDING" /\ \A k \in Handler \ {g} : ~Marks(handler[k], q)
        BY <4>1 DEF DInv, Informed
      <4>3. ~Marks(handler'[h], q)
        BY <2>6, <2>8, <4>1
      <4> QED
        BY <2>7, <4>2, <4>3
    <3> QED
      BY <3>1, <3>2
  <2>13. ASSUME ~raced', ~torn', NEW q \in SwapRequest PROVE Told(q)'
    <3> SUFFICES ASSUME RowExists(q)
                 PROVE  Told(q)'
      BY <2>1 DEF Told, RowExists
    <3>1. Told(q)
      BY <2>1, <2>13 DEF DInv
    <3>2. CASE q = p
      <4>1. ~m.stale
        BY <2>1, <2>13
      <4>2. Informed(h, p)
        BY <2>2 DEF DInv
      <4>3. requests[p].status = "PENDING" /\ \A k \in Handler \ {h} : ~Marks(handler[k], p)
        BY <2>2, <2>8, <3>2, <4>1, <4>2 DEF Informed
      <4>4. ~BeingMarked(p)
        BY <2>2, <2>8, <4>3, MarkedBySomeone
      <4>5. applied[p] = 0
        BY <3>1, <3>2, <4>3, <4>4 DEF Told
      <4>6. applied'[p] = 1
        BY <1>1, <2>1, <2>2, <4>5
      <4>7. handler'[h].pc = "mark" /\ handler'[h].request = q /\ handler'[h].verdict = "APPROVED"
        BY <2>3, <2>6, <3>2
      <4>8. BeingMarked(q)'
        BY <4>7 DEF BeingMarked
      <4>9. applied'[q] = 1
        BY <3>2, <4>6
      <4> QED
        BY <4>8, <4>9 DEF Told
    <3>3. CASE q # p
      <4>1. \A k \in Handler : Marks(handler'[k], q) <=> Marks(handler[k], q)
        BY <2>6, <2>7, <2>8, <3>3
      <4>2. BeingMarked(q)' <=> BeingMarked(q)
        BY <4>1 DEF BeingMarked, Marks
      <4> QED
        BY <2>1, <2>10, <3>1, <3>3, <4>2 DEF Told, RowExists
    <3> QED
      BY <3>2, <3>3
  <2> QED
    BY <2>11, <2>12, <2>13 DEF DInv
<1> QED
  BY <1>2, <1>3, <1>4

(* A mark of a decision nobody overtook finds the request pending, and its *)
(* edit made just for an approval.                                         *)
LEMMA MarkKeeps ==
    ASSUME IInv, DInv, NEW h \in Handler, Mark(h)
    PROVE  DInv'
<1>1. /\ handler \in [Handler -> InFlight] /\ requests \in [SwapRequest -> RequestRow]
      /\ Carries(handler[h]) /\ handler[h].pc = "mark"
  BY DEF Mark, IInv, TypeInv, Handlers, Tables
<1>2. PICK p \in SwapRequest : p = handler[h].request
  BY <1>1 DEF Carries
<1>3. PICK verdict \in Verdict \ {"NONE"} : verdict = handler[h].verdict
  BY <1>1 DEF Carries, InFlight
<1>4. CASE ~RowExists(p)
  <2>1. Stops(h)
    BY <1>2, <1>4 DEF Mark
  <2>2. \A q \in SwapRequest : RowExists(q) => ~Marks(handler[h], q)
    BY <1>2, <1>4 DEF Marks
  <2> QED
    BY <2>1, <2>2, GivesUpKeeps
<1>5. CASE RowExists(p)
  <2> DEFINE hs == OvertakeDecisions(handler, {p})
  <2>1. /\ UNCHANGED <<applied, torn>> /\ raced' = (raced \/ handler[h].stale)
        /\ handler' = [hs EXCEPT ![h] = Idle]
        /\ requests' = [requests EXCEPT ![p].status = verdict]
    BY <1>2, <1>3, <1>5 DEF Mark
  <2>2. /\ hs \in [Handler -> InFlight]
        /\ \A g \in Handler : /\ Later(hs[g], handler[g])
                              /\ Decides(handler[g], p) => hs[g].stale
    BY <1>1, DecisionsOvertaken, DecidersOvertaken
  <2> HIDE DEF hs
  <2>3. handler'[h] = Idle /\ \A g \in Handler \ {h} : handler'[g] = hs[g]
    BY <2>1, <2>2
  <2>4. \A g \in Handler \ {h}, q \in SwapRequest :
           /\ Decides(handler'[g], q) <=> Decides(handler[g], q)
           /\ Marks(handler'[g], q) <=> Marks(handler[g], q)
           /\ handler[g].stale => handler'[g].stale
           /\ Decides(handler'[g], p) => handler'[g].stale
    BY <2>2, <2>3 DEF Later, Decides, Marks
  <2>5. \A q \in SwapRequest : /\ ~Decides(handler'[h], q) /\ ~Marks(handler'[h], q)
                               /\ Decides(handler[h], q) <=> q = p
                               /\ q # p => ~Marks(handler[h], q)
    BY <1>1, <1>2, <2>3, IdleDecidesNothing DEF Decides, Marks
  <2>6. /\ \A q \in SwapRequest : q # p => requests'[q] = requests[q]
        /\ requests'[p].status = verdict
    BY <1>1, <2>1
  <2>7. MadeFirst'
    <3> SUFFICES ASSUME NEW q \in SwapRequest, requests'[q].status = "NONE"
                 PROVE  /\ applied[q] = 0
                        /\ \A g \in Handler : ~Decides(handler'[g], q)
      BY <2>1 DEF MadeFirst, Decides
    <3>1. q # p
      BY <1>3, <2>6
    <3>2. applied[q] = 0 /\ \A g \in Handler : ~Decides(handler[g], q)
      BY <2>6, <3>1 DEF DInv, MadeFirst
    <3> QED
      BY <2>4, <2>5, <3>2
  <2>8. ASSUME NEW g \in Handler, NEW q \in SwapRequest PROVE Informed(g, q)'
    <3> SUFFICES ASSUME Decides(handler'[g], q), RowExists(q)', ~handler'[g].stale
                 PROVE  /\ requests'[q].status = "PENDING"
                        /\ \A k \in Handler \ {g} : ~Marks(handler'[k], q)
      BY DEF Informed, Decides, Marks, RowExists
    <3>1. g # h /\ q # p /\ Decides(handler[g], q) /\ ~handler[g].stale
      BY <2>4, <2>5
    <3>2. RowExists(q)
      BY <2>6, <3>1 DEF RowExists
    <3>3. requests[q].status = "PENDING" /\ \A k \in Handler \ {g} : ~Marks(handler[k], q)
      BY <3>1, <3>2 DEF DInv, Informed
    <3> QED
      BY <2>4, <2>5, <2>6, <3>1, <3>3
  <2>9. ASSUME ~raced', ~torn', NEW q \in SwapRequest, RowExists(q)' PROVE Told(q)'
    <3>1. ~handler[h].stale /\ ~raced /\ ~torn
      BY <2>1, <2>9
    <3>2. CASE q = p
      <4>1. requests[p].status = "PENDING" /\ \A k \in Handler \ {h} : ~Marks(handler[k], p)
        BY <1>5, <2>5, <3>1 DEF DInv, Informed
      <4>2. applied[p] = IF Marks(handler[h], p) THEN 1 ELSE 0
        BY <1>5, <3>1, <4>1, MarkedBySomeone DEF DInv, Told
      <4>3. Marks(handler[h], p) <=> verdict = "APPROVED"
        BY <1>1, <1>2, <1>3 DEF Marks
      <4>4. \A k \in Handler : ~Marks(handler'[k], p)
        BY <2>4, <2>5, <4>1
      <4>5. ~BeingMarked(p)'
        BY <4>4 DEF BeingMarked, Marks
      <4> QED
        BY <2>1, <2>6, <3>2, <4>2, <4>3, <4>5 DEF Told
    <3>3. CASE q # p
      <4>1. \A k \in Handler : Marks(handler'[k], q) <=> Marks(handler[k], q)
        BY <2>4, <2>5, <3>3
      <4>2. BeingMarked(q)' <=> BeingMarked(q)
        BY <4>1 DEF BeingMarked, Marks
      <4>3. Told(q)
        BY <3>1 DEF DInv
      <4> QED
        BY <2>1, <2>6, <3>3, <4>2, <4>3 DEF Told, RowExists
    <3> QED
      BY <3>2, <3>3
  <2> QED
    BY <2>7, <2>8, <2>9 DEF DInv, Told
<1> QED
  BY <1>4, <1>5

LEMMA DInit == Init => DInv
<1> SUFFICES ASSUME Init PROVE DInv
  OBVIOUS
<1>1. \A h \in Handler : handler[h] = Idle
  BY DEF Init
<1>2. \A q \in SwapRequest : requests[q].status = "NONE" /\ applied[q] = 0 /\ ~RowExists(q)
  BY DEF Init, NoRequest, RowExists
<1> QED
  BY <1>1, <1>2, IdleDecidesNothing DEF DInv, MadeFirst, Informed, Told

LEMMA DNext == IInv /\ DInv /\ [Next]_vars => DInv'
<1> SUFFICES ASSUME IInv, DInv, [Next]_vars PROVE DInv'
  OBVIOUS
<1>1. ASSUME NEW h \in Handler, CheckMove(h) \/ CheckSwap(h) \/ WriteLessons(h) \/ Fail(h)
      PROVE  DInv'
  BY <1>1, CheckKeeps, WriteKeeps, FailKeeps
<1>2. ASSUME NEW h \in Editor, BeginEdit(h) PROVE DInv'
  BY <1>2, BeginEditKeeps
<1>3. ASSUME NEW h \in Decider, Decide(h) PROVE DInv'
  <2>1. h \in Handler
    BY DEF Handler
  <2> QED
    BY <1>3, <2>1, BeginDecisionKeeps, CheckKeeps, MarkKeeps DEF Decide
<1>4. ASSUME NEW q \in SwapRequest, NEW who \in Teacher \cup {Manager}, NEW l \in Lesson,
             NEW target \in Lesson \cup {None}, NEW slot \in Slot \cup {None},
             CreateRequest(q, who, l, target, slot)
      PROVE  DInv'
  BY <1>4, CreateKeeps
<1>5. CASE ChangeSetup
  BY <1>5, SetupKeeps
<1>6. CASE UNCHANGED vars
  BY <1>6 DEF vars, DInv, MadeFirst, Informed, Told, RowExists, BeingMarked, Decides, Marks
<1> QED
  BY <1>1, <1>2, <1>3, <1>4, <1>5, <1>6 DEF Next

LEMMA DecisionsInvariance == Spec => [](IInv /\ DInv)
<1>1. Init => IInv /\ DInv
  BY InitInv, DInit
<1>2. IInv /\ DInv /\ [Next]_vars => (IInv /\ DInv)'
  BY InvStep, DNext
<1> QED
  BY <1>1, <1>2, PTL DEF Spec

(* Without a race or an interrupted approval a swap request's edit was     *)
(* committed once if it is approved, or about to be, and never otherwise   *)
(* (SwapRequestsService.approve, reject, cancel).                          *)
THEOREM StatusTellsTheTruthHolds == Spec => []StatusTellsTheTruth
<1>1. DInv => StatusTellsTheTruth
  BY DEF DInv, Told, StatusTellsTheTruth
<1> QED
  BY <1>1, DecisionsInvariance, PTL

(* A decision about a swap request is final unless two of them overlapped  *)
(* (getPending, and the update by id that follows it).                     *)
THEOREM DecisionIsFinalHolds == Spec => DecisionIsFinalUnlessRaced
<1> DEFINE Final ==
        ~raced' =>
          \A q \in SwapRequest :
              requests[q].status \in {"APPROVED", "REJECTED", "CANCELLED"} =>
                  requests'[q].status \in {requests[q].status, "DELETED"}
<1>1. ASSUME IInv, DInv, [Next]_vars PROVE Final
  <2> SUFFICES ASSUME ~raced', NEW q \in SwapRequest,
                      requests[q].status \in {"APPROVED", "REJECTED", "CANCELLED"},
                      requests' # requests
               PROVE  requests'[q].status \in {requests[q].status, "DELETED"}
    OBVIOUS
  <2>1. requests \in [SwapRequest -> RequestRow] /\ handler \in [Handler -> InFlight]
    BY <1>1 DEF IInv, TypeInv, Tables, Handlers
  <2>2. \/ \E h \in Handler : Mark(h)
        \/ \E p \in SwapRequest : \E who, l, target, slot : CreateRequest(p, who, l, target, slot)
        \/ \E new : ReplacePeriods(new)
    BY <1>1 DEF Next, vars, CheckMove, CheckSwap, WriteLessons, Fail, BeginEdit, BeginMove,
                BeginSwap, Loaded, Decide, BeginApprove, BeginReject, BeginCancel, LoadLesson,
                Handler, ChangeSetup, RemoveRoom, ReplaceUnavailability,
                UpdateTeachingDays, ArchiveTimetable, SetupOnly, Continues, Stops
  <2>3. ASSUME NEW h \in Handler, Mark(h)
        PROVE  requests'[q].status \in {requests[q].status, "DELETED"}
    <3>1. /\ ~handler[h].stale /\ handler[h].pc = "mark" /\ RowExists(handler[h].request)
          /\ requests' = [requests EXCEPT ![handler[h].request].status = handler[h].verdict]
      BY <2>3 DEF Mark, Stops, Continues
    <3>2. q # handler[h].request
      BY <1>1, <3>1 DEF DInv, Informed, Decides
    <3> QED
      BY <2>1, <3>1, <3>2
  <2>4. ASSUME NEW p \in SwapRequest, NEW who, NEW l, NEW target, NEW slot,
               CreateRequest(p, who, l, target, slot)
        PROVE  requests'[q].status \in {requests[q].status, "DELETED"}
    BY <2>1, <2>4 DEF CreateRequest
  <2>5. ASSUME NEW new, ReplacePeriods(new)
        PROVE  requests'[q].status \in {requests[q].status, "DELETED"}
    BY <2>1, <2>5 DEF ReplacePeriods, RequestRow
  <2> QED
    BY <2>2, <2>3, <2>4, <2>5
<1> QED
  BY <1>1, DecisionsInvariance, PTL DEF Spec, DecisionIsFinalUnlessRaced
=============================================================================
