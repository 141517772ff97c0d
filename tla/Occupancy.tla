------------------------------ MODULE Occupancy ------------------------------
(***************************************************************************)
(* The scheduling engine's hard constraints: which lesson occupies what,   *)
(* and where a lesson may go (class State and the functions candidates,    *)
(* canPlace and pickRoom of engine/solver.ts).                             *)
(*                                                                         *)
(* The maps of State are functions here; a missing key is None, or 0 in a  *)
(* counter.  A period is its index in problem.periods; Orders gives its    *)
(* place in the day, breaks counted, so that two periods with a break      *)
(* between them are not adjacent.  candidates and canPlace make the same   *)
(* test (candidates' "ignore" is never passed), so both are CanPlace here. *)
(***************************************************************************)
EXTENDS Integers, Sequences, FiniteSets, Functions

CONSTANTS
    Lesson, Class, Teacher,
    ClassOf, TeacherOf,
    Length,       \* periods a lesson takes, 1 or 2
    Needs,        \* the room type a lesson requires, or NoType
    Days,         \* the taught weekdays, a sequence
    Orders,       \* the order of each teachable period, a sequence
    Rooms,        \* the rooms in the order of their codes, a sequence
    RoomType,     \* of each room
    Availabilities,  \* the sets staffUnavailable may be
    MaxPerClass,  \* lessons a class may have in a day, or NoLimit
    MaxPerTeacher,\* of each teacher, or NoLimit
    NoType, NoRoom, NoLimit, None,
    Unfit         \* "undefined": a place the lesson cannot have

VARIABLE staffUnavailable   \* <<teacher, day, period>>: a part of the problem

Day == {Days[i] : i \in DOMAIN Days}
Period == DOMAIN Orders
Room == {Rooms[i] : i \in DOMAIN Rooms}
Slot == Day \X Period
Position == [day : Day, start : Period, room : Room \cup {NoRoom}]

ASSUME LessonAssumption ==
    /\ ClassOf \in [Lesson -> Class] /\ TeacherOf \in [Lesson -> Teacher]
    /\ Length \in [Lesson -> {1, 2}]
ASSUME FinitenessAssumption ==
    IsFiniteSet(Lesson) /\ IsFiniteSet(Class) /\ IsFiniteSet(Teacher)
ASSUME AvailabilityAssumption == Availabilities \subseteq SUBSET (Teacher \X Day \X Period)
ASSUME PeriodAssumption ==
    /\ Orders \in Seq(Nat)
    /\ \A i, j \in Period : i < j => Orders[i] < Orders[j]
ASSUME DayAssumption ==
    /\ Days \in Seq(Nat)
    /\ \A i, j \in DOMAIN Days : i < j => Days[i] < Days[j]
ASSUME RoomAssumption ==
    /\ Rooms \in Seq(Room)
    /\ Unfit \notin Room \cup {NoRoom} /\ NoRoom \notin Room
ASSUME NullAssumption == None \notin Lesson /\ None \notin Position
ASSUME LimitAssumption ==
    /\ MaxPerClass \in Nat \cup {NoLimit}
    /\ MaxPerTeacher \in [Teacher -> Nat \cup {NoLimit}]
    /\ NoLimit \notin Nat

-----------------------------------------------------------------------------
(* The state of the search, and its changes *)

NoneOf(S) == [x \in S |-> [slot \in Slot |-> None]]
ZeroOf(S) == [x \in S |-> [d \in Day |-> 0]]

EmptyOccupancy ==
    [placed |-> [l \in Lesson |-> None],
     classBusy |-> NoneOf(Class), staffBusy |-> NoneOf(Teacher), roomBusy |-> NoneOf(Room),
     classDay |-> ZeroOf(Class), staffDay |-> ZeroOf(Teacher)]

Placed(o) == {l \in Lesson : o.placed[l] # None}

(* periodsFor: the slots a lesson takes at a position *)
Cells(l, at) == {at.day} \X (at.start .. at.start + Length[l] - 1)

(* set or delete a key in one of the busy maps *)
Mark(busy, id, cells, holder) ==
    [busy EXCEPT ![id] = [slot \in Slot |-> IF slot \in cells THEN holder ELSE busy[id][slot]]]

MarkRoom(busy, room, cells, holder) ==
    IF room = NoRoom THEN busy ELSE Mark(busy, room, cells, holder)

Bump(count, id, day, by) ==
    [count EXCEPT ![id][day] = IF @ + by <= 0 THEN 0 ELSE @ + by]

(* Faulty variant: a double counts as one lesson. *)
PlaceCountingOnce(o, l, at) ==
    [placed |-> [o.placed EXCEPT ![l] = at],
     classBusy |-> Mark(o.classBusy, ClassOf[l], Cells(l, at), l),
     staffBusy |-> Mark(o.staffBusy, TeacherOf[l], Cells(l, at), l),
     roomBusy |-> MarkRoom(o.roomBusy, at.room, Cells(l, at), l),
     classDay |-> Bump(o.classDay, ClassOf[l], at.day, 1),
     staffDay |-> Bump(o.staffDay, TeacherOf[l], at.day, 1)]

(* place, and restore, which puts a lesson back where it was *)
Place(o, l, at) ==
    [placed |-> [o.placed EXCEPT ![l] = at],
     classBusy |-> Mark(o.classBusy, ClassOf[l], Cells(l, at), l),
     staffBusy |-> Mark(o.staffBusy, TeacherOf[l], Cells(l, at), l),
     roomBusy |-> MarkRoom(o.roomBusy, at.room, Cells(l, at), l),
     classDay |-> Bump(o.classDay, ClassOf[l], at.day, Length[l]),
     staffDay |-> Bump(o.staffDay, TeacherOf[l], at.day, Length[l])]

(* remove, for a lesson that is placed *)
Unplace(o, l) ==
    LET at == o.placed[l] IN
    [placed |-> [o.placed EXCEPT ![l] = None],
     classBusy |-> Mark(o.classBusy, ClassOf[l], Cells(l, at), None),
     staffBusy |-> Mark(o.staffBusy, TeacherOf[l], Cells(l, at), None),
     roomBusy |-> MarkRoom(o.roomBusy, at.room, Cells(l, at), None),
     classDay |-> Bump(o.classDay, ClassOf[l], at.day, -Length[l]),
     staffDay |-> Bump(o.staffDay, TeacherOf[l], at.day, -Length[l])]

-----------------------------------------------------------------------------
(* Where a lesson may go *)

Contiguous(start, length) ==
    /\ start + length - 1 \in Period
    /\ length = 2 => Orders[start + 1] = Orders[start] + 1

WithinCaps(o, l, day) ==
    /\ MaxPerClass # NoLimit => o.classDay[ClassOf[l]][day] + Length[l] <= MaxPerClass
    /\ MaxPerTeacher[TeacherOf[l]] # NoLimit =>
          o.staffDay[TeacherOf[l]][day] + Length[l] <= MaxPerTeacher[TeacherOf[l]]

Free(o, l, cells) ==
    \A slot \in cells :
        /\ o.classBusy[ClassOf[l]][slot] = None
        /\ o.staffBusy[TeacherOf[l]][slot] = None
        /\ <<TeacherOf[l], slot[1], slot[2]>> \notin staffUnavailable

(* pickRoom: the first free room of the pool; no room at all is fine for a *)
(* lesson that requires none.                                              *)
PickRoom(o, l, cells) ==
    LET InPool(r) == Needs[l] = NoType \/ RoomType[r] = Needs[l]
        free == {i \in DOMAIN Rooms :
                    InPool(Rooms[i]) /\ \A slot \in cells : o.roomBusy[Rooms[i]][slot] = None}
    IN IF \A r \in Room : ~InPool(r)
       THEN IF Needs[l] = NoType THEN NoRoom ELSE Unfit
       ELSE IF free = {} THEN Unfit
       ELSE Rooms[CHOOSE i \in free : \A j \in free : i <= j]

(* The room for l at this slot, or Unfit. *)
CanPlace(o, l, day, start) ==
    LET cells == Cells(l, [day |-> day, start |-> start]) IN
    IF Contiguous(start, Length[l]) /\ WithinCaps(o, l, day) /\ Free(o, l, cells)
    THEN PickRoom(o, l, cells) ELSE Unfit

(* Faulty variant: whether a room was found is not asked. *)
CandidatesInAnyRoom(o, l) ==
    {[day |-> slot[1], start |-> slot[2],
      room |-> PickRoom(o, l, Cells(l, [day |-> slot[1], start |-> slot[2]]))] :
        slot \in {s \in Slot : /\ Contiguous(s[2], Length[l]) /\ WithinCaps(o, l, s[1])
                               /\ Free(o, l, Cells(l, [day |-> s[1], start |-> s[2]]))}}

Candidates(o, l) ==
    {c \in {[day |-> slot[1], start |-> slot[2], room |-> CanPlace(o, l, slot[1], slot[2])] :
                slot \in Slot} : c.room # Unfit}

-----------------------------------------------------------------------------
(* What the constraints are, said of the placements alone *)

At(placed, l) == Cells(l, placed[l])

TaughtOn(placed, S, d) ==
    SumFunctionOnSet(Length, {l \in S : placed[l] # None /\ placed[l].day = d})

NoClash(placed) ==
    \A l, m \in {x \in Lesson : placed[x] # None} :
        l # m /\ At(placed, l) \cap At(placed, m) # {} =>
            /\ ClassOf[l] # ClassOf[m] /\ TeacherOf[l] # TeacherOf[m]
            /\ placed[l].room = placed[m].room => placed[l].room = NoRoom

Suits(l, at) ==
    /\ Length[l] = 2 => /\ at.start + 1 \in Period
                       /\ Orders[at.start + 1] - Orders[at.start] = 1
    /\ \A slot \in Cells(l, at) : <<TeacherOf[l], slot[1], slot[2]>> \notin staffUnavailable
    /\ Needs[l] # NoType => at.room # NoRoom /\ RoomType[at.room] = Needs[l]

WithinLimits(placed) ==
    \A d \in Day :
        /\ MaxPerClass # NoLimit =>
              \A k \in Class :
                  TaughtOn(placed, {l \in Lesson : ClassOf[l] = k}, d) <= MaxPerClass
        /\ \A t \in Teacher : MaxPerTeacher[t] # NoLimit =>
              TaughtOn(placed, {l \in Lesson : TeacherOf[l] = t}, d) <= MaxPerTeacher[t]

HardConstraints(placed) ==
    /\ NoClash(placed)
    /\ WithinLimits(placed)
    /\ \A l \in Lesson : placed[l] # None => Suits(l, placed[l])

(* The busy maps and the counters say what the placements say. *)
IndexesAgree(o) ==
    /\ \A l \in Placed(o) : \A slot \in At(o.placed, l) :
          /\ o.classBusy[ClassOf[l]][slot] = l
          /\ o.staffBusy[TeacherOf[l]][slot] = l
          /\ o.placed[l].room # NoRoom => o.roomBusy[o.placed[l].room][slot] = l
    /\ \A slot \in Slot :
          /\ \A k \in Class : LET l == o.classBusy[k][slot] IN
                l # None => l \in Placed(o) /\ slot \in At(o.placed, l) /\ ClassOf[l] = k
          /\ \A t \in Teacher : LET l == o.staffBusy[t][slot] IN
                l # None => l \in Placed(o) /\ slot \in At(o.placed, l) /\ TeacherOf[l] = t
          /\ \A r \in Room : LET l == o.roomBusy[r][slot] IN
                l # None => l \in Placed(o) /\ slot \in At(o.placed, l) /\ o.placed[l].room = r
    /\ \A d \in Day :
          /\ \A k \in Class :
                o.classDay[k][d] = TaughtOn(o.placed, {l \in Lesson : ClassOf[l] = k}, d)
          /\ \A t \in Teacher :
                o.staffDay[t][d] = TaughtOn(o.placed, {l \in Lesson : TeacherOf[l] = t}, d)
=============================================================================
