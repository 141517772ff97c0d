----------------------------- MODULE SolverProofs -----------------------------
(***************************************************************************)
(* The scheduling engine, for every school.                                *)
(*                                                                         *)
(* The argument: the whole of class State is a function of where the       *)
(* lessons stand (StateOf).  Put leads from the state of a timetable to    *)
(* the state of the timetable with one lesson more, and Take to the one    *)
(* with one lesson less, sums included; so however long the search goes    *)
(* on, the maps, the counters and the running total are those a            *)
(* computation from nothing would give.  The rest is said of timetables    *)
(* alone: what candidates offers keeps the hard constraints, and so does   *)
(* a swap of which both halves were tested with both lessons taken out.    *)
(***************************************************************************)
EXTENDS Solver, FoldLemmas, SequenceTheorems

(* The timetables, and the state each of them determines. *)
Places == [Lesson -> Position \cup {None}]
OfClass(k) == {l \in Lesson : ClassOf[l] = k}
OfTeacher(t) == {l \in Lesson : TeacherOf[l] = t}
On(p) == {l \in Lesson : p[l] # None}
Moved(p, l, at) == [p EXCEPT ![l] = at]

Held(p, S, slot) == {l \in S : p[l] # None /\ slot \in At(p, l)}
InRoom(p, r, slot) == {l \in Lesson : p[l] # None /\ p[l].room = r /\ slot \in At(p, l)}
HolderOf(H) == IF H = {} THEN None ELSE CHOOSE l \in H : TRUE

ClassMap(p) == [k \in Class |-> [slot \in Slot |-> HolderOf(Held(p, OfClass(k), slot))]]
StaffMap(p) == [t \in Teacher |-> [slot \in Slot |-> HolderOf(Held(p, OfTeacher(t), slot))]]
RoomMap(p) == [r \in Room |-> [slot \in Slot |-> HolderOf(InRoom(p, r, slot))]]
ClassDays(p) == [k \in Class |-> [d \in Day |-> TaughtOn(p, OfClass(k), d)]]
StaffDays(p) == [t \in Teacher |-> [d \in Day |-> TaughtOn(p, OfTeacher(t), d)]]

OccOf(p) ==
    [placed |-> p, classBusy |-> ClassMap(p), staffBusy |-> StaffMap(p), roomBusy |-> RoomMap(p),
     classDay |-> ClassDays(p), staffDay |-> StaffDays(p)]

-----------------------------------------------------------------------------
(* The sets of the problem are finite. *)

LEMMA DaysAreFinite ==
  IsFiniteSet(Day) /\ Day \subseteq Nat /\ Scale \in Nat /\ DOMAIN Days = 1 .. Len(Days)
<1>1. Days \in [1 .. Len(Days) -> Nat] /\ Len(Days) \in Nat BY DayAssumption
<1>2. IsFiniteSet(DOMAIN Days) BY <1>1, FS_Interval
<1>3. Days = [i \in DOMAIN Days |-> Days[i]] BY <1>1
<1> QED BY <1>1, <1>2, <1>3, FiniteImage DEF Day, Scale

LEMMA PeriodsAreFinite ==
  IsFiniteSet(Period) /\ Period = 1 .. Len(Orders) /\ Len(Orders) \in Nat
BY PeriodAssumption, FS_Interval DEF Period

(* A product of finite sets is finite. *)
LEMMA FiniteProduct ==
  ASSUME NEW A, NEW B, IsFiniteSet(A), IsFiniteSet(B)
  PROVE  IsFiniteSet(A \X B)
<1> DEFINE F == {S \in SUBSET A : IsFiniteSet(S \X B)}
<1>1. ASSUME NEW S \in SUBSET A, \A T \in SUBSET S : T # S => T \in F PROVE S \in F
  <2>1. CASE S = {}
    <3>1. S \X B = {} BY <2>1
    <3> QED BY <3>1, FS_EmptySet
  <2>2. CASE S # {}
    <3>1. PICK x \in S : TRUE BY <2>2
    <3> DEFINE row == [b \in B |-> <<x, b>>]
           pairs == {row[b] : b \in DOMAIN row}
           others == (S \ {x}) \X B
    <3>2. IsFiniteSet(pairs) BY FiniteImage
    <3>3. S \ {x} \in F BY <1>1, <3>1
    <3>4. IsFiniteSet(others) BY <3>3
    <3>5. S \X B = others \cup pairs BY <3>1
    <3> HIDE DEF others, pairs
    <3>6. IsFiniteSet(others \cup pairs) BY <3>2, <3>4, FS_Union
    <3>7. IsFiniteSet(S \X B) BY <3>5, <3>6, Zenon
    <3> QED BY <3>7
  <2> QED BY <2>1, <2>2
<1> HIDE DEF F
<1>2. A \in F BY <1>1, AllSubsets
<1> QED BY <1>2 DEF F

LEMMA SlotsAreFinite == IsFiniteSet(Slot)
BY DaysAreFinite, PeriodsAreFinite, FiniteProduct DEF Slot

LEMMA CellsAreFinite ==
  ASSUME NEW l \in Lesson, NEW at \in Position
  PROVE  /\ IsFiniteSet(Cells(l, at))
         /\ \A slot \in Cells(l, at) : slot[2] \in Int
<1>1. Length[l] \in Int /\ at.start \in Int
  BY LessonAssumption, PeriodsAreFinite DEF Position
<1>2. at.start + Length[l] - 1 \in Int BY <1>1
<1>3. IsFiniteSet({at.day}) /\ IsFiniteSet(at.start .. at.start + Length[l] - 1)
  BY <1>1, <1>2, FS_Interval, FS_Singleton
<1> QED BY <1>1, <1>3, FiniteProduct DEF Cells

LEMMA PositionFields ==
  ASSUME NEW at \in Position
  PROVE  /\ at # None /\ at.day \in Day /\ at.start \in Period /\ at.room \in Room \cup {NoRoom}
         /\ at = [day |-> at.day, start |-> at.start, room |-> at.room]
BY NullAssumption DEF Position

LEMMA MovedPlaces ==
  ASSUME NEW p \in Places, NEW l \in Lesson, NEW at \in Position \cup {None}
  PROVE  /\ Moved(p, l, at) \in Places
         /\ Moved(p, l, at)[l] = at
         /\ \A m \in Lesson : m # l => Moved(p, l, at)[m] = p[m]
BY DEF Places, Moved

-----------------------------------------------------------------------------
(* The maps, as a lesson is put somewhere and taken away.  In each lemma p  *)
(* is a timetable without l, and q the same with l at a position.           *)

LEMMA HeldWhenPut ==
  ASSUME NEW p \in Places, NEW l \in Lesson, p[l] = None, NEW at \in Position,
         NEW q, q = Moved(p, l, at), NEW S \in SUBSET Lesson, NEW slot,
         \A m \in S : l \in S /\ m # l /\ p[m] # None => slot \notin Cells(l, at) \cap At(p, m)
  PROVE  Held(q, S, slot) =
           IF l \in S /\ slot \in Cells(l, at) THEN {l} ELSE Held(p, S, slot)
<1>1. q[l] = at /\ \A m \in Lesson : m # l => q[m] = p[m] BY MovedPlaces
<1>2. \A m \in Lesson : m # l => At(q, m) = At(p, m) BY <1>1 DEF At
<1>3. At(q, l) = Cells(l, at) BY <1>1 DEF At
<1>4. at # None BY PositionFields
<1> QED BY <1>1, <1>2, <1>3, <1>4 DEF Held

LEMMA InRoomWhenPut ==
  ASSUME NEW p \in Places, NEW l \in Lesson, p[l] = None, NEW at \in Position,
         NEW q, q = Moved(p, l, at), NEW r, NEW slot,
         \A m \in Lesson : m # l /\ p[m] # None /\ p[m].room = r /\ r = at.room
                              => slot \notin Cells(l, at) \cap At(p, m)
  PROVE  InRoom(q, r, slot) =
           IF r = at.room /\ slot \in Cells(l, at) THEN {l} ELSE InRoom(p, r, slot)
<1>1. q[l] = at /\ \A m \in Lesson : m # l => q[m] = p[m] BY MovedPlaces
<1>2. \A m \in Lesson : m # l => At(q, m) = At(p, m) BY <1>1 DEF At
<1>3. At(q, l) = Cells(l, at) BY <1>1 DEF At
<1>4. at # None BY PositionFields
<1> QED BY <1>1, <1>2, <1>3, <1>4 DEF InRoom

LEMMA HolderOfOne == ASSUME NEW l PROVE HolderOf({l}) = l
BY DEF HolderOf

LEMMA HolderOfNone == HolderOf({}) = None
BY DEF HolderOf

(* In a timetable without clashes, what l shares with another lesson. *)
LEMMA Apart ==
  ASSUME NEW p \in Places, NEW l \in Lesson, p[l] = None, NEW at \in Position,
         NEW q, q = Moved(p, l, at), NoClash(q), NEW m \in Lesson, m # l, p[m] # None,
         NEW slot, slot \in Cells(l, at), slot \in At(p, m)
  PROVE  ClassOf[l] # ClassOf[m] /\ TeacherOf[l] # TeacherOf[m]
         /\ (at.room = p[m].room => at.room = NoRoom)
<1>1. q[l] = at /\ q[m] = p[m] BY MovedPlaces
<1>2. slot \in At(q, l) /\ slot \in At(q, m) BY <1>1 DEF At
<1>3. at # None BY PositionFields
<1> QED BY <1>1, <1>2, <1>3 DEF NoClash

(* The occupancy maps know of l and of nobody else in its cells. *)
LEMMA HeldTogether ==
  ASSUME NEW p \in Places, NEW l \in Lesson, p[l] = None, NEW at \in Position,
         NEW q, q = Moved(p, l, at), NoClash(q)
  PROVE  /\ \A k \in Class : \A slot :
              /\ Held(q, OfClass(k), slot) =
                   IF k = ClassOf[l] /\ slot \in Cells(l, at) THEN {l}
                   ELSE Held(p, OfClass(k), slot)
              /\ k = ClassOf[l] /\ slot \in Cells(l, at) => Held(p, OfClass(k), slot) = {}
         /\ \A t \in Teacher : \A slot :
              /\ Held(q, OfTeacher(t), slot) =
                   IF t = TeacherOf[l] /\ slot \in Cells(l, at) THEN {l}
                   ELSE Held(p, OfTeacher(t), slot)
              /\ t = TeacherOf[l] /\ slot \in Cells(l, at) => Held(p, OfTeacher(t), slot) = {}
         /\ \A r \in Room : \A slot :
              /\ InRoom(q, r, slot) =
                   IF r = at.room /\ slot \in Cells(l, at) THEN {l} ELSE InRoom(p, r, slot)
              /\ r = at.room /\ slot \in Cells(l, at) => InRoom(p, r, slot) = {}
<1>1. ASSUME NEW k \in Class, NEW slot
      PROVE  /\ Held(q, OfClass(k), slot) =
                  IF k = ClassOf[l] /\ slot \in Cells(l, at) THEN {l}
                  ELSE Held(p, OfClass(k), slot)
             /\ k = ClassOf[l] /\ slot \in Cells(l, at) => Held(p, OfClass(k), slot) = {}
  <2>1. \A m \in OfClass(k) : l \in OfClass(k) /\ m # l /\ p[m] # None
                                 => slot \notin Cells(l, at) \cap At(p, m)
    BY Apart DEF OfClass
  <2>2. Held(q, OfClass(k), slot) =
           IF l \in OfClass(k) /\ slot \in Cells(l, at) THEN {l} ELSE Held(p, OfClass(k), slot)
    <3>1. OfClass(k) \in SUBSET Lesson BY DEF OfClass
    <3> QED BY <2>1, <3>1, HeldWhenPut
  <2>3. l \in OfClass(k) <=> k = ClassOf[l] BY DEF OfClass
  <2> QED BY <2>1, <2>2, <2>3 DEF Held
<1>2. ASSUME NEW t \in Teacher, NEW slot
      PROVE  /\ Held(q, OfTeacher(t), slot) =
                  IF t = TeacherOf[l] /\ slot \in Cells(l, at) THEN {l}
                  ELSE Held(p, OfTeacher(t), slot)
             /\ t = TeacherOf[l] /\ slot \in Cells(l, at) => Held(p, OfTeacher(t), slot) = {}
  <2>1. \A m \in OfTeacher(t) : l \in OfTeacher(t) /\ m # l /\ p[m] # None
                                   => slot \notin Cells(l, at) \cap At(p, m)
    BY Apart DEF OfTeacher
  <2>2. Held(q, OfTeacher(t), slot) =
           IF l \in OfTeacher(t) /\ slot \in Cells(l, at) THEN {l}
           ELSE Held(p, OfTeacher(t), slot)
    <3>1. OfTeacher(t) \in SUBSET Lesson BY DEF OfTeacher
    <3> QED BY <2>1, <3>1, HeldWhenPut
  <2>3. l \in OfTeacher(t) <=> t = TeacherOf[l] BY DEF OfTeacher
  <2> QED BY <2>1, <2>2, <2>3 DEF Held
<1>3. ASSUME NEW r \in Room, NEW slot
      PROVE  /\ InRoom(q, r, slot) =
                  IF r = at.room /\ slot \in Cells(l, at) THEN {l} ELSE InRoom(p, r, slot)
             /\ r = at.room /\ slot \in Cells(l, at) => InRoom(p, r, slot) = {}
  <2>1. \A m \in Lesson : m # l /\ p[m] # None /\ p[m].room = r /\ r = at.room
                             => slot \notin Cells(l, at) \cap At(p, m)
    BY Apart, RoomAssumption
  <2> QED BY <2>1, InRoomWhenPut DEF InRoom
<1> QED BY <1>1, <1>2, <1>3

(* The same, of the one lesson each cell names. *)
LEMMA HoldersTogether ==
  ASSUME NEW p \in Places, NEW l \in Lesson, p[l] = None, NEW at \in Position,
         NEW q, q = Moved(p, l, at), NoClash(q), NEW slot
  PROVE  /\ \A k \in Class :
              IF k = ClassOf[l] /\ slot \in Cells(l, at)
              THEN /\ HolderOf(Held(q, OfClass(k), slot)) = l
                   /\ HolderOf(Held(p, OfClass(k), slot)) = None
              ELSE HolderOf(Held(q, OfClass(k), slot)) = HolderOf(Held(p, OfClass(k), slot))
         /\ \A t \in Teacher :
              IF t = TeacherOf[l] /\ slot \in Cells(l, at)
              THEN /\ HolderOf(Held(q, OfTeacher(t), slot)) = l
                   /\ HolderOf(Held(p, OfTeacher(t), slot)) = None
              ELSE HolderOf(Held(q, OfTeacher(t), slot)) = HolderOf(Held(p, OfTeacher(t), slot))
         /\ \A r \in Room :
              IF r = at.room /\ slot \in Cells(l, at)
              THEN /\ HolderOf(InRoom(q, r, slot)) = l
                   /\ HolderOf(InRoom(p, r, slot)) = None
              ELSE HolderOf(InRoom(q, r, slot)) = HolderOf(InRoom(p, r, slot))
<1>1. ASSUME NEW A, NEW B, NEW b \in BOOLEAN, A = IF b THEN {l} ELSE B, b => B = {}
      PROVE  IF b THEN HolderOf(A) = l /\ HolderOf(B) = None
                  ELSE HolderOf(A) = HolderOf(B)
  <2>1. CASE b
    <3>1. A = {l} /\ B = {} BY <1>1, <2>1
    <3>2. HolderOf(A) = HolderOf({l}) /\ HolderOf(B) = HolderOf({}) BY <3>1, Zenon
    <3> QED BY <2>1, <3>2, HolderOfOne, HolderOfNone
  <2>2. CASE ~b
    <3>1. A = B BY <1>1, <2>2, Zenon
    <3>2. HolderOf(A) = HolderOf(B) BY <3>1, Zenon
    <3> QED BY <2>2, <3>2
  <2> QED BY <2>1, <2>2
<1>2. ASSUME NEW k \in Class
      PROVE  IF k = ClassOf[l] /\ slot \in Cells(l, at)
             THEN /\ HolderOf(Held(q, OfClass(k), slot)) = l
                  /\ HolderOf(Held(p, OfClass(k), slot)) = None
             ELSE HolderOf(Held(q, OfClass(k), slot)) = HolderOf(Held(p, OfClass(k), slot))
  <2> DEFINE A == Held(q, OfClass(k), slot)
             B == Held(p, OfClass(k), slot)
             b == k = ClassOf[l] /\ slot \in Cells(l, at)
  <2>1. b \in BOOLEAN OBVIOUS
  <2>2. A = (IF b THEN {l} ELSE B) /\ (b => B = {}) BY HeldTogether
  <2> HIDE DEF A, B, b
  <2>3. IF b THEN HolderOf(A) = l /\ HolderOf(B) = None ELSE HolderOf(A) = HolderOf(B)
    BY <1>1, <2>1, <2>2, Zenon
  <2> QED BY <2>3 DEF A, B, b
<1>3. ASSUME NEW t \in Teacher
      PROVE  IF t = TeacherOf[l] /\ slot \in Cells(l, at)
             THEN /\ HolderOf(Held(q, OfTeacher(t), slot)) = l
                  /\ HolderOf(Held(p, OfTeacher(t), slot)) = None
             ELSE HolderOf(Held(q, OfTeacher(t), slot)) = HolderOf(Held(p, OfTeacher(t), slot))
  <2> DEFINE A == Held(q, OfTeacher(t), slot)
             B == Held(p, OfTeacher(t), slot)
             b == t = TeacherOf[l] /\ slot \in Cells(l, at)
  <2>1. b \in BOOLEAN OBVIOUS
  <2>2. A = (IF b THEN {l} ELSE B) /\ (b => B = {}) BY HeldTogether
  <2> HIDE DEF A, B, b
  <2>3. IF b THEN HolderOf(A) = l /\ HolderOf(B) = None ELSE HolderOf(A) = HolderOf(B)
    BY <1>1, <2>1, <2>2, Zenon
  <2> QED BY <2>3 DEF A, B, b
<1>4. ASSUME NEW r \in Room
      PROVE  IF r = at.room /\ slot \in Cells(l, at)
             THEN /\ HolderOf(InRoom(q, r, slot)) = l
                  /\ HolderOf(InRoom(p, r, slot)) = None
             ELSE HolderOf(InRoom(q, r, slot)) = HolderOf(InRoom(p, r, slot))
  <2> DEFINE A == InRoom(q, r, slot)
             B == InRoom(p, r, slot)
             b == r = at.room /\ slot \in Cells(l, at)
  <2>1. b \in BOOLEAN OBVIOUS
  <2>2. A = (IF b THEN {l} ELSE B) /\ (b => B = {}) BY HeldTogether
  <2> HIDE DEF A, B, b
  <2>3. IF b THEN HolderOf(A) = l /\ HolderOf(B) = None ELSE HolderOf(A) = HolderOf(B)
    BY <1>1, <2>1, <2>2, Zenon
  <2> QED BY <2>3 DEF A, B, b
<1> QED BY <1>2, <1>3, <1>4

LEMMA MapsTogether ==
  ASSUME NEW p \in Places, NEW l \in Lesson, p[l] = None, NEW at \in Position,
         NEW q, q = Moved(p, l, at), NoClash(q)
  PROVE  /\ Mark(ClassMap(p), ClassOf[l], Cells(l, at), l) = ClassMap(q)
         /\ Mark(ClassMap(q), ClassOf[l], Cells(l, at), None) = ClassMap(p)
         /\ Mark(StaffMap(p), TeacherOf[l], Cells(l, at), l) = StaffMap(q)
         /\ Mark(StaffMap(q), TeacherOf[l], Cells(l, at), None) = StaffMap(p)
         /\ MarkRoom(RoomMap(p), at.room, Cells(l, at), l) = RoomMap(q)
         /\ MarkRoom(RoomMap(q), at.room, Cells(l, at), None) = RoomMap(p)
<1>1. ClassOf[l] \in Class /\ TeacherOf[l] \in Teacher BY LessonAssumption
<1>2. /\ Mark(ClassMap(p), ClassOf[l], Cells(l, at), l) = ClassMap(q)
      /\ Mark(ClassMap(q), ClassOf[l], Cells(l, at), None) = ClassMap(p)
  <2> DEFINE row(P, k) == [slot \in Slot |-> HolderOf(Held(P, OfClass(k), slot))]
             new(P, k, x) == [slot \in Slot |-> IF slot \in Cells(l, at) THEN x
                                                ELSE row(P, k)[slot]]
  <2>1. \A k \in Class : k # ClassOf[l] => row(p, k) = row(q, k) BY HoldersTogether
  <2>2. new(p, ClassOf[l], l) = row(q, ClassOf[l])
    BY <1>1, HoldersTogether
  <2>3. new(q, ClassOf[l], None) = row(p, ClassOf[l])
    BY <1>1, HoldersTogether
  <2>4. /\ Mark(ClassMap(p), ClassOf[l], Cells(l, at), l)
             = [k \in Class |-> IF k = ClassOf[l] THEN new(p, k, l) ELSE row(p, k)]
        /\ Mark(ClassMap(q), ClassOf[l], Cells(l, at), None)
             = [k \in Class |-> IF k = ClassOf[l] THEN new(q, k, None) ELSE row(q, k)]
    BY <1>1 DEF Mark, ClassMap
  <2>5. ClassMap(p) = [k \in Class |-> row(p, k)] /\ ClassMap(q) = [k \in Class |-> row(q, k)]
    BY DEF ClassMap
  <2> HIDE DEF row, new
  <2> QED BY <2>1, <2>2, <2>3, <2>4, <2>5
<1>3. /\ Mark(StaffMap(p), TeacherOf[l], Cells(l, at), l) = StaffMap(q)
      /\ Mark(StaffMap(q), TeacherOf[l], Cells(l, at), None) = StaffMap(p)
  <2> DEFINE row(P, k) == [slot \in Slot |-> HolderOf(Held(P, OfTeacher(k), slot))]
             new(P, k, x) == [slot \in Slot |-> IF slot \in Cells(l, at) THEN x
                                                ELSE row(P, k)[slot]]
  <2>1. \A k \in Teacher : k # TeacherOf[l] => row(p, k) = row(q, k) BY HoldersTogether
  <2>2. new(p, TeacherOf[l], l) = row(q, TeacherOf[l])
    BY <1>1, HoldersTogether
  <2>3. new(q, TeacherOf[l], None) = row(p, TeacherOf[l])
    BY <1>1, HoldersTogether
  <2>4. /\ Mark(StaffMap(p), TeacherOf[l], Cells(l, at), l)
             = [k \in Teacher |-> IF k = TeacherOf[l] THEN new(p, k, l) ELSE row(p, k)]
        /\ Mark(StaffMap(q), TeacherOf[l], Cells(l, at), None)
             = [k \in Teacher |-> IF k = TeacherOf[l] THEN new(q, k, None) ELSE row(q, k)]
    BY <1>1 DEF Mark, StaffMap
  <2>5. StaffMap(p) = [k \in Teacher |-> row(p, k)] /\ StaffMap(q) = [k \in Teacher |-> row(q, k)]
    BY DEF StaffMap
  <2> HIDE DEF row, new
  <2> QED BY <2>1, <2>2, <2>3, <2>4, <2>5
<1>4. /\ MarkRoom(RoomMap(p), at.room, Cells(l, at), l) = RoomMap(q)
      /\ MarkRoom(RoomMap(q), at.room, Cells(l, at), None) = RoomMap(p)
  <2> DEFINE row(P, k) == [slot \in Slot |-> HolderOf(InRoom(P, k, slot))]
             new(P, k, x) == [slot \in Slot |-> IF slot \in Cells(l, at) THEN x
                                                ELSE row(P, k)[slot]]
  <2>1. \A k \in Room : k # at.room => row(p, k) = row(q, k) BY HoldersTogether
  <2>5. RoomMap(p) = [k \in Room |-> row(p, k)] /\ RoomMap(q) = [k \in Room |-> row(q, k)]
    BY DEF RoomMap
  <2>6. CASE at.room = NoRoom BY <2>1, <2>5, <2>6, RoomAssumption DEF MarkRoom
  <2>7. CASE at.room # NoRoom
    <3>1. at.room \in Room BY <2>7, PositionFields
    <3>2. new(p, at.room, l) = row(q, at.room) BY <3>1, HoldersTogether
    <3>3. new(q, at.room, None) = row(p, at.room) BY <3>1, HoldersTogether
    <3>4. /\ MarkRoom(RoomMap(p), at.room, Cells(l, at), l)
               = [k \in Room |-> IF k = at.room THEN new(p, k, l) ELSE row(p, k)]
          /\ MarkRoom(RoomMap(q), at.room, Cells(l, at), None)
               = [k \in Room |-> IF k = at.room THEN new(q, k, None) ELSE row(q, k)]
      BY <2>7, <3>1 DEF Mark, MarkRoom, RoomMap
    <3> HIDE DEF row, new
    <3> QED BY <2>1, <3>2, <3>3, <3>4, <2>5
  <2> QED BY <2>6, <2>7
<1> QED BY <1>2, <1>3, <1>4

-----------------------------------------------------------------------------
(* The counters *)

LEMMA TaughtIsNatural ==
  ASSUME NEW p, NEW S \in SUBSET Lesson, NEW d
  PROVE  /\ IsFiniteSet({m \in S : p[m] # None /\ p[m].day = d})
         /\ TaughtOn(p, S, d) \in Nat
<1> DEFINE T == {m \in S : p[m] # None /\ p[m].day = d}
<1>1. IsFiniteSet(T) BY FinitenessAssumption, FS_Subset
<1>2. \A m \in T : Length[m] \in Nat BY LessonAssumption
<1> HIDE DEF T
<1>3. SumFunctionOnSet(Length, T) \in Nat BY <1>1, <1>2, SumIsNatural
<1> QED BY <1>1, <1>3 DEF T, TaughtOn

LEMMA TaughtWhenPut ==
  ASSUME NEW p \in Places, NEW l \in Lesson, p[l] = None, NEW at \in Position,
         NEW q, q = Moved(p, l, at), NEW S \in SUBSET Lesson, NEW d
  PROVE  TaughtOn(q, S, d) =
           TaughtOn(p, S, d) + (IF l \in S /\ at.day = d THEN Length[l] ELSE 0)
<1> DEFINE T == {m \in S : p[m] # None /\ p[m].day = d}
           U == {m \in S : q[m] # None /\ q[m].day = d}
<1>1. q[l] = at /\ at # None /\ \A m \in Lesson : m # l => q[m] = p[m]
  BY MovedPlaces, PositionFields
<1>2. IsFiniteSet(T) /\ TaughtOn(p, S, d) \in Nat BY TaughtIsNatural
<1>3. CASE l \in S /\ at.day = d
  <2>1. U = T \cup {l} /\ l \notin T BY <1>1, <1>3
  <2>2. \A m \in T \cup {l} : Length[m] \in Int BY LessonAssumption
  <2> HIDE DEF T, U
  <2>3. SumFunctionOnSet(Length, U) = Length[l] + SumFunctionOnSet(Length, T)
    BY <1>2, <2>1, <2>2, SumAdds
  <2>4. TaughtOn(q, S, d) = Length[l] + TaughtOn(p, S, d) BY <2>3 DEF TaughtOn, T, U
  <2>5. Length[l] \in Int BY LessonAssumption
  <2> QED BY <1>2, <1>3, <2>4, <2>5
<1>4. CASE ~ (l \in S /\ at.day = d)
  <2>1. U = T BY <1>1, <1>4
  <2>2. TaughtOn(q, S, d) = TaughtOn(p, S, d) BY <2>1 DEF TaughtOn
  <2> QED BY <1>2, <1>4, <2>2
<1> QED BY <1>3, <1>4

LEMMA CountersTogether ==
  ASSUME NEW p \in Places, NEW l \in Lesson, p[l] = None, NEW at \in Position,
         NEW q, q = Moved(p, l, at)
  PROVE  /\ Bump(ClassDays(p), ClassOf[l], at.day, Length[l]) = ClassDays(q)
         /\ Bump(ClassDays(q), ClassOf[l], at.day, -Length[l]) = ClassDays(p)
         /\ Bump(StaffDays(p), TeacherOf[l], at.day, Length[l]) = StaffDays(q)
         /\ Bump(StaffDays(q), TeacherOf[l], at.day, -Length[l]) = StaffDays(p)
<1>1. /\ ClassOf[l] \in Class /\ TeacherOf[l] \in Teacher
      /\ Length[l] \in Nat /\ Length[l] > 0 /\ at.day \in Day
  BY LessonAssumption, PositionFields
<1>2. /\ Bump(ClassDays(p), ClassOf[l], at.day, Length[l]) = ClassDays(q)
      /\ Bump(ClassDays(q), ClassOf[l], at.day, -Length[l]) = ClassDays(p)
  <2>1. ASSUME NEW k \in Class, NEW d \in Day
        PROVE  /\ TaughtOn(p, OfClass(k), d) \in Nat
               /\ TaughtOn(q, OfClass(k), d) = TaughtOn(p, OfClass(k), d)
                    + (IF k = ClassOf[l] /\ d = at.day THEN Length[l] ELSE 0)
    <3> DEFINE S == OfClass(k)
    <3>1. S \in SUBSET Lesson /\ (l \in S <=> k = ClassOf[l]) BY DEF OfClass
    <3> HIDE DEF S
    <3>2. TaughtOn(p, S, d) \in Nat BY <3>1, TaughtIsNatural
    <3>3. TaughtOn(q, S, d) = TaughtOn(p, S, d)
                                + (IF l \in S /\ at.day = d THEN Length[l] ELSE 0)
      BY <3>1, TaughtWhenPut
    <3>4. TaughtOn(q, S, d) = TaughtOn(p, S, d)
                                + (IF k = ClassOf[l] /\ d = at.day THEN Length[l] ELSE 0)
      BY <3>1, <3>3
    <3> QED BY <3>2, <3>4 DEF S
  <2> DEFINE was(k, d) == TaughtOn(p, OfClass(k), d)
             is(k, d) == TaughtOn(q, OfClass(k), d)
             up(n) == IF n + Length[l] <= 0 THEN 0 ELSE n + Length[l]
             down(n) == IF n + -Length[l] <= 0 THEN 0 ELSE n + -Length[l]
             here(k, d) == k = ClassOf[l] /\ d = at.day
  <2>2. \A k \in Class : \A d \in Day :
           IF here(k, d) THEN up(was(k, d)) = is(k, d) /\ down(is(k, d)) = was(k, d)
           ELSE was(k, d) = is(k, d)
    BY <1>1, <2>1
  <2>3. ClassDays(p) = [k \in Class |-> [d \in Day |-> was(k, d)]]
        /\ ClassDays(q) = [k \in Class |-> [d \in Day |-> is(k, d)]]
    BY DEF ClassDays
  <2>4. Bump(ClassDays(p), ClassOf[l], at.day, Length[l])
           = [k \in Class |-> [d \in Day |-> IF here(k, d) THEN up(was(k, d)) ELSE was(k, d)]]
    BY <1>1 DEF Bump, ClassDays
  <2>5. Bump(ClassDays(q), ClassOf[l], at.day, -Length[l])
           = [k \in Class |-> [d \in Day |-> IF here(k, d) THEN down(is(k, d)) ELSE is(k, d)]]
    BY <1>1 DEF Bump, ClassDays
  <2> HIDE DEF was, is, up, down, here
  <2> QED BY <2>2, <2>3, <2>4, <2>5
<1>3. /\ Bump(StaffDays(p), TeacherOf[l], at.day, Length[l]) = StaffDays(q)
      /\ Bump(StaffDays(q), TeacherOf[l], at.day, -Length[l]) = StaffDays(p)
  <2>1. ASSUME NEW k \in Teacher, NEW d \in Day
        PROVE  /\ TaughtOn(p, OfTeacher(k), d) \in Nat
               /\ TaughtOn(q, OfTeacher(k), d) = TaughtOn(p, OfTeacher(k), d)
                    + (IF k = TeacherOf[l] /\ d = at.day THEN Length[l] ELSE 0)
    <3> DEFINE S == OfTeacher(k)
    <3>1. S \in SUBSET Lesson /\ (l \in S <=> k = TeacherOf[l]) BY DEF OfTeacher
    <3> HIDE DEF S
    <3>2. TaughtOn(p, S, d) \in Nat BY <3>1, TaughtIsNatural
    <3>3. TaughtOn(q, S, d) = TaughtOn(p, S, d)
                                + (IF l \in S /\ at.day = d THEN Length[l] ELSE 0)
      BY <3>1, TaughtWhenPut
    <3>4. TaughtOn(q, S, d) = TaughtOn(p, S, d)
                                + (IF k = TeacherOf[l] /\ d = at.day THEN Length[l] ELSE 0)
      BY <3>1, <3>3
    <3> QED BY <3>2, <3>4 DEF S
  <2> DEFINE was(k, d) == TaughtOn(p, OfTeacher(k), d)
             is(k, d) == TaughtOn(q, OfTeacher(k), d)
             up(n) == IF n + Length[l] <= 0 THEN 0 ELSE n + Length[l]
             down(n) == IF n + -Length[l] <= 0 THEN 0 ELSE n + -Length[l]
             here(k, d) == k = TeacherOf[l] /\ d = at.day
  <2>2. \A k \in Teacher : \A d \in Day :
           IF here(k, d) THEN up(was(k, d)) = is(k, d) /\ down(is(k, d)) = was(k, d)
           ELSE was(k, d) = is(k, d)
    BY <1>1, <2>1
  <2>3. StaffDays(p) = [k \in Teacher |-> [d \in Day |-> was(k, d)]]
        /\ StaffDays(q) = [k \in Teacher |-> [d \in Day |-> is(k, d)]]
    BY DEF StaffDays
  <2>4. Bump(StaffDays(p), TeacherOf[l], at.day, Length[l])
           = [k \in Teacher |-> [d \in Day |-> IF here(k, d) THEN up(was(k, d)) ELSE was(k, d)]]
    BY <1>1 DEF Bump, StaffDays
  <2>5. Bump(StaffDays(q), TeacherOf[l], at.day, -Length[l])
           = [k \in Teacher |-> [d \in Day |-> IF here(k, d) THEN down(is(k, d)) ELSE is(k, d)]]
    BY <1>1 DEF Bump, StaffDays
  <2> HIDE DEF was, is, up, down, here
  <2> QED BY <2>2, <2>3, <2>4, <2>5
<1> QED BY <1>2, <1>3

(* Occupancy's half of Put and Take. *)
LEMMA OccupancyTogether ==
  ASSUME NEW p \in Places, NEW l \in Lesson, p[l] = None, NEW at \in Position,
         NEW q, q = Moved(p, l, at), NoClash(q)
  PROVE  Place(OccOf(p), l, at) = OccOf(q) /\ Unplace(OccOf(q), l) = OccOf(p)
<1>1. [p EXCEPT ![l] = at] = q /\ [q EXCEPT ![l] = None] = p /\ q[l] = at
  BY DEF Moved, Places
<1> QED BY <1>1, MapsTogether, CountersTogether DEF Place, Unplace, OccOf

-----------------------------------------------------------------------------
(* The aggregates of a timetable *)

SubjectDays == Class \X Day \X Subject
TeacherDays == Teacher \X Day
Repeats(p) ==
    [x \in SubjectDays |->
        SubjectRepeatedInDay * Repeat(Cardinality(Together(p, x[1], x[2], x[3])))]
Mornings(p) == [l \in On(p) |-> MorningPreferenceMissed * MorningsMissed(l, p[l])]
Listed(p, t, d) ==
    UNION {Entries(l, p[l]) : l \in {m \in On(p) : TeacherOf[m] = t /\ p[m].day = d}}
TeacherPens(p) == [x \in TeacherDays |-> TeacherPenalty(Listed(p, x[1], x[2]))]
ClassPens(p) == [k \in Class |-> ClassPenalty(ClassDays(p)[k])]

Agg(counts, mornings, lists, pens, days, classPens, total) ==
    [subjCount |-> counts, morningPen |-> mornings, teacherList |-> lists, teacherPen |-> pens,
     classPerDay |-> days, classPen |-> classPens, soft |-> total]

Counts(p) == [x \in SubjectDays |-> Cardinality(Together(p, x[1], x[2], x[3]))]
MorningPens(p) ==
    [l \in Lesson |-> IF p[l] = None THEN 0 ELSE MorningPreferenceMissed * MorningsMissed(l, p[l])]
Lists(p) == [x \in TeacherDays |-> Listed(p, x[1], x[2])]

AggOf(p) ==
    Agg(Counts(p), MorningPens(p), Lists(p), TeacherPens(p), ClassDays(p), ClassPens(p), Score(p))

StateOf(p) == [occ |-> OccOf(p), agg |-> AggOf(p)]

LEMMA ScoreIsFourSums ==
  ASSUME NEW p
  PROVE  Score(p) = SumFunctionOnSet(Repeats(p), SubjectDays)
                  + SumFunctionOnSet(Mornings(p), On(p))
                  + SumFunctionOnSet(TeacherPens(p), TeacherDays)
                  + SumFunctionOnSet(ClassPens(p), Class)
<1>1. /\ DOMAIN Repeats(p) = SubjectDays /\ DOMAIN Mornings(p) = On(p)
      /\ DOMAIN TeacherPens(p) = TeacherDays /\ DOMAIN ClassPens(p) = Class
  BY DEF Repeats, Mornings, TeacherPens, ClassPens
<1>2. ClassPens(p) = [k \in Class |-> ClassPenalty(
          [d \in Day |-> TaughtOn(p, {l \in Lesson : ClassOf[l] = k}, d)])]
  BY DEF ClassPens, ClassDays, OfClass
<1>3. Score(p) = SumFunction(Repeats(p)) + SumFunction(Mornings(p))
                   + SumFunction(TeacherPens(p)) + SumFunction(ClassPens(p))
  BY <1>2, Zenon DEF Score, Repeats, Mornings, TeacherPens, SubjectDays, TeacherDays, On, Listed
<1> QED BY <1>1, <1>3, Zenon DEF SumFunction

(* What AddScore and SubScore do to each aggregate.  A record of aggregates *)
(* is its seven fields.                                                    *)
AggNames ==
    {"subjCount", "morningPen", "teacherList", "teacherPen", "classPerDay", "classPen", "soft"}
IsAgg(a) == a = [x \in AggNames |-> a[x]]

LEMMA SameAgg ==
  ASSUME NEW a, NEW b, IsAgg(a), IsAgg(b),
         a.subjCount = b.subjCount, a.morningPen = b.morningPen, a.teacherList = b.teacherList,
         a.teacherPen = b.teacherPen, a.classPerDay = b.classPerDay, a.classPen = b.classPen,
         a.soft = b.soft
  PROVE  a = b
<1>1. \A x \in AggNames : a[x] = b[x] BY DEF AggNames
<1>2. a = [x \in AggNames |-> a[x]] /\ b = [x \in AggNames |-> b[x]] BY DEF IsAgg
<1> QED BY <1>1, <1>2

LEMMA AggFields ==
  ASSUME NEW sc, NEW mp, NEW tl, NEW tp, NEW pd, NEW cp, NEW n, NEW a, a = Agg(sc, mp, tl, tp, pd, cp, n)
  PROVE  /\ IsAgg(a)
         /\ a.subjCount = sc /\ a.morningPen = mp /\ a.teacherList = tl /\ a.teacherPen = tp
         /\ a.classPerDay = pd /\ a.classPen = cp /\ a.soft = n
<1>1. /\ a.subjCount = sc /\ a.morningPen = mp /\ a.teacherList = tl /\ a.teacherPen = tp
      /\ a.classPerDay = pd /\ a.classPen = cp /\ a.soft = n
  BY DEF Agg
<1>2. DOMAIN a = AggNames /\ a = [x \in DOMAIN a |-> a[x]] BY DEF Agg, AggNames
<1> QED BY <1>1, <1>2 DEF IsAgg

(* r is a after the penalty of teacher and day y, or of class k, is computed *)
(* anew.                                                                    *)
TeacherDone(a, y, r) ==
    /\ IsAgg(r)
    /\ r.subjCount = a.subjCount /\ r.morningPen = a.morningPen
    /\ r.teacherList = a.teacherList /\ r.classPerDay = a.classPerDay
    /\ r.classPen = a.classPen
    /\ r.teacherPen = [a.teacherPen EXCEPT ![y] = TeacherPenalty(a.teacherList[y])]
    /\ r.soft = a.soft + TeacherPenalty(a.teacherList[y]) - a.teacherPen[y]

ClassDone(a, k, r) ==
    /\ IsAgg(r)
    /\ r.subjCount = a.subjCount /\ r.morningPen = a.morningPen
    /\ r.teacherList = a.teacherList /\ r.classPerDay = a.classPerDay
    /\ r.teacherPen = a.teacherPen
    /\ r.classPen = [a.classPen EXCEPT ![k] = ClassPenalty(a.classPerDay[k])]
    /\ r.soft = a.soft + ClassPenalty(a.classPerDay[k]) - a.classPen[k]

LEMMA TeacherRecomputed ==
  ASSUME NEW a, IsAgg(a), NEW y
  PROVE  TeacherDone(a, y, RecomputeTeacher(a, y))
<1> DEFINE v == [a.teacherPen EXCEPT ![y] = TeacherPenalty(a.teacherList[y])]
           w == a.soft + TeacherPenalty(a.teacherList[y]) - a.teacherPen[y]
           r == RecomputeTeacher(a, y)
<1>1. r = [a EXCEPT !.teacherPen = v, !.soft = w] BY DEF RecomputeTeacher
<1> HIDE DEF v, w, r
<1>2. DOMAIN a = AggNames BY DEF IsAgg
<1>3. DOMAIN r = AggNames /\ r = [x \in DOMAIN r |-> r[x]] BY <1>1, <1>2
<1>4. IsAgg(r) BY <1>3 DEF IsAgg
<1>5. /\ r.subjCount = a.subjCount /\ r.morningPen = a.morningPen
      /\ r.teacherList = a.teacherList /\ r.classPerDay = a.classPerDay
      /\ r.classPen = a.classPen /\ r.teacherPen = v /\ r.soft = w
  BY <1>1, <1>2 DEF AggNames
<1> QED BY <1>4, <1>5 DEF v, w, r, TeacherDone

LEMMA ClassRecomputed ==
  ASSUME NEW a, IsAgg(a), NEW k
  PROVE  ClassDone(a, k, RecomputeClass(a, k))
<1> DEFINE v == [a.classPen EXCEPT ![k] = ClassPenalty(a.classPerDay[k])]
           w == a.soft + ClassPenalty(a.classPerDay[k]) - a.classPen[k]
           r == RecomputeClass(a, k)
<1>1. r = [a EXCEPT !.classPen = v, !.soft = w] BY DEF RecomputeClass
<1> HIDE DEF v, w, r
<1>2. DOMAIN a = AggNames BY DEF IsAgg
<1>3. DOMAIN r = AggNames /\ r = [x \in DOMAIN r |-> r[x]] BY <1>1, <1>2
<1>4. IsAgg(r) BY <1>3 DEF IsAgg
<1>5. /\ r.subjCount = a.subjCount /\ r.morningPen = a.morningPen
      /\ r.teacherList = a.teacherList /\ r.classPerDay = a.classPerDay
      /\ r.teacherPen = a.teacherPen /\ r.classPen = v /\ r.soft = w
  BY <1>1, <1>2 DEF AggNames
<1> QED BY <1>4, <1>5 DEF v, w, r, ClassDone

ScoreAddedTo(a, l, at, x, y, k, missed, r) ==
    /\ IsAgg(r)
    /\ r.subjCount = [a.subjCount EXCEPT ![x] = a.subjCount[x] + 1]
    /\ r.morningPen = [a.morningPen EXCEPT ![l] = IF missed # 0 THEN missed ELSE @]
    /\ r.teacherList = [a.teacherList EXCEPT ![y] = @ \cup Entries(l, at)]
    /\ r.teacherPen = [a.teacherPen EXCEPT ![y] = TeacherPenalty(r.teacherList[y])]
    /\ r.classPerDay = Bump(a.classPerDay, k, at.day, Length[l])
    /\ r.classPen = [a.classPen EXCEPT ![k] = ClassPenalty(r.classPerDay[k])]
    /\ r.soft = a.soft + SubjectRepeatedInDay * (Repeat(a.subjCount[x] + 1) - Repeat(a.subjCount[x])) + missed
                  + TeacherPenalty(r.teacherList[y]) - a.teacherPen[y]
                  + ClassPenalty(r.classPerDay[k]) - a.classPen[k]

LEMMA ScoreAdded ==
  ASSUME NEW a, IsAgg(a), NEW l, NEW at, NEW r, r = AddScore(a, l, at),
         NEW x, x = <<ClassOf[l], at.day, SubjectOf[l]>>, NEW y, y = <<TeacherOf[l], at.day>>,
         NEW k, k = ClassOf[l], NEW missed, missed = MorningPreferenceMissed * MorningsMissed(l, at)
  PROVE  ScoreAddedTo(a, l, at, x, y, k, missed, r)
<1> DEFINE v == [a.subjCount EXCEPT ![x] = a.subjCount[x] + 1]
           w == [a.morningPen EXCEPT ![l] = IF missed # 0 THEN missed ELSE @]
           lists == [a.teacherList EXCEPT ![y] = @ \cup Entries(l, at)]
           days == Bump(a.classPerDay, k, at.day, Length[l])
           m == a.soft + SubjectRepeatedInDay * (Repeat(a.subjCount[x] + 1) - Repeat(a.subjCount[x])) + missed
           b == [a EXCEPT !.subjCount = v, !.morningPen = w, !.teacherList = lists,
                          !.classPerDay = days, !.soft = m]
           c == RecomputeTeacher(b, y)
<1>1. r = RecomputeClass(c, k) BY DEF AddScore
<1> HIDE DEF v, w, lists, days, m
<1>2. DOMAIN a = AggNames BY DEF IsAgg
<1>3. IsAgg(b)
  <2>1. DOMAIN b = AggNames /\ b = [z \in DOMAIN b |-> b[z]] BY <1>2
  <2> QED BY <2>1 DEF IsAgg
<1>4. /\ b.subjCount = v /\ b.morningPen = w /\ b.teacherList = lists /\ b.classPerDay = days
      /\ b.teacherPen = a.teacherPen /\ b.classPen = a.classPen /\ b.soft = m
  BY <1>2 DEF AggNames
<1> HIDE DEF b
<1>5. TeacherDone(b, y, c) BY <1>3, TeacherRecomputed
<1> HIDE DEF c
<1>6. ClassDone(c, k, r)
  <2>1. IsAgg(c) BY <1>5 DEF TeacherDone
  <2> QED BY <1>1, <2>1, ClassRecomputed
<1>7. /\ r.subjCount = v /\ r.morningPen = w /\ r.teacherList = lists /\ r.classPerDay = days
  BY <1>4, <1>5, <1>6, Zenon DEF TeacherDone, ClassDone
<1>8. r.teacherPen = [a.teacherPen EXCEPT ![y] = TeacherPenalty(r.teacherList[y])]
  BY <1>4, <1>5, <1>6, Zenon DEF TeacherDone, ClassDone
<1>9. r.classPen = [a.classPen EXCEPT ![k] = ClassPenalty(r.classPerDay[k])]
  BY <1>4, <1>5, <1>6, Zenon DEF TeacherDone, ClassDone
<1>10. r.soft = m + TeacherPenalty(r.teacherList[y]) - a.teacherPen[y]
                  + ClassPenalty(r.classPerDay[k]) - a.classPen[k]
  <2>1. c.soft = b.soft + TeacherPenalty(b.teacherList[y]) - b.teacherPen[y]
    BY <1>5 DEF TeacherDone
  <2>2. r.soft = c.soft + ClassPenalty(c.classPerDay[k]) - c.classPen[k]
    BY <1>6 DEF ClassDone
  <2>3. b.teacherList = r.teacherList /\ c.classPerDay = r.classPerDay /\ c.classPen = a.classPen
    BY <1>4, <1>5, <1>6 DEF TeacherDone, ClassDone
  <2>4. b.soft = m /\ b.teacherPen = a.teacherPen BY <1>4
  <2>5. c.soft = m + TeacherPenalty(r.teacherList[y]) - a.teacherPen[y] BY <2>1, <2>3, <2>4
  <2> QED BY <2>2, <2>3, <2>5
<1>11. IsAgg(r) BY <1>6 DEF ClassDone
<1>12. r.subjCount = [a.subjCount EXCEPT ![x] = a.subjCount[x] + 1]
  BY <1>7 DEF v
<1>13. r.morningPen = [a.morningPen EXCEPT ![l] = IF missed # 0 THEN missed ELSE @]
  BY <1>7 DEF w
<1>14. r.teacherList = [a.teacherList EXCEPT ![y] = @ \cup Entries(l, at)]
  BY <1>7 DEF lists
<1>15. r.classPerDay = Bump(a.classPerDay, k, at.day, Length[l])
  BY <1>7 DEF days
<1>16. r.soft = a.soft + SubjectRepeatedInDay * (Repeat(a.subjCount[x] + 1) - Repeat(a.subjCount[x])) + missed
                  + TeacherPenalty(r.teacherList[y]) - a.teacherPen[y]
                  + ClassPenalty(r.classPerDay[k]) - a.classPen[k]
  BY <1>10 DEF m
<1> QED BY <1>8, <1>9, <1>11, <1>12, <1>13, <1>14, <1>15, <1>16 DEF ScoreAddedTo

ScoreSubtractedTo(a, l, at, x, y, k, r) ==
    /\ IsAgg(r)
    /\ r.subjCount = [a.subjCount EXCEPT ![x] = IF a.subjCount[x] - 1 <= 0 THEN 0 ELSE a.subjCount[x] - 1]
    /\ r.morningPen = [a.morningPen EXCEPT ![l] = 0]
    /\ r.teacherList = [a.teacherList EXCEPT ![y] = {e \in @ : e.lesson # l}]
    /\ r.teacherPen = [a.teacherPen EXCEPT ![y] = TeacherPenalty(r.teacherList[y])]
    /\ r.classPerDay = Bump(a.classPerDay, k, at.day, -Length[l])
    /\ r.classPen = [a.classPen EXCEPT ![k] = ClassPenalty(r.classPerDay[k])]
    /\ r.soft = a.soft + SubjectRepeatedInDay * (Repeat(a.subjCount[x] - 1) - Repeat(a.subjCount[x])) - a.morningPen[l]
                  + TeacherPenalty(r.teacherList[y]) - a.teacherPen[y]
                  + ClassPenalty(r.classPerDay[k]) - a.classPen[k]

LEMMA ScoreSubtracted ==
  ASSUME NEW a, IsAgg(a), NEW l, NEW at, NEW r, r = SubScore(a, l, at),
         NEW x, x = <<ClassOf[l], at.day, SubjectOf[l]>>, NEW y, y = <<TeacherOf[l], at.day>>,
         NEW k, k = ClassOf[l]
  PROVE  ScoreSubtractedTo(a, l, at, x, y, k, r)
<1> DEFINE v == [a.subjCount EXCEPT ![x] = IF a.subjCount[x] - 1 <= 0 THEN 0 ELSE a.subjCount[x] - 1]
           w == [a.morningPen EXCEPT ![l] = 0]
           lists == [a.teacherList EXCEPT ![y] = {e \in @ : e.lesson # l}]
           days == Bump(a.classPerDay, k, at.day, -Length[l])
           m == a.soft + SubjectRepeatedInDay * (Repeat(a.subjCount[x] - 1) - Repeat(a.subjCount[x])) - a.morningPen[l]
           b == [a EXCEPT !.subjCount = v, !.morningPen = w, !.teacherList = lists,
                          !.classPerDay = days, !.soft = m]
           c == RecomputeTeacher(b, y)
<1>1. r = RecomputeClass(c, k) BY DEF SubScore
<1> HIDE DEF v, w, lists, days, m
<1>2. DOMAIN a = AggNames BY DEF IsAgg
<1>3. IsAgg(b)
  <2>1. DOMAIN b = AggNames /\ b = [z \in DOMAIN b |-> b[z]] BY <1>2
  <2> QED BY <2>1 DEF IsAgg
<1>4. /\ b.subjCount = v /\ b.morningPen = w /\ b.teacherList = lists /\ b.classPerDay = days
      /\ b.teacherPen = a.teacherPen /\ b.classPen = a.classPen /\ b.soft = m
  BY <1>2 DEF AggNames
<1> HIDE DEF b
<1>5. TeacherDone(b, y, c) BY <1>3, TeacherRecomputed
<1> HIDE DEF c
<1>6. ClassDone(c, k, r)
  <2>1. IsAgg(c) BY <1>5 DEF TeacherDone
  <2> QED BY <1>1, <2>1, ClassRecomputed
<1>7. /\ r.subjCount = v /\ r.morningPen = w /\ r.teacherList = lists /\ r.classPerDay = days
  BY <1>4, <1>5, <1>6, Zenon DEF TeacherDone, ClassDone
<1>8. r.teacherPen = [a.teacherPen EXCEPT ![y] = TeacherPenalty(r.teacherList[y])]
  BY <1>4, <1>5, <1>6, Zenon DEF TeacherDone, ClassDone
<1>9. r.classPen = [a.classPen EXCEPT ![k] = ClassPenalty(r.classPerDay[k])]
  BY <1>4, <1>5, <1>6, Zenon DEF TeacherDone, ClassDone
<1>10. r.soft = m + TeacherPenalty(r.teacherList[y]) - a.teacherPen[y]
                  + ClassPenalty(r.classPerDay[k]) - a.classPen[k]
  <2>1. c.soft = b.soft + TeacherPenalty(b.teacherList[y]) - b.teacherPen[y]
    BY <1>5 DEF TeacherDone
  <2>2. r.soft = c.soft + ClassPenalty(c.classPerDay[k]) - c.classPen[k]
    BY <1>6 DEF ClassDone
  <2>3. b.teacherList = r.teacherList /\ c.classPerDay = r.classPerDay /\ c.classPen = a.classPen
    BY <1>4, <1>5, <1>6 DEF TeacherDone, ClassDone
  <2>4. b.soft = m /\ b.teacherPen = a.teacherPen BY <1>4
  <2>5. c.soft = m + TeacherPenalty(r.teacherList[y]) - a.teacherPen[y] BY <2>1, <2>3, <2>4
  <2> QED BY <2>2, <2>3, <2>5
<1>11. IsAgg(r) BY <1>6 DEF ClassDone
<1>12. r.subjCount = [a.subjCount EXCEPT ![x] = IF a.subjCount[x] - 1 <= 0 THEN 0 ELSE a.subjCount[x] - 1]
  BY <1>7 DEF v
<1>13. r.morningPen = [a.morningPen EXCEPT ![l] = 0]
  BY <1>7 DEF w
<1>14. r.teacherList = [a.teacherList EXCEPT ![y] = {e \in @ : e.lesson # l}]
  BY <1>7 DEF lists
<1>15. r.classPerDay = Bump(a.classPerDay, k, at.day, -Length[l])
  BY <1>7 DEF days
<1>16. r.soft = a.soft + SubjectRepeatedInDay * (Repeat(a.subjCount[x] - 1) - Repeat(a.subjCount[x])) - a.morningPen[l]
                  + TeacherPenalty(r.teacherList[y]) - a.teacherPen[y]
                  + ClassPenalty(r.classPerDay[k]) - a.classPen[k]
  BY <1>10 DEF m
<1> QED BY <1>8, <1>9, <1>11, <1>12, <1>13, <1>14, <1>15, <1>16 DEF ScoreSubtractedTo

-----------------------------------------------------------------------------
(* The penalties are integers *)

LEMMA EntriesAreFinite ==
  ASSUME NEW l \in Lesson, NEW at \in Position
  PROVE  /\ IsFiniteSet(Entries(l, at))
         /\ \A e \in Entries(l, at) : e.period \in Int /\ e.lesson = l
<1> DEFINE f == [slot \in Cells(l, at) |-> [period |-> slot[2], room |-> at.room, lesson |-> l]]
<1>1. IsFiniteSet({f[slot] : slot \in DOMAIN f}) BY CellsAreFinite, FiniteImage
<1>2. {f[slot] : slot \in DOMAIN f} = Entries(l, at) BY DEF Entries
<1>3. IsFiniteSet(Entries(l, at)) BY <1>1, <1>2, Zenon
<1> QED BY <1>3, CellsAreFinite DEF Entries

LEMMA ListedIsFinite ==
  ASSUME NEW p \in Places, NEW t, NEW d
  PROVE  /\ IsFiniteSet(Listed(p, t, d))
         /\ \A e \in Listed(p, t, d) : e.period \in Int
<1> DEFINE T == {m \in On(p) : TeacherOf[m] = t /\ p[m].day = d}
           f == [m \in T |-> Entries(m, p[m])]
<1>1. \A m \in T : m \in Lesson /\ p[m] \in Position BY DEF On, Places
<1>2. IsFiniteSet(T) BY FinitenessAssumption, FS_Subset DEF On
<1>3. \A m \in T : IsFiniteSet(f[m]) BY <1>1, EntriesAreFinite
<1>4. Listed(p, t, d) = UNION {f[m] : m \in T} BY DEF Listed
<1>5. \A m \in T : \A e \in f[m] : e.period \in Int BY <1>1, EntriesAreFinite
<1> HIDE DEF T, f
<1>6. IsFiniteSet(UNION {f[m] : m \in T}) BY <1>2, <1>3, FiniteUnion
<1>7. IsFiniteSet(Listed(p, t, d)) BY <1>4, <1>6, Zenon
<1> QED BY <1>4, <1>5, <1>7

LEMMA TeacherPenaltyIsInt ==
  ASSUME NEW E, IsFiniteSet(E), \A e \in E : e.period \in Int
  PROVE  TeacherPenalty(E) \in Int
<1> DEFINE Successive(e, f) ==
             /\ e.period < f.period
             /\ \A g \in E : g.period <= e.period \/ g.period >= f.period
           pairs == {ef \in E \X E : Successive(ef[1], ef[2])}
           Penalty(ef) ==
             TeacherGap * (ef[2].period - ef[1].period - 1)
             + IF NoRoom \notin {ef[1].room, ef[2].room} /\ ef[1].room # ef[2].room
               THEN TeacherRoomChange ELSE 0
           f == [ef \in pairs |-> Penalty(ef)]
<1>1. IsFiniteSet(E \X E) BY FiniteProduct
<1>2. IsFiniteSet(pairs)
  <2>1. pairs \in SUBSET (E \X E) OBVIOUS
  <2> HIDE DEF pairs
  <2> QED BY <1>1, <2>1, FS_Subset
<1>3. TeacherGap \in Int /\ TeacherRoomChange \in Int
  BY DaysAreFinite DEF TeacherGap, TeacherRoomChange
<1>4. \A ef \in pairs : Penalty(ef) \in Int
  <2> SUFFICES ASSUME NEW ef \in pairs PROVE Penalty(ef) \in Int OBVIOUS
  <2>1. ef[1].period \in Int /\ ef[2].period \in Int OBVIOUS
  <2>2. TeacherGap * (ef[2].period - ef[1].period - 1) \in Int BY <1>3, <2>1
  <2> QED BY <1>3, <2>2
<1>5. TeacherPenalty(E) = SumFunction(f) BY DEF TeacherPenalty
<1>6. DOMAIN f = pairs /\ \A ef \in pairs : f[ef] \in Int BY <1>4
<1> HIDE DEF f, pairs
<1>7. SumFunctionOnSet(f, pairs) \in Int BY <1>2, <1>6, SumIsInt
<1> QED BY <1>5, <1>6, <1>7 DEF SumFunction

LEMMA ClassPenaltyIsInt ==
  ASSUME NEW perDay, \A d \in Day : perDay[d] \in Int
  PROVE  ClassPenalty(perDay) \in Int
<1> DEFINE total == SumFunctionOnSet(perDay, Day)
           f == [d \in Day |-> UnevenClassLoad * Deviation(perDay[d], total)]
<1>1. total \in Int BY DaysAreFinite, SumIsInt
<1>2. ClassPenalty(perDay) = SumFunctionOnSet(f, Day) BY DEF ClassPenalty, SumFunction
<1> HIDE DEF total
<1>3. \A d \in Day : f[d] \in Int
  <2> SUFFICES ASSUME NEW d \in Day PROVE f[d] \in Int OBVIOUS
  <2>1. Scale * perDay[d] \in Int BY DaysAreFinite
  <2>2. Deviation(perDay[d], total) \in Int BY <1>1, <2>1 DEF Deviation
  <2> QED BY <2>2 DEF UnevenClassLoad
<1> HIDE DEF f
<1> QED BY <1>2, <1>3, DaysAreFinite, SumIsInt

LEMMA MorningIsInt ==
  ASSUME NEW l \in Lesson, NEW at \in Position
  PROVE  MorningPreferenceMissed * MorningsMissed(l, at) \in Int
<1> DEFINE late == {slot \in Cells(l, at) : Orders[slot[2]] > MorningEnds}
<1>1. late \in SUBSET Cells(l, at) OBVIOUS
<1> HIDE DEF late
<1>2. Cardinality(late) \in Int BY <1>1, CellsAreFinite, FS_Subset, FS_CardinalityType
<1>3. MorningsMissed(l, at) \in Int BY <1>2 DEF MorningsMissed, late
<1>4. MorningPreferenceMissed \in Int BY DaysAreFinite DEF MorningPreferenceMissed
<1> QED BY <1>3, <1>4

LEMMA TogetherIsFinite ==
  ASSUME NEW p, NEW k, NEW d, NEW s
  PROVE  /\ IsFiniteSet(Together(p, k, d, s))
         /\ Cardinality(Together(p, k, d, s)) \in Nat
<1>1. Together(p, k, d, s) \in SUBSET Lesson BY DEF Together
<1> QED BY <1>1, FinitenessAssumption, FS_Subset, FS_CardinalityType

LEMMA RepeatIsInt ==
  ASSUME NEW n \in Int
  PROVE  Repeat(n) \in Int /\ SubjectRepeatedInDay * Repeat(n) \in Int
<1>1. Repeat(n) \in Int BY DEF Repeat
<1>2. SubjectRepeatedInDay \in Int BY DaysAreFinite DEF SubjectRepeatedInDay
<1> QED BY <1>1, <1>2

(* Each of the four sums of a timetable is a sum of integers over a finite *)
(* set.                                                                    *)
LEMMA FourSums ==
  ASSUME NEW p \in Places
  PROVE  /\ IsFiniteSet(SubjectDays) /\ \A x \in SubjectDays : Repeats(p)[x] \in Int
         /\ IsFiniteSet(On(p)) /\ \A l \in On(p) : Mornings(p)[l] \in Int
         /\ IsFiniteSet(TeacherDays) /\ \A x \in TeacherDays : TeacherPens(p)[x] \in Int
         /\ IsFiniteSet(Class) /\ \A k \in Class : ClassPens(p)[k] \in Int
<1>1. IsFiniteSet(SubjectDays) /\ \A x \in SubjectDays : Repeats(p)[x] \in Int
  <2>1. IsFiniteSet(Class \X Day) BY DaysAreFinite, FinitenessAssumption, FiniteProduct
  <2> DEFINE f == [y \in (Class \X Day) \X Subject |-> <<y[1][1], y[1][2], y[2]>>]
  <2>2. IsFiniteSet((Class \X Day) \X Subject) BY <2>1, SubjectAssumption, FiniteProduct
  <2>3. IsFiniteSet({f[y] : y \in DOMAIN f}) BY <2>2, FiniteImage
  <2>4. SubjectDays \in SUBSET {f[y] : y \in DOMAIN f}
    <3> SUFFICES ASSUME NEW x \in SubjectDays PROVE \E y \in DOMAIN f : f[y] = x OBVIOUS
    <3>1. x[1] \in Class /\ x[2] \in Day /\ x[3] \in Subject /\ x = <<x[1], x[2], x[3]>>
      BY DEF SubjectDays
    <3>2. <<<<x[1], x[2]>>, x[3]>> \in (Class \X Day) \X Subject BY <3>1
    <3>3. f[<<<<x[1], x[2]>>, x[3]>>] = x BY <3>1, <3>2
    <3> QED BY <3>2, <3>3
  <2> HIDE DEF f
  <2>5. IsFiniteSet(SubjectDays) BY <2>3, <2>4, FS_Subset
  <2>6. \A x \in SubjectDays : Repeats(p)[x] \in Int
    BY TogetherIsFinite, RepeatIsInt DEF Repeats
  <2> QED BY <2>5, <2>6
<1>2. IsFiniteSet(On(p)) /\ \A l \in On(p) : Mornings(p)[l] \in Int
  <2>1. On(p) \in SUBSET Lesson BY DEF On
  <2>2. \A l \in On(p) : l \in Lesson /\ p[l] \in Position BY DEF On, Places
  <2> QED BY <2>1, <2>2, FinitenessAssumption, FS_Subset, MorningIsInt DEF Mornings
<1>3. IsFiniteSet(TeacherDays) /\ \A x \in TeacherDays : TeacherPens(p)[x] \in Int
  <2>1. IsFiniteSet(TeacherDays)
    BY DaysAreFinite, FinitenessAssumption, FiniteProduct DEF TeacherDays
  <2>2. \A x \in TeacherDays : TeacherPenalty(Listed(p, x[1], x[2])) \in Int
    BY ListedIsFinite, TeacherPenaltyIsInt
  <2> QED BY <2>1, <2>2 DEF TeacherPens
<1>4. IsFiniteSet(Class) /\ \A k \in Class : ClassPens(p)[k] \in Int
  <2> SUFFICES ASSUME NEW k \in Class PROVE ClassPens(p)[k] \in Int BY FinitenessAssumption
  <2>1. OfClass(k) \in SUBSET Lesson BY DEF OfClass
  <2>2. \A d \in Day : TaughtOn(p, OfClass(k), d) \in Int
    <3> DEFINE S == OfClass(k)
    <3> HIDE DEF S
    <3>1. S \in SUBSET Lesson BY <2>1 DEF S
    <3>2. ASSUME NEW d \in Day PROVE TaughtOn(p, S, d) \in Nat BY <3>1, TaughtIsNatural
    <3> QED BY <3>2 DEF S
  <2>3. \A d \in Day : ClassDays(p)[k][d] \in Int BY <2>2 DEF ClassDays
  <2> QED BY <2>3, ClassPenaltyIsInt DEF ClassPens
<1> QED BY <1>1, <1>2, <1>3, <1>4

LEMMA ScoreIsInt == ASSUME NEW p \in Places PROVE Score(p) \in Int
<1>1. /\ SumFunctionOnSet(Repeats(p), SubjectDays) \in Int
      /\ SumFunctionOnSet(Mornings(p), On(p)) \in Int
      /\ SumFunctionOnSet(TeacherPens(p), TeacherDays) \in Int
      /\ SumFunctionOnSet(ClassPens(p), Class) \in Int
  BY FourSums, SumIsInt
<1> QED BY <1>1, ScoreIsFourSums

-----------------------------------------------------------------------------
(* What one lesson more changes in them.  As before p is without l, and q   *)
(* has it at a position.                                                   *)

LEMMA OnWhenPut ==
  ASSUME NEW p \in Places, NEW l \in Lesson, p[l] = None, NEW at \in Position,
         NEW q, q = Moved(p, l, at)
  PROVE  /\ On(q) = On(p) \cup {l} /\ l \notin On(p)
         /\ q[l] = at /\ \A m \in On(p) : m # l /\ q[m] = p[m]
<1>1. q[l] = at /\ at # None /\ \A m \in Lesson : m # l => q[m] = p[m]
  BY MovedPlaces, PositionFields
<1> QED BY <1>1 DEF On

LEMMA CountWhenPut ==
  ASSUME NEW p \in Places, NEW l \in Lesson, p[l] = None, NEW at \in Position,
         NEW q, q = Moved(p, l, at), NEW k, NEW d, NEW s
  PROVE  Cardinality(Together(q, k, d, s)) =
           IF k = ClassOf[l] /\ d = at.day /\ s = SubjectOf[l]
           THEN Cardinality(Together(p, k, d, s)) + 1 ELSE Cardinality(Together(p, k, d, s))
<1> DEFINE T == Together(p, k, d, s)
           U == Together(q, k, d, s)
<1>1. q[l] = at /\ at # None /\ \A m \in Lesson : m # l => q[m] = p[m]
  BY MovedPlaces, PositionFields
<1>2. IsFiniteSet(T) BY TogetherIsFinite
<1>3. CASE k = ClassOf[l] /\ d = at.day /\ s = SubjectOf[l]
  <2>1. U = T \cup {l} /\ l \notin T BY <1>1, <1>3 DEF Together
  <2> HIDE DEF T, U
  <2>2. Cardinality(T \cup {l}) = Cardinality(T) + 1 BY <1>2, <2>1, FS_AddElement
  <2>3. Cardinality(U) = Cardinality(T \cup {l}) BY <2>1, Zenon
  <2> QED BY <1>3, <2>2, <2>3 DEF T, U
<1>4. CASE ~ (k = ClassOf[l] /\ d = at.day /\ s = SubjectOf[l])
  <2>1. U = T BY <1>1, <1>4 DEF Together
  <2>2. Cardinality(U) = Cardinality(T) BY <2>1, Zenon
  <2> QED BY <1>4, <2>2
<1> QED BY <1>3, <1>4

LEMMA ListedWhenPut ==
  ASSUME NEW p \in Places, NEW l \in Lesson, p[l] = None, NEW at \in Position,
         NEW q, q = Moved(p, l, at), NEW t, NEW d
  PROVE  /\ IF t = TeacherOf[l] /\ d = at.day
            THEN Listed(q, t, d) = Listed(p, t, d) \cup Entries(l, at)
            ELSE Listed(q, t, d) = Listed(p, t, d)
         /\ {e \in Listed(q, t, d) : e.lesson # l} = Listed(p, t, d)
<1>1. /\ On(q) = On(p) \cup {l} /\ l \notin On(p)
      /\ q[l] = at /\ \A m \in On(p) : m # l /\ q[m] = p[m]
  BY OnWhenPut
<1>2. \A m \in On(p) : Entries(m, q[m]) = Entries(m, p[m]) BY <1>1
<1>3. Entries(l, q[l]) = Entries(l, at) BY <1>1
<1>4. \A m \in On(p) : \A e \in Entries(m, p[m]) : e.lesson # l
  <2>1. \A m \in On(p) : m \in Lesson /\ p[m] \in Position BY DEF On, Places
  <2> QED BY <1>1, <2>1, EntriesAreFinite
<1>5. \A e \in Entries(l, at) : e.lesson = l BY EntriesAreFinite
<1>6. IF t = TeacherOf[l] /\ d = at.day
      THEN Listed(q, t, d) = Listed(p, t, d) \cup Entries(l, at)
      ELSE Listed(q, t, d) = Listed(p, t, d)
  BY <1>1, <1>2, <1>3 DEF Listed
<1>7. \A e \in Listed(p, t, d) : e.lesson # l BY <1>4 DEF Listed
<1> QED BY <1>5, <1>6, <1>7

LEMMA ClassDaysWhenPut ==
  ASSUME NEW p \in Places, NEW l \in Lesson, p[l] = None, NEW at \in Position,
         NEW q, q = Moved(p, l, at), NEW k \in Class, k # ClassOf[l]
  PROVE  ClassDays(q)[k] = ClassDays(p)[k]
<1> DEFINE S == OfClass(k)
<1>1. S \in SUBSET Lesson /\ l \notin S BY DEF OfClass
<1> HIDE DEF S
<1>2. \A d \in Day : TaughtOn(q, S, d) = TaughtOn(p, S, d)
  <2> SUFFICES ASSUME NEW d \in Day PROVE TaughtOn(q, S, d) = TaughtOn(p, S, d) OBVIOUS
  <2>1. TaughtOn(q, S, d) = TaughtOn(p, S, d) + 0 BY <1>1, TaughtWhenPut
  <2>2. TaughtOn(p, S, d) \in Nat BY <1>1, TaughtIsNatural
  <2> QED BY <2>1, <2>2
<1> QED BY <1>2 DEF ClassDays, S

LEMMA TeacherPensChange ==
  ASSUME NEW p \in Places, NEW q \in Places, NEW y \in TeacherDays,
         \A z \in TeacherDays : z # y => TeacherPens(q)[z] = TeacherPens(p)[z]
  PROVE  SumFunctionOnSet(TeacherPens(q), TeacherDays) =
           SumFunctionOnSet(TeacherPens(p), TeacherDays) + TeacherPens(q)[y] - TeacherPens(p)[y]
<1> DEFINE f == TeacherPens(p)
           g == TeacherPens(q)
<1>1. \A z \in TeacherDays : f[z] \in Int /\ g[z] \in Int BY FourSums
<1>2. \A z \in TeacherDays : z # y => f[z] = g[z] OBVIOUS
<1>3. IsFiniteSet(TeacherDays) BY FourSums
<1> HIDE DEF f, g
<1>4. SumFunctionOnSet(g, TeacherDays) = SumFunctionOnSet(f, TeacherDays) + g[y] - f[y]
  BY <1>1, <1>2, <1>3, SumChanges
<1> QED BY <1>4 DEF f, g

LEMMA SumsWhenPut ==
  ASSUME NEW p \in Places, NEW l \in Lesson, p[l] = None, NEW at \in Position,
         NEW q, q = Moved(p, l, at),
         NEW x, x = <<ClassOf[l], at.day, SubjectOf[l]>>, NEW y, y = <<TeacherOf[l], at.day>>,
         NEW k, k = ClassOf[l]
  PROVE  /\ SumFunctionOnSet(Repeats(q), SubjectDays) =
              SumFunctionOnSet(Repeats(p), SubjectDays) + Repeats(q)[x] - Repeats(p)[x]
         /\ SumFunctionOnSet(Mornings(q), On(q)) =
              MorningPreferenceMissed * MorningsMissed(l, at) + SumFunctionOnSet(Mornings(p), On(p))
         /\ SumFunctionOnSet(TeacherPens(q), TeacherDays) =
              SumFunctionOnSet(TeacherPens(p), TeacherDays) + TeacherPens(q)[y] - TeacherPens(p)[y]
         /\ SumFunctionOnSet(ClassPens(q), Class) =
              SumFunctionOnSet(ClassPens(p), Class) + ClassPens(q)[k] - ClassPens(p)[k]
<1>1. q \in Places BY MovedPlaces
<1>2. at.day \in Day /\ ClassOf[l] \in Class /\ TeacherOf[l] \in Teacher /\ SubjectOf[l] \in Subject
  BY PositionFields, LessonAssumption, SubjectAssumption
<1>3. SumFunctionOnSet(Repeats(q), SubjectDays) =
        SumFunctionOnSet(Repeats(p), SubjectDays) + Repeats(q)[x] - Repeats(p)[x]
  <2>1. x \in SubjectDays BY <1>2 DEF SubjectDays
  <2>2. \A z \in SubjectDays : z # x => Repeats(q)[z] = Repeats(p)[z]
    <3> SUFFICES ASSUME NEW z \in SubjectDays, z # x PROVE Repeats(q)[z] = Repeats(p)[z] OBVIOUS
    <3>1. ~ (z[1] = ClassOf[l] /\ z[2] = at.day /\ z[3] = SubjectOf[l]) BY DEF SubjectDays
    <3>2. Cardinality(Together(q, z[1], z[2], z[3])) = Cardinality(Together(p, z[1], z[2], z[3]))
      BY <3>1, CountWhenPut
    <3> QED BY <3>2 DEF Repeats
  <2>3. \A z \in SubjectDays : Repeats(p)[z] \in Int /\ Repeats(q)[z] \in Int
    BY <1>1, FourSums
  <2>4. IsFiniteSet(SubjectDays) BY FourSums
  <2> DEFINE f == Repeats(p)
             g == Repeats(q)
  <2>5. x \in SubjectDays BY <2>1
  <2>6. \A z \in SubjectDays : z # x => f[z] = g[z] BY <2>2
  <2>7. \A z \in SubjectDays : f[z] \in Int /\ g[z] \in Int BY <2>3
  <2> HIDE DEF f, g
  <2>8. SumFunctionOnSet(g, SubjectDays) = SumFunctionOnSet(f, SubjectDays) + g[x] - f[x]
    BY <2>5, <2>6, <2>7, <2>4, SumChanges
  <2> QED BY <2>8 DEF f, g
<1>4. SumFunctionOnSet(Mornings(q), On(q)) =
        MorningPreferenceMissed * MorningsMissed(l, at) + SumFunctionOnSet(Mornings(p), On(p))
  <2>1. /\ On(q) = On(p) \cup {l} /\ l \notin On(p)
        /\ q[l] = at /\ \A m \in On(p) : m # l /\ q[m] = p[m]
    BY OnWhenPut
  <2>2. \A m \in On(p) : Mornings(q)[m] = Mornings(p)[m] BY <2>1 DEF Mornings
  <2>3. Mornings(q)[l] = MorningPreferenceMissed * MorningsMissed(l, at) BY <2>1 DEF Mornings
  <2>4. IsFiniteSet(On(p)) /\ \A m \in On(q) : Mornings(q)[m] \in Int BY <1>1, FourSums
  <2> DEFINE f == Mornings(q)
             A == On(p)
  <2>5. \A m \in A \cup {l} : f[m] \in Int BY <2>1, <2>4
  <2>6. l \notin A /\ IsFiniteSet(A) BY <2>1, <2>4
  <2>7. SumFunctionOnSet(f, A) = SumFunctionOnSet(Mornings(p), A) BY <2>2, SumOfSame
  <2>8. SumFunctionOnSet(f, On(q)) = SumFunctionOnSet(f, A \cup {l}) BY <2>1, Zenon
  <2> HIDE DEF f, A
  <2>9. SumFunctionOnSet(f, A \cup {l}) = f[l] + SumFunctionOnSet(f, A) BY <2>5, <2>6, SumAdds
  <2> QED BY <2>3, <2>7, <2>8, <2>9 DEF f, A
<1>5. SumFunctionOnSet(TeacherPens(q), TeacherDays) =
        SumFunctionOnSet(TeacherPens(p), TeacherDays) + TeacherPens(q)[y] - TeacherPens(p)[y]
  <2>1. y \in TeacherDays BY <1>2 DEF TeacherDays
  <2>2. \A z \in TeacherDays : z # y => TeacherPens(q)[z] = TeacherPens(p)[z]
    <3> SUFFICES ASSUME NEW z \in TeacherDays, z # y
                 PROVE  TeacherPens(q)[z] = TeacherPens(p)[z]
      OBVIOUS
    <3>1. ~ (z[1] = TeacherOf[l] /\ z[2] = at.day) BY DEF TeacherDays
    <3>2. Listed(q, z[1], z[2]) = Listed(p, z[1], z[2]) BY <3>1, ListedWhenPut
    <3>3. TeacherPenalty(Listed(q, z[1], z[2])) = TeacherPenalty(Listed(p, z[1], z[2]))
      BY <3>2, Zenon
    <3> QED BY <3>3 DEF TeacherPens
  <2> QED BY <1>1, <2>1, <2>2, TeacherPensChange
<1>6. SumFunctionOnSet(ClassPens(q), Class) =
        SumFunctionOnSet(ClassPens(p), Class) + ClassPens(q)[k] - ClassPens(p)[k]
  <2>1. \A z \in Class : z # k => ClassPens(q)[z] = ClassPens(p)[z]
    BY ClassDaysWhenPut DEF ClassPens
  <2>2. \A z \in Class : ClassPens(p)[z] \in Int /\ ClassPens(q)[z] \in Int
    BY <1>1, FourSums
  <2>3. IsFiniteSet(Class) /\ k \in Class BY <1>2, FourSums
  <2> DEFINE f == ClassPens(p)
             g == ClassPens(q)
  <2>5. k \in Class BY <2>3
  <2>6. \A z \in Class : z # k => f[z] = g[z] BY <2>1
  <2>7. \A z \in Class : f[z] \in Int /\ g[z] \in Int BY <2>2
  <2> HIDE DEF f, g
  <2>8. SumFunctionOnSet(g, Class) = SumFunctionOnSet(f, Class) + g[k] - f[k]
    BY <2>5, <2>6, <2>7, <2>3, SumChanges
  <2> QED BY <2>8 DEF f, g
<1> QED BY <1>3, <1>4, <1>5, <1>6

LEMMA ScoreWhenPut ==
  ASSUME NEW p \in Places, NEW l \in Lesson, p[l] = None, NEW at \in Position,
         NEW q, q = Moved(p, l, at),
         NEW x, x = <<ClassOf[l], at.day, SubjectOf[l]>>, NEW y, y = <<TeacherOf[l], at.day>>,
         NEW k, k = ClassOf[l], NEW n, n = Counts(p)[x],
         NEW missed, missed = MorningPreferenceMissed * MorningsMissed(l, at)
  PROVE  /\ n \in Nat /\ Counts(q)[x] = n + 1
         /\ missed \in Int /\ Score(p) \in Int
         /\ TeacherPens(p)[y] \in Int /\ TeacherPens(q)[y] \in Int
         /\ ClassPens(p)[k] \in Int /\ ClassPens(q)[k] \in Int
         /\ SubjectRepeatedInDay * (Repeat(n + 1) - Repeat(n)) \in Int
         /\ Score(q) = Score(p) + SubjectRepeatedInDay * (Repeat(n + 1) - Repeat(n)) + missed
                         + TeacherPens(q)[y] - TeacherPens(p)[y] + ClassPens(q)[k] - ClassPens(p)[k]
<1>1. q \in Places BY MovedPlaces
<1>2. at.day \in Day /\ ClassOf[l] \in Class /\ TeacherOf[l] \in Teacher /\ SubjectOf[l] \in Subject
  BY PositionFields, LessonAssumption, SubjectAssumption
<1>3. x \in SubjectDays /\ y \in TeacherDays /\ k \in Class
  BY <1>2 DEF SubjectDays, TeacherDays
<1>4. n \in Nat /\ Counts(q)[x] = n + 1
  <2>1. n = Cardinality(Together(p, ClassOf[l], at.day, SubjectOf[l])) BY <1>3 DEF Counts
  <2>2. Counts(q)[x] = Cardinality(Together(q, ClassOf[l], at.day, SubjectOf[l]))
    BY <1>3 DEF Counts
  <2> QED BY <2>1, <2>2, CountWhenPut, TogetherIsFinite
<1>5. missed \in Int /\ Score(p) \in Int BY MorningIsInt, ScoreIsInt
<1>6. /\ TeacherPens(p)[y] \in Int /\ TeacherPens(q)[y] \in Int
      /\ ClassPens(p)[k] \in Int /\ ClassPens(q)[k] \in Int
  BY <1>1, <1>3, FourSums
<1>7. Repeats(p)[x] = SubjectRepeatedInDay * Repeat(n)
      /\ Repeats(q)[x] = SubjectRepeatedInDay * Repeat(n + 1)
  <2>1. Counts(p)[x] = Cardinality(Together(p, x[1], x[2], x[3]))
        /\ Counts(q)[x] = Cardinality(Together(q, x[1], x[2], x[3]))
    BY <1>3 DEF Counts
  <2>2. Repeats(p)[x] = SubjectRepeatedInDay * Repeat(Counts(p)[x])
        /\ Repeats(q)[x] = SubjectRepeatedInDay * Repeat(Counts(q)[x])
    BY <1>3, <2>1 DEF Repeats
  <2> QED BY <1>4, <2>2
<1>8. /\ SubjectRepeatedInDay \in Int /\ Repeat(n) \in Int /\ Repeat(n + 1) \in Int
  <2>1. SubjectRepeatedInDay \in Int BY DaysAreFinite DEF SubjectRepeatedInDay
  <2>2. n \in Int /\ n + 1 \in Int BY <1>4
  <2>3. Repeat(n) \in Int /\ Repeat(n + 1) \in Int BY <2>2, RepeatIsInt
  <2> QED BY <2>1, <2>3
<1>9. SubjectRepeatedInDay * (Repeat(n + 1) - Repeat(n))
        = SubjectRepeatedInDay * Repeat(n + 1) - SubjectRepeatedInDay * Repeat(n)
  <2>1. \A a, b, c \in Int : a * (b - c) = a * b - a * c OBVIOUS
  <2> HIDE DEF SubjectRepeatedInDay, Repeat
  <2> QED BY <1>8, <2>1
<1>10. SubjectRepeatedInDay * (Repeat(n + 1) - Repeat(n)) \in Int BY <1>8
<1>11. /\ SubjectRepeatedInDay * Repeat(n) \in Int /\ SubjectRepeatedInDay * Repeat(n + 1) \in Int
  BY <1>8
<1>12. /\ SumFunctionOnSet(Repeats(p), SubjectDays) \in Int
       /\ SumFunctionOnSet(Mornings(p), On(p)) \in Int
       /\ SumFunctionOnSet(TeacherPens(p), TeacherDays) \in Int
       /\ SumFunctionOnSet(ClassPens(p), Class) \in Int
  BY FourSums, SumIsInt
<1>13. Score(q) = Score(p) + SubjectRepeatedInDay * (Repeat(n + 1) - Repeat(n)) + missed
                    + TeacherPens(q)[y] - TeacherPens(p)[y] + ClassPens(q)[k] - ClassPens(p)[k]
  <2>1. /\ Score(p) = SumFunctionOnSet(Repeats(p), SubjectDays)
                      + SumFunctionOnSet(Mornings(p), On(p))
                      + SumFunctionOnSet(TeacherPens(p), TeacherDays)
                      + SumFunctionOnSet(ClassPens(p), Class)
        /\ Score(q) = SumFunctionOnSet(Repeats(q), SubjectDays)
                      + SumFunctionOnSet(Mornings(q), On(q))
                      + SumFunctionOnSet(TeacherPens(q), TeacherDays)
                      + SumFunctionOnSet(ClassPens(q), Class)
    BY ScoreIsFourSums
  <2>2. /\ SumFunctionOnSet(Repeats(q), SubjectDays) =
             SumFunctionOnSet(Repeats(p), SubjectDays) + Repeats(q)[x] - Repeats(p)[x]
        /\ SumFunctionOnSet(Mornings(q), On(q)) = missed + SumFunctionOnSet(Mornings(p), On(p))
        /\ SumFunctionOnSet(TeacherPens(q), TeacherDays) =
             SumFunctionOnSet(TeacherPens(p), TeacherDays) + TeacherPens(q)[y] - TeacherPens(p)[y]
        /\ SumFunctionOnSet(ClassPens(q), Class) =
             SumFunctionOnSet(ClassPens(p), Class) + ClassPens(q)[k] - ClassPens(p)[k]
    BY SumsWhenPut
  <2> QED BY <1>5, <1>6, <1>7, <1>9, <1>11, <1>12, <2>1, <2>2
<1> QED BY <1>4, <1>5, <1>6, <1>10, <1>13

(* The other aggregates follow the placements too. *)
LEMMA FieldsWhenPut ==
  ASSUME NEW p \in Places, NEW l \in Lesson, p[l] = None, NEW at \in Position,
         NEW q, q = Moved(p, l, at),
         NEW x, x = <<ClassOf[l], at.day, SubjectOf[l]>>, NEW y, y = <<TeacherOf[l], at.day>>,
         NEW k, k = ClassOf[l],
         NEW missed, missed = MorningPreferenceMissed * MorningsMissed(l, at)
  PROVE  /\ x \in SubjectDays /\ y \in TeacherDays /\ k \in Class
         /\ \A z \in SubjectDays : z # x => Counts(q)[z] = Counts(p)[z]
         /\ MorningPens(p)[l] = 0 /\ MorningPens(q)[l] = missed
         /\ \A m \in Lesson : m # l => MorningPens(q)[m] = MorningPens(p)[m]
         /\ Lists(q)[y] = Lists(p)[y] \cup Entries(l, at)
         /\ Lists(p)[y] = {e \in Lists(q)[y] : e.lesson # l}
         /\ \A z \in TeacherDays : z # y => Lists(q)[z] = Lists(p)[z]
         /\ \A z \in TeacherDays : z # y => TeacherPens(q)[z] = TeacherPens(p)[z]
         /\ TeacherPens(q)[y] = TeacherPenalty(Lists(q)[y])
         /\ TeacherPens(p)[y] = TeacherPenalty(Lists(p)[y])
         /\ \A z \in Class : z # k => ClassPens(q)[z] = ClassPens(p)[z]
<1>1. at.day \in Day /\ ClassOf[l] \in Class /\ TeacherOf[l] \in Teacher /\ SubjectOf[l] \in Subject
  BY PositionFields, LessonAssumption, SubjectAssumption
<1>2. x \in SubjectDays /\ y \in TeacherDays /\ k \in Class
  BY <1>1 DEF SubjectDays, TeacherDays
<1>3. \A z \in SubjectDays : z # x => Counts(q)[z] = Counts(p)[z]
  <2> SUFFICES ASSUME NEW z \in SubjectDays, z # x PROVE Counts(q)[z] = Counts(p)[z] OBVIOUS
  <2>1. ~ (z[1] = ClassOf[l] /\ z[2] = at.day /\ z[3] = SubjectOf[l]) BY DEF SubjectDays
  <2>2. Cardinality(Together(q, z[1], z[2], z[3])) = Cardinality(Together(p, z[1], z[2], z[3]))
    BY <2>1, CountWhenPut
  <2> QED BY <2>2 DEF Counts
<1>4. /\ MorningPens(p)[l] = 0 /\ MorningPens(q)[l] = missed
      /\ \A m \in Lesson : m # l => MorningPens(q)[m] = MorningPens(p)[m]
  <2>1. q[l] = at /\ at # None /\ \A m \in Lesson : m # l => q[m] = p[m]
    BY MovedPlaces, PositionFields
  <2> QED BY <2>1 DEF MorningPens
<1>5. Lists(q)[y] = Lists(p)[y] \cup Entries(l, at)
  <2>1. Lists(q)[y] = Listed(q, TeacherOf[l], at.day) /\ Lists(p)[y] = Listed(p, TeacherOf[l], at.day)
    BY <1>2 DEF Lists
  <2>2. Listed(q, TeacherOf[l], at.day) = Listed(p, TeacherOf[l], at.day) \cup Entries(l, at)
    BY ListedWhenPut
  <2> QED BY <2>1, <2>2, Zenon
<1>6. Lists(p)[y] = {e \in Lists(q)[y] : e.lesson # l}
  <2>1. Lists(q)[y] = Listed(q, TeacherOf[l], at.day) /\ Lists(p)[y] = Listed(p, TeacherOf[l], at.day)
    BY <1>2 DEF Lists
  <2>2. {e \in Listed(q, TeacherOf[l], at.day) : e.lesson # l} = Listed(p, TeacherOf[l], at.day)
    BY ListedWhenPut
  <2> QED BY <2>1, <2>2, Zenon
<1>7. \A z \in TeacherDays : z # y => Lists(q)[z] = Lists(p)[z]
  <2> SUFFICES ASSUME NEW z \in TeacherDays, z # y PROVE Lists(q)[z] = Lists(p)[z] OBVIOUS
  <2>1. ~ (z[1] = TeacherOf[l] /\ z[2] = at.day) BY DEF TeacherDays
  <2>2. Listed(q, z[1], z[2]) = Listed(p, z[1], z[2]) BY <2>1, ListedWhenPut
  <2>3. Lists(q)[z] = Listed(q, z[1], z[2]) /\ Lists(p)[z] = Listed(p, z[1], z[2]) BY DEF Lists
  <2> QED BY <2>2, <2>3, Zenon
<1>8. \A z \in TeacherDays : /\ TeacherPens(q)[z] = TeacherPenalty(Lists(q)[z])
                             /\ TeacherPens(p)[z] = TeacherPenalty(Lists(p)[z])
  BY DEF TeacherPens, Lists
<1>9. \A z \in TeacherDays : z # y => TeacherPens(q)[z] = TeacherPens(p)[z]
  <2> SUFFICES ASSUME NEW z \in TeacherDays, z # y
               PROVE  TeacherPens(q)[z] = TeacherPens(p)[z]
    OBVIOUS
  <2>1. Lists(q)[z] = Lists(p)[z] BY <1>7
  <2>2. TeacherPenalty(Lists(q)[z]) = TeacherPenalty(Lists(p)[z]) BY <2>1, Zenon
  <2> QED BY <1>8, <2>2
<1>10. \A z \in Class : z # k => ClassPens(q)[z] = ClassPens(p)[z]
  BY ClassDaysWhenPut DEF ClassPens
<1> QED BY <1>2, <1>3, <1>4, <1>5, <1>6, <1>7, <1>8, <1>9, <1>10

(* Scoring's half of Put. *)
LEMMA ScoreAddedExactly ==
  ASSUME NEW p \in Places, NEW l \in Lesson, p[l] = None, NEW at \in Position,
         NEW q, q = Moved(p, l, at)
  PROVE  AddScore(AggOf(p), l, at) = AggOf(q)
<1> DEFINE x == <<ClassOf[l], at.day, SubjectOf[l]>>
           y == <<TeacherOf[l], at.day>>
           k == ClassOf[l]
           missed == MorningPreferenceMissed * MorningsMissed(l, at)
           a == AggOf(p)
           r == AddScore(AggOf(p), l, at)
           n == Counts(p)[x]
<1>1. /\ IsAgg(a) /\ a.subjCount = Counts(p) /\ a.morningPen = MorningPens(p)
      /\ a.teacherList = Lists(p) /\ a.teacherPen = TeacherPens(p)
      /\ a.classPerDay = ClassDays(p) /\ a.classPen = ClassPens(p) /\ a.soft = Score(p)
  BY AggFields DEF AggOf
<1>2. /\ IsAgg(AggOf(q)) /\ AggOf(q).subjCount = Counts(q) /\ AggOf(q).morningPen = MorningPens(q)
      /\ AggOf(q).teacherList = Lists(q) /\ AggOf(q).teacherPen = TeacherPens(q)
      /\ AggOf(q).classPerDay = ClassDays(q) /\ AggOf(q).classPen = ClassPens(q)
      /\ AggOf(q).soft = Score(q)
  BY AggFields DEF AggOf
<1>3. ScoreAddedTo(a, l, at, x, y, k, missed, r) BY <1>1, ScoreAdded
<1>4. /\ n \in Nat /\ Counts(q)[x] = n + 1
      /\ missed \in Int
      /\ Score(q) = Score(p) + SubjectRepeatedInDay * (Repeat(n + 1) - Repeat(n)) + missed
                      + TeacherPens(q)[y] - TeacherPens(p)[y] + ClassPens(q)[k] - ClassPens(p)[k]
  BY ScoreWhenPut
<1>5. /\ x \in SubjectDays /\ y \in TeacherDays /\ k \in Class
      /\ \A z \in SubjectDays : z # x => Counts(q)[z] = Counts(p)[z]
      /\ MorningPens(p)[l] = 0 /\ MorningPens(q)[l] = missed
      /\ \A m \in Lesson : m # l => MorningPens(q)[m] = MorningPens(p)[m]
      /\ Lists(q)[y] = Lists(p)[y] \cup Entries(l, at)
      /\ \A z \in TeacherDays : z # y => Lists(q)[z] = Lists(p)[z]
      /\ \A z \in TeacherDays : z # y => TeacherPens(q)[z] = TeacherPens(p)[z]
      /\ TeacherPens(q)[y] = TeacherPenalty(Lists(q)[y])
      /\ \A z \in Class : z # k => ClassPens(q)[z] = ClassPens(p)[z]
  BY FieldsWhenPut
<1> HIDE DEF x, y, k, missed, a, r, n
<1>6. r.subjCount = Counts(q)
  <2>1. r.subjCount = [Counts(p) EXCEPT ![x] = n + 1]
    BY <1>1, <1>3, Zenon DEF ScoreAddedTo, n
  <2> QED BY <1>4, <1>5, <2>1 DEF Counts
<1>7. r.morningPen = MorningPens(q)
  <2>1. r.morningPen = [MorningPens(p) EXCEPT ![l] = IF missed # 0 THEN missed ELSE @]
    BY <1>1, <1>3, Zenon DEF ScoreAddedTo
  <2>2. r.morningPen = [MorningPens(p) EXCEPT ![l] = missed] BY <1>5, <2>1
  <2>3. /\ MorningPens(p) = [m \in Lesson |-> MorningPens(p)[m]]
        /\ MorningPens(q) = [m \in Lesson |-> MorningPens(q)[m]]
    BY DEF MorningPens
  <2> QED BY <1>5, <2>2, <2>3
<1>8. r.teacherList = Lists(q)
  <2>1. r.teacherList = [Lists(p) EXCEPT ![y] = Lists(p)[y] \cup Entries(l, at)]
    BY <1>1, <1>3, Zenon DEF ScoreAddedTo
  <2>2. r.teacherList = [Lists(p) EXCEPT ![y] = Lists(q)[y]] BY <1>5, <2>1, Zenon
  <2> QED BY <1>5, <2>2 DEF Lists
<1>9. r.teacherPen = TeacherPens(q)
  <2>1. r.teacherPen = [TeacherPens(p) EXCEPT ![y] = TeacherPenalty(r.teacherList[y])]
    BY <1>1, <1>3, Zenon DEF ScoreAddedTo
  <2>2. r.teacherPen = [TeacherPens(p) EXCEPT ![y] = TeacherPens(q)[y]] BY <1>5, <1>8, <2>1, Zenon
  <2> QED BY <1>5, <2>2 DEF TeacherPens
<1>10. r.classPerDay = ClassDays(q)
  <2>1. r.classPerDay = Bump(ClassDays(p), ClassOf[l], at.day, Length[l])
    BY <1>1, <1>3, Zenon DEF ScoreAddedTo, k
  <2> QED BY <2>1, CountersTogether
<1>11. ClassPens(q)[k] = ClassPenalty(ClassDays(q)[k]) BY <1>5 DEF ClassPens
<1>12. r.classPen = ClassPens(q)
  <2>1. r.classPen = [ClassPens(p) EXCEPT ![k] = ClassPenalty(r.classPerDay[k])]
    BY <1>1, <1>3, Zenon DEF ScoreAddedTo
  <2>2. r.classPen = [ClassPens(p) EXCEPT ![k] = ClassPens(q)[k]] BY <1>10, <1>11, <2>1, Zenon
  <2> QED BY <1>5, <2>2 DEF ClassPens
<1>13. r.soft = Score(q)
  <2>1. r.soft = a.soft + SubjectRepeatedInDay * (Repeat(a.subjCount[x] + 1) - Repeat(a.subjCount[x]))
                   + missed + TeacherPenalty(r.teacherList[y]) - a.teacherPen[y]
                   + ClassPenalty(r.classPerDay[k]) - a.classPen[k]
    BY <1>3 DEF ScoreAddedTo
  <2>2. /\ a.soft = Score(p) /\ a.subjCount[x] = n /\ TeacherPenalty(r.teacherList[y]) = TeacherPens(q)[y]
        /\ a.teacherPen[y] = TeacherPens(p)[y] /\ ClassPenalty(r.classPerDay[k]) = ClassPens(q)[k]
        /\ a.classPen[k] = ClassPens(p)[k]
    BY <1>1, <1>5, <1>8, <1>10, <1>11, Zenon DEF n
  <2> QED BY <1>4, <2>1, <2>2
<1>14. IsAgg(r) BY <1>3 DEF ScoreAddedTo
<1>15. r = AggOf(q) BY <1>2, <1>6, <1>7, <1>8, <1>9, <1>10, <1>12, <1>13, <1>14, SameAgg
<1> QED BY <1>15 DEF r

(* Scoring's half of Take. *)
LEMMA ScoreSubtractedExactly ==
  ASSUME NEW p \in Places, NEW l \in Lesson, p[l] = None, NEW at \in Position,
         NEW q, q = Moved(p, l, at)
  PROVE  SubScore(AggOf(q), l, at) = AggOf(p)
<1> DEFINE x == <<ClassOf[l], at.day, SubjectOf[l]>>
           y == <<TeacherOf[l], at.day>>
           k == ClassOf[l]
           missed == MorningPreferenceMissed * MorningsMissed(l, at)
           a == AggOf(q)
           r == SubScore(AggOf(q), l, at)
           n == Counts(p)[x]
<1>1. /\ IsAgg(a) /\ a.subjCount = Counts(q) /\ a.morningPen = MorningPens(q)
      /\ a.teacherList = Lists(q) /\ a.teacherPen = TeacherPens(q)
      /\ a.classPerDay = ClassDays(q) /\ a.classPen = ClassPens(q) /\ a.soft = Score(q)
  BY AggFields DEF AggOf
<1>2. /\ IsAgg(AggOf(p)) /\ AggOf(p).subjCount = Counts(p) /\ AggOf(p).morningPen = MorningPens(p)
      /\ AggOf(p).teacherList = Lists(p) /\ AggOf(p).teacherPen = TeacherPens(p)
      /\ AggOf(p).classPerDay = ClassDays(p) /\ AggOf(p).classPen = ClassPens(p)
      /\ AggOf(p).soft = Score(p)
  BY AggFields DEF AggOf
<1>3. ScoreSubtractedTo(a, l, at, x, y, k, r) BY <1>1, ScoreSubtracted
<1>4. /\ n \in Nat /\ Counts(q)[x] = n + 1
      /\ missed \in Int /\ Score(p) \in Int
      /\ TeacherPens(p)[y] \in Int /\ TeacherPens(q)[y] \in Int
      /\ ClassPens(p)[k] \in Int /\ ClassPens(q)[k] \in Int
      /\ SubjectRepeatedInDay * (Repeat(n + 1) - Repeat(n)) \in Int
      /\ Score(q) = Score(p) + SubjectRepeatedInDay * (Repeat(n + 1) - Repeat(n)) + missed
                      + TeacherPens(q)[y] - TeacherPens(p)[y] + ClassPens(q)[k] - ClassPens(p)[k]
  BY ScoreWhenPut
<1>5. /\ x \in SubjectDays /\ y \in TeacherDays /\ k \in Class
      /\ \A z \in SubjectDays : z # x => Counts(q)[z] = Counts(p)[z]
      /\ MorningPens(p)[l] = 0 /\ MorningPens(q)[l] = missed
      /\ \A m \in Lesson : m # l => MorningPens(q)[m] = MorningPens(p)[m]
      /\ Lists(p)[y] = {e \in Lists(q)[y] : e.lesson # l}
      /\ \A z \in TeacherDays : z # y => Lists(q)[z] = Lists(p)[z]
      /\ \A z \in TeacherDays : z # y => TeacherPens(q)[z] = TeacherPens(p)[z]
      /\ TeacherPens(p)[y] = TeacherPenalty(Lists(p)[y])
      /\ \A z \in Class : z # k => ClassPens(q)[z] = ClassPens(p)[z]
  BY FieldsWhenPut
<1> HIDE DEF x, y, k, missed, a, r, n
<1>6. r.subjCount = Counts(p)
  <2>1. r.subjCount = [Counts(q) EXCEPT ![x] = IF Counts(q)[x] - 1 <= 0 THEN 0 ELSE Counts(q)[x] - 1]
    BY <1>1, <1>3, Zenon DEF ScoreSubtractedTo
  <2>2. (IF Counts(q)[x] - 1 <= 0 THEN 0 ELSE Counts(q)[x] - 1) = n BY <1>4
  <2>3. r.subjCount = [Counts(q) EXCEPT ![x] = Counts(p)[x]] BY <2>1, <2>2, Zenon DEF n
  <2> QED BY <1>5, <2>3 DEF Counts
<1>7. r.morningPen = MorningPens(p)
  <2>1. r.morningPen = [MorningPens(q) EXCEPT ![l] = 0]
    BY <1>1, <1>3, Zenon DEF ScoreSubtractedTo
  <2> QED BY <1>5, <2>1 DEF MorningPens
<1>8. r.teacherList = Lists(p)
  <2>1. r.teacherList = [Lists(q) EXCEPT ![y] = {e \in Lists(q)[y] : e.lesson # l}]
    BY <1>1, <1>3, Zenon DEF ScoreSubtractedTo
  <2>2. r.teacherList = [Lists(q) EXCEPT ![y] = Lists(p)[y]] BY <1>5, <2>1, Zenon
  <2> QED BY <1>5, <2>2 DEF Lists
<1>9. r.teacherPen = TeacherPens(p)
  <2>1. r.teacherPen = [TeacherPens(q) EXCEPT ![y] = TeacherPenalty(r.teacherList[y])]
    BY <1>1, <1>3, Zenon DEF ScoreSubtractedTo
  <2>2. r.teacherPen = [TeacherPens(q) EXCEPT ![y] = TeacherPens(p)[y]] BY <1>5, <1>8, <2>1, Zenon
  <2> QED BY <1>5, <2>2 DEF TeacherPens
<1>10. r.classPerDay = ClassDays(p)
  <2>1. r.classPerDay = Bump(ClassDays(q), ClassOf[l], at.day, -Length[l])
    BY <1>1, <1>3, Zenon DEF ScoreSubtractedTo, k
  <2> QED BY <2>1, CountersTogether
<1>11. ClassPens(p)[k] = ClassPenalty(ClassDays(p)[k]) BY <1>5 DEF ClassPens
<1>12. r.classPen = ClassPens(p)
  <2>1. r.classPen = [ClassPens(q) EXCEPT ![k] = ClassPenalty(r.classPerDay[k])]
    BY <1>1, <1>3, Zenon DEF ScoreSubtractedTo
  <2>2. r.classPen = [ClassPens(q) EXCEPT ![k] = ClassPens(p)[k]] BY <1>10, <1>11, <2>1, Zenon
  <2> QED BY <1>5, <2>2 DEF ClassPens
<1>13. r.soft = Score(p)
  <2>1. r.soft = a.soft + SubjectRepeatedInDay * (Repeat(a.subjCount[x] - 1) - Repeat(a.subjCount[x]))
                   - a.morningPen[l] + TeacherPenalty(r.teacherList[y]) - a.teacherPen[y]
                   + ClassPenalty(r.classPerDay[k]) - a.classPen[k]
    BY <1>3 DEF ScoreSubtractedTo
  <2>2. /\ a.soft = Score(q) /\ a.subjCount[x] = n + 1 /\ TeacherPenalty(r.teacherList[y]) = TeacherPens(p)[y]
        /\ a.teacherPen[y] = TeacherPens(q)[y] /\ ClassPenalty(r.classPerDay[k]) = ClassPens(p)[k]
        /\ a.classPen[k] = ClassPens(q)[k] /\ a.morningPen[l] = missed
    BY <1>1, <1>4, <1>5, <1>8, <1>10, <1>11, Zenon DEF n
  <2>3. n + 1 - 1 = n BY <1>4
  <2> DEFINE up == SubjectRepeatedInDay * (Repeat(n + 1) - Repeat(n))
             down == SubjectRepeatedInDay * (Repeat(n) - Repeat(n + 1))
  <2>4. down = 0 - up
    <3>1. SubjectRepeatedInDay \in Int BY DaysAreFinite DEF SubjectRepeatedInDay
    <3>2. n \in Int /\ n + 1 \in Int BY <1>4
    <3>3. Repeat(n) \in Int /\ Repeat(n + 1) \in Int BY <3>2, RepeatIsInt
    <3>4. \A b, c, d \in Int : b * (c - d) = 0 - b * (d - c) OBVIOUS
    <3> QED BY <3>1, <3>3, <3>4
  <2>5. SubjectRepeatedInDay * (Repeat(a.subjCount[x] - 1) - Repeat(a.subjCount[x])) = down
    <3>1. a.subjCount[x] = n + 1 BY <2>2
    <3>2. a.subjCount[x] - 1 = n BY <3>1, <1>4
    <3>3. SubjectRepeatedInDay * (Repeat(a.subjCount[x] - 1) - Repeat(a.subjCount[x]))
            = SubjectRepeatedInDay * (Repeat(n) - Repeat(a.subjCount[x])) BY <3>2, Zenon
    <3> QED BY <3>1, <3>3, Zenon
  <2>6. Score(q) = Score(p) + up + missed
                     + TeacherPens(q)[y] - TeacherPens(p)[y] + ClassPens(q)[k] - ClassPens(p)[k]
    BY <1>4
  <2>7. up \in Int BY <1>4
  <2> HIDE DEF up, down
  <2>8. r.soft = Score(q) + down - missed + TeacherPens(p)[y] - TeacherPens(q)[y]
                   + ClassPens(p)[k] - ClassPens(q)[k]
    BY <2>1, <2>2, <2>5, Zenon
  <2> QED BY <1>4, <2>4, <2>6, <2>7, <2>8
<1>14. IsAgg(r) BY <1>3 DEF ScoreSubtractedTo
<1>15. r = AggOf(p) BY <1>2, <1>6, <1>7, <1>8, <1>9, <1>10, <1>12, <1>13, <1>14, SameAgg
<1> QED BY <1>15 DEF r

-----------------------------------------------------------------------------
(* Put and Take lead from the state of one timetable to that of another.   *)

LEMMA PutLeads ==
  ASSUME NEW p \in Places, NEW l \in Lesson, p[l] = None, NEW at \in Position,
         NoClash(Moved(p, l, at))
  PROVE  Put(StateOf(p), l, at) = StateOf(Moved(p, l, at))
BY OccupancyTogether, ScoreAddedExactly DEF Put, StateOf

LEMMA TakeLeads ==
  ASSUME NEW p \in Places, NEW l \in Lesson, p[l] # None, NoClash(p)
  PROVE  Take(StateOf(p), l) = StateOf(Moved(p, l, None))
<1> DEFINE q == Moved(p, l, None)
           at == p[l]
<1>1. at \in Position BY DEF Places
<1>2. q \in Places /\ q[l] = None BY MovedPlaces
<1>3. p = Moved(q, l, at) BY DEF Moved, Places
<1>4. Unplace(OccOf(p), l) = OccOf(q) BY <1>1, <1>2, <1>3, OccupancyTogether
<1>5. SubScore(AggOf(p), l, at) = AggOf(q) BY <1>1, <1>2, <1>3, ScoreSubtractedExactly
<1>6. OccOf(p).placed = p BY DEF OccOf
<1> QED BY <1>4, <1>5, <1>6 DEF Take, StateOf

-----------------------------------------------------------------------------
(* A timetable that keeps the hard constraints, when the staff are          *)
(* unavailable at u.                                                        *)
SuitsAt(u, l, at) ==
    /\ Length[l] = 2 => /\ at.start + 1 \in Period
                       /\ Orders[at.start + 1] - Orders[at.start] = 1
    /\ \A slot \in Cells(l, at) : <<TeacherOf[l], slot[1], slot[2]>> \notin u
    /\ Needs[l] # NoType => at.room # NoRoom /\ RoomType[at.room] = Needs[l]

Sound(u, p) ==
    /\ p \in Places /\ NoClash(p) /\ WithinLimits(p)
    /\ \A l \in Lesson : p[l] # None => SuitsAt(u, l, p[l])

LEMMA SoundIsHard ==
  ASSUME NEW p
  PROVE  Sound(staffUnavailable, p) <=> p \in Places /\ HardConstraints(p)
BY DEF Sound, SuitsAt, HardConstraints, Suits

LEMMA CellsInSlot ==
  ASSUME NEW l \in Lesson, NEW at \in Position, Length[l] = 2 => at.start + 1 \in Period
  PROVE  /\ Cells(l, at) \subseteq Slot
         /\ <<at.day, at.start>> \in Cells(l, at)
<1>1. at.day \in Day /\ at.start \in Period BY PositionFields
<1>2. at.start \in Nat BY <1>1, PeriodsAreFinite
<1>3. Length[l] \in {1, 2} BY LessonAssumption
<1>4. at.start .. at.start + Length[l] - 1 \subseteq {at.start, at.start + 1} BY <1>2, <1>3
<1>5. at.start .. at.start + Length[l] - 1 \subseteq Period
  <2>1. CASE Length[l] = 1
    <3>1. at.start .. at.start + Length[l] - 1 \subseteq {at.start} BY <1>2, <2>1
    <3> QED BY <1>1, <3>1
  <2>2. CASE Length[l] = 2 BY <1>1, <1>4, <2>2
  <2> QED BY <1>3, <2>1, <2>2
<1>6. at.start \in at.start .. at.start + Length[l] - 1 BY <1>2, <1>3
<1> QED BY <1>1, <1>5, <1>6 DEF Cells, Slot

(* Taking a lesson out breaks nothing. *)
LEMMA RemovalKeepsSound ==
  ASSUME NEW u, NEW p, Sound(u, p), NEW l \in Lesson
  PROVE  Sound(u, Moved(p, l, None))
<1> DEFINE q == Moved(p, l, None)
<1>1. p \in Places BY DEF Sound
<1>2. q \in Places /\ q[l] = None /\ \A m \in Lesson : m # l => q[m] = p[m] BY <1>1, MovedPlaces
<1> HIDE DEF q
<1>3. NoClash(q) BY <1>1, <1>2 DEF Sound, NoClash, At
<1>4. ASSUME NEW S \in SUBSET Lesson, NEW d
      PROVE  TaughtOn(q, S, d) \in Nat /\ TaughtOn(p, S, d) \in Nat
             /\ TaughtOn(q, S, d) <= TaughtOn(p, S, d)
  <2>1. TaughtOn(q, S, d) \in Nat /\ TaughtOn(p, S, d) \in Nat BY TaughtIsNatural
  <2>2. CASE p[l] = None
    <3>1. p = q BY <1>1, <2>2 DEF q, Moved, Places
    <3> QED BY <2>1, <3>1
  <2>3. CASE p[l] # None
    <3>1. p[l] \in Position BY <1>1, <2>3 DEF Places
    <3>2. p = Moved(q, l, p[l]) BY <1>1 DEF q, Moved, Places
    <3>3. TaughtOn(p, S, d) = TaughtOn(q, S, d)
                               + (IF l \in S /\ p[l].day = d THEN Length[l] ELSE 0)
      BY <1>2, <3>1, <3>2, TaughtWhenPut
    <3>4. Length[l] \in Nat BY LessonAssumption
    <3> QED BY <2>1, <3>3, <3>4
  <2> QED BY <2>2, <2>3
<1>5. WithinLimits(q)
  <2>1. ASSUME NEW d \in Day, MaxPerClass # NoLimit, NEW k \in Class
        PROVE  TaughtOn(q, {m \in Lesson : ClassOf[m] = k}, d) <= MaxPerClass
    <3> DEFINE S == {m \in Lesson : ClassOf[m] = k}
    <3>1. S \in SUBSET Lesson OBVIOUS
    <3>2. TaughtOn(p, S, d) <= MaxPerClass BY <2>1 DEF Sound, WithinLimits
    <3>3. MaxPerClass \in Nat BY <2>1, LimitAssumption
    <3> HIDE DEF S
    <3>4. TaughtOn(q, S, d) <= MaxPerClass BY <1>4, <3>1, <3>2, <3>3
    <3> QED BY <3>4 DEF S
  <2>2. ASSUME NEW d \in Day, NEW t \in Teacher, MaxPerTeacher[t] # NoLimit
        PROVE  TaughtOn(q, {m \in Lesson : TeacherOf[m] = t}, d) <= MaxPerTeacher[t]
    <3> DEFINE S == {m \in Lesson : TeacherOf[m] = t}
    <3>1. S \in SUBSET Lesson OBVIOUS
    <3>2. TaughtOn(p, S, d) <= MaxPerTeacher[t] BY <2>2 DEF Sound, WithinLimits
    <3>3. MaxPerTeacher[t] \in Nat BY <2>2, LimitAssumption
    <3> HIDE DEF S
    <3>4. TaughtOn(q, S, d) <= MaxPerTeacher[t] BY <1>4, <3>1, <3>2, <3>3
    <3> QED BY <3>4 DEF S
  <2> QED BY <2>1, <2>2 DEF WithinLimits
<1>6. \A m \in Lesson : q[m] # None => SuitsAt(u, m, q[m])
  <2> TAKE m \in Lesson
  <2>1. CASE m = l BY <1>2, <2>1
  <2>2. CASE m # l
    <3>1. q[m] = p[m] BY <1>2, <2>2
    <3> QED BY <3>1 DEF Sound
  <2> QED BY <2>1, <2>2
<1>7. Sound(u, q) BY <1>2, <1>3, <1>5, <1>6 DEF Sound
<1> QED BY <1>7 DEF q

-----------------------------------------------------------------------------
(* What candidates offers *)

(* A room that pickRoom finds is free, and of the type the lesson requires. *)
LEMMA PickedRoom ==
  ASSUME NEW o, NEW l, NEW cells, PickRoom(o, l, cells) # Unfit
  PROVE  LET r == PickRoom(o, l, cells) IN
         /\ r \in Room \cup {NoRoom}
         /\ Needs[l] # NoType => r # NoRoom /\ RoomType[r] = Needs[l]
         /\ r # NoRoom => r \in Room /\ \A slot \in cells : o.roomBusy[r][slot] = None
<1> DEFINE InPool(r) == Needs[l] = NoType \/ RoomType[r] = Needs[l]
           free == {i \in DOMAIN Rooms :
                      InPool(Rooms[i]) /\ \A slot \in cells : o.roomBusy[Rooms[i]][slot] = None}
           i == CHOOSE i \in free : \A j \in free : i <= j
<1>1. CASE \A r \in Room : ~InPool(r)
  <2>1. Needs[l] = NoType /\ PickRoom(o, l, cells) = NoRoom BY <1>1 DEF PickRoom
  <2> QED BY <2>1
<1>2. CASE ~ \A r \in Room : ~InPool(r)
  <2>1. free # {} /\ PickRoom(o, l, cells) = Rooms[i] BY <1>2 DEF PickRoom
  <2>2. free \subseteq Nat
    <3>1. DOMAIN Rooms = 1 .. Len(Rooms) /\ Len(Rooms) \in Nat BY RoomAssumption, LenProperties
    <3> QED BY <3>1
  <2>3. \E n \in free : \A m \in free : n <= m
    <3> HIDE DEF free
    <3> QED BY <2>1, <2>2, LeastNatural
  <2>4. i \in free BY <2>3
  <2>5. Rooms[i] \in Room BY <2>4 DEF Room
  <2>6. Rooms[i] # NoRoom BY <2>5, RoomAssumption
  <2>7. InPool(Rooms[i]) /\ \A slot \in cells : o.roomBusy[Rooms[i]][slot] = None BY <2>4
  <2> QED BY <2>1, <2>5, <2>6, <2>7
<1> QED BY <1>1, <1>2

LEMMA HolderIsHeld ==
  ASSUME NEW H \in SUBSET Lesson
  PROVE  /\ HolderOf(H) = None <=> H = {}
         /\ HolderOf(H) # None => HolderOf(H) \in H
<1>1. CASE H = {} BY <1>1 DEF HolderOf
<1>2. CASE H # {}
  <2>1. HolderOf(H) \in H BY <1>2 DEF HolderOf
  <2> QED BY <1>2, <2>1, NullAssumption
<1> QED BY <1>1, <1>2

(* What canPlace has tested, said of the placements. *)
LEMMA CanPlaceTested ==
  ASSUME NEW p \in Places, NEW l \in Lesson, NEW day \in Day, NEW start \in Period,
         NEW room, room = CanPlace(OccOf(p), l, day, start), room # Unfit,
         NEW at, at = [day |-> day, start |-> start, room |-> room]
  PROVE  /\ at \in Position
         /\ Length[l] = 2 => at.start + 1 \in Period /\ Orders[at.start + 1] - Orders[at.start] = 1
         /\ MaxPerClass # NoLimit => TaughtOn(p, OfClass(ClassOf[l]), day) + Length[l] <= MaxPerClass
         /\ MaxPerTeacher[TeacherOf[l]] # NoLimit =>
              TaughtOn(p, OfTeacher(TeacherOf[l]), day) + Length[l] <= MaxPerTeacher[TeacherOf[l]]
         /\ \A slot \in Cells(l, at) :
              /\ slot \in Slot
              /\ <<TeacherOf[l], slot[1], slot[2]>> \notin staffUnavailable
              /\ Held(p, OfClass(ClassOf[l]), slot) = {}
              /\ Held(p, OfTeacher(TeacherOf[l]), slot) = {}
              /\ room # NoRoom => InRoom(p, room, slot) = {}
         /\ Needs[l] # NoType => room # NoRoom /\ RoomType[room] = Needs[l]
<1> DEFINE cells == Cells(l, [day |-> day, start |-> start])
<1>1. /\ Contiguous(start, Length[l]) /\ WithinCaps(OccOf(p), l, day) /\ Free(OccOf(p), l, cells)
      /\ room = PickRoom(OccOf(p), l, cells)
  BY DEF CanPlace
<1>2. at.day = day /\ at.start = start /\ at.room = room OBVIOUS
<1>3. cells = Cells(l, at) BY <1>2 DEF Cells
<1>4. ClassOf[l] \in Class /\ TeacherOf[l] \in Teacher /\ Length[l] \in {1, 2} BY LessonAssumption
<1> HIDE DEF cells
<1>5. /\ room \in Room \cup {NoRoom}
      /\ Needs[l] # NoType => room # NoRoom /\ RoomType[room] = Needs[l]
      /\ room # NoRoom => room \in Room /\ \A slot \in cells : OccOf(p).roomBusy[room][slot] = None
  BY <1>1, PickedRoom
<1>6. at \in Position BY <1>5 DEF Position
<1>7. Length[l] = 2 => start + 1 \in Period /\ Orders[start + 1] - Orders[start] = 1
  <2> SUFFICES ASSUME Length[l] = 2 PROVE start + 1 \in Period /\ Orders[start + 1] - Orders[start] = 1
    OBVIOUS
  <2>1. start \in Nat BY PeriodsAreFinite
  <2>2. start + 1 \in Period /\ Orders[start + 1] = Orders[start] + 1
    <3>1. start + 2 - 1 = start + 1 BY <2>1
    <3> QED BY <1>1, <3>1 DEF Contiguous
  <2>3. Orders[start] \in Nat BY PeriodAssumption DEF Period
  <2> QED BY <2>2, <2>3
<1>8. ClassDays(p)[ClassOf[l]][day] = TaughtOn(p, OfClass(ClassOf[l]), day)
      /\ StaffDays(p)[TeacherOf[l]][day] = TaughtOn(p, OfTeacher(TeacherOf[l]), day)
  BY <1>4 DEF ClassDays, StaffDays
<1>9. /\ MaxPerClass # NoLimit => TaughtOn(p, OfClass(ClassOf[l]), day) + Length[l] <= MaxPerClass
      /\ MaxPerTeacher[TeacherOf[l]] # NoLimit =>
           TaughtOn(p, OfTeacher(TeacherOf[l]), day) + Length[l] <= MaxPerTeacher[TeacherOf[l]]
  <2>1. OccOf(p).classDay = ClassDays(p) /\ OccOf(p).staffDay = StaffDays(p) BY DEF OccOf
  <2> QED BY <1>1, <1>8, <2>1, Zenon DEF WithinCaps
<1>10. ASSUME NEW slot \in Cells(l, at)
       PROVE  /\ slot \in Slot
              /\ <<TeacherOf[l], slot[1], slot[2]>> \notin staffUnavailable
              /\ Held(p, OfClass(ClassOf[l]), slot) = {}
              /\ Held(p, OfTeacher(TeacherOf[l]), slot) = {}
              /\ room # NoRoom => InRoom(p, room, slot) = {}
  <2>1. slot \in Slot BY <1>2, <1>6, <1>7, CellsInSlot
  <2>2. /\ ClassMap(p)[ClassOf[l]][slot] = HolderOf(Held(p, OfClass(ClassOf[l]), slot))
        /\ StaffMap(p)[TeacherOf[l]][slot] = HolderOf(Held(p, OfTeacher(TeacherOf[l]), slot))
        /\ room \in Room => RoomMap(p)[room][slot] = HolderOf(InRoom(p, room, slot))
    BY <1>4, <2>1 DEF ClassMap, StaffMap, RoomMap
  <2>3. /\ OccOf(p).classBusy = ClassMap(p) /\ OccOf(p).staffBusy = StaffMap(p)
        /\ OccOf(p).roomBusy = RoomMap(p)
    BY DEF OccOf
  <2>4. slot \in cells BY <1>3
  <2>5. /\ ClassMap(p)[ClassOf[l]][slot] = None /\ StaffMap(p)[TeacherOf[l]][slot] = None
        /\ <<TeacherOf[l], slot[1], slot[2]>> \notin staffUnavailable
    BY <1>1, <2>3, <2>4, Zenon DEF Free
  <2>6. /\ Held(p, OfClass(ClassOf[l]), slot) \in SUBSET Lesson
        /\ Held(p, OfTeacher(TeacherOf[l]), slot) \in SUBSET Lesson
        /\ InRoom(p, room, slot) \in SUBSET Lesson
    BY DEF Held, InRoom, OfClass, OfTeacher
  <2>7. Held(p, OfClass(ClassOf[l]), slot) = {} BY <2>2, <2>5, <2>6, HolderIsHeld
  <2>8. Held(p, OfTeacher(TeacherOf[l]), slot) = {} BY <2>2, <2>5, <2>6, HolderIsHeld
  <2>9. room # NoRoom => InRoom(p, room, slot) = {} BY <1>5, <2>2, <2>3, <2>4, <2>6, HolderIsHeld
  <2> QED BY <2>1, <2>5, <2>7, <2>8, <2>9
<1> QED BY <1>2, <1>5, <1>6, <1>7, <1>9, <1>10

(* A lesson put where canPlace says it may be breaks nothing. *)
LEMMA CanPlaceIsSound ==
  ASSUME NEW p, Sound(staffUnavailable, p), NEW l \in Lesson, p[l] = None,
         NEW day \in Day, NEW start \in Period,
         NEW room, room = CanPlace(OccOf(p), l, day, start), room # Unfit,
         NEW at, at = [day |-> day, start |-> start, room |-> room]
  PROVE  at \in Position /\ Sound(staffUnavailable, Moved(p, l, at))
<1> DEFINE q == Moved(p, l, at)
<1>1. p \in Places BY DEF Sound
<1>2. at.day = day /\ at.start = start /\ at.room = room OBVIOUS
<1>3. /\ at \in Position
      /\ Length[l] = 2 => at.start + 1 \in Period /\ Orders[at.start + 1] - Orders[at.start] = 1
      /\ MaxPerClass # NoLimit => TaughtOn(p, OfClass(ClassOf[l]), day) + Length[l] <= MaxPerClass
      /\ MaxPerTeacher[TeacherOf[l]] # NoLimit =>
           TaughtOn(p, OfTeacher(TeacherOf[l]), day) + Length[l] <= MaxPerTeacher[TeacherOf[l]]
      /\ Needs[l] # NoType => room # NoRoom /\ RoomType[room] = Needs[l]
  BY <1>1, CanPlaceTested
<1>4. ASSUME NEW slot \in Cells(l, at)
      PROVE  /\ <<TeacherOf[l], slot[1], slot[2]>> \notin staffUnavailable
             /\ Held(p, OfClass(ClassOf[l]), slot) = {}
             /\ Held(p, OfTeacher(TeacherOf[l]), slot) = {}
             /\ room # NoRoom => InRoom(p, room, slot) = {}
  BY <1>1, CanPlaceTested
<1>5. q \in Places /\ q[l] = at /\ \A m \in Lesson : m # l => q[m] = p[m] BY <1>1, <1>3, MovedPlaces
<1>6. at # None BY <1>3, PositionFields
<1> HIDE DEF q
<1>7. ASSUME NEW m \in Lesson, m # l, p[m] # None, NEW slot \in Cells(l, at), slot \in At(p, m)
      PROVE  /\ ClassOf[l] # ClassOf[m] /\ TeacherOf[l] # TeacherOf[m]
             /\ room = p[m].room => room = NoRoom
  <2>1. m \notin Held(p, OfClass(ClassOf[l]), slot) /\ m \notin Held(p, OfTeacher(TeacherOf[l]), slot)
        /\ (room # NoRoom => m \notin InRoom(p, room, slot))
    BY <1>4
  <2> QED BY <1>7, <2>1 DEF Held, InRoom, OfClass, OfTeacher
<1>8. NoClash(q)
  <2> SUFFICES ASSUME NEW a \in Lesson, NEW b \in Lesson, q[a] # None, q[b] # None, a # b,
                      NEW slot, slot \in At(q, a), slot \in At(q, b)
               PROVE  /\ ClassOf[a] # ClassOf[b] /\ TeacherOf[a] # TeacherOf[b]
                      /\ q[a].room = q[b].room => q[a].room = NoRoom
    BY DEF NoClash
  <2>1. CASE a = l
    <3>1. q[b] = p[b] /\ slot \in Cells(l, at) /\ slot \in At(p, b) /\ q[a] = at BY <1>5, <2>1 DEF At
    <3> QED BY <1>2, <1>7, <2>1, <3>1
  <2>2. CASE b = l
    <3>1. q[a] = p[a] /\ slot \in Cells(l, at) /\ slot \in At(p, a) /\ q[b] = at BY <1>5, <2>2 DEF At
    <3> QED BY <1>2, <1>7, <2>2, <3>1
  <2>3. CASE a # l /\ b # l
    <3>1. q[a] = p[a] /\ q[b] = p[b] /\ slot \in At(p, a) /\ slot \in At(p, b) BY <1>5, <2>3 DEF At
    <3> QED BY <3>1 DEF Sound, NoClash
  <2> QED BY <2>1, <2>2, <2>3
<1>9. ASSUME NEW S \in SUBSET Lesson, NEW d
      PROVE  /\ TaughtOn(p, S, d) \in Nat
             /\ TaughtOn(q, S, d) = TaughtOn(p, S, d) + (IF l \in S /\ day = d THEN Length[l] ELSE 0)
  <2>1. TaughtOn(p, S, d) \in Nat BY TaughtIsNatural
  <2>2. at \in Position /\ q = Moved(p, l, at) BY <1>3 DEF q
  <2>3. TaughtOn(q, S, d) = TaughtOn(p, S, d) + (IF l \in S /\ at.day = d THEN Length[l] ELSE 0)
    BY <1>1, <2>2, TaughtWhenPut
  <2> QED BY <1>2, <2>1, <2>3
<1>10. WithinLimits(q)
  <2>1. ASSUME NEW d \in Day, MaxPerClass # NoLimit, NEW k \in Class
        PROVE  TaughtOn(q, {m \in Lesson : ClassOf[m] = k}, d) <= MaxPerClass
    <3> DEFINE S == {m \in Lesson : ClassOf[m] = k}
    <3>1. S \in SUBSET Lesson /\ (l \in S <=> ClassOf[l] = k) /\ S = OfClass(k) BY DEF OfClass
    <3>2. TaughtOn(p, S, d) <= MaxPerClass BY <2>1 DEF Sound, WithinLimits
    <3>3. MaxPerClass \in Nat BY <2>1, LimitAssumption
    <3> HIDE DEF S
    <3>4. TaughtOn(q, S, d) = TaughtOn(p, S, d) + (IF l \in S /\ day = d THEN Length[l] ELSE 0)
          /\ TaughtOn(p, S, d) \in Nat
      BY <1>9, <3>1
    <3>5. CASE l \in S /\ day = d
      <4>1. TaughtOn(p, S, d) + Length[l] <= MaxPerClass BY <1>3, <2>1, <3>1, <3>5, Zenon
      <4> QED BY <3>4, <3>5, <4>1 DEF S
    <3>6. CASE ~(l \in S /\ day = d)
      <4>1. TaughtOn(q, S, d) <= MaxPerClass BY <3>2, <3>4, <3>6
      <4> QED BY <4>1 DEF S
    <3> QED BY <3>5, <3>6
  <2>2. ASSUME NEW d \in Day, NEW t \in Teacher, MaxPerTeacher[t] # NoLimit
        PROVE  TaughtOn(q, {m \in Lesson : TeacherOf[m] = t}, d) <= MaxPerTeacher[t]
    <3> DEFINE S == {m \in Lesson : TeacherOf[m] = t}
    <3>1. S \in SUBSET Lesson /\ (l \in S <=> TeacherOf[l] = t) /\ S = OfTeacher(t) BY DEF OfTeacher
    <3>2. TaughtOn(p, S, d) <= MaxPerTeacher[t] BY <2>2 DEF Sound, WithinLimits
    <3>3. MaxPerTeacher[t] \in Nat BY <2>2, LimitAssumption
    <3> HIDE DEF S
    <3>4. TaughtOn(q, S, d) = TaughtOn(p, S, d) + (IF l \in S /\ day = d THEN Length[l] ELSE 0)
          /\ TaughtOn(p, S, d) \in Nat
      BY <1>9, <3>1
    <3>5. CASE l \in S /\ day = d
      <4>1. TaughtOn(p, S, d) + Length[l] <= MaxPerTeacher[t] BY <1>3, <2>2, <3>1, <3>5, Zenon
      <4> QED BY <3>4, <3>5, <4>1 DEF S
    <3>6. CASE ~(l \in S /\ day = d)
      <4>1. TaughtOn(q, S, d) <= MaxPerTeacher[t] BY <3>2, <3>4, <3>6
      <4> QED BY <4>1 DEF S
    <3> QED BY <3>5, <3>6
  <2> QED BY <2>1, <2>2 DEF WithinLimits
<1>11. SuitsAt(staffUnavailable, l, at) BY <1>2, <1>3, <1>4 DEF SuitsAt
<1>12. \A m \in Lesson : q[m] # None => SuitsAt(staffUnavailable, m, q[m])
  <2> TAKE m \in Lesson
  <2>1. CASE m = l BY <1>5, <1>11, <2>1
  <2>2. CASE m # l
    <3>1. q[m] = p[m] BY <1>5, <2>2
    <3> QED BY <3>1 DEF Sound
  <2> QED BY <2>1, <2>2
<1>13. Sound(staffUnavailable, q) BY <1>5, <1>8, <1>10, <1>12 DEF Sound
<1> QED BY <1>3, <1>13 DEF q
(* What candidates offers. *)
LEMMA CandidatesAreSound ==
  ASSUME NEW p, Sound(staffUnavailable, p), NEW l \in Lesson, p[l] = None,
         NEW c, c \in Candidates(OccOf(p), l)
  PROVE  c \in Position /\ Sound(staffUnavailable, Moved(p, l, c))
<1>1. PICK slot \in Slot : c = [day |-> slot[1], start |-> slot[2],
                               room |-> CanPlace(OccOf(p), l, slot[1], slot[2])]
  BY DEF Candidates
<1>2. c.room # Unfit BY DEF Candidates
<1>3. slot[1] \in Day /\ slot[2] \in Period BY DEF Slot
<1> DEFINE room == CanPlace(OccOf(p), l, slot[1], slot[2])
<1>4. c.room = room BY <1>1
<1>5. room # Unfit BY <1>2, <1>4
<1> QED BY <1>1, <1>3, <1>5, CanPlaceIsSound

LEMMA CandidatesAreFinite == ASSUME NEW o, NEW l PROVE IsFiniteSet(Candidates(o, l))
<1> DEFINE f == [slot \in Slot |-> [day |-> slot[1], start |-> slot[2],
                                   room |-> CanPlace(o, l, slot[1], slot[2])]]
<1>1. DOMAIN f = Slot OBVIOUS
<1>2. f = [slot \in DOMAIN f |-> f[slot]] OBVIOUS
<1>3. {[day |-> slot[1], start |-> slot[2], room |-> CanPlace(o, l, slot[1], slot[2])] : slot \in Slot}
        = {f[slot] : slot \in DOMAIN f}
  OBVIOUS
<1>4. Candidates(o, l) \subseteq {f[slot] : slot \in DOMAIN f} BY <1>3 DEF Candidates
<1> HIDE DEF f
<1>5. IsFiniteSet({f[slot] : slot \in DOMAIN f}) BY <1>1, <1>2, SlotsAreFinite, FiniteImage
<1> QED BY <1>4, <1>5, FS_Subset

(* The cost of a candidate is the penalty of the timetable it leads to, and *)
(* among finitely many there is a first cheapest.                          *)
LEMMA CostIsScore ==
  ASSUME NEW p, Sound(staffUnavailable, p), NEW l \in Lesson, p[l] = None,
         NEW c, c \in Candidates(OccOf(p), l)
  PROVE  Cost(StateOf(p), l, c) = Score(Moved(p, l, c)) /\ Cost(StateOf(p), l, c) \in Int
<1>1. c \in Position /\ Sound(staffUnavailable, Moved(p, l, c)) BY CandidatesAreSound
<1>2. p \in Places /\ Moved(p, l, c) \in Places /\ NoClash(Moved(p, l, c)) BY <1>1 DEF Sound
<1>3. Put(StateOf(p), l, c) = StateOf(Moved(p, l, c)) BY <1>1, <1>2, PutLeads
<1>4. StateOf(Moved(p, l, c)).agg.soft = Score(Moved(p, l, c)) BY DEF StateOf, AggOf, Agg
<1>5. Score(Moved(p, l, c)) \in Int BY <1>2, ScoreIsInt
<1> QED BY <1>3, <1>4, <1>5 DEF Cost

LEMMA BestIsACandidate ==
  ASSUME NEW p, Sound(staffUnavailable, p), NEW l \in Lesson, p[l] = None,
         NEW options, options = Candidates(OccOf(p), l), options # {}
  PROVE  BestCandidate(StateOf(p), l, options) \in options
<1> DEFINE cost == [c \in options |-> Cost(StateOf(p), l, c)]
           cheapest == {c \in options : \A d \in options : Cost(StateOf(p), l, c) <= Cost(StateOf(p), l, d)}
<1>1. IsFiniteSet(options) BY CandidatesAreFinite
<1>2. \A c \in options : cost[c] \in Int BY CostIsScore
<1>3. \E c \in options : \A d \in options : cost[c] <= cost[d]
  <2> HIDE DEF cost
  <2> QED BY <1>1, <1>2, FiniteMinimum
<1>4. cheapest # {} BY <1>3
<1> HIDE DEF cheapest
<1>5. \A c \in cheapest : c.day \in Nat /\ c.start \in Nat
  <2> TAKE c \in cheapest
  <2>1. c \in Position BY CandidatesAreSound DEF cheapest
  <2>2. c.day \in Day /\ c.start \in Period BY <2>1, PositionFields
  <2>3. c.day \in Nat BY <2>2, DaysAreFinite
  <2>4. c.start \in Nat BY <2>2, PeriodsAreFinite
  <2> QED BY <2>3, <2>4
<1> DEFINE days == {c.day : c \in cheapest}
<1>6. PICK d \in days : \A e \in days : d <= e
  <2>1. days \in SUBSET Nat /\ days # {} BY <1>4, <1>5
  <2> HIDE DEF days
  <2> QED BY <2>1, LeastNatural
<1> DEFINE starts == {c.start : c \in {b \in cheapest : b.day = d}}
<1>7. PICK n \in starts : \A m \in starts : n <= m
  <2>1. starts \in SUBSET Nat /\ starts # {} BY <1>5, <1>6
  <2> HIDE DEF starts
  <2> QED BY <2>1, LeastNatural
<1>8. PICK c \in cheapest : c.day = d /\ c.start = n BY <1>7
<1>9. \A b \in cheapest : Before(c, b)
  <2> TAKE b \in cheapest
  <2>1. d <= b.day /\ d \in Nat /\ b.day \in Nat BY <1>5, <1>6
  <2>2. b.day = d => n <= b.start BY <1>7
  <2> QED BY <1>8, <2>1, <2>2 DEF Before
<1>10. \E x \in cheapest : \A b \in cheapest : Before(x, b) BY <1>8, <1>9
<1>11. BestCandidate(StateOf(p), l, options) \in cheapest
  <2>1. BestCandidate(StateOf(p), l, options) = CHOOSE x \in cheapest : \A b \in cheapest : Before(x, b)
    BY DEF BestCandidate, cheapest
  <2> QED BY <1>10, <2>1
<1> QED BY <1>11 DEF cheapest
-----------------------------------------------------------------------------
(* The folds, over the one or two lessons they are ever given. *)

LEMMA GreatestOf == Max({1}) = 1 /\ Max({2}) = 2 /\ Max({1, 2}) = 2
BY DEF Max

LEMMA TakenNone ==
  ASSUME NEW s, NEW ls, DOMAIN ls = {}
  PROVE  TakeAll(s, ls) = s
<1> DEFINE Folds(g) == g = [u \in SUBSET {} |-> IF u = {} THEN s ELSE Take(g[u \ {Max(u)}], ls[Max(u)])]
           w == [u \in SUBSET {} |-> s]
<1>1. Folds(w) OBVIOUS
<1>2. \A g : Folds(g) => g[{}] = s OBVIOUS
<1>3. TakeAll(s, ls) = (CHOOSE g : Folds(g))[{}] BY DEF TakeAll, FoldLeft, MapThenFoldSet
<1> HIDE DEF Folds
<1> QED BY <1>1, <1>2, <1>3

LEMMA TakenOne ==
  ASSUME NEW s, NEW ls, DOMAIN ls = {1}
  PROVE  TakeAll(s, ls) = Take(s, ls[1])
<1> DEFINE Folds(g) == g = [u \in SUBSET {1} |-> IF u = {} THEN s ELSE Take(g[u \ {Max(u)}], ls[Max(u)])]
           w == [u \in SUBSET {1} |-> IF u = {} THEN s ELSE Take(s, ls[1])]
<1>1. Folds(w)
  <2>1. ASSUME NEW u \in SUBSET {1}
        PROVE  w[u] = IF u = {} THEN s ELSE Take(w[u \ {Max(u)}], ls[Max(u)])
    <3>1. u \in {{}, {1}} OBVIOUS
    <3> QED BY <3>1, GreatestOf, {1} \ {1} = {}
  <2> QED BY <2>1
<1>2. \A g : Folds(g) => g[{1}] = Take(s, ls[1]) BY GreatestOf, {1} \ {1} = {}
<1>3. TakeAll(s, ls) = (CHOOSE g : Folds(g))[{1}] BY DEF TakeAll, FoldLeft, MapThenFoldSet
<1> HIDE DEF Folds
<1> QED BY <1>1, <1>2, <1>3

LEMMA TakenTwo ==
  ASSUME NEW s, NEW ls, DOMAIN ls = {1, 2}
  PROVE  TakeAll(s, ls) = Take(Take(s, ls[1]), ls[2])
<1> DEFINE Folds(g) == g = [u \in SUBSET {1, 2} |-> IF u = {} THEN s ELSE Take(g[u \ {Max(u)}], ls[Max(u)])]
           w == [u \in SUBSET {1, 2} |-> IF u = {} THEN s
                                        ELSE IF u = {1} THEN Take(s, ls[1])
                                        ELSE IF u = {2} THEN Take(s, ls[2])
                                        ELSE Take(Take(s, ls[1]), ls[2])]
<1>1. Folds(w)
  <2>1. ASSUME NEW u \in SUBSET {1, 2}
        PROVE  w[u] = IF u = {} THEN s ELSE Take(w[u \ {Max(u)}], ls[Max(u)])
    <3>1. u \in {{}, {1}, {2}, {1, 2}} OBVIOUS
    <3>2. {1} \ {1} = {} /\ {2} \ {2} = {} /\ {1, 2} \ {2} = {1} OBVIOUS
    <3> QED BY <3>1, <3>2, GreatestOf
  <2> QED BY <2>1
<1>2. ASSUME NEW g, Folds(g) PROVE g[{1, 2}] = Take(Take(s, ls[1]), ls[2])
  <2>1. g[{1}] = Take(g[{}], ls[1]) BY <1>2, GreatestOf, {1} \ {1} = {}
  <2>2. g[{1, 2}] = Take(g[{1}], ls[2]) BY <1>2, GreatestOf, {1, 2} \ {2} = {1}
  <2> QED BY <1>2, <2>1, <2>2
<1>3. TakeAll(s, ls) = (CHOOSE g : Folds(g))[{1, 2}] BY DEF TakeAll, FoldLeft, MapThenFoldSet
<1> HIDE DEF Folds
<1> QED BY <1>1, <1>2, <1>3

LEMMA PutBackOne ==
  ASSUME NEW s, NEW from, NEW ls, DOMAIN ls = {1}
  PROVE  PutBack(s, ls, from) = Put(s, ls[1], from.occ.placed[ls[1]])
<1> DEFINE Back(t, i) == Put(t, ls[i], from.occ.placed[ls[i]])
           Folds(g) == g = [u \in SUBSET {1} |-> IF u = {} THEN s ELSE Back(g[u \ {Max(u)}], Max(u))]
           w == [u \in SUBSET {1} |-> IF u = {} THEN s ELSE Back(s, 1)]
<1>3. PutBack(s, ls, from) = (CHOOSE g : Folds(g))[{1}] BY DEF PutBack, FoldLeft, MapThenFoldSet
<1> HIDE DEF Back
<1>1. Folds(w)
  <2>1. ASSUME NEW u \in SUBSET {1}
        PROVE  w[u] = IF u = {} THEN s ELSE Back(w[u \ {Max(u)}], Max(u))
    <3>1. u \in {{}, {1}} OBVIOUS
    <3> QED BY <3>1, GreatestOf, {1} \ {1} = {}
  <2> QED BY <2>1
<1>2. \A g : Folds(g) => g[{1}] = Back(s, 1) BY GreatestOf, {1} \ {1} = {}
<1> HIDE DEF Folds
<1>4. PutBack(s, ls, from) = Back(s, 1) BY <1>1, <1>2, <1>3
<1> QED BY <1>4 DEF Back

LEMMA PutBackTwo ==
  ASSUME NEW s, NEW from, NEW ls, DOMAIN ls = {1, 2}
  PROVE  PutBack(s, ls, from) = Put(Put(s, ls[1], from.occ.placed[ls[1]]), ls[2], from.occ.placed[ls[2]])
<1> DEFINE Back(t, i) == Put(t, ls[i], from.occ.placed[ls[i]])
           Folds(g) == g = [u \in SUBSET {1, 2} |-> IF u = {} THEN s ELSE Back(g[u \ {Max(u)}], Max(u))]
           w == [u \in SUBSET {1, 2} |-> IF u = {} THEN s
                                        ELSE IF u = {1} THEN Back(s, 1)
                                        ELSE IF u = {2} THEN Back(s, 2)
                                        ELSE Back(Back(s, 1), 2)]
<1>3. PutBack(s, ls, from) = (CHOOSE g : Folds(g))[{1, 2}] BY DEF PutBack, FoldLeft, MapThenFoldSet
<1> HIDE DEF Back
<1>1. Folds(w)
  <2>1. ASSUME NEW u \in SUBSET {1, 2}
        PROVE  w[u] = IF u = {} THEN s ELSE Back(w[u \ {Max(u)}], Max(u))
    <3>1. u \in {{}, {1}, {2}, {1, 2}} OBVIOUS
    <3>2. {1} \ {1} = {} /\ {2} \ {2} = {} /\ {1, 2} \ {2} = {1} OBVIOUS
    <3> QED BY <3>1, <3>2, GreatestOf
  <2> QED BY <2>1
<1>2. ASSUME NEW g, Folds(g) PROVE g[{1, 2}] = Back(Back(s, 1), 2)
  <2>1. g[{1}] = Back(g[{}], 1) BY <1>2, GreatestOf, {1} \ {1} = {}
  <2>2. g[{1, 2}] = Back(g[{1}], 2) BY <1>2, GreatestOf, {1, 2} \ {2} = {1}
  <2> QED BY <1>2, <2>1, <2>2
<1> HIDE DEF Folds
<1>4. PutBack(s, ls, from) = Back(Back(s, 1), 2) BY <1>1, <1>2, <1>3
<1> QED BY <1>4 DEF Back

(* One round of Rehome. *)
Rehomed(r, l) ==
    LET options == Candidates(r.s.occ, l) IN
    IF ~r.ok \/ options = {} THEN [r EXCEPT !.ok = FALSE]
    ELSE [ok |-> TRUE, homed |-> Append(r.homed, l), s |-> Put(r.s, l, BestCandidate(r.s, l, options))]

LEMMA RehomedOne ==
  ASSUME NEW s, NEW ls, DOMAIN ls = {1}
  PROVE  Rehome(s, ls) = Rehomed([ok |-> TRUE, homed |-> <<>>, s |-> s], ls[1])
<1> DEFINE r0 == [ok |-> TRUE, homed |-> <<>>, s |-> s]
           Folds(g) == g = [u \in SUBSET {1} |-> IF u = {} THEN r0 ELSE Rehomed(g[u \ {Max(u)}], ls[Max(u)])]
           w == [u \in SUBSET {1} |-> IF u = {} THEN r0 ELSE Rehomed(r0, ls[1])]
<1>3. Rehome(s, ls) = (CHOOSE g : Folds(g))[{1}] BY DEF Rehome, Rehomed, FoldLeft, MapThenFoldSet
<1> HIDE DEF r0
<1>1. Folds(w)
  <2>1. ASSUME NEW u \in SUBSET {1}
        PROVE  w[u] = IF u = {} THEN r0 ELSE Rehomed(w[u \ {Max(u)}], ls[Max(u)])
    <3>1. u \in {{}, {1}} OBVIOUS
    <3> QED BY <3>1, GreatestOf, {1} \ {1} = {}
  <2> QED BY <2>1
<1>2. \A g : Folds(g) => g[{1}] = Rehomed(r0, ls[1]) BY GreatestOf, {1} \ {1} = {}
<1> HIDE DEF Folds
<1>4. Rehome(s, ls) = Rehomed(r0, ls[1]) BY <1>1, <1>2, <1>3
<1> QED BY <1>4 DEF r0

LEMMA RehomedTwo ==
  ASSUME NEW s, NEW ls, DOMAIN ls = {1, 2}
  PROVE  Rehome(s, ls) = Rehomed(Rehomed([ok |-> TRUE, homed |-> <<>>, s |-> s], ls[1]), ls[2])
<1> DEFINE r0 == [ok |-> TRUE, homed |-> <<>>, s |-> s]
           Folds(g) == g = [u \in SUBSET {1, 2} |-> IF u = {} THEN r0 ELSE Rehomed(g[u \ {Max(u)}], ls[Max(u)])]
           w == [u \in SUBSET {1, 2} |-> IF u = {} THEN r0
                                        ELSE IF u = {1} THEN Rehomed(r0, ls[1])
                                        ELSE IF u = {2} THEN Rehomed(r0, ls[2])
                                        ELSE Rehomed(Rehomed(r0, ls[1]), ls[2])]
<1>3. Rehome(s, ls) = (CHOOSE g : Folds(g))[{1, 2}] BY DEF Rehome, Rehomed, FoldLeft, MapThenFoldSet
<1> HIDE DEF r0
<1>1. Folds(w)
  <2>1. ASSUME NEW u \in SUBSET {1, 2}
        PROVE  w[u] = IF u = {} THEN r0 ELSE Rehomed(w[u \ {Max(u)}], ls[Max(u)])
    <3>1. u \in {{}, {1}, {2}, {1, 2}} OBVIOUS
    <3>2. {1} \ {1} = {} /\ {2} \ {2} = {} /\ {1, 2} \ {2} = {1} OBVIOUS
    <3> QED BY <3>1, <3>2, GreatestOf
  <2> QED BY <2>1
<1>2. ASSUME NEW g, Folds(g) PROVE g[{1, 2}] = Rehomed(Rehomed(r0, ls[1]), ls[2])
  <2>1. g[{1}] = Rehomed(g[{}], ls[1]) BY <1>2, GreatestOf, {1} \ {1} = {}
  <2>2. g[{1, 2}] = Rehomed(g[{1}], ls[2]) BY <1>2, GreatestOf, {1, 2} \ {2} = {1}
  <2> QED BY <1>2, <2>1, <2>2
<1> HIDE DEF Folds
<1>4. Rehome(s, ls) = Rehomed(Rehomed(r0, ls[1]), ls[2]) BY <1>1, <1>2, <1>3
<1> QED BY <1>4 DEF r0
-----------------------------------------------------------------------------
(* Lessons taken out together, and put back together. *)
Without(p, A) == [m \in Lesson |-> IF m \in A THEN None ELSE p[m]]

OneOrTwo(p, ls) ==
    /\ DOMAIN ls = {1} \/ (DOMAIN ls = {1, 2} /\ ls[1] # ls[2])
    /\ \A i \in DOMAIN ls : ls[i] \in On(p)

LEMMA StateFields ==
  ASSUME NEW p
  PROVE  /\ StateOf(p).occ = OccOf(p) /\ StateOf(p).occ.placed = p /\ StateOf(p).agg.soft = Score(p)
         /\ StateOf(p).agg = AggOf(p) /\ OccOf(p).placed = p /\ Placed(OccOf(p)) = On(p)
BY DEF StateOf, OccOf, AggOf, Agg, Placed, On

LEMMA TakenOut ==
  ASSUME NEW u, NEW p, Sound(u, p), NEW l \in On(p)
  PROVE  /\ Sound(u, Moved(p, l, None)) /\ l \in Lesson
         /\ Take(StateOf(p), l) = StateOf(Moved(p, l, None))
         /\ Put(StateOf(Moved(p, l, None)), l, p[l]) = StateOf(p)
<1> DEFINE q == Moved(p, l, None)
<1>1. l \in Lesson /\ p[l] # None BY DEF On
<1>2. Sound(u, q) BY <1>1, RemovalKeepsSound
<1>3. p \in Places /\ NoClash(p) /\ q \in Places BY <1>2 DEF Sound
<1>4. Take(StateOf(p), l) = StateOf(q) BY <1>1, <1>3, TakeLeads
<1>5. p[l] \in Position BY <1>1, <1>3 DEF Places
<1>6. q[l] = None BY <1>1, <1>3, MovedPlaces
<1>7. Moved(q, l, p[l]) = p BY <1>3 DEF Moved, Places
<1>8. Put(StateOf(q), l, p[l]) = StateOf(p) BY <1>1, <1>3, <1>5, <1>6, <1>7, PutLeads
<1> QED BY <1>1, <1>2, <1>4, <1>8

LEMMA TakenAndPutBack ==
  ASSUME NEW u, NEW p, Sound(u, p), NEW ls, OneOrTwo(p, ls),
         NEW p0, p0 = Without(p, ToSet(ls))
  PROVE  /\ Sound(u, p0)
         /\ TakeAll(StateOf(p), ls) = StateOf(p0)
         /\ PutBack(StateOf(p0), ls, StateOf(p)) = StateOf(p)
<1>1. p \in Places BY DEF Sound
<1> DEFINE a == ls[1]
           pa == Moved(p, a, None)
<1>2. a \in On(p) /\ a \in Lesson BY DEF OneOrTwo, On
<1>3. /\ Sound(u, pa) /\ Take(StateOf(p), a) = StateOf(pa)
      /\ Put(StateOf(pa), a, p[a]) = StateOf(p)
  BY <1>2, TakenOut
<1>4. StateOf(p).occ.placed = p BY StateFields
<1>5. CASE DOMAIN ls = {1}
  <2>1. ToSet(ls) = {a} BY <1>5 DEF ToSet
  <2>2. p0 = pa BY <1>1, <2>1 DEF Without, Moved, Places
  <2>3. TakeAll(StateOf(p), ls) = StateOf(p0) BY <1>3, <1>5, <2>2, TakenOne
  <2>4. PutBack(StateOf(p0), ls, StateOf(p)) = Put(StateOf(p0), a, p[a]) BY <1>4, <1>5, PutBackOne
  <2> QED BY <1>3, <2>2, <2>3, <2>4
<1>6. CASE DOMAIN ls = {1, 2} /\ ls[1] # ls[2]
  <2> DEFINE b == ls[2]
             pb == Moved(p, b, None)
  <2>1. b \in On(p) /\ b \in Lesson /\ a # b BY <1>6 DEF OneOrTwo, On
  <2>2. ToSet(ls) = {a, b} BY <1>6 DEF ToSet
  <2>3. p0 = Moved(pa, b, None) /\ p0 = Moved(pb, a, None) BY <1>1, <2>1, <2>2 DEF Without, Moved, Places
  <2>4. b \in On(pa) /\ a \in On(pb) /\ pb[a] = p[a]
    BY <1>1, <1>2, <2>1, MovedPlaces DEF On
  <2>5. Sound(u, pb) /\ Put(StateOf(pb), b, p[b]) = StateOf(p) BY <2>1, TakenOut
  <2> HIDE DEF a, b, pa, pb
  <2>6. Sound(u, p0) /\ Take(StateOf(pa), b) = StateOf(p0) BY <1>3, <2>3, <2>4, TakenOut
  <2>7. Put(StateOf(p0), a, p[a]) = StateOf(pb) BY <2>3, <2>4, <2>5, TakenOut
  <2>8. TakeAll(StateOf(p), ls) = Take(Take(StateOf(p), a), b) BY <1>6, TakenTwo DEF a, b
  <2>9. TakeAll(StateOf(p), ls) = StateOf(p0) BY <1>3, <2>6, <2>8
  <2>10. PutBack(StateOf(p0), ls, StateOf(p)) = Put(Put(StateOf(p0), a, p[a]), b, p[b])
    BY <1>4, <1>6, PutBackTwo DEF a, b
  <2> QED BY <2>5, <2>6, <2>7, <2>9, <2>10
<1> QED BY <1>5, <1>6 DEF OneOrTwo

(* A timetable with a lesson put somewhere. *)
LEMMA PutIn ==
  ASSUME NEW u, NEW p, Sound(u, p), NEW l \in Lesson, p[l] = None, NEW at \in Position,
         Sound(u, Moved(p, l, at))
  PROVE  /\ Put(StateOf(p), l, at) = StateOf(Moved(p, l, at))
         /\ On(Moved(p, l, at)) = On(p) \cup {l}
<1>1. p \in Places /\ NoClash(Moved(p, l, at)) BY DEF Sound
<1> QED BY <1>1, PutLeads, OnWhenPut
-----------------------------------------------------------------------------
(* The lessons in the way *)

LEMMA LeastOf ==
  ASSUME NEW S \in SUBSET Nat, S # {}
  PROVE  Min(S) \in S
<1>1. \E x \in S : \A y \in S : x <= y BY LeastNatural
<1> QED BY <1>1 DEF Min

(* A sequence of the one or two members of a set, in the order of their     *)
(* ranks.                                                                  *)
LEMMA InOrder ==
  ASSUME NEW S, IsFiniteSet(S), Cardinality(S) \in {1, 2}, NEW rank,
         \A x \in S : rank[x] \in Nat,
         \A x, y \in S : x # y => rank[x] # rank[y],
         NEW q, q = CHOOSE f \in [1 .. Cardinality(S) -> S] :
                       \A i, j \in 1 .. Cardinality(S) : i < j => rank[f[i]] < rank[f[j]]
  PROVE  /\ DOMAIN q = {1} \/ (DOMAIN q = {1, 2} /\ q[1] # q[2])
         /\ \A i \in DOMAIN q : q[i] \in S
<1> DEFINE Ordered(f) == \A i, j \in 1 .. Cardinality(S) : i < j => rank[f[i]] < rank[f[j]]
<1>1. \E f \in [1 .. Cardinality(S) -> S] : Ordered(f)
  <2>1. CASE Cardinality(S) = 1
    <3>1. PICK x : S = {x} BY <2>1, FS_Singleton
    <3>2. [i \in 1 .. 1 |-> x] \in [1 .. 1 -> S] BY <3>1
    <3>3. \A i, j \in 1 .. 1 : ~(i < j) OBVIOUS
    <3>4. Ordered([i \in 1 .. 1 |-> x]) BY <2>1, <3>3
    <3> QED BY <2>1, <3>2, <3>4
  <2>2. CASE Cardinality(S) = 2
    <3>1. S # {} BY <2>2, FS_EmptySet
    <3>2. PICK x \in S : TRUE BY <3>1
    <3>3. Cardinality(S \ {x}) = 1 /\ IsFiniteSet(S \ {x}) BY <2>2, <3>2, FS_RemoveElement
    <3>4. PICK y : S \ {x} = {y} BY <3>3, FS_Singleton
    <3>5. y \in S /\ y # x BY <3>4
    <3>6. PICK a \in S, b \in S : rank[a] < rank[b]
      <4>1. rank[x] \in Nat /\ rank[y] \in Nat /\ rank[x] # rank[y] BY <3>2, <3>5
      <4>2. rank[x] < rank[y] \/ rank[y] < rank[x] BY <4>1
      <4> QED BY <3>2, <3>5, <4>2
    <3> DEFINE f == [i \in 1 .. 2 |-> IF i = 1 THEN a ELSE b]
    <3>7. f \in [1 .. 2 -> S] BY <3>6
    <3>8. \A i, j \in 1 .. 2 : i < j => i = 1 /\ j = 2 OBVIOUS
    <3>9. f[1] = a /\ f[2] = b OBVIOUS
    <3> HIDE DEF f
    <3>10. Ordered(f) BY <2>2, <3>6, <3>8, <3>9
    <3> QED BY <2>2, <3>7, <3>10
  <2> QED BY <2>1, <2>2
<1>2. q \in [1 .. Cardinality(S) -> S] /\ Ordered(q) BY <1>1
<1>3. CASE Cardinality(S) = 1
  <2>1. DOMAIN q = {1} BY <1>2, <1>3
  <2> QED BY <1>2, <2>1
<1>4. CASE Cardinality(S) = 2
  <2>1. DOMAIN q = {1, 2} BY <1>2, <1>4
  <2>2. rank[q[1]] < rank[q[2]] BY <1>2, <1>4
  <2>3. q[1] \in S /\ q[2] \in S BY <1>2, <2>1
  <2>4. q[1] # q[2] BY <2>2, <2>3
  <2> QED BY <1>2, <2>1, <2>4
<1> QED BY <1>3, <1>4

(* Each cell names nobody or a lesson that is placed. *)
LEMMA CellsName ==
  ASSUME NEW p, NEW slot \in Slot, NEW k \in Class, NEW t \in Teacher
  PROVE  /\ ClassMap(p)[k][slot] # None => ClassMap(p)[k][slot] \in On(p)
         /\ StaffMap(p)[t][slot] # None => StaffMap(p)[t][slot] \in On(p)
<1>1. ClassMap(p)[k][slot] = HolderOf(Held(p, OfClass(k), slot)) BY DEF ClassMap
<1>2. StaffMap(p)[t][slot] = HolderOf(Held(p, OfTeacher(t), slot)) BY DEF StaffMap
<1>3. Held(p, OfClass(k), slot) \subseteq On(p) BY DEF Held, OfClass, On
<1>4. Held(p, OfTeacher(t), slot) \subseteq On(p) BY DEF Held, OfTeacher, On
<1>5. On(p) \subseteq Lesson BY DEF On
<1> QED BY <1>1, <1>2, <1>3, <1>4, <1>5, HolderIsHeld

LEMMA BlockersAreOneOrTwo ==
  ASSUME NEW p, Sound(staffUnavailable, p), state = StateOf(p), NEW l \in Lesson,
         NEW day \in Day, NEW start \in Period, WorthTrying(l, day, start),
         NEW ev, ev = Blockers(l, day, start)
  PROVE  OneOrTwo(p, ev)
<1> DEFINE met == Met(l, day, start)
           S == InTheWay(l, day, start)
           InClass(n) == state.occ.classBusy[ClassOf[l]][<<day, n>>]
           WithTeacher(n) == state.occ.staffBusy[TeacherOf[l]][<<day, n>>]
           Name(x) == x # None => x \in On(p)
<1>1. start \in Nat /\ Length[l] \in {1, 2} /\ ClassOf[l] \in Class /\ TeacherOf[l] \in Teacher
  BY PeriodsAreFinite, LessonAssumption
<1>2. Length[l] = 2 => start + 1 \in Period
  <2>1. start + 2 - 1 = start + 1 BY <1>1
  <2> QED BY <2>1 DEF WorthTrying, Contiguous
<1>3. ASSUME NEW n \in Period PROVE Name(InClass(n)) /\ Name(WithTeacher(n))
  <2>1. <<day, n>> \in Slot BY DEF Slot
  <2>2. state.occ = OccOf(p) BY StateFields
  <2>3. OccOf(p).classBusy = ClassMap(p) /\ OccOf(p).staffBusy = StaffMap(p) BY DEF OccOf
  <2>4. InClass(n) = ClassMap(p)[ClassOf[l]][<<day, n>>]
        /\ WithTeacher(n) = StaffMap(p)[TeacherOf[l]][<<day, n>>]
    BY <2>2, <2>3, Zenon
  <2> HIDE DEF InClass, WithTeacher
  <2> QED BY <1>1, <2>1, <2>4, CellsName
<1> HIDE DEF Name
<1>4. DOMAIN met = 1 .. 2 * Length[l] /\ \A i \in DOMAIN met : Name(met[i])
  <2>1. CASE Length[l] = 1
    <3>1. met = <<InClass(start), WithTeacher(start)>> BY <2>1 DEF Met
    <3>2. Name(InClass(start)) /\ Name(WithTeacher(start)) BY <1>3
    <3> HIDE DEF met, InClass, WithTeacher
    <3>3. DOMAIN met = 1 .. 2 /\ met[1] = InClass(start) /\ met[2] = WithTeacher(start) BY <3>1
    <3>4. \A i \in 1 .. 2 : i = 1 \/ i = 2 OBVIOUS
    <3> QED BY <2>1, <3>2, <3>3, <3>4
  <2>2. CASE Length[l] = 2
    <3>1. met = <<InClass(start), WithTeacher(start), InClass(start + 1), WithTeacher(start + 1)>>
      BY <2>2 DEF Met
    <3>2. Name(InClass(start)) /\ Name(WithTeacher(start)) BY <1>3
    <3>3. Name(InClass(start + 1)) /\ Name(WithTeacher(start + 1)) BY <1>2, <1>3, <2>2
    <3> HIDE DEF met, InClass, WithTeacher
    <3>4. /\ DOMAIN met = 1 .. 4 /\ met[1] = InClass(start) /\ met[2] = WithTeacher(start)
          /\ met[3] = InClass(start + 1) /\ met[4] = WithTeacher(start + 1)
      BY <3>1
    <3>5. \A i \in 1 .. 4 : i = 1 \/ i = 2 \/ i = 3 \/ i = 4 OBVIOUS
    <3> QED BY <2>2, <3>2, <3>3, <3>4, <3>5
  <2> QED BY <1>1, <2>1, <2>2
<1>5. S = {met[i] : i \in DOMAIN met} \ {None} BY DEF InTheWay, Range
<1>6. ev = CHOOSE q \in [1 .. Cardinality(S) -> S] :
             \A i, j \in 1 .. Cardinality(S) : i < j =>
                Min({n \in 1 .. 2 * Length[l] : met[n] = q[i]}) < Min({n \in 1 .. 2 * Length[l] : met[n] = q[j]})
  BY DEF Blockers
<1>7. Cardinality(S) \in {1, 2} BY DEF WorthTrying
<1> DEFINE First(x) == Min({n \in 1 .. 2 * Length[l] : met[n] = x})
           rank == [x \in S |-> First(x)]
<1> HIDE DEF met, S
<1>8. S \subseteq On(p) BY <1>4, <1>5 DEF Name
<1>9. IsFiniteSet(S)
  <2>1. On(p) \subseteq Lesson BY DEF On
  <2> QED BY <1>8, <2>1, FinitenessAssumption, FS_Subset
<1>10. ASSUME NEW x \in S PROVE First(x) \in Nat /\ met[First(x)] = x
  <2> DEFINE T == {n \in 1 .. 2 * Length[l] : met[n] = x}
  <2>1. T \in SUBSET Nat /\ T # {} BY <1>1, <1>4, <1>5
  <2>2. Min(T) \in T
    <3> HIDE DEF T
    <3> QED BY <2>1, LeastOf
  <2> QED BY <1>1, <2>2
<1> HIDE DEF First
<1>11. \A x \in S : rank[x] \in Nat BY <1>10
<1>12. \A x, y \in S : x # y => rank[x] # rank[y] BY <1>10
<1>13. ev = CHOOSE q \in [1 .. Cardinality(S) -> S] :
             \A i, j \in 1 .. Cardinality(S) : i < j => rank[q[i]] < rank[q[j]]
  <2>1. ASSUME NEW q \in [1 .. Cardinality(S) -> S], NEW i \in 1 .. Cardinality(S)
        PROVE  rank[q[i]] = First(q[i])
    OBVIOUS
  <2> DEFINE A(q) == \A i, j \in 1 .. Cardinality(S) : i < j => First(q[i]) < First(q[j])
             B(q) == \A i, j \in 1 .. Cardinality(S) : i < j => rank[q[i]] < rank[q[j]]
  <2>2. \A q \in [1 .. Cardinality(S) -> S] : A(q) <=> B(q) BY <2>1, Zenon
  <2>3. ev = CHOOSE q \in [1 .. Cardinality(S) -> S] : A(q) BY <1>6 DEF First
  <2> HIDE DEF A, B
  <2>4. ev = CHOOSE q \in [1 .. Cardinality(S) -> S] : B(q) BY <2>2, <2>3
  <2> QED BY <2>4 DEF B
<1> HIDE DEF rank
<1>14. /\ DOMAIN ev = {1} \/ (DOMAIN ev = {1, 2} /\ ev[1] # ev[2])
       /\ \A i \in DOMAIN ev : ev[i] \in S
  BY <1>7, <1>9, <1>11, <1>12, <1>13, InOrder
<1> QED BY <1>8, <1>14 DEF OneOrTwo
-----------------------------------------------------------------------------
(* tryEject *)

AllHomed(p, h) == [ok |-> TRUE, homed |-> h, s |-> StateOf(p)]
NoHomeFor(p, h) == [ok |-> FALSE, homed |-> h, s |-> StateOf(p)]

(* What a round makes of a timetable without a. *)
HomedOrNot(u, p, h, a, r) ==
    \/ r = NoHomeFor(p, h)
    \/ \E c \in Position : Sound(u, Moved(p, a, c)) /\ r = AllHomed(Moved(p, a, c), Append(h, a))

LEMMA RehomedSoundly ==
  ASSUME NEW p, Sound(staffUnavailable, p), NEW a \in Lesson, p[a] = None, NEW h
  PROVE  HomedOrNot(staffUnavailable, p, h, a, Rehomed(AllHomed(p, h), a))
<1> USE DEF AllHomed, NoHomeFor
<1> DEFINE r == Rehomed(AllHomed(p, h), a)
<1> DEFINE options == Candidates(OccOf(p), a)
           c == BestCandidate(StateOf(p), a, options)
<1>1. StateOf(p).occ = OccOf(p) BY StateFields
<1>2. ASSUME options = {} PROVE HomedOrNot(staffUnavailable, p, h, a, r)
  <2>1. r = [[ok |-> TRUE, homed |-> h, s |-> StateOf(p)] EXCEPT !.ok = FALSE] BY <1>1, <1>2 DEF Rehomed
  <2> QED BY <2>1 DEF HomedOrNot
<1>3. ASSUME options # {} PROVE HomedOrNot(staffUnavailable, p, h, a, r)
  <2>1. r = [ok |-> TRUE, homed |-> Append(h, a), s |-> Put(StateOf(p), a, c)] BY <1>1, <1>3 DEF Rehomed
  <2>2. c \in options BY <1>3, BestIsACandidate
  <2> HIDE DEF c
  <2>3. c \in Position /\ Sound(staffUnavailable, Moved(p, a, c)) BY <2>2, CandidatesAreSound
  <2>4. Put(StateOf(p), a, c) = StateOf(Moved(p, a, c)) BY <2>3, PutIn
  <2> QED BY <2>1, <2>3, <2>4 DEF HomedOrNot
<1> QED BY <1>2, <1>3 DEF r

LEMMA RehomeIsSound ==
  ASSUME NEW p, Sound(staffUnavailable, p), NEW ls,
         DOMAIN ls = {1} \/ (DOMAIN ls = {1, 2} /\ ls[1] # ls[2]),
         \A i \in DOMAIN ls : ls[i] \in Lesson /\ p[ls[i]] = None,
         NEW r, r = Rehome(StateOf(p), ls)
  PROVE  \/ r.ok = FALSE /\ TakeAll(r.s, r.homed) = StateOf(p)
         \/ r.ok = TRUE /\ \E pn : /\ Sound(staffUnavailable, pn) /\ r.s = StateOf(pn)
                                   /\ On(pn) = On(p) \cup ToSet(ls)
<1> DEFINE a == ls[1]
           r1 == Rehomed(AllHomed(p, <<>>), a)
<1>1. a \in Lesson /\ p[a] = None /\ p \in Places BY DEF Sound
<1>2. HomedOrNot(staffUnavailable, p, <<>>, a, r1)
  <2> HIDE DEF a
  <2> QED BY <1>1, RehomedSoundly
<1> HIDE DEF r1
<1>3. CASE r1 = NoHomeFor(p, <<>>)
  <2>1. r = r1
    <3>1. CASE DOMAIN ls = {1} BY <3>1, RehomedOne DEF r1, AllHomed
    <3>2. CASE DOMAIN ls = {1, 2}
      <4>1. r = Rehomed(r1, ls[2]) BY <3>2, RehomedTwo DEF r1, AllHomed
      <4>2. Rehomed(r1, ls[2]) = [r1 EXCEPT !.ok = FALSE] BY <1>3 DEF Rehomed, NoHomeFor
      <4> QED BY <1>3, <4>1, <4>2 DEF NoHomeFor
    <3> QED BY <3>1, <3>2
  <2>2. r.ok = FALSE /\ r.homed = <<>> /\ r.s = StateOf(p) BY <1>3, <2>1 DEF NoHomeFor
  <2>3. TakeAll(StateOf(p), <<>>) = StateOf(p) BY TakenNone
  <2> QED BY <2>2, <2>3
<1>4. ASSUME NEW c \in Position, Sound(staffUnavailable, Moved(p, a, c)),
             r1 = AllHomed(Moved(p, a, c), Append(<<>>, a))
      PROVE  \/ r.ok = FALSE /\ TakeAll(r.s, r.homed) = StateOf(p)
             \/ r.ok = TRUE /\ \E pn : /\ Sound(staffUnavailable, pn) /\ r.s = StateOf(pn)
                                       /\ On(pn) = On(p) \cup ToSet(ls)
  <2> DEFINE p1 == Moved(p, a, c)
  <2>1. On(p1) = On(p) \cup {a} BY <1>1, OnWhenPut
  <2>2. CASE DOMAIN ls = {1}
    <3>1. r = r1 BY <2>2, RehomedOne DEF r1, AllHomed
    <3>2. ToSet(ls) = {a} BY <2>2 DEF ToSet
    <3>3. r.ok = TRUE /\ r.s = StateOf(p1) BY <1>4, <3>1 DEF AllHomed
    <3> QED BY <1>4, <2>1, <3>2, <3>3
  <2>3. CASE DOMAIN ls = {1, 2} /\ ls[1] # ls[2]
    <3> DEFINE b == ls[2]
    <3>1. b \in Lesson /\ p[b] = None /\ b # a BY <2>3
    <3>2. ToSet(ls) = {a, b} BY <2>3 DEF ToSet
    <3>3. p1[b] = None BY <1>1, <3>1, MovedPlaces
    <3>4. r = Rehomed(AllHomed(p1, Append(<<>>, a)), b)
      <4>1. r = Rehomed(r1, ls[2]) BY <2>3, RehomedTwo DEF r1, AllHomed
      <4> QED BY <1>4, <4>1
    <3> HIDE DEF a, b, p1
    <3>5. Sound(staffUnavailable, p1) BY <1>4 DEF p1
    <3>6. HomedOrNot(staffUnavailable, p1, Append(<<>>, a), b, r)
      BY <3>1, <3>3, <3>4, <3>5, RehomedSoundly
    <3>7. CASE r = NoHomeFor(p1, Append(<<>>, a))
      <4> DEFINE one == Append(<<>>, a)
      <4>1. r.ok = FALSE /\ r.homed = one /\ r.s = StateOf(p1) BY <3>7 DEF NoHomeFor
      <4>2. DOMAIN one = {1} /\ one[1] = a OBVIOUS
      <4> HIDE DEF one
      <4>3. TakeAll(StateOf(p1), one) = Take(StateOf(p1), a) BY <4>2, TakenOne
      <4>4. a \in On(p1) /\ Moved(p1, a, None) = p
        <5>1. a \in On(p1) BY <2>1
        <5>2. Moved(p1, a, None) = p BY <1>1 DEF p1, Moved, Places
        <5> QED BY <5>1, <5>2
      <4>5. Take(StateOf(p1), a) = StateOf(p) BY <1>4, <4>4, TakenOut DEF p1
      <4> QED BY <4>1, <4>3, <4>5
    <3>8. ASSUME NEW d \in Position, Sound(staffUnavailable, Moved(p1, b, d)),
                 r = AllHomed(Moved(p1, b, d), Append(Append(<<>>, a), b))
          PROVE  r.ok = TRUE /\ \E pn : /\ Sound(staffUnavailable, pn) /\ r.s = StateOf(pn)
                                        /\ On(pn) = On(p) \cup ToSet(ls)
      <4>1. p1 \in Places BY <1>4 DEF Sound, p1
      <4>2. On(Moved(p1, b, d)) = On(p1) \cup {b} BY <3>1, <3>3, <4>1, OnWhenPut
      <4>3. On(Moved(p1, b, d)) = On(p) \cup ToSet(ls) BY <2>1, <3>2, <4>2
      <4>4. r.ok = TRUE /\ r.s = StateOf(Moved(p1, b, d)) BY <3>8 DEF AllHomed
      <4> QED BY <3>8, <4>3, <4>4
    <3> QED BY <3>6, <3>7, <3>8 DEF HomedOrNot
  <2> QED BY <2>2, <2>3
<1> QED BY <1>2, <1>3, <1>4 DEF HomedOrNot

(* An ejection gets its lesson in and loses none, or changes nothing. *)
AllOrNothing(u, p, l, e) ==
    \/ e.ok = FALSE /\ e.s = StateOf(p)
    \/ e.ok = TRUE /\ \E pn : Sound(u, pn) /\ e.s = StateOf(pn) /\ On(pn) = On(p) \cup {l}

LEMMA EjectedSoundly ==
  ASSUME NEW p, Sound(staffUnavailable, p), state = StateOf(p), NEW l \in Lesson, p[l] = None,
         NEW day, NEW start, NEW ev, OneOrTwo(p, ev)
  PROVE  AllOrNothing(staffUnavailable, p, l, Ejected(l, day, start, ev))
<1> DEFINE p0 == Without(p, ToSet(ev))
           emptied == TakeAll(state, ev)
           fit == {c \in Candidates(emptied.occ, l) : c.day = day /\ c.start = start}
           c == CHOOSE c \in fit : TRUE
           forced == Put(emptied, l, c)
           r == Rehome(forced, ev)
           e == Ejected(l, day, start, ev)
<1>1. Sound(staffUnavailable, p0) /\ emptied = StateOf(p0)
      /\ PutBack(StateOf(p0), ev, StateOf(p)) = StateOf(p)
  BY TakenAndPutBack
<1>2. e = IF fit = {} THEN [ok |-> FALSE, s |-> PutBack(emptied, ev, state)]
          ELSE IF r.ok THEN [ok |-> TRUE, s |-> r.s]
          ELSE [ok |-> FALSE, s |-> PutBack(Take(TakeAll(r.s, r.homed), l), ev, state)]
  BY DEF Ejected
<1>3. p0[l] = None BY DEF Without
<1>4. fit \subseteq Candidates(OccOf(p0), l) BY <1>1, StateFields
<1> HIDE DEF p0, emptied, fit, r, e
<1>5. CASE fit = {} BY <1>1, <1>2, <1>5 DEF AllOrNothing, e
<1>6. CASE fit # {}
  <2> DEFINE pf == Moved(p0, l, c)
  <2>1. c \in fit BY <1>6
  <2> HIDE DEF c
  <2>2. c \in Position /\ Sound(staffUnavailable, pf) BY <1>1, <1>3, <1>4, <2>1, CandidatesAreSound
  <2>3. forced = StateOf(pf) /\ On(pf) = On(p0) \cup {l} BY <1>1, <1>3, <2>2, PutIn
  <2>4. /\ DOMAIN ev = {1} \/ (DOMAIN ev = {1, 2} /\ ev[1] # ev[2])
        /\ \A i \in DOMAIN ev : ev[i] \in Lesson /\ ev[i] # l
    BY DEF OneOrTwo, On
  <2>5. \A i \in DOMAIN ev : ev[i] \in Lesson /\ pf[ev[i]] = None
    <3> TAKE i \in DOMAIN ev
    <3>1. ev[i] \in ToSet(ev) BY DEF ToSet
    <3>2. p0[ev[i]] = None BY <2>4, <3>1 DEF p0, Without
    <3>3. p0 \in Places BY <1>1 DEF Sound
    <3> QED BY <2>2, <2>4, <3>2, <3>3, MovedPlaces
  <2>6. r = Rehome(StateOf(pf), ev) BY <2>3 DEF r
  <2> HIDE DEF pf
  <2>7. \/ r.ok = FALSE /\ TakeAll(r.s, r.homed) = StateOf(pf)
        \/ r.ok = TRUE /\ \E pn : /\ Sound(staffUnavailable, pn) /\ r.s = StateOf(pn)
                                  /\ On(pn) = On(pf) \cup ToSet(ev)
    BY <2>2, <2>4, <2>5, <2>6, RehomeIsSound
  <2>8. ASSUME r.ok = FALSE, TakeAll(r.s, r.homed) = StateOf(pf)
        PROVE  AllOrNothing(staffUnavailable, p, l, e)
    <3>1. e = [ok |-> FALSE, s |-> PutBack(Take(StateOf(pf), l), ev, StateOf(p))] BY <1>2, <1>6, <2>8
    <3>2. l \in On(pf) BY <2>3
    <3>3. Moved(pf, l, None) = p0
      <4>1. p0 \in Places BY <1>1 DEF Sound
      <4> QED BY <1>3, <4>1 DEF pf, Moved, Places
    <3>4. Take(StateOf(pf), l) = StateOf(p0) BY <2>2, <3>2, <3>3, TakenOut
    <3> QED BY <1>1, <3>1, <3>4 DEF AllOrNothing
  <2>9. ASSUME r.ok = TRUE, NEW pn, Sound(staffUnavailable, pn), r.s = StateOf(pn),
               On(pn) = On(pf) \cup ToSet(ev)
        PROVE  AllOrNothing(staffUnavailable, p, l, e)
    <3>1. e = [ok |-> TRUE, s |-> StateOf(pn)] BY <1>2, <1>6, <2>9
    <3>2. On(p0) = On(p) \ ToSet(ev) BY DEF p0, Without, On
    <3>3. ToSet(ev) \subseteq On(p) BY DEF ToSet, OneOrTwo
    <3>4. On(pn) = On(p) \cup {l} BY <2>3, <2>9, <3>2, <3>3
    <3> QED BY <2>9, <3>1, <3>4 DEF AllOrNothing
  <2> QED BY <2>7, <2>8, <2>9 DEF e
<1> QED BY <1>5, <1>6
-----------------------------------------------------------------------------
(* Annealing *)

LEMMA ResyncChangesNothing ==
  ASSUME NEW p, NEW resync
  PROVE  Resynced(StateOf(p), resync) = StateOf(p)
<1> DEFINE a == AggOf(p)
<1>1. [a EXCEPT !.soft = Score(p)] = a BY DEF AggOf, Agg
<1>2. StateOf(p) = [occ |-> OccOf(p), agg |-> a] BY DEF StateOf
<1> HIDE DEF a
<1>3. [StateOf(p) EXCEPT !.agg.soft = Score(p)] = [occ |-> OccOf(p), agg |-> [a EXCEPT !.soft = Score(p)]]
  BY <1>2
<1>4. StateOf(p).occ.placed = p BY StateFields
<1> QED BY <1>1, <1>2, <1>3, <1>4 DEF Resynced

(* What is accepted becomes the state, and the best if it is better; what   *)
(* is not leaves the state of before.                                      *)
Settled(p, pn) ==
    \/ /\ state' = StateOf(pn)
       /\ IF Score(pn) < best THEN best' = Score(pn) /\ snapshot' = pn ELSE UNCHANGED <<best, snapshot>>
    \/ state' = StateOf(p) /\ UNCHANGED <<best, snapshot>>

LEMMA JudgedSoundly ==
  ASSUME NEW p, Sound(staffUnavailable, p), state = StateOf(p), NEW ls, OneOrTwo(p, ls),
         NEW pn, Sound(staffUnavailable, pn), OneOrTwo(pn, ls),
         Without(pn, ToSet(ls)) = Without(p, ToSet(ls)), Judge(StateOf(pn), ls)
  PROVE  Settled(p, pn)
<1>1. PICK resync \in BOOLEAN : Accept(StateOf(pn), resync) \/ Undo(StateOf(pn), ls, resync) BY DEF Judge
<1>2. StateOf(pn).agg.soft = Score(pn) /\ StateOf(pn).occ.placed = pn BY StateFields
<1>3. CASE Accept(StateOf(pn), resync)
  <2>1. state' = StateOf(pn) BY <1>3, ResyncChangesNothing DEF Accept
  <2>2. IF Score(pn) < best THEN best' = Score(pn) /\ snapshot' = pn ELSE UNCHANGED <<best, snapshot>>
    BY <1>2, <1>3 DEF Accept
  <2> QED BY <2>1, <2>2 DEF Settled
<1>4. CASE Undo(StateOf(pn), ls, resync)
  <2> DEFINE p0 == Without(p, ToSet(ls))
  <2>1. TakeAll(StateOf(pn), ls) = StateOf(p0) BY TakenAndPutBack
  <2>2. PutBack(StateOf(p0), ls, StateOf(p)) = StateOf(p) BY TakenAndPutBack
  <2> HIDE DEF p0
  <2>3. state' = StateOf(p) BY <1>4, <2>1, <2>2, ResyncChangesNothing DEF Undo
  <2> QED BY <1>4, <2>3 DEF Undo, Settled
<1> QED BY <1>1, <1>3, <1>4

LEMMA RelocatedSoundly ==
  ASSUME NEW p, Sound(staffUnavailable, p), state = StateOf(p), NEW l \in On(p), Relocate(l)
  PROVE  \E pn : Sound(staffUnavailable, pn) /\ On(pn) = On(p) /\ Settled(p, pn)
<1> DEFINE q == Moved(p, l, None)
           ls == <<l>>
<1>1. Sound(staffUnavailable, q) /\ l \in Lesson /\ Take(state, l) = StateOf(q) BY TakenOut
<1>2. PICK c \in Candidates(OccOf(q), l) : Judge(Put(StateOf(q), l, c), ls)
  BY <1>1, StateFields DEF Relocate
<1>3. p \in Places /\ q \in Places /\ q[l] = None BY <1>1, MovedPlaces DEF Sound
<1> DEFINE pn == Moved(q, l, c)
<1>4. c \in Position /\ Sound(staffUnavailable, pn) BY <1>1, <1>3, CandidatesAreSound
<1>5. Put(StateOf(q), l, c) = StateOf(pn) /\ On(pn) = On(q) \cup {l} BY <1>1, <1>3, <1>4, PutIn
<1>6. On(pn) = On(p)
  <2>1. On(q) = On(p) \ {l} BY <1>1, <1>3, MovedPlaces DEF On
  <2> QED BY <1>5, <2>1
<1>7. DOMAIN ls = {1} /\ ls[1] = l /\ ToSet(ls) = {l} BY DEF ToSet
<1>8. Without(pn, {l}) = Without(p, {l})
  <2>1. \A m \in Lesson : m # l => pn[m] = p[m] BY <1>1, <1>3, <1>4, MovedPlaces
  <2> QED BY <2>1 DEF Without
<1> HIDE DEF q, ls, pn
<1>9. OneOrTwo(p, ls) /\ OneOrTwo(pn, ls) BY <1>6, <1>7 DEF OneOrTwo
<1>10. Settled(p, pn) BY <1>2, <1>4, <1>5, <1>7, <1>8, <1>9, JudgedSoundly
<1> QED BY <1>4, <1>6, <1>10

LEMMA UnmovedIsUnchanged ==
  ASSUME NEW p, Sound(staffUnavailable, p), state = StateOf(p), NEW ls, OneOrTwo(p, ls),
         Unmoved(TakeAll(state, ls), ls)
  PROVE  Settled(p, p)
<1>1. state' = StateOf(p) BY TakenAndPutBack DEF Unmoved
<1> QED BY <1>1 DEF Unmoved, Settled

LEMMA StuckIsUnchanged ==
  ASSUME NEW p, Sound(staffUnavailable, p), state = StateOf(p), NEW l \in On(p), Stuck(l)
  PROVE  Settled(p, p)
<1> DEFINE ls == <<l>>
<1>1. DOMAIN ls = {1} /\ ls[1] = l OBVIOUS
<1>2. Unmoved(Take(state, l), ls) BY DEF Stuck
<1> HIDE DEF ls
<1>3. TakeAll(state, ls) = Take(state, l) BY <1>1, TakenOne
<1>4. OneOrTwo(p, ls) BY <1>1 DEF OneOrTwo
<1> QED BY <1>2, <1>3, <1>4, UnmovedIsUnchanged
(* Two lessons of one class or of one teacher change places.  Both were     *)
(* tested with both taken out, and neither of the other's periods is one of *)
(* its own; a class or a teacher with both has as much each day as before,  *)
(* and one with only one of the two has what was tested.                   *)
InPlaceOf(p, q, room) == [day |-> p[q].day, start |-> p[q].start, room |-> room]
OneMoved(p, l, q, room) == Moved(Without(p, {l, q}), l, InPlaceOf(p, q, room))
BothMoved(p, l, q, rl, rq) == Moved(OneMoved(p, l, q, rl), q, InPlaceOf(p, l, rq))

LEMMA MovedOthers ==
  ASSUME NEW p \in Places, NEW l \in Lesson, NEW at, NEW m \in Lesson, m # l
  PROVE  Moved(p, l, at)[m] = p[m]
BY DEF Moved, Places

LEMMA WithoutBoth ==
  ASSUME NEW p \in Places, NEW l \in Lesson, NEW q \in Lesson, l # q
  PROVE  /\ Without(p, {l, q}) \in Places
         /\ Without(p, {l, q})[l] = None /\ Without(p, {l, q})[q] = None
         /\ Moved(p, q, None) \in Places /\ Moved(p, q, None)[q] = None
         /\ Without(p, {l, q}) = Moved(Moved(p, q, None), l, None)
         /\ Moved(p, q, None) = Moved(Without(p, {l, q}), l, p[l])
         /\ p = Moved(Moved(p, q, None), q, p[q])
<1>1. /\ Without(p, {l, q}) \in Places
      /\ Without(p, {l, q})[l] = None /\ Without(p, {l, q})[q] = None
  BY DEF Without, Places
<1>2. Moved(p, q, None) \in Places /\ Moved(p, q, None)[q] = None BY DEF Moved, Places
<1>3. Without(p, {l, q}) = Moved(Moved(p, q, None), l, None) BY DEF Moved, Without, Places
<1>4. Moved(p, q, None) = Moved(Without(p, {l, q}), l, p[l]) BY DEF Moved, Without, Places
<1>5. p = Moved(Moved(p, q, None), q, p[q]) BY DEF Moved, Places
<1> QED BY <1>1, <1>2, <1>3, <1>4, <1>5

LEMMA TaughtWhenExchanged ==
  ASSUME NEW p \in Places, NEW l \in On(p), NEW q \in On(p), l # q, Length[q] = Length[l],
         NEW rl, NEW rq, InPlaceOf(p, q, rl) \in Position, InPlaceOf(p, l, rq) \in Position,
         NEW S \in SUBSET Lesson, NEW d
  PROVE  TaughtOn(BothMoved(p, l, q, rl, rq), S, d) \in
           {TaughtOn(p, S, d), TaughtOn(OneMoved(p, l, q, rl), S, d), TaughtOn(OneMoved(p, q, l, rq), S, d)}
<1> DEFINE p0 == Without(p, {l, q})
           pq == Moved(p, q, None)
           al == InPlaceOf(p, q, rl)
           aq == InPlaceOf(p, l, rq)
           p1 == Moved(p0, l, al)
           p3 == Moved(p0, q, aq)
           p2 == Moved(p1, q, aq)
           len == Length[l]
           a == p[l]
           b == p[q]
<1>1. l \in Lesson /\ q \in Lesson /\ a \in Position /\ b \in Position BY DEF On, Places
<1>2. al.day = b.day /\ aq.day = a.day /\ al \in Position /\ aq \in Position BY DEF InPlaceOf
<1>3. /\ p0 \in Places /\ p0[l] = None /\ p0[q] = None /\ pq \in Places /\ pq[q] = None
      /\ pq = Moved(p0, l, a) /\ p = Moved(pq, q, b)
  BY <1>1, WithoutBoth
<1>4. OneMoved(p, l, q, rl) = p1 /\ BothMoved(p, l, q, rl, rq) = p2 /\ OneMoved(p, q, l, rq) = p3
  <2>1. {q, l} = {l, q} OBVIOUS
  <2> QED BY <2>1 DEF OneMoved, BothMoved
<1> HIDE DEF p0, pq, al, aq, a, b
<1>5. p1 \in Places /\ p1[q] = None
  <2>1. p1 \in Places BY <1>1, <1>2, <1>3, MovedPlaces
  <2>2. p1[q] = p0[q] BY <1>1, <1>3, MovedOthers
  <2> QED BY <1>3, <2>1, <2>2
<1>6. len \in Nat /\ Length[q] = len BY <1>1, LessonAssumption
<1>7. TaughtOn(p0, S, d) \in Nat BY TaughtIsNatural
<1>8. TaughtOn(p1, S, d) = TaughtOn(p0, S, d) + (IF l \in S /\ b.day = d THEN len ELSE 0)
  BY <1>1, <1>2, <1>3, TaughtWhenPut
<1> HIDE DEF p1
<1>9. TaughtOn(p2, S, d) = TaughtOn(p1, S, d) + (IF q \in S /\ a.day = d THEN len ELSE 0)
  BY <1>1, <1>2, <1>5, <1>6, TaughtWhenPut
<1>10. TaughtOn(p3, S, d) = TaughtOn(p0, S, d) + (IF q \in S /\ a.day = d THEN len ELSE 0)
  BY <1>1, <1>2, <1>3, <1>6, TaughtWhenPut
<1> HIDE DEF p2, p3
<1>11. TaughtOn(pq, S, d) = TaughtOn(p0, S, d) + (IF l \in S /\ a.day = d THEN len ELSE 0)
  BY <1>1, <1>3, TaughtWhenPut
<1>12. TaughtOn(p, S, d) = TaughtOn(pq, S, d) + (IF q \in S /\ b.day = d THEN len ELSE 0)
  BY <1>1, <1>3, <1>6, TaughtWhenPut
<1> HIDE DEF len
<1>13. CASE l \in S /\ q \in S
  <2>1. TaughtOn(p2, S, d) = TaughtOn(p, S, d) BY <1>6, <1>7, <1>8, <1>9, <1>11, <1>12, <1>13
  <2> QED BY <1>4, <2>1
<1>14. CASE q \notin S
  <2>1. TaughtOn(p2, S, d) = TaughtOn(p1, S, d) BY <1>6, <1>7, <1>8, <1>9, <1>14
  <2> QED BY <1>4, <2>1
<1>15. CASE l \notin S
  <2>1. TaughtOn(p2, S, d) = TaughtOn(p3, S, d) BY <1>6, <1>7, <1>8, <1>9, <1>10, <1>15
  <2> QED BY <1>4, <2>1
<1> QED BY <1>13, <1>14, <1>15

(* Sound is what holds of any two lessons, of each, and of each day's count. *)
LEMMA SoundInParts ==
  ASSUME NEW u, NEW p, NEW p1, NEW p3, Sound(u, p), Sound(u, p1), Sound(u, p3),
         NEW p2 \in Places, NEW l \in Lesson, NEW q \in Lesson, l # q,
         \A m \in Lesson : m # q => p2[m] = p1[m], \A m \in Lesson : m # l => p2[m] = p3[m],
         At(p2, l) \cap At(p2, q) = {},
         \A S \in SUBSET Lesson : \A d :
            TaughtOn(p2, S, d) \in {TaughtOn(p, S, d), TaughtOn(p1, S, d), TaughtOn(p3, S, d)}
  PROVE  Sound(u, p2)
<1>1. NoClash(p2)
  <2> SUFFICES ASSUME NEW x \in Lesson, NEW y \in Lesson, p2[x] # None, p2[y] # None, x # y,
                      At(p2, x) \cap At(p2, y) # {}
               PROVE  /\ ClassOf[x] # ClassOf[y] /\ TeacherOf[x] # TeacherOf[y]
                      /\ p2[x].room = p2[y].room => p2[x].room = NoRoom
    BY DEF NoClash
  <2>1. CASE x # q /\ y # q
    <3>1. p2[x] = p1[x] /\ p2[y] = p1[y] BY <2>1
    <3>2. At(p2, x) = At(p1, x) /\ At(p2, y) = At(p1, y) BY <3>1 DEF At
    <3>3. NoClash(p1) BY DEF Sound
    <3> QED BY <3>1, <3>2, <3>3 DEF NoClash
  <2>2. CASE x # l /\ y # l
    <3>1. p2[x] = p3[x] /\ p2[y] = p3[y] BY <2>2
    <3>2. At(p2, x) = At(p3, x) /\ At(p2, y) = At(p3, y) BY <3>1 DEF At
    <3>3. NoClash(p3) BY DEF Sound
    <3> QED BY <3>1, <3>2, <3>3 DEF NoClash
  <2> QED BY <2>1, <2>2
<1>2. WithinLimits(p) /\ WithinLimits(p1) /\ WithinLimits(p3) BY DEF Sound
<1>3. WithinLimits(p2)
  <2>1. ASSUME NEW d \in Day, MaxPerClass # NoLimit, NEW k \in Class
        PROVE  TaughtOn(p2, {m \in Lesson : ClassOf[m] = k}, d) <= MaxPerClass
    <3> DEFINE S == {m \in Lesson : ClassOf[m] = k}
    <3>1. TaughtOn(p, S, d) <= MaxPerClass /\ TaughtOn(p1, S, d) <= MaxPerClass
          /\ TaughtOn(p3, S, d) <= MaxPerClass
      BY <1>2, <2>1 DEF WithinLimits
    <3>2. S \in SUBSET Lesson OBVIOUS
    <3> HIDE DEF S
    <3>3. TaughtOn(p2, S, d) <= MaxPerClass BY <3>1, <3>2
    <3> QED BY <3>3 DEF S
  <2>2. ASSUME NEW d \in Day, NEW t \in Teacher, MaxPerTeacher[t] # NoLimit
        PROVE  TaughtOn(p2, {m \in Lesson : TeacherOf[m] = t}, d) <= MaxPerTeacher[t]
    <3> DEFINE S == {m \in Lesson : TeacherOf[m] = t}
    <3>1. TaughtOn(p, S, d) <= MaxPerTeacher[t] /\ TaughtOn(p1, S, d) <= MaxPerTeacher[t]
          /\ TaughtOn(p3, S, d) <= MaxPerTeacher[t]
      BY <1>2, <2>2 DEF WithinLimits
    <3>2. S \in SUBSET Lesson OBVIOUS
    <3> HIDE DEF S
    <3>3. TaughtOn(p2, S, d) <= MaxPerTeacher[t] BY <3>1, <3>2
    <3> QED BY <3>3 DEF S
  <2> QED BY <2>1, <2>2 DEF WithinLimits
<1>4. \A m \in Lesson : p2[m] # None => SuitsAt(u, m, p2[m])
  <2> TAKE m \in Lesson
  <2>1. CASE m # q
    <3>1. p2[m] = p1[m] BY <2>1
    <3> QED BY <3>1 DEF Sound
  <2>2. CASE m # l
    <3>1. p2[m] = p3[m] BY <2>2
    <3> QED BY <3>1 DEF Sound
  <2> QED BY <2>1, <2>2
<1> QED BY <1>1, <1>3, <1>4 DEF Sound

LEMMA ExchangeIsSound ==
  ASSUME NEW p, Sound(staffUnavailable, p), NEW l \in On(p), NEW q \in On(p), l # q,
         Length[q] = Length[l], ClassOf[q] = ClassOf[l] \/ TeacherOf[q] = TeacherOf[l],
         NEW rl, rl = CanPlace(OccOf(Without(p, {l, q})), l, p[q].day, p[q].start), rl # Unfit,
         NEW rq, rq = CanPlace(OccOf(Without(p, {l, q})), q, p[l].day, p[l].start), rq # Unfit
  PROVE  /\ InPlaceOf(p, q, rl) \in Position /\ InPlaceOf(p, l, rq) \in Position
         /\ Without(p, {l, q})[l] = None /\ OneMoved(p, l, q, rl)[q] = None
         /\ Sound(staffUnavailable, Without(p, {l, q}))
         /\ Sound(staffUnavailable, OneMoved(p, l, q, rl))
         /\ Sound(staffUnavailable, BothMoved(p, l, q, rl, rq))
<1> DEFINE p0 == Without(p, {l, q})
           pq == Moved(p, q, None)
           al == InPlaceOf(p, q, rl)
           aq == InPlaceOf(p, l, rq)
           p1 == Moved(p0, l, al)
           p3 == Moved(p0, q, aq)
           p2 == Moved(p1, q, aq)
           a == p[l]
           b == p[q]
<1>1. p \in Places /\ l \in Lesson /\ q \in Lesson /\ a \in Position /\ b \in Position
  BY DEF Sound, On, Places
<1>2. a.day \in Day /\ a.start \in Period /\ b.day \in Day /\ b.start \in Period BY <1>1, PositionFields
<1>3. p0 \in Places /\ p0[l] = None /\ p0[q] = None /\ p0 = Moved(pq, l, None) BY <1>1, WithoutBoth
<1>4. Sound(staffUnavailable, p0)
  <2>1. Sound(staffUnavailable, pq) BY <1>1, RemovalKeepsSound
  <2> HIDE DEF pq, p0
  <2> QED BY <1>1, <1>3, <2>1, RemovalKeepsSound
<1>5. rl = CanPlace(OccOf(p0), l, b.day, b.start) /\ rq = CanPlace(OccOf(p0), q, a.day, a.start) OBVIOUS
<1>6. /\ al = [day |-> b.day, start |-> b.start, room |-> rl]
      /\ aq = [day |-> a.day, start |-> a.start, room |-> rq]
  BY DEF InPlaceOf
<1>7. OneMoved(p, l, q, rl) = p1 /\ BothMoved(p, l, q, rl, rq) = p2 /\ OneMoved(p, q, l, rq) = p3
  <2>1. {q, l} = {l, q} OBVIOUS
  <2> QED BY <2>1 DEF OneMoved, BothMoved
<1> HIDE DEF p0, al, aq, a, b, p1, p2, p3
<1>8. al \in Position /\ Sound(staffUnavailable, p1)
  BY <1>1, <1>2, <1>3, <1>4, <1>5, <1>6, CanPlaceIsSound DEF p1
<1>9. aq \in Position /\ Sound(staffUnavailable, p3)
  BY <1>1, <1>2, <1>3, <1>4, <1>5, <1>6, CanPlaceIsSound DEF p3
<1>10. p1 \in Places /\ p1[l] = al /\ \A m \in Lesson : m # l => p1[m] = p0[m]
  <2>1. p1 \in Places /\ p1[l] = al BY <1>1, <1>3, <1>8, MovedPlaces DEF p1
  <2>2. \A m \in Lesson : m # l => p1[m] = p0[m] BY <1>1, <1>3, MovedOthers DEF p1
  <2> QED BY <2>1, <2>2
<1>11. p3[q] = aq /\ \A m \in Lesson : m # q => p3[m] = p0[m]
  <2>1. p3[q] = aq BY <1>1, <1>3, <1>9, MovedPlaces DEF p3
  <2>2. \A m \in Lesson : m # q => p3[m] = p0[m] BY <1>1, <1>3, MovedOthers DEF p3
  <2> QED BY <2>1, <2>2
<1>12. p2 \in Places /\ p2[q] = aq /\ \A m \in Lesson : m # q => p2[m] = p1[m]
  <2>1. p2 \in Places /\ p2[q] = aq BY <1>1, <1>9, <1>10, MovedPlaces DEF p2
  <2>2. \A m \in Lesson : m # q => p2[m] = p1[m] BY <1>1, <1>10, MovedOthers DEF p2
  <2> QED BY <2>1, <2>2
<1>13. /\ \A m \in Lesson : m # q => p2[m] = p1[m]
       /\ \A m \in Lesson : m # l => p2[m] = p3[m]
  BY <1>1, <1>10, <1>11, <1>12
<1>14. At(p2, l) \cap At(p2, q) = {}
  <2>1. p2[l] = al /\ p2[q] = aq BY <1>1, <1>10, <1>12
  <2>2. Cells(l, al) = At(p, q) /\ Cells(q, aq) = At(p, l) BY DEF Cells, At, al, aq, InPlaceOf
  <2>3. At(p2, l) = At(p, q) /\ At(p2, q) = At(p, l) BY <2>1, <2>2 DEF At
  <2>4. At(p, l) \cap At(p, q) = {}
    <3>1. l \in {x \in Lesson : p[x] # None} /\ q \in {x \in Lesson : p[x] # None} BY DEF On
    <3>2. NoClash(p) BY DEF Sound
    <3> QED BY <3>1, <3>2 DEF NoClash
  <2> QED BY <2>3, <2>4
<1>15. \A S \in SUBSET Lesson : \A d :
         TaughtOn(p2, S, d) \in {TaughtOn(p, S, d), TaughtOn(p1, S, d), TaughtOn(p3, S, d)}
  BY <1>1, <1>7, <1>8, <1>9, TaughtWhenExchanged DEF al, aq
<1>16. Sound(staffUnavailable, p2)
  BY <1>1, <1>8, <1>9, <1>12, <1>13, <1>14, <1>15, SoundInParts
<1>17. p1[q] = None BY <1>1, <1>3, <1>10
<1> QED BY <1>3, <1>4, <1>7, <1>8, <1>9, <1>16, <1>17 DEF p0, al, aq

LEMMA SwappedSoundly ==
  ASSUME NEW p, Sound(staffUnavailable, p), state = StateOf(p), NEW l \in On(p), NEW q \in Lesson,
         Swap(l, q)
  PROVE  \E pn : Sound(staffUnavailable, pn) /\ On(pn) = On(p) /\ Settled(p, pn)
<1> DEFINE ls == <<l, q>>
           p0 == Without(p, {l, q})
           taken == Take(Take(state, l), q)
           possible == SwappedRooms(taken, l, q)
           a == p[l]
           b == p[q]
<1>1. StateOf(p).occ = OccOf(p) /\ StateOf(p).occ.placed = p /\ Placed(OccOf(p)) = On(p) BY StateFields
<1>2. /\ q \in On(p) /\ q # l /\ l \in Lesson /\ q \in Lesson /\ Length[q] = Length[l]
      /\ ClassOf[q] = ClassOf[l] \/ TeacherOf[q] = TeacherOf[l]
  BY <1>1 DEF Swap, Partners, On
<1>3. /\ \/ possible = {} /\ Unmoved(taken, ls)
         \/ \E rooms \in possible : Judge(Exchanged(taken, l, q, rooms), ls)
  BY DEF Swap
<1>4. DOMAIN ls = {1, 2} /\ ls[1] = l /\ ls[2] = q /\ ToSet(ls) = {l, q} BY DEF ToSet
<1> HIDE DEF ls
<1>5. OneOrTwo(p, ls) BY <1>2, <1>4 DEF OneOrTwo
<1>6. taken = TakeAll(state, ls) BY <1>4, TakenTwo
<1>7. taken = StateOf(p0) /\ Sound(staffUnavailable, p0) BY <1>4, <1>5, <1>6, TakenAndPutBack
<1>8. CASE possible = {} /\ Unmoved(taken, ls)
  <2>1. Settled(p, p) BY <1>5, <1>6, <1>8, UnmovedIsUnchanged
  <2> QED BY <2>1
<1>9. ASSUME NEW rooms \in possible, Judge(Exchanged(taken, l, q, rooms), ls)
      PROVE  \E pn : Sound(staffUnavailable, pn) /\ On(pn) = On(p) /\ Settled(p, pn)
  <2> DEFINE rl == CanPlace(OccOf(p0), l, b.day, b.start)
             rq == CanPlace(OccOf(p0), q, a.day, a.start)
             al == InPlaceOf(p, q, rl)
             aq == InPlaceOf(p, l, rq)
             p1 == OneMoved(p, l, q, rl)
             p2 == BothMoved(p, l, q, rl, rq)
  <2>1. taken.occ = OccOf(p0) BY <1>7, StateFields
  <2> HIDE DEF taken
  <2>2. possible = IF Unfit \in {rl, rq} THEN {} ELSE {[l |-> rl, q |-> rq]}
    BY <1>1, <2>1 DEF SwappedRooms
  <2> HIDE DEF rl, rq, possible
  <2>3. rl # Unfit /\ rq # Unfit /\ rooms.l = rl /\ rooms.q = rq BY <1>9, <2>2
  <2>4. /\ Sound(staffUnavailable, p0) /\ p0[l] = None
        /\ al \in Position /\ aq \in Position /\ p1[q] = None
        /\ Sound(staffUnavailable, p1) /\ Sound(staffUnavailable, p2)
    BY <1>2, <2>3, ExchangeIsSound DEF rl, rq
  <2>5. a \in Position /\ b \in Position BY <1>2 DEF Sound, Places, On
  <2>6. [b EXCEPT !.room = rl] = al /\ [a EXCEPT !.room = rq] = aq BY <2>5 DEF Position, InPlaceOf
  <2>7. Exchanged(taken, l, q, rooms) = Put(Put(StateOf(p0), l, al), q, aq)
    BY <1>1, <1>7, <2>3, <2>6 DEF Exchanged
  <2>16. p1 = Moved(p0, l, al) /\ p2 = Moved(p1, q, aq) BY DEF OneMoved, BothMoved
  <2> HIDE DEF p0, al, aq, p1, p2
  <2>8. Put(StateOf(p0), l, al) = StateOf(p1) /\ On(p1) = On(p0) \cup {l} BY <1>2, <2>4, <2>16, PutIn
  <2>9. Put(StateOf(p1), q, aq) = StateOf(p2) /\ On(p2) = On(p1) \cup {q} BY <1>2, <2>4, <2>16, PutIn
  <2>10. On(p2) = On(p)
    <3>1. On(p0) = On(p) \ {l, q} BY DEF On, Without, p0
    <3> QED BY <1>2, <2>8, <2>9, <3>1
  <2>11. \A m \in Lesson : m # l /\ m # q => p2[m] = p[m]
    <3>1. p0 \in Places /\ p1 \in Places BY <2>4 DEF Sound
    <3>2. \A m \in Lesson : m # q => p2[m] = p1[m] BY <1>2, <2>16, <3>1, MovedOthers
    <3>3. \A m \in Lesson : m # l => p1[m] = p0[m] BY <1>2, <2>16, <3>1, MovedOthers
    <3>4. \A m \in Lesson : m # l /\ m # q => p0[m] = p[m] BY DEF p0, Without
    <3> QED BY <3>2, <3>3, <3>4
  <2>12. Without(p2, ToSet(ls)) = Without(p, ToSet(ls)) BY <1>4, <2>11 DEF Without
  <2>13. OneOrTwo(p2, ls) BY <1>2, <1>4, <2>10 DEF OneOrTwo
  <2>14. Judge(StateOf(p2), ls) BY <1>9, <2>7, <2>8, <2>9
  <2>15. Settled(p, p2) BY <1>5, <2>4, <2>12, <2>13, <2>14, JudgedSoundly
  <2> QED BY <2>4, <2>10, <2>15
<1> QED BY <1>3, <1>8, <1>9
-----------------------------------------------------------------------------
(* The inductive invariant *)

Once(s) == \A i, j \in 1 .. Len(s) : s[i] = s[j] => i = j

(* The lessons to come, those placed and those reported unplaced. *)
Accounted(td, p, un) ==
    /\ Lesson \ td = On(p) \cup ToSet(un)
    /\ On(p) \cap (td \cup ToSet(un)) = {}
    /\ Once(un)

BestKnown(b, sn, p) == b = Score(sn) /\ b <= Score(p) /\ On(sn) = On(p)

SolverInv ==
    /\ staffUnavailable \in Availabilities
    /\ phase \in {"construct", "repair", "improve", "done"}
    /\ todo \subseteq Lesson /\ unplaced \in Seq(Lesson)
    /\ turn \in 0 .. Len(unplaced) /\ position \in 1 .. Positions + 1
    /\ best \in Int
    /\ state = StateOf(state.occ.placed)
    /\ Sound(staffUnavailable, state.occ.placed) /\ Sound(staffUnavailable, snapshot)
    /\ Accounted(todo, state.occ.placed, unplaced)
    /\ phase \in {"improve", "done"} => BestKnown(best, snapshot, state.occ.placed)

LEMMA AppendedOnce ==
  ASSUME NEW q \in Seq(Lesson), Once(q), NEW x \in Lesson, x \notin ToSet(q)
  PROVE  /\ Append(q, x) \in Seq(Lesson) /\ Len(Append(q, x)) = Len(q) + 1
         /\ Once(Append(q, x)) /\ ToSet(Append(q, x)) = ToSet(q) \cup {x}
<1> DEFINE r == Append(q, x)
<1>1. /\ r \in Seq(Lesson) /\ Len(r) = Len(q) + 1 /\ Len(q) \in Nat
      /\ \A i \in 1 .. Len(q) : r[i] = q[i]
      /\ DOMAIN q = 1 .. Len(q) /\ DOMAIN r = 1 .. Len(q) + 1
  BY AppendProperties, LenProperties
<1>2. r[Len(q) + 1] = x OBVIOUS
<1> HIDE DEF r
<1>3. \A i \in 1 .. Len(q) + 1 : i \in 1 .. Len(q) \/ i = Len(q) + 1 BY <1>1
<1>4. ToSet(q) = {q[i] : i \in 1 .. Len(q)} /\ ToSet(r) = {r[i] : i \in 1 .. Len(q) + 1} BY <1>1 DEF ToSet
<1>5. Len(q) + 1 \in 1 .. Len(q) + 1 /\ 1 .. Len(q) \subseteq 1 .. Len(q) + 1 BY <1>1
<1>6. ToSet(r) = ToSet(q) \cup {x} BY <1>1, <1>2, <1>3, <1>4, <1>5
<1>7. Once(r)
  <2> SUFFICES ASSUME NEW i \in 1 .. Len(q) + 1, NEW j \in 1 .. Len(q) + 1, r[i] = r[j] PROVE i = j
    BY <1>1 DEF Once
  <2>1. \A n \in 1 .. Len(q) : r[n] = q[n] /\ r[n] # x BY <1>1, <1>4
  <2> QED BY <1>2, <1>3, <2>1 DEF Once
<1> QED BY <1>1, <1>6, <1>7 DEF r

LEMMA RemovedOnce ==
  ASSUME NEW q \in Seq(Lesson), Once(q), NEW n \in 1 .. Len(q)
  PROVE  /\ RemoveAt(q, n) \in Seq(Lesson) /\ Len(RemoveAt(q, n)) = Len(q) - 1
         /\ Once(RemoveAt(q, n)) /\ ToSet(RemoveAt(q, n)) = ToSet(q) \ {q[n]}
<1> DEFINE a == SubSeq(q, 1, n - 1)
           b == SubSeq(q, n + 1, Len(q))
           r == RemoveAt(q, n)
<1>1. Len(q) \in Nat /\ DOMAIN q = 1 .. Len(q) /\ \A i \in 1 .. Len(q) : q[i] \in Lesson
  BY LenProperties, ElementOfSeq
<1>2. /\ a \in Seq(Lesson) /\ Len(a) = n - 1 /\ \A i \in 1 .. n - 1 : a[i] = q[i]
  <2>1. \A i \in 1 .. n - 1 : q[i] \in Lesson BY <1>1
  <2>2. /\ a \in Seq(Lesson) /\ Len(a) = IF 1 <= n - 1 THEN n - 1 - 1 + 1 ELSE 0
        /\ \A i \in 1 .. n - 1 - 1 + 1 : a[i] = q[1 + i - 1]
    BY <1>1, <2>1, SubSeqProperties
  <2> HIDE DEF a
  <2>3. Len(a) = n - 1 BY <1>1, <2>2
  <2>4. \A i \in 1 .. n - 1 : i \in 1 .. n - 1 - 1 + 1 /\ 1 + i - 1 = i BY <1>1
  <2>5. \A i \in 1 .. n - 1 : a[i] = q[i] BY <2>2, <2>4
  <2> QED BY <2>2, <2>3, <2>5
<1>3. /\ b \in Seq(Lesson) /\ Len(b) = Len(q) - n /\ \A i \in 1 .. Len(q) - n : b[i] = q[n + i]
  <2>1. \A i \in n + 1 .. Len(q) : q[i] \in Lesson BY <1>1
  <2>2. /\ b \in Seq(Lesson) /\ Len(b) = IF n + 1 <= Len(q) THEN Len(q) - (n + 1) + 1 ELSE 0
        /\ \A i \in 1 .. Len(q) - (n + 1) + 1 : b[i] = q[n + 1 + i - 1]
    BY <1>1, <2>1, SubSeqProperties
  <2> HIDE DEF b
  <2>3. Len(b) = Len(q) - n
    <3>1. CASE n = Len(q)
      <4>1. ~(n + 1 <= Len(q)) /\ Len(q) - n = 0 BY <1>1, <3>1
      <4> QED BY <2>2, <4>1
    <3>2. CASE n # Len(q)
      <4>1. n + 1 <= Len(q) /\ Len(q) - (n + 1) + 1 = Len(q) - n
        <5>1. \A x, y \in Int : x <= y /\ x # y => x + 1 <= y /\ y - (x + 1) + 1 = y - x OBVIOUS
        <5>2. n \in Int /\ Len(q) \in Int /\ n <= Len(q) BY <1>1
        <5> QED BY <3>2, <5>1, <5>2
      <4> QED BY <2>2, <4>1
    <3> QED BY <3>1, <3>2
  <2>4. \A i \in 1 .. Len(q) - n : i \in 1 .. Len(q) - (n + 1) + 1 /\ n + 1 + i - 1 = n + i BY <1>1
  <2>5. \A i \in 1 .. Len(q) - n : b[i] = q[n + i] BY <2>2, <2>4
  <2> QED BY <2>2, <2>3, <2>5
<1>4. r = a \o b BY DEF RemoveAt
<1> HIDE DEF a, b, r
<1>5. /\ r \in Seq(Lesson) /\ Len(r) = Len(q) - 1
      /\ \A i \in 1 .. Len(q) - 1 : r[i] = IF i <= n - 1 THEN a[i] ELSE b[i - (n - 1)]
  <2>1. /\ r \in Seq(Lesson) /\ Len(r) = Len(a) + Len(b)
        /\ \A i \in 1 .. Len(a) + Len(b) : r[i] = IF i <= Len(a) THEN a[i] ELSE b[i - Len(a)]
    BY <1>2, <1>3, <1>4, ConcatProperties
  <2>2. Len(a) + Len(b) = Len(q) - 1 BY <1>1, <1>2, <1>3
  <2> QED BY <1>2, <2>1, <2>2
<1> DEFINE from(i) == IF i <= n - 1 THEN i ELSE i + 1
<1>6. \A i \in 1 .. Len(q) - 1 : r[i] = q[from(i)]
  <2> TAKE i \in 1 .. Len(q) - 1
  <2>1. CASE i <= n - 1
    <3>1. i \in 1 .. n - 1 BY <1>1, <2>1
    <3> QED BY <1>2, <1>5, <2>1, <3>1
  <2>2. CASE ~(i <= n - 1)
    <3>1. i - (n - 1) \in 1 .. Len(q) - n /\ n + (i - (n - 1)) = i + 1 BY <1>1, <2>2
    <3>2. r[i] = b[i - (n - 1)] BY <1>5, <2>2
    <3>3. b[i - (n - 1)] = q[n + (i - (n - 1))] BY <1>3, <3>1
    <3>4. r[i] = q[i + 1] BY <3>1, <3>2, <3>3
    <3> QED BY <2>2, <3>4
  <2> QED BY <2>1, <2>2
<1>7. \A i \in 1 .. Len(q) - 1 : from(i) \in 1 .. Len(q) /\ from(i) # n BY <1>1
<1>8. \A i, j \in 1 .. Len(q) - 1 : from(i) = from(j) => i = j BY <1>1
<1>9. \A k \in 1 .. Len(q) : k # n => \E i \in 1 .. Len(q) - 1 : from(i) = k
  <2> TAKE k \in 1 .. Len(q)
  <2> HAVE k # n
  <2>1. CASE k < n
    <3>1. k \in 1 .. Len(q) - 1 /\ from(k) = k BY <1>1, <2>1
    <3> QED BY <3>1
  <2>2. CASE k > n
    <3>1. k - 1 \in 1 .. Len(q) - 1 /\ from(k - 1) = k BY <1>1, <2>2
    <3> QED BY <3>1
  <2> QED BY <1>1, <2>1, <2>2
<1> HIDE DEF from
<1>10. Once(r)
  <2> SUFFICES ASSUME NEW i \in 1 .. Len(q) - 1, NEW j \in 1 .. Len(q) - 1, r[i] = r[j] PROVE i = j
    BY <1>5 DEF Once
  <2>1. q[from(i)] = q[from(j)] BY <1>6
  <2>2. from(i) = from(j) BY <1>7, <2>1 DEF Once
  <2> QED BY <1>8, <2>2
<1>11. DOMAIN r = 1 .. Len(q) - 1 BY <1>5, LenProperties
<1>12. ToSet(r) = {r[i] : i \in 1 .. Len(q) - 1} /\ ToSet(q) = {q[k] : k \in 1 .. Len(q)} BY <1>1, <1>11 DEF ToSet
<1>13. \A i \in 1 .. Len(q) - 1 : r[i] \in ToSet(q) /\ r[i] # q[n] BY <1>6, <1>7, <1>12 DEF Once
<1>14. \A k \in 1 .. Len(q) : q[k] # q[n] => q[k] \in ToSet(r)
  <2> TAKE k \in 1 .. Len(q)
  <2> HAVE q[k] # q[n]
  <2>1. PICK i \in 1 .. Len(q) - 1 : from(i) = k BY <1>9
  <2>2. r[i] = q[k] BY <1>6, <2>1
  <2> QED BY <1>12, <2>2
<1>15. ToSet(r) = ToSet(q) \ {q[n]} BY <1>12, <1>13, <1>14
<1> QED BY <1>5, <1>10, <1>15 DEF r
-----------------------------------------------------------------------------
(* Every step keeps it.  In a step the timetable is p before, and the       *)
(* invariant is said of it.                                                *)

LEMMA ConstructKeeps == SolverInv /\ (\E l \in Lesson : Construct(l)) => SolverInv'
<1> SUFFICES ASSUME SolverInv, NEW l \in Lesson, Construct(l) PROVE SolverInv'
  OBVIOUS
<1> DEFINE options == Candidates(state.occ, l)
<1>1. PICK p : p = state.occ.placed OBVIOUS
<1>2. /\ state = StateOf(p) /\ Sound(staffUnavailable, p) /\ Accounted(todo, p, unplaced)
      /\ unplaced \in Seq(Lesson) /\ turn \in 0 .. Len(unplaced) /\ todo \subseteq Lesson
  BY <1>1 DEF SolverInv
<1>3. state.occ = OccOf(p) BY <1>2, StateFields
<1>4. phase = "construct" /\ l \in todo /\ todo' = todo \ {l} BY DEF Construct
<1>5. p[l] = None /\ l \notin ToSet(unplaced) BY <1>2, <1>4 DEF Accounted, On
<1>6. UNCHANGED <<staffUnavailable, phase, search, best, snapshot>> BY DEF Construct
<1>7. CASE options = {}
  <2>1. unplaced' = Append(unplaced, l) /\ state' = state BY <1>7 DEF Construct
  <2>2. /\ unplaced' \in Seq(Lesson) /\ Len(unplaced') = Len(unplaced) + 1 /\ Once(unplaced')
        /\ ToSet(unplaced') = ToSet(unplaced) \cup {l}
    BY <1>2, <1>5, <2>1, AppendedOnce DEF Accounted
  <2>3. Accounted(todo', p, unplaced') BY <1>2, <1>4, <1>5, <2>2 DEF Accounted, On
  <2>4. turn' \in 0 .. Len(unplaced')
    <3>1. Len(unplaced) \in Nat BY <1>2, LenProperties
    <3> QED BY <1>2, <1>6, <2>2, <3>1 DEF search
  <2> QED BY <1>1, <1>2, <1>4, <1>6, <2>1, <2>2, <2>3, <2>4 DEF SolverInv, search
<1>8. CASE options # {}
  <2> DEFINE c == BestCandidate(state, l, options)
             pn == Moved(p, l, c)
  <2>1. unplaced' = unplaced /\ state' = Put(state, l, c) BY <1>8 DEF Construct
  <2>2. c \in options BY <1>2, <1>3, <1>5, <1>8, BestIsACandidate
  <2> HIDE DEF c
  <2>3. c \in Position /\ Sound(staffUnavailable, pn) BY <1>2, <1>3, <1>5, <2>2, CandidatesAreSound
  <2>4. state' = StateOf(pn) /\ On(pn) = On(p) \cup {l} BY <1>2, <1>5, <2>1, <2>3, PutIn
  <2> HIDE DEF pn
  <2>5. state'.occ.placed = pn BY <2>4, StateFields
  <2>6. Accounted(todo', pn, unplaced') BY <1>2, <1>4, <1>5, <2>1, <2>4 DEF Accounted
  <2> QED BY <1>2, <1>4, <1>6, <2>1, <2>3, <2>4, <2>5, <2>6 DEF SolverInv, search
<1> QED BY <1>7, <1>8

LEMMA PositionsAreNatural ==
  /\ Positions \in Nat
  /\ \A n \in 1 .. Positions : DayAt(n) \in Day /\ StartAt(n) \in Period
<1> DEFINE D == Len(Days)
           R == Len(Orders)
<1>1. D \in Nat /\ R \in Nat /\ DOMAIN Days = 1 .. D /\ Period = 1 .. R
  BY DaysAreFinite, PeriodsAreFinite, DayAssumption, LenProperties
<1> HIDE DEF D, R
<1>2. D * R \in Nat
  <2>1. \A a, b \in Nat : a * b \in Nat OBVIOUS
  <2> QED BY <1>1, <2>1
<1>3. ASSUME NEW n \in 1 .. D * R
      PROVE  ((n - 1) \div R) + 1 \in 1 .. D /\ ((n - 1) % R) + 1 \in 1 .. R
  <2>1. R > 0
    <3>1. CASE R = 0
      <4>1. \A a \in Nat : a * 0 = 0 OBVIOUS
      <4> QED BY <1>1, <3>1, <4>1
    <3> QED BY <1>1, <3>1
  <2>2. n - 1 \in Nat /\ n - 1 < D * R BY <1>2
  <2> DEFINE k == (n - 1) \div R
             m == (n - 1) % R
  <2>3. k \in Int /\ m \in 0 .. R - 1 /\ n - 1 = R * k + m BY <1>1, <2>1, <2>2
  <2> HIDE DEF k, m
  <2>4. k >= 0
    <3>1. CASE k <= -1
      <4>1. R * k <= R * (-1)
        <5>1. \A a, b, c \in Int : a > 0 /\ b <= c => a * b <= a * c OBVIOUS
        <5> QED BY <1>1, <2>1, <2>3, <3>1, <5>1
      <4>2. R * k \in Int BY <1>1, <2>3
      <4> QED BY <1>1, <2>2, <2>3, <4>1, <4>2
    <3> QED BY <2>3, <3>1
  <2>5. k < D
    <3>1. CASE D <= k
      <4>1. R * D <= R * k
        <5>1. \A a, b, c \in Int : a > 0 /\ b <= c => a * b <= a * c OBVIOUS
        <5> QED BY <1>1, <2>1, <2>3, <3>1, <5>1
      <4>2. R * D = D * R BY <1>1
      <4>3. R * k \in Int BY <1>1, <2>3
      <4> QED BY <1>1, <1>2, <2>2, <2>3, <4>1, <4>2, <4>3
    <3> QED BY <1>1, <2>3, <3>1
  <2>6. k + 1 \in 1 .. D /\ m + 1 \in 1 .. R BY <1>1, <2>3, <2>4, <2>5
  <2> QED BY <2>6 DEF k, m
<1>4. \A n \in 1 .. Positions : DayAt(n) \in Day /\ StartAt(n) \in Period
  BY <1>1, <1>3 DEF Positions, DayAt, StartAt, Day, D, R
<1> QED BY <1>2, <1>4 DEF Positions, D, R
LEMMA StartRepairKeeps == SolverInv /\ StartRepair => SolverInv'
<1> SUFFICES ASSUME SolverInv, StartRepair PROVE SolverInv'
  OBVIOUS
<1>1. /\ phase' = "repair" /\ turn' = Len(unplaced) /\ position' = 1
      /\ UNCHANGED <<staffUnavailable, todo, state, unplaced, best, snapshot>>
  BY DEF StartRepair
<1>2. Len(unplaced) \in Nat BY LenProperties DEF SolverInv
<1>3. turn' \in 0 .. Len(unplaced') /\ position' \in 1 .. Positions + 1
  BY <1>1, <1>2, PositionsAreNatural
<1> QED BY <1>1, <1>3 DEF SolverInv

LEMMA GiveUpKeeps == SolverInv /\ GiveUp => SolverInv'
<1> SUFFICES ASSUME SolverInv, GiveUp PROVE SolverInv'
  OBVIOUS
<1>1. /\ phase = "repair" /\ turn > 0 /\ turn' = turn - 1 /\ position' = 1
      /\ UNCHANGED <<staffUnavailable, phase, todo, state, unplaced, best, snapshot>>
  BY DEF GiveUp
<1>2. Len(unplaced) \in Nat BY LenProperties DEF SolverInv
<1>3. turn' \in 0 .. Len(unplaced') /\ position' \in 1 .. Positions + 1
  <2>1. turn \in 0 .. Len(unplaced) BY DEF SolverInv
  <2> QED BY <1>1, <1>2, <2>1, PositionsAreNatural
<1> QED BY <1>1, <1>3 DEF SolverInv

LEMMA StartImprovingKeeps == SolverInv /\ StartImproving => SolverInv'
<1> SUFFICES ASSUME SolverInv, StartImproving PROVE SolverInv'
  OBVIOUS
<1>1. PICK p : p = state.occ.placed OBVIOUS
<1>2. state = StateOf(p) /\ Sound(staffUnavailable, p) BY <1>1 DEF SolverInv
<1>3. /\ phase' \in {"improve", "done"} /\ best' = state.agg.soft /\ snapshot' = p
      /\ UNCHANGED <<staffUnavailable, todo, state, unplaced, turn, position>>
  BY <1>1 DEF StartImproving, search
<1>4. best' = Score(p) BY <1>2, <1>3, StateFields
<1>5. Score(p) \in Int BY <1>2, ScoreIsInt DEF Sound
<1>6. BestKnown(best', snapshot', state'.occ.placed)
  <2>1. state'.occ.placed = p BY <1>1, <1>3
  <2> QED BY <1>3, <1>4, <1>5, <2>1 DEF BestKnown
<1> QED BY <1>1, <1>2, <1>3, <1>4, <1>5, <1>6 DEF SolverInv

LEMMA TimeIsUpKeeps == SolverInv /\ TimeIsUp => SolverInv'
BY DEF SolverInv, TimeIsUp, search

LEMMA IdleKeeps == SolverInv /\ UNCHANGED vars => SolverInv'
BY DEF SolverInv, vars, search

(* A turn of the repair, whether or not it is a position worth trying. *)
Repaired(p, l) ==
    \/ state' = state /\ NextPosition
    \/ /\ unplaced' = RemoveAt(unplaced, turn) /\ turn' = turn - 1 /\ position' = 1
       /\ \E pn : Sound(staffUnavailable, pn) /\ state' = StateOf(pn) /\ On(pn) = On(p) \cup {l}

LEMMA TurnOfRepair ==
  ASSUME SolverInv, TryEject, NEW p, p = state.occ.placed, NEW l, l = unplaced[turn]
  PROVE  /\ l \in Lesson /\ turn \in 1 .. Len(unplaced) /\ p[l] = None
         /\ Repaired(p, l)
<1>1. /\ state = StateOf(p) /\ Sound(staffUnavailable, p) /\ Accounted(todo, p, unplaced)
      /\ unplaced \in Seq(Lesson) /\ turn \in 0 .. Len(unplaced) /\ position \in 1 .. Positions + 1
  BY DEF SolverInv
<1>2. turn > 0 /\ position <= Positions BY DEF TryEject
<1>3. Len(unplaced) \in Nat /\ DOMAIN unplaced = 1 .. Len(unplaced) BY <1>1, LenProperties
<1>4. turn \in 1 .. Len(unplaced) BY <1>1, <1>2, <1>3
<1>5. l \in Lesson /\ l \in ToSet(unplaced) BY <1>1, <1>3, <1>4, ElementOfSeq DEF ToSet
<1>6. p[l] = None BY <1>1, <1>5 DEF Accounted, On
<1> DEFINE day == DayAt(position)
           start == StartAt(position)
           ev == Blockers(l, day, start)
           e == Ejected(l, day, start, ev)
<1>7. day \in Day /\ start \in Period
  <2>1. position \in 1 .. Positions BY <1>1, <1>2, PositionsAreNatural
  <2> QED BY <2>1, PositionsAreNatural
<1>8. IF ~WorthTrying(l, day, start)
      THEN NextPosition /\ UNCHANGED state
      ELSE /\ state' = e.s
           /\ IF e.ok THEN unplaced' = RemoveAt(unplaced, turn) /\ turn' = turn - 1 /\ position' = 1
                      ELSE NextPosition
  BY DEF TryEject
<1> HIDE DEF e, day, start
<1>9. CASE ~WorthTrying(l, day, start) BY <1>4, <1>5, <1>6, <1>8, <1>9 DEF Repaired
<1>10. CASE WorthTrying(l, day, start)
  <2>1. OneOrTwo(p, ev) BY <1>1, <1>5, <1>7, <1>10, BlockersAreOneOrTwo
  <2> HIDE DEF ev
  <2>2. AllOrNothing(staffUnavailable, p, l, e) BY <1>1, <1>5, <1>6, <2>1, EjectedSoundly DEF e
  <2>3. CASE e.ok = FALSE /\ e.s = StateOf(p)
    BY <1>1, <1>4, <1>5, <1>6, <1>8, <1>10, <2>3 DEF Repaired
  <2>4. CASE e.ok = TRUE /\ \E pn : /\ Sound(staffUnavailable, pn) /\ e.s = StateOf(pn)
                                    /\ On(pn) = On(p) \cup {l}
    BY <1>4, <1>5, <1>6, <1>8, <1>10, <2>4 DEF Repaired
  <2> QED BY <2>2, <2>3, <2>4 DEF AllOrNothing
<1> QED BY <1>9, <1>10

LEMMA TryEjectKeeps == SolverInv /\ TryEject => SolverInv'
<1> SUFFICES ASSUME SolverInv, TryEject PROVE SolverInv'
  OBVIOUS
<1>1. PICK p : p = state.occ.placed OBVIOUS
<1>2. PICK l : l = unplaced[turn] OBVIOUS
<1>3. /\ l \in Lesson /\ turn \in 1 .. Len(unplaced) /\ p[l] = None
      /\ Repaired(p, l)
  BY <1>1, <1>2, TurnOfRepair
<1>4. /\ phase = "repair" /\ position <= Positions
      /\ UNCHANGED <<staffUnavailable, phase, todo, best, snapshot>>
  BY DEF TryEject
<1>5. /\ Accounted(todo, p, unplaced) /\ unplaced \in Seq(Lesson) /\ position \in 1 .. Positions + 1
  BY <1>1 DEF SolverInv
<1>6. CASE state' = state /\ NextPosition
  <2>1. unplaced' = unplaced /\ turn' = turn /\ position' = position + 1 BY <1>6 DEF NextPosition
  <2>2. position' \in 1 .. Positions + 1 BY <1>4, <1>5, <2>1, PositionsAreNatural
  <2> QED BY <1>4, <1>6, <2>1, <2>2 DEF SolverInv
<1>7. ASSUME unplaced' = RemoveAt(unplaced, turn), turn' = turn - 1, position' = 1,
             NEW pn, Sound(staffUnavailable, pn), state' = StateOf(pn), On(pn) = On(p) \cup {l}
      PROVE  SolverInv'
  <2>1. /\ unplaced' \in Seq(Lesson) /\ Len(unplaced') = Len(unplaced) - 1
        /\ Once(unplaced') /\ ToSet(unplaced') = ToSet(unplaced) \ {l}
    BY <1>2, <1>3, <1>5, <1>7, RemovedOnce DEF Accounted
  <2>2. l \in ToSet(unplaced)
    <3>1. DOMAIN unplaced = 1 .. Len(unplaced) BY <1>5, LenProperties
    <3> QED BY <1>2, <1>3, <3>1 DEF ToSet
  <2>3. Accounted(todo, pn, unplaced') BY <1>5, <1>7, <2>1, <2>2 DEF Accounted
  <2>4. state'.occ.placed = pn BY <1>7, StateFields
  <2>5. turn' \in 0 .. Len(unplaced')
    <3>1. Len(unplaced) \in Nat BY <1>5, LenProperties
    <3> QED BY <1>3, <1>7, <2>1, <3>1
  <2>6. position' \in 1 .. Positions + 1 BY <1>7, PositionsAreNatural
  <2> QED BY <1>4, <1>7, <2>1, <2>3, <2>4, <2>5, <2>6 DEF SolverInv
<1> QED BY <1>3, <1>6, <1>7 DEF Repaired

LEMMA ImproveKeeps == SolverInv /\ (\E l \in Lesson : Improve(l)) => SolverInv'
<1> SUFFICES ASSUME SolverInv, NEW l \in Lesson, Improve(l) PROVE SolverInv'
  OBVIOUS
<1>1. PICK p : p = state.occ.placed OBVIOUS
<1>2. /\ state = StateOf(p) /\ Sound(staffUnavailable, p) /\ Accounted(todo, p, unplaced)
      /\ phase = "improve" /\ BestKnown(best, snapshot, p) /\ Sound(staffUnavailable, snapshot)
      /\ best \in Int
  BY <1>1 DEF SolverInv, Improve
<1>3. l \in On(p) BY <1>2, StateFields DEF Improve
<1>4. UNCHANGED <<staffUnavailable, phase, todo, unplaced, turn, position>> BY DEF Improve, search
<1>5. PICK pn : Sound(staffUnavailable, pn) /\ On(pn) = On(p) /\ Settled(p, pn)
  <2>1. CASE Relocate(l) BY <1>2, <1>3, <2>1, RelocatedSoundly
  <2>2. ASSUME NEW q \in Lesson, Swap(l, q)
        PROVE  \E pn : Sound(staffUnavailable, pn) /\ On(pn) = On(p) /\ Settled(p, pn)
    BY <1>2, <1>3, <2>2, SwappedSoundly
  <2>3. CASE Stuck(l) BY <1>2, <1>3, <2>3, StuckIsUnchanged
  <2> QED BY <2>1, <2>2, <2>3 DEF Improve
<1>6. CASE state' = StateOf(p) /\ UNCHANGED <<best, snapshot>>
  <2>1. state' = state BY <1>2, <1>6
  <2> QED BY <1>4, <1>6, <2>1 DEF SolverInv
<1>7. CASE /\ state' = StateOf(pn)
           /\ IF Score(pn) < best THEN best' = Score(pn) /\ snapshot' = pn ELSE UNCHANGED <<best, snapshot>>
  <2>1. state'.occ.placed = pn BY <1>7, StateFields
  <2>2. Score(pn) \in Int BY <1>5, ScoreIsInt DEF Sound
  <2>3. BestKnown(best', snapshot', pn) /\ best' \in Int /\ Sound(staffUnavailable, snapshot')
    <3>1. CASE Score(pn) < best
      <4>1. best' = Score(pn) /\ snapshot' = pn BY <1>7, <3>1
      <4> QED BY <1>5, <2>2, <4>1 DEF BestKnown
    <3>2. CASE ~(Score(pn) < best)
      <4>1. best' = best /\ snapshot' = snapshot BY <1>7, <3>2
      <4>2. best <= Score(pn) BY <1>2, <2>2, <3>2
      <4>3. best = Score(snapshot) /\ On(snapshot) = On(pn) BY <1>2, <1>5 DEF BestKnown
      <4> QED BY <1>2, <4>1, <4>2, <4>3 DEF BestKnown
    <3> QED BY <3>1, <3>2
  <2>4. Accounted(todo, pn, unplaced) BY <1>2, <1>5 DEF Accounted
  <2> QED BY <1>4, <1>5, <1>7, <2>1, <2>3, <2>4 DEF SolverInv
<1> QED BY <1>5, <1>6, <1>7 DEF Settled
-----------------------------------------------------------------------------
(* The initial state *)

Nowhere == [l \in Lesson |-> None]

LEMMA SumOfZeros ==
  ASSUME NEW S, IsFiniteSet(S), NEW f, \A x \in S : f[x] = 0
  PROVE  SumFunctionOnSet(f, S) = 0
<1> DEFINE F == {A \in SUBSET S : SumFunctionOnSet(f, A) = 0}
<1>1. ASSUME NEW A \in SUBSET S, \A B \in SUBSET A : B # A => B \in F
      PROVE  A \in F
  <2>1. CASE A = {} BY <2>1, SumOfNone
  <2>2. CASE A # {}
    <3>1. PICK x \in A : TRUE BY <2>2
    <3>2. IsFiniteSet(A) BY FS_Subset
    <3>3. \A y \in A : f[y] \in Int BY 0 \in Int
    <3>4. SumFunctionOnSet(f, A) = f[x] + SumFunctionOnSet(f, A \ {x}) BY <3>2, <3>3, SumTakesOut
    <3>5. SumFunctionOnSet(f, A \ {x}) = 0 BY <1>1, <3>1
    <3>6. f[x] = 0 OBVIOUS
    <3> QED BY <3>4, <3>5, <3>6
  <2> QED BY <2>1, <2>2
<1> HIDE DEF F
<1>2. S \in F BY <1>1, AllSubsets
<1> QED BY <1>2 DEF F

LEMMA NowhereIsSound == Sound(staffUnavailable, Nowhere) /\ On(Nowhere) = {}
<1>1. Nowhere \in Places /\ \A l \in Lesson : Nowhere[l] = None BY DEF Nowhere, Places
<1>2. NoClash(Nowhere) BY <1>1 DEF NoClash
<1>3. ASSUME NEW S \in SUBSET Lesson, NEW d PROVE TaughtOn(Nowhere, S, d) = 0
  <2>1. {l \in S : Nowhere[l] # None /\ Nowhere[l].day = d} = {} BY <1>1
  <2> QED BY <2>1, SumOfNone DEF TaughtOn
<1>4. WithinLimits(Nowhere)
  <2>1. ASSUME NEW d \in Day, MaxPerClass # NoLimit, NEW k \in Class
        PROVE  TaughtOn(Nowhere, {m \in Lesson : ClassOf[m] = k}, d) <= MaxPerClass
    <3>1. TaughtOn(Nowhere, {m \in Lesson : ClassOf[m] = k}, d) = 0 BY <1>3
    <3>2. MaxPerClass \in Nat BY <2>1, LimitAssumption
    <3> QED BY <3>1, <3>2
  <2>2. ASSUME NEW d \in Day, NEW t \in Teacher, MaxPerTeacher[t] # NoLimit
        PROVE  TaughtOn(Nowhere, {m \in Lesson : TeacherOf[m] = t}, d) <= MaxPerTeacher[t]
    <3>1. TaughtOn(Nowhere, {m \in Lesson : TeacherOf[m] = t}, d) = 0 BY <1>3
    <3>2. MaxPerTeacher[t] \in Nat BY <2>2, LimitAssumption
    <3> QED BY <3>1, <3>2
  <2> QED BY <2>1, <2>2 DEF WithinLimits
<1> QED BY <1>1, <1>2, <1>4 DEF Sound, On

LEMMA NobodyAnywhere == OccOf(Nowhere) = EmptyOccupancy
<1>1. \A l \in Lesson : Nowhere[l] = None BY DEF Nowhere
<1>2. ASSUME NEW S, NEW slot, S \subseteq Lesson PROVE HolderOf(Held(Nowhere, S, slot)) = None
  <2>1. Held(Nowhere, S, slot) = {} BY <1>1, <1>2 DEF Held
  <2> QED BY <2>1, HolderOfNone
<1>3. ASSUME NEW r, NEW slot PROVE HolderOf(InRoom(Nowhere, r, slot)) = None
  <2>1. InRoom(Nowhere, r, slot) = {} BY <1>1 DEF InRoom
  <2> QED BY <2>1, HolderOfNone
<1>4. ASSUME NEW S \in SUBSET Lesson, NEW d PROVE TaughtOn(Nowhere, S, d) = 0
  <2>1. {l \in S : Nowhere[l] # None /\ Nowhere[l].day = d} = {} BY <1>1
  <2> QED BY <2>1, SumOfNone DEF TaughtOn
<1>5. \A k : OfClass(k) \subseteq Lesson /\ OfTeacher(k) \subseteq Lesson BY DEF OfClass, OfTeacher
<1>6. ClassMap(Nowhere) = NoneOf(Class) BY <1>2, <1>5 DEF ClassMap, NoneOf
<1>7. StaffMap(Nowhere) = NoneOf(Teacher) BY <1>2, <1>5 DEF StaffMap, NoneOf
<1>8. RoomMap(Nowhere) = NoneOf(Room) BY <1>3 DEF RoomMap, NoneOf
<1>9. ClassDays(Nowhere) = ZeroOf(Class) BY <1>4, <1>5 DEF ClassDays, ZeroOf
<1>10. StaffDays(Nowhere) = ZeroOf(Teacher) BY <1>4, <1>5 DEF StaffDays, ZeroOf
<1> QED BY <1>6, <1>7, <1>8, <1>9, <1>10 DEF OccOf, EmptyOccupancy, Nowhere

LEMMA NoGaps == TeacherPenalty({}) = 0
<1>1. ASSUME NEW f, DOMAIN f = {} PROVE SumFunction(f) = 0
  BY <1>1, SumOfNone DEF SumFunction, SumFunctionOnSet, FoldFunction
<1> QED BY <1>1 DEF TeacherPenalty

LEMMA EvenlyNothing == ASSUME NEW perDay, \A d \in Day : perDay[d] = 0 PROVE ClassPenalty(perDay) = 0
<1>1. SumFunctionOnSet(perDay, Day) = 0 BY DaysAreFinite, SumOfZeros
<1> DEFINE f == [d \in Day |-> UnevenClassLoad * Deviation(perDay[d], SumFunctionOnSet(perDay, Day))]
<1>2. \A d \in Day : f[d] = 0
  <2> TAKE d \in Day
  <2>1. Deviation(0, 0) = 0 BY DaysAreFinite DEF Deviation
  <2>2. f[d] = UnevenClassLoad * Deviation(0, 0) BY <1>1
  <2> QED BY <2>1, <2>2 DEF UnevenClassLoad
<1>3. ClassPenalty(perDay) = SumFunction(f) BY DEF ClassPenalty
<1>4. SumFunction(f) = SumFunctionOnSet(f, Day) BY DEF SumFunction, SumFunctionOnSet, FoldFunction
<1> HIDE DEF f
<1>5. SumFunctionOnSet(f, Day) = 0 BY <1>2, DaysAreFinite, SumOfZeros
<1> QED BY <1>3, <1>4, <1>5
LEMMA NothingScored == AggOf(Nowhere) = NoScore
<1>1. Nowhere \in Places /\ On(Nowhere) = {} /\ \A l \in Lesson : Nowhere[l] = None
  BY NowhereIsSound DEF Sound, Nowhere
<1>2. \A k, d, s : Together(Nowhere, k, d, s) = {} BY <1>1 DEF Together
<1>3. \A t, d : Listed(Nowhere, t, d) = {} BY <1>1 DEF Listed
<1>4. Counts(Nowhere) = [x \in SubjectDays |-> 0]
  <2>1. \A x \in SubjectDays : Cardinality(Together(Nowhere, x[1], x[2], x[3])) = 0 BY <1>2, FS_EmptySet
  <2> QED BY <2>1 DEF Counts
<1>5. MorningPens(Nowhere) = [l \in Lesson |-> 0] BY <1>1 DEF MorningPens
<1>6. Lists(Nowhere) = [x \in TeacherDays |-> {}] BY <1>3 DEF Lists
<1>7. TeacherPens(Nowhere) = [x \in TeacherDays |-> 0]
  <2>1. \A x \in TeacherDays : TeacherPenalty(Listed(Nowhere, x[1], x[2])) = 0 BY <1>3, NoGaps
  <2> QED BY <2>1 DEF TeacherPens
<1>8. ClassDays(Nowhere) = ZeroOf(Class) BY NobodyAnywhere DEF OccOf, EmptyOccupancy
<1>9. ClassPens(Nowhere) = [k \in Class |-> 0]
  <2>1. \A k \in Class : ClassPenalty(ClassDays(Nowhere)[k]) = 0
    <3> TAKE k \in Class
    <3> DEFINE perDay == ClassDays(Nowhere)[k]
    <3>1. \A d \in Day : perDay[d] = 0 BY <1>8 DEF ZeroOf
    <3> HIDE DEF perDay
    <3>2. ClassPenalty(perDay) = 0 BY <3>1, EvenlyNothing
    <3> QED BY <3>2 DEF perDay
  <2> QED BY <2>1 DEF ClassPens
<1>10. Score(Nowhere) = 0
  <2>1. SumFunctionOnSet(Repeats(Nowhere), SubjectDays) = 0
    <3>1. SubjectRepeatedInDay * 0 = 0 /\ Repeat(0) = 0
      <4>1. \A a \in Int : a * 0 = 0 OBVIOUS
      <4> QED BY <4>1, DaysAreFinite DEF SubjectRepeatedInDay, Repeat
    <3>2. \A x \in SubjectDays : Repeats(Nowhere)[x] = 0 BY <1>2, <3>1, FS_EmptySet DEF Repeats
    <3> QED BY <1>1, <3>2, FourSums, SumOfZeros
  <2>2. SumFunctionOnSet(Mornings(Nowhere), On(Nowhere)) = 0 BY <1>1, SumOfNone
  <2>3. SumFunctionOnSet(TeacherPens(Nowhere), TeacherDays) = 0
    <3>1. \A x \in TeacherDays : TeacherPens(Nowhere)[x] = 0 BY <1>7
    <3> QED BY <1>1, <3>1, FourSums, SumOfZeros
  <2>4. SumFunctionOnSet(ClassPens(Nowhere), Class) = 0
    <3>1. \A k \in Class : ClassPens(Nowhere)[k] = 0 BY <1>9
    <3> QED BY <1>1, <3>1, FourSums, SumOfZeros
  <2> QED BY <2>1, <2>2, <2>3, <2>4, ScoreIsFourSums
<1>11. NoScore = Agg([x \in SubjectDays |-> 0], [l \in Lesson |-> 0], [x \in TeacherDays |-> {}],
                     [x \in TeacherDays |-> 0], ZeroOf(Class), [k \in Class |-> 0], 0)
  BY Zenon DEF NoScore, Agg, SubjectDays, TeacherDays, ZeroOf
<1> QED BY <1>4, <1>5, <1>6, <1>7, <1>8, <1>9, <1>10, <1>11, Zenon DEF AggOf

LEMMA InitSolverInv == Init => SolverInv
<1> SUFFICES ASSUME Init PROVE SolverInv
  OBVIOUS
<1>1. state = StateOf(Nowhere) /\ snapshot = Nowhere
  <2>1. state = [occ |-> EmptyOccupancy, agg |-> NoScore] BY DEF Init
  <2>2. StateOf(Nowhere) = [occ |-> EmptyOccupancy, agg |-> NoScore]
    BY NobodyAnywhere, NothingScored, Zenon DEF StateOf
  <2>3. snapshot = Nowhere BY DEF Init, EmptyOccupancy, Nowhere
  <2> QED BY <2>1, <2>2, <2>3
<1>2. state.occ.placed = Nowhere BY <1>1, StateFields
<1>3. Sound(staffUnavailable, Nowhere) /\ On(Nowhere) = {} BY NowhereIsSound
<1>4. unplaced = <<>> /\ todo = Lesson /\ turn = 0 /\ position = 1 /\ best = 0
      /\ phase = "construct" /\ staffUnavailable \in Availabilities
  BY DEF Init
<1>5. unplaced \in Seq(Lesson) /\ Len(unplaced) = 0 /\ ToSet(unplaced) = {} BY <1>4 DEF ToSet
<1>6. Once(unplaced) BY <1>5 DEF Once
<1>7. Accounted(todo, Nowhere, unplaced) BY <1>3, <1>4, <1>5, <1>6 DEF Accounted
<1>8. position \in 1 .. Positions + 1 /\ turn \in 0 .. Len(unplaced) BY <1>4, <1>5, PositionsAreNatural
<1>9. phase \notin {"improve", "done"} /\ phase \in {"construct", "repair", "improve", "done"} BY <1>4
<1>10. best \in Int /\ todo \subseteq Lesson BY <1>4
<1> HIDE DEF Nowhere
<1> QED BY <1>1, <1>2, <1>3, <1>4, <1>5, <1>7, <1>8, <1>9, <1>10 DEF SolverInv

-----------------------------------------------------------------------------
(* The theorems *)

(* In every reachable state of the search the occupancy maps, the counters *)
(* and the score's aggregates are the functions of the placements that     *)
(* they are meant to be (StateOf), and the placements keep the hard        *)
(* constraints.                                                            *)
THEOREM SolverInvariant == Spec => []SolverInv
<1>1. SolverInv /\ [Next]_vars => SolverInv'
  BY ConstructKeeps, ImproveKeeps, StartRepairKeeps, TryEjectKeeps, GiveUpKeeps,
     StartImprovingKeeps, TimeIsUpKeeps, IdleKeeps DEF Next
<1> QED BY <1>1, InitSolverInv, PTL DEF Spec

(* Every variable of the search has its type. *)
THEOREM SolverTypes == Spec => []TypeOK
<1>1. SolverInv => TypeOK
  <2> SUFFICES ASSUME SolverInv PROVE TypeOK
    OBVIOUS
  <2>1. state.occ.placed \in Places /\ snapshot \in Places BY DEF SolverInv, Sound
  <2> QED BY <2>1 DEF SolverInv, TypeOK, Places
<1> QED BY <1>1, SolverInvariant, PTL

(* No step of the search breaks a hard constraint, in the timetable it     *)
(* works on or in the one it returns: no clash of classes, teachers or     *)
(* rooms, no lesson when its teacher is unavailable, no daily limit        *)
(* exceeded, no double split by a break, no wrong room.                    *)
THEOREM SolverStaysValid == Spec => []StaysValid
<1>1. SolverInv => StaysValid
  <2> SUFFICES ASSUME SolverInv PROVE StaysValid
    OBVIOUS
  <2>1. Sound(staffUnavailable, state.occ.placed) /\ Sound(staffUnavailable, snapshot) BY DEF SolverInv
  <2> QED BY <2>1, SoundIsHard DEF StaysValid
<1> QED BY <1>1, SolverInvariant, PTL

(* The running total, adjusted with every lesson placed, removed, put back  *)
(* or swapped, is at all times what recomputing the score would give.      *)
THEOREM SolverTotalIsExact == Spec => []TotalIsExact
<1>1. SolverInv => TotalIsExact
  <2> SUFFICES ASSUME SolverInv PROVE TotalIsExact
    OBVIOUS
  <2>1. PICK p : p = state.occ.placed OBVIOUS
  <2>2. state = StateOf(p) BY <2>1 DEF SolverInv
  <2> QED BY <2>1, <2>2, StateFields DEF TotalIsExact
<1> QED BY <1>1, SolverInvariant, PTL

(* The timetable returned has the score it is said to have, and none the   *)
(* annealing settled on has a lower one.                                   *)
THEOREM SolverBestIsBest == Spec => []BestIsBest
<1>1. SolverInv => BestIsBest
  <2> SUFFICES ASSUME SolverInv, phase \in {"improve", "done"}
               PROVE  best = Score(snapshot) /\ best <= state.agg.soft
    BY DEF BestIsBest
  <2>1. PICK p : p = state.occ.placed OBVIOUS
  <2>2. state = StateOf(p) /\ BestKnown(best, snapshot, p) BY <2>1 DEF SolverInv
  <2> QED BY <2>2, StateFields DEF BestKnown
<1> QED BY <1>1, SolverInvariant, PTL
(* One lesson is held wherever one is taught. *)
LEMMA HeldAlone ==
  ASSUME NEW u, NEW p, Sound(u, p), NEW l \in On(p), NEW slot \in At(p, l)
  PROVE  /\ slot \in Slot /\ p[l] \in Position
         /\ HolderOf(Held(p, OfClass(ClassOf[l]), slot)) = l
         /\ HolderOf(Held(p, OfTeacher(TeacherOf[l]), slot)) = l
         /\ p[l].room # NoRoom => HolderOf(InRoom(p, p[l].room, slot)) = l
<1>1. l \in Lesson /\ p[l] # None /\ p[l] \in Position /\ NoClash(p) BY DEF Sound, Places, On
<1>2. Length[l] = 2 => p[l].start + 1 \in Period BY <1>1 DEF Sound, SuitsAt
<1>3. slot \in Slot BY <1>1, <1>2, CellsInSlot DEF At
<1>4. ASSUME NEW m \in Lesson, p[m] # None, slot \in At(p, m), m # l
      PROVE  /\ ClassOf[m] # ClassOf[l] /\ TeacherOf[m] # TeacherOf[l]
             /\ p[m].room = p[l].room => p[l].room = NoRoom
  <2>1. slot \in At(p, l) \cap At(p, m) BY <1>4
  <2>2. At(p, l) \cap At(p, m) # {} BY <2>1, Zenon
  <2>3. l \in {x \in Lesson : p[x] # None} /\ m \in {x \in Lesson : p[x] # None} BY <1>1, <1>4
  <2> QED BY <1>1, <1>4, <2>2, <2>3 DEF NoClash
<1>5. Held(p, OfClass(ClassOf[l]), slot) = {l} BY <1>1, <1>4 DEF Held, OfClass
<1>6. Held(p, OfTeacher(TeacherOf[l]), slot) = {l} BY <1>1, <1>4 DEF Held, OfTeacher
<1>7. ASSUME p[l].room # NoRoom PROVE InRoom(p, p[l].room, slot) = {l} BY <1>1, <1>4, <1>7 DEF InRoom
<1> QED BY <1>1, <1>3, <1>5, <1>6, <1>7, HolderOfOne

LEMMA SoundIsIndexed ==
  ASSUME NEW u, NEW p, Sound(u, p)
  PROVE  IndexesAgree(OccOf(p))
<1> DEFINE o == OccOf(p)
<1>1. /\ o.placed = p /\ Placed(o) = On(p)
      /\ o.classBusy = ClassMap(p) /\ o.staffBusy = StaffMap(p) /\ o.roomBusy = RoomMap(p)
      /\ o.classDay = ClassDays(p) /\ o.staffDay = StaffDays(p)
  BY StateFields DEF OccOf
<1> HIDE DEF o
<1>2. ASSUME NEW l \in Placed(o), NEW slot \in At(o.placed, l)
      PROVE  /\ o.classBusy[ClassOf[l]][slot] = l
             /\ o.staffBusy[TeacherOf[l]][slot] = l
             /\ o.placed[l].room # NoRoom => o.roomBusy[o.placed[l].room][slot] = l
  <2>1. l \in On(p) /\ slot \in At(p, l) /\ l \in Lesson BY <1>1, <1>2 DEF On
  <2>2. /\ slot \in Slot /\ p[l] \in Position
        /\ HolderOf(Held(p, OfClass(ClassOf[l]), slot)) = l
        /\ HolderOf(Held(p, OfTeacher(TeacherOf[l]), slot)) = l
        /\ p[l].room # NoRoom => HolderOf(InRoom(p, p[l].room, slot)) = l
    BY <2>1, HeldAlone
  <2>3. ClassOf[l] \in Class /\ TeacherOf[l] \in Teacher BY <2>1, LessonAssumption
  <2>4. p[l].room # NoRoom => p[l].room \in Room BY <2>2, PositionFields
  <2>5. ClassMap(p)[ClassOf[l]][slot] = l BY <2>2, <2>3 DEF ClassMap
  <2>6. StaffMap(p)[TeacherOf[l]][slot] = l BY <2>2, <2>3 DEF StaffMap
  <2>7. p[l].room # NoRoom => RoomMap(p)[p[l].room][slot] = l BY <2>2, <2>4 DEF RoomMap
  <2> QED BY <1>1, <2>5, <2>6, <2>7
<1>3. ASSUME NEW slot \in Slot, NEW k \in Class, o.classBusy[k][slot] # None
      PROVE  LET l == o.classBusy[k][slot] IN l \in Placed(o) /\ slot \in At(o.placed, l) /\ ClassOf[l] = k
  <2> DEFINE H == Held(p, OfClass(k), slot)
  <2>1. o.classBusy[k][slot] = HolderOf(H) BY <1>1 DEF ClassMap
  <2>2. H \in SUBSET Lesson BY DEF Held, OfClass
  <2> HIDE DEF H
  <2>3. HolderOf(H) \in H BY <1>3, <2>1, <2>2, HolderIsHeld
  <2> QED BY <1>1, <2>1, <2>3 DEF H, Held, OfClass, On
<1>4. ASSUME NEW slot \in Slot, NEW t \in Teacher, o.staffBusy[t][slot] # None
      PROVE  LET l == o.staffBusy[t][slot] IN l \in Placed(o) /\ slot \in At(o.placed, l) /\ TeacherOf[l] = t
  <2> DEFINE H == Held(p, OfTeacher(t), slot)
  <2>1. o.staffBusy[t][slot] = HolderOf(H) BY <1>1 DEF StaffMap
  <2>2. H \in SUBSET Lesson BY DEF Held, OfTeacher
  <2> HIDE DEF H
  <2>3. HolderOf(H) \in H BY <1>4, <2>1, <2>2, HolderIsHeld
  <2> QED BY <1>1, <2>1, <2>3 DEF H, Held, OfTeacher, On
<1>5. ASSUME NEW slot \in Slot, NEW r \in Room, o.roomBusy[r][slot] # None
      PROVE  LET l == o.roomBusy[r][slot] IN l \in Placed(o) /\ slot \in At(o.placed, l) /\ o.placed[l].room = r
  <2> DEFINE H == InRoom(p, r, slot)
  <2>1. o.roomBusy[r][slot] = HolderOf(H) BY <1>1 DEF RoomMap
  <2>2. H \in SUBSET Lesson BY DEF InRoom
  <2> HIDE DEF H
  <2>3. HolderOf(H) \in H BY <1>5, <2>1, <2>2, HolderIsHeld
  <2> QED BY <1>1, <2>1, <2>3 DEF H, InRoom, On
<1>6. ASSUME NEW d \in Day
      PROVE  /\ \A k \in Class :
                   o.classDay[k][d] = TaughtOn(o.placed, {l \in Lesson : ClassOf[l] = k}, d)
             /\ \A t \in Teacher :
                   o.staffDay[t][d] = TaughtOn(o.placed, {l \in Lesson : TeacherOf[l] = t}, d)
  BY <1>1 DEF ClassDays, StaffDays, OfClass, OfTeacher
<1> QED BY <1>2, <1>3, <1>4, <1>5, <1>6, Zenon DEF IndexesAgree, o

(* A sequence without repetition is as long as its set is large. *)
LEMMA OnceCounts ==
  ASSUME NEW q \in Seq(Lesson), Once(q)
  PROVE  Len(q) = Cardinality(ToSet(q))
<1>1. Len(q) \in Nat /\ DOMAIN q = 1 .. Len(q) /\ q \in [1 .. Len(q) -> Lesson] BY LenProperties
<1>2. ToSet(q) = {q[i] : i \in 1 .. Len(q)} BY <1>1 DEF ToSet
<1>3. q \in [1 .. Len(q) -> ToSet(q)] BY <1>1, <1>2
<1>4. q \in Bijection(1 .. Len(q), ToSet(q))
  <2>1. \A i, j \in 1 .. Len(q) : q[i] = q[j] => i = j BY DEF Once
  <2>2. \A x \in ToSet(q) : \E i \in 1 .. Len(q) : q[i] = x BY <1>2
  <2>3. q \in Injection(1 .. Len(q), ToSet(q)) BY <1>3, <2>1 DEF Injection, IsInjective
  <2>4. q \in Surjection(1 .. Len(q), ToSet(q)) BY <1>3, <2>2 DEF Surjection
  <2> QED BY <2>3, <2>4 DEF Bijection
<1>5. ExistsBijection(1 .. Len(q), ToSet(q)) BY <1>4 DEF ExistsBijection
<1> QED BY <1>1, <1>5, FS_CountingElements

(* The occupancy maps and the day counters agree with the placements       *)
(* through every ejection, rollback, swap and undone move.                 *)
THEOREM SolverIndexesAreExact == Spec => []IndexesAreExact
<1>1. SolverInv => IndexesAreExact
  <2> SUFFICES ASSUME SolverInv PROVE IndexesAreExact
    OBVIOUS
  <2>1. PICK p : p = state.occ.placed OBVIOUS
  <2>2. state = StateOf(p) /\ Sound(staffUnavailable, p) BY <2>1 DEF SolverInv
  <2>3. state.occ = OccOf(p) BY <2>2, StateFields
  <2> QED BY <2>2, <2>3, SoundIsIndexed DEF IndexesAreExact
<1> QED BY <1>1, SolverInvariant, PTL

(* No lesson is lost or counted twice: each waits, is placed or is reported *)
(* unplaced, and the timetable returned holds all the placed ones.         *)
THEOREM SolverAccountsForLessons == Spec => []EveryLessonAccountedFor
<1>1. SolverInv => EveryLessonAccountedFor
  <2> SUFFICES ASSUME SolverInv PROVE EveryLessonAccountedFor
    OBVIOUS
  <2>1. PICK p : p = state.occ.placed OBVIOUS
  <2>2. /\ state = StateOf(p) /\ Accounted(todo, p, unplaced) /\ unplaced \in Seq(Lesson)
        /\ phase \in {"improve", "done"} => BestKnown(best, snapshot, p)
    BY <2>1 DEF SolverInv
  <2>3. Placed(state.occ) = On(p) BY <2>2, StateFields
  <2>4. Len(unplaced) = Cardinality(ToSet(unplaced)) BY <2>2, OnceCounts DEF Accounted
  <2>5. ASSUME phase \in {"improve", "done"}
        PROVE  \A l \in Lesson : snapshot[l] # None <=> l \in Placed(state.occ)
    BY <2>2, <2>3, <2>5 DEF BestKnown, On
  <2> QED BY <2>2, <2>3, <2>4, <2>5 DEF EveryLessonAccountedFor, Accounted
<1> QED BY <1>1, SolverInvariant, PTL

(* A position the repair tries either gets its lesson in, which then leaves *)
(* the list of unplaced ones, or leaves the whole state as it was.         *)
THEOREM SolverRepairsAllOrNothing == Spec => RepairIsAllOrNothing
<1>1. ASSUME SolverInv, [Next]_vars, phase = "repair", unplaced' = unplaced
      PROVE  state' = state
  <2>1. CASE StartRepair BY <1>1, <2>1 DEF StartRepair
  <2>2. CASE \E l \in Lesson : Construct(l) BY <1>1, <2>2 DEF Construct
  <2>3. CASE \E l \in Lesson : Improve(l) BY <1>1, <2>3 DEF Improve
  <2>4. CASE TryEject
    <3>1. PICK p, l : p = state.occ.placed /\ l = unplaced[turn] OBVIOUS
    <3>2. turn \in 1 .. Len(unplaced) /\ Repaired(p, l) BY <1>1, <2>4, <3>1, TurnOfRepair
    <3>3. unplaced' # RemoveAt(unplaced, turn)
      <4>1. unplaced \in Seq(Lesson) /\ Once(unplaced) BY <1>1 DEF SolverInv, Accounted
      <4>2. Len(RemoveAt(unplaced, turn)) = Len(unplaced) - 1 BY <3>2, <4>1, RemovedOnce
      <4>3. Len(unplaced) \in Nat BY <4>1, LenProperties
      <4> QED BY <1>1, <4>2, <4>3
    <3> QED BY <3>2, <3>3 DEF Repaired
  <2>5. CASE GiveUp BY <2>5 DEF GiveUp
  <2>6. CASE StartImproving BY <2>6 DEF StartImproving
  <2>7. CASE TimeIsUp BY <2>7 DEF TimeIsUp
  <2>8. CASE UNCHANGED vars BY <2>8 DEF vars
  <2> QED BY <1>1, <2>1, <2>2, <2>3, <2>4, <2>5, <2>6, <2>7, <2>8 DEF Next
<1>2. SolverInv /\ [Next]_vars => [phase = "repair" /\ unplaced' = unplaced => state' = state]_state
  BY <1>1
<1> QED BY <1>2, SolverInvariant, PTL DEF Spec, RepairIsAllOrNothing
=============================================================================
