------------------------------- MODULE Solver -------------------------------
(***************************************************************************)
(* The search of the scheduling engine (solve of engine/solver.ts): greedy *)
(* construction, hardest lesson first; a repair that forces left-over      *)
(* lessons in by ejecting others; then simulated annealing over moves and  *)
(* swaps until the time is up.  What is drawn at random is chosen freely,  *)
(* and the deadline may pass between any two iterations.                   *)
(*                                                                         *)
(* A step is one lesson constructed, one position of one lesson tried by   *)
(* the repair, or one iteration of the annealing.                          *)
(***************************************************************************)
EXTENDS Scoring, SequencesExt

VARIABLES
    phase,     \* "construct", "repair", "improve" or "done"
    todo,      \* lessons the construction has not come to
    state,     \* class State: its occupancy maps and its scoring aggregates
    unplaced,  \* lessons the construction could not place, a sequence
    turn,      \* the unplaced lesson under repair, from the last to the first
    position,  \* where the repair tries it, over days and periods
    best,      \* the lowest running total seen
    snapshot   \* the placements it belongs to

search == <<turn, position>>
vars == <<staffUnavailable, phase, todo, state, unplaced, search, best, snapshot>>

Positions == Len(Days) * Len(Orders)
DayAt(n) == Days[((n - 1) \div Len(Orders)) + 1]
StartAt(n) == ((n - 1) % Len(Orders)) + 1

TypeOK ==
    /\ staffUnavailable \in Availabilities
    /\ phase \in {"construct", "repair", "improve", "done"}
    /\ todo \subseteq Lesson
    /\ state.occ.placed \in [Lesson -> Position \cup {None}]
    /\ unplaced \in Seq(Lesson)
    /\ turn \in 0 .. Len(unplaced)
    /\ position \in 1 .. Positions + 1
    /\ best \in Int
    /\ snapshot \in [Lesson -> Position \cup {None}]

-----------------------------------------------------------------------------
(* State's place, restore and remove *)

Put(s, l, at) == [occ |-> Place(s.occ, l, at), agg |-> AddScore(s.agg, l, at)]

Take(s, l) == [occ |-> Unplace(s.occ, l), agg |-> SubScore(s.agg, l, s.occ.placed[l])]

PutBack(s, ls, from) == FoldLeft(LAMBDA t, l : Put(t, l, from.occ.placed[l]), s, ls)

TakeAll(s, ls) == FoldLeft(LAMBDA t, l : Take(t, l), s, ls)

(* bestCandidate: the first of the options with the lowest resulting total, *)
(* found by placing the lesson there and removing it again.                *)
Cost(s, l, c) == Put(s, l, c).agg.soft

Before(c, d) == c.day < d.day \/ (c.day = d.day /\ c.start <= d.start)

BestCandidate(s, l, options) ==
    LET cheapest == {c \in options : \A d \in options : Cost(s, l, c) <= Cost(s, l, d)}
    IN CHOOSE c \in cheapest : \A d \in cheapest : Before(c, d)

-----------------------------------------------------------------------------
(* Construction *)

Load(t) == SumFunctionOnSet(Length, {l \in Lesson : TeacherOf[l] = t})

Difficulty(l) ==
    Length[l] * 100 + (IF Needs[l] # NoType THEN 50 ELSE 0)
    + (IF l \in PrefersMorning THEN 10 ELSE 0) + Load(TeacherOf[l])

Construct(l) ==
    LET options == Candidates(state.occ, l) IN
    /\ phase = "construct"
    /\ l \in todo
    /\ \A m \in todo : Difficulty(m) <= Difficulty(l)
    /\ todo' = todo \ {l}
    /\ IF options = {}
       THEN unplaced' = Append(unplaced, l) /\ UNCHANGED state
       ELSE state' = Put(state, l, BestCandidate(state, l, options)) /\ UNCHANGED unplaced
    /\ UNCHANGED <<staffUnavailable, phase, search, best, snapshot>>

StartRepair ==
    /\ phase = "construct" /\ todo = {}
    /\ phase' = "repair"
    /\ turn' = Len(unplaced) /\ position' = 1
    /\ UNCHANGED <<staffUnavailable, todo, state, unplaced, best, snapshot>>

-----------------------------------------------------------------------------
(* tryEject *)

(* What stands in the way of l at a position, as it is met: period by      *)
(* period, the class's lesson before the teacher's.                        *)
Met(l, day, start) ==
    LET InClass(n) == state.occ.classBusy[ClassOf[l]][<<day, n>>]
        WithTeacher(n) == state.occ.staffBusy[TeacherOf[l]][<<day, n>>]
    IN IF Length[l] = 2
       THEN <<InClass(start), WithTeacher(start), InClass(start + 1), WithTeacher(start + 1)>>
       ELSE <<InClass(start), WithTeacher(start)>>

InTheWay(l, day, start) == Range(Met(l, day, start)) \ {None}

(* The same, each lesson once, in the order they are met. *)
Blockers(l, day, start) ==
    LET blocking == InTheWay(l, day, start)
        First(x) == Min({i \in 1 .. 2 * Length[l] : Met(l, day, start)[i] = x})
    IN CHOOSE q \in [1 .. Cardinality(blocking) -> blocking] :
           \A i, j \in 1 .. Cardinality(blocking) : i < j => First(q[i]) < First(q[j])

(* Faulty variant: an evicted lesson that finds no home is left out. *)
RehomeWhatFits(s, evicted) ==
    FoldLeft(LAMBDA r, l :
                LET options == Candidates(r.s.occ, l) IN
                IF options = {} THEN r
                ELSE [ok |-> TRUE, homed |-> Append(r.homed, l),
                      s |-> Put(r.s, l, BestCandidate(r.s, l, options))],
             [ok |-> TRUE, homed |-> <<>>, s |-> s], evicted)

(* The evicted lessons find new homes one after the other, as long as each *)
(* does.                                                                   *)
Rehome(s, evicted) ==
    FoldLeft(LAMBDA r, l :
                LET options == Candidates(r.s.occ, l) IN
                IF ~r.ok \/ options = {} THEN [r EXCEPT !.ok = FALSE]
                ELSE [ok |-> TRUE, homed |-> Append(r.homed, l),
                      s |-> Put(r.s, l, BestCandidate(r.s, l, options))],
             [ok |-> TRUE, homed |-> <<>>, s |-> s], evicted)

(* Faulty variant: the lessons that did find a new home stay there. *)
EjectedWithoutRollback(l, day, start, evicted) ==
    LET emptied == TakeAll(state, evicted)
        fit == {c \in Candidates(emptied.occ, l) : c.day = day /\ c.start = start}
        forced == Put(emptied, l, CHOOSE c \in fit : TRUE)
        r == Rehome(forced, evicted)
    IN IF fit = {} THEN [ok |-> FALSE, s |-> PutBack(emptied, evicted, state)]
       ELSE IF r.ok THEN [ok |-> TRUE, s |-> r.s]
       ELSE [ok |-> FALSE, s |-> Take(r.s, l)]

(* The lesson goes where the evicted ones were, if it may and they find    *)
(* room elsewhere; otherwise everything goes back.                         *)
Ejected(l, day, start, evicted) ==
    LET emptied == TakeAll(state, evicted)
        fit == {c \in Candidates(emptied.occ, l) : c.day = day /\ c.start = start}
        forced == Put(emptied, l, CHOOSE c \in fit : TRUE)
        r == Rehome(forced, evicted)
    IN IF fit = {} THEN [ok |-> FALSE, s |-> PutBack(emptied, evicted, state)]
       ELSE IF r.ok THEN [ok |-> TRUE, s |-> r.s]
       ELSE [ok |-> FALSE,
             s |-> PutBack(Take(TakeAll(r.s, r.homed), l), evicted, state)]

(* A position with nothing to evict, or too much, is passed over. *)
WorthTrying(l, day, start) ==
    /\ Contiguous(start, Length[l])
    /\ \A slot \in Cells(l, [day |-> day, start |-> start]) : <<TeacherOf[l], slot[1], slot[2]>> \notin staffUnavailable
    /\ Cardinality(InTheWay(l, day, start)) \in {1, 2}

NextPosition == position' = position + 1 /\ UNCHANGED <<unplaced, turn>>

TryEject ==
    LET l == unplaced[turn]
        day == DayAt(position)
        start == StartAt(position)
        e == Ejected(l, day, start, Blockers(l, day, start))
    IN /\ phase = "repair" /\ turn > 0 /\ position <= Positions
       /\ IF ~WorthTrying(l, day, start)
          THEN NextPosition /\ UNCHANGED state
          ELSE /\ state' = e.s
               /\ IF e.ok THEN /\ unplaced' = RemoveAt(unplaced, turn)
                               /\ turn' = turn - 1 /\ position' = 1
                          ELSE NextPosition
       /\ UNCHANGED <<staffUnavailable, phase, todo, best, snapshot>>

GiveUp ==
    /\ phase = "repair" /\ turn > 0 /\ position > Positions
    /\ turn' = turn - 1 /\ position' = 1
    /\ UNCHANGED <<staffUnavailable, phase, todo, state, unplaced, best, snapshot>>

StartImproving ==
    /\ phase = "repair" /\ turn = 0
    /\ phase' = IF Placed(state.occ) = {} THEN "done" ELSE "improve"
    /\ best' = state.agg.soft /\ snapshot' = state.occ.placed
    /\ UNCHANGED <<staffUnavailable, todo, state, unplaced, search>>

-----------------------------------------------------------------------------
(* Annealing *)

Partners(l) ==
    {q \in Placed(state.occ) \ {l} :
        Length[q] = Length[l] /\ (ClassOf[q] = ClassOf[l] \/ TeacherOf[q] = TeacherOf[l])}

(* The running total is replaced by the recomputed one now and then. *)
Resynced(s, resync) == IF resync THEN [s EXCEPT !.agg.soft = Score(s.occ.placed)] ELSE s

(* Faulty variant: the best total is remembered without its timetable. *)
AcceptWithoutSnapshot(s, resync) ==
    /\ state' = Resynced(s, resync)
    /\ IF s.agg.soft < best THEN best' = s.agg.soft ELSE UNCHANGED best
    /\ UNCHANGED snapshot

Accept(s, resync) ==
    /\ state' = Resynced(s, resync)
    /\ IF s.agg.soft < best
       THEN best' = s.agg.soft /\ snapshot' = s.occ.placed
       ELSE UNCHANGED <<best, snapshot>>

Undo(s, moved, resync) ==
    /\ s.agg.soft > state.agg.soft
    /\ state' = Resynced(PutBack(TakeAll(s, moved), moved, state), resync)
    /\ UNCHANGED <<best, snapshot>>

(* A worse timetable is accepted or undone, a better one accepted. *)
Judge(s, moved) == \E resync \in BOOLEAN : Accept(s, resync) \/ Undo(s, moved, resync)

Unmoved(s, moved) == state' = PutBack(s, moved, state) /\ UNCHANGED <<best, snapshot>>

Relocate(l) ==
    LET taken == Take(state, l) IN
    \E c \in Candidates(taken.occ, l) : Judge(Put(taken, l, c), <<l>>)

(* Faulty variant: each keeps its room, whether or not it is free there. *)
SwappedRoomsUnchanged(s, l, q) ==
    LET a == state.occ.placed[l]
        b == state.occ.placed[q]
    IN {[l |-> a.room, q |-> b.room]}

(* The rooms l and q get in each other's slot, if they may be there: both  *)
(* are tested with both of them taken out, before either is placed.        *)
SwappedRooms(s, l, q) ==
    LET a == state.occ.placed[l]
        b == state.occ.placed[q]
        rooms == [l |-> CanPlace(s.occ, l, b.day, b.start),
                  q |-> CanPlace(s.occ, q, a.day, a.start)]
    IN IF Unfit \in {rooms.l, rooms.q} THEN {} ELSE {rooms}

Exchanged(s, l, q, rooms) ==
    Put(Put(s, l, [state.occ.placed[q] EXCEPT !.room = rooms.l]),
        q, [state.occ.placed[l] EXCEPT !.room = rooms.q])

Swap(l, q) ==
    LET taken == Take(Take(state, l), q)
        possible == SwappedRooms(taken, l, q)
    IN /\ q \in Partners(l)
       /\ \/ possible = {} /\ Unmoved(taken, <<l, q>>)
          \/ \E rooms \in possible : Judge(Exchanged(taken, l, q, rooms), <<l, q>>)

Stuck(l) ==
    LET taken == Take(state, l) IN
    /\ Partners(l) = {} /\ Candidates(taken.occ, l) = {}
    /\ Unmoved(taken, <<l>>)

Improve(l) ==
    /\ phase = "improve"
    /\ l \in Placed(state.occ)
    /\ Relocate(l) \/ (\E q \in Lesson : Swap(l, q)) \/ Stuck(l)
    /\ UNCHANGED <<staffUnavailable, phase, todo, unplaced, search>>

TimeIsUp ==
    /\ phase = "improve"
    /\ phase' = "done"
    /\ UNCHANGED <<staffUnavailable, todo, state, unplaced, search, best, snapshot>>

-----------------------------------------------------------------------------
Init ==
    /\ staffUnavailable \in Availabilities
    /\ phase = "construct"
    /\ todo = Lesson
    /\ state = [occ |-> EmptyOccupancy, agg |-> NoScore]
    /\ unplaced = <<>>
    /\ turn = 0 /\ position = 1
    /\ best = 0
    /\ snapshot = EmptyOccupancy.placed

Next ==
    \/ \E l \in Lesson : Construct(l) \/ Improve(l)
    \/ StartRepair \/ TryEject \/ GiveUp \/ StartImproving \/ TimeIsUp

Spec == Init /\ [][Next]_vars

-----------------------------------------------------------------------------
(* Properties *)

(* "The timetable stays valid throughout": no step of any phase, undone or *)
(* not, breaks a hard constraint, in the running timetable or in the one   *)
(* returned (State, whose maps are what keeps clashes out, and solve).     *)
StaysValid == HardConstraints(state.occ.placed) /\ HardConstraints(snapshot)

(* The occupancy maps and counters never lose track of the placements,     *)
(* through ejections, rollbacks, swaps and undone moves.                   *)
IndexesAreExact == IndexesAgree(state.occ)

(* The incremental total is what a full recomputation gives ("if these     *)
(* ever drift apart, the delta bookkeeping has a bug").                    *)
TotalIsExact == state.agg.soft = Score(state.occ.placed)

(* The best timetable returned scores what it is said to score, and no     *)
(* timetable the annealing ever settled on scores less.                    *)
BestIsBest ==
    phase \in {"improve", "done"} => best = Score(snapshot) /\ best <= state.agg.soft

(* No lesson is lost or returned twice: each is waiting, placed or         *)
(* reported unplaced, and the timetable returned holds all the placed ones. *)
EveryLessonAccountedFor ==
    /\ Lesson \ todo = Placed(state.occ) \cup ToSet(unplaced)
    /\ Placed(state.occ) \cap (todo \cup ToSet(unplaced)) = {}
    /\ Len(unplaced) = Cardinality(ToSet(unplaced))
    /\ phase \in {"improve", "done"} =>
          \A l \in Lesson : snapshot[l] # None <=> l \in Placed(state.occ)

(* A repair that does not get its lesson in leaves every lesson where it   *)
(* was, and the score with it.                                             *)
RepairIsAllOrNothing ==
    [][phase = "repair" /\ unplaced' = unplaced => state' = state]_state
=============================================================================
