----------------------- MODULE TimetableVersionsProofs -----------------------
(***************************************************************************)
(* What TimetableVersions keeps for every number of versions, requests,    *)
(* days and years.  The invariant behind it: a request that is not stale   *)
(* still knows the truth (Fresh), so what it checked holds when it writes. *)
(***************************************************************************)
EXTENDS TimetableVersions, TLAPS

(* What a request remembers, stale or not. *)
LocalOK(r) ==
    LET l == req[r] IN
    l.pc # "idle" =>
        /\ l.tt \in Timetable
        /\ l.pred # None => 1 < l.from

(* The dates an update is going to write are the row's unless it sets them. *)
KnowsDates(l) ==
    /\ ~l.setFrom => l.from = rows[l.tt].from
    /\ ~l.setTo => l.to = rows[l.tt].to
    /\ Ordered(l.from, l.to)

KnowsDraft(l) ==
    /\ Found(l.tt) /\ rows[l.tt].status = "DRAFT"
    /\ l.from = rows[l.tt].from /\ l.to = rows[l.tt].to

KnowsPredecessor(l) ==
    l.pred # None =>
        /\ l.pred # l.tt
        /\ IsLive(rows[l.pred])
        /\ rows[l.pred].to = NoEnd
        /\ rows[l.pred].from < l.from

(* A request nobody disturbed since its first read still knows the truth.  *)
Fresh(r) ==
    LET l == req[r] IN
    ~l.stale =>
        /\ l.pc = "checkMove" => KnowsDates(l) /\ IsLive(rows[l.tt])
        /\ l.pc = "writeDates" =>
              /\ KnowsDates(l) /\ Found(l.tt)
              /\ IsLive(rows[l.tt]) =>
                    NoClash(l.tt, l.from, l.to, None, NoEnd)
        /\ l.pc = "findOpenEnded" => KnowsDraft(l)
        /\ l.pc = "closeAndCheck" => KnowsDraft(l) /\ KnowsPredecessor(l)
        /\ l.pc = "commitPublish" =>
              /\ KnowsDraft(l) /\ KnowsPredecessor(l)
              /\ NoClash(l.tt, l.from, l.to, l.pred, Eve(l.from))
        /\ l.pc = "writeArchived" =>
              Found(l.tt) /\ rows[l.tt].status # "ARCHIVED"
        /\ l.pc = "writeDeleted" =>
              Found(l.tt) /\ rows[l.tt].status # "PUBLISHED"

RowsOrdered ==
    \A t \in Timetable :
        /\ Ordered(rows[t].from, rows[t].to)
        /\ rows[t].deleted => rows[t].status # "ABSENT"

NoTwoClash ==
    \A t, u \in Timetable :
        t # u /\ IsLive(rows[t]) /\ IsLive(rows[u]) =>
            ~Clash(rows[t].from, rows[t].to, rows[u].from, rows[u].to)

GoodRows == RowsOrdered /\ NoTwoClash

TypeInv == TypeOK /\ \A r \in Request : LocalOK(r)

IInv ==
    /\ TypeInv
    /\ ~raced => GoodRows
    /\ \A r \in Request : Fresh(r)

-----------------------------------------------------------------------------
(* Types *)

LEMMA LocalTypes ==
    ASSUME TypeInv, NEW r \in Request
    PROVE  /\ req[r] \in Local
           /\ req[r].pc # "idle" => req[r].tt \in Timetable
           /\ req[r].pc # "idle" => rows[req[r].tt] \in Row
BY DEF TypeInv, TypeOK, LocalOK

LEMMA IdleType == Idle \in Local /\ Idle.pc = "idle"
<1>1. 1 \in Day
  BY DaysAssumption DEF Day
<1> QED
  BY <1>1 DEF Idle, Local, Pc

(* The eve of a day that is not the first is a day. *)
LEMMA EveIsDay == \A d \in Day : 1 < d => Eve(d) \in Day
BY DaysAssumption DEF Day, Eve

(* Every kind of write keeps the rows rows: what a handler adds to the     *)
(* type argument is only the type of the table it writes.                  *)
LEMMA WritesType ==
    ASSUME TypeInv, NEW r \in Request, NEW newRows,
           newRows \in [Timetable -> Row], Writes(r, newRows)
    PROVE  TypeInv'
<1>1. rows' \in [Timetable -> Row] /\ today' \in Day
  BY DEF Writes, TypeInv, TypeOK
<1>2. raced' \in BOOLEAN
  <2>1. req[r].stale \in BOOLEAN /\ raced \in BOOLEAN
    BY DEF TypeInv, TypeOK, Local
  <2> QED
    BY <2>1 DEF Writes
<1>3. ASSUME NEW q \in Request
      PROVE  req'[q] \in Local /\ LocalOK(q)'
  <2>1. CASE q = r
    <3>1. req'[q] = Idle
      BY <2>1 DEF Writes
    <3> QED
      BY <3>1, IdleType DEF LocalOK
  <2>2. CASE q # r
    <3> DEFINE s == req[q].stale \/ Disturbs(newRows, q)
    <3>1. req'[q] = [req[q] EXCEPT !.stale = s]
      BY <2>2 DEF Writes
    <3>2. s \in BOOLEAN /\ req[q] \in Local
      BY DEF TypeInv, TypeOK, Local, Disturbs
    <3> HIDE DEF s
    <3>3. /\ req'[q] \in Local /\ req'[q].pc = req[q].pc
          /\ req'[q].tt = req[q].tt /\ req'[q].pred = req[q].pred
          /\ req'[q].from = req[q].from
      BY <3>1, <3>2 DEF Local
    <3> QED
      BY <3>3 DEF TypeInv, LocalOK
  <2> QED
    BY <2>1, <2>2
<1>4. req' \in [Request -> Local]
  BY <1>3 DEF Writes
<1> QED
  BY <1>1, <1>2, <1>3, <1>4 DEF TypeInv, TypeOK

LEMMA ContinuesType ==
    ASSUME TypeInv, NEW r \in Request, NEW l \in Local, Continues(r, l),
           l.pc # "idle" => l.tt \in Timetable /\ (l.pred # None => 1 < l.from)
    PROVE  TypeInv'
BY DEF Continues, TypeInv, TypeOK, LocalOK

LEMMA IdlesType ==
    ASSUME TypeInv, NEW r \in Request, Idles(r)
    PROVE  TypeInv'
BY IdleType DEF Idles, TypeInv, TypeOK, LocalOK

LEMMA InitType == Init => TypeInv
<1> SUFFICES ASSUME Init PROVE TypeInv
  OBVIOUS
<1>1. 1 \in Day
  BY DaysAssumption DEF Day
<1>2. rows \in [Timetable -> Row]
  BY <1>1 DEF Init, Row, Status
<1>3. req \in [Request -> Local] /\ \A r \in Request : req[r].pc = "idle"
  BY IdleType DEF Init
<1>4. today \in Day /\ raced \in BOOLEAN
  BY <1>1 DEF Init
<1> QED
  BY <1>2, <1>3, <1>4 DEF TypeInv, TypeOK, LocalOK

LEMMA DatedType ==
    ASSUME NEW row \in Row, NEW l \in Local
    PROVE  /\ Dated(row, l) \in Row
           /\ Dated(row, l).status = row.status
           /\ Dated(row, l).deleted = row.deleted
           /\ Dated(row, l).from = IF l.setFrom THEN l.from ELSE row.from
           /\ Dated(row, l).to = IF l.setTo THEN l.to ELSE row.to
BY DEF Dated, Row, Local

(* The table a publication commits. *)
LEMMA PublishedType ==
    ASSUME TypeInv, NEW l \in Local, l.pred # None => 1 < l.from
    PROVE  /\ Published(rows, l) \in [Timetable -> Row]
           /\ \A t \in Timetable :
                 LET new == Published(rows, l)[t] IN
                 /\ new.status = IF t = l.tt THEN "PUBLISHED" ELSE rows[t].status
                 /\ new.deleted = rows[t].deleted
                 /\ new.from = rows[t].from
                 /\ new.to = IF t = l.pred THEN Eve(l.from) ELSE rows[t].to
                 /\ t # l.tt /\ t # l.pred => new = rows[t]
<1>1. ASSUME NEW t \in Timetable
      PROVE  LET new == Published(rows, l)[t] IN
             /\ new \in Row
             /\ new.status = IF t = l.tt THEN "PUBLISHED" ELSE rows[t].status
             /\ new.deleted = rows[t].deleted
             /\ new.from = rows[t].from
             /\ new.to = IF t = l.pred THEN Eve(l.from) ELSE rows[t].to
             /\ t # l.tt /\ t # l.pred => new = rows[t]
  <2>1. rows[t] \in Row /\ "PUBLISHED" \in Status
    BY DEF TypeInv, TypeOK, Status
  <2>2. t = l.pred => Eve(l.from) \in Day
    BY EveIsDay, NullAssumption DEF Local
  <2>3. CASE t = l.tt /\ t = l.pred
    <3>1. Published(rows, l)[t] =
             [rows[t] EXCEPT !.status = "PUBLISHED", !.to = Eve(l.from)]
      BY <2>3 DEF Published
    <3> QED
      BY <2>1, <2>2, <2>3, <3>1 DEF Row
  <2>4. CASE t = l.tt /\ t # l.pred
    <3>1. Published(rows, l)[t] =
             [rows[t] EXCEPT !.status = "PUBLISHED", !.to = rows[t].to]
      BY <2>4 DEF Published
    <3> QED
      BY <2>1, <2>4, <3>1 DEF Row
  <2>5. CASE t # l.tt /\ t = l.pred
    <3>1. Published(rows, l)[t] = [rows[t] EXCEPT !.to = Eve(l.from)]
      BY <2>5 DEF Published
    <3> QED
      BY <2>1, <2>2, <2>5, <3>1 DEF Row
  <2>6. CASE t # l.tt /\ t # l.pred
    BY <2>1, <2>6 DEF Published
  <2> QED
    BY <2>3, <2>4, <2>5, <2>6
<1>2. Published(rows, l) = [t \in Timetable |-> Published(rows, l)[t]]
  BY DEF Published
<1> QED
  BY <1>1, <1>2

LEMMA TypeStep == TypeInv /\ [Next]_vars => TypeInv'
<1> SUFFICES ASSUME TypeInv, [Next]_vars PROVE TypeInv'
  OBVIOUS
<1> USE DEF Day
<1>1. ASSUME NEW r \in Request, Handle(r) PROVE TypeInv'
  <2> DEFINE l == req[r]
  <2>1. CASE CheckMove(r)
    BY <2>1, LocalTypes, ContinuesType, IdlesType DEF CheckMove, Local, Pc, TypeInv, LocalOK
  <2>2. CASE WriteDates(r)
    <3>1. l \in Local /\ l.tt \in Timetable /\ rows[l.tt] \in Row
      BY <2>2, LocalTypes DEF WriteDates
    <3>2. [rows EXCEPT ![l.tt] = Dated(rows[l.tt], l)] \in [Timetable -> Row]
      BY <3>1, DatedType DEF TypeInv, TypeOK
    <3> QED
      BY <2>2, <3>2, WritesType DEF WriteDates
  <2>3. CASE FindOpenEnded(r)
    <3>1. PICK p : /\ p = None \/ p \in OpenEndedBefore(l.from)
                   /\ Continues(r, [l EXCEPT !.pc = "closeAndCheck", !.pred = p])
      BY <2>3 DEF FindOpenEnded, LatestOf
    <3>2. l \in Local /\ l.tt \in Timetable
      BY <2>3, LocalTypes DEF FindOpenEnded
    <3>3. p # None => p \in Timetable /\ 1 < l.from
      BY <3>1, <3>2 DEF OpenEndedBefore, TypeInv, TypeOK, Row, Local
    <3> QED
      BY <3>1, <3>2, <3>3, ContinuesType DEF Local, Pc
  <2>4. CASE CloseAndCheck(r)
    BY <2>4, LocalTypes, ContinuesType, IdlesType DEF CloseAndCheck, Local, Pc, TypeInv, LocalOK
  <2>5. CASE CommitPublish(r)
    <3>1. Published(rows, l) \in [Timetable -> Row]
      BY <2>5, LocalTypes, PublishedType DEF CommitPublish, TypeInv, LocalOK
    <3> QED
      BY <2>5, <3>1, WritesType DEF CommitPublish
  <2>6. CASE WriteArchived(r)
    BY <2>6, LocalTypes, WritesType DEF WriteArchived, Local, Row, Status, TypeInv, TypeOK
  <2>7. CASE WriteDeleted(r)
    BY <2>7, LocalTypes, WritesType DEF WriteDeleted, Local, Row, TypeInv, TypeOK
  <2>8. CASE Fail(r)
    BY <2>8, IdlesType DEF Fail
  <2> QED
    BY <1>1, <2>1, <2>2, <2>3, <2>4, <2>5, <2>6, <2>7, <2>8 DEF Handle
<1>2. ASSUME NEW r \in Request, NEW t \in Timetable, Begin(r, t) PROVE TypeInv'
  <2> rows[t] \in Row /\ Idle \in Local
    BY IdleType DEF TypeInv, TypeOK
  <2>1. ASSUME NEW newFrom \in Day \cup {Keep}, NEW newTo \in Day \cup {NoEnd, Keep},
               BeginUpdate(r, t, newFrom, newTo)
        PROVE  TypeInv'
    <3> DEFINE from == IF newFrom = Keep THEN rows[t].from ELSE newFrom
               to == IF newTo = Keep THEN rows[t].to ELSE newTo
    <3>1. from \in Day /\ to \in Day \cup {NoEnd}
      BY DEF Row
    <3> HIDE DEF from, to
    <3>2. PICK pc \in {"checkMove", "writeDates"}, b \in BOOLEAN, c \in BOOLEAN :
             Continues(r, [Idle EXCEPT !.pc = pc, !.tt = t, !.from = from,
                                       !.to = to, !.setFrom = b, !.setTo = c])
      BY <2>1 DEF BeginUpdate, from, to
    <3> QED
      BY <3>1, <3>2, ContinuesType DEF Idle, Local, Pc
  <2>2. ASSUME NEW allowBackdate \in BOOLEAN, NEW supersede \in BOOLEAN,
               BeginPublish(r, t, allowBackdate, supersede)
        PROVE  TypeInv'
    BY <2>2, ContinuesType DEF BeginPublish, Idle, Local, Pc, Row
  <2>3. CASE BeginArchive(r, t)
    BY <2>3, ContinuesType, IdleType DEF BeginArchive, Idle, Local, Pc
  <2>4. CASE BeginRemove(r, t)
    BY <2>4, ContinuesType, IdleType DEF BeginRemove, Idle, Local, Pc
  <2> QED
    BY <1>2, <2>1, <2>2, <2>3, <2>4 DEF Begin
<1>3. ASSUME NEW t \in Timetable, NEW y \in Year, NEW from \in Day,
             NEW to \in Day \cup {NoEnd}, CreateDraft(t, y, from, to)
      PROVE TypeInv'
  BY <1>3 DEF CreateDraft, TypeInv, TypeOK, LocalOK, Row, Status
<1>4. CASE Tick
  BY <1>4, DaysAssumption DEF Tick, TypeInv, TypeOK, LocalOK
<1>5. CASE UNCHANGED vars
  BY <1>5 DEF vars, TypeInv, TypeOK, LocalOK
<1> QED
  BY <1>1, <1>2, <1>3, <1>4, <1>5 DEF Next

(* Every row, request and date keeps its type: in particular no supersede  *)
(* ever closes a version before the first day of the calendar.             *)
THEOREM TypeCorrect == Spec => []TypeOK
<1>1. TypeInv => TypeOK
  BY DEF TypeInv
<1> QED
  BY <1>1, InitType, TypeStep, PTL DEF Spec

-----------------------------------------------------------------------------
(* A request that is not disturbed keeps its knowledge *)

LEMMA ClashSymmetric ==
    ASSUME NEW f \in Day, NEW t \in Day \cup {NoEnd},
           NEW g \in Day, NEW u \in Day \cup {NoEnd}
    PROVE  Clash(f, t, g, u) => Clash(g, u, f, t)
BY NullAssumption DEF Clash, Day

(* Cutting an open end cannot make a clash. *)
LEMMA ClosingKeepsApart ==
    ASSUME NEW f \in Day, NEW t \in Day,
           NEW g \in Day, NEW u \in Day \cup {NoEnd},
           ~Clash(f, NoEnd, g, u)
    PROVE  ~Clash(f, t, g, u)
BY NullAssumption DEF Clash, Day

(* The calendar entry of a version tells whether it is live, and its days. *)
LEMMA PeriodTells ==
    ASSUME NEW a \in Row, NEW b \in Row, Period(a) = Period(b)
    PROVE  /\ IsLive(a) = IsLive(b)
           /\ IsLive(a) => a.from = b.from /\ a.to = b.to
BY NullAssumption DEF Period, IsLive, Row

LEMMA FreshUnchanged ==
    ASSUME NEW q \in Request, Fresh(q), rows' = rows, req'[q] = req[q]
    PROVE  Fresh(q)'
BY DEF Fresh, KnowsDates, KnowsDraft, KnowsPredecessor, Found, NoClash

LEMMA FreshIdle ==
    ASSUME NEW q \in Request, req'[q].pc = "idle"
    PROVE  Fresh(q)'
BY DEF Fresh

(* It is enough that its own version and the calendar stay as they are. *)
LEMMA FreshKept ==
    ASSUME TypeInv, TypeInv', NEW q \in Request, Fresh(q), req'[q] = req[q],
           req[q].pc # "idle" => rows'[req[q].tt] = rows[req[q].tt],
           \A t \in Timetable : Period(rows'[t]) = Period(rows[t])
    PROVE  Fresh(q)'
<1> DEFINE l == req[q]
<1>1. CASE l.pc = "idle"
  BY <1>1, FreshIdle
<1>2. CASE l.pc # "idle"
  <2>1. l \in Local /\ l.tt \in Timetable /\ rows'[l.tt] = rows[l.tt]
    BY <1>2 DEF TypeInv, TypeOK, LocalOK
  <2>2. \A t \in Timetable :
           /\ IsLive(rows'[t]) = IsLive(rows[t])
           /\ IsLive(rows'[t]) => /\ rows'[t].from = rows[t].from
                                  /\ rows'[t].to = rows[t].to
    <3> TAKE t \in Timetable
    <3>1. rows[t] \in Row /\ rows'[t] \in Row
      BY DEF TypeInv, TypeOK
    <3> QED
      BY <3>1, PeriodTells
  <2>3. KnowsDates(l) => KnowsDates(l)'
    BY <2>1 DEF KnowsDates
  <2>4. KnowsDraft(l) => KnowsDraft(l)'
    BY <2>1 DEF KnowsDraft, Found
  <2>5. KnowsPredecessor(l) => KnowsPredecessor(l)'
    BY <2>1, <2>2 DEF KnowsPredecessor, Local
  <2>6. \A c, e : NoClash(l.tt, l.from, l.to, c, e) =>
                   NoClash(l.tt, l.from, l.to, c, e)'
    BY <2>2 DEF NoClash
  <2>7. Found(l.tt)' = Found(l.tt) /\ rows'[l.tt].status = rows[l.tt].status
    BY <2>1 DEF Found
  <2> QED
    BY <2>1, <2>3, <2>4, <2>5, <2>6, <2>7 DEF Fresh, Found
<1> QED
  BY <1>1, <1>2

LEMMA FreshUndisturbed ==
    ASSUME TypeInv, TypeInv', NEW r \in Request, NEW q \in Request,
           Writes(r, rows'), Fresh(q)
    PROVE  Fresh(q)'
<1> DEFINE l == req[q]
<1>1. l \in Local
  BY DEF TypeInv, TypeOK
<1>2. CASE q = r
  BY <1>2, FreshIdle, IdleType DEF Writes
<1>3. CASE q # r /\ (l.stale \/ Disturbs(rows', q))
  <2>1. req'[q] = [l EXCEPT !.stale = TRUE]
    BY <1>1, <1>3 DEF Writes, Local
  <2> QED
    BY <1>1, <2>1 DEF Fresh, Local
<1>4. CASE q # r /\ ~l.stale /\ ~Disturbs(rows', q)
  <2>1. req'[q] = [l EXCEPT !.stale = FALSE]
    BY <1>1, <1>4 DEF Writes, Local
  <2>2. req'[q] = l
    BY <1>1, <1>4, <2>1 DEF Local
  <2>3. CASE l.pc = "idle"
    BY <2>2, <2>3, FreshIdle
  <2>4. CASE l.pc # "idle"
    BY <1>4, <2>2, <2>4, FreshKept DEF Disturbs
  <2> QED
    BY <2>3, <2>4
<1> QED
  BY <1>1, <1>2, <1>3, <1>4

(* A handler that only reads leaves the others alone: what remains to show *)
(* is what it now knows itself.                                            *)
LEMMA FreshContinues ==
    ASSUME NEW r \in Request, NEW l, Continues(r, l), TypeInv,
           \A q \in Request : Fresh(q), Fresh(r)'
    PROVE  \A q \in Request : Fresh(q)'
BY FreshUnchanged DEF Continues, TypeInv, TypeOK

LEMMA FreshIdles ==
    ASSUME NEW r \in Request, Idles(r), TypeInv, \A q \in Request : Fresh(q)
    PROVE  \A q \in Request : Fresh(q)'
<1>1. Fresh(r)'
  BY FreshIdle, IdleType DEF Idles, TypeInv, TypeOK
<1> QED
  BY <1>1, FreshUnchanged DEF Idles, TypeInv, TypeOK

LEMMA FreshHandle ==
    ASSUME TypeInv, TypeInv', \A q \in Request : Fresh(q),
           NEW r \in Request, Handle(r)
    PROVE  \A q \in Request : Fresh(q)'
<1> DEFINE l == req[r]
<1>1. l \in Local /\ Fresh(r) /\ req \in [Request -> Local]
  BY DEF TypeInv, TypeOK
<1>2. CASE CheckMove(r)
  <2> DEFINE m == [l EXCEPT !.pc = "writeDates"]
  <2>1. CASE Idles(r)
    BY <2>1, FreshIdles
  <2>2. CASE Continues(r, m) /\ NoClash(l.tt, l.from, l.to, None, NoEnd)
    <3>1. req'[r] = m /\ rows' = rows
      BY <1>1, <2>2 DEF Continues
    <3>2. ~m.stale => KnowsDates(l) /\ Found(l.tt)
      BY <1>1, <1>2 DEF Fresh, CheckMove, IsLive, Found, Local
    <3>3. Fresh(r)'
      BY <1>1, <2>2, <3>1, <3>2 DEF Fresh, KnowsDates, Found, NoClash, Local
    <3> QED
      BY <2>2, <3>3, FreshContinues
  <2> QED
    BY <1>2, <2>1, <2>2 DEF CheckMove
<1>3. CASE FindOpenEnded(r)
  <2>1. PICK p : /\ p = None \/ p \in OpenEndedBefore(l.from)
                 /\ Continues(r, [l EXCEPT !.pc = "closeAndCheck", !.pred = p])
    BY <1>3 DEF FindOpenEnded, LatestOf
  <2> DEFINE m == [l EXCEPT !.pc = "closeAndCheck", !.pred = p]
  <2>2. req'[r] = m /\ rows' = rows
    BY <1>1, <2>1 DEF Continues
  <2>3. ~m.stale => KnowsDraft(l)
    BY <1>1, <1>3 DEF Fresh, FindOpenEnded, Local
  <2>4. ~m.stale => KnowsDraft(m) /\ KnowsPredecessor(m)
    BY <1>1, <2>1, <2>3
       DEF KnowsDraft, KnowsPredecessor, OpenEndedBefore, Found, IsLive, Local
  <2>5. Fresh(r)'
    BY <1>1, <2>2, <2>4
       DEF Fresh, KnowsDraft, KnowsPredecessor, Found, Local
  <2> QED
    BY <2>1, <2>5, FreshContinues
<1>4. CASE CloseAndCheck(r)
  <2> DEFINE m == [l EXCEPT !.pc = "commitPublish"]
  <2>1. CASE Idles(r)
    BY <2>1, FreshIdles
  <2>2. CASE Continues(r, m) /\ NoClash(l.tt, l.from, l.to, l.pred, Eve(l.from))
    <3>1. req'[r] = m /\ rows' = rows
      BY <1>1, <2>2 DEF Continues
    <3>2. ~m.stale => KnowsDraft(l) /\ KnowsPredecessor(l)
      BY <1>1, <1>4 DEF Fresh, CloseAndCheck, Local
    <3>3. Fresh(r)'
      BY <1>1, <2>2, <3>1, <3>2
         DEF Fresh, KnowsDraft, KnowsPredecessor, Found, NoClash, Local
    <3> QED
      BY <2>2, <3>3, FreshContinues
  <2> QED
    BY <1>4, <2>1, <2>2 DEF CloseAndCheck
<1>5. CASE WriteDates(r) \/ CommitPublish(r) \/ WriteArchived(r) \/ WriteDeleted(r)
  <2>1. Writes(r, rows')
    BY <1>5 DEF WriteDates, CommitPublish, WriteArchived, WriteDeleted, Writes
  <2> QED
    BY <2>1, FreshUndisturbed
<1>6. CASE Fail(r)
  BY <1>6, FreshIdles DEF Fail
<1> QED
  BY <1>2, <1>3, <1>4, <1>5, <1>6 DEF Handle

LEMMA FreshBegin ==
    ASSUME TypeInv, TypeInv', \A q \in Request : Fresh(q),
           NEW r \in Request, NEW t \in Timetable, Begin(r, t)
    PROVE  \A q \in Request : Fresh(q)'
<1>1. rows[t] \in Row /\ Idle \in Local /\ req \in [Request -> Local]
  BY IdleType DEF TypeInv, TypeOK
<1>2. ASSUME NEW newFrom \in Day \cup {Keep}, NEW newTo \in Day \cup {NoEnd, Keep},
             BeginUpdate(r, t, newFrom, newTo)
      PROVE  \A q \in Request : Fresh(q)'
  <2> DEFINE from == IF newFrom = Keep THEN rows[t].from ELSE newFrom
             to == IF newTo = Keep THEN rows[t].to ELSE newTo
             m == [Idle EXCEPT
                     !.pc = IF rows[t].status = "PUBLISHED" THEN "checkMove"
                                                            ELSE "writeDates",
                     !.tt = t, !.from = from, !.to = to,
                     !.setFrom = (newFrom # Keep), !.setTo = (newTo # Keep)]
  <2>1. /\ Continues(r, m) /\ Found(t) /\ Ordered(from, to)
    BY <1>2 DEF BeginUpdate
  <2>2. req'[r] = m /\ rows' = rows
    BY <1>1, <2>1 DEF Continues
  <2>3. /\ m.tt = t /\ m.from = from /\ m.to = to
        /\ m.setFrom = (newFrom # Keep) /\ m.setTo = (newTo # Keep)
        /\ m.pc = IF rows[t].status = "PUBLISHED" THEN "checkMove" ELSE "writeDates"
    BY DEF Idle
  <2>4. KnowsDates(m)
    BY <2>1, <2>3 DEF KnowsDates
  <2> HIDE DEF m
  <2>5. KnowsDates(req[r])'
    BY <2>2, <2>4 DEF KnowsDates
  <2>6. Fresh(r)'
    BY <2>1, <2>2, <2>3, <2>5 DEF Fresh, Found, IsLive
  <2> QED
    BY <2>1, <2>6, FreshContinues
<1>3. ASSUME NEW allowBackdate \in BOOLEAN, NEW supersede \in BOOLEAN,
             BeginPublish(r, t, allowBackdate, supersede)
      PROVE  \A q \in Request : Fresh(q)'
  <2> DEFINE m == [Idle EXCEPT
                     !.pc = IF supersede THEN "findOpenEnded" ELSE "closeAndCheck",
                     !.tt = t, !.from = rows[t].from, !.to = rows[t].to]
  <2>1. Continues(r, m) /\ Found(t) /\ rows[t].status = "DRAFT"
    BY <1>3 DEF BeginPublish, MayPublish
  <2>2. req'[r] = m /\ rows' = rows
    BY <1>1, <2>1 DEF Continues
  <2>3. KnowsDraft(req[r])' /\ KnowsPredecessor(req[r])'
    BY <2>1, <2>2 DEF KnowsDraft, KnowsPredecessor, Found, Idle
  <2>4. Fresh(r)'
    BY <2>2, <2>3 DEF Fresh, Idle
  <2> QED
    BY <2>1, <2>4, FreshContinues
<1>4. CASE BeginArchive(r, t)
  <2> DEFINE m == [Idle EXCEPT !.pc = "writeArchived", !.tt = t]
  <2>1. Continues(r, m) /\ Found(t) /\ rows[t].status # "ARCHIVED"
    BY <1>4 DEF BeginArchive
  <2>2. req'[r] = m /\ rows' = rows
    BY <1>1, <2>1 DEF Continues
  <2>3. Fresh(r)'
    BY <2>1, <2>2 DEF Fresh, Found, Idle
  <2> QED
    BY <2>1, <2>3, FreshContinues
<1>5. CASE BeginRemove(r, t)
  <2> DEFINE m == [Idle EXCEPT !.pc = "writeDeleted", !.tt = t]
  <2>1. Continues(r, m) /\ Found(t) /\ rows[t].status # "PUBLISHED"
    BY <1>5 DEF BeginRemove, MayRemove
  <2>2. req'[r] = m /\ rows' = rows
    BY <1>1, <2>1 DEF Continues
  <2>3. Fresh(r)'
    BY <2>1, <2>2 DEF Fresh, Found, Idle
  <2> QED
    BY <2>1, <2>3, FreshContinues
<1> QED
  BY <1>2, <1>3, <1>4, <1>5 DEF Begin

(* A new draft is nobody's version and not live. *)
LEMMA FreshCreate ==
    ASSUME TypeInv, TypeInv', \A q \in Request : Fresh(q),
           NEW t \in Timetable, NEW y \in Year, NEW from \in Day,
           NEW to \in Day \cup {NoEnd}, CreateDraft(t, y, from, to)
    PROVE  \A q \in Request : Fresh(q)'
<1>1. /\ rows'[t].status = "DRAFT" /\ rows[t].status = "ABSENT"
      /\ \A u \in Timetable \ {t} : rows'[u] = rows[u]
      /\ req' = req
  BY DEF CreateDraft, TypeInv, TypeOK
<1>2. \A u \in Timetable : Period(rows'[u]) = Period(rows[u])
  BY <1>1 DEF Period, IsLive
<1>3. TAKE q \in Request
<1>4. CASE req[q].stale
  BY <1>1, <1>4 DEF Fresh
<1>5. CASE ~req[q].stale
  <2>1. req[q].pc # "idle" => req[q].tt \in Timetable /\ Found(req[q].tt)
    BY <1>5 DEF Fresh, KnowsDraft, Found, IsLive, TypeInv, TypeOK, LocalOK, Local, Pc
  <2>2. req[q].pc # "idle" => rows'[req[q].tt] = rows[req[q].tt]
    BY <1>1, <2>1 DEF Found
  <2> QED
    BY <1>1, <1>2, <2>2, FreshKept
<1> QED
  BY <1>4, <1>5

LEMMA FreshStep ==
    TypeInv /\ TypeInv' /\ (\A q \in Request : Fresh(q)) /\ [Next]_vars
        => (\A q \in Request : Fresh(q))'
<1> SUFFICES ASSUME TypeInv, TypeInv', \A q \in Request : Fresh(q), [Next]_vars
             PROVE  \A q \in Request : Fresh(q)'
  OBVIOUS
<1>1. CASE Tick \/ UNCHANGED vars
  BY <1>1, FreshUnchanged DEF Tick, vars
<1> QED
  BY <1>1, FreshHandle, FreshBegin, FreshCreate DEF Next

-----------------------------------------------------------------------------
(* The calendar stays unambiguous *)

(* One version gets dates that clash with no other live one. *)
LEMMA ApartAfterOneChange ==
    ASSUME TypeInv, TypeInv', GoodRows, NEW t \in Timetable,
           \A u \in Timetable \ {t} : rows'[u] = rows[u],
           Ordered(rows'[t].from, rows'[t].to), rows'[t].status # "ABSENT",
           IsLive(rows'[t]) =>
              \A u \in Timetable \ {t} : IsLive(rows[u]) =>
                 ~Clash(rows'[t].from, rows'[t].to, rows[u].from, rows[u].to)
    PROVE  GoodRows'
<1>1. RowsOrdered'
  BY DEF GoodRows, RowsOrdered
<1>2. ASSUME NEW a \in Timetable, NEW b \in Timetable, a # b,
             IsLive(rows'[a]), IsLive(rows'[b])
      PROVE  ~Clash(rows'[a].from, rows'[a].to, rows'[b].from, rows'[b].to)
  <2>1. rows'[a] \in Row /\ rows'[b] \in Row
    BY DEF TypeInv, TypeOK
  <2>2. CASE a = t
    BY <1>2, <2>2
  <2>3. CASE b = t
    <3>1. ~Clash(rows'[b].from, rows'[b].to, rows'[a].from, rows'[a].to)
      BY <1>2, <2>3
    <3> QED
      BY <2>1, <3>1, ClashSymmetric DEF Row
  <2>4. CASE a # t /\ b # t
    BY <1>2, <2>4 DEF GoodRows, NoTwoClash
  <2> QED
    BY <2>2, <2>3, <2>4
<1> QED
  BY <1>1, <1>2 DEF GoodRows, NoTwoClash

(* One version stops being live, or is created as a draft. *)
LEMMA ApartWithOneLess ==
    ASSUME TypeInv, TypeInv', GoodRows, NEW t \in Timetable,
           \A u \in Timetable \ {t} : rows'[u] = rows[u],
           Ordered(rows'[t].from, rows'[t].to), rows'[t].status # "ABSENT",
           ~IsLive(rows'[t])
    PROVE  GoodRows'
BY ApartAfterOneChange

LEMMA GoodAfterWriteDates ==
    ASSUME TypeInv, TypeInv', NEW r \in Request, Fresh(r), ~req[r].stale,
           GoodRows, WriteDates(r)
    PROVE  GoodRows'
<1> DEFINE l == req[r]
<1>1. /\ l \in Local /\ l.tt \in Timetable /\ rows[l.tt] \in Row
      /\ l.pc = "writeDates"
  BY LocalTypes DEF WriteDates
<1>2. rows' = [rows EXCEPT ![l.tt] = Dated(rows[l.tt], l)]
  BY DEF WriteDates, Writes
<1>3. /\ KnowsDates(l) /\ Found(l.tt)
      /\ IsLive(rows[l.tt]) => NoClash(l.tt, l.from, l.to, None, NoEnd)
  BY <1>1 DEF Fresh
<1>4. \A u \in Timetable \ {l.tt} : rows'[u] = rows[u]
  BY <1>1, <1>2 DEF TypeInv, TypeOK
<1>5. rows'[l.tt].from = l.from /\ rows'[l.tt].to = l.to
  BY <1>1, <1>2, <1>3, DatedType DEF KnowsDates, TypeInv, TypeOK
<1>6. /\ IsLive(rows'[l.tt]) = IsLive(rows[l.tt])
      /\ rows'[l.tt].status # "ABSENT"
  BY <1>1, <1>2, <1>3, DatedType DEF IsLive, Found, TypeInv, TypeOK
<1>7. \A u \in Timetable : u # None
  BY NullAssumption
<1> QED
  BY <1>1, <1>3, <1>4, <1>5, <1>6, <1>7, ApartAfterOneChange DEF KnowsDates, NoClash

LEMMA GoodAfterPublish ==
    ASSUME TypeInv, TypeInv', NEW r \in Request, Fresh(r), ~req[r].stale,
           GoodRows, CommitPublish(r)
    PROVE  GoodRows'
<1> DEFINE l == req[r]
<1>1. /\ l \in Local /\ l.tt \in Timetable /\ l.pc = "commitPublish"
      /\ l.pred # None => 1 < l.from
  BY LocalTypes DEF CommitPublish, TypeInv, LocalOK
<1>2. /\ KnowsDraft(l) /\ KnowsPredecessor(l)
      /\ NoClash(l.tt, l.from, l.to, l.pred, Eve(l.from))
  BY <1>1 DEF Fresh
<1>3. rows' = Published(rows, l)
  BY DEF CommitPublish, Writes
<1>4. \A t \in Timetable :
        /\ rows'[t].from = rows[t].from
        /\ rows'[t].to = IF t = l.pred THEN Eve(l.from) ELSE rows[t].to
        /\ IsLive(rows'[t]) => t = l.tt \/ IsLive(rows[t])
        /\ rows'[t].deleted = rows[t].deleted
        /\ rows'[t].status = "ABSENT" => rows[t].status = "ABSENT"
  BY <1>1, <1>3, PublishedType DEF IsLive
<1>5. \A t \in Timetable : rows[t] \in Row /\ rows'[t] \in Row
  BY DEF TypeInv, TypeOK
<1>6. l.pred # None => l.pred \in Timetable
  BY <1>1 DEF Local
<1>7. RowsOrdered'
  <2>1. ASSUME NEW t \in Timetable PROVE Ordered(rows'[t].from, rows'[t].to)
    <3>1. CASE t = l.pred
      <4>1. t # None
        BY NullAssumption
      <4>2. rows[t].from < l.from
        BY <1>2, <3>1, <4>1 DEF KnowsPredecessor
      <4> QED
        BY <1>1, <1>4, <1>5, <3>1, <4>2 DEF Ordered, Eve, Row, Local, Day
    <3>2. CASE t # l.pred
      BY <1>4, <3>2 DEF GoodRows, RowsOrdered
    <3> QED
      BY <3>1, <3>2
  <2> QED
    BY <1>4, <2>1 DEF GoodRows, RowsOrdered
<1>8. ASSUME NEW a \in Timetable, IsLive(rows'[a]), a # l.tt
      PROVE  ~Clash(rows'[l.tt].from, rows'[l.tt].to, rows'[a].from, rows'[a].to)
  <2>1. l.tt # l.pred
    BY <1>1, <1>2, NullAssumption DEF KnowsPredecessor
  <2>2. rows'[l.tt].from = l.from /\ rows'[l.tt].to = l.to
    BY <1>1, <1>2, <1>4, <2>1 DEF KnowsDraft
  <2> QED
    BY <1>2, <1>4, <1>8, <2>2 DEF NoClash
<1>9. ASSUME NEW a \in Timetable, NEW b \in Timetable, a # b,
             IsLive(rows'[a]), IsLive(rows'[b]), a # l.tt, b # l.tt
      PROVE  ~Clash(rows'[a].from, rows'[a].to, rows'[b].from, rows'[b].to)
  <2>1. ~Clash(rows[a].from, rows[a].to, rows[b].from, rows[b].to)
    BY <1>4, <1>9 DEF GoodRows, NoTwoClash
  <2>2. ASSUME NEW p \in Timetable, NEW u \in Timetable, p = l.pred, p # u,
               ~Clash(rows[p].from, rows[p].to, rows[u].from, rows[u].to)
        PROVE  ~Clash(rows'[p].from, rows'[p].to, rows'[u].from, rows'[u].to)
    <3>1. rows[p].to = NoEnd /\ p # None
      BY <1>2, <2>2, NullAssumption DEF KnowsPredecessor
    <3>2. Eve(l.from) \in Day
      BY <1>1, <2>2, <3>1, EveIsDay DEF Local
    <3> QED
      BY <1>4, <1>5, <2>2, <3>1, <3>2, ClosingKeepsApart DEF Row
  <2>3. CASE a = l.pred
    BY <1>9, <2>1, <2>2, <2>3
  <2>4. CASE b = l.pred
    <3>1. ~Clash(rows[b].from, rows[b].to, rows[a].from, rows[a].to)
      BY <1>5, <2>1, ClashSymmetric DEF Row
    <3>2. ~Clash(rows'[b].from, rows'[b].to, rows'[a].from, rows'[a].to)
      BY <1>9, <2>2, <2>4, <3>1
    <3> QED
      BY <1>5, <3>2, ClashSymmetric DEF Row
  <2>5. CASE a # l.pred /\ b # l.pred
    BY <1>4, <2>1, <2>5
  <2> QED
    BY <2>3, <2>4, <2>5
<1>10. NoTwoClash'
  <2>1. ASSUME NEW a \in Timetable, NEW b \in Timetable, a # b,
               IsLive(rows'[a]), IsLive(rows'[b])
        PROVE  ~Clash(rows'[a].from, rows'[a].to, rows'[b].from, rows'[b].to)
    <3>1. CASE a = l.tt
      BY <1>8, <2>1, <3>1
    <3>2. CASE b = l.tt
      <4>1. ~Clash(rows'[b].from, rows'[b].to, rows'[a].from, rows'[a].to)
        BY <1>8, <2>1, <3>2
      <4> QED
        BY <1>5, <4>1, ClashSymmetric DEF Row
    <3>3. CASE a # l.tt /\ b # l.tt
      BY <1>9, <2>1, <3>3
    <3> QED
      BY <3>1, <3>2, <3>3
  <2> QED
    BY <2>1 DEF NoTwoClash
<1> QED
  BY <1>7, <1>10 DEF GoodRows

LEMMA GoodStep ==
    TypeInv /\ TypeInv' /\ (\A r \in Request : Fresh(r)) /\ [Next]_vars
        => ((~raced => GoodRows) => (~raced => GoodRows)')
<1> SUFFICES ASSUME TypeInv, TypeInv', \A r \in Request : Fresh(r), [Next]_vars,
                    ~raced => GoodRows, ~raced'
             PROVE  GoodRows'
  OBVIOUS
<1>1. CASE rows' = rows /\ raced' = raced
  BY <1>1 DEF GoodRows, RowsOrdered, NoTwoClash
<1>2. ASSUME NEW r \in Request, Handle(r) PROVE GoodRows'
  <2> DEFINE l == req[r]
  <2>1. CASE CheckMove(r) \/ FindOpenEnded(r) \/ CloseAndCheck(r) \/ Fail(r)
    BY <1>1, <2>1
       DEF CheckMove, FindOpenEnded, CloseAndCheck, Fail, Continues, Idles
  <2>2. CASE WriteDates(r)
    <3>1. ~l.stale /\ ~raced
      BY <2>2 DEF WriteDates, Writes
    <3> QED
      BY <2>2, <3>1, GoodAfterWriteDates
  <2>3. CASE CommitPublish(r)
    <3>1. ~l.stale /\ ~raced
      BY <2>3 DEF CommitPublish, Writes
    <3> QED
      BY <2>3, <3>1, GoodAfterPublish
  <2>4. CASE WriteArchived(r)
    <3>1. l.tt \in Timetable /\ rows[l.tt] \in Row /\ ~raced
      BY <2>4, LocalTypes DEF WriteArchived, Writes
    <3>2. rows' = [rows EXCEPT ![l.tt].status = "ARCHIVED"]
      BY <2>4 DEF WriteArchived, Writes
    <3>3. /\ ~IsLive(rows'[l.tt]) /\ \A u \in Timetable \ {l.tt} : rows'[u] = rows[u]
          /\ Ordered(rows'[l.tt].from, rows'[l.tt].to)
          /\ rows'[l.tt].status # "ABSENT"
      BY <3>1, <3>2 DEF IsLive, TypeInv, TypeOK, Row, GoodRows, RowsOrdered
    <3> QED
      BY <3>1, <3>3, ApartWithOneLess
  <2>5. CASE WriteDeleted(r)
    <3>1. /\ l.tt \in Timetable /\ rows[l.tt] \in Row /\ ~raced
          /\ rows[l.tt].status # "ABSENT"
      BY <2>5, LocalTypes DEF WriteDeleted, Writes, Fresh, Found
    <3>2. rows' = [rows EXCEPT ![l.tt].deleted = TRUE]
      BY <2>5 DEF WriteDeleted, Writes
    <3>3. /\ ~IsLive(rows'[l.tt]) /\ \A u \in Timetable \ {l.tt} : rows'[u] = rows[u]
          /\ Ordered(rows'[l.tt].from, rows'[l.tt].to)
          /\ rows'[l.tt].status # "ABSENT"
      BY <3>1, <3>2 DEF IsLive, TypeInv, TypeOK, Row, GoodRows, RowsOrdered
    <3> QED
      BY <3>1, <3>3, ApartWithOneLess
  <2> QED
    BY <1>2, <2>1, <2>2, <2>3, <2>4, <2>5 DEF Handle
<1>3. ASSUME NEW r \in Request, NEW t \in Timetable, Begin(r, t) PROVE GoodRows'
  BY <1>1, <1>3
     DEF Begin, BeginUpdate, BeginPublish, BeginArchive, BeginRemove, Continues
<1>4. ASSUME NEW t \in Timetable, NEW y \in Year, NEW from \in Day,
             NEW to \in Day \cup {NoEnd}, CreateDraft(t, y, from, to)
      PROVE  GoodRows'
  <2>1. /\ ~IsLive(rows'[t]) /\ Ordered(rows'[t].from, rows'[t].to)
        /\ rows'[t].status # "ABSENT"
        /\ \A u \in Timetable \ {t} : rows'[u] = rows[u]
        /\ ~raced
    BY <1>4 DEF CreateDraft, IsLive, TypeInv, TypeOK
  <2> QED
    BY <2>1, ApartWithOneLess
<1>5. CASE Tick \/ UNCHANGED vars
  BY <1>1, <1>5 DEF Tick, vars
<1> QED
  BY <1>2, <1>3, <1>4, <1>5 DEF Next

LEMMA InitInv == Init => IInv
<1> SUFFICES ASSUME Init PROVE IInv
  OBVIOUS
<1>1. \A t \in Timetable : /\ ~IsLive(rows[t]) /\ ~rows[t].deleted
                            /\ Ordered(rows[t].from, rows[t].to)
  BY DEF Init, IsLive, Ordered
<1>2. \A r \in Request : Fresh(r)
  BY IdleType DEF Init, Fresh
<1> QED
  BY <1>1, <1>2, InitType DEF IInv, GoodRows, RowsOrdered, NoTwoClash

LEMMA InvStep == IInv /\ [Next]_vars => IInv'
BY TypeStep, FreshStep, GoodStep DEF IInv, GoodRows

LEMMA Invariance == Spec => []IInv
BY InitInv, InvStep, PTL DEF Spec

(* Two live versions whose days do not clash share no day. *)
LEMMA ApartSharesNoDay ==
    ASSUME TypeInv, NoTwoClash
    PROVE  NoOverlap
<1> SUFFICES ASSUME NEW d \in Day, NEW t \in InForce(d), NEW u \in InForce(d), t # u
             PROVE  FALSE
  BY DEF NoOverlap
<1>1. /\ t \in Timetable /\ u \in Timetable
      /\ IsLive(rows[t]) /\ IsLive(rows[u]) /\ Covers(t, d) /\ Covers(u, d)
  BY DEF InForce
<1>2. ~Clash(rows[t].from, rows[t].to, rows[u].from, rows[u].to)
  BY <1>1 DEF NoTwoClash
<1>3. rows[t] \in Row /\ rows[u] \in Row
  BY <1>1 DEF TypeInv, TypeOK
<1> QED
  BY <1>1, <1>2, <1>3 DEF Clash, Covers, Row, Day

(* As long as no request wrote on a stale read, no day is in force for two *)
(* versions: assertNoOverlap is enough for every request that is not       *)
(* overtaken, whatever else is in flight.                                  *)
THEOREM NoOverlapHolds == Spec => []NoOverlapUnlessRaced
<1>1. IInv => NoOverlapUnlessRaced
  BY ApartSharesNoDay DEF IInv, GoodRows, NoOverlapUnlessRaced
<1> QED
  BY <1>1, Invariance, PTL

-----------------------------------------------------------------------------
(* The life cycle *)

LEMMA LifecycleOfWrites ==
    ASSUME TypeInv, NEW r \in Request, Fresh(r), ~req[r].stale,
           WriteDates(r) \/ CommitPublish(r) \/ WriteArchived(r) \/ WriteDeleted(r)
    PROVE  /\ LifecycleStep
           /\ \A t \in Timetable : rows[t].deleted => rows'[t] = rows[t]
<1> DEFINE l == req[r]
<1>1. \A t \in Timetable : rows[t] \in Row
  BY DEF TypeInv, TypeOK
<1>2. /\ l \in Local /\ l.tt \in Timetable
      /\ l.pred # None => 1 < l.from /\ l.pred \in Timetable
  BY LocalTypes DEF WriteDates, CommitPublish, WriteArchived, WriteDeleted,
                    TypeInv, LocalOK, Local
<1>3. CASE WriteDates(r)
  <2>1. Found(l.tt)
    BY <1>3 DEF WriteDates, Fresh
  <2>2. rows' = [rows EXCEPT ![l.tt] = Dated(rows[l.tt], l)]
    BY <1>3 DEF WriteDates, Writes
  <2>3. \A t \in Timetable : /\ rows'[t].status = rows[t].status
                             /\ rows'[t].deleted = rows[t].deleted
                             /\ t # l.tt => rows'[t] = rows[t]
    BY <1>1, <1>2, <2>2, DatedType DEF TypeInv, TypeOK
  <2> QED
    BY <2>1, <2>3 DEF LifecycleStep, LegalStatusChange, Found
<1>4. CASE CommitPublish(r)
  <2>1. KnowsDraft(l) /\ KnowsPredecessor(l)
    BY <1>4 DEF CommitPublish, Fresh
  <2>2. rows' = Published(rows, l)
    BY <1>4 DEF CommitPublish, Writes
  <2>3. \A t \in Timetable :
           /\ rows'[t].status = IF t = l.tt THEN "PUBLISHED" ELSE rows[t].status
           /\ rows'[t].deleted = rows[t].deleted
           /\ t # l.tt /\ t # l.pred => rows'[t] = rows[t]
    BY <1>2, <2>2, PublishedType
  <2>4. \A t \in Timetable : rows[t].deleted => t # l.tt /\ t # l.pred
    BY <2>1, NullAssumption DEF KnowsDraft, KnowsPredecessor, Found, IsLive
  <2> QED
    BY <2>1, <2>3, <2>4 DEF LifecycleStep, LegalStatusChange, KnowsDraft
<1>5. CASE WriteArchived(r)
  <2>1. Found(l.tt) /\ rows[l.tt].status # "ARCHIVED"
    BY <1>5 DEF WriteArchived, Fresh
  <2>2. rows' = [rows EXCEPT ![l.tt].status = "ARCHIVED"]
    BY <1>5 DEF WriteArchived, Writes
  <2>3. \A t \in Timetable :
           /\ rows'[t].deleted = rows[t].deleted
           /\ t = l.tt => rows'[t].status = "ARCHIVED"
           /\ t # l.tt => rows'[t] = rows[t]
    BY <1>1, <1>2, <2>2 DEF TypeInv, TypeOK, Row
  <2> QED
    BY <1>1, <2>1, <2>3 DEF LifecycleStep, LegalStatusChange, Found, Row, Status
<1>6. CASE WriteDeleted(r)
  <2>1. Found(l.tt) /\ rows[l.tt].status # "PUBLISHED"
    BY <1>6 DEF WriteDeleted, Fresh
  <2>2. rows' = [rows EXCEPT ![l.tt].deleted = TRUE]
    BY <1>6 DEF WriteDeleted, Writes
  <2>3. \A t \in Timetable :
           /\ rows'[t].status = rows[t].status
           /\ t # l.tt => rows'[t] = rows[t]
    BY <1>1, <1>2, <2>2 DEF TypeInv, TypeOK, Row
  <2> QED
    BY <2>1, <2>3 DEF LifecycleStep, LegalStatusChange, Found
<1> QED
  BY <1>3, <1>4, <1>5, <1>6

(* A step either writes on behalf of a request, creates a draft, or leaves *)
(* the table alone.                                                        *)
LEMMA WhoChangesRows ==
    ASSUME [Next]_vars, rows' # rows
    PROVE  \/ \E r \in Request : WriteDates(r) \/ CommitPublish(r)
                                  \/ WriteArchived(r) \/ WriteDeleted(r)
           \/ \E t \in Timetable, y \in Year, from \in Day, to \in Day \cup {NoEnd} :
                 CreateDraft(t, y, from, to)
<1>1. ASSUME NEW r \in Request, NEW t \in Timetable PROVE ~Begin(r, t)
  BY DEF Begin, BeginUpdate, BeginPublish, BeginArchive, BeginRemove, Continues
<1>2. ASSUME NEW r \in Request
      PROVE  ~(CheckMove(r) \/ FindOpenEnded(r) \/ CloseAndCheck(r) \/ Fail(r))
  BY DEF CheckMove, FindOpenEnded, CloseAndCheck, Fail, Continues, Idles
<1>3. ~Tick /\ ~UNCHANGED vars
  BY DEF Tick, vars
<1> QED
  BY <1>1, <1>2, <1>3 DEF Next, Handle

(* Unraced requests respect the life cycle: a published version is never   *)
(* deleted, an archived one never comes back, a deleted one never changes. *)
THEOREM LifecycleHolds == Spec => LifecycleUnlessRaced
<1>1. ASSUME IInv, [Next]_vars, ~raced', rows' # rows
      PROVE  /\ LifecycleStep
             /\ \A t \in Timetable : rows[t].deleted => rows'[t] = rows[t]
  <2>1. ASSUME NEW r \in Request,
               WriteDates(r) \/ CommitPublish(r) \/ WriteArchived(r) \/ WriteDeleted(r)
        PROVE  /\ LifecycleStep
               /\ \A t \in Timetable : rows[t].deleted => rows'[t] = rows[t]
    <3>1. ~req[r].stale
      BY <1>1, <2>1 DEF WriteDates, CommitPublish, WriteArchived, WriteDeleted, Writes
    <3> QED
      BY <1>1, <2>1, <3>1, LifecycleOfWrites DEF IInv
  <2>2. ASSUME NEW t \in Timetable, NEW y \in Year, NEW from \in Day,
               NEW to \in Day \cup {NoEnd}, CreateDraft(t, y, from, to)
        PROVE  /\ LifecycleStep
               /\ \A u \in Timetable : rows[u].deleted => rows'[u] = rows[u]
    <3>1. /\ rows[t].status = "ABSENT" /\ rows'[t].status = "DRAFT"
          /\ ~rows'[t].deleted /\ \A u \in Timetable \ {t} : rows'[u] = rows[u]
          /\ ~raced
      BY <1>1, <2>2 DEF CreateDraft, IInv, TypeInv, TypeOK
    <3>2. ~rows[t].deleted
      BY <1>1, <3>1 DEF IInv, GoodRows, RowsOrdered
    <3> QED
      BY <3>1, <3>2 DEF LifecycleStep, LegalStatusChange
  <2> QED
    BY <1>1, <2>1, <2>2, WhoChangesRows
<1>2. IInv /\ [Next]_vars =>
         [~raced' => /\ LifecycleStep
                     /\ \A t \in Timetable : rows[t].deleted => rows'[t] = rows[t]]_rows
  BY <1>1
<1> QED
  BY <1>2, Invariance, PTL DEF Spec, LifecycleUnlessRaced

-----------------------------------------------------------------------------
(***************************************************************************)
(* TimetableVersions implements LiveCalendar, for every number of          *)
(* versions, requests, days and years: every write of a request that       *)
(* nobody overtook is one step of the calendar, and with one request at a  *)
(* time so is every step.  The invariant is the one above.                 *)
(***************************************************************************)

(* What the calendar holds for a version. *)
LEMMA CalendarEntry ==
    ASSUME TypeInv, NEW t \in Timetable
    PROVE  /\ rows[t] \in Row
           /\ Calendar[t] = IF IsLive(rows[t]) THEN [from |-> rows[t].from, to |-> rows[t].to]
                                               ELSE NotLive
           /\ (Calendar[t] # NotLive) <=> IsLive(rows[t])
BY NullAssumption DEF TypeInv, TypeOK, Row, Calendar, Period

LEMMA CalendarEntryAfter ==
    ASSUME TypeInv', NEW t \in Timetable
    PROVE  /\ rows'[t] \in Row
           /\ Calendar'[t] = IF IsLive(rows'[t]) THEN [from |-> rows'[t].from, to |-> rows'[t].to]
                                                 ELSE NotLive
           /\ (Calendar'[t] # NotLive) <=> IsLive(rows'[t])
BY NullAssumption DEF TypeInv, TypeOK, Row, Calendar, Period

(* A version whose liveness and days are kept keeps its entry. *)
LEMMA EntryKept ==
    ASSUME TypeInv, TypeInv', NEW t \in Timetable, IsLive(rows'[t]) <=> IsLive(rows[t]),
           IsLive(rows[t]) => rows'[t].from = rows[t].from /\ rows'[t].to = rows[t].to
    PROVE  Calendar'[t] = Calendar[t]
<1>1. CASE IsLive(rows[t])
  BY <1>1, CalendarEntry, CalendarEntryAfter
<1>2. CASE ~IsLive(rows[t])
  BY <1>2, CalendarEntry, CalendarEntryAfter
<1> QED
  BY <1>1, <1>2

(* Live versions that do not clash make a calendar without ambiguous days. *)
LEMMA UnambiguousAfter ==
    ASSUME TypeInv', NoTwoClash'
    PROVE  Cal!Unambiguous(Calendar')
<1> SUFFICES ASSUME NEW t \in Timetable, NEW u \in Timetable, NEW d \in Day, t # u,
                    Calendar'[t] # NotLive, Cal!Covers(Calendar'[t], d),
                    Calendar'[u] # NotLive, Cal!Covers(Calendar'[u], d)
             PROVE  FALSE
  BY DEF Cal!Unambiguous, Cal!Day, Day
<1>1. /\ rows'[t] \in Row /\ rows'[u] \in Row
      /\ IsLive(rows'[t]) /\ IsLive(rows'[u])
      /\ Calendar'[t] = [from |-> rows'[t].from, to |-> rows'[t].to]
      /\ Calendar'[u] = [from |-> rows'[u].from, to |-> rows'[u].to]
  BY CalendarEntryAfter
<1>2. ~Clash(rows'[t].from, rows'[t].to, rows'[u].from, rows'[u].to)
  BY <1>1 DEF NoTwoClash
<1> QED
  BY <1>1, <1>2 DEF Clash, Cal!Covers, Row, Day

(* Writing dates moves a version in force, or nothing the calendar shows. *)
LEMMA WriteDatesRefines ==
    ASSUME TypeInv, TypeInv', NEW r \in Request, Fresh(r), ~req[r].stale,
           WriteDates(r), Calendar' # Calendar
    PROVE  \E t \in Timetable : Cal!Reschedule(t)
<1> DEFINE l == req[r]
           p == [from |-> rows'[l.tt].from, to |-> rows'[l.tt].to]
<1>1. l \in Local /\ l.tt \in Timetable /\ rows' = [rows EXCEPT ![l.tt] = Dated(rows[l.tt], l)]
  BY LocalTypes DEF WriteDates, Writes
<1>2. /\ \A u \in Timetable \ {l.tt} : rows'[u] = rows[u]
      /\ IsLive(rows'[l.tt]) = IsLive(rows[l.tt])
  BY <1>1, DatedType DEF IsLive, TypeInv, TypeOK
<1>3. \A u \in Timetable \ {l.tt} : Calendar'[u] = Calendar[u]
  BY <1>2, CalendarEntry, CalendarEntryAfter
<1>4. Calendar'[l.tt] # Calendar[l.tt]
  BY <1>3 DEF Calendar
<1>5. IsLive(rows[l.tt])
  BY <1>1, <1>2, <1>4, CalendarEntry, CalendarEntryAfter
<1>6. Calendar[l.tt] # NotLive /\ Calendar'[l.tt] = p
  BY <1>1, <1>2, <1>5, CalendarEntry, CalendarEntryAfter
<1>7. p \in Cal!Range
  BY <1>1, CalendarEntryAfter DEF Row, Cal!Range, Cal!Day, Day
<1>8. Calendar' = [Calendar EXCEPT ![l.tt] = p]
  BY <1>1, <1>3, <1>6 DEF Calendar
<1> QED
  BY <1>1, <1>6, <1>7, <1>8 DEF Cal!Reschedule

(* A publication brings its version into force, and closes the predecessor *)
(* in the same step if it found one.                                       *)
LEMMA PublishRefines ==
    ASSUME TypeInv, TypeInv', NEW r \in Request, Fresh(r), ~req[r].stale, CommitPublish(r)
    PROVE  \E t \in Timetable : Cal!GoLive(t) \/ \E old \in Timetable \ {t} : Cal!Supersede(t, old)
<1> DEFINE l == req[r]
           p == [from |-> l.from, to |-> l.to]
<1>1. /\ l \in Local /\ l.tt \in Timetable /\ l.pc = "commitPublish"
      /\ l.pred # None => 1 < l.from
  BY LocalTypes DEF CommitPublish, TypeInv, LocalOK
<1>2. KnowsDraft(l) /\ KnowsPredecessor(l)
  BY <1>1 DEF Fresh
<1>3. rows' = Published(rows, l)
  BY DEF CommitPublish, Writes
<1>4. /\ l.tt # None /\ l.pred # l.tt
      /\ l.pred # None => l.pred \in Timetable
      /\ \A t \in Timetable : rows[t] \in Row
  BY <1>1, <1>2, NullAssumption DEF KnowsPredecessor, Local, TypeInv, TypeOK
<1>5. /\ IsLive(rows'[l.tt]) /\ ~IsLive(rows[l.tt])
      /\ rows'[l.tt].from = l.from /\ rows'[l.tt].to = l.to
  BY <1>1, <1>2, <1>3, <1>4 DEF Published, KnowsDraft, Found, IsLive, Row
<1>6. \A u \in Timetable \ {l.tt} :
        /\ IsLive(rows'[u]) = IsLive(rows[u]) /\ rows'[u].from = rows[u].from
        /\ rows'[u].to = IF u = l.pred THEN Eve(l.from) ELSE rows[u].to
  BY <1>1, <1>3, <1>4 DEF Published, IsLive, Row
<1>7. Calendar[l.tt] = NotLive /\ Calendar'[l.tt] = p
  BY <1>1, <1>5, CalendarEntry, CalendarEntryAfter
<1>8. p \in Cal!Range
  BY <1>1 DEF Local, Cal!Range, Cal!Day, Day
<1>9. \A u \in Timetable \ {l.tt, l.pred} : Calendar'[u] = Calendar[u]
  BY <1>6, EntryKept
<1>10. CASE l.pred = None
  <2>1. Calendar' = [Calendar EXCEPT ![l.tt] = p]
    BY <1>1, <1>7, <1>9, <1>10, NullAssumption DEF Calendar
  <2> QED
    BY <1>1, <1>7, <1>8, <2>1 DEF Cal!GoLive
<1>11. CASE l.pred # None
  <2>1. /\ IsLive(rows[l.pred]) /\ rows[l.pred].to = NoEnd /\ rows[l.pred].from < l.from
        /\ l.pred \in Timetable \ {l.tt}
    BY <1>2, <1>4, <1>11 DEF KnowsPredecessor
  <2>2. Calendar[l.pred] = [from |-> rows[l.pred].from, to |-> NoEnd]
        /\ Calendar[l.pred] # NotLive
    BY <2>1, CalendarEntry
  <2>3. Calendar'[l.pred] = [from |-> rows[l.pred].from, to |-> l.from - 1]
    BY <1>6, <2>1, CalendarEntryAfter DEF Eve
  <2>4. Calendar' = [Calendar EXCEPT ![l.tt] = p, ![l.pred].to = p.from - 1]
    BY <1>1, <1>7, <1>9, <2>1, <2>2, <2>3 DEF Calendar
  <2>5. /\ Calendar[l.pred].to = NoEnd /\ Calendar[l.pred].from < p.from
    BY <2>1, <2>2
  <2>6. Cal!Supersede(l.tt, l.pred)
    BY <2>5, <1>7, <1>8, <2>1, <2>2, <2>4 DEF Cal!Supersede
  <2> QED
    BY <1>1, <2>1, <2>6
<1> QED
  BY <1>10, <1>11

(* Archiving withdraws a version in force; nothing else the other writes   *)
(* do shows in the calendar.                                               *)
LEMMA ArchiveRefines ==
    ASSUME TypeInv, TypeInv', NEW r \in Request, WriteArchived(r), Calendar' # Calendar
    PROVE  \E t \in Timetable : Cal!Withdraw(t)
<1> DEFINE l == req[r]
<1>1. l.tt \in Timetable /\ rows' = [rows EXCEPT ![l.tt].status = "ARCHIVED"]
  BY LocalTypes DEF WriteArchived, Writes
<1>2. /\ \A u \in Timetable \ {l.tt} : rows'[u] = rows[u]
      /\ ~IsLive(rows'[l.tt])
  BY <1>1 DEF IsLive, TypeInv, TypeOK, Row
<1>3. /\ \A u \in Timetable \ {l.tt} : Calendar'[u] = Calendar[u]
      /\ Calendar'[l.tt] = NotLive
  BY <1>1, <1>2, EntryKept, CalendarEntryAfter
<1>4. Calendar' = [Calendar EXCEPT ![l.tt] = NotLive]
  BY <1>3 DEF Calendar
<1>5. Calendar[l.tt] # NotLive
  BY <1>3 DEF Calendar
<1> QED
  BY <1>1, <1>4, <1>5 DEF Cal!Withdraw

LEMMA DeleteIsInvisible ==
    ASSUME TypeInv, TypeInv', NEW r \in Request, Fresh(r), ~req[r].stale, WriteDeleted(r)
    PROVE  Calendar' = Calendar
<1> DEFINE l == req[r]
<1>1. /\ l.tt \in Timetable /\ rows' = [rows EXCEPT ![l.tt].deleted = TRUE]
      /\ rows[l.tt].status # "PUBLISHED"
  BY LocalTypes DEF WriteDeleted, Writes, Fresh
<1>2. /\ \A u \in Timetable \ {l.tt} : rows'[u] = rows[u]
      /\ ~IsLive(rows[l.tt]) /\ ~IsLive(rows'[l.tt])
  BY <1>1 DEF IsLive, TypeInv, TypeOK, Row
<1>3. \A u \in Timetable : Calendar'[u] = Calendar[u]
  BY <1>2, EntryKept
<1> QED
  BY <1>3 DEF Calendar

LEMMA DraftIsInvisible ==
    ASSUME TypeInv, TypeInv', NEW t \in Timetable, NEW y \in Year, NEW from \in Day,
           NEW to \in Day \cup {NoEnd}, CreateDraft(t, y, from, to)
    PROVE  Calendar' = Calendar
<1>1. /\ \A u \in Timetable \ {t} : rows'[u] = rows[u]
      /\ ~IsLive(rows[t]) /\ ~IsLive(rows'[t])
  BY DEF CreateDraft, IsLive, TypeInv, TypeOK, Row
<1>2. \A u \in Timetable : Calendar'[u] = Calendar[u]
  BY <1>1, CalendarEntry, CalendarEntryAfter
<1> QED
  BY <1>2 DEF Calendar

LEMMA UnracedStepRefines ==
    ASSUME IInv, IInv', [Next]_vars, ~raced', Calendar' # Calendar
    PROVE  Cal!Next
<1>1. rows' # rows
  BY DEF Calendar
<1>2. PICK r \in Request : WriteDates(r) \/ CommitPublish(r) \/ WriteArchived(r) \/ WriteDeleted(r)
  BY <1>1, WhoChangesRows, DraftIsInvisible DEF IInv
<1>3. ~req[r].stale /\ Fresh(r)
  BY <1>2 DEF WriteDates, CommitPublish, WriteArchived, WriteDeleted, Writes, IInv
<1>4. Cal!Unambiguous(Calendar')
  BY UnambiguousAfter DEF IInv, GoodRows
<1> QED
  BY <1>2, <1>3, <1>4, WriteDatesRefines, PublishRefines, ArchiveRefines, DeleteIsInvisible
     DEF Cal!Next, IInv

(* The calendar readers are promised is kept by any number of overlapping  *)
(* requests of which none wrote on a stale read: what TimetablesService    *)
(* does in several statements they see as one step.                        *)
THEOREM CalendarIsKept == Spec => UnracedStepsKeepCalendar
<1>1. IInv /\ IInv' /\ [Next]_vars => [~raced' => Cal!Next]_Calendar
  BY UnracedStepRefines
<1> QED
  BY <1>1, InvStep, Invariance, PTL DEF Spec, UnracedStepsKeepCalendar

-----------------------------------------------------------------------------
(* What a publication does to the days *)

(* The only step that brings a version into force is the commit of its     *)
(* publication.                                                            *)
LEMMA OnlyPublishGoesLive ==
    ASSUME TypeInv, TypeInv', \A r \in Request : Fresh(r), [Next]_vars, ~raced',
           NEW t \in Timetable, ~IsLive(rows[t]), IsLive(rows'[t])
    PROVE  \E r \in Request : CommitPublish(r) /\ ~req[r].stale /\ req[r].tt = t
<1>1. PICK r \in Request : WriteDates(r) \/ CommitPublish(r) \/ WriteArchived(r) \/ WriteDeleted(r)
  <2>1. ASSUME NEW u \in Timetable, NEW y \in Year, NEW from \in Day,
               NEW to \in Day \cup {NoEnd}
        PROVE  ~CreateDraft(u, y, from, to)
    BY DEF CreateDraft, IsLive, TypeInv, TypeOK, Row
  <2> QED
    BY <2>1, WhoChangesRows
<1> DEFINE l == req[r]
<1>2. /\ ~l.stale /\ Fresh(r) /\ l \in Local /\ l.tt \in Timetable
      /\ l.pred # None => 1 < l.from
  BY <1>1, LocalTypes DEF WriteDates, CommitPublish, WriteArchived, WriteDeleted, Writes,
                          TypeInv, LocalOK
<1>3. ~WriteDates(r)
  <2> SUFFICES ASSUME WriteDates(r) PROVE FALSE
    OBVIOUS
  <2>1. rows' = [rows EXCEPT ![l.tt] = Dated(rows[l.tt], l)]
    BY DEF WriteDates, Writes
  <2>2. IsLive(rows'[t]) <=> IsLive(rows[t])
    BY <1>2, <2>1, DatedType DEF IsLive, TypeInv, TypeOK
  <2> QED
    BY <2>2
<1>4. ~WriteArchived(r) /\ ~WriteDeleted(r)
  BY <1>2 DEF WriteArchived, WriteDeleted, Writes, IsLive, TypeInv, TypeOK, Row
<1>5. CommitPublish(r)
  BY <1>1, <1>3, <1>4
<1>6. l.tt = t
  <2>1. KnowsDraft(l) /\ KnowsPredecessor(l)
    BY <1>2, <1>5 DEF CommitPublish, Fresh
  <2>2. rows' = Published(rows, l)
    BY <1>5 DEF CommitPublish, Writes
  <2> QED
    BY <2>2 DEF Published, IsLive, TypeInv, TypeOK, Row
<1> QED
  BY <1>2, <1>5, <1>6

LEMMA PublishKeepsThePast ==
    ASSUME TypeInv, TypeInv', NEW r \in Request, Fresh(r), ~req[r].stale, CommitPublish(r),
           NEW d \in Day, d < rows'[req[r].tt].from
    PROVE  InForce(d)' = InForce(d)
<1> DEFINE l == req[r]
<1>1. /\ l \in Local /\ l.tt \in Timetable /\ l.pc = "commitPublish"
      /\ l.pred # None => 1 < l.from
  BY LocalTypes DEF CommitPublish, TypeInv, LocalOK
<1>2. KnowsDraft(l) /\ KnowsPredecessor(l)
  BY <1>1 DEF Fresh
<1>3. rows' = Published(rows, l)
  BY DEF CommitPublish, Writes
<1>4. \A t \in Timetable : rows[t] \in Row /\ rows'[t] \in Row /\ t # None
  BY NullAssumption DEF TypeInv, TypeOK
<1>5. /\ l.tt # l.pred /\ ~IsLive(rows[l.tt])
      /\ rows'[l.tt].from = l.from /\ rows'[l.tt].to = l.to /\ IsLive(rows'[l.tt])
  BY <1>1, <1>2, <1>3, <1>4 DEF Published, KnowsDraft, KnowsPredecessor, Found, IsLive, Row
<1>6. \A u \in Timetable \ {l.tt} :
        /\ IsLive(rows'[u]) <=> IsLive(rows[u])
        /\ rows'[u].from = rows[u].from
        /\ rows'[u].to = IF u = l.pred THEN Eve(l.from) ELSE rows[u].to
  BY <1>1, <1>3, <1>4 DEF Published, IsLive, Row
<1>7. ASSUME NEW u \in Timetable
      PROVE  (IsLive(rows'[u]) /\ Covers(u, d)') <=> (IsLive(rows[u]) /\ Covers(u, d))
  <2>1. CASE u = l.tt
    BY <1>4, <1>5, <2>1 DEF Covers, Row, Day
  <2>2. CASE u = l.pred /\ u # l.tt
    <3>1. rows[u].to = NoEnd /\ d <= l.from - 1 /\ rows'[u].to = l.from - 1
      BY <1>1, <1>2, <1>4, <1>5, <1>6, <2>2 DEF KnowsPredecessor, Eve, Local, Day
    <3>2. Covers(u, d)' <=> Covers(u, d)
      BY <1>6, <2>2, <3>1 DEF Covers
    <3> QED
      BY <1>6, <2>2, <3>2
  <2>3. CASE u # l.pred /\ u # l.tt
    BY <1>6, <2>3 DEF Covers
  <2> QED
    BY <2>1, <2>2, <2>3
<1> QED
  BY <1>7 DEF InForce

(* A publication keeps the past and takes over the future: whatever other  *)
(* requests are in flight, an unraced publish leaves the days before its   *)
(* start to the versions they had, and is alone on the days it covers.     *)
THEOREM PublishSplits == Spec => PublishSplitsTheCalendar
<1>1. ASSUME IInv, IInv', [Next]_vars,
             NEW t \in Timetable, ~raced', ~IsLive(rows[t]), IsLive(rows'[t]), NEW d \in Day
      PROVE  /\ d < rows'[t].from => InForce(d)' = InForce(d)
             /\ Covers(t, d)' => InForce(d)' = {t}
  <2>1. PICK r \in Request : CommitPublish(r) /\ ~req[r].stale /\ req[r].tt = t
    BY <1>1, OnlyPublishGoesLive DEF IInv
  <2>2. d < rows'[t].from => InForce(d)' = InForce(d)
    BY <1>1, <2>1, PublishKeepsThePast DEF IInv
  <2>3. ASSUME Covers(t, d)', NEW u \in InForce(d)', u # t
        PROVE  FALSE
    <3>1. /\ u \in Timetable /\ IsLive(rows'[u]) /\ Covers(u, d)'
          /\ rows'[u] \in Row /\ rows'[t] \in Row
      BY <1>1, <2>3 DEF InForce, IInv, TypeInv, TypeOK
    <3>2. ~Clash(rows'[t].from, rows'[t].to, rows'[u].from, rows'[u].to)
      BY <1>1, <2>3, <3>1 DEF IInv, GoodRows, NoTwoClash
    <3> QED
      BY <2>3, <3>1, <3>2 DEF Clash, Covers, Row, Day
  <2>4. Covers(t, d)' => t \in InForce(d)'
    BY <1>1 DEF InForce
  <2> QED
    BY <2>2, <2>3, <2>4
<1>2. IInv /\ IInv' /\ [Next]_vars => [SplitStep]_rows
  BY <1>1 DEF SplitStep
<1> QED
  BY <1>2, InvStep, Invariance, PTL DEF Spec, PublishSplitsTheCalendar

(* Raced or not, no version loses its open end without a successor: the    *)
(* closing and the publication commit together.                            *)
THEOREM NoClosingHolds == Spec => NoClosingWithoutSuccessor
<1> DEFINE Closed(p) ==
      Found(p) /\ rows[p].to = NoEnd /\ rows'[p].to # NoEnd =>
         \/ \E r \in Request : req[r].pc = "writeDates" /\ req[r].tt = p
         \/ \E t \in Timetable, r \in Request :
               /\ req[r].pc = "commitPublish" /\ req[r].tt = t
               /\ rows'[t].status = "PUBLISHED"
               /\ rows'[p].to = req[r].from - 1
<1>1. ASSUME IInv, [Next]_vars, rows' # rows, NEW p \in Timetable,
             Found(p), rows[p].to = NoEnd, rows'[p].to # NoEnd
      PROVE  Closed(p)
  <2>1. \A t \in Timetable : rows[t] \in Row
    BY <1>1 DEF IInv, TypeInv, TypeOK
  <2>2. ASSUME NEW t \in Timetable, NEW y \in Year, NEW from \in Day,
               NEW to \in Day \cup {NoEnd}
        PROVE  ~CreateDraft(t, y, from, to)
    BY <1>1, <2>1 DEF CreateDraft, Found, IInv, TypeInv, TypeOK
  <2>3. PICK r \in Request : WriteDates(r) \/ CommitPublish(r) \/ WriteArchived(r) \/ WriteDeleted(r)
    BY <1>1, <2>2, WhoChangesRows
  <2> DEFINE l == req[r]
  <2>4. /\ l \in Local /\ l.tt \in Timetable /\ l.pc # "idle"
    BY <1>1, <2>3, LocalTypes DEF WriteDates, CommitPublish, WriteArchived, WriteDeleted, IInv
  <2>5. CASE WriteDates(r)
    <3>1. l.tt = p
      BY <1>1, <2>4, <2>5 DEF WriteDates, Writes, IInv, TypeInv, TypeOK
    <3> QED
      BY <2>5, <3>1 DEF WriteDates
  <2>6. CASE CommitPublish(r)
    <3>1. rows' = Published(rows, l) /\ l.pc = "commitPublish"
      BY <2>6 DEF CommitPublish, Writes
    <3>2. p = l.pred /\ rows'[p].to = l.from - 1
      BY <1>1, <2>1, <3>1 DEF Published, Eve, Row
    <3>3. rows'[l.tt].status = "PUBLISHED"
      BY <2>1, <2>4, <3>1 DEF Published, Row
    <3> QED
      BY <2>4, <3>1, <3>2, <3>3
  <2>7. CASE WriteArchived(r) \/ WriteDeleted(r)
    <3>1. rows'[p].to = rows[p].to
      BY <1>1, <2>1, <2>4, <2>7 DEF WriteArchived, WriteDeleted, Writes, IInv, TypeInv, TypeOK, Row
    <3> QED
      BY <1>1, <3>1
  <2> QED
    BY <2>3, <2>5, <2>6, <2>7
<1>2. IInv /\ [Next]_vars => [\A p \in Timetable : Closed(p)]_rows
  BY <1>1
<1> QED
  BY <1>2, Invariance, PTL DEF Spec, NoClosingWithoutSuccessor

-----------------------------------------------------------------------------
(* One request at a time *)

NobodyOvertaken == ~raced /\ \A r \in Request : ~req[r].stale

(* A request alone is overtaken by nobody. *)
LEMMA AloneStep ==
    ASSUME NEW r \in Request, Request = {r}, TypeInv, NobodyOvertaken, [Next]_vars
    PROVE  NobodyOvertaken'
<1>1. req[r] \in Local /\ ~req[r].stale /\ ~raced /\ req \in [Request -> Local]
  BY DEF TypeInv, TypeOK, NobodyOvertaken
<1>2. ASSUME NEW l \in Local, ~l.stale, Continues(r, l) PROVE NobodyOvertaken'
  BY <1>1, <1>2 DEF Continues, NobodyOvertaken
<1>3. ASSUME NEW tbl, Writes(r, tbl) PROVE NobodyOvertaken'
  BY <1>1, <1>3 DEF Writes, NobodyOvertaken, Idle
<1>4. ASSUME Idles(r) PROVE NobodyOvertaken'
  BY <1>1, <1>4 DEF Idles, NobodyOvertaken, Idle
<1>5. ASSUME UNCHANGED <<req, raced>> PROVE NobodyOvertaken'
  BY <1>1, <1>5 DEF NobodyOvertaken
<1>6. ASSUME Handle(r) PROVE NobodyOvertaken'
  <2>1. ASSUME NEW l, Continues(r, l), ~l.stale PROVE NobodyOvertaken'
    BY <1>1, <2>1 DEF Continues, NobodyOvertaken
  <2>2. CASE CheckMove(r)
    BY <1>1, <1>4, <2>1, <2>2 DEF CheckMove, Local
  <2>3. CASE FindOpenEnded(r)
    <3>1. PICK p : Continues(r, [req[r] EXCEPT !.pc = "closeAndCheck", !.pred = p])
      BY <2>3 DEF FindOpenEnded
    <3>2. ~[req[r] EXCEPT !.pc = "closeAndCheck", !.pred = p].stale
      BY <1>1 DEF Local
    <3> QED
      BY <2>1, <3>1, <3>2
  <2>4. CASE CloseAndCheck(r)
    BY <1>1, <1>4, <2>1, <2>4 DEF CloseAndCheck, Local
  <2>5. CASE WriteDates(r) \/ CommitPublish(r) \/ WriteArchived(r) \/ WriteDeleted(r)
    BY <1>3, <2>5 DEF WriteDates, CommitPublish, WriteArchived, WriteDeleted
  <2>6. CASE Fail(r)
    BY <1>4, <2>6 DEF Fail
  <2> QED
    BY <1>6, <2>2, <2>3, <2>4, <2>5, <2>6 DEF Handle
<1>7. ASSUME NEW t \in Timetable, Begin(r, t) PROVE NobodyOvertaken'
  <2>1. ASSUME NEW l, Continues(r, l), ~l.stale PROVE NobodyOvertaken'
    BY <1>1, <2>1 DEF Continues, NobodyOvertaken
  <2>2. \A pc, from, to, setFrom, setTo :
          /\ ~[Idle EXCEPT !.pc = pc, !.tt = t, !.from = from, !.to = to,
                           !.setFrom = setFrom, !.setTo = setTo].stale
          /\ ~[Idle EXCEPT !.pc = pc, !.tt = t, !.from = from, !.to = to].stale
          /\ ~[Idle EXCEPT !.pc = pc, !.tt = t].stale
    BY DEF Idle
  <2>3. ASSUME NEW from, NEW to, BeginUpdate(r, t, from, to) PROVE NobodyOvertaken'
    <3>1. PICK pc, f, u, setFrom, setTo :
             Continues(r, [Idle EXCEPT !.pc = pc, !.tt = t, !.from = f, !.to = u,
                                       !.setFrom = setFrom, !.setTo = setTo])
      BY <2>3 DEF BeginUpdate
    <3> QED
      BY <2>1, <2>2, <3>1
  <2>4. ASSUME NEW backdate, NEW supersede, BeginPublish(r, t, backdate, supersede)
        PROVE  NobodyOvertaken'
    <3>1. PICK pc, f, u : Continues(r, [Idle EXCEPT !.pc = pc, !.tt = t, !.from = f, !.to = u])
      BY <2>4 DEF BeginPublish
    <3> QED
      BY <2>1, <2>2, <3>1
  <2>5. CASE BeginArchive(r, t) \/ BeginRemove(r, t)
    <3>1. PICK pc : Continues(r, [Idle EXCEPT !.pc = pc, !.tt = t])
      BY <2>5 DEF BeginArchive, BeginRemove
    <3> QED
      BY <2>1, <2>2, <3>1
  <2> QED
    BY <1>7, <2>3, <2>4, <2>5 DEF Begin
<1>8. ASSUME NEW t \in Timetable, NEW y \in Year, NEW from \in Day,
             NEW to \in Day \cup {NoEnd}, CreateDraft(t, y, from, to)
      PROVE  NobodyOvertaken'
  BY <1>5, <1>8 DEF CreateDraft
<1>9. CASE Tick \/ UNCHANGED vars
  BY <1>5, <1>9 DEF Tick, vars
<1> QED
  BY <1>6, <1>7, <1>8, <1>9 DEF Next

(* While requests do not overlap in time the versions of a school are a    *)
(* calendar, from their first day on: every statement of every handler is  *)
(* a step of it or none, however many versions, years and days there are.  *)
THEOREM CalendarIsImplemented ==
    ASSUME NEW r \in Request, Request = {r}
    PROVE  Spec => ImplementsCalendar
<1>1. Init => NobodyOvertaken /\ Cal!Init
  BY DEF Init, Idle, NobodyOvertaken, Cal!Init, Calendar, Period, IsLive
<1>2. IInv /\ NobodyOvertaken /\ [Next]_vars => NobodyOvertaken'
  BY AloneStep DEF IInv
<1>3. IInv /\ IInv' /\ NobodyOvertaken' /\ [Next]_vars => [Cal!Next]_Calendar
  BY UnracedStepRefines DEF NobodyOvertaken
<1> QED
  BY <1>1, <1>2, <1>3, InvStep, Invariance, PTL DEF Spec, ImplementsCalendar, Cal!Spec
=============================================================================
