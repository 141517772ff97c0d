-------------------------- MODULE TimetableVersions --------------------------
(***************************************************************************)
(* The dated timetable versions of one school (TimetablesService).  Every  *)
(* handler is a request that runs one database statement at a time, so     *)
(* requests interleave between a read and the write that relies on it.     *)
(* Publication closes the outgoing version, re-checks the calendar and     *)
(* publishes in one READ COMMITTED transaction: its writes are invisible   *)
(* until the commit, and the row it closed stays locked until then.        *)
(*                                                                         *)
(* raced and the field stale are history: they record that some request    *)
(* wrote after another one had changed, behind its back, its own version   *)
(* or the days on which versions are in force.                             *)
(***************************************************************************)
EXTENDS Integers

CONSTANTS
    Timetable,        \* the rows the school may ever create (a bound)
    Request,          \* how many requests may be in flight at once (a bound)
    LastDay,          \* days are numbered 1 .. LastDay (a bound)
    Year,             \* academic years
    YearStart, YearEnd,
    NoEnd,            \* effectiveTo = null
    Keep,             \* a field the PATCH body leaves out
    None,             \* no version, no year
    NotLive           \* the calendar entry of a version that is not in force

Day == 1 .. LastDay

ASSUME DaysAssumption == LastDay \in Nat \ {0}
ASSUME YearAssumption == YearStart \in [Year -> Day] /\ YearEnd \in [Year -> Day]
ASSUME NullAssumption ==
    /\ NoEnd \notin Int /\ Keep \notin Int /\ Keep # NoEnd
    /\ None \notin Timetable /\ None \notin Year
    /\ \A from \in Day, to \in Day \cup {NoEnd} :
          NotLive # [from |-> from, to |-> to]

VARIABLES
    rows,     \* the timetables table
    req,      \* the requests in flight
    today,    \* the server's date
    raced     \* history: a request wrote on the strength of a stale read

vars == <<rows, req, today, raced>>

Status == {"ABSENT", "DRAFT", "PUBLISHED", "ARCHIVED"}
Row == [status : Status, deleted : BOOLEAN, year : Year \cup {None},
        from : Day, to : Day \cup {NoEnd}]
Pc == {"idle", "checkMove", "writeDates", "findOpenEnded", "closeAndCheck",
       "commitPublish", "writeArchived", "writeDeleted"}
Local == [pc : Pc, tt : Timetable \cup {None}, from : Day,
          to : Day \cup {NoEnd}, setFrom : BOOLEAN, setTo : BOOLEAN,
          pred : Timetable \cup {None}, stale : BOOLEAN]

Idle == [pc |-> "idle", tt |-> None, from |-> 1, to |-> NoEnd,
         setFrom |-> FALSE, setTo |-> FALSE, pred |-> None, stale |-> FALSE]

TypeOK ==
    /\ rows \in [Timetable -> Row]
    /\ req \in [Request -> Local]
    /\ today \in Day
    /\ raced \in BOOLEAN

-----------------------------------------------------------------------------
(* Queries *)

Ordered(from, to) == to # NoEnd => from <= to

Found(t) == rows[t].status # "ABSENT" /\ ~rows[t].deleted

IsLive(row) == row.status = "PUBLISHED" /\ ~row.deleted

Period(row) == IF IsLive(row) THEN [from |-> row.from, to |-> row.to]
                              ELSE NotLive

Calendar == [t \in Timetable |-> Period(rows[t])]

Covers(t, d) == rows[t].from <= d /\ (rows[t].to = NoEnd \/ d <= rows[t].to)

(* The versions a lookup for day d can return. *)
InForce(d) == {t \in Timetable : IsLive(rows[t]) /\ Covers(t, d)}

InYear(y, from, to) ==
    /\ YearStart[y] <= from /\ from <= YearEnd[y]
    /\ to # NoEnd => YearStart[y] <= to /\ to <= YearEnd[y]

(* Faulty variant: the other version's open end is taken for its first day. *)
ClashOpenEndIsFirstDay(from, to, otherFrom, otherTo) ==
    LET startsAfterOther == from > IF otherTo = NoEnd THEN otherFrom ELSE otherTo
        endsBeforeOther == to # NoEnd /\ to < otherFrom
    IN ~(startsAfterOther \/ endsBeforeOther)

(* The overlap test: two periods clash unless one ends before the other    *)
(* starts; a missing end never ends.                                       *)
Clash(from, to, otherFrom, otherTo) ==
    LET startsAfterOther == otherTo # NoEnd /\ from > otherTo
        endsBeforeOther == to # NoEnd /\ to < otherFrom
    IN ~(startsAfterOther \/ endsBeforeOther)

(* assertNoOverlap(from, to) for version t, seen with closed ending at eve. *)
NoClash(t, from, to, closed, eve) ==
    \A u \in Timetable \ {t} :
        IsLive(rows[u]) => ~Clash(from, to, rows[u].from,
                                  IF u = closed THEN eve ELSE rows[u].to)

(* The open-ended live versions that start before a day; the latest wins.  *)
OpenEndedBefore(from) ==
    {t \in Timetable :
        IsLive(rows[t]) /\ rows[t].to = NoEnd /\ rows[t].from < from}

LatestOf(S) == {t \in S : \A u \in S : rows[u].from <= rows[t].from}

(* A publication in its transaction holds the row it is closing. *)
LockedByOther(r, t) ==
    \E q \in Request \ {r} : req[q].pc = "commitPublish" /\ req[q].pred = t

-----------------------------------------------------------------------------
(* How a step ends *)

Idles(r) == /\ req' = [req EXCEPT ![r] = Idle]
            /\ UNCHANGED <<rows, today, raced>>

Continues(r, l) == /\ req' = [req EXCEPT ![r] = l]
                   /\ UNCHANGED <<rows, today, raced>>

(* The write changes something request q has read. *)
Disturbs(newRows, q) ==
    /\ req[q].pc # "idle"
    /\ \/ newRows[req[q].tt] # rows[req[q].tt]
       \/ \E t \in Timetable : Period(newRows[t]) # Period(rows[t])

Writes(r, newRows) ==
    /\ rows' = newRows
    /\ req' = [q \in Request |->
                 IF q = r THEN Idle
                 ELSE [req[q] EXCEPT !.stale = @ \/ Disturbs(newRows, q)]]
    /\ raced' = (raced \/ req[r].stale)
    /\ UNCHANGED today

-----------------------------------------------------------------------------
(* create *)

CreateDraft(t, y, from, to) ==
    /\ rows[t].status = "ABSENT"
    /\ Ordered(from, to)
    /\ InYear(y, from, to)
    /\ rows' = [rows EXCEPT ![t] = [status |-> "DRAFT", deleted |-> FALSE,
                                    year |-> y, from |-> from, to |-> to]]
    /\ UNCHANGED <<req, today, raced>>

-----------------------------------------------------------------------------
(* update: the dates in the body replace the row's, the others are kept    *)

BeginUpdate(r, t, newFrom, newTo) ==
    LET from == IF newFrom = Keep THEN rows[t].from ELSE newFrom
        to == IF newTo = Keep THEN rows[t].to ELSE newTo
    IN /\ req[r].pc = "idle"
       /\ Found(t)
       /\ Ordered(from, to)
       /\ (newFrom # Keep \/ newTo \in Day) => InYear(rows[t].year, from, to)
       /\ Continues(r, [Idle EXCEPT
             !.pc = IF rows[t].status = "PUBLISHED" THEN "checkMove"
                                                    ELSE "writeDates",
             !.tt = t, !.from = from, !.to = to,
             !.setFrom = (newFrom # Keep), !.setTo = (newTo # Keep)])

CheckMove(r) ==
    LET l == req[r] IN
    /\ l.pc = "checkMove"
    /\ IF NoClash(l.tt, l.from, l.to, None, NoEnd)
       THEN Continues(r, [l EXCEPT !.pc = "writeDates"])
       ELSE Idles(r)

Dated(row, l) ==
    [row EXCEPT !.from = IF l.setFrom THEN l.from ELSE @,
                !.to = IF l.setTo THEN l.to ELSE @]

WriteDates(r) ==
    LET l == req[r] IN
    /\ l.pc = "writeDates"
    /\ ~LockedByOther(r, l.tt)
    /\ Writes(r, [rows EXCEPT ![l.tt] = Dated(@, l)])

-----------------------------------------------------------------------------
(* publish *)

MayPublish(t) == Found(t) /\ rows[t].status = "DRAFT"

BeginPublish(r, t, allowBackdate, supersede) ==
    /\ req[r].pc = "idle"
    /\ MayPublish(t)
    /\ rows[t].from >= today \/ allowBackdate
    /\ Continues(r, [Idle EXCEPT
          !.pc = IF supersede THEN "findOpenEnded" ELSE "closeAndCheck",
          !.tt = t, !.from = rows[t].from, !.to = rows[t].to])

(* The predecessor is read before the transaction begins. *)
FindOpenEnded(r) ==
    LET l == req[r]
        open == OpenEndedBefore(l.from)
    IN /\ l.pc = "findOpenEnded"
       /\ \E p \in IF open = {} THEN {None} ELSE LatestOf(open) :
             Continues(r, [l EXCEPT !.pc = "closeAndCheck", !.pred = p])

(* Faulty variant: one day too early. *)
TwoDaysBefore(from) == from - 2

Eve(from) == from - 1

(* Faulty variant: the outgoing version is closed outside the transaction, *)
(* so a clash or a failure leaves it closed.                               *)
CloseOutsideTransaction(r) ==
    LET l == req[r] IN
    /\ l.pc = "closeAndCheck"
    /\ ~LockedByOther(r, l.pred)
    /\ rows' = IF l.pred = None THEN rows
               ELSE [rows EXCEPT ![l.pred].to = Eve(l.from)]
    /\ req' = [req EXCEPT ![r] =
                 IF NoClash(l.tt, l.from, l.to, l.pred, Eve(l.from))
                 THEN [l EXCEPT !.pc = "commitPublish"] ELSE Idle]
    /\ UNCHANGED <<today, raced>>

(* The outgoing version is closed, uncommitted, and the overlap re-checked; *)
(* a clash rolls the transaction back.                                      *)
CloseAndCheck(r) ==
    LET l == req[r] IN
    /\ l.pc = "closeAndCheck"
    /\ ~LockedByOther(r, l.pred)
    /\ IF NoClash(l.tt, l.from, l.to, l.pred, Eve(l.from))
       THEN Continues(r, [l EXCEPT !.pc = "commitPublish"])
       ELSE Idles(r)

(* Faulty variant: the closing of the outgoing version is not committed. *)
PublishedWithoutClosing(tbl, l) ==
    [tbl EXCEPT ![l.tt].status = "PUBLISHED"]

Published(tbl, l) ==
    [t \in Timetable |->
        IF t = l.tt THEN [tbl[t] EXCEPT !.status = "PUBLISHED",
                             !.to = IF t = l.pred THEN Eve(l.from) ELSE @]
        ELSE IF t = l.pred THEN [tbl[t] EXCEPT !.to = Eve(l.from)]
        ELSE tbl[t]]

CommitPublish(r) ==
    LET l == req[r] IN
    /\ l.pc = "commitPublish"
    /\ ~LockedByOther(r, l.tt)
    /\ Writes(r, Published(rows, l))

-----------------------------------------------------------------------------
(* archive and remove: checked on one read, written by id *)

BeginArchive(r, t) ==
    /\ req[r].pc = "idle"
    /\ Found(t) /\ rows[t].status # "ARCHIVED"
    /\ Continues(r, [Idle EXCEPT !.pc = "writeArchived", !.tt = t])

WriteArchived(r) ==
    LET l == req[r] IN
    /\ l.pc = "writeArchived"
    /\ ~LockedByOther(r, l.tt)
    /\ Writes(r, [rows EXCEPT ![l.tt].status = "ARCHIVED"])

(* Faulty variant: remove does not look at the status. *)
MayRemoveAny(t) == Found(t)

MayRemove(t) == Found(t) /\ rows[t].status # "PUBLISHED"

BeginRemove(r, t) ==
    /\ req[r].pc = "idle"
    /\ MayRemove(t)
    /\ Continues(r, [Idle EXCEPT !.pc = "writeDeleted", !.tt = t])

WriteDeleted(r) ==
    LET l == req[r] IN
    /\ l.pc = "writeDeleted"
    /\ ~LockedByOther(r, l.tt)
    /\ Writes(r, [rows EXCEPT ![l.tt].deleted = TRUE])

-----------------------------------------------------------------------------
(* The environment *)

(* A request in flight dies: a lost connection, a transaction chosen as    *)
(* deadlock victim, a crash.  What it had not committed never happened.    *)
Fail(r) ==
    /\ req[r].pc # "idle"
    /\ Idles(r)

Tick ==
    /\ today < LastDay
    /\ today' = today + 1
    /\ UNCHANGED <<rows, req, raced>>

-----------------------------------------------------------------------------
Init ==
    /\ rows = [t \in Timetable |-> [status |-> "ABSENT", deleted |-> FALSE,
                                    year |-> None, from |-> 1, to |-> NoEnd]]
    /\ req = [r \in Request |-> Idle]
    /\ today = 1
    /\ raced = FALSE

Handle(r) ==
    \/ CheckMove(r) \/ WriteDates(r)
    \/ FindOpenEnded(r) \/ CloseAndCheck(r) \/ CommitPublish(r)
    \/ WriteArchived(r) \/ WriteDeleted(r)
    \/ Fail(r)

Begin(r, t) ==
    \/ \E from \in Day \cup {Keep}, to \in Day \cup {NoEnd, Keep} :
          BeginUpdate(r, t, from, to)
    \/ \E allowBackdate, supersede \in BOOLEAN :
          BeginPublish(r, t, allowBackdate, supersede)
    \/ BeginArchive(r, t)
    \/ BeginRemove(r, t)

Next ==
    \/ \E r \in Request : Handle(r) \/ \E t \in Timetable : Begin(r, t)
    \/ \E t \in Timetable, y \in Year, from \in Day, to \in Day \cup {NoEnd} :
          CreateDraft(t, y, from, to)
    \/ Tick

Spec == Init /\ [][Next]_vars

-----------------------------------------------------------------------------
(* Properties *)

(* No two published versions cover the same day (the comment above         *)
(* assertNoOverlap).  It is what activeOn relies on to give one answer.    *)
NoOverlap == \A d \in Day : \A t, u \in InForce(d) : t = u

(* The promise kept by code that checks first and writes later: as long as *)
(* no request wrote behind another's stale read, no day has two versions,  *)
(* whatever publications, date moves, archivings and deletions happened.   *)
NoOverlapUnlessRaced == ~raced => NoOverlap

(* Every unraced write is a step of the calendar LiveCalendar promises: it *)
(* brings one version into force, supersedes, moves or withdraws one, and  *)
(* never leaves a day with two.                                            *)
Cal == INSTANCE LiveCalendar WITH live <- Calendar
UnracedStepsKeepCalendar == [][~raced' => Cal!Next]_Calendar

(* The whole of it, when requests do not overlap in time. *)
ImplementsCalendar == Cal!Spec

(* A version that comes into force without a race leaves the days before   *)
(* its start as they were and is alone on those it covers.                 *)
SplitStep ==
    \A t \in Timetable :
        ~raced' /\ ~IsLive(rows[t]) /\ IsLive(rows'[t]) =>
           \A d \in Day :
              /\ d < rows'[t].from => InForce(d)' = InForce(d)
              /\ Covers(t, d)' => InForce(d)' = {t}

(* Publishing replaces the future and keeps the past: an unraced publish   *)
(* leaves every day before its start with the version it had, and gives    *)
(* every day it covers to the new version alone.                           *)
PublishSplitsTheCalendar == [][SplitStep]_rows

(* Nobody loses the current timetable to a publish that failed half way:   *)
(* however requests interleave or die, a version whose open end is closed  *)
(* by someone else's publish is closed in the step that publishes the      *)
(* successor, on the eve of the successor's start.                         *)
NoClosingWithoutSuccessor ==
    [][\A p \in Timetable :
          Found(p) /\ rows[p].to = NoEnd /\ rows'[p].to # NoEnd =>
             \/ \E r \in Request : req[r].pc = "writeDates" /\ req[r].tt = p
             \/ \E t \in Timetable, r \in Request :
                   /\ req[r].pc = "commitPublish" /\ req[r].tt = t
                   /\ rows'[t].status = "PUBLISHED"
                   /\ rows'[p].to = req[r].from - 1]_rows

(* The life cycle the status column stands for, across a whole step. *)
LegalStatusChange(old, new) ==
    \/ old = new
    \/ old = "ABSENT" /\ new = "DRAFT"
    \/ old = "DRAFT" /\ new \in {"PUBLISHED", "ARCHIVED"}
    \/ old = "PUBLISHED" /\ new = "ARCHIVED"

LifecycleStep ==
    \A t \in Timetable :
        /\ LegalStatusChange(rows[t].status, rows'[t].status)
        /\ rows'[t].deleted /\ ~rows[t].deleted => rows[t].status # "PUBLISHED"

(* A published version is never deleted, an archived one never comes back  *)
(* and a deleted one never changes (getOwned followed by the status checks *)
(* of publish, archive and remove), as long as no request writes on a      *)
(* stale read.                                                             *)
LifecycleUnlessRaced ==
    [][~raced' => /\ LifecycleStep
                  /\ \A t \in Timetable : rows[t].deleted => rows'[t] = rows[t]]_rows

(* The dates of every version lie inside its academic year. *)
DatesInsideYear ==
    \A t \in Timetable : Found(t) => InYear(rows[t].year, rows[t].from, rows[t].to)
=============================================================================
