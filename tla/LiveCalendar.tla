---------------------------- MODULE LiveCalendar ----------------------------
(***************************************************************************)
(* What the timetable versions of one school promise to their readers: a   *)
(* calendar on which every day is in force for at most one version.        *)
(* TimetableVersions is shown to implement it while requests do not        *)
(* overlap in time.                                                        *)
(***************************************************************************)
EXTENDS Integers

CONSTANTS
    Timetable,  \* the versions a school may have
    LastDay,    \* days are numbered 1 .. LastDay
    NoEnd,      \* "until superseded"
    NotLive     \* the calendar entry of a version that is not in force

VARIABLE live   \* live[t]: the days version t is in force, or NotLive

Day == 1 .. LastDay
Range == [from : Day, to : Day \cup {NoEnd}]

Covers(p, d) == p.from <= d /\ (p.to = NoEnd \/ d <= p.to)

(* A calendar in which no day belongs to two versions. *)
Unambiguous(cal) ==
    \A t, u \in Timetable : \A d \in Day :
        /\ cal[t] # NotLive /\ Covers(cal[t], d)
        /\ cal[u] # NotLive /\ Covers(cal[u], d)
        => t = u

Init == live = [t \in Timetable |-> NotLive]

(* A version comes into force, the others keep their days. *)
GoLive(t) ==
    /\ live[t] = NotLive
    /\ \E p \in Range : live' = [live EXCEPT ![t] = p]

(* A version comes into force and an open-ended one that began before it   *)
(* is closed on the eve of its first day, in the same step.                *)
Supersede(t, old) ==
    /\ live[t] = NotLive
    /\ live[old] # NotLive /\ live[old].to = NoEnd
    /\ \E p \in Range :
          /\ live[old].from < p.from
          /\ live' = [live EXCEPT ![t] = p, ![old].to = p.from - 1]

(* A version in force moves to other days. *)
Reschedule(t) ==
    /\ live[t] # NotLive
    /\ \E p \in Range : live' = [live EXCEPT ![t] = p]

Withdraw(t) ==
    /\ live[t] # NotLive
    /\ live' = [live EXCEPT ![t] = NotLive]

Next ==
    /\ \E t \in Timetable :
          \/ GoLive(t)
          \/ \E old \in Timetable \ {t} : Supersede(t, old)
          \/ Reschedule(t)
          \/ Withdraw(t)
    /\ Unambiguous(live')

Spec == Init /\ [][Next]_live
=============================================================================
