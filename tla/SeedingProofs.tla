---------------------------- MODULE SeedingProofs ----------------------------
(***************************************************************************)
(* The seed, for lists of any length.                                      *)
(*                                                                         *)
(* The argument has two halves.  One is about the text of the script,      *)
(* however many roles, pupils and classes there are: a statement either    *)
(* stands for itself (Plain) or is the first or the second of two that     *)
(* belong together (Pair), and the two always stand side by side.  The     *)
(* other is about running it: what the statements behind the current one   *)
(* have left (Behind), and that the second of two rows is missing only     *)
(* between their statements or where a process died there (PairsWhole).    *)
(***************************************************************************)
EXTENDS Seeding, FoldLemmas, SequenceTheorems

-----------------------------------------------------------------------------
(* Concatenations *)

IsList(q) == q \in Seq(Range(q))

LEMMA ListFacts ==
  ASSUME NEW q, IsList(q)
  PROVE  Len(q) \in Nat /\ DOMAIN q = 1 .. Len(q) /\ \A i \in 1 .. Len(q) : q[i] \in Range(q)
<1>1. Len(q) \in Nat /\ DOMAIN q = 1 .. Len(q) BY LenProperties DEF IsList
<1> QED BY <1>1 DEF Range

LEMMA Concatenated ==
  ASSUME NEW a, IsList(a), NEW b, IsList(b)
  PROVE  /\ IsList(a \o b) /\ Len(a \o b) = Len(a) + Len(b)
         /\ \A i \in 1 .. Len(a) : (a \o b)[i] = a[i]
         /\ \A i \in 1 .. Len(b) : (a \o b)[Len(a) + i] = b[i]
<1> DEFINE S == Range(a) \cup Range(b)
           c == a \o b
<1>1. a \in Seq(S) /\ b \in Seq(S) BY SeqMonotonic DEF IsList
<1>2. /\ c \in Seq(S) /\ Len(c) = Len(a) + Len(b) /\ Len(a) \in Nat /\ Len(b) \in Nat
      /\ \A i \in 1 .. Len(c) : c[i] = IF i <= Len(a) THEN a[i] ELSE b[i - Len(a)]
  BY <1>1, ConcatProperties, LenProperties
<1> HIDE DEF c
<1>3. DOMAIN c = 1 .. Len(c) BY <1>2, LenProperties
<1>4. c \in [1 .. Len(c) -> Range(c)]
  <2>1. c \in [1 .. Len(c) -> S] BY <1>2, LenProperties
  <2> QED BY <2>1 DEF Range
<1>5. IsList(c)
  <2>1. Len(c) \in Nat BY <1>2
  <2> QED BY <1>4, <2>1, SeqDef DEF IsList
<1>6. \A i \in 1 .. Len(a) : c[i] = a[i]
  <2> TAKE i \in 1 .. Len(a)
  <2>1. i \in 1 .. Len(c) /\ i <= Len(a) BY <1>2
  <2> QED BY <1>2, <2>1
<1>7. \A i \in 1 .. Len(b) : c[Len(a) + i] = b[i]
  <2> TAKE i \in 1 .. Len(b)
  <2>1. Len(a) + i \in 1 .. Len(c) /\ ~(Len(a) + i <= Len(a)) /\ (Len(a) + i) - Len(a) = i BY <1>2
  <2> QED BY <1>2, <2>1
<1> QED BY <1>2, <1>5, <1>6, <1>7 DEF c

-----------------------------------------------------------------------------
(* The text of the script *)

(* A statement that stands for itself. *)
PlainTables ==
    {"permission", "role", "grants", "user", "user role", "template", "section", "grade", "class",
     "year", "student", "enrolment", "attendance", "staff", "department", "department subjects",
     "assignment", "timetable", "school", "campus", "module"}

OverwrittenTables == {"members", "class teacher", "load"}

Plain(s) ==
    \/ \E t \in PlainTables : \E x : s = Ensure(<<t, x>>) /\ <<t, x>> \notin Retired
    \/ \E t \in OverwrittenTables : \E x : s = Overwrite(<<t, x>>)
    \/ \E r \in Retired : s = Clear(r)

(* Two statements that belong together: a role is emptied and filled, a     *)
(* guardian is made and linked, an assessment is made and scored.          *)
Guardian(x) == <<"guardian", x>>
LinkOf(x) == <<"link", x>>
Assessment(x) == <<"assessment", x>>
ScoresOf(x) == <<"scores", x>>
Filled(s, t) == \E x : s = Clear(<<"grants", x>>) /\ t = Ensure(<<"grants", x>>)
Linked(s, t) == \E x : s = Create(Guardian(x), LinkOf(x), 2) /\ t = Ensure(LinkOf(x))
Scored(s, t) == \E x : s = Create(Assessment(x), Assessment(x), 2) /\ t = Ensure(ScoresOf(x))
Pair(s, t) == Filled(s, t) \/ Linked(s, t) \/ Scored(s, t)

Stands(q, i) ==
    \/ Plain(q[i])
    \/ i < Len(q) /\ Pair(q[i], q[i + 1])
    \/ i > 1 /\ Pair(q[i - 1], q[i])

Good(q) == IsList(q) /\ \A i \in 1 .. Len(q) : Stands(q, i)

LEMMA GoodNone == Good(<<>>)
BY DEF Good, IsList

LEMMA GoodOne == ASSUME NEW s, Plain(s) PROVE Good(<<s>>)
<1> DEFINE q == <<s>>
<1>1. Len(q) = 1 /\ q[1] = s /\ DOMAIN q = 1 .. 1 OBVIOUS
<1>2. q \in Seq({s}) /\ s \in Range(q) BY <1>1 DEF Range
<1>3. q \in Seq(Range(q)) BY <1>2, SeqMonotonic
<1> HIDE DEF q
<1>4. Stands(q, 1) BY <1>1 DEF Stands
<1>5. \A i \in 1 .. 1 : i = 1 OBVIOUS
<1>6. Good(q) BY <1>1, <1>3, <1>4, <1>5 DEF Good, IsList
<1> QED BY <1>6 DEF q

LEMMA GoodTwo ==
  ASSUME NEW s, NEW t, Pair(s, t) \/ (Plain(s) /\ Plain(t))
  PROVE  Good(<<s, t>>)
<1> DEFINE q == <<s, t>>
<1>1. Len(q) = 2 /\ q[1] = s /\ q[2] = t /\ DOMAIN q = 1 .. 2 OBVIOUS
<1>2. q \in Seq({s, t}) /\ {s, t} \subseteq Range(q) BY <1>1 DEF Range
<1>3. q \in Seq(Range(q)) BY <1>2, SeqMonotonic
<1> HIDE DEF q
<1>4. \A i \in 1 .. 2 : i = 1 \/ i = 2 OBVIOUS
<1>5. Stands(q, 1) /\ Stands(q, 2)
  <2>1. 1 < 2 /\ 2 > 1 /\ 1 + 1 = 2 /\ 2 - 1 = 1 OBVIOUS
  <2> QED BY <1>1, <2>1 DEF Stands
<1>6. Good(q) BY <1>1, <1>3, <1>4, <1>5 DEF Good, IsList
<1> QED BY <1>6 DEF q

LEMMA GoodFour ==
  ASSUME NEW a, Plain(a), NEW s, NEW t, Pair(s, t), NEW d, Plain(d)
  PROVE  Good(<<a, s, t, d>>)
<1> DEFINE q == <<a, s, t, d>>
<1>1. Len(q) = 4 /\ q[1] = a /\ q[2] = s /\ q[3] = t /\ q[4] = d /\ DOMAIN q = 1 .. 4 OBVIOUS
<1>2. q \in Seq({a, s, t, d}) /\ {a, s, t, d} \subseteq Range(q) BY <1>1 DEF Range
<1>3. q \in Seq(Range(q)) BY <1>2, SeqMonotonic
<1> HIDE DEF q
<1>4. \A i \in 1 .. 4 : i = 1 \/ i = 2 \/ i = 3 \/ i = 4 OBVIOUS
<1>5. Stands(q, 1) /\ Stands(q, 2) /\ Stands(q, 3) /\ Stands(q, 4)
  <2>1. 2 < 4 /\ 3 > 1 /\ 2 + 1 = 3 /\ 3 - 1 = 2 OBVIOUS
  <2> QED BY <1>1, <2>1 DEF Stands
<1>6. Good(q) BY <1>1, <1>3, <1>4, <1>5 DEF Good, IsList
<1> QED BY <1>6 DEF q

LEMMA GoodBoth == ASSUME NEW a, Good(a), NEW b, Good(b) PROVE Good(a \o b)
<1> DEFINE c == a \o b
           m == Len(a)
           n == Len(b)
<1>1. /\ IsList(c) /\ Len(c) = m + n
      /\ \A i \in 1 .. m : c[i] = a[i]
      /\ \A i \in 1 .. n : c[m + i] = b[i]
  BY Concatenated DEF Good
<1>2. m \in Nat /\ n \in Nat BY ListFacts DEF Good
<1> HIDE DEF c
<1>3. ASSUME NEW i \in 1 .. m + n PROVE Stands(c, i)
  <2>1. CASE i \in 1 .. m
    <3>1. c[i] = a[i] /\ (i < m => c[i + 1] = a[i + 1]) /\ (i > 1 => c[i - 1] = a[i - 1])
      <4>1. i < m => i + 1 \in 1 .. m BY <1>2, <2>1
      <4>2. i > 1 => i - 1 \in 1 .. m BY <1>2, <2>1
      <4> QED BY <1>1, <2>1, <4>1, <4>2
    <3>2. i < m => i < m + n BY <1>2
    <3>3. Stands(a, i) BY <2>1 DEF Good
    <3> QED BY <1>1, <3>1, <3>2, <3>3 DEF Stands
  <2>2. CASE i \notin 1 .. m
    <3>1. PICK j \in 1 .. n : m + j = i
      <4>1. i - m \in 1 .. n /\ m + (i - m) = i BY <1>2, <2>2
      <4> QED BY <4>1
    <3>2. /\ c[i] = b[j] /\ (j < n => c[i + 1] = b[j + 1]) /\ (j > 1 => c[i - 1] = b[j - 1])
      <4>1. j < n => j + 1 \in 1 .. n /\ m + (j + 1) = i + 1 BY <1>2, <3>1
      <4>2. j > 1 => j - 1 \in 1 .. n /\ m + (j - 1) = i - 1 BY <1>2, <3>1
      <4> QED BY <1>1, <3>1, <4>1, <4>2
    <3>3. (j < n => i < m + n) /\ (j > 1 => i > 1) BY <1>2, <3>1
    <3>4. Stands(b, j) BY <3>1 DEF Good
    <3> QED BY <1>1, <3>2, <3>3, <3>4 DEF Stands
  <2> QED BY <2>1, <2>2
<1>4. Good(c) BY <1>1, <1>3 DEF Good
<1> QED BY <1>4 DEF c

(* FlattenSeq is a recursive function of the number of parts: there is one, *)
(* and it is good if they are.                                             *)
Flattens(ss, f) ==
    f = [i \in 1 .. Len(ss) |-> IF i = 1 THEN ss[i] ELSE f[i - 1] \o ss[i]]

LEMMA FlattensExist ==
  ASSUME NEW ss, Len(ss) \in Nat
  PROVE  \E f : Flattens(ss, f)
<1> DEFINE Step(f, i) == IF i = 1 THEN ss[i] ELSE f[i - 1] \o ss[i]
           T == {n \in Nat : \E f : \A i \in 1 .. n : f[i] = Step(f, i)}
<1>1. 0 \in T
  <2>1. \A i \in 1 .. 0 : ss[i] = Step(ss, i) OBVIOUS
  <2> QED BY <2>1
<1>2. ASSUME NEW n \in Nat, n \in T PROVE n + 1 \in T
  <2>1. PICK f : \A i \in 1 .. n : f[i] = Step(f, i) BY <1>2
  <2> DEFINE g == [i \in 1 .. n + 1 |-> IF i <= n THEN f[i] ELSE Step(f, i)]
  <2>2. ASSUME NEW i \in 1 .. n + 1 PROVE g[i] = Step(g, i)
    <3>1. i # 1 => i - 1 \in 1 .. n + 1 /\ i - 1 <= n OBVIOUS
    <3>2. i # 1 => g[i - 1] = f[i - 1] BY <3>1
    <3>3. g[i] = Step(f, i) BY <2>1
    <3> QED BY <3>2, <3>3
  <2> HIDE DEF g, Step
  <2> QED BY <2>2
<1>3. Len(ss) \in T
  <2> HIDE DEF T
  <2> QED BY <1>1, <1>2, AllNaturals
<1>4. PICK f : \A i \in 1 .. Len(ss) : f[i] = Step(f, i) BY <1>3
<1> DEFINE h == [i \in 1 .. Len(ss) |-> f[i]]
<1>5. \A i \in 1 .. Len(ss) : Step(h, i) = Step(f, i)
  <2> TAKE i \in 1 .. Len(ss)
  <2>1. i # 1 => i - 1 \in 1 .. Len(ss) OBVIOUS
  <2> QED BY <2>1
<1>6. h = [i \in 1 .. Len(ss) |-> Step(h, i)] BY <1>4, <1>5
<1> QED BY <1>6 DEF Flattens

LEMMA GoodParts ==
  ASSUME NEW list, IsList(list), NEW ss, DOMAIN ss = DOMAIN list,
         ss = [i \in DOMAIN list |-> ss[i]], \A i \in DOMAIN list : Good(ss[i])
  PROVE  Good(FlattenSeq(ss))
<1>1. Len(list) \in Nat /\ DOMAIN list = 1 .. Len(list) BY ListFacts
<1> DEFINE n == Len(list)
<1>2. Len(ss) = n BY <1>1
<1>3. CASE n = 0
  <2>1. ss = <<>> BY <1>1, <1>3
  <2> QED BY <1>2, <1>3, <2>1, GoodNone DEF FlattenSeq
<1>4. CASE n # 0
  <2> DEFINE f == CHOOSE f : Flattens(ss, f)
  <2>1. Flattens(ss, f) BY <1>1, <1>2, FlattensExist
  <2>2. FlattenSeq(ss) = f[n] BY <1>2, <1>4, Zenon DEF FlattenSeq, Flattens
  <2> HIDE DEF f
  <2> DEFINE T == {k \in Nat : k + 1 \in 1 .. n => Good(f[k + 1])}
  <2>3. \A i \in 1 .. n : f[i] = IF i = 1 THEN ss[i] ELSE f[i - 1] \o ss[i]
    BY <1>2, <2>1 DEF Flattens
  <2>4. 0 \in T BY <1>1, <2>3
  <2>5. ASSUME NEW k \in Nat, k \in T PROVE k + 1 \in T
    <3> SUFFICES ASSUME (k + 1) + 1 \in 1 .. n PROVE Good(f[(k + 1) + 1])
      OBVIOUS
    <3>1. k + 1 \in 1 .. n /\ (k + 1) + 1 # 1 /\ ((k + 1) + 1) - 1 = k + 1 BY <1>1
    <3>2. f[(k + 1) + 1] = f[k + 1] \o ss[(k + 1) + 1] BY <2>3, <3>1
    <3>3. Good(f[k + 1]) BY <2>5, <3>1
    <3>4. Good(ss[(k + 1) + 1]) BY <1>1
    <3> QED BY <3>2, <3>3, <3>4, GoodBoth
  <2>6. n - 1 \in T
    <3>1. n - 1 \in Nat BY <1>1, <1>4
    <3> HIDE DEF T
    <3> QED BY <2>4, <2>5, <3>1, AllNaturals
  <2>7. Good(f[n])
    <3>1. (n - 1) + 1 = n /\ n \in 1 .. n BY <1>1, <1>4
    <3> QED BY <2>6, <3>1
  <2> QED BY <2>2, <2>7
<1> QED BY <1>3, <1>4

LEMMA Lists ==
  /\ IsList(Permissions) /\ IsList(Roles) /\ IsList(Templates) /\ IsList(Modules) /\ IsList(Grades)
  /\ IsList(Students) /\ IsList(Subjects) /\ IsList(Staff) /\ IsList(Departments)
  /\ IsList(TimetableRows) /\ IsList(Logins)
BY ListsAssumption DEF IsList

LEMMA PlainEnsures ==
  /\ \A t \in PlainTables \ {"permission", "role"} : \A x : Plain(Ensure(<<t, x>>))
  /\ \A x \in Range(Permissions) : Plain(Ensure(<<"permission", x>>))
  /\ \A x \in Range(Roles) : Plain(Ensure(<<"role", x>>))
<1>1. ASSUME NEW t \in PlainTables \ {"permission", "role"}, NEW x PROVE Plain(Ensure(<<t, x>>))
  <2>1. <<t, x>> \notin Retired BY DEF Retired
  <2> QED BY <2>1 DEF Plain
<1>2. ASSUME NEW x \in Range(Permissions) PROVE Plain(Ensure(<<"permission", x>>))
  <2>1. <<"permission", x>> \notin Retired BY RetiredAssumption DEF Retired
  <2> QED BY <2>1 DEF Plain, PlainTables
<1>3. ASSUME NEW x \in Range(Roles) PROVE Plain(Ensure(<<"role", x>>))
  <2>1. <<"role", x>> \notin Retired BY RetiredAssumption DEF Retired
  <2> QED BY <2>1 DEF Plain, PlainTables
<1> QED BY <1>1, <1>2, <1>3

LEMMA PlainOverwrites == \A t \in OverwrittenTables : \A x : Plain(Overwrite(<<t, x>>))
<1> SUFFICES ASSUME NEW t \in OverwrittenTables, NEW x PROVE Plain(Overwrite(<<t, x>>))
  OBVIOUS
<1>1. \E y : Overwrite(<<t, x>>) = Overwrite(<<t, y>>)
  <2> WITNESS x
  <2> QED OBVIOUS
<1>2. \E u \in OverwrittenTables : \E y : Overwrite(<<t, x>>) = Overwrite(<<u, y>>)
  <2> WITNESS t \in OverwrittenTables
  <2> QED BY <1>1
<1> QED BY <1>2, Zenon DEF Plain

LEMMA OneAndPair == ASSUME NEW a, NEW b, NEW c PROVE <<a, b, c>> = <<a>> \o <<b, c>>
OBVIOUS

LEMMA GoodPlains ==
  /\ \A a, b : Plain(a) /\ Plain(b) => Good(<<a, b>>)
  /\ \A a, b, c : Plain(a) /\ Plain(b) /\ Plain(c) => Good(<<a, b, c>>)
<1>1. ASSUME NEW a, NEW b, Plain(a), Plain(b) PROVE Good(<<a, b>>)
  BY <1>1, GoodTwo
<1>2. ASSUME NEW a, NEW b, NEW c, Plain(a), Plain(b), Plain(c) PROVE Good(<<a, b, c>>)
  <2>1. Good(<<b, c>>) BY <1>1, <1>2
  <2>2. Good(<<a>> \o <<b, c>>) BY <1>2, <2>1, GoodOne, GoodBoth
  <2> QED BY <2>2, OneAndPair, Zenon
<1> QED BY <1>1, <1>2

(* What is first in a list stays first when something follows.              *)
LEMMA StaysFirst ==
  ASSUME NEW a, Good(a), NEW b, Good(b), NEW i \in 1 .. Len(a)
  PROVE  i \in 1 .. Len(a \o b) /\ (a \o b)[i] = a[i]
<1>1. /\ Len(a) \in Nat /\ Len(b) \in Nat /\ Len(a \o b) = Len(a) + Len(b)
      /\ (a \o b)[i] = a[i]
  BY ListFacts, Concatenated DEF Good
<1> QED BY <1>1

LEMMA GoodRbac ==
  /\ Good(SeedRbac)
  /\ 1 \in 1 .. Len(SeedRbac) /\ SeedRbac[1] = Clear(<<"permission", "retired">>)
  /\ 2 \in 1 .. Len(SeedRbac) /\ SeedRbac[2] = Clear(<<"role", "retired">>)
<1> DEFINE Catalogue(p) == <<Ensure(<<"permission", p>>)>>
           Sync(r) == <<Ensure(<<"role", r>>), Clear(<<"grants", r>>), Ensure(<<"grants", r>>)>>
           cs == [i \in DOMAIN Permissions |-> Catalogue(Permissions[i])]
           ss == [i \in DOMAIN Roles |-> Sync(Roles[i])]
           first == <<Clear(<<"permission", "retired">>), Clear(<<"role", "retired">>)>>
<1>1. SeedRbac = first \o FlattenSeq(cs) \o FlattenSeq(ss) BY Zenon DEF SeedRbac, Each
<1>2. Good(first)
  <2>1. \A r \in Retired : Plain(Clear(r)) BY DEF Plain
  <2> QED BY <2>1, GoodPlains DEF Retired
<1>3. Good(FlattenSeq(cs))
  <2>1. \A i \in DOMAIN Permissions : Permissions[i] \in Range(Permissions) BY DEF Range
  <2>2. \A i \in DOMAIN Permissions : Good(cs[i]) BY <2>1, PlainEnsures, GoodOne
  <2> QED BY <2>2, Lists, GoodParts
<1>4. Good(FlattenSeq(ss))
  <2>1. ASSUME NEW i \in DOMAIN Roles PROVE Good(ss[i])
    <3> DEFINE r == Roles[i]
    <3>1. r \in Range(Roles) BY DEF Range
    <3> HIDE DEF r
    <3>2. Good(<<Ensure(<<"role", r>>)>>) BY <3>1, PlainEnsures, GoodOne
    <3>3. Good(<<Clear(<<"grants", r>>), Ensure(<<"grants", r>>)>>)
      <4>1. Pair(Clear(<<"grants", r>>), Ensure(<<"grants", r>>)) BY DEF Pair, Filled
      <4> QED BY <4>1, GoodTwo
    <3>4. Good(Sync(r)) BY <3>2, <3>3, GoodBoth, OneAndPair, Zenon
    <3> QED BY <3>4 DEF r
  <2> QED BY <2>1, Lists, GoodParts
<1>5. /\ 1 \in 1 .. Len(first) /\ first[1] = Clear(<<"permission", "retired">>)
      /\ 2 \in 1 .. Len(first) /\ first[2] = Clear(<<"role", "retired">>)
  OBVIOUS
<1> HIDE DEF cs, ss, first
<1>6. Good(first \o FlattenSeq(cs)) BY <1>2, <1>3, GoodBoth
<1>7. Good(SeedRbac) BY <1>1, <1>4, <1>6, GoodBoth
<1>8. ASSUME NEW i \in 1 .. Len(first)
      PROVE  i \in 1 .. Len(SeedRbac) /\ SeedRbac[i] = first[i]
  <2>1. i \in 1 .. Len(first \o FlattenSeq(cs)) /\ (first \o FlattenSeq(cs))[i] = first[i]
    BY <1>2, <1>3, StaysFirst
  <2> QED BY <1>1, <1>4, <1>6, <2>1, StaysFirst
<1> QED BY <1>5, <1>7, <1>8

LEMMA GoodRoleOf == ASSUME NEW user PROVE Good(AssignSystemRole(user))
<1>1. Plain(Ensure(<<"user role", user>>)) BY PlainEnsures DEF PlainTables
<1> QED BY <1>1, GoodOne DEF AssignSystemRole

LEMMA GoodAdmin == Good(SeedSuperAdmin)
<1>1. Plain(Ensure(<<"user", "super admin">>)) BY PlainEnsures DEF PlainTables
<1>2. Good(<<Ensure(<<"user", "super admin">>)>> \o AssignSystemRole("super admin"))
  BY <1>1, GoodOne, GoodRoleOf, GoodBoth
<1> QED BY <1>2, GoodNone, Zenon DEF SeedSuperAdmin

LEMMA GoodTemplates == Good(SeedAcademicTemplates)
<1> DEFINE ss == [i \in DOMAIN Templates |-> <<Ensure(<<"template", Templates[i]>>)>>]
<1>1. SeedAcademicTemplates = FlattenSeq(ss) BY Zenon DEF SeedAcademicTemplates, Each
<1>2. \A x : Plain(Ensure(<<"template", x>>)) BY PlainEnsures DEF PlainTables
<1>3. \A i \in DOMAIN Templates : Good(ss[i]) BY <1>2, GoodOne
<1> QED BY <1>1, <1>3, Lists, GoodParts

LEMMA GoodStructure == ASSUME NEW y PROVE Good(SeedDemoAcademicStructure(y))
<1> DEFINE Tree(g) == <<Ensure(<<"section", "of all">>), Ensure(<<"grade", g>>),
                        Ensure(<<"class", <<g, y>>>>)>>
           ss == [i \in DOMAIN Grades |-> Tree(Grades[i])]
<1>1. SeedDemoAcademicStructure(y) = <<Ensure(<<"year", y>>)>> \o FlattenSeq(ss)
  BY Zenon DEF SeedDemoAcademicStructure, Each
<1>2. ASSUME NEW i \in DOMAIN Grades PROVE Good(ss[i])
  <2> DEFINE g == Grades[i]
  <2>1. /\ Plain(Ensure(<<"section", "of all">>)) /\ Plain(Ensure(<<"grade", g>>))
        /\ Plain(Ensure(<<"class", <<g, y>>>>))
    BY PlainEnsures DEF PlainTables
  <2>2. Good(Tree(g)) BY <2>1, GoodPlains
  <2> QED BY <2>2
<1>3. Good(FlattenSeq(ss)) BY <1>2, Lists, GoodParts
<1>4. Good(<<Ensure(<<"year", y>>)>>) BY PlainEnsures, GoodOne DEF PlainTables
<1> HIDE DEF ss
<1> QED BY <1>1, <1>3, <1>4, GoodBoth

LEMMA GoodRoster == ASSUME NEW y PROVE Good(SeedDemoRoster(y))
<1> DEFINE First(s) == Ensure(<<"student", s>>)
           Second(s) == Create(Guardian(s), LinkOf(s), 2)
           Third(s) == Ensure(LinkOf(s))
           Fourth(s) == Ensure(<<"enrolment", <<s, y>>>>)
           Enrol(s) == <<First(s), Second(s), Third(s), Fourth(s)>>
           ss == [i \in DOMAIN Students |-> Enrol(Students[i])]
<1>1. SeedDemoRoster(y) = FlattenSeq(ss)
  BY Zenon DEF SeedDemoRoster, Each, Guardian, LinkOf
<1>2. ASSUME NEW s PROVE Good(Enrol(s))
  <2>1. Plain(First(s)) /\ Plain(Fourth(s)) BY PlainEnsures DEF PlainTables
  <2>2. Pair(Second(s), Third(s)) BY DEF Pair, Linked
  <2> HIDE DEF First, Second, Third, Fourth
  <2> QED BY <2>1, <2>2, GoodFour
<1> HIDE DEF Enrol
<1>3. \A i \in DOMAIN Students : Good(ss[i]) BY <1>2
<1> QED BY <1>1, <1>3, Lists, GoodParts

LEMMA GoodAssessments == ASSUME NEW y PROVE Good(SeedDemoAttendanceAndAssessment(y))
<1> DEFINE Mark(g, s) == IF GradeOf[s] = g THEN <<Ensure(<<"attendance", <<s, y>>>>)>> ELSE <<>>
           Score(g, sub) == <<Create(Assessment(<<g, sub, y>>), Assessment(<<g, sub, y>>), 2),
                              Ensure(ScoresOf(<<g, sub, y>>))>>
           marks(g) == [i \in DOMAIN Students |-> Mark(g, Students[i])]
           scores(g) == [i \in DOMAIN Subjects |-> Score(g, Subjects[i])]
           OfClass(g) == IF g \notin Range(GradeOf) THEN <<>>
                         ELSE FlattenSeq(marks(g)) \o FlattenSeq(scores(g))
           ss == [i \in DOMAIN Grades |-> OfClass(Grades[i])]
<1>1. SeedDemoAttendanceAndAssessment(y) = FlattenSeq(ss)
  BY Zenon DEF SeedDemoAttendanceAndAssessment, Each, Assessment, ScoresOf
<1>2. ASSUME NEW g PROVE Good(FlattenSeq(marks(g)))
  <2>1. ASSUME NEW s PROVE Good(Mark(g, s))
    <3>1. Good(<<Ensure(<<"attendance", <<s, y>>>>)>>) BY PlainEnsures, GoodOne DEF PlainTables
    <3> QED BY <3>1, GoodNone
  <2> HIDE DEF Mark
  <2>2. \A i \in DOMAIN Students : Good(marks(g)[i]) BY <2>1
  <2> QED BY <2>2, Lists, GoodParts
<1>3. ASSUME NEW g PROVE Good(FlattenSeq(scores(g)))
  <2>1. ASSUME NEW sub PROVE Good(Score(g, sub))
    <3> DEFINE a == <<g, sub, y>>
    <3> HIDE DEF a
    <3>1. Pair(Create(Assessment(a), Assessment(a), 2), Ensure(ScoresOf(a))) BY DEF Pair, Scored
    <3>2. Good(<<Create(Assessment(a), Assessment(a), 2), Ensure(ScoresOf(a))>>) BY <3>1, GoodTwo
    <3> QED BY <3>2 DEF a
  <2> HIDE DEF Score
  <2>2. \A i \in DOMAIN Subjects : Good(scores(g)[i]) BY <2>1
  <2> QED BY <2>2, Lists, GoodParts
<1> HIDE DEF marks, scores
<1>4. ASSUME NEW g PROVE Good(OfClass(g)) BY <1>2, <1>3, GoodBoth, GoodNone
<1> HIDE DEF OfClass
<1>5. \A i \in DOMAIN Grades : Good(ss[i]) BY <1>4
<1> QED BY <1>1, <1>5, Lists, GoodParts

LEMMA GoodStaff == ASSUME NEW y PROVE Good(SeedDemoStaff(y))
<1> DEFINE Department(d) == <<Ensure(<<"department", d>>), Overwrite(<<"members", d>>),
                              Ensure(<<"department subjects", d>>)>>
           teaching(g) == [i \in DOMAIN Subjects |->
                               <<Ensure(<<"assignment", <<g, Subjects[i], y>>>>)>>]
           OfClass(g) == <<Overwrite(<<"class teacher", <<g, y>>>>)>> \o FlattenSeq(teaching(g))
           people == [i \in DOMAIN Staff |-> <<Ensure(<<"staff", Staff[i]>>)>>]
           ds == [i \in DOMAIN Departments |-> Department(Departments[i])]
           cs == [i \in DOMAIN Grades |-> OfClass(Grades[i])]
<1>1. SeedDemoStaff(y) = FlattenSeq(people) \o FlattenSeq(ds) \o FlattenSeq(cs)
  BY Zenon DEF SeedDemoStaff, Each
<1>2. Good(FlattenSeq(people))
  <2>1. \A x : Plain(Ensure(<<"staff", x>>)) BY PlainEnsures DEF PlainTables
  <2>2. \A i \in DOMAIN Staff : Good(people[i]) BY <2>1, GoodOne
  <2> QED BY <2>2, Lists, GoodParts
<1>3. Good(FlattenSeq(ds))
  <2>1. ASSUME NEW d PROVE Good(Department(d))
    <3>1. Plain(Ensure(<<"department", d>>)) /\ Plain(Ensure(<<"department subjects", d>>))
      BY PlainEnsures DEF PlainTables
    <3>2. Plain(Overwrite(<<"members", d>>)) BY PlainOverwrites DEF OverwrittenTables
    <3> QED BY <3>1, <3>2, GoodPlains
  <2> HIDE DEF Department
  <2>2. \A i \in DOMAIN Departments : Good(ds[i]) BY <2>1
  <2> QED BY <2>2, Lists, GoodParts
<1>4. Good(FlattenSeq(cs))
  <2>1. ASSUME NEW g PROVE Good(OfClass(g))
    <3>1. \A x : Plain(Ensure(<<"assignment", x>>)) BY PlainEnsures DEF PlainTables
    <3>2. \A i \in DOMAIN Subjects : Good(teaching(g)[i]) BY <3>1, GoodOne
    <3>3. Good(FlattenSeq(teaching(g))) BY <3>2, Lists, GoodParts
    <3>4. Good(<<Overwrite(<<"class teacher", <<g, y>>>>)>>) BY PlainOverwrites, GoodOne DEF OverwrittenTables
    <3> HIDE DEF teaching
    <3> QED BY <3>3, <3>4, GoodBoth
  <2> HIDE DEF OfClass
  <2>2. \A i \in DOMAIN Grades : Good(cs[i]) BY <2>1
  <2> QED BY <2>2, Lists, GoodParts
<1> HIDE DEF people, ds, cs
<1> QED BY <1>1, <1>2, <1>3, <1>4, GoodBoth

LEMMA GoodTimetable == ASSUME NEW y PROVE Good(SeedDemoTimetableSetup(y))
<1> DEFINE loads(g) == [i \in DOMAIN Subjects |-> <<Overwrite(<<"load", <<g, Subjects[i], y>>>>)>>]
           rs == [i \in DOMAIN TimetableRows |-> <<Ensure(<<"timetable", TimetableRows[i]>>)>>]
           ls == [i \in DOMAIN Grades |-> FlattenSeq(loads(Grades[i]))]
<1>1. SeedDemoTimetableSetup(y) = FlattenSeq(rs) \o FlattenSeq(ls)
  BY Zenon DEF SeedDemoTimetableSetup, Each
<1>2. Good(FlattenSeq(rs))
  <2>1. \A x : Plain(Ensure(<<"timetable", x>>)) BY PlainEnsures DEF PlainTables
  <2>2. \A i \in DOMAIN TimetableRows : Good(rs[i]) BY <2>1, GoodOne
  <2> QED BY <2>2, Lists, GoodParts
<1>3. Good(FlattenSeq(ls))
  <2>1. ASSUME NEW g PROVE Good(FlattenSeq(loads(g)))
    <3>1. \A x : Plain(Overwrite(<<"load", x>>)) BY PlainOverwrites DEF OverwrittenTables
    <3>2. \A i \in DOMAIN Subjects : Good(loads(g)[i]) BY <3>1, GoodOne
    <3> QED BY <3>2, Lists, GoodParts
  <2> HIDE DEF loads
  <2>2. \A i \in DOMAIN Grades : Good(ls[i]) BY <2>1
  <2> QED BY <2>2, Lists, GoodParts
<1> HIDE DEF rs, ls
<1> QED BY <1>1, <1>2, <1>3, GoodBoth

LEMMA GoodSchool == ASSUME NEW y PROVE Good(SeedDemoSchool(y))
<1> DEFINE Login(u) == <<Ensure(<<"user", u>>)>> \o AssignSystemRole(u)
           ms == [i \in DOMAIN Modules |-> <<Ensure(<<"module", Modules[i]>>)>>]
           ls == [i \in DOMAIN Logins |-> Login(Logins[i])]
           first == <<Ensure(<<"school", "demo">>), Ensure(<<"campus", "MAIN">>)>>
<1>1. SeedDemoSchool(y) = first \o FlattenSeq(ms) \o SeedDemoAcademicStructure(y) \o SeedDemoRoster(y)
                          \o SeedDemoAttendanceAndAssessment(y) \o SeedDemoStaff(y)
                          \o SeedDemoTimetableSetup(y) \o FlattenSeq(ls)
  BY Zenon DEF SeedDemoSchool, Each
<1>2. Good(first)
  <2>1. Plain(Ensure(<<"school", "demo">>)) /\ Plain(Ensure(<<"campus", "MAIN">>))
    BY PlainEnsures DEF PlainTables
  <2> QED BY <2>1, GoodPlains
<1>3. Good(FlattenSeq(ms))
  <2>1. \A x : Plain(Ensure(<<"module", x>>)) BY PlainEnsures DEF PlainTables
  <2>2. \A i \in DOMAIN Modules : Good(ms[i]) BY <2>1, GoodOne
  <2> QED BY <2>2, Lists, GoodParts
<1>4. Good(FlattenSeq(ls))
  <2>1. ASSUME NEW u PROVE Good(Login(u))
    <3>1. Good(<<Ensure(<<"user", u>>)>>) BY PlainEnsures, GoodOne DEF PlainTables
    <3> QED BY <3>1, GoodRoleOf, GoodBoth
  <2> HIDE DEF Login
  <2>2. \A i \in DOMAIN Logins : Good(ls[i]) BY <2>1
  <2> QED BY <2>2, Lists, GoodParts
<1> HIDE DEF first, ms, ls
<1> QED BY <1>1, <1>2, <1>3, <1>4, GoodStructure, GoodRoster, GoodAssessments, GoodStaff,
           GoodTimetable, GoodBoth

(* Whatever the lists are, the script is good, and it begins by clearing    *)
(* what is retired.                                                        *)
LEMMA GoodMain ==
  ASSUME NEW y
  PROVE  /\ Good(Main(y))
         /\ \A r \in Retired : \E i \in 1 .. Len(Main(y)) : Main(y)[i] = Clear(r)
<1> DEFINE demo == IF Production THEN <<>> ELSE SeedDemoSchool(y)
<1>1. Good(demo) BY GoodSchool, GoodNone
<1> HIDE DEF demo
<1>2. Main(y) = SeedRbac \o SeedSuperAdmin \o SeedAcademicTemplates \o demo BY Zenon DEF Main, demo
<1>3. Good(Main(y)) BY <1>1, <1>2, GoodRbac, GoodAdmin, GoodTemplates, GoodBoth
<1>4. ASSUME NEW i \in 1 .. 2
      PROVE  i \in 1 .. Len(Main(y)) /\ Main(y)[i] = SeedRbac[i] /\ i \in 1 .. Len(SeedRbac)
  <2>1. i \in 1 .. Len(SeedRbac) BY GoodRbac
  <2>2. Good(SeedRbac \o SeedSuperAdmin) BY GoodRbac, GoodAdmin, GoodBoth
  <2>3. Good(SeedRbac \o SeedSuperAdmin \o SeedAcademicTemplates) BY <2>2, GoodTemplates, GoodBoth
  <2>4. LET a == SeedRbac \o SeedSuperAdmin IN i \in 1 .. Len(a) /\ a[i] = SeedRbac[i]
    BY <2>1, GoodRbac, GoodAdmin, StaysFirst
  <2>5. LET a == SeedRbac \o SeedSuperAdmin \o SeedAcademicTemplates IN
        i \in 1 .. Len(a) /\ a[i] = SeedRbac[i]
    BY <2>2, <2>4, GoodTemplates, StaysFirst
  <2>6. i \in 1 .. Len(Main(y)) /\ Main(y)[i] = SeedRbac[i]
    BY <1>1, <1>2, <2>3, <2>5, StaysFirst
  <2> QED BY <2>1, <2>6
<1>5. 1 \in 1 .. 2 /\ 2 \in 1 .. 2 OBVIOUS
<1>6. /\ Main(y)[1] = Clear(<<"permission", "retired">>) /\ 1 \in 1 .. Len(Main(y))
      /\ Main(y)[2] = Clear(<<"role", "retired">>) /\ 2 \in 1 .. Len(Main(y))
  BY <1>4, <1>5, GoodRbac
<1> QED BY <1>3, <1>6 DEF Retired
(* What a good script may hold at a place, and what then stands beside it.  *)
EnsureAt(q, i) ==
    \E r : /\ q[i] = Ensure(r) /\ r \notin Retired /\ r[1] \notin {"guardian", "assessment"}
           /\ \A x : r = LinkOf(x) => i > 1 /\ q[i - 1] = Create(Guardian(x), LinkOf(x), 2)
OverwriteAt(q, i) ==
    \E r : q[i] = Overwrite(r) /\ r \notin Retired /\ r[1] \in OverwrittenTables
ClearAt(q, i) ==
    \E r : /\ q[i] = Clear(r)
           /\ r \in Retired \/ (r[1] = "grants" /\ i < Len(q) /\ q[i + 1] = Ensure(r))
GuardianAt(q, i) ==
    \E x : /\ q[i] = Create(Guardian(x), LinkOf(x), 2)
           /\ i < Len(q) /\ q[i + 1] = Ensure(LinkOf(x))
AssessmentAt(q, i) ==
    \E x : /\ q[i] = Create(Assessment(x), Assessment(x), 2)
           /\ i < Len(q) /\ q[i + 1] = Ensure(ScoresOf(x))
Shaped(q, i) ==
    EnsureAt(q, i) \/ OverwriteAt(q, i) \/ ClearAt(q, i) \/ GuardianAt(q, i) \/ AssessmentAt(q, i)

LEMMA Statements ==
  /\ \A r : /\ Ensure(r).op = "ensure" /\ Ensure(r).row = r /\ Ensure(r).unless = {}
            /\ Overwrite(r).op = "overwrite" /\ Overwrite(r).row = r /\ Overwrite(r).unless = {}
            /\ Clear(r).op = "clear" /\ Clear(r).row = r /\ Clear(r).unless = {}
  /\ \A r, o : /\ Create(r, o, 2).op = "create" /\ Create(r, o, 2).row = r
               /\ Create(r, o, 2).unless = {o} /\ Create(r, o, 2).skip = 2
BY DEF Ensure, Overwrite, Clear, Create, Statement

LEMMA Rows ==
  /\ \A t, x : <<t, x>>[1] = t /\ <<t, x>>[2] = x
  /\ \A x : /\ Guardian(x)[1] = "guardian" /\ Guardian(x)[2] = x
            /\ LinkOf(x)[1] = "link" /\ LinkOf(x)[2] = x
            /\ Assessment(x)[1] = "assessment" /\ Assessment(x)[2] = x
            /\ ScoresOf(x)[1] = "scores" /\ ScoresOf(x)[2] = x
  /\ \A r \in Retired : r[1] \in {"permission", "role"}
  /\ \A x, z : /\ Guardian(x) = Guardian(z) => x = z
               /\ Assessment(x) = Assessment(z) => x = z
BY DEF Guardian, LinkOf, Assessment, ScoresOf, Retired

LEMMA PlainIsShaped ==
  ASSUME NEW q, NEW i, Plain(q[i]) PROVE Shaped(q, i)
<1>1. CASE \E t \in PlainTables : \E x : q[i] = Ensure(<<t, x>>) /\ <<t, x>> \notin Retired
  <2>1. PICK t \in PlainTables : \E x : q[i] = Ensure(<<t, x>>) /\ <<t, x>> \notin Retired BY <1>1
  <2>2. PICK x : q[i] = Ensure(<<t, x>>) /\ <<t, x>> \notin Retired BY <2>1
  <2>3. PICK r : r = <<t, x>> OBVIOUS
  <2>4. r[1] = t BY <2>3, Rows
  <2>5. t \notin {"guardian", "assessment", "link"} BY DEF PlainTables
  <2>6. \A z : r # LinkOf(z) BY <2>4, <2>5, Rows
  <2>7. q[i] = Ensure(r) /\ r \notin Retired /\ r[1] \notin {"guardian", "assessment"}
    BY <2>2, <2>3, <2>4, <2>5
  <2> QED BY <2>6, <2>7 DEF Shaped, EnsureAt
<1>2. CASE \E t \in OverwrittenTables : \E x : q[i] = Overwrite(<<t, x>>)
  <2>1. PICK t \in OverwrittenTables : \E x : q[i] = Overwrite(<<t, x>>) BY <1>2
  <2>2. PICK x : q[i] = Overwrite(<<t, x>>) BY <2>1
  <2>3. PICK r : r = <<t, x>> OBVIOUS
  <2>4. r[1] = t BY <2>3, Rows
  <2>5. r \notin Retired BY <2>4, Rows DEF OverwrittenTables
  <2> QED BY <2>2, <2>3, <2>4, <2>5 DEF Shaped, OverwriteAt
<1>3. CASE \E r \in Retired : q[i] = Clear(r) BY <1>3 DEF Shaped, ClearAt
<1> QED BY <1>1, <1>2, <1>3 DEF Plain

LEMMA FirstIsShaped ==
  ASSUME NEW q, NEW i, i < Len(q), Pair(q[i], q[i + 1]) PROVE Shaped(q, i)
<1>1. CASE Filled(q[i], q[i + 1])
  <2>1. PICK x : q[i] = Clear(<<"grants", x>>) /\ q[i + 1] = Ensure(<<"grants", x>>)
    BY <1>1 DEF Filled
  <2>2. <<"grants", x>>[1] = "grants" BY Rows
  <2> QED BY <2>1, <2>2, Zenon DEF Shaped, ClearAt
<1>2. CASE Linked(q[i], q[i + 1]) BY <1>2, Zenon DEF Linked, Shaped, GuardianAt
<1>3. CASE Scored(q[i], q[i + 1]) BY <1>3, Zenon DEF Scored, Shaped, AssessmentAt
<1> QED BY <1>1, <1>2, <1>3 DEF Pair

LEMMA SecondIsShaped ==
  ASSUME NEW q, NEW i, i > 1, Pair(q[i - 1], q[i]) PROVE Shaped(q, i)
<1>1. CASE Filled(q[i - 1], q[i])
  <2>1. PICK x : q[i] = Ensure(<<"grants", x>>) BY <1>1 DEF Filled
  <2>2. PICK r : r = <<"grants", x>> OBVIOUS
  <2>3. r[1] = "grants" BY <2>2, Rows
  <2>4. r \notin Retired /\ \A z : r # LinkOf(z) BY <2>3, Rows
  <2> QED BY <2>1, <2>2, <2>3, <2>4 DEF Shaped, EnsureAt
<1>2. CASE Linked(q[i - 1], q[i])
  <2>1. PICK x : q[i - 1] = Create(Guardian(x), LinkOf(x), 2) /\ q[i] = Ensure(LinkOf(x))
    BY <1>2 DEF Linked
  <2>2. \A z : LinkOf(x) = LinkOf(z) => z = x BY Rows
  <2>3. LinkOf(x) \notin Retired /\ LinkOf(x)[1] \notin {"guardian", "assessment"} BY Rows
  <2> QED BY <2>1, <2>2, <2>3 DEF Shaped, EnsureAt
<1>3. CASE Scored(q[i - 1], q[i])
  <2>1. PICK x : q[i] = Ensure(ScoresOf(x)) BY <1>3 DEF Scored
  <2>2. /\ ScoresOf(x) \notin Retired /\ ScoresOf(x)[1] \notin {"guardian", "assessment"}
        /\ \A z : ScoresOf(x) # LinkOf(z)
    BY Rows
  <2> QED BY <2>1, <2>2 DEF Shaped, EnsureAt
<1> QED BY <1>1, <1>2, <1>3 DEF Pair

LEMMA GoodIsShaped == ASSUME NEW q, Good(q), NEW i \in 1 .. Len(q) PROVE Shaped(q, i)
BY PlainIsShaped, FirstIsShaped, SecondIsShaped DEF Good, Stands

(* After the first of two comes the second.                                 *)
LEMMA WhatFollows ==
  ASSUME NEW q, Good(q), NEW i \in 1 .. Len(q)
  PROVE  /\ q[i].op = "create" => i < Len(q) /\ \E r : q[i + 1] = Ensure(r)
         /\ \A r : q[i] = Clear(r) /\ r \notin Retired => i < Len(q) /\ q[i + 1] = Ensure(r)
<1>1. Shaped(q, i) BY GoodIsShaped
<1>2. CASE EnsureAt(q, i) BY <1>2, Statements DEF EnsureAt
<1>3. CASE OverwriteAt(q, i) BY <1>3, Statements DEF OverwriteAt
<1>4. CASE ClearAt(q, i) BY <1>4, Statements DEF ClearAt
<1>5. CASE GuardianAt(q, i) BY <1>5, Statements DEF GuardianAt
<1>6. CASE AssessmentAt(q, i) BY <1>6, Statements DEF AssessmentAt
<1> QED BY <1>1, <1>2, <1>3, <1>4, <1>5, <1>6 DEF Shaped

(* A statement that leaves a row leaves none of the retired ones.           *)
LEMMA KeepsRetired ==
  ASSUME NEW q, Good(q), NEW i \in 1 .. Len(q), q[i].op # "clear"
  PROVE  q[i].row \notin Retired
<1>1. Shaped(q, i) BY GoodIsShaped
<1>2. CASE EnsureAt(q, i) BY <1>2, Statements DEF EnsureAt
<1>3. CASE OverwriteAt(q, i) BY <1>3, Statements DEF OverwriteAt
<1>4. CASE ClearAt(q, i) BY <1>4, Statements DEF ClearAt
<1>5. CASE GuardianAt(q, i) BY <1>5, Statements, Rows DEF GuardianAt
<1>6. CASE AssessmentAt(q, i) BY <1>6, Statements, Rows DEF AssessmentAt
<1> QED BY <1>1, <1>2, <1>3, <1>4, <1>5, <1>6 DEF Shaped

-----------------------------------------------------------------------------
(* Running the script *)

Writes(r, v) == \A q : Value(q)' = IF q = r THEN v ELSE Value(q)
Same == \A q : Value(q)' = Value(q)

LEMMA PutWrites == ASSUME NEW r, NEW v, db' = Put(r, v) PROVE Writes(r, v)
<1> SUFFICES ASSUME NEW q PROVE Value(q)' = IF q = r THEN v ELSE Value(q)
  BY DEF Writes
<1> QED BY DEF Put, Value

(* What each kind of statement does.                                        *)
Ensures(r) == pc' = pc + 1 /\ Writes(r, IF Value(r) = Absent THEN Seeded ELSE Value(r))
Overwrites(r) == pc' = pc + 1 /\ Writes(r, Seeded)
Clears(r) == pc' = pc + 1 /\ Writes(r, Absent)
Creates(r, o) ==
    \/ Value(o) # Absent /\ pc' = pc + 2 /\ Same
    \/ Value(o) = Absent /\ pc' = pc + 1 /\ Writes(r, IF Value(r) = Absent THEN Seeded ELSE Twice)

LEMMA Effects ==
  ASSUME Execute
  PROVE  /\ \A r : /\ script[pc] = Ensure(r) => Ensures(r)
                   /\ script[pc] = Overwrite(r) => Overwrites(r)
                   /\ script[pc] = Clear(r) => Clears(r)
         /\ \A r, o : script[pc] = Create(r, o, 2) => Creates(r, o)
<1> DEFINE s == script[pc]
<1>1. \/ /\ \E o \in s.unless : Value(o) # Absent
         /\ pc' = pc + s.skip /\ db' = db
      \/ /\ ~ \E o \in s.unless : Value(o) # Absent
         /\ pc' = pc + 1
         /\ s.op = "ensure" => db' = IF Value(s.row) = Absent THEN Put(s.row, Seeded) ELSE db
         /\ s.op = "overwrite" => db' = Put(s.row, Seeded)
         /\ s.op = "clear" => db' = Put(s.row, Absent)
         /\ s.op = "create" => db' = Put(s.row, IF Value(s.row) = Absent THEN Seeded ELSE Twice)
  BY DEF Execute
<1> HIDE DEF s
<1>2. db' = db => Same BY DEF Same, Value
<1>3. ASSUME NEW r, s = Ensure(r) PROVE Ensures(r)
  <2>1. s.op = "ensure" /\ s.row = r /\ s.unless = {} BY <1>3, Statements
  <2>2. /\ pc' = pc + 1
        /\ db' = IF Value(r) = Absent THEN Put(r, Seeded) ELSE db
    BY <1>1, <2>1
  <2>3. CASE Value(r) = Absent BY <2>2, <2>3, PutWrites DEF Ensures
  <2>4. CASE Value(r) # Absent BY <1>2, <2>2, <2>4 DEF Ensures, Same, Writes
  <2> QED BY <2>3, <2>4
<1>4. ASSUME NEW r, s = Overwrite(r) PROVE Overwrites(r)
  <2>1. s.op = "overwrite" /\ s.row = r /\ s.unless = {} BY <1>4, Statements
  <2> QED BY <1>1, <2>1, PutWrites DEF Overwrites
<1>5. ASSUME NEW r, s = Clear(r) PROVE Clears(r)
  <2>1. s.op = "clear" /\ s.row = r /\ s.unless = {} BY <1>5, Statements
  <2> QED BY <1>1, <2>1, PutWrites DEF Clears
<1>6. ASSUME NEW r, NEW o, s = Create(r, o, 2) PROVE Creates(r, o)
  <2>1. s.op = "create" /\ s.row = r /\ s.unless = {o} /\ s.skip = 2 BY <1>6, Statements
  <2>2. CASE Value(o) # Absent BY <1>1, <1>2, <2>1, <2>2 DEF Creates
  <2>3. CASE Value(o) = Absent BY <1>1, <2>1, <2>3, PutWrites DEF Creates
  <2> QED BY <2>2, <2>3
<1> QED BY <1>3, <1>4, <1>5, <1>6 DEF s
(***************************************************************************)
(* The invariant.                                                          *)
(***************************************************************************)
(* The run goes on within one year; "done" is the year of a run that ended. *)
RunOfTheYear ==
    /\ year \in Nat \ {0} /\ done \in 0 .. year
    /\ pc \in Nat
    /\ pc = 0 => script = <<>>
    /\ pc > 0 => script = Main(year) /\ pc <= Len(script) + 1 /\ done = 0

(* Only a guardian whose link was never made is there twice.                *)
OnceOrSplit ==
    \A r : /\ Value(r) \in {Absent, Seeded, Edited, Twice}
           /\ Value(r) = Twice => \E x : r = Guardian(x) /\ LinkOf(x) \in cut

LinksHaveGuardians == \A x : Value(LinkOf(x)) # Absent => Value(Guardian(x)) # Absent

(* The run has made the first of two rows, and r is the second.             *)
Between(r) ==
    pc > 1 /\ pc \in 1 .. Len(script) /\ script[pc - 1].op = "create" /\ script[pc].row = r

(* The second row is missing only between the two statements, or for ever.  *)
PairsWhole ==
    \A x : /\ Value(Guardian(x)) # Absent /\ Value(LinkOf(x)) = Absent =>
                  LinkOf(x) \in cut \/ Between(LinkOf(x))
           /\ Value(Assessment(x)) # Absent /\ Value(ScoresOf(x)) = Absent =>
                  ScoresOf(x) \in cut \/ Between(ScoresOf(x))

(* What the statements behind the current one have left.                    *)
Emptied(r) == pc > 1 /\ script[pc - 1] = Clear(r)
Given(r) ==
    \/ Value(r) # Absent
    \/ r \in cut /\ \E x : r = ScoresOf(x)
    \/ Emptied(r)
Behind == \A j \in 1 .. Len(script) : j < pc =>
    /\ \A r : script[j].op # "clear" /\ script[j].row = r => Given(r)
    /\ \A r \in Retired : script[j] = Clear(r) => Value(r) = Absent

SeedInv ==
    /\ RunOfTheYear /\ OnceOrSplit /\ LinksHaveGuardians /\ PairsWhole /\ Behind
    /\ DoneMeansComplete /\ EditsSurvive
(* Where a running script stands.                                          *)
LEMMA Running ==
  ASSUME SeedInv, Execute
  PROVE  /\ Len(script) \in Nat /\ pc \in 1 .. Len(script) /\ Good(script)
         /\ Shaped(script, pc)
         /\ script' = script /\ year' = year /\ done' = done /\ cut' = cut /\ edits' = edits
<1>1. pc \in DOMAIN script BY DEF Execute
<1>2. pc # 0
  <2> SUFFICES ASSUME pc = 0 PROVE FALSE
    OBVIOUS
  <2>1. script = <<>> BY DEF SeedInv, RunOfTheYear
  <2> QED BY <1>1, <2>1
<1>3. Good(script) BY <1>2, GoodMain DEF SeedInv, RunOfTheYear
<1>4. Len(script) \in Nat /\ pc \in 1 .. Len(script) BY <1>1, <1>3, ListFacts DEF Good
<1>5. Shaped(script, pc) BY <1>3, <1>4, GoodIsShaped
<1> QED BY <1>3, <1>4, <1>5 DEF Execute

(* A row comes to be only at the statement about it, and goes only when     *)
(* that statement clears it.                                               *)
LEMMA ComesAndGoes ==
  ASSUME SeedInv, Execute, NEW q
  PROVE  /\ Value(q) = Absent /\ Value(q)' # Absent =>
              pc' = pc + 1 /\ script[pc].row = q /\ script[pc].op # "clear"
         /\ Value(q) # Absent /\ Value(q)' = Absent => pc' = pc + 1 /\ script[pc] = Clear(q)
<1>1. Shaped(script, pc) BY Running
<1>0. Absent # Seeded /\ Absent # Twice BY DEF Absent, Seeded, Twice
<1>2. CASE EnsureAt(script, pc)
  <2>1. PICK r : script[pc] = Ensure(r) BY <1>2 DEF EnsureAt
  <2>2. Ensures(r) BY <2>1, Effects
  <2> QED BY <1>0, <2>1, <2>2, Statements DEF Ensures, Writes
<1>3. CASE OverwriteAt(script, pc)
  <2>1. PICK r : script[pc] = Overwrite(r) BY <1>3 DEF OverwriteAt
  <2>2. Overwrites(r) BY <2>1, Effects
  <2> QED BY <1>0, <2>1, <2>2, Statements DEF Overwrites, Writes
<1>4. CASE ClearAt(script, pc)
  <2>1. PICK r : script[pc] = Clear(r) BY <1>4 DEF ClearAt
  <2>2. Clears(r) BY <2>1, Effects
  <2> QED BY <1>0, <2>1, <2>2, Statements DEF Clears, Writes
<1>5. ASSUME NEW r, NEW o, script[pc] = Create(r, o, 2)
      PROVE  /\ Value(q) = Absent /\ Value(q)' # Absent =>
                  pc' = pc + 1 /\ script[pc].row = q /\ script[pc].op # "clear"
             /\ Value(q) # Absent /\ Value(q)' = Absent => pc' = pc + 1 /\ script[pc] = Clear(q)
  <2>1. Creates(r, o) BY <1>5, Effects
  <2>2. script[pc].row = r /\ script[pc].op = "create" BY <1>5, Statements
  <2> QED BY <1>0, <2>1, <2>2 DEF Creates, Writes, Same
<1>6. CASE GuardianAt(script, pc) BY <1>5, <1>6 DEF GuardianAt
<1>7. CASE AssessmentAt(script, pc) BY <1>5, <1>7 DEF AssessmentAt
<1> QED BY <1>1, <1>2, <1>3, <1>4, <1>6, <1>7 DEF Shaped

(* No statement clears anything but a retired row or the grants of a role.  *)
LEMMA StaysThere ==
  ASSUME SeedInv, Execute, NEW q, q[1] \notin {"permission", "role", "grants"}, Value(q) # Absent
  PROVE  Value(q)' # Absent
<1> SUFFICES ASSUME Value(q)' = Absent PROVE FALSE
  OBVIOUS
<1>1. script[pc] = Clear(q) BY ComesAndGoes
<1>2. Shaped(script, pc) BY Running
<1>3. script[pc].op = "clear" /\ script[pc].row = q BY <1>1, Statements
<1>4. ClearAt(script, pc)
  <2>1. ~ EnsureAt(script, pc) BY <1>3, Statements DEF EnsureAt
  <2>2. ~ OverwriteAt(script, pc) BY <1>3, Statements DEF OverwriteAt
  <2>3. ~ GuardianAt(script, pc) BY <1>3, Statements DEF GuardianAt
  <2>4. ~ AssessmentAt(script, pc) BY <1>3, Statements DEF AssessmentAt
  <2> QED BY <1>2, <2>1, <2>2, <2>3, <2>4 DEF Shaped
<1>5. PICK r : script[pc] = Clear(r) /\ (r \in Retired \/ r[1] = "grants")
  BY <1>4 DEF ClearAt
<1>6. r = q BY <1>3, <1>5, Statements
<1> QED BY <1>5, <1>6, Rows

LEMMA ExecuteKeepsRun ==
  ASSUME SeedInv, Execute PROVE RunOfTheYear' /\ pc' > pc
<1>1. /\ Len(script) \in Nat /\ pc \in 1 .. Len(script) /\ Shaped(script, pc)
      /\ script' = script /\ year' = year /\ done' = done
  BY Running
<1>2. pc' = pc + 1 \/ (pc' = pc + 2 /\ pc < Len(script))
  <2>2. CASE EnsureAt(script, pc) BY <2>2, Effects DEF EnsureAt, Ensures
  <2>3. CASE OverwriteAt(script, pc) BY <2>3, Effects DEF OverwriteAt, Overwrites
  <2>4. CASE ClearAt(script, pc) BY <2>4, Effects DEF ClearAt, Clears
  <2>5. CASE GuardianAt(script, pc) BY <2>5, Effects DEF GuardianAt, Creates
  <2>6. CASE AssessmentAt(script, pc) BY <2>6, Effects DEF AssessmentAt, Creates
  <2> QED BY <1>1, <2>2, <2>3, <2>4, <2>5, <2>6 DEF Shaped
<1>3. /\ year \in Nat \ {0} /\ done \in 0 .. year /\ script = Main(year) /\ done = 0
  BY <1>1 DEF SeedInv, RunOfTheYear
<1>4. pc' \in Nat /\ pc' > 0 /\ pc' <= Len(script) + 1 /\ pc' > pc BY <1>1, <1>2
<1>5. script' = Main(year') BY <1>1, <1>3
<1> QED BY <1>1, <1>3, <1>4, <1>5 DEF RunOfTheYear

(* The second of two is not missing where the first is about to be made,    *)
(* unless for ever.                                                        *)
LEMMA NotBetween ==
  ASSUME SeedInv, Execute, NEW r, Between(r)
  PROVE  script[pc] = Ensure(r) /\ Value(r)' # Absent
<1>1. /\ Len(script) \in Nat /\ pc \in 1 .. Len(script) /\ Good(script) BY Running
<1>2. pc > 1 /\ script[pc - 1].op = "create" /\ script[pc].row = r BY DEF Between
<1>3. pc - 1 \in 1 .. Len(script) /\ (pc - 1) + 1 = pc BY <1>1, <1>2
<1>4. PICK e : script[pc] = Ensure(e) BY <1>1, <1>2, <1>3, WhatFollows
<1>5. e = r BY <1>2, <1>4, Statements
<1>6. Ensures(r) BY <1>4, <1>5, Effects
<1>7. Value(r)' # Absent BY <1>6 DEF Ensures, Writes, Seeded, Absent
<1> QED BY <1>4, <1>5, <1>7

LEMMA ExecuteKeepsOnce ==
  ASSUME SeedInv, Execute PROVE OnceOrSplit'
<1>1. Shaped(script, pc) /\ cut' = cut BY Running
<1>2. ASSUME NEW q
      PROVE  \/ Value(q)' = Value(q) \/ Value(q)' \in {Absent, Seeded}
             \/ Value(q)' = Twice /\ \E x : q = Guardian(x) /\ LinkOf(x) \in cut
  <2>2. CASE EnsureAt(script, pc)
    <3>1. PICK r : Ensures(r) BY <2>2, Effects DEF EnsureAt
    <3> QED BY <3>1 DEF Ensures, Writes
  <2>3. CASE OverwriteAt(script, pc)
    <3>1. PICK r : Overwrites(r) BY <2>3, Effects DEF OverwriteAt
    <3> QED BY <3>1 DEF Overwrites, Writes
  <2>4. CASE ClearAt(script, pc)
    <3>1. PICK r : Clears(r) BY <2>4, Effects DEF ClearAt
    <3> QED BY <3>1 DEF Clears, Writes
  <2>5. CASE GuardianAt(script, pc)
    <3>1. PICK x : script[pc] = Create(Guardian(x), LinkOf(x), 2) BY <2>5 DEF GuardianAt
    <3>2. Creates(Guardian(x), LinkOf(x)) BY <3>1, Effects
    <3>3. CASE Value(LinkOf(x)) # Absent BY <3>2, <3>3 DEF Creates, Same
    <3>4. CASE Value(LinkOf(x)) = Absent
      <4>1. Writes(Guardian(x), IF Value(Guardian(x)) = Absent THEN Seeded ELSE Twice)
        BY <3>2, <3>4 DEF Creates
      <4>2. ~ Between(LinkOf(x))
        <5>1. script[pc].op = "create" BY <3>1, Statements
        <5> QED BY <5>1, NotBetween, Statements
      <4>3. Value(Guardian(x)) # Absent => LinkOf(x) \in cut
        BY <3>4, <4>2 DEF SeedInv, PairsWhole
      <4>4. CASE q # Guardian(x) BY <4>1, <4>4 DEF Writes
      <4>5. CASE q = Guardian(x)
        <5>1. Value(q)' = IF Value(q) = Absent THEN Seeded ELSE Twice BY <4>1, <4>5 DEF Writes
        <5> QED BY <4>3, <4>5, <5>1
      <4> QED BY <4>4, <4>5
    <3> QED BY <3>3, <3>4
  <2>6. CASE AssessmentAt(script, pc)
    <3>1. PICK x : Creates(Assessment(x), Assessment(x)) BY <2>6, Effects DEF AssessmentAt
    <3> QED BY <3>1 DEF Creates, Writes, Same
  <2> QED BY <1>1, <2>2, <2>3, <2>4, <2>5, <2>6 DEF Shaped
<1>3. OnceOrSplit BY DEF SeedInv
<1>4. Twice \notin {Absent, Seeded} BY DEF Twice, Absent, Seeded
<1>5. ASSUME NEW r
      PROVE  /\ Value(r)' \in {Absent, Seeded, Edited, Twice}
             /\ Value(r)' = Twice => \E x : r = Guardian(x) /\ LinkOf(x) \in cut
  BY <1>2, <1>3, <1>4 DEF OnceOrSplit
<1> QED BY <1>1, <1>5 DEF OnceOrSplit, Absent, Seeded, Edited, Twice

LEMMA ExecuteKeepsLinks ==
  ASSUME SeedInv, Execute PROVE LinksHaveGuardians'
<1> SUFFICES ASSUME NEW x, Value(LinkOf(x))' # Absent PROVE Value(Guardian(x))' # Absent
  BY DEF LinksHaveGuardians, Absent
<1>1. Guardian(x)[1] = "guardian" /\ LinkOf(x)[1] = "link" BY Rows
<1>2. SUFFICES Value(Guardian(x)) # Absent
  BY <1>1, StaysThere
<1>3. CASE Value(LinkOf(x)) # Absent BY <1>3 DEF SeedInv, LinksHaveGuardians
<1>4. CASE Value(LinkOf(x)) = Absent
  <2>1. script[pc].row = LinkOf(x) /\ script[pc].op # "clear" BY <1>4, ComesAndGoes
  <2>2. /\ Len(script) \in Nat /\ pc \in 1 .. Len(script) /\ Shaped(script, pc) BY Running
  <2>3. pc > 1 /\ script[pc - 1] = Create(Guardian(x), LinkOf(x), 2)
    <3>2. CASE EnsureAt(script, pc)
      <4>1. PICK r : /\ script[pc] = Ensure(r)
                     /\ \A z : r = LinkOf(z) => /\ pc > 1
                                                /\ script[pc - 1] = Create(Guardian(z), LinkOf(z), 2)
        BY <3>2 DEF EnsureAt
      <4>2. r = LinkOf(x) BY <2>1, <4>1, Statements
      <4> QED BY <4>1, <4>2
    <3>3. ~ OverwriteAt(script, pc)
      <4>1. "link" \notin OverwrittenTables BY DEF OverwrittenTables
      <4> QED BY <1>1, <2>1, <4>1, Statements DEF OverwriteAt
    <3>4. ~ ClearAt(script, pc) BY <2>1, Statements DEF ClearAt
    <3>5. ~ GuardianAt(script, pc) BY <1>1, <2>1, Statements, Rows DEF GuardianAt
    <3>6. ~ AssessmentAt(script, pc) BY <1>1, <2>1, Statements, Rows DEF AssessmentAt
    <3> QED BY <2>2, <3>2, <3>3, <3>4, <3>5, <3>6 DEF Shaped
  <2>4. script[pc - 1].op = "create" /\ script[pc - 1].row = Guardian(x) BY <2>3, Statements
  <2>5. pc - 1 \in 1 .. Len(script) /\ pc - 1 < pc BY <2>2, <2>3
  <2>6. Given(Guardian(x)) BY <2>4, <2>5 DEF SeedInv, Behind
  <2>7. ~ Emptied(Guardian(x)) BY <2>4, Statements DEF Emptied
  <2>8. \A z : Guardian(x) # ScoresOf(z) BY Rows
  <2> QED BY <2>6, <2>7, <2>8 DEF Given
<1> QED BY <1>3, <1>4
LEMMA ExecuteKeepsPairs ==
  ASSUME SeedInv, Execute PROVE PairsWhole'
<1>1. /\ Len(script) \in Nat /\ pc \in 1 .. Len(script) /\ Shaped(script, pc)
      /\ script' = script /\ cut' = cut
  BY Running
(* A guardian or an assessment is made by the first statement of a pair,    *)
(* and the second is then the next.                                        *)
<1>2. ASSUME NEW f, f[1] \in {"guardian", "assessment"}, Value(f) = Absent, Value(f)' # Absent
      PROVE  /\ \A x : f = Guardian(x) => Between(LinkOf(x))'
             /\ \A x : f = Assessment(x) => Between(ScoresOf(x))'
  <2>1. pc' = pc + 1 /\ script[pc].row = f /\ script[pc].op # "clear" BY <1>2, ComesAndGoes
  <2>2. ~ EnsureAt(script, pc) BY <1>2, <2>1, Statements DEF EnsureAt
  <2>3. ~ OverwriteAt(script, pc)
    <3>1. f[1] \notin OverwrittenTables BY <1>2 DEF OverwrittenTables
    <3> QED BY <2>1, <3>1, Statements DEF OverwriteAt
  <2>4. ~ ClearAt(script, pc) BY <2>1, Statements DEF ClearAt
  <2>5. ASSUME NEW s, script[pc].op = "create", pc < Len(script), script[pc + 1] = Ensure(s)
        PROVE  Between(s)'
    <3>1. pc' - 1 = pc /\ pc' > 1 /\ pc' \in 1 .. Len(script) BY <1>1, <2>1, <2>5
    <3>2. script[pc'].row = s BY <2>1, <2>5, Statements
    <3> QED BY <1>1, <2>5, <3>1, <3>2 DEF Between
  <2>6. CASE GuardianAt(script, pc)
    <3>1. PICK x : /\ script[pc] = Create(Guardian(x), LinkOf(x), 2)
                   /\ pc < Len(script) /\ script[pc + 1] = Ensure(LinkOf(x))
      BY <2>6 DEF GuardianAt
    <3>2. f = Guardian(x) /\ script[pc].op = "create" BY <2>1, <3>1, Statements
    <3>3. Between(LinkOf(x))' BY <2>5, <3>1, <3>2
    <3>4. \A z : f = Guardian(z) => z = x
      <4>1. \A z : Guardian(x) = Guardian(z) => z = x BY Rows
      <4> QED BY <3>2, <4>1
    <3>5. \A z : f # Assessment(z) BY <3>2, Rows
    <3> QED BY <3>3, <3>4, <3>5
  <2>7. CASE AssessmentAt(script, pc)
    <3>1. PICK x : /\ script[pc] = Create(Assessment(x), Assessment(x), 2)
                   /\ pc < Len(script) /\ script[pc + 1] = Ensure(ScoresOf(x))
      BY <2>7 DEF AssessmentAt
    <3>2. f = Assessment(x) /\ script[pc].op = "create" BY <2>1, <3>1, Statements
    <3>3. Between(ScoresOf(x))' BY <2>5, <3>1, <3>2
    <3>4. \A z : f = Assessment(z) => z = x
      <4>1. \A z : Assessment(x) = Assessment(z) => z = x BY Rows
      <4> QED BY <3>2, <4>1
    <3>5. \A z : f # Guardian(z) BY <3>2, Rows
    <3> QED BY <3>3, <3>4, <3>5
  <2> QED BY <1>1, <2>2, <2>3, <2>4, <2>6, <2>7 DEF Shaped
(* The second is missing afterwards only if it was before, and then it was  *)
(* not its turn.                                                           *)
<1>3. ASSUME NEW s, s[1] \in {"link", "scores"}, Value(s)' = Absent
      PROVE  Value(s) = Absent /\ ~ Between(s)
  <2>1. Value(s) = Absent BY <1>3, StaysThere
  <2>2. ~ Between(s) BY <1>3, NotBetween
  <2> QED BY <2>1, <2>2
<1>4. ASSUME NEW x, Value(Guardian(x))' # Absent, Value(LinkOf(x))' = Absent
      PROVE  LinkOf(x) \in cut \/ Between(LinkOf(x))'
  <2>1. Guardian(x)[1] = "guardian" /\ LinkOf(x)[1] = "link" BY Rows
  <2>2. CASE Value(Guardian(x)) = Absent BY <1>2, <1>4, <2>1, <2>2
  <2>3. CASE Value(Guardian(x)) # Absent
    <3>1. Value(LinkOf(x)) = Absent /\ ~ Between(LinkOf(x)) BY <1>3, <1>4, <2>1
    <3> QED BY <2>3, <3>1 DEF SeedInv, PairsWhole
  <2> QED BY <2>2, <2>3
<1>5. ASSUME NEW x, Value(Assessment(x))' # Absent, Value(ScoresOf(x))' = Absent
      PROVE  ScoresOf(x) \in cut \/ Between(ScoresOf(x))'
  <2>1. Assessment(x)[1] = "assessment" /\ ScoresOf(x)[1] = "scores" BY Rows
  <2>2. CASE Value(Assessment(x)) = Absent BY <1>2, <1>5, <2>1, <2>2
  <2>3. CASE Value(Assessment(x)) # Absent
    <3>1. Value(ScoresOf(x)) = Absent /\ ~ Between(ScoresOf(x)) BY <1>3, <1>5, <2>1
    <3> QED BY <2>3, <3>1 DEF SeedInv, PairsWhole
  <2> QED BY <2>2, <2>3
<1> SUFFICES ASSUME NEW x
             PROVE  /\ Value(Guardian(x))' # Absent /\ Value(LinkOf(x))' = Absent =>
                           LinkOf(x) \in cut' \/ Between(LinkOf(x))'
                    /\ Value(Assessment(x))' # Absent /\ Value(ScoresOf(x))' = Absent =>
                           ScoresOf(x) \in cut' \/ Between(ScoresOf(x))'
  BY DEF PairsWhole, Absent
<1> QED BY <1>1, <1>4, <1>5

(* What the current statement leaves, and what it leaves of the others.     *)
LEMMA ExecuteKeepsBehind ==
  ASSUME SeedInv, Execute PROVE Behind'
<1>1. /\ Len(script) \in Nat /\ pc \in 1 .. Len(script) /\ Good(script) /\ Shaped(script, pc)
      /\ script' = script /\ cut' = cut
  BY Running
<1>2. Behind /\ LinksHaveGuardians /\ PairsWhole BY DEF SeedInv
<1>0. Absent # Seeded /\ Absent # Twice BY DEF Absent, Seeded, Twice
(* A row that was there is there, or was emptied just now.                  *)
<1>3. ASSUME NEW r, Value(r) # Absent PROVE Value(r)' # Absent \/ Emptied(r)'
  <2> SUFFICES ASSUME Value(r)' = Absent PROVE Emptied(r)'
    OBVIOUS
  <2>1. pc' = pc + 1 /\ script[pc] = Clear(r) BY <1>3, ComesAndGoes
  <2>2. pc' > 1 /\ pc' - 1 = pc BY <1>1, <2>1
  <2> QED BY <1>1, <2>1, <2>2 DEF Emptied
(* A row that was emptied before is filled now.                             *)
<1>4. ASSUME NEW r, r \notin Retired, Emptied(r) PROVE Value(r)' # Absent
  <2>1. pc > 1 /\ script[pc - 1] = Clear(r) BY <1>4 DEF Emptied
  <2>2. pc - 1 \in 1 .. Len(script) /\ (pc - 1) + 1 = pc BY <1>1, <2>1
  <2>3. script[pc] = Ensure(r) BY <1>1, <1>4, <2>1, <2>2, WhatFollows
  <2>4. Ensures(r) BY <2>3, Effects
  <2> QED BY <1>0, <2>4 DEF Ensures, Writes
<1>5. ASSUME NEW r, r \notin Retired, Given(r) PROVE Given(r)'
  <2>1. CASE Value(r) # Absent BY <1>3, <2>1 DEF Given, Absent
  <2>2. CASE r \in cut /\ \E x : r = ScoresOf(x) BY <1>1, <2>2 DEF Given
  <2>3. CASE Emptied(r) BY <1>4, <1>5, <2>3 DEF Given, Absent
  <2> QED BY <1>5, <2>1, <2>2, <2>3 DEF Given
(* The statements passed by this step.                                      *)
<1>6. ASSUME NEW j \in 1 .. Len(script), pc <= j, j < pc', script[j].op # "clear",
             NEW t, script[j].row = t
      PROVE  Given(t)'
  <2>2. CASE EnsureAt(script, pc)
    <3>1. PICK r : script[pc] = Ensure(r) /\ Ensures(r) BY <2>2, Effects DEF EnsureAt
    <3>2. j = pc BY <1>1, <1>6, <3>1 DEF Ensures
    <3>3. Value(r)' # Absent BY <1>0, <3>1 DEF Ensures, Writes
    <3>4. t = r BY <1>6, <3>1, <3>2, Statements
    <3> QED BY <3>3, <3>4 DEF Given, Absent
  <2>3. CASE OverwriteAt(script, pc)
    <3>1. PICK r : script[pc] = Overwrite(r) /\ Overwrites(r) BY <2>3, Effects DEF OverwriteAt
    <3>2. j = pc BY <1>1, <1>6, <3>1 DEF Overwrites
    <3>3. Value(r)' # Absent BY <1>0, <3>1 DEF Overwrites, Writes
    <3>4. t = r BY <1>6, <3>1, <3>2, Statements
    <3> QED BY <3>3, <3>4 DEF Given, Absent
  <2>4. CASE ClearAt(script, pc)
    <3>1. PICK r : script[pc] = Clear(r) /\ Clears(r) BY <2>4, Effects DEF ClearAt
    <3>2. j = pc BY <1>1, <1>6, <3>1 DEF Clears
    <3> QED BY <1>6, <3>1, <3>2, Statements
  <2>5. CASE GuardianAt(script, pc)
    <3>1. PICK x : /\ script[pc] = Create(Guardian(x), LinkOf(x), 2)
                   /\ script[pc + 1] = Ensure(LinkOf(x))
      BY <2>5 DEF GuardianAt
    <3>2. Creates(Guardian(x), LinkOf(x)) /\ script[pc].row = Guardian(x)
      BY <3>1, Effects, Statements
    <3>3. CASE pc' = pc + 2 /\ Same /\ Value(LinkOf(x)) # Absent
      <4>1. j = pc \/ j = pc + 1 BY <1>1, <1>6, <3>3
      <4>2. Value(LinkOf(x))' # Absent /\ Value(Guardian(x))' # Absent
        BY <1>2, <3>3 DEF LinksHaveGuardians, Same
      <4>3. script[pc + 1].row = LinkOf(x) BY <3>1, Statements
      <4>4. Given(Guardian(x))' /\ Given(LinkOf(x))' BY <4>2 DEF Given, Absent
      <4> QED BY <1>6, <3>2, <4>1, <4>3, <4>4
    <3>4. CASE pc' = pc + 1 /\ Value(Guardian(x))' # Absent
      <4>1. j = pc BY <1>1, <1>6, <3>4
      <4>2. Given(Guardian(x))' BY <3>4 DEF Given, Absent
      <4> QED BY <1>6, <3>2, <4>1, <4>2
    <3>5. Value(LinkOf(x)) = Absent => pc' = pc + 1 /\ Value(Guardian(x))' # Absent
      BY <1>0, <3>2 DEF Creates, Writes
    <3> QED BY <3>2, <3>3, <3>4, <3>5 DEF Creates
  <2>6. CASE AssessmentAt(script, pc)
    <3>1. PICK x : /\ script[pc] = Create(Assessment(x), Assessment(x), 2)
                   /\ script[pc + 1] = Ensure(ScoresOf(x))
      BY <2>6 DEF AssessmentAt
    <3>2. /\ Creates(Assessment(x), Assessment(x)) /\ script[pc].row = Assessment(x)
          /\ script[pc].op = "create"
      BY <3>1, Effects, Statements
    <3>3. CASE pc' = pc + 2 /\ Same /\ Value(Assessment(x)) # Absent
      <4>1. j = pc \/ j = pc + 1 BY <1>1, <1>6, <3>3
      <4>2. ~ Between(ScoresOf(x)) BY <3>2, NotBetween, Statements
      <4>3. Value(ScoresOf(x)) # Absent \/ ScoresOf(x) \in cut
        BY <1>2, <3>3, <4>2 DEF PairsWhole
      <4>4. Value(Assessment(x))' # Absent /\ (Value(ScoresOf(x))' # Absent \/ ScoresOf(x) \in cut')
        BY <1>1, <3>3, <4>3 DEF Same
      <4>5. script[pc + 1].row = ScoresOf(x) BY <3>1, Statements
      <4>6. Given(Assessment(x))' /\ Given(ScoresOf(x))' BY <4>4 DEF Given, Absent
      <4> QED BY <1>6, <3>2, <4>1, <4>5, <4>6
    <3>4. CASE pc' = pc + 1 /\ Value(Assessment(x))' # Absent
      <4>1. j = pc BY <1>1, <1>6, <3>4
      <4>2. Given(Assessment(x))' BY <3>4 DEF Given, Absent
      <4> QED BY <1>6, <3>2, <4>1, <4>2
    <3>5. Value(Assessment(x)) = Absent => pc' = pc + 1 /\ Value(Assessment(x))' # Absent
      BY <1>0, <3>2 DEF Creates, Writes
    <3> QED BY <3>2, <3>3, <3>4, <3>5 DEF Creates
  <2> QED BY <1>1, <2>2, <2>3, <2>4, <2>5, <2>6 DEF Shaped
<1>7. ASSUME NEW j \in 1 .. Len(script), j < pc', script[j].op # "clear",
             NEW r, script[j].row = r
      PROVE  Given(r)'
  <2>1. CASE j < pc
    <3>1. Given(r) BY <1>2, <1>7, <2>1 DEF Behind
    <3>2. r \notin Retired BY <1>1, <1>7, KeepsRetired
    <3> QED BY <1>5, <3>1, <3>2
  <2>2. CASE pc <= j BY <1>6, <1>7, <2>2
  <2> QED BY <1>1, <2>1, <2>2
(* What is retired stays away.                                              *)
<1>8. ASSUME NEW j \in 1 .. Len(script), j < pc', NEW r \in Retired, script[j] = Clear(r)
      PROVE  Value(r)' = Absent
  <2>1. CASE j < pc
    <3>1. Value(r) = Absent BY <1>2, <1>8, <2>1 DEF Behind
    <3> SUFFICES ASSUME Value(r)' # Absent PROVE FALSE
      OBVIOUS
    <3>2. script[pc].row = r /\ script[pc].op # "clear" BY <3>1, ComesAndGoes
    <3> QED BY <1>1, <3>2, KeepsRetired
  <2>2. CASE pc <= j
    <3>1. j = pc
      <4>1. script[j].op = "clear" BY <1>8, Statements
      <4>2. j # pc + 1 \/ pc' # pc + 2
        <5>2. CASE EnsureAt(script, pc)
          <6>1. pc' = pc + 1 BY <5>2, Effects DEF EnsureAt, Ensures
          <6> QED BY <1>1, <6>1
        <5>3. CASE OverwriteAt(script, pc)
          <6>1. pc' = pc + 1 BY <5>3, Effects DEF OverwriteAt, Overwrites
          <6> QED BY <1>1, <6>1
        <5>4. CASE ClearAt(script, pc)
          <6>1. pc' = pc + 1 BY <5>4, Effects DEF ClearAt, Clears
          <6> QED BY <1>1, <6>1
        <5>5. CASE GuardianAt(script, pc) BY <4>1, <5>5, Statements DEF GuardianAt
        <5>6. CASE AssessmentAt(script, pc) BY <4>1, <5>6, Statements DEF AssessmentAt
        <5> QED BY <1>1, <5>2, <5>3, <5>4, <5>5, <5>6 DEF Shaped
      <4>3. pc' = pc + 1 \/ pc' = pc + 2
        <5>2. CASE EnsureAt(script, pc) BY <5>2, Effects DEF EnsureAt, Ensures
        <5>3. CASE OverwriteAt(script, pc) BY <5>3, Effects DEF OverwriteAt, Overwrites
        <5>4. CASE ClearAt(script, pc) BY <5>4, Effects DEF ClearAt, Clears
        <5>5. CASE GuardianAt(script, pc) BY <5>5, Effects DEF GuardianAt, Creates
        <5>6. CASE AssessmentAt(script, pc) BY <5>6, Effects DEF AssessmentAt, Creates
        <5> QED BY <1>1, <5>2, <5>3, <5>4, <5>5, <5>6 DEF Shaped
      <4> QED BY <1>1, <1>8, <2>2, <4>2, <4>3
    <3>2. Clears(r) BY <1>8, <3>1, Effects
    <3> QED BY <3>2 DEF Clears, Writes
  <2> QED BY <1>1, <2>1, <2>2
<1>9. ASSUME NEW j \in 1 .. Len(script'), j < pc'
      PROVE  /\ \A r : script'[j].op # "clear" /\ script'[j].row = r => Given(r)'
             /\ \A r \in Retired : script'[j] = Clear(r) => Value(r)' = Absent
  BY <1>1, <1>7, <1>8, <1>9
<1> QED BY <1>9 DEF Behind, Absent, Retired, Clear, Statement
LEMMA ExecuteKeepsEdits ==
  ASSUME SeedInv, Execute PROVE EditsSurvive'
<1>1. Shaped(script, pc) /\ edits' = edits BY Running
<1>2. ASSUME NEW r \in edits, r[1] \notin Resynced, r \notin Retired
      PROVE  Value(r)' \in {Edited, Twice}
  <2>1. Value(r) \in {Edited, Twice} BY <1>2 DEF SeedInv, EditsSurvive
  <2>0. Value(r) # Absent BY <2>1 DEF Edited, Twice, Absent
  <2>2. CASE EnsureAt(script, pc)
    <3>1. PICK q : Ensures(q) BY <2>2, Effects DEF EnsureAt
    <3> QED BY <2>0, <2>1, <3>1 DEF Ensures, Writes
  <2>3. CASE OverwriteAt(script, pc)
    <3>1. PICK q : Overwrites(q) /\ q[1] \in OverwrittenTables BY <2>3, Effects DEF OverwriteAt
    <3>2. q # r BY <1>2, <3>1 DEF OverwrittenTables, Resynced
    <3> QED BY <2>1, <3>1, <3>2 DEF Overwrites, Writes
  <2>4. CASE ClearAt(script, pc)
    <3>1. PICK q : Clears(q) /\ (q \in Retired \/ q[1] = "grants") BY <2>4, Effects DEF ClearAt
    <3>2. q # r BY <1>2, <3>1 DEF Resynced
    <3> QED BY <2>1, <3>1, <3>2 DEF Clears, Writes
  <2>5. ASSUME NEW q, NEW o, Creates(q, o) PROVE Value(r)' \in {Edited, Twice}
    BY <2>0, <2>1, <2>5 DEF Creates, Writes, Same
  <2>6. CASE GuardianAt(script, pc) BY <2>5, <2>6, Effects DEF GuardianAt
  <2>7. CASE AssessmentAt(script, pc) BY <2>5, <2>7, Effects DEF AssessmentAt
  <2> QED BY <1>1, <2>2, <2>3, <2>4, <2>6, <2>7 DEF Shaped
<1> QED BY <1>1, <1>2 DEF EditsSurvive, Resynced, Retired, Edited, Twice

(* What a finished run owes of a row.                                       *)
Complete(r) ==
    \/ r \in cut /\ r[1] = "scores"
    \/ r[1] = "guardian" /\ <<"link", r[2]>> \in cut /\ Value(r) # Absent
    \/ Value(r) \in {Seeded, Edited}

LEMMA CompleteIsDone ==
  DoneMeansComplete <=>
    (done = year /\ pc = 0 =>
       /\ \A r \in Fixture(year) : Complete(r)
       /\ \A r \in Retired : Value(r) = Absent)
<1>1. ASSUME NEW r
      PROVE  Complete(r) <=> CASE r \in cut /\ r[1] = "scores" -> TRUE
                               [] r[1] = "guardian" /\ <<"link", r[2]>> \in cut -> Value(r) # Absent
                               [] OTHER -> Value(r) \in {Seeded, Edited}
  <2>1. Absent \notin {Seeded, Edited} BY DEF Absent, Seeded, Edited
  <2>2. CASE r \in cut /\ r[1] = "scores" BY <2>2 DEF Complete
  <2>3. CASE r[1] = "guardian" /\ <<"link", r[2]>> \in cut
    <3>1. r[1] # "scores" BY <2>3
    <3> QED BY <2>1, <2>3, <3>1 DEF Complete
  <2>4. CASE ~ (r \in cut /\ r[1] = "scores") /\ ~ (r[1] = "guardian" /\ <<"link", r[2]>> \in cut)
    BY <2>4 DEF Complete
  <2> QED BY <2>2, <2>3, <2>4
<1> QED BY <1>1, Zenon DEF DoneMeansComplete

LEMMA ExecuteKeeps == ASSUME SeedInv, Execute PROVE SeedInv'
<1>1. DoneMeansComplete'
  <2>1. pc \in Nat /\ pc' \in Nat /\ pc' > pc
    BY ExecuteKeepsRun DEF SeedInv, RunOfTheYear
  <2>2. pc' # 0 BY <2>1
  <2> QED BY <2>2 DEF DoneMeansComplete
<1> QED BY <1>1, ExecuteKeepsRun, ExecuteKeepsOnce, ExecuteKeepsLinks, ExecuteKeepsPairs,
           ExecuteKeepsBehind, ExecuteKeepsEdits DEF SeedInv

(* The other actions.                                                      *)
LEMMA NothingBehind ==
  ASSUME pc = 0 \/ pc = 1
  PROVE  (\A r : ~ Between(r)) /\ Behind
<1>1. \A r : ~ Between(r) BY DEF Between
<1>2. ASSUME NEW j \in 1 .. Len(script), j < pc PROVE FALSE BY <1>2
<1> QED BY <1>1, <1>2 DEF Behind

LEMMA SameRows ==
  ASSUME SeedInv, db' = db, cut' = cut, edits' = edits
  PROVE  /\ Same /\ OnceOrSplit' /\ LinksHaveGuardians' /\ EditsSurvive'
<1>1. Same BY DEF Same, Value
<1>2. OnceOrSplit' BY <1>1 DEF SeedInv, OnceOrSplit, Same, Absent, Seeded, Edited, Twice
<1>3. LinksHaveGuardians' BY <1>1 DEF SeedInv, LinksHaveGuardians, Same, Absent
<1>4. EditsSurvive' BY <1>1 DEF SeedInv, EditsSurvive, Same, Edited, Twice, Resynced, Retired
<1> QED BY <1>1, <1>2, <1>3, <1>4

(* Between runs a missing second row is missing for ever.                   *)
LEMMA SamePairs ==
  ASSUME SeedInv, Same, cut' = cut, \A r : ~ Between(r)
  PROVE  PairsWhole'
<1>1. ASSUME NEW x
      PROVE  /\ Value(Guardian(x))' # Absent /\ Value(LinkOf(x))' = Absent => LinkOf(x) \in cut'
             /\ Value(Assessment(x))' # Absent /\ Value(ScoresOf(x))' = Absent => ScoresOf(x) \in cut'
  BY DEF SeedInv, PairsWhole, Same
<1> QED BY <1>1 DEF PairsWhole, Absent

LEMMA StartKeeps == ASSUME SeedInv, Start PROVE SeedInv'
<1>1. /\ pc = 0 /\ pc' = 1 /\ script' = Main(year) /\ done' = 0
      /\ db' = db /\ year' = year /\ cut' = cut /\ edits' = edits
  BY DEF Start
<1>2. Len(Main(year)) \in Nat BY GoodMain, ListFacts DEF Good
<1>3. RunOfTheYear' BY <1>1, <1>2 DEF SeedInv, RunOfTheYear
<1>4. Same /\ OnceOrSplit' /\ LinksHaveGuardians' /\ EditsSurvive' BY <1>1, SameRows
<1>5. PairsWhole' BY <1>1, <1>4, NothingBehind, SamePairs
<1>6. Behind'
  <2>1. ASSUME NEW j \in 1 .. Len(script'), j < pc' PROVE FALSE BY <1>1, <1>2, <2>1
  <2> QED BY <2>1 DEF Behind
<1>7. DoneMeansComplete' BY <1>1 DEF DoneMeansComplete
<1> QED BY <1>3, <1>4, <1>5, <1>6, <1>7 DEF SeedInv

LEMMA NewYearKeeps == ASSUME SeedInv, NewYear PROVE SeedInv'
<1>1. /\ pc = 0 /\ pc' = 0 /\ script' = script /\ done' = done
      /\ db' = db /\ year' = year + 1 /\ cut' = cut /\ edits' = edits
  BY DEF NewYear
<1>3. RunOfTheYear' /\ done' # year' BY <1>1 DEF SeedInv, RunOfTheYear
<1>4. Same /\ OnceOrSplit' /\ LinksHaveGuardians' /\ EditsSurvive' BY <1>1, SameRows
<1>5. PairsWhole' BY <1>1, <1>4, NothingBehind, SamePairs
<1>6. Behind'
  <2>1. ASSUME NEW j \in 1 .. Len(script'), j < pc' PROVE FALSE BY <1>1, <2>1
  <2> QED BY <2>1 DEF Behind
<1>7. DoneMeansComplete' BY <1>3 DEF DoneMeansComplete
<1> QED BY <1>3, <1>4, <1>5, <1>6, <1>7 DEF SeedInv

(* A run that ends has every statement behind it.                           *)
LEMMA FinishKeeps == ASSUME SeedInv, Finish PROVE SeedInv'
<1>1. /\ pc > Len(script) /\ pc > 0 /\ pc' = 0 /\ script' = <<>> /\ done' = year
      /\ db' = db /\ year' = year /\ cut' = cut /\ edits' = edits
  BY DEF Finish
<1>2. script = Main(year) /\ pc \in Nat /\ pc <= Len(script) + 1 /\ year \in Nat \ {0}
  BY <1>1 DEF SeedInv, RunOfTheYear
<1>3. Good(script) /\ Len(script) \in Nat BY <1>2, GoodMain, ListFacts DEF Good
<1>4. pc = Len(script) + 1 BY <1>1, <1>2, <1>3
<1>5. Same /\ OnceOrSplit' /\ LinksHaveGuardians' /\ EditsSurvive' BY <1>1, SameRows
<1>6. PairsWhole'
  <2>1. \A r : ~ Between(r) BY <1>3, <1>4 DEF Between
  <2> QED BY <1>1, <1>5, <2>1, SamePairs
<1>7. Behind'
  <2>1. ASSUME NEW j \in 1 .. Len(script'), j < pc' PROVE FALSE BY <1>1, <2>1
  <2> QED BY <2>1 DEF Behind
<1>8. RunOfTheYear' BY <1>1, <1>2 DEF RunOfTheYear
<1>9. ASSUME NEW r \in Fixture(year) PROVE Complete(r)
  <2>1. PICK i \in DOMAIN script : script[i].op # "clear" /\ script[i].row = r
    BY <1>2 DEF Fixture
  <2>2. i \in 1 .. Len(script) /\ i < pc BY <1>3, <1>4, ListFacts DEF Good
  <2>3. Given(r) BY <2>1, <2>2 DEF SeedInv, Behind
  <2>4. r \notin Retired BY <1>3, <2>1, <2>2, KeepsRetired
  <2>5. ~ Emptied(r)
    <3> SUFFICES ASSUME Emptied(r) PROVE FALSE
      OBVIOUS
    <3>1. pc > 1 /\ script[pc - 1] = Clear(r) BY DEF Emptied
    <3>2. pc - 1 = Len(script) /\ pc - 1 \in 1 .. Len(script) BY <1>3, <1>4, <3>1
    <3>3. pc - 1 < Len(script) BY <1>3, <2>4, <3>1, <3>2, WhatFollows
    <3> QED BY <1>3, <3>2, <3>3
  <2>6. CASE r \in cut /\ \E x : r = ScoresOf(x) BY <2>6, Rows DEF Complete
  <2>7. CASE Value(r) # Absent
    <3>1. CASE Value(r) = Twice
      <4>1. PICK x : r = Guardian(x) /\ LinkOf(x) \in cut BY <3>1 DEF SeedInv, OnceOrSplit
      <4>2. r[1] = "guardian" /\ r[2] = x BY <4>1, Rows
      <4>3. <<"link", r[2]>> \in cut BY <4>1, <4>2 DEF LinkOf
      <4> QED BY <2>7, <4>2, <4>3 DEF Complete
    <3>2. CASE Value(r) # Twice
      <4>1. Value(r) \in {Absent, Seeded, Edited, Twice} BY DEF SeedInv, OnceOrSplit
      <4> QED BY <2>7, <3>2, <4>1 DEF Complete
    <3> QED BY <3>1, <3>2
  <2> QED BY <2>3, <2>5, <2>6, <2>7 DEF Given
<1>10. ASSUME NEW r \in Retired PROVE Value(r) = Absent
  <2>1. PICK i \in 1 .. Len(script) : script[i] = Clear(r) BY <1>2, GoodMain
  <2>2. i < pc BY <1>3, <1>4
  <2> QED BY <2>1, <2>2 DEF SeedInv, Behind
<1>11. DoneMeansComplete'
  <2>1. ASSUME NEW r \in Fixture(year) PROVE Complete(r)'
    <3>1. Complete(r) BY <2>1, <1>9
    <3> QED BY <1>1, <1>5, <3>1 DEF Complete, Same, Absent, Seeded, Edited
  <2>2. \A r \in Retired : Value(r)' = Absent BY <1>5, <1>10 DEF Same
  <2>3. (DoneMeansComplete <=>
           (done = year /\ pc = 0 =>
              /\ \A r \in Fixture(year) : Complete(r)
              /\ \A r \in Retired : Value(r) = Absent))'
    BY CompleteIsDone, PTL
  <2>4. Fixture(year)' = Fixture(year) BY <1>1
  <2> QED BY <2>1, <2>2, <2>3, <2>4 DEF Absent, Retired
<1> QED BY <1>5, <1>6, <1>7, <1>8, <1>11 DEF SeedInv
(* A death between the two statements of a pair cuts it.                    *)
LEMMA DieKeeps == ASSUME SeedInv, Die PROVE SeedInv'
<1>1. /\ pc \in DOMAIN script /\ pc' = 0 /\ script' = <<>>
      /\ cut' = IF pc > 1 /\ script[pc - 1].op = "create" /\ Value(script[pc].row) = Absent
                THEN cut \cup {script[pc].row} ELSE cut
      /\ done' = done /\ db' = db /\ year' = year /\ edits' = edits
  BY DEF Die
<1>2. pc # 0
  <2> SUFFICES ASSUME pc = 0 PROVE FALSE
    OBVIOUS
  <2>1. script = <<>> BY DEF SeedInv, RunOfTheYear
  <2> QED BY <1>1, <2>1
<1>3. done = 0 /\ year \in Nat \ {0} BY <1>2 DEF SeedInv, RunOfTheYear
<1>4. RunOfTheYear' BY <1>1, <1>3 DEF RunOfTheYear
<1>5. Same BY <1>1 DEF Same, Value
<1>6. cut \subseteq cut' BY <1>1
<1>7. OnceOrSplit'
  BY <1>5, <1>6 DEF SeedInv, OnceOrSplit, Same, Absent, Seeded, Edited, Twice
<1>8. LinksHaveGuardians' BY <1>5 DEF SeedInv, LinksHaveGuardians, Same, Absent
<1>9. EditsSurvive' BY <1>1, <1>5 DEF SeedInv, EditsSurvive, Same, Edited, Twice, Resynced, Retired
<1>10. PairsWhole'
  <2>1. ASSUME NEW s, Value(s) = Absent, s \in cut \/ Between(s) PROVE s \in cut'
    <3>1. CASE s \in cut BY <1>6, <3>1
    <3>2. CASE Between(s)
      <4>1. pc > 1 /\ script[pc - 1].op = "create" /\ script[pc].row = s BY <3>2 DEF Between
      <4> QED BY <1>1, <2>1, <4>1
    <3> QED BY <2>1, <3>1, <3>2
  <2>2. ASSUME NEW x
        PROVE  /\ Value(Guardian(x))' # Absent /\ Value(LinkOf(x))' = Absent => LinkOf(x) \in cut'
               /\ Value(Assessment(x))' # Absent /\ Value(ScoresOf(x))' = Absent => ScoresOf(x) \in cut'
    BY <1>5, <2>1 DEF SeedInv, PairsWhole, Same
  <2> QED BY <2>2 DEF PairsWhole, Absent
<1>11. Behind'
  <2>1. ASSUME NEW j \in 1 .. Len(script'), j < pc' PROVE FALSE BY <1>1, <2>1
  <2> QED BY <2>1 DEF Behind
<1>12. DoneMeansComplete'
  <2>1. done' # year' BY <1>1, <1>3
  <2> QED BY <2>1 DEF DoneMeansComplete
<1> QED BY <1>4, <1>7, <1>8, <1>9, <1>10, <1>11, <1>12 DEF SeedInv

LEMMA EditKeeps == ASSUME SeedInv, NEW e, EditRow(e) PROVE SeedInv'
<1>1. /\ Value(e) = Seeded /\ db' = Put(e, Edited) /\ edits' = edits \cup {e}
      /\ year' = year /\ pc' = pc /\ script' = script /\ done' = done /\ cut' = cut
  BY DEF EditRow
<1>2. Writes(e, Edited) BY <1>1, PutWrites
<1>3. ASSUME NEW r
      PROVE  /\ Value(r)' = Absent <=> Value(r) = Absent
             /\ Value(r)' = Twice <=> Value(r) = Twice
             /\ Value(r)' \in {Edited, Value(r)}
             /\ Value(r) \in {Edited, Twice} => Value(r)' = Value(r)
  BY <1>1, <1>2 DEF Writes, Absent, Seeded, Edited, Twice
<1>4. RunOfTheYear' BY <1>1 DEF SeedInv, RunOfTheYear
<1>5. OnceOrSplit'
  <2>1. ASSUME NEW r
        PROVE  /\ Value(r)' \in {Absent, Seeded, Edited, Twice}
               /\ Value(r)' = Twice => \E x : r = Guardian(x) /\ LinkOf(x) \in cut'
    BY <1>1, <1>3 DEF SeedInv, OnceOrSplit
  <2> QED BY <2>1 DEF OnceOrSplit, Absent, Seeded, Edited, Twice
<1>6. LinksHaveGuardians' BY <1>3 DEF SeedInv, LinksHaveGuardians, Absent
<1>7. PairsWhole'
  <2>1. \A s : Between(s)' <=> Between(s) BY <1>1 DEF Between
  <2>2. ASSUME NEW x
        PROVE  /\ Value(Guardian(x))' # Absent /\ Value(LinkOf(x))' = Absent =>
                      LinkOf(x) \in cut' \/ Between(LinkOf(x))'
               /\ Value(Assessment(x))' # Absent /\ Value(ScoresOf(x))' = Absent =>
                      ScoresOf(x) \in cut' \/ Between(ScoresOf(x))'
    BY <1>1, <1>3, <2>1 DEF SeedInv, PairsWhole
  <2> QED BY <2>2 DEF PairsWhole, Absent
<1>8. Behind'
  <2>1. \A r : Given(r) => Given(r)'
    <3>1. \A r : Emptied(r)' <=> Emptied(r) BY <1>1 DEF Emptied
    <3> QED BY <1>1, <1>3, <3>1 DEF Given, Absent
  <2>2. ASSUME NEW j \in 1 .. Len(script), j < pc
        PROVE  /\ \A r : script[j].op # "clear" /\ script[j].row = r => Given(r)'
               /\ \A r \in Retired : script[j] = Clear(r) => Value(r)' = Absent
    BY <1>3, <2>1, <2>2 DEF SeedInv, Behind
  <2> QED BY <1>1, <2>2 DEF Behind, Absent, Retired, Clear, Statement
<1>9. DoneMeansComplete'
  <2> SUFFICES ASSUME done = year, pc = 0
               PROVE  /\ \A r \in Fixture(year) : Complete(r)'
                      /\ \A r \in Retired : Value(r)' = Absent
    <3>1. (DoneMeansComplete <=>
             (done = year /\ pc = 0 =>
                /\ \A r \in Fixture(year) : Complete(r)
                /\ \A r \in Retired : Value(r) = Absent))'
      BY CompleteIsDone, PTL
    <3>2. Fixture(year)' = Fixture(year) BY <1>1
    <3> QED BY <1>1, <3>1, <3>2 DEF Absent, Retired
  <2>1. /\ \A r \in Fixture(year) : Complete(r)
        /\ \A r \in Retired : Value(r) = Absent
    BY CompleteIsDone DEF SeedInv
  <2>2. ASSUME NEW r, Complete(r) PROVE Complete(r)'
    BY <1>1, <1>3, <2>2 DEF Complete, Absent, Seeded, Edited
  <2> QED BY <1>3, <2>1, <2>2
<1>10. EditsSurvive'
  <2>1. ASSUME NEW r \in edits', r[1] \notin Resynced, r \notin Retired
        PROVE  Value(r)' \in {Edited, Twice}
    <3>1. CASE r = e BY <1>2, <3>1 DEF Writes
    <3>2. CASE r # e
      <4>1. Value(r) \in {Edited, Twice} BY <1>1, <2>1, <3>2 DEF SeedInv, EditsSurvive
      <4> QED BY <1>3, <4>1
    <3> QED BY <3>1, <3>2
  <2> QED BY <2>1 DEF EditsSurvive, Resynced, Retired, Edited, Twice
<1> QED BY <1>4, <1>5, <1>6, <1>7, <1>8, <1>9, <1>10 DEF SeedInv

LEMMA StutterKeeps == ASSUME SeedInv, UNCHANGED vars PROVE SeedInv'
BY DEF vars, SeedInv, RunOfTheYear, OnceOrSplit, LinksHaveGuardians, PairsWhole, Between, Behind,
       Given, Emptied, DoneMeansComplete, EditsSurvive, Value

LEMMA InitHolds == ASSUME Init PROVE SeedInv
<1>1. /\ db = [r \in Retired |-> Seeded] /\ year = 1 /\ pc = 0 /\ script = <<>> /\ done = 0
      /\ cut = {} /\ edits = {}
  BY DEF Init
<1>2. \A r : Value(r) = IF r \in Retired THEN Seeded ELSE Absent BY <1>1 DEF Value
<1>3. RunOfTheYear BY <1>1 DEF RunOfTheYear
<1>4. OnceOrSplit BY <1>2 DEF OnceOrSplit, Absent, Seeded, Edited, Twice
<1>5. \A x : /\ LinkOf(x) \notin Retired /\ Guardian(x) \notin Retired
             /\ Assessment(x) \notin Retired /\ ScoresOf(x) \notin Retired
  BY Rows
<1>6. LinksHaveGuardians BY <1>2, <1>5 DEF LinksHaveGuardians
<1>7. PairsWhole BY <1>2, <1>5 DEF PairsWhole
<1>8. Behind BY <1>1, NothingBehind
<1>9. DoneMeansComplete BY <1>1 DEF DoneMeansComplete
<1>10. EditsSurvive BY <1>1 DEF EditsSurvive
<1> QED BY <1>3, <1>4, <1>6, <1>7, <1>8, <1>9, <1>10 DEF SeedInv

-----------------------------------------------------------------------------
(* The theorems *)

(* Whatever the lists, however often the script dies and starts again and   *)
(* whatever the school edits meanwhile, the invariant holds in every state. *)
THEOREM SeedInvariant == Spec => []SeedInv
<1>1. Init => SeedInv BY InitHolds
<1>2. SeedInv /\ [Next]_vars => SeedInv'
  <2> SUFFICES ASSUME SeedInv, [Next]_vars PROVE SeedInv'
    OBVIOUS
  <2>1. CASE Start BY <2>1, StartKeeps
  <2>2. CASE Execute BY <2>2, ExecuteKeeps
  <2>3. CASE Finish BY <2>3, FinishKeeps
  <2>4. CASE Die BY <2>4, DieKeeps
  <2>5. CASE NewYear BY <2>5, NewYearKeeps
  <2>6. CASE \E r \in DOMAIN db : EditRow(r) BY <2>6, EditKeeps
  <2>7. CASE UNCHANGED vars BY <2>7, StutterKeeps
  <2> QED BY <2>1, <2>2, <2>3, <2>4, <2>5, <2>6, <2>7 DEF Next
<1> QED BY <1>1, <1>2, PTL DEF Spec

(* A script that ran to its end has left every row of the fixture exactly   *)
(* once and no retired one, but for the pairs of statements some earlier    *)
(* death has split (seed.ts: "Idempotent: safe to re-run").                 *)
THEOREM SeedCompletes == Spec => []DoneMeansComplete
<1>1. SeedInv => DoneMeansComplete BY DEF SeedInv
<1> QED BY <1>1, SeedInvariant, PTL

(* What the school edited survives every statement of every run, except the *)
(* four things each run sets anew and the retired rows.                     *)
THEOREM SeedKeepsEdits == Spec => []EditsSurvive
<1>1. SeedInv => EditsSurvive BY DEF SeedInv
<1> QED BY <1>1, SeedInvariant, PTL

(* A step that takes away the permissions of a role is the statement that   *)
(* clears that very role, and the next statement fills it again: seedRbac   *)
(* syncs one role after the other.                                         *)
THEOREM SeedKeepsRoles == Spec => RolesKeepPermissions
<1> DEFINE Kept == \A i \in DOMAIN Roles : LET g == <<"grants", Roles[i]>> IN
                     (Value(g) # Absent /\ Value(g)' = Absent) => /\ pc \in DOMAIN script /\ script[pc].row = g
                                                                   /\ script'[pc'] = Ensure(g)
           g(i) == <<"grants", Roles[i]>>
<1>1. ASSUME SeedInv, Next PROVE Kept
  <2> SUFFICES ASSUME NEW i \in DOMAIN Roles, Value(g(i)) # Absent, Value(g(i))' = Absent
               PROVE  /\ pc \in DOMAIN script /\ script[pc].row = g(i)
                      /\ script'[pc'] = Ensure(g(i))
    OBVIOUS
  <2>1. PICK r : r = g(i) OBVIOUS
  <2>2. r[1] = "grants" /\ Value(r) # Absent /\ Value(r)' = Absent BY <2>1, Rows
  <2> HIDE DEF g
  <2>3. CASE Execute
    <3>1. pc' = pc + 1 /\ script[pc] = Clear(r) BY <1>1, <2>2, <2>3, ComesAndGoes
    <3>2. r \notin Retired BY <2>2, Rows
    <3>3. Good(script) /\ pc \in 1 .. Len(script) /\ script' = script BY <1>1, <2>3, Running
    <3>4. script[pc + 1] = Ensure(r) BY <3>1, <3>2, <3>3, WhatFollows
    <3>5. pc \in DOMAIN script BY <2>3 DEF Execute
    <3>6. script[pc].row = r BY <3>1, Statements
    <3> QED BY <2>1, <3>1, <3>3, <3>4, <3>5, <3>6
  <2>4. CASE \E e \in DOMAIN db : EditRow(e)
    <3>1. PICK e : EditRow(e) BY <2>4
    <3>2. Writes(e, Edited) BY <3>1, PutWrites DEF EditRow
    <3> QED BY <2>2, <3>2 DEF Writes, Edited, Absent
  <2>5. CASE Start \/ Finish \/ Die \/ NewYear
    <3>1. db' = db BY <2>5 DEF Start, Finish, Die, NewYear
    <3> QED BY <2>2, <3>1 DEF Value
  <2> QED BY <1>1, <2>3, <2>4, <2>5 DEF Next
<1>2. SeedInv /\ [Next]_vars => [Kept]_vars BY <1>1
<1>3. [][Kept]_vars => RolesKeepPermissions BY DEF RolesKeepPermissions
<1> HIDE DEF Kept
<1> QED BY <1>2, <1>3, SeedInvariant, PTL DEF Spec
=============================================================================
