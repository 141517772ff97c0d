------------------------------ MODULE FoldLemmas ------------------------------
(***************************************************************************)
(* Induction, and what it gives for the folds the models use.              *)
(*                                                                         *)
(* An induction here is an argument about a smallest counterexample: the   *)
(* library's WFMin says that a set of them has a minimal element, and that *)
(* is all a proof needs.  A recursive function is a CHOOSE; that there is  *)
(* one to choose is proved level by level.                                 *)
(***************************************************************************)
EXTENDS Integers, Functions, FiniteSetTheorems, WellFoundedInduction, TLAPS

(* A set of naturals has a least element. *)
LEMMA LeastNatural ==
  ASSUME NEW T \in SUBSET Nat, T # {}
  PROVE  \E n \in T : \A m \in T : n <= m
<1>1. PICK n \in T : \A m \in T : ~ (<<m, n>> \in OpToRel(<, Nat))
  BY NatLessThanWellFounded, WFMin
<1>2. \A m \in T : ~ (m < n) BY <1>1 DEF OpToRel
<1> QED BY <1>2

(* Induction over the naturals, said of a set. *)
LEMMA AllNaturals ==
  ASSUME NEW T, 0 \in T, \A n \in Nat : n \in T => n + 1 \in T
  PROVE  \A n \in Nat : n \in T
<1> SUFFICES ASSUME Nat \ T # {} PROVE FALSE OBVIOUS
<1>1. PICK n \in Nat \ T : \A m \in Nat \ T : n <= m BY LeastNatural
<1>2. n # 0 /\ n - 1 \in Nat BY <1>1
<1>3. n - 1 \in T BY <1>1, <1>2
<1> QED BY <1>1, <1>2, <1>3

(* Induction over the subsets of a finite set: a family of them is all of  *)
(* them if it has every set whose smaller subsets it has.                  *)
LEMMA AllSubsets ==
  ASSUME NEW S, IsFiniteSet(S), NEW F,
         \A A \in SUBSET S : (\A B \in SUBSET A : B # A => B \in F) => A \in F
  PROVE  \A A \in SUBSET S : A \in F
<1> DEFINE sizes == {n \in Nat : \E A \in SUBSET S : A \notin F /\ Cardinality(A) = n}
<1>0. \A A \in SUBSET S : IsFiniteSet(A) /\ Cardinality(A) \in Nat
  BY FS_Subset, FS_CardinalityType
<1> SUFFICES ASSUME NEW X \in SUBSET S, X \notin F PROVE FALSE OBVIOUS
<1>1. Cardinality(X) \in sizes BY <1>0
<1>2. PICK n \in sizes : \A m \in sizes : n <= m BY <1>1, LeastNatural
<1>3. PICK A \in SUBSET S : A \notin F /\ Cardinality(A) = n BY <1>2
<1>4. ASSUME NEW B \in SUBSET A, B # A PROVE B \in F
  <2>1. Cardinality(B) <= n /\ Cardinality(B) # n BY <1>0, <1>3, <1>4, FS_Subset
  <2>2. Cardinality(B) \notin sizes BY <1>2, <2>1, <1>0
  <2> QED BY <2>2, <1>0
<1> QED BY <1>3, <1>4

(* A function on a finite set takes its minimum. *)
LEMMA FiniteMinimum ==
  ASSUME NEW S, IsFiniteSet(S), S # {}, NEW f, \A x \in S : f[x] \in Int
  PROVE  \E x \in S : \A y \in S : f[x] <= f[y]
<1> DEFINE F == {A \in SUBSET S : A # {} => \E x \in A : \A y \in A : f[x] <= f[y]}
<1>1. ASSUME NEW A \in SUBSET S, \A B \in SUBSET A : B # A => B \in F PROVE A \in F
  <2> SUFFICES ASSUME A # {} PROVE \E x \in A : \A y \in A : f[x] <= f[y] OBVIOUS
  <2>1. PICK x \in A : TRUE OBVIOUS
  <2>2. A \ {x} \in F BY <1>1, <2>1
  <2>3. CASE A = {x} BY <2>3
  <2>4. CASE A # {x}
    <3>1. PICK z \in A \ {x} : \A y \in A \ {x} : f[z] <= f[y] BY <2>1, <2>2, <2>4
    <3>2. CASE f[x] <= f[z] BY <3>1, <3>2, <2>1
    <3>3. CASE f[z] < f[x] BY <3>1, <3>3, <2>1
    <3> QED BY <3>1, <3>2, <3>3, <2>1
  <2> QED BY <2>3, <2>4
<1> HIDE DEF F
<1>2. S \in F BY <1>1, AllSubsets
<1> QED BY <1>2 DEF F

(* The image of a finite set is finite. *)
LEMMA FiniteImage ==
  ASSUME NEW f, IsFiniteSet(DOMAIN f), f = [x \in DOMAIN f |-> f[x]]
  PROVE  IsFiniteSet({f[x] : x \in DOMAIN f})
<1>1. f \in Surjection(DOMAIN f, {f[x] : x \in DOMAIN f}) BY DEF Surjection
<1> QED BY <1>1, FS_Surjection

(* A finite union of finite sets is finite. *)
LEMMA FiniteUnion ==
  ASSUME NEW S, IsFiniteSet(S), NEW f, \A x \in S : IsFiniteSet(f[x])
  PROVE  IsFiniteSet(UNION {f[x] : x \in S})
<1> DEFINE F == {A \in SUBSET S : IsFiniteSet(UNION {f[x] : x \in A})}
<1>1. ASSUME NEW A \in SUBSET S, \A B \in SUBSET A : B # A => B \in F PROVE A \in F
  <2>1. CASE A = {}
    <3>1. UNION {f[x] : x \in A} = {} BY <2>1
    <3> QED BY <3>1, FS_EmptySet
  <2>2. CASE A # {}
    <3>1. PICK z \in A : TRUE BY <2>2
    <3> DEFINE others == UNION {f[x] : x \in A \ {z}}
    <3>2. IsFiniteSet(f[z]) OBVIOUS
    <3>3. A \ {z} \in F BY <1>1, <3>1
    <3>4. IsFiniteSet(others) BY <3>3
    <3>5. UNION {f[x] : x \in A} = others \cup f[z] BY <3>1
    <3> HIDE DEF others
    <3>6. IsFiniteSet(others \cup f[z]) BY <3>2, <3>4, FS_Union
    <3>7. IsFiniteSet(UNION {f[x] : x \in A}) BY <3>5, <3>6, Zenon
    <3> QED BY <3>7
  <2> QED BY <2>1, <2>2
<1> HIDE DEF F
<1>2. S \in F BY <1>1, AllSubsets
<1> QED BY <1>2 DEF F
-----------------------------------------------------------------------------
(* Sums over finite sets: SumFunctionOnSet(f, S) is the sum of f over S.   *)

AnyOf(s) == CHOOSE x \in s : TRUE

(* g[s] is the sum of f over s, for every subset s of S. *)
Sums(f, S, g) ==
    g = [s \in SUBSET S |-> IF s = {} THEN 0 ELSE f[AnyOf(s)] + g[s \ {AnyOf(s)}]]

LEMMA SumIsSome ==
  ASSUME NEW f, NEW S
  PROVE  SumFunctionOnSet(f, S) = (CHOOSE g : Sums(f, S, g))[S]
BY DEF SumFunctionOnSet, FoldFunctionOnSet, MapThenFoldSet, Sums, AnyOf

LEMMA SumsExist ==
  ASSUME NEW f, NEW S, IsFiniteSet(S)
  PROVE  \E g : Sums(f, S, g)
<1> DEFINE Step(g, s) == IF s = {} THEN 0 ELSE f[AnyOf(s)] + g[s \ {AnyOf(s)}]
           UpTo(n) == {s \in SUBSET S : Cardinality(s) <= n}
           T == {n \in Nat : \E g : \A s \in UpTo(n) : g[s] = Step(g, s)}
<1>0. \A s \in SUBSET S : IsFiniteSet(s) /\ Cardinality(s) \in Nat
  BY FS_Subset, FS_CardinalityType
<1>1. 0 \in T
  <2> DEFINE g == [s \in SUBSET S |-> 0]
  <2>1. \A s \in UpTo(0) : s = {} BY <1>0, FS_EmptySet
  <2>2. \A s \in UpTo(0) : g[s] = Step(g, s) BY <2>1
  <2> QED BY <2>2
<1>2. ASSUME NEW n \in Nat, n \in T PROVE n + 1 \in T
  <2>1. PICK g : \A s \in UpTo(n) : g[s] = Step(g, s) BY <1>2
  <2> DEFINE h == [s \in SUBSET S |-> IF Cardinality(s) <= n THEN g[s] ELSE Step(g, s)]
  <2>2. ASSUME NEW s \in UpTo(n + 1) PROVE h[s] = Step(h, s)
    <3>1. CASE s = {}
      <4>1. s \in UpTo(n) BY <3>1, FS_EmptySet
      <4> QED BY <3>1, <4>1, <2>1
    <3>2. CASE s # {}
      <4> DEFINE t == s \ {AnyOf(s)}
      <4>1. AnyOf(s) \in s BY <3>2 DEF AnyOf
      <4>2. t \in UpTo(n) BY <4>1, <1>0, FS_RemoveElement
      <4>3. h[t] = g[t] BY <4>2
      <4>4. h[s] = Step(g, s) BY <2>1
      <4> QED BY <4>3, <4>4, <3>2
    <3> QED BY <3>1, <3>2
  <2> HIDE DEF h, Step, UpTo
  <2>3. \A s \in UpTo(n + 1) : h[s] = Step(h, s) BY <2>2
  <2> QED BY <2>3
<1>3. Cardinality(S) \in T
  <2> HIDE DEF T
  <2> QED BY <1>0, <1>1, <1>2, AllNaturals
<1>4. PICK g : \A s \in UpTo(Cardinality(S)) : g[s] = Step(g, s) BY <1>3
<1>5. ASSUME NEW s \in SUBSET S PROVE g[s] = Step(g, s)
  <2>1. s \in UpTo(Cardinality(S)) BY FS_Subset
  <2> QED BY <2>1, <1>4
<1> DEFINE h == [s \in SUBSET S |-> g[s]]
<1>6. \A s \in SUBSET S : Step(h, s) = Step(g, s) OBVIOUS
<1>7. h = [s \in SUBSET S |-> Step(h, s)] BY <1>5, <1>6
<1> QED BY <1>7 DEF Sums

(* Whatever superset the recursion starts from, it gives the same sums. *)
LEMMA SumsAgree ==
  ASSUME NEW f, NEW S, IsFiniteSet(S), NEW A \in SUBSET S, NEW g, NEW h,
         Sums(f, S, g), Sums(f, A, h)
  PROVE  g[A] = h[A]
<1> DEFINE F == {B \in SUBSET A : g[B] = h[B]}
<1>1. ASSUME NEW B \in SUBSET A, \A C \in SUBSET B : C # B => C \in F PROVE B \in F
  <2>1. CASE B = {} BY <2>1 DEF Sums
  <2>2. CASE B # {}
    <3>1. AnyOf(B) \in B BY <2>2 DEF AnyOf
    <3>2. B \ {AnyOf(B)} \in F BY <1>1, <3>1
    <3>3. g[B] = f[AnyOf(B)] + g[B \ {AnyOf(B)}] BY <2>2 DEF Sums
    <3>4. h[B] = f[AnyOf(B)] + h[B \ {AnyOf(B)}] BY <2>2 DEF Sums
    <3> QED BY <3>2, <3>3, <3>4
  <2> QED BY <2>1, <2>2
<1>2. IsFiniteSet(A) BY FS_Subset
<1> HIDE DEF F
<1>3. A \in F BY <1>1, <1>2, AllSubsets
<1> QED BY <1>3 DEF F

LEMMA SumUnfolds ==
  ASSUME NEW f, NEW S, IsFiniteSet(S)
  PROVE  SumFunctionOnSet(f, S) =
           IF S = {} THEN 0 ELSE f[AnyOf(S)] + SumFunctionOnSet(f, S \ {AnyOf(S)})
<1> DEFINE g == CHOOSE g : Sums(f, S, g)
           A == S \ {AnyOf(S)}
           h == CHOOSE h : Sums(f, A, h)
<1>1. IsFiniteSet(A) BY FS_Subset
<1>2. Sums(f, S, g) /\ Sums(f, A, h) BY <1>1, SumsExist
<1>3. g[A] = h[A] BY <1>2, SumsAgree
<1>4. g[S] = IF S = {} THEN 0 ELSE f[AnyOf(S)] + g[A] BY <1>2 DEF Sums
<1>5. SumFunctionOnSet(f, S) = g[S] /\ SumFunctionOnSet(f, A) = h[A] BY SumIsSome
<1> QED BY <1>3, <1>4, <1>5

LEMMA SumOfNone == ASSUME NEW f PROVE SumFunctionOnSet(f, {}) = 0
BY SumUnfolds, FS_EmptySet

LEMMA SumIsInt ==
  ASSUME NEW S, IsFiniteSet(S), NEW f, \A x \in S : f[x] \in Int
  PROVE  SumFunctionOnSet(f, S) \in Int
<1> DEFINE F == {A \in SUBSET S : SumFunctionOnSet(f, A) \in Int}
<1>1. ASSUME NEW A \in SUBSET S, \A B \in SUBSET A : B # A => B \in F PROVE A \in F
  <2>1. IsFiniteSet(A) BY FS_Subset
  <2>2. CASE A = {} BY <2>2, SumOfNone
  <2>3. CASE A # {}
    <3>1. AnyOf(A) \in A BY <2>3 DEF AnyOf
    <3>2. A \ {AnyOf(A)} \in F BY <1>1, <3>1
    <3> QED BY <2>1, <2>3, <3>1, <3>2, SumUnfolds
  <2> QED BY <2>2, <2>3
<1> HIDE DEF F
<1>2. S \in F BY <1>1, AllSubsets
<1> QED BY <1>2 DEF F

(* Any element may be taken out of a sum. *)
LEMMA SumTakesOut ==
  ASSUME NEW S, IsFiniteSet(S), NEW f, \A x \in S : f[x] \in Int, NEW x \in S
  PROVE  SumFunctionOnSet(f, S) = f[x] + SumFunctionOnSet(f, S \ {x})
<1> DEFINE Sum(A) == SumFunctionOnSet(f, A)
           F == {A \in SUBSET S : \A y \in A : Sum(A) = f[y] + Sum(A \ {y})}
<1>0. \A A \in SUBSET S : IsFiniteSet(A) /\ Sum(A) \in Int
  <2> SUFFICES ASSUME NEW A \in SUBSET S PROVE IsFiniteSet(A) /\ Sum(A) \in Int OBVIOUS
  <2>1. IsFiniteSet(A) BY FS_Subset
  <2> QED BY <2>1, SumIsInt
<1>1. ASSUME NEW A \in SUBSET S, \A B \in SUBSET A : B # A => B \in F, NEW y \in A
      PROVE  Sum(A) = f[y] + Sum(A \ {y})
  <2> DEFINE z == AnyOf(A)
  <2>1. z \in A BY DEF AnyOf
  <2>2. Sum(A) = f[z] + Sum(A \ {z}) BY <1>0, SumUnfolds
  <2>3. CASE y = z BY <2>2, <2>3
  <2>4. CASE y # z
    <3> DEFINE rest == A \ {y, z}
    <3>1. A \ {z} \in F /\ A \ {y} \in F BY <1>1, <2>1
    <3>2. (A \ {z}) \ {y} = rest /\ (A \ {y}) \ {z} = rest OBVIOUS
    <3> HIDE DEF rest, z
    <3>3. Sum(A \ {z}) = f[y] + Sum(rest) BY <3>1, <3>2, <2>4
    <3>4. Sum(A \ {y}) = f[z] + Sum(rest) BY <3>1, <3>2, <2>4, <2>1
    <3>5. f[y] \in Int /\ f[z] \in Int BY <2>1
    <3>6. Sum(rest) \in Int BY <1>0 DEF rest
    <3> HIDE DEF Sum
    <3> QED BY <2>2, <3>3, <3>4, <3>5, <3>6
  <2> QED BY <2>3, <2>4
<1>2. \A A \in SUBSET S : (\A B \in SUBSET A : B # A => B \in F) => A \in F BY <1>1
<1> HIDE DEF F
<1>3. S \in F BY <1>2, AllSubsets
<1> QED BY <1>3 DEF F

LEMMA SumAdds ==
  ASSUME NEW S, IsFiniteSet(S), NEW x, x \notin S, NEW f, \A y \in S \cup {x} : f[y] \in Int
  PROVE  SumFunctionOnSet(f, S \cup {x}) = f[x] + SumFunctionOnSet(f, S)
<1>1. IsFiniteSet(S \cup {x}) BY FS_AddElement
<1>2. (S \cup {x}) \ {x} = S OBVIOUS
<1> QED BY <1>1, <1>2, SumTakesOut

(* A sum depends on what the function is on the set. *)
LEMMA SumOfSame ==
  ASSUME NEW S, NEW f, NEW g, \A x \in S : f[x] = g[x]
  PROVE  SumFunctionOnSet(f, S) = SumFunctionOnSet(g, S)
<1>1. \A s \in SUBSET S : s # {} => f[AnyOf(s)] = g[AnyOf(s)] BY DEF AnyOf
<1>2. ASSUME NEW h PROVE Sums(f, S, h) <=> Sums(g, S, h)
  <2>1. \A s \in SUBSET S : (IF s = {} THEN 0 ELSE f[AnyOf(s)] + h[s \ {AnyOf(s)}])
                          = (IF s = {} THEN 0 ELSE g[AnyOf(s)] + h[s \ {AnyOf(s)}]) BY <1>1
  <2> QED BY <2>1 DEF Sums
<1>3. (CHOOSE h : Sums(f, S, h)) = (CHOOSE h : Sums(g, S, h)) BY <1>2
<1> QED BY <1>3, SumIsSome

(* One term changes, and the sum by the difference. *)
LEMMA SumChanges ==
  ASSUME NEW S, IsFiniteSet(S), NEW f, NEW g, NEW x \in S,
         \A y \in S : f[y] \in Int /\ g[y] \in Int, \A y \in S : y # x => f[y] = g[y]
  PROVE  SumFunctionOnSet(g, S) = SumFunctionOnSet(f, S) + g[x] - f[x]
<1>1. SumFunctionOnSet(f, S) = f[x] + SumFunctionOnSet(f, S \ {x}) BY SumTakesOut
<1>2. SumFunctionOnSet(g, S) = g[x] + SumFunctionOnSet(g, S \ {x}) BY SumTakesOut
<1>3. SumFunctionOnSet(f, S \ {x}) = SumFunctionOnSet(g, S \ {x}) BY SumOfSame
<1>4. IsFiniteSet(S \ {x}) BY FS_Subset
<1>5. SumFunctionOnSet(f, S \ {x}) \in Int BY <1>4, SumIsInt
<1> QED BY <1>1, <1>2, <1>3, <1>5

LEMMA SumIsNatural ==
  ASSUME NEW S, IsFiniteSet(S), NEW f, \A x \in S : f[x] \in Nat
  PROVE  SumFunctionOnSet(f, S) \in Nat
<1> DEFINE F == {A \in SUBSET S : SumFunctionOnSet(f, A) \in Nat}
<1>1. ASSUME NEW A \in SUBSET S, \A B \in SUBSET A : B # A => B \in F PROVE A \in F
  <2>1. IsFiniteSet(A) BY FS_Subset
  <2>2. CASE A = {} BY <2>2, SumOfNone
  <2>3. CASE A # {}
    <3>1. AnyOf(A) \in A BY <2>3 DEF AnyOf
    <3>2. A \ {AnyOf(A)} \in F BY <1>1, <3>1
    <3> QED BY <2>1, <2>3, <3>1, <3>2, SumUnfolds
  <2> QED BY <2>2, <2>3
<1> HIDE DEF F
<1>2. S \in F BY <1>1, AllSubsets
<1> QED BY <1>2 DEF F
===============================================================================
