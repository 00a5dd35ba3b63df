----------------------------- MODULE SumTheorems -----------------------------
(***************************************************************************)
(* Sums over finite sets; induction over finite sets and over numbers, and  *)
(* the places of the members of a set in its order.                         *)
(*                                                                         *)
(* The library's induction theorems have an operator as parameter, which    *)
(* first-order provers cannot instantiate.  Its theorem WFMin has not: in a *)
(* family of subsets of a finite set there is one that contains no other.   *)
(* A proof by induction is therefore one by a smallest counterexample, and  *)
(* what is to be shown is a set instead of an operator.                     *)
(***************************************************************************)
EXTENDS FiniteSetsExt, FiniteSetTheorems, TLAPS

\* A family of subsets of a finite set has a member that contains no other member.
LEMMA SmallestMember ==
  ASSUME NEW S, IsFiniteSet(S), NEW F, F \subseteq SUBSET S, F # {}
  PROVE  \E T \in F : \A U \in F : U \subseteq T => U = T
<1>1. IsWellFoundedOn(StrictSubsetOrdering(S), SUBSET S)
  BY FS_StrictSubsetOrderingWellFounded, FS_FiniteSubsetsOfFinite
<1>2. PICK T \in F : \A U \in F : ~(<<U, T>> \in StrictSubsetOrdering(S))
  BY <1>1, WFMin
<1>3. QED
  BY <1>2 DEF StrictSubsetOrdering

\* The same, for the proof of a fact about all subsets: it may be used of the smaller ones.
LEMMA SubsetInduction ==
  ASSUME NEW S, IsFiniteSet(S), NEW F, F \subseteq SUBSET S,
         \A T \in SUBSET S : (\A x \in T : T \ {x} \in F) => T \in F
  PROVE  F = SUBSET S
<1> SUFFICES ASSUME (SUBSET S) \ F # {} PROVE FALSE
  OBVIOUS
<1>1. PICK T \in (SUBSET S) \ F : \A U \in (SUBSET S) \ F : U \subseteq T => U = T
  <2> DEFINE G == (SUBSET S) \ F
  <2>1. G \subseteq SUBSET S /\ G # {}
    OBVIOUS
  <2>2. \E T \in G : \A U \in G : U \subseteq T => U = T
    <3> HIDE DEF G
    <3> QED BY <2>1, SmallestMember
  <2> QED BY <2>2
<1>2. \A x \in T : T \ {x} \in F
  BY <1>1
<1>3. QED
  BY <1>1, <1>2

---------------------------------------------------------------------------
(* Least and greatest elements.                                             *)

\* A finite set has a best member, by any order that compares every two of its members.
LEMMA BestMember ==
  ASSUME NEW T, IsFiniteSet(T), T # {}, NEW R,
         \A x, y \in T : <<x, y>> \in R \/ <<y, x>> \in R,
         \A x, y, z \in T : <<x, y>> \in R /\ <<y, z>> \in R => <<x, z>> \in R
  PROVE  \E x \in T : \A y \in T : <<x, y>> \in R
<1> DEFINE F == {s \in SUBSET T : s = {} \/ \E x \in s : \A y \in s : <<x, y>> \in R}
<1>1. ASSUME NEW s \in SUBSET T, \A x \in s : s \ {x} \in F
      PROVE  s \in F
  <2> SUFFICES ASSUME s # {} PROVE \E x \in s : \A y \in s : <<x, y>> \in R
    OBVIOUS
  <2>1. PICK z \in s : TRUE
    OBVIOUS
  <2>2. CASE s \ {z} = {}
    BY <2>1, <2>2
  <2>3. CASE s \ {z} # {}
    <3>1. PICK x \in s \ {z} : \A y \in s \ {z} : <<x, y>> \in R
      BY <1>1, <2>3
    <3>2. CASE <<x, z>> \in R
      BY <3>1, <3>2
    <3>3. CASE <<z, x>> \in R
      <4>1. \A y \in s : <<z, y>> \in R
        BY <3>1, <3>3, <2>1
      <4>2. QED
        BY <4>1
    <3>4. QED
      BY <3>2, <3>3
  <2>4. QED
    BY <2>2, <2>3
<1>2. F = SUBSET T
  <2>1. F \subseteq SUBSET T
    OBVIOUS
  <2>2. QED
    <3> HIDE DEF F
    <3> QED BY <1>1, <2>1, SubsetInduction
<1>3. QED
  BY <1>2

\* Min and Max of a finite set of integers are what their names say.
LEMMA MinIn ==
  ASSUME NEW T, T \subseteq Int, T # {}, IsFiniteSet(T)
  PROVE  Min(T) \in T /\ \A y \in T : Min(T) <= y
<1> DEFINE R == {p \in T \X T : p[1] <= p[2]}
<1>1. \A x, y \in T : <<x, y>> \in R <=> x <= y
  OBVIOUS
<1> HIDE DEF R
<1>2. ASSUME NEW x \in T, NEW y \in T PROVE <<x, y>> \in R \/ <<y, x>> \in R
  <2>1. x <= y \/ y <= x
    OBVIOUS
  <2>2. QED
    BY <1>1, <2>1
<1>3. \A x, y, z \in T : <<x, y>> \in R /\ <<y, z>> \in R => <<x, z>> \in R
  BY <1>1
<1>4. \E x \in T : \A y \in T : <<x, y>> \in R
  BY <1>2, <1>3, BestMember
<1>5. QED
  BY <1>1, <1>4 DEF Min

\* The same for the greatest.
LEMMA MaxIn ==
  ASSUME NEW T, T \subseteq Int, T # {}, IsFiniteSet(T)
  PROVE  Max(T) \in T /\ \A y \in T : Max(T) >= y
<1> DEFINE R == {p \in T \X T : p[1] >= p[2]}
<1>1. \A x, y \in T : <<x, y>> \in R <=> x >= y
  OBVIOUS
<1> HIDE DEF R
<1>2. ASSUME NEW x \in T, NEW y \in T PROVE <<x, y>> \in R \/ <<y, x>> \in R
  <2>1. x >= y \/ y >= x
    OBVIOUS
  <2>2. QED
    BY <1>1, <2>1
<1>3. \A x, y, z \in T : <<x, y>> \in R /\ <<y, z>> \in R => <<x, z>> \in R
  BY <1>1
<1>4. \E x \in T : \A y \in T : <<x, y>> \in R
  BY <1>2, <1>3, BestMember
<1>5. QED
  BY <1>1, <1>4 DEF Max

\* The lesser and the greater of two.
LEMMA OfTwo ==
  ASSUME NEW a \in Int, NEW b \in Int
  PROVE  Min({a, b}) = (IF a <= b THEN a ELSE b) /\ Max({a, b}) = (IF a >= b THEN a ELSE b)
<1> DEFINE T == {a, b}
<1>1. IsFiniteSet({a} \union {b})
  BY FS_Singleton, FS_AddElement
<1>2. {a} \union {b} = T /\ T \subseteq Int /\ T # {}
  OBVIOUS
<1>3. /\ Min(T) \in T /\ \A y \in T : Min(T) <= y
      /\ Max(T) \in T /\ \A y \in T : Max(T) >= y
  <2> HIDE DEF T
  <2> QED BY <1>1, <1>2, MinIn, MaxIn
<1>4. QED
  BY <1>3

\* A set of whole numbers within bounds is finite.
LEMMA BoundedIsFinite ==
  ASSUME NEW a \in Int, NEW b \in Int, NEW T, T \subseteq Int, \A x \in T : a <= x /\ x <= b
  PROVE  IsFiniteSet(T)
<1>1. T \subseteq a..b /\ IsFiniteSet(a..b)
  BY FS_Interval
<1>2. QED
  BY <1>1, FS_Subset

---------------------------------------------------------------------------
(* Induction and recursion up to a number.                                  *)

\* What holds of 0 and, with a number, of the next one, holds of all up to n.
LEMMA NumberInduction ==
  ASSUME NEW n \in Nat, NEW F, 0 \in F, \A i \in 1..n : i - 1 \in F => i \in F
  PROVE  \A i \in 0..n : i \in F
<1> DEFINE T == (0..n) \ F
<1> SUFFICES ASSUME T # {} PROVE FALSE
  OBVIOUS
<1>1. T \subseteq Int /\ IsFiniteSet(T)
  <2>1. \A x \in T : x \in Int /\ 0 <= x /\ x <= n
    OBVIOUS
  <2> HIDE DEF T
  <2> QED BY <2>1, BoundedIsFinite, 0 \in Int, n \in Int
<1>2. Min(T) \in T /\ \A y \in T : Min(T) <= y
  <2> HIDE DEF T
  <2> QED BY <1>1, MinIn
<1>3. PICK m \in T : \A y \in T : m <= y
  BY <1>2
<1>4. m \in 1..n
  BY <1>3
<1>5. m - 1 \in F
  BY <1>3, <1>4
<1>6. QED
  BY <1>3, <1>4, <1>5

\* The first value of f, and how each follows from the one before.
Recurs(f, base, step, n) == f[0] = base /\ \A i \in 1..n : f[i] = step[<<i, f[i - 1]>>]

\* A function may be defined by its first value and how each follows from the one before.
LEMMA RecursionExists ==
  ASSUME NEW n \in Nat, NEW A, NEW base \in A, NEW step \in [(1..n) \X A -> A]
  PROVE  \E f \in [0..n -> A] : Recurs(f, base, step, n)
<1> DEFINE F == {k \in 0..n : \E f \in [0..k -> A] :
                   f[0] = base /\ \A i \in 1..k : f[i] = step[<<i, f[i - 1]>>]}
<1>1. 0 \in F
  <2> DEFINE g == [i \in 0..0 |-> base]
  <2>1. g \in [0..0 -> A] /\ g[0] = base /\ 1..0 = {} /\ 0 \in 0..n
    OBVIOUS
  <2>2. QED
    <3> HIDE DEF g
    <3> QED BY <2>1
<1>2. ASSUME NEW k \in 1..n, k - 1 \in F
      PROVE  k \in F
  <2>1. PICK f \in [0..(k - 1) -> A] :
          f[0] = base /\ \A i \in 1..(k - 1) : f[i] = step[<<i, f[i - 1]>>]
    BY <1>2
  <2> DEFINE g == [i \in 0..k |-> IF i = k THEN step[<<k, f[k - 1]>>] ELSE f[i]]
  <2>2. step[<<k, f[k - 1]>>] \in A
    <3>1. f[k - 1] \in A
      BY <2>1
    <3>2. QED
      BY <3>1
  <2>3. \A i \in 0..k : i # k => i \in 0..(k - 1)
    OBVIOUS
  <2>4. g \in [0..k -> A]
    BY <2>1, <2>2, <2>3
  <2>5. g[0] = base /\ g[k] = step[<<k, g[k - 1]>>]
    <3>1. 0 \in 0..k /\ 0 # k /\ k \in 0..k /\ k - 1 \in 0..k /\ k - 1 # k
      OBVIOUS
    <3>2. g[0] = f[0] /\ g[k] = step[<<k, f[k - 1]>>] /\ g[k - 1] = f[k - 1]
      BY <3>1, Zenon
    <3>3. QED
      BY <2>1, <3>2
  <2>6. ASSUME NEW i \in 1..(k - 1)
        PROVE  g[i] = step[<<i, g[i - 1]>>]
    <3>1. i \in 0..k /\ i # k /\ i - 1 \in 0..k /\ i - 1 # k
      OBVIOUS
    <3>2. g[i] = f[i] /\ g[i - 1] = f[i - 1]
      BY <3>1
    <3>3. QED
      BY <2>1, <3>2
  <2>7. ASSUME NEW i \in 1..k PROVE g[i] = step[<<i, g[i - 1]>>]
    <3>1. CASE i = k
      BY <2>5, <3>1, Zenon
    <3>2. CASE i # k
      <4>1. i \in 1..(k - 1)
        BY <3>2
      <4>2. QED
        BY <2>6, <4>1, Zenon
    <3>3. QED
      BY <3>1, <3>2
  <2>8. QED
    <3>1. k \in 0..n
      OBVIOUS
    <3>2. \E h \in [0..k -> A] : h[0] = base /\ \A i \in 1..k : h[i] = step[<<i, h[i - 1]>>]
      <4> HIDE DEF g, F
      <4> QED BY <2>4, <2>5, <2>7, Zenon
    <3>3. QED
      BY <3>1, <3>2, Zenon
<1>3. n \in F
  <2> HIDE DEF F
  <2> QED BY <1>1, <1>2, NumberInduction, n \in 0..n
<1>4. QED
  BY <1>3 DEF Recurs

---------------------------------------------------------------------------
(* The places of the members of a set in its order.                         *)

\* R puts the members of S in order.
Orders(R, S) ==
  /\ \A x \in S : <<x, x>> \notin R
  /\ \A x, y \in S : x # y => <<x, y>> \in R \/ <<y, x>> \in R
  /\ \A x, y, z \in S : <<x, y>> \in R /\ <<y, z>> \in R => <<x, z>> \in R

PlaceIn(x, R, S) == Cardinality({y \in S : <<y, x>> \in R})

\* In a finite set that R puts in order, the place of a member is the number of members
\* before it: a place for each, and a member for each place.
LEMMA Places ==
  ASSUME NEW S, IsFiniteSet(S), NEW R, Orders(R, S)
  PROVE  /\ \A x \in S : PlaceIn(x, R, S) \in 0..(Cardinality(S) - 1)
         /\ \A x, y \in S : <<x, y>> \in R => PlaceIn(x, R, S) < PlaceIn(y, R, S)
         /\ \A k \in 0..(Cardinality(S) - 1) : \E x \in S : PlaceIn(x, R, S) = k
<1> DEFINE place == [x \in S |-> PlaceIn(x, R, S)]
<1> DEFINE n == Cardinality(S)
<1> DEFINE before(x) == {y \in S : <<y, x>> \in R}
<1>1. n \in Nat
  BY FS_CardinalityType
<1>0. \A x \in S : place[x] = Cardinality(before(x))
  BY DEF PlaceIn
<1>2. ASSUME NEW x \in S
      PROVE  IsFiniteSet(before(x)) /\ Cardinality(before(x)) \in 0..(n - 1)
  <2>1. before(x) \subseteq S \ {x}
    BY DEF Orders
  <2>2. IsFiniteSet(S \ {x}) /\ Cardinality(S \ {x}) = n - 1
    BY FS_RemoveElement
  <2>3. IsFiniteSet(before(x)) /\ Cardinality(before(x)) <= n - 1
    <3> HIDE DEF before, n
    <3> QED BY <2>1, <2>2, FS_Subset
  <2>4. Cardinality(before(x)) \in Nat
    BY <2>3, FS_CardinalityType
  <2>5. QED
    <3> HIDE DEF before, n
    <3> QED BY <2>3, <2>4, <1>1
<1>3. place \in [S -> 0..(n - 1)]
  BY <1>2 DEF PlaceIn
<1> HIDE DEF place
<1>4. ASSUME NEW x \in S, NEW y \in S, <<x, y>> \in R
      PROVE  place[x] < place[y]
  <2>1. before(x) \subseteq before(y) /\ x \in before(y) /\ x \notin before(x)
    BY <1>4 DEF Orders
  <2>2. Cardinality(before(x)) <= Cardinality(before(y))
    <3> HIDE DEF before
    <3> QED BY <1>2, <2>1, FS_Subset
  <2>3. Cardinality(before(x)) # Cardinality(before(y))
    <3> HIDE DEF before
    <3> QED BY <1>2, <2>1, FS_Subset
  <2>4. Cardinality(before(x)) \in Int /\ Cardinality(before(y)) \in Int
    <3> HIDE DEF before, n
    <3> QED BY <1>1, <1>2
  <2>5. Cardinality(before(x)) < Cardinality(before(y))
    <3> HIDE DEF before
    <3> QED BY <2>2, <2>3, <2>4
  <2>6. QED
    BY <1>0, <2>5, Zenon
<1>5. \A k \in 0..(n - 1) : \E x \in S : place[x] = k
  <2>1. place \in Injection(S, 0..(n - 1))
    <3>1. ASSUME NEW x \in S, NEW y \in S, place[x] = place[y]
          PROVE  x = y
      <4>1. place[x] \in Int /\ place[y] \in Int
        BY <1>3
      <4>2. ~(place[x] < place[y]) /\ ~(place[y] < place[x])
        BY <3>1, <4>1
      <4>3. QED
        BY <1>4, <4>2, Zenon DEF Orders
    <3>2. QED
      BY <1>3, <3>1 DEF Injection, IsInjective
  <2>2. IsFiniteSet(0..(n - 1)) /\ Cardinality(0..(n - 1)) = n
    BY <1>1, FS_Interval
  <2>3. place \in Surjection(S, 0..(n - 1))
    BY <2>1, <2>2, FS_Injection
  <2>4. QED
    BY <2>3 DEF Surjection
<1>6. \A x \in S : place[x] = PlaceIn(x, R, S)
  BY DEF place
<1>7. QED
  BY <1>3, <1>4, <1>5, <1>6

Below(x, S) == Cardinality({y \in S : y < x})

\* The members of a finite set of numbers, by their places.
LEMMA PlacesOfNumbers ==
  ASSUME NEW S, IsFiniteSet(S), S \subseteq Int
  PROVE  /\ Cardinality(S) \in Nat
         /\ \A x \in S : Below(x, S) \in 0..(Cardinality(S) - 1)
         /\ \A x, y \in S : x < y => Below(x, S) < Below(y, S)
         /\ \A k \in 0..(Cardinality(S) - 1) : \E x \in S : Below(x, S) = k
<1> DEFINE R == {p \in S \X S : p[1] < p[2]}
<1>1. \A x, y \in S : <<x, y>> \in R <=> x < y
  OBVIOUS
<1>2. \A x \in S : PlaceIn(x, R, S) = Below(x, S)
  <2>1. \A x \in S : {y \in S : <<y, x>> \in R} = {y \in S : y < x}
    BY <1>1
  <2>2. QED
    BY <2>1 DEF PlaceIn, Below
<1> HIDE DEF R
<1>3. Orders(R, S)
  BY <1>1 DEF Orders
<1>4. Cardinality(S) \in Nat
  BY FS_CardinalityType
<1>5. /\ \A x \in S : PlaceIn(x, R, S) \in 0..(Cardinality(S) - 1)
      /\ \A x, y \in S : <<x, y>> \in R => PlaceIn(x, R, S) < PlaceIn(y, R, S)
      /\ \A k \in 0..(Cardinality(S) - 1) : \E x \in S : PlaceIn(x, R, S) = k
  BY <1>3, Places
<1>6. ASSUME NEW x \in S, NEW y \in S, x < y
      PROVE  Below(x, S) < Below(y, S)
  <2>1. <<x, y>> \in R
    BY <1>1, <1>6, Zenon
  <2>2. PlaceIn(x, R, S) < PlaceIn(y, R, S)
    BY <1>5, <2>1, Zenon
  <2>3. QED
    BY <1>2, <2>2
<1>7. ASSUME NEW k \in 0..(Cardinality(S) - 1)
      PROVE  \E x \in S : Below(x, S) = k
  BY <1>2, <1>5
<1>8. \A x \in S : Below(x, S) \in 0..(Cardinality(S) - 1)
  BY <1>2, <1>5
<1>9. QED
  BY <1>4, <1>6, <1>7, <1>8

---------------------------------------------------------------------------
(* The equation of a sum.                                                   *)

Pick(s) == CHOOSE x \in s : TRUE

IsSum(iter, f, S) ==
  iter = [s \in SUBSET S |-> IF s = {} THEN 0 ELSE f[Pick(s)] + iter[s \ {Pick(s)}]]

\* The library's sum is the value of a function that satisfies the equation.
LEMMA SumIs ==
  ASSUME NEW f, NEW S
  PROVE  SumFunctionOnSet(f, S) = (CHOOSE iter : IsSum(iter, f, S))[S]
BY DEF SumFunctionOnSet, FoldFunctionOnSet, MapThenFoldSet, Pick, IsSum

\* A set that is not empty has the element that is picked of it.
LEMMA PickIn == ASSUME NEW s, s # {} PROVE Pick(s) \in s
BY DEF Pick

\* At most one function satisfies the equation over a finite set.
LEMMA SumIsUnique ==
  ASSUME NEW f, NEW S, IsFiniteSet(S), NEW U \in SUBSET S, NEW g, IsSum(g, f, S),
         NEW h, IsSum(h, f, U)
  PROVE  \A s \in SUBSET U : g[s] = h[s]
<1> DEFINE F == {s \in SUBSET U : g[s] = h[s]}
<1>1. IsFiniteSet(U)
  BY FS_Subset
<1>2. ASSUME NEW T \in SUBSET U, \A x \in T : T \ {x} \in F
      PROVE  T \in F
  <2>1. CASE T = {}
    BY <2>1 DEF IsSum
  <2>2. CASE T # {}
    <3>1. Pick(T) \in T
      BY <2>2, PickIn
    <3>2. g[T \ {Pick(T)}] = h[T \ {Pick(T)}]
      BY <1>2, <3>1
    <3>3. g[T] = f[Pick(T)] + g[T \ {Pick(T)}] /\ h[T] = f[Pick(T)] + h[T \ {Pick(T)}]
      BY <2>2 DEF IsSum
    <3> QED BY <3>2, <3>3
  <2> QED BY <2>1, <2>2
<1>3. F = SUBSET U
  <2>1. F \subseteq SUBSET U OBVIOUS
  <2> HIDE DEF F
  <2> QED BY <1>1, <1>2, <2>1, SubsetInduction
<1> QED BY <1>3

\* A function that satisfies the equation over a set does so over a part of it.
LEMMA SumOfPart ==
  ASSUME NEW f, NEW S, NEW g, IsSum(g, f, S), NEW U \in SUBSET S
  PROVE  IsSum([s \in SUBSET U |-> g[s]], f, U)
<1> DEFINE h == [s \in SUBSET U |-> g[s]]
<1>1. ASSUME NEW s \in SUBSET U
      PROVE  h[s] = IF s = {} THEN 0 ELSE f[Pick(s)] + h[s \ {Pick(s)}]
  BY DEF IsSum
<1>2. h = [s \in SUBSET U |-> IF s = {} THEN 0 ELSE f[Pick(s)] + h[s \ {Pick(s)}]]
  BY <1>1
<1>3. QED
  BY <1>2 DEF IsSum

\* There is such a function for every finite set.
LEMMA SumExists ==
  ASSUME NEW f, NEW S, IsFiniteSet(S)
  PROVE  \E iter : IsSum(iter, f, S)
<1> DEFINE F    == {s \in SUBSET S : \E iter : IsSum(iter, f, s)}
           g(s) == (CHOOSE iter : IsSum(iter, f, s))[s]
<1>1. ASSUME NEW T \in SUBSET S, \A x \in T : T \ {x} \in F
      PROVE  T \in F
  <2> DEFINE all == [s \in SUBSET T |->
                       IF s = T THEN IF T = {} THEN 0 ELSE f[Pick(T)] + g(T \ {Pick(T)})
                       ELSE g(s)]
  <2>1. ASSUME NEW s \in SUBSET T, s # T
        PROVE  \E iter : IsSum(iter, f, s)
    <3>1. PICK x \in T : x \notin s
      BY <2>1
    <3>2. PICK iter : IsSum(iter, f, T \ {x})
      BY <1>1
    <3>3. s \in SUBSET (T \ {x})
      BY <3>1
    <3>4. QED
      BY <3>2, <3>3, SumOfPart
  <2>2. ASSUME NEW s \in SUBSET T, s # T, s # {}
        PROVE  g(s) = f[Pick(s)] + g(s \ {Pick(s)})
    <3> DEFINE h == CHOOSE iter : IsSum(iter, f, s)
               r == s \ {Pick(s)}
               k == CHOOSE iter : IsSum(iter, f, r)
    <3>1. IsSum(h, f, s)
      BY <2>1, <2>2
    <3>2. r \in SUBSET T /\ r # T /\ r \in SUBSET s
      BY <2>2
    <3>3. IsSum(k, f, r)
      BY <2>1, <3>2
    <3>4. IsFiniteSet(s)
      BY FS_Subset
    <3>5. h[r] = k[r]
      <4> HIDE DEF h, k, r
      <4> QED BY <3>1, <3>2, <3>3, <3>4, SumIsUnique
    <3>6. h[s] = f[Pick(s)] + h[r]
      <4> HIDE DEF h, k
      <4> QED BY <3>1, <2>2 DEF IsSum
    <3>7. QED
      BY <3>5, <3>6
  <2>3. T # {} => g({}) = 0
    <3> SUFFICES ASSUME T # {} PROVE g({}) = 0
      OBVIOUS
    <3>1. \E iter : IsSum(iter, f, {})
      BY <2>1
    <3>2. IsSum(CHOOSE iter : IsSum(iter, f, {}), f, {})
      BY <3>1
    <3> DEFINE z == CHOOSE iter : IsSum(iter, f, {})
    <3>3. z[{}] = 0
      <4> HIDE DEF z
      <4> QED BY <3>2 DEF IsSum, z
    <3>4. QED
      BY <3>3
  <2>4. ASSUME NEW s \in SUBSET T
        PROVE  all[s] = IF s = {} THEN 0 ELSE f[Pick(s)] + all[s \ {Pick(s)}]
    <3> HIDE DEF g
    <3>1. CASE s = {}
      BY <2>3, <3>1
    <3>2. CASE s # {} /\ s = T
      <4>1. Pick(T) \in T
        BY <3>2, PickIn
      <4>2. QED
        BY <3>2, <4>1
    <3>3. CASE s # {} /\ s # T
      <4>1. s \ {Pick(s)} # T /\ s \ {Pick(s)} \in SUBSET T
        BY <3>3
      <4>2. all[s] = g(s) /\ all[s \ {Pick(s)}] = g(s \ {Pick(s)})
        BY <3>3, <4>1
      <4>3. QED
        BY <2>2, <3>3, <4>2
    <3>4. QED
      BY <3>1, <3>2, <3>3
  <2>5. IsSum(all, f, T)
    <3> HIDE DEF all
    <3>1. all = [s \in SUBSET T |-> all[s]]
      BY DEF all
    <3>2. all = [s \in SUBSET T |-> IF s = {} THEN 0 ELSE f[Pick(s)] + all[s \ {Pick(s)}]]
      BY <2>4, <3>1
    <3>3. QED
      BY <3>2 DEF IsSum
  <2>6. QED
    <3> HIDE DEF all
    <3> QED BY <2>5
<1>2. F = SUBSET S
  <2>1. F \subseteq SUBSET S OBVIOUS
  <2> HIDE DEF F
  <2> QED BY <1>1, <2>1, SubsetInduction
<1> QED BY <1>2

\* The equation of the sum of f over a finite set.
LEMMA SumEquation ==
  ASSUME NEW f, NEW S, IsFiniteSet(S), S # {}
  PROVE  /\ Pick(S) \in S
         /\ SumFunctionOnSet(f, S) = f[Pick(S)] + SumFunctionOnSet(f, S \ {Pick(S)})
<1> DEFINE R == S \ {Pick(S)}
           g == CHOOSE iter : IsSum(iter, f, S)
           h == CHOOSE iter : IsSum(iter, f, R)
<1>1. Pick(S) \in S
  BY PickIn
<1>2. IsFiniteSet(R) /\ R \in SUBSET S
  BY FS_RemoveElement
<1>3. IsSum(g, f, S)
  BY SumExists
<1>4. IsSum(h, f, R)
  BY <1>2, SumExists
<1>5. g[R] = h[R]
  <2> HIDE DEF g, h, R
  <2> QED BY <1>2, <1>3, <1>4, SumIsUnique
<1>6. g[S] = f[Pick(S)] + g[R]
  <2> HIDE DEF g
  <2> QED BY <1>3 DEF IsSum
<1>7. SumFunctionOnSet(f, S) = g[S] /\ SumFunctionOnSet(f, R) = h[R]
  BY SumIs
<1>8. QED
  BY <1>1, <1>5, <1>6, <1>7

\* The sum over no elements.
LEMMA SumEmpty ==
  ASSUME NEW f
  PROVE  SumFunctionOnSet(f, {}) = 0
<1> DEFINE g == CHOOSE iter : IsSum(iter, f, {})
<1>1. IsSum(g, f, {})
  BY FS_EmptySet, SumExists
<1>2. g[{}] = 0
  <2> HIDE DEF g
  <2> QED BY <1>1 DEF IsSum
<1>3. QED
  BY <1>2, SumIs

---------------------------------------------------------------------------
(* Facts about sums.                                                        *)

\* A sum of integers is an integer.
LEMMA SumIsInt ==
  ASSUME NEW f, NEW S, IsFiniteSet(S), \A x \in S : f[x] \in Int
  PROVE  SumFunctionOnSet(f, S) \in Int
<1> DEFINE F == {s \in SUBSET S : SumFunctionOnSet(f, s) \in Int}
<1>1. ASSUME NEW T \in SUBSET S, \A x \in T : T \ {x} \in F
      PROVE  T \in F
  <2>1. CASE T = {}
    BY <2>1, SumEmpty
  <2>2. CASE T # {}
    <3>1. IsFiniteSet(T)
      BY FS_Subset
    <3>2. /\ Pick(T) \in T
          /\ SumFunctionOnSet(f, T) = f[Pick(T)] + SumFunctionOnSet(f, T \ {Pick(T)})
      BY <2>2, <3>1, SumEquation
    <3>3. QED
      BY <1>1, <3>2
  <2>3. QED
    BY <2>1, <2>2
<1>2. F = SUBSET S
  <2>1. F \subseteq SUBSET S
    OBVIOUS
  <2>2. QED
    <3> HIDE DEF F
    <3> QED BY <1>1, <2>1, SubsetInduction
<1>3. QED
  BY <1>2

\* Any element may be taken out first.
LEMMA SumRemove ==
  ASSUME NEW f, NEW S, IsFiniteSet(S), \A x \in S : f[x] \in Int, NEW x \in S
  PROVE  SumFunctionOnSet(f, S) = f[x] + SumFunctionOnSet(f, S \ {x})
<1> DEFINE F == {s \in SUBSET S : \A y \in s :
                   SumFunctionOnSet(f, s) = f[y] + SumFunctionOnSet(f, s \ {y})}
<1>1. ASSUME NEW T \in SUBSET S, \A y \in T : T \ {y} \in F
      PROVE  T \in F
  <2> SUFFICES ASSUME NEW y \in T
               PROVE  SumFunctionOnSet(f, T) = f[y] + SumFunctionOnSet(f, T \ {y})
    OBVIOUS
  <2> DEFINE p == Pick(T)
  <2>1. IsFiniteSet(T)
    BY FS_Subset
  <2>2. p \in T /\ SumFunctionOnSet(f, T) = f[p] + SumFunctionOnSet(f, T \ {p})
    BY <2>1, SumEquation
  <2> HIDE DEF p
  <2>3. CASE p = y
    BY <2>2, <2>3
  <2>4. CASE p # y
    <3>1. SumFunctionOnSet(f, T \ {p}) = f[y] + SumFunctionOnSet(f, (T \ {p}) \ {y})
      BY <1>1, <2>2, <2>4
    <3>2. SumFunctionOnSet(f, T \ {y}) = f[p] + SumFunctionOnSet(f, (T \ {y}) \ {p})
      BY <1>1, <2>2, <2>4
    <3> DEFINE R == (T \ {y}) \ {p}
    <3>3. (T \ {p}) \ {y} = R /\ IsFiniteSet(R)
      BY <2>1, FS_Subset
    <3>4. SumFunctionOnSet(f, R) \in Int
      BY <3>3, SumIsInt
    <3>5. f[y] \in Int /\ f[p] \in Int
      BY <2>2
    <3>6. f[p] + (f[y] + SumFunctionOnSet(f, R)) = f[y] + (f[p] + SumFunctionOnSet(f, R))
      BY <3>4, <3>5
    <3>7. QED
      BY <2>2, <3>1, <3>2, <3>3, <3>6, Zenon
  <2>5. QED
    BY <2>3, <2>4
<1>2. F = SUBSET S
  <2>1. F \subseteq SUBSET S
    OBVIOUS
  <2>2. QED
    <3> HIDE DEF F
    <3> QED BY <1>1, <2>1, SubsetInduction
<1>3. QED
  BY <1>2

\* A sum with one more element.
LEMMA SumAdd ==
  ASSUME NEW f, NEW S, IsFiniteSet(S), NEW x, x \notin S,
         \A y \in S \union {x} : f[y] \in Int
  PROVE  SumFunctionOnSet(f, S \union {x}) = SumFunctionOnSet(f, S) + f[x]
<1>1. IsFiniteSet(S \union {x}) /\ (S \union {x}) \ {x} = S
  BY FS_AddElement
<1>2. SumFunctionOnSet(f, S \union {x}) = f[x] + SumFunctionOnSet(f, S)
  BY <1>1, SumRemove
<1>3. SumFunctionOnSet(f, S) \in Int /\ f[x] \in Int
  BY SumIsInt
<1>4. QED
  BY <1>2, <1>3

\* A sum depends on the values over the set only.
LEMMA SumSame ==
  ASSUME NEW f, NEW g, NEW S, IsFiniteSet(S), \A x \in S : f[x] = g[x]
  PROVE  SumFunctionOnSet(f, S) = SumFunctionOnSet(g, S)
<1> DEFINE F == {s \in SUBSET S : SumFunctionOnSet(f, s) = SumFunctionOnSet(g, s)}
<1>1. ASSUME NEW T \in SUBSET S, \A x \in T : T \ {x} \in F
      PROVE  T \in F
  <2>1. CASE T = {}
    BY <2>1, SumEmpty
  <2>2. CASE T # {}
    <3>1. IsFiniteSet(T)
      BY FS_Subset
    <3>2. /\ Pick(T) \in T
          /\ SumFunctionOnSet(f, T) = f[Pick(T)] + SumFunctionOnSet(f, T \ {Pick(T)})
          /\ SumFunctionOnSet(g, T) = g[Pick(T)] + SumFunctionOnSet(g, T \ {Pick(T)})
      BY <2>2, <3>1, SumEquation
    <3>3. QED
      BY <1>1, <3>2
  <2>3. QED
    BY <2>1, <2>2
<1>2. F = SUBSET S
  <2>1. F \subseteq SUBSET S
    OBVIOUS
  <2>2. QED
    <3> HIDE DEF F
    <3> QED BY <1>1, <2>1, SubsetInduction
<1>3. QED
  BY <1>2

\* The sum of sums.
LEMMA SumPlus ==
  ASSUME NEW f, NEW g, NEW h, NEW S, IsFiniteSet(S),
         \A x \in S : f[x] \in Int /\ g[x] \in Int /\ h[x] = f[x] + g[x]
  PROVE  SumFunctionOnSet(h, S) = SumFunctionOnSet(f, S) + SumFunctionOnSet(g, S)
<1> DEFINE F == {s \in SUBSET S :
                   SumFunctionOnSet(h, s) = SumFunctionOnSet(f, s) + SumFunctionOnSet(g, s)}
<1>1. ASSUME NEW T \in SUBSET S, \A x \in T : T \ {x} \in F
      PROVE  T \in F
  <2>1. CASE T = {}
    BY <2>1, SumEmpty
  <2>2. CASE T # {}
    <3> DEFINE p == Pick(T)
    <3>1. IsFiniteSet(T) /\ IsFiniteSet(T \ {p})
      BY FS_Subset
    <3>2. /\ p \in T
          /\ SumFunctionOnSet(f, T) = f[p] + SumFunctionOnSet(f, T \ {p})
          /\ SumFunctionOnSet(g, T) = g[p] + SumFunctionOnSet(g, T \ {p})
          /\ SumFunctionOnSet(h, T) = h[p] + SumFunctionOnSet(h, T \ {p})
      BY <2>2, <3>1, SumEquation
    <3> HIDE DEF p
    <3>3. SumFunctionOnSet(f, T \ {p}) \in Int /\ SumFunctionOnSet(g, T \ {p}) \in Int
      BY <3>1, SumIsInt
    <3>4. SumFunctionOnSet(h, T \ {p})
            = SumFunctionOnSet(f, T \ {p}) + SumFunctionOnSet(g, T \ {p})
      BY <1>1, <3>2
    <3>5. f[p] \in Int /\ g[p] \in Int /\ h[p] = f[p] + g[p]
      BY <3>2
    <3>6. QED
      BY <3>2, <3>3, <3>4, <3>5
  <2>3. QED
    BY <2>1, <2>2
<1>2. F = SUBSET S
  <2>1. F \subseteq SUBSET S
    OBVIOUS
  <2>2. QED
    <3> HIDE DEF F
    <3> QED BY <1>1, <2>1, SubsetInduction
<1>3. QED
  BY <1>2

\* A sum of natural numbers is one.
LEMMA SumIsNat ==
  ASSUME NEW f, NEW S, IsFiniteSet(S), \A x \in S : f[x] \in Nat
  PROVE  SumFunctionOnSet(f, S) \in Nat
<1> DEFINE F == {s \in SUBSET S : SumFunctionOnSet(f, s) \in Nat}
<1>1. ASSUME NEW T \in SUBSET S, \A x \in T : T \ {x} \in F
      PROVE  T \in F
  <2>1. CASE T = {}
    BY <2>1, SumEmpty
  <2>2. CASE T # {}
    <3>1. IsFiniteSet(T)
      BY FS_Subset
    <3>2. /\ Pick(T) \in T
          /\ SumFunctionOnSet(f, T) = f[Pick(T)] + SumFunctionOnSet(f, T \ {Pick(T)})
      BY <2>2, <3>1, SumEquation
    <3>3. QED
      BY <1>1, <3>2
  <2>3. QED
    BY <2>1, <2>2
<1>2. F = SUBSET S
  <2>1. F \subseteq SUBSET S
    OBVIOUS
  <2>2. QED
    <3> HIDE DEF F
    <3> QED BY <1>1, <2>1, SubsetInduction
<1>3. QED
  BY <1>2

\* Greater values have a greater sum.
LEMMA SumMonotonic ==
  ASSUME NEW f, NEW g, NEW S, IsFiniteSet(S),
         \A x \in S : f[x] \in Int /\ g[x] \in Int /\ f[x] <= g[x]
  PROVE  SumFunctionOnSet(f, S) <= SumFunctionOnSet(g, S)
<1> DEFINE d == [x \in S |-> g[x] - f[x]]
<1>1. \A x \in S : f[x] \in Int /\ d[x] \in Int /\ d[x] \in Nat /\ g[x] = f[x] + d[x]
  OBVIOUS
<1> HIDE DEF d
<1>2. SumFunctionOnSet(g, S) = SumFunctionOnSet(f, S) + SumFunctionOnSet(d, S)
  BY <1>1, SumPlus
<1>3. SumFunctionOnSet(d, S) \in Nat
  BY <1>1, SumIsNat
<1>4. SumFunctionOnSet(f, S) \in Int
  BY SumIsInt
<1>5. QED
  BY <1>2, <1>3, <1>4

\* Two functions that differ at one place.
LEMMA SumChange ==
  ASSUME NEW f, NEW g, NEW S, IsFiniteSet(S), NEW x \in S,
         \A y \in S : f[y] \in Int /\ g[y] \in Int,
         \A y \in S \ {x} : f[y] = g[y]
  PROVE  SumFunctionOnSet(g, S) = SumFunctionOnSet(f, S) + g[x] - f[x]
<1>1. IsFiniteSet(S \ {x})
  BY FS_RemoveElement
<1>2. SumFunctionOnSet(f, S) = f[x] + SumFunctionOnSet(f, S \ {x})
  BY SumRemove
<1>3. SumFunctionOnSet(g, S) = g[x] + SumFunctionOnSet(g, S \ {x})
  BY SumRemove
<1>4. SumFunctionOnSet(f, S \ {x}) = SumFunctionOnSet(g, S \ {x})
  BY <1>1, SumSame
<1>5. SumFunctionOnSet(f, S \ {x}) \in Int
  BY <1>1, SumIsInt
<1>6. QED
  BY <1>2, <1>3, <1>4, <1>5

\* The sum of zeros.
LEMMA SumZero ==
  ASSUME NEW f, NEW S, IsFiniteSet(S), \A x \in S : f[x] = 0
  PROVE  SumFunctionOnSet(f, S) = 0
<1>1. \A x \in S : f[x] \in Int /\ f[x] = f[x] + f[x]
  OBVIOUS
<1>2. SumFunctionOnSet(f, S) = SumFunctionOnSet(f, S) + SumFunctionOnSet(f, S)
  BY <1>1, SumPlus
<1>3. SumFunctionOnSet(f, S) \in Int
  BY <1>1, SumIsInt
<1>4. ASSUME NEW n \in Int, n = n + n PROVE n = 0
  BY <1>4
<1>5. QED
  BY <1>2, <1>3, <1>4

\* Two parts of a set are summed apart.
LEMMA SumUnion ==
  ASSUME NEW f, NEW A, NEW B, IsFiniteSet(A), IsFiniteSet(B), A \intersect B = {},
         \A x \in A \union B : f[x] \in Int
  PROVE  SumFunctionOnSet(f, A \union B) = SumFunctionOnSet(f, A) + SumFunctionOnSet(f, B)
<1> DEFINE F == {s \in SUBSET B : SumFunctionOnSet(f, A \union s)
                                    = SumFunctionOnSet(f, A) + SumFunctionOnSet(f, s)}
<1>1. ASSUME NEW T \in SUBSET B, \A x \in T : T \ {x} \in F
      PROVE  T \in F
  <2>1. SumFunctionOnSet(f, A) \in Int
    BY SumIsInt
  <2>2. CASE T = {}
    <3>1. A \union T = A
      BY <2>2
    <3>2. SumFunctionOnSet(f, T) = 0
      BY <2>2, SumEmpty
    <3>3. QED
      BY <2>1, <3>1, <3>2
  <2>3. CASE T # {}
    <3>1. PICK x \in T : TRUE
      BY <2>3
    <3> DEFINE R == T \ {x}
    <3>2. /\ IsFiniteSet(T) /\ IsFiniteSet(R) /\ IsFiniteSet(A \union R)
          /\ T = R \union {x} /\ x \notin R /\ x \notin A \union R
          /\ A \union T = (A \union R) \union {x}
      <4>1. IsFiniteSet(T) /\ IsFiniteSet(R)
        BY FS_Subset
      <4>2. IsFiniteSet(A \union R)
        BY <4>1, FS_Union
      <4>3. QED
        BY <4>1, <4>2, <3>1
    <3>3. \A y \in R \union {x} : f[y] \in Int
      BY <3>2
    <3>4. \A y \in (A \union R) \union {x} : f[y] \in Int
      BY <3>2
    <3>5. SumFunctionOnSet(f, A \union R) = SumFunctionOnSet(f, A) + SumFunctionOnSet(f, R)
      BY <1>1, <3>1
    <3> HIDE DEF R
    <3>6. SumFunctionOnSet(f, T) = SumFunctionOnSet(f, R) + f[x]
      BY <3>2, <3>3, SumAdd
    <3>7. SumFunctionOnSet(f, A \union T) = SumFunctionOnSet(f, A \union R) + f[x]
      BY <3>2, <3>4, SumAdd
    <3>8. SumFunctionOnSet(f, R) \in Int /\ f[x] \in Int
      BY <3>2, <3>3, SumIsInt
    <3>9. SumFunctionOnSet(f, A \union T) = SumFunctionOnSet(f, A) + SumFunctionOnSet(f, T)
      BY <2>1, <3>5, <3>6, <3>7, <3>8
    <3>10. QED
      BY <3>9
  <2>4. QED
    BY <2>2, <2>3
<1>2. F = SUBSET B
  <2>1. F \subseteq SUBSET B
    OBVIOUS
  <2>2. QED
    <3> HIDE DEF F
    <3> QED BY <1>1, <2>1, SubsetInduction
<1>3. QED
  BY <1>2

\* The sum of a constant.
LEMMA SumConstant ==
  ASSUME NEW f, NEW S, IsFiniteSet(S), NEW c \in Int, \A x \in S : f[x] = c
  PROVE  SumFunctionOnSet(f, S) = Cardinality(S) * c
<1> DEFINE F == {s \in SUBSET S : SumFunctionOnSet(f, s) = Cardinality(s) * c}
<1>1. ASSUME NEW T \in SUBSET S, \A x \in T : T \ {x} \in F
      PROVE  T \in F
  <2>1. CASE T = {}
    <3>1. Cardinality(T) = 0 /\ SumFunctionOnSet(f, T) = 0
      BY <2>1, FS_EmptySet, SumEmpty
    <3>2. QED
      BY <3>1
  <2>2. CASE T # {}
    <3>1. PICK x \in T : TRUE
      BY <2>2
    <3> DEFINE R == T \ {x}
    <3>2. IsFiniteSet(T) /\ IsFiniteSet(R)
      BY FS_Subset
    <3>3. Cardinality(T) \in Nat /\ Cardinality(R) = Cardinality(T) - 1
      BY <3>1, <3>2, FS_RemoveElement, FS_CardinalityType
    <3>4. \A y \in T : f[y] \in Int
      OBVIOUS
    <3>5. SumFunctionOnSet(f, T) = f[x] + SumFunctionOnSet(f, R)
      BY <3>1, <3>2, <3>4, SumRemove
    <3>6. SumFunctionOnSet(f, R) = Cardinality(R) * c
      BY <1>1, <3>1
    <3>7. f[x] = c
      BY <3>1
    <3> HIDE DEF R
    <3>8. SumFunctionOnSet(f, T) = Cardinality(T) * c
      <4>1. ASSUME NEW n \in Nat PROVE c + (n - 1) * c = n * c
        OBVIOUS
      <4>2. QED
        BY <3>3, <3>5, <3>6, <3>7, <4>1
    <3>9. QED
      BY <3>8
  <2>3. QED
    BY <2>1, <2>2
<1>2. F = SUBSET S
  <2>1. F \subseteq SUBSET S
    OBVIOUS
  <2>2. QED
    <3> HIDE DEF F
    <3> QED BY <1>1, <2>1, SubsetInduction
<1>3. QED
  BY <1>2

\* Equal shares of a value never add up to more than it.
LEMMA SumOfShares ==
  ASSUME NEW f, NEW S, IsFiniteSet(S), NEW v \in Int,
         \A x \in S : f[x] = v \div Cardinality(S)
  PROVE  S # {} => v \div Cardinality(S) \in Int /\ SumFunctionOnSet(f, S) <= v
<1> SUFFICES ASSUME S # {} PROVE v \div Cardinality(S) \in Int /\ SumFunctionOnSet(f, S) <= v
  OBVIOUS
<1> DEFINE n == Cardinality(S)
           c == v \div n
<1>1. n \in Nat /\ n > 0
  BY FS_CardinalityType, FS_EmptySet
<1>2. c \in Int /\ n * c <= v
  <2>1. ASSUME NEW m \in Nat, m > 0 PROVE v \div m \in Int /\ m * (v \div m) <= v
    BY <2>1
  <2> HIDE DEF n
  <2>2. QED
    BY <1>1, <2>1
<1>3. \A x \in S : f[x] = c
  OBVIOUS
<1> HIDE DEF c
<1>4. SumFunctionOnSet(f, S) = n * c
  BY <1>2, <1>3, SumConstant
<1>5. QED
  BY <1>2, <1>4 DEF c

\* What is zero outside a part of the set need not be summed.
LEMMA SumOverPart ==
  ASSUME NEW f, NEW S, IsFiniteSet(S), NEW T, T \subseteq S,
         \A x \in S : f[x] \in Int, \A x \in S \ T : f[x] = 0
  PROVE  SumFunctionOnSet(f, S) = SumFunctionOnSet(f, T)
<1> DEFINE R == S \ T
<1>1. IsFiniteSet(T) /\ IsFiniteSet(R)
  BY FS_Subset
<1>2. T \union R = S /\ T \intersect R = {}
  OBVIOUS
<1>3. \A x \in R : f[x] = 0
  OBVIOUS
<1> HIDE DEF R
<1>4. SumFunctionOnSet(f, T \union R) = SumFunctionOnSet(f, T) + SumFunctionOnSet(f, R)
  BY <1>1, <1>2, SumUnion
<1>5. SumFunctionOnSet(f, R) = 0
  BY <1>1, <1>3, SumZero
<1>6. SumFunctionOnSet(f, T) \in Int
  BY <1>1, <1>2, SumIsInt
<1>7. SumFunctionOnSet(f, T \union R) = SumFunctionOnSet(f, T)
  BY <1>4, <1>5, <1>6
<1>8. QED
  BY <1>2, <1>7, Zenon

\* One more element, summed by a function that agrees on the others.
LEMMA SumGrows ==
  ASSUME NEW f, NEW g, NEW S, IsFiniteSet(S), NEW x, x \notin S,
         \A y \in S : f[y] \in Int /\ g[y] = f[y], g[x] \in Int
  PROVE  SumFunctionOnSet(g, S \union {x}) = SumFunctionOnSet(f, S) + g[x]
<1>1. SumFunctionOnSet(g, S \union {x}) = SumFunctionOnSet(g, S) + g[x]
  BY SumAdd
<1>2. SumFunctionOnSet(g, S) = SumFunctionOnSet(f, S)
  BY SumSame
<1>3. QED
  BY <1>1, <1>2
\* A sum whose summands are found again, each at a place of its own, in another sum of
\* natural numbers is at most that.
LEMMA SumInjected ==
  ASSUME NEW S, IsFiniteSet(S), NEW T, IsFiniteSet(T), NEW f, NEW g, NEW h,
         \A x \in S : f[x] \in Nat, \A y \in T : g[y] \in Nat,
         \A x \in S : h[x] \in T /\ f[x] <= g[h[x]],
         \A x, y \in S : h[x] = h[y] => x = y
  PROVE  SumFunctionOnSet(f, S) <= SumFunctionOnSet(g, T)
<1> DEFINE Image(A) == {h[x] : x \in A}
           F == {A \in SUBSET S : SumFunctionOnSet(f, A) <= SumFunctionOnSet(g, Image(A))}
<1>1. ASSUME NEW A \in SUBSET S, \A x \in A : A \ {x} \in F
      PROVE  A \in F
  <2>1. CASE A = {}
    <3>1. Image(A) = {}
      BY <2>1
    <3>2. SumFunctionOnSet(f, {}) = 0 /\ SumFunctionOnSet(g, {}) = 0
      BY SumEmpty
    <3>3. SumFunctionOnSet(f, A) <= SumFunctionOnSet(g, Image(A))
      BY <2>1, <3>1, <3>2
    <3>4. QED
      BY <3>3
  <2>2. CASE A # {}
    <3>1. PICK x \in A : TRUE
      BY <2>2
    <3> DEFINE B == A \ {x}
    <3>2. B \in F /\ Image(B) = Image(A) \ {h[x]} /\ h[x] \in Image(A)
      BY <1>1, <3>1
    <3>3. IsFiniteSet(A) /\ IsFiniteSet(B) /\ IsFiniteSet(Image(A)) /\ IsFiniteSet(Image(B))
      BY FS_Subset
    <3>4. SumFunctionOnSet(f, A) = f[x] + SumFunctionOnSet(f, B)
      BY <3>1, <3>3, SumRemove
    <3>5. SumFunctionOnSet(g, Image(A)) = g[h[x]] + SumFunctionOnSet(g, Image(B))
      <4>1. \A y \in Image(A) : g[y] \in Int
        OBVIOUS
      <4> HIDE DEF Image
      <4>2. SumFunctionOnSet(g, Image(A))
              = g[h[x]] + SumFunctionOnSet(g, Image(A) \ {h[x]})
        BY <3>2, <3>3, <4>1, SumRemove
      <4>3. QED
        BY <3>2, <4>2
    <3>6. /\ SumFunctionOnSet(f, B) \in Nat /\ SumFunctionOnSet(g, Image(B)) \in Nat
      <4>1. /\ \A y \in Image(B) : g[y] \in Nat
            /\ \A y \in B : f[y] \in Nat
        OBVIOUS
      <4> HIDE DEF Image, B
      <4>2. QED
        BY <3>3, <4>1, SumIsNat
    <3>7. /\ f[x] \in Nat /\ g[h[x]] \in Nat /\ f[x] <= g[h[x]]
          /\ SumFunctionOnSet(f, B) <= SumFunctionOnSet(g, Image(B))
      BY <3>1, <3>2
    <3>8. SumFunctionOnSet(f, A) <= SumFunctionOnSet(g, Image(A))
      <4> HIDE DEF Image, B
      <4> QED BY <3>4, <3>5, <3>6, <3>7
    <3>9. QED
      BY <3>8
  <2>3. QED
    BY <2>1, <2>2
<1>2. F = SUBSET S
  <2>1. F \subseteq SUBSET S
    OBVIOUS
  <2> HIDE DEF F
  <2>2. QED
    BY <1>1, <2>1, SubsetInduction
<1>3. SumFunctionOnSet(f, S) <= SumFunctionOnSet(g, Image(S))
  BY <1>2
<1>4. SumFunctionOnSet(g, T) = SumFunctionOnSet(g, Image(S)) + SumFunctionOnSet(g, T \ Image(S))
  <2>1. /\ Image(S) \union (T \ Image(S)) = T /\ Image(S) \intersect (T \ Image(S)) = {}
        /\ Image(S) \subseteq T
    OBVIOUS
  <2>2. IsFiniteSet(Image(S)) /\ IsFiniteSet(T \ Image(S))
    BY <2>1, FS_Subset
  <2> HIDE DEF Image
  <2>3. SumFunctionOnSet(g, Image(S) \union (T \ Image(S)))
          = SumFunctionOnSet(g, Image(S)) + SumFunctionOnSet(g, T \ Image(S))
    BY <2>1, <2>2, SumUnion
  <2>4. QED
    BY <2>1, <2>3, Zenon
<1>5. /\ SumFunctionOnSet(f, S) \in Nat /\ SumFunctionOnSet(g, Image(S)) \in Nat
      /\ SumFunctionOnSet(g, T \ Image(S)) \in Nat
  <2>1. Image(S) \subseteq T
    OBVIOUS
  <2>2. IsFiniteSet(Image(S)) /\ IsFiniteSet(T \ Image(S))
    BY <2>1, FS_Subset
  <2> HIDE DEF Image
  <2>3. QED
    BY <2>1, <2>2, SumIsNat
<1>6. QED
  <2> HIDE DEF Image
  <2> QED BY <1>3, <1>4, <1>5

\* A sum of multiples.
LEMMA SumScaled ==
  ASSUME NEW f, NEW g, NEW S, IsFiniteSet(S), NEW c \in Int,
         \A x \in S : f[x] \in Int /\ g[x] = c * f[x]
  PROVE  SumFunctionOnSet(g, S) = c * SumFunctionOnSet(f, S)
<1> DEFINE F == {T \in SUBSET S : SumFunctionOnSet(g, T) = c * SumFunctionOnSet(f, T)}
<1>1. ASSUME NEW T \in SUBSET S, \A x \in T : T \ {x} \in F
      PROVE  T \in F
  <2>1. CASE T = {}
    BY <2>1, SumEmpty
  <2>2. CASE T # {}
    <3>1. PICK x \in T : TRUE
      BY <2>2
    <3>2. IsFiniteSet(T) /\ IsFiniteSet(T \ {x})
      BY FS_Subset
    <3>3. /\ f[x] \in Int /\ g[x] = c * f[x] /\ c * f[x] \in Int
          /\ \A y \in T : f[y] \in Int /\ g[y] \in Int
      BY <3>1
    <3>4. SumFunctionOnSet(g, T \ {x}) = c * SumFunctionOnSet(f, T \ {x})
      BY <1>1, <3>1
    <3>5. /\ SumFunctionOnSet(g, T) = g[x] + SumFunctionOnSet(g, T \ {x})
          /\ SumFunctionOnSet(f, T) = f[x] + SumFunctionOnSet(f, T \ {x})
      <4> HIDE DEF F
      <4> QED BY <3>1, <3>2, <3>3, SumRemove
    <3>6. SumFunctionOnSet(f, T \ {x}) \in Int
      <4>1. \A y \in T \ {x} : f[y] \in Int
        BY <3>3
      <4> QED BY <3>2, <4>1, SumIsInt
    <3>7. ASSUME NEW a \in Int, NEW b \in Int PROVE c * a + c * b = c * (a + b)
      OBVIOUS
    <3>8. SumFunctionOnSet(g, T) = c * SumFunctionOnSet(f, T)
      BY <3>3, <3>4, <3>5, <3>6, <3>7
    <3>9. QED
      BY <3>8
  <2>3. QED
    BY <2>1, <2>2
<1>2. F = SUBSET S
  <2>1. F \subseteq SUBSET S
    OBVIOUS
  <2> HIDE DEF F
  <2> QED BY <1>1, <2>1, SubsetInduction
<1>3. QED
  BY <1>2

\* Finite sets, no two of which have a member in common, are together as large as the sum
\* of their sizes.
LEMMA SumOfSizes ==
  ASSUME NEW I, IsFiniteSet(I), NEW part, NEW size,
         \A i \in I : IsFiniteSet(part[i]) /\ size[i] = Cardinality(part[i]),
         \A i, j \in I : i # j => part[i] \intersect part[j] = {}
  PROVE  /\ IsFiniteSet(UNION {part[i] : i \in I})
         /\ Cardinality(UNION {part[i] : i \in I}) = SumFunctionOnSet(size, I)
<1> DEFINE all(J) == UNION {part[i] : i \in J}
           F == {J \in SUBSET I : /\ IsFiniteSet(all(J))
                                  /\ Cardinality(all(J)) = SumFunctionOnSet(size, J)}
<1>1. ASSUME NEW J \in SUBSET I, \A i \in J : J \ {i} \in F
      PROVE  J \in F
  <2>1. CASE J = {}
    <3>1. all(J) = {}
      BY <2>1
    <3> HIDE DEF all
    <3>2. IsFiniteSet(all(J)) /\ Cardinality(all(J)) = SumFunctionOnSet(size, J)
      BY <2>1, <3>1, SumEmpty, FS_EmptySet
    <3>3. QED
      BY <3>2
  <2>2. CASE J # {}
    <3>1. PICK i \in J : TRUE
      BY <2>2
    <3> DEFINE rest == J \ {i}
    <3>2. all(J) = all(rest) \union part[i] /\ all(rest) \intersect part[i] = {}
      BY <3>1
    <3>3. IsFiniteSet(all(rest)) /\ Cardinality(all(rest)) = SumFunctionOnSet(size, rest)
      BY <1>1, <3>1
    <3>4. IsFiniteSet(part[i]) /\ size[i] = Cardinality(part[i])
      BY <3>1
    <3>5. IsFiniteSet(J) /\ \A j \in J : size[j] \in Int
      BY FS_Subset, FS_CardinalityType
    <3>6. SumFunctionOnSet(size, J) = size[i] + SumFunctionOnSet(size, rest)
      <4> HIDE DEF F, all
      <4> QED BY <3>1, <3>5, SumRemove
    <3> HIDE DEF all, rest
    <3>7. IsFiniteSet(all(J)) /\ Cardinality(all(J)) = Cardinality(all(rest)) + Cardinality(part[i])
      <4>1. /\ IsFiniteSet(all(rest) \union part[i])
            /\ Cardinality(all(rest) \union part[i]) = Cardinality(all(rest))
                 + Cardinality(part[i]) - Cardinality(all(rest) \intersect part[i])
        BY <3>3, <3>4, FS_Union
      <4>2. /\ Cardinality(all(rest) \intersect part[i]) = 0
            /\ Cardinality(all(rest)) \in Nat /\ Cardinality(part[i]) \in Nat
        BY <3>2, <3>3, <3>4, FS_EmptySet, FS_CardinalityType
      <4>3. QED
        BY <3>2, <4>1, <4>2
    <3>8. Cardinality(all(rest)) \in Nat /\ Cardinality(part[i]) \in Nat
      BY <3>3, <3>4, FS_CardinalityType
    <3>9. Cardinality(all(J)) = SumFunctionOnSet(size, J)
      BY <3>3, <3>4, <3>6, <3>7, <3>8
    <3>10. QED
      BY <3>7, <3>9
  <2>3. QED
    BY <2>1, <2>2
<1>2. F = SUBSET I
  <2>1. F \subseteq SUBSET I
    OBVIOUS
  <2> HIDE DEF F
  <2> QED BY <1>1, <2>1, SubsetInduction
<1>3. I \in F
  BY <1>2
<1>4. QED
  BY <1>3
===========================================================================
