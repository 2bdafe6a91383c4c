---------------------------- MODULE BacktestProofs ----------------------------
(***************************************************************************)
(* The properties of the backtest engines, proved for every market, every  *)
(* cost model and constraint, every set of dividends, every decision and   *)
(* every answer of the gate.                                               *)
(***************************************************************************)
EXTENDS Backtest, FiniteSetTheorems, WellFoundedInduction, TLAPS

(* Sums over finite sets: the recursive definition behind the fold of the  *)
(* library has a solution, found by induction on the size of the sets.     *)

\* Induction over the naturals, on a set instead of a predicate.
LEMMA NatSetInduction ==
  ASSUME NEW S, 0 \in S, \A n \in Nat : n \in S => n + 1 \in S
  PROVE  Nat \subseteq S
<1> DEFINE T == Nat \ S
<1> SUFFICES ASSUME T # {} PROVE FALSE  OBVIOUS
<1>1. IsWellFoundedOn(OpToRel(<, Nat), Nat)  BY NatLessThanWellFounded
<1>2. T \subseteq Nat  OBVIOUS
<1>3. \E x \in T : \A y \in T : ~ (<<y, x>> \in OpToRel(<, Nat))
  <2> HIDE DEF T
  <2> QED  BY <1>1, <1>2, WFMin
<1>4. PICK x \in T : \A y \in T : ~ (<<y, x>> \in OpToRel(<, Nat))  BY <1>3
<1>5. x \in Nat /\ x # 0 /\ x - 1 \in Nat  OBVIOUS
<1>6. x - 1 \in T  BY <1>5
<1>7. <<x - 1, x>> \in OpToRel(<, Nat)  BY <1>5 DEF OpToRel
<1> QED  BY <1>4, <1>6, <1>7

\* Induction over the subsets of a finite set: what holds of a set whenever it holds of
\* the set without any one of its members holds of all.
LEMMA SubsetInduction ==
  ASSUME NEW U, IsFiniteSet(U), NEW P,
         \A T \in SUBSET U : (\A x \in T : T \ {x} \in P) => T \in P
  PROVE  SUBSET U \subseteq P
<1> DEFINE S == {n \in Nat : \A T \in SUBSET U : Cardinality(T) = n => T \in P}
<1>1. 0 \in S
  <2> SUFFICES ASSUME NEW T \in SUBSET U, Cardinality(T) = 0 PROVE T \in P  OBVIOUS
  <2>1. T = {}  BY FS_Subset, FS_EmptySet
  <2> QED  BY <2>1
<1>2. ASSUME NEW n \in Nat, n \in S PROVE n + 1 \in S
  <2> SUFFICES ASSUME NEW T \in SUBSET U, Cardinality(T) = n + 1 PROVE T \in P  OBVIOUS
  <2>1. IsFiniteSet(T)  BY FS_Subset
  <2>2. ASSUME NEW x \in T PROVE T \ {x} \in P
    <3>1. Cardinality(T \ {x}) = Cardinality(T) - 1  BY <2>1, FS_RemoveElement
    <3>2. T \ {x} \in SUBSET U  OBVIOUS
    <3>3. Cardinality(T \ {x}) = n  BY <3>1
    <3> QED  BY <1>2, <3>2, <3>3
  <2> QED  BY <2>2
<1>3. Nat \subseteq S
  <2> HIDE DEF S
  <2> QED  BY <1>1, <1>2, NatSetInduction
<1>4. ASSUME NEW T \in SUBSET U PROVE T \in P
  <2>1. Cardinality(T) \in Nat  BY FS_Subset, FS_CardinalityType
  <2> QED  BY <1>3, <2>1
<1> QED  BY <1>4

First(T) == CHOOSE x \in T : TRUE
Adds(f, C, h) == h = [T \in C |-> IF T = {} THEN 0 ELSE f[First(T)] + h[T \ {First(T)}]]

Fold(f, S) == CHOOSE h : Adds(f, SUBSET S, h)

\* The sum of the library is the fold of its recursive definition.
LEMMA SumIsFold == ASSUME NEW f, NEW S PROVE SumFunctionOnSet(f, S) = Fold(f, S)[S]
BY DEF SumFunctionOnSet, FoldFunctionOnSet, MapThenFoldSet, Fold, Adds, First

\* The element a fold takes first is one of the set.
LEMMA FirstIsIn == ASSUME NEW T, T # {} PROVE First(T) \in T  BY DEF First

\* Such a fold exists over the subsets of a finite set.
LEMMA FoldExists ==
  ASSUME NEW f, NEW S, IsFiniteSet(S)
  PROVE  \E h : Adds(f, SUBSET S, h)
<1> DEFINE Small(n) == {T \in SUBSET S : Cardinality(T) <= n}
           N == {n \in Nat : \E h : Adds(f, Small(n), h)}
<1>0. \A T \in SUBSET S : IsFiniteSet(T) /\ Cardinality(T) \in Nat /\ Cardinality(T) <= Cardinality(S)
  BY FS_Subset, FS_CardinalityType
<1>1. 0 \in N
  <2> DEFINE h == [T \in Small(0) |-> 0]
  <2>1. \A T \in Small(0) : T = {}  BY <1>0, FS_EmptySet
  <2>2. Adds(f, Small(0), h)  BY <2>1 DEF Adds
  <2> QED  BY <2>2
<1>2. ASSUME NEW n \in Nat, n \in N PROVE n + 1 \in N
  <2>1. PICK h : Adds(f, Small(n), h)  BY <1>2
  <2> DEFINE g == [T \in Small(n + 1) |-> IF T = {} THEN 0 ELSE f[First(T)] + h[T \ {First(T)}]]
  <2>2. ASSUME NEW T \in Small(n + 1), T # {} PROVE g[T \ {First(T)}] = h[T \ {First(T)}]
    <3> DEFINE R == T \ {First(T)}
    <3>1. R \in SUBSET S /\ Cardinality(R) <= n
      BY <1>0, <2>2, FirstIsIn, FS_RemoveElement
    <3>2. R \in Small(n) /\ R \in Small(n + 1)  BY <1>0, <3>1
    <3>3. h[R] = IF R = {} THEN 0 ELSE f[First(R)] + h[R \ {First(R)}]
      <4> HIDE DEF R, Small
      <4> QED  BY <2>1, <3>2 DEF Adds
    <3>4. g[R] = IF R = {} THEN 0 ELSE f[First(R)] + h[R \ {First(R)}]
      <4> HIDE DEF R, Small
      <4> QED  BY <3>2
    <3> QED  BY <3>3, <3>4
  <2>3. Adds(f, Small(n + 1), g)
    <3> HIDE DEF Small
    <3> QED  BY <2>2 DEF Adds
  <2>4. \E k : Adds(f, Small(n + 1), k)
    <3> HIDE DEF g
    <3> QED  BY <2>3
  <2> QED  BY <2>4
<1>3. Nat \subseteq N
  <2> HIDE DEF N
  <2> QED  BY <1>1, <1>2, NatSetInduction
<1>4. Small(Cardinality(S)) = SUBSET S  BY <1>0
<1>5. Cardinality(S) \in N  BY <1>0, <1>3, FS_CardinalityType
<1> QED  BY <1>4, <1>5

\* Two such folds agree where both are defined.
LEMMA FoldsAgree ==
  ASSUME NEW f, NEW S, NEW R, IsFiniteSet(S), NEW h, NEW g,
         Adds(f, SUBSET S, h), Adds(f, SUBSET R, g), R \subseteq S
  PROVE  g[R] = h[R]
<1> DEFINE P == {T \in SUBSET R : g[T] = h[T]}
<1>1. IsFiniteSet(R)  BY FS_Subset
<1>2. ASSUME NEW T \in SUBSET R, \A x \in T : T \ {x} \in P PROVE T \in P
  <2>1. /\ g[T] = IF T = {} THEN 0 ELSE f[First(T)] + g[T \ {First(T)}]
        /\ h[T] = IF T = {} THEN 0 ELSE f[First(T)] + h[T \ {First(T)}]
    BY DEF Adds
  <2>2. T # {} => g[T \ {First(T)}] = h[T \ {First(T)}]  BY <1>2, FirstIsIn
  <2> QED  BY <2>1, <2>2
<1>3. SUBSET R \subseteq P
  <2> HIDE DEF P
  <2> QED  BY <1>1, <1>2, SubsetInduction
<1>4. R \in P  BY <1>3
<1> QED  BY <1>4

\* The function CHOOSE names satisfies the equation it is chosen by.
LEMMA FoldAdds ==
  ASSUME NEW f, NEW S, IsFiniteSet(S)
  PROVE  Adds(f, SUBSET S, Fold(f, S))
BY FoldExists DEF Fold

\* A sum over nothing is 0.
LEMMA SumOfNone == ASSUME NEW f PROVE SumFunctionOnSet(f, {}) = 0
<1>1. Adds(f, SUBSET {}, Fold(f, {}))  BY FS_EmptySet, FoldAdds
<1> QED  BY <1>1, SumIsFold DEF Adds

\* A sum is the element taken first and the sum of the rest.
LEMMA SumOfRest ==
  ASSUME NEW f, NEW S, IsFiniteSet(S), S # {}
  PROVE  SumFunctionOnSet(f, S) = f[First(S)] + SumFunctionOnSet(f, S \ {First(S)})
<1>0. PICK R : R = S \ {First(S)}  OBVIOUS
<1>1. IsFiniteSet(R) /\ R \subseteq S  BY <1>0, FS_Subset
<1>2. Adds(f, SUBSET S, Fold(f, S)) /\ Adds(f, SUBSET R, Fold(f, R))  BY <1>1, FoldAdds
<1>3. Fold(f, R)[R] = Fold(f, S)[R]
  <2>1. PICK h : h = Fold(f, S)  OBVIOUS
  <2>2. PICK g : g = Fold(f, R)  OBVIOUS
  <2>3. Adds(f, SUBSET S, h) /\ Adds(f, SUBSET R, g)  BY <1>2, <2>1, <2>2
  <2>4. g[R] = h[R] BY <1>1, <2>3, FoldsAgree
  <2> QED BY <2>1, <2>2, <2>4
<1>4. Fold(f, S)[S] = f[First(S)] + Fold(f, S)[R]  BY <1>0, <1>2 DEF Adds
<1> QED  BY <1>0, <1>3, <1>4, SumIsFold

\* A sum of integers is an integer.
LEMMA SumIsInt ==
  ASSUME NEW f, NEW S, IsFiniteSet(S), \A x \in S : f[x] \in Int
  PROVE  SumFunctionOnSet(f, S) \in Int
<1> DEFINE P == {T \in SUBSET S : SumFunctionOnSet(f, T) \in Int}
<1>1. ASSUME NEW T \in SUBSET S, \A x \in T : T \ {x} \in P PROVE T \in P
  <2>1. CASE T = {}  BY <2>1, SumOfNone
  <2>2. CASE T # {}
    <3>1. IsFiniteSet(T) /\ First(T) \in T  BY <2>2, FS_Subset, FirstIsIn
    <3>2. SumFunctionOnSet(f, T \ {First(T)}) \in Int /\ f[First(T)] \in Int  BY <1>1, <3>1
    <3>3. SumFunctionOnSet(f, T) = f[First(T)] + SumFunctionOnSet(f, T \ {First(T)})
      BY <2>2, <3>1, SumOfRest
    <3> QED  BY <3>2, <3>3
  <2> QED  BY <2>1, <2>2
<1>2. SUBSET S \subseteq P
  <2> HIDE DEF P
  <2> QED  BY <1>1, SubsetInduction
<1> QED  BY <1>2

\* A sum of naturals is a natural: nothing held, due or exposed is negative.
LEMMA SumIsNat ==
  ASSUME NEW f, NEW S, IsFiniteSet(S), \A x \in S : f[x] \in Nat
  PROVE  SumFunctionOnSet(f, S) \in Nat
<1> DEFINE P == {T \in SUBSET S : SumFunctionOnSet(f, T) \in Nat}
<1>1. ASSUME NEW T \in SUBSET S, \A x \in T : T \ {x} \in P PROVE T \in P
  <2>1. CASE T = {}  BY <2>1, SumOfNone
  <2>2. CASE T # {}
    <3>1. IsFiniteSet(T) /\ First(T) \in T  BY <2>2, FS_Subset, FirstIsIn
    <3>2. SumFunctionOnSet(f, T \ {First(T)}) \in Nat /\ f[First(T)] \in Nat  BY <1>1, <3>1
    <3>3. SumFunctionOnSet(f, T) = f[First(T)] + SumFunctionOnSet(f, T \ {First(T)})
      BY <2>2, <3>1, SumOfRest
    <3> QED  BY <3>2, <3>3
  <2> QED  BY <2>1, <2>2
<1>2. SUBSET S \subseteq P
  <2> HIDE DEF P
  <2> QED  BY <1>1, SubsetInduction
<1> QED  BY <1>2

\* Whichever element is taken out.
LEMMA SumWithout ==
  ASSUME NEW f, NEW S, IsFiniteSet(S), \A x \in S : f[x] \in Int, NEW a \in S
  PROVE  SumFunctionOnSet(f, S) = f[a] + SumFunctionOnSet(f, S \ {a})
<1> DEFINE Sum(T) == SumFunctionOnSet(f, T)
           P == {T \in SUBSET S : \A x \in T : Sum(T) = f[x] + Sum(T \ {x})}
<1>1. ASSUME NEW T \in SUBSET S, \A x \in T : T \ {x} \in P PROVE T \in P
  <2> SUFFICES ASSUME NEW x \in T PROVE Sum(T) = f[x] + Sum(T \ {x})  OBVIOUS
  <2> DEFINE c == First(T)
  <2>0. IsFiniteSet(T) /\ IsFiniteSet(T \ {x})  BY FS_Subset
  <2>1. c \in T /\ Sum(T) = f[c] + Sum(T \ {c})  BY <2>0, SumOfRest, FirstIsIn
  <2>2. CASE c = x  BY <2>1, <2>2
  <2>3. CASE c # x
    <3> DEFINE B == (T \ {c}) \ {x}
    <3>1. x \in T \ {c} /\ c \in T \ {x} /\ B = (T \ {x}) \ {c}  BY <2>1, <2>3
    <3>2. Sum(T \ {c}) = f[x] + Sum(B)  BY <1>1, <2>1, <3>1
    <3>3. Sum(T \ {x}) = f[c] + Sum(B)  BY <1>1, <3>1
    <3>4. IsFiniteSet(B)  BY <2>0, FS_Subset
    <3>5. Sum(B) \in Int /\ f[c] \in Int /\ f[x] \in Int
      <4>1. \A y \in B : f[y] \in Int  OBVIOUS
      <4> HIDE DEF B
      <4> QED  BY <2>1, <3>4, <4>1, SumIsInt
    <3> HIDE DEF B, Sum, c
    <3> QED  BY <2>1, <3>2, <3>3, <3>5
  <2> QED  BY <2>2, <2>3
<1>2. SUBSET S \subseteq P
  <2> HIDE DEF P
  <2> QED  BY <1>1, SubsetInduction
<1> QED  BY <1>2

\* Functions that agree on a set have the same sum over it.
LEMMA SumOfSame ==
  ASSUME NEW f, NEW g, NEW S, IsFiniteSet(S), \A x \in S : f[x] = g[x]
  PROVE  SumFunctionOnSet(f, S) = SumFunctionOnSet(g, S)
<1> DEFINE P == {T \in SUBSET S : SumFunctionOnSet(f, T) = SumFunctionOnSet(g, T)}
<1>1. ASSUME NEW T \in SUBSET S, \A x \in T : T \ {x} \in P PROVE T \in P
  <2>1. CASE T = {}  BY <2>1, SumOfNone
  <2>2. CASE T # {}
    <3>1. IsFiniteSet(T) /\ First(T) \in T  BY <2>2, FS_Subset, FirstIsIn
    <3>2. f[First(T)] = g[First(T)] /\ T \ {First(T)} \in P  BY <1>1, <3>1
    <3> QED  BY <2>2, <3>1, <3>2, SumOfRest
  <2> QED  BY <2>1, <2>2
<1>2. SUBSET S \subseteq P
  <2> HIDE DEF P
  <2> QED  BY <1>1, SubsetInduction
<1> QED  BY <1>2

\* Changing one value by d changes the sum by d: what one trade does to the exposures.
LEMMA SumBump ==
  ASSUME NEW f, NEW g, NEW S, IsFiniteSet(S), \A x \in S : f[x] \in Int, NEW a \in S, NEW d \in Int,
         \A x \in S \ {a} : g[x] = f[x], g[a] = f[a] + d
  PROVE  SumFunctionOnSet(g, S) = SumFunctionOnSet(f, S) + d
<1> DEFINE R == S \ {a}
<1>1. IsFiniteSet(R) /\ \A x \in R : f[x] \in Int /\ g[x] = f[x]  BY FS_Subset
<1>2. SumFunctionOnSet(g, R) = SumFunctionOnSet(f, R) /\ SumFunctionOnSet(f, R) \in Int
  <2> HIDE DEF R
  <2> QED  BY <1>1, SumOfSame, SumIsInt
<1>3. \A x \in S : g[x] \in Int  OBVIOUS
<1>4. /\ SumFunctionOnSet(f, S) = f[a] + SumFunctionOnSet(f, R)
      /\ SumFunctionOnSet(g, S) = g[a] + SumFunctionOnSet(g, R)
  BY <1>3, SumWithout
<1> HIDE DEF R
<1> QED  BY <1>2, <1>4

\* A part is the whole with nothing outside the part.
LEMMA SumOfPart ==
  ASSUME NEW f, NEW S, IsFiniteSet(S), \A x \in S : f[x] \in Int, NEW B \in SUBSET S
  PROVE  SumFunctionOnSet(f, B) = SumFunctionOnSet([x \in S |-> IF x \in B THEN f[x] ELSE 0], S)
<1> DEFINE g == [x \in S |-> IF x \in B THEN f[x] ELSE 0]
           P == {T \in SUBSET S : SumFunctionOnSet(f, T \cap B) = SumFunctionOnSet(g, T)}
<1>0. \A x \in S : g[x] \in Int  OBVIOUS
<1>1. ASSUME NEW T \in SUBSET S, \A x \in T : T \ {x} \in P PROVE T \in P
  <2>1. CASE T = {}  BY <2>1, SumOfNone
  <2>2. CASE T # {}
    <3> DEFINE c == First(T)
               R == T \ {c}
    <3>1. IsFiniteSet(T) /\ IsFiniteSet(T \cap B)  BY FS_Subset
    <3>2. c \in T /\ R \in P  BY <1>1, <2>2, FirstIsIn
    <3>3. SumFunctionOnSet(f, R \cap B) = SumFunctionOnSet(g, R)  BY <3>2
    <3>4. SumFunctionOnSet(g, T) = g[c] + SumFunctionOnSet(g, R)  BY <2>2, <3>1, SumOfRest
    <3>5. SumFunctionOnSet(g, R) \in Int
      <4>1. IsFiniteSet(R) /\ R \subseteq S  BY <3>1, FS_Subset
      <4> HIDE DEF R, g
      <4> QED  BY <1>0, <4>1, SumIsInt
    <3>6. CASE c \in B
      <4>1. (T \cap B) \ {c} = R \cap B /\ c \in T \cap B  BY <3>2, <3>6
      <4>2. SumFunctionOnSet(f, T \cap B) = f[c] + SumFunctionOnSet(f, R \cap B)
        <5>1. SumFunctionOnSet(f, T \cap B) = f[c] + SumFunctionOnSet(f, (T \cap B) \ {c})
          <6>1. \A x \in T \cap B : f[x] \in Int  OBVIOUS
          <6> HIDE DEF c
          <6> QED  BY <3>1, <4>1, <6>1, SumWithout
        <5> QED  BY <4>1, <5>1
      <4>3. g[c] = f[c]  BY <3>2, <3>6
      <4> QED  BY <3>3, <3>4, <4>2, <4>3
    <3>7. CASE c \notin B
      <4>1. T \cap B = R \cap B /\ g[c] = 0  BY <3>2, <3>7
      <4> HIDE DEF g, R, c
      <4>2. SumFunctionOnSet(f, T \cap B) = SumFunctionOnSet(g, T)  BY <3>3, <3>4, <3>5, <4>1
      <4> QED  BY <4>2 DEF R, c
    <3> QED  BY <3>6, <3>7
  <2> QED  BY <2>1, <2>2
<1>2. SUBSET S \subseteq P
  <2> HIDE DEF P
  <2> QED  BY <1>1, SubsetInduction
<1>3. S \cap B = B  OBVIOUS
<1> QED  BY <1>2, <1>3
-----------------------------------------------------------------------------
(* The search by halves. *)

Middle(r) == (r[1] + r[2] + 1) \div 2
Halves(lot, allowed, C, h) ==
  h = [r \in C |-> IF r[1] >= r[2] THEN r[1] * lot
                   ELSE IF Middle(r) * lot \in allowed THEN h[<<Middle(r), r[2]>>]
                   ELSE h[<<r[1], Middle(r) - 1>>]]
Search(top, lot, allowed) == CHOOSE h : Halves(lot, allowed, (0..top) \X (0..top), h)

\* The search of _bounded_quantity as a recursive function of its own.
LEMMA SearchIs ==
  ASSUME NEW maximum, NEW lot, NEW allowed
  PROVE  BoundedQuantity(maximum, lot, allowed) =
           Search(maximum \div lot, lot, allowed)[<<0, maximum \div lot>>]
BY DEF BoundedQuantity, Search, Halves, Middle

\* The middle the search tries lies above the low end and not above the high one.
LEMMA MiddleBetween ==
  ASSUME NEW low \in Nat, NEW high \in Nat, low < high
  PROVE  /\ Middle(<<low, high>>) \in Nat
         /\ low < Middle(<<low, high>>) /\ Middle(<<low, high>>) <= high
<1>1. low + high + 1 \in Int  OBVIOUS
<1>2. PICK m : m = (low + high + 1) \div 2  OBVIOUS
<1>3. m \in Int /\ 2 * m <= low + high + 1 /\ low + high + 1 < 2 * m + 2  BY <1>2
<1>4. m \in Nat /\ low < m /\ m <= high  BY <1>3
<1> QED  BY <1>2, <1>4 DEF Middle

\* The recursive definition of the search has a solution: every range shrinks.
LEMMA SearchExists ==
  ASSUME NEW top \in Nat, NEW lot, NEW allowed
  PROVE  Halves(lot, allowed, (0..top) \X (0..top), Search(top, lot, allowed))
<1> DEFINE All == (0..top) \X (0..top)
           Near(n) == {r \in All : r[2] - r[1] <= n}
           N == {n \in Nat : \E h : Halves(lot, allowed, Near(n), h)}
<1>1. 0 \in N
  <2> DEFINE h == [r \in Near(0) |-> r[1] * lot]
  <2>1. \A r \in Near(0) : r[1] >= r[2]  OBVIOUS
  <2>2. Halves(lot, allowed, Near(0), h)
    <3> HIDE DEF Near
    <3> QED  BY <2>1 DEF Halves
  <2> QED  BY <2>2
<1>2. ASSUME NEW n \in Nat, n \in N PROVE n + 1 \in N
  <2>1. PICK h : Halves(lot, allowed, Near(n), h)  BY <1>2
  <2> DEFINE e(k, r) == IF r[1] >= r[2] THEN r[1] * lot
                        ELSE IF Middle(r) * lot \in allowed THEN k[<<Middle(r), r[2]>>]
                        ELSE k[<<r[1], Middle(r) - 1>>]
             g == [r \in Near(n + 1) |-> e(h, r)]
  <2>2. \A r \in Near(n) : r \in Near(n + 1) /\ g[r] = h[r]
    <3> SUFFICES ASSUME NEW r \in Near(n) PROVE r \in Near(n + 1) /\ g[r] = h[r]  OBVIOUS
    <3>1. r \in Near(n + 1)  OBVIOUS
    <3>2. h[r] = e(h, r)
      <4> HIDE DEF Near
      <4> QED  BY <2>1 DEF Halves
    <3>3. g[r] = e(h, r)
      <4> HIDE DEF Near, e
      <4> QED  BY <3>1
    <3> QED  BY <3>1, <3>2, <3>3
  <2>3. ASSUME NEW r \in Near(n + 1), r[1] < r[2]
        PROVE  <<Middle(r), r[2]>> \in Near(n) /\ <<r[1], Middle(r) - 1>> \in Near(n)
    <3>1. r[1] \in Nat /\ r[2] \in Nat /\ r = <<r[1], r[2]>> /\ r[2] <= top /\ r[2] - r[1] <= n + 1
      OBVIOUS
    <3>2. Middle(r) \in Nat /\ r[1] < Middle(r) /\ Middle(r) <= r[2]  BY <2>3, <3>1, MiddleBetween
    <3> QED  BY <3>1, <3>2
  <2>4. ASSUME NEW r \in Near(n + 1) PROVE e(h, r) = e(g, r)
    <3>1. CASE r[1] >= r[2]  BY <3>1
    <3>2. CASE ~(r[1] >= r[2])
      <4>1. r[1] < r[2]  BY <3>2
      <4>2. /\ h[<<Middle(r), r[2]>>] = g[<<Middle(r), r[2]>>]
            /\ h[<<r[1], Middle(r) - 1>>] = g[<<r[1], Middle(r) - 1>>]
        <5> HIDE DEF g, Near
        <5> QED  BY <2>2, <2>3, <4>1
      <4> HIDE DEF g
      <4> QED  BY <4>2
    <3> QED  BY <3>1, <3>2
  <2>5. Halves(lot, allowed, Near(n + 1), g)
    <3>1. g = [r \in Near(n + 1) |-> e(g, r)]
      <4>1. PICK k : k = g  OBVIOUS
      <4>2. \A r \in Near(n + 1) : e(h, r) = e(k, r)  BY <2>4, <4>1
      <4>3. k = [r \in Near(n + 1) |-> e(k, r)]
        <5>1. k = [r \in Near(n + 1) |-> e(h, r)]  BY <4>1
        <5> HIDE DEF g, e, Near
        <5> QED  BY <4>2, <5>1
      <4> QED  BY <4>1, <4>3
    <3> HIDE DEF g, Near
    <3> QED  BY <3>1 DEF Halves
  <2>6. \E k : Halves(lot, allowed, Near(n + 1), k)
    <3> HIDE DEF g
    <3> QED  BY <2>5
  <2> HIDE DEF Near
  <2> QED  BY <2>6
<1>3. Nat \subseteq N
  <2> HIDE DEF N
  <2> QED  BY <1>1, <1>2, NatSetInduction
<1>4. Near(top) = All  OBVIOUS
<1>5. \E h : Halves(lot, allowed, All, h)  BY <1>3, <1>4
<1> QED  BY <1>5 DEF Search

\* The search ends on a whole number of lots that is 0 or one it was allowed.
LEMMA SearchInRange ==
  ASSUME NEW top \in Nat, NEW lot \in Nat, NEW allowed
  PROVE  \E k \in 0..top : /\ Search(top, lot, allowed)[<<0, top>>] = k * lot
                           /\ k = 0 \/ k * lot \in allowed
<1> DEFINE All == (0..top) \X (0..top)
           f == Search(top, lot, allowed)
           Found(r) == \E k \in 0..top : /\ f[r] = k * lot
                                         /\ k = r[1] \/ k * lot \in allowed
           N == {n \in Nat : \A r \in All : r[2] - r[1] <= n => Found(r)}
<1>0. ASSUME NEW r \in All
      PROVE  f[r] = IF r[1] >= r[2] THEN r[1] * lot
                    ELSE IF Middle(r) * lot \in allowed THEN f[<<Middle(r), r[2]>>]
                    ELSE f[<<r[1], Middle(r) - 1>>]
  <2> HIDE DEF f
  <2>1. Halves(lot, allowed, All, f)  BY SearchExists DEF f
  <2> HIDE DEF All
  <2> QED  BY <2>1 DEF Halves
<1> HIDE DEF f
<1>1. 0 \in N
  <2> SUFFICES ASSUME NEW r \in All, r[2] - r[1] <= 0 PROVE Found(r)  OBVIOUS
  <2>1. r[1] >= r[2] /\ r[1] \in 0..top  OBVIOUS
  <2> QED  BY <1>0, <2>1
<1>2. ASSUME NEW n \in Nat, n \in N PROVE n + 1 \in N
  <2> SUFFICES ASSUME NEW r \in All, r[2] - r[1] <= n + 1 PROVE Found(r)  OBVIOUS
  <2>0. r[1] \in 0..top /\ r[2] \in 0..top /\ r = <<r[1], r[2]>>  OBVIOUS
  <2>1. CASE r[1] >= r[2]  BY <1>0, <2>0, <2>1
  <2>2. CASE r[1] < r[2]
    <3>1. PICK m \in Nat : m = Middle(r) /\ r[1] < m /\ m <= r[2]  BY <2>0, <2>2, MiddleBetween
    <3>2. /\ <<m, r[2]>> \in All /\ r[2] - m <= n
          /\ <<r[1], m - 1>> \in All /\ m - 1 - r[1] <= n
      BY <2>0, <3>1
    <3>3. Found(<<m, r[2]>>) /\ Found(<<r[1], m - 1>>)  BY <1>2, <3>2
    <3>4. f[r] = IF m * lot \in allowed THEN f[<<m, r[2]>>] ELSE f[<<r[1], m - 1>>]
      BY <1>0, <2>0, <2>2, <3>1
    <3>5. CASE m * lot \in allowed
      <4>1. PICK k \in 0..top : /\ f[<<m, r[2]>>] = k * lot
                                /\ k = m \/ k * lot \in allowed  BY <3>3
      <4> QED  BY <3>4, <3>5, <4>1
    <3>6. CASE m * lot \notin allowed
      <4>1. PICK k \in 0..top : /\ f[<<r[1], m - 1>>] = k * lot
                                /\ k = r[1] \/ k * lot \in allowed  BY <3>3
      <4> QED  BY <3>4, <3>6, <4>1
    <3> QED  BY <3>5, <3>6
  <2> QED  BY <2>0, <2>1, <2>2
<1>3. Nat \subseteq N
  <2> HIDE DEF N
  <2> QED  BY <1>1, <1>2, NatSetInduction
<1>4. <<0, top>> \in All /\ top - 0 <= top  OBVIOUS
<1>5. Found(<<0, top>>)  BY <1>3, <1>4
<1> QED  BY <1>5 DEF f

\* What integer division leaves.
LEMMA DivUp ==
  ASSUME NEW n \in Nat, NEW d \in Nat \ {0}
  PROVE  /\ n \div d \in Nat /\ (n \div d) * d <= n /\ n < (n \div d) * d + d
OBVIOUS

\* _bounded_quantity returns at most the maximum, and 0 or a quantity it was allowed
\* (engine_v3.py:_bounded_quantity).
LEMMA BoundedIsAllowed ==
  ASSUME NEW maximum \in Nat, NEW lot \in Nat \ {0}, NEW allowed
  PROVE  /\ BoundedQuantity(maximum, lot, allowed) \in 0..maximum
         /\ \/ BoundedQuantity(maximum, lot, allowed) = 0
            \/ BoundedQuantity(maximum, lot, allowed) \in allowed
<1>1. PICK top \in Nat : top = maximum \div lot /\ top * lot <= maximum  BY DivUp
<1>2. PICK k \in 0..top : /\ Search(top, lot, allowed)[<<0, top>>] = k * lot
                          /\ k = 0 \/ k * lot \in allowed  BY SearchInRange
<1>3. k * lot \in Nat /\ k * lot <= top * lot
  <2>1. (top - k) * lot >= 0  BY <1>2
  <2>2. (top - k) * lot = top * lot - k * lot  BY <1>2
  <2> QED  BY <1>2, <2>1, <2>2
<1>4. BoundedQuantity(maximum, lot, allowed) = k * lot  BY <1>1, <1>2, SearchIs
<1>5. k = 0 => k * lot = 0  OBVIOUS
<1> QED  BY <1>1, <1>2, <1>3, <1>4, <1>5

-----------------------------------------------------------------------------
(* The inductive invariant: the market, the book and the claims are well   *)
(* formed, what is held has a price, a claim stands where its dates put    *)
(* it, the session only adds to the names it has not come to yet, and the  *)
(* limit references are those of the last close.                           *)

Quote == {q \in [open: Nat, close: Nat, volume: Nat, suspended: BOOLEAN, down: Nat, up: Nat] :
            q.open > 0 => q.close > 0}
Known == (Nat \ {0}) \cup {None}
Shares == [Instruments -> Nat]

\* The market: a panel row and a known close for every instrument.
MarketSound ==
  /\ config \in Configs /\ day \in 0..Sessions
  /\ phase \in {"close", "orders", "done", "failed"}
  /\ quote \in [Instruments -> Quote] /\ ahead \in [Instruments -> Quote]
  /\ volume \in Shares
  /\ lastClose \in [Instruments -> Known] /\ reference \in [Instruments -> Known]
\* The book and the orders of the session.
BookSound ==
  /\ shares \in Shares /\ desired \in Shares /\ pending \subseteq Instruments
  /\ arrived \in Shares /\ dayStart \in Shares
  /\ cash \in Int /\ traded \in Nat /\ prevNav \in Nat \ {0}
\* The dividends of the window and what they have brought.
ClaimsSound ==
  /\ version \in Versions
  /\ version < 4 => Ids = {}
  /\ events \in EventSets /\ \A e \in Ids : Schedulable(events[e])
  /\ entitled \in [Ids -> Nat \cup {None}]
  /\ cashDue \in [Ids -> Nat] /\ sharesDue \in [Ids -> Nat]
  /\ received \in [Ids -> [cash: Nat, shares: Nat]]
\* What is held, due or locked has printed a close, or is on the panel it was bought from.
Priced ==
  /\ \A i \in Instruments : shares[i] > 0 =>
       \/ lastClose[i] # None
       \/ IF Chronological THEN phase \in {"orders", "failed"} /\ Row(i) ELSE ahead[i].open > 0
  /\ \A e \in Ids : sharesDue[e] > 0 \/ entitled[e] \notin {None, 0} =>
       lastClose[events[e].instrument] # None

\* No cost model charges a sell more than it brings.
FeesBelowValue == \A c \in Configs : c.commission + c.stamp <= 100

\* Where the dates put an event that is locked up to the close of one session and
\* matured up to the open of another.
DatedEvent(e, closed, opened) ==
  LET accrued == opened >= events[e].ex
      cashTotal == IF accrued THEN entitled[e] * events[e].cash ELSE 0
      shareTotal == IF accrued THEN (entitled[e] * events[e].stock) \div 2 ELSE 0
      paid == 2 * opened >= events[e].pay
      listed == 2 * opened >= events[e].list
  IN /\ (entitled[e] = None) = (closed < events[e].record)
     /\ cashDue[e] = IF paid THEN 0 ELSE cashTotal
     /\ received[e].cash = IF paid THEN cashTotal ELSE 0
     /\ sharesDue[e] = IF listed THEN 0 ELSE shareTotal
     /\ received[e].shares = IF listed THEN shareTotal ELSE 0
\* Before the close of a session its record date is still to be locked.
Dated ==
  phase # "failed" =>
    \A e \in Ids : DatedEvent(e, IF phase = "orders" THEN day - 1 ELSE day, day)
\* What arrived is still there; while an order waits its name has only been added to.
Settled ==
  /\ \A i \in Instruments : arrived[i] <= shares[i]
  /\ phase = "orders" => \A i \in pending :
       IF Chronological THEN shares[i] = dayStart[i] + arrived[i] ELSE arrived[i] = 0
  /\ Chronological \/ FeesBelowValue => cash >= 0
\* The references lag the closes by at most the panel of one execution session.
Fresh ==
  ~Chronological =>
    /\ phase = "orders" => reference = lastClose
    /\ phase = "close" => reference \in {lastClose, Seen(ahead, lastClose)}

IInv == MarketSound /\ BookSound /\ ClaimsSound /\ Priced /\ Dated /\ Settled /\ Fresh

-----------------------------------------------------------------------------
(* What the constants are. *)

\* The fields of a config, each with the range its schema gives it.
LEMMA ConfigIs ==
  ASSUME MarketSound
  PROVE  /\ config.participation \in Nat /\ config.slippage \in Nat /\ config.impact \in Nat
         /\ config.maxImpact \in Nat /\ config.minCommission \in Nat /\ config.commission \in Nat
         /\ config.stamp \in Nat /\ config.limit \in Nat /\ config.single \in Nat
         /\ config.industry \in Nat \cup {NoCap} /\ config.reserve \in 0..100
         /\ config.turnover \in Nat \cup {NoCap} /\ config.stop \in Nat \cup {NoCap}
BY BookAssumption DEF ConfigAssumption, MarketSound

\* A share of an amount is a natural.
LEMMA PctIsNat == ASSUME NEW a \in Nat, NEW r \in Nat PROVE Pct(a, r) \in Nat
<1>1. PICK p \in Nat : p = a * r  OBVIOUS
<1>2. p \div 100 \in Nat  OBVIOUS
<1> QED  BY <1>1, <1>2 DEF Pct

\* Rounding to lots never adds.
LEMMA FloorLotWithin ==
  ASSUME NEW n \in Nat, NEW lot \in Nat \ {0}
  PROVE  FloorLot(n, lot) \in 0..n
BY DivUp DEF FloorLot

\* What the panel shows of an instrument.
LEMMA QuoteIs ==
  ASSUME MarketSound, NEW i \in Instruments
  PROVE  /\ quote[i].open \in Nat /\ quote[i].close \in Nat /\ quote[i].up \in Nat
         /\ quote[i].down \in Nat /\ quote[i].volume \in Nat /\ volume[i] \in Nat
         /\ quote[i].open > 0 => quote[i].close > 0
         /\ ahead[i].open \in Nat /\ ahead[i].close \in Nat /\ ahead[i].volume \in Nat
         /\ ahead[i].open > 0 => ahead[i].close > 0
BY DEF MarketSound, Quote, Shares

\* Every panel of the data is a row of quotes.
LEMMA PanelIsQuotes ==
  ASSUME NEW d \in 1..Sessions, NEW q \in Panel(d)
  PROVE  q \in [Instruments -> Quote]
<1>1. q \in [Instruments -> UNION {Quotes[d][i] : i \in Instruments}]
      /\ \A i \in Instruments : q[i] \in Quotes[d][i]
  BY DEF Panel
<1>2. \A i \in Instruments : q[i] \in Quote
  BY <1>1, MarketAssumption, BookAssumption DEF BarAssumption, Quote
<1> QED  BY <1>1, <1>2

\* Lots are positive whichever the side.
LEMMA LotIs == ASSUME NEW i \in Instruments
  PROVE BuyLot[i] \in Nat \ {0} /\ SellLot[i] \in Nat \ {0} /\ Lot(i) \in Nat \ {0} /\ MinBuy[i] \in Nat
BY BookAssumption DEF LotAssumption, Lot

-----------------------------------------------------------------------------
(* The quantity of an order through the rules. *)

\* The quantity of an order through the rules.
LEMMA RequestedIs ==
  ASSUME BookSound, NEW i \in Instruments
  PROVE  /\ Requested(i) \in Nat
         /\ Side(i) = "sell" => Requested(i) = shares[i] - desired[i]
         /\ Side(i) = "buy" => Requested(i) = desired[i] - shares[i]
BY DEF BookSound, Shares, Requested, Most, Side, Selling

\* Rounding an order, odd liquidations included, never adds.
LEMMA RoundedWithin ==
  ASSUME BookSound, NEW i \in Instruments, NEW n \in Nat
  PROVE  Rounded(i, n) \in 0..n
BY RequestedIs, LotIs, FloorLotWithin DEF Rounded

\* The volume cap leaves at most what was requested, and nothing without a volume.
LEMMA ParticipationWithin ==
  ASSUME MarketSound, BookSound, NEW i \in Instruments
  PROVE  /\ Participation(i) \in 0..Requested(i)
         /\ Participation(i) > 0 => volume[i] > 0
<1>1. /\ config.participation \in Nat /\ volume[i] \in Nat /\ Requested(i) \in Nat
      /\ Lot(i) \in Nat \ {0}
  BY ConfigIs, QuoteIs, RequestedIs, LotIs
<1>2. PICK cap \in Nat : cap = Pct(volume[i], config.participation)  BY <1>1, PctIsNat
<1>3. Rounded(i, cap) \in 0..cap  BY RoundedWithin
<1>4. volume[i] = 0 => cap = 0
  <2>1. volume[i] = 0 => volume[i] * config.participation = 0  BY <1>1
  <2> QED  BY <1>2, <2>1 DEF Pct
<1>5. Participation(i) = Least(Requested(i), Rounded(i, cap))  BY <1>2 DEF Participation
<1> QED  BY <1>1, <1>3, <1>4, <1>5 DEF Least

\* A sell is cut to what was held this morning.
LEMMA TradableWithin ==
  ASSUME MarketSound, BookSound, NEW i \in Instruments
  PROVE  /\ Tradable(i) \in 0..Requested(i)
         /\ Tradable(i) > 0 => volume[i] > 0
         /\ Side(i) = "sell" => Tradable(i) <= dayStart[i]
<1>1. /\ Participation(i) \in 0..Requested(i) /\ Requested(i) \in Nat /\ dayStart[i] \in Nat
      /\ Participation(i) > 0 => volume[i] > 0
  BY ParticipationWithin, RequestedIs DEF BookSound, Shares
<1> QED  BY <1>1 DEF Tradable, Least

\* What is left to trade under the turnover cap is worth at most the budget.
LEMMA TurnoverWithin ==
  ASSUME MarketSound, BookSound, NEW i \in Instruments, Row(i)
  PROVE  /\ WithinTurnover(i) \in 0..Tradable(i)
         /\ config.turnover # NoCap /\ Side(i) = "buy" =>
              WithinTurnover(i) <= TurnoverBudget \div quote[i].open
         /\ config.turnover # NoCap => TurnoverBudget \in Nat
<1>1. /\ Tradable(i) \in 0..Requested(i) /\ Requested(i) \in Nat /\ quote[i].open \in Nat \ {0}
      /\ prevNav \in Nat /\ traded \in Nat
  BY TradableWithin, RequestedIs, QuoteIs DEF BookSound, Row
<1>2. CASE config.turnover = NoCap  BY <1>1, <1>2 DEF WithinTurnover
<1>3. CASE config.turnover # NoCap
  <2>1. config.turnover \in Nat  BY <1>3, ConfigIs
  <2>2. PICK all \in Nat : all = Pct(2 * prevNav, config.turnover)
    <3>1. 2 * prevNav \in Nat  BY <1>1
    <3> QED  BY <2>1, <3>1, PctIsNat
  <2>3. TurnoverBudget \in Nat  BY <1>1, <2>2 DEF TurnoverBudget, Most
  <2>4. PICK n \in Nat : n = TurnoverBudget \div quote[i].open  BY <1>1, <2>3, DivUp
  <2>5. Rounded(i, n) \in 0..n  BY RoundedWithin
  <2>6. WithinTurnover(i) = Least(Tradable(i), Rounded(i, n))  BY <1>3, <2>4 DEF WithinTurnover
  <2> QED  BY <1>1, <1>3, <2>3, <2>4, <2>5, <2>6 DEF Least
<1> QED  BY <1>2, <1>3

\* The gate only reduces.
LEMMA GatedWithin ==
  ASSUME MarketSound, BookSound, NEW i \in Instruments, Row(i), NEW answer \in Nat
  PROVE  Gated(i, answer) \in 0..WithinTurnover(i)
<1>1. PICK n \in Nat : n = Least(WithinTurnover(i), answer) /\ n <= WithinTurnover(i)
      /\ WithinTurnover(i) \in Nat
  BY TurnoverWithin, TradableWithin, RequestedIs DEF Least
<1>2. FloorLot(n, Lot(i)) \in 0..n  BY LotIs, FloorLotWithin
<1>3. Gated(i, answer) = IF OddLiquidation(i) /\ n = Requested(i) THEN n ELSE FloorLot(n, Lot(i))
  BY <1>1 DEF Gated
<1> QED  BY <1>1, <1>2, <1>3

\* A cut leaves at most what it was given, and 0 or a quantity the rule allows.
LEMMA CutWithin ==
  ASSUME NEW i \in Instruments, NEW n \in Nat, NEW allowed
  PROVE  /\ CutTo(i, n, allowed) \in 0..n
         /\ CutTo(i, n, allowed) = 0 \/ CutTo(i, n, allowed) \in allowed
<1>1. CASE n \in allowed  BY <1>1 DEF CutTo
<1>2. CASE n \notin allowed
  <2>1. CutTo(i, n, allowed) = BoundedQuantity(n, Lot(i), allowed)  BY <1>2 DEF CutTo
  <2>2. Lot(i) \in Nat \ {0}  BY LotIs
  <2> QED  BY <2>1, <2>2, BoundedIsAllowed
<1> QED  BY <1>1, <1>2

\* A buy that is left passed each limit at a quantity that was at least as large.
LEMMA BoughtWithin ==
  ASSUME NEW i \in Instruments, NEW n \in Nat
  PROVE  /\ Bought(i, n) \in 0..n
         /\ Bought(i, n) > 0 =>
              \E a \in Nat, b \in Nat :
                /\ Bought(i, n) <= b /\ b <= a
                /\ SingleAllowed(i, a) /\ IndustryAllowed(i, b) /\ CashAllowed(i, Bought(i, n))
<1>1. PICK a \in 0..n : a = CutTo(i, n, {m \in 0..n : SingleAllowed(i, m)})
  <2>1. CutTo(i, n, {m \in 0..n : SingleAllowed(i, m)}) \in 0..n  BY CutWithin
  <2> QED  BY <2>1
<1>2. a = 0 \/ SingleAllowed(i, a)
  <2>1. a = 0 \/ a \in {m \in 0..n : SingleAllowed(i, m)}  BY <1>1, CutWithin
  <2> QED  BY <2>1
<1>3. PICK b \in 0..a : b = CutTo(i, a, {m \in 0..n : IndustryAllowed(i, m)})
  <2>1. CutTo(i, a, {m \in 0..n : IndustryAllowed(i, m)}) \in 0..a  BY CutWithin
  <2> QED  BY <2>1
<1>4. b = 0 \/ IndustryAllowed(i, b)
  <2>1. b = 0 \/ b \in {m \in 0..n : IndustryAllowed(i, m)}  BY <1>3, CutWithin
  <2> QED  BY <2>1
<1>5. PICK c \in 0..b : c = CutTo(i, b, {m \in 0..n : CashAllowed(i, m)})
  <2>1. CutTo(i, b, {m \in 0..n : CashAllowed(i, m)}) \in 0..b  BY CutWithin
  <2> QED  BY <2>1
<1>6. c = 0 \/ CashAllowed(i, c)
  <2>1. c = 0 \/ c \in {m \in 0..n : CashAllowed(i, m)}  BY <1>5, CutWithin
  <2> QED  BY <2>1
<1>7. Bought(i, n) = IF c < MinBuy[i] THEN 0 ELSE c  BY <1>1, <1>3, <1>5 DEF Bought
<1> QED  BY <1>2, <1>4, <1>6, <1>7

-----------------------------------------------------------------------------
(* What an order costs, and what the order of the rules keeps. *)

\* Integer division is monotone.
LEMMA DivMonotone ==
  ASSUME NEW a \in Nat, NEW b \in Nat, a <= b, NEW d \in Nat \ {0}
  PROVE  a \div d \in Nat /\ b \div d \in Nat /\ a \div d <= b \div d
<1>1. PICK p \in Nat : p = a \div d /\ p * d <= a  BY DivUp
<1>2. PICK q \in Nat : q = b \div d /\ b < q * d + d  BY DivUp
<1>3. p * d < q * d + d  BY <1>1, <1>2
<1>4. ASSUME q < p PROVE FALSE
  <2>1. (p - q - 1) * d >= 0  BY <1>4
  <2>2. (p - q - 1) * d = p * d - q * d - d  OBVIOUS
  <2> QED  BY <1>3, <2>1, <2>2
<1> QED  BY <1>1, <1>2, <1>4

\* The costs of an order.
LEMMA ImpactIsNat ==
  ASSUME MarketSound, NEW n \in Nat, NEW vol \in Nat \ {0}
  PROVE  ImpactPct(n, vol) \in Nat
<1>1. config.impact \in Nat /\ config.maxImpact \in Nat  BY ConfigIs
<1>2. config.impact * n \in Nat  BY <1>1
<1>3. (config.impact * n) \div vol \in Nat  BY <1>2, DivUp
<1> QED  BY <1>1, <1>3 DEF ImpactPct, Least

\* Rounding to the cent gives an integer, of a negative amount too.
LEMMA CentIsInt == ASSUME NEW a \in Int, NEW r \in Nat PROVE Cent(a, r) \in Int
<1>1. PICK p \in Int : p = 2 * a * r  OBVIOUS
<1>2. (p + 100) \div 200 \in Int  OBVIOUS
<1> QED  BY <1>1, <1>2 DEF Cent

\* The value of an order is an integer amount of cents.
LEMMA CostsAreInts ==
  ASSUME MarketSound, NEW side, NEW n \in Nat, NEW open \in Nat, NEW vol \in Nat, n > 0 => vol > 0
  PROVE  ExecutionCosts(side, n, open, vol).value \in Int
<1>1. CASE n = 0  BY <1>1 DEF ExecutionCosts
<1>2. CASE n # 0
  <2>1. /\ config.slippage \in Nat /\ config.commission \in Nat /\ config.stamp \in Nat
        /\ config.minCommission \in Nat
    BY ConfigIs
  <2>2. PICK rate \in Nat : rate = config.slippage + ImpactPct(n, vol)  BY <1>2, <2>1, ImpactIsNat
  <2>3. PICK p \in Nat : p = Pct(open, rate)  BY PctIsNat
  <2>4. PICK net \in Int : net = IF side = "buy" THEN open + Pct(open, rate) ELSE open - Pct(open, rate)
    BY <2>3
  <2>5. PICK paid \in Int : paid = n * net  OBVIOUS
  <2>6. PICK c \in Int : c = Most(config.minCommission, Cent(n * net, config.commission))
    <3>1. Cent(paid, config.commission) \in Int  BY <2>1, CentIsInt
    <3> QED  BY <2>1, <2>5, <3>1 DEF Most
  <2>7. PICK s \in Int : s = IF side = "sell" THEN Cent(n * net, config.stamp) ELSE 0
    <3>1. Cent(paid, config.stamp) \in Int  BY <2>1, CentIsInt
    <3> QED  BY <2>5, <3>1
  <2>8. ExecutionCosts(side, n, open, vol).value =
          IF side = "buy" THEN paid + c ELSE paid - c - s
    BY <1>2, <2>2, <2>4, <2>5, <2>6, <2>7 DEF ExecutionCosts
  <2> QED  BY <2>8
<1> QED  BY <1>1, <1>2

\* What a buy costs above the value of its shares at the open.
Overhead(n, open, vol) == ExecutionCosts("buy", n, open, vol).value - n * open

\* The overhead of a buy is natural and grows with the quantity: slippage, impact and
\* commission do.
LEMMA OverheadGrows ==
  ASSUME MarketSound, NEW n \in Nat \ {0}, NEW m \in Nat, n <= m, NEW open \in Nat, NEW vol \in Nat \ {0}
  PROVE  /\ Overhead(n, open, vol) \in Nat /\ Overhead(m, open, vol) \in Nat
         /\ Overhead(n, open, vol) <= Overhead(m, open, vol)
<1>0. /\ config.slippage \in Nat /\ config.commission \in Nat /\ config.impact \in Nat
      /\ config.maxImpact \in Nat /\ config.minCommission \in Nat
  BY ConfigIs
<1>1. PICK r \in Nat : r = config.slippage + ImpactPct(n, vol)  BY <1>0, ImpactIsNat
<1>2. PICK s \in Nat : s = config.slippage + ImpactPct(m, vol)  BY <1>0, ImpactIsNat
<1>3. r <= s
  <2>1. PICK x \in Nat, y \in Nat : x = config.impact * n /\ y = config.impact * m  BY <1>0
  <2>2. x <= y
    <3>1. config.impact * (m - n) >= 0  BY <1>0
    <3>2. config.impact * (m - n) = config.impact * m - config.impact * n  BY <1>0
    <3> QED  BY <2>1, <3>1, <3>2
  <2>3. x \div vol \in Nat /\ y \div vol \in Nat /\ x \div vol <= y \div vol  BY <2>2, DivMonotone
  <2> QED  BY <1>0, <1>1, <1>2, <2>1, <2>3 DEF ImpactPct, Least
<1>4. PICK p \in Nat, q \in Nat : p = Pct(open, r) /\ q = Pct(open, s) /\ p <= q
  <2>1. open * r \in Nat /\ open * s \in Nat /\ open * r <= open * s
    <3>1. open * (s - r) >= 0  BY <1>3
    <3>2. open * (s - r) = open * s - open * r  OBVIOUS
    <3> QED  BY <3>1, <3>2
  <2> QED  BY <2>1, DivMonotone DEF Pct
<1>5. PICK a \in Nat, b \in Nat : a = n * (open + p) /\ b = m * (open + q) /\ a <= b
                             /\ a - n * open \in Nat /\ b - m * open \in Nat
                             /\ a - n * open <= b - m * open
  <2>1. n * (open + p) = n * open + n * p /\ m * (open + q) = m * open + m * q  OBVIOUS
  <2>2. n * p \in Nat /\ m * q \in Nat /\ n * open \in Nat /\ m * open \in Nat  OBVIOUS
  <2>3. n * p <= m * q
    <3>1. n * (q - p) >= 0 /\ (m - n) * q >= 0  BY <1>4
    <3>2. n * (q - p) = n * q - n * p /\ (m - n) * q = m * q - n * q  OBVIOUS
    <3>3. n * q \in Nat  OBVIOUS
    <3> QED  BY <2>2, <3>1, <3>2, <3>3
  <2>4. n * open <= m * open
    <3>1. (m - n) * open >= 0  OBVIOUS
    <3>2. (m - n) * open = m * open - n * open  OBVIOUS
    <3> QED  BY <2>2, <3>1, <3>2
  <2> QED  BY <2>1, <2>2, <2>3, <2>4
<1>6. PICK c \in Nat, d \in Nat :
        /\ c = Most(config.minCommission, Cent(a, config.commission))
        /\ d = Most(config.minCommission, Cent(b, config.commission)) /\ c <= d
  <2>1. PICK x \in Nat, y \in Nat : x = 2 * a * config.commission /\ y = 2 * b * config.commission  BY <1>0
  <2>2. x <= y
    <3>1. (b - a) * config.commission >= 0  BY <1>0, <1>5
    <3>2. 2 * b * config.commission - 2 * a * config.commission = 2 * ((b - a) * config.commission)
      BY <1>0
    <3> QED  BY <1>0, <2>1, <3>1, <3>2
  <2>3. (x + 100) \div 200 \in Nat /\ (y + 100) \div 200 \in Nat /\ (x + 100) \div 200 <= (y + 100) \div 200
    BY <2>2, DivMonotone
  <2> QED  BY <1>0, <2>1, <2>3 DEF Cent, Most
<1>7. ExecutionCosts("buy", n, open, vol).value = a + c  BY <1>1, <1>4, <1>5, <1>6 DEF ExecutionCosts
<1>8. ExecutionCosts("buy", m, open, vol).value = b + d  BY <1>2, <1>4, <1>5, <1>6 DEF ExecutionCosts
<1>9. n * open \in Nat /\ m * open \in Nat  OBVIOUS
<1> QED  BY <1>5, <1>6, <1>7, <1>8, <1>9 DEF Overhead

\* What the order of Filled keeps of the rules before it.
LEMMA FilledWithin ==
  ASSUME MarketSound, BookSound, NEW i \in Instruments, NEW answer \in Nat
  PROVE  /\ Filled(i, answer) \in 0..Requested(i)
         /\ Side(i) = "sell" => Filled(i, answer) <= dayStart[i]
         /\ Filled(i, answer) > 0 => Row(i) /\ volume[i] > 0
         /\ Filled(i, answer) > 0 /\ config.turnover # NoCap /\ Side(i) = "buy" =>
              Filled(i, answer) <= TurnoverBudget \div quote[i].open
         /\ Filled(i, answer) > 0 /\ Side(i) = "buy" =>
              \E n \in Nat : Filled(i, answer) = Bought(i, n)
         /\ Filled(i, answer) > 0 /\ Side(i) = "sell" =>
              cash + ExecutionCosts("sell", Filled(i, answer), quote[i].open, volume[i]).value >= 0
         /\ Filled(i, answer) > 0 /\ Side(i) = "buy" => Tradable(i) > 0 /\ Gated(i, answer) > 0
<1>0. Requested(i) \in Nat /\ Side(i) \in {"sell", "buy"}  BY RequestedIs DEF Side
<1>1. CASE ~Row(i) \/ Tradable(i) = 0
  <2>1. Filled(i, answer) = 0  BY <1>1 DEF Filled
  <2> QED  BY <1>0, <2>1 DEF BookSound, Shares
<1>2. CASE Row(i) /\ Tradable(i) # 0
  <2>1. /\ Tradable(i) \in 1..Requested(i) /\ volume[i] > 0
        /\ Side(i) = "sell" => Tradable(i) <= dayStart[i]
    BY <1>0, <1>2, TradableWithin
  <2>2. /\ WithinTurnover(i) \in 0..Tradable(i)
        /\ config.turnover # NoCap /\ Side(i) = "buy" =>
             WithinTurnover(i) <= TurnoverBudget \div quote[i].open
        /\ config.turnover # NoCap => TurnoverBudget \div quote[i].open \in Nat
    <3>1. quote[i].open \in Nat \ {0}  BY <1>2, QuoteIs DEF Row
    <3> QED  BY <1>2, <3>1, TurnoverWithin, DivUp
  <2>3. PICK g \in 0..WithinTurnover(i) : g = Gated(i, answer)  BY <1>2, GatedWithin
  <2>4. PICK b \in 0..g : b = Banded(i, g)  BY CutWithin DEF Banded
  <2>5. g \in Nat /\ b \in Nat /\ b <= Tradable(i) /\ b <= WithinTurnover(i)  BY <2>1, <2>2
  <2>6. Filled(i, answer) = IF g = 0 THEN 0
                            ELSE IF Side(i) = "buy" THEN Bought(i, b) ELSE Sold(i, b)
    BY <1>2, <2>3, <2>4 DEF Filled
  <2>7. Bought(i, b) \in 0..b  BY <2>5, BoughtWithin
  <2>8. /\ Sold(i, b) \in 0..b
        /\ Sold(i, b) > 0 => Sold(i, b) = b
        /\ Sold(i, b) > 0 => ~(cash + ExecutionCosts("sell", b, quote[i].open, volume[i]).value < 0)
    BY <2>5 DEF Sold
  <2>9. PICK f \in 0..b : /\ f = Filled(i, answer)
                          /\ f > 0 => g > 0
                          /\ f > 0 /\ Side(i) = "buy" => f = Bought(i, b)
                          /\ f > 0 /\ Side(i) = "sell" => f = b /\ f = Sold(i, b)
    BY <1>0, <2>5, <2>6, <2>7, <2>8
  <2>10. f > 0 /\ Side(i) = "sell" =>
           cash + ExecutionCosts("sell", f, quote[i].open, volume[i]).value >= 0
    <3> SUFFICES ASSUME f > 0, Side(i) = "sell"
                 PROVE  cash + ExecutionCosts("sell", f, quote[i].open, volume[i]).value >= 0
      OBVIOUS
    <3>1. PICK v \in Int : v = ExecutionCosts("sell", f, quote[i].open, volume[i]).value
      <4>1. f \in Nat /\ quote[i].open \in Nat /\ volume[i] \in Nat \ {0}  BY <2>1, <2>5, QuoteIs
      <4> QED  BY <4>1, CostsAreInts
    <3>2. ~(cash + v < 0)  BY <2>8, <2>9, <3>1
    <3>3. cash \in Int  BY DEF BookSound
    <3> QED  BY <3>1, <3>2, <3>3
  <2>11. /\ f <= Tradable(i) /\ f <= WithinTurnover(i) /\ f \in 0..Requested(i)
         /\ f > 0 => Gated(i, answer) > 0
    BY <1>0, <2>1, <2>2, <2>3, <2>9
  <2>12. Side(i) = "sell" => f <= dayStart[i]  BY <2>1, <2>11 DEF BookSound, Shares
  <2>13. config.turnover # NoCap /\ Side(i) = "buy" => f <= TurnoverBudget \div quote[i].open
    BY <2>2, <2>5, <2>9, <2>11
  <2>14. f > 0 /\ Side(i) = "buy" => \E n \in Nat : f = Bought(i, n)  BY <2>5, <2>9
  <2> QED  BY <1>2, <2>1, <2>9, <2>10, <2>11, <2>12, <2>13, <2>14
<1> QED  BY <1>1, <1>2

-----------------------------------------------------------------------------
(* What the book is worth. *)

\* The sum of a function is the sum over its domain.
LEMMA SumIsSum == ASSUME NEW S, NEW f, DOMAIN f = S PROVE SumFunction(f) = SumFunctionOnSet(f, S)
BY DEF SumFunction

\* The sum of a function into the naturals is a natural.
LEMMA SumFunctionIsNat ==
  ASSUME NEW S, IsFiniteSet(S), NEW f \in [S -> Nat]
  PROVE  SumFunction(f) \in Nat
BY SumIsSum, SumIsNat

\* The dividends of a window and their dates.
LEMMA EventIs ==
  ASSUME ClaimsSound
  PROVE  /\ IsFiniteSet(Ids)
         /\ \A i : IsFiniteSet(Of(i)) /\ Of(i) \subseteq Ids
         /\ \A e \in Ids :
              /\ events[e].instrument \in Instruments
              /\ events[e].record \in Int /\ events[e].ex \in Int
              /\ events[e].pay \in Int /\ events[e].list \in Int
              /\ events[e].cash \in Nat /\ events[e].stock \in Nat
              /\ Schedulable(events[e])
<1>1. IsFiniteSet(Ids) /\ \A e \in Ids :
         events[e] \in [instrument: Instruments, record: Int, ex: Int, pay: Int, list: Int,
                        cash: Nat, stock: Nat]
  BY EventAssumption DEF ClaimsSound, Ids
<1>2. \A i : IsFiniteSet(Of(i)) /\ Of(i) \subseteq Ids  BY <1>1, FS_Subset DEF Of
<1> QED  BY <1>1, <1>2 DEF ClaimsSound

\* The published reference of a name with a close is a positive price.
LEMMA LimitReferenceIsPositive ==
  ASSUME ClaimsSound, NEW i \in Instruments, lastClose[i] \in Nat
  PROVE  LimitReference(i) \in Nat \ {0}
<1> DEFINE ex == {e \in OnEx(day) : events[e].instrument = i}
           cash0 == [e \in ex |-> events[e].cash]
           stock0 == [e \in ex |-> events[e].stock]
<1>1. IsFiniteSet(ex)  BY EventIs, FS_Subset DEF OnEx
<1>2. cash0 \in [ex -> Nat] /\ stock0 \in [ex -> Nat]  BY EventIs DEF OnEx
<1>3. PICK cum \in Nat, bonus \in Nat : cum = SumFunction(cash0) /\ bonus = SumFunction(stock0)
  <2> HIDE DEF ex, cash0, stock0
  <2> QED  BY <1>1, <1>2, SumFunctionIsNat
<1>4. PICK p \in Int : p = ((lastClose[i] - cum) * 2) \div (2 + bonus)  OBVIOUS
<1>5. LimitReference(i) = Most(1, p)  BY <1>3, <1>4 DEF LimitReference
<1> QED  BY <1>5 DEF Most

\* A name that is held and priced has a price in the book.
LEMMA HeldPriceIsNat ==
  ASSUME MarketSound, ClaimsSound, NEW i \in Instruments, Row(i) \/ lastClose[i] # None,
         NEW column \in {"open", "close"}
  PROVE  HeldPrice(i, column) \in Nat
<1>1. CASE Row(i)
  <2>1. quote[i][column] \in Nat  BY QuoteIs
  <2> QED  BY <1>1, <2>1 DEF HeldPrice
<1>2. CASE ~Row(i)
  <2>1. lastClose[i] \in Nat  BY <1>2 DEF MarketSound, Known
  <2>2. LimitReference(i) \in Nat  BY <2>1, LimitReferenceIsPositive
  <2> QED  BY <1>2, <2>1, <2>2 DEF HeldPrice
<1> QED  BY <1>1, <1>2

\* So has a name whose bonus shares are due.
LEMMA DuePriceIsNat ==
  ASSUME MarketSound, ClaimsSound, NEW e \in Ids, lastClose[events[e].instrument] # None,
         NEW column \in {"open", "close"}
  PROVE  DuePrice(e, column) \in Nat
<1>0. PICK i \in Instruments : i = events[e].instrument  BY EventIs
<1>1. CASE Row(i)
  <2>1. quote[i][column] \in Nat  BY QuoteIs
  <2> QED  BY <1>0, <1>1, <2>1 DEF DuePrice
<1>2. CASE ~Row(i)
  <2>1. lastClose[i] \in Nat  BY <1>0 DEF MarketSound, Known
  <2>2. LimitReference(i) \in Nat  BY <2>1, LimitReferenceIsPositive
  <2> QED  BY <1>0, <1>2, <2>1, <2>2 DEF DuePrice
<1> QED  BY <1>1, <1>2

\* Everything held or due has a price.
AllPriced ==
  /\ \A i \in Instruments : shares[i] > 0 => Row(i) \/ lastClose[i] # None
  /\ \A e \in Ids : sharesDue[e] > 0 => lastClose[events[e].instrument] # None

\* The value of the bonus shares still to be listed.
LEMMA DueIsNat ==
  ASSUME MarketSound, ClaimsSound, AllPriced, NEW i \in Instruments, NEW column \in {"open", "close"}
  PROVE  SumFunction([e \in Of(i) |-> IF sharesDue[e] = 0 THEN 0 ELSE sharesDue[e] * DuePrice(e, column)]) \in Nat
<1> DEFINE due == [e \in Of(i) |-> IF sharesDue[e] = 0 THEN 0 ELSE sharesDue[e] * DuePrice(e, column)]
<1>1. due \in [Of(i) -> Nat]
  <2> SUFFICES ASSUME NEW e \in Of(i)
               PROVE  (IF sharesDue[e] = 0 THEN 0 ELSE sharesDue[e] * DuePrice(e, column)) \in Nat
    OBVIOUS
  <2>1. e \in Ids /\ sharesDue[e] \in Nat  BY DEF Of, ClaimsSound
  <2>2. CASE sharesDue[e] # 0
    <3>1. DuePrice(e, column) \in Nat  BY <2>1, <2>2, DuePriceIsNat DEF AllPriced
    <3> QED  BY <2>1, <2>2, <3>1
  <2> QED  BY <2>2
<1>2. IsFiniteSet(Of(i))  BY EventIs
<1> HIDE DEF due
<1>3. SumFunction(due) \in Nat  BY <1>1, <1>2, SumFunctionIsNat
<1> QED  BY <1>3 DEF due

\* The exposure to a name is never negative.
LEMMA ExposureIsNat ==
  ASSUME MarketSound, BookSound, ClaimsSound, AllPriced, NEW i \in Instruments,
         NEW column \in {"open", "close"}
  PROVE  Exposure(i, column) \in Nat
<1>1. PICK d \in Nat :
        d = SumFunction([e \in Of(i) |-> IF sharesDue[e] = 0 THEN 0 ELSE sharesDue[e] * DuePrice(e, column)])
  BY DueIsNat
<1>2. (IF shares[i] = 0 THEN 0 ELSE shares[i] * HeldPrice(i, column)) \in Nat
  <2>1. shares[i] \in Nat  BY DEF BookSound, Shares
  <2>2. CASE shares[i] # 0
    <3>1. HeldPrice(i, column) \in Nat  BY <2>1, <2>2, HeldPriceIsNat DEF AllPriced
    <3> QED  BY <2>1, <2>2, <3>1
  <2> QED  BY <2>2
<1> QED  BY <1>1, <1>2 DEF Exposure

\* The value of the book is at least its cash.
LEMMA NavIs ==
  ASSUME MarketSound, BookSound, ClaimsSound, AllPriced, NEW column \in {"open", "close"}
  PROVE  /\ [i \in Instruments |-> Exposure(i, column)] \in [Instruments -> Nat]
         /\ Claimed \in Nat
         /\ SumFunction([i \in Instruments |-> Exposure(i, column)]) \in Nat
         /\ Nav(column) \in Int /\ Nav(column) >= cash
<1> DEFINE at == [i \in Instruments |-> Exposure(i, column)]
<1>1. at \in [Instruments -> Nat]  BY ExposureIsNat
<1>2. IsFiniteSet(Instruments) /\ IsFiniteSet(Ids)  BY MarketAssumption, EventIs
<1>3. SumFunction(at) \in Nat
  <2> HIDE DEF at
  <2> QED  BY <1>1, <1>2, SumFunctionIsNat
<1>4. Claimed \in Nat  BY <1>2, SumFunctionIsNat DEF Claimed, ClaimsSound
<1>5. Nav(column) = cash + Claimed + SumFunction(at)  BY DEF Nav
<1>6. cash \in Int  BY DEF BookSound
<1> HIDE DEF at
<1> QED  BY <1>1, <1>3, <1>4, <1>5, <1>6 DEF at

-----------------------------------------------------------------------------
(* A buy, and the limits of a smaller one. *)

\* A buy that may be made: a row with an open and a volume.
Buyable(i, n) == n \in Nat \ {0} /\ Row(i) /\ volume[i] > 0
Sound == MarketSound /\ BookSound /\ ClaimsSound /\ AllPriced
OpenExposures == [j \in Instruments |-> Exposure(j, "open")]

\* A buy pays at least the value of what it buys.
LEMMA PaymentIs ==
  ASSUME Sound, NEW i \in Instruments, NEW n, Buyable(i, n)
  PROVE  /\ Payment(i, n) \in Int /\ quote[i].open \in Nat \ {0}
         /\ n * quote[i].open \in Nat \ {0}
         /\ Payment(i, n) - n * quote[i].open \in Nat
<1>1. n \in Nat \ {0} /\ quote[i].open \in Nat \ {0} /\ volume[i] \in Nat \ {0}
  BY QuoteIs DEF Buyable, Row, Sound
<1>2. Payment(i, n) \in Int  BY <1>1, CostsAreInts DEF Payment, Sound
<1>3. Overhead(n, quote[i].open, volume[i]) \in Nat  BY <1>1, OverheadGrows DEF Sound
<1>4. n * quote[i].open \in Nat \ {0}
  <2>1. PICK p \in Nat \ {0} : p = quote[i].open  BY <1>1
  <2>2. n * p \in Nat /\ n * p >= p
    <3>1. (n - 1) * p >= 0 /\ (n - 1) * p = n * p - p  BY <1>1
    <3> QED  BY <1>1, <3>1
  <2> QED  BY <2>1, <2>2
<1> QED  BY <1>1, <1>2, <1>3, <1>4 DEF Overhead, Payment

\* A buy costs the book exactly its overhead.
LEMMA NavAfterIs ==
  ASSUME Sound, NEW i \in Instruments, NEW n, Buyable(i, n)
  PROVE  /\ NavAfter(i, n) \in Int
         /\ NavAfter(i, n) = Nav("open") - (Payment(i, n) - n * quote[i].open)
         /\ NavAfter(i, n) >= cash - Payment(i, n) + 1
<1>1. Nav("open") \in Int /\ Nav("open") >= cash /\ cash \in Int  BY NavIs DEF Sound, BookSound
<1>2. PICK p \in Int, v \in Nat \ {0} : p = Payment(i, n) /\ v = n * quote[i].open  BY PaymentIs
<1>3. NavAfter(i, n) = Nav("open") - p + v  BY <1>2 DEF NavAfter
<1> QED  BY <1>1, <1>2, <1>3

\* A larger buy leaves a smaller value.
LEMMA NavAfterShrinks ==
  ASSUME Sound, NEW i \in Instruments, NEW n, Buyable(i, n), NEW m \in Nat, n <= m
  PROVE  NavAfter(i, m) <= NavAfter(i, n)
<1>1. Buyable(i, m) /\ n \in Nat \ {0}  BY DEF Buyable
<1>2. quote[i].open \in Nat /\ volume[i] \in Nat \ {0}  BY QuoteIs DEF Buyable, Sound
<1>3. Overhead(n, quote[i].open, volume[i]) <= Overhead(m, quote[i].open, volume[i])
  BY <1>1, <1>2, OverheadGrows DEF Sound
<1>4. Payment(i, n) - n * quote[i].open <= Payment(i, m) - m * quote[i].open
  BY <1>3 DEF Overhead, Payment
<1>5. PICK x \in Nat, y \in Nat : /\ x = Payment(i, n) - n * quote[i].open
                                  /\ y = Payment(i, m) - m * quote[i].open
  BY <1>1, PaymentIs
<1>6. Nav("open") \in Int  BY NavIs DEF Sound
<1>7. NavAfter(i, n) = Nav("open") - x /\ NavAfter(i, m) = Nav("open") - y  BY <1>1, <1>5, NavAfterIs
<1> QED  BY <1>4, <1>5, <1>6, <1>7

\* A buy adds to one exposure, its own.
LEMMA ExposureAfterIs ==
  ASSUME Sound, NEW i \in Instruments, NEW n, Buyable(i, n), NEW j \in Instruments
  PROVE  /\ ExposureAfter(i, n, j) = OpenExposures[j] + IF j = i THEN n * quote[i].open ELSE 0
         /\ ExposureAfter(i, n, j) \in Nat
<1>1. OpenExposures[j] = Exposure(j, "open") /\ Exposure(j, "open") \in Nat
  BY ExposureIsNat DEF OpenExposures, Sound
<1>2. PICK v \in Nat : v = n * quote[i].open  BY PaymentIs
<1> QED  BY <1>1, <1>2 DEF ExposureAfter

\* A buy adds to the exposure of a group what it adds to its member.
LEMMA GroupAfter ==
  ASSUME Sound, NEW i \in Instruments, NEW n, Buyable(i, n), NEW G \in SUBSET Instruments
  PROVE  /\ SumFunction([j \in G |-> ExposureAfter(i, n, j)])
              = SumFunctionOnSet(OpenExposures, G) + IF i \in G THEN n * quote[i].open ELSE 0
         /\ SumFunctionOnSet(OpenExposures, G) \in Nat
<1> DEFINE f == [j \in G |-> ExposureAfter(i, n, j)]
<1>0. IsFiniteSet(G)  BY MarketAssumption, FS_Subset
<1>1. PICK at : at = OpenExposures  OBVIOUS
<1>2. \A j \in Instruments : at[j] \in Nat /\ at[j] \in Int
  <2> SUFFICES ASSUME NEW j \in Instruments PROVE at[j] \in Nat  OBVIOUS
  <2>1. Exposure(j, "open") \in Nat  BY ExposureIsNat DEF Sound
  <2> QED  BY <1>1, <2>1 DEF OpenExposures
<1>3. PICK v \in Nat : v = n * quote[i].open  BY PaymentIs
<1>4. \A j \in G : f[j] = at[j] + IF j = i THEN v ELSE 0  BY <1>1, <1>3, ExposureAfterIs
<1>5. SumFunction(f) = SumFunctionOnSet(f, G)  BY SumIsSum
<1>6. SumFunctionOnSet(at, G) \in Nat  BY <1>0, <1>2, SumIsNat
<1> HIDE DEF f
<1>7. CASE i \in G
  <2>1. f[i] = at[i] + v /\ \A j \in G \ {i} : f[j] = at[j]  BY <1>2, <1>4, <1>7
  <2>2. SumFunctionOnSet(f, G) = SumFunctionOnSet(at, G) + v  BY <1>0, <1>2, <1>7, <2>1, SumBump
  <2> QED  BY <1>1, <1>3, <1>5, <1>6, <1>7, <2>2 DEF f
<1>8. CASE i \notin G
  <2>1. \A j \in G : f[j] = at[j]  BY <1>2, <1>4, <1>8
  <2>2. SumFunctionOnSet(f, G) = SumFunctionOnSet(at, G)  BY <1>0, <2>1, SumOfSame
  <2> QED  BY <1>1, <1>5, <1>6, <1>8, <2>2 DEF f
<1> QED  BY <1>7, <1>8

\* Multiplying by a natural keeps an order.
LEMMA TimesMonotone == ASSUME NEW c \in Nat, NEW a \in Int, NEW b \in Int, a <= b PROVE c * a <= c * b
<1>1. c * (b - a) >= 0 /\ c * (b - a) = c * b - c * a  OBVIOUS
<1> QED  BY <1>1

\* What is within the cap on a name stays so when the buy is cut further: the later
\* cuts cannot undo the first (engine_v3.py:458-507).
LEMMA SingleShrinks ==
  ASSUME Sound, NEW i \in Instruments, NEW n, Buyable(i, n), NEW m \in Nat, n <= m, SingleAllowed(i, m)
  PROVE  SingleAllowed(i, n)
<1> SUFFICES ASSUME NEW j \in Instruments
             PROVE  ExposureAfter(i, n, j) * 100 <= config.single * NavAfter(i, n)
  BY DEF SingleAllowed
<1>1. Buyable(i, m) /\ n \in Nat  BY DEF Buyable
<1>2. ExposureAfter(i, m, j) * 100 <= config.single * NavAfter(i, m)  BY DEF SingleAllowed
<1>3. NavAfter(i, n) \in Int /\ NavAfter(i, m) \in Int /\ config.single \in Nat
  BY <1>1, NavAfterIs, ConfigIs DEF Sound
<1>4. config.single * NavAfter(i, m) <= config.single * NavAfter(i, n)
  BY <1>3, NavAfterShrinks, TimesMonotone
<1>5. ExposureAfter(i, n, j) <= ExposureAfter(i, m, j)
  <2>1. quote[i].open \in Nat  BY PaymentIs
  <2>2. quote[i].open * n <= quote[i].open * m  BY <1>1, <2>1, TimesMonotone
  <2>3. OpenExposures[j] \in Nat  BY ExposureIsNat DEF OpenExposures, Sound
  <2> QED  BY <1>1, <2>1, <2>2, <2>3, ExposureAfterIs
<1>6. ExposureAfter(i, n, j) \in Nat /\ ExposureAfter(i, m, j) \in Nat  BY <1>1, ExposureAfterIs
<1> QED  BY <1>2, <1>3, <1>4, <1>5, <1>6

\* The same for the cap on an industry.
LEMMA IndustryShrinks ==
  ASSUME Sound, NEW i \in Instruments, NEW n, Buyable(i, n), NEW m \in Nat, n <= m, IndustryAllowed(i, m)
  PROVE  IndustryAllowed(i, n)
<1> SUFFICES ASSUME config.industry # NoCap, NEW g \in Range(Industry)
             PROVE  SumFunction([j \in {k \in Instruments : Industry[k] = g} |-> ExposureAfter(i, n, j)]) * 100
                      <= config.industry * NavAfter(i, n)
  BY DEF IndustryAllowed
<1>0. PICK G \in SUBSET Instruments : G = {k \in Instruments : Industry[k] = g}  OBVIOUS
<1>1. Buyable(i, m) /\ n \in Nat  BY DEF Buyable
<1>2. SumFunction([j \in G |-> ExposureAfter(i, m, j)]) * 100 <= config.industry * NavAfter(i, m)
  BY <1>0 DEF IndustryAllowed
<1>3. NavAfter(i, n) \in Int /\ NavAfter(i, m) \in Int /\ config.industry \in Nat
  BY <1>1, NavAfterIs, ConfigIs DEF Sound
<1>4. config.industry * NavAfter(i, m) <= config.industry * NavAfter(i, n)
  BY <1>3, NavAfterShrinks, TimesMonotone
<1>5. PICK x \in Nat, y \in Nat : /\ x = SumFunction([j \in G |-> ExposureAfter(i, n, j)])
                                  /\ y = SumFunction([j \in G |-> ExposureAfter(i, m, j)])
                                  /\ x <= y
  <2>1. quote[i].open \in Nat  BY PaymentIs
  <2>2. quote[i].open * n <= quote[i].open * m  BY <1>1, <2>1, TimesMonotone
  <2>3. PICK s \in Nat : s = SumFunctionOnSet(OpenExposures, G)  BY GroupAfter
  <2>4. /\ SumFunction([j \in G |-> ExposureAfter(i, n, j)]) = s + IF i \in G THEN n * quote[i].open ELSE 0
        /\ SumFunction([j \in G |-> ExposureAfter(i, m, j)]) = s + IF i \in G THEN m * quote[i].open ELSE 0
    BY <1>1, <2>3, GroupAfter
  <2>5. n * quote[i].open \in Nat /\ m * quote[i].open \in Nat
        /\ n * quote[i].open <= m * quote[i].open  BY <1>1, <2>1, <2>2
  <2>6. PICK x : x = SumFunction([j \in G |-> ExposureAfter(i, n, j)])  OBVIOUS
  <2>7. PICK y : y = SumFunction([j \in G |-> ExposureAfter(i, m, j)])  OBVIOUS
  <2>8. x \in Nat /\ y \in Nat /\ x <= y  BY <2>4, <2>5, <2>6, <2>7
  <2> QED  BY <2>6, <2>7, <2>8
<1>6. x * 100 <= config.industry * NavAfter(i, n)  BY <1>2, <1>3, <1>4, <1>5
<1> QED  BY <1>0, <1>5, <1>6

\* A buy within the reserve leaves cash: the reserve is taken of a value that includes
\* what was bought.
LEMMA CashStaysPositive ==
  ASSUME Sound, NEW i \in Instruments, NEW n, Buyable(i, n), CashAllowed(i, n)
  PROVE  cash - Payment(i, n) >= 0
<1>1. PICK c \in Int : c = cash - Payment(i, n)  BY PaymentIs DEF Sound, BookSound
<1>2. PICK nav \in Int : nav = NavAfter(i, n) /\ nav >= c + 1  BY <1>1, NavAfterIs
<1>3. PICK r \in 0..100 : r = config.reserve  BY ConfigIs DEF Sound
<1>4. c * 100 >= r * nav  BY <1>1, <1>2, <1>3 DEF CashAllowed
<1>5. ASSUME c < 0 PROVE FALSE
  <2>1. r * (nav - c - 1) >= 0 /\ r * (nav - c - 1) = r * nav - r * c - r  BY <1>2
  <2>2. (100 - r) * c >= r  BY <1>4, <2>1
  <2>3. (100 - r) * (0 - c) >= 0 /\ (100 - r) * (0 - c) = 0 - (100 - r) * c  BY <1>5
  <2>4. r = 0 /\ (100 - r) * c >= 0  BY <2>2, <2>3
  <2>5. 100 * c >= 0  BY <2>4
  <2> QED  BY <1>5, <2>5
<1> QED  BY <1>1, <1>5

\* The book of a trade: only the shares of i and the cash move.
LEMMA AfterBuy ==
  ASSUME Sound, NEW i \in Instruments, NEW n, Buyable(i, n),
         shares' = [shares EXCEPT ![i] = @ + n], cash' = cash - Payment(i, n),
         UNCHANGED <<market, events, sharesDue, cashDue>>
  PROVE  /\ \A j \in Instruments : OpenExposures'[j] = ExposureAfter(i, n, j)
         /\ cash' + Claimed + SumFunction(OpenExposures') = NavAfter(i, n)
<1>0. shares \in [Instruments -> Nat] /\ n \in Nat \ {0}  BY DEF Sound, BookSound, Shares, Buyable
<1>1. ASSUME NEW j \in Instruments PROVE OpenExposures'[j] = ExposureAfter(i, n, j)
  <2>1. HeldPrice(j, "open")' = HeldPrice(j, "open")
    BY DEF market, HeldPrice, Row, OnEx, Ids, LimitReference
  <2>2. PICK d : d = SumFunction([e \in Of(j) |-> IF sharesDue[e] = 0 THEN 0 ELSE sharesDue[e] * DuePrice(e, "open")])
    OBVIOUS
  <2>3. SumFunction([e \in Of(j) |-> IF sharesDue[e] = 0 THEN 0 ELSE sharesDue[e] * DuePrice(e, "open")])' = d
    BY <2>2 DEF market, DuePrice, Row, OnEx, Ids, LimitReference, Of
  <2>4. OpenExposures'[j] = (IF shares'[j] = 0 THEN 0 ELSE shares'[j] * HeldPrice(j, "open")) + d
    BY <2>1, <2>3 DEF OpenExposures, Exposure
  <2>5. Exposure(j, "open") = (IF shares[j] = 0 THEN 0 ELSE shares[j] * HeldPrice(j, "open")) + d
    BY <2>2 DEF Exposure
  <2>6. CASE j # i
    <3>1. shares'[j] = shares[j]  BY <1>0, <2>6
    <3>2. Exposure(j, "open") \in Nat  BY ExposureIsNat DEF Sound
    <3> QED  BY <2>4, <2>5, <2>6, <3>1, <3>2 DEF ExposureAfter
  <2>7. CASE j = i
    <3>1. HeldPrice(i, "open") = quote[i].open  BY DEF HeldPrice, Buyable
    <3>2. PICK p \in Nat \ {0} : p = quote[i].open  BY PaymentIs
    <3>3. shares'[i] = shares[i] + n /\ shares[i] \in Nat  BY <1>0
    <3>4. (shares[i] + n) * p = shares[i] * p + n * p  BY <1>0, <3>3
    <3>5. PICK s \in Nat, v \in Nat : s = shares[i] * p /\ v = n * p  BY <1>0, <3>3
    <3>6. OpenExposures'[i] = s + v + d
      BY <1>0, <2>4, <2>7, <3>1, <3>2, <3>3, <3>4, <3>5
    <3>7. Exposure(i, "open") = s + d
      BY <2>5, <2>7, <3>1, <3>2, <3>3, <3>5
    <3>8. d \in Nat  BY <2>2, DueIsNat DEF Sound
    <3> QED  BY <2>7, <3>2, <3>5, <3>6, <3>7, <3>8 DEF ExposureAfter
  <2> QED  BY <2>6, <2>7
<1>2. cash' + Claimed + SumFunction(OpenExposures') = NavAfter(i, n)
  <2>1. PICK f : f = OpenExposures  OBVIOUS
  <2>2. PICK g : g = OpenExposures'  OBVIOUS
  <2>3. PICK v \in Nat : v = n * quote[i].open  BY PaymentIs
  <2>4. \A j \in Instruments : f[j] \in Int /\ g[j] = f[j] + IF j = i THEN v ELSE 0
    <3> SUFFICES ASSUME NEW j \in Instruments
                 PROVE  f[j] \in Int /\ g[j] = f[j] + IF j = i THEN v ELSE 0
      OBVIOUS
    <3>1. Exposure(j, "open") \in Nat  BY ExposureIsNat DEF Sound
    <3>2. f[j] = Exposure(j, "open")  BY <2>1 DEF OpenExposures
    <3>3. g[j] = ExposureAfter(i, n, j)  BY <1>1, <2>2
    <3> QED  BY <2>3, <3>1, <3>2, <3>3 DEF ExposureAfter
  <2>5. \A j \in Instruments \ {i} : g[j] = f[j]  BY <2>4
  <2>6. g[i] = f[i] + v  BY <2>4
  <2>7. SumFunctionOnSet(g, Instruments) = SumFunctionOnSet(f, Instruments) + v
    <3>1. IsFiniteSet(Instruments)  BY MarketAssumption
    <3>2. \A j \in Instruments : f[j] \in Int  BY <2>4
    <3>3. v \in Int  OBVIOUS
    <3> QED  BY <2>5, <2>6, <3>1, <3>2, <3>3, SumBump
  <2>8. DOMAIN f = Instruments /\ DOMAIN g = Instruments  BY <2>1, <2>2 DEF OpenExposures
  <2>9. PICK s \in Nat : s = SumFunction(f)  BY <2>1, NavIs DEF Sound, OpenExposures
  <2>10. SumFunction(g) = s + v  BY <2>7, <2>8, <2>9, SumIsSum
  <2>11. PICK c \in Int, k \in Nat, p \in Int : c = cash /\ k = Claimed /\ p = Payment(i, n)
    BY NavIs, PaymentIs DEF Sound, BookSound
  <2>12. Nav("open") = c + k + s  BY <2>1, <2>9, <2>11 DEF Nav, OpenExposures
  <2>13. NavAfter(i, n) = c + k + s - p + v  BY <2>3, <2>11, <2>12 DEF NavAfter
  <2> QED  BY <2>2, <2>10, <2>11, <2>13
<1> QED  BY <1>1, <1>2

\* Contracts below 4 replay no dividends.
LEMMA OldEngineHasNoEvents == ASSUME ClaimsSound, ~Chronological PROVE Ids = {}
<1>1. version \in 1..4 /\ version \notin {3, 4}  BY VersionAssumption DEF ClaimsSound, Chronological
<1>2. version < 4  BY <1>1
<1> QED  BY <1>2 DEF ClaimsSound

\* In the chronological engine everything held or due has a price.
LEMMA PricedIsAllPriced == ASSUME Priced, Chronological PROVE AllPriced
BY DEF Priced, AllPriced

-----------------------------------------------------------------------------
(* The invariant is inductive: the steps that are easy, and one order. *)

\* The invariant holds at the start.
LEMMA InitSound == RunInit => IInv
<1> SUFFICES ASSUME RunInit PROVE IInv  OBVIOUS
<1> USE DEF RunInit, SessionInit
<1>1. BookInit /\ ahead \in [Instruments -> Quote]
  <2>1. NoPanel \in [Instruments -> Quote]  BY DEF NoPanel, NoRow, Quote
  <2>2. 1 \in 1..Sessions  BY MarketAssumption
  <2> QED  BY <2>1, <2>2, PanelIsQuotes DEF ReplayInit
<1>2. Nothing \in Shares /\ \A i \in Instruments : Nothing[i] = 0  BY DEF Nothing, Shares
<1>3. MarketSound
  <2>1. NoPanel \in [Instruments -> Quote]  BY DEF NoPanel, NoRow, Quote
  <2> QED  BY <1>1, <1>2, <2>1, MarketAssumption DEF BookInit, MarketSound, Known
<1>4. BookSound  BY <1>1, <1>2, MarketAssumption DEF BookInit, BookSound
<1>5. ClaimsSound
  <2>1. events \in EventSets /\ \A e \in Ids : Schedulable(events[e])  BY DEF Ids
  <2> QED  BY <2>1 DEF ClaimsSound
<1>6. Priced  BY <1>1, <1>2 DEF BookInit, Priced, Ids
<1>7. Dated
  <2> SUFFICES ASSUME NEW e \in Ids PROVE DatedEvent(e, 0, 0)  BY <1>1 DEF BookInit, Dated
  <2>1. /\ events[e].record \in Calendar /\ events[e].ex \in Calendar
        /\ events[e].record \in Nat \ {0} /\ events[e].ex \in Nat \ {0}
    BY <1>5, EventIs, MarketAssumption DEF Schedulable, Calendar
  <2>2. /\ entitled[e] = None /\ cashDue[e] = 0 /\ sharesDue[e] = 0
        /\ received[e].cash = 0 /\ received[e].shares = 0
    OBVIOUS
  <2> QED  BY <2>1, <2>2 DEF DatedEvent
<1>8. Settled  BY <1>1, <1>2, MarketAssumption DEF BookInit, Settled
<1>9. Fresh  BY <1>1 DEF BookInit, Fresh
<1> QED  BY <1>3, <1>4, <1>5, <1>6, <1>7, <1>8, <1>9 DEF IInv

\* A refusal keeps it: nothing moves.
LEMMA FailSound ==
  ASSUME IInv, Fail, UNCHANGED <<ahead, version>>, Chronological
  PROVE  IInv'
<1> USE DEF IInv, Fail, market, book, sessionVars, risk, claims
<1>1. MarketSound'  BY DEF MarketSound
<1>2. BookSound'  BY DEF BookSound
<1>3. ClaimsSound'  BY DEF ClaimsSound, Ids
<1>4. Priced'  BY DEF Priced, Ids, Row, Chronological
<1>5. Dated'  BY DEF Dated
<1>6. Settled'  BY DEF Settled, Chronological
<1>7. Fresh'  BY DEF Fresh, Chronological
<1> QED  BY <1>1, <1>2, <1>3, <1>4, <1>5, <1>6, <1>7

\* So does a step of something else.
LEMMA StutterSound == ASSUME IInv, UNCHANGED runVars PROVE IInv'
<1> USE DEF IInv, runVars, vars, market, book, sessionVars, risk, claims
<1>1. MarketSound'  BY DEF MarketSound
<1>2. BookSound'  BY DEF BookSound
<1>3. ClaimsSound'  BY DEF ClaimsSound, Ids
<1>4. Priced'  BY DEF Priced, Ids, Row, Chronological
<1>5. Dated'  BY DEF Dated, DatedEvent, Ids
<1>6. Settled'  BY DEF Settled, Chronological
<1>7. Fresh'  BY DEF Fresh, Chronological, Seen
<1> QED  BY <1>1, <1>2, <1>3, <1>4, <1>5, <1>6, <1>7

\* One order of the chronological engine keeps it.
LEMMA TradeSound ==
  ASSUME IInv, NEW answer \in GateAnswers, V3Trade(answer)
  PROVE  IInv'
<1> USE DEF V3Trade, Trade, market, claims, risk
<1>0. /\ MarketSound /\ BookSound /\ ClaimsSound /\ Priced /\ Dated /\ Settled /\ Fresh
      /\ Sound /\ Chronological /\ phase = "orders" /\ answer \in Nat
  BY PricedIsAllPriced, MarketAssumption DEF IInv, Sound
<1>1. PICK i \in pending :
        LET n == Filled(i, answer)
            value == ExecutionCosts(Side(i), n, quote[i].open, volume[i]).value
        IN /\ Turn(i) /\ ~Refused(i, answer)
           /\ cash' = IF Side(i) = "buy" THEN cash - value ELSE cash + value
           /\ shares' = [shares EXCEPT ![i] = IF Side(i) = "buy" THEN @ + n ELSE @ - n]
           /\ arrived' = [arrived EXCEPT ![i] = IF Side(i) = "buy" THEN @ + n ELSE @]
           /\ traded' = traded + n * quote[i].open
           /\ pending' = pending \ {i}
  OBVIOUS
<1>2. i \in Instruments /\ Requested(i) \in Nat /\ Side(i) \in {"buy", "sell"}
      /\ shares[i] \in Nat /\ arrived[i] \in Nat /\ dayStart[i] \in Nat /\ cash \in Int /\ cash >= 0
      /\ shares[i] = dayStart[i] + arrived[i] /\ quote[i].open \in Nat /\ volume[i] \in Nat
      /\ shares \in Shares /\ arrived \in Shares
  BY <1>0, RequestedIs, QuoteIs DEF BookSound, Side, Settled, Shares
<1>3. PICK n \in Nat :
        /\ n = Filled(i, answer)
        /\ Side(i) = "sell" => n <= dayStart[i]
        /\ n > 0 => Row(i) /\ volume[i] > 0
        /\ n > 0 /\ Side(i) = "buy" => CashAllowed(i, n)
        /\ n > 0 /\ Side(i) = "sell" => cash + ExecutionCosts("sell", n, quote[i].open, volume[i]).value >= 0
  <2>1. PICK n \in 0..Requested(i) : n = Filled(i, answer)  BY <1>0, <1>2, FilledWithin
  <2>2. /\ Side(i) = "sell" => n <= dayStart[i]
        /\ n > 0 => Row(i) /\ volume[i] > 0
        /\ n > 0 /\ Side(i) = "buy" => \E m \in Nat : n = Bought(i, m)
        /\ n > 0 /\ Side(i) = "sell" => cash + ExecutionCosts("sell", n, quote[i].open, volume[i]).value >= 0
    BY <1>0, <1>2, <2>1, FilledWithin
  <2>3. n > 0 /\ Side(i) = "buy" => CashAllowed(i, n)  BY <1>2, <2>2, BoughtWithin
  <2> QED  BY <1>2, <2>1, <2>2, <2>3
<1>4. PICK value \in Int : value = ExecutionCosts(Side(i), n, quote[i].open, volume[i]).value
  BY <1>0, <1>2, <1>3, CostsAreInts
<1>5. /\ cash' = IF Side(i) = "buy" THEN cash - value ELSE cash + value
      /\ shares' = [shares EXCEPT ![i] = IF Side(i) = "buy" THEN @ + n ELSE @ - n]
      /\ arrived' = [arrived EXCEPT ![i] = IF Side(i) = "buy" THEN @ + n ELSE @]
      /\ traded' = traded + n * quote[i].open
      /\ pending' = pending \ {i}
  BY <1>1, <1>3, <1>4
<1>6. cash' >= 0
  <2>1. CASE n = 0
    <3>1. value = 0  BY <1>4, <2>1 DEF ExecutionCosts
    <3> QED  BY <1>2, <1>5, <3>1
  <2>2. CASE n > 0 /\ Side(i) = "buy"
    <3>1. Buyable(i, n)  BY <1>3, <2>2 DEF Buyable
    <3>2. cash - Payment(i, n) >= 0  BY <1>0, <1>2, <1>3, <2>2, <3>1, CashStaysPositive
    <3> QED  BY <1>4, <1>5, <2>2, <3>2 DEF Payment
  <2>3. CASE n > 0 /\ Side(i) = "sell"  BY <1>3, <1>4, <1>5, <2>3
  <2> QED  BY <1>2, <2>1, <2>2, <2>3
<1>7. /\ shares' \in Shares /\ arrived' \in Shares
      /\ \A j \in Instruments : j # i => shares'[j] = shares[j] /\ arrived'[j] = arrived[j]
      /\ arrived'[i] <= shares'[i]
      /\ shares'[i] > shares[i] => Row(i)
  <2>1. CASE Side(i) = "buy"
    <3>1. /\ shares' = [shares EXCEPT ![i] = shares[i] + n]
          /\ arrived' = [arrived EXCEPT ![i] = arrived[i] + n]
      BY <1>2, <1>5, <2>1
    <3>2. /\ shares'[i] = shares[i] + n /\ arrived'[i] = arrived[i] + n
          /\ \A j \in Instruments : j # i => shares'[j] = shares[j] /\ arrived'[j] = arrived[j]
      BY <1>2, <3>1 DEF Shares
    <3>3. shares' \in Shares /\ arrived' \in Shares
      <4>1. shares[i] + n \in Nat /\ arrived[i] + n \in Nat  BY <1>2
      <4> QED  BY <1>2, <3>1, <4>1 DEF Shares
    <3>4. arrived'[i] <= shares'[i]  BY <1>2, <3>2
    <3>5. shares'[i] > shares[i] => Row(i)  BY <1>2, <1>3, <3>2
    <3> QED  BY <3>2, <3>3, <3>4, <3>5
  <2>2. CASE Side(i) = "sell"
    <3>1. shares' = [shares EXCEPT ![i] = shares[i] - n] /\ arrived' = arrived
      BY <1>2, <1>5, <2>2 DEF Shares
    <3>0. n \in Nat /\ n <= dayStart[i]  BY <1>3, <2>2
    <3>2. /\ shares'[i] = shares[i] - n
          /\ \A j \in Instruments : j # i => shares'[j] = shares[j] /\ arrived'[j] = arrived[j]
      BY <1>2, <3>1 DEF Shares
    <3>3. shares[i] - n \in Nat  BY <1>2, <3>0
    <3>4. shares' \in Shares /\ arrived' \in Shares  BY <1>2, <3>1, <3>3 DEF Shares
    <3>5. arrived'[i] <= shares'[i] /\ ~(shares'[i] > shares[i])
      BY <1>2, <3>0, <3>1, <3>2
    <3> QED  BY <3>2, <3>4, <3>5
  <2> QED  BY <1>2, <2>1, <2>2
<1>8. traded' \in Nat /\ cash' \in Int
  <2>1. n * quote[i].open \in Nat  BY <1>2
  <2> QED  BY <1>0, <1>2, <1>5, <2>1 DEF BookSound
<1>9. MarketSound'  BY <1>0 DEF MarketSound
<1>10. BookSound'  BY <1>0, <1>5, <1>7, <1>8 DEF BookSound
<1>11. ClaimsSound'  BY <1>0 DEF ClaimsSound, Ids
<1>12. Priced'
  <2>1. \A j \in Instruments : shares'[j] > 0 => lastClose[j] # None \/ Row(j)
    <3> SUFFICES ASSUME NEW j \in Instruments, shares'[j] > 0 PROVE lastClose[j] # None \/ Row(j)
      OBVIOUS
    <3>1. shares[j] > 0 \/ Row(j)  BY <1>0, <1>2, <1>7 DEF BookSound, Shares
    <3> QED  BY <1>0, <3>1 DEF Priced
  <2> QED  BY <1>0, <2>1 DEF Priced, Ids, Row, Chronological
<1>13. Dated'  BY <1>0 DEF Dated, DatedEvent, Ids
<1>14. Settled'
  <2>1. \A j \in Instruments : arrived'[j] <= shares'[j]  BY <1>0, <1>7 DEF Settled
  <2>2. \A j \in pending' : shares'[j] = dayStart'[j] + arrived'[j]
    BY <1>0, <1>5, <1>7 DEF Settled, BookSound
  <2> QED  BY <1>0, <1>6, <2>1, <2>2 DEF Settled, Chronological
<1>15. Fresh'  BY <1>0 DEF Fresh, Chronological
<1> QED  BY <1>9, <1>10, <1>11, <1>12, <1>13, <1>14, <1>15 DEF IInv

-----------------------------------------------------------------------------
(* The open of a session. *)

\* A sum of zeros is 0.
LEMMA SumOfZeros ==
  ASSUME NEW f, NEW S, IsFiniteSet(S), \A x \in S : f[x] = 0
  PROVE  SumFunctionOnSet(f, S) = 0
<1>1. SumFunctionOnSet(f, {}) = SumFunctionOnSet([x \in S |-> IF x \in {} THEN f[x] ELSE 0], S)
  BY SumOfPart
<1>2. PICK g : g = [x \in S |-> IF x \in {} THEN f[x] ELSE 0]  OBVIOUS
<1>3. \A x \in S : f[x] = g[x]  BY <1>2
<1>4. SumFunctionOnSet(f, S) = SumFunctionOnSet(g, S)  BY <1>3, SumOfSame
<1> QED  BY <1>1, <1>2, <1>4, SumOfNone

\* What an entitlement of a date ex with a settlement date brings, one session on.
LEMMA OneSessionOn ==
  ASSUME NEW d \in Int, NEW ex \in Int, NEW date \in Int, NEW total, NEW due, NEW got,
         d + 1 >= ex => total \in Nat,
         d + 1 >= ex /\ total # 0 => date >= 2 * ex,
         due = (IF 2 * d >= date THEN 0 ELSE IF d >= ex THEN total ELSE 0),
         got = (IF 2 * d >= date THEN IF d >= ex THEN total ELSE 0 ELSE 0),
         NEW accrued, accrued = (IF ex = d + 1 THEN total ELSE due)
  PROVE  /\ accrued \in Nat
         /\ (IF 2 * (d + 1) >= date /\ 2 * d < date THEN 0 ELSE accrued)
              = (IF 2 * (d + 1) >= date THEN 0 ELSE IF d + 1 >= ex THEN total ELSE 0)
         /\ got + (IF 2 * (d + 1) >= date /\ 2 * d < date THEN accrued ELSE 0)
              = (IF 2 * (d + 1) >= date THEN IF d + 1 >= ex THEN total ELSE 0 ELSE 0)
<1>1. CASE ~(d + 1 >= ex)
  <2>1. due = 0 /\ got = 0 /\ accrued = 0  BY <1>1
  <2> QED  BY <1>1, <2>1
<1>2. CASE d + 1 >= ex
  <2>1. PICK t \in Nat : t = total  BY <1>2
  <2>2. t # 0 => date >= 2 * ex  BY <1>2, <2>1
  <2>3. CASE 2 * d >= date
    <3>1. ~(2 * d < date) /\ 2 * (d + 1) >= date /\ due = 0  BY <2>3
    <3>2. CASE ex = d + 1
      <4>1. t = 0  BY <2>2, <2>3, <3>2
      <4>2. accrued = 0 /\ got = 0  BY <2>1, <2>3, <3>2, <4>1
      <4> QED  BY <1>2, <2>1, <3>1, <4>1, <4>2
    <3>3. CASE ex # d + 1
      <4>1. d >= ex  BY <1>2, <3>3
      <4>2. accrued = 0 /\ got = t  BY <2>1, <2>3, <3>1, <3>3, <4>1
      <4> QED  BY <1>2, <2>1, <3>1, <4>2
    <3> QED  BY <3>2, <3>3
  <2>4. CASE 2 * d < date
    <3>1. got = 0  BY <2>4
    <3>2. accrued = t
      <4>1. CASE ex = d + 1  BY <2>1, <4>1
      <4>2. CASE ex # d + 1
        <5>1. d >= ex  BY <1>2, <4>2
        <5> QED  BY <2>1, <2>4, <4>2, <5>1
      <4> QED  BY <4>1, <4>2
    <3>3. CASE 2 * (d + 1) >= date  BY <1>2, <2>1, <2>4, <3>1, <3>2, <3>3
    <3>4. CASE ~(2 * (d + 1) >= date)  BY <1>2, <2>1, <2>4, <3>1, <3>2, <3>4
    <3> QED  BY <3>3, <3>4
  <2> QED  BY <2>3, <2>4
<1> QED  BY <1>1, <1>2

\* What an event has brought by a morning.
LEMMA HalfIsNat == ASSUME NEW n \in Nat, NEW s \in Nat PROVE (n * s) \div 2 \in Nat /\ n * s \in Nat
<1>1. n * s \in Nat  OBVIOUS
<1> QED  BY <1>1, DivUp

\* What every claim is one morning on, before what is paid and listed is booked.
LEMMA MaturedIs ==
  ASSUME MarketSound, ClaimsSound, Dated, phase = "close", day < Sessions, NEW d, d = day + 1,
         NEW e \in Ids
  PROVE  LET cashTotal == IF d >= events[e].ex THEN entitled[e] * events[e].cash ELSE 0
             shareTotal == IF d >= events[e].ex THEN (entitled[e] * events[e].stock) \div 2 ELSE 0
             paid == 2 * d >= events[e].pay
             listed == 2 * d >= events[e].list
         IN /\ CashAccrued(d)[e] \in Nat /\ SharesAccrued(d)[e] \in Nat
            /\ (IF e \in Paying(d) THEN 0 ELSE CashAccrued(d)[e]) = IF paid THEN 0 ELSE cashTotal
            /\ received[e].cash + (IF e \in Paying(d) THEN CashAccrued(d)[e] ELSE 0)
                 = IF paid THEN cashTotal ELSE 0
            /\ (IF e \in Listing(d) THEN 0 ELSE SharesAccrued(d)[e]) = IF listed THEN 0 ELSE shareTotal
            /\ received[e].shares + (IF e \in Listing(d) THEN SharesAccrued(d)[e] ELSE 0)
                 = IF listed THEN shareTotal ELSE 0
            /\ (entitled[e] = None) = (day < events[e].record)
            /\ events[e].ex = d => entitled[e] \in Nat
<1>1. PICK ex \in Int, pay \in Int, list \in Int, record \in Int :
        ex = events[e].ex /\ pay = events[e].pay /\ list = events[e].list /\ record = events[e].record
  BY EventIs
<1>2. PICK cash0 \in Nat, stock \in Nat : cash0 = events[e].cash /\ stock = events[e].stock  BY EventIs
<1>3. record < ex /\ (cash0 > 0 => pay >= 2 * ex) /\ (stock > 0 => list >= 2 * ex)
  BY <1>1, <1>2, EventIs DEF Schedulable
<1>4. DatedEvent(e, day, day) /\ day \in Int /\ d \in Int /\ d - 1 = day /\ d \in Calendar
  BY MarketAssumption DEF Dated, MarketSound, Calendar
<1>5. (entitled[e] = None) = (day < record)  BY <1>1, <1>4 DEF DatedEvent
<1>6. d >= ex => entitled[e] \in Nat  BY <1>3, <1>4, <1>5 DEF ClaimsSound
<1>7. PICK cashTotal : cashTotal = entitled[e] * cash0  OBVIOUS
<1>8. PICK shareTotal : shareTotal = (entitled[e] * stock) \div 2  OBVIOUS
<1>9. /\ d >= ex => cashTotal \in Nat
      /\ d >= ex /\ cashTotal # 0 => pay >= 2 * ex
      /\ d >= ex => shareTotal \in Nat
      /\ d >= ex /\ shareTotal # 0 => list >= 2 * ex
  <2> SUFFICES ASSUME d >= ex
               PROVE  /\ cashTotal \in Nat /\ (cashTotal # 0 => pay >= 2 * ex)
                      /\ shareTotal \in Nat /\ (shareTotal # 0 => list >= 2 * ex)
    OBVIOUS
  <2>1. PICK n \in Nat : n = entitled[e]  BY <1>6
  <2>2. cashTotal \in Nat /\ shareTotal \in Nat  BY <1>7, <1>8, <2>1, HalfIsNat
  <2>3. cash0 = 0 => n * cash0 = 0  OBVIOUS
  <2>4. stock = 0 => (n * stock = 0 /\ 0 \div 2 = 0)  OBVIOUS
  <2> QED  BY <1>3, <1>7, <1>8, <2>1, <2>2, <2>3, <2>4
<1>10. /\ cashDue[e] = (IF 2 * day >= pay THEN 0 ELSE IF day >= ex THEN cashTotal ELSE 0)
       /\ received[e].cash = (IF 2 * day >= pay THEN IF day >= ex THEN cashTotal ELSE 0 ELSE 0)
       /\ sharesDue[e] = (IF 2 * day >= list THEN 0 ELSE IF day >= ex THEN shareTotal ELSE 0)
       /\ received[e].shares = (IF 2 * day >= list THEN IF day >= ex THEN shareTotal ELSE 0 ELSE 0)
  BY <1>1, <1>2, <1>4, <1>7, <1>8 DEF DatedEvent
<1>11. (e \in OnEx(d)) = (ex = d)  BY <1>1 DEF OnEx
<1>12. PICK ca : ca = CashAccrued(d)[e]  OBVIOUS
<1>13. PICK sa : sa = SharesAccrued(d)[e]  OBVIOUS
<1>14. ca = (IF ex = d THEN cashTotal ELSE cashDue[e])  BY <1>2, <1>7, <1>11, <1>12 DEF CashAccrued
<1>15. sa = (IF ex = d THEN shareTotal ELSE sharesDue[e])  BY <1>2, <1>8, <1>11, <1>13 DEF SharesAccrued
<1>16. (e \in Paying(d)) = (2 * d >= pay /\ 2 * (d - 1) < pay)  BY <1>1, <1>4 DEF Paying, SettlesOn
<1>17. (e \in Listing(d)) = (2 * d >= list /\ 2 * (d - 1) < list)  BY <1>1, <1>4 DEF Listing, SettlesOn
<1>18. /\ ca \in Nat
       /\ (IF e \in Paying(d) THEN 0 ELSE ca) = (IF 2 * d >= pay THEN 0 ELSE IF d >= ex THEN cashTotal ELSE 0)
       /\ received[e].cash + (IF e \in Paying(d) THEN ca ELSE 0)
            = (IF 2 * d >= pay THEN IF d >= ex THEN cashTotal ELSE 0 ELSE 0)
  <2>1. /\ d - 1 \in Int /\ d - 1 + 1 = d /\ d - 1 = day
    BY <1>4
  <2>2. /\ ca \in Nat
        /\ (IF 2 * (day + 1) >= pay /\ 2 * day < pay THEN 0 ELSE ca)
              = (IF 2 * (day + 1) >= pay THEN 0 ELSE IF day + 1 >= ex THEN cashTotal ELSE 0)
        /\ received[e].cash + (IF 2 * (day + 1) >= pay /\ 2 * day < pay THEN ca ELSE 0)
            = (IF 2 * (day + 1) >= pay THEN IF day + 1 >= ex THEN cashTotal ELSE 0 ELSE 0)
    BY <1>4, <1>9, <1>10, <1>14, OneSessionOn
  <2> QED  BY <1>4, <1>16, <2>1, <2>2
<1>19. /\ sa \in Nat
       /\ (IF e \in Listing(d) THEN 0 ELSE sa) = (IF 2 * d >= list THEN 0 ELSE IF d >= ex THEN shareTotal ELSE 0)
       /\ received[e].shares + (IF e \in Listing(d) THEN sa ELSE 0)
            = (IF 2 * d >= list THEN IF d >= ex THEN shareTotal ELSE 0 ELSE 0)
  <2>1. /\ d - 1 \in Int /\ d - 1 + 1 = d /\ d - 1 = day
    BY <1>4
  <2>2. /\ sa \in Nat
        /\ (IF 2 * (day + 1) >= list /\ 2 * day < list THEN 0 ELSE sa)
              = (IF 2 * (day + 1) >= list THEN 0 ELSE IF day + 1 >= ex THEN shareTotal ELSE 0)
        /\ received[e].shares + (IF 2 * (day + 1) >= list /\ 2 * day < list THEN sa ELSE 0)
            = (IF 2 * (day + 1) >= list THEN IF day + 1 >= ex THEN shareTotal ELSE 0 ELSE 0)
    BY <1>4, <1>9, <1>10, <1>15, OneSessionOn
  <2> QED  BY <1>4, <1>17, <2>1, <2>2
<1>20. ex = d => entitled[e] \in Nat  BY <1>4, <1>6
<1> QED  BY <1>1, <1>2, <1>5, <1>7, <1>8, <1>12, <1>13, <1>18, <1>19, <1>20

\* The bonus shares that are listed this morning.
Listed(d, i) == SumFunctionOnSet(SharesAccrued(d), Listing(d) \cap Of(i))

\* What the open of a session pays and lists is natural, and nothing is listed of a name
\* none of whose events has shares.
LEMMA MatureSums ==
  ASSUME MarketSound, ClaimsSound, Dated, phase = "close", day < Sessions, NEW d, d = day + 1
  PROVE  /\ SumFunctionOnSet(CashAccrued(d), Paying(d)) \in Nat
         /\ \A i \in Instruments :
              /\ Listed(d, i) \in Nat
              /\ (\A e \in Of(i) : SharesAccrued(d)[e] = 0) => Listed(d, i) = 0
<1>1. PICK f : f = CashAccrued(d)  OBVIOUS
<1>2. PICK g : g = SharesAccrued(d)  OBVIOUS
<1>3. \A e \in Ids : f[e] \in Nat /\ g[e] \in Nat  BY <1>1, <1>2, MaturedIs
<1>4. IsFiniteSet(Paying(d)) /\ Paying(d) \subseteq Ids  BY EventIs, FS_Subset DEF Paying
<1>5. SumFunctionOnSet(f, Paying(d)) \in Nat  BY <1>3, <1>4, SumIsNat
<1>6. ASSUME NEW i \in Instruments
      PROVE  /\ Listed(d, i) \in Nat
             /\ (\A e \in Of(i) : g[e] = 0) => Listed(d, i) = 0
  <2>1. PICK S : S = Listing(d) \cap Of(i)  OBVIOUS
  <2>2. IsFiniteSet(S) /\ S \subseteq Ids /\ S \subseteq Of(i)  BY <2>1, EventIs, FS_Subset
  <2>3. SumFunctionOnSet(g, S) \in Nat  BY <1>3, <2>2, SumIsNat
  <2>4. (\A e \in Of(i) : g[e] = 0) => SumFunctionOnSet(g, S) = 0  BY <2>2, SumOfZeros
  <2>5. Listed(d, i) = SumFunctionOnSet(g, S)  BY <1>2, <2>1 DEF Listed
  <2> QED  BY <2>3, <2>4, <2>5
<1> QED  BY <1>1, <1>2, <1>5, <1>6

\* A target of the chronological engine is a natural.
LEMMA TargetIsNat ==
  ASSUME MarketSound, BookSound, NEW w \in Weights, NEW q \in [Instruments -> Quote], NEW i \in Instruments
  PROVE  Target(w, q, i) \in Nat
<1>1. PICK price \in Nat \ {0} : price = IF q[i].open > 0 THEN q[i].open
                                        ELSE IF lastClose[i] = None THEN 1 ELSE lastClose[i]
  <2>1. q[i].open \in Nat  BY DEF Quote
  <2>2. lastClose[i] \in (Nat \ {0}) \cup {None}  BY DEF MarketSound, Known
  <2>3. lastClose[i] # None => lastClose[i] \in Nat \ {0}  BY <2>2
  <2>4. CASE q[i].open > 0  BY <2>1, <2>4
  <2>5. CASE ~(q[i].open > 0)  BY <2>3, <2>5
  <2> QED  BY <2>4, <2>5
<1>2. w[i] \in Nat /\ prevNav \in Nat  BY MarketAssumption DEF BookSound
<1>3. PICK p \in Nat : p = w[i] * prevNav  BY <1>2
<1>4. PICK k \in Nat \ {0} : k = 100 * price  BY <1>1
<1>5. PICK n \in Nat : n = p \div k  BY <1>3, <1>4, DivUp
<1>6. FloorLot(n, BuyLot[i]) \in 0..n  BY <1>5, LotIs, FloorLotWithin
<1>7. Target(w, q, i) = FloorLot(n, BuyLot[i])  BY <1>1, <1>3, <1>4, <1>5 DEF Target
<1> QED  BY <1>6, <1>7

\* What the open of a session does to the book and to the claims.
LEMMA OpenIs ==
  ASSUME IInv, NEW q, NEW w, V3Open(q, w), NEW d, d = day + 1
  PROVE  /\ phase = "close" /\ phase' = "orders" /\ d \in 1..Sessions /\ day' = d
         /\ UNCHANGED <<lastClose, config, events, prevNav, entitled, version>> /\ Ids' = Ids
         /\ cash \in Int /\ SumFunctionOnSet(CashAccrued(d), Paying(d)) \in Nat
         /\ cash' = cash + SumFunctionOnSet(CashAccrued(d), Paying(d))
         /\ shares' \in Shares /\ arrived' \in Shares /\ dayStart' = shares
         /\ \A i \in Instruments :
              /\ shares[i] \in Nat /\ Listed(d, i) \in Nat
              /\ shares'[i] = shares[i] + Listed(d, i) /\ arrived'[i] = Listed(d, i)
         /\ cashDue' \in [Ids -> Nat] /\ sharesDue' \in [Ids -> Nat]
         /\ received' \in [Ids -> [cash: Nat, shares: Nat]]
         /\ \A e \in Ids :
              /\ CashAccrued(d)[e] \in Nat /\ SharesAccrued(d)[e] \in Nat
              /\ cashDue'[e] = IF e \in Paying(d) THEN 0 ELSE CashAccrued(d)[e]
              /\ sharesDue'[e] = IF e \in Listing(d) THEN 0 ELSE SharesAccrued(d)[e]
              /\ received'[e].cash = received[e].cash + (IF e \in Paying(d) THEN CashAccrued(d)[e] ELSE 0)
              /\ received'[e].shares = received[e].shares + (IF e \in Listing(d) THEN SharesAccrued(d)[e] ELSE 0)
<1> USE DEF V3Open, OpenSession
<1>0. /\ MarketSound /\ BookSound /\ ClaimsSound /\ Dated
      /\ phase = "close" /\ day \in Nat /\ day < Sessions /\ Sessions \in Nat
  BY MarketAssumption DEF IInv, MarketSound
<1>1. d \in 1..Sessions /\ day' = d /\ phase' = "orders" /\ Mature(d)  BY <1>0
<1>2. UNCHANGED <<lastClose, config, events, prevNav, entitled, version>> /\ Ids' = Ids  BY DEF Ids
<1>3. PICK paid \in Nat : paid = SumFunctionOnSet(CashAccrued(d), Paying(d))  BY <1>0, MatureSums
<1>4. PICK listed \in Shares : listed = [i \in Instruments |-> Listed(d, i)]
  <2>1. \A i \in Instruments : Listed(d, i) \in Nat  BY <1>0, MatureSums
  <2> QED  BY <2>1 DEF Shares
<1>5. /\ dayStart' = shares /\ cash' = cash + paid
      /\ shares' = [i \in Instruments |-> shares[i] + listed[i]]
      /\ arrived' = listed
      /\ cashDue' = [e \in Ids |-> IF e \in Paying(d) THEN 0 ELSE CashAccrued(d)[e]]
      /\ sharesDue' = [e \in Ids |-> IF e \in Listing(d) THEN 0 ELSE SharesAccrued(d)[e]]
      /\ received' = [e \in Ids |->
          [cash |-> received[e].cash + IF e \in Paying(d) THEN CashAccrued(d)[e] ELSE 0,
           shares |-> received[e].shares + IF e \in Listing(d) THEN SharesAccrued(d)[e] ELSE 0]]
  <2>1. listed = [i \in Instruments |-> SumFunctionOnSet(SharesAccrued(d), Listing(d) \cap Of(i))]
    BY <1>4 DEF Listed
  <2>2. /\ shares' = [i \in Instruments |->
                        shares[i] + SumFunctionOnSet(SharesAccrued(d), Listing(d) \cap Of(i))]
        /\ arrived' = [i \in Instruments |-> SumFunctionOnSet(SharesAccrued(d), Listing(d) \cap Of(i))]
    BY <1>1 DEF Mature
  <2>3. \A i \in Instruments : listed[i] = SumFunctionOnSet(SharesAccrued(d), Listing(d) \cap Of(i))
    BY <2>1
  <2> QED  BY <1>1, <1>3, <2>1, <2>2, <2>3 DEF Mature
<1>6. /\ shares' \in Shares /\ arrived' \in Shares /\ cash \in Int
      /\ \A i \in Instruments :
           /\ shares[i] \in Nat /\ listed[i] \in Nat /\ listed[i] = Listed(d, i)
           /\ shares'[i] = shares[i] + listed[i] /\ arrived'[i] = listed[i]
  <2>1. shares \in Shares /\ cash \in Int  BY <1>0 DEF BookSound
  <2>2. \A i \in Instruments : shares[i] \in Nat /\ listed[i] \in Nat  BY <1>4, <2>1 DEF Shares
  <2>3. shares' \in Shares
    <3>1. \A i \in Instruments : shares[i] + listed[i] \in Nat  BY <2>2
    <3> QED  BY <1>5, <3>1 DEF Shares
  <2> QED  BY <1>4, <1>5, <2>1, <2>2, <2>3
<1>7. \A e \in Ids : CashAccrued(d)[e] \in Nat /\ SharesAccrued(d)[e] \in Nat
                     /\ received[e].cash \in Nat /\ received[e].shares \in Nat
  <2>1. \A e \in Ids : received[e] \in [cash: Nat, shares: Nat]  BY <1>0 DEF ClaimsSound
  <2> QED  BY <1>0, <2>1, MaturedIs
<1>8. cashDue' \in [Ids -> Nat] /\ sharesDue' \in [Ids -> Nat]  BY <1>5, <1>7
<1>9. received' \in [Ids -> [cash: Nat, shares: Nat]]
  <2>1. \A e \in Ids :
          /\ received[e].cash + (IF e \in Paying(d) THEN CashAccrued(d)[e] ELSE 0) \in Nat
          /\ received[e].shares + (IF e \in Listing(d) THEN SharesAccrued(d)[e] ELSE 0) \in Nat
    BY <1>7
  <2> QED  BY <1>5, <2>1
<1>10. \A e \in Ids :
         /\ cashDue'[e] = IF e \in Paying(d) THEN 0 ELSE CashAccrued(d)[e]
         /\ sharesDue'[e] = IF e \in Listing(d) THEN 0 ELSE SharesAccrued(d)[e]
         /\ received'[e].cash = received[e].cash + (IF e \in Paying(d) THEN CashAccrued(d)[e] ELSE 0)
         /\ received'[e].shares = received[e].shares + (IF e \in Listing(d) THEN SharesAccrued(d)[e] ELSE 0)
  BY <1>5
<1> QED  BY <1>0, <1>1, <1>2, <1>3, <1>5, <1>6, <1>7, <1>8, <1>9, <1>10

\* The open of a session keeps the invariant.
LEMMA OpenSound ==
  ASSUME IInv, NEW q \in PanelAfter(day), NEW w \in Weights \cup {NoTargets}, V3Open(q, w)
  PROVE  IInv'
<1>0. /\ MarketSound /\ BookSound /\ ClaimsSound /\ Priced /\ Dated /\ Settled /\ Fresh
      /\ Chronological /\ phase = "close" /\ day \in Nat /\ day < Sessions /\ Sessions \in Nat
  BY MarketAssumption DEF IInv, MarketSound, V3Open, OpenSession
<1>1. PICK d \in 1..Sessions : d = day + 1  BY <1>0
<1>2. phase' = "orders" /\ day' = d /\ shares' \in Shares /\ arrived' \in Shares /\ dayStart' = shares
  BY <1>1, OpenIs
<1>3. UNCHANGED <<lastClose, config, events, prevNav, entitled, version>> /\ Ids' = Ids  BY <1>1, OpenIs
<1>4. cash \in Int /\ cash' \in Int /\ cash' >= cash  BY <1>1, OpenIs
<1>5. \A i \in Instruments :
        /\ shares[i] \in Nat /\ Listed(d, i) \in Nat
        /\ shares'[i] = shares[i] + Listed(d, i) /\ arrived'[i] = Listed(d, i)
  BY <1>1, OpenIs
<1>6. \A e \in Ids :
        /\ SharesAccrued(d)[e] \in Nat
        /\ cashDue'[e] = IF e \in Paying(d) THEN 0 ELSE CashAccrued(d)[e]
        /\ sharesDue'[e] = IF e \in Listing(d) THEN 0 ELSE SharesAccrued(d)[e]
        /\ received'[e].cash = received[e].cash + (IF e \in Paying(d) THEN CashAccrued(d)[e] ELSE 0)
        /\ received'[e].shares = received[e].shares + (IF e \in Listing(d) THEN SharesAccrued(d)[e] ELSE 0)
  BY <1>1, OpenIs
<1>7. q \in [Instruments -> Quote] /\ quote' = q
  BY <1>0, <1>1, PanelIsQuotes DEF PanelAfter, V3Open, OpenSession
<1>8. desired' \in Shares
  <2> USE DEF V3Open, OpenSession
  <2>1. CASE w = NoTargets \/ desired' = Nothing
    <3>1. desired' = Nothing  BY <2>1
    <3> QED  BY <3>1 DEF Nothing, Shares
  <2>2. CASE w # NoTargets /\ desired' # Nothing
    <3>1. w \in Weights /\ desired' = [i \in Instruments |-> Target(w, q, i)]  BY <2>2
    <3>2. \A i \in Instruments : Target(w, q, i) \in Nat  BY <1>0, <1>7, <3>1, TargetIsNat
    <3> QED  BY <3>1, <3>2 DEF Shares
  <2> QED  BY <2>1, <2>2
<1>9. pending' \subseteq Instruments  BY DEF V3Open, OpenSession
<1>10. MarketSound'
  <2>1. volume' \in Shares
    <3>1. \A i \in Instruments : quote[i].volume \in Nat  BY <1>0, QuoteIs
    <3> QED  BY <3>1 DEF Shares, V3Open, OpenSession
  <2>2. UNCHANGED <<reference, ahead>>  BY DEF V3Open, OpenSession
  <2> QED  BY <1>0, <1>1, <1>2, <1>3, <1>7, <2>1, <2>2 DEF MarketSound
<1>11. BookSound'
  <2>1. traded' = 0  BY DEF V3Open, OpenSession
  <2> QED  BY <1>0, <1>2, <1>3, <1>4, <1>8, <1>9, <2>1 DEF BookSound
<1>12. ClaimsSound'
  <2>1. cashDue' \in [Ids -> Nat] /\ sharesDue' \in [Ids -> Nat]  BY <1>1, OpenIs
  <2>2. received' \in [Ids -> [cash: Nat, shares: Nat]]  BY <1>1, OpenIs
  <2> QED  BY <1>0, <1>3, <2>1, <2>2 DEF ClaimsSound
<1>13. Dated'
  <2> SUFFICES ASSUME NEW e \in Ids PROVE DatedEvent(e, d - 1, d)'
    <3>1. Dated' = (\A e \in Ids : DatedEvent(e, d - 1, d)')  BY <1>2, <1>3 DEF Dated
    <3> QED  BY <3>1
  <2>1. d - 1 = day  BY <1>0, <1>1
  <2> QED  BY <1>0, <1>1, <1>3, <1>6, <2>1, MaturedIs DEF DatedEvent
<1>14. Priced'
  <2>1. ASSUME NEW e \in Ids, lastClose[events[e].instrument] = None
        PROVE  SharesAccrued(d)[e] = 0 /\ entitled[e] \in {None, 0}
    <3>1. sharesDue[e] \in Nat /\ ~(sharesDue[e] > 0) /\ entitled[e] \in {None, 0}
      BY <1>0, <2>1 DEF Priced, ClaimsSound
    <3>2. CASE e \in OnEx(d)
      <4>1. entitled[e] = 0
        <5>1. entitled[e] \in Nat  BY <1>0, <1>1, <3>2, MaturedIs DEF OnEx
        <5> QED  BY <3>1, <5>1, MarketAssumption
      <4>2. events[e].stock \in Nat  BY <1>0, EventIs
      <4>3. (0 * events[e].stock) \div 2 = 0
        <5>1. 0 * events[e].stock = 0  BY <4>2
        <5> QED  BY <5>1
      <4> QED  BY <3>1, <3>2, <4>1, <4>3 DEF SharesAccrued
    <3>3. CASE e \notin OnEx(d)  BY <3>1, <3>3 DEF SharesAccrued
    <3> QED  BY <3>1, <3>2, <3>3
  <2>2. ASSUME NEW i \in Instruments, shares'[i] > 0 PROVE lastClose[i] # None
    <3>1. CASE shares[i] > 0  BY <1>0, <3>1 DEF Priced
    <3>2. CASE ~(shares[i] > 0)
      <4>1. Listed(d, i) # 0  BY <1>5, <2>2, <3>2
      <4>2. ~(\A e \in Of(i) : SharesAccrued(d)[e] = 0)
        BY <1>0, <1>1, <4>1, MatureSums
      <4> QED  BY <2>1, <4>2 DEF Of
    <3> QED  BY <3>1, <3>2
  <2>3. ASSUME NEW e \in Ids, sharesDue'[e] > 0 \/ entitled[e] \notin {None, 0}
        PROVE  lastClose[events[e].instrument] # None
    <3>1. CASE entitled[e] \notin {None, 0}  BY <2>1, <3>1
    <3>2. CASE sharesDue'[e] > 0
      <4>1. SharesAccrued(d)[e] # 0  BY <1>6, <3>2
      <4> QED  BY <2>1, <4>1
    <3> QED  BY <2>3, <3>1, <3>2
  <2> QED  BY <1>3, <2>2, <2>3 DEF Priced
<1>15. Settled'
  <2>1. \A i \in Instruments : arrived'[i] <= shares'[i]  BY <1>5
  <2>2. \A i \in pending' : shares'[i] = dayStart'[i] + arrived'[i]  BY <1>2, <1>5, <1>9
  <2>3. cash' >= 0  BY <1>0, <1>4 DEF Settled
  <2> QED  BY <1>0, <1>2, <1>3, <2>1, <2>2, <2>3 DEF Settled, Chronological
<1>16. Fresh'  BY <1>0, <1>3 DEF Fresh, Chronological
<1> QED  BY <1>10, <1>11, <1>12, <1>13, <1>14, <1>15, <1>16 DEF IInv

\* The close of a session keeps the invariant: what was solvent, marked and locked.
LEMMA CloseSound == ASSUME IInv, V3Close PROVE IInv'
<1> USE DEF V3Close, CloseSession, book
<1>0. /\ MarketSound /\ BookSound /\ ClaimsSound /\ Priced /\ Dated /\ Settled /\ Fresh
      /\ Chronological /\ phase = "orders" /\ day \in 0..Sessions /\ Sessions \in Nat
      /\ AllPriced
  BY MarketAssumption, PricedIsAllPriced DEF IInv, MarketSound
<1>1. /\ phase' \in {"close", "done"}
      /\ UNCHANGED <<day, quote, volume, book, events, cashDue, sharesDue, received>>
      /\ Ids' = Ids
  BY DEF Ids
<1>2. prevNav' \in Nat \ {0}
  <2>1. PICK nav \in Int : nav = Nav("close")  BY <1>0, NavIs
  <2>2. ~(nav <= 0)  BY <2>1 DEF Insolvent
  <2> QED  BY <2>1, <2>2
<1>3. /\ lastClose' \in [Instruments -> Known]
      /\ \A i \in Instruments : lastClose[i] # None \/ Row(i) => lastClose'[i] # None
  <2>1. ASSUME NEW i \in Instruments
        PROVE  /\ ClosingMark(i) \in Known
               /\ lastClose[i] # None \/ Row(i) => ClosingMark(i) # None
    <3>1. /\ lastClose[i] \in Known /\ quote[i].open \in Nat /\ quote[i].close \in Nat
          /\ quote[i].open > 0 => quote[i].close \in Nat \ {0}
      BY <1>0, QuoteIs DEF MarketSound
    <3>2. CASE Row(i)
      <4>1. ClosingMark(i) = quote[i].close /\ quote[i].close \in Nat \ {0}
        BY <3>1, <3>2 DEF ClosingMark, Row
      <4> QED  BY <4>1, MarketAssumption DEF Known
    <3>3. CASE ~Row(i) /\ ClosingMark(i) = lastClose[i]  BY <3>1, <3>3
    <3>4. CASE ~Row(i) /\ ClosingMark(i) # lastClose[i]
      <4>1. /\ ClosingMark(i) = LimitReference(i)
            /\ shares[i] > 0 \/ \E e \in Of(i) : sharesDue[e] > 0
        BY <3>4 DEF ClosingMark
      <4>2. lastClose[i] # None
        <5>1. CASE shares[i] > 0  BY <1>0, <3>4, <5>1 DEF AllPriced
        <5>2. CASE \E e \in Of(i) : sharesDue[e] > 0  BY <1>0, <5>2 DEF AllPriced, Of
        <5> QED  BY <4>1, <5>1, <5>2
      <4>3. LimitReference(i) \in Nat \ {0}
        <5>1. lastClose[i] \in Nat  BY <3>1, <4>2 DEF Known
        <5> QED  BY <1>0, <5>1, LimitReferenceIsPositive
      <4> QED  BY <4>1, <4>3, MarketAssumption DEF Known
    <3> QED  BY <3>2, <3>3, <3>4
  <2>2. lastClose' = [i \in Instruments |-> ClosingMark(i)]  OBVIOUS
  <2> QED  BY <2>1, <2>2
<1>4. \A e \in Ids :
        entitled'[e] = IF events[e].record = day THEN shares[events[e].instrument] ELSE entitled[e]
  BY DEF LockedAtClose
<1>5. entitled' \in [Ids -> Nat \cup {None}]
  <2>1. \A e \in Ids : shares[events[e].instrument] \in Nat /\ entitled[e] \in Nat \cup {None}
    BY <1>0, EventIs DEF BookSound, Shares, ClaimsSound
  <2> QED  BY <2>1 DEF LockedAtClose
<1>6. MarketSound'  BY <1>0, <1>1, <1>3 DEF MarketSound
<1>7. BookSound'  BY <1>0, <1>1, <1>2 DEF BookSound
<1>8. ClaimsSound'  BY <1>0, <1>1, <1>5 DEF ClaimsSound
<1>9. Priced'
  <2>1. \A i \in Instruments : shares[i] > 0 => lastClose'[i] # None
    BY <1>0, <1>3 DEF AllPriced
  <2>2. ASSUME NEW e \in Ids, sharesDue[e] > 0 \/ entitled'[e] \notin {None, 0}
        PROVE  lastClose'[events[e].instrument] # None
    <3>1. events[e].instrument \in Instruments  BY <1>0, EventIs
    <3>2. CASE sharesDue[e] > 0  BY <1>0, <1>3, <3>1, <3>2 DEF AllPriced
    <3>3. CASE entitled[e] \notin {None, 0}  BY <1>0, <1>3, <3>1, <3>3 DEF Priced
    <3>4. CASE events[e].record = day /\ entitled'[e] \notin {None, 0}
      <4>1. shares[events[e].instrument] \in Nat /\ shares[events[e].instrument] # 0
        BY <1>0, <1>4, <3>1, <3>4 DEF BookSound, Shares
      <4> QED  BY <2>1, <3>1, <4>1
    <3> QED  BY <1>4, <2>2, <3>2, <3>3, <3>4
  <2> QED  BY <1>1, <2>1, <2>2 DEF Priced
<1>10. Dated'
  <2> SUFFICES ASSUME NEW e \in Ids PROVE DatedEvent(e, day, day)'
    <3>1. Dated' = (\A e \in Ids : DatedEvent(e, day, day)')  BY <1>1 DEF Dated
    <3> QED  BY <3>1
  <2>1. DatedEvent(e, day - 1, day)  BY <1>0 DEF Dated
  <2>2. PICK ex \in Int, record \in Int : ex = events[e].ex /\ record = events[e].record /\ record < ex
    BY <1>0, EventIs DEF Schedulable
  <2>3. shares[events[e].instrument] \in Nat /\ shares[events[e].instrument] # None
    <3>1. shares[events[e].instrument] \in Nat  BY <1>0, EventIs DEF BookSound, Shares
    <3> QED  BY <3>1, MarketAssumption
  <2>4. (entitled[e] = None) = (day - 1 < record)  BY <2>1, <2>2 DEF DatedEvent
  <2>5. (entitled'[e] = None) = (day < record)
    <3>1. CASE record = day
      <4>1. entitled'[e] = shares[events[e].instrument]  BY <1>4, <2>2, <3>1
      <4>2. ~(day < record)  BY <1>0, <3>1
      <4> QED  BY <2>3, <4>1, <4>2
    <3>2. CASE record # day
      <4>1. entitled'[e] = entitled[e]  BY <1>4, <2>2, <3>2
      <4> QED  BY <1>0, <2>4, <3>2, <4>1
    <3> QED  BY <3>1, <3>2
  <2>6. day >= ex => entitled'[e] = entitled[e]  BY <1>0, <1>4, <2>2
  <2> QED  BY <1>1, <2>1, <2>2, <2>5, <2>6 DEF DatedEvent
<1>11. Settled'  BY <1>0, <1>1 DEF Settled, Chronological
<1>12. Fresh'  BY <1>0 DEF Fresh, Chronological
<1> QED  BY <1>6, <1>7, <1>8, <1>9, <1>10, <1>11, <1>12 DEF IInv

-----------------------------------------------------------------------------
(* The first engine. *)

\* What the old engine and an empty set of dividends leave of the invariant.
LEMMA OldSound ==
  ASSUME IInv, ~Chronological, UNCHANGED <<sessionVars, version>>
  PROVE  /\ MarketSound /\ BookSound /\ ClaimsSound /\ Priced /\ Settled /\ Fresh
         /\ Ids = {} /\ ClaimsSound' /\ Dated' /\ ~Chronological'
         /\ UNCHANGED <<dayStart, traded, prevNav, config>>
         /\ Priced' = \A i \in Instruments : shares'[i] > 0 =>
                         (lastClose'[i] # None \/ ahead'[i].open > 0)
<1> USE DEF sessionVars, risk, claims
<1>1. /\ MarketSound /\ BookSound /\ ClaimsSound /\ Priced /\ Settled /\ Fresh
      /\ Ids = {} /\ Ids' = {} /\ Chronological' = Chronological
  BY OldEngineHasNoEvents DEF IInv, Ids, Chronological
<1>2. ClaimsSound'  BY <1>1 DEF ClaimsSound
<1>3. Dated'  BY <1>1 DEF Dated
<1>4. Priced' = \A i \in Instruments : shares'[i] > 0 => (lastClose'[i] # None \/ ahead'[i].open > 0)
  BY <1>1 DEF Priced
<1> QED  BY <1>1, <1>2, <1>3, <1>4

\* Closes known once a panel has been seen stay positive, and seeing it again changes
\* nothing.
LEMMA SeenIs ==
  ASSUME NEW q \in [Instruments -> Quote], NEW known \in [Instruments -> Known]
  PROVE  /\ Seen(q, known) \in [Instruments -> Known]
         /\ Seen(q, Seen(q, known)) = Seen(q, known)
         /\ \A i \in Instruments : (q[i].open > 0 \/ known[i] # None) => Seen(q, known)[i] # None
<1>1. \A i \in Instruments : /\ q[i].open \in Nat
                             /\ q[i].open > 0 => q[i].close \in Nat \ {0}
  BY DEF Quote
<1>2. \A i \in Instruments :
        Seen(q, known)[i] = IF q[i].open > 0 THEN q[i].close ELSE known[i]
  BY DEF Seen
<1>3. Seen(q, known) \in [Instruments -> Known]  BY <1>1 DEF Seen, Known
<1>4. Seen(q, Seen(q, known)) = Seen(q, known)  BY <1>2 DEF Seen
<1>5. ASSUME NEW i \in Instruments, q[i].open > 0 \/ known[i] # None PROVE Seen(q, known)[i] # None
  <2>1. CASE q[i].open > 0
    <3>1. Seen(q, known)[i] \in Nat  BY <1>1, <1>2, <2>1
    <3> QED  BY <3>1, MarketAssumption
  <2>2. CASE ~(q[i].open > 0)  BY <1>2, <1>5, <2>2
  <2> QED  BY <2>1, <2>2
<1> QED  BY <1>3, <1>4, <1>5

\* A target of the first engine is a natural, of a negative value too.
LEMMA Target2IsNat ==
  ASSUME MarketSound, BookSound, NEW w \in Weights, NEW q \in [Instruments -> Quote], NEW i \in Instruments,
         Nav2 \in Int
  PROVE  Target2(w, q, i) \in Nat
<1>0. CASE q[i].open = 0  BY <1>0 DEF Target2
<1>1. CASE q[i].open # 0
  <2>1. q[i].open \in Nat \ {0}  BY <1>1 DEF Quote
  <2>2. PICK p \in Nat : p = Pct(q[i].open, config.slippage)  BY <2>1, ConfigIs, PctIsNat
  <2>3. PICK k \in Nat \ {0} : k = 100 * (q[i].open + Pct(q[i].open, config.slippage))  BY <2>1, <2>2
  <2>4. w[i] \in Nat  BY MarketAssumption
  <2>5. PICK v \in Int : v = w[i] * Nav2  BY <2>4
  <2>6. PICK n \in Int : n = v \div k  OBVIOUS
  <2>7. PICK lot \in Nat \ {0} : lot = BuyLot[i]  BY LotIs
  <2>8. PICK f \in Int : f = FloorLot(n, lot)  BY DEF FloorLot
  <2>9. Target2(w, q, i) = Most(f, 0)  BY <1>1, <2>3, <2>5, <2>6, <2>7, <2>8 DEF Target2
  <2> QED  BY <2>9 DEF Most
<1> QED  BY <1>0, <1>1

\* A session of the first engine keeps the invariant.
LEMMA MarkSound ==
  ASSUME IInv, NEW next \in PanelAfter(day + 1), NEW w \in Weights \cup {NoTargets}, V1Mark(next, w)
  PROVE  IInv'
<1> USE DEF V1Mark, MarkDay, book
<1>0. /\ MarketSound /\ BookSound /\ ClaimsSound /\ Priced /\ Settled /\ Fresh
      /\ Ids = {} /\ ClaimsSound' /\ Dated' /\ ~Chronological /\ ~Chronological'
      /\ UNCHANGED <<dayStart, traded, prevNav, config, shares, cash>>
      /\ phase = "close" /\ day \in Nat /\ day < Sessions /\ Sessions \in Nat
  BY OldSound, MarketAssumption DEF MarketSound
<1>1. Priced' = \A i \in Instruments : shares'[i] > 0 => (lastClose'[i] # None \/ ahead'[i].open > 0)
  BY OldSound
<1>2. ahead \in [Instruments -> Quote] /\ lastClose \in [Instruments -> Known]
      /\ reference \in [Instruments -> Known]
  BY <1>0 DEF MarketSound
<1>3. next \in [Instruments -> Quote]
  <2>1. CASE day + 1 < Sessions
    <3>1. day + 1 + 1 \in 1..Sessions /\ next \in Panel(day + 1 + 1)  BY <1>0, <2>1 DEF PanelAfter
    <3> QED  BY <3>1, PanelIsQuotes
  <2>2. CASE ~(day + 1 < Sessions)
    <3>1. next = NoPanel  BY <2>2 DEF PanelAfter
    <3>2. NoPanel \in [Instruments -> Quote]  BY DEF NoPanel, NoRow, Quote
    <3> QED  BY <3>1, <3>2
  <2> QED  BY <2>1, <2>2
<1>4. /\ lastClose' \in [Instruments -> Known] /\ reference' \in [Instruments -> Known]
      /\ \A i \in Instruments : (ahead[i].open > 0 \/ lastClose[i] # None) => lastClose'[i] # None
  BY <1>2, SeenIs
<1>5. \A i \in Instruments : shares[i] > 0 => lastClose'[i] # None
  BY <1>0, <1>4 DEF Priced
<1>6. Nav2 \in Int
  <2> DEFINE f == [i \in Instruments |-> IF shares[i] = 0 THEN 0 ELSE shares[i] * lastClose'[i]]
  <2>1. f \in [Instruments -> Nat]
    <3> SUFFICES ASSUME NEW i \in Instruments
                 PROVE  (IF shares[i] = 0 THEN 0 ELSE shares[i] * lastClose'[i]) \in Nat
      OBVIOUS
    <3>1. shares[i] \in Nat  BY <1>0 DEF BookSound, Shares
    <3>2. CASE shares[i] # 0
      <4>1. lastClose'[i] \in Nat  BY <1>4, <1>5, <3>1, <3>2 DEF Known
      <4> QED  BY <3>1, <3>2, <4>1
    <3> QED  BY <3>2
  <2>2. cash \in Int /\ Nav2 = cash + SumFunction(f)  BY <1>0 DEF BookSound, Nav2
  <2> HIDE DEF f
  <2>3. SumFunction(f) \in Nat  BY <2>1, SumFunctionIsNat, MarketAssumption
  <2> QED  BY <2>2, <2>3
<1>7. desired' \in Shares /\ pending' \subseteq Instruments /\ Nothing \in Shares
  <2>1. Nothing \in Shares  BY DEF Nothing, Shares
  <2>2. CASE w # NoTargets /\ day + 1 < Sessions
    <3>1. w \in Weights /\ desired' = [i \in Instruments |-> Target2(w, next, i)]  BY <2>2
    <3>2. \A i \in Instruments : Target2(w, next, i) \in Nat  BY <1>0, <1>3, <1>6, <3>1, Target2IsNat
    <3> QED  BY <2>1, <3>1, <3>2 DEF Shares
  <2>3. CASE ~(w # NoTargets /\ day + 1 < Sessions)  BY <2>1, <2>3
  <2> QED  BY <2>2, <2>3
<1>8. phase' \in {"orders", "done", "close"}  OBVIOUS
<1>9. MarketSound'
  <2>1. volume' \in Shares
    <3>1. \A i \in Instruments : ahead[i].volume \in Nat  BY <1>0, QuoteIs
    <3> QED  BY <3>1 DEF Shares
  <2> QED  BY <1>0, <1>2, <1>3, <1>4, <1>8, <2>1 DEF MarketSound
<1>10. BookSound'  BY <1>0, <1>7 DEF BookSound
<1>11. Priced'  BY <1>0, <1>1, <1>5
<1>12. Settled'
  <2>1. \A i \in Instruments : arrived'[i] = 0 /\ shares[i] \in Nat
    BY <1>0 DEF Nothing, BookSound, Shares
  <2> QED  BY <1>0, <1>7, <2>1 DEF Settled
<1>13. Fresh'
  <2>1. Seen(ahead, Seen(ahead, lastClose)) = Seen(ahead, lastClose)  BY <1>2, SeenIs
  <2>2. reference' = lastClose'  BY <1>0, <2>1 DEF Fresh
  <2> QED  BY <2>2 DEF Fresh
<1> QED  BY <1>0, <1>9, <1>10, <1>11, <1>12, <1>13 DEF IInv

\* A sell brings nothing negative when the fees are not above its value.
LEMMA ProceedsAre ==
  ASSUME MarketSound, NEW i \in Instruments, NEW n \in Nat
  PROVE  Proceeds(i, n) \in Int /\ (FeesBelowValue => Proceeds(i, n) >= 0)
<1>1. config.commission \in Nat /\ config.stamp \in Nat /\ ahead[i].open \in Nat  BY ConfigIs, QuoteIs
<1>2. PICK gross \in Nat : gross = n * ahead[i].open  BY <1>1
<1>3. PICK x \in Nat, y \in Nat : x = gross * config.commission /\ y = gross * config.stamp  BY <1>1
<1>4. PICK a \in Nat : a = x \div 100 /\ a * 100 <= x  BY DivUp
<1>5. PICK b \in Nat : b = y \div 100 /\ b * 100 <= y  BY DivUp
<1>6. Proceeds(i, n) = gross - a - b  BY <1>2, <1>3, <1>4, <1>5 DEF Proceeds, Pct
<1>7. ASSUME FeesBelowValue PROVE gross - a - b >= 0
  <2>1. config.commission + config.stamp <= 100  BY <1>7 DEF FeesBelowValue, MarketSound
  <2>2. PICK c \in Nat, s \in Nat : c = config.commission /\ s = config.stamp /\ c + s <= 100
    BY <1>1, <2>1
  <2>3. gross * (100 - c - s) >= 0 /\ gross * (100 - c - s) = 100 * gross - gross * c - gross * s
    BY <2>2
  <2> QED  BY <1>3, <1>4, <1>5, <2>2, <2>3
<1> QED  BY <1>6, <1>7

\* A buy of nothing costs nothing.
LEMMA CostIsNat ==
  ASSUME MarketSound, NEW i \in Instruments, NEW n \in Nat
  PROVE  Cost(i, n) \in Nat /\ (n = 0 => Cost(i, n) = 0)
<1>1. config.commission \in Nat /\ config.slippage \in Nat /\ ahead[i].open \in Nat  BY ConfigIs, QuoteIs
<1>2. PICK p \in Nat : p = ahead[i].open + Pct(ahead[i].open, config.slippage)
  <2>1. Pct(ahead[i].open, config.slippage) \in Nat  BY <1>1, PctIsNat
  <2> QED  BY <1>1, <2>1
<1>3. PICK paid \in Nat : paid = n * p  OBVIOUS
<1>4. PICK c \in Nat : c = Pct(paid, config.commission)  BY <1>1, PctIsNat
<1>5. Cost(i, n) = paid + c  BY <1>2, <1>3, <1>4 DEF Cost
<1>6. n = 0 => c = 0
  <2>1. n = 0 => paid = 0  BY <1>3
  <2>2. 0 * config.commission = 0 /\ 0 \div 100 = 0  BY <1>1
  <2> QED  BY <1>4, <2>1, <2>2 DEF Pct
<1> QED  BY <1>3, <1>5, <1>6

\* A sell of the first engine keeps the invariant.
LEMMA SellSound ==
  ASSUME IInv, NEW answer \in GateAnswers, V1Sell(answer)
  PROVE  IInv'
<1> USE DEF V1Sell, SellOne, market
<1>0. /\ MarketSound /\ BookSound /\ ClaimsSound /\ Priced /\ Settled /\ Fresh
      /\ Ids = {} /\ ClaimsSound' /\ Dated' /\ ~Chronological /\ ~Chronological'
      /\ UNCHANGED <<dayStart, traded, prevNav, config>>
      /\ phase = "orders" /\ answer \in Nat
  BY OldSound, MarketAssumption
<1>1. Priced' = \A i \in Instruments : shares'[i] > 0 => (lastClose'[i] # None \/ ahead'[i].open > 0)
  BY OldSound
<1>2. PICK i \in pending :
        LET n == IF Suspended2(i) THEN 0 ELSE SellFill(i, answer)
        IN /\ Selling(i)
           /\ cash' = cash + Proceeds(i, n)
           /\ shares' = [shares EXCEPT ![i] = @ - n]
           /\ pending' = pending \ {i}
  OBVIOUS
<1>3. /\ i \in Instruments /\ shares[i] \in Nat /\ desired[i] \in Nat /\ arrived[i] = 0
      /\ shares \in Shares /\ cash \in Int
  BY <1>0 DEF BookSound, Shares, Settled
<1>4. PICK n \in 0..shares[i] : n = IF Suspended2(i) THEN 0 ELSE SellFill(i, answer)
  <2>1. Least(shares[i] - desired[i], answer) \in 0..shares[i]
    BY <1>0, <1>2, <1>3 DEF Selling, Least
  <2>2. SellFill(i, answer) \in 0..shares[i]  BY <1>3, <2>1 DEF SellFill
  <2> QED  BY <1>3, <2>2
<1>5. /\ cash' = cash + Proceeds(i, n)
      /\ shares' = [shares EXCEPT ![i] = shares[i] - n]
      /\ pending' = pending \ {i}
  BY <1>2, <1>4
<1>6. cash' \in Int /\ (FeesBelowValue => cash' >= 0)
  <2>1. n \in Nat  BY <1>3
  <2>2. PICK p \in Int : p = Proceeds(i, n) /\ (FeesBelowValue => p >= 0)  BY <1>0, <1>3, <2>1, ProceedsAre
  <2> QED  BY <1>0, <1>3, <1>5, <2>2 DEF Settled
<1>7. /\ shares' \in Shares /\ shares'[i] \in Nat
      /\ \A j \in Instruments : j # i => shares'[j] = shares[j]
      /\ shares'[i] <= shares[i]
  <2>1. shares[i] - n \in Nat  BY <1>3
  <2>2. shares' \in Shares /\ shares'[i] = shares[i] - n
        /\ \A j \in Instruments : j # i => shares'[j] = shares[j]
    BY <1>3, <1>5, <2>1 DEF Shares
  <2> QED  BY <1>3, <2>1, <2>2
<1>8. MarketSound'  BY <1>0 DEF MarketSound
<1>9. BookSound'  BY <1>0, <1>5, <1>6, <1>7 DEF BookSound
<1>10. Priced'
  <2>1. \A j \in Instruments : shares'[j] > 0 => shares[j] > 0
    BY <1>3, <1>7
  <2> QED  BY <1>0, <1>1, <2>1 DEF Priced
<1>11. Settled'
  <2>1. \A j \in Instruments : arrived[j] <= shares'[j]  BY <1>0, <1>3, <1>7 DEF Settled
  <2> QED  BY <1>0, <1>5, <1>6, <2>1 DEF Settled
<1>12. Fresh'  BY <1>0 DEF Fresh, Seen
<1> QED  BY <1>0, <1>8, <1>9, <1>10, <1>11, <1>12 DEF IInv

\* A buy of the first engine keeps the invariant.
LEMMA BuySound ==
  ASSUME IInv, NEW answer \in GateAnswers, V1Buy(answer)
  PROVE  IInv'
<1> USE DEF V1Buy, BuyOne, market
<1>0. /\ MarketSound /\ BookSound /\ ClaimsSound /\ Priced /\ Settled /\ Fresh
      /\ Ids = {} /\ ClaimsSound' /\ Dated' /\ ~Chronological /\ ~Chronological'
      /\ UNCHANGED <<dayStart, traded, prevNav, config>>
      /\ phase = "orders" /\ answer \in Nat
  BY OldSound, MarketAssumption
<1>1. Priced' = \A i \in Instruments : shares'[i] > 0 => (lastClose'[i] # None \/ ahead'[i].open > 0)
  BY OldSound
<1>2. PICK i \in pending :
        LET n == IF Suspended2(i) THEN 0 ELSE BuyFill(i, answer)
        IN /\ ~Selling(i)
           /\ cash' = cash - Cost(i, n)
           /\ shares' = [shares EXCEPT ![i] = @ + n]
           /\ arrived' = [arrived EXCEPT ![i] = @ + n]
           /\ pending' = pending \ {i}
  OBVIOUS
<1>3. /\ i \in Instruments /\ shares[i] \in Nat /\ desired[i] \in Nat /\ arrived[i] = 0
      /\ shares \in Shares /\ arrived \in Shares /\ cash \in Int
  BY <1>0 DEF BookSound, Shares, Settled
<1>4. PICK n \in Nat : /\ n = IF Suspended2(i) THEN 0 ELSE BuyFill(i, answer)
                       /\ n # 0 => ahead[i].open # 0 /\ ~(Cost(i, n) > cash)
  <2>1. PICK cap \in Nat : cap = VolumeCap(i)
    <3>1. PICK v \in Nat : v = Pct(volume[i], config.participation)
      BY <1>0, <1>3, QuoteIs, ConfigIs, PctIsNat
    <3>2. FloorLot(v, BuyLot[i]) \in 0..v  BY <1>3, LotIs, FloorLotWithin
    <3> QED  BY <3>1, <3>2 DEF VolumeCap
  <2>2. PICK m \in Nat : m = Least(Least(desired[i] - shares[i], answer), cap)
    BY <1>0, <1>2, <1>3 DEF Least, Selling
  <2>3. BuyFill(i, answer) = IF LimitUp(i) \/ Cost(i, m) > cash THEN 0 ELSE m
    BY <2>1, <2>2 DEF BuyFill
  <2>4. Suspended2(i) \/ ahead[i].open # 0  BY DEF Suspended2
  <2> QED  BY <2>2, <2>3, <2>4
<1>5. /\ cash' = cash - Cost(i, n)
      /\ shares' = [shares EXCEPT ![i] = shares[i] + n]
      /\ arrived' = [arrived EXCEPT ![i] = arrived[i] + n]
      /\ pending' = pending \ {i}
  BY <1>2, <1>4
<1>6. cash' \in Int /\ (FeesBelowValue => cash' >= 0)
  <2>1. PICK c \in Nat : c = Cost(i, n) /\ (n = 0 => c = 0)  BY <1>0, <1>3, CostIsNat
  <2>2. n # 0 => ~(c > cash)  BY <1>4, <2>1
  <2> QED  BY <1>0, <1>3, <1>5, <2>1, <2>2 DEF Settled
<1>7. /\ shares' \in Shares /\ arrived' \in Shares
      /\ \A j \in Instruments : j # i => shares'[j] = shares[j] /\ arrived'[j] = arrived[j]
      /\ shares'[i] = shares[i] + n /\ arrived'[i] = n
  <2>1. shares[i] + n \in Nat /\ arrived[i] + n = n  BY <1>3
  <2>2. arrived' = [arrived EXCEPT ![i] = n]  BY <1>5, <2>1
  <2> QED  BY <1>3, <1>5, <2>1, <2>2 DEF Shares
<1>8. MarketSound'  BY <1>0 DEF MarketSound
<1>9. BookSound'  BY <1>0, <1>5, <1>6, <1>7 DEF BookSound
<1>10. Priced'
  <2>1. \A j \in Instruments : shares'[j] > 0 => shares[j] > 0 \/ ahead[j].open > 0
    <3>1. n # 0 => ahead[i].open > 0
      <4>1. ahead[i].open \in Nat  BY <1>0, <1>3, QuoteIs
      <4> QED  BY <1>4, <4>1
    <3> QED  BY <1>3, <1>7, <3>1
  <2> QED  BY <1>0, <1>1, <2>1 DEF Priced
<1>11. Settled'
  <2>1. \A j \in Instruments : arrived'[j] <= shares'[j]  BY <1>0, <1>3, <1>7 DEF Settled
  <2>2. \A j \in pending' : arrived'[j] = 0
    BY <1>0, <1>5, <1>7 DEF Settled, BookSound
  <2> QED  BY <1>0, <1>6, <2>1, <2>2 DEF Settled
<1>12. Fresh'  BY <1>0 DEF Fresh, Seen
<1> QED  BY <1>0, <1>8, <1>9, <1>10, <1>11, <1>12 DEF IInv

\* The end of an execution session keeps the invariant.
LEMMA EndSound == ASSUME IInv, V1End PROVE IInv'
<1> USE DEF V1End, EndOrders, market, book
<1>0. /\ MarketSound /\ BookSound /\ ClaimsSound /\ Priced /\ Settled /\ Fresh
      /\ Ids = {} /\ ClaimsSound' /\ Dated' /\ ~Chronological /\ ~Chronological'
      /\ UNCHANGED <<dayStart, traded, prevNav, config>>
      /\ phase = "orders"
  BY OldSound
<1>1. Priced' = \A i \in Instruments : shares'[i] > 0 => (lastClose'[i] # None \/ ahead'[i].open > 0)
  BY OldSound
<1>2. reference' \in [Instruments -> Known]
  <2>1. ahead \in [Instruments -> Quote] /\ reference \in [Instruments -> Known]  BY <1>0 DEF MarketSound
  <2> QED  BY <2>1, SeenIs
<1>3. MarketSound'  BY <1>0, <1>2 DEF MarketSound
<1>4. BookSound'  BY <1>0 DEF BookSound
<1>5. Priced'  BY <1>0, <1>1 DEF Priced
<1>6. Settled'  BY <1>0 DEF Settled
<1>7. Fresh'
  <2>1. reference = lastClose  BY <1>0 DEF Fresh
  <2> QED  BY <2>1 DEF Fresh, Seen
<1> QED  BY <1>0, <1>3, <1>4, <1>5, <1>6, <1>7 DEF IInv

-----------------------------------------------------------------------------
(* The theorems. *)

\* Every refusal of the chronological engine is a failure that moves nothing.
LEMMA Refusals ==
  /\ V3Fraction => Fail /\ UNCHANGED <<ahead, version>> /\ Chronological
  /\ \A answer : V3Refuse(answer) => Fail /\ UNCHANGED <<ahead, version>> /\ Chronological
  /\ V3Abort => Fail /\ UNCHANGED <<ahead, version>> /\ Chronological
BY DEF V3Fraction, V3Refuse, V3Abort, RefuseFraction, RefuseTrade, RefuseClose

\* The inductive invariant holds in every state of every run.
THEOREM Invariance == RunSpec => []IInv
<1>1. RunInit => IInv  BY InitSound
<1>2. IInv /\ [RunNext]_runVars => IInv'
  <2> SUFFICES ASSUME IInv, [RunNext]_runVars PROVE IInv'  OBVIOUS
  <2>1. CASE \E q \in PanelAfter(day), w \in Weights \cup {NoTargets} : V3Open(q, w)
    BY <2>1, OpenSound
  <2>2. CASE \E next \in PanelAfter(day + 1), w \in Weights \cup {NoTargets} : V1Mark(next, w)
    BY <2>2, MarkSound
  <2>3. ASSUME NEW answer \in GateAnswers, V3Trade(answer) PROVE IInv'  BY <2>3, TradeSound
  <2>4. ASSUME NEW answer \in GateAnswers, V1Sell(answer) PROVE IInv'  BY <2>4, SellSound
  <2>5. ASSUME NEW answer \in GateAnswers, V1Buy(answer) PROVE IInv'  BY <2>5, BuySound
  <2>6. CASE V3Close  BY <2>6, CloseSound
  <2>7. CASE V1End  BY <2>7, EndSound
  <2>8. CASE V3Fraction \/ V3Abort \/ \E answer \in GateAnswers : V3Refuse(answer)
    BY <2>8, Refusals, FailSound
  <2>9. CASE UNCHANGED runVars  BY <2>9, StutterSound
  <2> QED  BY <2>1, <2>2, <2>3, <2>4, <2>5, <2>6, <2>7, <2>8, <2>9 DEF RunNext
<1> QED  BY <1>1, <1>2, PTL DEF RunSpec

\* Nothing is sold short, bought on credit or sold on the day it came, in any run of a
\* chronological contract and, when no cost model charges a sell more than it brings, of
\* the older ones too (engine_v3.py:305, 411-415; engine.py:308-312).  The schemas of
\* v1 and v2 put no bound on commission and stamp duty: above it a sell costs cash.
THEOREM InventoryIsSettled ==
  ASSUME FeesBelowValue \/ Versions \subseteq {3, 4}
  PROVE  RunSpec => []SettledInventoryOnly
<1>1. IInv => SettledInventoryOnly
  <2> SUFFICES ASSUME IInv PROVE SettledInventoryOnly  OBVIOUS
  <2>1. BookSound /\ Settled /\ ClaimsSound  BY DEF IInv
  <2>2. Chronological \/ FeesBelowValue  BY <2>1 DEF ClaimsSound, Chronological
  <2> QED  BY <2>1, <2>2 DEF BookSound, Shares, Settled, SettledInventoryOnly
<1> QED  BY <1>1, Invariance, PTL

\* After every session each dividend stands where its dates put it, whatever was traded,
\* suspended or stopped in between (corporate_actions.py:61-66, engine_v3.py:306-348).
THEOREM ClaimsAreOnTime == RunSpec => []ClaimsOnTime
<1>1. IInv => ClaimsOnTime
  <2> SUFFICES ASSUME IInv, phase \in {"close", "done"}, NEW e \in Ids PROVE DatedEvent(e, day, day)
    BY DEF ClaimsOnTime, DatedEvent
  <2> QED  BY DEF IInv, Dated
<1> QED  BY <1>1, Invariance, PTL

\* The first engine compares every order with the last close printed before its execution
\* session (engine.py:231-260, 500-504).
THEOREM ReferenceIsLastClose == RunSpec => []LimitReferenceFresh
<1>1. IInv => LimitReferenceFresh  BY DEF IInv, Fresh, LimitReferenceFresh
<1> QED  BY <1>1, Invariance, PTL

\* The one step that buys is a trade of the instrument, filled above 0.
LEMMA BuyIs ==
  ASSUME IInv, [RunNext]_runVars, NEW i \in Instruments,
         phase = "orders", phase' = "orders", Chronological, shares'[i] > shares[i]
  PROVE  /\ UNCHANGED <<market, config, events, prevNav, cashDue, sharesDue>>
         /\ \E answer \in Nat, n \in Nat :
              /\ n = Filled(i, answer) /\ n > 0 /\ Side(i) = "buy" /\ ~Refused(i, answer)
              /\ cash' = cash - Payment(i, n) /\ traded' = traded + n * quote[i].open
              /\ shares' = [shares EXCEPT ![i] = @ + n]
<1>0. shares \in Shares /\ shares[i] \in Nat /\ MarketSound /\ BookSound
  BY DEF IInv, BookSound, Shares
<1>1. PICK answer \in GateAnswers : V3Trade(answer)
  <2>1. ~(shares'[i] = shares[i])  BY <1>0
  <2>2. ~(UNCHANGED runVars)  BY <2>1 DEF runVars, vars, book
  <2>3. ~(\E q, w : V3Open(q, w))  BY DEF V3Open, OpenSession
  <2>4. ~(\E next, w : V1Mark(next, w)) /\ ~V1End
        /\ \A answer : ~V1Sell(answer) /\ ~V1Buy(answer)
    BY DEF V1Mark, V1End, V1Sell, V1Buy
  <2>5. ~V3Fraction /\ ~V3Abort /\ \A answer : ~V3Refuse(answer)  BY Refusals DEF Fail
  <2>6. ~V3Close  BY DEF V3Close, CloseSession
  <2> QED  BY <2>2, <2>3, <2>4, <2>5, <2>6 DEF RunNext
<1>2. PICK k \in pending :
        LET n == Filled(k, answer)
            value == ExecutionCosts(Side(k), n, quote[k].open, volume[k]).value
        IN /\ ~Refused(k, answer)
           /\ cash' = IF Side(k) = "buy" THEN cash - value ELSE cash + value
           /\ shares' = [shares EXCEPT ![k] = IF Side(k) = "buy" THEN @ + n ELSE @ - n]
           /\ traded' = traded + n * quote[k].open
  BY <1>1 DEF V3Trade, Trade
<1>3. k \in Instruments /\ answer \in Nat  BY <1>0, MarketAssumption DEF BookSound
<1>4. PICK n \in Nat : n = Filled(k, answer)
  <2>1. Requested(k) \in Nat  BY <1>0, <1>3, RequestedIs
  <2>2. Filled(k, answer) \in 0..Requested(k)  BY <1>0, <1>3, FilledWithin
  <2> QED  BY <2>1, <2>2
<1>5. k = i
  <2> SUFFICES ASSUME k # i PROVE FALSE  OBVIOUS
  <2>1. shares'[i] = shares[i]  BY <1>0, <1>2 DEF Shares
  <2> QED  BY <1>0, <2>1
<1>6. shares'[i] = IF Side(i) = "buy" THEN shares[i] + n ELSE shares[i] - n
  BY <1>0, <1>2, <1>4, <1>5 DEF Shares
<1>7. Side(i) = "buy" /\ n > 0  BY <1>0, <1>6
<1>8. /\ ~Refused(i, answer) /\ cash' = cash - Payment(i, n) /\ traded' = traded + n * quote[i].open
      /\ shares' = [shares EXCEPT ![i] = @ + n]
  BY <1>2, <1>4, <1>5, <1>7 DEF Payment
<1>9. UNCHANGED <<market, config, events, prevNav, cashDue, sharesDue>>
  BY <1>1 DEF V3Trade, Trade, risk, claims
<1> QED  BY <1>3, <1>4, <1>5, <1>7, <1>8, <1>9

\* After a buy the book is within all four limits at once.
LEMMA BuyWithin ==
  ASSUME IInv, [RunNext]_runVars, NEW i \in Instruments,
         phase = "orders", phase' = "orders", Chronological, shares'[i] > shares[i]
  PROVE  LET at == [j \in Instruments |-> Exposure(j, "open")']
             nav == cash' + Claimed + SumFunction(at)
         IN /\ config.turnover # NoCap => traded' <= Pct(2 * prevNav, config.turnover)
            /\ cash' * 100 >= config.reserve * nav
            /\ \A j \in Instruments : at[j] * 100 <= config.single * nav
            /\ config.industry # NoCap =>
                 \A g \in Range(Industry) :
                   SumFunctionOnSet(at, {j \in Instruments : Industry[j] = g}) * 100
                     <= config.industry * nav
<1>0. Sound /\ MarketSound /\ BookSound  BY PricedIsAllPriced DEF IInv, Sound
<1>1. PICK answer \in Nat, n \in Nat :
         /\ n = Filled(i, answer) /\ n > 0 /\ Side(i) = "buy"
         /\ cash' = cash - Payment(i, n) /\ traded' = traded + n * quote[i].open
         /\ shares' = [shares EXCEPT ![i] = @ + n]
  BY BuyIs
<1>2. Buyable(i, n) /\ quote[i].open \in Nat \ {0} /\ n * quote[i].open \in Nat
  <2>1. Buyable(i, n)  BY <1>0, <1>1, FilledWithin DEF Buyable
  <2> QED  BY <1>0, <2>1, PaymentIs
<1>3. PICK a \in Nat, b \in Nat :
        n <= b /\ b <= a /\ SingleAllowed(i, a) /\ IndustryAllowed(i, b) /\ CashAllowed(i, n)
  <2>1. PICK m \in Nat : n = Bought(i, m)  BY <1>0, <1>1, FilledWithin
  <2> QED  BY <1>1, <2>1, BoughtWithin
<1>4. SingleAllowed(i, n) /\ IndustryAllowed(i, n)
  <2>1. n <= a  BY <1>3
  <2> QED  BY <1>0, <1>2, <1>3, <2>1, SingleShrinks, IndustryShrinks
<1>5. PICK at : at = [j \in Instruments |-> Exposure(j, "open")']  OBVIOUS
<1>6. /\ \A j \in Instruments : at[j] = ExposureAfter(i, n, j)
      /\ cash' + Claimed + SumFunction(at) = NavAfter(i, n)
  <2>1. UNCHANGED <<market, events, sharesDue, cashDue>>  BY BuyIs
  <2>2. at = OpenExposures'  BY <1>5 DEF OpenExposures
  <2> QED  BY <1>0, <1>1, <1>2, <2>1, <2>2, AfterBuy
<1>7. ASSUME config.turnover # NoCap PROVE traded' <= Pct(2 * prevNav, config.turnover)
  <2>1. PICK open \in Nat \ {0} : open = quote[i].open  BY <1>2
  <2>2. PICK all \in Nat : all = Pct(2 * prevNav, config.turnover)
    <3>1. 2 * prevNav \in Nat /\ config.turnover \in Nat  BY <1>0, <1>7, ConfigIs DEF BookSound
    <3> QED  BY <3>1, PctIsNat
  <2>3. traded \in Nat  BY <1>0 DEF BookSound
  <2>4. PICK left \in Nat : left = TurnoverBudget /\ (left > 0 => left = all - traded)
    BY <2>2, <2>3 DEF TurnoverBudget, Most
  <2>5. n <= left \div open  BY <1>0, <1>1, <1>7, <2>1, <2>4, FilledWithin
  <2>6. PICK k \in Nat : k = left \div open /\ k * open <= left  BY DivUp
  <2>7. n * open <= k * open
    <3>1. open * n <= open * k  BY <2>5, <2>6, TimesMonotone
    <3> QED  BY <3>1
  <2>8. n * open \in Nat /\ n * open > 0
    <3>1. (n - 1) * open >= 0 /\ (n - 1) * open = n * open - open  BY <1>1
    <3> QED  BY <3>1
  <2>9. traded' = traded + n * open  BY <1>1, <2>1
  <2> QED  BY <2>2, <2>3, <2>4, <2>6, <2>7, <2>8, <2>9
<1>8. cash' * 100 >= config.reserve * NavAfter(i, n)  BY <1>1, <1>3 DEF CashAllowed
<1>9. \A j \in Instruments : at[j] * 100 <= config.single * NavAfter(i, n)
  BY <1>4, <1>6 DEF SingleAllowed
<1>10. ASSUME config.industry # NoCap, NEW g \in Range(Industry)
       PROVE  SumFunctionOnSet(at, {j \in Instruments : Industry[j] = g}) * 100
                <= config.industry * NavAfter(i, n)
  <2>1. PICK G \in SUBSET Instruments : G = {j \in Instruments : Industry[j] = g}  OBVIOUS
  <2>2. PICK f : f = [j \in G |-> ExposureAfter(i, n, j)]  OBVIOUS
  <2>3. SumFunction(f) * 100 <= config.industry * NavAfter(i, n)
    BY <1>4, <1>10, <2>1, <2>2 DEF IndustryAllowed
  <2>4. SumFunction(f) = SumFunctionOnSet(f, G)  BY <2>2, SumIsSum
  <2>5. SumFunctionOnSet(at, G) = SumFunctionOnSet(f, G)
    <3>1. IsFiniteSet(G)  BY MarketAssumption, FS_Subset
    <3>2. \A j \in G : at[j] = f[j]  BY <1>6, <2>2
    <3> QED  BY <3>1, <3>2, SumOfSame
  <2> QED  BY <2>1, <2>3, <2>4, <2>5
<1> QED  BY <1>5, <1>6, <1>7, <1>8, <1>9, <1>10

\* Every buy of every run of the chronological engine leaves each name and each industry
\* within its cap, the reserve in cash and the session within its turnover, although each
\* limit was cut to on its own and none was looked at again (engine_v3.py:416-424, 458-507).
THEOREM BuysAreWithinLimits == RunSpec => BuyIsWithinLimits
<1>1. IInv /\ [RunNext]_runVars =>
        [ \A i \in Instruments :
            (phase = "orders" /\ phase' = "orders" /\ Chronological /\ shares'[i] > shares[i]) =>
              LET at == [j \in Instruments |-> Exposure(j, "open")']
                  nav == cash' + Claimed + SumFunction(at)
              IN /\ config.turnover # NoCap => traded' <= Pct(2 * prevNav, config.turnover)
                 /\ cash' * 100 >= config.reserve * nav
                 /\ \A j \in Instruments : at[j] * 100 <= config.single * nav
                 /\ config.industry # NoCap =>
                      \A g \in Range(Industry) :
                        SumFunctionOnSet(at, {j \in Instruments : Industry[j] = g}) * 100
                          <= config.industry * nav ]_runVars
  BY BuyWithin
<1> QED  BY <1>1, Invariance, PTL DEF RunSpec, BuyIsWithinLimits

-----------------------------------------------------------------------------
(* The abstract ledger. *)

\* The ledger adds the way the engine does.
LEMMA SumsAgree == \A f : Dividends!SumFunction(f) = SumFunction(f)
BY DEF SumFunction, SumFunctionOnSet, FoldFunctionOnSet, MapThenFoldSet,
   Dividends!SumFunction, Dividends!SumFunctionOnSet, Dividends!FoldFunctionOnSet,
   Dividends!MapThenFoldSet

\* The open of a session matures the abstract ledger.
LEMMA OpenMatures ==
  ASSUME IInv, NEW q, NEW w, V3Open(q, w)
  PROVE  Dividends!Mature
<1>0. /\ MarketSound /\ ClaimsSound /\ Dated /\ phase = "close" /\ day \in Int /\ day < Sessions
  BY MarketAssumption DEF IInv, MarketSound, V3Open, OpenSession
<1>1. PICK d \in Int : d = day + 1  BY <1>0
<1>2. PICK ca : ca = CashAccrued(d)  OBVIOUS
<1>3. PICK sa : sa = SharesAccrued(d)  OBVIOUS
<1>4. UNCHANGED <<events, entitled>> /\ Ids' = Ids /\ Dividends!Ids = Ids
  BY <1>1, OpenIs DEF Ids, Dividends!Ids
<1>5. \A e \in Ids :
        /\ ca[e] \in Nat /\ sa[e] \in Nat /\ cashDue[e] \in Nat /\ sharesDue[e] \in Nat
        /\ received[e].cash \in Nat /\ received[e].shares \in Nat
        /\ cashDue'[e] = IF e \in Paying(d) THEN 0 ELSE ca[e]
        /\ sharesDue'[e] = IF e \in Listing(d) THEN 0 ELSE sa[e]
        /\ received'[e].cash = received[e].cash + (IF e \in Paying(d) THEN ca[e] ELSE 0)
        /\ received'[e].shares = received[e].shares + (IF e \in Listing(d) THEN sa[e] ELSE 0)
  <2>1. \A e \in Ids : received[e] \in [cash: Nat, shares: Nat] /\ cashDue[e] \in Nat /\ sharesDue[e] \in Nat
    BY <1>0 DEF ClaimsSound
  <2> QED  BY <1>1, <1>2, <1>3, <2>1, OpenIs
<1>6. ASSUME NEW e \in Ids
      PROVE  /\ \/ Dividends!Promised(e)' = Dividends!Promised(e)
                \/ /\ Dividends!Promised(e) = Dividends!Nil /\ entitled[e] # None
                   /\ Dividends!Promised(e)' = Dividends!Entitlement(e)
             /\ cashDue'[e] = 0 \/ received'[e].cash = received[e].cash
             /\ sharesDue'[e] = 0 \/ received'[e].shares = received[e].shares
  <2>1. /\ cashDue'[e] + received'[e].cash = ca[e] + received[e].cash
        /\ sharesDue'[e] + received'[e].shares = sa[e] + received[e].shares
    BY <1>5
  <2>2. Dividends!Promised(e)' = [cash |-> ca[e] + received[e].cash, shares |-> sa[e] + received[e].shares]
    BY <2>1 DEF Dividends!Promised
  <2>3. CASE e \in OnEx(d)
    <3>1. /\ ca[e] = entitled[e] * events[e].cash
          /\ sa[e] = (entitled[e] * events[e].stock) \div 2
      BY <1>2, <1>3, <2>3 DEF CashAccrued, SharesAccrued
    <3>2. events[e].ex = d /\ ~(day >= events[e].ex)  BY <1>0, <1>1, <2>3 DEF OnEx
    <3>3. /\ cashDue[e] = 0 /\ sharesDue[e] = 0 /\ received[e].cash = 0 /\ received[e].shares = 0
      <4>1. DatedEvent(e, day, day)  BY <1>0 DEF Dated
      <4> QED  BY <3>2, <4>1 DEF DatedEvent
    <3>4. entitled[e] # None
      <4>1. entitled[e] \in Nat  BY <1>0, <1>1, <3>2, MaturedIs
      <4> QED  BY <4>1, MarketAssumption
    <3>5. Dividends!Promised(e) = Dividends!Nil  BY <3>3 DEF Dividends!Promised, Dividends!Nil
    <3>6. Dividends!Promised(e)' = Dividends!Entitlement(e)
      BY <1>5, <2>2, <3>1, <3>3 DEF Dividends!Entitlement
    <3> QED  BY <1>5, <3>4, <3>5, <3>6
  <2>4. CASE e \notin OnEx(d)
    <3>1. ca[e] = cashDue[e] /\ sa[e] = sharesDue[e]
      BY <1>2, <1>3, <2>4 DEF CashAccrued, SharesAccrued
    <3> QED  BY <1>5, <2>2, <3>1 DEF Dividends!Promised
  <2> QED  BY <2>3, <2>4
<1>7. cash' - cash = SumFunction([e \in Ids |-> received'[e].cash - received[e].cash])
  <2>1. PICK f : f = [e \in Ids |-> received'[e].cash - received[e].cash]  OBVIOUS
  <2>2. PICK g : g = [e \in Ids |-> IF e \in Paying(d) THEN ca[e] ELSE 0]  OBVIOUS
  <2>3. f = g  BY <1>5, <2>1, <2>2
  <2>4. SumFunctionOnSet(ca, Paying(d)) = SumFunctionOnSet(g, Ids)
    <3>1. IsFiniteSet(Ids) /\ Paying(d) \in SUBSET Ids  BY <1>0, EventIs DEF Paying
    <3>2. \A e \in Ids : ca[e] \in Int  BY <1>5
    <3> QED  BY <2>2, <3>1, <3>2, SumOfPart
  <2>5. SumFunction(f) = SumFunctionOnSet(g, Ids)  BY <2>2, <2>3, SumIsSum
  <2>6. cash \in Int /\ cash' = cash + SumFunctionOnSet(ca, Paying(d)) /\ SumFunctionOnSet(ca, Paying(d)) \in Nat
    BY <1>1, <1>2, OpenIs
  <2>7. cash' - cash = SumFunctionOnSet(ca, Paying(d))  BY <2>6
  <2> QED  BY <2>1, <2>4, <2>5, <2>7
<1>8. ASSUME NEW i \in Instruments
      PROVE  shares'[i] - shares[i] =
               SumFunction([e \in Ids |-> IF events[e].instrument = i
                                          THEN received'[e].shares - received[e].shares ELSE 0])
  <2>0. PICK B \in SUBSET Ids : B = Listing(d) \cap Of(i)  BY <1>0, EventIs
  <2>1. PICK f : f = [e \in Ids |-> IF events[e].instrument = i
                                    THEN received'[e].shares - received[e].shares ELSE 0]
    OBVIOUS
  <2>2. PICK g : g = [e \in Ids |-> IF e \in B THEN sa[e] ELSE 0]  OBVIOUS
  <2>3. f = g
    <3> SUFFICES ASSUME NEW e \in Ids PROVE f[e] = g[e]  BY <2>1, <2>2
    <3>1. (e \in Of(i)) = (events[e].instrument = i)  BY DEF Of
    <3>2. CASE events[e].instrument = i  BY <1>5, <2>0, <2>1, <2>2, <3>1, <3>2
    <3>3. CASE events[e].instrument # i  BY <2>0, <2>1, <2>2, <3>1, <3>3
    <3> QED  BY <3>2, <3>3
  <2>4. SumFunctionOnSet(sa, B) = SumFunctionOnSet(g, Ids)
    <3>1. IsFiniteSet(Ids)  BY <1>0, EventIs
    <3>2. \A e \in Ids : sa[e] \in Int  BY <1>5
    <3> QED  BY <2>2, <3>1, <3>2, SumOfPart
  <2>5. SumFunction(f) = SumFunctionOnSet(g, Ids)  BY <2>2, <2>3, SumIsSum
  <2>6. Listed(d, i) = SumFunctionOnSet(sa, B)  BY <1>3, <2>0 DEF Listed
  <2>7. shares[i] \in Nat /\ Listed(d, i) \in Nat /\ shares'[i] = shares[i] + Listed(d, i)
    BY <1>1, OpenIs
  <2>8. shares'[i] - shares[i] = Listed(d, i)  BY <2>7
  <2> QED  BY <2>1, <2>4, <2>5, <2>6, <2>8
<1>9. \A e \in Dividends!Ids :
         /\ \/ Dividends!Promised(e)' = Dividends!Promised(e)
            \/ /\ Dividends!Promised(e) = Dividends!Nil /\ entitled[e] # None
               /\ Dividends!Promised(e)' = Dividends!Entitlement(e)
         /\ cashDue'[e] = 0 \/ received'[e].cash = received[e].cash
         /\ sharesDue'[e] = 0 \/ received'[e].shares = received[e].shares
  BY <1>4, <1>6
<1>10. cash' - cash = Dividends!SumFunction([e \in Dividends!Ids |-> received'[e].cash - received[e].cash])
  BY <1>4, <1>7, SumsAgree
<1>11. \A i \in Instruments :
         shares'[i] - shares[i] =
               Dividends!SumFunction([e \in Dividends!Ids |-> IF events[e].instrument = i
                                          THEN received'[e].shares - received[e].shares ELSE 0])
  BY <1>4, <1>8, SumsAgree
<1> QED  BY <1>4, <1>9, <1>10, <1>11 DEF Dividends!Mature

\* The close of a session locks the abstract ledger.
LEMMA CloseLocks == ASSUME IInv, V3Close PROVE Dividends!Lock
<1>0. Dated /\ ClaimsSound /\ phase = "orders" /\ day \in Int
  BY DEF IInv, MarketSound, V3Close, CloseSession
<1>1. Dividends!Ids = Ids  BY DEF Ids, Dividends!Ids
<1>2. UNCHANGED <<events, shares, cash, cashDue, sharesDue, received>>
  BY DEF V3Close, CloseSession, book
<1>3. ASSUME NEW e \in Ids
      PROVE  \/ entitled'[e] = entitled[e]
             \/ entitled[e] = None /\ entitled'[e] = shares[events[e].instrument]
  <2>1. entitled'[e] = IF events[e].record = day THEN shares[events[e].instrument] ELSE entitled[e]
    BY DEF V3Close, CloseSession, LockedAtClose
  <2>2. CASE events[e].record = day
    <3>1. DatedEvent(e, day - 1, day)  BY <1>0 DEF Dated
    <3>2. entitled[e] = None  BY <1>0, <2>2, <3>1 DEF DatedEvent
    <3> QED  BY <2>1, <2>2, <3>2
  <2> QED  BY <2>1, <2>2
<1> QED  BY <1>1, <1>2, <1>3 DEF Dividends!Lock

\* Every other step leaves the ledger as it is.
LEMMA OthersRebalance ==
  ASSUME [RunNext]_runVars, ~(\E q, w : V3Open(q, w)), ~V3Close
  PROVE  Dividends!Rebalance
<1> USE DEF sessionVars, risk, claims, Dividends!Rebalance
<1>1. CASE UNCHANGED runVars  BY <1>1 DEF runVars, vars
<1>2. CASE \E next, w : V1Mark(next, w)  BY <1>2 DEF V1Mark
<1>3. CASE V1End \/ \E answer : V1Sell(answer) \/ V1Buy(answer)  BY <1>3 DEF V1End, V1Sell, V1Buy
<1>4. CASE \E answer : V3Trade(answer)  BY <1>4 DEF V3Trade, Trade
<1>5. CASE V3Fraction \/ V3Abort \/ \E answer : V3Refuse(answer)  BY <1>5, Refusals DEF Fail
<1> QED  BY <1>1, <1>2, <1>3, <1>4, <1>5 DEF RunNext

\* Both engines implement the abstract ledger of dividends: an event becomes due in full,
\* once, and what is due is received once (engine_v3.py:306-348, 530-540).
THEOREM FollowsTheLedger == RunSpec => DividendSpec
<1>1. RunInit => Dividends!Init
  BY DEF RunInit, SessionInit, ReplayInit, BookInit, Nothing, Ids, Dividends!Init, Dividends!Ids
<1>2. IInv /\ [RunNext]_runVars => [Dividends!Next]_(Dividends!account)
  <2> SUFFICES ASSUME IInv, [RunNext]_runVars PROVE Dividends!Next  OBVIOUS
  <2>1. CASE \E q, w : V3Open(q, w)  BY <2>1, OpenMatures DEF Dividends!Next
  <2>2. CASE V3Close  BY <2>2, CloseLocks DEF Dividends!Next
  <2>3. CASE ~(\E q, w : V3Open(q, w)) /\ ~V3Close  BY <2>3, OthersRebalance DEF Dividends!Next
  <2> QED  BY <2>1, <2>2, <2>3
<1> QED  BY <1>1, <1>2, Invariance, PTL DEF RunSpec, DividendSpec, Dividends!Spec
=============================================================================
