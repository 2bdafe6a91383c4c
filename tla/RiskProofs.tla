------------------------------ MODULE RiskProofs ------------------------------
(***************************************************************************)
(* The proofs about risk control.  The portfolio stage and the risk gate    *)
(* come first, for every universe, every score and industry, every          *)
(* constraint of the definition, every policy, every candidate order and    *)
(* every context; strategy loss control, a component with a state of its    *)
(* own, comes last, for every rule and every bound.                         *)
(***************************************************************************)
EXTENDS RiskGate, LossControl, FiniteSetTheorems, SequenceTheorems, WellFoundedInduction,
        TLAPS

(* Sums over finite sets: the recursive definition behind the fold of the  *)
(* library has a solution, found by induction on the size of the sets.     *)

\* Induction over the naturals, on a set instead of a predicate.
LEMMA NatSetInduction ==
  ASSUME NEW S, 0 \in S, \A n \in Nat : n \in S => n + 1 \in S
  PROVE  Nat \subseteq S
<1> DEFINE T == Nat \ S
<1> SUFFICES ASSUME T # {} PROVE FALSE  OBVIOUS
<1>1. IsWellFoundedOn(OpToRel(<, Nat), Nat)  BY NatLessThanWellFounded
<1>2. T \subseteq Nat  OBVIOUS
<1>3. \E x \in T : \A y \in T : ~ (<<y, x>> \in OpToRel(<, Nat))
  <2> HIDE DEF T
  <2> QED  BY <1>1, <1>2, WFMin
<1>4. PICK x \in T : \A y \in T : ~ (<<y, x>> \in OpToRel(<, Nat))  BY <1>3
<1>5. x \in Nat /\ x # 0 /\ x - 1 \in Nat  OBVIOUS
<1>6. x - 1 \in T  BY <1>5
<1>7. <<x - 1, x>> \in OpToRel(<, Nat)  BY <1>5 DEF OpToRel
<1> QED  BY <1>4, <1>6, <1>7

\* Induction over the subsets of a finite set: what holds of a set whenever it holds of
\* the set without any one of its members holds of all.
LEMMA SubsetInduction ==
  ASSUME NEW U, IsFiniteSet(U), NEW P,
         \A T \in SUBSET U : (\A x \in T : T \ {x} \in P) => T \in P
  PROVE  SUBSET U \subseteq P
<1> DEFINE S == {n \in Nat : \A T \in SUBSET U : Cardinality(T) = n => T \in P}
<1>1. 0 \in S
  <2> SUFFICES ASSUME NEW T \in SUBSET U, Cardinality(T) = 0 PROVE T \in P  OBVIOUS
  <2>1. T = {}  BY FS_Subset, FS_EmptySet
  <2> QED  BY <2>1
<1>2. ASSUME NEW n \in Nat, n \in S PROVE n + 1 \in S
  <2> SUFFICES ASSUME NEW T \in SUBSET U, Cardinality(T) = n + 1 PROVE T \in P  OBVIOUS
  <2>1. IsFiniteSet(T)  BY FS_Subset
  <2>2. ASSUME NEW x \in T PROVE T \ {x} \in P
    <3>1. Cardinality(T \ {x}) = Cardinality(T) - 1  BY <2>1, FS_RemoveElement
    <3>2. T \ {x} \in SUBSET U  OBVIOUS
    <3>3. Cardinality(T \ {x}) = n  BY <3>1
    <3> QED  BY <1>2, <3>2, <3>3
  <2> QED  BY <2>2
<1>3. Nat \subseteq S
  <2> HIDE DEF S
  <2> QED  BY <1>1, <1>2, NatSetInduction
<1>4. ASSUME NEW T \in SUBSET U PROVE T \in P
  <2>1. Cardinality(T) \in Nat  BY FS_Subset, FS_CardinalityType
  <2> QED  BY <1>3, <2>1
<1> QED  BY <1>4

First(T) == CHOOSE x \in T : TRUE
Adds(f, C, h) == h = [T \in C |-> IF T = {} THEN 0 ELSE f[First(T)] + h[T \ {First(T)}]]

Fold(f, S) == CHOOSE h : Adds(f, SUBSET S, h)

\* The sum of the library is the fold of its recursive definition.
LEMMA SumIsFold == ASSUME NEW f, NEW S PROVE SumFunctionOnSet(f, S) = Fold(f, S)[S]
BY DEF SumFunctionOnSet, FoldFunctionOnSet, MapThenFoldSet, Fold, Adds, First

\* The element a fold takes first is one of the set.
LEMMA FirstIsIn == ASSUME NEW T, T # {} PROVE First(T) \in T  BY DEF First

\* Such a fold exists over the subsets of a finite set.
LEMMA FoldExists ==
  ASSUME NEW f, NEW S, IsFiniteSet(S)
  PROVE  \E h : Adds(f, SUBSET S, h)
<1> DEFINE Small(n) == {T \in SUBSET S : Cardinality(T) <= n}
           N == {n \in Nat : \E h : Adds(f, Small(n), h)}
<1>0. \A T \in SUBSET S : IsFiniteSet(T) /\ Cardinality(T) \in Nat /\ Cardinality(T) <= Cardinality(S)
  BY FS_Subset, FS_CardinalityType
<1>1. 0 \in N
  <2> DEFINE h == [T \in Small(0) |-> 0]
  <2>1. \A T \in Small(0) : T = {}  BY <1>0, FS_EmptySet
  <2>2. Adds(f, Small(0), h)  BY <2>1 DEF Adds
  <2> QED  BY <2>2
<1>2. ASSUME NEW n \in Nat, n \in N PROVE n + 1 \in N
  <2>1. PICK h : Adds(f, Small(n), h)  BY <1>2
  <2> DEFINE g == [T \in Small(n + 1) |-> IF T = {} THEN 0 ELSE f[First(T)] + h[T \ {First(T)}]]
  <2>2. ASSUME NEW T \in Small(n + 1), T # {} PROVE g[T \ {First(T)}] = h[T \ {First(T)}]
    <3> DEFINE R == T \ {First(T)}
    <3>1. R \in SUBSET S /\ Cardinality(R) <= n
      BY <1>0, <2>2, FirstIsIn, FS_RemoveElement
    <3>2. R \in Small(n) /\ R \in Small(n + 1)  BY <1>0, <3>1
    <3>3. h[R] = IF R = {} THEN 0 ELSE f[First(R)] + h[R \ {First(R)}]
      <4> HIDE DEF R, Small
      <4> QED  BY <2>1, <3>2 DEF Adds
    <3>4. g[R] = IF R = {} THEN 0 ELSE f[First(R)] + h[R \ {First(R)}]
      <4> HIDE DEF R, Small
      <4> QED  BY <3>2
    <3> QED  BY <3>3, <3>4
  <2>3. Adds(f, Small(n + 1), g)
    <3> HIDE DEF Small
    <3> QED  BY <2>2 DEF Adds
  <2>4. \E k : Adds(f, Small(n + 1), k)
    <3> HIDE DEF g
    <3> QED  BY <2>3
  <2> QED  BY <2>4
<1>3. Nat \subseteq N
  <2> HIDE DEF N
  <2> QED  BY <1>1, <1>2, NatSetInduction
<1>4. Small(Cardinality(S)) = SUBSET S  BY <1>0
<1>5. Cardinality(S) \in N  BY <1>0, <1>3, FS_CardinalityType
<1> QED  BY <1>4, <1>5

\* Two such folds agree where both are defined.
LEMMA FoldsAgree ==
  ASSUME NEW f, NEW S, NEW R, IsFiniteSet(S), NEW h, NEW g,
         Adds(f, SUBSET S, h), Adds(f, SUBSET R, g), R \subseteq S
  PROVE  g[R] = h[R]
<1> DEFINE P == {T \in SUBSET R : g[T] = h[T]}
<1>1. IsFiniteSet(R)  BY FS_Subset
<1>2. ASSUME NEW T \in SUBSET R, \A x \in T : T \ {x} \in P PROVE T \in P
  <2>1. /\ g[T] = IF T = {} THEN 0 ELSE f[First(T)] + g[T \ {First(T)}]
        /\ h[T] = IF T = {} THEN 0 ELSE f[First(T)] + h[T \ {First(T)}]
    BY DEF Adds
  <2>2. T # {} => g[T \ {First(T)}] = h[T \ {First(T)}]  BY <1>2, FirstIsIn
  <2> QED  BY <2>1, <2>2
<1>3. SUBSET R \subseteq P
  <2> HIDE DEF P
  <2> QED  BY <1>1, <1>2, SubsetInduction
<1>4. R \in P  BY <1>3
<1> QED  BY <1>4

\* The function CHOOSE names satisfies the equation it is chosen by.
LEMMA FoldAdds ==
  ASSUME NEW f, NEW S, IsFiniteSet(S)
  PROVE  Adds(f, SUBSET S, Fold(f, S))
BY FoldExists DEF Fold

\* A sum over nothing is 0.
LEMMA SumOfNone == ASSUME NEW f PROVE SumFunctionOnSet(f, {}) = 0
<1>1. Adds(f, SUBSET {}, Fold(f, {}))  BY FS_EmptySet, FoldAdds
<1> QED  BY <1>1, SumIsFold DEF Adds

\* A sum is the element taken first and the sum of the rest.
LEMMA SumOfRest ==
  ASSUME NEW f, NEW S, IsFiniteSet(S), S # {}
  PROVE  SumFunctionOnSet(f, S) = f[First(S)] + SumFunctionOnSet(f, S \ {First(S)})
<1>0. PICK R : R = S \ {First(S)}  OBVIOUS
<1>1. IsFiniteSet(R) /\ R \subseteq S  BY <1>0, FS_Subset
<1>2. Adds(f, SUBSET S, Fold(f, S)) /\ Adds(f, SUBSET R, Fold(f, R))  BY <1>1, FoldAdds
<1>3. Fold(f, R)[R] = Fold(f, S)[R]
  <2>1. PICK h : h = Fold(f, S)  OBVIOUS
  <2>2. PICK g : g = Fold(f, R)  OBVIOUS
  <2>3. Adds(f, SUBSET S, h) /\ Adds(f, SUBSET R, g)  BY <1>2, <2>1, <2>2
  <2>4. g[R] = h[R] BY <1>1, <2>3, FoldsAgree
  <2> QED BY <2>1, <2>2, <2>4
<1>4. Fold(f, S)[S] = f[First(S)] + Fold(f, S)[R]  BY <1>0, <1>2 DEF Adds
<1> QED  BY <1>0, <1>3, <1>4, SumIsFold

\* A sum of integers is an integer.
LEMMA SumIsInt ==
  ASSUME NEW f, NEW S, IsFiniteSet(S), \A x \in S : f[x] \in Int
  PROVE  SumFunctionOnSet(f, S) \in Int
<1> DEFINE P == {T \in SUBSET S : SumFunctionOnSet(f, T) \in Int}
<1>1. ASSUME NEW T \in SUBSET S, \A x \in T : T \ {x} \in P PROVE T \in P
  <2>1. CASE T = {}  BY <2>1, SumOfNone
  <2>2. CASE T # {}
    <3>1. IsFiniteSet(T) /\ First(T) \in T  BY <2>2, FS_Subset, FirstIsIn
    <3>2. SumFunctionOnSet(f, T \ {First(T)}) \in Int /\ f[First(T)] \in Int  BY <1>1, <3>1
    <3>3. SumFunctionOnSet(f, T) = f[First(T)] + SumFunctionOnSet(f, T \ {First(T)})
      BY <2>2, <3>1, SumOfRest
    <3> QED  BY <3>2, <3>3
  <2> QED  BY <2>1, <2>2
<1>2. SUBSET S \subseteq P
  <2> HIDE DEF P
  <2> QED  BY <1>1, SubsetInduction
<1> QED  BY <1>2

\* Every term of f is bounded by multiples of those of g and h.
Bounded(a, f, b, g, c, h, S) ==
  /\ \A x \in S : f[x] \in Int /\ g[x] \in Int /\ h[x] \in Int
  /\ \A x \in S : a * f[x] <= b * g[x] + c * h[x]

\* What bounds every term bounds the sum.
LEMMA SumLinear ==
  ASSUME NEW f, NEW g, NEW h, NEW S, IsFiniteSet(S), NEW a \in Int, NEW b \in Int, NEW c \in Int,
         Bounded(a, f, b, g, c, h, S)
  PROVE  a * SumFunctionOnSet(f, S) <= b * SumFunctionOnSet(g, S) + c * SumFunctionOnSet(h, S)
<1> DEFINE P == {T \in SUBSET S : a * SumFunctionOnSet(f, T)
                    <= b * SumFunctionOnSet(g, T) + c * SumFunctionOnSet(h, T)}
<1>0. /\ \A x \in S : f[x] \in Int /\ g[x] \in Int /\ h[x] \in Int
      /\ \A x \in S : a * f[x] <= b * g[x] + c * h[x]
  BY DEF Bounded
<1>1. ASSUME NEW T \in SUBSET S, \A x \in T : T \ {x} \in P PROVE T \in P
  <2>1. CASE T = {}
    <3>1. SumFunctionOnSet(f, T) = 0 /\ SumFunctionOnSet(g, T) = 0 /\ SumFunctionOnSet(h, T) = 0
      BY <2>1, SumOfNone
    <3> QED  BY <3>1
  <2>2. CASE T # {}
    <3>1. PICK x \in T : x = First(T)  BY <2>2, FirstIsIn
    <3>2. PICK R : R = T \ {x}  OBVIOUS
    <3>3. IsFiniteSet(T) /\ IsFiniteSet(R) /\ R \subseteq S  BY <3>2, FS_Subset
    <3>4. PICK p \in Int, q \in Int, r \in Int :
            /\ p = SumFunctionOnSet(f, R) /\ q = SumFunctionOnSet(g, R) /\ r = SumFunctionOnSet(h, R)
      <4>1. /\ SumFunctionOnSet(f, R) \in Int /\ SumFunctionOnSet(g, R) \in Int
            /\ SumFunctionOnSet(h, R) \in Int
        BY <1>0, <3>3, SumIsInt
      <4> QED  BY <4>1
    <3>5. /\ SumFunctionOnSet(f, T) = f[x] + p /\ SumFunctionOnSet(g, T) = g[x] + q
          /\ SumFunctionOnSet(h, T) = h[x] + r
      BY <2>2, <3>1, <3>2, <3>3, <3>4, SumOfRest
    <3>6. a * p <= b * q + c * r
      <4>1. R \in P  BY <1>1, <3>2
      <4> QED  BY <3>4, <4>1
    <3>7. PICK u \in Int, v \in Int, w \in Int : u = f[x] /\ v = g[x] /\ w = h[x]  BY <1>0
    <3>8. a * u <= b * v + c * w  BY <1>0, <3>7
    <3>9. a * (u + p) = a * u + a * p /\ b * (v + q) = b * v + b * q /\ c * (w + r) = c * w + c * r
      OBVIOUS
    <3>10. a * (u + p) <= b * (v + q) + c * (w + r)  BY <3>6, <3>8, <3>9
    <3> QED  BY <3>5, <3>7, <3>10
  <2> QED  BY <2>1, <2>2
<1>2. SUBSET S \subseteq P
  <2> HIDE DEF P
  <2> QED  BY <1>1, SubsetInduction
<1> QED  BY <1>2

\* The same with one multiple.
LEMMA SumScaled ==
  ASSUME NEW f, NEW g, NEW S, IsFiniteSet(S), NEW a \in Int, NEW b \in Int,
         \A x \in S : f[x] \in Int /\ g[x] \in Int,
         \A x \in S : a * f[x] <= b * g[x]
  PROVE  a * SumFunctionOnSet(f, S) <= b * SumFunctionOnSet(g, S)
<1>1. PICK c \in Int : c = 0  OBVIOUS
<1>2. ASSUME NEW x \in S PROVE a * f[x] <= b * g[x] + c * g[x]
  <2>1. PICK u \in Int, v \in Int : u = f[x] /\ v = g[x]  OBVIOUS
  <2>2. a * u <= b * v  BY <2>1
  <2>3. c * v = 0  BY <1>1
  <2>4. a * u <= b * v + c * v  BY <2>2, <2>3
  <2> QED  BY <2>1, <2>4
<1>3. a * SumFunctionOnSet(f, S) <= b * SumFunctionOnSet(g, S) + c * SumFunctionOnSet(g, S)
  <2>1. Bounded(a, f, b, g, c, g, S)  BY <1>2 DEF Bounded
  <2> QED  BY <2>1, SumLinear
<1>4. PICK p \in Int, q \in Int : p = SumFunctionOnSet(f, S) /\ q = SumFunctionOnSet(g, S)
  <2>1. SumFunctionOnSet(f, S) \in Int /\ SumFunctionOnSet(g, S) \in Int  BY SumIsInt
  <2> QED  BY <2>1
<1>5. c * q = 0  BY <1>1
<1>6. a * p <= b * q + c * q  BY <1>3, <1>4
<1>7. a * p <= b * q  BY <1>5, <1>6
<1> QED  BY <1>4, <1>7

\* Smaller terms have a smaller sum.
LEMMA SumIsMonotone ==
  ASSUME NEW f, NEW g, NEW S, IsFiniteSet(S),
         \A x \in S : f[x] \in Int /\ g[x] \in Int /\ f[x] <= g[x]
  PROVE  SumFunctionOnSet(f, S) <= SumFunctionOnSet(g, S)
<1>1. PICK a \in Int : a = 1  OBVIOUS
<1>2. \A x \in S : a * f[x] <= a * g[x]  BY <1>1
<1>3. a * SumFunctionOnSet(f, S) <= a * SumFunctionOnSet(g, S)  BY <1>2, SumScaled
<1>4. SumFunctionOnSet(f, S) \in Int /\ SumFunctionOnSet(g, S) \in Int  BY SumIsInt
<1> QED  BY <1>1, <1>3, <1>4

\* A sum of naturals is a natural, and a sum of zeros is zero.
LEMMA SumIsNat ==
  ASSUME NEW f, NEW S, IsFiniteSet(S), \A x \in S : f[x] \in Nat
  PROVE  SumFunctionOnSet(f, S) \in Nat /\ ((\A x \in S : f[x] = 0) => SumFunctionOnSet(f, S) = 0)
<1>1. PICK a \in Int : a = 0  OBVIOUS
<1>2. PICK b \in Int : b = 1  OBVIOUS
<1>3. SumFunctionOnSet(f, S) \in Int  BY SumIsInt
<1>4. SumFunctionOnSet(f, S) \in Nat
  <2>1. \A x \in S : f[x] \in Int /\ a * f[x] <= b * f[x]  BY <1>1, <1>2
  <2>2. a * SumFunctionOnSet(f, S) <= b * SumFunctionOnSet(f, S)  BY <2>1, SumScaled
  <2> QED  BY <1>1, <1>2, <1>3, <2>2
<1>5. ASSUME \A x \in S : f[x] = 0 PROVE SumFunctionOnSet(f, S) = 0
  <2>1. \A x \in S : f[x] \in Int /\ b * f[x] <= a * f[x]  BY <1>1, <1>2, <1>5
  <2>2. b * SumFunctionOnSet(f, S) <= a * SumFunctionOnSet(f, S)  BY <2>1, SumScaled
  <2> QED  BY <1>1, <1>2, <1>4, <2>2
<1> QED  BY <1>4, <1>5

\* A sum that counts the members of a part of a set.
LEMMA SumCounts ==
  ASSUME NEW S, IsFiniteSet(S), NEW T, NEW f, \A x \in S : f[x] = IF x \in T THEN 1 ELSE 0
  PROVE  SumFunctionOnSet(f, S) = Cardinality(S \cap T)
<1> DEFINE P == {R \in SUBSET S : SumFunctionOnSet(f, R) = Cardinality(R \cap T)}
<1>1. ASSUME NEW R \in SUBSET S, \A x \in R : R \ {x} \in P PROVE R \in P
  <2>1. CASE R = {}
    <3>1. R \cap T = {}  BY <2>1
    <3> QED  BY <2>1, <3>1, SumOfNone, FS_EmptySet
  <2>2. CASE R # {}
    <3>1. PICK x \in R : x = First(R)  BY <2>2, FirstIsIn
    <3>2. IsFiniteSet(R) /\ IsFiniteSet(R \cap T) /\ Cardinality(R \cap T) \in Nat
      <4>1. IsFiniteSet(R) /\ R \cap T \subseteq R  BY FS_Subset
      <4> QED  BY <4>1, FS_Subset, FS_CardinalityType
    <3>3. SumFunctionOnSet(f, R) = f[x] + SumFunctionOnSet(f, R \ {x})
      BY <2>2, <3>1, <3>2, SumOfRest
    <3>4. SumFunctionOnSet(f, R \ {x}) = Cardinality((R \ {x}) \cap T)  BY <1>1
    <3>5. CASE x \in T
      <4>1. (R \ {x}) \cap T = (R \cap T) \ {x} /\ x \in R \cap T  BY <3>5
      <4>2. Cardinality((R \cap T) \ {x}) = Cardinality(R \cap T) - 1
        BY <3>2, <4>1, FS_RemoveElement
      <4>3. f[x] = 1  BY <3>5
      <4>4. PICK n \in Nat : n = Cardinality(R \cap T)  BY <3>2
      <4>5. SumFunctionOnSet(f, R \ {x}) = n - 1  BY <3>4, <4>1, <4>2, <4>4
      <4>6. SumFunctionOnSet(f, R) = n  BY <3>3, <4>3, <4>5
      <4> QED  BY <4>4, <4>6
    <3>6. CASE x \notin T
      <4>1. (R \ {x}) \cap T = R \cap T /\ f[x] = 0  BY <3>6
      <4> QED  BY <3>2, <3>3, <3>4, <4>1
    <3> QED  BY <3>5, <3>6
  <2> QED  BY <2>1, <2>2
<1>2. SUBSET S \subseteq P
  <2> HIDE DEF P
  <2> QED  BY <1>1, SubsetInduction
<1> QED  BY <1>2

-----------------------------------------------------------------------------
(* Extremes, signs and divisions. *)

\* A set of naturals has a least member, and Min is it.
LEMMA MinIsLeast ==
  ASSUME NEW S, S \subseteq Nat, S # {}
  PROVE  Min(S) \in S /\ \A y \in S : Min(S) <= y
<1>1. IsWellFoundedOn(OpToRel(<, Nat), Nat)  BY NatLessThanWellFounded
<1>2. PICK x \in S : \A y \in S : ~ (<<y, x>> \in OpToRel(<, Nat))  BY <1>1, WFMin
<1>3. ASSUME NEW y \in S PROVE x <= y
  <2>1. x \in Nat /\ y \in Nat  OBVIOUS
  <2>2. y < x => <<y, x>> \in OpToRel(<, Nat)  BY <2>1 DEF OpToRel
  <2>3. ~ (y < x)  BY <1>2, <2>2
  <2> QED  BY <2>1, <2>3
<1> QED  BY <1>3 DEF Min

\* A finite set of integers has a greatest member, and Max is it.
LEMMA MaxIsGreatest ==
  ASSUME NEW S, IsFiniteSet(S), S \subseteq Int, S # {}
  PROVE  Max(S) \in S /\ \A y \in S : y <= Max(S)
<1> DEFINE P == {T \in SUBSET S : T = {} \/ \E x \in T : \A y \in T : x >= y}
<1>1. ASSUME NEW T \in SUBSET S, \A x \in T : T \ {x} \in P PROVE T \in P
  <2> SUFFICES ASSUME NEW x \in T PROVE \E z \in T : \A y \in T : z >= y  OBVIOUS
  <2>1. T \ {x} \in P  BY <1>1
  <2>2. CASE T \ {x} = {}
    <3>1. \A y \in T : y = x  BY <2>2
    <3> QED  BY <3>1
  <2>3. CASE T \ {x} # {}
    <3>1. PICK m \in T \ {x} : \A y \in T \ {x} : m >= y  BY <2>1, <2>3
    <3>2. CASE m >= x  BY <3>1, <3>2
    <3>3. CASE ~ (m >= x)
      <4>1. x \in Int /\ m \in Int /\ \A y \in T : y \in Int  OBVIOUS
      <4> QED  BY <3>1, <3>3, <4>1
    <3> QED  BY <3>2, <3>3
  <2> QED  BY <2>2, <2>3
<1>2. SUBSET S \subseteq P
  <2> HIDE DEF P
  <2> QED  BY <1>1, SubsetInduction
<1>3. \E x \in S : \A y \in S : x >= y  BY <1>2
<1>4. Max(S) \in S /\ \A y \in S : Max(S) >= y  BY <1>3 DEF Max
<1> QED  BY <1>4

\* One more element keeps a set finite.
LEMMA OneMore ==
  ASSUME NEW A, IsFiniteSet(A), NEW x
  PROVE  IsFiniteSet(A \cup {x}) /\ IsFiniteSet({x} \cup A) /\ IsFiniteSet({x})
<1>1. IsFiniteSet(A \cup {x})  BY FS_AddElement
<1>2. {x} \cup A = A \cup {x}  OBVIOUS
<1>3. IsFiniteSet({x})  BY FS_Singleton
<1> QED  BY <1>1, <1>2, <1>3

\* The values of a function on a finite set are finitely many.
LEMMA ImageIsFinite ==
  ASSUME NEW f, NEW S, IsFiniteSet(S)
  PROVE  IsFiniteSet({f[x] : x \in S})
<1> DEFINE P == {T \in SUBSET S : IsFiniteSet({f[x] : x \in T})}
<1>1. ASSUME NEW T \in SUBSET S, \A x \in T : T \ {x} \in P PROVE T \in P
  <2>1. CASE T = {}
    <3>1. {f[x] : x \in T} = {}  BY <2>1
    <3> QED  BY <3>1, FS_EmptySet
  <2>2. CASE T # {}
    <3>1. PICK x \in T : TRUE  BY <2>2
    <3>2. IsFiniteSet({f[y] : y \in T \ {x}})  BY <1>1, <3>1
    <3>3. {f[y] : y \in T} = {f[y] : y \in T \ {x}} \cup {f[x]}  OBVIOUS
    <3>4. PICK A : A = {f[y] : y \in T \ {x}}  OBVIOUS
    <3>5. IsFiniteSet(A \cup {f[x]})  BY <3>2, <3>4, OneMore
    <3> QED  BY <3>3, <3>4, <3>5
  <2> QED  BY <2>1, <2>2
<1>2. SUBSET S \subseteq P
  <2> HIDE DEF P
  <2> QED  BY <1>1, SubsetInduction
<1> QED  BY <1>2

\* What Abs is.
LEMMA AbsIs ==
  ASSUME NEW n \in Int
  PROVE  Abs(n) \in Nat /\ n <= Abs(n) /\ -n <= Abs(n) /\ (Abs(n) = n \/ Abs(n) = -n)
BY DEF Abs

\* Integer division rounds down, of a negative number too.
LEMMA DivIsFloor ==
  ASSUME NEW n \in Int, NEW d \in Nat \ {0}
  PROVE  \E q \in Int : q = n \div d /\ d * q <= n /\ n <= d * q + (d - 1)
OBVIOUS

\* A product with a positive number keeps the order, and losing the factor gives it back.
LEMMA TimesKeepsOrder ==
  ASSUME NEW a \in Int, NEW b \in Int, NEW d \in Nat \ {0}
  PROVE  (d * a <= d * b) <=> (a <= b)
<1>1. ASSUME a <= b PROVE d * a <= d * b
  <2>1. d * (b - a) >= 0  BY <1>1
  <2>2. d * (b - a) = d * b - d * a  OBVIOUS
  <2> QED  BY <2>1, <2>2
<1>2. ASSUME b < a PROVE d * b < d * a
  <2>1. d * (a - b) > 0  BY <1>2
  <2>2. d * (a - b) = d * a - d * b  OBVIOUS
  <2> QED  BY <2>1, <2>2
<1> QED  BY <1>1, <1>2

-----------------------------------------------------------------------------
(* What the builder makes of weights. *)

Most == Full - Reserve + Tolerance

\* Before the blend: the weights a definition allows one by one and together.
Lean(w) == w \in [Names -> 0..MaxSingle] /\ Gross(w) <= Most

\* After it: no name above the first multiple of the grain from its cap on, and no
\* more than a surplus above what all may have.
Top == Grain * ((MaxSingle + Grain - 1) \div Grain)
Within(w, surplus) == w \in [Names -> 0..Top] /\ Gross(w) <= Most + surplus

\* The numbers of a definition are naturals.
LEMMA LimitsAreNat ==
  /\ MaxSingle \in Nat /\ MaxIndustry \in Nat /\ MaxTurnover \in Nat /\ Reserve \in Nat
  /\ Most \in Nat /\ Tolerance \in Nat /\ Full \in Nat /\ IsFiniteSet(Names)
  /\ HalfGrain \in Nat \ {0} /\ Grain = 2 * HalfGrain /\ Grain \in Nat \ {0}
  /\ Grain <= Tolerance /\ HalfGrain <= Tolerance
BY WeightAssumption, RiskAssumption DEF Most, Grain

\* The top is a multiple of the grain, and is reached within the tolerance of the cap.
LEMMA TopIs ==
  Top \in Nat /\ MaxSingle <= Top /\ Top <= MaxSingle + Tolerance /\ \E j \in Nat : Top = Grain * j
<1>1. PICK g \in Nat \ {0} : g = Grain /\ g <= Tolerance  BY LimitsAreNat
<1>2. PICK m \in Nat : m = MaxSingle  BY LimitsAreNat
<1>3. PICK q \in Int : /\ q = (m + g - 1) \div g /\ g * q <= m + g - 1
                       /\ m + g - 1 <= g * q + (g - 1)
  <2>1. m + g - 1 \in Int  OBVIOUS
  <2> QED  BY <2>1, DivIsFloor
<1>4. Top = g * q  BY <1>1, <1>2, <1>3 DEF Top
<1>5. m <= g * q /\ g * q <= m + Tolerance
  <2>1. g * q \in Int /\ Tolerance \in Nat  BY LimitsAreNat
  <2> QED  BY <1>1, <1>3, <2>1
<1>6. q \in Nat
  <2> SUFFICES ASSUME q <= -1 PROVE FALSE  BY <1>3
  <2>1. g * q <= g * (-1)  BY TimesKeepsOrder
  <2>2. g * (-1) = -g  OBVIOUS
  <2>3. g * q \in Int  OBVIOUS
  <2> QED  BY <1>5, <2>1, <2>2, <2>3
<1>7. g * q \in Nat  BY <1>6
<1> QED  BY <1>1, <1>2, <1>4, <1>5, <1>6, <1>7

\* The weights of a partition have a sum.
LEMMA GrossIs ==
  ASSUME NEW w, w \in [Names -> Nat]
  PROVE  Gross(w) = SumFunctionOnSet(w, Names) /\ Gross(w) \in Nat
<1>1. Gross(w) = SumFunctionOnSet(w, Names)  BY DEF Gross, SumFunction
<1>2. SumFunctionOnSet(w, Names) \in Nat  BY SumIsNat, LimitsAreNat
<1> QED  BY <1>1, <1>2

\* Smaller weights have a smaller sum.
LEMMA GrossIsMonotone ==
  ASSUME NEW v, NEW w, v \in [Names -> Nat], w \in [Names -> Nat], \A x \in Names : v[x] <= w[x]
  PROVE  Gross(v) <= Gross(w)
<1>1. \A x \in Names : v[x] \in Int /\ w[x] \in Int  OBVIOUS
<1>2. SumFunctionOnSet(v, Names) <= SumFunctionOnSet(w, Names)  BY <1>1, SumIsMonotone, LimitsAreNat
<1> QED  BY <1>2, GrossIs

\* Weights that are within their limits before a blend are so after it.
LEMMA LeanIsWithin ==
  ASSUME NEW w, Lean(w), NEW s \in Nat
  PROVE  Within(w, s) /\ w \in [Names -> Nat]
<1>1. w \in [Names -> Nat]  BY LimitsAreNat DEF Lean
<1>2. w \in [Names -> 0..Top]
  <2>1. 0..MaxSingle \subseteq 0..Top  BY LimitsAreNat, TopIs
  <2> QED  BY <2>1 DEF Lean
<1>3. Gross(w) \in Nat  BY <1>1, GrossIs
<1>4. Gross(w) <= Most + s  BY <1>3, LimitsAreNat DEF Lean
<1> QED  BY <1>1, <1>2, <1>4 DEF Within

\* An empty portfolio is within every limit.
LEMMA NoWeightsWithin == Lean(NoWeights) /\ NoWeights \in [Names -> Nat]
<1>1. NoWeights \in [Names -> Nat] /\ NoWeights \in [Names -> 0..MaxSingle]
  BY LimitsAreNat DEF NoWeights
<1>2. \A x \in Names : NoWeights[x] \in Nat /\ NoWeights[x] = 0  BY DEF NoWeights
<1>3. SumFunctionOnSet(NoWeights, Names) = 0  BY <1>2, SumIsNat, LimitsAreNat
<1> QED  BY <1>1, <1>3, GrossIs, LimitsAreNat DEF Lean

\* A share of a weight that is at most the whole is a smaller weight.
LEMMA ShareIsLess ==
  ASSUME NEW n \in Nat, NEW part \in Nat, NEW whole \in Nat \ {0}, part <= whole
  PROVE  /\ (n * part) \div whole \in Nat /\ (n * part) \div whole <= n
         /\ whole * ((n * part) \div whole) <= n * part
<1>1. n * part \in Nat  OBVIOUS
<1>2. PICK q \in Int : /\ q = (n * part) \div whole /\ whole * q <= n * part
                       /\ n * part <= whole * q + (whole - 1)
  BY <1>1, DivIsFloor
<1>3. n * part <= n * whole
  <2>1. n * (whole - part) >= 0 /\ n * (whole - part) = n * whole - n * part  OBVIOUS
  <2> QED  BY <2>1
<1>4. q <= n
  <2>1. whole * q <= whole * n  BY <1>2, <1>3
  <2> QED  BY <2>1, TimesKeepsOrder
<1>5. q >= 0
  <2> SUFFICES ASSUME q <= -1 PROVE FALSE  OBVIOUS
  <2>1. whole * q <= whole * (-1)  BY TimesKeepsOrder
  <2> QED  BY <1>1, <1>2, <2>1
<1> QED  BY <1>2, <1>4, <1>5

\* Leaving cash scales every weight down to a sum that leaves it.
LEMMA ReserveIsLeft ==
  ASSUME NEW w, w \in [Names -> 0..MaxSingle]
  PROVE  Lean(AfterReserve(w))
<1>1. w \in [Names -> Nat]  BY LimitsAreNat
<1>2. Gross(w) \in Nat /\ Gross(w) = SumFunctionOnSet(w, Names)  BY <1>1, GrossIs
<1>3. CASE Gross(w) <= Most  BY <1>2, <1>3, LimitsAreNat DEF AfterReserve, Most, Lean
<1>4. CASE Gross(w) > Most
  <2> DEFINE v == [x \in Names |-> (w[x] * Most) \div Gross(w)]
  <2>1. AfterReserve(w) = v  BY <1>4 DEF AfterReserve, Most
  <2>2. \A x \in Names : v[x] \in Nat /\ v[x] <= w[x] /\ Gross(w) * v[x] <= Most * w[x]
    <3> TAKE x \in Names
    <3>1. w[x] \in Nat /\ Gross(w) \in Nat \ {0} /\ Most \in Nat /\ Most <= Gross(w)
      BY <1>1, <1>2, <1>4, LimitsAreNat
    <3>2. /\ (w[x] * Most) \div Gross(w) \in Nat /\ (w[x] * Most) \div Gross(w) <= w[x]
          /\ Gross(w) * ((w[x] * Most) \div Gross(w)) <= w[x] * Most
      BY <3>1, ShareIsLess
    <3>3. w[x] * Most = Most * w[x]  BY <3>1
    <3> QED  BY <3>2, <3>3
  <2>3. v \in [Names -> Nat] /\ v \in [Names -> 0..MaxSingle]
    <3>1. \A x \in Names : v[x] \in 0..MaxSingle  BY <2>2, LimitsAreNat
    <3>2. DOMAIN v = Names /\ v = [x \in Names |-> v[x]]  OBVIOUS
    <3> HIDE DEF v
    <3> QED  BY <2>2, <3>1, <3>2
  <2>4. PICK G \in Nat : G = Gross(w) /\ G > Most  BY <1>2, <1>4
  <2>5. G * SumFunctionOnSet(v, Names) <= Most * SumFunctionOnSet(w, Names)
    <3> HIDE DEF v
    <3>1. \A x \in Names : v[x] \in Int /\ w[x] \in Int /\ G * v[x] <= Most * w[x]
      BY <1>1, <2>2, <2>4
    <3> QED  BY <3>1, <2>4, SumScaled, LimitsAreNat
  <2>6. Gross(v) \in Nat /\ Gross(v) = SumFunctionOnSet(v, Names)
    <3> HIDE DEF v
    <3> QED  BY <2>3, GrossIs
  <2> HIDE DEF v
  <2>7. G * Gross(v) <= G * Most
    <3>1. G * Gross(v) <= Most * G  BY <1>2, <2>4, <2>5, <2>6
    <3> QED  BY <2>4, <3>1, LimitsAreNat
  <2>8. Gross(v) <= Most  BY <2>4, <2>6, <2>7, TimesKeepsOrder, LimitsAreNat
  <2> QED  BY <2>1, <2>3, <2>8 DEF Lean
<1> QED  BY <1>2, <1>3, <1>4, LimitsAreNat

\* Capping an industry scales some weights down and no weight up.
LEMMA IndustriesOnlyShrink ==
  ASSUME NEW w, NEW label, Lean(w)
  PROVE  Lean(AfterIndustry(w, label))
<1>1. w \in [Names -> Nat] /\ DOMAIN w = Names  BY LimitsAreNat DEF Lean
<1>2. PICK v : v = AfterIndustry(w, label)  OBVIOUS
<1>3. DOMAIN v = Names /\ v = [x \in Names |-> v[x]]  BY <1>2 DEF AfterIndustry
<1>4. ASSUME NEW x \in Names PROVE v[x] \in Nat /\ v[x] <= w[x]
  <2> DEFINE Y == {y \in Names : label[y] = label[x]}
             f == OfIndustry(w, label, label[x])
  <2>1. IsFiniteSet(Y) /\ Y \subseteq Names  BY LimitsAreNat, FS_Subset
  <2>2. DOMAIN f = Y /\ \A y \in Y : f[y] \in Nat  BY <1>1 DEF OfIndustry
  <2>3. Gross(f) \in Nat
    <3>1. Gross(f) = SumFunctionOnSet(f, Y)  BY <2>2 DEF Gross, SumFunction
    <3> HIDE DEF f, Y
    <3> QED  BY <2>1, <2>2, <3>1, SumIsNat
  <2>4. v[x] = IF CapsIndustry /\ Gross(f) > MaxIndustry + Tolerance
               THEN (w[x] * MaxIndustry) \div Gross(f) ELSE w[x]
    BY <1>2 DEF AfterIndustry
  <2> HIDE DEF f
  <2>5. PICK e \in Nat : e = Gross(f)  BY <2>3
  <2>6. CASE CapsIndustry /\ e > MaxIndustry + Tolerance
    <3>1. e \in Nat \ {0} /\ MaxIndustry <= e /\ MaxIndustry \in Nat /\ w[x] \in Nat
      BY <1>1, <2>6, LimitsAreNat
    <3>2. (w[x] * MaxIndustry) \div e \in Nat /\ (w[x] * MaxIndustry) \div e <= w[x]
      BY <3>1, ShareIsLess
    <3> QED  BY <2>4, <2>5, <2>6, <3>2
  <2>7. CASE ~ (CapsIndustry /\ e > MaxIndustry + Tolerance)  BY <1>1, <2>4, <2>5, <2>7
  <2> QED  BY <2>6, <2>7
<1>5. v \in [Names -> Nat] /\ v \in [Names -> 0..MaxSingle]
  <2>1. \A x \in Names : w[x] \in Nat /\ w[x] <= MaxSingle  BY LimitsAreNat DEF Lean
  <2>2. \A x \in Names : v[x] \in 0..MaxSingle
    <3> TAKE x \in Names
    <3> QED  BY <1>4, <2>1, LimitsAreNat
  <2> QED  BY <1>3, <1>4, <2>2
<1>6. Gross(v) <= Gross(w) /\ Gross(v) \in Nat /\ Gross(w) \in Nat
  BY <1>1, <1>4, <1>5, GrossIsMonotone, GrossIs
<1>7. Gross(v) <= Most  BY <1>6, LimitsAreNat DEF Lean
<1> QED  BY <1>2, <1>5, <1>7 DEF Lean

\* A quotient is rounded by no more than half a grain, and never past a multiple of the
\* grain that it does not exceed.
LEMMA NearestIs ==
  ASSUME NEW n \in Nat, NEW d \in Nat \ {0}
  PROVE  /\ Nearest(n, d) \in Nat
         /\ d * Nearest(n, d) <= n + d * HalfGrain
         /\ n <= d * Nearest(n, d) + d * HalfGrain
         /\ \A j \in Nat : n <= d * (Grain * j) => Nearest(n, d) <= Grain * j
<1>1. PICK h \in Nat \ {0}, g \in Nat \ {0} : h = HalfGrain /\ g = Grain /\ g = 2 * h
  BY LimitsAreNat
<1>2. PICK e \in Nat \ {0}, f \in Nat \ {0} : e = d * g /\ f = d * h
  <2>1. d * g \in Nat \ {0} /\ d * h \in Nat \ {0}  OBVIOUS
  <2> QED  BY <2>1
<1>3. e = 2 * f
  <2>1. d * (2 * h) = 2 * (d * h)  OBVIOUS
  <2> QED  BY <1>1, <1>2, <2>1
<1>4. PICK q \in Int : q = (n + f) \div e /\ e * q <= n + f /\ n + f <= e * q + (e - 1)
  <2>1. n + f \in Int  OBVIOUS
  <2> QED  BY <2>1, DivIsFloor
<1>5. Nearest(n, d) = g * q  BY <1>1, <1>2, <1>4 DEF Nearest
<1>6. q \in Nat
  <2> SUFFICES ASSUME q <= -1 PROVE FALSE  BY <1>4
  <2>1. e * q <= e * (-1)  BY TimesKeepsOrder
  <2>2. e * (-1) = -e /\ e * q \in Int  OBVIOUS
  <2> QED  BY <1>4, <2>1, <2>2
<1>7. d * (g * q) = e * q
  <2>1. d * (g * q) = (d * g) * q  OBVIOUS
  <2> QED  BY <1>2, <2>1
<1>8. e * q <= n + f /\ n <= e * q + f
  <2>1. e * q \in Int  OBVIOUS
  <2> QED  BY <1>3, <1>4, <2>1
<1>9. ASSUME NEW j \in Nat, n <= d * (g * j) PROVE g * q <= g * j
  <2>1. d * (g * j) = e * j
    <3>1. d * (g * j) = (d * g) * j  OBVIOUS
    <3> QED  BY <1>2, <3>1
  <2>2. q <= j
    <3> SUFFICES ASSUME j + 1 <= q PROVE FALSE  OBVIOUS
    <3>1. e * (j + 1) <= e * q
      <4>1. j + 1 \in Int  OBVIOUS
      <4> QED  BY <4>1, TimesKeepsOrder
    <3>2. e * (j + 1) = e * j + e /\ e * j \in Int /\ e * q \in Int  OBVIOUS
    <3> QED  BY <1>3, <1>4, <1>9, <2>1, <3>1, <3>2
  <2> QED  BY <2>2, TimesKeepsOrder
<1>10. g * q \in Nat  BY <1>6
<1> QED  BY <1>1, <1>2, <1>5, <1>7, <1>8, <1>9, <1>10

\* One name of a blend: its share is between the weight before and the weight wanted.
LEMMA ShareIsBetween ==
  ASSUME NEW p \in Nat, NEW n \in Nat, NEW k \in Nat, NEW M \in Nat, k < M
  PROVE  /\ p * M + (n - p) * k \in Nat
         /\ p * M + (n - p) * k = (M - k) * p + k * n
         /\ \A top \in Nat : p <= top /\ n <= top => p * M + (n - p) * k <= M * top
<1>1. PICK s \in Int : s = p * M + (n - p) * k  OBVIOUS
<1>2. s = (M - k) * p + k * n
  <2>1. (n - p) * k = k * n - k * p /\ (M - k) * p = p * M - k * p  OBVIOUS
  <2> QED  BY <1>1, <2>1
<1>3. s \in Nat
  <2>1. M - k \in Nat  OBVIOUS
  <2>2. (M - k) * p \in Nat /\ k * n \in Nat  BY <2>1
  <2> QED  BY <1>2, <2>2
<1>4. ASSUME NEW top \in Nat, p <= top, n <= top PROVE s <= M * top
  <2>1. M - k \in Nat /\ top - p \in Nat /\ top - n \in Nat  BY <1>4
  <2>2. (M - k) * (top - p) >= 0 /\ k * (top - n) >= 0  BY <2>1
  <2>3. /\ (M - k) * (top - p) = (M - k) * top - (M - k) * p
        /\ k * (top - n) = k * top - k * n
        /\ (M - k) * top = M * top - k * top
    OBVIOUS
  <2> QED  BY <1>2, <2>2, <2>3
<1> QED  BY <1>1, <1>2, <1>3, <1>4

\* Such a name moves no further than its share of the way and what rounds it, or the
\* whole of a small weight when it is dropped.
LEMMA BlendMoves ==
  ASSUME NEW p \in Nat, NEW n \in Nat, NEW k \in Nat, NEW M \in Nat, k < M,
         NEW v \in Nat, NEW h \in Nat, NEW t \in Nat, NEW s \in Int,
         s = (M - k) * p + k * n,
         \/ M * v <= s + M * h /\ s <= M * v + M * h /\ t = h
         \/ v = 0 /\ s <= t * M
  PROVE  M * Abs(v - p) <= k * Abs(n - p) + M * t
<1>1. PICK a \in Nat : a = Abs(n - p) /\ n - p <= a /\ p - n <= a
  <2>1. n - p \in Int /\ -(n - p) = p - n  OBVIOUS
  <2> QED  BY <2>1, AbsIs
<1>2. k * (n - p) <= k * a /\ k * (p - n) <= k * a
  <2>1. a - (n - p) \in Nat /\ a - (p - n) \in Nat  BY <1>1
  <2>2. k * (a - (n - p)) >= 0 /\ k * (a - (p - n)) >= 0  BY <2>1
  <2>3. k * (a - (n - p)) = k * a - k * (n - p) /\ k * (a - (p - n)) = k * a - k * (p - n)
    OBVIOUS
  <2> QED  BY <2>2, <2>3
<1>3. s - M * p = k * (n - p) /\ M * p - s = k * (p - n)
  <2>1. (M - k) * p = M * p - k * p /\ k * (n - p) = k * n - k * p /\ k * (p - n) = k * p - k * n
    OBVIOUS
  <2> QED  BY <2>1
<1>4. CASE M * v <= s + M * h /\ s <= M * v + M * h /\ t = h
  <2>1. M * (v - p) <= k * a + M * h /\ M * (p - v) <= k * a + M * h
    <3>1. M * (v - p) = M * v - M * p /\ M * (p - v) = M * p - M * v  OBVIOUS
    <3> QED  BY <1>2, <1>3, <1>4, <3>1
  <2>2. Abs(v - p) = v - p \/ Abs(v - p) = p - v
    <3>1. v - p \in Int /\ -(v - p) = p - v  OBVIOUS
    <3> QED  BY <3>1, AbsIs
  <2> QED  BY <1>1, <1>4, <2>1, <2>2
<1>5. CASE v = 0 /\ s <= t * M
  <2>1. Abs(v - p) = p
    <3>1. v - p = -p /\ -(v - p) = p  BY <1>5
    <3> QED  BY <3>1 DEF Abs
  <2>2. M * p <= k * a + M * t
    <3>1. t * M = M * t  OBVIOUS
    <3> QED  BY <1>2, <1>3, <1>5, <3>1
  <2> QED  BY <1>1, <2>1, <2>2
<1> QED  BY <1>4, <1>5

\* Moves is a sum over the names.
LEMMA MovesIs ==
  ASSUME NEW w, NEW prev, w \in [Names -> Nat], prev \in [Names -> Nat]
  PROVE  /\ Moves(w, prev) = SumFunctionOnSet([x \in Names |-> Abs(w[x] - prev[x])], Names)
         /\ Moves(w, prev) \in Nat
<1> DEFINE f == [x \in Names |-> Abs(w[x] - prev[x])]
<1>1. Moves(w, prev) = SumFunctionOnSet(f, Names)
  <2>1. DOMAIN w = Names  OBVIOUS
  <2> QED  BY <2>1 DEF Moves, SumFunction
<1>2. \A x \in Names : f[x] \in Nat
  <2> TAKE x \in Names
  <2>1. w[x] - prev[x] \in Int  OBVIOUS
  <2> QED  BY <2>1, AbsIs
<1>3. SumFunctionOnSet(f, Names) \in Nat
  <2> HIDE DEF f
  <2> QED  BY <1>2, SumIsNat, LimitsAreNat
<1> QED  BY <1>1, <1>3

\* What a blend makes of one name.
Blend(w, prev, M, x) ==
  IF Share(w, prev, M, x) > Tolerance * M THEN Nearest(Share(w, prev, M, x), M) ELSE 0

\* How far a name may stray from its share of the way.
Stray(p, x) == IF x \in Dropped(p) THEN Tolerance ELSE HalfGrain

\* A name of a blend is within the limits of a name, and strays no further than that.
LEMMA BlendIs ==
  ASSUME NEW w \in [Names -> Nat], NEW prev \in [Names -> Nat], NEW M \in Nat, NEW k \in Nat,
         k = 2 * MaxTurnover, k < M, NEW x \in Names
  PROVE  /\ Blend(w, prev, M, x) \in Nat
         /\ M * Blend(w, prev, M, x) <= (M - k) * prev[x] + k * w[x] + M * HalfGrain
         /\ \A j \in Nat : prev[x] <= Grain * j /\ w[x] <= Grain * j =>
              Blend(w, prev, M, x) <= Grain * j
         /\ M * Abs(Blend(w, prev, M, x) - prev[x]) <= k * Abs(w[x] - prev[x])
              + M * (IF prev[x] > 0 /\ Blend(w, prev, M, x) = 0 THEN Tolerance ELSE HalfGrain)
<1>1. PICK p \in Nat, n \in Nat : p = prev[x] /\ n = w[x]  OBVIOUS
<1>2. PICK h \in Nat, tol \in Nat, g \in Nat : h = HalfGrain /\ tol = Tolerance /\ g = Grain /\ h <= tol
  BY LimitsAreNat
<1>3. PICK s \in Nat : s = p * M + (n - p) * k  BY ShareIsBetween
<1>4. s = (M - k) * p + k * n  BY <1>3, ShareIsBetween
<1>5. Share(w, prev, M, x) = s
  <2>1. (n - p) * 2 * MaxTurnover = (n - p) * (2 * MaxTurnover)  BY LimitsAreNat
  <2> QED  BY <1>1, <1>3, <2>1 DEF Share
<1>6. M \in Nat \ {0} /\ M * h \in Nat /\ s \in Int  OBVIOUS
<1>7. PICK v : v = Blend(w, prev, M, x)  OBVIOUS
<1>8. CASE s > tol * M
  <2>1. v = Nearest(s, M)  BY <1>2, <1>5, <1>7, <1>8 DEF Blend
  <2>2. v \in Nat /\ M * v <= s + M * h /\ s <= M * v + M * h
    BY <1>2, <1>6, <2>1, NearestIs
  <2>3. ASSUME NEW j \in Nat, p <= g * j, n <= g * j PROVE v <= g * j
    <3>1. g * j \in Nat  OBVIOUS
    <3>2. s <= M * (g * j)  BY <1>3, <2>3, <3>1, ShareIsBetween
    <3> QED  BY <1>2, <1>6, <2>1, <3>2, NearestIs
  <2>4. M * Abs(v - p) <= k * Abs(n - p) + M * h
    <3>1. PICK t \in Nat : t = h  OBVIOUS
    <3>2. M * Abs(v - p) <= k * Abs(n - p) + M * t  BY <1>4, <1>6, <2>2, <3>1, BlendMoves
    <3> QED  BY <3>1, <3>2
  <2>5. M * h <= M * tol  BY <1>2, <1>6, TimesKeepsOrder
  <2>6. M * Abs(v - p) <= k * Abs(n - p) + M * tol
    <3>1. Abs(v - p) \in Int /\ Abs(n - p) \in Int
      <4>1. v - p \in Int /\ n - p \in Int  BY <2>2
      <4> QED  BY <4>1, AbsIs
    <3>2. /\ M * Abs(v - p) \in Int /\ k * Abs(n - p) \in Int /\ M * tol \in Int
      BY <3>1
    <3> QED  BY <1>6, <2>4, <2>5, <3>2
  <2> QED  BY <1>1, <1>2, <1>4, <1>7, <2>2, <2>3, <2>4, <2>6
<1>9. CASE ~ (s > tol * M)
  <2>1. v = 0  BY <1>2, <1>5, <1>7, <1>9 DEF Blend
  <2>2. s <= tol * M
    <3>1. tol * M \in Int  OBVIOUS
    <3> QED  BY <1>6, <1>9, <3>1
  <2>3. M * v <= s + M * h  BY <1>6, <2>1
  <2>4. \A j \in Nat : v <= g * j
    <3> TAKE j \in Nat
    <3>1. g * j >= 0  OBVIOUS
    <3> QED  BY <2>1, <3>1
  <2>5. CASE p > 0
    <3>1. M * Abs(v - p) <= k * Abs(n - p) + M * tol  BY <1>4, <1>6, <2>1, <2>2, BlendMoves
    <3> QED  BY <1>1, <1>2, <1>4, <1>7, <2>1, <2>3, <2>4, <2>5, <3>1
  <2>6. CASE ~ (p > 0)
    <3>1. v - p = 0 /\ Abs(0) = 0  BY <2>1, <2>6 DEF Abs
    <3>2. M * Abs(v - p) <= k * Abs(n - p) + M * h
      <4>1. Abs(n - p) \in Nat
        <5>1. n - p \in Int  OBVIOUS
        <5> QED  BY <5>1, AbsIs
      <4>2. k * Abs(n - p) \in Nat /\ M * Abs(v - p) = 0  BY <3>1, <4>1
      <4> QED  BY <1>6, <4>2
    <3> QED  BY <1>1, <1>2, <1>4, <1>7, <2>1, <2>3, <2>4, <2>6, <3>2
  <2> QED  BY <2>5, <2>6
<1> QED  BY <1>8, <1>9

\* A blend that is made of two portfolios sums up to no more than the greater of them and
\* half a grain for each name.
LEMMA BlendedSum ==
  ASSUME NEW w \in [Names -> Nat], NEW prev \in [Names -> Nat], NEW v \in [Names -> Nat],
         NEW M \in Nat, NEW k \in Nat, k < M, NEW most \in Nat, Gross(w) <= most, Gross(prev) <= most,
         \A x \in Names : M * v[x] <= (M - k) * prev[x] + k * w[x] + M * HalfGrain
  PROVE  Gross(v) <= most + Cardinality(Names) * HalfGrain
<1> DEFINE e == [x \in Names |-> (M - k) * prev[x] + k * w[x]]
           one == [x \in Names |-> 1]
<1>1. PICK a \in Nat, b \in Nat, c \in Nat : a = Gross(v) /\ b = Gross(prev) /\ c = Gross(w)
  <2>1. Gross(v) \in Nat /\ Gross(prev) \in Nat /\ Gross(w) \in Nat  BY GrossIs
  <2> QED  BY <2>1
<1>2. PICK h \in Nat : h = HalfGrain  BY LimitsAreNat
<1>3. PICK m \in Int : m = M - k /\ m >= 0  OBVIOUS
<1>4. PICK u \in Int, mh \in Int : u = 1 /\ mh = M * h  OBVIOUS
<1>5. \A x \in Names : e[x] \in Int /\ one[x] \in Int /\ v[x] \in Int /\ prev[x] \in Int /\ w[x] \in Int
  <2> TAKE x \in Names
  <2>1. m * prev[x] \in Int /\ k * w[x] \in Int  BY <1>3
  <2> QED  BY <1>3, <2>1
<1>6. PICK n \in Nat : n = Cardinality(Names) /\ n = SumFunctionOnSet(one, Names)
  <2>1. PICK T : T = Names  OBVIOUS
  <2>2. \A x \in Names : one[x] = IF x \in T THEN 1 ELSE 0  BY <2>1
  <2> HIDE DEF one, e
  <2>3. SumFunctionOnSet(one, Names) = Cardinality(Names \cap T)  BY <2>2, SumCounts, LimitsAreNat
  <2>4. Names \cap T = Names  BY <2>1
  <2> QED  BY <2>3, <2>4, LimitsAreNat, FS_CardinalityType
<1>7. PICK t \in Int : t = SumFunctionOnSet(e, Names)
  <2> HIDE DEF e
  <2>1. SumFunctionOnSet(e, Names) \in Int  BY <1>5, SumIsInt, LimitsAreNat
  <2> QED  BY <2>1
<1>8. u * t <= m * b + k * c
  <2>1. Bounded(u, e, m, prev, k, w, Names)
    <3>1. \A x \in Names : u * e[x] <= m * prev[x] + k * w[x]
      <4> TAKE x \in Names
      <4>1. e[x] = m * prev[x] + k * w[x]  BY <1>3
      <4> HIDE DEF e
      <4> QED  BY <1>4, <1>5, <4>1
    <3> HIDE DEF e
    <3> QED  BY <1>5, <3>1 DEF Bounded
  <2> HIDE DEF e
  <2>2. u * SumFunctionOnSet(e, Names)
          <= m * SumFunctionOnSet(prev, Names) + k * SumFunctionOnSet(w, Names)
    BY <2>1, SumLinear, LimitsAreNat
  <2> QED  BY <1>1, <1>7, <2>2, GrossIs
<1>9. M * a <= u * t + mh * n
  <2>1. Bounded(M, v, u, e, mh, one, Names)
    <3>1. \A x \in Names : M * v[x] <= u * e[x] + mh * one[x]
      <4> TAKE x \in Names
      <4>1. M * v[x] <= e[x] + M * h  BY <1>2
      <4>2. one[x] = 1  OBVIOUS
      <4> HIDE DEF e, one
      <4>3. u * e[x] = e[x] /\ mh * one[x] = M * h  BY <1>4, <1>5, <4>2
      <4> QED  BY <4>1, <4>3
    <3> HIDE DEF e, one
    <3> QED  BY <1>5, <3>1 DEF Bounded
  <2> HIDE DEF e, one
  <2>2. M * SumFunctionOnSet(v, Names)
          <= u * SumFunctionOnSet(e, Names) + mh * SumFunctionOnSet(one, Names)
    BY <1>4, <2>1, SumLinear, LimitsAreNat
  <2> QED  BY <1>1, <1>6, <1>7, <2>2, GrossIs
<1>10. m * b + k * c <= M * most
  <2>1. m * (most - b) >= 0 /\ k * (most - c) >= 0
    <3>1. m \in Nat /\ most - b \in Nat /\ most - c \in Nat  BY <1>1, <1>3
    <3> QED  BY <3>1
  <2>2. /\ m * (most - b) = m * most - m * b /\ k * (most - c) = k * most - k * c
        /\ m * most = M * most - k * most
    BY <1>3
  <2> QED  BY <2>1, <2>2
<1>11. M * a <= M * (most + n * h)
  <2>1. mh * n = M * (n * h) /\ M * (most + n * h) = M * most + M * (n * h)  BY <1>4
  <2>2. u * t = t /\ M * a \in Int /\ m * b + k * c \in Int /\ M * (n * h) \in Int /\ M * most \in Int
    BY <1>4
  <2> QED  BY <1>8, <1>9, <1>10, <2>1, <2>2
<1>12. a <= most + n * h
  <2>1. M \in Nat \ {0} /\ most + n * h \in Int  OBVIOUS
  <2> QED  BY <1>11, <2>1, TimesKeepsOrder
<1> QED  BY <1>1, <1>2, <1>6, <1>12

\* What all names may stray together.
LEMMA StraySum ==
  ASSUME NEW p
  PROVE  /\ Strayed(p) \in Nat
         /\ SumFunctionOnSet([x \in Names |-> Stray(p, x)], Names) <= Strayed(p)
<1> DEFINE D == Dropped(p)
           f == [x \in Names |-> Stray(p, x)]
           in == [x \in Names |-> IF x \in D THEN 1 ELSE 0]
           out == [x \in Names |-> IF x \in Names \ D THEN 1 ELSE 0]
<1>1. PICK tol \in Nat, h \in Nat : tol = Tolerance /\ h = HalfGrain  BY LimitsAreNat
<1>2. Names \cap D = D /\ Names \cap (Names \ D) = Names \ D  BY DEF Dropped
<1>3. IsFiniteSet(D) /\ IsFiniteSet(Names \ D)
  <2>1. D \subseteq Names /\ Names \ D \subseteq Names  BY DEF Dropped
  <2> QED  BY <2>1, LimitsAreNat, FS_Subset
<1>4. PICK a \in Nat, b \in Nat : a = Cardinality(D) /\ b = Cardinality(Names \ D)
  BY <1>3, FS_CardinalityType
<1>5. SumFunctionOnSet(in, Names) = a
  <2>1. \A x \in Names : in[x] = IF x \in D THEN 1 ELSE 0  OBVIOUS
  <2> HIDE DEF in, D
  <2> QED  BY <1>2, <1>4, <2>1, SumCounts, LimitsAreNat
<1>6. SumFunctionOnSet(out, Names) = b
  <2> DEFINE R == Names \ D
  <2>1. \A x \in Names : out[x] = IF x \in R THEN 1 ELSE 0  OBVIOUS
  <2>2. Names \cap R = R /\ b = Cardinality(R)  BY <1>2, <1>4
  <2> HIDE DEF out, D, R
  <2> QED  BY <2>1, <2>2, SumCounts, LimitsAreNat
<1>7. Strayed(p) = a * tol + b * h /\ Strayed(p) \in Nat
  <2>1. Strayed(p) = a * tol + b * h  BY <1>1, <1>4 DEF Strayed
  <2>2. a * tol \in Nat /\ b * h \in Nat  OBVIOUS
  <2> QED  BY <2>1, <2>2
<1>8. PICK u \in Int : u = 1  OBVIOUS
<1>9. \A x \in Names : /\ f[x] \in Int /\ in[x] \in Int /\ out[x] \in Int
                       /\ u * f[x] <= tol * in[x] + h * out[x]
  <2> TAKE x \in Names
  <2>1. CASE x \in D
    <3>1. f[x] = tol /\ in[x] = 1 /\ out[x] = 0  BY <1>1, <2>1 DEF Stray
    <3> HIDE DEF f, in, out
    <3> QED  BY <1>8, <3>1
  <2>2. CASE x \notin D
    <3>1. f[x] = h /\ in[x] = 0 /\ out[x] = 1  BY <1>1, <2>2 DEF Stray
    <3> HIDE DEF f, in, out
    <3> QED  BY <1>8, <3>1
  <2> QED  BY <2>1, <2>2
<1>10. PICK s \in Int : s = SumFunctionOnSet(f, Names)
  <2>1. \A x \in Names : f[x] \in Int  BY <1>9
  <2> HIDE DEF f
  <2>2. SumFunctionOnSet(f, Names) \in Int  BY <2>1, SumIsInt, LimitsAreNat
  <2> QED  BY <2>2
<1>11. u * s <= tol * a + h * b
  <2> HIDE DEF f, in, out
  <2>1. Bounded(u, f, tol, in, h, out, Names)  BY <1>9 DEF Bounded
  <2>2. u * SumFunctionOnSet(f, Names)
          <= tol * SumFunctionOnSet(in, Names) + h * SumFunctionOnSet(out, Names)
    BY <1>8, <2>1, SumLinear, LimitsAreNat
  <2> QED  BY <1>5, <1>6, <1>10, <2>2
<1>12. s <= Strayed(p)
  <2>1. u * s = s /\ tol * a = a * tol /\ h * b = b * h  BY <1>8
  <2> QED  BY <1>7, <1>11, <2>1
<1> QED  BY <1>7, <1>10, <1>12

\* A blend moves no further than its cap and what its names stray.
LEMMA BlendedMoves ==
  ASSUME NEW w \in [Names -> Nat], NEW prev \in [Names -> Nat], NEW v \in [Names -> Nat],
         NEW M \in Nat, NEW k \in Nat, k < M, M = Moves(w, prev), NEW p,
         \A x \in Names : M * Abs(v[x] - prev[x]) <= k * Abs(w[x] - prev[x]) + M * Stray(p, x)
  PROVE  Moves(v, prev) <= k + Strayed(p)
<1> DEFINE f == [x \in Names |-> Abs(v[x] - prev[x])]
           g == [x \in Names |-> Abs(w[x] - prev[x])]
           h == [x \in Names |-> Stray(p, x)]
<1>1. PICK r \in Nat : r = Moves(v, prev) /\ r = SumFunctionOnSet(f, Names)  BY MovesIs
<1>2. M = SumFunctionOnSet(g, Names)  BY MovesIs
<1>3. \A x \in Names : /\ f[x] \in Int /\ g[x] \in Int /\ h[x] \in Int
                       /\ M * f[x] <= k * g[x] + M * h[x]
  <2> TAKE x \in Names
  <2>1. v[x] - prev[x] \in Int /\ w[x] - prev[x] \in Int  OBVIOUS
  <2>2. Abs(v[x] - prev[x]) \in Int /\ Abs(w[x] - prev[x]) \in Int  BY <2>1, AbsIs
  <2>3. Stray(p, x) \in Int  BY LimitsAreNat DEF Stray
  <2> QED  BY <2>2, <2>3
<1>4. PICK s \in Nat, n \in Int : s = Strayed(p) /\ n = SumFunctionOnSet(h, Names) /\ n <= s
  <2>1. \A x \in Names : h[x] \in Int  BY <1>3
  <2>2. SumFunctionOnSet(h, Names) <= Strayed(p) /\ Strayed(p) \in Nat  BY StraySum
  <2> HIDE DEF h
  <2>3. SumFunctionOnSet(h, Names) \in Int  BY <2>1, SumIsInt, LimitsAreNat
  <2> QED  BY <2>2, <2>3
<1> HIDE DEF f, g, h
<1>5. M * SumFunctionOnSet(f, Names)
        <= k * SumFunctionOnSet(g, Names) + M * SumFunctionOnSet(h, Names)
  <2>1. Bounded(M, f, k, g, M, h, Names)  BY <1>3 DEF Bounded
  <2> QED  BY <2>1, SumLinear, LimitsAreNat
<1>6. M * r <= k * M + M * n  BY <1>1, <1>2, <1>4, <1>5
<1>7. M * r <= M * (k + s)
  <2>1. M * (s - n) >= 0
    <3>1. s - n \in Nat  BY <1>4
    <3> QED  BY <3>1
  <2>2. M * (s - n) = M * s - M * n /\ M * (k + s) = k * M + M * s  OBVIOUS
  <2> QED  BY <1>6, <2>1, <2>2
<1>8. r <= k + s
  <2>1. M \in Nat \ {0} /\ k + s \in Int  OBVIOUS
  <2> QED  BY <1>7, <2>1, TimesKeepsOrder
<1> QED  BY <1>1, <1>4, <1>8

\* The turnover that is allowed, but for the rounding and the small weights dropped.
MovesLittle(w, prev) ==
  \/ Moves(w, prev) <= 2 * (MaxTurnover + Tolerance)
  \/ Moves(w, prev) <= 2 * MaxTurnover + Strayed([target |-> w, before |-> prev])

\* Blending towards the weights before keeps a portfolio within its limits and within
\* such a turnover.
LEMMA TurnoverIsCapped ==
  ASSUME NEW w, NEW prev, NEW s \in Nat, Lean(w), Within(prev, s)
  PROVE  /\ Within(AfterTurnover(w, prev), s + Cardinality(Names) * HalfGrain)
         /\ MovesLittle(AfterTurnover(w, prev), prev)
<1>1. w \in [Names -> Nat] /\ prev \in [Names -> Nat]  BY LimitsAreNat, TopIs DEF Lean, Within
<1>2. PICK M \in Nat : M = Moves(w, prev)  BY <1>1, MovesIs
<1>3. PICK c \in Nat : c = Cardinality(Names) * HalfGrain
  <2>1. Cardinality(Names) \in Nat  BY LimitsAreNat, FS_CardinalityType
  <2>2. Cardinality(Names) * HalfGrain \in Nat  BY <2>1, LimitsAreNat
  <2> QED  BY <2>2
<1>4. CASE M <= 2 * (MaxTurnover + Tolerance)
  <2>1. AfterTurnover(w, prev) = w  BY <1>2, <1>4 DEF AfterTurnover
  <2>2. s + c \in Nat  OBVIOUS
  <2>3. Within(w, s + c)  BY <2>2, LeanIsWithin
  <2> QED  BY <1>2, <1>3, <1>4, <2>1, <2>3 DEF MovesLittle
<1>5. CASE ~ (M <= 2 * (MaxTurnover + Tolerance))
  <2>1. PICK k \in Nat : k = 2 * MaxTurnover /\ k < M  BY <1>5, LimitsAreNat
  <2>2. PICK v : v = AfterTurnover(w, prev)  OBVIOUS
  <2>3. v = [x \in Names |-> Blend(w, prev, M, x)]
    BY <1>2, <1>5, <2>2 DEF AfterTurnover, Blend
  <2>4. PICK p : p = [target |-> v, before |-> prev]  OBVIOUS
  <2>5. ASSUME NEW x \in Names
        PROVE  /\ v[x] \in Nat
               /\ M * v[x] <= (M - k) * prev[x] + k * w[x] + M * HalfGrain
               /\ v[x] <= Top
               /\ M * Abs(v[x] - prev[x]) <= k * Abs(w[x] - prev[x]) + M * Stray(p, x)
    <3>1. v[x] = Blend(w, prev, M, x)  BY <2>3
    <3>2. v[x] <= Top
      <4>1. PICK j \in Nat : Top = Grain * j  BY TopIs
      <4>2. prev[x] <= Top /\ w[x] <= Top
        <5>1. prev[x] \in 0..Top /\ w[x] \in 0..MaxSingle  BY DEF Within, Lean
        <5> QED  BY <5>1, TopIs, LimitsAreNat
      <4> QED  BY <1>1, <2>1, <3>1, <4>1, <4>2, BlendIs
    <3>3. Stray(p, x) = IF prev[x] > 0 /\ v[x] = 0 THEN Tolerance ELSE HalfGrain
      BY <2>4 DEF Stray, Dropped
    <3> QED  BY <1>1, <2>1, <3>1, <3>2, <3>3, BlendIs
  <2>6. DOMAIN v = Names /\ v = [x \in Names |-> v[x]]  BY <2>3
  <2>7. v \in [Names -> Nat] /\ v \in [Names -> 0..Top]
    <3>1. \A x \in Names : v[x] \in 0..Top  BY <2>5, TopIs
    <3> QED  BY <2>5, <2>6, <3>1
  <2>8. Gross(v) <= Most + (s + c)
    <3>1. PICK most \in Nat : most = Most + s  BY LimitsAreNat
    <3>2. Gross(w) <= most /\ Gross(prev) <= most
      <4>1. Gross(w) \in Nat /\ Gross(w) <= Most  BY <1>1, GrossIs DEF Lean
      <4> QED  BY <3>1, <4>1, LimitsAreNat DEF Within
    <3>3. Gross(v) <= most + c  BY <1>1, <1>3, <2>1, <2>5, <2>7, <3>2, BlendedSum
    <3> QED  BY <3>1, <3>3, LimitsAreNat
  <2>9. Moves(v, prev) <= k + Strayed(p)  BY <1>1, <1>2, <2>1, <2>5, <2>7, BlendedMoves
  <2>10. Within(v, s + c)  BY <2>7, <2>8 DEF Within
  <2> QED  BY <1>3, <2>1, <2>2, <2>4, <2>9, <2>10 DEF MovesLittle
<1> QED  BY <1>4, <1>5

\* A single name is capped by every scheme.
LEMMA SinglesAreCapped ==
  ASSUME NEW raw, raw \in [Names -> Nat]
  PROVE  Capped(raw) \in [Names -> 0..MaxSingle]
<1>1. ASSUME NEW x \in Names PROVE Min({raw[x], MaxSingle}) \in 0..MaxSingle
  <2>1. {raw[x], MaxSingle} \subseteq Nat /\ {raw[x], MaxSingle} # {}  BY LimitsAreNat
  <2>2. /\ Min({raw[x], MaxSingle}) \in {raw[x], MaxSingle}
        /\ \A y \in {raw[x], MaxSingle} : Min({raw[x], MaxSingle}) <= y
    BY <2>1, MinIsLeast
  <2> QED  BY <2>1, <2>2
<1> QED  BY <1>1 DEF Capped

\* What the builder makes of any scores is within the definition's limits, and from the
\* second date on within the turnover; each date may add half a grain to each name.
LEMMA BuiltIsWithin ==
  ASSUME NEW selected, NEW raw \in [Names -> Nat], NEW label, NEW prev, NEW initial, NEW s \in Nat,
         NEW w, initial \/ Within(prev, s), w \in Build(selected, raw, label, prev, initial)
  PROVE  /\ ~ Conflicts(w, label)
         /\ initial => Within(w, 0)
         /\ ~ initial => Within(w, s + Cardinality(Names) * HalfGrain) /\ MovesLittle(w, prev)
<1> DEFINE scaled == AfterIndustry(AfterReserve(Capped(raw)), label)
<1>1. Lean(scaled)  BY SinglesAreCapped, ReserveIsLeft, IndustriesOnlyShrink
<1>2. /\ w = (IF initial THEN scaled ELSE AfterTurnover(scaled, prev))
      /\ ~ Conflicts(w, label)
  BY DEF Build
<1> HIDE DEF scaled
<1>3. Within(scaled, 0)  BY <1>1, LeanIsWithin
<1>4. ASSUME ~ initial
      PROVE  Within(w, s + Cardinality(Names) * HalfGrain) /\ MovesLittle(w, prev)
  <2>1. w = AfterTurnover(scaled, prev) /\ Within(prev, s)  BY <1>2, <1>4
  <2> QED  BY <1>1, <2>1, TurnoverIsCapped
<1> QED  BY <1>2, <1>3, <1>4

-----------------------------------------------------------------------------
(* What the gate says of such weights. *)

\* The industry of a portfolio has a greatest weight.
LEMMA IndustryWeightIsNat ==
  ASSUME NEW w, NEW label, w \in [Names -> Nat]
  PROVE  IndustryWeight(w, label) \in Nat
<1> DEFINE I == Industries(w, label)
           f == [i \in I |-> SumFunctionOnSet(w, {x \in Names : label[x] = i})]
           sums == {f[i] : i \in I}
<1>1. DOMAIN w = Names /\ IsFiniteSet(Names)  BY LimitsAreNat
<1>2. IsFiniteSet(I)
  <2>1. IsFiniteSet({label[x] : x \in Names})  BY <1>1, ImageIsFinite
  <2>2. I \subseteq {label[x] : x \in Names}  BY <1>1 DEF Industries
  <2> QED  BY <2>1, <2>2, FS_Subset
<1>3. \A i \in I : f[i] \in Nat
  <2> TAKE i \in I
  <2> DEFINE Y == {x \in Names : label[x] = i}
  <2>1. IsFiniteSet(Y) /\ \A x \in Y : w[x] \in Nat  BY <1>1, FS_Subset
  <2>2. SumFunctionOnSet(w, Y) \in Nat
    <3> HIDE DEF Y
    <3> QED  BY <2>1, SumIsNat
  <2> QED  BY <2>2
<1>4. IndustryWeight(w, label) = Max({0} \cup sums)  BY <1>1 DEF IndustryWeight
<1> HIDE DEF f, I
<1>5. IsFiniteSet(sums)  BY <1>2, ImageIsFinite
<1>6. sums \subseteq Nat  BY <1>3
<1> HIDE DEF sums
<1>7. IsFiniteSet({0} \cup sums) /\ {0} \cup sums \subseteq Int /\ {0} \cup sums # {}
  <2>1. IsFiniteSet({0} \cup sums)  BY <1>5, OneMore
  <2> QED  BY <1>6, <2>1
<1>8. PICK R : R = {0} \cup sums  OBVIOUS
<1>9. Max(R) \in R  BY <1>7, <1>8, MaxIsGreatest
<1>10. R \subseteq Nat  BY <1>6, <1>8
<1>11. IndustryWeight(w, label) = Max(R)  BY <1>4, <1>8
<1> QED  BY <1>9, <1>10, <1>11

\* The weights of a portfolio have a greatest one.
LEMMA SingleIsWithin ==
  ASSUME NEW w, w \in [Names -> 0..Top]
  PROVE  Max({0} \cup {w[x] : x \in DOMAIN w}) \in 0..Top
<1> DEFINE all == {0} \cup {w[x] : x \in DOMAIN w}
<1>1. DOMAIN w = Names /\ \A x \in Names : w[x] \in 0..Top  OBVIOUS
<1>2. IsFiniteSet({w[x] : x \in Names})  BY LimitsAreNat, ImageIsFinite
<1>3. all \subseteq 0..Top /\ all # {}  BY <1>1, TopIs
<1>4. IsFiniteSet(all)
  <2>1. all = {0} \cup {w[x] : x \in Names}  BY <1>1
  <2> HIDE DEF all
  <2> QED  BY <1>2, <2>1, OneMore
<1>5. Max(all) \in all
  <2>1. all \subseteq Int  BY <1>3
  <2> HIDE DEF all
  <2> QED  BY <1>3, <1>4, <2>1, MaxIsGreatest
<1> QED  BY <1>3, <1>5

\* What a date may have been rounded up by.
LEMMA RoundedUpIs ==
  ASSUME NEW d \in Nat \ {0}
  PROVE  /\ RoundedUp(d) \in Nat /\ RoundedUp(1) = 0
         /\ RoundedUp(d + 1) = RoundedUp(d) + Cardinality(Names) * HalfGrain
<1>1. PICK n \in Nat, h \in Nat : n = Cardinality(Names) /\ h = HalfGrain
  <2>1. Cardinality(Names) \in Nat  BY LimitsAreNat, FS_CardinalityType
  <2> QED  BY <2>1, LimitsAreNat
<1>2. PICK c \in Nat : c = n * h
  <2>1. n * h \in Nat  OBVIOUS
  <2> QED  BY <2>1
<1>3. \A e \in Nat \ {0} : RoundedUp(e) = (e - 1) * c
  <2> TAKE e \in Nat \ {0}
  <2>1. (e - 1) * n * h = (e - 1) * (n * h)  OBVIOUS
  <2> QED  BY <1>1, <1>2, <2>1 DEF RoundedUp
<1>4. (d - 1) * c \in Nat /\ (1 - 1) * c = 0
  <2>1. d - 1 \in Nat  OBVIOUS
  <2> QED  BY <2>1
<1>5. ((d + 1) - 1) * c = (d - 1) * c + c  OBVIOUS
<1>6. d + 1 \in Nat \ {0} /\ 1 \in Nat \ {0}  OBVIOUS
<1> QED  BY <1>1, <1>2, <1>3, <1>4, <1>5, <1>6

\* The overturn is half of what the strays have beyond twice the tolerance, or more.
LEMMA OverturnedIs ==
  ASSUME NEW p
  PROVE  Overturned(p) \in Nat /\ Strayed(p) <= 2 * Tolerance + 2 * Overturned(p)
<1>1. PICK s \in Nat, t \in Nat : s = Strayed(p) /\ t = Tolerance  BY StraySum, LimitsAreNat
<1> DEFINE S == {0, s - 2 * t}
<1>2. IsFiniteSet(S) /\ S \subseteq Int /\ S # {}
  <2>1. S = {0} \cup {s - 2 * t} /\ S \subseteq Int  OBVIOUS
  <2>2. IsFiniteSet({0})  BY FS_Singleton
  <2> HIDE DEF S
  <2> QED  BY <2>1, <2>2, OneMore
<1>3. PICK m \in Int : m = Max(S) /\ 0 <= m /\ s - 2 * t <= m
  <2>1. 0 \in S /\ s - 2 * t \in S  OBVIOUS
  <2> HIDE DEF S
  <2> QED  BY <1>2, <2>1, MaxIsGreatest
<1>4. Overturned(p) = (m + 1) \div 2  BY <1>1, <1>3 DEF Overturned
<1> QED  BY <1>1, <1>3, <1>4

\* The five metrics of weights that are within the limits of the definition, but for
\* what they have been rounded up by.
LEMMA MetricsPass ==
  ASSUME NEW w, NEW prev \in [Names -> Nat], NEW label, NEW s \in Nat, Within(w, s)
  PROVE  /\ Compare(Metric("gross_stock_exposure", w, prev, label), "less_than_or_equal",
                    Full - Reserve + (s + HalfGrain))
         /\ Compare(Metric("cash_reserve", w, prev, label), "greater_than_or_equal",
                    Reserve - (s + HalfGrain))
         /\ Compare(Metric("max_single_weight", w, prev, label), "less_than_or_equal", MaxSingle)
         /\ IndustryWeight(w, label) <= MaxIndustry + Tolerance =>
              Compare(Metric("industry_weight", w, prev, label), "less_than_or_equal",
                      MaxIndustry + HalfGrain)
         /\ MovesLittle(w, prev) =>
              Compare(Metric("turnover", w, prev, label), "less_than_or_equal",
                      MaxTurnover + HalfGrain + Overturned([target |-> w, before |-> prev]))
<1>0. w \in [Names -> Nat]  BY TopIs DEF Within
<1>1. PICK g \in Nat : g = Gross(w) /\ g <= Full - Reserve + Tolerance + s
  BY <1>0, GrossIs DEF Within, Most
<1>2. PICK h \in Nat : h = HalfGrain  BY LimitsAreNat
<1>3. ASSUME NEW n \in Nat
      PROVE  Nearest(n, 1) \in Nat /\ Nearest(n, 1) <= n + h /\ n <= Nearest(n, 1) + h
  <2>1. PICK q \in Nat : q = Nearest(n, 1) /\ 1 * q <= n + 1 * h /\ n <= 1 * q + 1 * h
    BY <1>2, NearestIs
  <2> QED  BY <2>1
<1>4. Compare(Metric("gross_stock_exposure", w, prev, label), "less_than_or_equal",
              Full - Reserve + (s + HalfGrain))
  <2>1. Metric("gross_stock_exposure", w, prev, label) = Nearest(g, 1)  BY <1>1 DEF Metric
  <2>2. Nearest(g, 1) <= Full - Reserve + (s + h) + Tolerance  BY <1>1, <1>3, LimitsAreNat
  <2> QED  BY <1>2, <2>1, <2>2 DEF Compare
<1>5. Compare(Metric("cash_reserve", w, prev, label), "greater_than_or_equal",
              Reserve - (s + HalfGrain))
  <2> DEFINE S == {0, Full - g}
  <2>1. Metric("cash_reserve", w, prev, label) = Nearest(Max(S), 1)  BY <1>1 DEF Metric
  <2>2. IsFiniteSet(S) /\ S \subseteq Int /\ S # {}
    <3>1. IsFiniteSet(S)
      <4>1. S = {0} \cup {Full - g}  OBVIOUS
      <4>2. IsFiniteSet({0})  BY FS_Singleton
      <4> HIDE DEF S
      <4> QED  BY <4>1, <4>2, OneMore
    <3> QED  BY <1>1, <3>1, LimitsAreNat
  <2>3. PICK c \in Nat : c = Max(S) /\ Full - g <= c
    <3>1. 0 \in S /\ Full - g \in S  OBVIOUS
    <3> HIDE DEF S
    <3>2. Max(S) \in Int /\ 0 <= Max(S) /\ Full - g <= Max(S)  BY <2>2, <3>1, MaxIsGreatest
    <3> QED  BY <3>2
  <2> HIDE DEF S
  <2>4. Nearest(c, 1) >= Reserve - (s + h) - Tolerance  BY <1>1, <1>3, <2>3, LimitsAreNat
  <2> QED  BY <1>2, <2>1, <2>3, <2>4 DEF Compare
<1>6. Compare(Metric("max_single_weight", w, prev, label), "less_than_or_equal", MaxSingle)
  <2>1. PICK m \in Nat : m = Max({0} \cup {w[x] : x \in DOMAIN w}) /\ m <= Top
    <3> DEFINE all == {0} \cup {w[x] : x \in DOMAIN w}
    <3>1. w \in [Names -> 0..Top]  BY DEF Within
    <3>2. Max(all) \in 0..Top  BY <3>1, SingleIsWithin
    <3> HIDE DEF all
    <3>3. Max(all) \in Nat /\ Max(all) <= Top  BY <3>2, TopIs
    <3>4. \E m \in Nat : m = Max(all) /\ m <= Top  BY <3>3
    <3> QED  BY <3>4 DEF all
  <2>2. Metric("max_single_weight", w, prev, label) = Nearest(m, 1)  BY <2>1 DEF Metric
  <2>3. PICK j \in Nat : Top = Grain * j  BY TopIs
  <2>4. m <= 1 * (Grain * j)  BY <2>1, <2>3, TopIs
  <2>5. Nearest(m, 1) <= Top  BY <2>3, <2>4, NearestIs
  <2>6. Nearest(m, 1) <= MaxSingle + Tolerance  BY <1>3, <2>5, TopIs, LimitsAreNat
  <2> QED  BY <2>2, <2>6 DEF Compare
<1>7. ASSUME IndustryWeight(w, label) <= MaxIndustry + Tolerance
      PROVE  Compare(Metric("industry_weight", w, prev, label), "less_than_or_equal",
                     MaxIndustry + HalfGrain)
  <2>1. PICK i \in Nat : i = IndustryWeight(w, label)  BY <1>0, IndustryWeightIsNat
  <2>2. Metric("industry_weight", w, prev, label) = Nearest(i, 1)  BY <2>1 DEF Metric
  <2>3. Nearest(i, 1) <= MaxIndustry + h + Tolerance  BY <1>3, <1>7, <2>1, LimitsAreNat
  <2> QED  BY <1>2, <2>2, <2>3 DEF Compare
<1>8. ASSUME MovesLittle(w, prev)
      PROVE  Compare(Metric("turnover", w, prev, label), "less_than_or_equal",
                     MaxTurnover + HalfGrain + Overturned([target |-> w, before |-> prev]))
  <2>1. PICK m \in Nat : m = Moves(w, prev)  BY <1>0, MovesIs
  <2>2. PICK p : p = [target |-> w, before |-> prev]  OBVIOUS
  <2>3. PICK o \in Nat : o = Overturned(p) /\ Strayed(p) <= 2 * Tolerance + 2 * o  BY OverturnedIs
  <2>4. PICK q \in Nat : q = Nearest(m, 2) /\ 2 * q <= m + 2 * h
    <3>1. 2 \in Nat \ {0}  OBVIOUS
    <3> QED  BY <1>2, <3>1, NearestIs
  <2>5. m <= 2 * MaxTurnover + 2 * Tolerance + 2 * o
    <3>1. CASE m <= 2 * (MaxTurnover + Tolerance)  BY <2>3, <3>1, LimitsAreNat
    <3>2. CASE m <= 2 * MaxTurnover + Strayed(p)
      <4>1. PICK n \in Nat : n = Strayed(p)  BY StraySum
      <4> QED  BY <2>3, <3>2, <4>1, LimitsAreNat
    <3> QED  BY <1>8, <2>1, <2>2, <3>1, <3>2 DEF MovesLittle
  <2>6. q <= MaxTurnover + h + o + Tolerance  BY <2>3, <2>4, <2>5, LimitsAreNat
  <2>7. Metric("turnover", w, prev, label) = q  BY <2>1, <2>4 DEF Metric
  <2> QED  BY <1>2, <2>2, <2>3, <2>6, <2>7 DEF Compare
<1> QED  BY <1>4, <1>5, <1>6, <1>7, <1>8

\* The rules of the definition's own limits, one by one.
LEMMA OwnRules ==
  ASSUME NEW d, NEW p, NEW r \in OwnLimits(d, p).rules
  PROVE  \/ r = Limit("gross_stock_exposure", "less_than_or_equal",
                      Full - Reserve + (RoundedUp(d) + HalfGrain))
         \/ r = Limit("cash_reserve", "greater_than_or_equal", Reserve - (RoundedUp(d) + HalfGrain))
         \/ r = Limit("max_single_weight", "less_than_or_equal", MaxSingle)
         \/ /\ r = Limit("industry_weight", "less_than_or_equal", MaxIndustry + HalfGrain)
            /\ CapsIndustry
         \/ /\ r = Limit("turnover", "less_than_or_equal", MaxTurnover + HalfGrain + Overturned(p))
            /\ d # 1
BY DEF OwnLimits

\* Weights within the limits of the definition are allowed under them.
LEMMA OwnLimitsAllow ==
  ASSUME NEW d \in 1..Dates, NEW w, NEW prev, NEW p, NEW label,
         p = [target |-> w, before |-> prev], label = facts[d].label,
         Within(w, RoundedUp(d)), prev \in [Names -> Nat],
         ~ Conflicts(w, label), d # 1 => MovesLittle(w, prev)
  PROVE  EvaluatePortfolio(OwnLimits(d, p), d, w, prev) = "allow"
<1>0. OwnLimits(d, p).membership = label  BY DEF OwnLimits
<1>1. Binds(OwnLimits(d, p), "portfolio", d)
  <2>1. /\ OwnLimits(d, p).scope = "portfolio" /\ OwnLimits(d, p).approved = TRUE
        /\ OwnLimits(d, p).from = 1 /\ OwnLimits(d, p).to = Dates
    BY DEF OwnLimits
  <2>2. ASSUME NEW r \in OwnLimits(d, p).rules, NEW q \in OwnLimits(d, p).rules, r.id = q.id
        PROVE  r = q
    BY <2>2, OwnRules DEF Limit
  <2> QED  BY <2>1, <2>2 DEF Binds
<1>2. w \in [Names -> Nat] /\ DOMAIN w = Names  BY TopIs DEF Within
<1>3. CapsIndustry => /\ ~ \E x \in Names : w[x] > 0 /\ label[x] = "none"
                      /\ IndustryWeight(w, label) <= MaxIndustry + Tolerance
  <2>1. PICK i \in Nat : i = IndustryWeight(w, label)  BY <1>2, IndustryWeightIsNat
  <2>2. CapsIndustry => ~ Unlabelled(w, label) /\ ~ (i > MaxIndustry + Tolerance)
    BY <2>1 DEF Conflicts
  <2> QED  BY <2>1, <2>2, LimitsAreNat DEF Unlabelled
<1>4. RoundedUp(d) \in Nat
  <2>1. d \in Nat \ {0}  BY StageAssumption
  <2> QED  BY <2>1, RoundedUpIs
<1>5. ASSUME NEW r \in OwnLimits(d, p).rules
      PROVE  Compare(Metric(r.metric, w, prev, label), r.operator, r.threshold)
  BY <1>3, <1>4, OwnRules, MetricsPass DEF Limit
<1>6. ~ \E r \in OwnLimits(d, p).rules : r.metric = "industry_weight" /\
          \E x \in DOMAIN w : w[x] > Tolerance /\ label[x] = "none"
  <2>1. ASSUME NEW r \in OwnLimits(d, p).rules, r.metric = "industry_weight" PROVE CapsIndustry
    BY <2>1, OwnRules DEF Limit
  <2>2. ASSUME NEW x \in Names, w[x] > Tolerance PROVE w[x] > 0
    <3>1. w[x] \in Nat  BY <1>2
    <3> QED  BY <2>2, <3>1, LimitsAreNat
  <2> QED  BY <1>2, <1>3, <2>1, <2>2
<1>7. {r \in OwnLimits(d, p).rules :
         ~Compare(Metric(r.metric, w, prev, OwnLimits(d, p).membership), r.operator, r.threshold)} = {}
  BY <1>0, <1>5
<1>8. Action({}) = "allow"  BY DEF Action
<1> QED  BY <1>0, <1>1, <1>6, <1>7, <1>8 DEF EvaluatePortfolio

-----------------------------------------------------------------------------
(* The stage: its partitions are a chain, each built on the one before. *)

FactRow == [selected : SUBSET Names, raw : Raws, label : Labels]

\* What the builder makes of a date on the weights before.
Wanted(d, prev) == Build(facts[d].selected, facts[d].raw, facts[d].label, prev, d = 1)

\* A partition was built from the facts of its date, on one that is in the store for the
\* date before, and is within the limits but for what rounding has added since the first.
Built(d, p) ==
  /\ d <= Len(facts) /\ p = [target |-> p.target, before |-> p.before]
  /\ p.target \in Wanted(d, p.before) /\ Within(p.target, RoundedUp(d))
  /\ IF d = 1 THEN p.before = NoWeights ELSE \E q \in weights[d - 1] : p.before = q.target

\* The partition of this attempt.
Partition(d) == [target |-> chain[d], before |-> Before(d)]

\* What is on disk was built date by date, once, and this attempt goes on along it.
StageSound ==
  /\ facts \in Seq(FactRow) /\ chain \in Seq([Names -> Nat])
  /\ DOMAIN weights = 1..Dates /\ Len(chain) <= Dates
  /\ \A d \in 1..Dates : \A p \in weights[d] : Built(d, p)
  /\ \A d \in 1..Dates : \A p, q \in weights[d] : p = q
  /\ \A d \in 1..Len(chain) : Partition(d) \in weights[d]
  /\ status = "refused" => Len(chain) < Dates /\ weights[Len(chain) + 1] = {}

\* The builder makes one thing of the same arguments.
LEMMA BuildIsOne ==
  ASSUME NEW d, NEW prev, NEW v \in Wanted(d, prev), NEW w \in Wanted(d, prev)
  PROVE  v = w
BY DEF Wanted, Build

\* What the scheme made of the scores of a known date is a weight for every name.
LEMMA RawIs ==
  ASSUME StageSound, NEW d \in 1..Dates, d <= Len(facts)
  PROVE  facts[d].raw \in [Names -> Nat]
<1>1. d \in 1..Len(facts) /\ facts \in Seq(FactRow)  BY StageAssumption DEF StageSound
<1>2. facts[d] \in FactRow  BY <1>1
<1>3. facts[d].raw \in Raws  BY <1>2 DEF FactRow
<1> QED  BY <1>3, StageAssumption

\* The weights before a partition were rounded up on the dates before only.
LEMMA BeforeIsWithin ==
  ASSUME StageSound, NEW d \in 1..Dates, NEW p \in weights[d]
  PROVE  /\ p.before \in [Names -> Nat]
         /\ d # 1 => d - 1 \in 1..Dates /\ Within(p.before, RoundedUp(d - 1))
<1>1. Built(d, p)  BY DEF StageSound
<1>2. CASE d = 1  BY <1>1, <1>2, NoWeightsWithin DEF Built
<1>3. CASE d # 1
  <2>1. d - 1 \in 1..Dates  BY <1>3, StageAssumption
  <2>2. PICK q \in weights[d - 1] : p.before = q.target  BY <1>1, <1>3 DEF Built
  <2>3. Within(q.target, RoundedUp(d - 1))  BY <2>1, <2>2 DEF StageSound, Built
  <2>4. q.target \in [Names -> Nat]  BY <2>3, TopIs DEF Within
  <2> QED  BY <2>1, <2>2, <2>3, <2>4
<1> QED  BY <1>2, <1>3

\* The limits hold of what is built on a partition that they hold of.
LEMMA WantedIsWithin ==
  ASSUME StageSound, NEW d \in 1..Dates, d <= Len(facts), NEW prev,
         d # 1 => Within(prev, RoundedUp(d - 1)), NEW w \in Wanted(d, prev)
  PROVE  /\ Within(w, RoundedUp(d)) /\ w \in [Names -> Nat]
         /\ ~ Conflicts(w, facts[d].label)
         /\ d # 1 => MovesLittle(w, prev)
<1>1. PICK raw \in [Names -> Nat] : raw = facts[d].raw  BY RawIs
<1>2. w \in Build(facts[d].selected, raw, facts[d].label, prev, d = 1)  BY <1>1 DEF Wanted
<1>3. CASE d = 1
  <2>1. ~ Conflicts(w, facts[d].label) /\ Within(w, 0)
    <3>1. PICK s \in Nat : s = 0  OBVIOUS
    <3> QED  BY <1>1, <1>2, <1>3, <3>1, BuiltIsWithin
  <2>2. RoundedUp(1) = 0
    <3>1. 1 \in Nat \ {0}  OBVIOUS
    <3> QED  BY <3>1, RoundedUpIs
  <2> QED  BY <1>3, <2>1, <2>2, TopIs DEF Within
<1>4. CASE d # 1
  <2>1. PICK e \in Nat \ {0} : e = d - 1 /\ e + 1 = d  BY <1>4, StageAssumption
  <2>2. PICK s \in Nat : s = RoundedUp(e) /\ RoundedUp(d) = s + Cardinality(Names) * HalfGrain
    BY <2>1, RoundedUpIs
  <2>3. /\ ~ Conflicts(w, facts[d].label) /\ MovesLittle(w, prev)
        /\ Within(w, s + Cardinality(Names) * HalfGrain)
    BY <1>1, <1>2, <1>4, <2>1, <2>2, BuiltIsWithin
  <2> QED  BY <1>4, <2>2, <2>3, TopIs DEF Within
<1> QED  BY <1>3, <1>4

\* The weights this attempt goes on from.
LEMMA PreviousIs ==
  ASSUME StageSound, NEW d \in 1..Dates, d = Len(chain) + 1
  PROVE  /\ Previous = Before(d) /\ Target(d) = Wanted(d, Previous)
         /\ IF d = 1 THEN Previous = NoWeights
            ELSE /\ d - 1 \in 1..Dates /\ Partition(d - 1) \in weights[d - 1]
                 /\ Previous = Partition(d - 1).target
<1>1. Len(chain) \in Nat /\ (chain = <<>> <=> Len(chain) = 0)  BY DEF StageSound
<1>2. CASE d = 1
  <2>1. chain = <<>>  BY <1>1, <1>2
  <2>2. Previous = NoWeights /\ Before(d) = NoWeights  BY <1>2, <2>1 DEF Previous, Before
  <2>3. Target(d) = Wanted(d, Previous)  BY <1>2, <2>1 DEF Target, Wanted, Build
  <2> QED  BY <1>2, <2>2, <2>3
<1>3. CASE d # 1
  <2>1. chain # <<>> /\ Len(chain) = d - 1 /\ d - 1 \in 1..Len(chain) /\ d - 1 \in 1..Dates
    BY <1>1, <1>3, StageAssumption DEF StageSound
  <2>2. Previous = chain[d - 1] /\ Before(d) = chain[d - 1]
    BY <1>3, <2>1 DEF Previous, Before
  <2>3. Target(d) = Wanted(d, Previous)  BY <1>3, <2>1 DEF Target, Wanted, Build
  <2>4. Partition(d - 1) \in weights[d - 1]  BY <2>1 DEF StageSound
  <2> QED  BY <1>3, <2>1, <2>2, <2>3, <2>4 DEF Partition
<1> QED  BY <1>2, <1>3

\* What the store has of the next date was built on the weights this attempt goes on from.
LEMMA StoredIsTarget ==
  ASSUME StageSound, NEW d \in 1..Dates, d = Len(chain) + 1, NEW p \in weights[d]
  PROVE  p.before = Previous /\ p.target \in Target(d)
<1>1. Built(d, p)  BY DEF StageSound
<1>2. p.before = Previous
  <2>1. CASE d = 1  BY <1>1, <2>1, PreviousIs DEF Built
  <2>2. CASE d # 1
    <3>1. PICK q \in weights[d - 1] : p.before = q.target  BY <1>1, <2>2 DEF Built
    <3>2. /\ d - 1 \in 1..Dates /\ Partition(d - 1) \in weights[d - 1]
          /\ Previous = Partition(d - 1).target
      BY <2>2, PreviousIs
    <3>3. q = Partition(d - 1)  BY <3>1, <3>2 DEF StageSound
    <3> QED  BY <3>1, <3>2, <3>3
  <2> QED  BY <2>1, <2>2
<1> QED  BY <1>1, <1>2, PreviousIs DEF Built

\* What is built stays built while facts and partitions stay.
LEMMA BuiltStays ==
  ASSUME StageSound, UNCHANGED <<facts, weights>>
  PROVE  \A d \in 1..Dates : \A p \in weights[d] : Built(d, p)'
<1> TAKE d \in 1..Dates
<1> TAKE p \in weights[d]
<1>1. Built(d, p)  BY DEF StageSound
<1>2. Wanted(d, p.before)' = Wanted(d, p.before)  BY DEF Wanted
<1> QED  BY <1>1, <1>2 DEF Built

\* Facts that have been read are read again as they were.
LEMMA ReadKeepsStage ==
  ASSUME StageSound, ReadFacts
  PROVE  StageSound'
<1>1. PICK row \in FactRow : facts' = Append(facts, row)
  <2>1. PICK s \in Selections(Names), raw \in Raws, label \in Labels :
          facts' = Append(facts, [selected |-> s, raw |-> raw, label |-> label])
    BY DEF ReadFacts
  <2>2. [selected |-> s, raw |-> raw, label |-> label] \in FactRow
    BY <2>1 DEF FactRow, Selections
  <2> QED  BY <2>1, <2>2
<1>2. weights' = weights /\ chain' = chain /\ status' = status  BY DEF ReadFacts
<1>3. /\ facts' \in Seq(FactRow) /\ Len(facts') = Len(facts) + 1 /\ Len(facts) \in Nat
      /\ \A d \in 1..Len(facts) : facts'[d] = facts[d]
  BY <1>1 DEF StageSound
<1>4. \A d \in 1..Dates : \A p \in weights[d] : Built(d, p)'
  <2> TAKE d \in 1..Dates
  <2> TAKE p \in weights[d]
  <2>1. Built(d, p)  BY DEF StageSound
  <2>2. d <= Len(facts)  BY <2>1 DEF Built
  <2>3. d \in 1..Len(facts)  BY <1>3, <2>2, StageAssumption
  <2>4. Wanted(d, p.before)' = Wanted(d, p.before)  BY <1>3, <2>3 DEF Wanted
  <2>5. d <= Len(facts')  BY <1>3, <2>2, StageAssumption
  <2> QED  BY <1>2, <2>1, <2>4, <2>5 DEF Built
<1>5. \A d \in 1..Len(chain) : Partition(d)' = Partition(d)  BY <1>2 DEF Partition, Before
<1> QED  BY <1>2, <1>3, <1>4, <1>5 DEF StageSound

\* What leaves the partitions alone keeps them sound.
LEMMA StageStays ==
  ASSUME StageSound, UNCHANGED <<facts, weights>>,
         chain' = chain \/ chain' = <<>>, status' = "refused" => status = "refused" /\ chain' = chain
  PROVE  StageSound'
<1>1. \A d \in 1..Dates : \A p \in weights[d] : Built(d, p)'  BY BuiltStays
<1>2. CASE chain' = chain
  <2>1. \A d \in 1..Len(chain) : Partition(d)' = Partition(d)  BY <1>2 DEF Partition, Before
  <2> QED  BY <1>1, <1>2, <2>1 DEF StageSound
<1>3. CASE chain' = <<>>
  <2>1. chain' \in Seq([Names -> Nat]) /\ Len(chain') = 0 /\ 1..Len(chain') = {}  BY <1>3
  <2>2. Len(chain') <= Dates  BY <2>1, StageAssumption
  <2>3. status' = "refused" => Len(chain') < Dates /\ weights'[Len(chain') + 1] = {}
    BY DEF StageSound
  <2> QED  BY <1>1, <2>1, <2>2, <2>3 DEF StageSound
<1> QED  BY <1>2, <1>3

\* A partition that is published is built on the chain, and one that is recovered is the
\* one on disk; only a date that has none can refuse the stage.
LEMMA PublishKeepsStage ==
  ASSUME StageSound, PublishTarget
  PROVE  StageSound'
<1>1. PICK d \in 1..Dates : d = Len(chain) + 1 /\ d <= Len(facts)
  <2>1. Len(chain) \in Nat /\ Len(chain) < Dates /\ Len(chain) + 1 <= Len(facts)
    BY DEF PublishTarget, StageSound, Known
  <2>2. Len(chain) + 1 \in 1..Dates  BY <2>1, StageAssumption
  <2> QED  BY <2>1, <2>2
<1>2. facts' = facts /\ status # "refused"  BY DEF PublishTarget
<1>3. CASE Target(d) = {} /\ status' = "refused" /\ UNCHANGED <<weights, chain>>
  <2>1. weights[d] = {}  BY <1>1, <1>3, StoredIsTarget
  <2>2. Len(chain) < Dates  BY DEF PublishTarget
  <2>3. \A e \in 1..Dates : \A p \in weights[e] : Built(e, p)'  BY <1>2, <1>3, BuiltStays
  <2>4. \A e \in 1..Len(chain) : Partition(e)' = Partition(e)  BY <1>3 DEF Partition, Before
  <2> QED  BY <1>1, <1>2, <1>3, <2>1, <2>2, <2>3, <2>4 DEF StageSound
<1>4. ASSUME NEW target \in Target(d),
             weights' = [weights EXCEPT ![d] = @ \cup {[target |-> target, before |-> Previous]}],
             chain' = Append(chain, target), status' = status
      PROVE  StageSound'
  <2>1. PICK p : p = [target |-> target, before |-> Previous]  OBVIOUS
  <2>2. DOMAIN weights = 1..Dates  BY DEF StageSound
  <2>3. weights'[d] = weights[d] \cup {p} /\ \A e \in 1..Dates \ {d} : weights'[e] = weights[e]
    BY <1>4, <2>1, <2>2
  <2>4. DOMAIN weights' = 1..Dates /\ \A e \in 1..Dates : weights[e] \subseteq weights'[e]
    BY <1>4, <2>2, <2>3
  <2>5. target \in Wanted(d, Previous)  BY <1>1, <1>4, PreviousIs
  <2>6. d # 1 => Within(Previous, RoundedUp(d - 1))
    <3> SUFFICES ASSUME d # 1 PROVE Within(Previous, RoundedUp(d - 1))  OBVIOUS
    <3>1. /\ d - 1 \in 1..Dates /\ Partition(d - 1) \in weights[d - 1]
          /\ Previous = Partition(d - 1).target
      BY <1>1, PreviousIs
    <3>2. Built(d - 1, Partition(d - 1))  BY <3>1 DEF StageSound
    <3> QED  BY <3>1, <3>2 DEF Built
  <2>7. Within(target, RoundedUp(d)) /\ target \in [Names -> Nat]
    BY <1>1, <2>5, <2>6, WantedIsWithin
  <2>8. \A q \in weights'[d] : q = p
    <3> TAKE q \in weights'[d]
    <3>1. CASE q \in weights[d]
      <4>1. q.before = Previous /\ q.target \in Target(d)  BY <1>1, <3>1, StoredIsTarget
      <4>2. q.target \in Wanted(d, Previous)  BY <1>1, <4>1, PreviousIs
      <4>3. q.target = target  BY <2>5, <4>2, BuildIsOne
      <4>4. q = [target |-> q.target, before |-> q.before]  BY <3>1 DEF StageSound, Built
      <4> QED  BY <2>1, <4>1, <4>3, <4>4
    <3> QED  BY <2>3, <3>1
  <2>9. /\ chain' \in Seq([Names -> Nat]) /\ Len(chain') = d /\ chain'[d] = target
        /\ \A e \in 1..Len(chain) : chain'[e] = chain[e]
    BY <1>1, <1>4, <2>7 DEF StageSound
  <2>10. \A e \in 1..d : Before(e)' = Before(e)
    <3> TAKE e \in 1..d
    <3>1. CASE e = 1  BY <3>1 DEF Before
    <3>2. CASE e # 1
      <4>1. e - 1 \in 1..Len(chain)
        <5>1. Len(chain) \in Nat  BY DEF StageSound
        <5> QED  BY <1>1, <3>2, <5>1
      <4> QED  BY <2>9, <3>2, <4>1 DEF Before
    <3> QED  BY <3>1, <3>2
  <2>11. \A e \in 1..d : Partition(e)' \in weights'[e]
    <3> TAKE e \in 1..d
    <3>1. CASE e = d
      <4>1. Before(d)' = Previous  BY <1>1, <2>10, <3>1, PreviousIs
      <4>2. Partition(d)' = p  BY <2>1, <2>9, <4>1 DEF Partition
      <4> QED  BY <2>3, <3>1, <4>2
    <3>2. CASE e # d
      <4>1. e \in 1..Len(chain) /\ e \in 1..Dates
        <5>1. Len(chain) \in Nat  BY DEF StageSound
        <5> QED  BY <1>1, <3>2, <5>1, StageAssumption
      <4>2. Partition(e)' = Partition(e)  BY <2>9, <2>10, <4>1 DEF Partition
      <4>3. Partition(e) \in weights[e]  BY <4>1 DEF StageSound
      <4> QED  BY <2>4, <4>1, <4>2, <4>3
    <3> QED  BY <3>1, <3>2
  <2>12. ASSUME NEW e \in 1..Dates, NEW q \in weights[e] PROVE Built(e, q)'
    <3>1. Built(e, q)  BY <2>12 DEF StageSound
    <3>2. Wanted(e, q.before)' = Wanted(e, q.before)  BY <1>2 DEF Wanted
    <3>3. e # 1 => weights[e - 1] \subseteq weights'[e - 1]
      <4>1. e # 1 => e - 1 \in 1..Dates  BY StageAssumption
      <4> QED  BY <2>4, <4>1
    <3> QED  BY <1>2, <3>1, <3>2, <3>3 DEF Built
  <2>13. Built(d, p)'
    <3>1. IF d = 1 THEN p.before = NoWeights ELSE \E q \in weights'[d - 1] : p.before = q.target
      <4>1. CASE d = 1  BY <1>1, <2>1, <4>1, PreviousIs
      <4>2. CASE d # 1
        <5>1. /\ d - 1 \in 1..Dates /\ Partition(d - 1) \in weights[d - 1]
              /\ Previous = Partition(d - 1).target
          BY <1>1, <4>2, PreviousIs
        <5>2. Partition(d - 1) \in weights'[d - 1]  BY <2>4, <5>1
        <5> QED  BY <2>1, <4>2, <5>1, <5>2
      <4> QED  BY <4>1, <4>2
    <3>2. p.target = target /\ p.before = Previous  BY <2>1
    <3> QED  BY <1>1, <1>2, <2>1, <2>5, <2>7, <3>1, <3>2 DEF Built, Wanted
  <2>14. \A e \in 1..Dates : \A q \in weights'[e] : Built(e, q)'
    <3> TAKE e \in 1..Dates
    <3> TAKE q \in weights'[e]
    <3>1. CASE e = d  BY <2>8, <2>13, <3>1
    <3>2. CASE e # d  BY <2>3, <2>12, <3>2
    <3> QED  BY <3>1, <3>2
  <2>15. \A e \in 1..Dates : \A q, r \in weights'[e] : q = r
    <3> TAKE e \in 1..Dates
    <3>1. CASE e = d  BY <2>8, <3>1
    <3>2. CASE e # d  BY <2>3, <3>2 DEF StageSound
    <3> QED  BY <3>1, <3>2
  <2>16. facts' \in Seq(FactRow) /\ Len(chain') <= Dates /\ status' # "refused"
    BY <1>1, <1>2, <1>4, <2>9, StageAssumption DEF StageSound
  <2> QED  BY <2>4, <2>9, <2>11, <2>14, <2>15, <2>16 DEF StageSound
<1>5. \/ Target(d) = {} /\ status' = "refused" /\ UNCHANGED <<weights, chain>>
      \/ \E target \in Target(d) :
           /\ weights' = [weights EXCEPT ![d] = @ \cup {[target |-> target, before |-> Previous]}]
           /\ chain' = Append(chain, target)
           /\ status' = status
  BY <1>1 DEF PublishTarget
<1> QED  BY <1>3, <1>4, <1>5

\* Every initial state has a sound stage.
LEMMA InitStage == Init => StageSound
<1> SUFFICES ASSUME Init PROVE StageSound  OBVIOUS
<1>1. /\ facts = <<>> /\ weights = [d \in 1..Dates |-> {}] /\ chain = <<>> /\ status # "refused"
  BY DEF Init
<1>2. Len(chain) = 0 /\ 1..Len(chain) = {} /\ Len(chain) <= Dates  BY <1>1, StageAssumption
<1> QED  BY <1>1, <1>2 DEF StageSound

\* Every step keeps it so.
LEMMA NextStage ==
  ASSUME StageSound, [Next]_vars
  PROVE  StageSound'
<1>1. CASE ReadFacts  BY <1>1, ReadKeepsStage
<1>2. CASE PublishTarget  BY <1>2, PublishKeepsStage
<1>3. CASE PassStage \/ StopStage \/ RetryStage
  <2>1. UNCHANGED <<facts, weights>>  BY <1>3 DEF PassStage, StopStage, RetryStage
  <2>2. chain' = chain \/ chain' = <<>>  BY <1>3 DEF PassStage, StopStage, RetryStage
  <2>3. status' # "refused"  BY <1>3 DEF PassStage, StopStage, RetryStage
  <2> QED  BY <2>1, <2>2, <2>3, StageStays
<1>4. CASE \/ EvaluateTarget \/ PublishPolicy \/ PublishDecision \/ PublishEvent \/ PublishRun
           \/ StartBacktest \/ EvaluateCandidate \/ PublishVerdict \/ PublishNotice
           \/ AbortBacktest \/ ExecuteCandidate \/ EndBacktest \/ PublishRecord \/ StopCall
           \/ UNCHANGED vars
  <2>1. UNCHANGED stageVars
    BY <1>4 DEF EvaluateTarget, PublishPolicy, PublishDecision, PublishEvent, PublishRun,
                StartBacktest, EvaluateCandidate, PublishVerdict, PublishNotice, AbortBacktest,
                ExecuteCandidate, EndBacktest, PublishRecord, StopCall, Publish, vars, stageVars
  <2> QED  BY <2>1, StageStays DEF stageVars
<1> QED  BY <1>1, <1>2, <1>3, <1>4 DEF Next, Stage

\* The stage is sound in every state that can be reached.
THEOREM StageInvariance == Spec => []StageSound
<1>1. StageSound /\ [Next]_vars => StageSound'  BY NextStage
<1> QED  BY <1>1, InitStage, PTL DEF Spec

\* An attempt that goes on after an interruption builds again what is on disk, so that no
\* date has a second generation, and is refused at a date that was never published.
THEOREM AttemptsResume == Spec => []StageResumes
<1>1. ASSUME StageSound PROVE StageResumes
  <2>1. DOMAIN chain = 1..Len(chain) /\ Len(chain) \in Nat /\ Len(chain) <= Dates
    BY <1>1 DEF StageSound
  <2>2. ASSUME NEW d \in DOMAIN chain
        PROVE  weights[d] = {[target |-> chain[d], before |-> Before(d)]}
    <3>1. d \in 1..Len(chain) /\ d \in 1..Dates  BY <2>1, StageAssumption
    <3>2. Partition(d) \in weights[d] /\ \A p \in weights[d] : p = Partition(d)
      BY <1>1, <3>1 DEF StageSound
    <3>3. weights[d] = {Partition(d)}  BY <3>2
    <3> QED  BY <3>3 DEF Partition
  <2> QED  BY <1>1, <2>2 DEF StageResumes, StageSound
<1> QED  BY <1>1, StageInvariance, PTL

\* What the builder publishes passes a policy with the limits of its own definition, on
\* every date of a chain and whatever was built before, eased by what rounding to the
\* twelfth decimal and dropping small weights may add and by no more.
THEOREM BuiltTargetsAreAllowed == Spec => []TargetsPassOwnLimits
<1>1. ASSUME StageSound PROVE TargetsPassOwnLimits
  <2>1. ASSUME NEW d \in 1..Dates, NEW p \in weights[d]
        PROVE  EvaluatePortfolio(OwnLimits(d, p), d, p.target, p.before) = "allow"
    <3>1. /\ d <= Len(facts) /\ p = [target |-> p.target, before |-> p.before]
          /\ p.target \in Wanted(d, p.before) /\ Within(p.target, RoundedUp(d))
      BY <1>1 DEF StageSound, Built
    <3>2. /\ p.before \in [Names -> Nat]
          /\ d # 1 => Within(p.before, RoundedUp(d - 1))
      BY <1>1, BeforeIsWithin
    <3>3. /\ ~ Conflicts(p.target, facts[d].label)
          /\ d # 1 => MovesLittle(p.target, p.before)
      BY <1>1, <3>1, <3>2, WantedIsWithin
    <3> QED  BY <3>1, <3>2, <3>3, OwnLimitsAllow
  <2> QED  BY <2>1 DEF TargetsPassOwnLimits
<1> QED  BY <1>1, StageInvariance, PTL


-----------------------------------------------------------------------------
(* Orders: what a resize leaves passes the rules that cut it. *)

\* The places of the two actions an order rule may have, and of the severities.
LEMMA Places ==
  /\ Place(Actions, "block_order") = 6 /\ Place(Actions, "resize") = 7
  /\ \A severity : (\E i \in DOMAIN Severities : Severities[i] = severity) =>
       Place(Severities, severity) \in 1..3
<1>1. DOMAIN Actions = 1..10 /\ DOMAIN Severities = 1..3  BY DEF Actions, Severities
<1>2. \A i \in 1..10 : Actions[i] = "block_order" <=> i = 6  BY DEF Actions
<1>3. \A i \in 1..10 : Actions[i] = "resize" <=> i = 7  BY DEF Actions
<1>4. Place(Actions, "block_order") = 6  BY <1>1, <1>2 DEF Place
<1>5. Place(Actions, "resize") = 7  BY <1>1, <1>3 DEF Place
<1>6. ASSUME NEW severity, \E i \in DOMAIN Severities : Severities[i] = severity
      PROVE  Place(Severities, severity) \in DOMAIN Severities
  BY <1>6 DEF Place
<1> QED  BY <1>1, <1>4, <1>5, <1>6

\* Of failed order rules a block decides over a resize: a decision to resize says that
\* every failed rule resizes.
LEMMA ResizeMeansNoBlock ==
  ASSUME NEW failed, failed # {},
         \A r \in failed : /\ r.action \in {"resize", "block_order"}
                           /\ \E i \in DOMAIN Severities : Severities[i] = r.severity
  PROVE  /\ Action(failed) \in {"resize", "block_order"}
         /\ Action(failed) = "resize" => \A r \in failed : r.action = "resize"
<1> DEFINE Rank(r) == 10 * Place(Actions, r.action) + Place(Severities, r.severity)
           ranks == {Rank(r) : r \in failed}
<1>1. ASSUME NEW r \in failed
      PROVE  Place(Actions, r.action) \in {6, 7} /\ Place(Severities, r.severity) \in 1..3
  BY Places
<1>2. ranks \subseteq Nat /\ ranks # {}
  <2>1. \A r \in failed : Rank(r) \in Nat
    <3> TAKE r \in failed
    <3> QED  BY <1>1
  <2> HIDE DEF Rank
  <2> QED  BY <2>1
<1>3. PICK first \in failed : \A r \in failed : Rank(first) <= Rank(r)
  <2>1. Min(ranks) \in ranks /\ \A y \in ranks : Min(ranks) <= y
    <3> HIDE DEF ranks
    <3> QED  BY <1>2, MinIsLeast
  <2> HIDE DEF Rank
  <2> QED  BY <2>1
<1>4. ASSUME NEW r \in failed PROVE Decides(first, r)
  <2>1. Rank(first) <= Rank(r)  BY <1>3
  <2>2. PICK a \in Nat, b \in Nat, c \in 1..3, d \in 1..3 :
          /\ a = Place(Actions, first.action) /\ b = Place(Actions, r.action)
          /\ c = Place(Severities, first.severity) /\ d = Place(Severities, r.severity)
    BY <1>1
  <2>3. 10 * a + c <= 10 * b + d  BY <2>1, <2>2
  <2>4. a < b \/ (a = b /\ c <= d)  BY <2>3
  <2> QED  BY <2>2, <2>4 DEF Decides
<1>5. PICK rule \in failed : /\ \A other \in failed : Decides(rule, other)
                             /\ Action(failed) = rule.action
  <2> DEFINE chosen == CHOOSE rule \in failed : \A other \in failed : Decides(rule, other)
  <2>1. chosen \in failed /\ \A other \in failed : Decides(chosen, other)  BY <1>4
  <2>2. Action(failed) = chosen.action  BY DEF Action
  <2> HIDE DEF chosen
  <2> QED  BY <2>1, <2>2
<1>6. ASSUME rule.action = "resize", NEW r \in failed PROVE r.action = "resize"
  <2> SUFFICES ASSUME r.action = "block_order" PROVE FALSE  OBVIOUS
  <2>1. Place(Actions, rule.action) = 7 /\ Place(Actions, r.action) = 6  BY <1>6, Places
  <2>2. Decides(rule, r)  BY <1>5
  <2> QED  BY <2>1, <2>2 DEF Decides
<1> QED  BY <1>5, <1>6

\* A candidate and its context, as evaluate_order requires them.
LEMMA CandidateIs ==
  ASSUME NEW o \in Orders, NEW c \in Contexts
  PROVE  /\ o = [id |-> o.id, side |-> o.side, shares |-> o.shares]
         /\ o.side \in {"buy", "sell"} /\ o.shares \in Nat /\ o.shares > 0
         /\ c.price \in Nat /\ c.price > 0 /\ Slipped(c) \in Nat /\ c.price <= Slipped(c)
         /\ c.volume \in Nat /\ c.cash \in Int /\ c.sellable \in Nat
BY CandidateAssumption DEF Slipped

\* An order with fewer shares.
Fewer(o, n) == [o EXCEPT !.shares = n]

\* What it is.
LEMMA FewerIs ==
  ASSUME NEW o \in Orders, NEW n
  PROVE  Fewer(o, n).side = o.side /\ Fewer(o, n).shares = n
<1>1. o = [id |-> o.id, side |-> o.side, shares |-> o.shares]  BY CandidateAssumption
<1>2. DOMAIN o = {"id", "side", "shares"}  BY <1>1
<1> QED  BY <1>2 DEF Fewer

\* A rule that fails for fewer shares fails for more.
LEMMA FailuresGrow ==
  ASSUME NEW o \in Orders, NEW c \in Contexts, NEW n \in Nat, n <= o.shares,
         NEW r, r.id \in DOMAIN OrderActions, r.threshold \in Nat, OrderFails(r, Fewer(o, n), c)
  PROVE  OrderFails(r, o, c)
<1>1. PICK s \in Nat, p \in Nat, q \in Nat, v \in Nat, t \in Nat :
        s = o.shares /\ p = c.price /\ q = Slipped(c) /\ v = c.volume /\ t = r.threshold
  BY CandidateIs
<1>2. n * p <= s * p /\ n * q <= s * q
  <2>1. (s - n) * p >= 0 /\ (s - n) * q >= 0
    <3>1. s - n \in Nat  BY <1>1
    <3> QED  BY <3>1
  <2>2. (s - n) * p = s * p - n * p /\ (s - n) * q = s * q - n * q  OBVIOUS
  <2> QED  BY <2>1, <2>2
<1>3. /\ Fewer(o, n).side = o.side /\ Fewer(o, n).shares = n
      /\ o.side \in {"buy", "sell"} /\ c.cash \in Int /\ c.sellable \in Nat /\ n <= s
  BY <1>1, FewerIs, CandidateIs
<1>4. CASE r.id = "order_instrument_halt"  BY <1>4 DEF OrderFails
<1>5. CASE r.id = "order_limit_price"  BY <1>3, <1>5 DEF OrderFails
<1>6. CASE r.id = "order_insufficient_cash"
  <2>1. o.side = "buy" /\ CashAfter(Fewer(o, n), c) < 0  BY <1>3, <1>6 DEF OrderFails
  <2>2. CashAfter(Fewer(o, n), c) = c.cash - n * q  BY <1>1, <1>3, <2>1 DEF CashAfter
  <2>3. CashAfter(o, c) = c.cash - s * q  BY <1>1, <2>1 DEF CashAfter
  <2>4. c.cash - s * q < 0
    <3>1. c.cash - n * q < 0  BY <2>1, <2>2
    <3>2. n * q \in Int /\ s * q \in Int  OBVIOUS
    <3> QED  BY <1>2, <1>3, <3>1, <3>2
  <2> QED  BY <1>6, <2>1, <2>3, <2>4 DEF OrderFails
<1>7. CASE r.id = "order_t1_sellable_quantity"  BY <1>1, <1>3, <1>7 DEF OrderFails
<1>8. CASE r.id = "order_participation_limit"
  <2>1. v = 0 \/ n * 100 > t * v  BY <1>1, <1>3, <1>8 DEF OrderFails
  <2>2. v = 0 \/ s * 100 > t * v
    <3>1. t * v \in Int  OBVIOUS
    <3> QED  BY <1>3, <2>1, <3>1
  <2> QED  BY <1>1, <1>8, <2>2 DEF OrderFails
<1>9. CASE r.id = "order_notional_limit"
  <2>1. n * p > t  BY <1>1, <1>3, <1>9 DEF OrderFails
  <2>2. s * p > t
    <3>1. n * p \in Int /\ s * p \in Int  OBVIOUS
    <3> QED  BY <1>2, <2>1, <3>1
  <2> QED  BY <1>1, <1>9, <2>2 DEF OrderFails
<1> QED  BY <1>4, <1>5, <1>6, <1>7, <1>8, <1>9 DEF OrderActions

\* Rounding shares down to lots leaves no more of them.
LEMMA FlooredIs ==
  ASSUME NEW n \in Nat
  PROVE  \E f \in Nat : f = Floored(n) /\ f <= n
<1>1. Lot \in Nat \ {0}  BY RiskAssumption
<1>2. PICK q \in Int : q = n \div Lot /\ Lot * q <= n /\ n <= Lot * q + (Lot - 1)  BY <1>1, DivIsFloor
<1>3. q >= 0
  <2> SUFFICES ASSUME q + 1 <= 0 PROVE FALSE  BY <1>2
  <2>1. Lot * (q + 1) <= Lot * 0  BY <1>1, TimesKeepsOrder
  <2>2. Lot * (q + 1) = Lot * q + Lot /\ Lot * 0 = 0 /\ Lot * q \in Int  BY <1>1
  <2> QED  BY <1>1, <1>2, <2>1, <2>2
<1>4. Lot * q = q * Lot /\ Lot * q \in Nat  BY <1>1, <1>3
<1> QED  BY <1>2, <1>4 DEF Floored

\* A sell is cut to what may be sold, and nothing is added.
LEMMA SellableIs ==
  ASSUME NEW o \in Orders, NEW c \in Contexts, NEW n \in Nat
  PROVE  \E k \in Nat : k = Sellable(o, c, n) /\ k <= n
<1>1. CASE o.side = "sell"
  <2> DEFINE S == {n, c.sellable, o.shares}
  <2>1. S \subseteq Nat /\ S # {} /\ n \in S  BY CandidateIs
  <2>2. Sellable(o, c, n) = Min(S)  BY <1>1 DEF Sellable
  <2> HIDE DEF S
  <2>3. Min(S) \in S /\ \A y \in S : Min(S) <= y  BY <2>1, MinIsLeast
  <2> QED  BY <2>1, <2>2, <2>3
<1>2. CASE o.side # "sell"  BY <1>2 DEF Sellable
<1> QED  BY <1>1, <1>2

\* What a rule leaves of an order no longer fails it, and neither does any lot of it.
LEMMA AllowedPasses ==
  ASSUME NEW o \in Orders, NEW c \in Contexts, NEW r, r.id \in DOMAIN OrderActions,
         OrderActions[r.id] = "resize", r.threshold \in Nat
  PROVE  /\ AllowedShares(r, o, c) \in Nat
         /\ \A n \in Nat \ {0} : n <= AllowedShares(r, o, c) => ~ OrderFails(r, Fewer(o, n), c)
<1>1. PICK s \in Nat, p \in Nat \ {0}, q \in Nat, v \in Nat, t \in Nat, h \in Nat :
        /\ s = o.shares /\ p = c.price /\ q = Slipped(c) /\ v = c.volume /\ t = r.threshold
        /\ h = c.sellable /\ p <= q
  BY CandidateIs
<1>2. ASSUME NEW n
      PROVE  Fewer(o, n).side = o.side /\ Fewer(o, n).shares = n
  BY FewerIs
<1>3. CASE r.id = "order_t1_sellable_quantity"
  <2> DEFINE S == {s, h}
  <2>1. S \subseteq Nat /\ S # {} /\ h \in S  OBVIOUS
  <2>2. AllowedShares(r, o, c) = Min(S)  BY <1>1, <1>3 DEF AllowedShares
  <2> HIDE DEF S
  <2>3. Min(S) \in Nat /\ Min(S) <= h  BY <2>1, MinIsLeast
  <2>4. ASSUME NEW n \in Nat \ {0}, n <= Min(S) PROVE ~ (n > h)  BY <2>3, <2>4
  <2> QED  BY <1>1, <1>2, <1>3, <2>2, <2>3, <2>4 DEF OrderFails
<1>4. CASE r.id = "order_participation_limit"
  <2>1. v * t \in Nat  BY <1>1
  <2>2. PICK d \in Int : d = (v * t) \div 100 /\ 100 * d <= v * t /\ v * t <= 100 * d + 99
    BY <2>1, DivIsFloor
  <2>3. d \in Nat  BY <2>1, <2>2
  <2>4. PICK f \in Nat : f = Floored(d) /\ f <= d  BY <2>3, FlooredIs
  <2>5. PICK k \in Nat : k = Sellable(o, c, f) /\ k <= f  BY <2>4, SellableIs
  <2>6. AllowedShares(r, o, c) = k  BY <1>1, <1>4, <2>2, <2>4, <2>5 DEF AllowedShares
  <2>7. ASSUME NEW n \in Nat \ {0}, n <= k PROVE v # 0 /\ ~ (n * 100 > t * v)
    <3>1. n * 100 <= v * t  BY <2>1, <2>2, <2>4, <2>5, <2>7
    <3>2. v = 0 => v * t = 0  OBVIOUS
    <3>3. v * t = t * v  OBVIOUS
    <3>4. v # 0  BY <3>1, <3>2
    <3> QED  BY <2>1, <3>1, <3>3, <3>4
  <2> QED  BY <1>1, <1>2, <1>4, <2>6, <2>7 DEF OrderFails
<1>5. CASE r.id = "order_notional_limit"
  <2>1. q \in Nat \ {0}  BY <1>1
  <2>2. PICK d \in Int : d = t \div q /\ q * d <= t /\ t <= q * d + (q - 1)
    BY <1>1, <2>1, DivIsFloor
  <2>3. d \in Nat
    <3> SUFFICES ASSUME d + 1 <= 0 PROVE FALSE  BY <2>2
    <3>1. q * (d + 1) <= q * 0  BY <2>1, TimesKeepsOrder
    <3>2. q * (d + 1) = q * d + q /\ q * 0 = 0 /\ q * d \in Int  BY <2>1
    <3> QED  BY <1>1, <2>1, <2>2, <3>1, <3>2
  <2>4. PICK f \in Nat : f = Floored(d) /\ f <= d  BY <2>3, FlooredIs
  <2>5. PICK k \in Nat : k = Sellable(o, c, f) /\ k <= f  BY <2>4, SellableIs
  <2>6. AllowedShares(r, o, c) = k  BY <1>1, <1>5, <2>2, <2>4, <2>5 DEF AllowedShares
  <2>7. ASSUME NEW n \in Nat \ {0}, n <= k PROVE ~ (n * p > t)
    <3>1. q * n <= q * d  BY <2>1, <2>4, <2>5, <2>7, TimesKeepsOrder
    <3>2. n * p <= n * q  BY <1>1, <2>7, TimesKeepsOrder
    <3>3. n * q = q * n /\ q * n \in Int /\ q * d \in Int /\ n * p \in Int  BY <2>1, <2>7
    <3> QED  BY <1>1, <2>2, <3>1, <3>2, <3>3
  <2> QED  BY <1>1, <1>2, <1>5, <2>6, <2>7 DEF OrderFails
<1> QED  BY <1>3, <1>4, <1>5 DEF OrderActions

\* What a policy leaves of an order that it can judge is executable under the policy.
LEMMA RemainderIsAllowed ==
  ASSUME NEW policy \in Policies, NEW o \in Orders, NEW c \in Contexts,
         Evaluable(policy, o, c, 1), Executed(o, OrderDecision(policy, o, c)) > 0
  PROVE  OrderDecision(policy, Fewer(o, Executed(o, OrderDecision(policy, o, c))), c).action
           \in Executable
<1> DEFINE failed == {r \in policy.rules : OrderFails(r, o, c)}
           decision == OrderDecision(policy, o, c)
           n == Executed(o, decision)
           failing == {r \in policy.rules : OrderFails(r, Fewer(o, n), c)}
<1>1. \A r \in policy.rules : /\ r.id \in DOMAIN OrderActions /\ r.action = OrderActions[r.id]
                              /\ r.threshold \in Nat
                              /\ \E i \in DOMAIN Severities : Severities[i] = r.severity
  BY PolicyAssumption DEF Evaluable, Binds, Normative
<1>2. \A r \in policy.rules : r.action \in {"resize", "block_order"}
  BY <1>1 DEF OrderActions
<1>3. decision.action = Action(failed)  BY DEF OrderDecision
<1>4. OrderDecision(policy, Fewer(o, n), c).action = Action(failing)  BY DEF OrderDecision
<1>5. CASE failed = {}
  <2>1. decision.action = "allow"  BY <1>3, <1>5 DEF Action
  <2>2. n = o.shares  BY <2>1 DEF Executed, Executable
  <2>3. Fewer(o, n) = o  BY <2>2, CandidateIs DEF Fewer
  <2> QED  BY <2>1, <2>3 DEF Executable
<1>6. CASE failed # {}
  <2>1. /\ Action(failed) \in {"resize", "block_order"}
        /\ Action(failed) = "resize" => \A r \in failed : r.action = "resize"
    BY <1>1, <1>2, <1>6, ResizeMeansNoBlock
  <2>2. Action(failed) = "resize"
    <3> SUFFICES ASSUME Action(failed) = "block_order" PROVE FALSE  BY <2>1
    <3> HIDE DEF failed
    <3>1. decision.action = "block_order"  BY <1>3
    <3> HIDE DEF decision
    <3>2. n = 0  BY <3>1 DEF Executed, Executable
    <3> QED  BY <3>2 DEF decision
  <2> DEFINE shares == {AllowedShares(r, o, c) : r \in failed}
             all == {o.shares} \cup shares
  <2>3. n = Min(all)
    <3>1. {r \in failed : r.action = "resize"} = failed  BY <2>1, <2>2
    <3>2. decision.allowed = shares
      <4> HIDE DEF shares
      <4> USE DEF OrderDecision
      <4>1. decision.allowed = {AllowedShares(r, o, c) : r \in {x \in failed : x.action = "resize"}}
        BY <2>2
      <4> QED  BY <3>1, <4>1 DEF shares
    <3> HIDE DEF shares, failed
    <3>3. decision.action = "resize"  BY <1>3, <2>2
    <3> HIDE DEF decision
    <3> QED  BY <3>2, <3>3 DEF Executed, Executable
  <2>4. \A r \in failed : OrderActions[r.id] = "resize"  BY <1>1, <2>1, <2>2
  <2>5. all \subseteq Nat /\ all # {} /\ o.shares \in all
    <3>1. \A r \in failed : AllowedShares(r, o, c) \in Nat  BY <1>1, <2>4, AllowedPasses
    <3> HIDE DEF failed
    <3> QED  BY <3>1, CandidateIs
  <2>6. n \in Nat /\ \A y \in all : n <= y
    <3> HIDE DEF all, n
    <3> QED  BY <2>3, <2>5, MinIsLeast
  <2>7. n \in Nat \ {0} /\ n <= o.shares /\ \A r \in failed : n <= AllowedShares(r, o, c)
    <3>1. n > 0  OBVIOUS
    <3> HIDE DEF n, failed
    <3> QED  BY <2>5, <2>6, <3>1
  <2> HIDE DEF n, decision
  <2>8. ASSUME NEW r \in policy.rules PROVE ~ OrderFails(r, Fewer(o, n), c)
    <3>1. CASE OrderFails(r, o, c)
      <4>1. r \in failed  BY <3>1
      <4> HIDE DEF failed
      <4> QED  BY <1>1, <2>4, <2>7, <4>1, AllowedPasses
    <3>2. CASE ~ OrderFails(r, o, c)  BY <1>1, <2>7, <3>2, FailuresGrow
    <3> QED  BY <3>1, <3>2
  <2>9. failing = {}  BY <2>8
  <2> HIDE DEF failing
  <2>10. Action(failing) = "allow"  BY <2>9 DEF Action
  <2> QED  BY <1>4, <2>10 DEF Executable, n, decision
<1> QED  BY <1>5, <1>6

-----------------------------------------------------------------------------
(* The gate: what it executes, it has judged and filed. *)

\* The steps of a call that gates a backtest, and the calls that take them.
Steps == {"order", "verdict", "notice", "execute", "record"}
OrderCalls == [at : Steps, policy : Policies, engine : Engines]

\* What a gate decides of a candidate under some policy, and what it decides under one.
Decisions ==
  {OrderDecision(policy, o, c) : policy \in {p \in Policies : p.scope = "order"}, o \in Orders,
                                 c \in Contexts}
VerdictRow == [order : Orders, context : Contexts, decision : Decisions]
Judgement(policy, verdict) ==
  /\ Evaluable(policy, verdict.order, verdict.context, 1)
  /\ verdict.decision = OrderDecision(policy, verdict.order, verdict.context)

\* A trade is what its verdict leaves of the order, and both documents of the verdict are filed.
TradeSound(t) ==
  /\ t.policy \in Policies /\ t.verdict \in VerdictRow /\ Judgement(t.policy, t.verdict)
  /\ t.verdict \in Stored("decision") \cap Stored("event")
  /\ t.shares = Executed(t.verdict.order, t.verdict.decision)

\* A call that gates a backtest has judged its latest candidate when it files the verdict,
\* and has filed it when it goes on.
CallSound ==
  /\ "at" \in DOMAIN call
  /\ call.at \in Steps => call \in OrderCalls
  /\ call.at \in {"verdict", "notice", "execute"} =>
       gated # <<>> /\ Judgement(call.policy, Verdict)
  /\ call.at \in {"notice", "execute"} => Verdict \in Stored("decision")
  /\ call.at = "execute" => Verdict \in Stored("event")

GateSound ==
  /\ gated \in Seq(VerdictRow)
  /\ CallSound
  /\ \A t \in traded : TradeSound(t)

\* Nothing is taken from a store.
LEMMA StoresGrow ==
  ASSUME [Next]_vars
  PROVE  \A kind : Stored(kind) \subseteq Stored(kind)'
<1>1. evidence \subseteq evidence'
  <2>1. ASSUME NEW at, NEW kind, NEW document, NEW next, Publish(at, kind, document, next)
        PROVE  evidence \subseteq evidence'
    BY <2>1 DEF Publish, File
  <2>2. CASE PublishPolicy \/ PublishDecision \/ PublishEvent \/ PublishRun \/ PublishVerdict
             \/ PublishNotice \/ PublishRecord
    BY <2>1, <2>2 DEF PublishPolicy, PublishDecision, PublishEvent, PublishRun, PublishVerdict,
                      PublishNotice, PublishRecord
  <2>3. CASE Stage \/ StopStage \/ EvaluateTarget \/ StartBacktest \/ EvaluateCandidate
             \/ AbortBacktest \/ ExecuteCandidate \/ EndBacktest \/ StopCall \/ UNCHANGED vars
    BY <2>3 DEF Stage, ReadFacts, PublishTarget, PassStage, RetryStage, StopStage, EvaluateTarget,
                StartBacktest, EvaluateCandidate, AbortBacktest, ExecuteCandidate, EndBacktest,
                StopCall, vars, gateVars
  <2> QED  BY <2>2, <2>3 DEF Next
<1> QED  BY <1>1 DEF Stored

\* A trade stays sound.
LEMMA TradesStay ==
  ASSUME GateSound, [Next]_vars, NEW t \in traded
  PROVE  TradeSound(t)'
<1>1. \A kind : Stored(kind) \subseteq Stored(kind)'  BY StoresGrow
<1>2. TradeSound(t)  BY DEF GateSound
<1> QED  BY <1>1, <1>2 DEF TradeSound

\* A call that is dropped, or that is not about orders, has nothing to show.
LEMMA OtherCalls ==
  ASSUME "at" \in DOMAIN call', ~ (call'.at \in Steps)
  PROVE  CallSound'
BY DEF CallSound, Steps

\* What is published under a new step leaves the rest of the call alone.
LEMMA ToIs ==
  ASSUME "at" \in DOMAIN call, NEW at
  PROVE  /\ "at" \in DOMAIN To(at) /\ To(at).at = at
         /\ call \in OrderCalls /\ at \in Steps => To(at) \in OrderCalls /\ To(at).policy = call.policy
BY DEF To, OrderCalls

\* A publication that the store has already drops the call.
LEMMA PublishIs ==
  ASSUME NEW at, NEW kind, NEW document, NEW next, Publish(at, kind, document, next)
  PROVE  /\ call.at = at
         /\ \/ call' = NoCall
            \/ call' = next /\ document \in Stored(kind)'
<1>1. CASE document \in Stored(kind)  BY <1>1 DEF Publish
<1>2. CASE ~ (document \in Stored(kind))
  <2>1. call' = next /\ evidence' = evidence \cup {[kind |-> kind, of |-> document]}
    BY <1>2 DEF Publish, File
  <2>2. [kind |-> kind, of |-> document] \in evidence'  BY <2>1
  <2>3. document \in Stored(kind)'
    <3>1. \E x \in evidence' : x.kind = kind /\ x.of = document  BY <2>2
    <3> QED  BY <3>1 DEF Stored
  <2> QED  BY <2>1, <2>3 DEF Publish
<1> QED  BY <1>1, <1>2

\* The first state has nothing to show.
LEMMA InitGate == Init => GateSound
<1> SUFFICES ASSUME Init PROVE GateSound  OBVIOUS
<1>1. gated = <<>> /\ traded = {} /\ call = [at |-> "idle"]  BY DEF Init, NoCall
<1> QED  BY <1>1 DEF GateSound, CallSound, Steps

\* The publications keep the gate sound.
LEMMA PublishKeepsGate ==
  ASSUME GateSound, [Next]_vars,
         \/ PublishPolicy \/ PublishDecision \/ PublishEvent \/ PublishRun
         \/ PublishVerdict \/ PublishNotice \/ PublishRecord
  PROVE  GateSound'
<1>1. gated' = gated /\ traded' = traded
  BY DEF PublishPolicy, PublishDecision, PublishEvent, PublishRun, PublishVerdict, PublishNotice,
         PublishRecord
<1>2. \A t \in traded' : TradeSound(t)'  BY <1>1, TradesStay
<1>3. Verdict' = Verdict  BY <1>1 DEF Verdict
<1>4. "at" \in DOMAIN call /\ CallSound  BY DEF GateSound, CallSound
<1>5. ASSUME call' = NoCall PROVE CallSound'
  BY <1>5, OtherCalls DEF NoCall, Steps
<1>6. CASE PublishPolicy \/ PublishDecision \/ PublishEvent \/ PublishRun
  <2>1. \/ call' = NoCall
        \/ call' = To("decision") \/ call' = To("event") \/ call' = To("run")
    BY <1>6, PublishIs DEF PublishPolicy, PublishDecision, PublishEvent, PublishRun
  <2>2. \/ call' = NoCall
        \/ "at" \in DOMAIN call' /\ ~ (call'.at \in Steps)
    BY <1>4, <2>1, ToIs DEF Steps
  <2>3. CallSound'  BY <1>5, <2>2, OtherCalls
  <2> QED  BY <1>1, <1>2, <2>3 DEF GateSound
<1>7. CASE PublishVerdict
  <2>1. /\ call.at = "verdict"
        /\ \/ call' = NoCall
           \/ call' = To("notice") /\ Verdict \in Stored("decision")'
    BY <1>7, PublishIs DEF PublishVerdict
  <2>2. ASSUME call' = To("notice"), Verdict \in Stored("decision")'
        PROVE  CallSound'
    <3>1. call \in OrderCalls /\ gated # <<>> /\ Judgement(call.policy, Verdict)
      BY <1>4, <2>1 DEF CallSound, Steps
    <3>2. /\ "at" \in DOMAIN call' /\ call'.at = "notice" /\ call' \in OrderCalls
          /\ call'.policy = call.policy
      BY <1>4, <2>2, <3>1, ToIs DEF Steps
    <3>3. gated' # <<>> /\ Judgement(call'.policy, Verdict')  BY <1>1, <1>3, <3>1, <3>2
    <3> QED  BY <1>3, <2>2, <3>2, <3>3 DEF CallSound
  <2>3. CallSound'  BY <1>5, <2>1, <2>2
  <2> QED  BY <1>1, <1>2, <2>3 DEF GateSound
<1>8. CASE PublishNotice
  <2>1. /\ call.at = "notice"
        /\ \/ call' = NoCall
           \/ call' = To("execute") /\ Verdict \in Stored("event")'
    BY <1>8, PublishIs DEF PublishNotice
  <2>2. ASSUME call' = To("execute"), Verdict \in Stored("event")'
        PROVE  CallSound'
    <3>1. /\ call \in OrderCalls /\ gated # <<>> /\ Judgement(call.policy, Verdict)
          /\ Verdict \in Stored("decision")
      BY <1>4, <2>1 DEF CallSound, Steps
    <3>2. /\ "at" \in DOMAIN call' /\ call'.at = "execute" /\ call' \in OrderCalls
          /\ call'.policy = call.policy
      BY <1>4, <2>2, <3>1, ToIs DEF Steps
    <3>3. Verdict \in Stored("decision")'  BY <3>1, StoresGrow
    <3>4. gated' # <<>> /\ Judgement(call'.policy, Verdict')  BY <1>1, <1>3, <3>1, <3>2
    <3> QED  BY <1>3, <2>2, <3>2, <3>3, <3>4 DEF CallSound
  <2>3. CallSound'  BY <1>5, <2>1, <2>2
  <2> QED  BY <1>1, <1>2, <2>3 DEF GateSound
<1>9. CASE PublishRecord
  <2>1. call' = NoCall  BY <1>9, PublishIs DEF PublishRecord
  <2>2. CallSound'  BY <1>5, <2>1
  <2> QED  BY <1>1, <1>2, <2>2 DEF GateSound
<1> QED  BY <1>6, <1>7, <1>8, <1>9

\* Judging a candidate keeps the gate sound.
LEMMA EvaluateKeepsGate ==
  ASSUME GateSound, [Next]_vars, EvaluateCandidate
  PROVE  GateSound'
<1>1. /\ "at" \in DOMAIN call /\ call.at = "order" /\ call \in OrderCalls
      /\ gated \in Seq(VerdictRow)
  BY DEF EvaluateCandidate, GateSound, CallSound, Steps
<1>2. traded' = traded  BY DEF EvaluateCandidate
<1>3. \A t \in traded' : TradeSound(t)'  BY <1>2, TradesStay
<1>4. PICK o \in Orders, c \in Contexts :
        IF ~ Readable \/ ~ Sound(o, c)
        THEN call' = [at |-> "raised"] /\ UNCHANGED gated
        ELSE /\ gated' = Append(gated, [order |-> o, context |-> c,
                                        decision |-> OrderDecision(call.policy, o, c)])
             /\ call' = To("verdict")
  BY DEF EvaluateCandidate
<1>5. CASE ~ Readable \/ ~ Sound(o, c)
  <2>1. call' = [at |-> "raised"] /\ gated' = gated  BY <1>4, <1>5
  <2>2. CallSound'  BY <2>1, OtherCalls DEF Steps
  <2> QED  BY <1>1, <1>3, <2>1, <2>2 DEF GateSound
<1>6. CASE Readable /\ Sound(o, c)
  <2> DEFINE verdict == [order |-> o, context |-> c, decision |-> OrderDecision(call.policy, o, c)]
  <2>1. gated' = Append(gated, verdict) /\ call' = To("verdict")  BY <1>4, <1>6
  <2>2. Evaluable(call.policy, o, c, 1) /\ call.policy \in Policies
    BY <1>1, <1>6 DEF Sound, OrderCalls
  <2>3. call.policy.scope = "order"  BY <2>2 DEF Evaluable, Binds
  <2>4. OrderDecision(call.policy, o, c) \in Decisions  BY <2>2, <2>3 DEF Decisions
  <2>5. verdict \in VerdictRow  BY <2>4 DEF VerdictRow
  <2>6. Judgement(call.policy, verdict)  BY <2>2 DEF Judgement
  <2> HIDE DEF verdict
  <2>7. gated' \in Seq(VerdictRow) /\ gated' # <<>> /\ gated'[Len(gated')] = verdict
    BY <1>1, <2>1, <2>5
  <2>8. /\ "at" \in DOMAIN call' /\ call'.at = "verdict" /\ call' \in OrderCalls
        /\ call'.policy = call.policy
    BY <1>1, <2>1, ToIs DEF Steps
  <2>9. Judgement(call'.policy, gated'[Len(gated')])  BY <2>6, <2>7, <2>8
  <2>10. CallSound'  BY <2>7, <2>8, <2>9 DEF CallSound, Verdict
  <2> QED  BY <1>3, <2>7, <2>10 DEF GateSound
<1> QED  BY <1>5, <1>6

\* Executing one keeps it sound.
LEMMA ExecuteKeepsGate ==
  ASSUME GateSound, [Next]_vars, ExecuteCandidate
  PROVE  GateSound'
<1> PICK trade : trade = [verdict |-> Verdict, policy |-> call.policy,
                          shares |-> Executed(Verdict.order, Verdict.decision)]
  OBVIOUS
<1>1. /\ "at" \in DOMAIN call /\ call.at = "execute" /\ call \in OrderCalls
      /\ gated \in Seq(VerdictRow) /\ gated # <<>> /\ Judgement(call.policy, Verdict)
      /\ Verdict \in Stored("decision") /\ Verdict \in Stored("event")
  BY DEF ExecuteCandidate, GateSound, CallSound, Steps
<1>2. /\ traded' = traded \cup {trade} /\ call' = To("order") /\ gated' = gated
      /\ evidence' = evidence
  BY DEF ExecuteCandidate
<1>3. Verdict \in VerdictRow
  <2>1. Len(gated) \in 1..Len(gated)  BY <1>1
  <2> QED  BY <1>1, <2>1 DEF Verdict
<1>4. TradeSound(trade)
  <2>1. call.policy \in Policies  BY <1>1 DEF OrderCalls
  <2> QED  BY <1>1, <1>3, <2>1 DEF TradeSound
<1>5. TradeSound(trade)'
  <2>1. \A kind : Stored(kind)' = Stored(kind)  BY <1>2 DEF Stored
  <2> QED  BY <1>4, <2>1 DEF TradeSound
<1>6. /\ "at" \in DOMAIN call' /\ call'.at = "order" /\ call' \in OrderCalls
  BY <1>1, <1>2, ToIs DEF Steps
<1>7. CallSound'  BY <1>6 DEF CallSound
<1>8. ASSUME NEW t \in traded' PROVE TradeSound(t)'
  <2>1. CASE t \in traded  BY <2>1, TradesStay
  <2>2. CASE t = trade  BY <1>5, <2>2
  <2> QED  BY <1>2, <2>1, <2>2
<1> QED  BY <1>1, <1>2, <1>7, <1>8 DEF GateSound

\* The beginning of a call keeps the gate sound.
LEMMA BeginKeepsGate ==
  ASSUME GateSound, [Next]_vars, EvaluateTarget \/ StartBacktest
  PROVE  GateSound'
<1>1. traded' = traded  BY DEF EvaluateTarget, StartBacktest
<1>2. \A t \in traded' : TradeSound(t)'  BY <1>1, TradesStay
<1>3. CASE EvaluateTarget
  <2>1. gated' = gated  BY <1>3 DEF EvaluateTarget
  <2>2. "at" \in DOMAIN call' /\ call'.at = "policy"  BY <1>3 DEF EvaluateTarget
  <2>3. CallSound'  BY <2>2, OtherCalls DEF Steps
  <2> QED  BY <1>2, <2>1, <2>3 DEF GateSound
<1>4. CASE StartBacktest
  <2>1. gated' = <<>>  BY <1>4 DEF StartBacktest
  <2>2. "at" \in DOMAIN call' /\ call'.at = "order" /\ call' \in OrderCalls
    BY <1>4 DEF StartBacktest, OrderCalls, Steps
  <2>3. CallSound'  BY <2>2 DEF CallSound
  <2> QED  BY <1>2, <2>1, <2>3 DEF GateSound
<1> QED  BY <1>3, <1>4

\* The end of a call keeps the gate sound as well.
LEMMA EndKeepsGate ==
  ASSUME GateSound, [Next]_vars, AbortBacktest \/ EndBacktest \/ StopCall
  PROVE  GateSound'
<1>1. traded' = traded /\ gated' = gated  BY DEF AbortBacktest, EndBacktest, StopCall
<1>2. \A t \in traded' : TradeSound(t)'  BY <1>1, TradesStay
<1>3. CASE call' = NoCall
  <2>1. CallSound'  BY <1>3, OtherCalls DEF NoCall, Steps
  <2> QED  BY <1>1, <1>2, <2>1 DEF GateSound
<1>4. CASE EndBacktest /\ call' = To("record")
  <2>1. "at" \in DOMAIN call /\ call \in OrderCalls
    BY <1>4 DEF EndBacktest, GateSound, CallSound, Steps
  <2>2. "at" \in DOMAIN call' /\ call'.at = "record" /\ call' \in OrderCalls
    BY <1>4, <2>1, ToIs DEF Steps
  <2>3. CallSound'  BY <2>2 DEF CallSound
  <2> QED  BY <1>1, <1>2, <2>3 DEF GateSound
<1> QED  BY <1>3, <1>4 DEF AbortBacktest, EndBacktest, StopCall

\* Every step keeps the gate sound.
LEMMA NextGate ==
  ASSUME GateSound, [Next]_vars
  PROVE  GateSound'
<1>1. CASE \/ PublishPolicy \/ PublishDecision \/ PublishEvent \/ PublishRun
           \/ PublishVerdict \/ PublishNotice \/ PublishRecord
  BY <1>1, PublishKeepsGate
<1>2. CASE EvaluateCandidate  BY <1>2, EvaluateKeepsGate
<1>3. CASE ExecuteCandidate  BY <1>3, ExecuteKeepsGate
<1>4. CASE EvaluateTarget \/ StartBacktest  BY <1>4, BeginKeepsGate
<1>5. CASE AbortBacktest \/ EndBacktest \/ StopCall  BY <1>5, EndKeepsGate
<1>6. CASE Stage \/ StopStage \/ UNCHANGED vars
  <2>1. UNCHANGED gateVars
    BY <1>6 DEF Stage, ReadFacts, PublishTarget, PassStage, RetryStage, StopStage, vars, gateVars
  <2>2. call' = call /\ gated' = gated /\ traded' = traded /\ evidence' = evidence
    BY <2>1 DEF gateVars
  <2>3. \A t \in traded' : TradeSound(t)'  BY <2>2, TradesStay
  <2>4. \A kind : Stored(kind)' = Stored(kind)  BY <2>2 DEF Stored
  <2>5. Verdict' = Verdict  BY <2>2 DEF Verdict
  <2>6. CallSound'  BY <2>2, <2>4, <2>5 DEF GateSound, CallSound
  <2> QED  BY <2>2, <2>3, <2>6 DEF GateSound
<1> QED  BY <1>1, <1>2, <1>3, <1>4, <1>5, <1>6 DEF Next

\* The gate is sound in every state that can be reached.
THEOREM GateInvariance == Spec => []GateSound
<1>1. GateSound /\ [Next]_vars => GateSound'  BY NextGate
<1> QED  BY <1>1, InitGate, PTL DEF Spec

\* Every order that is executed has been judged and filed, and what a resize has left of it
\* is executable under the policy that cut it, whatever limits the policy sets.
THEOREM TradesAreAllowed == Spec => []TradedIsAllowed
<1>1. ASSUME GateSound PROVE TradedIsAllowed
  <2> SUFFICES ASSUME NEW t \in traded
               PROVE  /\ t.verdict \in Stored("decision") \cap Stored("event")
                      /\ t.shares > 0 =>
                           OrderDecision(t.policy, Fewer(t.verdict.order, t.shares),
                                         t.verdict.context).action \in Executable
    BY DEF TradedIsAllowed, Fewer
  <2>1. TradeSound(t)  BY <1>1 DEF GateSound
  <2>2. /\ t.policy \in Policies /\ t.verdict.order \in Orders /\ t.verdict.context \in Contexts
        /\ Evaluable(t.policy, t.verdict.order, t.verdict.context, 1)
        /\ t.shares = Executed(t.verdict.order,
                               OrderDecision(t.policy, t.verdict.order, t.verdict.context))
    BY <2>1 DEF TradeSound, Judgement, VerdictRow
  <2>3. t.verdict \in Stored("decision") \cap Stored("event")  BY <2>1 DEF TradeSound
  <2> QED  BY <2>2, <2>3, RemainderIsAllowed
<1> QED  BY <1>1, GateInvariance, PTL
-----------------------------------------------------------------------------
(* Strategy loss control.  LogSound is what IInv says of a log and the   *)
(* state it led to; one observation keeps it, and the actions only move it  *)
(* between the draft and what is held.                                      *)

LogSound(l, s) ==
  /\ l \in Seq(Event) /\ s \in State
  /\ Numbering(l, s) /\ Told(l, s) /\ Spaced(l)

Grown(l, s, o) == l \o Numbered(Classes(s, o), s, o)

\* What the events of one observation are: an opening or a clearing comes first.
LEMMA Shape ==
  ASSUME NEW s, NEW o
  PROVE  /\ Classes(s, o) \in Seq(Class) /\ Len(Classes(s, o)) \in Nat \ {0}
         /\ \A k \in 1..Len(Classes(s, o)) :
              /\ Classes(s, o)[k] \in Opening <=> Enters(s, o) /\ k = 1
              /\ Classes(s, o)[k] = "risk_cleared" <=> Clears(s, o) /\ k = 1
<1>1. CASE Enters(s, o)
  <2>1. ~Clears(s, o)
    BY <1>1 DEF Enters, Clears
  <2>2. CASE Waived(o)
    BY <1>1, <2>1, <2>2 DEF Classes, Class, Opening
  <2>3. CASE ~Waived(o) /\ Expired(o)
    BY <1>1, <2>1, <2>3 DEF Classes, Class, Opening
  <2>4. CASE ~Waived(o) /\ ~Expired(o)
    BY <1>1, <2>1, <2>4 DEF Classes, Class, Opening
  <2> QED BY <2>2, <2>3, <2>4
<1>2. CASE ~Enters(s, o) /\ Clears(s, o)
  BY <1>2 DEF Classes, Class, Opening
<1>3. CASE ~Enters(s, o) /\ ~Clears(s, o)
  BY <1>3 DEF Classes, Class, Opening
<1> QED BY <1>1, <1>2, <1>3

\* The log an observation leaves: the old one, then its own events.
LEMMA Growth ==
  ASSUME NEW l \in Seq(Event), NEW s \in State, NEW o \in Observation, waiver \in Waiver
  PROVE  /\ Grown(l, s, o) \in Seq(Event)
         /\ Len(Grown(l, s, o)) = Len(l) + Len(Classes(s, o))
         /\ \A k \in 1..Len(l) : Grown(l, s, o)[k] = l[k]
         /\ \A k \in (Len(l) + 1)..(Len(l) + Len(Classes(s, o))) :
              /\ Grown(l, s, o)[k].class = Classes(s, o)[k - Len(l)]
              /\ Grown(l, s, o)[k].number = s.sequence + (k - Len(l))
              /\ Grown(l, s, o)[k].day = o.day
<1> DEFINE c == Classes(s, o)
           n == Numbered(c, s, o)
<1>1. c \in Seq(Class) /\ Len(c) \in Nat
  BY Shape
<1>2. o.day \in Nat \ {0}
  BY BoundAssumption DEF Observation, Days
<1>3. n \in Seq(Event) /\ Len(n) = Len(c)
  <2>1. \A k \in 1..Len(c) : n[k] \in Event
    BY <1>1, <1>2 DEF Numbered, Event, State, Waiver
  <2> QED BY <1>1, <2>1 DEF Numbered
<1>4. \A k \in 1..Len(c) : n[k].class = c[k] /\ n[k].number = s.sequence + k /\ n[k].day = o.day
  BY <1>1 DEF Numbered
<1> HIDE DEF c, n
<1>5. /\ l \o n \in Seq(Event) /\ Len(l \o n) = Len(l) + Len(n)
      /\ \A k \in 1..Len(l) : (l \o n)[k] = l[k]
      /\ \A k \in (Len(l) + 1)..(Len(l) + Len(n)) : (l \o n)[k] = n[k - Len(l)]
  BY <1>3
<1>6. \A k \in (Len(l) + 1)..(Len(l) + Len(c)) : k - Len(l) \in 1..Len(c)
  BY <1>1
<1> QED BY <1>3, <1>4, <1>5, <1>6 DEF Grown, c, n

\* The next state and its parts.
LEMMA NextStateParts ==
  ASSUME NEW s \in State, NEW o \in Observation
  PROVE  /\ NextState(s, o) \in State
         /\ NextState(s, o).day = o.day /\ NextState(s, o).metric = o.metric
         /\ NextState(s, o).active = ActiveAfter(s, o)
         /\ NextState(s, o).sequence = s.sequence + Len(Classes(s, o))
         /\ Enters(s, o) => /\ NextState(s, o).lastTrigger = o.day
                            /\ NextState(s, o).cooldownUntil = o.day + CooldownDays
         /\ ~Enters(s, o) => /\ NextState(s, o).lastTrigger = s.lastTrigger
                             /\ NextState(s, o).cooldownUntil = s.cooldownUntil
<1>1. Len(Classes(s, o)) \in Nat
  BY Shape
<1>2. ActiveAfter(s, o) \in BOOLEAN
  BY DEF ActiveAfter, Beyond, Breached, Cooling, State
<1>3. o.day \in Nat /\ o.seen \in Nat /\ o.metric \in Nat /\ o.day + CooldownDays \in Nat
  <2>1. o \in [day : Days, seen : 1..MaxStamp, metric : Metrics]
    BY DEF Observation
  <2>2. o.day \in 1..MaxDay /\ o.seen \in 1..MaxStamp /\ o.metric \in Metrics
    BY <2>1 DEF Days
  <2>3. o.day \in Nat /\ o.seen \in Nat
    BY <2>2, BoundAssumption
  <2>4. o.metric \in Nat
    BY <2>2, BoundAssumption
  <2>5. o.day + CooldownDays \in Nat
    BY <2>3, RuleAssumption
  <2> QED BY <2>3, <2>4, <2>5
<1> QED BY <1>1, <1>2, <1>3 DEF NextState, State

\* One observation keeps a log and its state sound.
LEMMA ObserveSound ==
  ASSUME NEW l, NEW s, NEW o \in Observation, waiver \in Waiver,
         LogSound(l, s), ~Stale(s, o)
  PROVE  LogSound(Grown(l, s, o), NextState(s, o))
<1> DEFINE g == Grown(l, s, o)
           t == NextState(s, o)
           c == Classes(s, o)
<1>1. l \in Seq(Event) /\ s \in State /\ Numbering(l, s) /\ Told(l, s) /\ Spaced(l)
  BY DEF LogSound
<1>2. /\ g \in Seq(Event) /\ Len(g) = Len(l) + Len(c)
      /\ \A k \in 1..Len(l) : g[k] = l[k]
      /\ \A k \in (Len(l) + 1)..Len(g) :
           g[k].class = c[k - Len(l)] /\ g[k].number = s.sequence + (k - Len(l)) /\ g[k].day = o.day
  BY <1>1, Growth
<1>3. /\ Len(c) \in Nat \ {0} /\ Len(l) \in Nat /\ Len(g) \in Nat
  BY <1>1, <1>2, Shape
<1>4. \A k \in (Len(l) + 1)..Len(g) :
        /\ g[k].class \in Opening <=> Enters(s, o) /\ k = Len(l) + 1
        /\ g[k].class = "risk_cleared" <=> Clears(s, o) /\ k = Len(l) + 1
  <2> TAKE k \in (Len(l) + 1)..Len(g)
  <2>1. k - Len(l) \in 1..Len(c) /\ (k - Len(l) = 1 <=> k = Len(l) + 1)
    BY <1>2, <1>3
  <2>2. /\ c[k - Len(l)] \in Opening <=> Enters(s, o) /\ k - Len(l) = 1
        /\ c[k - Len(l)] = "risk_cleared" <=> Clears(s, o) /\ k - Len(l) = 1
    BY <2>1, Shape
  <2>3. g[k].class = c[k - Len(l)]
    BY <1>2
  <2> HIDE DEF c, g
  <2> QED BY <2>1, <2>2, <2>3
<1>5. /\ t \in State /\ t.day = o.day /\ t.active = ActiveAfter(s, o)
      /\ t.sequence = s.sequence + Len(c)
      /\ Enters(s, o) => t.lastTrigger = o.day /\ t.cooldownUntil = o.day + CooldownDays
      /\ ~Enters(s, o) => t.lastTrigger = s.lastTrigger /\ t.cooldownUntil = s.cooldownUntil
  BY <1>1, NextStateParts
<1>6. s.day \in Nat /\ o.day \in Nat \ {0} /\ s.day <= o.day /\ s.lastTrigger \in Nat
  BY <1>1, BoundAssumption DEF Stale, State, Observation, Days
<1> HIDE DEF g, t, c
<1>7. Numbering(g, t)
  <2>1. s.sequence = Len(l) /\ \A k \in 1..Len(l) : l[k].number = k
    BY <1>1 DEF Numbering
  <2>2. t.sequence = Len(g)
    BY <1>2, <1>3, <1>5, <2>1
  <2>3. ASSUME NEW k \in 1..Len(g) PROVE g[k].number = k
    <3>1. CASE k \in 1..Len(l)
      BY <1>2, <2>1, <3>1
    <3>2. CASE k \in (Len(l) + 1)..Len(g)
      BY <1>2, <1>3, <2>1, <3>2
    <3> QED BY <1>3, <3>1, <3>2
  <2> QED BY <2>2, <2>3 DEF Numbering
<1>8. t.active <=> OpenIn(g)
  <2>1. CASE Enters(s, o)
    <3>1. Len(l) + 1 \in 1..Len(g) /\ g[Len(l) + 1].class \in Opening
      BY <1>2, <1>3, <1>4, <2>1
    <3>2. \A j \in (Len(l) + 1)..Len(g) : g[j].class # "risk_cleared"
      BY <1>4, <2>1 DEF Enters, Clears
    <3> QED BY <1>5, <2>1, <3>1, <3>2 DEF OpenIn, Enters
  <2>2. CASE Clears(s, o)
    <3>1. Len(l) + 1 \in 1..Len(g) /\ g[Len(l) + 1].class = "risk_cleared"
      BY <1>2, <1>3, <1>4, <2>2
    <3>2. \A k \in 1..Len(g) : g[k].class \in Opening => k <= Len(l)
      BY <1>2, <1>3, <1>4, <2>2 DEF Enters, Clears
    <3>3. \A k \in 1..Len(g) : k <= Len(l) => Len(l) + 1 \in k..Len(g)
      BY <1>3, <3>1
    <3>4. ~OpenIn(g)
      BY <3>1, <3>2, <3>3 DEF OpenIn
    <3> QED BY <1>5, <2>2, <3>4 DEF Clears
  <2>3. CASE ~Enters(s, o) /\ ~Clears(s, o)
    <3>1. t.active <=> s.active
      BY <1>1, <1>5, <2>3 DEF Enters, Clears, State
    <3>2. \A k \in 1..Len(g) : g[k].class \in Opening \/ g[k].class = "risk_cleared" =>
            k \in 1..Len(l)
      BY <1>2, <1>3, <1>4, <2>3
    <3>3. 1..Len(l) \subseteq 1..Len(g)
      BY <1>2, <1>3
    <3>4. OpenIn(l) => OpenIn(g)
      <4> SUFFICES ASSUME OpenIn(l) PROVE OpenIn(g)
        OBVIOUS
      <4>1. PICK k \in 1..Len(l) : /\ l[k].class \in Opening
                                   /\ \A j \in k..Len(l) : l[j].class # "risk_cleared"
        BY DEF OpenIn
      <4>2. ASSUME NEW j \in k..Len(g) PROVE g[j].class # "risk_cleared"
        <5>1. j \in 1..Len(g) /\ k \in 1..Len(l)
          BY <1>3, <4>1
        <5>2. CASE j \in 1..Len(l)
          <6>1. j \in k..Len(l)
            BY <1>3, <5>1, <5>2
          <6> QED BY <1>2, <4>1, <5>2, <6>1
        <5>3. CASE j \notin 1..Len(l)
          BY <3>2, <5>1, <5>3
        <5> QED BY <5>2, <5>3
      <4> QED BY <1>2, <3>3, <4>1, <4>2 DEF OpenIn
    <3>5. OpenIn(g) => OpenIn(l)
      <4> SUFFICES ASSUME OpenIn(g) PROVE OpenIn(l)
        OBVIOUS
      <4>1. PICK k \in 1..Len(g) : /\ g[k].class \in Opening
                                   /\ \A j \in k..Len(g) : g[j].class # "risk_cleared"
        BY DEF OpenIn
      <4>2. k \in 1..Len(l)
        BY <3>2, <4>1
      <4>3. \A j \in k..Len(l) : l[j].class # "risk_cleared"
        <5> TAKE j \in k..Len(l)
        <5>1. j \in 1..Len(l) /\ j \in k..Len(g)
          BY <1>2, <1>3, <4>2
        <5> QED BY <1>2, <4>1, <5>1
      <4> QED BY <1>2, <4>1, <4>2, <4>3 DEF OpenIn
    <3> QED BY <1>1, <3>1, <3>4, <3>5 DEF Told
  <2> QED BY <2>1, <2>2, <2>3 DEF Enters, Clears
<1>9. ASSUME NEW k \in 1..Len(g)
      PROVE  g[k].day <= t.day /\ (g[k].class \in Opening => g[k].day <= t.lastTrigger)
  <2>1. CASE k \in 1..Len(l)
    <3>1. l[k] \in Event
      BY <1>1, <1>3, <2>1
    <3>2. l[k].day <= s.day /\ (l[k].class \in Opening => l[k].day <= s.lastTrigger)
      BY <1>1, <2>1 DEF Told
    <3>3. l[k].day \in Nat /\ g[k] = l[k]
      BY <1>2, <2>1, <3>1 DEF Event
    <3>4. t.day = o.day /\ (t.lastTrigger = o.day \/ t.lastTrigger = s.lastTrigger)
      BY <1>5
    <3> QED BY <1>6, <3>2, <3>3, <3>4
  <2>2. CASE k \in (Len(l) + 1)..Len(g)
    <3>1. g[k].day = o.day /\ t.day = o.day
      BY <1>2, <1>5, <2>2
    <3>2. g[k].class \in Opening => t.lastTrigger = o.day
      BY <1>4, <1>5, <2>2
    <3> QED BY <1>6, <3>1, <3>2
  <2> QED BY <1>3, <2>1, <2>2
<1>10. t.lastTrigger > 0 => t.cooldownUntil = t.lastTrigger + CooldownDays
  BY <1>1, <1>5 DEF Told
<1>11. Told(g, t)
  BY <1>8, <1>9, <1>10 DEF Told
<1>12. ASSUME NEW k \in 1..Len(g), NEW j \in 1..(k - 1),
              g[j].class \in Opening, g[k].class \in Opening
       PROVE  g[k].day > g[j].day + CooldownDays
  <2>1. CASE k \in 1..Len(l)
    <3>1. j \in 1..Len(l) /\ g[j] = l[j] /\ g[k] = l[k]
      BY <1>2, <1>3, <2>1
    <3> QED BY <1>1, <1>12, <2>1, <3>1 DEF Spaced
  <2>2. CASE k \in (Len(l) + 1)..Len(g)
    <3>1. Enters(s, o) /\ k = Len(l) + 1 /\ j \in 1..Len(l)
      BY <1>3, <1>4, <1>12, <2>2
    <3>2. l[j].day \in Nat \ {0} /\ l[j].day <= s.lastTrigger
      <4>1. l[j] \in Event /\ g[j] = l[j]
        BY <1>1, <1>2, <1>3, <3>1
      <4>2. l[j].class \in Opening
        BY <1>12, <4>1
      <4>3. l[j].day <= s.lastTrigger
        BY <1>1, <3>1, <4>2 DEF Told
      <4> QED BY <4>1, <4>3 DEF Event
    <3>3. s.cooldownUntil = s.lastTrigger + CooldownDays
      BY <1>1, <1>6, <3>2 DEF Told
    <3>4. ~(o.day <= s.cooldownUntil)
      BY <3>1 DEF Enters, ActiveAfter, Cooling
    <3>5. g[k].day = o.day /\ g[j].day = l[j].day
      BY <1>2, <2>2, <3>1
    <3>6. s.lastTrigger + CooldownDays < o.day
      BY <1>6, <3>3, <3>4, RuleAssumption
    <3> QED BY <1>6, <3>2, <3>5, <3>6, RuleAssumption
  <2> QED BY <1>3, <2>1, <2>2
<1>13. Spaced(g)
  BY <1>12 DEF Spaced
<1> QED BY <1>2, <1>5, <1>7, <1>11, <1>13 DEF LogSound, g, t

\* IInv in terms of LogSound.
LEMMA Parts ==
  IInv <=> /\ TypeOK /\ LogSound(log, held) /\ LogSound(pending, draft)
           /\ Len(log) <= Len(pending)
           /\ left = 0 => draft = held /\ pending = log
BY DEF IInv, LogSound, TypeOK

LEMMA LossInitSound == LossInit => IInv
<1> SUFFICES ASSUME LossInit PROVE IInv
  OBVIOUS
<1>1. NoState \in State /\ NoWaiver \in Waiver
  BY DEF NoState, State, NoWaiver, Waiver
<1>2. TypeOK
  <2>1. <<>> \in Seq(Event) /\ 0 \in Nat /\ FALSE \in BOOLEAN
    OBVIOUS
  <2> QED BY <1>1, <2>1, Zenon DEF LossInit, TypeOK
<1>3. LogSound(<<>>, NoState)
  BY <1>1 DEF LogSound, Numbering, Told, OpenIn, Spaced, NoState
<1> QED BY <1>2, <1>3, Parts DEF LossInit

LEMMA LossStepSound == IInv /\ [LossNext]_lossVars => IInv'
<1> SUFFICES ASSUME IInv, [LossNext]_lossVars PROVE IInv'
  OBVIOUS
<1>1. /\ TypeOK /\ LogSound(log, held) /\ LogSound(pending, draft)
      /\ Len(log) <= Len(pending) /\ Len(log) \in Nat /\ Len(pending) \in Nat
      /\ left = 0 => draft = held /\ pending = log
  BY Parts DEF TypeOK
<1> SUFFICES /\ TypeOK' /\ LogSound(log', held') /\ LogSound(pending', draft')
             /\ Len(log') <= Len(pending')
             /\ left' = 0 => draft' = held' /\ pending' = log'
  BY DEF IInv, LogSound, TypeOK
<1>2. NoWaiver \in Waiver /\ Waivers \subseteq Waiver
  BY WaiverAssumption DEF NoWaiver, Waiver
<1>3. CASE Call
  <2>1. TypeOK'
    BY <1>1, <1>2, <1>3, BoundAssumption DEF Call, TypeOK
  <2> QED BY <1>1, <1>3, <2>1, BoundAssumption DEF Call
<1>4. ASSUME NEW o \in Observation, Observe(o)
      PROVE  /\ TypeOK' /\ LogSound(log', held') /\ LogSound(pending', draft')
             /\ Len(log') <= Len(pending')
             /\ left' = 0 => draft' = held' /\ pending' = log'
  <2>1. draft' = NextState(draft, o) /\ pending' = Grown(pending, draft, o)
    BY <1>4 DEF Observe, Grown
  <2>2. draft \in State /\ pending \in Seq(Event) /\ waiver \in Waiver /\ left \in Nat
    BY <1>1 DEF TypeOK
  <2>3. LogSound(pending', draft')
    BY <1>1, <1>4, <2>1, <2>2, ObserveSound DEF Observe, Refused
  <2>4. Len(pending') \in Nat /\ Len(pending) <= Len(pending')
    BY <1>1, <2>1, <2>2, Growth, Shape
  <2>5. draft' \in State /\ pending' \in Seq(Event)
    BY <2>3 DEF LogSound
  <2>6. left' \in Nat /\ (left' = 0 <=> left = 1) /\ action' \in {"none", "allow", "enforce"}
    BY <1>4, <2>2 DEF Observe, Asks
  <2>7. CASE left = 1
    <3>1. held' = draft' /\ log' = pending' /\ waiver' = NoWaiver /\ enforceable' = FALSE
      BY <1>4, <2>7 DEF Observe, Forget
    <3>2. TypeOK'
      BY <1>2, <2>5, <2>6, <3>1, Zenon DEF TypeOK
    <3>3. LogSound(log', held')
      BY <2>3, <3>1, Zenon
    <3> QED BY <2>3, <2>4, <3>1, <3>2, <3>3
  <2>8. CASE left # 1
    BY <1>1, <1>4, <2>3, <2>4, <2>5, <2>6, <2>8 DEF Observe, TypeOK
  <2> QED BY <2>7, <2>8
<1>5. CASE Raise
  <2>1. TypeOK'
    BY <1>1, <1>2, <1>5 DEF Raise, Forget, TypeOK
  <2> QED BY <1>1, <1>5, <2>1 DEF Raise
<1>6. CASE UNCHANGED lossVars
  BY <1>1, <1>6 DEF lossVars, callVars, TypeOK
<1> QED BY <1>3, <1>4, <1>5, <1>6 DEF LossNext

-----------------------------------------------------------------------------
\* The strengthened invariant of loss control: the log of a strategy is numbered
\* without a gap, tells its state, and spaces its episodes (risk/state.py:366-524).
THEOREM LossInvariance == LossSpec => []IInv
<1> QED BY LossInitSound, LossStepSound, PTL DEF LossSpec

\* No two openings within one cooldown of each other (risk/state.py:390-395).
THEOREM Spacing == LossSpec => []EpisodesSpaced
<1>1. IInv => EpisodesSpaced
  BY DEF IInv, EpisodesSpaced
<1> QED BY <1>1, LossInvariance, PTL

\* One observation leaves no breach unguarded, whatever went before it.
LEMMA ObserveGuarded ==
  ASSUME NEW s \in State, NEW o \in Observation,
         \A v \in Metrics : Beyond(v, Threshold) => Beyond(v, Exit)
  PROVE  Guarded(NextState(s, o))
<1>1. o.metric \in Metrics
  BY DEF Observation
<1>2. /\ NextState(s, o).metric = o.metric /\ NextState(s, o).day = o.day
      /\ NextState(s, o).active = ActiveAfter(s, o)
      /\ ~Enters(s, o) => NextState(s, o).cooldownUntil = s.cooldownUntil
  BY NextStateParts
<1> SUFFICES ASSUME Beyond(o.metric, Threshold), ~ActiveAfter(s, o)
             PROVE  o.day <= s.cooldownUntil /\ ~Enters(s, o)
  BY <1>2 DEF Guarded
<1>3. ~s.active
  BY <1>1 DEF ActiveAfter
<1> QED BY <1>3 DEF ActiveAfter, Breached, Cooling, Enters

GuardInv == IInv /\ NoUnguardedBreach
            /\ ((\A v \in Metrics : Beyond(v, Threshold) => Beyond(v, Exit)) => Guarded(draft))

\* With a sane exit threshold only the cooldown of the last episode excuses a
\* breach that no open episode answers (risk/state.py:384-395).
THEOREM BreachGuarded == LossSpec => []NoUnguardedBreach
<1>1. LossInit => GuardInv
  BY LossInitSound DEF LossInit, GuardInv, NoUnguardedBreach, Guarded, NoState
<1>2. GuardInv /\ [LossNext]_lossVars => GuardInv'
  <2> SUFFICES ASSUME GuardInv, [LossNext]_lossVars PROVE GuardInv'
    OBVIOUS
  <2>1. IInv /\ IInv'
    BY LossStepSound DEF GuardInv
  <2> SUFFICES ASSUME \A v \in Metrics : Beyond(v, Threshold) => Beyond(v, Exit)
               PROVE  Guarded(held') /\ Guarded(draft')
    BY <2>1 DEF GuardInv, NoUnguardedBreach, Guarded, Beyond
  <2>2. Guarded(held) /\ Guarded(draft)
    BY DEF GuardInv, NoUnguardedBreach
  <2>3. CASE Call
    BY <2>2, <2>3 DEF Call
  <2>4. ASSUME NEW o \in Observation, Observe(o)
        PROVE  Guarded(held') /\ Guarded(draft')
    <3>1. draft \in State
      BY <2>1 DEF IInv, TypeOK
    <3>2. Guarded(NextState(draft, o))
      BY <3>1, ObserveGuarded
    <3> QED BY <2>2, <2>4, <3>2 DEF Observe
  <2>5. CASE Raise
    BY <2>2, <2>5 DEF Raise
  <2>6. CASE UNCHANGED lossVars
    BY <2>2, <2>6 DEF lossVars, callVars
  <2> QED BY <2>3, <2>4, <2>5, <2>6 DEF LossNext
<1>3. GuardInv => NoUnguardedBreach
  BY DEF GuardInv
<1> QED BY <1>1, <1>2, <1>3, PTL DEF LossSpec

\* An episode is closed by a recovery only (risk/state.py:384-389).
THEOREM OnlyRecoveryClears == LossSpec => ClearedByRecovery
<1>1. ASSUME IInv, [LossNext]_lossVars, Len(pending') > Len(pending), draft.active, ~draft'.active
      PROVE  ~Beyond(draft'.metric, Exit)
  <2>1. /\ Len(log) \in Nat /\ Len(pending) \in Nat /\ Len(log) <= Len(pending)
    BY <1>1 DEF IInv, TypeOK
  <2>2. ASSUME NEW o \in Observation, Observe(o) PROVE ~Beyond(draft'.metric, Exit)
    <3>1. draft \in State
      BY <1>1 DEF IInv, TypeOK
    <3>2. draft'.metric = o.metric /\ draft'.active = ActiveAfter(draft, o)
      BY <2>2, <3>1, NextStateParts DEF Observe
    <3> QED BY <1>1, <3>2 DEF ActiveAfter
  <2>3. ~Call /\ ~Raise /\ ~UNCHANGED lossVars
    BY <1>1, <2>1 DEF Call, Raise, lossVars, callVars
  <2> QED BY <1>1, <2>2, <2>3 DEF LossNext
<1>2. IInv /\ [LossNext]_lossVars =>
        [Len(pending') > Len(pending) /\ draft.active /\ ~draft'.active
           => ~Beyond(draft'.metric, Exit)]_lossVars
  BY <1>1
<1> QED BY <1>2, LossInvariance, PTL DEF LossSpec, ClearedByRecovery
=============================================================================
