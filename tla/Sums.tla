-------------------------------- MODULE Sums ---------------------------------
(***************************************************************************)
(* Facts that the theorems about the components share: induction over the  *)
(* natural numbers in a form that speaks of a set, which every prover can  *)
(* instantiate, and sums over finite sets as MapThenSumSet forms them.     *)
(***************************************************************************)
EXTENDS Integers, FiniteSetsExt, FiniteSetTheorems, WellFoundedInduction, TLAPS

-----------------------------------------------------------------------------
(* Induction                                                               *)

\* A set of natural numbers that is not empty has a least element.
LEMMA LeastNat ==
  ASSUME NEW S \in SUBSET Nat, S # {}
  PROVE  \E n \in S : \A m \in S : n <= m
<1> DEFINE R == {p \in Nat \X Nat : p[1] < p[2]}
<1>1. IsWellFoundedOn(R, Nat)
  <2>1. R = OpToRel(<, Nat)
    BY DEF OpToRel
  <2> QED
    BY <2>1, NatLessThanWellFounded
<1> HIDE DEF R
<1>2. PICK x \in S : \A y \in S : ~(<<y, x>> \in R)
  BY <1>1, WFMin
<1>3. \A y \in S : ~(y < x)
  BY <1>2 DEF R
<1> QED
  BY <1>3

\* A set that has 0, and with a natural number the next, has all of them.
LEMMA SetInduction ==
  ASSUME NEW S, 0 \in S, \A n \in Nat : n \in S => n + 1 \in S
  PROVE  Nat \subseteq S
<1> DEFINE T == Nat \ S
<1> SUFFICES ASSUME T # {} PROVE FALSE
  OBVIOUS
<1>1. PICK n \in T : \A m \in T : n <= m
  BY LeastNat
<1>2. n # 0 /\ n - 1 \in Nat /\ n - 1 \notin T
  BY <1>1
<1>3. n - 1 + 1 \in S
  BY <1>2
<1> QED
  BY <1>1, <1>3

\* The set of the subsets of K that a set S lacks has no smallest one.
LEMMA SubsetInduction ==
  ASSUME NEW K, IsFiniteSet(K), NEW S, {} \in S,
         \A s \in SUBSET K : s # {} /\ (\A x \in s : s \ {x} \in S) => s \in S
  PROVE  SUBSET K \subseteq S
<1>f. ASSUME NEW s \in SUBSET K
      PROVE  IsFiniteSet(s) /\ Cardinality(s) \in Nat /\ (Cardinality(s) = 0 => s = {})
  <2>1. IsFiniteSet(s)
    BY FS_Subset
  <2> QED
    BY <2>1, FS_CardinalityType, FS_EmptySet
<1> DEFINE N == {n \in Nat : \A s \in SUBSET K : Cardinality(s) = n => s \in S}
<1>0. 0 \in N
  BY <1>f
<1>1. ASSUME NEW n \in Nat, n \in N
      PROVE  n + 1 \in N
  <2> SUFFICES ASSUME NEW s \in SUBSET K, Cardinality(s) = n + 1
               PROVE  s \in S
    OBVIOUS
  <2>1. s # {}
    BY FS_EmptySet
  <2>2. ASSUME NEW x \in s
        PROVE  s \ {x} \in S
    <3>1. Cardinality(s \ {x}) = Cardinality(s) - 1
      BY <1>f, FS_RemoveElement
    <3>2. s \ {x} \in SUBSET K /\ Cardinality(s \ {x}) = n
      BY <3>1
    <3> QED
      BY <1>1, <3>2
  <2> QED
    BY <2>1, <2>2
<1>2. Nat \subseteq N
  <2> HIDE DEF N
  <2> QED
    BY <1>0, <1>1, SetInduction
<1> QED
  BY <1>f, <1>2

-----------------------------------------------------------------------------
(* Sums                                                                     *)

\* The sum of the values of f over K.
SumOf(f, K) == MapThenSumSet(LAMBDA k : f[k], K)

\* The element that a fold takes next.
Elem(s) == CHOOSE x \in s : TRUE

\* sums holds, for every subset of K, the sum of f over it.
IsSums(sums, f, K) ==
    sums = [s \in SUBSET K |-> IF s = {} THEN 0 ELSE f[Elem(s)] + sums[s \ {Elem(s)}]]

\* The chosen element is an element.
LEMMA ElemIn == ASSUME NEW s, s # {} PROVE Elem(s) \in s
  BY DEF Elem

\* There are such sums: those of the subsets of n elements give those of the
\* subsets of n + 1.
LEMMA SumsExist ==
  ASSUME NEW f, NEW K, IsFiniteSet(K)
  PROVE  \E sums : IsSums(sums, f, K)
<1> DEFINE Upto(n) == {s \in SUBSET K : Cardinality(s) <= n}
           Rec(g, s) == IF s = {} THEN 0 ELSE f[Elem(s)] + g[s \ {Elem(s)}]
           Good == {n \in Nat : \E g : g = [s \in Upto(n) |-> Rec(g, s)]}
<1>f. ASSUME NEW s \in SUBSET K
      PROVE  /\ IsFiniteSet(s) /\ Cardinality(s) \in Nat /\ (Cardinality(s) = 0 => s = {})
             /\ Cardinality(s) <= Cardinality(K)
  <2>1. IsFiniteSet(s) /\ Cardinality(s) <= Cardinality(K)
    BY FS_Subset
  <2> QED
    BY <2>1, FS_CardinalityType, FS_EmptySet
<1>0. 0 \in Good
  <2> DEFINE g == [s \in Upto(0) |-> 0]
  <2>1. \A s \in Upto(0) : s = {}
    BY <1>f
  <2>2. g = [s \in Upto(0) |-> Rec(g, s)]
    BY <2>1
  <2> QED
    BY <2>2
<1>1. ASSUME NEW n \in Nat, n \in Good
      PROVE  n + 1 \in Good
  <2>1. PICK g : g = [s \in Upto(n) |-> Rec(g, s)]
    BY <1>1
  <2> DEFINE h == [s \in Upto(n + 1) |-> Rec(g, s)]
  <2>2. ASSUME NEW s \in Upto(n + 1), s # {}
        PROVE  s \ {Elem(s)} \in Upto(n)
    <3>1. Elem(s) \in s
      BY <2>2, ElemIn
    <3>2. Cardinality(s \ {Elem(s)}) = Cardinality(s) - 1
      BY <1>f, <3>1, FS_RemoveElement
    <3> QED
      BY <1>f, <3>2
  <2>3. ASSUME NEW s \in Upto(n)
        PROVE  h[s] = g[s]
    <3>1. s \in Upto(n + 1)
      BY <1>f
    <3> HIDE DEF Rec, Upto
    <3> QED
      BY <2>1, <3>1
  <2>4. \A s \in Upto(n + 1) : Rec(g, s) = Rec(h, s)
    <3> HIDE DEF h, Upto
    <3> QED
      BY <2>2, <2>3
  <2>5. \E h0 : h0 = [s \in Upto(n + 1) |-> Rec(h0, s)]
    <3>1. h = [s \in Upto(n + 1) |-> Rec(h, s)]
      <4> HIDE DEF Rec, Upto
      <4> QED
        BY <2>4
    <3> HIDE DEF h, Rec, Upto
    <3> QED
      BY <3>1
  <2>6. n + 1 \in Nat
    OBVIOUS
  <2> HIDE DEF Rec, Upto
  <2> QED
    BY <2>5, <2>6
<1>2. Nat \subseteq Good
  <2> HIDE DEF Good
  <2> QED
    BY <1>0, <1>1, SetInduction
<1>3. Upto(Cardinality(K)) = SUBSET K /\ Cardinality(K) \in Nat
  BY <1>f, FS_CardinalityType
<1> QED
  BY <1>2, <1>3 DEF IsSums

\* Two such functions agree where both are defined.
LEMMA SumsAgree ==
  ASSUME NEW f, NEW K, IsFiniteSet(K), NEW T \in SUBSET K,
         NEW a, IsSums(a, f, K), NEW b, IsSums(b, f, T)
  PROVE  \A s \in SUBSET T : a[s] = b[s]
<1> DEFINE S == {s \in SUBSET T : a[s] = b[s]}
<1>1. {} \in S
  BY DEF IsSums
<1>2. ASSUME NEW s \in SUBSET T, s # {}, \A x \in s : s \ {x} \in S
      PROVE  s \in S
  <2>1. Elem(s) \in s /\ s \in SUBSET K
    BY <1>2, ElemIn
  <2>2. a[s \ {Elem(s)}] = b[s \ {Elem(s)}]
    BY <1>2, <2>1
  <2>3. /\ a[s] = f[Elem(s)] + a[s \ {Elem(s)}]
        /\ b[s] = f[Elem(s)] + b[s \ {Elem(s)}]
    BY <1>2, <2>1 DEF IsSums
  <2> QED
    BY <2>2, <2>3
<1>3. SUBSET T \subseteq S
  <2>1. IsFiniteSet(T)
    BY FS_Subset
  <2> HIDE DEF S
  <2> QED
    BY <1>1, <1>2, <2>1, SubsetInduction
<1> QED
  BY <1>3

\* What MapThenSumSet gives is the sum over the whole set.
LEMMA SumOfIsSum ==
  ASSUME NEW f, NEW K, IsFiniteSet(K), NEW T \in SUBSET K, NEW a, IsSums(a, f, K)
  PROVE  SumOf(f, T) = a[T]
<1>1. IsFiniteSet(T)
  BY FS_Subset
<1>2. PICK b : IsSums(b, f, T)
  BY <1>1, SumsExist
<1>3. b = [s \in SUBSET T |-> IF s = {} THEN 0 ELSE f[Elem(s)] + b[s \ {Elem(s)}]]
  BY <1>2 DEF IsSums
<1>4. \E b0 : /\ b0 = [s \in SUBSET T |-> IF s = {} THEN 0 ELSE f[Elem(s)] + b0[s \ {Elem(s)}]]
              /\ SumOf(f, T) = b0[T]
  BY <1>3 DEF Elem, SumOf, MapThenSumSet, MapThenFoldSet
<1>5. PICK b0 : IsSums(b0, f, T) /\ SumOf(f, T) = b0[T]
  BY <1>4 DEF IsSums
<1>6. a[T] = b0[T]
  BY <1>5, SumsAgree
<1> QED
  BY <1>5, <1>6

\* The empty sum.
LEMMA SumEmpty == ASSUME NEW f PROVE SumOf(f, {}) = 0
<1>1. IsFiniteSet({}) /\ {} \in SUBSET {}
  BY FS_EmptySet
<1>2. PICK a : IsSums(a, f, {})
  BY <1>1, SumsExist
<1>3. SumOf(f, {}) = a[{}]
  BY <1>1, <1>2, SumOfIsSum
<1>4. a[{}] = 0
  BY <1>1, <1>2 DEF IsSums
<1> QED
  BY <1>3, <1>4

\* A sum is that of the chosen element and of the rest.
LEMMA SumOfElem ==
  ASSUME NEW f, NEW K, IsFiniteSet(K), K # {}
  PROVE  SumOf(f, K) = f[Elem(K)] + SumOf(f, K \ {Elem(K)})
<1>1. PICK a : IsSums(a, f, K)
  BY SumsExist
<1>2. SumOf(f, K) = a[K] /\ SumOf(f, K \ {Elem(K)}) = a[K \ {Elem(K)}]
  BY <1>1, SumOfIsSum
<1> QED
  BY <1>1, <1>2 DEF IsSums

\* Sums of natural numbers are natural numbers.
LEMMA SumNat ==
  ASSUME NEW K, IsFiniteSet(K), NEW f \in [K -> Nat]
  PROVE  \A s \in SUBSET K : SumOf(f, s) \in Nat
<1> DEFINE S == {s \in SUBSET K : SumOf(f, s) \in Nat}
<1>1. {} \in S
  BY SumEmpty
<1>2. ASSUME NEW s \in SUBSET K, s # {}, \A x \in s : s \ {x} \in S
      PROVE  s \in S
  <2>1. Elem(s) \in s /\ IsFiniteSet(s)
    BY <1>2, ElemIn, FS_Subset
  <2>2. SumOf(f, s \ {Elem(s)}) \in Nat /\ f[Elem(s)] \in Nat
    BY <1>2, <2>1
  <2> QED
    BY <1>2, <2>1, <2>2, SumOfElem
<1>3. SUBSET K \subseteq S
  <2> HIDE DEF S
  <2> QED
    BY <1>1, <1>2, SubsetInduction
<1> QED
  BY <1>3

\* The sum does not depend on the order: any element may be taken first.
LEMMA SumRemove ==
  ASSUME NEW K, IsFiniteSet(K), NEW f \in [K -> Nat], NEW x \in K
  PROVE  SumOf(f, K) = f[x] + SumOf(f, K \ {x})
<1> DEFINE S == {s \in SUBSET K : \A y \in s : SumOf(f, s) = f[y] + SumOf(f, s \ {y})}
<1>1. {} \in S
  OBVIOUS
<1>2. ASSUME NEW s \in SUBSET K, s # {}, \A y \in s : s \ {y} \in S
      PROVE  s \in S
  <2> SUFFICES ASSUME NEW y \in s PROVE SumOf(f, s) = f[y] + SumOf(f, s \ {y})
    OBVIOUS
  <2> DEFINE e == Elem(s)
  <2>1. e \in s /\ IsFiniteSet(s)
    BY <1>2, ElemIn, FS_Subset
  <2>2. SumOf(f, s) = f[e] + SumOf(f, s \ {e})
    BY <1>2, <2>1, SumOfElem
  <2> HIDE DEF e
  <2>3. CASE e = y
    BY <2>2, <2>3
  <2>4. CASE e # y
    <3>1. SumOf(f, s \ {e}) = f[y] + SumOf(f, (s \ {e}) \ {y})
      BY <1>2, <2>1, <2>4
    <3>2. SumOf(f, s \ {y}) = f[e] + SumOf(f, (s \ {y}) \ {e})
      BY <1>2, <2>1, <2>4
    <3>3. (s \ {e}) \ {y} = (s \ {y}) \ {e}
      OBVIOUS
    <3>4. /\ SumOf(f, (s \ {e}) \ {y}) \in Nat /\ f[y] \in Nat /\ f[e] \in Nat
      BY <2>1, SumNat
    <3> QED
      BY <2>2, <3>1, <3>2, <3>3, <3>4
  <2> QED
    BY <2>3, <2>4
<1>3. SUBSET K \subseteq S
  <2> HIDE DEF S
  <2> QED
    BY <1>1, <1>2, SubsetInduction
<1> QED
  BY <1>3

\* Sums of the same numbers are the same.
LEMMA SumSame ==
  ASSUME NEW K, IsFiniteSet(K), NEW f, NEW g, \A k \in K : f[k] = g[k]
  PROVE  SumOf(f, K) = SumOf(g, K)
<1> DEFINE S == {s \in SUBSET K : SumOf(f, s) = SumOf(g, s)}
<1>1. {} \in S
  BY SumEmpty
<1>2. ASSUME NEW s \in SUBSET K, s # {}, \A x \in s : s \ {x} \in S
      PROVE  s \in S
  <2>1. Elem(s) \in s /\ IsFiniteSet(s)
    BY <1>2, ElemIn, FS_Subset
  <2>2. SumOf(f, s \ {Elem(s)}) = SumOf(g, s \ {Elem(s)}) /\ f[Elem(s)] = g[Elem(s)]
    BY <1>2, <2>1
  <2> QED
    BY <1>2, <2>1, <2>2, SumOfElem
<1>3. SUBSET K \subseteq S
  <2> HIDE DEF S
  <2> QED
    BY <1>1, <1>2, SubsetInduction
<1> QED
  BY <1>3

\* One value changes: so does the sum.
LEMMA SumChange ==
  ASSUME NEW K, IsFiniteSet(K), NEW f \in [K -> Nat], NEW g \in [K -> Nat], NEW x \in K,
         \A k \in K : k # x => f[k] = g[k]
  PROVE  SumOf(g, K) = SumOf(f, K) - f[x] + g[x]
<1>1. SumOf(f, K) = f[x] + SumOf(f, K \ {x}) /\ SumOf(g, K) = g[x] + SumOf(g, K \ {x})
  BY SumRemove
<1>2. SumOf(f, K \ {x}) = SumOf(g, K \ {x})
  <2>1. IsFiniteSet(K \ {x})
    BY FS_Subset
  <2> QED
    BY <2>1, SumSame
<1>3. SumOf(f, K \ {x}) \in Nat /\ f[x] \in Nat /\ g[x] \in Nat
  BY SumNat
<1> QED
  BY <1>1, <1>2, <1>3

\* Any element of a part of the set may be taken first.
LEMMA SumRemoveIn ==
  ASSUME NEW K, IsFiniteSet(K), NEW f \in [K -> Nat], NEW T \in SUBSET K, NEW x \in T
  PROVE  SumOf(f, T) = f[x] + SumOf(f, T \ {x})
<1>1. PICK g : g = [k \in T |-> f[k]]
  OBVIOUS
<1>2. g \in [T -> Nat] /\ g[x] = f[x] /\ \A k \in T : f[k] = g[k]
  BY <1>1
<1>3. IsFiniteSet(T) /\ IsFiniteSet(T \ {x})
  BY FS_Subset
<1>4. SumOf(f, T) = SumOf(g, T) /\ SumOf(f, T \ {x}) = SumOf(g, T \ {x})
  BY <1>2, <1>3, SumSame
<1>5. SumOf(g, T) = g[x] + SumOf(g, T \ {x})
  BY <1>2, <1>3, SumRemove
<1> QED
  BY <1>2, <1>4, <1>5

\* No element is more than the sum.
LEMMA SumHasElement ==
  ASSUME NEW K, IsFiniteSet(K), NEW f \in [K -> Nat], NEW x \in K
  PROVE  f[x] <= SumOf(f, K)
<1>1. SumOf(f, K) = f[x] + SumOf(f, K \ {x})
  BY SumRemove
<1>2. SumOf(f, K \ {x}) \in Nat /\ f[x] \in Nat
  BY SumNat
<1> QED
  BY <1>1, <1>2

\* The sum of smaller numbers over a part of the set is smaller.
LEMMA SumOfPart ==
  ASSUME NEW K, IsFiniteSet(K), NEW f \in [K -> Nat], NEW g \in [K -> Nat],
         NEW T \in SUBSET K, \A k \in T : f[k] <= g[k]
  PROVE  SumOf(f, T) <= SumOf(g, K)
<1> DEFINE S == {s \in SUBSET K : SumOf(f, s \cap T) <= SumOf(g, s)}
<1>1. {} \in S
  <2>1. {} \cap T = {}
    OBVIOUS
  <2> QED
    BY <2>1, SumEmpty
<1>2. ASSUME NEW s \in SUBSET K, s # {}, \A x \in s : s \ {x} \in S
      PROVE  s \in S
  <2>1. PICK x \in s : TRUE
    BY <1>2
  <2>2. SumOf(g, s) = g[x] + SumOf(g, s \ {x})
    BY SumRemoveIn
  <2>3. SumOf(f, (s \ {x}) \cap T) <= SumOf(g, s \ {x})
    BY <1>2
  <2>4. /\ f[x] \in Nat /\ g[x] \in Nat
        /\ SumOf(g, s \ {x}) \in Nat /\ SumOf(f, (s \ {x}) \cap T) \in Nat
    BY SumNat
  <2>5. SumOf(f, s \cap T) <= SumOf(g, s)
    <3>1. CASE x \in T
      <4>1. (s \cap T) \ {x} = (s \ {x}) \cap T /\ x \in s \cap T /\ s \cap T \in SUBSET K
        BY <3>1
      <4>2. SumOf(f, s \cap T) = f[x] + SumOf(f, (s \cap T) \ {x})
        BY <4>1, SumRemoveIn
      <4>3. f[x] <= g[x]
        BY <3>1
      <4> QED
        BY <2>2, <2>3, <2>4, <4>1, <4>2, <4>3
    <3>2. CASE x \notin T
      <4>1. s \cap T = (s \ {x}) \cap T
        BY <3>2
      <4>2. SumOf(f, s \cap T) = SumOf(f, (s \ {x}) \cap T)
        BY <4>1
      <4> QED
        BY <2>2, <2>3, <2>4, <4>2
    <3> QED
      BY <3>1, <3>2
  <2> QED
    BY <2>5
<1>3. SUBSET K \subseteq S
  <2> HIDE DEF S
  <2> QED
    BY <1>1, <1>2, SubsetInduction
<1>4. K \in S /\ K \cap T = T
  BY <1>3
<1> QED
  BY <1>4

\* The sum of sums, term by term.
LEMMA SumAdd ==
  ASSUME NEW K, IsFiniteSet(K), NEW f \in [K -> Nat], NEW g \in [K -> Nat],
         NEW h, \A k \in K : h[k] = f[k] + g[k]
  PROVE  SumOf(h, K) = SumOf(f, K) + SumOf(g, K)
<1> DEFINE S == {s \in SUBSET K : SumOf(h, s) = SumOf(f, s) + SumOf(g, s)}
<1>1. {} \in S
  BY SumEmpty
<1>2. ASSUME NEW s \in SUBSET K, s # {}, \A x \in s : s \ {x} \in S
      PROVE  s \in S
  <2> DEFINE e == Elem(s)
  <2>1. e \in s /\ IsFiniteSet(s)
    BY <1>2, ElemIn, FS_Subset
  <2>2. /\ SumOf(f, s) = f[e] + SumOf(f, s \ {e})
        /\ SumOf(g, s) = g[e] + SumOf(g, s \ {e})
        /\ SumOf(h, s) = h[e] + SumOf(h, s \ {e})
    BY <1>2, <2>1, SumOfElem
  <2> HIDE DEF e
  <2>3. SumOf(h, s \ {e}) = SumOf(f, s \ {e}) + SumOf(g, s \ {e}) /\ h[e] = f[e] + g[e]
    BY <1>2, <2>1
  <2>4. SumOf(f, s \ {e}) \in Nat /\ SumOf(g, s \ {e}) \in Nat /\ f[e] \in Nat /\ g[e] \in Nat
    BY <2>1, SumNat
  <2> QED
    BY <2>2, <2>3, <2>4
<1>3. SUBSET K \subseteq S
  <2> HIDE DEF S
  <2> QED
    BY <1>1, <1>2, SubsetInduction
<1> QED
  BY <1>3

\* The sum of zeros.
LEMMA SumOfZeros ==
  ASSUME NEW K, IsFiniteSet(K), NEW f \in [K -> Nat], \A k \in K : f[k] = 0
  PROVE  SumOf(f, K) = 0
<1>1. SumOf(f, K) = SumOf(f, K) + SumOf(f, K)
  <2>1. \A k \in K : f[k] = f[k] + f[k]
    OBVIOUS
  <2> QED
    BY <2>1, SumAdd
<1>2. SumOf(f, K) \in Nat
  BY SumNat
<1> QED
  BY <1>1, <1>2

\* The sum over an interval, as a loop forms it.
LEMMA SumInterval ==
  ASSUME NEW n \in Nat, NEW f \in [1 .. n -> Nat]
  PROVE  /\ SumOf(f, 1 .. 0) = 0
         /\ \A i \in 0 .. n : SumOf(f, 1 .. i) \in Nat
         /\ \A i \in 1 .. n : SumOf(f, 1 .. i) = SumOf(f, 1 .. i - 1) + f[i]
<1>1. SumOf(f, 1 .. 0) = 0
  <2>1. 1 .. 0 = {}
    OBVIOUS
  <2> QED
    BY <2>1, SumEmpty
<1>2. IsFiniteSet(1 .. n)
  BY FS_Interval
<1>3. ASSUME NEW i \in 0 .. n
      PROVE  SumOf(f, 1 .. i) \in Nat
  <2>1. 1 .. i \in SUBSET (1 .. n)
    OBVIOUS
  <2> QED
    BY <1>2, <2>1, SumNat
<1>4. ASSUME NEW i \in 1 .. n
      PROVE  SumOf(f, 1 .. i) = SumOf(f, 1 .. i - 1) + f[i]
  <2> DEFINE K == 1 .. i
             L == 1 .. i - 1
             g == [k \in K |-> f[k]]
  <2>1. i \in K /\ K \ {i} = L /\ i \in Int /\ L \subseteq K /\ i - 1 \in 0 .. n
    OBVIOUS
  <2>2. IsFiniteSet(1 .. i) /\ IsFiniteSet(1 .. i - 1)
    BY FS_Interval
  <2>3. g \in [K -> Nat] /\ g[i] = f[i]
    OBVIOUS
  <2>4. \A k \in K : f[k] = g[k]
    OBVIOUS
  <2>5. SumOf(f, L) \in Nat /\ f[i] \in Nat
    BY <1>3, <2>1
  <2> HIDE DEF g, K, L
  <2>6. IsFiniteSet(K) /\ IsFiniteSet(L)
    BY <2>2 DEF K, L
  <2>7. SumOf(f, K) = SumOf(g, K)
    BY <2>4, <2>6, SumSame
  <2>8. SumOf(f, L) = SumOf(g, L)
    BY <2>1, <2>4, <2>6, SumSame
  <2>9. SumOf(g, K) = g[i] + SumOf(g, K \ {i})
    BY <2>1, <2>3, <2>6, SumRemove
  <2>10. SumOf(f, K) = f[i] + SumOf(f, L)
    BY <2>1, <2>3, <2>7, <2>8, <2>9
  <2>11. SumOf(f, K) = SumOf(f, L) + f[i]
    BY <2>5, <2>10
  <2> QED
    BY <2>11 DEF K, L
<1> QED
  BY <1>1, <1>3, <1>4

=============================================================================
