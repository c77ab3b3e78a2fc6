----------------------------- MODULE SumTheorems -----------------------------
(***************************************************************************)
(* Facts about the sums the specifications are built from. The induction   *)
(* theorems of the library take a predicate as a parameter; here induction *)
(* is stated with the set of the values that satisfy it, which any prover  *)
(* can instantiate.                                                        *)
(***************************************************************************)
EXTENDS Sums, FiniteSetTheorems, WellFoundedInduction, TLAPS

----------------------------------------------------------------------------
(* Induction, with a set in the place of the predicate *)

Less == {ss \in Nat \X Nat : ss[1] < ss[2]}

\* A set of naturals that holds 0 and the successor of each member is all of them.
LEMMA Induction ==
  ASSUME NEW P, 0 \in P, \A k \in Nat : k \in P => k + 1 \in P
  PROVE  \A k \in Nat : k \in P
<1> DEFINE Bad == {k \in Nat : k \notin P}
<1> SUFFICES ASSUME Bad # {} PROVE FALSE
  OBVIOUS
<1>1. IsWellFoundedOn(Less, Nat)
  BY NatLessThanWellFounded DEF OpToRel, Less
<1>2. PICK k \in Bad : \A j \in Bad : ~(<<j, k>> \in Less)
  <2>1. Bad \subseteq Nat
    OBVIOUS
  <2> HIDE DEF Bad
  <2> QED
    BY <1>1, <2>1, WFMin
<1>3. k \in Nat /\ k \notin P /\ k # 0
  OBVIOUS
<1>4. k - 1 \in Nat /\ <<k - 1, k>> \in Less
  BY <1>3 DEF Less
<1>5. k - 1 \in P
  BY <1>2, <1>4
<1> QED
  BY <1>3, <1>4, <1>5

\* A set that holds the empty set, and with a set every extension by one element
\* of S, holds the finite set S.
LEMMA SubsetInduction ==
  ASSUME NEW S, IsFiniteSet(S), NEW P, {} \in P,
         \A T \in SUBSET S : \A x \in S : T \in P /\ x \notin T => T \cup {x} \in P
  PROVE  S \in P
<1> DEFINE Q == {k \in Nat : \A T \in SUBSET S : Cardinality(T) = k => T \in P}
<1>1. \A T \in SUBSET S : IsFiniteSet(T) /\ Cardinality(T) \in Nat
  BY FS_Subset, FS_CardinalityType
<1>2. 0 \in Q
  BY <1>1, FS_EmptySet
<1>3. ASSUME NEW k \in Nat, k \in Q PROVE k + 1 \in Q
  <2> SUFFICES ASSUME NEW T \in SUBSET S, Cardinality(T) = k + 1 PROVE T \in P
    OBVIOUS
  <2>1. T # {}
    BY <1>1, FS_EmptySet
  <2>2. PICK x \in T : TRUE
    BY <2>1
  <2> DEFINE U == T \ {x}
  <2>3. Cardinality(U) = k
    <3>1. IsFiniteSet(T) /\ Cardinality(T \ {x}) = Cardinality(T) - 1
      BY <1>1, <2>2, FS_RemoveElement
    <3> QED
      BY <3>1
  <2>4. U \in P
    BY <1>3, <2>3
  <2>5. T = U \cup {x} /\ x \notin U /\ U \in SUBSET S /\ x \in S
    BY <2>2
  <2> HIDE DEF U, Q
  <2> QED
    BY <2>4, <2>5
<1>4. \A k \in Nat : k \in Q
  <2> HIDE DEF Q
  <2> QED
    BY <1>2, <1>3, Induction
<1> QED
  BY <1>1, <1>4

----------------------------------------------------------------------------
(* The recursive function under the sum exists *)

First(s) == CHOOSE x \in s : TRUE
Folds(it, f, S) ==
  it = [s \in SUBSET S |-> IF s = {} THEN 0 ELSE f[First(s)] + it[s \ {First(s)}]]

\* The sum is computed by some function on the subsets that folds f, if there is one.
LEMMA SumUnfolded ==
  ASSUME NEW f, NEW S
  PROVE  SumOf(f, S) = (CHOOSE it : Folds(it, f, S))[S]
  BY DEF SumOf, MapThenSumSet, MapThenFoldSet, Folds, First

FoldsTo(g, f, S, k) ==
  g = [s \in {T \in SUBSET S : Cardinality(T) <= k} |->
         IF s = {} THEN 0 ELSE f[First(s)] + g[s \ {First(s)}]]

\* A finite set has a function that folds f over its subsets.
LEMMA FoldExists ==
  ASSUME NEW f, NEW S, IsFiniteSet(S)
  PROVE  \E it : Folds(it, f, S)
<1> DEFINE Small(k) == {T \in SUBSET S : Cardinality(T) <= k}
           P == {k \in Nat : \E g : FoldsTo(g, f, S, k)}
<1>1. \A T \in SUBSET S : IsFiniteSet(T) /\ Cardinality(T) \in Nat
                          /\ Cardinality(T) <= Cardinality(S)
  BY FS_Subset, FS_CardinalityType
<1>2. \A s \in SUBSET S : s # {} => First(s) \in s
  BY DEF First
<1>3. \A s \in SUBSET S : s # {} => Cardinality(s \ {First(s)}) = Cardinality(s) - 1
  BY <1>1, <1>2, FS_RemoveElement
<1>4. 0 \in P
  <2> DEFINE g == [s \in Small(0) |-> 0]
  <2>1. \A s \in Small(0) : s = {}
    BY <1>1, FS_EmptySet
  <2>2. FoldsTo(g, f, S, 0)
    BY <2>1 DEF FoldsTo
  <2> QED
    BY <2>2
<1>5. ASSUME NEW k \in Nat, k \in P PROVE k + 1 \in P
  <2>1. PICK g : FoldsTo(g, f, S, k)
    BY <1>5
  <2> DEFINE h == [s \in Small(k + 1) |->
                     IF s = {} THEN 0 ELSE f[First(s)] + g[s \ {First(s)}]]
  <2>2. \A s \in Small(k) : s \in Small(k + 1) /\ g[s] = h[s]
    <3>1. \A s \in Small(k) : g[s] = IF s = {} THEN 0 ELSE f[First(s)] + g[s \ {First(s)}]
      BY <2>1 DEF FoldsTo
    <3>2. \A s \in Small(k) : s \in Small(k + 1)
      BY <1>1
    <3> QED
      BY <3>1, <3>2
  <2>3. \A s \in Small(k + 1) : s # {} => s \ {First(s)} \in Small(k)
    BY <1>1, <1>3
  <2>4. \A s \in Small(k + 1) : s # {} => g[s \ {First(s)}] = h[s \ {First(s)}]
    BY <2>2, <2>3
  <2>5. FoldsTo(h, f, S, k + 1)
    BY <2>4 DEF FoldsTo
  <2> QED
    BY <2>5
<1>6. Cardinality(S) \in P
  <2>1. \A k \in Nat : k \in P
    <3> HIDE DEF P
    <3> QED
      BY <1>4, <1>5, Induction
  <2> QED
    BY <2>1, <1>1
<1>7. PICK g : FoldsTo(g, f, S, Cardinality(S))
  BY <1>6
<1>8. Small(Cardinality(S)) = SUBSET S
  BY <1>1
<1>9. Folds(g, f, S)
  BY <1>7, <1>8 DEF Folds, FoldsTo
<1> QED
  BY <1>9

\* Functions that fold f over two finite sets agree where both are defined.
LEMMA FoldUnique ==
  ASSUME NEW f, NEW S, IsFiniteSet(S), NEW T \in SUBSET S,
         NEW it, Folds(it, f, S), NEW jt, Folds(jt, f, T)
  PROVE  \A U \in SUBSET T : it[U] = jt[U]
<1> DEFINE P == {k \in Nat : \A U \in SUBSET T : Cardinality(U) = k => it[U] = jt[U]}
<1>1. \A U \in SUBSET T : U \in SUBSET S /\ IsFiniteSet(U) /\ Cardinality(U) \in Nat
  BY FS_Subset, FS_CardinalityType
<1>2. \A U \in SUBSET T :
        /\ it[U] = IF U = {} THEN 0 ELSE f[First(U)] + it[U \ {First(U)}]
        /\ jt[U] = IF U = {} THEN 0 ELSE f[First(U)] + jt[U \ {First(U)}]
  BY <1>1 DEF Folds
<1>3. 0 \in P
  BY <1>1, <1>2, FS_EmptySet
<1>4. ASSUME NEW k \in Nat, k \in P PROVE k + 1 \in P
  <2> SUFFICES ASSUME NEW U \in SUBSET T, Cardinality(U) = k + 1 PROVE it[U] = jt[U]
    OBVIOUS
  <2>1. U # {}
    BY <1>1, FS_EmptySet
  <2>2. First(U) \in U
    BY <2>1 DEF First
  <2>3. Cardinality(U \ {First(U)}) = k /\ U \ {First(U)} \in SUBSET T
    <3>1. IsFiniteSet(U) /\ Cardinality(U \ {First(U)}) = Cardinality(U) - 1
      BY <1>1, <2>2, FS_RemoveElement
    <3> QED
      BY <3>1
  <2>4. it[U \ {First(U)}] = jt[U \ {First(U)}]
    BY <1>4, <2>3
  <2> QED
    BY <1>2, <2>1, <2>4
<1>5. \A k \in Nat : k \in P
  <2> HIDE DEF P
  <2> QED
    BY <1>3, <1>4, Induction
<1> QED
  BY <1>1, <1>5

----------------------------------------------------------------------------
(* What a sum over a finite set is *)

\* The defining equations of a sum.
LEMMA SumEquations ==
  ASSUME NEW f, NEW S, IsFiniteSet(S)
  PROVE  /\ SumOf(f, {}) = 0
         /\ S # {} => SumOf(f, S) = f[First(S)] + SumOf(f, S \ {First(S)})
<1> DEFINE It(T) == CHOOSE it : Folds(it, f, T)
<1>1. \A T \in SUBSET S : Folds(It(T), f, T)
  <2> TAKE T \in SUBSET S
  <2>1. IsFiniteSet(T)
    BY FS_Subset
  <2> QED
    BY <2>1, FoldExists
<1>2. \A T \in SUBSET S : SumOf(f, T) = It(T)[T]
  BY SumUnfolded
<1> HIDE DEF It
<1>3. \A T \in SUBSET S : It(S)[T] = SumOf(f, T)
  <2> TAKE T \in SUBSET S
  <2>1. Folds(It(S), f, S) /\ Folds(It(T), f, T)
    BY <1>1
  <2>2. PICK it, jt : it = It(S) /\ jt = It(T)
    OBVIOUS
  <2>3. Folds(it, f, S) /\ Folds(jt, f, T)
    BY <2>1, <2>2
  <2>4. \A U \in SUBSET T : it[U] = jt[U]
    BY <2>3, FoldUnique
  <2> QED
    BY <2>2, <2>4, <1>2
<1>4. \A T \in SUBSET S : It(S)[T] = IF T = {} THEN 0 ELSE f[First(T)] + It(S)[T \ {First(T)}]
  BY <1>1 DEF Folds
<1>5. S \ {First(S)} \in SUBSET S /\ {} \in SUBSET S
  OBVIOUS
<1> QED
  BY <1>3, <1>4, <1>5

\* A sum of integers is an integer, and any element can be taken out of it.
LEMMA SumRemove ==
  ASSUME NEW S, IsFiniteSet(S), NEW f, \A x \in S : f[x] \in Int
  PROVE  /\ SumOf(f, S) \in Int
         /\ \A x \in S : SumOf(f, S) = f[x] + SumOf(f, S \ {x})
<1> DEFINE Good(T) == /\ SumOf(f, T) \in Int
                      /\ \A x \in T : SumOf(f, T) = f[x] + SumOf(f, T \ {x})
           P == {k \in Nat : \A T \in SUBSET S : Cardinality(T) <= k => Good(T)}
<1>1. \A T \in SUBSET S : IsFiniteSet(T) /\ Cardinality(T) \in Nat
  BY FS_Subset, FS_CardinalityType
<1>2. 0 \in P
  <2> SUFFICES ASSUME NEW T \in SUBSET S, Cardinality(T) <= 0 PROVE Good(T)
    OBVIOUS
  <2>1. T = {}
    BY <1>1, FS_EmptySet
  <2>2. SumOf(f, {}) = 0
    BY SumEquations
  <2> QED
    BY <2>1, <2>2
<1>3. ASSUME NEW k \in Nat, k \in P PROVE k + 1 \in P
  <2> SUFFICES ASSUME NEW T \in SUBSET S, Cardinality(T) = k + 1 PROVE Good(T)
    BY <1>1, <1>3
  <2> DEFINE c == First(T)
  <2>1. T # {} /\ c \in T /\ c \in S
    <3>1. T # {}
      BY <1>1, FS_EmptySet
    <3> QED
      BY <3>1 DEF First
  <2>2. SumOf(f, T) = f[c] + SumOf(f, T \ {c})
    BY <1>1, <2>1, SumEquations
  <2> HIDE DEF c
  <2>3. \A x \in T : T \ {x} \in SUBSET S /\ Cardinality(T \ {x}) = k
    BY <1>1, FS_RemoveElement
  <2>4. \A x \in T : Good(T \ {x})
    BY <1>3, <2>3
  <2>5. SumOf(f, T) \in Int
    BY <2>1, <2>2, <2>4
  <2>6. ASSUME NEW x \in T, x # c PROVE SumOf(f, T) = f[x] + SumOf(f, T \ {x})
    <3> DEFINE U == (T \ {c}) \ {x}
    <3>1. U = (T \ {x}) \ {c}
      OBVIOUS
    <3>2. SumOf(f, T \ {c}) = f[x] + SumOf(f, U)
      BY <2>1, <2>4, <2>6
    <3>3. SumOf(f, T \ {x}) = f[c] + SumOf(f, U)
      BY <2>1, <2>4, <2>6, <3>1
    <3>4. f[c] \in Int /\ f[x] \in Int
      BY <2>1
    <3>5. SumOf(f, U) \in Int
      <4>1. U \in SUBSET S /\ Cardinality(U) <= k
        <5>1. U \in SUBSET (T \ {c}) /\ IsFiniteSet(T \ {c}) /\ Cardinality(T \ {c}) = k
          BY <1>1, <2>3, <2>1
        <5> HIDE DEF U
        <5>2. Cardinality(U) <= Cardinality(T \ {c})
          BY <5>1, FS_Subset
        <5> QED
          BY <5>1, <5>2
      <4> QED
        BY <4>1, <1>3
    <3> HIDE DEF U
    <3> QED
      BY <2>2, <3>2, <3>3, <3>4, <3>5
  <2> QED
    BY <2>2, <2>5, <2>6
<1>4. \A k \in Nat : k \in P
  <2> HIDE DEF P
  <2> QED
    BY <1>2, <1>3, Induction
<1>5. Cardinality(S) \in P
  BY <1>1, <1>4
<1> QED
  BY <1>1, <1>5

\* The sum over S and one more element adds its value.
LEMMA SumAdd ==
  ASSUME NEW S, IsFiniteSet(S), NEW x, x \notin S,
         NEW f, \A y \in S \cup {x} : f[y] \in Int
  PROVE  SumOf(f, S \cup {x}) = f[x] + SumOf(f, S)
<1>1. IsFiniteSet(S \cup {x})
  BY FS_AddElement
<1>2. (S \cup {x}) \ {x} = S
  OBVIOUS
<1> DEFINE T == S \cup {x}
<1>3. IsFiniteSet(T) /\ x \in T /\ T \ {x} = S /\ \A y \in T : f[y] \in Int
  BY <1>1, <1>2
<1> HIDE DEF T
<1>4. SumOf(f, T) = f[x] + SumOf(f, T \ {x})
  BY <1>3, SumRemove
<1> QED
  BY <1>3, <1>4 DEF T

\* Sums agree if their terms do, and the sum of h is that of f and that of g if
\* every term is.
LEMMA SumLinear ==
  ASSUME NEW S, IsFiniteSet(S), NEW f, NEW g, NEW h,
         \A x \in S : f[x] \in Int /\ g[x] \in Int /\ h[x] = f[x] + g[x]
  PROVE  SumOf(h, S) = SumOf(f, S) + SumOf(g, S)
<1> DEFINE P == {T \in SUBSET S : SumOf(h, T) = SumOf(f, T) + SumOf(g, T)}
<1>0. SumOf(f, {}) = 0 /\ SumOf(g, {}) = 0 /\ SumOf(h, {}) = 0
  BY SumEquations
<1>1. {} \in P
  BY <1>0
<1>2. ASSUME NEW T \in SUBSET S, NEW x \in S, T \in P, x \notin T
      PROVE  T \cup {x} \in P
  <2>1. IsFiniteSet(T)
    BY FS_Subset
  <2>2. SumOf(f, T) \in Int /\ SumOf(g, T) \in Int
    BY <2>1, SumRemove
  <2>3. \A y \in T \cup {x} : f[y] \in Int /\ g[y] \in Int /\ h[y] \in Int
    BY <1>2
  <2>4. SumOf(f, T \cup {x}) = f[x] + SumOf(f, T)
    BY <2>1, <2>3, <1>2, SumAdd
  <2>5. SumOf(g, T \cup {x}) = g[x] + SumOf(g, T)
    BY <2>1, <2>3, <1>2, SumAdd
  <2>6. SumOf(h, T \cup {x}) = h[x] + SumOf(h, T)
    BY <2>1, <2>3, <1>2, SumAdd
  <2>7. SumOf(h, T) = SumOf(f, T) + SumOf(g, T)
    BY <1>2
  <2>8. SumOf(h, T \cup {x}) = SumOf(f, T \cup {x}) + SumOf(g, T \cup {x})
    BY <2>2, <2>4, <2>5, <2>6, <2>7
  <2> QED
    BY <2>8
<1>3. S \in P
  <2> HIDE DEF P
  <2> QED
    BY <1>1, <1>2, SubsetInduction
<1> QED
  BY <1>3

\* Sums over equal terms are equal.
LEMMA SumCongruent ==
  ASSUME NEW S, IsFiniteSet(S), NEW f, NEW g,
         \A x \in S : f[x] \in Int /\ g[x] = f[x]
  PROVE  SumOf(g, S) = SumOf(f, S)
<1> DEFINE z == [x \in S |-> 0]
           P == {T \in SUBSET S : SumOf(z, T) = 0}
<1>0. SumOf(z, {}) = 0
  BY SumEquations
<1>1. {} \in P
  BY <1>0
<1>2. ASSUME NEW T \in SUBSET S, NEW x \in S, T \in P, x \notin T
      PROVE  T \cup {x} \in P
  <2>1. IsFiniteSet(T) /\ \A y \in T \cup {x} : z[y] \in Int
    BY FS_Subset
  <2>2. SumOf(z, T \cup {x}) = z[x] + SumOf(z, T)
    <3> HIDE DEF z
    <3> QED
      BY <2>1, <1>2, SumAdd
  <2> QED
    BY <2>2, <1>2
<1>3. SumOf(z, S) = 0
  <2>1. S \in P
    <3> HIDE DEF P
    <3> QED
      BY <1>1, <1>2, SubsetInduction
  <2> QED
    BY <2>1
<1>4. \A x \in S : f[x] \in Int /\ z[x] \in Int /\ g[x] = f[x] + z[x]
  OBVIOUS
<1>5. SumOf(g, S) = SumOf(f, S) + SumOf(z, S)
  <2> HIDE DEF z
  <2> QED
    BY <1>4, SumLinear
<1>6. SumOf(f, S) \in Int
  BY SumRemove
<1> QED
  BY <1>3, <1>5, <1>6

\* A sum of naturals is a natural number.
LEMMA SumNat ==
  ASSUME NEW S, IsFiniteSet(S), NEW f, \A x \in S : f[x] \in Nat
  PROVE  SumOf(f, S) \in Nat
<1> DEFINE P == {T \in SUBSET S : SumOf(f, T) \in Nat}
<1>0. SumOf(f, {}) = 0
  BY SumEquations
<1>1. {} \in P
  BY <1>0
<1>2. ASSUME NEW T \in SUBSET S, NEW x \in S, T \in P, x \notin T
      PROVE  T \cup {x} \in P
  <2>1. IsFiniteSet(T) /\ \A y \in T \cup {x} : f[y] \in Int
    BY FS_Subset
  <2>2. SumOf(f, T \cup {x}) = f[x] + SumOf(f, T)
    BY <2>1, <1>2, SumAdd
  <2>3. f[x] \in Nat /\ SumOf(f, T) \in Nat
    BY <1>2
  <2> QED
    BY <2>2, <2>3
<1>3. S \in P
  <2> HIDE DEF P
  <2> QED
    BY <1>1, <1>2, SubsetInduction
<1> QED
  BY <1>3

\* A sum of zeros is zero.
LEMMA SumZero ==
  ASSUME NEW S, IsFiniteSet(S), NEW f, \A x \in S : f[x] = 0
  PROVE  SumOf(f, S) = 0
<1>1. SumOf(f, S) = SumOf(f, S) + SumOf(f, S)
  BY SumLinear
<1>2. SumOf(f, S) \in Int
  BY SumRemove
<1>3. PICK s : s = SumOf(f, S)
  OBVIOUS
<1>4. s \in Int /\ s = s + s
  BY <1>1, <1>2, <1>3
<1>5. s = 0
  BY <1>4
<1> QED
  BY <1>3, <1>5

\* More terms, and larger ones, make a larger sum.
LEMMA SumMonotone ==
  ASSUME NEW S, IsFiniteSet(S), NEW T \in SUBSET S, NEW f, NEW g,
         \A x \in S : f[x] \in Int /\ g[x] \in Nat,
         \A x \in T : f[x] <= g[x]
  PROVE  SumOf(f, T) <= SumOf(g, S)
<1> DEFINE h == [x \in S |-> IF x \in T THEN g[x] - f[x] ELSE g[x]]
           k == [x \in S |-> IF x \in T THEN f[x] ELSE 0]
           P == {U \in SUBSET S : SumOf(k, U) = SumOf(f, U \cap T)}
<1>0. SumOf(k, {}) = 0 /\ SumOf(f, {}) = 0 /\ {} \cap T = {}
  BY SumEquations
<1>1. {} \in P
  BY <1>0
<1>2. ASSUME NEW U \in SUBSET S, NEW x \in S, U \in P, x \notin U
      PROVE  U \cup {x} \in P
  <2>1. IsFiniteSet(U) /\ IsFiniteSet(U \cap T)
    BY FS_Subset
  <2>2. \A y \in U \cup {x} : k[y] \in Int /\ f[y] \in Int
    OBVIOUS
  <2>3. SumOf(k, U \cup {x}) = k[x] + SumOf(k, U)
    <3> HIDE DEF k
    <3> QED BY <2>1, <2>2, <1>2, SumAdd
  <2>4. SumOf(f, U \cap T) \in Int
    BY <2>1, SumRemove
  <2>5. CASE x \in T
    <3>1. (U \cup {x}) \cap T = (U \cap T) \cup {x}
      BY <2>5
    <3>2. SumOf(f, (U \cap T) \cup {x}) = f[x] + SumOf(f, U \cap T)
      BY <2>1, <2>2, <1>2, SumAdd
    <3> QED BY <3>1, <3>2, <2>3, <2>5, <1>2
  <2>6. CASE x \notin T
    <3>1. (U \cup {x}) \cap T = U \cap T
      BY <2>6
    <3>2. k[x] = 0 /\ SumOf(k, U) = SumOf(f, U \cap T)
      BY <2>6, <1>2
    <3> HIDE DEF k
    <3>3. SumOf(k, U \cup {x}) = SumOf(f, (U \cup {x}) \cap T)
      BY <3>1, <3>2, <2>3, <2>4
    <3> QED BY <3>3, <1>2
  <2> QED BY <2>5, <2>6
<1>3. S \in P
  <2> HIDE DEF P
  <2> QED BY <1>1, <1>2, SubsetInduction
<1>4. S \cap T = T
  OBVIOUS
<1>5. SumOf(k, S) = SumOf(f, T)
  BY <1>3, <1>4
<1>6. \A x \in S : k[x] \in Int /\ h[x] \in Nat /\ g[x] = k[x] + h[x]
  OBVIOUS
<1>7. SumOf(g, S) = SumOf(k, S) + SumOf(h, S) /\ SumOf(h, S) \in Nat /\ SumOf(k, S) \in Int
  <2> HIDE DEF k, h
  <2>1. SumOf(g, S) = SumOf(k, S) + SumOf(h, S)
    BY <1>6, SumLinear
  <2>2. SumOf(h, S) \in Nat /\ SumOf(k, S) \in Int
    BY <1>6, SumNat, SumRemove
  <2> QED BY <2>1, <2>2
<1> QED BY <1>5, <1>7

\* R orders S, and x comes last in it.
Ordered(R, S) ==
  /\ \A x, y, z \in S : <<x, y>> \in R /\ <<y, z>> \in R => <<x, z>> \in R
  /\ \A x, y \in S : x # y => <<x, y>> \in R \/ <<y, x>> \in R
IsLast(R, S, x) == x \in S /\ \A y \in S : y # x => <<y, x>> \in R

\* A finite set that is linearly ordered has a last element.
LEMMA LastExists ==
  ASSUME NEW S, IsFiniteSet(S), S # {}, NEW R, Ordered(R, S)
  PROVE  \E x : IsLast(R, S, x)
<1> USE DEF Ordered, IsLast
<1> DEFINE P == {T \in SUBSET S : T = {} \/ \E x \in T : \A y \in T : y # x => <<y, x>> \in R}
<1>1. {} \in P
  OBVIOUS
<1>2. ASSUME NEW T \in SUBSET S, NEW x \in S, T \in P, x \notin T
      PROVE  T \cup {x} \in P
  <2>1. CASE T = {}
    BY <2>1
  <2>2. CASE T # {}
    <3>1. PICK z \in T : \A y \in T : y # z => <<y, z>> \in R
      BY <1>2, <2>2
    <3>2. CASE <<x, z>> \in R
      BY <3>1, <3>2
    <3>3. CASE <<z, x>> \in R
      <4>1. \A y \in T : <<y, x>> \in R
        BY <3>1, <3>3
      <4> QED BY <4>1
    <3> QED BY <3>1, <3>2, <3>3, <1>2
  <2> QED BY <2>1, <2>2
<1>3. S \in P
  <2> HIDE DEF P
  <2> QED BY <1>1, <1>2, SubsetInduction
<1> QED BY <1>3

\* g is f without its value at i, the values behind it moved up.
Without(f, g, n, i) ==
  /\ n \in Nat /\ i \in 1..(n + 1)
  /\ \A j \in 1..(n + 1) : f[j] \in Int
  /\ \A j \in 1..n : g[j] = IF j < i THEN f[j] ELSE f[j + 1]

\* Its sum is smaller by that value: by induction on the prefixes.
LEMMA SumWithout ==
  ASSUME NEW f, NEW g, NEW n, NEW i, Without(f, g, n, i)
  PROVE  SumOf(f, 1..(n + 1)) = f[i] + SumOf(g, 1..n)
<1>0. /\ n \in Nat /\ i \in 1..(n + 1)
      /\ \A j \in 1..(n + 1) : f[j] \in Int
      /\ \A j \in 1..n : g[j] = IF j < i THEN f[j] ELSE f[j + 1]
  BY DEF Without
<1> USE <1>0
<1> DEFINE F(k) == SumOf(f, 1..k)
           G(k) == SumOf(g, 1..k)
           P == {k \in Nat : k <= n => G(k) = IF k < i THEN F(k) ELSE F(k + 1) - f[i]}
<1>1. \A k \in Nat : IsFiniteSet(1..k)
  BY FS_Interval
<1>2. \A j \in 1..n : g[j] \in Int
  <2>1. \A j \in 1..n : j \in 1..(n + 1) /\ j + 1 \in 1..(n + 1)
    OBVIOUS
  <2> QED BY <2>1
<1>3. ASSUME NEW k \in Nat, k + 1 <= n + 1 PROVE F(k + 1) = f[k + 1] + F(k) /\ F(k) \in Int
  <2>1. 1..(k + 1) = (1..k) \cup {k + 1} /\ k + 1 \notin 1..k
    OBVIOUS
  <2>2. \A j \in (1..k) \cup {k + 1} : f[j] \in Int
    BY <1>3
  <2>3. SumOf(f, (1..k) \cup {k + 1}) = f[k + 1] + SumOf(f, 1..k) /\ SumOf(f, 1..k) \in Int
    BY <1>1, <2>1, <2>2, SumAdd, SumRemove
  <2> QED BY <2>1, <2>3
<1>4. ASSUME NEW k \in Nat, k + 1 <= n PROVE G(k + 1) = g[k + 1] + G(k)
  <2>1. 1..(k + 1) = (1..k) \cup {k + 1} /\ k + 1 \notin 1..k
    OBVIOUS
  <2>2. \A j \in (1..k) \cup {k + 1} : g[j] \in Int
    BY <1>2, <1>4
  <2>3. SumOf(g, (1..k) \cup {k + 1}) = g[k + 1] + SumOf(g, 1..k)
    BY <1>1, <2>1, <2>2, SumAdd
  <2> QED BY <2>1, <2>3
<1>5. G(0) = 0 /\ F(0) = 0
  <2>1. 1..0 = {}
    OBVIOUS
  <2>2. SumOf(g, {}) = 0 /\ SumOf(f, {}) = 0
    BY FS_EmptySet, SumEquations
  <2> QED BY <2>1, <2>2
<1> HIDE DEF F, G
<1>6. 0 \in P
  BY <1>5
<1>7. ASSUME NEW k \in Nat, k \in P PROVE k + 1 \in P
  <2> SUFFICES ASSUME k + 1 <= n
               PROVE  G(k + 1) = IF k + 1 < i THEN F(k + 1) ELSE F(k + 2) - f[i]
    OBVIOUS
  <2>1. G(k + 1) = g[k + 1] + G(k) /\ F(k + 1) = f[k + 1] + F(k) /\ F(k) \in Int
    BY <1>3, <1>4
  <2>2. F(k + 2) = f[k + 2] + F(k + 1)
    <3>1. F((k + 1) + 1) = f[(k + 1) + 1] + F(k + 1)
      BY <1>3
    <3> QED BY <3>1
  <2>3. g[k + 1] = IF k + 1 < i THEN f[k + 1] ELSE f[k + 2]
    OBVIOUS
  <2>4. f[k + 1] \in Int /\ f[k + 2] \in Int /\ f[i] \in Int
    OBVIOUS
  <2>5. G(k) = IF k < i THEN F(k) ELSE F(k + 1) - f[i]
    BY <1>7
  <2>6. CASE k + 1 < i
    BY <2>6, <2>1, <2>3, <2>5
  <2>7. CASE k + 1 = i
    <3>1. k < i /\ ~(k + 1 < i) /\ f[i] = f[k + 1]
      BY <2>7
    <3> QED BY <3>1, <2>1, <2>2, <2>3, <2>4, <2>5
  <2>8. CASE k + 1 > i
    <3>1. ~(k < i) /\ ~(k + 1 < i)
      BY <2>8
    <3> QED BY <3>1, <2>1, <2>2, <2>3, <2>4, <2>5
  <2> QED BY <2>6, <2>7, <2>8
<1>8. n \in P
  <2> HIDE DEF P
  <2> QED BY <1>6, <1>7, Induction
<1>9. G(n) = F(n + 1) - f[i]
  <2>1. CASE n < i
    <3>1. n + 1 = i /\ G(n) = F(n)
      BY <2>1, <1>8
    <3>2. F(n + 1) = f[n + 1] + F(n) /\ F(n) \in Int /\ f[n + 1] \in Int
      BY <1>3
    <3> QED BY <3>1, <3>2
  <2>2. CASE ~(n < i)
    BY <2>2, <1>8
  <2> QED BY <2>1, <2>2
<1>10. G(n) \in Int
  BY <1>1, <1>2, SumRemove DEF G
<1>11. F(n + 1) = f[i] + G(n)
  <2>1. f[i] \in Int /\ F(n + 1) \in Int
    <3>1. F(n + 1) \in Int
      BY <1>1, SumRemove DEF F
    <3> QED BY <3>1
  <2> QED BY <2>1, <1>9, <1>10
<1> QED BY <1>11 DEF F, G

=============================================================================
