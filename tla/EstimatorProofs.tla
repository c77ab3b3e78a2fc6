---------------------------- MODULE EstimatorProofs ----------------------------
(* Proofs that the rings of the estimators hold what the history says, for any sizes, *)
(* prices, outcomes and times.                                                        *)
EXTENDS MeanWindow, Feedback, SumTheorems

-----------------------------------------------------------------------------
(* Remainders. *)

LEMMA DivMod ==
  ASSUME NEW K \in Nat \ {0}, NEW a \in Int
  PROVE  /\ a % K \in 0..(K - 1) /\ a \div K \in Int
         /\ a = K * (a \div K) + (a % K)
  BY Z3
LEMMA Multiple == ASSUME NEW K \in Nat \ {0}, NEW d \in Int, -K < K * d, K * d < K PROVE d = 0
<1>1. d >= 1 => K * d >= K
  <2> SUFFICES ASSUME d >= 1 PROVE K * d >= K
    OBVIOUS
  <2>1. PICK e \in Nat : d = e + 1
    <3>1. d - 1 \in Nat /\ d = (d - 1) + 1
      OBVIOUS
    <3> QED BY <3>1
  <2>2. K * d = K * e + K /\ K * e \in Nat
    BY <2>1
  <2> QED BY <2>2
<1>2. d <= -1 => K * d <= -K
  <2> SUFFICES ASSUME d <= -1 PROVE K * d <= -K
    OBVIOUS
  <2>1. PICK e \in Nat : d = -e - 1
    <3>1. -d - 1 \in Nat /\ d = -(-d - 1) - 1
      OBVIOUS
    <3> QED BY <3>1
  <2>2. K * d = -(K * e) - K /\ K * e \in Nat
    BY <2>1
  <2> QED BY <2>2
<1>3. K * d \in Int /\ (d = 0 \/ d >= 1 \/ d <= -1)
  OBVIOUS
<1> QED BY <1>1, <1>2, <1>3
LEMMA Remainder ==
  ASSUME NEW K \in Nat \ {0}, NEW q \in Int, NEW r \in 0..(K - 1)
  PROVE  (K * q + r) % K = r
<1> DEFINE a == K * q + r
<1>1. a \in Int
  OBVIOUS
<1>2. PICK p \in Int, s \in 0..(K - 1) : a % K = s /\ a = K * p + s
  BY <1>1, DivMod
<1>3. K * (p - q) = r - s
  <2>1. K * (p - q) = K * p - K * q
    OBVIOUS
  <2> QED BY <2>1, <1>2
<1>4. -K < K * (p - q) /\ K * (p - q) < K
  BY <1>3
<1>5. p - q = 0
  BY <1>4, Multiple
<1>6. p = q
  BY <1>5
<1>7. r = s
  BY <1>2, <1>6
<1> QED BY <1>2, <1>7
LEMMA ModAdd == ASSUME NEW K \in Nat \ {0}, NEW a \in Int PROVE (a + K) % K = a % K
<1>1. PICK q \in Int, r \in 0..(K - 1) : a % K = r /\ a = K * q + r
  BY DivMod
<1>2. a + K = K * (q + 1) + r
  BY <1>1
<1> QED BY <1>1, <1>2, Remainder
LEMMA Apart == ASSUME NEW K \in Nat \ {0}, NEW a \in Int, NEW b \in Int, a < b + K, b < a + K, a % K = b % K PROVE a = b
<1>0. PICK r \in 0..(K - 1) : a % K = r /\ b % K = r
  BY DivMod
<1>1. PICK p \in Int, q \in Int : a = K * p + r /\ b = K * q + r
  BY <1>0, DivMod
<1>2. K * (p - q) = a - b
  BY <1>1
<1>3. p - q = 0
  BY <1>2, Multiple
<1> QED BY <1>1, <1>3
LEMMA ModSmall ==
  ASSUME NEW K \in Nat \ {0}, NEW a \in 0..(K - 1)
  PROVE  a % K = a
  OBVIOUS
\* The next place of a ring.
LEMMA NextPlace ==
  ASSUME NEW K \in Nat \ {0}, NEW j \in 0..(K - 1)
  PROVE  (j + 1) % K = IF j + 1 = K THEN 0 ELSE j + 1
<1>1. CASE j + 1 = K
  <2>1. 0 % K = 0
    BY ModSmall
  <2>2. (0 + K) % K = 0 % K
    BY ModAdd
  <2>3. 0 + K = j + 1
    BY <1>1
  <2> QED BY <1>1, <2>1, <2>2, <2>3
<1>2. CASE j + 1 # K
  <2>1. j + 1 \in 0..(K - 1)
    BY <1>2
  <2> QED BY <1>2, <2>1, ModSmall
<1> QED BY <1>1, <1>2

-----------------------------------------------------------------------------
(* Counts and sums over sets that are paired. *)

\* h takes each member of T from one member of S.
Pairs(h, S, T) ==
  /\ h \in [S -> T]
  /\ \A i, j \in S : h[i] = h[j] => i = j
  /\ \A t \in T : \E s \in S : h[s] = t

LEMMA SameCount ==
  ASSUME NEW S, NEW T, NEW h, IsFiniteSet(S), Pairs(h, S, T)
  PROVE  IsFiniteSet(T) /\ Cardinality(S) = Cardinality(T)
<1>1. h \in Bijection(S, T)
  <2>1. h \in Injection(S, T)
    BY DEF Pairs, Injection, IsInjective
  <2>2. h \in Surjection(S, T)
    BY DEF Pairs, Surjection
  <2> QED BY <2>1, <2>2 DEF Bijection
<1>2. ExistsBijection(S, T)
  BY <1>1 DEF ExistsBijection
<1> QED BY <1>2, FS_Bijection

\* A sum does not depend on what its terms are indexed by.
LEMMA SumReindex ==
  ASSUME NEW S, NEW T, NEW h, IsFiniteSet(S), Pairs(h, S, T),
         NEW f, NEW g, \A i \in S : g[i] = f[h[i]] /\ g[i] \in Int
  PROVE  SumOf(g, S) = SumOf(f, T)
<1> DEFINE Img(U) == {h[i] : i \in U}
           P == {U \in SUBSET S : IsFiniteSet(Img(U)) /\ SumOf(g, U) = SumOf(f, Img(U))}
<1>0. h \in [S -> T] /\ (\A i, j \in S : h[i] = h[j] => i = j) /\ (\A t \in T : \E s \in S : h[s] = t)
  BY DEF Pairs
<1>1. {} \in P
  <2>1. Img({}) = {} /\ IsFiniteSet({})
    BY FS_EmptySet
  <2>2. SumOf(g, {}) = 0
    BY <2>1, SumEquations
  <2>3. SumOf(f, {}) = 0
    BY <2>1, SumEquations
  <2> QED BY <2>1, <2>2, <2>3
<1>2. ASSUME NEW U \in SUBSET S, NEW i \in S, U \in P, i \notin U PROVE U \cup {i} \in P
  <2>1. IsFiniteSet(U)
    BY FS_Subset
  <2>2. Img(U \cup {i}) = Img(U) \cup {h[i]} /\ h[i] \notin Img(U)
    BY <1>0, <1>2
  <2>3. IsFiniteSet(Img(U))
    BY <1>2
  <2>4. \A y \in Img(U) \cup {h[i]} : f[y] \in Int
    <3> SUFFICES ASSUME NEW y \in Img(U) \cup {h[i]} PROVE f[y] \in Int
      OBVIOUS
    <3>1. PICK j \in S : y = h[j]
      OBVIOUS
    <3> QED BY <3>1
  <2>5. \A y \in U \cup {i} : g[y] \in Int
    OBVIOUS
  <2>6. SumOf(g, U) = SumOf(f, Img(U))
    BY <1>2
  <2> HIDE DEF Img, P
  <2>7. SumOf(f, Img(U) \cup {h[i]}) = f[h[i]] + SumOf(f, Img(U))
    BY <2>2, <2>3, <2>4, SumAdd
  <2>8. SumOf(g, U \cup {i}) = g[i] + SumOf(g, U)
    BY <2>1, <2>5, <1>2, SumAdd
  <2>9. SumOf(g, U \cup {i}) = SumOf(f, Img(U \cup {i}))
    BY <2>2, <2>6, <2>7, <2>8
  <2>10. IsFiniteSet(Img(U \cup {i}))
    <3>1. IsFiniteSet(Img(U) \cup {h[i]})
      BY <2>3, FS_AddElement
    <3> QED BY <2>2, <3>1
  <2> QED BY <2>9, <2>10 DEF P
<1>3. S \in P
  <2> HIDE DEF P
  <2> QED BY <1>1, <1>2, SubsetInduction
<1>4. Img(S) = T
  BY <1>0
<1> QED BY <1>3, <1>4

-----------------------------------------------------------------------------
(* Sums over the first places of a sequence. *)

\* A sum over 1..n gains a first term when the others move up by one.
LEMMA SumShift ==
  ASSUME NEW m \in Nat, NEW f, NEW g, \A i \in 1..m : f[i] \in Int,
         g[1] \in Int, \A i \in 1..m : g[i + 1] = f[i]
  PROVE  SumOf(g, 1..(m + 1)) = g[1] + SumOf(f, 1..m)
<1> DEFINE P == {k \in Nat : k <= m => SumOf(g, 1..(k + 1)) = g[1] + SumOf(f, 1..k)}
<1>1. 0 \in P
  <2>1. 1..0 = {} /\ 1..1 = {1} /\ {1} \ {1} = {}
    OBVIOUS
  <2>2a. IsFiniteSet({}) /\ IsFiniteSet({1})
    BY FS_EmptySet, FS_Singleton
  <2>2b. SumOf(f, {}) = 0
    BY <2>2a, SumEquations
  <2>2c. SumOf(g, {}) = 0
    BY <2>2a, SumEquations
  <2>2. SumOf(g, {1}) = g[1] + SumOf(g, {1} \ {1})
    BY <2>2a, SumRemove
  <2>3. SumOf(g, 1..(0 + 1)) = g[1] + SumOf(f, 1..0)
    BY <2>1, <2>2, <2>2b, <2>2c
  <2> QED BY <2>3
<1>2. ASSUME NEW k \in Nat, k \in P PROVE k + 1 \in P
  <2> SUFFICES ASSUME k + 1 <= m
               PROVE  SumOf(g, 1..(k + 1 + 1)) = g[1] + SumOf(f, 1..(k + 1))
    OBVIOUS
  <2>1. SumOf(g, 1..(k + 1)) = g[1] + SumOf(f, 1..k)
    BY <1>2
  <2>2. IsFiniteSet(1..k) /\ IsFiniteSet(1..(k + 1)) /\ k + 1 \notin 1..k /\ k + 1 + 1 \notin 1..(k + 1)
        /\ (1..k) \cup {k + 1} = 1..(k + 1) /\ (1..(k + 1)) \cup {k + 1 + 1} = 1..(k + 1 + 1)
    <3>1. IsFiniteSet(1..k) /\ IsFiniteSet(1..(k + 1))
      BY FS_Interval
    <3>2. k + 1 \notin 1..k /\ k + 1 + 1 \notin 1..(k + 1)
          /\ (1..k) \cup {k + 1} = 1..(k + 1) /\ (1..(k + 1)) \cup {k + 1 + 1} = 1..(k + 1 + 1)
      OBVIOUS
    <3> QED BY <3>1, <3>2
  <2>3. (\A i \in 1..(k + 1) : f[i] \in Int) /\ (\A i \in 1..(k + 1 + 1) : g[i] \in Int)
    <3>1. ASSUME NEW i \in 1..(k + 1 + 1) PROVE g[i] \in Int
      <4>1. CASE i = 1
        BY <4>1
      <4>2. CASE i # 1
        <5>1. i - 1 \in 1..m /\ (i - 1) + 1 = i
          BY <4>2
        <5> QED BY <5>1
      <4> QED BY <4>1, <4>2
    <3> QED BY <3>1
  <2>4. SumOf(f, (1..k) \cup {k + 1}) = f[k + 1] + SumOf(f, 1..k)
    BY <2>2, <2>3, SumAdd
  <2>5. SumOf(g, (1..(k + 1)) \cup {k + 1 + 1}) = g[k + 1 + 1] + SumOf(g, 1..(k + 1))
    BY <2>2, <2>3, SumAdd
  <2>6. SumOf(f, 1..k) \in Int /\ g[k + 1 + 1] = f[k + 1] /\ f[k + 1] \in Int
    BY <2>2, <2>3, SumRemove
  <2>7. PICK s \in Int, x \in Int, y \in Int : s = SumOf(f, 1..k) /\ x = f[k + 1] /\ y = g[1]
    BY <2>6
  <2>8. SumOf(g, 1..(k + 1 + 1)) = x + (y + s) /\ SumOf(f, 1..(k + 1)) = x + s
    BY <2>1, <2>2, <2>4, <2>5, <2>6, <2>7
  <2>9. x + (y + s) = y + (x + s)
    OBVIOUS
  <2> QED BY <2>7, <2>8, <2>9
<1>3. m \in P
  <2> HIDE DEF P
  <2> QED BY <1>1, <1>2, Induction
<1> QED BY <1>3

\* The last term of a sum over 1..n.
LEMMA SumLast ==
  ASSUME NEW m \in Nat \ {0}, NEW f, \A i \in 1..m : f[i] \in Int
  PROVE  SumOf(f, 1..m) = f[m] + SumOf(f, 1..(m - 1)) /\ SumOf(f, 1..(m - 1)) \in Int
<1>1. IsFiniteSet(1..m) /\ IsFiniteSet(1..(m - 1)) /\ m \in 1..m /\ (1..m) \ {m} = 1..(m - 1)
  BY FS_Interval
<1> QED BY <1>1, SumRemove

-----------------------------------------------------------------------------
(* The rings of volatility and of outcomes. *)

LEMMA LesserIs ==
  \A a, b \in Int : Lesser(a, b) \in {a, b} /\ Lesser(a, b) <= a /\ Lesser(a, b) <= b
                    /\ Greater(a, b) \in {a, b} /\ Greater(a, b) >= a /\ Greater(a, b) >= b
  BY DEF Lesser, Greater

\* A history with a newer entry: the others move up, and the one beyond the bound is forgotten.
IsNewest(h, T, x, seq, k) ==
  /\ h \in Seq(T) /\ Len(h) = Lesser(k, Len(seq) + 1) /\ h[1] = x
  /\ \A i \in 1..(Lesser(k, Len(seq) + 1) - 1) : h[i + 1] = seq[i]

LEMMA NewestIs ==
  ASSUME NEW T, NEW x \in T, NEW seq \in Seq(T), NEW k \in Nat \ {0}
  PROVE  IsNewest(Newest(x, seq, k), T, x, seq, k)
<1> DEFINE long == <<x>> \o seq
           m == Lesser(k, Len(seq) + 1)
<1>1. long \in Seq(T) /\ Len(long) = Len(seq) + 1 /\ long[1] = x
      /\ \A i \in 1..Len(seq) : long[i + 1] = seq[i]
  OBVIOUS
<1>2. m \in 1..Len(long)
  BY <1>1, LesserIs
<1> HIDE DEF long, m
<1>3. SubSeq(long, 1, m) \in Seq(T) /\ Len(SubSeq(long, 1, m)) = m
      /\ \A i \in 1..m : SubSeq(long, 1, m)[i] = long[i]
  BY <1>1, <1>2
<1>4. m <= Len(seq) + 1 /\ m \in Nat /\ Len(seq) \in Nat
  BY <1>1, <1>2
<1>5. Newest(x, seq, k) = SubSeq(long, 1, m)
  BY DEF Newest, long, m
<1>6. ASSUME NEW i \in 1..(m - 1) PROVE SubSeq(long, 1, m)[i + 1] = seq[i]
  <2>1. i + 1 \in 1..m /\ i \in 1..Len(seq)
    BY <1>4
  <2> QED BY <2>1, <1>1, <1>3
<1>7. SubSeq(long, 1, m)[1] = x
  BY <1>1, <1>2, <1>3, <1>4
<1> QED BY <1>3, <1>5, <1>6, <1>7 DEF m, IsNewest

\* A place of the ring counted back from its index.
LEMMA BackIndex ==
  ASSUME FeedbackAssumption, NEW j \in 0..(MaxK - 1), NEW i \in 1..MaxK
  PROVE  /\ MaxK \in Nat \ {0}
         /\ (j - i) % MaxK = IF i <= j THEN j - i ELSE j - i + MaxK
         /\ (j + 1) % MaxK = IF j + 1 = MaxK THEN 0 ELSE j + 1
<1>1. MaxK \in Nat \ {0}
  BY DEF FeedbackAssumption
<1>2. CASE i <= j
  <2>1. j - i \in 0..(MaxK - 1)
    BY <1>1, <1>2
  <2> QED BY <1>1, <1>2, <2>1, ModSmall
<1>3. CASE ~(i <= j)
  <2>1. PICK a \in Int : a = j - i /\ a + MaxK \in 0..(MaxK - 1)
    BY <1>1, <1>3
  <2>2. (a + MaxK) % MaxK = a % MaxK
    BY <1>1, ModAdd
  <2>3. (a + MaxK) % MaxK = a + MaxK
    BY <1>1, <2>1, ModSmall
  <2> QED BY <1>3, <2>1, <2>2, <2>3
<1>4. (j + 1) % MaxK = IF j + 1 = MaxK THEN 0 ELSE j + 1
  BY <1>1, NextPlace
<1> QED BY <1>1, <1>2, <1>3, <1>4

\* The running sum over the last increments, without the sequence.
LEMMA TrailingIs ==
  ASSUME VolatilityTypes
  PROVE  TrailingSum <=> trailing = SumOf(increments, 1..Lesser(reqK, cnt))
<1> DEFINE m == Lesser(reqK, cnt)
           s == SubSeq(increments, 1, m)
<1>1. m \in 0..cnt /\ cnt \in Nat
  BY LesserIs DEF VolatilityTypes
<1> HIDE DEF m
<1>2. s = [i \in 1..m |-> increments[i]] /\ DOMAIN s = 1..m /\ \A i \in 1..m : increments[i] \in Int /\ s[i] = increments[i]
  BY <1>1 DEF VolatilityTypes
<1> HIDE DEF s
<1>3. SumOf(s, 1..m) = SumOf(increments, 1..m)
  <2>1. IsFiniteSet(1..m)
    BY <1>1, FS_Interval
  <2> QED BY <1>2, <2>1, SumCongruent
<1>4. TrailingSum <=> trailing = SumOf(s, DOMAIN s)
  BY DEF TrailingSum, Total, s, m, VolatilityTypes
<1> QED BY <1>2, <1>3, <1>4 DEF m

LEMMA RingInit == ASSUME FeedbackAssumption, FeedbackInit PROVE RingInv
<1> USE DEF FeedbackInit, FeedbackAssumption
<1>1. VolatilityTypes
  <2>1. WarmK \in 1..MaxK /\ MaxK \in Nat \ {0}
    OBVIOUS
  <2>2. rets \in [0..(MaxK - 1) -> Int] /\ increments \in Seq(Int) /\ Len(increments) = 0
    OBVIOUS
  <2>3. idx \in 0..(MaxK - 1) /\ cnt \in 0..MaxK /\ reqK \in 1..MaxK /\ cnt = 0
    BY <2>1
  <2>4. prev \in Int /\ have \in BOOLEAN /\ trailing \in Int
    <3>1. prev \in Int /\ trailing \in Int
      OBVIOUS
    <3>2. have \in BOOLEAN
      OBVIOUS
    <3> QED BY <3>1, <3>2
  <2> QED BY <2>2, <2>3, <2>4 DEF VolatilityTypes
<1>2. ReturnsKept
  BY DEF ReturnsKept
<1>3. TrailingSum
  <2>1. 1..Lesser(reqK, cnt) = {}
    BY DEF Lesser
  <2>2. SumOf(increments, {}) = 0
    BY FS_EmptySet, SumEquations
  <2> QED BY <1>1, <2>1, <2>2, TrailingIs
<1>4. OutcomeTypes
  BY DEF OutcomeTypes
<1>5. OutcomesKept
  BY DEF OutcomesKept
<1> QED BY <1>1, <1>2, <1>3, <1>4, <1>5 DEF RingInv

\* The same after a step.
LEMMA TrailingNext ==
  ASSUME VolatilityTypes', trailing' = SumOf(increments', 1..Lesser(reqK', cnt'))
  PROVE  TrailingSum'
<1>1. Len(increments') = cnt' /\ increments' \in Seq(Int)
  BY DEF VolatilityTypes
<1> DEFINE m == Lesser(reqK', cnt')
           s == SubSeq(increments', 1, m)
<1>2. m \in 0..cnt' /\ cnt' \in Nat
  BY LesserIs DEF VolatilityTypes
<1> HIDE DEF m
<1>3. DOMAIN s = 1..m /\ \A i \in 1..m : increments'[i] \in Int /\ s[i] = increments'[i]
  BY <1>1, <1>2
<1> HIDE DEF s
<1>4. IsFiniteSet(1..m)
  BY <1>2, FS_Interval
<1>5. PICK h : h = increments'
  OBVIOUS
<1>6. SumOf(s, 1..m) = SumOf(h, 1..m)
  BY <1>3, <1>4, <1>5, SumCongruent
<1>7. TrailingSum' <=> trailing' = SumOf(s, DOMAIN s)
  BY <1>1 DEF TrailingSum, Total, s, m
<1> QED BY <1>3, <1>5, <1>6, <1>7 DEF m

\* A sample: the ring's oldest return leaves it, and the sum, as the new one enters.
LEMMA AddAtInv ==
  ASSUME FeedbackAssumption, RingInv, NEW x \in Prices, AddAt(x)
  PROVE  VolatilityTypes' /\ ReturnsKept' /\ TrailingSum'
<1> USE DEF RingInv
<1>1. VolatilityTypes /\ ReturnsKept /\ MaxK \in Nat \ {0} /\ x \in Int /\ reqK' = reqK
  <2>1. MaxK \in Nat \ {0} /\ x \in Int
    BY DEF FeedbackAssumption
  <2>2. reqK' = reqK
    BY DEF AddAt
  <2> QED BY <2>1, <2>2
<1>2. trailing = SumOf(increments, 1..Lesser(reqK, cnt))
  BY <1>1, TrailingIs
<1>3. CASE ~have
  <2>1. prev' \in Int /\ have' \in BOOLEAN /\ UNCHANGED <<rets, idx, cnt, trailing, increments, reqK>>
    BY <1>1, <1>3 DEF AddAt
  <2> QED BY <1>1, <2>1 DEF VolatilityTypes, ReturnsKept, TrailingSum, Back
<1>4. CASE have
  <2>1. PICK sq \in Int : sq = (x - prev) * (x - prev)
    BY <1>1 DEF VolatilityTypes
  <2>2. /\ prev' = x /\ have' = TRUE
        /\ trailing' = trailing + sq - (IF cnt >= reqK THEN Back(reqK) ELSE 0)
        /\ rets' = [rets EXCEPT ![idx] = sq]
        /\ idx' = (idx + 1) % MaxK
        /\ cnt' = Lesser(cnt + 1, MaxK)
        /\ increments' = Newest(sq, increments, MaxK)
    BY <1>4, <2>1 DEF AddAt
  <2>3. /\ increments' \in Seq(Int) /\ Len(increments') = Lesser(MaxK, cnt + 1) /\ increments'[1] = sq
        /\ \A i \in 1..(Lesser(MaxK, cnt + 1) - 1) : increments'[i + 1] = increments[i]
    <3>1. increments \in Seq(Int) /\ Len(increments) = cnt
      BY <1>1 DEF VolatilityTypes
    <3>2. PICK h : h = Newest(sq, increments, MaxK)
      OBVIOUS
    <3>3. /\ h \in Seq(Int) /\ Len(h) = Lesser(MaxK, cnt + 1) /\ h[1] = sq
          /\ \A i \in 1..(Lesser(MaxK, cnt + 1) - 1) : h[i + 1] = increments[i]
      <4>1. /\ h \in Seq(Int) /\ Len(h) = Lesser(MaxK, Len(increments) + 1) /\ h[1] = sq
            /\ \A i \in 1..(Lesser(MaxK, Len(increments) + 1) - 1) : h[i + 1] = increments[i]
        <5>1. MaxK \in Nat \ {0} /\ sq \in Int /\ increments \in Seq(Int)
          BY <1>1, <2>1, <3>1
        <5>2. IsNewest(Newest(sq, increments, MaxK), Int, sq, increments, MaxK)
          BY <5>1, NewestIs
        <5>3. IsNewest(h, Int, sq, increments, MaxK)
          BY <5>2, <3>2
        <5> QED BY <5>3 DEF IsNewest
      <4> QED BY <3>1, <4>1
    <3> QED BY <2>2, <3>2, <3>3
  <2>4. cnt' = Lesser(MaxK, cnt + 1) /\ cnt' \in 1..MaxK
    BY <1>1, <2>2 DEF Lesser, VolatilityTypes
  <2>5. idx' = (IF idx + 1 = MaxK THEN 0 ELSE idx + 1) /\ idx' \in 0..(MaxK - 1)
    <3>1. idx \in 0..(MaxK - 1) /\ 1 \in 1..MaxK
      BY <1>1 DEF VolatilityTypes
    <3>2. idx' = (IF idx + 1 = MaxK THEN 0 ELSE idx + 1)
      BY <2>2, <3>1, BackIndex
    <3> QED BY <1>1, <3>1, <3>2
  <2>6. rets' \in [0..(MaxK - 1) -> Int] /\ rets'[idx] = sq
        /\ \A j \in 0..(MaxK - 1) : j # idx => rets'[j] = rets[j]
    BY <1>1, <2>2 DEF VolatilityTypes
  <2>8. ASSUME NEW i \in 1..cnt' PROVE Back(i)' = increments'[i]
    <3>0. i \in 1..MaxK /\ idx \in 0..(MaxK - 1)
      BY <1>1, <2>4 DEF VolatilityTypes
    <3>1. (idx' - i) % MaxK = IF i <= idx' THEN idx' - i ELSE idx' - i + MaxK
      BY <2>5, <3>0, BackIndex
    <3>2. CASE i = 1
      <4>1. (idx' - i) % MaxK = idx
        BY <1>1, <2>5, <3>0, <3>1, <3>2
      <4> QED BY <2>3, <2>6, <3>2, <4>1 DEF Back
    <3>3. CASE i # 1
      <4>1. PICK j \in 1..MaxK : i = j + 1 /\ j <= cnt /\ j < MaxK /\ j <= cnt' - 1
        <5>1. i - 1 \in 1..MaxK /\ i = (i - 1) + 1 /\ i - 1 <= cnt /\ i - 1 < MaxK /\ i - 1 <= cnt' - 1
          BY <1>1, <2>4, <3>0, <3>3 DEF Lesser, VolatilityTypes
        <5> QED BY <5>1
      <4>2. (idx - j) % MaxK = IF j <= idx THEN idx - j ELSE idx - j + MaxK
        BY <3>0, <4>1, BackIndex
      <4>3. (idx' - i) % MaxK = (idx - j) % MaxK /\ (idx - j) % MaxK \in 0..(MaxK - 1) /\ (idx - j) % MaxK # idx
        BY <1>1, <2>5, <3>0, <3>1, <4>1, <4>2
      <4>4. Back(i)' = Back(j)
        BY <2>6, <4>3 DEF Back
      <4>5. increments'[i] = increments[j]
        BY <2>3, <2>4, <4>1
      <4>6. Back(j) = increments[j]
        BY <1>1, <4>1 DEF ReturnsKept, VolatilityTypes
      <4> QED BY <4>4, <4>5, <4>6
    <3> QED BY <3>2, <3>3
  <2>9. ReturnsKept'
    BY <2>8 DEF ReturnsKept
  <2>10. trailing' = SumOf(increments', 1..Lesser(reqK', cnt'))
    <3> DEFINE f == increments
               g == increments'
    <3>0. cnt \in Nat /\ reqK \in 1..MaxK /\ \A i \in 1..cnt : f[i] \in Int
      BY <1>1 DEF VolatilityTypes
    <3>1. CASE cnt < reqK
      <4>1. Lesser(reqK, cnt) = cnt /\ cnt' = cnt + 1 /\ Lesser(reqK', cnt') = cnt + 1
        BY <1>1, <2>4, <3>0, <3>1 DEF Lesser
      <4>2. g[1] = sq /\ \A i \in 1..cnt : g[i + 1] = f[i]
        BY <2>3, <2>4, <4>1, <3>0
      <4> HIDE DEF f, g
      <4>3. SumOf(g, 1..(cnt + 1)) = g[1] + SumOf(f, 1..cnt)
        BY <2>1, <3>0, <4>2, SumShift
      <4>4. trailing' = trailing + sq - 0
        BY <2>2, <3>0, <3>1
      <4>5. trailing \in Int
        BY <1>1 DEF VolatilityTypes
      <4> QED BY <1>2, <2>1, <4>1, <4>2, <4>3, <4>4, <4>5 DEF f, g
    <3>2. CASE ~(cnt < reqK)
      <4>1. PICK m \in Nat : reqK = m + 1 /\ m + 1 <= cnt
        <5>1. reqK - 1 \in Nat /\ reqK = (reqK - 1) + 1
          BY <1>1, <3>0
        <5> QED BY <3>0, <3>2, <5>1
      <4>2. Lesser(reqK, cnt) = m + 1 /\ Lesser(reqK', cnt') = m + 1 /\ m <= cnt' - 1
        BY <1>1, <2>4, <3>0, <3>2, <4>1 DEF Lesser
      <4>3. g[1] = sq /\ \A i \in 1..m : g[i + 1] = f[i] /\ f[i] \in Int
        BY <2>3, <2>4, <4>1, <4>2, <3>0
      <4>4. Back(reqK) = f[m + 1] /\ f[m + 1] \in Int
        BY <1>1, <3>0, <4>1 DEF ReturnsKept
      <4>5. trailing' = trailing + sq - f[m + 1]
        BY <2>2, <3>0, <3>2, <4>4
      <4> HIDE DEF f, g
      <4>6. SumOf(g, 1..(m + 1)) = g[1] + SumOf(f, 1..m)
        BY <2>1, <4>3, SumShift
      <4>7. SumOf(f, 1..(m + 1)) = f[m + 1] + SumOf(f, 1..m) /\ SumOf(f, 1..m) \in Int
        <5>1. m + 1 \in Nat \ {0} /\ (m + 1) - 1 = m
          OBVIOUS
        <5>2. \A i \in 1..(m + 1) : f[i] \in Int
          BY <4>1, <3>0
        <5> QED BY <5>1, <5>2, SumLast
      <4>8. PICK s \in Int, y \in Int : s = SumOf(f, 1..m) /\ y = f[m + 1]
        BY <4>4, <4>7
      <4>9. trailing = y + s /\ trailing' = trailing + sq - y /\ SumOf(g, 1..(m + 1)) = sq + s
        BY <1>2, <4>2, <4>3, <4>5, <4>6, <4>7, <4>8 DEF f
      <4>10. trailing' = sq + s
        BY <2>1, <4>8, <4>9
      <4> QED BY <4>2, <4>9, <4>10 DEF g
    <3> QED BY <3>1, <3>2
  <2>11. VolatilityTypes'
    <3>1. trailing' \in Int
      <4>1. trailing \in Int /\ (cnt >= reqK => Back(reqK) \in Int)
        <5>1. cnt >= reqK => Back(reqK) = increments[reqK] /\ increments[reqK] \in Int
          BY <1>1 DEF ReturnsKept, VolatilityTypes
        <5> QED BY <1>1, <5>1 DEF VolatilityTypes
      <4> QED BY <2>1, <2>2, <4>1
    <3> QED BY <1>1, <2>2, <2>3, <2>4, <2>5, <2>6, <3>1 DEF VolatilityTypes
  <2>12. TrailingSum'
    BY <2>10, <2>11, TrailingNext
  <2> QED BY <2>9, <2>11, <2>12
<1> QED BY <1>3, <1>4

\* A new width: the sum is taken from the ring as far as it goes.
LEMMA WindowsInv ==
  ASSUME FeedbackAssumption, RingInv, applyAdaptiveWindows
  PROVE  VolatilityTypes' /\ ReturnsKept' /\ TrailingSum'
<1> USE DEF RingInv
<1>1. PICK k \in Int : SetWindow(k)
  <2>1. PICK kL \in Asks(latL), kR \in Asks(latR) : SetWindow(Greater(kL, kR))
    BY DEF applyAdaptiveWindows
  <2>2. kL \in Int /\ kR \in Int
    BY DEF Asks, FeedbackAssumption
  <2>3. Greater(kL, kR) \in Int
    BY <2>2, LesserIs
  <2> QED BY <2>1, <2>3
<1>2. UNCHANGED <<rets, idx, cnt, prev, have, increments>>
  BY DEF applyAdaptiveWindows
<1>3. reqK' \in 1..MaxK
  <2>1. MaxK \in Nat \ {0} /\ reqK' = Lesser(Greater(k, 1), MaxK)
    BY <1>1 DEF SetWindow, FeedbackAssumption
  <2> QED BY <2>1 DEF Lesser, Greater
<1>4. ReturnsKept'
  BY <1>2 DEF ReturnsKept, Back
<1>5. trailing' = SumOf(increments, 1..Lesser(reqK', cnt)) /\ trailing' \in Int
  <2> DEFINE m == Lesser(reqK', cnt)
             f == [i \in 1..m |-> Back(i)]
  <2>1. m \in 0..cnt /\ cnt \in Nat /\ \A i \in 1..cnt : increments[i] \in Int /\ Back(i) = increments[i]
    BY <1>3, LesserIs DEF VolatilityTypes, ReturnsKept
  <2>2. CASE reqK' = reqK
    BY <1>1, <2>2, TrailingIs DEF SetWindow, VolatilityTypes
  <2>3. CASE reqK' # reqK
    <3>1. trailing' = SumOver(reqK')
      BY <1>1, <2>3 DEF SetWindow
    <3>2. SumOver(reqK') = SumOf(f, DOMAIN f)
      BY DEF SumOver, Total
    <3> HIDE DEF m
    <3>3. DOMAIN f = 1..m /\ \A i \in 1..m : increments[i] \in Int /\ f[i] = increments[i]
      BY <2>1
    <3> HIDE DEF f
    <3>4. IsFiniteSet(1..m)
      BY <2>1, FS_Interval
    <3>5. SumOf(f, 1..m) = SumOf(increments, 1..m)
      BY <3>3, <3>4, SumCongruent
    <3>6. SumOf(increments, 1..m) \in Int
      BY <3>3, <3>4, SumRemove
    <3> QED BY <3>1, <3>2, <3>3, <3>5, <3>6 DEF m
  <2> QED BY <2>2, <2>3
<1>6. VolatilityTypes'
  BY <1>2, <1>3, <1>5 DEF VolatilityTypes
<1>7. TrailingSum'
  <2>1. trailing' = SumOf(increments', 1..Lesser(reqK', cnt'))
    BY <1>2, <1>5
  <2> QED BY <1>6, <2>1, TrailingNext
<1> QED BY <1>4, <1>6, <1>7

\* An outcome: the oldest leaves the ring where the new one enters.
LEMMA ObserveInv ==
  ASSUME FeedbackAssumption, RingInv, NEW failed \in BOOLEAN, observeFailure(failed),
         latL' \in 0..MinSamples, latR' \in 0..MinSamples
  PROVE  OutcomeTypes' /\ OutcomesKept'
<1> USE DEF RingInv
<1> DEFINE L == Len(failures)
<1>1. /\ Window \in Nat \ {0} /\ L \in Nat /\ L <= Window /\ Len(outcomes) = L /\ failureIndex \in 0..(Window - 1)
      /\ failures \in Seq(BOOLEAN) /\ outcomes \in Seq(BOOLEAN) /\ (L < Window => failureIndex = 0)
  BY DEF OutcomeTypes, FeedbackAssumption
<1>2. PICK h \in Seq(BOOLEAN) :
        /\ outcomes' = h /\ Len(h) = Lesser(Window, L + 1) /\ h[1] = failed
        /\ \A i \in 1..(Lesser(Window, L + 1) - 1) : h[i + 1] = outcomes[i]
  <2>1. PICK h : h = Newest(failed, outcomes, Window)
    OBVIOUS
  <2>2. /\ h \in Seq(BOOLEAN) /\ Len(h) = Lesser(Window, L + 1) /\ h[1] = failed
        /\ \A i \in 1..(Lesser(Window, L + 1) - 1) : h[i + 1] = outcomes[i]
    <3>1. Window \in Nat \ {0} /\ failed \in BOOLEAN /\ outcomes \in Seq(BOOLEAN)
      BY <1>1
    <3>2. /\ h \in Seq(BOOLEAN) /\ Len(h) = Lesser(Window, Len(outcomes) + 1) /\ h[1] = failed
          /\ \A i \in 1..(Lesser(Window, Len(outcomes) + 1) - 1) : h[i + 1] = outcomes[i]
      <4>1. IsNewest(Newest(failed, outcomes, Window), BOOLEAN, failed, outcomes, Window)
        BY <3>1, NewestIs
      <4>2. IsNewest(h, BOOLEAN, failed, outcomes, Window)
        BY <2>1, <4>1
      <4> QED BY <4>2 DEF IsNewest
    <3> QED BY <1>1, <3>2
  <2>3. outcomes' = h
    BY <2>1 DEF observeFailure
  <2> QED BY <2>2, <2>3
<1>3. \A i \in 1..L : outcomes[i] = failures[Place(i)]
  BY <1>1 DEF OutcomesKept
<1>4. tickK' \in MinTick..MaxTick
  <2>1. MinTick \in Int /\ MaxTick \in Int /\ tickK \in MinTick..MaxTick
    BY DEF FeedbackAssumption, OutcomeTypes
  <2>2. tickK' \in {tickK, Lesser(tickK + 1, MaxTick), Greater(tickK - 1, MinTick)}
    BY DEF observeFailure
  <2> QED BY <2>1, <2>2 DEF Lesser, Greater
<1>5. CASE L < Window
  <2>1. failures' = Append(failures, failed) /\ failureIndex' = failureIndex
    BY <1>5 DEF observeFailure
  <2>2. /\ failures' \in Seq(BOOLEAN) /\ Len(failures') = L + 1 /\ failures'[L + 1] = failed
        /\ \A i \in 1..L : failures'[i] = failures[i]
    BY <1>1, <2>1
  <2>3. failureIndex = 0 /\ Lesser(Window, L + 1) = L + 1 /\ L + 1 <= Window
    BY <1>1, <1>5 DEF Lesser
  <2>4. ASSUME NEW i \in 1..(L + 1) PROVE h[i] = failures'[Place(i)']
    <3>1. Place(i)' = L + 2 - i
      BY <1>1, <2>1, <2>2, <2>3 DEF Place
    <3>2. CASE i = 1
      BY <1>1, <1>2, <2>2, <3>1, <3>2
    <3>3. CASE i # 1
      <4>1. PICK j \in 1..L : i = j + 1
        <5>1. i - 1 \in 1..L /\ i = (i - 1) + 1
          BY <1>1, <3>3
        <5> QED BY <5>1
      <4>2. Place(j) = L + 1 - j /\ L + 1 - j \in 1..L /\ Place(i)' = L + 1 - j
        BY <1>1, <2>3, <3>1, <4>1 DEF Place
      <4>3. h[i] = outcomes[j]
        BY <1>1, <1>2, <2>3, <4>1
      <4> QED BY <1>3, <2>2, <4>1, <4>2, <4>3
    <3> QED BY <3>2, <3>3
  <2>5. OutcomesKept'
    BY <1>2, <2>3, <2>4 DEF OutcomesKept
  <2>6. OutcomeTypes'
    BY <1>1, <1>2, <1>4, <2>1, <2>2, <2>3 DEF OutcomeTypes
  <2> QED BY <2>5, <2>6
<1>6. CASE ~(L < Window)
  <2>1. failures' = [failures EXCEPT ![failureIndex + 1] = failed] /\ failureIndex' = (failureIndex + 1) % Window
    BY <1>6 DEF observeFailure, Replaced
  <2>2. /\ L = Window /\ failureIndex + 1 \in 1..L
        /\ failures' \in Seq(BOOLEAN) /\ Len(failures') = L /\ failures'[failureIndex + 1] = failed
        /\ \A i \in 1..L : i # failureIndex + 1 => failures'[i] = failures[i]
    BY <1>1, <1>6, <2>1
  <2>3. failureIndex' = IF failureIndex + 1 = Window THEN 0 ELSE failureIndex + 1
    BY <1>1, <2>1, NextPlace
  <2>4. Lesser(Window, L + 1) = L
    BY <1>1, <2>2 DEF Lesser
  <2>5. ASSUME NEW i \in 1..L PROVE h[i] = failures'[Place(i)']
    <3>1. Place(i)' = IF i <= failureIndex' THEN failureIndex' - i + 1 ELSE failureIndex' - i + 1 + L
      BY <2>2 DEF Place
    <3>2. CASE i = 1
      <4>1. Place(i)' = failureIndex + 1
        BY <1>1, <2>2, <2>3, <3>1, <3>2
      <4> QED BY <1>2, <2>2, <3>2, <4>1
    <3>3. CASE i # 1
      <4>1. PICK j \in 1..L : i = j + 1
        <5>1. i - 1 \in 1..L /\ i = (i - 1) + 1
          BY <1>1, <3>3
        <5> QED BY <5>1
      <4>2. Place(i)' = Place(j) /\ Place(j) \in 1..L /\ Place(j) # failureIndex + 1
        BY <1>1, <2>2, <2>3, <3>1, <4>1 DEF Place
      <4>3. h[i] = outcomes[j]
        BY <1>1, <1>2, <2>4, <4>1
      <4> QED BY <1>3, <2>2, <4>1, <4>2, <4>3
    <3> QED BY <3>2, <3>3
  <2>6. OutcomesKept'
    BY <1>2, <2>4, <2>5 DEF OutcomesKept
  <2>7. OutcomeTypes'
    <3>1. failureIndex' \in 0..(Window - 1)
      BY <1>1, <2>3
    <3> QED BY <1>1, <1>2, <1>4, <2>2, <2>4, <3>1 DEF OutcomeTypes
  <2> QED BY <2>6, <2>7
<1> QED BY <1>5, <1>6

LEMMA FeedbackStep == ASSUME FeedbackAssumption, RingInv, [FeedbackNext]_feedbackVars PROVE RingInv'
<1> USE DEF RingInv
<1>1. ASSUME NEW x \in Prices, AddAt(x) PROVE RingInv'
  <2>1. UNCHANGED <<latL, latR, outcomeVars>>
    BY <1>1 DEF AddAt
  <2>2. OutcomeTypes' /\ OutcomesKept'
    BY <2>1 DEF outcomeVars, OutcomeTypes, OutcomesKept, Place
  <2> QED BY <1>1, <2>2, AddAtInv
<1>2. CASE applyAdaptiveWindows
  <2>1. UNCHANGED <<latL, latR, outcomeVars>>
    BY <1>2 DEF applyAdaptiveWindows
  <2>2. OutcomeTypes' /\ OutcomesKept'
    BY <2>1 DEF outcomeVars, OutcomeTypes, OutcomesKept, Place
  <2> QED BY <1>2, <2>2, WindowsInv
<1>3. ASSUME NEW a \in BOOLEAN, NEW b \in BOOLEAN, NEW c \in BOOLEAN, NEW d \in BOOLEAN,
             AccountExecution(a, b, c, d)
      PROVE  RingInv'
  <2>1. UNCHANGED volVars
    BY <1>3 DEF AccountExecution
  <2>2. VolatilityTypes' /\ ReturnsKept' /\ TrailingSum'
    BY <2>1 DEF volVars, VolatilityTypes, ReturnsKept, TrailingSum, Back
  <2>3. PICK failed \in BOOLEAN : observeFailure(failed)
    BY <1>3 DEF AccountExecution
  <2>4. latL' \in 0..MinSamples /\ latR' \in 0..MinSamples
    BY <1>3 DEF AccountExecution, OutcomeTypes, FeedbackAssumption, Lesser
  <2> QED BY <2>2, <2>3, <2>4, ObserveInv
<1>4. CASE UNCHANGED feedbackVars
  BY <1>4 DEF feedbackVars, volVars, outcomeVars, VolatilityTypes, ReturnsKept, TrailingSum, Back,
              OutcomeTypes, OutcomesKept, Place
<1> QED BY <1>1, <1>2, <1>3, <1>4 DEF FeedbackNext

\* The ring and the history are two orders of the same outcomes.
LEMMA SameFailures == ASSUME FeedbackAssumption, OutcomeTypes, OutcomesKept PROVE FailuresAreRecent
<1> DEFINE L == Len(outcomes)
           S == {i \in 1..L : outcomes[i]}
           T == {i \in 1..L : failures[i]}
           f == [i \in S |-> Place(i)]
<1>1. /\ Len(failures) = L /\ L \in Nat /\ failureIndex \in 0..L
      /\ DOMAIN failures = 1..L /\ DOMAIN outcomes = 1..L
  BY DEF OutcomeTypes, FeedbackAssumption
<1>2. \A i \in 1..L : Place(i) \in 1..L
  BY <1>1 DEF Place
<1>3. \A i, j \in 1..L : Place(i) = Place(j) => i = j
  BY <1>1 DEF Place
<1>4. \A i \in 1..L : Place(Place(i)) = i
  BY <1>1, <1>2 DEF Place
<1>5. \A i \in 1..L : outcomes[i] = failures[Place(i)]
  BY DEF OutcomesKept
<1> HIDE DEF L
<1>6. Pairs(f, S, T)
  <2>1. f \in [S -> T]
    BY <1>2, <1>5
  <2>2. \A i, j \in S : f[i] = f[j] => i = j
    BY <1>3
  <2>3. \A t \in T : \E s \in S : f[s] = t
    <3> SUFFICES ASSUME NEW t \in T PROVE Place(t) \in S /\ f[Place(t)] = t
      OBVIOUS
    <3> QED BY <1>2, <1>4, <1>5
  <2> HIDE DEF S, T, f
  <2> QED BY <2>1, <2>2, <2>3 DEF Pairs
<1>7. IsFiniteSet(S)
  <2>1. IsFiniteSet(1..L)
    BY <1>1, FS_Interval
  <2> QED BY <2>1, FS_Subset
<1> HIDE DEF S, T, f
<1>8. Cardinality(S) = Cardinality(T)
  BY <1>6, <1>7, SameCount
<1>9. Failed(outcomes) = Cardinality(S) /\ Failed(failures) = Cardinality(T)
  BY <1>1 DEF Failed, S, T
<1>10. Len(failures) = Len(outcomes)
  BY DEF OutcomeTypes
<1> QED BY <1>8, <1>9, <1>10 DEF FailuresAreRecent

\* The variance and the failure rate are those of the last increments and the last executions, in any
\* order of samples, executions and changes of the window (SetWindow, AddAt, observeFailure).
THEOREM RingsTrue == FeedbackSpec => []RingsMatchHistory
<1>1. RingInv => RingsMatchHistory
  BY FeedbackAssumption, SameFailures DEF RingInv, RingsMatchHistory
<1>2. FeedbackInit => RingInv
  BY FeedbackAssumption, RingInit
<1>3. RingInv /\ [FeedbackNext]_feedbackVars => RingInv'
  BY FeedbackAssumption, FeedbackStep
<1> QED BY <1>1, <1>2, <1>3, PTL DEF FeedbackSpec

-----------------------------------------------------------------------------
(* Intervals and their slots. *)

LEMMA BucketIs ==
  ASSUME WindowAssumption
  PROVE  /\ \A t \in Nat : bucket(t) \in Nat
         /\ \A t, u \in Nat : t <= u => bucket(t) <= bucket(u)
         /\ \A t, u \in Nat : t <= u /\ bucket(t) = bucket(u) => u - t < Interval
<1>1. Interval \in Nat \ {0}
  BY DEF WindowAssumption
<1> DEFINE K == Interval
<1> HIDE DEF K
<1>2. K \in Nat \ {0}
  BY <1>1 DEF K
<1>3. ASSUME NEW a \in Nat PROVE a \div K \in Nat
  BY <1>2, Z3
<1>4. ASSUME NEW a \in Nat, NEW b \in Nat, a <= b PROVE a \div K <= b \div K
  BY <1>2, <1>4, Z3
<1>5. ASSUME NEW a \in Nat, NEW b \in Nat, a <= b, a \div K = b \div K PROVE b - a < K
  BY <1>2, <1>5, Z3
<1> QED BY <1>3, <1>4, <1>5 DEF bucket, K

LEMMA SlotIs ==
  ASSUME size \in Nat \ {0}
  PROVE  /\ \A b \in Nat : SlotOf(b) \in 0..(size - 1) /\ SlotOf(b + size) = SlotOf(b)
         /\ \A a, b \in Nat : SlotOf(a) = SlotOf(b) /\ a < b + size /\ b < a + size => a = b
<1>1. PICK K \in Nat \ {0} : K = size
  OBVIOUS
<1>2. ASSUME NEW b \in Nat PROVE b % K \in 0..(K - 1) /\ (b + K) % K = b % K
  <2>1. b % K \in 0..(K - 1)
    BY DivMod
  <2>2. (b + K) % K = b % K
    <3>1. b \in Int
      OBVIOUS
    <3> QED BY <3>1, ModAdd
  <2> QED BY <2>1, <2>2
<1>3. ASSUME NEW a \in Nat, NEW b \in Nat, a % K = b % K, a < b + K, b < a + K PROVE a = b
  <2>1. a \in Int /\ b \in Int
    OBVIOUS
  <2> QED BY <1>3, <2>1, Apart
<1> QED BY <1>1, <1>2, <1>3 DEF SlotOf

LEMMA MinIs ==
  ASSUME NEW S \in SUBSET Nat, S # {}
  PROVE  /\ Min(S) \in S /\ \A y \in S : Min(S) <= y
         /\ \A x \in S : (\A y \in S : x <= y) => Min(S) = x
<1>1. IsWellFoundedOn(Less, Nat)
  BY NatLessThanWellFounded DEF OpToRel, Less
<1>2. PICK x \in S : \A y \in S : ~(<<y, x>> \in Less)
  BY <1>1, WFMin
<1>3. \A y \in S : x <= y
  <2> SUFFICES ASSUME NEW y \in S PROVE ~(y < x)
    OBVIOUS
  <2>1. <<y, x>> \in Nat \X Nat
    OBVIOUS
  <2>2. y < x => <<y, x>> \in Less
    BY <2>1 DEF Less
  <2> QED BY <1>2, <2>2
<1>4. Min(S) \in S /\ \A y \in S : Min(S) <= y
  BY <1>3 DEF Min
<1>5. ASSUME NEW z \in S, \A y \in S : z <= y PROVE Min(S) = z
  <2>1. z <= Min(S) /\ Min(S) <= z /\ z \in Nat /\ Min(S) \in Nat
    BY <1>4, <1>5
  <2> QED BY <2>1
<1> QED BY <1>4, <1>5

\* The latest of some times is the one no other is after.
LEMMA MaxIs ==
  ASSUME NEW S \in SUBSET Nat, NEW x \in S, \A y \in S : y <= x
  PROVE  Max(S) = x
<1>1. Max(S) \in S /\ \A y \in S : y <= Max(S)
  BY DEF Max
<1>2. x <= Max(S) /\ Max(S) <= x /\ x \in Nat /\ Max(S) \in Nat
  BY <1>1
<1> QED BY <1>2

\* A bounded set of times has a latest.
LEMMA MaxExists ==
  ASSUME NEW k \in Nat, NEW S \in SUBSET (0..k), S # {}
  PROVE  Max(S) \in S /\ \A y \in S : y <= Max(S)
<1> DEFINE D == {k - y : y \in S}
<1>1. D \in SUBSET Nat /\ D # {}
  OBVIOUS
<1>2. Min(D) \in D /\ \A d \in D : Min(D) <= d
  <2> HIDE DEF D
  <2> QED BY <1>1, MinIs
<1>3. PICK x \in S : Min(D) = k - x
  BY <1>2
<1>4. \A y \in S : y <= x
  <2> SUFFICES ASSUME NEW y \in S PROVE y <= x
    OBVIOUS
  <2>1. k - y \in D
    OBVIOUS
  <2>2. k - x <= k - y
    BY <1>2, <1>3, <2>1
  <2> QED BY <2>2
<1>5. Max(S) = x
  BY <1>4, MaxIs
<1> QED BY <1>4, <1>5

\* A sum over a set is one over a part of it and one over the rest.
LEMMA SumSplit ==
  ASSUME NEW S, IsFiniteSet(S), NEW T \in SUBSET S, NEW f, \A x \in S : f[x] \in Int
  PROVE  SumOf(f, S) = SumOf(f, T) + SumOf(f, S \ T) /\ SumOf(f, T) \in Int /\ SumOf(f, S \ T) \in Int
<1> DEFINE P == {U \in SUBSET S : SumOf(f, U) = SumOf(f, U \cap T) + SumOf(f, U \ T)}
<1>0. \A U \in SUBSET S : IsFiniteSet(U) /\ SumOf(f, U) \in Int
  <2> TAKE U \in SUBSET S
  <2>1. IsFiniteSet(U)
    BY FS_Subset
  <2> QED BY <2>1, SumRemove
<1>1. {} \in P
  <2>1. SumOf(f, {}) = 0
    BY SumEquations
  <2>2. {} \cap T = {} /\ {} \ T = {}
    OBVIOUS
  <2> QED BY <2>1, <2>2
<1>2. ASSUME NEW U \in SUBSET S, NEW x \in S, U \in P, x \notin U PROVE U \cup {x} \in P
  <2>1. IsFiniteSet(U) /\ IsFiniteSet(U \cap T) /\ IsFiniteSet(U \ T)
    BY <1>0
  <2>2. SumOf(f, U \cup {x}) = f[x] + SumOf(f, U)
    BY <2>1, <1>2, SumAdd
  <2>3. PICK a \in Int, b \in Int, c \in Int :
          a = SumOf(f, U \cap T) /\ b = SumOf(f, U \ T) /\ c = f[x]
    BY <1>0
  <2>4. SumOf(f, U \cup {x}) = c + (a + b)
    BY <1>2, <2>2, <2>3
  <2>5. CASE x \in T
    <3>1. (U \cup {x}) \cap T = (U \cap T) \cup {x} /\ (U \cup {x}) \ T = U \ T
      BY <2>5
    <3>2. SumOf(f, (U \cap T) \cup {x}) = c + a
      <4>1. x \notin U \cap T /\ \A y \in (U \cap T) \cup {x} : f[y] \in Int
        BY <1>2
      <4> QED BY <2>1, <4>1, <2>3, SumAdd
    <3>3. SumOf(f, U \cup {x}) = SumOf(f, (U \cup {x}) \cap T) + SumOf(f, (U \cup {x}) \ T)
      <4>1. SumOf(f, (U \cup {x}) \cap T) = c + a
        BY <3>1, <3>2
      <4>2. SumOf(f, (U \cup {x}) \ T) = b
        BY <2>3, <3>1
      <4>3. c + (a + b) = (c + a) + b
        OBVIOUS
      <4> QED BY <2>4, <4>1, <4>2, <4>3
    <3> QED BY <3>3
  <2>6. CASE x \notin T
    <3>1. (U \cup {x}) \ T = (U \ T) \cup {x} /\ (U \cup {x}) \cap T = U \cap T
      BY <2>6
    <3>2. SumOf(f, (U \ T) \cup {x}) = c + b
      <4>1. x \notin U \ T /\ \A y \in (U \ T) \cup {x} : f[y] \in Int
        BY <1>2
      <4> QED BY <2>1, <4>1, <2>3, SumAdd
    <3>3. SumOf(f, U \cup {x}) = SumOf(f, (U \cup {x}) \cap T) + SumOf(f, (U \cup {x}) \ T)
      <4>1. SumOf(f, (U \cup {x}) \ T) = c + b
        BY <3>1, <3>2
      <4>2. SumOf(f, (U \cup {x}) \cap T) = a
        BY <2>3, <3>1
      <4>3. c + (a + b) = a + (c + b)
        OBVIOUS
      <4> QED BY <2>4, <4>1, <4>2, <4>3
    <3> QED BY <3>3
  <2> QED BY <2>5, <2>6
<1>3. S \in P
  <2> HIDE DEF P
  <2> QED BY <1>1, <1>2, SubsetInduction
<1>4. S \cap T = T
  OBVIOUS
<1> QED BY <1>0, <1>3, <1>4

LEMMA CardMinus ==
  ASSUME NEW S, IsFiniteSet(S), NEW T \in SUBSET S
  PROVE  Cardinality(S \ T) = Cardinality(S) - Cardinality(T) /\ Cardinality(S \ T) \in Nat
<1>1. IsFiniteSet(T) /\ IsFiniteSet(S \ T)
  BY FS_Subset
<1>2. Cardinality(S) \in Nat /\ Cardinality(T) \in Nat /\ Cardinality(S \ T) \in Nat
  BY <1>1, FS_CardinalityType
<1>3. Cardinality(S \ T) = Cardinality(S) - Cardinality(S \cap T)
  BY <1>1, FS_Difference
<1>4. S \cap T = T
  OBVIOUS
<1> QED BY <1>2, <1>3, <1>4

-----------------------------------------------------------------------------
(* The ring of a mean. *)

LEMMA WindowStart == ASSUME WindowAssumption, WindowInit PROVE WindowInv
<1>0. size \in Nat \ {0} /\ MaxTime \in Nat
  BY DEF WindowInit, WindowAssumption
<1>1. slots \in [0..(size - 1) -> [bucket : Nat, val : Nat, ok : BOOLEAN]]
  BY DEF WindowInit
<1>2. WindowTypes
  <2>1. sum \in Int /\ n \in Nat /\ first \in Nat /\ lastBk \in Nat
    BY DEF WindowInit
  <2>2. heard \in [0..MaxTime -> Nat]
    BY DEF WindowInit, Silent
  <2>3. last \in {Never} \cup 0..MaxTime
    BY DEF WindowInit
  <2> QED BY <1>0, <1>1, <2>1, <2>2, <2>3 DEF WindowTypes
<1>3. Filled = {} /\ Heard = {} /\ last = Never
  BY DEF Filled, Heard, WindowInit
<1>4. LastIsLatest
  BY <1>3 DEF LastIsLatest, WindowInit
<1>5. RunningTotals
  <2>1. Cardinality({}) = 0 /\ IsFiniteSet({})
    BY FS_EmptySet
  <2>2. SumOf([i \in 0..(size - 1) |-> slots[i].val], {}) = 0
    BY <2>1, SumEquations
  <2>3. n = 0 /\ sum = 0
    BY DEF WindowInit
  <2> QED BY <1>3, <2>1, <2>2, <2>3 DEF RunningTotals
<1> QED BY <1>2, <1>3, <1>4, <1>5 DEF WindowInv, RingHolds, FirstIsOldest, SinceStarted

\* The times and intervals of what was heard.
LEMMA HeardIs ==
  ASSUME WindowAssumption, WindowInv
  PROVE  /\ size \in Nat \ {0} /\ Heard \in SUBSET (0..MaxTime) /\ MaxTime \in Nat
         /\ lastBk \in Nat /\ \A t \in Heard : bucket(t) \in Nat
         /\ last # Never => /\ last \in Heard /\ last \in Nat /\ lastBk = bucket(last)
                            /\ \A t \in Heard : t <= last /\ bucket(t) <= lastBk
         /\ \A b \in HeardBuckets(last) : /\ b \in Nat /\ b > bucket(last) - size
                                          /\ \E t \in Heard : b = bucket(t)
<1>1. size \in Nat \ {0} /\ Heard \in SUBSET (0..MaxTime) /\ MaxTime \in Nat /\ lastBk \in Nat
  BY DEF WindowInv, WindowTypes, Heard, WindowAssumption
<1>2. \A t \in Heard : t \in Nat
  BY <1>1
<1>3. \A t \in Heard : bucket(t) \in Nat
  BY <1>2, BucketIs
<1>4. ASSUME last # Never
      PROVE  /\ last \in Heard /\ last \in Nat /\ lastBk = bucket(last)
             /\ \A t \in Heard : t <= last /\ bucket(t) <= lastBk
  <2>1. last \in Heard /\ lastBk = bucket(last) /\ \A t \in Heard : t <= last
    BY <1>4 DEF WindowInv, LastIsLatest
  <2> QED BY <1>2, <2>1, BucketIs
<1>5. \A b \in HeardBuckets(last) : /\ b \in Nat /\ b > bucket(last) - size
                                    /\ \E t \in Heard : b = bucket(t)
  BY <1>3 DEF HeardBuckets
<1> QED BY <1>1, <1>3, <1>4, <1>5

\* Only slots that were crossed can have left the window: that of interval b is crossed when b + size
\* begins, or before.
LEMMA Evictions ==
  ASSUME WindowAssumption, WindowInv, NEW t \in 0..MaxTime, last = Never \/ t >= last
  PROVE  /\ evicted(bucket(t)) = {j \in Filled : slots[j].bucket <= bucket(t) - size}
         /\ \A j \in Filled : /\ last # Never /\ slots[j].bucket \in Nat /\ slots[j].bucket <= lastBk
                              /\ slots[j].bucket > lastBk - size /\ SlotOf(slots[j].bucket) = j
         /\ bucket(t) \in Nat /\ (last # Never => lastBk <= bucket(t))
<1> DEFINE bk == bucket(t)
<1>1. size \in Nat \ {0} /\ lastBk \in Nat /\ bk \in Nat /\ (last # Never => lastBk <= bk)
  <2>1. t \in Nat
    BY DEF WindowAssumption
  <2>2. bk \in Nat
    BY <2>1, BucketIs
  <2>3. last # Never => lastBk <= bk
    <3> SUFFICES ASSUME last # Never PROVE lastBk <= bk
      OBVIOUS
    <3>1. last \in Nat /\ last <= t /\ lastBk = bucket(last)
      BY HeardIs
    <3> QED BY <2>1, <3>1, BucketIs
  <2> QED BY <2>2, <2>3, HeardIs
<1> HIDE DEF bk
<1>2. ASSUME NEW j \in Filled
      PROVE  /\ last # Never /\ slots[j].bucket \in Nat /\ slots[j].bucket <= lastBk
             /\ slots[j].bucket > lastBk - size /\ SlotOf(slots[j].bucket) = j
  <2>1. last # Never
    BY DEF WindowInv, LastIsLatest
  <2>2. slots[j].bucket \in HeardBuckets(last) /\ SlotOf(slots[j].bucket) = j
    BY <2>1 DEF WindowInv, RingHolds
  <2>3. PICK b : b = slots[j].bucket
    OBVIOUS
  <2>4. b \in Nat /\ b > bucket(last) - size /\ \E u \in Heard : b = bucket(u)
    BY <2>2, <2>3, HeardIs
  <2>5. lastBk = bucket(last) /\ \A u \in Heard : bucket(u) <= lastBk
    BY <2>1, HeardIs
  <2> QED BY <2>1, <2>2, <2>3, <2>4, <2>5
<1>3. ASSUME NEW j \in Filled, slots[j].bucket <= bk - size PROVE j \in evicted(bk)
  <2>1. PICK b \in Nat : b = slots[j].bucket /\ b <= lastBk /\ b > lastBk - size /\ SlotOf(b) = j
    BY <1>2
  <2>2. n # 0
    <3>1. Filled \in SUBSET (0..(size - 1)) /\ n = Cardinality(Filled)
      BY DEF Filled, WindowInv, RunningTotals
    <3>2. IsFiniteSet(Filled)
      <4>1. IsFiniteSet(0..(size - 1))
        BY <1>1, FS_Interval
      <4> QED BY <3>1, <4>1, FS_Subset
    <3> QED BY <3>1, <3>2, FS_EmptySet
  <2>3. PICK o \in Int : o = b + size - lastBk
    BY <1>1
  <2>4. o \in 1..(bk - lastBk) /\ lastBk + o = b + size
    BY <1>1, <1>2, <1>3, <2>1, <2>3
  <2>5. SlotOf(lastBk + o) = j
    BY <1>1, <2>1, <2>4, SlotIs
  <2>6. j \in Crossed(bk)
    BY <2>2, <2>4, <2>5 DEF Crossed
  <2> QED BY <1>3, <2>6 DEF evicted, Filled
<1>4. ASSUME NEW j \in evicted(bk) PROVE j \in Filled /\ slots[j].bucket <= bk - size
  <2>1. j \in Crossed(bk) /\ slots[j].ok /\ slots[j].bucket <= bk - size
    BY DEF evicted
  <2>2. PICK o \in 1..(bk - lastBk) : j = SlotOf(lastBk + o)
    BY <2>1 DEF Crossed
  <2>3. lastBk + o \in Nat
    BY <1>1, <2>2
  <2>4. j \in 0..(size - 1)
    BY <1>1, <2>2, <2>3, SlotIs
  <2> QED BY <2>1, <2>4 DEF Filled
<1>5. evicted(bk) = {j \in Filled : slots[j].bucket <= bk - size}
  BY <1>3, <1>4
<1> QED BY <1>1, <1>2, <1>5 DEF bk

\* What stays in the ring as interval bucket(t) begins.
Kept(t) == Filled \ evicted(bucket(t))

LEMMA KeptIs ==
  ASSUME WindowAssumption, WindowInv, NEW t \in 0..MaxTime, last = Never \/ t >= last
  PROVE  /\ Kept(t) = {j \in Filled : slots[j].bucket > bucket(t) - size}
         /\ \A j \in Kept(t) : j = SlotOf(bucket(t)) => slots[j].bucket = bucket(t)
         /\ Kept(t) # {} => last # Never /\ lastBk > bucket(t) - size
<1>1. size \in Nat \ {0} /\ lastBk \in Nat
  BY HeardIs
<1>2. /\ evicted(bucket(t)) = {j \in Filled : slots[j].bucket <= bucket(t) - size}
      /\ \A j \in Filled : /\ last # Never /\ slots[j].bucket \in Nat /\ slots[j].bucket <= lastBk
                           /\ SlotOf(slots[j].bucket) = j
      /\ bucket(t) \in Nat /\ (last # Never => lastBk <= bucket(t))
  BY Evictions
<1>3. PICK bk \in Nat : bk = bucket(t)
  BY <1>2
<1>4. Kept(t) = {j \in Filled : slots[j].bucket > bk - size}
  <2>1. \A j \in Filled : slots[j].bucket > bk - size <=> ~(slots[j].bucket <= bk - size)
    BY <1>1, <1>2, <1>3
  <2> QED BY <1>2, <1>3, <2>1 DEF Kept
<1>5. ASSUME NEW j \in Kept(t), j = SlotOf(bk) PROVE slots[j].bucket = bk
  <2>1. PICK b \in Nat : b = slots[j].bucket /\ b <= bk /\ b > bk - size /\ SlotOf(b) = SlotOf(bk)
    BY <1>1, <1>2, <1>3, <1>4, <1>5
  <2>2. b < bk + size /\ bk < b + size
    BY <1>1, <2>1
  <2>3. b = bk
    BY <1>1, <2>1, <2>2, SlotIs
  <2> QED BY <2>1, <2>3
<1>6. ASSUME NEW j \in Kept(t) PROVE last # Never /\ lastBk > bk - size
  <2>1. j \in Filled /\ slots[j].bucket > bk - size
    BY <1>4
  <2>2. last # Never /\ slots[j].bucket \in Nat /\ slots[j].bucket <= lastBk
    BY <1>2, <2>1
  <2> QED BY <1>1, <2>1, <2>2
<1> QED BY <1>3, <1>4, <1>5, <1>6

\* What an update does to the ring.
LEMMA UpdateRing ==
  ASSUME WindowAssumption, WindowInv, NEW t \in 0..MaxTime, NEW x \in Samples, Update(t, x)
  PROVE  LET i == SlotOf(bucket(t)) IN
         /\ i \in 0..(size - 1)
         /\ slots' \in [0..(size - 1) -> [bucket : Nat, val : Nat, ok : BOOLEAN]]
         /\ slots'[i].bucket = bucket(t) /\ slots'[i].val = x /\ slots'[i].ok
         /\ \A j \in Kept(t) : j # i => slots'[j] = slots[j] /\ slots'[j].ok
         /\ Filled' = Kept(t) \cup {i}
         /\ Kept(t) \in SUBSET Filled /\ Filled \in SUBSET (0..(size - 1))
         /\ x \in Nat
<1> DEFINE bk == bucket(t)
           i == SlotOf(bk)
           out == evicted(bk)
           ring == [j \in 0..(size - 1) |-> IF j \in out THEN [slots[j] EXCEPT !.ok = FALSE] ELSE slots[j]]
           new == [bucket |-> bk, val |-> x, ok |-> TRUE]
           Slot == [bucket : Nat, val : Nat, ok : BOOLEAN]
<1>1. size \in Nat \ {0} /\ size' = size /\ slots \in [0..(size - 1) -> Slot] /\ (last = Never \/ t >= last)
  BY DEF WindowInv, WindowTypes, Update
<1>2. bk \in Nat /\ i \in 0..(size - 1) /\ x \in Nat
  <2>1. bk \in Nat
    BY <1>1, Evictions
  <2>2. i \in 0..(size - 1)
    <3> HIDE DEF bk
    <3> QED BY <1>1, <2>1, SlotIs
  <2>3. x \in Nat
    BY DEF WindowAssumption
  <2> QED BY <2>1, <2>2, <2>3
<1>3. slots' = [ring EXCEPT ![i] = new]
  BY DEF Update
<1>4. Kept(t) = Filled \ out /\ Filled = {j \in 0..(size - 1) : slots[j].ok}
  BY DEF Kept, Filled
<1> HIDE DEF bk, i, out
<1>5. new \in Slot
  BY <1>2
<1>6. ring \in [0..(size - 1) -> Slot]
  <2> SUFFICES ASSUME NEW j \in 0..(size - 1)
               PROVE  (IF j \in out THEN [slots[j] EXCEPT !.ok = FALSE] ELSE slots[j]) \in Slot
    OBVIOUS
  <2>1. slots[j] \in Slot
    BY <1>1
  <2>2. [slots[j] EXCEPT !.ok = FALSE] \in Slot
    BY <2>1
  <2> HIDE DEF Slot
  <2> QED BY <2>1, <2>2
<1>7. slots' \in [0..(size - 1) -> Slot] /\ slots'[i] = new /\ \A j \in 0..(size - 1) : j # i => slots'[j] = ring[j]
  <2> HIDE DEF ring, new, Slot
  <2> QED BY <1>2, <1>3, <1>5, <1>6
<1>8. \A j \in 0..(size - 1) : (j \notin out => ring[j] = slots[j]) /\ (j \in out => ~ring[j].ok)
  <2> SUFFICES ASSUME NEW j \in 0..(size - 1)
               PROVE  (j \notin out => ring[j] = slots[j]) /\ (j \in out => ~ring[j].ok)
    OBVIOUS
  <2>1. slots[j] \in Slot
    BY <1>1
  <2>2. [slots[j] EXCEPT !.ok = FALSE].ok = FALSE
    BY <2>1
  <2> QED BY <2>2
<1> HIDE DEF ring
<1>9. ASSUME NEW j \in Kept(t), j # i PROVE slots'[j] = slots[j] /\ slots'[j].ok
  BY <1>4, <1>7, <1>8, <1>9
<1>10. new.bucket = bk /\ new.val = x /\ new.ok
  OBVIOUS
<1> HIDE DEF new, Slot
<1>11. Filled' = Kept(t) \cup {i}
  <2>1. Filled' = {j \in 0..(size - 1) : slots'[j].ok}
    BY <1>1 DEF Filled
  <2>2. ASSUME NEW j \in 0..(size - 1) PROVE slots'[j].ok <=> j \in Kept(t) \cup {i}
    <3>1. CASE j = i
      BY <1>7, <1>10, <3>1
    <3>2. CASE j # i
      BY <1>4, <1>7, <1>8, <3>2
    <3> QED BY <3>1, <3>2
  <2>3. Kept(t) \cup {i} \in SUBSET (0..(size - 1))
    BY <1>2, <1>4
  <2> QED BY <2>1, <2>2, <2>3
<1> QED BY <1>2, <1>4, <1>7, <1>9, <1>10, <1>11 DEF bk, i, Slot

\* What an update does to the count, the sum and the start of the history.
LEMMA UpdateTotals ==
  ASSUME WindowAssumption, WindowInv, NEW t \in 0..MaxTime, NEW x \in Samples, Update(t, x)
  PROVE  LET i == SlotOf(bucket(t))
             vals == [j \in 0..(size - 1) |-> slots[j].val]
         IN  /\ n' = IF i \in Kept(t) THEN Cardinality(Kept(t)) ELSE Cardinality(Kept(t)) + 1
             /\ sum' = SumOf(vals, Kept(t)) + x - (IF i \in Kept(t) THEN slots[i].val ELSE 0)
             /\ started' = IF Kept(t) = {} /\ ~continuous(t) THEN t ELSE started
<1> DEFINE bk == bucket(t)
           i == SlotOf(bk)
           out == evicted(bk)
           ring == [j \in 0..(size - 1) |-> IF j \in out THEN [slots[j] EXCEPT !.ok = FALSE] ELSE slots[j]]
           vals == [j \in 0..(size - 1) |-> slots[j].val]
           gone == [j \in out |-> slots[j].val]
           kept == n - Cardinality(out)
           rest == sum - SumOf(gone, out)
           Slot == [bucket : Nat, val : Nat, ok : BOOLEAN]
<1>1. size \in Nat \ {0} /\ slots \in [0..(size - 1) -> Slot] /\ (last = Never \/ t >= last)
  BY DEF WindowInv, WindowTypes, Update
<1>2. i \in 0..(size - 1) /\ Kept(t) \in SUBSET Filled /\ Filled \in SUBSET (0..(size - 1))
  BY UpdateRing
<1>3. /\ n' = (IF ring[i].ok THEN kept ELSE kept + 1)
      /\ sum' = rest + x - (IF ring[i].ok THEN ring[i].val ELSE 0)
      /\ started' = Began(kept, t)
  BY DEF Update
<1>4. Kept(t) = Filled \ out /\ Filled = {j \in 0..(size - 1) : slots[j].ok}
  BY DEF Kept, Filled
<1>5. out \in SUBSET Filled
  BY <1>1, Evictions
<1>6. n = Cardinality(Filled) /\ sum = SumOf(vals, Filled)
  BY DEF WindowInv, RunningTotals
<1> HIDE DEF bk, i, out
<1>7. IsFiniteSet(Filled) /\ IsFiniteSet(out) /\ IsFiniteSet(Kept(t))
  <2>1. IsFiniteSet(0..(size - 1))
    BY <1>1, FS_Interval
  <2>2. IsFiniteSet(Filled)
    BY <1>2, <2>1, FS_Subset
  <2> QED BY <1>2, <1>5, <2>2, FS_Subset
<1>8. /\ ring[i].ok <=> i \in Kept(t)
      /\ i \in Kept(t) => ring[i] = slots[i]
  <2>1. slots[i] \in Slot /\ ring[i] = IF i \in out THEN [slots[i] EXCEPT !.ok = FALSE] ELSE slots[i]
    BY <1>1, <1>2
  <2> HIDE DEF ring
  <2>2. CASE i \in out
    <3>1. ring[i].ok = FALSE
      BY <2>1, <2>2
    <3> QED BY <1>4, <2>2, <3>1
  <2>3. CASE i \notin out
    <3>1. ring[i] = slots[i]
      BY <2>1, <2>3
    <3> QED BY <1>2, <1>4, <2>3, <3>1
  <2> QED BY <2>2, <2>3
<1>9. kept = Cardinality(Kept(t)) /\ kept \in Nat
  BY <1>4, <1>5, <1>6, <1>7, CardMinus
<1>10. rest = SumOf(vals, Kept(t))
  <2>1. \A j \in 0..(size - 1) : vals[j] \in Int /\ vals[j] = slots[j].val
    <3> SUFFICES ASSUME NEW j \in 0..(size - 1) PROVE slots[j].val \in Nat
      OBVIOUS
    <3>1. slots[j] \in Slot
      BY <1>1
    <3> QED BY <3>1
  <2>2. \A j \in out : gone[j] = vals[j]
    BY <1>2, <1>5, <2>1
  <2> HIDE DEF vals, gone
  <2>3. SumOf(gone, out) = SumOf(vals, out)
    BY <1>2, <1>5, <1>7, <2>1, <2>2, SumCongruent
  <2>4. SumOf(vals, Filled) = SumOf(vals, out) + SumOf(vals, Filled \ out)
        /\ SumOf(vals, out) \in Int /\ SumOf(vals, Filled \ out) \in Int
    <3>1. \A j \in Filled : vals[j] \in Int
      BY <1>2, <2>1
    <3> QED BY <1>5, <1>7, <3>1, SumSplit
  <2>5. PICK a \in Int, b \in Int : a = SumOf(vals, out) /\ b = SumOf(vals, Filled \ out)
    BY <2>4
  <2>6. rest = (a + b) - a
    BY <1>6, <2>3, <2>4, <2>5
  <2> QED BY <1>4, <2>5, <2>6
<1>11. kept = 0 <=> Kept(t) = {}
  BY <1>7, <1>9, FS_EmptySet
<1>12. n' = (IF i \in Kept(t) THEN Cardinality(Kept(t)) ELSE Cardinality(Kept(t)) + 1)
  BY <1>3, <1>8, <1>9
<1>13. sum' = SumOf(vals, Kept(t)) + x - (IF i \in Kept(t) THEN slots[i].val ELSE 0)
  <2> HIDE DEF ring, rest, vals
  <2> QED BY <1>3, <1>8, <1>10
<1>14. started' = (IF Kept(t) = {} /\ ~continuous(t) THEN t ELSE started)
  <2> HIDE DEF kept
  <2> QED BY <1>3, <1>11 DEF Began
<1> QED BY <1>12, <1>13, <1>14 DEF bk, i

LEMMA TotalsStep ==
  ASSUME WindowAssumption, WindowInv, NEW t \in 0..MaxTime, NEW x \in Samples, Update(t, x)
  PROVE  RunningTotals' /\ n' \in Nat /\ sum' \in Int /\ (Kept(t) = {} => n' = 1)
<1> DEFINE i == SlotOf(bucket(t))
           vals == [j \in 0..(size - 1) |-> slots[j].val]
           next == [j \in 0..(size - 1) |-> slots'[j].val]
           F == Kept(t)
           Slot == [bucket : Nat, val : Nat, ok : BOOLEAN]
<1>1. /\ size \in Nat \ {0} /\ size' = size /\ slots \in [0..(size - 1) -> Slot]
  BY DEF WindowInv, WindowTypes, Update
<1>2. /\ i \in 0..(size - 1) /\ slots' \in [0..(size - 1) -> Slot]
      /\ slots'[i].val = x
      /\ \A j \in F : j # i => slots'[j] = slots[j]
      /\ Filled' = F \cup {i} /\ F \in SUBSET (0..(size - 1)) /\ x \in Nat
  BY UpdateRing
<1>3. /\ n' = (IF i \in F THEN Cardinality(F) ELSE Cardinality(F) + 1)
      /\ sum' = SumOf(vals, F) + x - (IF i \in F THEN slots[i].val ELSE 0)
  BY UpdateTotals
<1>4. RunningTotals' <=> n' = Cardinality(Filled') /\ sum' = SumOf(next, Filled')
  BY <1>1 DEF RunningTotals
<1> HIDE DEF i, F
<1>5. IsFiniteSet(F) /\ Cardinality(F) \in Nat /\ (F = {} => Cardinality(F) = 0)
  <2>1. IsFiniteSet(0..(size - 1))
    BY <1>1, FS_Interval
  <2>2. IsFiniteSet(F)
    BY <1>2, <2>1, FS_Subset
  <2>3. Cardinality(F) \in Nat
    BY <2>2, FS_CardinalityType
  <2> QED BY <2>2, <2>3, FS_EmptySet
<1>6. \A j \in 0..(size - 1) : vals[j] \in Int /\ next[j] \in Int /\ vals[j] = slots[j].val /\ next[j] = slots'[j].val
  <2> SUFFICES ASSUME NEW j \in 0..(size - 1) PROVE slots[j].val \in Nat /\ slots'[j].val \in Nat
    OBVIOUS
  <2>1. slots[j] \in Slot /\ slots'[j] \in Slot
    BY <1>1, <1>2
  <2> QED BY <2>1
<1> HIDE DEF vals, next
<1> DEFINE R == F \ {i}
<1>7. IsFiniteSet(R) /\ i \notin R /\ R \cup {i} = F \cup {i} /\ R \in SUBSET (0..(size - 1))
  BY <1>2, <1>5, FS_Subset
<1>8. SumOf(next, R) = SumOf(vals, R) /\ SumOf(vals, R) \in Int
  <2>1. \A j \in R : vals[j] \in Int /\ next[j] = vals[j]
    BY <1>2, <1>6, <1>7
  <2> HIDE DEF R
  <2> QED BY <1>7, <2>1, SumCongruent, SumRemove
<1>9. SumOf(next, F \cup {i}) = x + SumOf(next, R)
  <2>1. \A j \in R \cup {i} : next[j] \in Int
    BY <1>2, <1>6
  <2>2. next[i] = x
    BY <1>2, <1>6
  <2> HIDE DEF R
  <2>3. SumOf(next, R \cup {i}) = next[i] + SumOf(next, R)
    BY <1>7, <2>1, SumAdd
  <2> QED BY <1>7, <2>2, <2>3
<1>10. CASE i \in F
  <2>1. SumOf(vals, F) = vals[i] + SumOf(vals, R)
    BY <1>2, <1>5, <1>6, <1>10, SumRemove
  <2>2. F \cup {i} = F /\ n' = Cardinality(F) /\ F # {}
    BY <1>3, <1>10
  <2> HIDE DEF R
  <2>3. PICK a \in Int, b \in Int : a = SumOf(vals, R) /\ b = vals[i] /\ b = slots[i].val
    BY <1>2, <1>6, <1>8
  <2>4. sum' = (b + a) + x - b /\ SumOf(next, Filled') = x + a
    BY <1>2, <1>3, <1>8, <1>9, <1>10, <2>1, <2>3
  <2>5. sum' = x + a /\ x + a \in Int
    BY <1>2, <2>3, <2>4
  <2>6. n' = Cardinality(Filled') /\ n' \in Nat
    BY <1>2, <1>5, <2>2
  <2>7. sum' = SumOf(next, Filled') /\ sum' \in Int
    BY <2>4, <2>5
  <2> QED BY <1>4, <2>2, <2>6, <2>7 DEF F
<1>11. CASE i \notin F
  <2>1. R = F
    BY <1>11
  <2>2. Cardinality(F \cup {i}) = Cardinality(F) + 1
    BY <1>5, <1>11, FS_AddElement
  <2>3. n' = Cardinality(F) + 1 /\ sum' = SumOf(vals, F) + x
    BY <1>2, <1>3, <1>11, <2>1, <1>8
  <2>4. PICK a \in Int : a = SumOf(vals, F)
    BY <1>8, <2>1
  <2> HIDE DEF R
  <2>5. sum' = a + x /\ SumOf(next, Filled') = x + a
    BY <1>2, <1>8, <1>9, <2>1, <2>3, <2>4
  <2>6. sum' = SumOf(next, Filled') /\ sum' \in Int
    BY <1>2, <2>4, <2>5
  <2>7. n' = Cardinality(Filled') /\ n' \in Nat /\ (F = {} => n' = 1)
    BY <1>2, <1>5, <2>2, <2>3
  <2> QED BY <1>4, <2>6, <2>7 DEF F
<1> QED BY <1>10, <1>11 DEF F

\* What an update does to the history: intervals that left the window are forgotten, that of the
\* sample is there, and the last samples of the others are as they were.
LEMMA UpdateHistory ==
  ASSUME WindowAssumption, WindowInv, NEW t \in 0..MaxTime, NEW x \in Samples, Update(t, x)
  PROVE  LET bk == bucket(t) IN
         /\ Heard' = Heard \cup {t} /\ last' = t /\ lastBk' = bk /\ size' = size
         /\ \A u \in Heard : u <= t /\ bucket(u) <= bk
         /\ HeardBuckets(last)' = {b \in HeardBuckets(last) : b > bk - size /\ last # Never} \cup {bk}
         /\ heard' \in [0..MaxTime -> Nat] /\ heard'[LastIn(bk)'] = x
         /\ \A b \in HeardBuckets(last) : b # bk => heard'[LastIn(b)'] = heard[LastIn(b)]
<1> DEFINE bk == bucket(t)
<1>1. /\ size \in Nat \ {0} /\ Heard \in SUBSET (0..MaxTime) /\ MaxTime \in Nat
      /\ t \in Nat /\ x \in Nat /\ x # Silent
  <2>1. t \in Nat /\ x \in Nat /\ x # Silent
    BY DEF WindowAssumption, Silent
  <2> QED BY <2>1, HeardIs
<1>2. last' = t /\ lastBk' = bk /\ size' = size /\ heard' = [heard EXCEPT ![t] = x] /\ (last = Never \/ t >= last)
  BY DEF Update
<1>3. heard \in [0..MaxTime -> Nat] /\ Heard = {u \in 0..MaxTime : heard[u] # Silent}
  BY DEF WindowInv, WindowTypes, Heard
<1>4. /\ heard' \in [0..MaxTime -> Nat] /\ heard'[t] = x
      /\ \A u \in 0..MaxTime : u # t => heard'[u] = heard[u]
  BY <1>1, <1>2, <1>3
<1>5. Heard' = Heard \cup {t}
  <2>1. Heard' = {u \in 0..MaxTime : heard'[u] # Silent}
    BY DEF Heard
  <2>2. ASSUME NEW u \in 0..MaxTime PROVE heard'[u] # Silent <=> u \in Heard \cup {t}
    <3>1. CASE u = t
      BY <1>1, <1>4, <3>1
    <3>2. CASE u # t
      BY <1>3, <1>4, <3>2
    <3> QED BY <3>1, <3>2
  <2>3. Heard \cup {t} \in SUBSET (0..MaxTime)
    BY <1>1
  <2> QED BY <2>1, <2>2, <2>3
<1>6. ASSUME NEW u \in Heard PROVE u <= t /\ bucket(u) <= bk /\ bucket(u) \in Nat /\ last # Never /\ bk \in Nat
  <2>1. last # Never
    BY DEF WindowInv, LastIsLatest
  <2>2. last \in Nat /\ u <= last /\ last <= t /\ u \in Nat
    BY <1>1, <1>2, <2>1, HeardIs
  <2>3. u <= t
    BY <1>1, <2>2
  <2>4. bucket(u) <= bucket(t) /\ bucket(u) \in Nat /\ bucket(t) \in Nat
    BY <1>1, <2>2, <2>3, BucketIs
  <2> QED BY <2>1, <2>3, <2>4
<1>7. bk \in Nat
  BY <1>1, BucketIs
<1>8. HeardBuckets(last)' = {bucket(u) : u \in {v \in Heard \cup {t} : bucket(v) > bk - size}}
  BY <1>2, <1>5 DEF HeardBuckets
<1>9. HeardBuckets(last) = {bucket(u) : u \in {v \in Heard : bucket(v) > bucket(last) - size}}
  BY DEF HeardBuckets
<1>10. last # Never => bucket(last) <= bk /\ bucket(last) \in Nat
  BY <1>6, HeardIs
<1> HIDE DEF bk
<1>11. HeardBuckets(last)' = {b \in HeardBuckets(last) : b > bk - size /\ last # Never} \cup {bk}
  <2>1. ASSUME NEW u \in Heard, bucket(u) > bk - size PROVE bucket(u) \in HeardBuckets(last) /\ last # Never
    <3>1. last # Never /\ bucket(u) \in Nat /\ bucket(last) <= bk /\ bucket(last) \in Nat
      BY <1>6, <1>10
    <3>2. bucket(u) > bucket(last) - size
      BY <1>1, <1>7, <2>1, <3>1
    <3> QED BY <1>9, <3>1, <3>2
  <2>2. ASSUME NEW b \in HeardBuckets(last) PROVE \E u \in Heard : b = bucket(u)
    BY <1>9
  <2>3. bk > bk - size /\ bk = bucket(t)
    BY <1>1, <1>7 DEF bk
  <2> QED BY <1>8, <2>1, <2>2, <2>3
<1>12. heard'[LastIn(bk)'] = x
  <2> DEFINE S == {u \in Heard \cup {t} : bucket(u) = bk}
  <2>1. LastIn(bk)' = Max(S)
    BY <1>5 DEF LastIn
  <2>2. S \in SUBSET Nat /\ t \in S /\ \A u \in S : u <= t
    <3>1. \A u \in Heard \cup {t} : u \in Nat /\ u <= t
      BY <1>1, <1>6
    <3>2. bucket(t) = bk
      BY DEF bk
    <3> QED BY <3>1, <3>2
  <2> HIDE DEF S
  <2>3. Max(S) = t
    BY <2>2, MaxIs
  <2> QED BY <1>4, <2>1, <2>3
<1>13. ASSUME NEW b \in HeardBuckets(last), b # bk PROVE heard'[LastIn(b)'] = heard[LastIn(b)]
  <2> DEFINE S == {u \in Heard : bucket(u) = b}
  <2>1. LastIn(b) = Max(S)
    BY DEF LastIn
  <2>2. LastIn(b)' = Max(S)
    <3>1. {u \in Heard' : bucket(u) = b} = S
      BY <1>5, <1>13 DEF bk
    <3> QED BY <3>1 DEF LastIn
  <2>3. S \in SUBSET (0..MaxTime) /\ S # {}
    BY <1>1, <1>9
  <2>4. Max(S) \in S
    <3> HIDE DEF S
    <3> QED BY <1>1, <2>3, MaxExists
  <2>5. Max(S) \in 0..MaxTime /\ bucket(Max(S)) = b
    BY <1>1, <2>4
  <2> HIDE DEF S
  <2>6. Max(S) # t
    BY <1>13, <2>5 DEF bk
  <2> QED BY <1>4, <2>1, <2>2, <2>5, <2>6
<1> QED BY <1>2, <1>4, <1>5, <1>6, <1>11, <1>12, <1>13 DEF bk

LEMMA HoldsStep ==
  ASSUME WindowAssumption, WindowInv, NEW t \in 0..MaxTime, NEW x \in Samples, Update(t, x)
  PROVE  RingHolds'
<1> DEFINE bk == bucket(t)
           i == SlotOf(bk)
           B == HeardBuckets(last)
<1>1. size \in Nat \ {0} /\ size' = size /\ bk \in Nat /\ (last = Never \/ t >= last)
  <2>1. last = Never \/ t >= last
    BY DEF Update
  <2> QED BY <2>1, HeardIs, Evictions, UpdateHistory
<1>2. /\ i \in 0..(size - 1)
      /\ slots'[i].bucket = bk /\ slots'[i].val = x /\ slots'[i].ok
      /\ \A j \in Kept(t) : j # i => slots'[j] = slots[j] /\ slots'[j].ok
      /\ Filled' = Kept(t) \cup {i}
  BY UpdateRing
<1>3. /\ HeardBuckets(last)' = {b \in B : b > bk - size /\ last # Never} \cup {bk}
      /\ heard'[LastIn(bk)'] = x
      /\ \A b \in B : b # bk => heard'[LastIn(b)'] = heard[LastIn(b)]
      /\ \A u \in Heard : bucket(u) <= bk
  BY UpdateHistory
<1>4. Kept(t) = {j \in Filled : slots[j].bucket > bk - size} /\ (Kept(t) # {} => last # Never)
  BY <1>1, KeptIs
<1>5. last # Never =>
        /\ \A j \in Filled : /\ slots[j].bucket \in B /\ SlotOf(slots[j].bucket) = j
                             /\ slots[j].val = heard[LastIn(slots[j].bucket)]
        /\ \A b \in B : slots[SlotOf(b)].ok /\ slots[SlotOf(b)].bucket = b
  BY DEF WindowInv, RingHolds
<1>6. \A b \in B : b \in Nat /\ b <= bk /\ (b # bk /\ b > bk - size => SlotOf(b) # i /\ SlotOf(b) \in 0..(size - 1))
  <2> SUFFICES ASSUME NEW b \in B
               PROVE  b \in Nat /\ b <= bk /\ (b # bk /\ b > bk - size => SlotOf(b) # i /\ SlotOf(b) \in 0..(size - 1))
    OBVIOUS
  <2>1. b \in Nat /\ b <= bk
    BY <1>3, HeardIs
  <2> HIDE DEF bk
  <2>2. ASSUME b # bk, b > bk - size PROVE SlotOf(b) # SlotOf(bk)
    <3>1. b < bk + size /\ bk < b + size
      BY <1>1, <2>1, <2>2
    <3> QED BY <1>1, <2>1, <2>2, <3>1, SlotIs
  <2> QED BY <1>1, <2>1, <2>2, SlotIs
<1>7. \A b : SlotOf(b)' = SlotOf(b)
  BY <1>1 DEF SlotOf
<1> HIDE DEF bk, i, B
<1>8. ASSUME NEW j \in Filled'
      PROVE  /\ slots'[j].bucket \in HeardBuckets(last)' /\ (SlotOf(slots[j].bucket) = j)'
             /\ (slots[j].val = heard[LastIn(slots[j].bucket)])'
  <2>1. CASE j = i
    BY <1>2, <1>3, <1>7, <2>1 DEF i
  <2>2. CASE j # i
    <3>1. j \in Kept(t) /\ slots'[j] = slots[j] /\ last # Never
      BY <1>2, <1>4, <2>2
    <3>2. PICK b \in B : /\ b = slots[j].bucket /\ b > bk - size /\ SlotOf(b) = j
                         /\ slots[j].val = heard[LastIn(b)]
      BY <1>4, <1>5, <3>1
    <3>3. b # bk
      BY <2>2, <3>2 DEF i
    <3>4. b \in HeardBuckets(last)' /\ heard'[LastIn(b)'] = heard[LastIn(b)]
      BY <1>3, <3>1, <3>2, <3>3
    <3> QED BY <1>7, <3>1, <3>2, <3>4
  <2> QED BY <2>1, <2>2
<1>9. ASSUME NEW b \in HeardBuckets(last)' PROVE slots'[SlotOf(b)'].ok /\ slots'[SlotOf(b)'].bucket = b
  <2>1. CASE b = bk
    BY <1>2, <1>7, <2>1 DEF i
  <2>2. CASE b # bk
    <3>1. b \in B /\ b > bk - size /\ last # Never
      BY <1>3, <2>2
    <3>2. slots[SlotOf(b)].ok /\ slots[SlotOf(b)].bucket = b /\ SlotOf(b) # i /\ SlotOf(b) \in 0..(size - 1)
      BY <1>5, <1>6, <2>2, <3>1
    <3>3. SlotOf(b) \in Kept(t)
      BY <1>4, <3>1, <3>2 DEF Filled
    <3>4. slots'[SlotOf(b)] = slots[SlotOf(b)] /\ slots'[SlotOf(b)].ok
      BY <1>2, <3>2, <3>3
    <3> QED BY <1>7, <3>2, <3>4
  <2> QED BY <2>1, <2>2
<1> QED BY <1>8, <1>9 DEF RingHolds

LEMMA FirstStep ==
  ASSUME WindowAssumption, WindowInv, NEW t \in 0..MaxTime, NEW x \in Samples, Update(t, x)
  PROVE  FirstIsOldest' /\ first' \in Nat
<1> DEFINE bk == bucket(t)
           B == HeardBuckets(last)
           C == HeardBuckets(last)'
<1>1. size \in Nat \ {0} /\ size' = size /\ bk \in Nat /\ (last = Never \/ t >= last) /\ lastBk \in Nat
      /\ (last # Never => lastBk <= bk /\ lastBk = bucket(last))
  <2>1. last = Never \/ t >= last
    BY DEF Update
  <2> QED BY <2>1, HeardIs, Evictions, UpdateHistory
<1>2. C = {b \in B : b > bk - size /\ last # Never} \cup {bk} /\ last' = t
  BY UpdateHistory
<1>3. \A b \in B : b \in Nat /\ b > bucket(last) - size /\ \E u \in Heard : b = bucket(u)
  BY HeardIs
<1>4. \A u \in Heard : bucket(u) <= bk
  BY UpdateHistory
<1>5. first \in Nat /\ (last = Never => first = 0) /\ (last # Never => first \in B /\ \A b \in B : first <= b)
  BY DEF WindowInv, WindowTypes, LastIsLatest, FirstIsOldest
<1>6. \A b \in C : slots'[SlotOf(b)].ok /\ slots'[SlotOf(b)].bucket = b
  <2>1. RingHolds' /\ last' # Never
    <3>1. t # Never
      BY DEF Never
    <3> QED BY <1>2, <3>1, HoldsStep
  <2>2. \A b \in C : slots'[SlotOf(b)'].ok /\ slots'[SlotOf(b)'].bucket = b
    BY <2>1 DEF RingHolds
  <2>3. \A b : SlotOf(b)' = SlotOf(b)
    BY <1>1 DEF SlotOf
  <2> QED BY <2>2, <2>3
<1>7. \A j \in 0..(size - 1) : slots'[j].ok => slots'[j].bucket \in C
  <2>1. RingHolds' /\ last' # Never
    <3>1. t # Never
      BY DEF Never
    <3> QED BY <1>2, <3>1, HoldsStep
  <2>2. Filled' = {j \in 0..(size - 1) : slots'[j].ok}
    BY <1>1 DEF Filled
  <2> QED BY <2>1, <2>2 DEF RingHolds
<1> HIDE DEF bk, B, C
<1>8. \A b \in C : b \in Nat /\ b \in (bk - size + 1)..bk /\ b >= first
  <2> SUFFICES ASSUME NEW b \in C PROVE b \in Nat /\ b \in (bk - size + 1)..bk /\ b >= first
    OBVIOUS
  <2>1. CASE b = bk
    <3>1. first <= bk
      <4>1. last # Never => first \in B /\ first <= bk
        BY <1>3, <1>4, <1>5
      <4> QED BY <1>1, <1>5, <4>1
    <3> QED BY <1>1, <1>5, <2>1, <3>1
  <2>2. CASE b # bk
    <3>1. b \in B /\ b > bk - size /\ last # Never
      BY <1>2, <2>2
    <3>2. b \in Nat /\ b <= bk /\ first <= b
      BY <1>3, <1>4, <1>5, <3>1
    <3> QED BY <1>1, <1>5, <3>1, <3>2
  <2> QED BY <2>1, <2>2
<1>9. C \in SUBSET Nat /\ C # {} /\ Min(C) \in C /\ \A b \in C : Min(C) <= b
  <2>1. C \in SUBSET Nat /\ C # {}
    BY <1>2, <1>8
  <2> QED BY <2>1, MinIs
<1>10. oldest(slots', bk) = Min(C)
  <2> DEFINE live == {b \in (bk - size + 1)..bk :
                        b >= first /\ slots'[SlotOf(b)].ok /\ slots'[SlotOf(b)].bucket = b}
  <2>1. oldest(slots', bk) = IF live = {} THEN bk ELSE Min(live)
    BY DEF oldest
  <2>2. ASSUME NEW b \in live PROVE b \in C
    <3>1. b \in Nat /\ slots'[SlotOf(b)].ok /\ slots'[SlotOf(b)].bucket = b
      BY <1>1, <1>5
    <3>2. SlotOf(b) \in 0..(size - 1)
      BY <1>1, <3>1, SlotIs
    <3> QED BY <1>7, <3>1, <3>2
  <2>3. ASSUME NEW b \in C PROVE b \in live
    BY <1>6, <1>8
  <2>4. live = C
    BY <2>2, <2>3
  <2> HIDE DEF live
  <2> QED BY <1>9, <2>1, <2>4
<1>11. first' = IF n' = 1 \/ first <= bk - size THEN Min(C) ELSE first
  <2>1. first' = IF n' = 1 \/ first <= bk - size THEN oldest(slots', bk) ELSE first
    BY DEF Update, bk
  <2> QED BY <1>10, <2>1
<1>12. FirstIsOldest' <=> (last' # Never => first' \in C /\ \A b \in C : first' <= b)
  BY DEF FirstIsOldest, C
<1>13. CASE n' = 1 \/ first <= bk - size
  BY <1>9, <1>11, <1>12, <1>13
<1>14. CASE ~(n' = 1 \/ first <= bk - size)
  <2>1. last # Never
    <3>1. last = Never => Kept(t) = {}
      BY <1>1, KeptIs
    <3>2. Kept(t) = {} => n' = 1
      BY TotalsStep
    <3> QED BY <1>14, <3>1, <3>2
  <2>2. first' = first /\ first \in B /\ first > bk - size
    BY <1>1, <1>5, <1>11, <1>14, <2>1
  <2>3. first \in C
    BY <1>2, <2>1, <2>2
  <2>4. \A b \in C : first <= b
    BY <1>5, <1>8
  <2> QED BY <1>5, <1>12, <2>2, <2>3, <2>4
<1> QED BY <1>13, <1>14

\* A sample begins the history again, or follows the last one.
LEMMA SinceStep ==
  ASSUME WindowAssumption, WindowInv, NEW t \in 0..MaxTime, NEW x \in Samples, Update(t, x)
  PROVE  SinceStarted'
<1>1. /\ size \in Nat \ {0} /\ size' = size /\ t \in Nat /\ (last = Never \/ t >= last)
      /\ Heard \in SUBSET Nat /\ Interval \in Nat \ {0}
  <2>1. size' = size /\ (last = Never \/ t >= last)
    BY DEF Update
  <2>2. t \in Nat /\ Interval \in Nat \ {0}
    BY DEF WindowAssumption
  <2>3. size \in Nat \ {0} /\ Heard \in SUBSET (0..MaxTime) /\ MaxTime \in Nat
    BY HeardIs
  <2> QED BY <2>1, <2>2, <2>3
<1>2. Heard' = Heard \cup {t} /\ \A u \in Heard : u <= t
  BY UpdateHistory
<1>3. started' = IF Kept(t) = {} /\ ~continuous(t) THEN t ELSE started
  BY UpdateTotals
<1>4. \A a, b : Follows(a, b)' <=> Follows(a, b)
  BY <1>1 DEF Follows, bucket
<1>5. CASE Kept(t) = {} /\ ~continuous(t)
  <2>1. started' = t
    BY <1>3, <1>5
  <2>2. ASSUME NEW a \in Heard', NEW b \in Heard', started' <= a, a < b PROVE FALSE
    <3>1. a \in Nat /\ b \in Nat /\ b <= t /\ t <= a
      BY <1>1, <1>2, <2>1, <2>2
    <3> QED BY <1>1, <2>2, <3>1
  <2>3. started' \in Heard'
    BY <1>2, <2>1
  <2> QED BY <2>2, <2>3 DEF SinceStarted
<1>6. CASE ~(Kept(t) = {} /\ ~continuous(t))
  <2>1. started' = started
    BY <1>3, <1>6
  <2>2. last # Never /\ (Kept(t) # {} => lastBk > bucket(t) - size) /\ (Kept(t) = {} => continuous(t))
    <3>1. Kept(t) # {} => last # Never /\ lastBk > bucket(t) - size
      BY <1>1, KeptIs
    <3>2. continuous(t) => last # Never
      BY DEF continuous
    <3> QED BY <1>6, <3>1, <3>2
  <2>3. last \in Nat /\ last \in Heard /\ lastBk = bucket(last) /\ lastBk \in Nat /\ \A u \in Heard : u <= last
    BY <2>2, HeardIs
  <2>4. bucket(t) \in Nat /\ lastBk <= bucket(t) /\ (last <= t /\ bucket(last) = bucket(t) => t - last < Interval)
    BY <1>1, <2>2, <2>3, Evictions, BucketIs
  <2>5. Follows(last, t)
    <3>1. CASE size = 1
      <4>1. CASE continuous(t)
        BY <3>1, <4>1 DEF continuous, Follows
      <4>2. CASE ~continuous(t)
        <5>1. lastBk > bucket(t) - 1
          BY <2>2, <3>1, <4>2
        <5>2. bucket(last) = bucket(t)
          BY <2>3, <2>4, <5>1
        <5>3. t - last < Interval
          BY <1>1, <2>2, <2>4, <5>2
        <5>4. 2 * (t - last - Interval) <= Interval
          BY <1>1, <2>3, <5>3
        <5> QED BY <3>1, <5>4 DEF Follows
      <4> QED BY <4>1, <4>2
    <3>2. CASE size # 1
      <4>1. lastBk > bucket(t) - size
        BY <2>2, <3>2 DEF continuous
      <4>2. bucket(t) - bucket(last) < size
        BY <1>1, <2>3, <2>4, <4>1
      <4> QED BY <3>2, <4>2 DEF Follows
    <3> QED BY <3>1, <3>2
  <2>6. /\ started \in Heard
        /\ \A a, b \in Heard :
             started <= a /\ a < b /\ (\A w \in Heard : w <= a \/ b <= w) => Follows(a, b)
    BY <2>2 DEF WindowInv, SinceStarted
  <2>7. ASSUME NEW a \in Heard', NEW b \in Heard', started <= a, a < b, \A w \in Heard' : w <= a \/ b <= w
        PROVE  Follows(a, b)
    <3>1. a \in Nat /\ b \in Nat /\ a < t /\ a \in Heard /\ b <= t
      <4>1. a \in Nat /\ b \in Nat /\ b <= t
        BY <1>1, <1>2
      <4>2. a < t
        BY <1>1, <2>7, <4>1
      <4>3. a # t
        BY <1>1, <4>1, <4>2
      <4> QED BY <1>2, <4>1, <4>2, <4>3
    <3>2. CASE b \in Heard
      <4>1. \A w \in Heard : w <= a \/ b <= w
        BY <1>2, <2>7
      <4> QED BY <2>6, <2>7, <3>1, <3>2, <4>1
    <3>3. CASE b \notin Heard
      <4>1. b = t
        BY <1>2, <3>3
      <4>2. last <= a \/ b <= last
        BY <1>2, <2>3, <2>7
      <4>3. last # t
        BY <2>3, <3>3, <4>1
      <4>4. a = last
        BY <1>1, <1>2, <2>3, <3>1, <4>1, <4>2, <4>3
      <4> QED BY <2>5, <4>1, <4>4
    <3> QED BY <3>2, <3>3
  <2>8. SinceStarted' <=>
          (last' # Never =>
             /\ started' \in Heard'
             /\ \A a, b \in Heard' :
                  started' <= a /\ a < b /\ (\A w \in Heard' : w <= a \/ b <= w) => Follows(a, b)')
    BY DEF SinceStarted
  <2> QED BY <1>2, <1>4, <2>1, <2>6, <2>7, <2>8
<1> QED BY <1>5, <1>6

LEMMA WindowStep == ASSUME WindowAssumption, WindowInv, [WindowNext]_windowVars PROVE WindowInv'
<1>1. ASSUME NEW t \in 0..MaxTime, NEW x \in Samples, Update(t, x) PROVE WindowInv'
  <2>1. RunningTotals' /\ n' \in Nat /\ sum' \in Int
    BY <1>1, TotalsStep
  <2>2. FirstIsOldest' /\ first' \in Nat
    BY <1>1, FirstStep
  <2>3. RingHolds' /\ SinceStarted'
    BY <1>1, HoldsStep, SinceStep
  <2>4. /\ Heard' = Heard \cup {t} /\ last' = t /\ lastBk' = bucket(t) /\ size' = size
        /\ \A u \in Heard : u <= t
        /\ heard' \in [0..MaxTime -> Nat]
    BY <1>1, UpdateHistory
  <2>5. size \in Nat \ {0} /\ bucket(t) \in Nat /\ t \in Nat /\ t # Never
    <3>1. t \in Nat /\ t # Never
      BY DEF WindowAssumption, Never
    <3> QED BY <3>1, HeardIs, BucketIs
  <2>6. slots' \in [0..(size - 1) -> [bucket : Nat, val : Nat, ok : BOOLEAN]]
    BY <1>1, UpdateRing
  <2>7. WindowTypes'
    BY <2>1, <2>2, <2>4, <2>5, <2>6 DEF WindowTypes
  <2>8. LastIsLatest'
    <3>1. t \in Heard' /\ \A u \in Heard' : u <= last'
      BY <2>4, <2>5
    <3>2. lastBk' = bucket(last)'
      BY <2>4 DEF bucket
    <3> QED BY <2>4, <2>5, <3>1, <3>2 DEF LastIsLatest
  <2> QED BY <2>1, <2>2, <2>3, <2>7, <2>8 DEF WindowInv
<1>2. CASE UNCHANGED windowVars
  <2>1. UNCHANGED <<size, slots, sum, n, first, lastBk, last, started, heard>>
    BY <1>2 DEF windowVars
  <2>2. WindowTypes' /\ LastIsLatest'
    BY <2>1 DEF WindowInv, WindowTypes, LastIsLatest, Filled, Heard, bucket
  <2>3. RingHolds'
    BY <2>1 DEF WindowInv, RingHolds, Filled, Heard, HeardBuckets, LastIn, SlotOf, bucket
  <2>4. RunningTotals'
    BY <2>1 DEF WindowInv, RunningTotals, Filled
  <2>5. FirstIsOldest'
    BY <2>1 DEF WindowInv, FirstIsOldest, Heard, HeardBuckets, bucket
  <2>6. SinceStarted'
    BY <2>1 DEF WindowInv, SinceStarted, Heard, Follows, bucket
  <2> QED BY <2>2, <2>3, <2>4, <2>5, <2>6 DEF WindowInv
<1> QED BY <1>1, <1>2 DEF WindowNext

\* The ring and the history index the same samples, one by slot and one by interval.
LEMMA SameMean == ASSUME WindowAssumption, WindowInv PROVE MeanIsOfWindow
<1> SUFFICES ASSUME last # Never PROVE MeanIsOfWindow
  BY DEF MeanIsOfWindow
<1> DEFINE B == HeardBuckets(last)
           h == [i \in Filled |-> slots[i].bucket]
           vals == [i \in 0..(size - 1) |-> slots[i].val]
           f == [b \in B |-> heard[LastIn(b)]]
<1>1. /\ size \in Nat \ {0} /\ Heard \in SUBSET (0..MaxTime) /\ MaxTime \in Nat /\ last \in Nat /\ last \in Heard
      /\ \A u \in Heard : u <= last
      /\ \A b \in B : b \in Nat /\ b > bucket(last) - size /\ \E u \in Heard : b = bucket(u)
  BY HeardIs
<1>2. /\ \A i \in Filled : /\ slots[i].bucket \in B /\ SlotOf(slots[i].bucket) = i
                           /\ slots[i].val = heard[LastIn(slots[i].bucket)]
      /\ \A b \in B : slots[SlotOf(b)].ok /\ slots[SlotOf(b)].bucket = b
  BY DEF WindowInv, RingHolds
<1>3. n = Cardinality(Filled) /\ sum = SumOf(vals, Filled)
  BY DEF WindowInv, RunningTotals
<1>4. first \in B /\ \A b \in B : first <= b
  BY DEF WindowInv, FirstIsOldest
<1>5. \A b \in B : SlotOf(b) \in 0..(size - 1)
  BY <1>1, SlotIs
<1>6. Filled \in SUBSET (0..(size - 1)) /\ \A i \in 0..(size - 1) : slots[i].ok => i \in Filled
  BY DEF Filled
<1>7. IsFiniteSet(Filled)
  <2>1. IsFiniteSet(0..(size - 1))
    BY <1>1, FS_Interval
  <2> QED BY <1>6, <2>1, FS_Subset
<1>8. \A i \in 0..(size - 1) : vals[i] \in Int /\ vals[i] = slots[i].val
  <2> SUFFICES ASSUME NEW i \in 0..(size - 1) PROVE slots[i].val \in Nat
    OBVIOUS
  <2>1. slots[i] \in [bucket : Nat, val : Nat, ok : BOOLEAN]
    BY DEF WindowInv, WindowTypes
  <2> QED BY <2>1
<1>9. Pairs(h, Filled, B)
  <2>1. h \in [Filled -> B]
    BY <1>2
  <2>2. \A i, j \in Filled : h[i] = h[j] => i = j
    BY <1>2
  <2>3. \A b \in B : \E i \in Filled : h[i] = b
    <3> SUFFICES ASSUME NEW b \in B PROVE SlotOf(b) \in Filled /\ h[SlotOf(b)] = b
      OBVIOUS
    <3> QED BY <1>2, <1>5, <1>6
  <2> HIDE DEF h, B
  <2> QED BY <2>1, <2>2, <2>3 DEF Pairs
<1>10. \A i \in Filled : vals[i] = f[h[i]] /\ vals[i] \in Int
  <2> SUFFICES ASSUME NEW i \in Filled PROVE vals[i] = f[h[i]] /\ vals[i] \in Int
    OBVIOUS
  <2>1. h[i] = slots[i].bucket /\ h[i] \in B
    BY <1>2
  <2>2. f[h[i]] = heard[LastIn(h[i])]
    BY <2>1
  <2> HIDE DEF f, vals, h
  <2> QED BY <1>2, <1>6, <1>8, <2>1, <2>2
<1>11. n = Cardinality(B) /\ sum = SumOf(f, B)
  <2> HIDE DEF h, vals, f, B
  <2>1. Cardinality(Filled) = Cardinality(B)
    BY <1>7, <1>9, SameCount
  <2>2. SumOf(vals, Filled) = SumOf(f, B)
    BY <1>7, <1>9, <1>10, SumReindex
  <2> QED BY <1>3, <2>1, <2>2
<1>12. first = Min(B)
  <2>1. B \in SUBSET Nat /\ B # {}
    BY <1>1, <1>4
  <2> HIDE DEF B
  <2> QED BY <1>4, <2>1, MinIs
<1>13. ASSUME NEW now \in last..MaxTime
       PROVE  {slots[i].bucket : i \in Live(now)} = HeardBuckets(now)
  <2>1. now \in Nat /\ last <= now
    BY <1>1
  <2>2. PICK bn \in Nat, bl \in Nat : bn = bucket(now) /\ bl = bucket(last) /\ bl <= bn
    BY <1>1, <2>1, BucketIs
  <2>3. \A u \in Heard : bucket(u) \in Nat /\ bucket(u) <= bl
    <3> SUFFICES ASSUME NEW u \in Heard PROVE bucket(u) \in Nat /\ bucket(u) <= bl
      OBVIOUS
    <3>1. u \in Nat /\ u <= last
      BY <1>1
    <3> QED BY <1>1, <2>2, <3>1, BucketIs
  <2>4. ASSUME NEW i \in Live(now) PROVE slots[i].bucket \in HeardBuckets(now)
    <3>1. i \in Filled /\ slots[i].bucket > bn - size
      BY <1>6, <2>2 DEF Live
    <3>2. PICK u \in Heard : slots[i].bucket = bucket(u)
      BY <1>1, <1>2, <3>1
    <3> QED BY <2>2, <3>1, <3>2 DEF HeardBuckets
  <2>5. ASSUME NEW b \in HeardBuckets(now) PROVE \E i \in Live(now) : slots[i].bucket = b
    <3>1. PICK u \in Heard : b = bucket(u) /\ b > bn - size
      BY <2>2 DEF HeardBuckets
    <3>2. b \in Nat /\ b <= bn /\ b > bl - size
      BY <1>1, <2>2, <2>3, <3>1
    <3>3. b \in B
      BY <2>2, <3>1, <3>2 DEF HeardBuckets
    <3>4. SlotOf(b) \in 0..(size - 1) /\ slots[SlotOf(b)].ok /\ slots[SlotOf(b)].bucket = b
      BY <1>2, <1>5, <3>3
    <3>5. SlotOf(b) \in Live(now)
      BY <2>2, <3>1, <3>2, <3>4 DEF Live
    <3> QED BY <3>4, <3>5
  <2> QED BY <2>4, <2>5
<1> QED BY <1>11, <1>12, <1>13 DEF MeanIsOfWindow

LEMMA ReadyLong == ASSUME WindowAssumption, WindowInv PROVE ReadyHasHistory
<1> SUFFICES ASSUME NEW now \in 0..MaxTime, ReadyAt(now)
             PROVE  \E from \in Heard :
                      /\ from <= now - MinWarmup
                      /\ \A t \in {h \in Heard : h >= from /\ h < last} : Follows(t, Min({u \in Heard : u > t}))
  BY DEF ReadyHasHistory
<1>1. last # Never /\ now - started >= MinWarmup
  BY DEF ReadyAt
<1>2. /\ Heard \in SUBSET (0..MaxTime) /\ MaxTime \in Nat /\ last \in Heard /\ last \in Nat
      /\ MinWarmup \in Nat
  BY <1>1, HeardIs DEF WindowAssumption
<1>3. /\ started \in Heard
      /\ \A t, u \in Heard :
           started <= t /\ t < u /\ (\A w \in Heard : w <= t \/ u <= w) => Follows(t, u)
  BY <1>1 DEF WindowInv, SinceStarted
<1>4. started <= now - MinWarmup
  BY <1>1, <1>2, <1>3
<1>5. ASSUME NEW t \in Heard, t >= started, t < last PROVE Follows(t, Min({u \in Heard : u > t}))
  <2> DEFINE S == {u \in Heard : u > t}
  <2>1. S \in SUBSET Nat /\ last \in S
    <3>1. last > t /\ Heard \in SUBSET Nat
      BY <1>2, <1>5
    <3> QED BY <1>2, <3>1
  <2>2. Min(S) \in S /\ \A y \in S : Min(S) <= y
    <3> HIDE DEF S
    <3> QED BY <2>1, MinIs
  <2>3. PICK m \in Heard : m = Min(S) /\ m > t /\ \A y \in Heard : y > t => m <= y
    BY <2>2
  <2> HIDE DEF S
  <2>4. \A w \in Heard : w <= t \/ m <= w
    BY <1>2, <2>3
  <2>5. started <= t /\ t < m
    BY <1>2, <1>3, <1>5, <2>3
  <2>6. Follows(t, m)
    BY <1>3, <2>4, <2>5
  <2> QED BY <2>3, <2>6 DEF S
<1> QED BY <1>3, <1>4, <1>5

\* The mean that openings are measured against, its span and its readiness are what the samples heard
\* say, for any window, interval, gap and clock (sma.go: Update, evict, StatsAt).
THEOREM MeanTrue == WindowSpec => []MeanMatchesHistory
<1>1. WindowInv => MeanMatchesHistory
  BY WindowAssumption, SameMean, ReadyLong DEF MeanMatchesHistory
<1>2. WindowInit => WindowInv
  BY WindowAssumption, WindowStart
<1>3. WindowInv /\ [WindowNext]_windowVars => WindowInv'
  BY WindowAssumption, WindowStep
<1> QED BY <1>1, <1>2, <1>3, PTL DEF WindowSpec

=============================================================================
