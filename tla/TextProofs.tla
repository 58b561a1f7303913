-------------------------------- MODULE TextProofs ---------------------------
(* Proofs about what is read, cut and written of texts: the edits of a clip   *)
(* and its words, the search of the memory and what it quotes, and the        *)
(* patterns of the policy, for every clip, document, pattern and bound.       *)
EXTENDS MediaTools, Retrieval, PolicyMatching, FiniteSetTheorems, SequenceTheorems,
        WellFoundedInduction, TLAPS

------------------------------------------------------------------------------
(* Sorting and filtering, and functions that call themselves.                 *)

Orders(R, S) ==
    /\ \A x \in S : <<x, x>> \notin R
    /\ \A x, y \in S : x # y => <<x, y>> \in R \/ <<y, x>> \in R
    /\ \A x, y, z \in S : <<x, y>> \in R /\ <<y, z>> \in R => <<x, z>> \in R

LEMMA ListedIs ==
    ASSUME NEW S, IsFiniteSet(S), NEW R, Orders(R, S)
    PROVE  /\ Cardinality(S) \in Nat
           /\ Listed(S, R) \in [1..Cardinality(S) -> S]
           /\ \A x \in S : \E n \in 1..Cardinality(S) : Listed(S, R)[n] = x
           /\ \A m, n \in 1..Cardinality(S) : m < n => <<Listed(S, R)[m], Listed(S, R)[n]>> \in R
<1> DEFINE N == Cardinality(S)
           Rank(x) == Cardinality(Preceding(S, R, x)) + 1
           f == [x \in S |-> Rank(x)]
<1>1. N \in Nat
  BY FS_CardinalityType
<1>2. ASSUME NEW x \in S PROVE IsFiniteSet(Preceding(S, R, x)) /\ Cardinality(Preceding(S, R, x)) \in Nat
                               /\ Rank(x) \in 1..N
  <2>1. Preceding(S, R, x) \in SUBSET S /\ x \notin Preceding(S, R, x)
    BY DEF Preceding, Orders
  <2>2. IsFiniteSet(Preceding(S, R, x)) /\ Cardinality(Preceding(S, R, x)) <= N
        /\ (Cardinality(S) = Cardinality(Preceding(S, R, x)) => S = Preceding(S, R, x))
    BY <2>1, FS_Subset
  <2>3. Cardinality(Preceding(S, R, x)) \in Nat
    BY <2>2, FS_CardinalityType
  <2>4. Cardinality(Preceding(S, R, x)) # N
    BY <2>1, <2>2
  <2> HIDE DEF N
  <2> QED BY <1>1, <2>2, <2>3, <2>4
<1>3. ASSUME NEW x \in S, NEW y \in S, <<x, y>> \in R PROVE Rank(x) < Rank(y)
  <2>1. Preceding(S, R, x) \in SUBSET Preceding(S, R, y) /\ x \in Preceding(S, R, y) /\ x \notin Preceding(S, R, x)
    BY <1>3 DEF Preceding, Orders
  <2>2. Cardinality(Preceding(S, R, x)) <= Cardinality(Preceding(S, R, y))
        /\ Cardinality(Preceding(S, R, x)) # Cardinality(Preceding(S, R, y))
    BY <2>1, <1>2, FS_Subset
  <2> QED BY <2>2, <1>2
<1> HIDE DEF Rank
<1>4. f \in [S -> 1..N] /\ \A x \in S : f[x] = Rank(x)
  BY <1>2
<1> HIDE DEF f
<1>5. \A x, y \in S : f[x] = f[y] => x = y
  <2> SUFFICES ASSUME NEW x \in S, NEW y \in S, f[x] = f[y], x # y PROVE FALSE
    OBVIOUS
  <2>1. <<x, y>> \in R \/ <<y, x>> \in R
    BY DEF Orders
  <2>2. Rank(x) < Rank(y) \/ Rank(y) < Rank(x)
    BY <2>1, <1>3
  <2>3. Rank(x) \in Int /\ Rank(y) \in Int /\ Rank(x) = Rank(y)
    BY <1>2, <1>4
  <2> QED BY <2>2, <2>3
<1>6. IsFiniteSet(1..N) /\ Cardinality(1..N) = N
  BY <1>1, FS_Interval
<1>7. f \in Injection(S, 1..N)
  BY <1>4, <1>5 DEF Injection, IsInjective
<1>8. f \in Surjection(S, 1..N)
  BY <1>6, <1>7, FS_Injection
<1>9. \A n \in 1..N : \E x \in S : Rank(x) = n
  BY <1>8, <1>4 DEF Surjection
<1> DEFINE L == Listed(S, R)
<1>10. L = [n \in 1..N |-> CHOOSE x \in S : Rank(x) = n]
  <2>1. \A n \in 1..N : \A x \in S : (Cardinality(Preceding(S, R, x)) = n - 1) <=> Rank(x) = n
    BY <1>2 DEF Rank
  <2>2. \A n \in 1..N : (CHOOSE x \in S : Cardinality(Preceding(S, R, x)) = n - 1) = (CHOOSE x \in S : Rank(x) = n)
    BY <2>1
  <2> QED BY <2>2 DEF Listed
<1>11. \A n \in 1..N : L[n] \in S /\ Rank(L[n]) = n
  <2> TAKE n \in 1..N
  <2>1. L[n] = CHOOSE x \in S : Rank(x) = n
    BY <1>10
  <2>2. \E x \in S : Rank(x) = n
    BY <1>9
  <2> HIDE DEF L
  <2> QED BY <2>1, <2>2
<1>12. L \in [1..N -> S]
  BY <1>10, <1>11
<1> HIDE DEF L
<1>13. \A x \in S : \E n \in 1..N : L[n] = x
  <2> TAKE x \in S
  <2>1. Rank(x) \in 1..N /\ f[L[Rank(x)]] = f[x] /\ L[Rank(x)] \in S
    BY <1>2, <1>4, <1>11
  <2> QED BY <2>1, <1>5
<1>14. \A m, n \in 1..N : m < n => <<L[m], L[n]>> \in R
  <2> SUFFICES ASSUME NEW m \in 1..N, NEW n \in 1..N, m < n PROVE <<L[m], L[n]>> \in R
    OBVIOUS
  <2>1. L[m] \in S /\ L[n] \in S /\ Rank(L[m]) = m /\ Rank(L[n]) = n
    BY <1>11
  <2>2. L[m] # L[n]
    BY <2>1
  <2>3. CASE <<L[n], L[m]>> \in R
    BY <2>1, <2>3, <1>3
  <2> QED BY <2>1, <2>2, <2>3 DEF Orders
<1> QED BY <1>1, <1>12, <1>13, <1>14 DEF L

(* Numbers.                                                                   *)
Rises(q, S) ==
    /\ Len(q) \in Nat /\ q \in Seq(S) /\ DOMAIN q = 1..Len(q)
    /\ \A n \in 1..Len(q) : q[n] \in S
    /\ \A x \in S : \E n \in 1..Len(q) : q[n] = x
    /\ \A m, n \in 1..Len(q) : m < n <=> q[m] < q[n]

LEMMA AscendingIs ==
    ASSUME NEW S \in SUBSET Int, IsFiniteSet(S)
    PROVE  Rises(Ascending(S), S) /\ Len(Ascending(S)) = Cardinality(S)
<1> DEFINE R == { p \in S \X S : p[1] < p[2] }
           q == Ascending(S)
<1>1. \A x, y \in S : <<x, y>> \in R <=> x < y
  OBVIOUS
<1>2. Orders(R, S)
  BY <1>1 DEF Orders
<1>3. q = Listed(S, R)
  BY DEF Ascending
<1> HIDE DEF R, q
<1>4. /\ Cardinality(S) \in Nat
      /\ q \in [1..Cardinality(S) -> S]
      /\ \A x \in S : \E n \in 1..Cardinality(S) : q[n] = x
      /\ \A m, n \in 1..Cardinality(S) : m < n => <<q[m], q[n]>> \in R
  BY <1>2, <1>3, ListedIs
<1>5. q \in Seq(S) /\ Len(q) = Cardinality(S) /\ DOMAIN q = 1..Cardinality(S)
  BY <1>4
<1>6. \A m, n \in 1..Cardinality(S) : m < n => q[m] < q[n]
  BY <1>1, <1>4
<1>7. \A m, n \in 1..Cardinality(S) : q[m] < q[n] => m < n
  <2> SUFFICES ASSUME NEW m \in 1..Cardinality(S), NEW n \in 1..Cardinality(S), q[m] < q[n], ~(m < n) PROVE FALSE
    OBVIOUS
  <2>1. q[m] \in Int /\ q[n] \in Int
    BY <1>4
  <2>2. m = n \/ n < m
    BY <1>4
  <2> QED BY <2>1, <2>2, <1>6
<1> QED BY <1>4, <1>5, <1>6, <1>7 DEF Rises, q

LEMMA LeastExists ==
    ASSUME NEW S \in SUBSET Nat, S # {}
    PROVE  \E n \in S : \A m \in S : n <= m
<1> DEFINE R == OpToRel(<, Nat)
<1>1. IsWellFoundedOn(R, Nat)
  BY NatLessThanWellFounded
<1> HIDE DEF R
<1>2. PICK n \in S : \A m \in S : <<m, n>> \notin R
  BY <1>1, WFMin
<1>3. \A m \in S : ~(m < n) /\ m \in Nat /\ n \in Nat
  BY <1>2 DEF R, OpToRel
<1> QED BY <1>3

LEMMA CountsUp ==
    ASSUME NEW K \in Nat, NEW S, 0 \in S, \A n \in 1..K : n - 1 \in S => n \in S
    PROVE  \A n \in 0..K : n \in S
<1> DEFINE Bad == { n \in 0..K : n \notin S }
<1>1. ASSUME Bad # {} PROVE FALSE
  <2>1. PICK n \in Bad : \A m \in Bad : n <= m
    <3>1. Bad \in SUBSET Nat
      OBVIOUS
    <3> HIDE DEF Bad
    <3> QED BY <1>1, <3>1, LeastExists
  <2>2. n \in 1..K /\ n - 1 \in 0..K /\ n - 1 < n
    OBVIOUS
  <2>3. n - 1 \in S
    BY <2>1, <2>2
  <2> QED BY <2>2, <2>3
<1> QED BY <1>1

LEMMA PickedIs ==
    ASSUME NEW T, NEW s \in Seq(T), NEW I \in SUBSET (1..Len(s))
    PROVE  /\ Rises(Ascending(I), I) /\ Ascending(I) \in Seq(1..Len(s)) /\ Len(Ascending(I)) = Cardinality(I)
           /\ Picked(s, I) \in Seq(T) /\ Len(Picked(s, I)) = Len(Ascending(I))
           /\ \A n \in 1..Len(Ascending(I)) : Ascending(I)[n] \in 1..Len(s) /\ Picked(s, I)[n] = s[Ascending(I)[n]]
<1>1. IsFiniteSet(I)
  <2>1. IsFiniteSet(1..Len(s))
    BY FS_Interval
  <2> QED BY <2>1, FS_Subset
<1>2. Rises(Ascending(I), I) /\ Len(Ascending(I)) = Cardinality(I)
  BY <1>1, AscendingIs
<1> DEFINE q == Ascending(I)
<1>3. /\ Len(q) \in Nat /\ DOMAIN q = 1..Len(q) /\ q \in Seq(I)
      /\ \A n \in 1..Len(q) : q[n] \in I
  BY <1>2 DEF Rises
<1>4. Picked(s, I) = [n \in 1..Len(q) |-> s[q[n]]]
  BY <1>3 DEF Picked
<1> HIDE DEF q
<1>9. \A i \in 1..Len(s) : s[i] \in T
  OBVIOUS
<1>10. \A n \in 1..Len(q) : q[n] \in 1..Len(s)
  BY <1>3
<1>5. \A n \in 1..Len(q) : q[n] \in 1..Len(s) /\ s[q[n]] \in T
  BY <1>9, <1>10
<1>6. Picked(s, I) \in [1..Len(q) -> T]
  BY <1>4, <1>5
<1>7. Picked(s, I) \in Seq(T) /\ Len(Picked(s, I)) = Len(q)
  BY <1>3, <1>6
<1>8. q \in Seq(1..Len(s))
  <2>1. q \in [1..Len(q) -> I]
    BY <1>3
  <2>2. q \in [1..Len(q) -> 1..Len(s)]
    BY <2>1
  <2> QED BY <1>3, <2>2
<1> QED BY <1>2, <1>4, <1>5, <1>7, <1>8 DEF q

LEMMA ConcatIs ==
    ASSUME NEW T, NEW s \in Seq(T), NEW t \in Seq(T)
    PROVE  /\ s \o t \in Seq(T) /\ Len(s \o t) = Len(s) + Len(t) /\ Len(s) \in Nat /\ Len(t) \in Nat
           /\ \A i \in 1..Len(s) : (s \o t)[i] = s[i]
           /\ \A i \in 1..Len(t) : (s \o t)[Len(s) + i] = t[i]
<1>1. /\ s \o t \in Seq(T) /\ Len(s \o t) = Len(s) + Len(t)
      /\ \A i \in 1 .. Len(s) + Len(t) : (s \o t)[i] = IF i <= Len(s) THEN s[i] ELSE t[i - Len(s)]
  BY ConcatProperties
<1>2. Len(s) \in Nat /\ Len(t) \in Nat
  OBVIOUS
<1> DEFINE c == s \o t
           m == Len(s)
           n == Len(t)
<1>3. /\ \A i \in 1 .. m + n : c[i] = IF i <= m THEN s[i] ELSE t[i - m]
      /\ m \in Nat /\ n \in Nat
  BY <1>1, <1>2
<1> HIDE DEF c, m, n
<1>4. \A i \in 1..m : c[i] = s[i]
  BY <1>3
<1>5. \A i \in 1..n : c[m + i] = t[i]
  BY <1>3
<1> QED BY <1>1, <1>2, <1>4, <1>5 DEF c, m, n

(* A recursive function over numbers exists, whatever its step.               *)
Steps(f, K, X, start, G) ==
    f \in [0..K -> X] /\ f[0] = start /\ \A n \in 1..K : f[n] = G[<<n, f[n - 1]>>]

LEMMA StepsExist ==
    ASSUME NEW K \in Nat, NEW X, NEW start \in X, NEW G \in [(1..K) \X X -> X]
    PROVE  \E f : Steps(f, K, X, start, G)
<1> DEFINE S == { k \in 0..K : \E f : Steps(f, k, X, start, G) }
<1>1. 0 \in S
  <2> DEFINE z == [n \in 0..0 |-> start]
  <2>1. z \in [0..0 -> X] /\ z[0] = start /\ 1..0 = {}
    OBVIOUS
  <2> HIDE DEF z
  <2>2. Steps(z, 0, X, start, G)
    BY <2>1 DEF Steps
  <2> QED BY <2>2
<1>2. ASSUME NEW k \in 1..K, k - 1 \in S PROVE k \in S
  <2>1. PICK f : Steps(f, k - 1, X, start, G)
    BY <1>2
  <2> DEFINE g == [n \in 0..k |-> IF n = k THEN G[<<k, f[k - 1]>>] ELSE f[n]]
  <2>2. f \in [0..k - 1 -> X] /\ k - 1 \in 0..k - 1 /\ f[0] = start
        /\ \A n \in 1..k - 1 : f[n] = G[<<n, f[n - 1]>>]
    BY <2>1 DEF Steps
  <2>3. g \in [0..k -> X] /\ g[k] = G[<<k, f[k - 1]>>]
    <3>1. <<k, f[k - 1]>> \in (1..K) \X X
      BY <2>2
    <3>2. G[<<k, f[k - 1]>>] \in X
      BY <3>1
    <3>3. \A n \in 0..k : n # k => f[n] \in X
      BY <2>2
    <3> QED BY <3>2, <3>3
  <2>4. \A n \in 0..k - 1 : g[n] = f[n]
    OBVIOUS
  <2> HIDE DEF g
  <2>5. g[0] = start
    BY <2>2, <2>4
  <2>6. ASSUME NEW n \in 1..k PROVE g[n] = G[<<n, g[n - 1]>>]
    <3>1. CASE n = k
      BY <3>1, <2>2, <2>3, <2>4
    <3>2. CASE n # k
      <4>1. n \in 1..k - 1 /\ n \in 0..k - 1 /\ n - 1 \in 0..k - 1
        BY <3>2
      <4> QED BY <2>2, <2>4, <4>1
    <3> QED BY <3>1, <3>2
  <2>7. Steps(g, k, X, start, G)
    BY <2>3, <2>5, <2>6 DEF Steps
  <2> QED BY <2>7
<1> HIDE DEF S
<1>3. \A n \in 0..K : n \in S
  BY <1>1, <1>2, CountsUp
<1>4. K \in S
  BY <1>3
<1> QED BY <1>4 DEF S

(* A rising sequence is the only one of its members.                          *)
LEMMA RisesOnce ==
    ASSUME NEW S \in SUBSET Int, NEW p, NEW q, Rises(p, S), Rises(q, S), Len(p) = Len(q)
    PROVE  p = q
<1> DEFINE Bad == { i \in 1..Len(p) : p[i] # q[i] }
<1>0. /\ Len(p) \in Nat /\ p \in Seq(S) /\ q \in Seq(S) /\ DOMAIN p = 1..Len(p) /\ DOMAIN q = 1..Len(p)
      /\ \A i \in 1..Len(p) : p[i] \in Int /\ q[i] \in Int /\ p[i] \in S /\ q[i] \in S
  BY DEF Rises
<1>1. ASSUME Bad # {} PROVE FALSE
  <2>1. PICK i \in Bad : \A k \in Bad : i <= k
    <3>1. Bad \in SUBSET Nat
      OBVIOUS
    <3> HIDE DEF Bad
    <3> QED BY <1>1, <3>1, LeastExists
  <2>2. i \in 1..Len(p) /\ p[i] # q[i]
    OBVIOUS
  <2>3. \A k \in 1..Len(p) : k < i => p[k] = q[k]
    BY <2>1, <2>2
  <2>4. PICK j \in 1..Len(p) : q[j] = p[i]
    BY <1>0, <2>2 DEF Rises
  <2>5. PICK l \in 1..Len(p) : p[l] = q[i]
    BY <1>0, <2>2 DEF Rises
  <2>6. \A m, n \in 1..Len(p) : (m < n <=> p[m] < p[n]) /\ (m < n <=> q[m] < q[n])
    BY DEF Rises
  <2> HIDE DEF Bad
  <2>7. ~(j < i)
    <3> SUFFICES ASSUME j < i PROVE FALSE
      OBVIOUS
    <3>1. p[j] = p[i] /\ p[j] < p[i]
      BY <2>2, <2>3, <2>4, <2>6
    <3> QED BY <1>0, <2>2, <3>1
  <2>8. ~(l < i)
    <3> SUFFICES ASSUME l < i PROVE FALSE
      OBVIOUS
    <3>1. q[l] = q[i] /\ q[l] < q[i]
      BY <2>2, <2>3, <2>5, <2>6
    <3> QED BY <1>0, <2>2, <3>1
  <2>9. i < j /\ i < l
    BY <2>2, <2>4, <2>5, <2>7, <2>8
  <2>10. q[i] < p[i] /\ p[i] < q[i]
    BY <2>2, <2>4, <2>5, <2>6, <2>9
  <2> QED BY <1>0, <2>2, <2>10
<1>2. \A i \in 1..Len(p) : p[i] = q[i]
  BY <1>1
<1> QED BY <1>0, <1>2

LEMMA AscendingGrows ==
    ASSUME NEW n \in Nat, NEW S \in SUBSET (1 .. n - 1)
    PROVE  Ascending(S \cup {n}) = Append(Ascending(S), n)
<1> DEFINE p == Ascending(S)
           T == S \cup {n}
           q == Append(p, n)
<1>1. S \in SUBSET Int /\ IsFiniteSet(S) /\ n \notin S /\ T \in SUBSET Int
  <2>1. IsFiniteSet(1 .. n - 1)
    BY FS_Interval
  <2>2. IsFiniteSet(S)
    BY <2>1, FS_Subset
  <2>3. \A x \in S : x \in Int /\ x # n
    OBVIOUS
  <2> QED BY <2>2, <2>3
<1>2. Rises(p, S) /\ Len(p) = Cardinality(S)
  BY <1>1, AscendingIs
<1>3. IsFiniteSet(T) /\ Cardinality(T) = Cardinality(S) + 1
  BY <1>1, FS_AddElement
<1>4. Rises(Ascending(T), T) /\ Len(Ascending(T)) = Cardinality(T)
  BY <1>1, <1>3, AscendingIs
<1>5. \A x \in S : x < n /\ x \in Int
  OBVIOUS
<1> HIDE DEF p
<1>6. /\ p \in Seq(T) /\ Len(p) \in Nat
      /\ \A i \in 1..Len(p) : p[i] \in S
      /\ \A x \in S : \E i \in 1..Len(p) : p[i] = x
      /\ \A i, j \in 1..Len(p) : i < j <=> p[i] < p[j]
  <2>1. p \in Seq(S)
    BY <1>2 DEF Rises
  <2>2. p \in Seq(T)
    BY <2>1
  <2> QED BY <1>2, <2>2 DEF Rises
<1>7. /\ q \in Seq(T) /\ Len(q) = Len(p) + 1 /\ q[Len(p) + 1] = n
      /\ \A i \in 1..Len(p) : q[i] = p[i]
  <2>1. n \in T
    OBVIOUS
  <2> HIDE DEF T
  <2> QED BY <1>6, <2>1, AppendProperties
<1> HIDE DEF q
<1>8. Rises(q, T)
  <2>1. DOMAIN q = 1..Len(q) /\ Len(q) \in Nat
    BY <1>6, <1>7
  <2>2. \A i \in 1..Len(q) : i \in 1..Len(p) \/ i = Len(p) + 1
    BY <1>6, <1>7
  <2>3. \A i \in 1..Len(p) : i \in 1..Len(q) /\ i < Len(p) + 1
    BY <1>6, <1>7
  <2>4. Len(p) + 1 \in 1..Len(q)
    BY <1>6, <1>7
  <2>5. \A i \in 1..Len(q) : q[i] \in T
    BY <1>6, <1>7, <2>2
  <2>6. \A x \in T : \E i \in 1..Len(q) : q[i] = x
    BY <1>6, <1>7, <2>3, <2>4
  <2>7. ASSUME NEW i \in 1..Len(q), NEW j \in 1..Len(q) PROVE i < j <=> q[i] < q[j]
    <3>1. CASE i \in 1..Len(p) /\ j \in 1..Len(p)
      BY <1>6, <1>7, <3>1
    <3>2. CASE i \in 1..Len(p) /\ j = Len(p) + 1
      <4>1. q[i] \in S /\ q[j] = n
        BY <1>6, <1>7, <3>2
      <4> QED BY <1>5, <2>3, <3>2, <4>1
    <3>3. CASE i = Len(p) + 1 /\ j \in 1..Len(p)
      <4>1. q[j] \in S /\ q[i] = n
        BY <1>6, <1>7, <3>3
      <4>2. ~(i < j)
        BY <2>3, <3>3
      <4>3. ~(q[i] < q[j])
        <5>1. PICK x \in S : x = q[j]
          BY <4>1
        <5>2. x < n /\ x \in Int
          BY <1>5
        <5> QED BY <4>1, <5>1, <5>2
      <4> QED BY <4>2, <4>3
    <3>4. CASE i = Len(p) + 1 /\ j = Len(p) + 1
      BY <1>6, <1>7, <3>4
    <3> QED BY <2>2, <3>1, <3>2, <3>3, <3>4
  <2> QED BY <1>7, <2>1, <2>5, <2>6, <2>7 DEF Rises
<1>9. Len(q) = Len(Ascending(T))
  BY <1>2, <1>3, <1>4, <1>7
<1> HIDE DEF T
<1>10. Ascending(T) = q
  BY <1>1, <1>4, <1>8, <1>9, RisesOnce
<1> QED BY <1>10 DEF q, p, T

LEMMA PickedGrows ==
    ASSUME NEW T, NEW s \in Seq(T), NEW n \in 1..Len(s), NEW S \in SUBSET (1 .. n - 1)
    PROVE  Picked(s, S \cup {n}) = Append(Picked(s, S), s[n]) /\ Picked(s, S) \in Seq(T) /\ s[n] \in T
<1> DEFINE p == Ascending(S)
           a == Picked(s, S)
           b == Picked(s, S \cup {n})
<1>1. n \in Nat /\ S \in SUBSET (1..Len(s)) /\ s[n] \in T
  OBVIOUS
<1>2. /\ p \in Seq(1..Len(s)) /\ a \in Seq(T) /\ Len(a) = Len(p)
      /\ \A i \in 1..Len(p) : a[i] = s[p[i]]
  BY <1>1, PickedIs
<1>3. Ascending(S \cup {n}) = Append(p, n)
  BY <1>1, AscendingGrows
<1>4. b = [i \in DOMAIN Append(p, n) |-> s[Append(p, n)[i]]]
  BY <1>3 DEF Picked
<1> HIDE DEF p, a, b
<1>5. PICK q : q = Append(p, n)
  OBVIOUS
<1>6. q \in Seq(1..Len(s)) /\ Len(q) = Len(p) + 1 /\ q[Len(p) + 1] = n /\ \A i \in 1..Len(p) : q[i] = p[i]
  BY <1>2, <1>5, AppendProperties
<1>7. PICK c : c = Append(a, s[n])
  OBVIOUS
<1>8. c \in Seq(T) /\ Len(c) = Len(a) + 1 /\ c[Len(a) + 1] = s[n] /\ \A i \in 1..Len(a) : c[i] = a[i]
  BY <1>1, <1>2, <1>7, AppendProperties
<1>9. b = [i \in 1 .. Len(p) + 1 |-> s[q[i]]]
  <2>1. DOMAIN q = 1 .. Len(p) + 1
    BY <1>6
  <2> QED BY <1>4, <1>5, <2>1
<1>10. Len(p) \in Nat
  BY <1>2
<1>11. \A i \in 1 .. Len(p) + 1 : b[i] = c[i]
  <2> TAKE i \in 1 .. Len(p) + 1
  <2>1. CASE i = Len(p) + 1
    BY <1>2, <1>6, <1>8, <1>9, <2>1
  <2>2. CASE i # Len(p) + 1
    <3>1. i \in 1..Len(p)
      BY <1>10, <2>2
    <3> QED BY <1>2, <1>6, <1>8, <1>9, <3>1
  <2> QED BY <2>1, <2>2
<1>12. c = [i \in 1 .. Len(p) + 1 |-> c[i]] /\ b = [i \in 1 .. Len(p) + 1 |-> b[i]]
  <2>1. DOMAIN c = 1 .. Len(p) + 1
    BY <1>2, <1>8
  <2> QED BY <1>8, <1>9, <2>1
<1>13. b = c
  BY <1>11, <1>12
<1> QED BY <1>1, <1>2, <1>7, <1>13 DEF a, b

LEMMA EmptyStarts ==
    ASSUME NEW T, NEW t \in Seq(T), t # <<>>
    PROVE  Len(t) \in Nat \ {0} /\ Head(t) = t[1] /\ t[1] \in T /\ t[Len(t)] \in T
OBVIOUS

LEMMA ConcatNests ==
    ASSUME NEW T, NEW s \in Seq(T), NEW t \in Seq(T), NEW e \in T
    PROVE  s \o Append(t, e) = Append(s \o t, e)
<1>1. PICK m \in Nat, n \in Nat : m = Len(s) /\ n = Len(t)
  OBVIOUS
<1>2. PICK a : a = Append(t, e)
  OBVIOUS
<1>3. a \in Seq(T) /\ Len(a) = n + 1 /\ a[n + 1] = e /\ \A i \in 1..n : a[i] = t[i]
  BY <1>1, <1>2, AppendProperties
<1>4. PICK l : l = s \o a
  OBVIOUS
<1>5. l \in Seq(T) /\ Len(l) = m + (n + 1) /\ (\A i \in 1..m : l[i] = s[i]) /\ \A i \in 1 .. n + 1 : l[m + i] = a[i]
  <2>1. /\ s \o a \in Seq(T) /\ Len(s \o a) = Len(s) + Len(a)
        /\ \A i \in 1..Len(s) : (s \o a)[i] = s[i]
        /\ \A i \in 1..Len(a) : (s \o a)[Len(s) + i] = a[i]
    <3>1. a \in Seq(T)
      BY <1>3
    <3> QED BY <3>1, ConcatIs
  <2>2. /\ l \in Seq(T) /\ Len(l) = Len(s) + Len(a)
        /\ \A i \in 1..Len(s) : l[i] = s[i]
        /\ \A i \in 1..Len(a) : l[Len(s) + i] = a[i]
    BY <1>4, <2>1
  <2> QED BY <1>1, <1>3, <2>2
<1>6. PICK c : c = s \o t
  OBVIOUS
<1>7. c \in Seq(T) /\ Len(c) = m + n /\ (\A i \in 1..m : c[i] = s[i]) /\ \A i \in 1..n : c[m + i] = t[i]
  BY <1>1, <1>6, ConcatIs
<1>8. PICK r : r = Append(c, e)
  OBVIOUS
<1>9. r \in Seq(T) /\ Len(r) = m + n + 1 /\ r[m + n + 1] = e /\ \A i \in 1 .. m + n : r[i] = c[i]
  BY <1>7, <1>8, AppendProperties
<1>10. ASSUME NEW i \in 1 .. m + n + 1 PROVE l[i] = r[i]
  <2>1. CASE i <= m
    <3>1. i \in 1..m /\ i \in 1 .. m + n
      BY <2>1
    <3> QED BY <1>5, <1>7, <1>9, <3>1
  <2>2. CASE i > m /\ i <= m + n
    <3>1. PICK j \in 1..n : i = m + j
      <4>1. i - m \in 1..n /\ i = m + (i - m)
        BY <2>2
      <4> QED BY <4>1
    <3>2. i \in 1 .. m + n /\ j \in 1 .. n + 1
      BY <2>2
    <3>3. l[i] = a[j] /\ a[j] = t[j]
      BY <1>3, <1>5, <3>1, <3>2
    <3>4. r[i] = c[i] /\ c[i] = t[j]
      BY <1>7, <1>9, <3>1, <3>2
    <3> QED BY <3>3, <3>4
  <2>3. CASE i = m + n + 1
    <3>1. n + 1 \in 1 .. n + 1 /\ i = m + (n + 1)
      BY <2>3
    <3> QED BY <1>3, <1>5, <1>9, <2>3, <3>1
  <2> QED BY <2>1, <2>2, <2>3
<1>11. l = r
  <2>1. Len(l) = Len(r)
    BY <1>5, <1>9
  <2>2. \A i \in 1..Len(l) : l[i] = r[i]
    BY <1>5, <1>10
  <2> QED BY <1>5, <1>9, <2>1, <2>2, SeqEqual
<1> QED BY <1>2, <1>4, <1>6, <1>8, <1>11

LEMMA LargestExists ==
    ASSUME NEW K \in Nat, NEW S \in SUBSET (0..K), S # {}
    PROVE  \E n \in S : \A m \in S : m <= n
<1> DEFINE R == { k \in 0..K : K - k \in S }
<1>1. PICK s \in S : s \in 0..K
  OBVIOUS
<1>2. K - s \in R
  <2>1. K - s \in 0..K /\ K - (K - s) = s
    BY <1>1
  <2> QED BY <1>1, <2>1
<1>3. R \in SUBSET Nat
  OBVIOUS
<1>4. \A k \in R : k \in 0..K /\ K - k \in S
  OBVIOUS
<1>5. \A m \in S : K - m \in R
  <2> TAKE m \in S
  <2>1. m \in 0..K
    OBVIOUS
  <2>2. K - m \in 0..K /\ K - (K - m) = m
    BY <2>1
  <2> QED BY <2>1, <2>2
<1> HIDE DEF R
<1>6. PICK k \in R : \A j \in R : k <= j
  BY <1>2, <1>3, LeastExists
<1>7. ASSUME NEW m \in S PROVE m <= K - k
  <2>1. k <= K - m /\ m \in 0..K /\ k \in 0..K
    BY <1>4, <1>5, <1>6
  <2> QED BY <2>1
<1> QED BY <1>4, <1>7

LEMMA StaysIn ==
    ASSUME NEW K \in Nat, NEW X, NEW run, run[0] \in X, \A n \in 1..K : run[n - 1] \in X => run[n] \in X
    PROVE  \A n \in 0..K : run[n] \in X
<1> DEFINE S == { n \in 0..K : run[n] \in X }
<1>1. 0 \in S
  OBVIOUS
<1>2. \A n \in 1..K : n - 1 \in S => n \in S
  <2>1. \A n \in 1..K : n \in 0..K /\ n - 1 \in 0..K
    OBVIOUS
  <2> QED BY <2>1
<1>3. \A n \in S : run[n] \in X
  OBVIOUS
<1> HIDE DEF S
<1>4. \A n \in 0..K : n \in S
  BY <1>1, <1>2, CountsUp
<1> QED BY <1>3, <1>4

(* A rising sequence has as many places as members.                           *)
LEMMA RisesCounts ==
    ASSUME NEW S \in SUBSET Int, NEW q, Rises(q, S)
    PROVE  IsFiniteSet(S) /\ Cardinality(S) = Len(q)
<1>0. /\ Len(q) \in Nat /\ q \in Seq(S) /\ DOMAIN q = 1..Len(q)
      /\ \A x \in S : \E n \in 1..Len(q) : q[n] = x
      /\ \A n \in 1..Len(q) : q[n] \in S
  BY DEF Rises
<1>1. /\ Len(q) \in Nat /\ q \in [1..Len(q) -> S]
      /\ \A x \in S : \E n \in 1..Len(q) : q[n] = x
      /\ \A n \in 1..Len(q) : q[n] \in Int
  <2>1. \A n \in 1..Len(q) : q[n] \in Int
    <3>1. \A x \in S : x \in Int
      OBVIOUS
    <3> QED BY <1>0, <3>1
  <2>2. q \in [1..Len(q) -> S]
    BY <1>0
  <2> QED BY <1>0, <2>1, <2>2
<1>2. \A m, n \in 1..Len(q) : q[m] = q[n] => m = n
  <2> SUFFICES ASSUME NEW m \in 1..Len(q), NEW n \in 1..Len(q), q[m] = q[n], m # n PROVE FALSE
    OBVIOUS
  <2>1. m < n \/ n < m
    BY <1>1
  <2>2. q[m] < q[n] \/ q[n] < q[m]
    BY SMTT(30), <2>1 DEF Rises
  <2> QED BY <1>1, <2>2
<1>3. PICK N \in Nat : N = Len(q)
  BY <1>1
<1>4. q \in Bijection(1..N, S)
  BY <1>1, <1>2, <1>3 DEF Bijection, Injection, Surjection, IsInjective
<1>5. ExistsBijection(1..N, S)
  BY <1>4 DEF ExistsBijection
<1>6. Cardinality(S) = N /\ IsFiniteSet(S)
  BY <1>5, FS_CountingElements, FS_NatBijection
<1> QED BY <1>3, <1>6

(* Its members between two of them.                                           *)
LEMMA BetweenCounts ==
    ASSUME NEW S \in SUBSET Int, NEW q, Rises(q, S), NEW a \in 1..Len(q), NEW b \in 1..Len(q), a <= b
    PROVE  Cardinality({ x \in S : q[a] <= x /\ x <= q[b] }) = b - a + 1
<1> DEFINE P == { x \in S : q[a] <= x /\ x <= q[b] }
           p == [i \in 1 .. b - a + 1 |-> q[a + i - 1]]
<1>1. PICK N \in Nat : N = Len(q)
  BY DEF Rises
<1>2. /\ \A x \in S : \E n \in 1..N : q[n] = x
      /\ \A n \in 1..N : q[n] \in Int /\ q[n] \in S
      /\ \A m, n \in 1..N : m < n <=> q[m] < q[n]
  BY <1>1 DEF Rises
<1>3. a \in 1..N /\ b \in 1..N
  BY <1>1
<1>4. \A n \in 1..N : q[a] <= q[n] <=> a <= n
  BY <1>2, <1>3
<1>5. \A n \in 1..N : q[n] <= q[b] <=> n <= b
  BY <1>2, <1>3
<1>6. \A i \in 1 .. b - a + 1 : a + i - 1 \in 1..N /\ a <= a + i - 1 /\ a + i - 1 <= b
  BY <1>3
<1>7. \A i \in 1 .. b - a + 1 : p[i] = q[a + i - 1] /\ p[i] \in P
  BY <1>2, <1>4, <1>5, <1>6
<1>8. \A x \in P : \E i \in 1 .. b - a + 1 : p[i] = x
  <2> TAKE x \in P
  <2>1. x \in S /\ q[a] <= x /\ x <= q[b]
    OBVIOUS
  <2>2. PICK n \in 1..N : q[n] = x
    BY <1>2, <2>1
  <2>3. a <= n /\ n <= b
    BY <1>4, <1>5, <2>1, <2>2
  <2>4. PICK i \in 1 .. b - a + 1 : a + i - 1 = n
    <3>1. n - a + 1 \in 1 .. b - a + 1 /\ a + (n - a + 1) - 1 = n
      BY <1>3, <2>3
    <3> QED BY <3>1
  <2> HIDE DEF P, p
  <2> QED BY <1>7, <2>2, <2>4
<1>9. \A i, j \in 1 .. b - a + 1 : i < j <=> p[i] < p[j]
  <2> TAKE i, j \in 1 .. b - a + 1
  <2>1. PICK m \in 1..N, n \in 1..N : m = a + i - 1 /\ n = a + j - 1
    BY <1>6
  <2>2. i < j <=> m < n
    BY <1>3, <2>1
  <2>3. p[i] = q[m] /\ p[j] = q[n]
    BY <2>1
  <2> HIDE DEF p
  <2> QED BY <1>2, <2>2, <2>3
<1>10. P \in SUBSET Int
  BY <1>2
<1>11. p \in [1 .. b - a + 1 -> P] /\ b - a + 1 \in Nat
  BY SMTT(30), <1>3, <1>7
<1>12. p \in Seq(P) /\ Len(p) = b - a + 1 /\ DOMAIN p = 1 .. Len(p)
  <2> HIDE DEF P, p
  <2> QED BY <1>11
<1> HIDE DEF P, p
<1>13. Rises(p, P)
  BY <1>7, <1>8, <1>9, <1>11, <1>12 DEF Rises
<1>14. Cardinality(P) = Len(p)
  BY <1>10, <1>13, RisesCounts
<1> QED BY SMTT(30), <1>12, <1>14 DEF P

(* Picking some places of a rising sequence gives the members there.          *)
LEMMA PickedRises ==
    ASSUME NEW K \in Nat, NEW S \in SUBSET (1..K), NEW H \in SUBSET S
    PROVE  /\ Rises(Ascending(S), S)
           /\ Picked(Ascending(S), { n \in DOMAIN Ascending(S) : Ascending(S)[n] \in H }) = Ascending(H)
<1> DEFINE q == Ascending(S)
           I == { n \in DOMAIN q : q[n] \in H }
           p == Picked(q, I)
           r == Ascending(I)
<1>1. S \in SUBSET Int /\ IsFiniteSet(S) /\ H \in SUBSET Int /\ IsFiniteSet(H)
  <2>1. IsFiniteSet(1..K)
    BY FS_Interval
  <2>2. IsFiniteSet(S)
    BY <2>1, FS_Subset
  <2>3. IsFiniteSet(H)
    BY <2>2, FS_Subset
  <2> QED BY <2>2, <2>3
<1>2. Rises(q, S)
  BY <1>1, AscendingIs
<1>3. Rises(Ascending(H), H)
  BY SMTT(30), <1>1, AscendingIs
<1> HIDE DEF q
<1>4. PICK N \in Nat : N = Len(q)
  BY <1>2 DEF Rises
<1>5. /\ q \in Seq(S) /\ DOMAIN q = 1..N
      /\ \A n \in 1..N : q[n] \in S
      /\ \A x \in S : \E n \in 1..N : q[n] = x
      /\ \A m, n \in 1..N : m < n <=> q[m] < q[n]
  BY <1>2, <1>4 DEF Rises
<1>6. I \in SUBSET (1..Len(q)) /\ (\A n \in I : q[n] \in H) /\ \A n \in 1..N : q[n] \in H => n \in I
  BY <1>4, <1>5
<1> HIDE DEF I, p
<1>7. /\ Rises(r, I) /\ p \in Seq(S) /\ Len(p) = Len(r)
      /\ \A n \in 1..Len(r) : r[n] \in 1..Len(q) /\ p[n] = q[r[n]]
  BY SMTT(30), <1>5, <1>6, PickedIs DEF p
<1> HIDE DEF r
<1>8. PICK M \in Nat : M = Len(r)
  BY <1>7 DEF Rises
<1>9. /\ \A n \in 1..M : r[n] \in I /\ r[n] \in 1..N /\ p[n] = q[r[n]]
      /\ \A x \in I : \E n \in 1..M : r[n] = x
      /\ \A m, n \in 1..M : m < n <=> r[m] < r[n]
  BY <1>4, <1>7, <1>8 DEF Rises
<1>10. \A n \in 1..M : p[n] \in H
  BY <1>6, <1>9
<1>11. \A x \in H : \E n \in 1..M : p[n] = x
  <2> TAKE x \in H
  <2>1. PICK i \in 1..N : q[i] = x
    BY <1>5
  <2>2. PICK n \in 1..M : r[n] = i
    BY <1>6, <1>9, <2>1
  <2> QED BY <1>9, <2>1, <2>2
<1>12. \A m, n \in 1..M : m < n <=> p[m] < p[n]
  <2> TAKE m, n \in 1..M
  <2>1. PICK a \in 1..N, b \in 1..N : a = r[m] /\ b = r[n]
    BY <1>9
  <2>2. (m < n <=> a < b) /\ p[m] = q[a] /\ p[n] = q[b]
    BY <1>9, <2>1
  <2> QED BY <1>5, <2>2
<1>13. p \in [1..M -> H]
  <2>1. DOMAIN p = 1..M /\ p = [n \in 1..M |-> p[n]]
    BY <1>7, <1>8
  <2> QED BY <1>10, <2>1
<1>14. p \in Seq(H) /\ Len(p) = M /\ DOMAIN p = 1..M
  BY <1>13
<1>15. Rises(p, H)
  BY <1>10, <1>11, <1>12, <1>14 DEF Rises
<1>16. Len(p) = Len(Ascending(H))
  BY <1>1, <1>3, <1>15, RisesCounts
<1>17. p = Ascending(H)
  BY <1>1, <1>3, <1>15, <1>16, RisesOnce
<1> QED BY <1>2, <1>17 DEF p, I, q

------------------------------------------------------------------------------
(* The edits of a clip.                                                       *)

MediaClips ==
    [kind : {"clip", "export"}, length : Nat, words : Seq(TimedWords),
     quiet : Seq(Stretches), bright : Seq(Stretches)]

(* A timed word, moved.                                                       *)
WordMoved(u, w, a, b) == u \in TimedWords /\ u.from = a /\ u.to = b /\ u.text = w.text /\ u.kinds = w.kinds

LEMMA TimedMoves ==
    ASSUME NEW w \in TimedWords, NEW a \in Nat, NEW b \in Nat
    PROVE  WordMoved(Placed(w, a, b), w, a, b)
<1> DEFINE u == [w EXCEPT !.from = a]
<1>1. u \in TimedWords /\ u.from = a /\ u.text = w.text /\ u.kinds = w.kinds
  BY DEF TimedWords
<1>2. Placed(w, a, b) = [u EXCEPT !.to = b]
  BY DEF TimedWords, Placed
<1> HIDE DEF u
<1> QED BY <1>1, <1>2 DEF TimedWords, WordMoved

LEMMA StretchMoves ==
    ASSUME NEW w \in Stretches, NEW a \in Nat, NEW b \in Nat
    PROVE  Placed(w, a, b) \in Stretches /\ Placed(w, a, b).from = a /\ Placed(w, a, b).to = b
BY DEF Stretches, Placed

SlicedAs(T, items, from, to, s) ==
    LET I == { i \in 1..Len(items) : items[i].to > from /\ items[i].from < to }
        q == Ascending(I)
    IN  /\ Rises(q, I) /\ s \in Seq(T) /\ Len(s) = Len(q)
        /\ \A n \in 1..Len(q) :
              /\ q[n] \in I
              /\ s[n].from = (IF items[q[n]].from - from < 0 THEN 0 ELSE items[q[n]].from - from)
              /\ s[n].to = (IF items[q[n]].to - from > to - from THEN to - from ELSE items[q[n]].to - from)
              /\ T = TimedWords => s[n].text = items[q[n]].text

LEMMA SliceIs ==
    ASSUME NEW T, T = TimedWords \/ T = Stretches, NEW items \in Seq(T), NEW from \in Nat, NEW to \in Nat, from < to
    PROVE  SlicedAs(T, items, from, to, Slice(items, from, to))
<1> DEFINE I == { i \in 1..Len(items) : items[i].to > from /\ items[i].from < to }
           q == Ascending(I)
           p == Picked(items, I)
           Moved(w) == Placed(w, IF w.from - from < 0 THEN 0 ELSE w.from - from,
                                 IF w.to - from > to - from THEN to - from ELSE w.to - from)
<1>1. DOMAIN items = 1..Len(items) /\ Len(items) \in Nat /\ \A i \in 1..Len(items) : items[i] \in T
  OBVIOUS
<1>2. I \in SUBSET (1..Len(items))
  OBVIOUS
<1>3. Slice(items, from, to) = [i \in DOMAIN p |-> Moved(p[i])]
  BY <1>1 DEF Slice
<1> HIDE DEF Moved
<1>4. /\ Rises(q, I) /\ p \in Seq(T) /\ Len(p) = Len(q)
      /\ \A n \in 1..Len(q) : p[n] = items[q[n]]
  BY <1>2, PickedIs
<1>5. Len(q) \in Nat /\ DOMAIN p = 1..Len(q) /\ \A n \in 1..Len(q) : q[n] \in I
  BY <1>4 DEF Rises
<1> HIDE DEF I, q, p
<1>6. ASSUME NEW w \in T, w.to > from, w.from < to
      PROVE  /\ Moved(w) \in T
             /\ Moved(w).from = (IF w.from - from < 0 THEN 0 ELSE w.from - from)
             /\ Moved(w).to = (IF w.to - from > to - from THEN to - from ELSE w.to - from)
             /\ T = TimedWords => Moved(w).text = w.text
  <2> DEFINE a == IF w.from - from < 0 THEN 0 ELSE w.from - from
             b == IF w.to - from > to - from THEN to - from ELSE w.to - from
  <2>1. w.from \in Nat /\ w.to \in Nat
    <3>1. CASE w \in TimedWords
      BY <3>1 DEF TimedWords
    <3>2. CASE w \in Stretches
      BY <3>2 DEF Stretches
    <3> QED BY <3>1, <3>2
  <2>2. a \in Nat /\ b \in Nat
    BY SMTT(30), <1>6, <2>1
  <2>3. Moved(w) = Placed(w, a, b)
    BY DEF Moved
  <2> HIDE DEF a, b
  <2>4. CASE T = TimedWords
    <3>1. w \in TimedWords
      BY <2>4
    <3>3. WordMoved(Placed(w, a, b), w, a, b)
      BY <2>2, <3>1, TimedMoves
    <3>2. Moved(w) \in T /\ Moved(w).from = a /\ Moved(w).to = b /\ Moved(w).text = w.text
      BY <2>3, <2>4, <3>3 DEF WordMoved
    <3> QED BY <3>2 DEF a, b
  <2>5. CASE T = Stretches /\ T # TimedWords
    <3>1. w \in Stretches
      BY <2>5
    <3>3. Placed(w, a, b) \in Stretches /\ Placed(w, a, b).from = a /\ Placed(w, a, b).to = b
      BY <2>2, <3>1, StretchMoves
    <3>2. Moved(w) \in T /\ Moved(w).from = a /\ Moved(w).to = b
      BY <2>3, <2>5, <3>3
    <3> QED BY <2>5, <3>2 DEF a, b
  <2> QED BY <2>4, <2>5
<1>7. \A n \in 1..Len(q) : items[q[n]] \in T /\ items[q[n]].to > from /\ items[q[n]].from < to
  BY <1>1, <1>5 DEF I
<1> DEFINE s == Slice(items, from, to)
<1>8. DOMAIN s = 1..Len(q) /\ \A n \in 1..Len(q) : s[n] = Moved(items[q[n]])
  BY <1>3, <1>4, <1>5
<1>9. s \in [1..Len(q) -> T]
  BY <1>3, <1>5, <1>6, <1>7, <1>8
<1>10. s \in Seq(T) /\ Len(s) = Len(q)
  BY <1>5, <1>9
<1> HIDE DEF s
<1>11. \A n \in 1..Len(q) :
          /\ q[n] \in I
          /\ s[n].from = (IF items[q[n]].from - from < 0 THEN 0 ELSE items[q[n]].from - from)
          /\ s[n].to = (IF items[q[n]].to - from > to - from THEN to - from ELSE items[q[n]].to - from)
          /\ T = TimedWords => s[n].text = items[q[n]].text
  BY <1>5, <1>6, <1>7, <1>8
<1> QED BY <1>4, <1>10, <1>11 DEF SlicedAs, s, I, q

(* The words of a clip are apart, not only from the next one.                 *)
LEMMA WordsApart ==
    ASSUME NEW words \in Seq(TimedWords), NEW length, InTime(words, length)
    PROVE  \A i, j \in 1..Len(words) : i < j => words[i].to <= words[j].from
<1>0. Len(words) \in Nat /\ DOMAIN words = 1..Len(words)
      /\ \A i \in 1..Len(words) : words[i].from \in Nat /\ words[i].to \in Nat
  <2>1. \A i \in 1..Len(words) : words[i] \in TimedWords
    OBVIOUS
  <2> QED BY <2>1 DEF TimedWords
<1> SUFFICES ASSUME NEW i \in 1..Len(words)
             PROVE  \A j \in 1..Len(words) : i < j => words[i].to <= words[j].from
  OBVIOUS
<1> DEFINE Bad == { j \in 1..Len(words) : i < j /\ ~(words[i].to <= words[j].from) }
<1>1. ASSUME Bad # {} PROVE FALSE
  <2>1. PICK j \in Bad : \A k \in Bad : j <= k
    <3>1. Bad \in SUBSET Nat
      OBVIOUS
    <3> HIDE DEF Bad
    <3> QED BY <1>1, <3>1, LeastExists
  <2>2. j \in 1..Len(words) /\ i < j /\ j - 1 \in 1..Len(words) /\ j - 1 < j
    BY <1>0
  <2>3. j - 1 \notin Bad
    BY <2>1, <2>2
  <2>4. words[j - 1].to <= words[j].from /\ words[j - 1].from < words[j - 1].to
    <3>1. j \in DOMAIN words /\ j - 1 \in DOMAIN words /\ j > 1
      BY <1>0, <2>2
    <3> QED BY <3>1 DEF InTime
  <2>5. CASE i = j - 1
    BY <2>4, <2>5
  <2>6. CASE i < j - 1
    <3>1. words[i].to <= words[j - 1].from
      BY <2>2, <2>3, <2>6
    <3> QED BY <1>0, <2>2, <2>4, <3>1
  <2> QED BY <1>0, <2>2, <2>5, <2>6
<1> QED BY <1>1

LEMMA ClippedRange ==
    ASSUME NEW from \in Nat, NEW to \in Nat, from < to, NEW a \in Nat, NEW b \in Nat, a < b, b > from, a < to
    PROVE  LET x == IF a - from < 0 THEN 0 ELSE a - from
               y == IF b - from > to - from THEN to - from ELSE b - from
           IN  x \in Nat /\ y \in Nat /\ x < y /\ y <= to - from
OBVIOUS

LEMMA ClippedApart ==
    ASSUME NEW from \in Nat, NEW to \in Nat, from < to, NEW b \in Nat, NEW c \in Nat, b <= c, b > from, c < to
    PROVE  (IF b - from > to - from THEN to - from ELSE b - from) <= (IF c - from < 0 THEN 0 ELSE c - from)
OBVIOUS

LEMMA SliceInTime ==
    ASSUME NEW words \in Seq(TimedWords), NEW length \in Nat, InTime(words, length),
           NEW from \in Nat, NEW to \in Nat, from < to
    PROVE  InTime(Slice(words, from, to), to - from)
<1> DEFINE I == { i \in 1..Len(words) : words[i].to > from /\ words[i].from < to }
           q == Ascending(I)
           s == Slice(words, from, to)
<1>1. /\ Rises(q, I) /\ s \in Seq(TimedWords) /\ Len(s) = Len(q)
      /\ \A n \in 1..Len(q) :
            /\ q[n] \in I
            /\ s[n].from = (IF words[q[n]].from - from < 0 THEN 0 ELSE words[q[n]].from - from)
            /\ s[n].to = (IF words[q[n]].to - from > to - from THEN to - from ELSE words[q[n]].to - from)
  <2>1. SlicedAs(TimedWords, words, from, to, s)
    BY SliceIs
  <2> HIDE DEF s
  <2> QED BY SMTT(30), <2>1 DEF SlicedAs
<1>2. \A n \in 1..Len(q) : /\ q[n] \in 1..Len(words)
                           /\ words[q[n]].to > from /\ words[q[n]].from < to
  BY SMTT(30), <1>1
<1>3. \A m, n \in 1..Len(q) : m < n <=> q[m] < q[n]
  BY <1>1 DEF Rises
<1>4. DOMAIN s = 1..Len(q) /\ Len(q) \in Nat
  BY <1>1 DEF Rises
<1> HIDE DEF I, q, s
<1>5. \A i \in 1..Len(words) : words[i].from \in Nat /\ words[i].to \in Nat /\ words[i].from < words[i].to
  <2>1. \A i \in 1..Len(words) : words[i] \in TimedWords
    OBVIOUS
  <2> QED BY <2>1 DEF TimedWords, InTime
<1>6. ASSUME NEW n \in 1..Len(q) PROVE s[n].from < s[n].to /\ s[n].to <= to - from
  <2>1. PICK a \in Nat, b \in Nat : a = words[q[n]].from /\ b = words[q[n]].to
    BY <1>2, <1>5
  <2>2. a < b /\ b > from /\ a < to
    BY <1>2, <1>5, <2>1
  <2>3. /\ s[n].from = (IF a - from < 0 THEN 0 ELSE a - from)
        /\ s[n].to = (IF b - from > to - from THEN to - from ELSE b - from)
    BY <1>1, <2>1
  <2> QED BY <2>2, <2>3, ClippedRange
<1>7. ASSUME NEW n \in 1..Len(q), n > 1 PROVE s[n - 1].to <= s[n].from
  <2>1. n - 1 \in 1..Len(q) /\ n - 1 < n
    BY <1>4, <1>7
  <2>2. q[n - 1] < q[n] /\ q[n - 1] \in 1..Len(words) /\ q[n] \in 1..Len(words)
    BY <1>2, <1>3, <2>1
  <2>3. words[q[n - 1]].to <= words[q[n]].from
    BY <2>2, WordsApart
  <2>4. PICK b \in Nat, c \in Nat : b = words[q[n - 1]].to /\ c = words[q[n]].from
    BY <1>5, <2>2
  <2>5. b <= c /\ b > from /\ c < to
    BY <1>2, <2>1, <2>3, <2>4
  <2>6. /\ s[n - 1].to = (IF b - from > to - from THEN to - from ELSE b - from)
        /\ s[n].from = (IF c - from < 0 THEN 0 ELSE c - from)
    BY <1>1, <2>1, <2>4
  <2> QED BY <2>5, <2>6, ClippedApart
<1> QED BY SMTT(30), <1>4, <1>6, <1>7 DEF InTime, s

Kept(clip) == clip \in MediaClips /\ InTime(clip.words, clip.length)

LEMMA CutKeeps ==
    ASSUME NEW clip, Kept(clip), NEW from \in Nat, NEW to \in Nat, CanCut(clip, from, to)
    PROVE  /\ Kept(Cut(clip, from, to)) /\ Cut(clip, from, to).kind = "clip"
           /\ Cut(clip, from, to).length = to - from
           /\ Cut(clip, from, to).words = Slice(clip.words, from, to)
<1>1. from < to /\ clip.words \in Seq(TimedWords) /\ clip.length \in Nat
      /\ clip.quiet \in Seq(Stretches) /\ clip.bright \in Seq(Stretches)
  BY SMTT(30) DEF CanCut, Kept, MediaClips
<1>2. Slice(clip.words, from, to) \in Seq(TimedWords)
  BY <1>1, SliceIs DEF SlicedAs
<1>3. Slice(clip.quiet, from, to) \in Seq(Stretches) /\ Slice(clip.bright, from, to) \in Seq(Stretches)
  BY <1>1, SliceIs DEF SlicedAs
<1>4. InTime(Slice(clip.words, from, to), to - from)
  BY <1>1, SliceInTime DEF Kept
<1>5. to - from \in Nat
  BY <1>1
<1> QED BY <1>2, <1>3, <1>4, <1>5 DEF Kept, MediaClips, Cut, Clip

LEMMA LaterWords ==
    ASSUME NEW items \in Seq(TimedWords), NEW offset \in Nat
    PROVE  /\ Later(items, offset) \in Seq(TimedWords) /\ Len(Later(items, offset)) = Len(items)
           /\ \A i \in 1..Len(items) :
                 /\ Later(items, offset)[i].from = items[i].from + offset
                 /\ Later(items, offset)[i].to = items[i].to + offset
                 /\ Later(items, offset)[i].text = items[i].text
<1> DEFINE l == Later(items, offset)
<1>1. Len(items) \in Nat /\ DOMAIN items = 1..Len(items) /\ \A i \in 1..Len(items) : items[i] \in TimedWords
  OBVIOUS
<1>2. \A i \in 1..Len(items) : l[i] = Placed(items[i], items[i].from + offset, items[i].to + offset)
  BY <1>1 DEF Later
<1>3. DOMAIN l = 1..Len(items) /\ l = [i \in 1..Len(items) |-> l[i]]
  BY <1>1 DEF Later
<1> HIDE DEF l
<1>4. ASSUME NEW i \in 1..Len(items)
      PROVE  l[i] \in TimedWords /\ l[i].from = items[i].from + offset /\ l[i].to = items[i].to + offset
             /\ l[i].text = items[i].text
  <2>1. PICK w \in TimedWords : w = items[i]
    BY <1>1
  <2>2. PICK a \in Nat, b \in Nat : a = w.from + offset /\ b = w.to + offset
    <3>1. w.from \in Nat /\ w.to \in Nat
      BY DEF TimedWords
    <3> QED BY SMTT(30), <3>1
  <2>3. WordMoved(Placed(w, a, b), w, a, b)
    BY TimedMoves
  <2>4. l[i] = Placed(w, a, b)
    BY <1>2, <2>1, <2>2
  <2> QED BY <2>1, <2>2, <2>3, <2>4 DEF WordMoved
<1>5. l \in [1..Len(items) -> TimedWords]
  BY <1>3, <1>4
<1>6. l \in Seq(TimedWords) /\ Len(l) = Len(items)
  BY <1>1, <1>5
<1> QED BY <1>4, <1>6 DEF l

LEMMA LaterStretches ==
    ASSUME NEW items \in Seq(Stretches), NEW offset \in Nat
    PROVE  Later(items, offset) \in Seq(Stretches)
<1> DEFINE l == Later(items, offset)
<1>1. Len(items) \in Nat /\ DOMAIN items = 1..Len(items) /\ \A i \in 1..Len(items) : items[i] \in Stretches
  OBVIOUS
<1>2. \A i \in 1..Len(items) : l[i] = Placed(items[i], items[i].from + offset, items[i].to + offset)
  BY <1>1 DEF Later
<1>3. DOMAIN l = 1..Len(items) /\ l = [i \in 1..Len(items) |-> l[i]]
  BY <1>1 DEF Later
<1> HIDE DEF l
<1>4. ASSUME NEW i \in 1..Len(items) PROVE l[i] \in Stretches
  <2>1. PICK w \in Stretches : w = items[i]
    BY <1>1
  <2>2. PICK a \in Nat, b \in Nat : a = w.from + offset /\ b = w.to + offset
    <3>1. w.from \in Nat /\ w.to \in Nat
      BY DEF Stretches
    <3> QED BY <3>1
  <2>3. Placed(w, a, b) \in Stretches
    BY StretchMoves
  <2> QED BY <1>2, <2>1, <2>2, <2>3
<1>5. l \in [1..Len(items) -> Stretches]
  BY <1>3, <1>4
<1> QED BY <1>1, <1>5 DEF l

LEMMA JoinKeeps ==
    ASSUME NEW clip, Kept(clip), NEW next, Kept(next)
    PROVE  /\ Kept(Join(clip, next)) /\ Join(clip, next).kind = "clip"
           /\ Join(clip, next).words = clip.words \o Later(next.words, clip.length)
<1> DEFINE w == clip.words
           l == Later(next.words, clip.length)
           k == clip.length
<1>1. /\ w \in Seq(TimedWords) /\ k \in Nat
      /\ clip.quiet \in Seq(Stretches) /\ clip.bright \in Seq(Stretches)
      /\ next.words \in Seq(TimedWords) /\ next.length \in Nat
      /\ next.quiet \in Seq(Stretches) /\ next.bright \in Seq(Stretches)
  BY DEF Kept, MediaClips
<1>2. /\ l \in Seq(TimedWords) /\ Len(l) = Len(next.words)
      /\ \A i \in 1..Len(next.words) :
            l[i].from = next.words[i].from + k /\ l[i].to = next.words[i].to + k
  BY <1>1, LaterWords
<1>3. Later(next.quiet, k) \in Seq(Stretches) /\ Later(next.bright, k) \in Seq(Stretches)
  BY <1>1, LaterStretches
<1>4. \A i \in 1..Len(next.words) : next.words[i].from \in Nat /\ next.words[i].to \in Nat
  <2>1. \A i \in 1..Len(next.words) : next.words[i] \in TimedWords
    BY <1>1
  <2> QED BY <2>1 DEF TimedWords
<1>5. \A i \in 1..Len(w) : w[i].from \in Nat /\ w[i].to \in Nat
  <2>1. \A i \in 1..Len(w) : w[i] \in TimedWords
    BY <1>1
  <2> QED BY <2>1 DEF TimedWords
<1>6. /\ \A i \in 1..Len(w) : w[i].from < w[i].to /\ w[i].to <= k /\ (i > 1 => w[i - 1].to <= w[i].from)
      /\ \A i \in 1..Len(next.words) : next.words[i].from < next.words[i].to /\ next.words[i].to <= next.length
                                       /\ (i > 1 => next.words[i - 1].to <= next.words[i].from)
  <2>1. DOMAIN w = 1..Len(w) /\ DOMAIN next.words = 1..Len(next.words)
    BY <1>1
  <2>2. InTime(w, k) /\ InTime(next.words, next.length)
    BY DEF Kept
  <2> HIDE DEF w, k
  <2> QED BY <2>1, <2>2 DEF InTime
<1>7. PICK s : s = w \o l
  OBVIOUS
<1> HIDE DEF w, l, k
<1>8. /\ s \in Seq(TimedWords) /\ Len(s) = Len(w) + Len(l) /\ Len(w) \in Nat /\ Len(l) \in Nat
      /\ \A i \in 1..Len(w) : s[i] = w[i]
      /\ \A i \in 1..Len(l) : s[Len(w) + i] = l[i]
  BY <1>1, <1>2, <1>7, ConcatIs
<1>12. PICK m \in Nat, n \in Nat : m = Len(w) /\ n = Len(l)
  BY <1>8
<1>13. /\ Len(s) = m + n /\ \A i \in 1..m : s[i] = w[i]
       /\ \A i \in 1..n : s[m + i] = l[i]
  BY <1>8, <1>12
<1>14. \A i \in 1..m : /\ s[i].from \in Nat /\ s[i].to \in Nat
                       /\ s[i].from < s[i].to /\ s[i].to <= k
  BY <1>5, <1>6, <1>12, <1>13
<1>15. ASSUME NEW i \in 1..n
       PROVE  /\ s[m + i].from \in Nat /\ s[m + i].to \in Nat /\ s[m + i].from < s[m + i].to
              /\ s[m + i].to <= k + next.length /\ s[m + i].from >= k
              /\ i > 1 => s[m + i - 1].to <= s[m + i].from
  <2>1. i \in 1..Len(next.words)
    BY <1>2, <1>12
  <2>2. PICK a \in Nat, b \in Nat : a = next.words[i].from /\ b = next.words[i].to
    BY <1>4, <2>1
  <2>3. a < b /\ b <= next.length
    BY <1>6, <2>1, <2>2
  <2>4. s[m + i].from = a + k /\ s[m + i].to = b + k
    BY <1>2, <1>13, <2>1, <2>2
  <2>5. ASSUME i > 1 PROVE s[m + i - 1].to <= s[m + i].from
    <3>1. i - 1 \in 1..n /\ i - 1 \in 1..Len(next.words)
      BY <2>1, <2>5
    <3>2. PICK c \in Nat : c = next.words[i - 1].to
      BY <1>4, <3>1
    <3>3. c <= a
      BY <1>6, <2>1, <2>2, <2>5, <3>2
    <3>4. s[m + (i - 1)].to = c + k
      BY <1>2, <1>13, <3>1, <3>2
    <3>5. m + (i - 1) = m + i - 1
      BY <2>1
    <3>6. s[m + i - 1].to = c + k
      BY <3>4, <3>5
    <3> QED BY <1>1, <2>4, <3>3, <3>6
  <2> QED BY SMTT(30), <1>1, <2>3, <2>4, <2>5
<1>9. ASSUME NEW i \in 1..Len(s)
      PROVE  /\ s[i].from < s[i].to /\ s[i].to <= k + next.length
             /\ i > 1 => s[i - 1].to <= s[i].from
  <2>1. CASE i <= m
    <3>1. i \in 1..m
      BY <2>1, <1>13
    <3>2. s[i].from < s[i].to /\ s[i].to <= k /\ s[i].to \in Nat
      BY <1>14, <3>1
    <3>3. s[i].to <= k + next.length
      BY <1>1, <3>2
    <3>4. ASSUME i > 1 PROVE s[i - 1].to <= s[i].from
      <4>1. i - 1 \in 1..m
        BY <3>1, <3>4
      <4>2. w[i - 1].to <= w[i].from
        BY <1>6, <1>12, <3>1, <3>4
      <4> QED BY <1>13, <3>1, <4>1, <4>2
    <3> QED BY <3>2, <3>3, <3>4
  <2>2. CASE i > m
    <3>1. PICK j \in 1..n : i = m + j
      <4>1. i - m \in 1..n /\ i = m + (i - m)
        BY <1>13, <2>2
      <4> QED BY <4>1
    <3>2. CASE j > 1
      <4>1. /\ s[m + j].from < s[m + j].to /\ s[m + j].to <= k + next.length
            /\ s[m + j - 1].to <= s[m + j].from
        BY <1>15, <3>2
      <4> QED BY <3>1, <4>1
    <3>3. CASE j = 1
      <4>1. s[i].from < s[i].to /\ s[i].to <= k + next.length /\ s[i].from >= k /\ s[i].from \in Nat
        BY <1>15, <3>1
      <4>2. ASSUME i > 1 PROVE s[i - 1].to <= s[i].from
        <5>1. i - 1 \in 1..m
          BY <3>1, <3>3, <4>2
        <5>2. s[i - 1].to <= k /\ s[i - 1].to \in Nat
          BY <1>14, <5>1
        <5> QED BY <1>1, <4>1, <5>2
      <4> QED BY <4>1, <4>2
    <3> QED BY <3>1, <3>2, <3>3
  <2> QED BY <1>13, <2>1, <2>2
<1>10. InTime(s, k + next.length)
  <2>1. DOMAIN s = 1..Len(s)
    BY <1>8
  <2> QED BY <1>9, <2>1 DEF InTime
<1>11. /\ k + next.length \in Nat
       /\ clip.quiet \o Later(next.quiet, k) \in Seq(Stretches)
       /\ clip.bright \o Later(next.bright, k) \in Seq(Stretches)
  <2>1. k + next.length \in Nat
    BY <1>1
  <2>2. clip.quiet \o Later(next.quiet, k) \in Seq(Stretches)
    BY <1>1, <1>3, ConcatIs
  <2>3. clip.bright \o Later(next.bright, k) \in Seq(Stretches)
    BY <1>1, <1>3, ConcatIs
  <2> QED BY <2>1, <2>2, <2>3
<1>16. Join(clip, next) = [kind |-> "clip", length |-> k + next.length, words |-> s,
                           quiet |-> clip.quiet \o Later(next.quiet, k),
                           bright |-> clip.bright \o Later(next.bright, k)]
  BY <1>7 DEF Join, Clip, w, l, k
<1>17. Join(clip, next) \in MediaClips /\ Join(clip, next).words = s /\ Join(clip, next).length = k + next.length
       /\ Join(clip, next).kind = "clip"
  BY <1>8, <1>11, <1>16 DEF MediaClips
<1> QED BY <1>7, <1>10, <1>17 DEF Kept, w, l, k

(* Muting.                                                                    *)
WordMuted(w, from, to) == IF w.from >= from /\ w.to <= to THEN MutedAt(w) ELSE w

LEMMA MutedWord ==
    ASSUME NEW w \in TimedWords
    PROVE  MutedAt(w) \in TimedWords /\ MutedAt(w).from = w.from /\ MutedAt(w).to = w.to
           /\ MutedAt(w).kinds = {} /\ MutedAt(w).text = Muted
<1>1. w.from \in Nat /\ w.to \in Nat
  BY DEF TimedWords
<1>2. {} \in SUBSET {"filler", "profanity"}
  OBVIOUS
<1>3. Muted \in WordTexts
  BY DEF Muted, WordTexts
<1> QED BY <1>1, <1>2, <1>3 DEF TimedWords, MutedAt

MutedOut(m, clip, from, to) ==
    /\ m \in MediaClips /\ m.kind = clip.kind /\ m.length = clip.length
    /\ m.words \in Seq(TimedWords) /\ Len(m.words) = Len(clip.words)
    /\ \A i \in 1..Len(clip.words) : m.words[i] = WordMuted(clip.words[i], from, to)

LEMMA MuteIs ==
    ASSUME NEW clip \in MediaClips, NEW from \in Nat, NEW to \in Nat
    PROVE  MutedOut(Mute(clip, from, to), clip, from, to)
<1> DEFINE W == [i \in DOMAIN clip.words |-> WordMuted(clip.words[i], from, to)]
           Q == Append(clip.quiet, [from |-> from, to |-> to])
           m == Mute(clip, from, to)
<1>1. /\ clip.words \in Seq(TimedWords) /\ clip.length \in Nat
      /\ clip.quiet \in Seq(Stretches) /\ clip.bright \in Seq(Stretches)
      /\ clip.kind \in {"clip", "export"}
  BY DEF MediaClips
<1>2. DOMAIN clip.words = 1..Len(clip.words) /\ Len(clip.words) \in Nat
      /\ \A i \in 1..Len(clip.words) : clip.words[i] \in TimedWords
  BY <1>1
<1>3. \A w \in TimedWords : WordMuted(w, from, to) \in TimedWords
  BY MutedWord DEF WordMuted
<1>4. W \in [1..Len(clip.words) -> TimedWords]
  BY <1>2, <1>3
<1>5. W \in Seq(TimedWords) /\ Len(W) = Len(clip.words)
      /\ \A i \in 1..Len(clip.words) : W[i] = WordMuted(clip.words[i], from, to)
  BY <1>2, <1>4
<1>6. Q \in Seq(Stretches)
  <2>1. [from |-> from, to |-> to] \in Stretches
    BY DEF Stretches
  <2> QED BY <1>1, <2>1, AppendProperties
<1>7. m = [clip EXCEPT !.words = W, !.quiet = Q]
  BY DEF Mute, WordMuted
<1> HIDE DEF W, Q, m
<1> DEFINE u == [clip EXCEPT !.words = W]
<1>8. u \in MediaClips /\ u.kind = clip.kind /\ u.length = clip.length /\ u.words = W
  BY <1>5 DEF MediaClips
<1>9. m = [u EXCEPT !.quiet = Q]
  BY <1>7 DEF MediaClips
<1> HIDE DEF u
<1>10. m \in MediaClips /\ m.kind = clip.kind /\ m.length = clip.length /\ m.words = W
  BY <1>6, <1>8, <1>9 DEF MediaClips
<1> QED BY <1>5, <1>10 DEF MutedOut, m

LEMMA MuteKeeps ==
    ASSUME NEW clip, Kept(clip), NEW from \in Nat, NEW to \in Nat
    PROVE  Kept(Mute(clip, from, to)) /\ Mute(clip, from, to).kind = clip.kind
<1> DEFINE m == Mute(clip, from, to)
<1>1. MutedOut(m, clip, from, to)
  BY MuteIs DEF Kept
<1> HIDE DEF m
<1>2. clip.words \in Seq(TimedWords)
  BY DEF Kept, MediaClips
<1>3. Len(clip.words) \in Nat /\ DOMAIN clip.words = 1..Len(clip.words) /\ DOMAIN m.words = 1..Len(clip.words)
      /\ \A i \in 1..Len(clip.words) : clip.words[i] \in TimedWords
  BY <1>1, <1>2 DEF MutedOut
<1>4. \A w \in TimedWords : WordMuted(w, from, to).from = w.from /\ WordMuted(w, from, to).to = w.to
  BY MutedWord DEF WordMuted
<1>5. \A i \in 1..Len(clip.words) : m.words[i].from = clip.words[i].from /\ m.words[i].to = clip.words[i].to
  BY <1>1, <1>3, <1>4 DEF MutedOut
<1>6. InTime(m.words, m.length)
  <2>1. m.length = clip.length /\ InTime(clip.words, clip.length)
    BY <1>1 DEF MutedOut, Kept
  <2> SUFFICES ASSUME NEW i \in 1..Len(clip.words)
               PROVE  /\ m.words[i].from < m.words[i].to /\ m.words[i].to <= m.length
                      /\ i > 1 => m.words[i - 1].to <= m.words[i].from
    BY <1>3 DEF InTime
  <2>2. clip.words[i].from < clip.words[i].to /\ clip.words[i].to <= clip.length
        /\ (i > 1 => clip.words[i - 1].to <= clip.words[i].from)
    BY <1>3, <2>1 DEF InTime
  <2>3. i > 1 => i - 1 \in 1..Len(clip.words)
    BY <1>3
  <2> QED BY <1>5, <2>1, <2>2, <2>3
<1> QED BY <1>1, <1>6 DEF Kept, MutedOut, m

(* What a list of words says at an instant.                                   *)
Says(words, x, u) ==
    \E i \in 1..Len(words) : words[i].text = x /\ words[i].from <= u /\ u < words[i].to

LEMMA SliceSays ==
    ASSUME NEW words \in Seq(TimedWords), NEW length, InTime(words, length),
           NEW from \in Nat, NEW to \in Nat, from < to, NEW x, NEW u \in Nat
    PROVE  Says(Slice(words, from, to), x, u) <=> Says(words, x, u + from) /\ u < to - from
<1> DEFINE I == { i \in 1..Len(words) : words[i].to > from /\ words[i].from < to }
           q == Ascending(I)
           s == Slice(words, from, to)
<1>1. /\ Rises(q, I) /\ Len(s) = Len(q)
      /\ \A n \in 1..Len(q) :
            /\ q[n] \in I
            /\ s[n].from = (IF words[q[n]].from - from < 0 THEN 0 ELSE words[q[n]].from - from)
            /\ s[n].to = (IF words[q[n]].to - from > to - from THEN to - from ELSE words[q[n]].to - from)
            /\ s[n].text = words[q[n]].text
  <2>1. SlicedAs(TimedWords, words, from, to, s)
    BY SliceIs
  <2> HIDE DEF s
  <2> QED BY SMTT(30), <2>1 DEF SlicedAs
<1>2. \A n \in 1..Len(q) : q[n] \in 1..Len(words)
  BY SMTT(30), <1>1
<1>3. \A i \in I : \E n \in 1..Len(q) : q[n] = i
  BY <1>1 DEF Rises
<1>4. \A i \in 1..Len(words) : words[i].from \in Nat /\ words[i].to \in Nat
  <2>1. \A i \in 1..Len(words) : words[i] \in TimedWords
    OBVIOUS
  <2> QED BY <2>1 DEF TimedWords
<1>5. \A i \in 1..Len(words) : i \in I <=> words[i].to > from /\ words[i].from < to
  OBVIOUS
<1> HIDE DEF I, q, s
<1>6. ASSUME NEW i \in 1..Len(words), NEW n \in 1..Len(q), q[n] = i
      PROVE  s[n].from <= u /\ u < s[n].to <=> words[i].from <= u + from /\ u + from < words[i].to /\ u < to - from
  <2>1. PICK a \in Nat, b \in Nat : a = words[i].from /\ b = words[i].to
    BY <1>4
  <2>2. /\ s[n].from = (IF a - from < 0 THEN 0 ELSE a - from)
        /\ s[n].to = (IF b - from > to - from THEN to - from ELSE b - from)
    BY <1>1, <1>6, <2>1
  <2>3. ((IF a - from < 0 THEN 0 ELSE a - from) <= u /\ u < (IF b - from > to - from THEN to - from ELSE b - from))
        <=> a <= u + from /\ u + from < b /\ u < to - from
    OBVIOUS
  <2> QED BY <2>1, <2>2, <2>3
<1>7. ASSUME Says(s, x, u) PROVE Says(words, x, u + from) /\ u < to - from
  <2>1. PICK n \in 1..Len(q) : s[n].text = x /\ s[n].from <= u /\ u < s[n].to
    BY <1>1, <1>7 DEF Says
  <2>2. q[n] \in 1..Len(words) /\ words[q[n]].text = x
    BY <1>1, <1>2, <2>1
  <2> QED BY <1>6, <2>1, <2>2 DEF Says
<1>8. ASSUME Says(words, x, u + from), u < to - from PROVE Says(s, x, u)
  <2>1. PICK i \in 1..Len(words) : words[i].text = x /\ words[i].from <= u + from /\ u + from < words[i].to
    BY <1>8 DEF Says
  <2>2. words[i].to > from /\ words[i].from < to
    <3>1. PICK a \in Nat, b \in Nat : a = words[i].from /\ b = words[i].to
      BY <1>4
    <3> QED BY <1>8, <2>1, <3>1
  <2>3. PICK n \in 1..Len(q) : q[n] = i
    BY <1>3, <1>5, <2>2
  <2>4. s[n].text = x /\ n \in 1..Len(s)
    BY <1>1, <2>1, <2>3
  <2> QED BY <1>6, <1>8, <2>1, <2>3, <2>4 DEF Says
<1> QED BY SMTT(30), <1>7, <1>8 DEF s

LEMMA LaterSays ==
    ASSUME NEW items \in Seq(TimedWords), NEW offset \in Nat, NEW x, NEW u \in Nat
    PROVE  Says(Later(items, offset), x, u) <=> u >= offset /\ Says(items, x, u - offset)
<1> DEFINE l == Later(items, offset)
<1>1. /\ Len(l) = Len(items)
      /\ \A i \in 1..Len(items) :
            l[i].from = items[i].from + offset /\ l[i].to = items[i].to + offset /\ l[i].text = items[i].text
  BY LaterWords
<1>2. \A i \in 1..Len(items) : items[i].from \in Nat /\ items[i].to \in Nat
  <2>1. \A i \in 1..Len(items) : items[i] \in TimedWords
    OBVIOUS
  <2> QED BY <2>1 DEF TimedWords
<1> HIDE DEF l
<1>3. ASSUME NEW i \in 1..Len(items)
      PROVE  l[i].from <= u /\ u < l[i].to <=> u >= offset /\ items[i].from <= u - offset /\ u - offset < items[i].to
  <2>1. PICK a \in Nat, b \in Nat : a = items[i].from /\ b = items[i].to
    BY <1>2
  <2>2. l[i].from = a + offset /\ l[i].to = b + offset
    BY <1>1, <2>1
  <2> QED BY SMTT(30), <2>1, <2>2
<1> QED BY <1>1, <1>3 DEF Says, l

LEMMA ConcatSays ==
    ASSUME NEW s \in Seq(TimedWords), NEW t \in Seq(TimedWords), NEW x, NEW u
    PROVE  Says(s \o t, x, u) <=> Says(s, x, u) \/ Says(t, x, u)
<1>1. PICK c : c = s \o t
  OBVIOUS
<1>2. PICK m \in Nat, n \in Nat : m = Len(s) /\ n = Len(t)
  OBVIOUS
<1>3. /\ Len(c) = m + n
      /\ \A i \in 1..m : c[i] = s[i]
      /\ \A i \in 1..n : c[m + i] = t[i]
  BY <1>1, <1>2, ConcatIs
<1>4. \A i \in 1..Len(c) : i \in 1..m \/ \E j \in 1..n : i = m + j
  <2> TAKE i \in 1..Len(c)
  <2>1. i \notin 1..m => i - m \in 1..n /\ i = m + (i - m)
    BY <1>3
  <2> QED BY <2>1
<1>5. \A i \in 1..m : i \in 1..Len(c)
  BY <1>3
<1>6. \A j \in 1..n : m + j \in 1..Len(c)
  BY <1>3
<1>7. ASSUME Says(c, x, u) PROVE Says(s, x, u) \/ Says(t, x, u)
  <2>1. PICK i \in 1..Len(c) : c[i].text = x /\ c[i].from <= u /\ u < c[i].to
    BY <1>7 DEF Says
  <2>2. CASE i \in 1..m
    BY <1>2, <1>3, <2>1, <2>2 DEF Says
  <2>3. CASE \E j \in 1..n : i = m + j
    BY <1>2, <1>3, <2>1, <2>3 DEF Says
  <2> QED BY <1>4, <2>2, <2>3
<1>8. ASSUME Says(s, x, u) PROVE Says(c, x, u)
  BY <1>2, <1>3, <1>5, <1>8 DEF Says
<1>9. ASSUME Says(t, x, u) PROVE Says(c, x, u)
  BY <1>2, <1>3, <1>6, <1>9 DEF Says
<1> QED BY <1>1, <1>7, <1>8, <1>9

LEMMA SaidIs ==
    ASSUME NEW clip, Kept(clip)
    PROVE  Said(clip) = { p \in WordTexts \X Nat : Says(clip.words, p[1], p[2]) }
<1>1. clip.words \in Seq(TimedWords)
  BY DEF Kept, MediaClips
<1> DEFINE w == clip.words
           Here(i) == {w[i].text} \X (w[i].from .. w[i].to - 1)
<1>2. DOMAIN w = 1..Len(w) /\ \A i \in 1..Len(w) : w[i].text \in WordTexts /\ w[i].from \in Nat /\ w[i].to \in Nat
  <2>1. DOMAIN w = 1..Len(w) /\ \A i \in 1..Len(w) : w[i] \in TimedWords
    BY <1>1
  <2> QED BY <2>1 DEF TimedWords
<1>3. Said(clip) = UNION { Here(i) : i \in 1..Len(w) }
  BY <1>2 DEF Said
<1>4. ASSUME NEW i \in 1..Len(w), NEW p
      PROVE  p \in Here(i) <=> p \in WordTexts \X Nat /\ w[i].text = p[1] /\ w[i].from <= p[2] /\ p[2] < w[i].to
  <2>1. PICK a \in Nat, b \in Nat : a = w[i].from /\ b = w[i].to
    BY <1>2
  <2>2. PICK x \in WordTexts : x = w[i].text
    BY <1>2
  <2>3. p \in {x} \X (a .. b - 1) <=> p \in WordTexts \X Nat /\ x = p[1] /\ a <= p[2] /\ p[2] < b
    <3>1. ASSUME p \in {x} \X (a .. b - 1) PROVE p \in WordTexts \X Nat /\ x = p[1] /\ a <= p[2] /\ p[2] < b
      BY <3>1
    <3>2. ASSUME p \in WordTexts \X Nat, x = p[1], a <= p[2], p[2] < b PROVE p \in {x} \X (a .. b - 1)
      BY <3>2
    <3> QED BY <3>1, <3>2
  <2> HIDE DEF w
  <2> QED BY <2>1, <2>2, <2>3
<1>5. \A p : p \in Said(clip) <=> \E i \in 1..Len(w) : p \in Here(i)
  <2> HIDE DEF w, Here
  <2> QED BY <1>3
<1> HIDE DEF Here
<1>6. \A p : p \in Said(clip) <=> p \in WordTexts \X Nat /\ Says(w, p[1], p[2])
  BY <1>4, <1>5 DEF Says
<1> QED BY <1>6

LEMMA Rejoins ==
    ASSUME NEW clip, Kept(clip), NEW t \in 1 .. clip.length - 1
    PROVE  Said(Join(Cut(clip, 0, t), Cut(clip, t, clip.length))) = Said(clip)
<1> DEFINE L == clip.length
           w == clip.words
           a == Cut(clip, 0, t)
           b == Cut(clip, t, L)
           j == Join(a, b)
<1>1. L \in Nat /\ w \in Seq(TimedWords) /\ InTime(w, L)
  BY DEF Kept, MediaClips
<1>2. t \in Nat /\ 0 < t /\ t < L /\ 0 \in Nat
  BY <1>1
<1>3. CanCut(clip, 0, t) /\ CanCut(clip, t, L)
  BY <1>1, <1>2 DEF CanCut
<1>4. Kept(a) /\ a.length = t /\ a.words = Slice(w, 0, t)
  BY <1>1, <1>2, <1>3, CutKeeps
<1>5. Kept(b) /\ b.words = Slice(w, t, L)
  BY <1>1, <1>2, <1>3, CutKeeps
<1> HIDE DEF a, b
<1>6. Kept(j) /\ j.words = a.words \o Later(b.words, t)
  BY <1>4, <1>5, JoinKeeps
<1> HIDE DEF j, w, L
<1>7. a.words \in Seq(TimedWords) /\ b.words \in Seq(TimedWords)
  BY <1>4, <1>5 DEF Kept, MediaClips
<1>8. ASSUME NEW x, NEW u \in Nat PROVE Says(j.words, x, u) <=> Says(w, x, u)
  <2>1. Later(b.words, t) \in Seq(TimedWords)
    BY <1>2, <1>7, LaterWords
  <2>2. Says(j.words, x, u) <=> Says(a.words, x, u) \/ Says(Later(b.words, t), x, u)
    BY <1>6, <1>7, <2>1, ConcatSays
  <2>3. Says(a.words, x, u) <=> Says(w, x, u + 0) /\ u < t - 0
    BY <1>1, <1>2, <1>4, SliceSays
  <2>4. Says(Later(b.words, t), x, u) <=> u >= t /\ Says(b.words, x, u - t)
    BY <1>2, <1>7, LaterSays
  <2>5. ASSUME u >= t PROVE Says(b.words, x, u - t) <=> Says(w, x, (u - t) + t) /\ u - t < L - t
    <3>1. u - t \in Nat
      BY <1>2, <2>5
    <3> QED BY <1>1, <1>2, <1>5, <3>1, SliceSays
  <2>6. u + 0 = u /\ t - 0 = t /\ (u - t) + t = u /\ (u - t < L - t <=> u < L) /\ (u < t <=> ~(u >= t))
    BY <1>1, <1>2
  <2>7. Says(w, x, u) => u < L
    <3>1. \A i \in 1..Len(w) : w[i].to <= L /\ w[i].to \in Nat
      <4>1. DOMAIN w = 1..Len(w) /\ \A i \in 1..Len(w) : w[i] \in TimedWords
        BY <1>1
      <4>2. \A i \in 1..Len(w) : w[i].to \in Nat
        BY <4>1 DEF TimedWords
      <4> QED BY <1>1, <4>1, <4>2 DEF InTime
    <3>2. ASSUME NEW i \in 1..Len(w), u < w[i].to PROVE u < L
      BY <1>1, <3>1, <3>2
    <3> QED BY <3>2 DEF Says
  <2>8. u >= t => (Says(b.words, x, u - t) <=> Says(w, x, u) /\ u < L)
    BY <2>5, <2>6
  <2>9. Says(a.words, x, u) <=> Says(w, x, u) /\ u < t
    BY <2>3, <2>6
  <2> QED BY <2>2, <2>4, <2>6, <2>7, <2>8, <2>9
<1>9. \A p \in WordTexts \X Nat : Says(j.words, p[1], p[2]) <=> Says(w, p[1], p[2])
  BY <1>8
<1>10. Said(j) = Said(clip)
  <2>1. Said(j) = { p \in WordTexts \X Nat : Says(j.words, p[1], p[2]) }
    BY <1>6, SaidIs
  <2>2. Said(clip) = { p \in WordTexts \X Nat : Says(w, p[1], p[2]) }
    BY SaidIs DEF w
  <2> QED BY <1>9, <2>1, <2>2
<1> QED BY <1>10 DEF j, a, b, L

(* The segments of the words of one kind.                                     *)
SegmentsOf(reported, clip, kind) ==
    /\ Len(reported) \in Nat /\ DOMAIN reported = 1..Len(reported)
    /\ \A n \in 1..Len(reported) : reported[n].from \in Nat /\ reported[n].to \in Nat
    /\ \A i \in 1..Len(clip.words) : kind \in clip.words[i].kinds =>
          \E n \in 1..Len(reported) : reported[n].from = clip.words[i].from /\ reported[n].to = clip.words[i].to

LEMMA DetectedAre ==
    ASSUME NEW clip, Kept(clip), NEW kind \in {"profanity", "filler"}
    PROVE  LET place == IF kind = "filler" THEN 1 ELSE 3
           IN  Detected(clip, {kind}) = { <<place, i>> : i \in { j \in 1..Len(clip.words) : kind \in clip.words[j].kinds } }
<1> DEFINE place == IF kind = "filler" THEN 1 ELSE 3
           Here == { j \in 1..Len(clip.words) : kind \in clip.words[j].kinds }
           D == DOMAIN clip.words \cup DOMAIN clip.quiet \cup DOMAIN clip.bright
<1>1. DOMAIN clip.words = 1..Len(clip.words)
  BY DEF Kept, MediaClips
<1>2. /\ DOMAIN SegmentKinds = 1..4
      /\ \A k \in 1..4 : SegmentKinds[k] = kind <=> k = place
  BY DEF SegmentKinds
<1>3. Timed(clip, kind) = clip.words
  BY DEF Timed
<1>4. \A p : p \in Detected(clip, {kind}) <=>
          /\ p \in (1..4) \X D /\ SegmentKinds[p[1]] = kind
          /\ p[2] \in DOMAIN clip.words /\ kind \in clip.words[p[2]].kinds
  <2> HIDE DEF D
  <2>1. \A p : p \in Detected(clip, {kind}) <=>
          /\ p \in (1..4) \X D /\ SegmentKinds[p[1]] \in {kind}
          /\ p[2] \in DOMAIN Timed(clip, SegmentKinds[p[1]])
          /\ SegmentKinds[p[1]] \in {"filler", "profanity"} => SegmentKinds[p[1]] \in clip.words[p[2]].kinds
    BY <1>2 DEF Detected, D
  <2> QED BY <1>3, <2>1
<1>5. place \in 1..4
  OBVIOUS
<1> HIDE DEF place
<1>6. ASSUME NEW p \in Detected(clip, {kind}) PROVE p \in { <<place, i>> : i \in Here }
  <2>1. p \in (1..4) \X D /\ p[1] = place /\ p[2] \in Here
    <3>1. p \in (1..4) \X D /\ SegmentKinds[p[1]] = kind /\ p[2] \in 1..Len(clip.words) /\ kind \in clip.words[p[2]].kinds
      BY <1>1, <1>4
    <3>2. p[2] \in Here
      BY <3>1
    <3> HIDE DEF D, Here
    <3>3. p[1] \in 1..4
      BY <3>1
    <3> QED BY <1>2, <3>1, <3>2, <3>3
  <2>2. p = <<place, p[2]>>
    <3> HIDE DEF D, Here
    <3> QED BY <2>1
  <2> QED BY <2>1, <2>2
<1>7. ASSUME NEW i \in Here PROVE <<place, i>> \in Detected(clip, {kind})
  <2>1. i \in DOMAIN clip.words /\ kind \in clip.words[i].kinds /\ i \in D
    BY <1>1
  <2>2. SegmentKinds[place] = kind
    BY <1>2, <1>5
  <2> HIDE DEF D, Here
  <2>3. <<place, i>> \in (1..4) \X D
    BY <1>5, <2>1
  <2> QED BY <1>4, <2>1, <2>2, <2>3
<1> HIDE DEF Here
<1>8. Detected(clip, {kind}) = { <<place, i>> : i \in Here }
  BY <1>6, <1>7
<1> QED BY <1>8 DEF Here, place

Orderly(a, b, c, d, e, f, g, h) ==
    a < e \/ (a = e /\ b < f) \/ (a = e /\ b = f /\ c < g) \/ (a = e /\ b = f /\ c = g /\ d < h)

LEMMA SegmentsAre ==
    ASSUME NEW clip, Kept(clip), NEW kind \in {"profanity", "filler"}
    PROVE  SegmentsOf(Segments(clip, {kind}), clip, kind)
<1> DEFINE place == IF kind = "filler" THEN 1 ELSE 3
           Here == { j \in 1..Len(clip.words) : kind \in clip.words[j].kinds }
           found == Detected(clip, {kind})
           R == { pair \in found \X found : Sooner(clip, pair[1], pair[2]) }
           sorted == Listed(found, R)
           reported == Segments(clip, {kind})
<1>1. found = { <<place, i>> : i \in Here }
  BY DetectedAre
<1>2. place \in 1..4 /\ SegmentKinds[place] = kind /\ Timed(clip, kind) = clip.words
  BY DEF SegmentKinds, Timed
<1>3. \A i \in 1..Len(clip.words) : clip.words[i].from \in Nat /\ clip.words[i].to \in Nat
  <2>1. \A i \in 1..Len(clip.words) : clip.words[i] \in TimedWords
    BY DEF Kept, MediaClips
  <2> QED BY <2>1 DEF TimedWords
<1>4. Len(clip.words) \in Nat
  BY DEF Kept, MediaClips
<1> HIDE DEF place
<1>5. ASSUME NEW i \in Here
      PROVE  Segment(clip, <<place, i>>) = [kind |-> kind, from |-> clip.words[i].from, to |-> clip.words[i].to]
  BY <1>2 DEF Segment
<1>6. ASSUME NEW i \in Here, NEW k \in Here
      PROVE  <<<<place, i>>, <<place, k>>>> \in R <=>
                \/ clip.words[i].from < clip.words[k].from
                \/ clip.words[i].from = clip.words[k].from /\ clip.words[i].to < clip.words[k].to
                \/ clip.words[i].from = clip.words[k].from /\ clip.words[i].to = clip.words[k].to /\ i < k
  <2>1. <<place, i>> \in found /\ <<place, k>> \in found
    BY <1>1
  <2>2. <<<<place, i>>, <<place, k>>>> \in R <=> Sooner(clip, <<place, i>>, <<place, k>>)
    <3> HIDE DEF found, Here
    <3> QED BY <2>1
  <2>3. ~(place < place)
    BY <1>2
  <2> HIDE DEF found, R, Here
  <2>4. Sooner(clip, <<place, i>>, <<place, k>>) <=>
                \/ clip.words[i].from < clip.words[k].from
                \/ clip.words[i].from = clip.words[k].from /\ clip.words[i].to < clip.words[k].to
                \/ clip.words[i].from = clip.words[k].from /\ clip.words[i].to = clip.words[k].to /\ i < k
    <3>1. PICK A : A = Segment(clip, <<place, i>>)
      OBVIOUS
    <3>2. PICK B : B = Segment(clip, <<place, k>>)
      OBVIOUS
    <3>3. /\ A.from = clip.words[i].from /\ A.to = clip.words[i].to
          /\ B.from = clip.words[k].from /\ B.to = clip.words[k].to
      <4>1. /\ A = [kind |-> kind, from |-> clip.words[i].from, to |-> clip.words[i].to]
            /\ B = [kind |-> kind, from |-> clip.words[k].from, to |-> clip.words[k].to]
        BY <1>5, <3>1, <3>2
      <4> QED BY <4>1
    <3>4. Sooner(clip, <<place, i>>, <<place, k>>) <=>
            \/ A.from < B.from
            \/ A.from = B.from /\ A.to < B.to
            \/ A.from = B.from /\ A.to = B.to /\ place < place
            \/ A.from = B.from /\ A.to = B.to /\ i < k
      BY <3>1, <3>2 DEF Sooner
    <3> QED BY <2>3, <3>3, <3>4
  <2> QED BY <2>2, <2>4
<1>7. Here \in SUBSET (1..Len(clip.words)) /\ IsFiniteSet(Here)
  <2>1. IsFiniteSet(1..Len(clip.words)) /\ Here \in SUBSET (1..Len(clip.words))
    BY <1>4, FS_Interval
  <2> HIDE DEF Here
  <2> QED BY <2>1, FS_Subset
<1>8. IsFiniteSet(found)
  <2>1. \A S : IsFiniteSet(S) => IsFiniteSet({ <<place, i>> : i \in S })
    <3> TAKE S
    <3> HAVE IsFiniteSet(S)
    <3> DEFINE m == [i \in S |-> <<place, i>>]
               U == { <<place, i>> : i \in S }
    <3>1. m \in Surjection(S, U)
      BY DEF Surjection
    <3> HIDE DEF m, U
    <3>2. IsFiniteSet(U)
      BY <3>1, FS_Surjection
    <3> QED BY <3>2 DEF U
  <2> HIDE DEF Here, found
  <2> QED BY <1>1, <1>7, <2>1
<1> HIDE DEF Here, found, R
<1>9. ASSUME NEW p \in found PROVE p[2] \in Here /\ p = <<place, p[2]>>
  BY <1>1
<1>10. Orders(R, found)
  <2>1. ASSUME NEW x \in found PROVE <<x, x>> \notin R
    <3>1. PICK i \in Here : x = <<place, i>>
      BY <1>9
    <3>2. i \in Nat /\ clip.words[i].from \in Nat /\ clip.words[i].to \in Nat
      BY <1>3, <1>4, <1>7
    <3> QED BY <1>6, <3>1, <3>2
  <2>2. ASSUME NEW x \in found, NEW y \in found, x # y PROVE <<x, y>> \in R \/ <<y, x>> \in R
    <3>1. PICK i \in Here : x = <<place, i>>
      BY <1>9
    <3>2. PICK k \in Here : y = <<place, k>>
      BY <1>9
    <3>3. i \in Nat /\ k \in Nat /\ i # k
      BY <1>7, <2>2, <3>1, <3>2
    <3>4. PICK a \in Nat, b \in Nat, c \in Nat, d \in Nat :
            a = clip.words[i].from /\ b = clip.words[i].to /\ c = clip.words[k].from /\ d = clip.words[k].to
      BY <1>3, <1>7
    <3>5. <<x, y>> \in R <=> (a < c \/ (a = c /\ b < d) \/ (a = c /\ b = d /\ i < k))
      BY <1>6, <3>1, <3>2, <3>4
    <3>6. <<y, x>> \in R <=> (c < a \/ (c = a /\ d < b) \/ (c = a /\ d = b /\ k < i))
      BY <1>6, <3>1, <3>2, <3>4
    <3> QED BY <3>3, <3>5, <3>6
  <2>3. ASSUME NEW x \in found, NEW y \in found, NEW z \in found, <<x, y>> \in R, <<y, z>> \in R PROVE <<x, z>> \in R
    <3>1. PICK i \in Here : x = <<place, i>>
      BY <1>9
    <3>2. PICK k \in Here : y = <<place, k>>
      BY <1>9
    <3>3. PICK l \in Here : z = <<place, l>>
      BY <1>9
    <3>4. i \in Nat /\ k \in Nat /\ l \in Nat
      BY <1>7
    <3>5. PICK a \in Nat, b \in Nat : a = clip.words[i].from /\ b = clip.words[i].to
      BY <1>3, <1>7
    <3>6. PICK c \in Nat, d \in Nat : c = clip.words[k].from /\ d = clip.words[k].to
      BY <1>3, <1>7
    <3>7. PICK e \in Nat, f \in Nat : e = clip.words[l].from /\ f = clip.words[l].to
      BY <1>3, <1>7
    <3>8. a < c \/ (a = c /\ b < d) \/ (a = c /\ b = d /\ i < k)
      BY <1>6, <2>3, <3>1, <3>2, <3>5, <3>6
    <3>9. c < e \/ (c = e /\ d < f) \/ (c = e /\ d = f /\ k < l)
      BY <1>6, <2>3, <3>2, <3>3, <3>6, <3>7
    <3>10. <<x, z>> \in R <=> (a < e \/ (a = e /\ b < f) \/ (a = e /\ b = f /\ i < l))
      BY <1>6, <3>1, <3>3, <3>5, <3>7
    <3> QED BY <3>4, <3>8, <3>9, <3>10
  <2> QED BY <2>1, <2>2, <2>3 DEF Orders
<1> DEFINE N == Cardinality(found)
<1>11. N \in Nat /\ sorted \in [1..N -> found] /\ \A x \in found : \E n \in 1..N : sorted[n] = x
  BY <1>8, <1>10, ListedIs
<1>12. reported = [n \in DOMAIN sorted |-> Segment(clip, sorted[n])]
  BY DEF Segments, found, R
<1> HIDE DEF N, sorted, reported
<1>13. DOMAIN reported = 1..N /\ \A n \in 1..N : reported[n] = Segment(clip, sorted[n])
  BY <1>11, <1>12
<1>14. Len(reported) = N
  BY <1>11, <1>13
<1>15. \A n \in 1..N : sorted[n][2] \in Here /\ reported[n].from = clip.words[sorted[n][2]].from
                        /\ reported[n].to = clip.words[sorted[n][2]].to
  <2> TAKE n \in 1..N
  <2>1. sorted[n] \in found
    BY <1>11
  <2>2. PICK i \in Here : sorted[n] = <<place, i>>
    BY <1>9, <2>1
  <2>3. reported[n] = [kind |-> kind, from |-> clip.words[i].from, to |-> clip.words[i].to]
    BY <1>5, <1>13, <2>2
  <2> QED BY <2>2, <2>3
<1>16. \A n \in 1..N : reported[n].from \in Nat /\ reported[n].to \in Nat
  BY <1>3, <1>7, <1>15
<1>17. ASSUME NEW i \in 1..Len(clip.words), kind \in clip.words[i].kinds
       PROVE  \E n \in 1..N : reported[n].from = clip.words[i].from /\ reported[n].to = clip.words[i].to
  <2>1. i \in Here
    BY <1>17 DEF Here
  <2>2. <<place, i>> \in found
    BY <1>1, <2>1
  <2>3. PICK n \in 1..N : sorted[n] = <<place, i>>
    BY <1>11, <2>2
  <2> QED BY <1>15, <2>3
<1> QED BY <1>11, <1>13, <1>14, <1>16, <1>17 DEF SegmentsOf, reported

MutedSoFar(m, clip, reported, n) ==
    /\ Kept(m) /\ m.words \in Seq(TimedWords) /\ Len(m.words) = Len(clip.words)
    /\ \A i \in 1..Len(clip.words) :
          /\ m.words[i] = clip.words[i] \/ m.words[i] = MutedAt(clip.words[i])
          /\ (\E k \in 1..n : reported[k].from = clip.words[i].from /\ reported[k].to = clip.words[i].to) =>
                m.words[i] = MutedAt(clip.words[i])

LEMMA MutesOneMore ==
    ASSUME NEW clip, Kept(clip), NEW reported, NEW n \in Nat, NEW m, MutedSoFar(m, clip, reported, n - 1), n > 0,
           reported[n].from \in Nat, reported[n].to \in Nat
    PROVE  MutedSoFar(Mute(m, reported[n].from, reported[n].to), clip, reported, n)
<1> DEFINE from == reported[n].from
           to == reported[n].to
           r == Mute(m, from, to)
<1>1. Kept(m) /\ m \in MediaClips /\ from \in Nat /\ to \in Nat /\ Len(m.words) = Len(clip.words)
  BY DEF MutedSoFar, Kept
<1> HIDE DEF from, to
<1>2. Kept(r)
  BY <1>1, MuteKeeps
<1>3. MutedOut(r, m, from, to)
  BY <1>1, MuteIs
<1> HIDE DEF r
<1>4. r.words \in Seq(TimedWords) /\ Len(r.words) = Len(clip.words)
      /\ \A i \in 1..Len(clip.words) : r.words[i] = WordMuted(m.words[i], from, to)
  BY <1>1, <1>3 DEF MutedOut
<1>5. ASSUME NEW i \in 1..Len(clip.words)
      PROVE  /\ r.words[i] = clip.words[i] \/ r.words[i] = MutedAt(clip.words[i])
             /\ (\E k \in 1..n : reported[k].from = clip.words[i].from /\ reported[k].to = clip.words[i].to) =>
                   r.words[i] = MutedAt(clip.words[i])
  <2>1. PICK w \in TimedWords : w = clip.words[i]
    <3>1. clip.words \in Seq(TimedWords)
      BY DEF Kept, MediaClips
    <3> QED BY <3>1
  <2>2. /\ m.words[i] = w \/ m.words[i] = MutedAt(w)
        /\ (\E k \in 1..n - 1 : reported[k].from = w.from /\ reported[k].to = w.to) => m.words[i] = MutedAt(w)
    BY <2>1 DEF MutedSoFar
  <2>3. MutedAt(MutedAt(w)) = MutedAt(w) /\ MutedAt(w).from = w.from /\ MutedAt(w).to = w.to
    BY DEF MutedAt
  <2>4. r.words[i] = WordMuted(m.words[i], from, to)
    BY <1>4
  <2>5. WordMuted(w, from, to) = w \/ WordMuted(w, from, to) = MutedAt(w)
    BY DEF WordMuted
  <2>6. WordMuted(MutedAt(w), from, to) = MutedAt(w)
    BY <2>3 DEF WordMuted
  <2>7. r.words[i] = w \/ r.words[i] = MutedAt(w)
    BY <2>2, <2>4, <2>5, <2>6
  <2>8. ASSUME NEW k \in 1..n, reported[k].from = w.from, reported[k].to = w.to PROVE r.words[i] = MutedAt(w)
    <3>1. CASE k = n
      <4>1. from = w.from /\ to = w.to
        BY <2>8, <3>1 DEF from, to
      <4>2. w.from \in Nat /\ w.to \in Nat
        BY <1>1, <4>1
      <4>3. w.from >= from /\ w.to <= to
        BY <4>1, <4>2
      <4>4. WordMuted(w, from, to) = MutedAt(w)
        BY <4>3 DEF WordMuted
      <4> QED BY <2>2, <2>4, <2>6, <4>4
    <3>2. CASE k # n
      <4>1. k \in 1..n - 1
        BY <3>2
      <4> QED BY <2>2, <2>4, <2>6, <2>8, <4>1
    <3> QED BY <3>1, <3>2
  <2> QED BY <2>1, <2>7, <2>8
<1> QED BY <1>2, <1>4, <1>5 DEF MutedSoFar, r, from, to

LEMMA MutedAtAll ==
    ASSUME NEW clip, Kept(clip), NEW kind \in {"profanity", "filler"}, NEW reported, SegmentsOf(reported, clip, kind),
           NEW m, MutedSoFar(m, clip, reported, Len(reported))
    PROVE  Segments(m, {kind}) = <<>>
<1>1. ASSUME NEW i \in 1..Len(m.words) PROVE kind \notin m.words[i].kinds
  <2>1. i \in 1..Len(clip.words)
    BY DEF MutedSoFar
  <2>2. MutedAt(clip.words[i]).kinds = {}
    BY DEF MutedAt
  <2>3. CASE kind \in clip.words[i].kinds
    <3>1. m.words[i] = MutedAt(clip.words[i])
      BY <2>1, <2>3 DEF SegmentsOf, MutedSoFar
    <3> QED BY <2>2, <3>1
  <2>4. CASE kind \notin clip.words[i].kinds
    BY <2>1, <2>2, <2>4 DEF MutedSoFar
  <2> QED BY <2>3, <2>4
<1>2. Detected(m, {kind}) = {}
  <2>1. Kept(m)
    BY DEF MutedSoFar
  <2>2. { j \in 1..Len(m.words) : kind \in m.words[j].kinds } = {}
    BY <1>1
  <2> DEFINE Here == { j \in 1..Len(m.words) : kind \in m.words[j].kinds }
             place == IF kind = "filler" THEN 1 ELSE 3
  <2>3. Detected(m, {kind}) = { <<place, i>> : i \in Here }
    BY <2>1, DetectedAre
  <2>4. Here = {}
    BY <2>2
  <2> HIDE DEF Here, place
  <2> QED BY <2>3, <2>4
<1> DEFINE R == { pair \in Detected(m, {kind}) \X Detected(m, {kind}) : Sooner(m, pair[1], pair[2]) }
           s == Listed(Detected(m, {kind}), R)
<1>3. DOMAIN s = {}
  <2>1. DOMAIN s = 1..Cardinality(Detected(m, {kind}))
    BY DEF Listed
  <2>2. Cardinality(Detected(m, {kind})) = 0
    BY <1>2, FS_EmptySet
  <2> HIDE DEF s
  <2> QED BY <2>1, <2>2
<1>4. Segments(m, {kind}) = [n \in DOMAIN s |-> Segment(m, s[n])]
  BY DEF Segments
<1> HIDE DEF s
<1> QED BY <1>3, <1>4

LEMMA MutedClear ==
    ASSUME NEW clip, Kept(clip), NEW kind \in {"profanity", "filler"}
    PROVE  LET reported == Segments(clip, {kind})
               muted[n \in 0 .. Len(reported)] ==
                   IF n = 0 THEN clip ELSE Mute(muted[n - 1], reported[n].from, reported[n].to)
           IN  Segments(muted[Len(reported)], {kind}) = <<>>
<1> DEFINE reported == Segments(clip, {kind})
           K == Len(reported)
           X == { m \in MediaClips : Kept(m) }
           G == [p \in (1..K) \X X |-> Mute(p[2], reported[p[1]].from, reported[p[1]].to)]
           run == CHOOSE f : f = [n \in 0..K |-> IF n = 0 THEN clip ELSE Mute(f[n - 1], reported[n].from, reported[n].to)]
<1>1. SegmentsOf(reported, clip, kind)
  BY SegmentsAre
<1> HIDE DEF reported
<1>2. K \in Nat /\ \A n \in 1..K : reported[n].from \in Nat /\ reported[n].to \in Nat
  BY <1>1 DEF SegmentsOf
<1> HIDE DEF K
<1>3. clip \in X
  BY DEF Kept
<1>4. ASSUME NEW p \in (1..K) \X X PROVE Mute(p[2], reported[p[1]].from, reported[p[1]].to) \in X
  <2>1. PICK n \in 1..K, m \in X : p = <<n, m>>
    <3> HIDE DEF X
    <3> QED OBVIOUS
  <2>2. Kept(m) /\ reported[n].from \in Nat /\ reported[n].to \in Nat
    BY <1>2
  <2>3. Kept(Mute(m, reported[n].from, reported[n].to))
    BY <2>2, MuteKeeps
  <2> QED BY <2>1, <2>3 DEF Kept
<1> HIDE DEF X
<1>5. G \in [(1..K) \X X -> X]
  BY <1>4
<1>6. \A n \in 1..K, m \in X : G[<<n, m>>] = Mute(m, reported[n].from, reported[n].to)
  OBVIOUS
<1> HIDE DEF G
<1>7. PICK f : Steps(f, K, X, clip, G)
  BY <1>2, <1>3, <1>5, StepsExist
<1>8. f \in [0..K -> X] /\ f[0] = clip /\ \A n \in 1..K : f[n] = Mute(f[n - 1], reported[n].from, reported[n].to)
  <2>1. \A n \in 1..K : n - 1 \in 0..K
    BY <1>2
  <2> QED BY <1>6, <1>7, <2>1 DEF Steps
<1>9. f = [n \in 0..K |-> IF n = 0 THEN clip ELSE Mute(f[n - 1], reported[n].from, reported[n].to)]
  <2>1. \A n \in 0..K : n # 0 => n \in 1..K
    BY <1>2
  <2> QED BY <1>8, <2>1
<1>10. run = [n \in 0..K |-> IF n = 0 THEN clip ELSE Mute(run[n - 1], reported[n].from, reported[n].to)]
  BY <1>9
<1> HIDE DEF run
<1>11. run[0] = clip /\ \A n \in 1..K : run[n] = Mute(run[n - 1], reported[n].from, reported[n].to)
  <2>1. 0 \in 0..K /\ \A n \in 1..K : n \in 0..K /\ n # 0
    BY <1>2
  <2> QED BY <1>10, <2>1
<1> DEFINE S == { n \in 0..K : MutedSoFar(run[n], clip, reported, n) }
<1>12. 0 \in S
  <2>1. 1..0 = {} /\ 0 \in 0..K
    BY <1>2
  <2>2. clip.words \in Seq(TimedWords)
    BY DEF Kept, MediaClips
  <2>3. MutedSoFar(clip, clip, reported, 0)
    BY <2>1, <2>2 DEF MutedSoFar
  <2> QED BY <1>11, <2>1, <2>3
<1>13. ASSUME NEW n \in 1..K, n - 1 \in S PROVE n \in S
  <2>1. MutedSoFar(run[n - 1], clip, reported, n - 1) /\ n \in Nat /\ n > 0
    BY <1>2, <1>13
  <2>2. MutedSoFar(Mute(run[n - 1], reported[n].from, reported[n].to), clip, reported, n)
    BY <1>2, <2>1, MutesOneMore
  <2> QED BY <1>2, <1>11, <2>2
<1> HIDE DEF S
<1>14. \A n \in 0..K : n \in S
  BY <1>2, <1>12, <1>13, CountsUp
<1>15. MutedSoFar(run[K], clip, reported, K)
  BY <1>2, <1>14 DEF S
<1>16. Segments(run[K], {kind}) = <<>>
  BY <1>1, <1>15, MutedAtAll DEF K
<1> QED BY <1>16 DEF run, K, reported

(* Captions.                                                                  *)
Cues == [from : Nat, to : Nat, words : Seq(TimedWords)]
CueStates == [cues : Seq(Cues), open : Seq(TimedWords)]

\* What the cues say, one after another.
SaidIn(cues) ==
    LET said[n \in 0 .. Len(cues)] == IF n = 0 THEN <<>> ELSE said[n - 1] \o cues[n].words
    IN  said[Len(cues)]

SaysSoFar(f, cues) ==
    /\ f \in [0..Len(cues) -> Seq(TimedWords)] /\ f[0] = <<>>
    /\ \A n \in 1..Len(cues) : f[n] = f[n - 1] \o cues[n].words

LEMMA SaidInIs ==
    ASSUME NEW cues \in Seq(Cues)
    PROVE  \E f : SaysSoFar(f, cues) /\ SaidIn(cues) = f[Len(cues)]
<1> DEFINE K == Len(cues)
           X == Seq(TimedWords)
           G == [p \in (1..K) \X X |-> p[2] \o cues[p[1]].words]
           run == CHOOSE f : f = [n \in 0..K |-> IF n = 0 THEN <<>> ELSE f[n - 1] \o cues[n].words]
<1>1. SaidIn(cues) = run[K]
  BY DEF SaidIn
<1>2. K \in Nat /\ \A n \in 1..K : cues[n].words \in X
  <2>1. \A n \in 1..K : cues[n] \in Cues
    OBVIOUS
  <2> QED BY <2>1 DEF Cues
<1> HIDE DEF K
<1>3. \A n \in 1..K, m \in X : m \o cues[n].words \in X
  <2> TAKE n \in 1..K, m \in X
  <2>1. cues[n].words \in X
    BY <1>2
  <2> QED BY <2>1, ConcatIs
<1>4. <<>> \in X
  OBVIOUS
<1> HIDE DEF X
<1>5. G \in [(1..K) \X X -> X] /\ \A n \in 1..K, m \in X : G[<<n, m>>] = m \o cues[n].words
  <2>1. ASSUME NEW p \in (1..K) \X X PROVE p[2] \o cues[p[1]].words \in X
    <3>1. p[1] \in 1..K /\ p[2] \in X
      OBVIOUS
    <3> QED BY <1>3, <3>1
  <2>2. G \in [(1..K) \X X -> X]
    BY <2>1
  <2> QED BY <2>2
<1> HIDE DEF G
<1>6. PICK f : Steps(f, K, X, <<>>, G)
  BY <1>2, <1>4, <1>5, StepsExist
<1>7. f \in [0..K -> X] /\ f[0] = <<>> /\ \A n \in 1..K : f[n] = f[n - 1] \o cues[n].words
  <2>1. \A n \in 1..K : n - 1 \in 0..K
    BY <1>2
  <2> QED BY <1>5, <1>6, <2>1 DEF Steps
<1>8. f = [n \in 0..K |-> IF n = 0 THEN <<>> ELSE f[n - 1] \o cues[n].words]
  <2>1. \A n \in 0..K : n # 0 => n \in 1..K
    BY <1>2
  <2> QED BY ZenonT(30), <1>7, <2>1
<1>9. run = [n \in 0..K |-> IF n = 0 THEN <<>> ELSE run[n - 1] \o cues[n].words]
  BY ZenonT(30), <1>8
<1> HIDE DEF run
<1>10. run[0] = <<>> /\ \A n \in 1..K : run[n] = run[n - 1] \o cues[n].words
  <2>1. 0 \in 0..K /\ \A n \in 1..K : n \in 0..K /\ n # 0
    BY <1>2
  <2> QED BY <1>9, <2>1
<1> DEFINE S == { n \in 0..K : run[n] = f[n] }
<1>11. 0 \in S /\ \A n \in 1..K : n - 1 \in S => n \in S
  <2>1. 0 \in S
    BY <1>2, <1>7, <1>10
  <2>2. ASSUME NEW n \in 1..K, n - 1 \in S PROVE n \in S
    <3>1. run[n - 1] = f[n - 1] /\ n \in 0..K
      BY <2>2
    <3>2. f[n] = f[n - 1] \o cues[n].words
      BY <1>7
    <3>3. run[n] = run[n - 1] \o cues[n].words
      BY <1>10
    <3>4. run[n] = f[n]
      BY <3>1, <3>2, <3>3, Zenon
    <3> QED BY <3>1, <3>4
  <2> QED BY <2>1, <2>2
<1> HIDE DEF S
<1>12. \A n \in 0..K : n \in S
  BY <1>2, <1>11, CountsUp
<1>13. run[K] = f[K]
  BY <1>2, <1>12 DEF S
<1> QED BY <1>1, <1>7, <1>13 DEF SaysSoFar, X, K

LEMMA SaidInNone == SaidIn(<<>>) = <<>>
<1>1. <<>> \in Seq(Cues) /\ Len(<<>>) = 0
  OBVIOUS
<1>2. PICK f : SaysSoFar(f, <<>>) /\ SaidIn(<<>>) = f[Len(<<>>)]
  BY <1>1, SaidInIs
<1> QED BY <1>1, <1>2 DEF SaysSoFar

LEMMA SaidInMore ==
    ASSUME NEW cues \in Seq(Cues), NEW cue \in Cues
    PROVE  /\ SaidIn(Append(cues, cue)) = SaidIn(cues) \o cue.words
           /\ SaidIn(cues) \in Seq(TimedWords)
<1>1. PICK more : more = Append(cues, cue)
  OBVIOUS
<1>2. more \in Seq(Cues) /\ Len(more) = Len(cues) + 1 /\ more[Len(cues) + 1] = cue
      /\ \A i \in 1..Len(cues) : more[i] = cues[i]
  BY <1>1, AppendProperties
<1>3. PICK f : SaysSoFar(f, cues) /\ SaidIn(cues) = f[Len(cues)]
  BY SaidInIs
<1>4. PICK g : SaysSoFar(g, more) /\ SaidIn(more) = g[Len(more)]
  BY <1>2, SaidInIs
<1>5. PICK K \in Nat : K = Len(cues)
  OBVIOUS
<1>6. /\ f \in [0..K -> Seq(TimedWords)] /\ f[0] = <<>> /\ \A n \in 1..K : f[n] = f[n - 1] \o cues[n].words
      /\ g[0] = <<>> /\ \A n \in 1 .. K + 1 : g[n] = g[n - 1] \o more[n].words
  BY <1>2, <1>3, <1>4, <1>5 DEF SaysSoFar
<1> DEFINE S == { n \in 0..K : g[n] = f[n] }
<1>7. 0 \in S
  BY <1>6
<1>8. ASSUME NEW n \in 1..K, n - 1 \in S PROVE n \in S
  <2>1. n \in 1 .. K + 1 /\ n \in 0..K /\ more[n] = cues[n] /\ g[n - 1] = f[n - 1]
    BY <1>2, <1>5, <1>8
  <2>2. f[n] = f[n - 1] \o cues[n].words
    BY <1>6
  <2>3. g[n] = g[n - 1] \o more[n].words
    BY <1>6, <2>1
  <2>4. g[n] = f[n]
    BY <2>1, <2>2, <2>3, Zenon
  <2> QED BY <2>1, <2>4
<1> HIDE DEF S
<1>9. \A n \in 0..K : n \in S
  BY <1>7, <1>8, CountsUp
<1>10. g[K] = f[K]
  BY <1>9 DEF S
<1>11. g[K + 1] = g[K] \o cue.words
  <2>1. K + 1 \in 1 .. K + 1 /\ (K + 1) - 1 = K
    OBVIOUS
  <2> QED BY <1>2, <1>5, <1>6, <2>1
<1>12. f[K] \in Seq(TimedWords)
  BY <1>6
<1> QED BY <1>1, <1>2, <1>3, <1>4, <1>5, <1>10, <1>11, <1>12

Audible(words) == { i \in DOMAIN words : words[i].text # Muted }

(* The cues so far are in order, and say with the open one what was heard.    *)
CuesSoFar(words, n, state) ==
    /\ state \in CueStates
    /\ SaidIn(state.cues) \in Seq(TimedWords)
    /\ SaidIn(state.cues) \o state.open = Picked(words, Audible(words) \cap (1..n))
    /\ \A i \in 1..Len(state.cues) : i > 1 => state.cues[i - 1].to <= state.cues[i].from
    /\ state.open = <<>> /\ state.cues # <<>> =>
          \A k \in 1..Len(words) : k > n => state.cues[Len(state.cues)].to <= words[k].from
    /\ state.open # <<>> =>
          /\ state.cues # <<>> => state.cues[Len(state.cues)].to <= Head(state.open).from
          /\ \A k \in 1..Len(words) : k > n => state.open[Len(state.open)].to <= words[k].from

LEMMA ClosedKeeps ==
    ASSUME NEW words \in Seq(TimedWords), NEW n \in 0..Len(words), NEW state, CuesSoFar(words, n, state)
    PROVE  CuesSoFar(words, n, Closed(state)) /\ Closed(state).open = <<>>
<1>1. CASE state.open = <<>>
  BY <1>1 DEF Closed
<1>2. CASE state.open # <<>>
  <2> DEFINE open == state.open
             cues == state.cues
             cue == [from |-> Head(open).from, to |-> open[Len(open)].to, words |-> open]
             more == Append(cues, cue)
             next == [cues |-> more, open |-> <<>>]
  <2>1. cues \in Seq(Cues) /\ open \in Seq(TimedWords) /\ open # <<>>
    BY <1>2 DEF CuesSoFar, CueStates
  <2>2. Closed(state) = next
    BY <1>2 DEF Closed
  <2> HIDE DEF cues, open
  <2>3. Head(open).from \in Nat /\ open[Len(open)].to \in Nat
    <3>1. Head(open) \in TimedWords /\ open[Len(open)] \in TimedWords
      BY <2>1, EmptyStarts
    <3> QED BY <3>1 DEF TimedWords
  <2>4. cue \in Cues /\ cue.from = Head(open).from /\ cue.to = open[Len(open)].to /\ cue.words = open
    BY <2>1, <2>3 DEF Cues
  <2> HIDE DEF cue
  <2>5. /\ more \in Seq(Cues) /\ Len(more) = Len(cues) + 1 /\ more[Len(cues) + 1] = cue
        /\ \A i \in 1..Len(cues) : more[i] = cues[i]
    BY <2>1, <2>4, AppendProperties
  <2>6. SaidIn(more) = SaidIn(cues) \o open /\ SaidIn(cues) \in Seq(TimedWords)
    BY <2>1, <2>4, SaidInMore
  <2> HIDE DEF more
  <2>7. next \in CueStates /\ next.cues = more /\ next.open = <<>>
    BY <2>5 DEF CueStates
  <2> HIDE DEF next
  <2>8. SaidIn(more) \in Seq(TimedWords)
    BY <2>1, <2>6, ConcatIs
  <2>9. SaidIn(more) \o <<>> = SaidIn(more)
    BY <2>8
  <2>10. SaidIn(next.cues) \o next.open = Picked(words, Audible(words) \cap (1..n))
    BY <2>6, <2>7, <2>9 DEF CuesSoFar, cues, open
  <2>11. Len(cues) \in Nat /\ (cues # <<>> => Len(cues) > 0)
    BY <2>1
  <2>12. /\ \A i \in 1..Len(cues) : i > 1 => cues[i - 1].to <= cues[i].from
         /\ cues # <<>> => cues[Len(cues)].to <= cue.from
         /\ \A k \in 1..Len(words) : k > n => cue.to <= words[k].from
    BY <1>2, <2>4 DEF CuesSoFar, cues, open
  <2>13. ASSUME NEW i \in 1..Len(more), i > 1 PROVE more[i - 1].to <= more[i].from
    <3>1. CASE i = Len(cues) + 1
      <4>1. i - 1 = Len(cues) /\ Len(cues) \in 1..Len(cues) /\ cues # <<>>
        BY <2>11, <2>13, <3>1
      <4>2. more[i - 1] = cues[Len(cues)] /\ more[i] = cue
        BY <2>5, <3>1, <4>1
      <4> QED BY <2>12, <4>1, <4>2
    <3>2. CASE i # Len(cues) + 1
      <4>1. i \in 1..Len(cues) /\ i - 1 \in 1..Len(cues)
        BY <2>5, <2>11, <2>13, <3>2
      <4>2. more[i] = cues[i] /\ more[i - 1] = cues[i - 1]
        BY <2>5, <4>1
      <4> QED BY <2>12, <2>13, <4>1, <4>2
    <3> QED BY <3>1, <3>2
  <2>14. more[Len(more)] = cue
    BY <2>5
  <2>15. CuesSoFar(words, n, next)
    BY <2>7, <2>8, <2>10, <2>12, <2>13, <2>14 DEF CuesSoFar
  <2> QED BY <2>2, <2>7, <2>15
<1> QED BY <1>1, <1>2

LEMMA ClosedIs ==
    ASSUME NEW state \in CueStates
    PROVE  Closed(state) \in CueStates /\ Closed(state).open = <<>>
<1>1. CASE state.open = <<>>
  BY <1>1 DEF Closed
<1>2. CASE state.open # <<>>
  <2> DEFINE open == state.open
             cue == [from |-> Head(open).from, to |-> open[Len(open)].to, words |-> open]
  <2>1. state.cues \in Seq(Cues) /\ open \in Seq(TimedWords) /\ open # <<>>
    BY <1>2 DEF CueStates
  <2>2. Closed(state) = [cues |-> Append(state.cues, cue), open |-> <<>>]
    BY <1>2 DEF Closed
  <2> HIDE DEF open
  <2>3. Head(open).from \in Nat /\ open[Len(open)].to \in Nat
    <3>1. Head(open) \in TimedWords /\ open[Len(open)] \in TimedWords
      BY <2>1, EmptyStarts
    <3> QED BY <3>1 DEF TimedWords
  <2>4. cue \in Cues
    BY <2>1, <2>3 DEF Cues
  <2> HIDE DEF cue
  <2>5. Append(state.cues, cue) \in Seq(Cues)
    BY <2>1, <2>4, AppendProperties
  <2> QED BY <2>2, <2>5 DEF CueStates
<1> QED BY <1>1, <1>2

OpenWith(state, word) == [state EXCEPT !.open = Append(@, word)]

LEMMA OpenWithIs ==
    ASSUME NEW state \in CueStates, NEW word \in TimedWords
    PROVE  /\ OpenWith(state, word) \in CueStates /\ OpenWith(state, word).cues = state.cues
           /\ OpenWith(state, word).open = Append(state.open, word)
           /\ state.cues \in Seq(Cues) /\ state.open \in Seq(TimedWords)
<1>1. state.cues \in Seq(Cues) /\ state.open \in Seq(TimedWords)
  BY DEF CueStates
<1>2. Append(state.open, word) \in Seq(TimedWords)
  BY <1>1, AppendProperties
<1>3. PICK o : o = Append(state.open, word)
  OBVIOUS
<1>4. OpenWith(state, word) = [state EXCEPT !.open = o]
  BY <1>3 DEF OpenWith
<1>5. o \in Seq(TimedWords)
  BY <1>2, <1>3
<1>6. [state EXCEPT !.open = o] \in CueStates /\ [state EXCEPT !.open = o].cues = state.cues
      /\ [state EXCEPT !.open = o].open = o
  BY <1>5 DEF CueStates
<1> QED BY <1>1, <1>3, <1>4, <1>6

LEMMA HearsIs ==
    ASSUME NEW state, NEW word
    PROVE  \/ word.text = Muted /\ Hears(state, word) = Closed(state)
           \/ /\ word.text # Muted
              /\ Hears(state, word) = OpenWith(state, word) \/ Hears(state, word) = Closed(OpenWith(state, word))
BY DEF Hears, OpenWith

LEMMA HearsKeeps ==
    ASSUME NEW words \in Seq(TimedWords), NEW length, InTime(words, length), NEW n \in 1..Len(words),
           NEW state, CuesSoFar(words, n - 1, state)
    PROVE  CuesSoFar(words, n, Hears(state, words[n]))
<1> DEFINE word == words[n]
           heard == OpenWith(state, word)
<1>0. /\ n \in Nat /\ n - 1 \in 0..Len(words) /\ n \in 0..Len(words) /\ DOMAIN words = 1..Len(words)
      /\ words[n] \in TimedWords /\ Len(words) \in Nat
  OBVIOUS
<1>1. CASE word.text = Muted
  <2>1. Audible(words) \cap (1..n) = Audible(words) \cap (1..n - 1)
    <3>1. n \notin Audible(words)
      BY <1>1 DEF Audible
    <3>2. 1..n = (1..n - 1) \cup {n}
      BY <1>0
    <3> QED BY <3>1, <3>2
  <2>2. CuesSoFar(words, n - 1, Closed(state)) /\ Closed(state).open = <<>>
    BY <1>0, ClosedKeeps
  <2>3. \A k \in 1..Len(words) : k > n => k > n - 1
    BY <1>0
  <2>4. CuesSoFar(words, n, Closed(state))
    <3> HIDE DEF word, heard
    <3> QED BY <2>1, <2>2, <2>3 DEF CuesSoFar
  <2> QED BY <1>1, <2>4, HearsIs
<1>2. CASE word.text # Muted
  <2> DEFINE open == state.open
             cues == state.cues
             before == Audible(words) \cap (1..n - 1)
             now == Audible(words) \cap (1..n)
  <2>1. /\ heard \in CueStates /\ heard.cues = cues /\ heard.open = Append(open, word)
        /\ cues \in Seq(Cues) /\ open \in Seq(TimedWords)
    BY <1>0, OpenWithIs DEF CuesSoFar
  <2>2. PICK o : o = Append(open, word)
    OBVIOUS
  <2>3. /\ o \in Seq(TimedWords) /\ Len(o) = Len(open) + 1 /\ o[Len(open) + 1] = word
        /\ \A i \in 1..Len(open) : o[i] = open[i]
    BY <1>0, <2>1, <2>2, AppendProperties
  <2>4. o # <<>> /\ Head(o) = o[1] /\ Len(open) \in Nat
    BY <2>1, <2>3
  <2>5. now = before \cup {n} /\ before \in SUBSET (1..n - 1)
    <3>1. n \in Audible(words)
      BY <1>0, <1>2 DEF Audible
    <3>2. 1..n = (1..n - 1) \cup {n}
      BY <1>0
    <3> QED BY <3>1, <3>2
  <2> HIDE DEF before, now
  <2>6. Picked(words, now) = Append(Picked(words, before), word)
    BY <2>5, PickedGrows
  <2>7. /\ SaidIn(cues) \in Seq(TimedWords) /\ SaidIn(cues) \o open = Picked(words, before)
        /\ \A i \in 1..Len(cues) : i > 1 => cues[i - 1].to <= cues[i].from
        /\ open = <<>> /\ cues # <<>> =>
              \A k \in 1..Len(words) : k > n - 1 => cues[Len(cues)].to <= words[k].from
        /\ open # <<>> =>
              /\ cues # <<>> => cues[Len(cues)].to <= Head(open).from
              /\ \A k \in 1..Len(words) : k > n - 1 => open[Len(open)].to <= words[k].from
    BY DEF CuesSoFar, before
  <2> HIDE DEF cues, open, heard, word
  <2>8. SaidIn(cues) \o o = Picked(words, now)
    <3>1. word \in TimedWords
      BY <1>0 DEF word
    <3>2. open \in Seq(TimedWords) /\ SaidIn(cues) \in Seq(TimedWords)
      BY <2>1, <2>7
    <3>3. SaidIn(cues) \o Append(open, word) = Append(SaidIn(cues) \o open, word)
      BY <3>1, <3>2, ConcatNests
    <3>4. Append(Picked(words, before), word) = Append(SaidIn(cues) \o open, word)
      BY <2>7
    <3> QED BY <2>2, <2>6, <3>3, <3>4, Zenon
  <2>9. cues # <<>> => cues[Len(cues)].to <= Head(o).from
    <3>1. CASE open = <<>>
      <4>1. Head(o) = word
        BY <2>3, <2>4, <3>1
      <4>2. n > n - 1
        BY <1>0
      <4> QED BY <2>7, <3>1, <4>1, <4>2 DEF word
    <3>2. CASE open # <<>>
      <4>1. Head(open) = open[1] /\ Len(open) \in Nat \ {0}
        BY <2>1, <3>2, EmptyStarts
      <4>2. Head(o) = Head(open)
        BY <2>3, <2>4, <4>1
      <4> QED BY <2>7, <3>2, <4>2
    <3> QED BY <3>1, <3>2
  <2>10. \A k \in 1..Len(words) : k > n => o[Len(o)].to <= words[k].from
    <3>1. o[Len(o)] = words[n]
      BY <2>3 DEF word
    <3> QED BY <3>1, WordsApart
  <2>11. CuesSoFar(words, n, heard)
    <3>1. heard.open = o
      BY <2>1, <2>2
    <3> QED BY <2>1, <2>4, <2>7, <2>8, <2>9, <2>10, <3>1 DEF CuesSoFar, now
  <2>12. CuesSoFar(words, n, Closed(heard))
    BY <1>0, <2>11, ClosedKeeps
  <2> QED BY <1>2, <2>11, <2>12, HearsIs DEF heard, word
<1> QED BY <1>1, <1>2

LEMMA CaptionsSay ==
    ASSUME NEW words \in Seq(TimedWords), NEW length, InTime(words, length)
    PROVE  /\ SaidIn(WordsToSrt(words)) = Picked(words, Audible(words))
           /\ \A i \in DOMAIN WordsToSrt(words) :
                 i > 1 => WordsToSrt(words)[i - 1].to <= WordsToSrt(words)[i].from
<1> DEFINE K == Len(words)
           start == [cues |-> <<>>, open |-> <<>>]
           G == [p \in (1..K) \X CueStates |-> Hears(p[2], words[p[1]])]
           run == CHOOSE f : f = [n \in 0..K |-> IF n = 0 THEN [cues |-> <<>>, open |-> <<>>] ELSE Hears(f[n - 1], words[n])]
<1>1. WordsToSrt(words) = Closed(run[K]).cues
  BY DEF WordsToSrt
<1>2. K \in Nat /\ DOMAIN words = 1..K /\ \A n \in 1..K : words[n] \in TimedWords
  OBVIOUS
<1>3. start \in CueStates
  BY DEF CueStates
<1>4. ASSUME NEW state \in CueStates, NEW word \in TimedWords PROVE Hears(state, word) \in CueStates
  <2>1. Closed(state) \in CueStates /\ OpenWith(state, word) \in CueStates
    BY ClosedIs, OpenWithIs
  <2>2. Closed(OpenWith(state, word)) \in CueStates
    BY <2>1, ClosedIs
  <2> QED BY <2>1, <2>2, HearsIs
<1> HIDE DEF K
<1>5. G \in [(1..K) \X CueStates -> CueStates]
      /\ \A n \in 1..K, st \in CueStates : G[<<n, st>>] = Hears(st, words[n])
  <2>1. ASSUME NEW p \in (1..K) \X CueStates PROVE Hears(p[2], words[p[1]]) \in CueStates
    <3>1. p[1] \in 1..K /\ p[2] \in CueStates
      OBVIOUS
    <3> QED BY <1>2, <1>4, <3>1
  <2>2. G \in [(1..K) \X CueStates -> CueStates]
    BY <2>1
  <2> QED BY <2>2
<1> HIDE DEF G
<1>6. PICK f : Steps(f, K, CueStates, start, G)
  BY <1>2, <1>3, <1>5, StepsExist
<1>7. f \in [0..K -> CueStates] /\ f[0] = start /\ \A n \in 1..K : f[n] = Hears(f[n - 1], words[n])
  <2>1. \A n \in 1..K : n - 1 \in 0..K
    BY <1>2
  <2> QED BY <1>5, <1>6, <2>1 DEF Steps
<1>8. f = [n \in 0..K |-> IF n = 0 THEN [cues |-> <<>>, open |-> <<>>] ELSE Hears(f[n - 1], words[n])]
  <2>1. \A n \in 0..K : n # 0 => n \in 1..K
    BY <1>2
  <2> QED BY <1>7, <2>1
<1>9. run = [n \in 0..K |-> IF n = 0 THEN [cues |-> <<>>, open |-> <<>>] ELSE Hears(run[n - 1], words[n])]
  BY <1>8
<1> HIDE DEF run
<1>10. run[0] = start /\ \A n \in 1..K : run[n] = Hears(run[n - 1], words[n])
  <2>1. 0 \in 0..K /\ \A n \in 1..K : n \in 0..K /\ n # 0
    BY <1>2
  <2> QED BY <1>9, <2>1
<1> DEFINE S == { n \in 0..K : CuesSoFar(words, n, run[n]) }
<1>11. 0 \in S
  <2>1. start.cues = <<>> /\ start.open = <<>> /\ Len(<<>>) = 0 /\ 1..0 = {}
    OBVIOUS
  <2> HIDE DEF start
  <2>2. Picked(words, Audible(words) \cap (1..0)) = <<>>
    <3>1. Audible(words) \cap (1..0) = {}
      BY <2>1
    <3>2. Len(Picked(words, {})) = Cardinality({}) /\ Picked(words, {}) \in Seq(TimedWords)
      BY PickedIs
    <3>3. Cardinality({}) = 0
      BY FS_EmptySet
    <3>4. PICK e : e = Picked(words, {})
      OBVIOUS
    <3>5. e = <<>>
      BY <3>2, <3>3, <3>4
    <3> QED BY <3>1, <3>4, <3>5
  <2>3. SaidIn(<<>>) = <<>> /\ <<>> \in Seq(TimedWords) /\ <<>> \o <<>> = <<>>
    BY SaidInNone
  <2>4. CuesSoFar(words, 0, start)
    BY <1>3, <2>1, <2>2, <2>3 DEF CuesSoFar
  <2> QED BY <1>2, <1>10, <2>4
<1>12. ASSUME NEW n \in 1..K, n - 1 \in S PROVE n \in S
  <2>1. CuesSoFar(words, n - 1, run[n - 1]) /\ n \in 0..K
    BY <1>2, <1>12
  <2>2. CuesSoFar(words, n, Hears(run[n - 1], words[n]))
    BY <2>1, HearsKeeps DEF K
  <2> QED BY <1>10, <2>1, <2>2
<1> HIDE DEF S
<1>13. \A n \in 0..K : n \in S
  BY <1>2, <1>11, <1>12, CountsUp
<1>14. K \in 0..K /\ CuesSoFar(words, K, run[K])
  BY <1>2, <1>13 DEF S
<1> DEFINE last == Closed(run[K])
<1>15. CuesSoFar(words, K, last) /\ last.open = <<>>
  BY <1>14, ClosedKeeps DEF K
<1> HIDE DEF last
<1>16. Audible(words) \cap (1..K) = Audible(words)
  BY <1>2 DEF Audible
<1>17. /\ SaidIn(last.cues) = Picked(words, Audible(words))
       /\ last.cues \in Seq(Cues)
       /\ \A i \in 1..Len(last.cues) : i > 1 => last.cues[i - 1].to <= last.cues[i].from
  <2>1. SaidIn(last.cues) \in Seq(TimedWords) /\ SaidIn(last.cues) \o <<>> = Picked(words, Audible(words))
    BY <1>15, <1>16 DEF CuesSoFar
  <2>2. SaidIn(last.cues) = Picked(words, Audible(words))
    BY <2>1
  <2> QED BY <1>15, <2>2 DEF CuesSoFar, CueStates
<1>18. WordsToSrt(words) = last.cues
  BY <1>1 DEF last
<1>19. DOMAIN last.cues = 1..Len(last.cues)
  BY <1>17
<1> QED BY <1>17, <1>18, <1>19

(* Everything EditsKeepWords asks of one clip.                                *)
ClipSound(clip) ==
    /\ InTime(clip.words, clip.length)
    /\ \A t \in 1 .. clip.length - 1 : Said(Join(Cut(clip, 0, t), Cut(clip, t, clip.length))) = Said(clip)
    /\ \A kind \in {"profanity", "filler"} :
          LET reported == Segments(clip, {kind})
              muted[n \in 0 .. Len(reported)] ==
                  IF n = 0 THEN clip ELSE Mute(muted[n - 1], reported[n].from, reported[n].to)
          IN  Segments(muted[Len(reported)], {kind}) = <<>>
    /\ LET cues == WordsToSrt(clip.words)
           said[n \in 0 .. Len(cues)] == IF n = 0 THEN <<>> ELSE said[n - 1] \o cues[n].words
       IN  /\ said[Len(cues)] = Picked(clip.words, { i \in DOMAIN clip.words : clip.words[i].text # Muted })
           /\ \A i \in DOMAIN cues : i > 1 => cues[i - 1].to <= cues[i].from

LEMMA ClipsAreSound == ASSUME NEW clip, Kept(clip) PROVE ClipSound(clip)
<1>1. InTime(clip.words, clip.length) /\ clip.words \in Seq(TimedWords)
  BY DEF Kept, MediaClips
<1>2. \A t \in 1 .. clip.length - 1 : Said(Join(Cut(clip, 0, t), Cut(clip, t, clip.length))) = Said(clip)
  BY Rejoins
<1>3. \A kind \in {"profanity", "filler"} :
          LET reported == Segments(clip, {kind})
              muted[n \in 0 .. Len(reported)] ==
                  IF n = 0 THEN clip ELSE Mute(muted[n - 1], reported[n].from, reported[n].to)
          IN  Segments(muted[Len(reported)], {kind}) = <<>>
  BY MutedClear
<1>4. LET cues == WordsToSrt(clip.words)
          said[n \in 0 .. Len(cues)] == IF n = 0 THEN <<>> ELSE said[n - 1] \o cues[n].words
      IN  /\ said[Len(cues)] = Picked(clip.words, { i \in DOMAIN clip.words : clip.words[i].text # Muted })
          /\ \A i \in DOMAIN cues : i > 1 => cues[i - 1].to <= cues[i].from
  <2>1. /\ SaidIn(WordsToSrt(clip.words)) = Picked(clip.words, Audible(clip.words))
        /\ \A i \in DOMAIN WordsToSrt(clip.words) :
              i > 1 => WordsToSrt(clip.words)[i - 1].to <= WordsToSrt(clip.words)[i].from
    BY <1>1, CaptionsSay
  <2> QED BY ZenonT(30), <2>1 DEF SaidIn, Audible
<1> QED BY ZenonT(30), <1>1, <1>2, <1>3, <1>4 DEF ClipSound

------------------------------------------------------------------------------
EditRows ==
    [op : {"cut", "concat", "mute", "sidecar", "burn_in", "export"},
     source : MediaFiles, dest : MediaFiles, undone : BOOLEAN]

\* The edit i is one whose file f is there because of it.
Makes(rows, i, f) ==
    /\ ~rows[i].undone /\ rows[i].dest = f /\ rows[i].op # "sidecar"
    /\ ~(rows[i].op = "burn_in" /\ rows[i].source = f)
Captions(rows, i, f) == ~rows[i].undone /\ rows[i].dest = f /\ rows[i].op \in {"sidecar", "burn_in"}

\* Every file is a clip in which time keeps its order, and both files and
\* captions are there because of a recording or of an edit that is not undone.
MediaTypes ==
    /\ files = [f \in MediaFiles |-> files[f]] /\ captions = [f \in MediaFiles |-> captions[f]]
    /\ \A f \in MediaFiles : files[f] = NoFile \/ Kept(files[f])
    /\ edits \in Seq(EditRows)
MediaReasons ==
    /\ \A f \in MediaFiles :
          f \notin DOMAIN Recorded /\ files[f] # NoFile => \E i \in 1..Len(edits) : Makes(edits, i, f)
    /\ \A f \in MediaFiles : captions[f] # NoFile => \E i \in 1..Len(edits) : Captions(edits, i, f)
    /\ \A f \in DOMAIN Recorded :
          (\A i \in 1..Len(edits) : edits[i].dest \notin DOMAIN Recorded) => files[f] = Recorded[f]
MediaInv == MediaTypes /\ MediaReasons

LEMMA RecordingsKept ==
    ASSUME NEW f \in DOMAIN Recorded
    PROVE  Kept(Recorded[f]) /\ f \in MediaFiles
<1> DEFINE clip == Recorded[f]
<1>1. /\ clip = [kind |-> "clip", length |-> clip.length, words |-> clip.words,
                 quiet |-> clip.quiet, bright |-> clip.bright]
      /\ clip.length \in Nat /\ clip.words \in Seq(TimedWords) /\ InTime(clip.words, clip.length)
      /\ clip.quiet \in Seq(Stretches) /\ clip.bright \in Seq(Stretches)
      /\ f \in MediaFiles
  BY MediaAssumption
<1> HIDE DEF clip
<1>2. clip \in MediaClips
  <2>1. [kind |-> "clip", length |-> clip.length, words |-> clip.words,
         quiet |-> clip.quiet, bright |-> clip.bright] \in MediaClips
    BY <1>1 DEF MediaClips
  <2> QED BY <1>1, <2>1
<1> QED BY <1>1, <1>2 DEF Kept, clip

LEMMA MediaStarts == MediaInit => MediaInv
<1> SUFFICES ASSUME MediaInit PROVE MediaInv
  OBVIOUS
<1>1. \A f \in DOMAIN Recorded : f \in MediaFiles /\ Kept(Recorded[f]) /\ files[f] = Recorded[f]
  BY RecordingsKept DEF MediaInit
<1>2. \A f \in MediaFiles : captions[f] = NoFile /\ (f \notin DOMAIN Recorded => files[f] = NoFile)
  BY DEF MediaInit
<1>3. files = [f \in MediaFiles |-> files[f]] /\ captions = [f \in MediaFiles |-> captions[f]]
  BY DEF MediaInit
<1>4. edits = <<>> /\ edits \in Seq(EditRows)
  BY DEF MediaInit
<1> QED BY <1>1, <1>2, <1>3, <1>4 DEF MediaInv, MediaTypes, MediaReasons

(* A call that writes one file and adds its row.                              *)
LEMMA WriteKeeps ==
    ASSUME MediaInv, NEW op \in {"cut", "concat", "mute", "burn_in", "export"},
           NEW f \in MediaFiles, NEW dest \in MediaFiles, NEW content, Kept(content),
           IsClip(f), Write(dest, content), Edit(op, f, dest),
           op # "burn_in" => captions' = captions,
           op = "burn_in" => content = files[f] /\ \E cues : captions' = [captions EXCEPT ![dest] = cues]
    PROVE  MediaInv'
<1> DEFINE row == [op |-> op, source |-> f, dest |-> dest, undone |-> FALSE]
<1>1. row \in EditRows
  BY DEF EditRows
<1>2. PICK more : more = Append(edits, row)
  OBVIOUS
<1>3. PICK N \in Nat : N = Len(edits)
  BY DEF MediaInv, MediaTypes
<1>4. /\ edits' = more /\ more \in Seq(EditRows) /\ Len(more) = N + 1 /\ more[N + 1] = row
      /\ \A i \in 1..N : more[i] = edits[i]
  <2>1. edits \in Seq(EditRows)
    BY DEF MediaInv, MediaTypes
  <2>2. edits' = more
    BY <1>2 DEF Edit
  <2> QED BY <1>1, <1>2, <1>3, <2>1, <2>2, AppendProperties
<1>5. row.op = op /\ row.source = f /\ row.dest = dest /\ row.undone = FALSE
  OBVIOUS
<1> HIDE DEF row
<1>6. /\ files' = [g \in MediaFiles |-> files'[g]] /\ files'[dest] = content
      /\ \A g \in MediaFiles : g # dest => files'[g] = files[g]
  BY DEF Write, MediaInv, MediaTypes
<1>7. /\ captions' = [g \in MediaFiles |-> captions'[g]]
      /\ \A g \in MediaFiles : g # dest => captions'[g] = captions[g]
      /\ op # "burn_in" => captions'[dest] = captions[dest]
  BY DEF MediaInv, MediaTypes
<1>8. \A i \in 1..N : i \in 1 .. N + 1
  OBVIOUS
<1>9. \A i \in 1..N, g \in MediaFiles : (Makes(edits, i, g) => Makes(more, i, g)) /\ (Captions(edits, i, g) => Captions(more, i, g))
  BY <1>4 DEF Makes, Captions
<1>10. MediaTypes'
  BY <1>4, <1>6, <1>7 DEF MediaInv, MediaTypes
<1>11. ASSUME NEW g \in MediaFiles, g \notin DOMAIN Recorded, files'[g] # NoFile
       PROVE  \E i \in 1 .. N + 1 : Makes(more, i, g)
  <2>1. CASE g = dest /\ ~(op = "burn_in" /\ f = dest)
    <3>1. op # "sidecar"
      OBVIOUS
    <3>2. Makes(more, N + 1, g)
      BY <1>4, <1>5, <2>1, <3>1 DEF Makes
    <3> QED BY <3>2
  <2>2. CASE g # dest \/ (op = "burn_in" /\ f = dest)
    <3>1. files[g] # NoFile
      BY <1>6, <1>11, <2>2 DEF IsClip
    <3>2. PICK i \in 1..N : Makes(edits, i, g)
      BY <1>3, <1>11, <3>1 DEF MediaInv, MediaReasons
    <3> QED BY <1>8, <1>9, <3>2
  <2> QED BY <2>1, <2>2
<1>12. ASSUME NEW g \in MediaFiles, captions'[g] # NoFile
       PROVE  \E i \in 1 .. N + 1 : Captions(more, i, g)
  <2>1. CASE g = dest /\ op = "burn_in"
    <3>1. Captions(more, N + 1, g)
      BY <1>4, <1>5, <2>1 DEF Captions
    <3> QED BY <3>1
  <2>2. CASE ~(g = dest /\ op = "burn_in")
    <3>1. captions[g] # NoFile
      BY <1>7, <1>12, <2>2
    <3>2. PICK i \in 1..N : Captions(edits, i, g)
      BY <1>3, <3>1 DEF MediaInv, MediaReasons
    <3> QED BY <1>8, <1>9, <3>2
  <2> QED BY <2>1, <2>2
<1>13. ASSUME NEW g \in DOMAIN Recorded, \A i \in 1 .. N + 1 : more[i].dest \notin DOMAIN Recorded
       PROVE  files'[g] = Recorded[g]
  <2>1. \A i \in 1..N : edits[i].dest \notin DOMAIN Recorded
    BY <1>4, <1>8, <1>13
  <2>2. dest \notin DOMAIN Recorded
    <3>1. N + 1 \in 1 .. N + 1
      OBVIOUS
    <3> QED BY <1>4, <1>5, <1>13, <3>1
  <2>3. g \in MediaFiles /\ g # dest
    BY <2>2, RecordingsKept
  <2>4. files[g] = Recorded[g]
    BY <1>3, <2>1 DEF MediaInv, MediaReasons
  <2> QED BY <1>6, <2>3, <2>4
<1>14. MediaReasons'
  <2>1. Len(edits') = N + 1
    BY <1>4
  <2> QED BY <1>4, <1>11, <1>12, <1>13, <2>1 DEF MediaReasons, Makes, Captions
<1> QED BY <1>10, <1>14 DEF MediaInv

LEMMA SidecarKeeps ==
    ASSUME MediaInv, NEW f \in MediaFiles, NEW dest \in MediaFiles, NEW cues,
           captions' = [captions EXCEPT ![dest] = cues], Edit("sidecar", f, dest), UNCHANGED files
    PROVE  MediaInv'
<1> DEFINE row == [op |-> "sidecar", source |-> f, dest |-> dest, undone |-> FALSE]
<1>1. row \in EditRows
  BY DEF EditRows
<1>2. PICK more : more = Append(edits, row)
  OBVIOUS
<1>3. PICK N \in Nat : N = Len(edits)
  BY DEF MediaInv, MediaTypes
<1>4. /\ edits' = more /\ more \in Seq(EditRows) /\ Len(more) = N + 1 /\ more[N + 1] = row
      /\ \A i \in 1..N : more[i] = edits[i]
  <2>1. edits \in Seq(EditRows)
    BY DEF MediaInv, MediaTypes
  <2>2. edits' = more
    BY <1>2 DEF Edit
  <2> QED BY <1>1, <1>2, <1>3, <2>1, <2>2, AppendProperties
<1>5. row.op = "sidecar" /\ row.source = f /\ row.dest = dest /\ row.undone = FALSE
  OBVIOUS
<1> HIDE DEF row
<1>7. /\ captions' = [g \in MediaFiles |-> captions'[g]]
      /\ \A g \in MediaFiles : g # dest => captions'[g] = captions[g]
  BY DEF MediaInv, MediaTypes
<1>8. \A i \in 1..N : i \in 1 .. N + 1
  OBVIOUS
<1>9. \A i \in 1..N, g \in MediaFiles : (Makes(edits, i, g) => Makes(more, i, g)) /\ (Captions(edits, i, g) => Captions(more, i, g))
  BY <1>4 DEF Makes, Captions
<1>10. MediaTypes'
  BY <1>4, <1>7 DEF MediaInv, MediaTypes
<1>11. ASSUME NEW g \in MediaFiles, g \notin DOMAIN Recorded, files'[g] # NoFile
       PROVE  \E i \in 1 .. N + 1 : Makes(more, i, g)
  <2>1. PICK i \in 1..N : Makes(edits, i, g)
    BY <1>3, <1>11 DEF MediaInv, MediaReasons
  <2> QED BY <1>8, <1>9, <2>1
<1>12. ASSUME NEW g \in MediaFiles, captions'[g] # NoFile
       PROVE  \E i \in 1 .. N + 1 : Captions(more, i, g)
  <2>1. CASE g = dest
    <3>1. Captions(more, N + 1, g)
      BY <1>4, <1>5, <2>1 DEF Captions
    <3> QED BY <3>1
  <2>2. CASE g # dest
    <3>1. captions[g] # NoFile
      BY <1>7, <1>12, <2>2
    <3>2. PICK i \in 1..N : Captions(edits, i, g)
      BY <1>3, <3>1 DEF MediaInv, MediaReasons
    <3> QED BY <1>8, <1>9, <3>2
  <2> QED BY <2>1, <2>2
<1>13. ASSUME NEW g \in DOMAIN Recorded, \A i \in 1 .. N + 1 : more[i].dest \notin DOMAIN Recorded
       PROVE  files'[g] = Recorded[g]
  <2>1. \A i \in 1..N : edits[i].dest \notin DOMAIN Recorded
    BY <1>4, <1>8, <1>13
  <2> QED BY <1>3, <2>1 DEF MediaInv, MediaReasons
<1>14. MediaReasons'
  <2>1. Len(edits') = N + 1
    BY <1>4
  <2> QED BY <1>4, <1>11, <1>12, <1>13, <2>1 DEF MediaReasons, Makes, Captions
<1> QED BY <1>10, <1>14 DEF MediaInv

\* The row i of the edits, marked.
Struck(rows, i) == [rows EXCEPT ![i].undone = TRUE]

LEMMA StruckIs ==
    ASSUME NEW rows \in Seq(EditRows), NEW i \in 1..Len(rows)
    PROVE  /\ Struck(rows, i) \in Seq(EditRows) /\ Len(Struck(rows, i)) = Len(rows)
           /\ \A k \in 1..Len(rows) : k # i => Struck(rows, i)[k] = rows[k]
           /\ \A k \in 1..Len(rows) : Struck(rows, i)[k].dest = rows[k].dest
<1>1. rows[i] \in EditRows
  OBVIOUS
<1>2. PICK row : row = [rows[i] EXCEPT !.undone = TRUE]
  OBVIOUS
<1>3. row \in EditRows /\ row.dest = rows[i].dest
  BY <1>1, <1>2 DEF EditRows
<1>4. Struck(rows, i) = [rows EXCEPT ![i] = row]
  BY <1>2 DEF Struck
<1> QED BY <1>3, <1>4

LEMMA UndoKeeps ==
    ASSUME MediaInv, NEW i \in DOMAIN edits, UndoEdit(i)
    PROVE  MediaInv'
<1> DEFINE e == edits[i]
<1>1. PICK N \in Nat : N = Len(edits)
  BY DEF MediaInv, MediaTypes
<1>2. i \in 1..N /\ edits \in Seq(EditRows) /\ e \in EditRows
  BY <1>1 DEF MediaInv, MediaTypes
<1>3. PICK rows : rows = Struck(edits, i)
  OBVIOUS
<1>4. edits' = rows
  BY <1>3 DEF UndoEdit, Struck
<1>5. /\ rows \in Seq(EditRows) /\ Len(rows) = N
      /\ \A k \in 1..N : k # i => rows[k] = edits[k]
      /\ \A k \in 1..N : rows[k].dest = edits[k].dest
  BY <1>1, <1>2, <1>3, StruckIs
<1>6. e.dest \in MediaFiles /\ e.source \in MediaFiles
  BY <1>2 DEF EditRows
<1>7. /\ \/ e.op = "sidecar" /\ files' = files
         \/ e.op = "burn_in" /\ e.source = e.dest /\ files' = files
         \/ ~(e.op = "sidecar") /\ ~(e.op = "burn_in" /\ e.source = e.dest) /\ files' = [files EXCEPT ![e.dest] = NoFile]
      /\ \/ e.op \in {"sidecar", "burn_in"} /\ captions' = [captions EXCEPT ![e.dest] = NoFile]
         \/ e.op \notin {"sidecar", "burn_in"} /\ captions' = captions
  BY DEF UndoEdit
<1> HIDE DEF e
<1>8. /\ files' = [g \in MediaFiles |-> files'[g]]
      /\ \A g \in MediaFiles : g # e.dest => files'[g] = files[g]
      /\ files'[e.dest] = NoFile \/ (files' = files /\ (e.op = "sidecar" \/ (e.op = "burn_in" /\ e.source = e.dest)))
  BY <1>6, <1>7 DEF MediaInv, MediaTypes
<1>9. /\ captions' = [g \in MediaFiles |-> captions'[g]]
      /\ \A g \in MediaFiles : g # e.dest => captions'[g] = captions[g]
      /\ captions'[e.dest] = NoFile \/ (captions' = captions /\ e.op \notin {"sidecar", "burn_in"})
  BY <1>6, <1>7 DEF MediaInv, MediaTypes
<1>10. MediaTypes'
  <2>1. \A g \in MediaFiles : files'[g] = NoFile \/ Kept(files'[g])
    BY <1>8 DEF MediaInv, MediaTypes
  <2> QED BY <1>4, <1>5, <1>8, <1>9, <2>1 DEF MediaTypes
<1>11. ASSUME NEW g \in MediaFiles, g \notin DOMAIN Recorded, files'[g] # NoFile
       PROVE  \E k \in 1..N : Makes(rows, k, g)
  <2>1. files[g] # NoFile
    BY <1>8, <1>11
  <2>2. PICK k \in 1..N : Makes(edits, k, g)
    BY <1>1, <1>11, <2>1 DEF MediaInv, MediaReasons
  <2>3. k # i
    BY <1>8, <1>11, <2>2 DEF Makes, e
  <2> QED BY <1>5, <2>2, <2>3 DEF Makes
<1>12. ASSUME NEW g \in MediaFiles, captions'[g] # NoFile
       PROVE  \E k \in 1..N : Captions(rows, k, g)
  <2>1. captions[g] # NoFile
    BY <1>9, <1>12
  <2>2. PICK k \in 1..N : Captions(edits, k, g)
    BY <1>1, <2>1 DEF MediaInv, MediaReasons
  <2>3. k # i
    BY <1>9, <1>12, <2>2 DEF Captions, e
  <2> QED BY <1>5, <2>2, <2>3 DEF Captions
<1>13. ASSUME NEW g \in DOMAIN Recorded, \A k \in 1..N : rows[k].dest \notin DOMAIN Recorded
       PROVE  files'[g] = Recorded[g]
  <2>1. \A k \in 1..N : edits[k].dest \notin DOMAIN Recorded
    BY <1>5, <1>13
  <2>2. e.dest \notin DOMAIN Recorded /\ g \in MediaFiles
    BY <1>2, <2>1, RecordingsKept DEF e
  <2>3. files[g] = Recorded[g]
    BY <1>1, <2>1 DEF MediaInv, MediaReasons
  <2> QED BY <1>8, <2>2, <2>3
<1>14. MediaReasons'
  <2>1. Len(edits') = N
    BY <1>4, <1>5
  <2> QED BY <1>4, <1>11, <1>12, <1>13, <2>1 DEF MediaReasons, Makes, Captions
<1> QED BY <1>10, <1>14 DEF MediaInv

LEMMA MediaInvNext == ASSUME MediaInv, [MediaNext]_mediaVars PROVE MediaInv'
<1>0. \A f \in MediaFiles : IsClip(f) => Kept(files[f]) /\ files[f].kind = "clip"
  BY DEF MediaInv, MediaTypes, IsClip
<1>1. ASSUME UNCHANGED mediaVars PROVE MediaInv'
  BY <1>1 DEF MediaInv, MediaTypes, MediaReasons, Makes, Captions, mediaVars
<1>2. ASSUME NEW f \in MediaFiles, NEW dest \in MediaFiles, CutClip(f, dest) PROVE MediaInv'
  <2>1. PICK span \in Spans : CanCut(files[f], span[1], span[2]) /\ Write(dest, Cut(files[f], span[1], span[2]))
    BY <1>2 DEF CutClip
  <2>2. span[1] \in Nat /\ span[2] \in Nat
    BY MediaAssumption
  <2>3. Kept(Cut(files[f], span[1], span[2]))
    BY <1>0, <1>2, <2>1, <2>2, CutKeeps DEF CutClip
  <2> QED BY <1>2, <2>1, <2>3, WriteKeeps DEF CutClip
<1>3. ASSUME NEW f \in MediaFiles, NEW dest \in MediaFiles, MuteSegment(f, dest) PROVE MediaInv'
  <2>1. PICK span \in Spans : Write(dest, Mute(files[f], span[1], span[2]))
    BY <1>3 DEF MuteSegment
  <2>2. span[1] \in Nat /\ span[2] \in Nat
    BY MediaAssumption
  <2>3. Kept(Mute(files[f], span[1], span[2]))
    BY <1>0, <1>3, <2>2, MuteKeeps DEF MuteSegment
  <2> QED BY <1>3, <2>1, <2>3, WriteKeeps DEF MuteSegment
<1>4. ASSUME NEW f \in MediaFiles, NEW dest \in MediaFiles, ExportClip(f, dest) PROVE MediaInv'
  <2>1. Kept([files[f] EXCEPT !.kind = "export"])
    BY <1>0, <1>4 DEF ExportClip, Kept, MediaClips
  <2> QED BY <1>4, <2>1, WriteKeeps DEF ExportClip
<1>5. ASSUME NEW f \in MediaFiles, NEW dest \in MediaFiles, NEW g \in MediaFiles, ConcatClips(f, g, dest) PROVE MediaInv'
  <2>1. Kept(Join(files[f], files[g]))
    BY <1>0, <1>5, JoinKeeps DEF ConcatClips
  <2> QED BY <1>5, <2>1, WriteKeeps DEF ConcatClips
<1>6. ASSUME NEW f \in MediaFiles, NEW dest \in MediaFiles, NEW g \in MediaFiles, CaptionClip(f, g, dest) PROVE MediaInv'
  <2>1. PICK cues : captions' = [captions EXCEPT ![dest] = cues]
    BY <1>6 DEF CaptionClip
  <2>2. CASE Edit("sidecar", f, dest) /\ UNCHANGED files
    BY <2>1, <2>2, SidecarKeeps
  <2>3. CASE Edit("burn_in", f, dest) /\ Write(dest, files[f])
    <3>1. IsClip(f) /\ Kept(files[f])
      BY <1>0, <1>6 DEF CaptionClip
    <3> QED BY <2>1, <2>3, <3>1, WriteKeeps
  <2> QED BY <1>6, <2>2, <2>3 DEF CaptionClip
<1>7. ASSUME NEW i \in DOMAIN edits, UndoEdit(i) PROVE MediaInv'
  BY <1>7, UndoKeeps
<1> QED BY <1>1, <1>2, <1>3, <1>4, <1>5, <1>6, <1>7 DEF MediaNext

LEMMA WordsAreKept == ASSUME MediaInv PROVE EditsKeepWords
<1>1. \A clip \in ClipsThere : Kept(clip)
  <2>1. ASSUME edits # <<>>, NEW f \in {edits[Len(edits)].dest}, IsClip(f) PROVE Kept(files[f])
    <3>1. edits \in Seq(EditRows) /\ edits # <<>>
      BY <2>1 DEF MediaInv, MediaTypes
    <3>2. edits[Len(edits)] \in EditRows
      BY <3>1, EmptyStarts
    <3>3. f \in MediaFiles
      BY <3>2 DEF EditRows
    <3> QED BY <2>1, <3>3 DEF MediaInv, MediaTypes, IsClip
  <2> QED BY <2>1 DEF ClipsThere
<1>2. \A clip \in ClipsThere : ClipSound(clip)
  BY <1>1, ClipsAreSound
<1>3. WordsKeepTime
  BY <1>2 DEF ClipSound, WordsKeepTime
<1>4. CutsRejoin
  BY <1>2 DEF ClipSound, CutsRejoin
<1>5. MutingClears
  BY <1>2 DEF ClipSound, MutingClears
<1>6. CuesSayEveryWord
  BY <1>2 DEF ClipSound, CuesSayEveryWord
<1>7. UndoneEditsLeaveNothing
  <2>1. DOMAIN edits = 1..Len(edits)
    BY DEF MediaInv, MediaTypes
  <2> SUFFICES ASSUME \A i \in 1..Len(edits) : edits[i].undone /\ edits[i].dest \notin DOMAIN Recorded
               PROVE  /\ \A f \in DOMAIN Recorded : files[f] = Recorded[f]
                      /\ \A f \in MediaFiles : captions[f] = NoFile /\ (f \notin DOMAIN Recorded => files[f] = NoFile)
    BY <2>1 DEF UndoneEditsLeaveNothing
  <2> QED BY DEF MediaInv, MediaReasons, Makes, Captions
<1> QED BY <1>3, <1>4, <1>5, <1>6, <1>7 DEF EditsKeepWords

(* Whatever clips are recorded and however they are cut, joined, muted,       *)
(* captioned and undone: words stay in order and in time, a cut rejoined says *)
(* the same, muting what is detected leaves nothing to detect, the cues say   *)
(* every word once, and edits undone leave nothing (MediaTools.EditsKeepWords;*)
(* fixture.py).                                                               *)
THEOREM EditsKeepEveryWord == MediaSpec => []EditsKeepWords
<1>1. MediaInit => MediaInv
  BY MediaStarts
<1>2. MediaInv /\ [MediaNext]_mediaVars => MediaInv'
  BY MediaInvNext
<1>3. MediaInv => EditsKeepWords
  BY WordsAreKept
<1> QED BY <1>1, <1>2, <1>3, PTL DEF MediaSpec

------------------------------------------------------------------------------
(* The search of the memory.                                                  *)

Positive == Nat \ {0}

LEMMA ProductIs == ASSUME NEW a \in Positive, NEW b \in Positive PROVE a * b \in Positive
BY SMT DEF Positive

LEMMA ProductGrows ==
    ASSUME NEW a \in Positive, NEW b \in Positive, NEW c \in Positive
    PROVE  (a < b <=> a * c < b * c) /\ (a = b <=> a * c = b * c)
<1>1. a < b => a * c < b * c
  BY SMT DEF Positive
<1>2. b < a => b * c < a * c
  BY SMT DEF Positive
<1>3. a * c \in Int /\ b * c \in Int /\ a \in Int /\ b \in Int
  BY SMT DEF Positive
<1> QED BY <1>1, <1>2, <1>3, SMT DEF Positive

\* The fraction a/b is larger than c/d, or as large.
Larger(a, b, c, d) == a * d > c * b
Same(a, b, c, d) == a * d = c * b

LEMMA FractionsTransitive ==
    ASSUME NEW a \in Positive, NEW b \in Positive, NEW c \in Positive, NEW d \in Positive,
           NEW e \in Positive, NEW f \in Positive
    PROVE  /\ Larger(a, b, c, d) /\ Larger(c, d, e, f) => Larger(a, b, e, f)
           /\ Larger(a, b, c, d) /\ Same(c, d, e, f) => Larger(a, b, e, f)
           /\ Same(a, b, c, d) /\ Larger(c, d, e, f) => Larger(a, b, e, f)
           /\ Same(a, b, c, d) /\ Same(c, d, e, f) => Same(a, b, e, f)
<1>1. /\ a * d \in Positive /\ c * b \in Positive /\ c * f \in Positive /\ e * d \in Positive
      /\ a * f \in Positive /\ e * b \in Positive
  BY ProductIs
<1>2. /\ c * b < a * d <=> (c * b) * f < (a * d) * f
      /\ c * b = a * d <=> (c * b) * f = (a * d) * f
  BY <1>1, ProductGrows
<1>3. /\ e * d < c * f <=> (e * d) * b < (c * f) * b
      /\ e * d = c * f <=> (e * d) * b = (c * f) * b
  BY <1>1, ProductGrows
<1>4. /\ e * b < a * f <=> (e * b) * d < (a * f) * d
      /\ e * b = a * f <=> (e * b) * d = (a * f) * d
  BY <1>1, ProductGrows
<1>5. (c * f) * b = (c * b) * f /\ (a * f) * d = (a * d) * f /\ (e * b) * d = (e * d) * b
  BY SMT DEF Positive
<1>6. (c * b) * f \in Positive /\ (a * d) * f \in Positive /\ (e * d) * b \in Positive
  BY <1>1, ProductIs
<1> DEFINE x == (c * b) * f
           y == (a * d) * f
           z == (e * d) * b
<1>7. x \in Int /\ y \in Int /\ z \in Int
  BY <1>6 DEF Positive
<1>8. /\ Larger(a, b, c, d) <=> x < y
      /\ Same(a, b, c, d) <=> x = y
      /\ Larger(c, d, e, f) <=> z < x
      /\ Same(c, d, e, f) <=> z = x
      /\ Larger(a, b, e, f) <=> z < y
      /\ Same(a, b, e, f) <=> z = y
  <2>1. (Larger(a, b, c, d) <=> c * b < a * d) /\ (Larger(c, d, e, f) <=> e * d < c * f) /\ (Larger(a, b, e, f) <=> e * b < a * f)
    BY <1>1 DEF Larger, Positive
  <2>2. (Same(a, b, c, d) <=> c * b = a * d) /\ (Same(c, d, e, f) <=> e * d = c * f) /\ (Same(a, b, e, f) <=> e * b = a * f)
    BY DEF Same
  <2> QED BY <1>2, <1>3, <1>4, <1>5, <2>1, <2>2, Zenon
<1> HIDE DEF x, y, z
<1> QED BY <1>7, <1>8

------------------------------------------------------------------------------
\* A ranking: from chunks to the places they have.
Ranks(r) == \A x \in DOMAIN r : x \in Nat /\ r[x] \in Nat

LEMMA ScoreIs ==
    ASSUME NEW r1, NEW r2, Ranks(r1), Ranks(r2), NEW x \in DOMAIN r1 \cup DOMAIN r2
    PROVE  Score(r1, r2, x).num \in Positive /\ Score(r1, r2, x).den \in Positive
<1>1. \A p \in Nat : Discounted(p) \in Positive
  BY DEF Discounted, RrfK, Positive
<1>2. \A a, b \in Positive : a + b \in Positive
  BY DEF Positive
<1>3. 1 \in Positive
  BY DEF Positive
<1>4. CASE x \in DOMAIN r1 /\ x \in DOMAIN r2
  <2>1. Discounted(r1[x]) \in Positive /\ Discounted(r2[x]) \in Positive
    BY <1>1, <1>4 DEF Ranks
  <2>2. Score(r1, r2, x) = [num |-> Discounted(r1[x]) + Discounted(r2[x]), den |-> Discounted(r1[x]) * Discounted(r2[x])]
    BY <1>4 DEF Score
  <2>3. Discounted(r1[x]) * Discounted(r2[x]) \in Positive
    BY <2>1, ProductIs
  <2> QED BY <1>2, <2>1, <2>2, <2>3
<1>5. CASE x \in DOMAIN r1 /\ x \notin DOMAIN r2
  <2>1. Score(r1, r2, x) = [num |-> 1, den |-> Discounted(r1[x])]
    BY <1>5 DEF Score
  <2> QED BY <1>1, <1>3, <1>5, <2>1 DEF Ranks
<1>6. CASE x \notin DOMAIN r1 /\ x \in DOMAIN r2
  <2>1. Score(r1, r2, x) = [num |-> 1, den |-> Discounted(r2[x])]
    BY <1>6 DEF Score
  <2> QED BY <1>1, <1>3, <1>6, <2>1 DEF Ranks
<1> QED BY <1>4, <1>5, <1>6

FusedAs(order, r1, r2) ==
    LET items == DOMAIN r1 \cup DOMAIN r2
    IN  /\ order \in Seq(items) /\ Len(order) \in Nat /\ DOMAIN order = 1..Len(order)
        /\ \A n \in 1..Len(order) : order[n] \in items
        /\ \A x \in items : \E n \in 1..Len(order) : order[n] = x
        /\ \A m, n \in 1..Len(order) : m < n => Above(r1, r2, order[m], order[n])
        /\ \A m, n \in 1..Len(order) : order[m] = order[n] => m = n

LEMMA RrfIs ==
    ASSUME NEW r1, NEW r2, Ranks(r1), Ranks(r2), IsFiniteSet(DOMAIN r1), IsFiniteSet(DOMAIN r2)
    PROVE  FusedAs(Rrf(r1, r2), r1, r2)
<1> DEFINE items == DOMAIN r1 \cup DOMAIN r2
           R == { pair \in items \X items : Above(r1, r2, pair[1], pair[2]) }
           order == Rrf(r1, r2)
<1>1. IsFiniteSet(items)
  BY FS_Union
<1>2. \A x \in items : x \in Nat
  BY DEF Ranks
<1>3. order = Listed(items, R)
  BY DEF Rrf
<1>4. \A x, y \in items : <<x, y>> \in R <=> Above(r1, r2, x, y)
  <2> HIDE DEF items
  <2> QED OBVIOUS
<1> HIDE DEF items, R, order
<1>5. ASSUME NEW x \in items PROVE Score(r1, r2, x).num \in Positive /\ Score(r1, r2, x).den \in Positive
  BY ScoreIs DEF items
<1>6. ASSUME NEW x \in items, NEW y \in items
      PROVE  Above(r1, r2, x, y) <=>
                \/ Larger(Score(r1, r2, x).num, Score(r1, r2, x).den, Score(r1, r2, y).num, Score(r1, r2, y).den)
                \/ Same(Score(r1, r2, x).num, Score(r1, r2, x).den, Score(r1, r2, y).num, Score(r1, r2, y).den) /\ x < y
  BY DEF Above, Larger, Same
<1>7. ASSUME NEW x \in items PROVE ~Above(r1, r2, x, x)
  <2>1. PICK a \in Positive, b \in Positive : a = Score(r1, r2, x).num /\ b = Score(r1, r2, x).den
    BY <1>5
  <2>2. a * b \in Int /\ ~(a * b > a * b) /\ ~(x < x)
    BY <1>2, <2>1, ProductIs DEF Positive
  <2> QED BY <1>6, <2>1, <2>2 DEF Larger
<1>8. ASSUME NEW x \in items, NEW y \in items, x # y PROVE Above(r1, r2, x, y) \/ Above(r1, r2, y, x)
  <2>1. PICK a \in Positive, b \in Positive : a = Score(r1, r2, x).num /\ b = Score(r1, r2, x).den
    BY <1>5
  <2>2. PICK c \in Positive, d \in Positive : c = Score(r1, r2, y).num /\ d = Score(r1, r2, y).den
    BY <1>5
  <2>3. a * d \in Int /\ c * b \in Int
    BY ProductIs DEF Positive
  <2>4. Larger(a, b, c, d) \/ Larger(c, d, a, b) \/ (Same(a, b, c, d) /\ Same(c, d, a, b))
    BY <2>3 DEF Larger, Same
  <2>5. x < y \/ y < x
    BY <1>2, <1>8
  <2>6. Above(r1, r2, x, y) <=> Larger(a, b, c, d) \/ (Same(a, b, c, d) /\ x < y)
    BY <1>6, <2>1, <2>2
  <2>7. Above(r1, r2, y, x) <=> Larger(c, d, a, b) \/ (Same(c, d, a, b) /\ y < x)
    BY <1>6, <2>1, <2>2
  <2> QED BY <2>4, <2>5, <2>6, <2>7
<1>9. ASSUME NEW x \in items, NEW y \in items, NEW z \in items, Above(r1, r2, x, y), Above(r1, r2, y, z)
      PROVE  Above(r1, r2, x, z)
  <2>1. PICK a \in Positive, b \in Positive : a = Score(r1, r2, x).num /\ b = Score(r1, r2, x).den
    BY <1>5
  <2>2. PICK c \in Positive, d \in Positive : c = Score(r1, r2, y).num /\ d = Score(r1, r2, y).den
    BY <1>5
  <2>3. PICK e \in Positive, f \in Positive : e = Score(r1, r2, z).num /\ f = Score(r1, r2, z).den
    BY <1>5
  <2>4. Larger(a, b, c, d) \/ (Same(a, b, c, d) /\ x < y)
    BY <1>6, <1>9, <2>1, <2>2
  <2>5. Larger(c, d, e, f) \/ (Same(c, d, e, f) /\ y < z)
    BY <1>6, <1>9, <2>2, <2>3
  <2>6. x < y /\ y < z => x < z
    BY <1>2
  <2>7. Larger(a, b, e, f) \/ (Same(a, b, e, f) /\ x < z)
    BY <2>4, <2>5, <2>6, FractionsTransitive
  <2> QED BY <1>6, <2>1, <2>3, <2>7
<1>10. Orders(R, items)
  BY <1>4, <1>7, <1>8, <1>9 DEF Orders
<1> DEFINE N == Cardinality(items)
<1>11. /\ N \in Nat /\ order \in [1..N -> items]
       /\ \A x \in items : \E n \in 1..N : order[n] = x
       /\ \A m, n \in 1..N : m < n => <<order[m], order[n]>> \in R
  BY <1>1, <1>3, <1>10, ListedIs
<1> HIDE DEF N
<1>12. order \in Seq(items) /\ Len(order) = N /\ DOMAIN order = 1..N
  BY <1>11
<1>13. \A m, n \in 1..N : order[m] \in items /\ (m < n => Above(r1, r2, order[m], order[n]))
  BY <1>4, <1>11
<1>14. ASSUME NEW m \in 1..N, NEW n \in 1..N, order[m] = order[n] PROVE m = n
  <2>1. ~(m < n) /\ ~(n < m)
    BY <1>7, <1>13, <1>14
  <2> QED BY <1>11, <2>1
<1> QED BY <1>11, <1>12, <1>13, <1>14 DEF FusedAs, items, order

(* Two places among 40 candidates outweigh any one.                           *)
LEMMA TwoOutweighOne ==
    ASSUME NEW a \in 61..100, NEW b \in 61..100, NEW c \in 61..100
    PROVE  (a + b) * c > a * b /\ a * b \in Int /\ (a + b) * c \in Int
<1>1. a * b <= a * 100
  BY SMT
<1>2. a * b <= 100 * b
  BY SMT
<1>3. 61 * (a + b) <= c * (a + b)
  BY SMT
<1>4. c * (a + b) = (a + b) * c
  BY SMT
<1>5. PICK p \in Int : p = a * b
  BY SMT
<1>6. PICK r \in Int : r = (a + b) * c
  BY SMT
<1>7. p <= a * 100 /\ p <= 100 * b /\ 61 * (a + b) <= r
  BY <1>1, <1>2, <1>3, <1>4, <1>5, <1>6
<1>8. r > p
  BY <1>7, <1>5, <1>6
<1> QED BY <1>5, <1>6, <1>8

LEMMA BothAboveOne ==
    ASSUME NEW r1, NEW r2,
           \A x \in DOMAIN r1 : r1[x] \in 1..CandidateK, \A x \in DOMAIN r2 : r2[x] \in 1..CandidateK,
           NEW y \in DOMAIN r1 \cap DOMAIN r2,
           NEW x \in DOMAIN r1 \cup DOMAIN r2, x \notin DOMAIN r1 \cap DOMAIN r2
    PROVE  ~Above(r1, r2, x, y)
<1>1. \A p \in 1..CandidateK : Discounted(p) \in 61..100
  BY DEF Discounted, RrfK, CandidateK
<1>2. PICK a \in 61..100, b \in 61..100 : a = Discounted(r1[y]) /\ b = Discounted(r2[y])
  BY <1>1
<1>3. PICK c \in 61..100 : Score(r1, r2, x) = [num |-> 1, den |-> c]
  <2>1. CASE x \in DOMAIN r1 /\ x \notin DOMAIN r2
    <3>1. Score(r1, r2, x) = [num |-> 1, den |-> Discounted(r1[x])]
      BY <2>1 DEF Score
    <3> QED BY <1>1, <2>1, <3>1
  <2>2. CASE x \notin DOMAIN r1 /\ x \in DOMAIN r2
    <3>1. Score(r1, r2, x) = [num |-> 1, den |-> Discounted(r2[x])]
      BY <2>2 DEF Score
    <3> QED BY <1>1, <2>2, <3>1
  <2> QED BY <2>1, <2>2
<1>4. Score(r1, r2, y) = [num |-> a + b, den |-> a * b]
  BY <1>2 DEF Score
<1>5. Above(r1, r2, x, y) <=> (1 * (a * b) > (a + b) * c \/ (1 * (a * b) = (a + b) * c /\ x < y))
  BY <1>3, <1>4 DEF Above
<1>6. (a + b) * c > a * b /\ a * b \in Int /\ (a + b) * c \in Int
  BY TwoOutweighOne
<1>7. 1 * (a * b) = a * b
  BY <1>6
<1>8. PICK p \in Int, r \in Int : p = a * b /\ r = (a + b) * c
  BY <1>6
<1>9. ~(p > r) /\ p # r
  BY <1>6, <1>8
<1> QED BY <1>5, <1>7, <1>8, <1>9

LEMMA RankingsAre ==
    ASSUME NEW r \in Rankings(RankedItems)
    PROVE  Ranks(r) /\ IsFiniteSet(DOMAIN r) /\ \A x \in DOMAIN r : r[x] \in 1..CandidateK
<1>1. PICK dom \in SUBSET RankedItems : r \in [dom -> PlaceValues]
  BY DEF Rankings
<1>2. DOMAIN r = dom /\ IsFiniteSet(dom)
  BY <1>1, RetrievalAssumption, FS_Subset
<1>3. \A x \in DOMAIN r : x \in Nat /\ r[x] \in 1..CandidateK
  BY <1>1, <1>2, RetrievalAssumption
<1> QED BY <1>2, <1>3 DEF Ranks, CandidateK

FusedRight == fused = <<>> \/ \E r1, r2 \in Rankings(RankedItems) : fused = <<r1, r2, Rrf(r1, r2)>>

LEMMA BothFoundFirst == ASSUME FusedRight PROVE AgreementWins
<1> SUFFICES ASSUME fused # <<>> PROVE AgreementWins
  BY DEF AgreementWins
<1>1. PICK r1 \in Rankings(RankedItems), r2 \in Rankings(RankedItems) : fused = <<r1, r2, Rrf(r1, r2)>>
  BY DEF FusedRight
<1>2. PICK order : order = Rrf(r1, r2)
  OBVIOUS
<1>3. fused[1] = r1 /\ fused[2] = r2 /\ fused[3] = order
  BY <1>1, <1>2
<1>4. Ranks(r1) /\ Ranks(r2) /\ IsFiniteSet(DOMAIN r1) /\ IsFiniteSet(DOMAIN r2)
  BY RankingsAre
<1>5. FusedAs(order, r1, r2)
  BY <1>2, <1>4, RrfIs
<1>6. ASSUME NEW i \in DOMAIN order, NEW j \in DOMAIN order, i < j, order[j] \in DOMAIN r1 \cap DOMAIN r2
      PROVE  order[i] \in DOMAIN r1 \cap DOMAIN r2
  <2>1. Above(r1, r2, order[i], order[j]) /\ order[i] \in DOMAIN r1 \cup DOMAIN r2
    BY <1>5, <1>6 DEF FusedAs
  <2>2. (\A x \in DOMAIN r1 : r1[x] \in 1..CandidateK) /\ \A x \in DOMAIN r2 : r2[x] \in 1..CandidateK
    BY RankingsAre
  <2> QED BY <1>6, <2>1, <2>2, BothAboveOne
<1> QED BY <1>3, <1>6 DEF AgreementWins

------------------------------------------------------------------------------
LEMMA ForemostIs ==
    ASSUME NEW T, NEW s \in Seq(T), NEW k \in Nat
    PROVE  /\ Foremost(s, k) \in Seq(T) /\ Len(s) \in Nat /\ Len(Foremost(s, k)) = (IF Len(s) < k THEN Len(s) ELSE k)
           /\ \A i \in 1..Len(Foremost(s, k)) : Foremost(s, k)[i] = s[i] /\ i \in 1..Len(s)
<1> DEFINE m == IF Len(s) < k THEN Len(s) ELSE k
<1>1. m \in Nat /\ m <= Len(s) /\ Len(s) \in Nat
  OBVIOUS
<1>2. \A i \in 1..m : s[i] \in T /\ i \in 1..Len(s)
  BY <1>1
<1>3. Foremost(s, k) = SubSeq(s, 1, m)
  BY DEF Foremost
<1> HIDE DEF m
<1>4. PICK f : f = Foremost(s, k)
  OBVIOUS
<1>5. f \in Seq(T) /\ Len(f) = m /\ \A i \in 1..m : f[i] = s[i]
  BY <1>1, <1>2, <1>3, <1>4, SubSeqProperties
<1>6. f \in Seq(T) /\ Len(f) = m /\ \A i \in 1..Len(f) : f[i] = s[i] /\ i \in 1..Len(s)
  BY <1>2, <1>5
<1> QED BY <1>1, <1>4, <1>6 DEF m

(* What is stored of a list: the items there are, in their order.             *)
StoredAs(found, s, there) ==
    /\ found \in Seq(Nat) /\ Len(found) \in Nat
    /\ \A i \in 1..Len(found) : found[i] \in there
    /\ \A i \in 1..Len(s) : s[i] \in there => \E n \in 1..Len(found) : found[n] = s[i]
    /\ \E q \in Seq(1..Len(s)) :
          /\ Len(q) = Len(found)
          /\ \A n \in 1..Len(found) : q[n] \in 1..Len(s) /\ found[n] = s[q[n]]
          /\ \A m, n \in 1..Len(found) : m < n <=> q[m] < q[n]

LEMMA StoredIs == ASSUME NEW s \in Seq(Nat) PROVE StoredAs(Stored(s), s, library.now)
<1> DEFINE I == { i \in 1..Len(s) : s[i] \in library.now }
           q == Ascending(I)
           found == Stored(s)
<1>1. found = Picked(s, I)
  <2>1. DOMAIN s = 1..Len(s)
    OBVIOUS
  <2> QED BY <2>1 DEF Stored
<1>2. I \in SUBSET (1..Len(s)) /\ \A i \in I : s[i] \in library.now
  OBVIOUS
<1>3. \A i \in 1..Len(s) : s[i] \in library.now => i \in I
  OBVIOUS
<1> HIDE DEF I, found
<1>4. /\ Rises(q, I) /\ q \in Seq(1..Len(s))
      /\ found \in Seq(Nat) /\ Len(found) = Len(q)
      /\ \A n \in 1..Len(q) : q[n] \in 1..Len(s) /\ found[n] = s[q[n]]
  BY <1>1, <1>2, PickedIs
<1> HIDE DEF q
<1>5. /\ Len(q) \in Nat /\ \A n \in 1..Len(q) : q[n] \in I
      /\ \A x \in I : \E n \in 1..Len(q) : q[n] = x
      /\ \A m, n \in 1..Len(q) : m < n <=> q[m] < q[n]
  BY <1>4 DEF Rises
<1>6. \A i \in 1..Len(found) : found[i] \in library.now
  BY <1>2, <1>4, <1>5
<1>7. \A i \in 1..Len(s) : s[i] \in library.now => \E n \in 1..Len(found) : found[n] = s[i]
  BY <1>3, <1>4, <1>5
<1> QED BY <1>4, <1>5, <1>6, <1>7 DEF StoredAs, found

LEMMA PlacesRank ==
    ASSUME NEW s \in Seq(Nat)
    PROVE  Ranks(Places(s)) /\ IsFiniteSet(DOMAIN Places(s)) /\ DOMAIN Places(s) = ToSet(s)
<1>1. DOMAIN s = 1..Len(s) /\ Len(s) \in Nat
  OBVIOUS
<1>2. IsFiniteSet(ToSet(s))
  <2> DEFINE f == [i \in 1..Len(s) |-> s[i]]
  <2>1. IsFiniteSet(1..Len(s))
    BY <1>1, FS_Interval
  <2>2. ToSet(s) = { s[i] : i \in 1..Len(s) }
    BY <1>1 DEF ToSet
  <2>3. IsFiniteSet({ s[i] : i \in 1..Len(s) })
    <3>1. f \in Surjection(1..Len(s), { s[i] : i \in 1..Len(s) })
      BY DEF Surjection
    <3> HIDE DEF f
    <3> QED BY <2>1, <3>1, FS_Surjection
  <2> QED BY <2>2, <2>3
<1>3. DOMAIN Places(s) = ToSet(s)
  BY DEF Places
<1>4. ASSUME NEW x \in ToSet(s) PROVE x \in Nat /\ Places(s)[x] \in Nat
  <2>1. PICK i \in 1..Len(s) : s[i] = x
    BY <1>1 DEF ToSet
  <2>2. Places(s)[x] = CHOOSE j \in DOMAIN s : s[j] = x
    BY DEF Places
  <2>3. (CHOOSE j \in DOMAIN s : s[j] = x) \in DOMAIN s
    BY <1>1, <2>1
  <2>4. x \in Nat
    BY <2>1
  <2> QED BY <1>1, <2>2, <2>3, <2>4
<1> QED BY <1>2, <1>3, <1>4 DEF Ranks

Stages == {"none", "vector", "lexical", "hydrate", "answered"}
Strategies == {"none", "hybrid", "vector", "lexical"}
Searches == [stage : Stages, k : Nat, strategy : Strategies, vector : Seq(Nat), lexical : Seq(Nat),
             found : Seq(Nat), seen : SUBSET Nat]

FusedOrder == Rrf(Places(search.vector), Places(search.lexical))

(* A chunk that has been there since the query began is a candidate, or there *)
(* are as many candidates as the ranking takes; and the answer is what is     *)
(* stored of the foremost.                                                    *)
SearchRight ==
    /\ search \in Searches
    /\ library.now \subseteq ToSet(Nearest)
    /\ search.seen \subseteq library.now
    /\ search.stage \in {"lexical", "hydrate", "answered"} /\ search.strategy # "lexical" =>
            \A x \in search.seen : x \in ToSet(search.vector) \/ Len(search.vector) = CandidateK
    /\ search.stage = "answered" => search.found = Stored(Foremost(FusedOrder, search.k))

RetrievalInv ==
    /\ passage = NoText \/ passage \in Texts
    /\ FusedRight
    /\ SearchRight

LEMMA OrderIs ==
    ASSUME search \in Searches
    PROVE  /\ FusedAs(FusedOrder, Places(search.vector), Places(search.lexical))
           /\ FusedOrder \in Seq(Nat)
           /\ \A x \in ToSet(search.vector) : x \in ToSet(FusedOrder)
<1> DEFINE r1 == Places(search.vector)
           r2 == Places(search.lexical)
           order == FusedOrder
<1>1. search.vector \in Seq(Nat) /\ search.lexical \in Seq(Nat)
  BY DEF Searches
<1>2. /\ Ranks(r1) /\ IsFiniteSet(DOMAIN r1) /\ DOMAIN r1 = ToSet(search.vector)
      /\ Ranks(r2) /\ IsFiniteSet(DOMAIN r2)
  BY <1>1, PlacesRank
<1>3. order = Rrf(r1, r2)
  BY DEF FusedOrder
<1> HIDE DEF r1, r2, order
<1>4. FusedAs(order, r1, r2)
  BY <1>2, <1>3, RrfIs
<1>5. \A x \in DOMAIN r1 \cup DOMAIN r2 : x \in Nat
  BY <1>2 DEF Ranks
<1>6. order \in Seq(DOMAIN r1 \cup DOMAIN r2) /\ DOMAIN order = 1..Len(order) /\ Len(order) \in Nat
      /\ \A n \in 1..Len(order) : order[n] \in DOMAIN r1 \cup DOMAIN r2
  BY <1>4 DEF FusedAs
<1>7. order \in Seq(Nat)
  <2>1. \A n \in 1..Len(order) : order[n] \in Nat
    BY <1>5, <1>6
  <2>2. order \in [1..Len(order) -> Nat]
    BY <1>6, <2>1
  <2> QED BY <1>6, <2>2
<1>8. ASSUME NEW x \in ToSet(search.vector) PROVE x \in ToSet(order)
  <2>1. PICK n \in 1..Len(order) : order[n] = x
    BY <1>2, <1>4, <1>8 DEF FusedAs
  <2> QED BY <1>6, <2>1 DEF ToSet
<1> QED BY <1>4, <1>7, <1>8 DEF r1, r2, order

LEMMA SurvivorsPlaced == ASSUME SearchRight PROVE SurvivorsKeepTheirPlace
<1> SUFFICES ASSUME search.stage = "answered" PROVE SurvivorsKeepTheirPlace
  BY DEF SurvivorsKeepTheirPlace
<1> DEFINE order == FusedOrder
           k == search.k
           first == Foremost(order, k)
           found == search.found
           at(x) == CHOOSE i \in DOMAIN order : order[i] = x
<1>1. /\ order \in Seq(Nat) /\ Len(order) \in Nat /\ DOMAIN order = 1..Len(order) /\ k \in Nat
      /\ \A m, n \in 1..Len(order) : order[m] = order[n] => m = n
      /\ \A x \in ToSet(search.vector) : x \in ToSet(order)
  BY OrderIs DEF FusedAs, SearchRight, Searches
<1>2. found = Stored(first)
  BY DEF SearchRight
<1> HIDE DEF order, k
<1>3. /\ first \in Seq(Nat) /\ Len(first) = (IF Len(order) < k THEN Len(order) ELSE k)
      /\ \A i \in 1..Len(first) : first[i] = order[i] /\ i \in 1..Len(order)
  BY <1>1, ForemostIs
<1> HIDE DEF first, found
<1>4. StoredAs(found, first, library.now)
  BY <1>2, <1>3, StoredIs
<1>5. /\ found \in Seq(Nat) /\ DOMAIN found = 1..Len(found) /\ Len(found) \in Nat
      /\ \A i \in 1..Len(found) : found[i] \in library.now
      /\ \A i \in 1..Len(first) : first[i] \in library.now => \E n \in 1..Len(found) : found[n] = first[i]
  BY <1>4 DEF StoredAs
<1>51. \A i \in 1..Len(first) : first[i] \in library.now => \E n \in 1..Len(found) : found[n] = first[i]
  BY <1>4 DEF StoredAs
<1>6. PICK q \in Seq(1..Len(first)) :
          /\ Len(q) = Len(found)
          /\ \A n \in 1..Len(found) : q[n] \in 1..Len(first) /\ found[n] = first[q[n]]
          /\ \A m, n \in 1..Len(found) : m < n <=> q[m] < q[n]
  BY <1>4 DEF StoredAs
<1>7. ASSUME NEW i \in 1..Len(order) PROVE at(order[i]) = i
  <2>1. at(order[i]) \in 1..Len(order) /\ order[at(order[i])] = order[i]
    BY <1>1
  <2> HIDE DEF at
  <2> QED BY <1>1, <2>1
<1> HIDE DEF at
<1>8. ToSet(found) \subseteq library.now
  BY <1>5 DEF ToSet
<1>9. ASSUME NEW i \in DOMAIN found, NEW j \in DOMAIN found, i < j PROVE at(found[i]) < at(found[j])
  <2>1. found[i] = order[q[i]] /\ found[j] = order[q[j]] /\ q[i] \in 1..Len(order) /\ q[j] \in 1..Len(order)
    BY <1>3, <1>5, <1>6
  <2>2. q[i] < q[j]
    BY <1>5, <1>6, <1>9
  <2> QED BY <1>7, <2>1, <2>2
<1>10. ASSUME search.strategy # "lexical", NEW x \in search.seen \ ToSet(found)
       PROVE  IF x \in ToSet(order) THEN at(x) > k ELSE Len(search.vector) = CandidateK
  <2>1. x \in library.now
    BY DEF SearchRight
  <2>2. CASE x \in ToSet(order)
    <3>1. PICK i \in 1..Len(order) : order[i] = x
      BY <1>1, <2>2 DEF ToSet
    <3>2. ~(i \in 1..Len(first))
      <4> SUFFICES ASSUME i \in 1..Len(first) PROVE FALSE
        OBVIOUS
      <4>1. first[i] = x
        BY <1>3, <3>1
      <4>4. \E n \in 1..Len(found) : found[n] = first[i]
        BY <1>51, <2>1, <3>1, <4>1
      <4>2. PICK n \in 1..Len(found) : found[n] = x
        BY <4>1, <4>4
      <4>3. x \in ToSet(found)
        BY <1>5, <4>2 DEF ToSet
      <4> QED BY <4>3
    <3>3. i > k
      <4>1. CASE Len(order) < k
        BY <1>3, <3>2, <4>1
      <4>2. CASE ~(Len(order) < k)
        BY <1>1, <1>3, <3>2, <4>2
      <4> QED BY <4>1, <4>2
    <3>4. at(x) = i
      BY <1>7, <3>1
    <3> QED BY <2>2, <3>3, <3>4
  <2>3. CASE x \notin ToSet(order)
    <3>1. x \notin ToSet(search.vector)
      BY <1>1, <2>3
    <3>2. Len(search.vector) = CandidateK
      BY <1>10, <3>1 DEF SearchRight
    <3> QED BY <2>3, <3>2
  <2> QED BY <2>2, <2>3
<1>11. order = Rrf(Places(search.vector), Places(search.lexical))
  BY DEF order, FusedOrder
<1> QED BY <1>8, <1>9, <1>10, <1>11 DEF SurvivorsKeepTheirPlace, at, found, k

------------------------------------------------------------------------------
LEMMA IngestedIs == Ingested.now \subseteq ToSet(Nearest)
<1>1. CASE Nearest = <<>>
  <2>1. Len(Nearest) - 1 = -1 /\ Len(Nearest) = 0
    BY <1>1
  <2>2. Foremost(Nearest, Len(Nearest) - 1) = SubSeq(Nearest, 1, -1)
    BY <2>1 DEF Foremost
  <2>3. SubSeq(Nearest, 1, -1) = <<>>
    BY SubSeqEmpty
  <2>4. ToSet(<<>>) = {}
    BY DEF ToSet
  <2> QED BY <2>2, <2>3, <2>4 DEF Ingested
<1>2. CASE Nearest # <<>>
  <2>1. Nearest \in Seq(Nat) /\ Len(Nearest) - 1 \in Nat /\ DOMAIN Nearest = 1..Len(Nearest)
    BY <1>2, RetrievalAssumption
  <2> DEFINE first == Foremost(Nearest, Len(Nearest) - 1)
  <2>2. first \in Seq(Nat) /\ \A i \in 1..Len(first) : first[i] = Nearest[i] /\ i \in 1..Len(Nearest)
    BY <2>1, ForemostIs
  <2> HIDE DEF first
  <2>3. ToSet(first) \subseteq ToSet(Nearest)
    <3>1. DOMAIN first = 1..Len(first)
      BY <2>2
    <3> QED BY <2>1, <2>2, <3>1 DEF ToSet
  <2>4. Ingested.now = ToSet(first)
    BY DEF Ingested, first
  <2> QED BY <2>3, <2>4
<1> QED BY <1>1, <1>2

LEMMA NearestSeen ==
    ASSUME NEW seen, seen \subseteq library.now, library.now \subseteq ToSet(Nearest),
           NEW s, s = Foremost(Stored(Nearest), CandidateK)
    PROVE  s \in Seq(Nat) /\ \A x \in seen : x \in ToSet(s) \/ Len(s) = CandidateK
<1>1. Nearest \in Seq(Nat)
  BY RetrievalAssumption
<1> DEFINE t == Stored(Nearest)
<1>2. StoredAs(t, Nearest, library.now)
  BY <1>1, StoredIs
<1>3. t \in Seq(Nat) /\ Len(t) \in Nat
      /\ \A i \in 1..Len(Nearest) : Nearest[i] \in library.now => \E n \in 1..Len(t) : t[n] = Nearest[i]
  BY <1>2 DEF StoredAs
<1>4. s = Foremost(t, CandidateK)
  OBVIOUS
<1> HIDE DEF t
<1>5. CandidateK \in Nat
  BY DEF CandidateK
<1>6. /\ s \in Seq(Nat) /\ Len(s) = (IF Len(t) < CandidateK THEN Len(t) ELSE CandidateK)
      /\ \A i \in 1..Len(s) : s[i] = t[i]
  BY <1>3, <1>4, <1>5, ForemostIs
<1>7. ASSUME NEW x \in seen, Len(s) # CandidateK PROVE x \in ToSet(s)
  <2>1. x \in library.now /\ x \in ToSet(Nearest)
    OBVIOUS
  <2>2. PICK i \in 1..Len(Nearest) : Nearest[i] = x
    BY <1>1, <2>1 DEF ToSet
  <2>3. PICK n \in 1..Len(t) : t[n] = x
    BY <1>3, <2>1, <2>2
  <2>4. Len(s) = Len(t)
    BY <1>6, <1>7
  <2>5. s[n] = x /\ n \in DOMAIN s
    BY <1>6, <2>3, <2>4
  <2> QED BY <2>5 DEF ToSet
<1> QED BY <1>6, <1>7

LEMMA RetrievalStarts == ASSUME RetrievalInit PROVE RetrievalInv
<1>1. <<>> \in Seq(Nat) /\ {} \in SUBSET Nat /\ 0 \in Nat
  OBVIOUS
<1>2. NoSearch \in Searches
  BY <1>1 DEF NoSearch, Searches, Stages, Strategies
<1>3. SearchRight
  BY <1>2, IngestedIs DEF RetrievalInit, SearchRight, NoSearch
<1> QED BY <1>3 DEF RetrievalInit, RetrievalInv, FusedRight

LEMMA StoredSeq == ASSUME NEW s \in Seq(Nat) PROVE Stored(s) \in Seq(Nat)
BY StoredIs DEF StoredAs

LEMMA RetrievalInvNext == ASSUME RetrievalInv, [RetrievalNext]_retrievalVars PROVE RetrievalInv'
<1>0. SearchRight /\ FusedRight /\ (passage = NoText \/ passage \in Texts) /\ search \in Searches
  BY DEF RetrievalInv, SearchRight
<1>1. ASSUME UNCHANGED <<library, search>> PROVE SearchRight'
  BY <1>0, <1>1 DEF SearchRight, FusedOrder, Stored
<1>2. ASSUME UNCHANGED fused PROVE FusedRight'
  BY <1>0, <1>2 DEF FusedRight
<1>3. ASSUME UNCHANGED retrievalVars PROVE RetrievalInv'
  BY <1>0, <1>1, <1>2, <1>3 DEF RetrievalInv, retrievalVars
<1>4. ASSUME NEW lines \in Texts, CutText(lines) PROVE RetrievalInv'
  BY <1>0, <1>1, <1>2, <1>4 DEF RetrievalInv, CutText
<1>5. ASSUME NEW r1 \in Rankings(RankedItems), NEW r2 \in Rankings(RankedItems), Fuse(r1, r2) PROVE RetrievalInv'
  <2>1. FusedRight'
    BY <1>5 DEF Fuse, FusedRight
  <2> QED BY <1>0, <1>1, <1>5, <2>1 DEF RetrievalInv, Fuse
<1>6. ASSUME NEW k \in Wanted, NEW strategy \in {"hybrid", "vector", "lexical"}, Ask(k, strategy) PROVE RetrievalInv'
  <2>1. search' = [NoSearch EXCEPT !.stage = "vector", !.k = k, !.strategy = strategy, !.seen = library.now]
        /\ UNCHANGED <<passage, fused, library>>
    BY <1>6 DEF Ask
  <2>2. k \in Nat /\ library.now \in SUBSET Nat
    <3>1. ToSet(Nearest) \subseteq Nat
      BY RetrievalAssumption DEF ToSet
    <3> QED BY <1>0, <3>1, RetrievalAssumption DEF SearchRight
  <2>3. search' = [stage |-> "vector", k |-> k, strategy |-> strategy, vector |-> <<>>, lexical |-> <<>>,
                   found |-> <<>>, seen |-> library.now]
    BY <2>1 DEF NoSearch
  <2>4. search' \in Searches
    <3>1. <<>> \in Seq(Nat)
      OBVIOUS
    <3> QED BY <2>2, <2>3, <3>1 DEF Searches, Stages, Strategies
  <2>5. SearchRight'
    BY <1>0, <2>1, <2>3, <2>4 DEF SearchRight
  <2> QED BY <1>0, <1>2, <2>1, <2>5 DEF RetrievalInv
<1>7. ASSUME RankByVector PROVE RetrievalInv'
  <2>1. search.stage = "vector" /\ UNCHANGED <<passage, fused, library>>
    BY <1>7 DEF RankByVector
  <2>2. PICK s : s = IF search.strategy = "lexical" THEN <<>> ELSE Foremost(Stored(Nearest), CandidateK)
    OBVIOUS
  <2>3. s \in Seq(Nat) /\ (search.strategy # "lexical" => \A x \in search.seen : x \in ToSet(s) \/ Len(s) = CandidateK)
    <3>1. CASE search.strategy = "lexical"
      BY <2>2, <3>1
    <3>2. CASE search.strategy # "lexical"
      <4>1. search.seen \subseteq library.now /\ library.now \subseteq ToSet(Nearest)
        BY <1>0 DEF SearchRight
      <4> QED BY <2>2, <3>2, <4>1, NearestSeen
    <3> QED BY <3>1, <3>2
  <2>4. search' = [search EXCEPT !.stage = "lexical", !.vector = s]
    BY <1>7, <2>2 DEF RankByVector
  <2>5. search'.stage = "lexical" /\ search'.vector = s /\ search'.strategy = search.strategy
        /\ search'.seen = search.seen /\ search' \in Searches
    BY <1>0, <2>3, <2>4 DEF Searches, Stages
  <2>6. SearchRight'
    BY <1>0, <2>1, <2>3, <2>5 DEF SearchRight
  <2> QED BY <1>0, <1>2, <2>1, <2>6 DEF RetrievalInv
<1>8. ASSUME RankByWords PROVE RetrievalInv'
  <2>1. search.stage = "lexical" /\ UNCHANGED <<passage, fused, library>>
    BY <1>8 DEF RankByWords
  <2>2. PICK s : s = IF search.strategy = "vector" THEN <<>> ELSE Foremost(Stored(BestWords), CandidateK)
    OBVIOUS
  <2>3. s \in Seq(Nat)
    <3>1. BestWords \in Seq(Nat) /\ CandidateK \in Nat
      BY RetrievalAssumption DEF CandidateK
    <3>2. Stored(BestWords) \in Seq(Nat)
      BY <3>1, StoredSeq
    <3>3. Foremost(Stored(BestWords), CandidateK) \in Seq(Nat)
      BY <3>1, <3>2, ForemostIs
    <3> QED BY <2>2, <3>3
  <2>4. search' = [search EXCEPT !.stage = "hydrate", !.lexical = s]
    BY <1>8, <2>2 DEF RankByWords
  <2>5. search'.stage = "hydrate" /\ search'.vector = search.vector /\ search'.strategy = search.strategy
        /\ search'.seen = search.seen /\ search' \in Searches
    BY <1>0, <2>3, <2>4 DEF Searches, Stages
  <2>6. SearchRight'
    BY <1>0, <2>1, <2>5 DEF SearchRight
  <2> QED BY <1>0, <1>2, <2>1, <2>6 DEF RetrievalInv
<1>9. ASSUME Answer PROVE RetrievalInv'
  <2>1. search.stage = "hydrate" /\ UNCHANGED <<passage, fused, library>>
    BY <1>9 DEF Answer
  <2>2. PICK s : s = Stored(Foremost(FusedOrder, search.k))
    OBVIOUS
  <2>3. s \in Seq(Nat)
    <3>1. FusedOrder \in Seq(Nat) /\ search.k \in Nat
      BY <1>0, OrderIs DEF Searches
    <3>2. Foremost(FusedOrder, search.k) \in Seq(Nat)
      BY <3>1, ForemostIs
    <3> QED BY <2>2, <3>2, StoredSeq
  <2>4. search' = [search EXCEPT !.stage = "answered", !.found = s]
    BY <1>9, <2>2 DEF Answer, FusedOrder
  <2>5. /\ search'.stage = "answered" /\ search'.vector = search.vector /\ search'.lexical = search.lexical
        /\ search'.strategy = search.strategy /\ search'.k = search.k /\ search'.found = s
        /\ search'.seen = search.seen /\ search' \in Searches
    BY <1>0, <2>3, <2>4 DEF Searches, Stages
  <2>6. FusedOrder' = FusedOrder
    BY <2>5 DEF FusedOrder
  <2>7. search'.found = Stored(Foremost(FusedOrder, search.k))'
    BY <2>1, <2>2, <2>5, <2>6 DEF Stored
  <2>8. SearchRight'
    BY <1>0, <2>1, <2>5, <2>7 DEF SearchRight
  <2> QED BY <1>0, <1>2, <2>1, <2>8 DEF RetrievalInv
<1>10. ASSUME NEW gone \in library.now, NEW new \in { {x} : x \in ToSet(Nearest) } \cup {{}}, LibraryChanges(gone, new)
       PROVE  RetrievalInv'
  <2>1. /\ search.stage # "answered" /\ UNCHANGED <<passage, fused>>
        /\ library' = [now |-> (library.now \ {gone}) \cup new, ever |-> library.ever \cup new]
        /\ search' = [search EXCEPT !.seen = @ \ {gone}]
    BY <1>10 DEF LibraryChanges
  <2>2. library'.now = (library.now \ {gone}) \cup new
    BY <2>1
  <2>3. /\ search'.stage = search.stage /\ search'.vector = search.vector /\ search'.strategy = search.strategy
        /\ search'.seen = search.seen \ {gone} /\ search' \in Searches
    BY <1>0, <2>1 DEF Searches
  <2>4. library'.now \subseteq ToSet(Nearest) /\ search'.seen \subseteq library'.now
    BY <1>0, <2>2, <2>3 DEF SearchRight
  <2>5. SearchRight'
    BY <1>0, <2>1, <2>3, <2>4 DEF SearchRight
  <2> QED BY <1>0, <1>2, <2>1, <2>5 DEF RetrievalInv
<1> QED BY <1>3, <1>4, <1>5, <1>6, <1>7, <1>8, <1>9, <1>10 DEF RetrievalNext

Lines == {"word", "blank"} \cup DOMAIN LevelOf
SectionRows == [path : Seq(Nat), from : Nat, to : Nat]

\* Whether there is no heading from line a to line b.
NoHeadings(lines, a, b) == \A m \in 1..Len(lines) : a <= m /\ m <= b => ~IsHeading(lines[m])

\* The headings that are open after line n.
StandsAt(lines, n) ==
    { h \in 1..Len(lines) :
        /\ h <= n /\ IsHeading(lines[h])
        /\ \A m \in 1..Len(lines) : h < m /\ m <= n /\ IsHeading(lines[m]) => Level(lines, m) > Level(lines, h) }

LEMMA StandsStay ==
    ASSUME NEW lines, Len(lines) \in Nat, NEW a \in Nat, NEW b \in Nat, a <= b, NoHeadings(lines, a + 1, b)
    PROVE  StandsAt(lines, a) = StandsAt(lines, b)
<1> DEFINE D == 1..Len(lines)
           H(m) == IsHeading(lines[m])
<1>1. \A m \in D : H(m) => ~(a < m /\ m <= b)
  BY DEF NoHeadings
<1>2. \A m \in D : H(m) => (m <= a <=> m <= b)
  BY <1>1
<1>3. \A h \in D : h \in StandsAt(lines, a) <=> /\ h <= a /\ H(h)
                       /\ \A m \in D : h < m /\ m <= a /\ H(m) => Level(lines, m) > Level(lines, h)
  BY DEF StandsAt
<1>4. \A h \in D : h \in StandsAt(lines, b) <=> /\ h <= b /\ H(h)
                       /\ \A m \in D : h < m /\ m <= b /\ H(m) => Level(lines, m) > Level(lines, h)
  BY DEF StandsAt
<1>5. StandsAt(lines, a) \subseteq D /\ StandsAt(lines, b) \subseteq D
  BY DEF StandsAt
<1> HIDE DEF D, H
<1>6. \A h \in D : h \in StandsAt(lines, a) <=> h \in StandsAt(lines, b)
  BY <1>2, <1>3, <1>4
<1> QED BY <1>5, <1>6

LEMMA StandsOpen ==
    ASSUME NEW lines \in Seq(Lines), NEW n \in 1..Len(lines), IsHeading(lines[n])
    PROVE  StandsAt(lines, n) = { h \in StandsAt(lines, n - 1) : Level(lines, h) < Level(lines, n) } \cup {n}
<1> DEFINE D == 1..Len(lines)
           H(m) == IsHeading(lines[m])
           V(m) == Level(lines, m)
<1>1. \A m \in D : H(m) => V(m) \in Nat
  BY RetrievalAssumption DEF IsHeading, Level
<1>2. \A h \in D : h \in StandsAt(lines, n) <=> /\ h <= n /\ H(h)
                       /\ \A m \in D : h < m /\ m <= n /\ H(m) => V(m) > V(h)
  BY DEF StandsAt
<1>3. \A h \in D : h \in StandsAt(lines, n - 1) <=> /\ h <= n - 1 /\ H(h)
                       /\ \A m \in D : h < m /\ m <= n - 1 /\ H(m) => V(m) > V(h)
  BY DEF StandsAt
<1>4. StandsAt(lines, n) \subseteq D /\ StandsAt(lines, n - 1) \subseteq D
  BY DEF StandsAt
<1>5. H(n) /\ n \in D
  OBVIOUS
<1>50. D \subseteq Nat
  OBVIOUS
<1> HIDE DEF D, H, V
<1>6. n \in StandsAt(lines, n)
  <2>1. \A m \in D : ~(n < m /\ m <= n)
    BY <1>5, <1>50
  <2> QED BY <1>2, <1>5, <1>50, <2>1
<1>7. ASSUME NEW h \in D, h # n PROVE h \in StandsAt(lines, n) <=> h \in StandsAt(lines, n - 1) /\ V(h) < V(n)
  <2>1. h <= n <=> h <= n - 1
    BY <1>5, <1>7, <1>50
  <2>2. \A m \in D : m <= n <=> m <= n - 1 \/ m = n
    BY <1>5, <1>50
  <2>3. ASSUME h \in StandsAt(lines, n) PROVE h \in StandsAt(lines, n - 1) /\ V(h) < V(n)
    <3>1. h < n
      BY <1>2, <1>5, <1>7, <1>50, <2>3
    <3>2. V(n) > V(h) /\ H(h)
      BY <1>2, <1>5, <1>50, <2>3, <3>1
    <3>3. V(n) \in Nat /\ V(h) \in Nat
      BY <1>1, <1>5, <3>2 DEF H
    <3>4. h \in StandsAt(lines, n - 1)
      BY <1>2, <1>3, <2>1, <2>2, <2>3
    <3> QED BY <3>2, <3>3, <3>4
  <2>4. ASSUME h \in StandsAt(lines, n - 1), V(h) < V(n) PROVE h \in StandsAt(lines, n)
    <3>1. V(n) \in Nat /\ V(h) \in Nat
      BY <1>1, <1>3, <1>5, <2>4
    <3>2. V(n) > V(h)
      BY <2>4, <3>1
    <3> QED BY <1>2, <1>3, <2>1, <2>2, <2>4, <3>2
  <2> QED BY <2>3, <2>4
<1>8. \A h \in StandsAt(lines, n - 1) : h # n
  BY <1>3, <1>4, <1>5, <1>50
<1> QED BY <1>4, <1>5, <1>6, <1>7, <1>8 DEF V

LEMMA OpenedIs ==
    ASSUME NEW lines \in Seq(Lines), NEW n \in 1..Len(lines), IsHeading(lines[n])
    PROVE  Opened(lines, Ascending(StandsAt(lines, n - 1)), n) = Ascending(StandsAt(lines, n))
<1> DEFINE S == StandsAt(lines, n - 1)
           H == { h \in S : Level(lines, h) < Level(lines, n) }
           q == Ascending(S)
<1>1. StandsAt(lines, n) = H \cup {n}
  BY StandsOpen
<1>2. S \in SUBSET (1 .. n - 1) /\ H \in SUBSET S /\ n - 1 \in Nat /\ n \in Nat
  BY DEF StandsAt
<1>3. \A h \in S : h \in H <=> Level(lines, h) < Level(lines, n)
  OBVIOUS
<1> HIDE DEF S, H
<1>4. /\ Rises(q, S)
      /\ Picked(q, { i \in DOMAIN q : q[i] \in H }) = Ascending(H)
  BY <1>2, PickedRises
<1>5. \A i \in DOMAIN q : q[i] \in S
  BY <1>4 DEF Rises
<1>6. { i \in DOMAIN q : q[i] \in H } = { i \in DOMAIN q : Level(lines, q[i]) < Level(lines, n) }
  BY <1>3, <1>5
<1>7. H \in SUBSET (1 .. n - 1)
  BY <1>2
<1>8. Ascending(H \cup {n}) = Append(Ascending(H), n)
  BY <1>2, <1>7, AscendingGrows
<1> QED BY <1>1, <1>4, <1>6, <1>8 DEF Opened, S, q

------------------------------------------------------------------------------
(* A section is the whole of what lies between two headings.                  *)
IsSection(lines, section) ==
    /\ section.from \in 1..Len(lines) /\ section.to \in 1..Len(lines) /\ section.from <= section.to
    /\ NoHeadings(lines, section.from, section.to)
    /\ section.to = Len(lines) \/ IsHeading(lines[section.to + 1])
    /\ section.path = Ascending(StandsAt(lines, section.from - 1))

Readings == [stack : Seq(Nat), sections : Seq(SectionRows), cursor : Nat]

(* What has been read after n lines.                                          *)
Read(lines, state, n) ==
    /\ state.stack = Ascending(StandsAt(lines, n))
    /\ state.cursor \in 1 .. n + 1
    /\ NoHeadings(lines, state.cursor, n)
    /\ \A k \in 1..Len(state.sections) : IsSection(lines, state.sections[k])
    /\ \A m \in 1..Len(lines) : m < state.cursor /\ ~IsHeading(lines[m]) =>
            \E k \in 1..Len(state.sections) : state.sections[k].from <= m /\ m <= state.sections[k].to

LEMMA SectionedIs ==
    ASSUME NEW state \in Readings, NEW i \in Nat \ {0}
    PROVE  /\ Sectioned(state, i) \in Seq(SectionRows) /\ Len(state.sections) \in Nat
           /\ i > state.cursor =>
                /\ Len(Sectioned(state, i)) = Len(state.sections) + 1
                /\ Sectioned(state, i)[Len(state.sections) + 1] =
                        [path |-> state.stack, from |-> state.cursor, to |-> i - 1]
                /\ \A k \in 1..Len(state.sections) : Sectioned(state, i)[k] = state.sections[k]
           /\ ~(i > state.cursor) => Sectioned(state, i) = state.sections
<1>1. PICK s \in Seq(SectionRows) : s = state.sections
  BY DEF Readings
<1>2. PICK row : row = [path |-> state.stack, from |-> state.cursor, to |-> i - 1]
  OBVIOUS
<1>3. row \in SectionRows
  BY <1>2 DEF Readings, SectionRows
<1>4. PICK t : t = Append(s, row)
  OBVIOUS
<1>5. t \in Seq(SectionRows) /\ Len(t) = Len(s) + 1 /\ t[Len(s) + 1] = row /\ \A k \in 1..Len(s) : t[k] = s[k]
  BY <1>3, <1>4, AppendProperties
<1>6. Sectioned(state, i) = IF i > state.cursor THEN t ELSE s
  BY <1>1, <1>2, <1>4 DEF Sectioned
<1>7. Len(s) \in Nat
  OBVIOUS
<1>8. CASE i > state.cursor
  <2>1. Sectioned(state, i) = t
    BY <1>6, <1>8
  <2> QED BY <1>1, <1>2, <1>5, <1>7, <1>8, <2>1
<1>9. CASE ~(i > state.cursor)
  <2>1. Sectioned(state, i) = s
    BY <1>6, <1>9
  <2> QED BY <1>1, <1>7, <1>9, <2>1
<1> QED BY <1>8, <1>9

(* The sections with the one that ends before i.                              *)
LEMMA SectionedKeeps ==
    ASSUME NEW lines \in Seq(Lines), NEW i \in 1 .. Len(lines) + 1, NEW state \in Readings,
           Read(lines, state, i - 1), i = Len(lines) + 1 \/ IsHeading(lines[i])
    PROVE  /\ \A k \in 1..Len(Sectioned(state, i)) : IsSection(lines, Sectioned(state, i)[k])
           /\ \A m \in 1..Len(lines) : m < i /\ ~IsHeading(lines[m]) =>
                \E k \in 1..Len(Sectioned(state, i)) : Sectioned(state, i)[k].from <= m /\ m <= Sectioned(state, i)[k].to
<1>1. PICK s : s = state.sections
  OBVIOUS
<1>2. PICK t : t = Sectioned(state, i)
  OBVIOUS
<1>3. PICK c \in 1..i : c = state.cursor
  BY DEF Read
<1>30. Len(lines) \in Nat
  OBVIOUS
<1>4. PICK N \in Nat : N = Len(s)
  BY <1>1 DEF Readings
<1>5. /\ i > c => /\ Len(t) = N + 1
                  /\ t[N + 1] = [path |-> state.stack, from |-> c, to |-> i - 1]
                  /\ \A k \in 1..N : t[k] = s[k]
      /\ ~(i > c) => t = s
  <2>1. i \in Nat \ {0}
    OBVIOUS
  <2> QED BY <1>1, <1>2, <1>3, <1>4, <2>1, SectionedIs
<1>6. /\ \A k \in 1..N : IsSection(lines, s[k])
      /\ \A m \in 1..Len(lines) : m < c /\ ~IsHeading(lines[m]) => \E k \in 1..N : s[k].from <= m /\ m <= s[k].to
      /\ NoHeadings(lines, c, i - 1) /\ state.stack = Ascending(StandsAt(lines, i - 1))
  BY <1>1, <1>3, <1>4 DEF Read
<1>7. CASE i > c
  <2>1. PICK row : row = t[N + 1]
    OBVIOUS
  <2>2. row.path = state.stack /\ row.from = c /\ row.to = i - 1
    BY <1>5, <1>7, <2>1
  <2>3. NoHeadings(lines, (c - 1) + 1, i - 1) /\ c - 1 \in Nat /\ i - 1 \in Nat /\ c - 1 <= i - 1
    <3>1. (c - 1) + 1 = c
      OBVIOUS
    <3> QED BY <1>6, <3>1
  <2>4. StandsAt(lines, c - 1) = StandsAt(lines, i - 1)
    BY <1>30, <2>3, StandsStay
  <2>5. IsSection(lines, row)
    <3>1. c \in 1..Len(lines) /\ i - 1 \in 1..Len(lines) /\ c <= i - 1 /\ (i - 1) + 1 = i
      BY <1>7, <1>30
    <3>2. i - 1 = Len(lines) \/ IsHeading(lines[(i - 1) + 1])
      BY <1>30, <3>1
    <3>3. row.path = Ascending(StandsAt(lines, row.from - 1))
      BY <1>6, <2>2, <2>4
    <3> QED BY <1>6, <2>2, <3>1, <3>2, <3>3 DEF IsSection
  <2>6. \A k \in 1 .. N + 1 : k \in 1..N \/ k = N + 1
    OBVIOUS
  <2>7. \A k \in 1 .. N + 1 : IsSection(lines, t[k])
    BY <1>5, <1>6, <1>7, <2>1, <2>5, <2>6
  <2>8. ASSUME NEW m \in 1..Len(lines), m < i, ~IsHeading(lines[m])
        PROVE  \E k \in 1 .. N + 1 : t[k].from <= m /\ m <= t[k].to
    <3>1. CASE m < c
      <4>1. PICK k \in 1..N : s[k].from <= m /\ m <= s[k].to
        BY <1>6, <2>8, <3>1
      <4>2. t[k] = s[k] /\ k \in 1 .. N + 1
        BY <1>5, <1>7
      <4> QED BY <4>1, <4>2
    <3>2. CASE ~(m < c)
      <4>1. c <= m /\ m <= i - 1
        BY <1>30, <2>8, <3>2
      <4>2. N + 1 \in 1 .. N + 1
        OBVIOUS
      <4> QED BY <2>1, <2>2, <4>1, <4>2
    <3> QED BY <3>1, <3>2
  <2>9. Len(t) = N + 1
    BY <1>5, <1>7
  <2> QED BY <1>2, <2>7, <2>8, <2>9
<1>8. CASE ~(i > c)
  <2>1. t = s /\ c = i
    BY <1>5, <1>8
  <2> QED BY <1>1, <1>2, <1>4, <1>6, <2>1
<1> QED BY <1>7, <1>8

LEMMA OpenedSeq ==
    ASSUME NEW lines \in Seq(Lines), NEW stack \in Seq(Nat), NEW i \in Nat
    PROVE  Opened(lines, stack, i) \in Seq(Nat)
<1> DEFINE I == { n \in DOMAIN stack : Level(lines, stack[n]) < Level(lines, i) }
<1>1. I \in SUBSET (1..Len(stack))
  OBVIOUS
<1> HIDE DEF I
<1>2. Picked(stack, I) \in Seq(Nat)
  BY <1>1, PickedIs
<1>3. Append(Picked(stack, I), i) \in Seq(Nat)
  BY <1>2, AppendProperties
<1> QED BY <1>3 DEF Opened, I

LEMMA ReadsType ==
    ASSUME NEW lines \in Seq(Lines), NEW state \in Readings, NEW i \in Nat \ {0}
    PROVE  Reads(lines, state, i) \in Readings
<1>1. state.stack \in Seq(Nat)
  BY DEF Readings
<1>2. Opened(lines, state.stack, i) \in Seq(Nat)
  BY <1>1, OpenedSeq
<1>3. Sectioned(state, i) \in Seq(SectionRows)
  BY SectionedIs
<1> QED BY <1>2, <1>3 DEF Reads, Readings

LEMMA ReadOn ==
    ASSUME NEW lines \in Seq(Lines), NEW n \in 1..Len(lines), NEW state \in Readings, Read(lines, state, n - 1)
    PROVE  Read(lines, Reads(lines, state, n), n)
<1>0. n \in Nat /\ Len(lines) \in Nat
  OBVIOUS
<1>1. CASE ~IsHeading(lines[n])
  <2>1. Reads(lines, state, n) = state
    BY <1>1 DEF Reads
  <2>2. NoHeadings(lines, (n - 1) + 1, n)
    <3>1. \A m \in 1..Len(lines) : (n - 1) + 1 <= m /\ m <= n => m = n
      OBVIOUS
    <3> QED BY <1>1, <3>1 DEF NoHeadings
  <2>3. StandsAt(lines, n - 1) = StandsAt(lines, n)
    <3>1. n - 1 \in Nat /\ n - 1 <= n
      OBVIOUS
    <3> QED BY <1>0, <2>2, <3>1, StandsStay
  <2>4. state.cursor \in 1 .. n + 1
    BY DEF Read
  <2>5. NoHeadings(lines, state.cursor, n)
    <3>1. \A m \in 1..Len(lines) : m <= n => m <= n - 1 \/ m = n
      OBVIOUS
    <3>2. NoHeadings(lines, state.cursor, n - 1)
      BY DEF Read
    <3> QED BY <1>1, <3>1, <3>2 DEF NoHeadings
  <2> QED BY <2>1, <2>3, <2>4, <2>5 DEF Read
<1>2. CASE IsHeading(lines[n])
  <2>1. PICK next : next = Reads(lines, state, n)
    OBVIOUS
  <2>2. next = [stack |-> Opened(lines, state.stack, n), sections |-> Sectioned(state, n), cursor |-> n + 1]
    BY <1>2, <2>1 DEF Reads
  <2>3. next.stack = Opened(lines, state.stack, n) /\ next.sections = Sectioned(state, n) /\ next.cursor = n + 1
    BY <2>2
  <2>4. next.stack = Ascending(StandsAt(lines, n))
    <3>1. state.stack = Ascending(StandsAt(lines, n - 1))
      BY DEF Read
    <3> QED BY <1>2, <2>3, <3>1, OpenedIs
  <2>5. /\ \A k \in 1..Len(next.sections) : IsSection(lines, next.sections[k])
        /\ \A m \in 1..Len(lines) : m < n /\ ~IsHeading(lines[m]) =>
                \E k \in 1..Len(next.sections) : next.sections[k].from <= m /\ m <= next.sections[k].to
    <3>1. n \in 1 .. Len(lines) + 1
      OBVIOUS
    <3> QED BY <1>2, <2>3, <3>1, SectionedKeeps
  <2>6. ASSUME NEW m \in 1..Len(lines), m < next.cursor, ~IsHeading(lines[m]) PROVE m < n
    <3>1. m # n
      BY <1>2, <2>6
    <3> QED BY <2>3, <2>6, <3>1
  <2>7. next.cursor \in 1 .. n + 1 /\ NoHeadings(lines, next.cursor, n)
    BY <2>3 DEF NoHeadings
  <2>8. Read(lines, next, n)
    BY <2>4, <2>5, <2>6, <2>7 DEF Read
  <2> QED BY <2>1, <2>8
<1> QED BY <1>1, <1>2

StartsReading == [stack |-> <<>>, sections |-> <<>>, cursor |-> 1]

LEMMA ReadStarts == ASSUME NEW lines \in Seq(Lines) PROVE StartsReading \in Readings /\ Read(lines, StartsReading, 0)
<1>1. StandsAt(lines, 0) = {}
  BY DEF StandsAt
<1>2. Ascending({}) = <<>>
  <2>1. Rises(Ascending({}), {}) /\ Len(Ascending({})) = Cardinality({})
    <3>1. {} \in SUBSET Int /\ IsFiniteSet({})
      BY FS_EmptySet
    <3> QED BY <3>1, AscendingIs
  <2>2. Cardinality({}) = 0
    BY FS_EmptySet
  <2>3. Ascending({}) \in Seq({}) /\ Len(Ascending({})) = 0
    BY <2>1, <2>2 DEF Rises
  <2> QED BY <2>3
<1>3. NoHeadings(lines, 1, 0)
  BY DEF NoHeadings
<1>4. \A m \in 1..Len(lines) : ~(m < 1)
  OBVIOUS
<1>5. <<>> \in Seq(Nat) /\ <<>> \in Seq(SectionRows) /\ 1..Len(<<>>) = {}
  OBVIOUS
<1>6. PICK start : start = StartsReading
  OBVIOUS
<1>7. start.stack = <<>> /\ start.sections = <<>> /\ start.cursor = 1
  BY <1>6 DEF StartsReading
<1>8. start.stack = Ascending(StandsAt(lines, 0)) /\ start.cursor \in 1 .. 0 + 1 /\ NoHeadings(lines, start.cursor, 0)
  <2>1. start.stack = Ascending(StandsAt(lines, 0))
    BY <1>1, <1>2, <1>7, Zenon
  <2>2. NoHeadings(lines, start.cursor, 0)
    BY <1>3, <1>7, Zenon
  <2>3. start.cursor \in 1 .. 0 + 1
    BY <1>7
  <2> QED BY <2>1, <2>2, <2>3
<1>9. 1..Len(start.sections) = {} /\ \A m \in 1..Len(lines) : ~(m < start.cursor)
  BY <1>4, <1>7
<1>10. Read(lines, start, 0)
  <2>1. \A k \in 1..Len(start.sections) : IsSection(lines, start.sections[k])
    BY <1>9
  <2>2. \A m \in 1..Len(lines) : m < start.cursor /\ ~IsHeading(lines[m]) =>
            \E k \in 1..Len(start.sections) : start.sections[k].from <= m /\ m <= start.sections[k].to
    BY <1>9
  <2> QED BY <1>8, <2>1, <2>2 DEF Read
<1> QED BY <1>5, <1>6, <1>10 DEF StartsReading, Readings

AllRead(lines, sections) ==
    /\ sections \in Seq(SectionRows)
    /\ \A k \in 1..Len(sections) : IsSection(lines, sections[k])
    /\ \A m \in 1..Len(lines) : ~IsHeading(lines[m]) =>
            \E k \in 1..Len(sections) : sections[k].from <= m /\ m <= sections[k].to

OnlySection(lines) == <<[path |-> <<>>, from |-> 1, to |-> Len(lines)]>>

LEMMA SectionsAre ==
    ASSUME NEW lines \in Seq(Lines)
    PROVE  \E sections : AllRead(lines, sections)
                         /\ Sections(lines) = IF sections = <<>> THEN OnlySection(lines) ELSE sections
<1> DEFINE K == Len(lines)
           X == Readings
           G == [p \in (1..K) \X X |-> Reads(lines, p[2], p[1])]
           run == CHOOSE f : f = [n \in 0..K |-> IF n = 0 THEN [stack |-> <<>>, sections |-> <<>>, cursor |-> 1]
                                                  ELSE Reads(lines, f[n - 1], n)]
           sections == Sectioned(run[K], K + 1)
<1>1. Sections(lines) = IF sections = <<>> THEN OnlySection(lines) ELSE sections
  BY DEF Sections, OnlySection
<1>2. K \in Nat
  OBVIOUS
<1> HIDE DEF K
<1>3. \A n \in 1..K, m \in X : Reads(lines, m, n) \in X
  <2> TAKE n \in 1..K, m \in X
  <2>1. n \in Nat \ {0}
    BY <1>2
  <2> QED BY <2>1, ReadsType
<1>4. StartsReading \in X
  BY ReadStarts
<1> HIDE DEF X
<1>5. G \in [(1..K) \X X -> X] /\ \A n \in 1..K, m \in X : G[<<n, m>>] = Reads(lines, m, n)
  <2>1. ASSUME NEW p \in (1..K) \X X PROVE Reads(lines, p[2], p[1]) \in X
    <3>1. p[1] \in 1..K /\ p[2] \in X
      OBVIOUS
    <3> QED BY <1>3, <3>1
  <2>2. G \in [(1..K) \X X -> X]
    BY <2>1
  <2> QED BY <2>2
<1> HIDE DEF G
<1>6. PICK f : Steps(f, K, X, StartsReading, G)
  BY <1>2, <1>4, <1>5, StepsExist
<1>7. f \in [0..K -> X] /\ f[0] = StartsReading /\ \A n \in 1..K : f[n] = Reads(lines, f[n - 1], n)
  <2>1. \A n \in 1..K : n - 1 \in 0..K
    BY <1>2
  <2> QED BY <1>5, <1>6, <2>1 DEF Steps
<1>8. f = [n \in 0..K |-> IF n = 0 THEN StartsReading ELSE Reads(lines, f[n - 1], n)]
  <2>1. \A n \in 0..K : n # 0 => n \in 1..K
    BY <1>2
  <2> QED BY <1>7, <2>1
<1>80. run = CHOOSE g : g = [n \in 0..K |-> IF n = 0 THEN StartsReading ELSE Reads(lines, g[n - 1], n)]
  BY DEF StartsReading
<1> HIDE DEF run
<1>9. run = [n \in 0..K |-> IF n = 0 THEN StartsReading ELSE Reads(lines, run[n - 1], n)]
  BY <1>8, <1>80
<1>10. run[0] = StartsReading /\ \A n \in 1..K : run[n] = Reads(lines, run[n - 1], n)
  <2>1. 0 \in 0..K /\ \A n \in 1..K : n \in 0..K /\ n # 0
    BY <1>2
  <2> QED BY <1>9, <2>1
<1> DEFINE S == { n \in 0..K : run[n] \in X /\ Read(lines, run[n], n) }
<1>11. 0 \in S
  BY <1>2, <1>4, <1>10, ReadStarts
<1>12. ASSUME NEW n \in 1..K, n - 1 \in S PROVE n \in S
  <2>1. run[n - 1] \in X /\ Read(lines, run[n - 1], n - 1) /\ n \in 0..K
    BY <1>2, <1>12
  <2>2. run[n] = Reads(lines, run[n - 1], n)
    BY <1>10
  <2>3. run[n] \in X
    BY <1>3, <2>1, <2>2
  <2>4. Read(lines, Reads(lines, run[n - 1], n), n)
    BY <2>1, ReadOn DEF X, K
  <2> QED BY <2>1, <2>2, <2>3, <2>4
<1>13. \A n \in S : run[n] \in X /\ Read(lines, run[n], n)
  OBVIOUS
<1> HIDE DEF S
<1>14. \A n \in 0..K : n \in S
  BY <1>2, <1>11, <1>12, CountsUp
<1>15. run[K] \in X /\ Read(lines, run[K], K)
  <2>1. K \in 0..K
    BY <1>2
  <2> QED BY <1>13, <1>14, <2>1
<1>16. PICK state \in Readings : state = run[K] /\ Read(lines, state, K)
  BY <1>15 DEF X
<1>17. sections = Sectioned(state, K + 1)
  BY <1>16
<1> HIDE DEF sections
<1>18. K + 1 \in 1 .. Len(lines) + 1 /\ (K + 1) - 1 = K /\ K + 1 = Len(lines) + 1 /\ K + 1 \in Nat \ {0}
  BY <1>2 DEF K
<1>19. Read(lines, state, (K + 1) - 1)
  BY <1>16, <1>18
<1>20. /\ \A k \in 1..Len(sections) : IsSection(lines, sections[k])
       /\ \A m \in 1..Len(lines) : m < K + 1 /\ ~IsHeading(lines[m]) =>
            \E k \in 1..Len(sections) : sections[k].from <= m /\ m <= sections[k].to
  BY <1>17, <1>18, <1>19, SectionedKeeps
<1>21. sections \in Seq(SectionRows)
  BY <1>17, <1>18, SectionedIs
<1>22. \A m \in 1..Len(lines) : m < K + 1
  BY <1>2 DEF K
<1>23. AllRead(lines, sections)
  BY <1>20, <1>21, <1>22 DEF AllRead
<1> QED BY <1>1, <1>23

Started(s, n) ==
    /\ s \in Seq(Nat) /\ Len(s) \in Nat \ {0}
    /\ s[1] = 1
    /\ \A k \in 1..Len(s) : s[k] \in 1..n
    /\ \A k \in 1 .. Len(s) - 1 : s[k] + WindowWords <= n /\ s[k + 1] = s[k] + WindowWords - OverlapWords

Done(s, n) == s[Len(s)] + WindowWords > n

LEMMA ExtendedIs ==
    ASSUME NEW n \in Nat \ {0}, NEW s, Started(s, n)
    PROVE  /\ Done(s, n) => Extended(s, n) = s
           /\ ~Done(s, n) => /\ Started(Extended(s, n), n)
                             /\ Extended(s, n)[Len(Extended(s, n))] > s[Len(s)]
<1>1. PICK W \in Nat, O \in Nat : W = WindowWords /\ O = OverlapWords /\ O < W
  BY RetrievalAssumption
<1>2. PICK N \in Nat \ {0} : N = Len(s)
  BY DEF Started
<1>3. PICK p \in Nat : p = s[N] /\ p \in 1..n
  BY <1>2 DEF Started
<1>4. Extended(s, n) = IF p + W > n THEN s ELSE Append(s, p + W - O)
  BY <1>1, <1>2, <1>3 DEF Extended, NextWindow
<1>5. Done(s, n) <=> p + W > n
  BY <1>1, <1>2, <1>3 DEF Done
<1>6. ASSUME ~Done(s, n) PROVE Started(Extended(s, n), n) /\ Extended(s, n)[Len(Extended(s, n))] > s[Len(s)]
  <2>1. PICK t : t = Append(s, p + W - O)
    OBVIOUS
  <2>2. Extended(s, n) = t
    BY <1>4, <1>5, <1>6, <2>1
  <2>3. s \in Seq(Nat) /\ p + W - O \in 1..n /\ p + W - O \in Nat /\ p + W <= n /\ p + W - O > p
    <3>1. s \in Seq(Nat)
      BY DEF Started
    <3>2. ~(p + W > n) /\ O < W /\ p \in 1..n
      BY <1>1, <1>3, <1>5, <1>6
    <3>3. p + W - O \in 1..n /\ p + W - O \in Nat /\ p + W <= n /\ p + W - O > p
      BY <3>2
    <3> QED BY <3>1, <3>3
  <2>4. t \in Seq(Nat) /\ Len(t) = N + 1 /\ t[N + 1] = p + W - O /\ \A k \in 1..N : t[k] = s[k]
    BY <1>2, <2>1, <2>3, AppendProperties
  <2>5. \A k \in 1..N : s[k] \in 1..n
    BY <1>2 DEF Started
  <2>6. \A k \in 1 .. N - 1 : s[k] + W <= n /\ s[k + 1] = s[k] + W - O
    BY <1>1, <1>2 DEF Started
  <2>7. \A k \in 1 .. N + 1 : t[k] \in 1..n
    <3>1. \A k \in 1 .. N + 1 : k \in 1..N \/ k = N + 1
      BY <1>2
    <3> QED BY <2>3, <2>4, <2>5, <3>1
  <2>8. ASSUME NEW k \in 1..N PROVE t[k] + W <= n /\ t[k + 1] = t[k] + W - O
    <3>1. CASE k = N
      <4>1. t[k] = p /\ t[k + 1] = p + W - O
        BY <1>3, <2>4, <3>1
      <4> QED BY <2>3, <4>1
    <3>2. CASE k # N
      <4>1. k \in 1 .. N - 1 /\ k + 1 \in 1..N
        BY <1>2, <3>2
      <4>2. t[k] = s[k] /\ t[k + 1] = s[k + 1]
        BY <2>4, <4>1
      <4> QED BY <2>6, <4>1, <4>2
    <3> QED BY <3>1, <3>2
  <2>9. t[1] = 1
    <3>1. s[1] = 1 /\ 1 \in 1..N
      BY <1>2 DEF Started
    <3> QED BY <2>4, <3>1
  <2>10. Len(t) - 1 = N /\ Len(t) \in Nat \ {0}
    BY <1>2, <2>4
  <2>11. Started(t, n)
    BY <1>1, <2>4, <2>7, <2>8, <2>9, <2>10 DEF Started
  <2>12. t[Len(t)] > s[Len(s)]
    BY <1>2, <1>3, <2>3, <2>4
  <2> QED BY <2>2, <2>11, <2>12
<1>7. Done(s, n) => Extended(s, n) = s
  BY <1>4, <1>5
<1> QED BY <1>6, <1>7

LEMMA WindowStartsAre ==
    ASSUME NEW n \in Nat \ {0}
    PROVE  Started(WindowStarts(n), n) /\ Done(WindowStarts(n), n)
<1> DEFINE X == { s \in Seq(Nat) : Started(s, n) }
           G == [p \in (1..n) \X X |-> Extended(p[2], n)]
           run == CHOOSE f : f = [i \in 0..n |-> IF i = 0 THEN <<1>> ELSE Extended(f[i - 1], n)]
<1>1. WindowStarts(n) = run[n]
  BY DEF WindowStarts
<1>2. n \in Nat
  OBVIOUS
<1>3. \A m \in X : Extended(m, n) \in X
  <2> TAKE m \in X
  <2>1. CASE Done(m, n)
    BY <2>1, ExtendedIs
  <2>2. CASE ~Done(m, n)
    <3>1. Started(Extended(m, n), n)
      BY <2>2, ExtendedIs
    <3> QED BY <3>1 DEF Started
  <2> QED BY <2>1, <2>2
<1>4. <<1>> \in X
  <2>1. PICK s : s = <<1>>
    OBVIOUS
  <2>2. s \in Seq(Nat) /\ Len(s) = 1 /\ s[1] = 1
    BY <2>1
  <2>3. Started(s, n)
    BY <2>2 DEF Started
  <2> QED BY <2>1, <2>2, <2>3
<1>40. \A s \in X : Started(s, n) /\ s \in Seq(Nat)
  OBVIOUS
<1> HIDE DEF X
<1>5. G \in [(1..n) \X X -> X] /\ \A i \in 1..n, m \in X : G[<<i, m>>] = Extended(m, n)
  <2>1. ASSUME NEW p \in (1..n) \X X PROVE Extended(p[2], n) \in X
    <3>1. p[2] \in X
      OBVIOUS
    <3> QED BY <1>3, <3>1
  <2>2. G \in [(1..n) \X X -> X]
    BY <2>1
  <2> QED BY <2>2
<1> HIDE DEF G
<1>6. PICK f : Steps(f, n, X, <<1>>, G)
  BY <1>2, <1>4, <1>5, StepsExist
<1>7. f \in [0..n -> X] /\ f[0] = <<1>> /\ \A i \in 1..n : f[i] = Extended(f[i - 1], n)
  <2>1. \A i \in 1..n : i - 1 \in 0..n
    BY <1>2
  <2> QED BY <1>5, <1>6, <2>1 DEF Steps
<1>8. f = [i \in 0..n |-> IF i = 0 THEN <<1>> ELSE Extended(f[i - 1], n)]
  <2>1. \A i \in 0..n : i # 0 => i \in 1..n
    BY <1>2
  <2> QED BY <1>7, <2>1
<1>9. run = [i \in 0..n |-> IF i = 0 THEN <<1>> ELSE Extended(run[i - 1], n)]
  BY <1>8
<1> HIDE DEF run
<1>10. run[0] = <<1>> /\ \A i \in 1..n : run[i] = Extended(run[i - 1], n)
  <2>1. 0 \in 0..n /\ \A i \in 1..n : i \in 0..n /\ i # 0
    BY <1>2
  <2> QED BY <1>9, <2>1
<1> DEFINE S == { i \in 0..n : run[i] \in X /\ (Done(run[i], n) \/ run[i][Len(run[i])] > i) }
<1>11. 0 \in S
  <2>1. Len(<<1>>) = 1 /\ <<1>>[1] = 1 /\ 1 > 0 /\ 0 \in 0..n
    OBVIOUS
  <2> QED BY <1>4, <1>10, <2>1
<1>12. ASSUME NEW i \in 1..n, i - 1 \in S PROVE i \in S
  <2>1. PICK s \in X : s = run[i - 1] /\ (Done(s, n) \/ s[Len(s)] > i - 1)
    BY <1>12
  <2>2. PICK t : t = Extended(s, n)
    OBVIOUS
  <2>3. run[i] = t /\ t \in X /\ i \in 0..n
    BY <1>2, <1>3, <1>10, <2>1, <2>2
  <2>4. Done(t, n) \/ t[Len(t)] > i
    <3>0. Started(s, n) /\ Started(t, n)
      BY <1>40, <2>3
    <3>1. CASE Done(s, n)
      BY <2>2, <3>0, <3>1, ExtendedIs
    <3>2. CASE ~Done(s, n)
      <4>1. t[Len(t)] > s[Len(s)]
        BY <2>2, <3>0, <3>2, ExtendedIs
      <4>2. PICK a \in Nat, b \in Nat : a = t[Len(t)] /\ b = s[Len(s)]
        <5>1. Len(t) \in 1..Len(t) /\ Len(s) \in 1..Len(s)
          BY <3>0 DEF Started
        <5>2. t[Len(t)] \in 1..n /\ s[Len(s)] \in 1..n
          BY <3>0, <5>1 DEF Started
        <5> QED BY <5>2
      <4>3. a > b /\ b > i - 1
        BY <2>1, <3>2, <4>1, <4>2
      <4>4. a > i
        BY <4>3
      <4> QED BY <4>2, <4>4
    <3> QED BY <3>1, <3>2
  <2> QED BY <2>3, <2>4
<1>13. \A i \in S : run[i] \in X /\ (Done(run[i], n) \/ run[i][Len(run[i])] > i)
  OBVIOUS
<1> HIDE DEF S
<1>14. \A i \in 0..n : i \in S
  BY <1>2, <1>11, <1>12, CountsUp
<1>15. PICK s : s = run[n]
  OBVIOUS
<1>16. s \in X /\ (Done(s, n) \/ s[Len(s)] > n)
  <2>1. n \in 0..n
    BY <1>2
  <2> QED BY <1>13, <1>14, <1>15, <2>1
<1>17. Started(s, n)
  BY <1>16, <1>40
<1>18. ~(s[Len(s)] > n)
  <2>1. Len(s) \in 1..Len(s)
    BY <1>17 DEF Started
  <2>2. s[Len(s)] \in 1..n
    BY <1>17, <2>1 DEF Started
  <2> QED BY <2>2
<1> QED BY <1>1, <1>15, <1>16, <1>17, <1>18

LastOf(p, n) == IF p + WindowWords > n THEN n ELSE p + WindowWords - 1

LEMMA LastIs ==
    ASSUME NEW n \in Nat, NEW p \in 1..n
    PROVE  LastOf(p, n) \in 1..n /\ p <= LastOf(p, n) /\ LastOf(p, n) - p + 1 <= WindowWords
<1>1. PICK W \in Nat, O \in Nat : W = WindowWords /\ O = OverlapWords /\ O < W
  BY RetrievalAssumption
<1>2. LastOf(p, n) = IF p + W > n THEN n ELSE p + W - 1
  BY <1>1 DEF LastOf
<1>3. CASE p + W > n
  BY <1>1, <1>2, <1>3
<1>4. CASE ~(p + W > n)
  BY <1>1, <1>2, <1>4
<1> QED BY <1>3, <1>4

(* A run of one word more than the overlap is within a window.                *)
LEMMA WindowsCover ==
    ASSUME NEW n \in Nat \ {0}, NEW s, Started(s, n), Done(s, n),
           NEW a \in 1..n, NEW b \in 1..n, b = a + OverlapWords
    PROVE  \E k \in 1..Len(s) : s[k] <= a /\ b <= LastOf(s[k], n)
<1>1. PICK W \in Nat, O \in Nat : W = WindowWords /\ O = OverlapWords /\ O < W
  BY RetrievalAssumption
<1>2. PICK N \in Nat \ {0} : N = Len(s)
  BY DEF Started
<1> DEFINE S == { k \in 1..N : s[k] <= a }
<1>3. 1 \in S
  BY <1>2 DEF Started
<1>4. S \in SUBSET (0..N) /\ (\A k \in S : k \in 1..N /\ s[k] <= a) /\ \A k \in 1..N : k \notin S => ~(s[k] <= a)
  OBVIOUS
<1> HIDE DEF S
<1>5. PICK k \in S : \A m \in S : m <= k
  BY <1>3, <1>4, LargestExists
<1>6. PICK p \in Nat : p = s[k] /\ p \in 1..n /\ p <= a
  BY <1>2, <1>4 DEF Started
<1>7. b <= LastOf(p, n)
  <2>1. LastOf(p, n) = IF p + W > n THEN n ELSE p + W - 1
    BY <1>1 DEF LastOf
  <2>2. CASE p + W > n
    BY <2>1, <2>2
  <2>3. CASE ~(p + W > n)
    <3>1. k # N
      BY <1>1, <1>2, <1>6, <2>3 DEF Done
    <3>2. k \in 1 .. N - 1 /\ k + 1 \in 1..N
      BY <1>2, <1>4, <3>1
    <3>3. s[k + 1] = p + W - O
      BY <1>1, <1>2, <1>6, <3>2 DEF Started
    <3>4. k + 1 \notin S
      <4>1. ~(k + 1 <= k)
        BY <3>2
      <4> QED BY <1>5, <4>1
    <3>5. ~(p + W - O <= a)
      BY <1>4, <3>2, <3>3, <3>4
    <3>6. b = a + O
      BY <1>1
    <3> QED BY <1>1, <1>6, <2>1, <2>3, <3>5, <3>6
  <2> QED BY <2>2, <2>3
<1> QED BY <1>2, <1>4, <1>6, <1>7

WordsIn(lines, section) == { i \in section.from .. section.to : lines[i] # "blank" }

LEMMA WordsAre ==
    ASSUME NEW lines, NEW section \in SectionRows
    PROVE  /\ WordsIn(lines, section) \in SUBSET Nat
           /\ Rises(WordsOf(lines, section), WordsIn(lines, section))
<1>1. section.from \in Nat /\ section.to \in Nat
  BY DEF SectionRows
<1>2. IsFiniteSet(section.from .. section.to) /\ WordsIn(lines, section) \in SUBSET (section.from .. section.to)
  BY SMTT(30), <1>1, FS_Interval DEF WordsIn
<1>3. IsFiniteSet(WordsIn(lines, section))
  BY <1>2, FS_Subset
<1>4. \A i \in section.from .. section.to : i \in Nat
  BY <1>1
<1>5. WordsIn(lines, section) \in SUBSET Nat /\ WordsIn(lines, section) \in SUBSET Int
  BY <1>2, <1>4
<1>6. WordsOf(lines, section) = Ascending(WordsIn(lines, section))
  BY DEF WordsOf, WordsIn
<1> QED BY <1>3, <1>5, <1>6, AscendingIs

(* The p-th word of a section and those that fit into a window with it.       *)
WindowAt(path, words, p) == [path |-> path, from |-> words[p], to |-> words[LastOf(p, Len(words))]]

LEMMA WindowsAre ==
    ASSUME NEW lines, NEW section \in SectionRows, NEW words, words = WordsOf(lines, section),
           NEW windows, windows = Windows(lines, section)
    PROVE  /\ windows \in Seq(SectionRows)
           /\ \A k \in 1..Len(windows) : \E p \in 1..Len(words) : windows[k] = WindowAt(section.path, words, p)
           /\ \A a, b \in 1..Len(words) : b = a + OverlapWords =>
                \E k \in 1..Len(windows) : windows[k].from <= words[a] /\ words[b] <= windows[k].to
<1>1. PICK N \in Nat : N = Len(words)
  BY WordsAre DEF Rises
<1>2. /\ \A i \in 1..N : words[i] \in Nat
      /\ \A i, j \in 1..N : i < j <=> words[i] < words[j]
      /\ words \in Seq(WordsIn(lines, section))
  <2>1. WordsIn(lines, section) \in SUBSET Nat /\ Rises(words, WordsIn(lines, section))
    BY WordsAre
  <2>2. \A i \in 1..N : words[i] \in WordsIn(lines, section)
    BY <1>1, <2>1 DEF Rises
  <2> QED BY <1>1, <2>1, <2>2 DEF Rises
<1>3. CASE words = <<>>
  <2>1. windows = <<>> /\ N = 0
    BY <1>1, <1>3 DEF Windows
  <2>2. Len(windows) = 0 /\ windows \in Seq(SectionRows) /\ 1..N = {} /\ 1..Len(windows) = {}
    BY <2>1
  <2> QED BY <1>1, <2>2
<1>4. CASE words # <<>>
  <2>1. N \in Nat \ {0}
    BY <1>1, <1>2, <1>4
  <2>2. PICK s : s = WindowStarts(N)
    OBVIOUS
  <2>3. Started(s, N) /\ Done(s, N)
    BY <2>1, <2>2, WindowStartsAre
  <2>4. PICK M \in Nat : M = Len(s) /\ DOMAIN s = 1..M /\ \A k \in 1..M : s[k] \in 1..N
    BY <2>3 DEF Started
  <2>5. windows = [k \in 1..M |-> [path |-> section.path, from |-> words[s[k]],
                            to |-> words[IF s[k] + WindowWords > N THEN N ELSE s[k] + WindowWords - 1]]]
    BY <1>1, <1>4, <2>2, <2>4 DEF Windows
  <2>6. windows = [k \in 1..M |-> WindowAt(section.path, words, s[k])]
    BY <1>1, <2>5 DEF WindowAt, LastOf
  <2>7. ASSUME NEW k \in 1..M PROVE WindowAt(section.path, words, s[k]) \in SectionRows
    <3>1. s[k] \in 1..N /\ LastOf(s[k], N) \in 1..N
      BY <2>4, LastIs
    <3>2. words[s[k]] \in Nat /\ words[LastOf(s[k], N)] \in Nat /\ section.path \in Seq(Nat)
      BY <1>2, <3>1 DEF SectionRows
    <3> QED BY <1>1, <3>2 DEF WindowAt, SectionRows
  <2>8. windows \in [1..M -> SectionRows]
    BY <2>6, <2>7
  <2>9. windows \in Seq(SectionRows) /\ Len(windows) = M
    <3> HIDE DEF SectionRows
    <3> QED BY <2>4, <2>8
  <2>10. ASSUME NEW k \in 1..Len(windows)
         PROVE  \E p \in 1..N : windows[k] = WindowAt(section.path, words, p)
    BY <2>4, <2>6, <2>9
  <2>11. ASSUME NEW a \in 1..N, NEW b \in 1..N, b = a + OverlapWords
         PROVE  \E k \in 1..Len(windows) : windows[k].from <= words[a] /\ words[b] <= windows[k].to
    <3>1. PICK k \in 1..M : s[k] <= a /\ b <= LastOf(s[k], N)
      BY <2>1, <2>3, <2>4, <2>11, WindowsCover
    <3>2. PICK p \in 1..N : p = s[k]
      BY <2>4
    <3>3. PICK l \in 1..N : l = LastOf(p, N)
      BY <3>2, LastIs
    <3>4. p <= a /\ b <= l
      BY <3>1, <3>2, <3>3
    <3>5. words[p] <= words[a]
      BY <1>2, <3>4
    <3>6. words[b] <= words[l]
      BY <1>2, <3>4
    <3>7. windows[k] = WindowAt(section.path, words, p)
      BY <2>6, <3>2
    <3>8. windows[k].from = words[p] /\ windows[k].to = words[l]
      BY <1>1, <3>3, <3>7 DEF WindowAt
    <3> QED BY <2>9, <3>5, <3>6, <3>8
  <2> QED BY <1>1, <2>9, <2>10, <2>11
<1> QED BY <1>3, <1>4

(* A window is a part of its section, and holds no more words than it may.    *)
Held(lines, section, window) ==
    /\ window.from \in section.from .. section.to /\ window.to \in section.from .. section.to
    /\ window.from \in Nat /\ window.to \in Nat
    /\ window.path = section.path
    /\ Cardinality({ m \in window.from .. window.to : lines[m] # "blank" }) <= WindowWords

LEMMA WindowHolds ==
    ASSUME NEW lines, NEW section \in SectionRows, NEW words, words = WordsOf(lines, section),
           NEW p \in 1..Len(words), NEW window, window = WindowAt(section.path, words, p)
    PROVE  Held(lines, section, window)
<1> DEFINE S == WordsIn(lines, section)
<1>1. S \in SUBSET Nat /\ Rises(words, S) /\ S \in SUBSET (section.from .. section.to)
  BY WordsAre DEF WordsIn
<1>2. PICK N \in Nat : N = Len(words)
  BY ZenonT(30), <1>1 DEF Rises
<1>3. PICK l \in 1..N : l = LastOf(p, N) /\ p <= l /\ l - p + 1 <= WindowWords
  BY <1>2, LastIs
<1>4. window.from = words[p] /\ window.to = words[l] /\ window.path = section.path
  BY <1>2, <1>3 DEF WindowAt
<1>40. \A x \in S : x \in section.from .. section.to /\ x \in Nat
  BY <1>1
<1>41. \A x \in section.from .. section.to : x \in S <=> lines[x] # "blank"
  BY DEF WordsIn
<1> HIDE DEF S
<1>5. words[p] \in S /\ words[l] \in S
  BY <1>1, <1>2, <1>3 DEF Rises
<1>6. PICK a \in Nat, b \in Nat : a = words[p] /\ b = words[l]
  BY <1>40, <1>5
<1>7. { m \in a..b : lines[m] # "blank" } = { x \in S : a <= x /\ x <= b }
  <2>1. section.from \in Nat /\ section.to \in Nat
    BY DEF SectionRows
  <2>2. section.from <= a /\ b <= section.to
    BY <1>40, <1>5, <1>6
  <2>3. \A m \in a..b : m \in section.from .. section.to /\ m \in Nat
    BY <2>1, <2>2
  <2>4. \A m \in S : a <= m /\ m <= b <=> m \in a..b
    BY <1>40
  <2> QED BY <1>40, <1>41, <2>3, <2>4
<1>8. Cardinality({ x \in S : words[p] <= x /\ x <= words[l] }) = l - p + 1
  <2>1. S \in SUBSET Int
    BY <1>40
  <2>2. p \in 1..Len(words) /\ l \in 1..Len(words)
    BY <1>2, <1>3
  <2> QED BY <1>1, <1>3, <2>1, <2>2, BetweenCounts
<1>9. Cardinality({ m \in window.from .. window.to : lines[m] # "blank" }) = l - p + 1
  BY <1>4, <1>6, <1>7, <1>8
<1> QED BY SMTT(30), <1>3, <1>4, <1>5, <1>9, <1>40 DEF Held

------------------------------------------------------------------------------
(* The chunks are the windows of the sections.                                *)
CutFrom(chunks, lines, sections, n) ==
    /\ chunks \in Seq(SectionRows)
    /\ \A k \in 1..Len(chunks) : \E j \in 1..n : \E i \in 1..Len(Windows(lines, sections[j])) :
            chunks[k] = Windows(lines, sections[j])[i]
    /\ \A j \in 1..n : \A i \in 1..Len(Windows(lines, sections[j])) : \E k \in 1..Len(chunks) :
            chunks[k] = Windows(lines, sections[j])[i]

LEMMA CutOn ==
    ASSUME NEW lines, NEW sections \in Seq(SectionRows), NEW n \in 1..Len(sections),
           NEW chunks, CutFrom(chunks, lines, sections, n - 1)
    PROVE  CutFrom(chunks \o Windows(lines, sections[n]), lines, sections, n)
<1>1. PICK w : w = Windows(lines, sections[n])
  OBVIOUS
<1>2. sections[n] \in SectionRows /\ n \in Nat
  OBVIOUS
<1>3. w \in Seq(SectionRows)
  BY <1>1, <1>2, WindowsAre
<1>4. PICK c : c = chunks \o w
  OBVIOUS
<1>5. chunks \in Seq(SectionRows)
  BY DEF CutFrom
<1>6. /\ c \in Seq(SectionRows) /\ Len(c) = Len(chunks) + Len(w) /\ Len(chunks) \in Nat /\ Len(w) \in Nat
      /\ \A i \in 1..Len(chunks) : c[i] = chunks[i]
      /\ \A i \in 1..Len(w) : c[Len(chunks) + i] = w[i]
  <2>1. /\ chunks \o w \in Seq(SectionRows) /\ Len(chunks \o w) = Len(chunks) + Len(w) /\ Len(chunks) \in Nat /\ Len(w) \in Nat
        /\ \A i \in 1..Len(chunks) : (chunks \o w)[i] = chunks[i]
        /\ \A i \in 1..Len(w) : (chunks \o w)[Len(chunks) + i] = w[i]
    BY <1>3, <1>5, ConcatIs
  <2> QED BY <1>4, <2>1, Zenon
<1>7. PICK a \in Nat, b \in Nat : a = Len(chunks) /\ b = Len(w)
  BY <1>6
<1>8. ASSUME NEW k \in 1 .. a + b
      PROVE  \E j \in 1..n : \E i \in 1..Len(Windows(lines, sections[j])) : c[k] = Windows(lines, sections[j])[i]
  <2>1. CASE k <= a
    <3>1. k \in 1..a /\ c[k] = chunks[k]
      BY <1>6, <1>7, <2>1
    <3>2. PICK j \in 1 .. n - 1 : \E i \in 1..Len(Windows(lines, sections[j])) :
            chunks[k] = Windows(lines, sections[j])[i]
      BY <1>7, <3>1 DEF CutFrom
    <3>3. j \in 1..n
      BY <1>2
    <3> QED BY <3>1, <3>2, <3>3
  <2>2. CASE k > a
    <3>1. PICK i \in 1..b : k = a + i
      <4>1. k - a \in 1..b /\ k = a + (k - a)
        BY <2>2
      <4> QED BY <4>1
    <3>2. c[k] = w[i]
      BY <1>6, <1>7, <3>1
    <3>3. n \in 1..n /\ i \in 1..Len(Windows(lines, sections[n])) /\ c[k] = Windows(lines, sections[n])[i]
      BY <1>1, <1>2, <1>7, <3>2
    <3> QED BY <3>3
  <2> QED BY <2>1, <2>2
<1>9. ASSUME NEW j \in 1..n, NEW i \in 1..Len(Windows(lines, sections[j]))
      PROVE  \E k \in 1 .. a + b : c[k] = Windows(lines, sections[j])[i]
  <2>1. CASE j = n
    <3>1. i \in 1..b /\ w[i] = Windows(lines, sections[j])[i]
      BY <1>1, <1>7, <2>1
    <3>2. a + i \in 1 .. a + b /\ c[a + i] = w[i]
      BY SMTT(30), <1>6, <1>7, <3>1
    <3> QED BY <3>1, <3>2
  <2>2. CASE j # n
    <3>1. j \in 1 .. n - 1
      BY <1>2, <2>2
    <3>2. PICK k \in 1..a : chunks[k] = Windows(lines, sections[j])[i]
      BY <1>7, <3>1 DEF CutFrom
    <3>3. k \in 1 .. a + b /\ c[k] = chunks[k]
      BY <1>6, <1>7
    <3> QED BY <3>2, <3>3
  <2> QED BY <2>1, <2>2
<1>10. Len(c) = a + b
  BY <1>6, <1>7
<1>11. CutFrom(c, lines, sections, n)
  <2>1. \A k \in 1..Len(c) : \E j \in 1..n : \E i \in 1..Len(Windows(lines, sections[j])) :
            c[k] = Windows(lines, sections[j])[i]
    BY <1>8, <1>10, Zenon
  <2>2. \A j \in 1..n : \A i \in 1..Len(Windows(lines, sections[j])) : \E k \in 1..Len(c) :
            c[k] = Windows(lines, sections[j])[i]
    BY <1>9, <1>10, Zenon
  <2>3. c \in Seq(SectionRows)
    BY <1>6
  <2> QED BY <2>1, <2>2, <2>3, Zenon DEF CutFrom
<1> QED BY <1>1, <1>4, <1>11

LEMMA ChunkTextIs ==
    ASSUME NEW lines, lines # <<>>, NEW sections \in Seq(SectionRows), sections = Sections(lines)
    PROVE  CutFrom(ChunkText(lines), lines, sections, Len(sections))
<1> DEFINE K == Len(sections)
           X == Seq(SectionRows)
           W(n) == Windows(lines, sections[n])
           G == [p \in (1..K) \X X |-> p[2] \o W(p[1])]
           run == CHOOSE f : f = [n \in 0..K |-> IF n = 0 THEN <<>> ELSE f[n - 1] \o Windows(lines, sections[n])]
<1>1. ChunkText(lines) = run[K]
  BY DEF ChunkText
<1>2. K \in Nat
  OBVIOUS
<1>3. \A n \in 1..K : sections[n] \in SectionRows
  OBVIOUS
<1> HIDE DEF K
<1>4. \A n \in 1..K : W(n) \in X
  <2> TAKE n \in 1..K
  <2>1. sections[n] \in SectionRows
    BY <1>3
  <2> QED BY <2>1, WindowsAre
<1>5. <<>> \in X
  OBVIOUS
<1> HIDE DEF X
<1>6. \A n \in 1..K, m \in X : m \o W(n) \in X
  <2> TAKE n \in 1..K, m \in X
  <2>1. W(n) \in X
    BY <1>4
  <2> HIDE DEF W
  <2> QED BY <2>1, ConcatIs DEF X
<1> HIDE DEF W
<1>7. G \in [(1..K) \X X -> X] /\ \A n \in 1..K, m \in X : G[<<n, m>>] = m \o W(n)
  <2>1. ASSUME NEW p \in (1..K) \X X PROVE p[2] \o W(p[1]) \in X
    <3>1. p[1] \in 1..K /\ p[2] \in X
      OBVIOUS
    <3> QED BY <1>6, <3>1
  <2>2. G \in [(1..K) \X X -> X]
    BY <2>1
  <2> QED BY <2>2
<1> HIDE DEF G
<1>8. PICK f : Steps(f, K, X, <<>>, G)
  BY <1>2, <1>5, <1>7, StepsExist
<1>9. f \in [0..K -> X] /\ f[0] = <<>> /\ \A n \in 1..K : f[n] = f[n - 1] \o W(n)
  <2>1. \A n \in 1..K : n - 1 \in 0..K
    BY <1>2
  <2> QED BY <1>7, <1>8, <2>1 DEF Steps
<1>10. f = [n \in 0..K |-> IF n = 0 THEN <<>> ELSE f[n - 1] \o W(n)]
  <2>1. \A n \in 0..K : n # 0 => n \in 1..K
    BY <1>2
  <2> QED BY SMTT(30), <1>9, <2>1
<1>11. run = CHOOSE g : g = [n \in 0..K |-> IF n = 0 THEN <<>> ELSE g[n - 1] \o W(n)]
  BY DEF W
<1> HIDE DEF run
<1>12. run = [n \in 0..K |-> IF n = 0 THEN <<>> ELSE run[n - 1] \o W(n)]
  BY ZenonT(30), <1>10, <1>11
<1>13. run[0] = <<>> /\ \A n \in 1..K : run[n] = run[n - 1] \o W(n)
  <2>1. 0 \in 0..K /\ \A n \in 1..K : n \in 0..K /\ n # 0
    BY <1>2
  <2> QED BY <1>12, <2>1
<1> DEFINE S == { n \in 0..K : CutFrom(run[n], lines, sections, n) }
<1>14. 0 \in S
  <2>1. PICK none : none = run[0]
    OBVIOUS
  <2>2. none \in Seq(SectionRows) /\ 1..Len(none) = {} /\ 1..0 = {} /\ 0 \in 0..K
    BY <1>2, <1>13, <2>1
  <2>3. CutFrom(none, lines, sections, 0)
    BY <2>2 DEF CutFrom
  <2> QED BY <2>1, <2>2, <2>3
<1>15. ASSUME NEW n \in 1..K, n - 1 \in S PROVE n \in S
  <2>1. CutFrom(run[n - 1], lines, sections, n - 1) /\ n \in 0..K /\ n \in 1..Len(sections)
    BY <1>2, <1>15 DEF K
  <2>2. CutFrom(run[n - 1] \o Windows(lines, sections[n]), lines, sections, n)
    BY <2>1, CutOn
  <2>3. run[n] = run[n - 1] \o Windows(lines, sections[n])
    BY <1>13 DEF W
  <2>4. CutFrom(run[n], lines, sections, n)
    BY <2>2, <2>3, Zenon
  <2> QED BY <2>1, <2>4
<1>16. \A n \in S : CutFrom(run[n], lines, sections, n)
  OBVIOUS
<1> HIDE DEF S
<1>17. \A n \in 0..K : n \in S
  BY <1>2, <1>14, <1>15, CountsUp
<1>18. CutFrom(run[K], lines, sections, K)
  <2>1. K \in 0..K
    BY <1>2
  <2> QED BY <1>16, <1>17, <2>1
<1> QED BY <1>1, <1>18 DEF K

(* What a chunk of the text is a part of.                                     *)
ChunkOf(lines, sections, chunk) ==
    \E j \in 1..Len(sections) : \E p \in 1..Len(WordsOf(lines, sections[j])) :
        chunk = WindowAt(sections[j].path, WordsOf(lines, sections[j]), p)

LEMMA ChunksAre ==
    ASSUME NEW lines, NEW sections \in Seq(SectionRows), NEW chunks,
           CutFrom(chunks, lines, sections, Len(sections))
    PROVE  \A k \in 1..Len(chunks) : ChunkOf(lines, sections, chunks[k])
<1> TAKE k \in 1..Len(chunks)
<1>1. PICK j \in 1..Len(sections) : \E i \in 1..Len(Windows(lines, sections[j])) :
            chunks[k] = Windows(lines, sections[j])[i]
  BY DEF CutFrom
<1>2. PICK section \in SectionRows : section = sections[j]
  OBVIOUS
<1>3. PICK windows : windows = Windows(lines, section)
  OBVIOUS
<1>4. PICK words : words = WordsOf(lines, section)
  OBVIOUS
<1>5. PICK i \in 1..Len(windows) : chunks[k] = windows[i]
  BY <1>1, <1>2, <1>3
<1>51. section \in SectionRows /\ words = WordsOf(lines, section) /\ windows = Windows(lines, section)
  BY <1>2, <1>3, <1>4
<1>52. \A n \in 1..Len(windows) : \E p \in 1..Len(words) : windows[n] = WindowAt(section.path, words, p)
  BY SMTT(30), <1>51, WindowsAre
<1>6. PICK p \in 1..Len(words) : windows[i] = WindowAt(section.path, words, p)
  BY <1>5, <1>52
<1>7. p \in 1..Len(WordsOf(lines, sections[j]))
      /\ chunks[k] = WindowAt(sections[j].path, WordsOf(lines, sections[j]), p)
  BY <1>2, <1>4, <1>5, <1>6
<1> QED BY <1>7 DEF ChunkOf

LEMMA GovernsIs ==
    ASSUME passage \in Seq(Lines), NEW i \in 1..Len(passage), ~IsHeading(passage[i])
    PROVE  { h \in DOMAIN passage : Governs(h, i) } = StandsAt(passage, i)
<1>1. PICK L \in Nat : L = Len(passage) /\ DOMAIN passage = 1..L
  OBVIOUS
<1>2. ASSUME NEW h \in 1..L PROVE Governs(h, i) <=> h \in StandsAt(passage, i)
  <2>1. Governs(h, i) <=> /\ h < i /\ IsHeading(passage[h])
                          /\ \A n \in h + 1 .. i : IsHeading(passage[n]) => Level(passage, n) > Level(passage, h)
    BY DEF Governs
  <2>2. h \in StandsAt(passage, i) <=>
            /\ h <= i /\ IsHeading(passage[h])
            /\ \A m \in 1..L : h < m /\ m <= i /\ IsHeading(passage[m]) => Level(passage, m) > Level(passage, h)
    BY <1>1 DEF StandsAt
  <2>3. IsHeading(passage[h]) => (h < i <=> h <= i)
    <3>1. IsHeading(passage[h]) => h # i
      OBVIOUS
    <3> QED BY <1>1, <3>1
  <2>4. \A n \in h + 1 .. i : n \in 1..L /\ h < n /\ n <= i
    BY <1>1
  <2>5. \A m \in 1..L : h < m /\ m <= i => m \in h + 1 .. i
    BY <1>1
  <2> QED BY <2>1, <2>2, <2>3, <2>4, <2>5
<1>3. StandsAt(passage, i) \subseteq 1..L
  BY <1>1 DEF StandsAt
<1> QED BY <1>1, <1>2, <1>3

LEMMA HeadingsAreKnown ==
    ASSUME passage \in Seq(Lines), NEW section \in SectionRows, IsSection(passage, section),
           NEW p \in 1..Len(WordsOf(passage, section)),
           NEW chunk, chunk = WindowAt(section.path, WordsOf(passage, section), p)
    PROVE  /\ \A m \in chunk.from..chunk.to : ~IsHeading(passage[m])
           /\ chunk.path = Ascending({ h \in DOMAIN passage : Governs(h, chunk.from) })
<1>1. PICK words : words = WordsOf(passage, section)
  OBVIOUS
<1>2. /\ chunk.from \in section.from .. section.to /\ chunk.to \in section.from .. section.to
      /\ chunk.from \in Nat /\ chunk.to \in Nat /\ chunk.path = section.path
  <2>1. p \in 1..Len(words) /\ chunk = WindowAt(section.path, words, p)
    BY <1>1
  <2>2. Held(passage, section, chunk)
    BY <1>1, <2>1, WindowHolds
  <2> QED BY <2>2 DEF Held
<1>3. PICK L \in Nat : L = Len(passage)
  OBVIOUS
<1>4. PICK a \in 1..L, b \in 1..L : a = section.from /\ b = section.to /\ a <= b
  BY <1>3 DEF IsSection
<1>5. PICK c \in a..b, d \in a..b : c = chunk.from /\ d = chunk.to
  BY <1>2, <1>4
<1>6. \A m \in 1..L : a <= m /\ m <= b => ~IsHeading(passage[m])
  BY <1>3, <1>4 DEF IsSection, NoHeadings
<1>7. \A m \in c..d : ~IsHeading(passage[m])
  <2>1. \A m \in c..d : m \in 1..L /\ a <= m /\ m <= b
    BY <1>4, <1>5
  <2> QED BY <1>6, <2>1
<1>8. c \in 1..L /\ ~IsHeading(passage[c])
  BY <1>4, <1>5, <1>6
<1>9. section.path = Ascending(StandsAt(passage, a - 1))
  BY <1>4 DEF IsSection
<1>10. StandsAt(passage, a - 1) = StandsAt(passage, c)
  <2>1. a - 1 \in Nat /\ c \in Nat /\ a - 1 <= c /\ Len(passage) \in Nat
    BY <1>3, <1>4, <1>5
  <2>2. NoHeadings(passage, (a - 1) + 1, c)
    <3>1. \A m \in 1..L : (a - 1) + 1 <= m /\ m <= c => a <= m /\ m <= b
      BY <1>4, <1>5
    <3> QED BY <1>3, <1>6, <3>1 DEF NoHeadings
  <2> QED BY <2>1, <2>2, StandsStay
<1>11. { h \in DOMAIN passage : Governs(h, c) } = StandsAt(passage, c)
  BY <1>3, <1>8, GovernsIs
<1>12. chunk.path = Ascending({ h \in DOMAIN passage : Governs(h, c) })
  BY <1>2, <1>9, <1>10, <1>11
<1> QED BY <1>5, <1>7, <1>12

LEMMA PhraseIsWhole ==
    ASSUME passage \in Seq(Lines), NEW section \in SectionRows, IsSection(passage, section),
           NEW i \in 1..Len(passage), NEW j \in 1..Len(passage), Together(i, j),
           section.from <= i, i <= section.to,
           NEW windows, windows = Windows(passage, section)
    PROVE  \E k \in 1..Len(windows) :
                \A m \in i..j : passage[m] = "word" => m \in windows[k].from .. windows[k].to
<1>1. PICK L \in Nat : L = Len(passage)
  OBVIOUS
<1>2. PICK a \in 1..L, b \in 1..L : a = section.from /\ b = section.to /\ a <= b
  BY <1>1 DEF IsSection
<1>3. i < j /\ (\A n \in i..j : ~IsHeading(passage[n])) /\ a <= i /\ i <= b /\ i \in 1..L /\ j \in 1..L
  BY <1>1, <1>2 DEF Together
<1>4. j <= b
  <2> SUFFICES ASSUME ~(j <= b) PROVE FALSE
    OBVIOUS
  <2>1. b # L /\ b + 1 \in i..j
    BY <1>3
  <2>2. IsHeading(passage[b + 1])
    BY <1>1, <1>2, <2>1 DEF IsSection
  <2> QED BY <1>3, <2>1, <2>2
<1> DEFINE S == WordsIn(passage, section)
           P == { n \in i..j : passage[n] = "word" }
<1>5. \A x \in a..b : x \in S <=> passage[x] # "blank"
  BY <1>2 DEF WordsIn
<1>6. \A x \in S : x \in a..b
  BY <1>2 DEF WordsIn
<1>7. \A x \in i..j : x \in a..b /\ x \in 1..L
  BY <1>3, <1>4
<1>8. \A x \in i..j : x \in P <=> passage[x] = "word"
  OBVIOUS
<1>9. \A x \in P : x \in i..j
  OBVIOUS
<1>10. Cardinality(P) = OverlapWords + 1
  BY DEF Together
<1> HIDE DEF S, P
<1>11. \A x \in i..j : x \in S <=> x \in P
  <2> TAKE x \in i..j
  <2>1. passage[x] \in Lines /\ ~IsHeading(passage[x])
    BY <1>1, <1>3, <1>7
  <2>2. passage[x] = "word" \/ passage[x] = "blank"
    BY <2>1 DEF Lines, IsHeading
  <2> QED BY <1>5, <1>7, <1>8, <2>2
<1>12. PICK O \in Nat : O = OverlapWords
  BY RetrievalAssumption
<1>13. P # {}
  <2>1. Cardinality({}) = 0
    BY FS_EmptySet
  <2>2. Cardinality(P) # 0
    BY <1>10, <1>12
  <2> QED BY <2>1, <2>2
<1>14. P \in SUBSET Nat /\ P \in SUBSET (0..L)
  BY <1>7, <1>9
<1>15. PICK first \in P : \A x \in P : first <= x
  BY <1>13, <1>14, LeastExists
<1>16. PICK last \in P : \A x \in P : x <= last
  BY <1>13, <1>14, LargestExists
<1>17. PICK words : words = WordsOf(passage, section)
  OBVIOUS
<1>18. S \in SUBSET Nat /\ Rises(words, S)
  BY <1>17, WordsAre DEF S
<1>19. PICK N \in Nat : N = Len(words)
  BY <1>18 DEF Rises
<1>20. first \in i..j /\ last \in i..j /\ first \in S /\ last \in S
  BY <1>9, <1>11
<1>21. PICK f \in 1..N : words[f] = first
  BY <1>18, <1>19, <1>20 DEF Rises
<1>22. PICK l \in 1..N : words[l] = last
  BY <1>18, <1>19, <1>20 DEF Rises
<1>23. f <= l
  <2>1. ~(l < f)
    <3>1. l < f => words[l] < words[f]
      BY <1>18, <1>19 DEF Rises
    <3>2. first <= last /\ first \in Nat /\ last \in Nat
      BY <1>14, <1>15
    <3> QED BY <1>21, <1>22, <3>1, <3>2
  <2> QED BY <2>1
<1>24. P = { x \in S : first <= x /\ x <= last }
  <2>1. \A x \in P : x \in S /\ first <= x /\ x <= last
    BY <1>9, <1>11, <1>15, <1>16
  <2>2. ASSUME NEW x \in S, first <= x, x <= last PROVE x \in P
    <3>1. x \in a..b
      BY <1>6
    <3>2. x \in i..j
      BY <1>20, <2>2, <3>1
    <3> QED BY <1>11, <3>2
  <2> QED BY <2>1, <2>2
<1>25. Cardinality(P) = l - f + 1
  <2>1. S \in SUBSET Int /\ f \in 1..Len(words) /\ l \in 1..Len(words)
    BY <1>18, <1>19
  <2>2. Cardinality({ x \in S : words[f] <= x /\ x <= words[l] }) = l - f + 1
    BY <1>18, <1>23, <2>1, BetweenCounts
  <2> QED BY <1>21, <1>22, <1>24, <2>2
<1>26. l = f + OverlapWords
  BY <1>10, <1>12, <1>25
<1>27. PICK k \in 1..Len(windows) : windows[k].from <= first /\ last <= windows[k].to
  BY SMTT(30), <1>17, <1>19, <1>21, <1>22, <1>26, WindowsAre
<1>28. windows \in Seq(SectionRows)
  BY <1>17, WindowsAre
<1>29. windows[k] \in SectionRows
  BY <1>28
<1>30. ASSUME NEW m \in i..j, passage[m] = "word" PROVE m \in windows[k].from .. windows[k].to
  <2>1. PICK x \in Nat, y \in Nat : x = windows[k].from /\ y = windows[k].to
    BY <1>29 DEF SectionRows
  <2>2. m \in P /\ m \in Nat
    BY <1>8, <1>14, <1>30
  <2>3. first <= m /\ m <= last /\ first \in Nat /\ last \in Nat
    BY <1>14, <1>15, <1>16, <2>2
  <2>4. x <= m /\ m <= y
    BY SMTT(30), <1>27, <2>1, <2>2, <2>3
  <2> QED BY <2>1, <2>2, <2>4
<1> QED BY <1>30

LEMMA TextsAreCut == ASSUME passage \in Texts PROVE EveryPhraseIsWhole /\ ChunksKnowTheirHeadings
<1>1. passage \in Seq(Lines)
  BY RetrievalAssumption DEF Lines
<1>2. CASE passage = <<>>
  <2>1. ChunkText(passage) = <<>> /\ DOMAIN passage = {}
    BY <1>2 DEF ChunkText
  <2>2. DOMAIN ChunkText(passage) = {}
    BY <2>1
  <2> QED BY <2>1, <2>2 DEF EveryPhraseIsWhole, ChunksKnowTheirHeadings
<1>3. CASE passage # <<>>
  <2>1. PICK L \in Nat \ {0} : L = Len(passage) /\ DOMAIN passage = 1..L
    BY <1>1, <1>3
  <2>2. PICK read : AllRead(passage, read)
                    /\ Sections(passage) = IF read = <<>> THEN OnlySection(passage) ELSE read
    BY <1>1, SectionsAre
  <2>3. PICK sections : sections = Sections(passage)
    OBVIOUS
  <2>4. sections \in Seq(SectionRows)
    <3>1. OnlySection(passage) \in Seq(SectionRows)
      <4>1. [path |-> <<>>, from |-> 1, to |-> Len(passage)] \in SectionRows
        BY <2>1 DEF SectionRows
      <4>2. PICK row \in SectionRows : row = [path |-> <<>>, from |-> 1, to |-> Len(passage)]
        BY <4>1
      <4>3. <<row>> \in Seq(SectionRows)
        OBVIOUS
      <4> QED BY <4>2, <4>3 DEF OnlySection
    <3>2. read \in Seq(SectionRows)
      BY <2>2 DEF AllRead
    <3> QED BY <2>2, <2>3, <3>1, <3>2
  <2>5. PICK chunks : chunks = ChunkText(passage)
    OBVIOUS
  <2>6. CutFrom(chunks, passage, sections, Len(sections))
    BY <1>3, <2>3, <2>4, <2>5, ChunkTextIs
  <2>7. chunks \in Seq(SectionRows) /\ DOMAIN chunks = 1..Len(chunks)
    <3>1. chunks \in Seq(SectionRows)
      BY <2>6 DEF CutFrom
    <3> QED BY <3>1
  <2>8. \A k \in 1..Len(chunks) : ChunkOf(passage, sections, chunks[k])
    BY <2>4, <2>6, ChunksAre
  <2>9. ASSUME NEW m \in 1..L, ~IsHeading(passage[m])
        PROVE  /\ sections = read
               /\ \E k \in 1..Len(sections) : sections[k].from <= m /\ m <= sections[k].to
               /\ \A k \in 1..Len(sections) : IsSection(passage, sections[k])
    <3>1. PICK k \in 1..Len(read) : read[k].from <= m /\ m <= read[k].to
      BY <2>1, <2>2, <2>9 DEF AllRead
    <3>2. read # <<>>
      <4>1. 1..Len(<<>>) = {}
        OBVIOUS
      <4> QED BY <3>1, <4>1
    <3>3. sections = read
      BY <2>2, <2>3, <3>2
    <3> QED BY <2>2, <3>1, <3>3 DEF AllRead
  <2>10. ASSUME NEW k \in 1..Len(chunks)
         PROVE  Cardinality({ m \in chunks[k].from..chunks[k].to : passage[m] # "blank" }) <= WindowWords
    <3>1. PICK n \in 1..Len(sections) : \E p \in 1..Len(WordsOf(passage, sections[n])) :
            chunks[k] = WindowAt(sections[n].path, WordsOf(passage, sections[n]), p)
      BY <2>8 DEF ChunkOf
    <3>2. PICK section \in SectionRows : section = sections[n]
      BY <2>4
    <3>3. PICK words : words = WordsOf(passage, section)
      OBVIOUS
    <3>4. PICK p \in 1..Len(words) : chunks[k] = WindowAt(section.path, words, p)
      BY <3>1, <3>2, <3>3
    <3>5. Held(passage, section, chunks[k])
      BY <3>3, <3>4, WindowHolds
    <3> QED BY <3>5 DEF Held
  <2>11. ASSUME NEW i \in 1..L, NEW j \in 1..L, Together(i, j)
         PROVE  \E n \in 1..Len(chunks) : \A m \in i..j :
                    passage[m] = "word" => m \in chunks[n].from..chunks[n].to
    <3>1. ~IsHeading(passage[i])
      <4>1. i \in i..j
        BY <2>11 DEF Together
      <4> QED BY <2>11, <4>1 DEF Together
    <3>2. PICK s \in 1..Len(sections) : sections[s].from <= i /\ i <= sections[s].to
      BY <2>9, <3>1
    <3>3. PICK section \in SectionRows : section = sections[s]
      BY <2>4
    <3>4. IsSection(passage, section) /\ section.from <= i /\ i <= section.to
      BY <2>9, <3>1, <3>2, <3>3
    <3>5. PICK windows : windows = Windows(passage, section)
      OBVIOUS
    <3>6. PICK k \in 1..Len(windows) :
              \A m \in i..j : passage[m] = "word" => m \in windows[k].from .. windows[k].to
      BY SMTT(30), <1>1, <2>1, <2>11, <3>4, <3>5, PhraseIsWhole
    <3>7. PICK n \in 1..Len(chunks) : chunks[n] = windows[k]
      BY <2>6, <3>3, <3>5 DEF CutFrom
    <3> QED BY <3>6, <3>7
  <2>12. ASSUME NEW m \in 1..L, ~IsHeading(passage[m]), NEW k \in 1..Len(chunks)
         PROVE  /\ \A x \in chunks[k].from..chunks[k].to : ~IsHeading(passage[x])
                /\ chunks[k].path = Ascending({ h \in DOMAIN passage : Governs(h, chunks[k].from) })
    <3>1. PICK n \in 1..Len(sections) : \E p \in 1..Len(WordsOf(passage, sections[n])) :
            chunks[k] = WindowAt(sections[n].path, WordsOf(passage, sections[n]), p)
      BY <2>8 DEF ChunkOf
    <3>2. PICK section \in SectionRows : section = sections[n]
      BY <2>4
    <3>3. PICK p \in 1..Len(WordsOf(passage, section)) : chunks[k] = WindowAt(section.path, WordsOf(passage, section), p)
      BY <3>1, <3>2
    <3>4. IsSection(passage, section)
      BY <2>9, <2>12, <3>2
    <3> QED BY <1>1, <3>3, <3>4, HeadingsAreKnown
  <2>13. EveryPhraseIsWhole
    BY <2>1, <2>5, <2>7, <2>10, <2>11 DEF EveryPhraseIsWhole
  <2>14. ChunksKnowTheirHeadings
    BY <2>1, <2>5, <2>7, <2>12 DEF ChunksKnowTheirHeadings
  <2> QED BY <2>13, <2>14
<1> QED BY <1>2, <1>3

LEMMA AnswersGrounded == ASSUME RetrievalInv PROVE AnswersAreGrounded
<1>1. AgreementWins /\ SurvivorsKeepTheirPlace
  BY BothFoundFirst, SurvivorsPlaced DEF RetrievalInv
<1>2. EveryPhraseIsWhole /\ ChunksKnowTheirHeadings
  <2>1. CASE passage = NoText
    BY <2>1 DEF EveryPhraseIsWhole, ChunksKnowTheirHeadings
  <2>2. CASE passage \in Texts
    BY <2>2, TextsAreCut
  <2> QED BY <2>1, <2>2 DEF RetrievalInv
<1> QED BY <1>1, <1>2 DEF AnswersAreGrounded

(* Whatever is ingested, asked and forgotten meanwhile: no short phrase is    *)
(* cut, chunks stand under their headings, what both searches found comes     *)
(* first, and an answer is what is there, in its order                        *)
(* (Retrieval.AnswersAreGrounded; chunk_text, rrf, retrieve).                 *)
THEOREM EveryAnswerIsGrounded == RetrievalSpec => []AnswersAreGrounded
<1>1. RetrievalInit => RetrievalInv
  BY RetrievalStarts
<1>2. RetrievalInv /\ [RetrievalNext]_retrievalVars => RetrievalInv'
  BY RetrievalInvNext
<1>3. RetrievalInv => AnswersAreGrounded
  BY AnswersGrounded
<1> QED BY <1>1, <1>2, <1>3, PTL DEF RetrievalSpec

------------------------------------------------------------------------------
(* The patterns of the policy.                                                *)

LEMMA MarkEndsIs ==
    ASSUME NEW T, NEW p \in Seq(T), NEW i \in 1..Len(p)
    PROVE  MarkEnds(p, i) \in i + 1 .. Len(p) + 1
<1>1. PICK m \in Nat : m = Len(p) /\ DOMAIN p = 1..m
  OBVIOUS
<1>2. At(p, i, Stars) => i + 1 <= m
  <2>1. DOMAIN Stars = 1..2
    BY DEF Stars
  <2>2. At(p, i, Stars) => i + 2 - 1 \in 1..m
    BY <1>1, <2>1 DEF At
  <2> QED BY <2>2
<1>3. At(p, i, Dirs) => i + 2 <= m
  <2>1. DOMAIN Dirs = 1..3
    BY DEF Dirs
  <2>2. At(p, i, Dirs) => i + 3 - 1 \in 1..m
    BY <1>1, <2>1 DEF At
  <2> QED BY <2>2
<1>4. i \in 1..m
  BY <1>1
<1>5. CASE At(p, i, Dirs)
  <2>1. MarkEnds(p, i) = i + 3
    BY <1>5 DEF MarkEnds
  <2> QED BY <1>1, <1>3, <1>4, <1>5, <2>1
<1>6. CASE ~At(p, i, Dirs) /\ At(p, i, Stars)
  <2>1. MarkEnds(p, i) = i + 2
    BY <1>6 DEF MarkEnds
  <2> QED BY <1>1, <1>2, <1>4, <1>6, <2>1
<1>7. CASE ~At(p, i, Dirs) /\ ~At(p, i, Stars)
  <2>1. MarkEnds(p, i) = i + 1
    BY <1>7 DEF MarkEnds
  <2> QED BY <1>1, <1>4, <2>1
<1> QED BY <1>5, <1>6, <1>7

(* A function that looks ahead of itself exists.                              *)
Looks(f, n, K, X, start, next, G) ==
    f \in [n .. K + 1 -> X] /\ f[K + 1] = start /\ \A i \in n..K : f[i] = G[<<i, f[next[i]]>>]

LEMMA LooksExist ==
    ASSUME NEW K \in Nat, NEW X, NEW start \in X, NEW next, \A i \in 1..K : next[i] \in i + 1 .. K + 1,
           NEW G \in [(1..K) \X X -> X]
    PROVE  \E f : Looks(f, 1, K, X, start, next, G)
<1> DEFINE S == { n \in 0..K : \E f : Looks(f, K + 1 - n, K, X, start, next, G) }
<1>1. 0 \in S
  <2> DEFINE z == [i \in K + 1 .. K + 1 |-> start]
  <2>1. z \in [K + 1 .. K + 1 -> X] /\ z[K + 1] = start /\ K + 1 .. K = {} /\ K + 1 - 0 = K + 1
    OBVIOUS
  <2> HIDE DEF z
  <2>2. Looks(z, K + 1 - 0, K, X, start, next, G)
    BY <2>1 DEF Looks
  <2> QED BY <2>2
<1>2. ASSUME NEW n \in 1..K, n - 1 \in S PROVE n \in S
  <2>1. PICK f : Looks(f, K + 1 - (n - 1), K, X, start, next, G)
    BY <1>2
  <2>2. PICK k \in 1..K : k = K + 1 - n /\ K + 1 - (n - 1) = k + 1
    OBVIOUS
  <2>3. f \in [k + 1 .. K + 1 -> X] /\ f[K + 1] = start /\ \A i \in k + 1 .. K : f[i] = G[<<i, f[next[i]]>>]
    BY <2>1, <2>2 DEF Looks
  <2> DEFINE g == [i \in k .. K + 1 |-> IF i = k THEN G[<<k, f[next[k]]>>] ELSE f[i]]
  <2>4. next[k] \in k + 1 .. K + 1 /\ f[next[k]] \in X
    BY <2>3
  <2>5. G[<<k, f[next[k]]>>] \in X
    <3>1. <<k, f[next[k]]>> \in (1..K) \X X
      BY <2>4
    <3> QED BY <3>1
  <2>6. g \in [k .. K + 1 -> X]
    <3>1. \A i \in k .. K + 1 : i # k => f[i] \in X
      BY <2>3
    <3> QED BY <2>5, <3>1
  <2>7. g[k] = G[<<k, f[next[k]]>>] /\ \A i \in k + 1 .. K + 1 : g[i] = f[i]
    OBVIOUS
  <2> HIDE DEF g
  <2>8. g[K + 1] = start
    BY <2>3, <2>7
  <2>9. ASSUME NEW i \in k..K PROVE g[i] = G[<<i, g[next[i]]>>]
    <3>1. CASE i = k
      <4>1. g[next[k]] = f[next[k]]
        BY <2>4, <2>7
      <4> QED BY <2>7, <3>1, <4>1
    <3>2. CASE i # k
      <4>1. i \in k + 1 .. K /\ i \in k + 1 .. K + 1 /\ i \in 1..K
        BY <3>2
      <4>2. next[i] \in k + 1 .. K + 1
        <5>1. next[i] \in i + 1 .. K + 1
          BY <4>1
        <5> QED BY <4>1, <5>1
      <4> QED BY <2>3, <2>7, <4>1, <4>2
    <3> QED BY <3>1, <3>2
  <2>10. Looks(g, K + 1 - n, K, X, start, next, G)
    BY <2>2, <2>6, <2>8, <2>9 DEF Looks
  <2> QED BY <2>10
<1> HIDE DEF S
<1>3. \A n \in 0..K : n \in S
  BY <1>1, <1>2, CountsUp
<1>4. K \in S
  BY <1>3
<1>5. PICK f : Looks(f, K + 1 - K, K, X, start, next, G)
  BY <1>4 DEF S
<1>6. K + 1 - K = 1
  OBVIOUS
<1> QED BY <1>5, <1>6

------------------------------------------------------------------------------
Fits(f, text, p) ==
    /\ f[Len(p) + 1] = {Len(text)}
    /\ \A i \in 1..Len(p) :
          f[i] = {t \in 0 .. Len(text) : Translate(p, i, text, t) \cap f[MarkEnds(p, i)] # {}}

LEMMA WholeIs ==
    ASSUME NEW T, NEW text \in Seq(T), NEW p \in Seq(T)
    PROVE  \E f : Fits(f, text, p) /\ (Whole(text, p) <=> 0 \in f[1])
<1> DEFINE K == Len(p)
           n == Len(text)
           X == SUBSET (0..n)
           next == [i \in 1..K |-> MarkEnds(p, i)]
           Fit(i, on) == {t \in 0..n : Translate(p, i, text, t) \cap on # {}}
           G == [q \in (1..K) \X X |-> Fit(q[1], q[2])]
           run == CHOOSE f : f = [i \in 1 .. Len(p) + 1 |->
                        IF i > Len(p) THEN {Len(text)}
                        ELSE LET on == f[MarkEnds(p, i)]
                             IN  {t \in 0 .. Len(text) : Translate(p, i, text, t) \cap on # {}}]
<1>1. Whole(text, p) <=> 0 \in run[1]
  BY DEF Whole
<1>2. K \in Nat /\ n \in Nat
  OBVIOUS
<1>3. \A i \in 1..K : next[i] = MarkEnds(p, i) /\ next[i] \in i + 1 .. K + 1
  <2> TAKE i \in 1..K
  <2>1. MarkEnds(p, i) \in i + 1 .. Len(p) + 1
    BY MarkEndsIs
  <2> QED BY <2>1
<1>4. run = CHOOSE f : f = [i \in 1 .. K + 1 |-> IF i > K THEN {n} ELSE Fit(i, f[MarkEnds(p, i)])]
  OBVIOUS
<1> HIDE DEF run, next
<1>5. {n} \in X
  BY <1>2
<1>6. G \in [(1..K) \X X -> X] /\ \A i \in 1..K, on \in X : G[<<i, on>>] = Fit(i, on)
  <2>1. \A q \in (1..K) \X X : Fit(q[1], q[2]) \in X
    OBVIOUS
  <2> HIDE DEF Fit, X
  <2>2. G \in [(1..K) \X X -> X]
    BY <2>1
  <2> QED BY <2>2
<1> HIDE DEF G, X
<1>7. PICK f : Looks(f, 1, K, X, {n}, next, G)
  <2>1. \A i \in 1..K : next[i] \in i + 1 .. K + 1
    BY <1>3
  <2> HIDE DEF K
  <2> QED BY <1>2, <1>5, <1>6, <2>1, LooksExist
<1> HIDE DEF Fit, K, n
<1>8. f \in [1 .. K + 1 -> X] /\ f[K + 1] = {n} /\ \A i \in 1..K : f[i] = Fit(i, f[MarkEnds(p, i)])
  <2>1. \A i \in 1..K : f[next[i]] \in X /\ f[i] = G[<<i, f[next[i]]>>]
    <3>1. \A i \in 1..K : next[i] \in 1 .. K + 1
      BY <1>2, <1>3
    <3> QED BY <1>7, <3>1 DEF Looks
  <2>2. \A i \in 1..K : f[i] = Fit(i, f[next[i]])
    BY <1>6, <2>1
  <2> QED BY <1>3, <1>7, <2>2 DEF Looks
<1>9. f = [i \in 1 .. K + 1 |-> IF i > K THEN {n} ELSE Fit(i, f[MarkEnds(p, i)])]
  <2>1. \A i \in 1 .. K + 1 : (i > K => i = K + 1) /\ (~(i > K) => i \in 1..K)
    BY <1>2
  <2> QED BY <1>8, <2>1
<1>10. run = [i \in 1 .. K + 1 |-> IF i > K THEN {n} ELSE Fit(i, run[MarkEnds(p, i)])]
  BY <1>4, <1>9
<1>11. run[K + 1] = {n} /\ \A i \in 1..K : run[i] = Fit(i, run[MarkEnds(p, i)])
  <2>1. K + 1 \in 1 .. K + 1 /\ K + 1 > K /\ \A i \in 1..K : i \in 1 .. K + 1 /\ ~(i > K)
    BY <1>2
  <2> QED BY <1>10, <2>1
<1>12. Fits(run, text, p)
  BY <1>11 DEF Fits, K, n, Fit
<1> QED BY <1>1, <1>12

(* Places where text is cut at its marks.                                     *)
Parted(c, K, text, mark) ==
    /\ K \in Nat \ {0} /\ c \in [1 .. K + 1 -> 0 .. Len(text) + 1]
    /\ c[1] = 0 /\ c[K + 1] = Len(text) + 1
    /\ \A i, j \in 1 .. K + 1 : i < j <=> c[i] < c[j]
    /\ \A i \in 2..K : c[i] \in 1 .. Len(text) /\ text[c[i]] = mark
    /\ \A x \in 1 .. Len(text) : text[x] = mark => \E i \in 2..K : c[i] = x

CutPieces(P, c, K, text, T) ==
    /\ P \in [1..K -> Seq(T)] /\ P \in Seq(Seq(T)) /\ Len(P) = K
    /\ \A i \in 1..K : /\ Len(P[i]) = c[i + 1] - c[i] - 1
                       /\ \A x \in 1 .. Len(P[i]) : P[i][x] = text[c[i] + x]

LEMMA PiecesAre ==
    ASSUME NEW T, NEW text \in Seq(T), NEW mark
    PROVE  \E K, c : Parted(c, K, text, mark) /\ CutPieces(Pieces(text, mark), c, K, text, T)
<1>1. PICK n \in Nat : n = Len(text) /\ DOMAIN text = 1..n
  OBVIOUS
<1> DEFINE M == {i \in DOMAIN text : text[i] = mark}
           S == {0, n + 1} \cup M
           q == Ascending(S)
           K == Len(q) - 1
<1>2. M \in SUBSET (1..n) /\ S \in SUBSET (0 .. n + 1) /\ S \in SUBSET Int
  BY <1>1
<1>3. IsFiniteSet(S)
  <2>1. IsFiniteSet(0 .. n + 1)
    BY <1>1, FS_Interval
  <2> QED BY <1>2, <2>1, FS_Subset
<1>4. Rises(q, S)
  BY <1>2, <1>3, AscendingIs
<1>5. Pieces(text, mark) = [k \in 1 .. Len(q) - 1 |-> SubSeq(text, q[k] + 1, q[k + 1] - 1)]
  BY <1>1 DEF Pieces
<1>6. /\ 0 \in S /\ n + 1 \in S
      /\ \A x \in S : x = 0 \/ x = n + 1 \/ (x \in 1..n /\ text[x] = mark)
      /\ \A x \in 1..n : text[x] = mark => x \in S
  BY SMTT(30), <1>1
<1> HIDE DEF M, S, q
<1>7. PICK N \in Nat : N = Len(q)
  BY <1>4 DEF Rises
<1>8. /\ q \in [1..N -> S]
      /\ \A x \in S : \E k \in 1..N : q[k] = x
      /\ \A i, j \in 1..N : i < j <=> q[i] < q[j]
  BY <1>4, <1>7 DEF Rises
<1>9. \A i \in 1..N : q[i] \in S /\ q[i] \in 0 .. n + 1
  BY <1>2, <1>8
<1>10. PICK a \in 1..N : q[a] = 0
  BY <1>6, <1>8
<1>11. PICK b \in 1..N : q[b] = n + 1
  BY <1>6, <1>8
<1>12. a = 1
  <2>1. 1 \in 1..N /\ ~(1 < a)
    BY <1>1, <1>8, <1>9, <1>10
  <2> QED BY <2>1
<1>13. b = N
  <2>1. N \in 1..N /\ ~(b < N)
    BY <1>1, <1>8, <1>9, <1>11
  <2> QED BY <2>1
<1>14. a < b
  BY <1>1, <1>8, <1>10, <1>11
<1>15. K \in Nat \ {0} /\ K + 1 = N
  BY <1>7, <1>12, <1>13, <1>14
<1>16. q \in [1 .. K + 1 -> 0 .. n + 1] /\ q[1] = 0 /\ q[K + 1] = n + 1
  BY <1>2, <1>8, <1>10, <1>11, <1>12, <1>13, <1>15
<1>17. \A i, j \in 1 .. K + 1 : i < j <=> q[i] < q[j]
  BY <1>8, <1>15
<1>18. \A i \in 2..K : q[i] \in 1..n /\ text[q[i]] = mark
  <2> TAKE i \in 2..K
  <2>1. i \in 1 .. K + 1 /\ 1 \in 1 .. K + 1 /\ K + 1 \in 1 .. K + 1 /\ 1 < i /\ i < K + 1
    BY <1>15
  <2>2. q[1] < q[i] /\ q[i] < q[K + 1] /\ q[i] \in S
    BY <1>9, <1>15, <1>17, <2>1
  <2>3. q[i] # 0 /\ q[i] # n + 1
    BY <1>1, <1>9, <1>15, <1>16, <2>1, <2>2
  <2> QED BY <1>6, <2>2, <2>3
<1>19. \A x \in 1..n : text[x] = mark => \E i \in 2..K : q[i] = x
  <2> SUFFICES ASSUME NEW x \in 1..n, text[x] = mark PROVE \E i \in 2..K : q[i] = x
    OBVIOUS
  <2>1. PICK i \in 1..N : q[i] = x
    BY <1>6, <1>8
  <2>2. i # 1 /\ i # N
    BY <1>1, <1>15, <1>16, <2>1
  <2>3. i \in 2..K
    BY <1>15, <2>2
  <2> QED BY <2>1, <2>3
<1>20. Parted(q, K, text, mark)
  <2> HIDE DEF K
  <2> QED BY <1>1, <1>15, <1>16, <1>17, <1>18, <1>19 DEF Parted
<1>21. \A i \in 1..K : i \in 1 .. K + 1 /\ i + 1 \in 1 .. K + 1 /\ q[i] < q[i + 1]
  <2>1. \A i \in 1..K : i \in 1 .. K + 1 /\ i + 1 \in 1 .. K + 1 /\ i < i + 1
    BY <1>15
  <2> QED BY <1>17, <2>1
<1>22. Pieces(text, mark) = [k \in 1..K |-> SubSeq(text, q[k] + 1, q[k + 1] - 1)]
  BY <1>5
<1> HIDE DEF K
<1>23. ASSUME NEW i \in 1..K
       PROVE  LET s == SubSeq(text, q[i] + 1, q[i + 1] - 1) IN
              /\ s \in Seq(T) /\ Len(s) = q[i + 1] - q[i] - 1
              /\ \A x \in 1 .. Len(s) : s[x] = text[q[i] + x]
  <2>1. PICK u \in 0 .. n + 1 : u = q[i]
    BY <1>16, <1>21
  <2>2. PICK v \in 0 .. n + 1 : v = q[i + 1]
    BY <1>16, <1>21
  <2>3. u < v
    BY <1>21, <2>1, <2>2
  <2> DEFINE s == SubSeq(text, u + 1, v - 1)
  <2>4. s = [x \in 1 .. v - 1 - (u + 1) + 1 |-> text[u + 1 + x - 1]]
    BY <1>1, <2>3 DEF SubSeq
  <2>5. v - 1 - (u + 1) + 1 \in Nat /\ v - 1 - (u + 1) + 1 = v - u - 1
    BY <1>1, <2>3
  <2>6. Len(s) = v - u - 1
    BY <2>4, <2>5
  <2>7. \A x \in 1 .. v - u - 1 : u + 1 + x - 1 = u + x /\ u + x \in 1..n
    BY <1>1, <2>3
  <2>8. \A x \in 1 .. v - u - 1 : s[x] = text[u + x] /\ text[u + x] \in T
    BY <1>1, <2>4, <2>5, <2>7
  <2>9. s \in Seq(T)
    BY <2>4, <2>5, <2>8, <2>7, <1>1
  <2> HIDE DEF s
  <2> QED BY <2>1, <2>2, <2>6, <2>8, <2>9 DEF s
<1> DEFINE P == [k \in 1..K |-> SubSeq(text, q[k] + 1, q[k + 1] - 1)]
<1>24. /\ P \in [1..K -> Seq(T)] /\ P \in Seq(Seq(T)) /\ Len(P) = K
       /\ \A i \in 1..K : P[i] = SubSeq(text, q[i] + 1, q[i + 1] - 1)
  <2>1. \A i \in 1..K : SubSeq(text, q[i] + 1, q[i + 1] - 1) \in Seq(T)
    BY <1>23
  <2> HIDE DEF P
  <2>2. P \in [1..K -> Seq(T)]
    BY <2>1 DEF P
  <2>3. K \in Nat
    BY <1>15
  <2>4. P \in Seq(Seq(T)) /\ Len(P) = K
    BY <2>2, <2>3
  <2> QED BY <2>2, <2>4 DEF P
<1> HIDE DEF P
<1>25. CutPieces(P, q, K, text, T)
  <2>1. ASSUME NEW i \in 1..K
        PROVE  Len(P[i]) = q[i + 1] - q[i] - 1 /\ \A x \in 1 .. Len(P[i]) : P[i][x] = text[q[i] + x]
    <3>1. P[i] = SubSeq(text, q[i] + 1, q[i + 1] - 1)
      BY <1>24
    <3> QED BY <1>23, <3>1
  <2> QED BY <1>24, <2>1 DEF CutPieces
<1>26. Pieces(text, mark) = P
  BY <1>22 DEF P
<1> QED BY <1>20, <1>25, <1>26

(* Every place belongs to a piece, and pieces have no marks in them.          *)
LEMMA CutsCover ==
    ASSUME NEW T, NEW text \in Seq(T), NEW mark, NEW K, NEW c, Parted(c, K, text, mark)
    PROVE  /\ \A i \in 1..K : /\ i \in 1 .. K + 1 /\ i + 1 \in 1 .. K + 1
                              /\ c[i] \in 0 .. Len(text) /\ c[i + 1] \in 1 .. Len(text) + 1 /\ c[i] < c[i + 1]
           /\ \A i \in 1..K, x \in 1 .. Len(text) : c[i] < x /\ x < c[i + 1] => text[x] # mark
           /\ \A i \in 1..K : (i < K <=> c[i + 1] # Len(text) + 1) /\ (i < K => text[c[i + 1]] = mark)
           /\ \A x \in 1 .. Len(text), i \in 1..K : text[x] = mark /\ c[i] < x => \E j \in i + 1 .. K : c[j] = x
<1>1. PICK n \in Nat : n = Len(text)
  OBVIOUS
<1>2. /\ K \in Nat \ {0} /\ c \in [1 .. K + 1 -> 0 .. n + 1]
      /\ c[1] = 0 /\ c[K + 1] = n + 1
      /\ \A i, j \in 1 .. K + 1 : i < j <=> c[i] < c[j]
      /\ \A i \in 2..K : c[i] \in 1..n /\ text[c[i]] = mark
      /\ \A x \in 1..n : text[x] = mark => \E i \in 2..K : c[i] = x
  BY <1>1 DEF Parted
<1>3. \A i \in 1..K : i \in 1 .. K + 1 /\ i + 1 \in 1 .. K + 1 /\ i < i + 1 /\ K + 1 \in 1 .. K + 1 /\ (i < K => i + 1 \in 2..K) /\ i < K + 1
  BY <1>2
<1>4. \A i \in 1..K : c[i] < c[i + 1] /\ c[i] < c[K + 1] /\ c[i] \in 0 .. n + 1 /\ c[i + 1] \in 0 .. n + 1
  BY <1>2, <1>3
<1>5. \A i \in 1..K : c[i] \in 0..n /\ c[i + 1] \in 1 .. n + 1
  BY <1>1, <1>2, <1>4
<1>6. ASSUME NEW i \in 1..K, NEW x \in 1..n, c[i] < x, x < c[i + 1] PROVE text[x] # mark
  <2> SUFFICES ASSUME text[x] = mark PROVE FALSE
    OBVIOUS
  <2>1. PICK j \in 2..K : c[j] = x
    BY <1>2
  <2>2. j \in 1 .. K + 1 /\ i \in 1 .. K + 1 /\ i + 1 \in 1 .. K + 1
    BY <1>2, <1>3
  <2>3. i < j /\ j < i + 1
    BY <1>2, <1>6, <2>1, <2>2
  <2> QED BY <2>2, <2>3, <1>2
<1>7. ASSUME NEW i \in 1..K PROVE (i < K <=> c[i + 1] # n + 1) /\ (i < K => text[c[i + 1]] = mark)
  <2>1. CASE i < K
    <3>1. i + 1 \in 2..K
      BY <1>3, <2>1
    <3>2. c[i + 1] \in 1..n /\ text[c[i + 1]] = mark
      BY <1>2, <3>1
    <3> QED BY <1>1, <2>1, <3>2
  <2>2. CASE ~(i < K)
    <3>1. i + 1 = K + 1
      BY <1>2, <2>2
    <3> QED BY <1>2, <2>2, <3>1
  <2> QED BY <2>1, <2>2
<1>8. ASSUME NEW x \in 1..n, NEW i \in 1..K, text[x] = mark, c[i] < x PROVE \E j \in i + 1 .. K : c[j] = x
  <2>1. PICK j \in 2..K : c[j] = x
    BY <1>2, <1>8
  <2>2. j \in 1 .. K + 1 /\ i \in 1 .. K + 1
    BY <1>2, <1>3
  <2>3. i < j
    BY <1>2, <1>8, <2>1, <2>2
  <2>4. j \in i + 1 .. K
    BY <1>2, <2>3
  <2> QED BY <2>1, <2>4
<1> QED BY <1>1, <1>3, <1>4, <1>5, <1>6, <1>7, <1>8

(* The reference's functions are what they say of themselves.                 *)
SegmentStep(name, mark, on) ==
    {t \in 0 .. Len(name) :
        IF mark = "*" THEN \E u \in t .. Len(name) : u \in on
        ELSE /\ t < Len(name) /\ t + 1 \in on
             /\ mark \in {"?", name[t + 1]} \/ (mark = "!a" /\ name[t + 1] # "a")}
SegmentRun(r, name, marks) ==
    /\ r[0] = {Len(name)}
    /\ \A n \in 1 .. Len(marks) : r[n] = SegmentStep(name, marks[Len(marks) - n + 1], r[n - 1])

LEMMA SegmentIs ==
    ASSUME NEW T, NEW name \in Seq(T), NEW marks \in Seq(T)
    PROVE  \E r : SegmentRun(r, name, marks) /\ (SegmentMeans(name, marks) <=> 0 \in r[Len(marks)])
<1> DEFINE K == Len(marks)
           X == SUBSET (0 .. Len(name))
           G == [q \in (1..K) \X X |-> SegmentStep(name, marks[K - q[1] + 1], q[2])]
           start == {Len(name)}
           run == CHOOSE f : f = [n \in 0..K |-> IF n = 0 THEN start ELSE SegmentStep(name, marks[K - n + 1], f[n - 1])]
<1>1. SegmentMeans(name, marks) <=> 0 \in run[K]
  BY DEF SegmentMeans, SegmentStep
<1>2. K \in Nat /\ start \in X
  OBVIOUS
<1>3. \A mark, on : SegmentStep(name, mark, on) \in X
  BY DEF SegmentStep
<1> HIDE DEF K, X, start
<1>4. G \in [(1..K) \X X -> X] /\ \A n \in 1..K, on \in X : G[<<n, on>>] = SegmentStep(name, marks[K - n + 1], on)
  BY <1>3
<1> HIDE DEF G
<1>5. PICK f : Steps(f, K, X, start, G)
  BY <1>2, <1>4, StepsExist
<1>6. f \in [0..K -> X] /\ f[0] = start /\ \A n \in 1..K : f[n] = SegmentStep(name, marks[K - n + 1], f[n - 1])
  <2>1. \A n \in 1..K : n - 1 \in 0..K
    BY <1>2
  <2> QED BY <1>4, <1>5, <2>1 DEF Steps
<1>7. f = [n \in 0..K |-> IF n = 0 THEN start ELSE SegmentStep(name, marks[K - n + 1], f[n - 1])]
  <2>1. \A n \in 0..K : n # 0 => n \in 1..K
    BY <1>2
  <2> QED BY <1>6, <2>1
<1>8. run = [n \in 0..K |-> IF n = 0 THEN start ELSE SegmentStep(name, marks[K - n + 1], run[n - 1])]
  BY <1>7
<1> HIDE DEF run
<1>9. run[0] = start /\ \A n \in 1..K : run[n] = SegmentStep(name, marks[K - n + 1], run[n - 1])
  <2>1. 0 \in 0..K /\ \A n \in 1..K : n \in 0..K /\ n # 0
    BY <1>2
  <2> QED BY <1>8, <2>1
<1>10. SegmentRun(run, name, marks)
  BY <1>9 DEF SegmentRun, K, start
<1> QED BY <1>1, <1>10 DEF K

PathStep(names, part, last, on) ==
    {k \in 1 .. Len(names) :
        IF part = Stars THEN last \/ \E l \in k .. Len(names) : l \in on
        ELSE SegmentMeans(names[k], part) /\ k + 1 \in on}
PathRun(r, names, parts) ==
    /\ r[0] = {Len(names) + 1}
    /\ \A n \in 1 .. Len(parts) : r[n] = PathStep(names, parts[Len(parts) - n + 1], n = 1, r[n - 1])

LEMMA PathIs ==
    ASSUME NEW T, NEW names \in Seq(T), NEW parts \in Seq(T)
    PROVE  \E r : PathRun(r, names, parts) /\ (PathMeans(names, parts) <=> 1 \in r[Len(parts)])
<1> DEFINE K == Len(parts)
           X == SUBSET (1 .. Len(names) + 1)
           G == [q \in (1..K) \X X |-> PathStep(names, parts[K - q[1] + 1], q[1] = 1, q[2])]
           start == {Len(names) + 1}
           run == CHOOSE f : f = [n \in 0..K |-> IF n = 0 THEN start ELSE PathStep(names, parts[K - n + 1], n = 1, f[n - 1])]
<1>1. PathMeans(names, parts) <=> 1 \in run[K]
  BY DEF PathMeans, PathStep
<1>2. K \in Nat /\ start \in X
  OBVIOUS
<1>3. \A part, last, on : PathStep(names, part, last, on) \in X
  BY DEF PathStep
<1> HIDE DEF K, X, start
<1>4. G \in [(1..K) \X X -> X] /\ \A n \in 1..K, on \in X : G[<<n, on>>] = PathStep(names, parts[K - n + 1], n = 1, on)
  BY <1>3
<1> HIDE DEF G
<1>5. PICK f : Steps(f, K, X, start, G)
  BY <1>2, <1>4, StepsExist
<1>6. f \in [0..K -> X] /\ f[0] = start /\ \A n \in 1..K : f[n] = PathStep(names, parts[K - n + 1], n = 1, f[n - 1])
  <2>1. \A n \in 1..K : n - 1 \in 0..K
    BY <1>2
  <2> QED BY ZenonT(30), <1>4, <1>5, <2>1 DEF Steps
<1>7. f = [n \in 0..K |-> IF n = 0 THEN start ELSE PathStep(names, parts[K - n + 1], n = 1, f[n - 1])]
  <2>1. \A n \in 0..K : n # 0 => n \in 1..K
    BY <1>2
  <2> QED BY <1>6, <2>1
<1>8. run = [n \in 0..K |-> IF n = 0 THEN start ELSE PathStep(names, parts[K - n + 1], n = 1, run[n - 1])]
  BY <1>7
<1> HIDE DEF run
<1>9. run[0] = start /\ \A n \in 1..K : run[n] = PathStep(names, parts[K - n + 1], n = 1, run[n - 1])
  <2>1. 0 \in 0..K /\ \A n \in 1..K : n \in 0..K /\ n # 0
    BY <1>2
  <2> QED BY <1>8, <2>1
<1>10. PathRun(run, names, parts)
  BY <1>9 DEF PathRun, K, start
<1> QED BY <1>1, <1>10 DEF K

------------------------------------------------------------------------------
(* A segment of text fits a part of the pattern as the table says.            *)
Standing(p, a, marks) ==
    /\ a \in Nat /\ a + Len(marks) <= Len(p)
    /\ \A i \in 1 .. Len(marks) : p[a + i] = marks[i] /\ marks[i] # "/"
    /\ a + Len(marks) = Len(p) \/ p[a + Len(marks) + 1] = "/"

LEMMA SegmentFits ==
    ASSUME NEW T, NEW text \in Seq(T), NEW p \in Seq(T), NEW f, Fits(f, text, p),
           NEW name \in Seq(T), NEW marks \in Seq(T), NEW a, NEW lo,
           Standing(p, a, marks), Standing(text, lo, name),
           \A i \in 1 .. Len(marks) : ~At(p, a + i, Stars),
           (\A i \in 1 .. Len(marks) : marks[i] # "!a") \/ lo + Len(name) = Len(text)
    PROVE  lo \in f[a + 1] <=> SegmentMeans(name, marks) /\ lo + Len(name) \in f[a + Len(marks) + 1]
<1>1. PICK r : SegmentRun(r, name, marks) /\ (SegmentMeans(name, marks) <=> 0 \in r[Len(marks)])
  BY SegmentIs
<1>2. PICK L \in Nat : L = Len(marks)
  OBVIOUS
<1>3. PICK N \in Nat : N = Len(name)
  OBVIOUS
<1>4. PICK P \in Nat : P = Len(p) /\ DOMAIN p = 1..P
  OBVIOUS
<1>5. PICK M \in Nat : M = Len(text) /\ DOMAIN text = 1..M
  OBVIOUS
<1>6. /\ a \in Nat /\ a + L <= P
      /\ \A i \in 1..L : p[a + i] = marks[i] /\ marks[i] # "/"
      /\ a + L = P \/ p[a + L + 1] = "/"
  BY <1>2, <1>4 DEF Standing
<1>7. /\ lo \in Nat /\ lo + N <= M
      /\ \A i \in 1..N : text[lo + i] = name[i] /\ name[i] # "/"
      /\ lo + N = M \/ text[lo + N + 1] = "/"
  BY <1>3, <1>5 DEF Standing
<1> DEFINE b == a + L
           hi == lo + N
<1>8. /\ f[P + 1] = {M}
      /\ \A i \in 1..P : f[i] = {t \in 0..M : Translate(p, i, text, t) \cap f[MarkEnds(p, i)] # {}}
  BY <1>4, <1>5 DEF Fits
<1>9. \A i \in 1..P : ~At(p, i, Stars) => ~At(p, i, Dirs) /\ MarkEnds(p, i) = i + 1
  <2> TAKE i \in 1..P
  <2> SUFFICES ASSUME ~At(p, i, Stars) PROVE ~At(p, i, Dirs) /\ MarkEnds(p, i) = i + 1
    OBVIOUS
  <2>1. DOMAIN Stars = 1..2 /\ DOMAIN Dirs = 1..3 /\ \A n \in 1..2 : n \in 1..3 /\ Stars[n] = Dirs[n]
    BY DEF Stars, Dirs
  <2>2. ~At(p, i, Dirs)
    BY <2>1 DEF At
  <2> QED BY <2>2 DEF MarkEnds
<1>10. \A t \in 0..N : lo + t \in f[b + 1] <=> t = N /\ hi \in f[b + 1]
  <2> TAKE t \in 0..N
  <2>1. CASE b = P
    BY <1>7, <1>8, <2>1
  <2>2. CASE b # P
    <3>1. b + 1 \in 1..P /\ p[b + 1] = "/"
      BY <1>2, <1>6, <2>2
    <3>2. ~At(p, b + 1, Stars)
      <4>1. 1 \in DOMAIN Stars /\ Stars[1] = "*" /\ b + 1 + 1 - 1 = b + 1
        BY <1>2, <1>6 DEF Stars
      <4>2. "*" # "/"
        OBVIOUS
      <4> QED BY <3>1, <4>1, <4>2 DEF At
    <3>3. Translate(p, b + 1, text, lo + t) = {u \in {lo + t + 1} \cap DOMAIN text : text[u] = "/"}
      <4>1. ~At(p, b + 1, Dirs)
        BY <1>9, <3>1, <3>2
      <4>2. p[b + 1] # "*" /\ p[b + 1] # "?" /\ p[b + 1] # "!a"
        BY <3>1
      <4> QED BY <3>1, <3>2, <4>1, <4>2 DEF Translate
    <3>4. lo + t \in f[b + 1] => lo + t + 1 \in 1..M /\ text[lo + t + 1] = "/"
      BY <1>5, <1>8, <3>1, <3>3
    <3>5. t # N => lo + t + 1 = lo + (t + 1) /\ t + 1 \in 1..N
      BY <1>7
    <3>6. t # N => text[lo + t + 1] # "/"
      <4>1. t # N => text[lo + (t + 1)] = name[t + 1] /\ name[t + 1] # "/"
        BY <1>7, <3>5
      <4> QED BY <3>5, <4>1
    <3> QED BY <3>4, <3>6
  <2> QED BY <2>1, <2>2
<1> DEFINE S == { n \in 0..L : \A t \in 0..N : lo + t \in f[b + 1 - n] <=> t \in r[n] /\ hi \in f[b + 1] }
<1>11. 0 \in S
  <2>1. r[0] = {N} /\ b + 1 - 0 = b + 1
    BY <1>1, <1>2, <1>3, <1>6 DEF SegmentRun
  <2> QED BY <1>10, <2>1
<1>12. ASSUME NEW n \in 1..L, n - 1 \in S PROVE n \in S
  <2> DEFINE x == b + 1 - n
             mark == marks[L - n + 1]
             k == L - n + 1
             on == r[n - 1]
  <2>1. k \in 1..L /\ x = a + k /\ x \in 1..P /\ x + 1 = b + 1 - (n - 1)
    BY <1>2, <1>4, <1>6
  <2>2. p[x] = mark /\ mark # "/"
    BY <1>6, <2>1
  <2>3. ~At(p, x, Stars)
    BY <1>2, <2>1
  <2>4. ~At(p, x, Dirs) /\ MarkEnds(p, x) = x + 1
    BY <1>9, <2>1, <2>3
  <2>5. f[x] = {t \in 0..M : Translate(p, x, text, t) \cap f[x + 1] # {}}
    BY SMTT(30), <1>8, <2>1, <2>4
  <2>6. \A t \in 0..N : lo + t \in f[x + 1] <=> t \in on /\ hi \in f[b + 1]
    BY <1>12, <2>1
  <2>7. r[n] = SegmentStep(name, mark, on)
    BY <1>1, <1>2 DEF SegmentRun
  <2>8. mark = "!a" => hi = M
    BY <1>2, <1>3, <1>5, <2>1
  <2> HIDE DEF mark, k, on
  <2>9. ASSUME NEW t \in 0..N PROVE lo + t \in f[x] <=> t \in r[n] /\ hi \in f[b + 1]
    <3>1. lo + t \in 0..M
      BY <1>7
    <3>2. lo + t \in f[x] <=> Translate(p, x, text, lo + t) \cap f[x + 1] # {}
      <4> HIDE DEF x
      <4> QED BY <2>5, <3>1
    <3>3. CASE mark = "*"
      <4>1. Translate(p, x, text, lo + t) = {u \in lo + t .. M : \A v \in lo + t + 1 .. u : text[v] # "/"}
        <5> HIDE DEF x
        <5> QED BY <1>5, <2>2, <2>3, <2>4, <3>3 DEF Translate
      <4>2. ASSUME NEW u \in lo + t .. M
            PROVE  (\A v \in lo + t + 1 .. u : text[v] # "/") <=> u <= hi
        <5>1. ASSUME u <= hi, NEW v \in lo + t + 1 .. u PROVE text[v] # "/"
          <6>1. v - lo \in 1..N /\ lo + (v - lo) = v
            BY <1>7, <5>1
          <6>2. text[lo + (v - lo)] = name[v - lo] /\ name[v - lo] # "/"
            BY <1>7, <6>1
          <6> QED BY <6>1, <6>2
        <5>2. ~(u <= hi) => text[hi + 1] = "/" /\ hi + 1 \in lo + t + 1 .. u
          BY <1>5, <1>7
        <5> QED BY <5>1, <5>2
      <4>3. Translate(p, x, text, lo + t) = lo + t .. hi
        <5>1. lo + t .. hi \subseteq lo + t .. M /\ \A u \in lo + t .. M : u <= hi <=> u \in lo + t .. hi
          BY <1>7
        <5> QED BY <4>1, <4>2, <5>1
      <4>4. lo + t \in f[x] <=> \E u \in t..N : lo + u \in f[x + 1]
        <5>1. \A u \in t..N : lo + u \in lo + t .. hi
          BY <1>7
        <5>2. \A w \in lo + t .. hi : w - lo \in t..N /\ lo + (w - lo) = w
          BY <1>7
        <5> HIDE DEF x
        <5>3. (\E u \in t..N : lo + u \in f[x + 1]) => Translate(p, x, text, lo + t) \cap f[x + 1] # {}
          BY <4>3, <5>1
        <5>4. ASSUME NEW w \in Translate(p, x, text, lo + t) \cap f[x + 1]
              PROVE  \E u \in t..N : lo + u \in f[x + 1]
          <6>1. w - lo \in t..N /\ lo + (w - lo) = w /\ w \in f[x + 1]
            BY <4>3, <5>2, <5>4
          <6>2. lo + (w - lo) \in f[x + 1]
            BY <6>1
          <6> QED BY <6>1, <6>2
        <5> QED BY <3>2, <5>3, <5>4
      <4>5. t \in r[n] <=> \E u \in t..N : u \in on
        BY <1>3, <2>7, <3>3 DEF SegmentStep
      <4>6. \A u \in t..N : u \in 0..N
        OBVIOUS
      <4> HIDE DEF x, hi, b
      <4> QED BY <2>6, <4>4, <4>5, <4>6
    <3>4. CASE mark # "*"
      <4> DEFINE u == lo + t + 1
                 Takes == (mark = "?" /\ text[u] # "/") \/ (mark = "!a" /\ text[u] # "a") \/ text[u] = mark
      <4>1. u = lo + (t + 1) /\ (u \in 1..M <=> u <= M)
        BY <1>7
      <4>2. lo + t \in f[x] <=> u \in 1..M /\ Takes /\ u \in f[x + 1]
        <5> HIDE DEF x, u
        <5>1. CASE mark = "?"
          <6>1. Translate(p, x, text, lo + t) = {w \in {u} \cap DOMAIN text : text[w] # "/"}
            BY <2>2, <2>3, <2>4, <5>1 DEF Translate, u
          <6>2. text[u] = mark => text[u] # "/"
            BY <5>1
          <6>3. Takes <=> text[u] # "/"
            BY <5>1, <6>2
          <6> QED BY <1>5, <3>2, <6>1, <6>3
        <5>2. CASE mark = "!a"
          <6>1. Translate(p, x, text, lo + t) = {w \in {u} \cap DOMAIN text : text[w] # "a"}
            BY <2>2, <2>3, <2>4, <5>2 DEF Translate, u
          <6>2. text[u] = mark => text[u] # "a"
            BY <5>2
          <6>3. Takes <=> text[u] # "a"
            BY <5>2, <6>2
          <6> QED BY <1>5, <3>2, <6>1, <6>3
        <5>3. CASE mark # "?" /\ mark # "!a"
          <6>1. Translate(p, x, text, lo + t) = {w \in {u} \cap DOMAIN text : text[w] = mark}
            BY <2>2, <2>3, <2>4, <3>4, <5>3 DEF Translate, u
          <6>3. Takes <=> text[u] = mark
            BY <5>3
          <6> QED BY <1>5, <3>2, <6>1, <6>3
        <5> QED BY <5>1, <5>2, <5>3
      <4>3. t \in r[n] <=> t < N /\ t + 1 \in on /\ (mark \in {"?", name[t + 1]} \/ (mark = "!a" /\ name[t + 1] # "a"))
        BY <1>3, <2>7, <3>4 DEF SegmentStep
      <4>4. CASE t < N
        <5>1. t + 1 \in 1..N /\ t + 1 \in 0..N /\ u \in 1..M
          BY <1>7, <4>4
        <5>2. text[u] = name[t + 1] /\ name[t + 1] # "/"
          <6>1. text[lo + (t + 1)] = name[t + 1] /\ name[t + 1] # "/"
            BY <1>7, <5>1
          <6> QED BY <4>1, <6>1
        <5>3. u \in f[x + 1] <=> t + 1 \in on /\ hi \in f[b + 1]
          <6>1. lo + (t + 1) \in f[x + 1] <=> t + 1 \in on /\ hi \in f[b + 1]
            BY <2>6, <5>1
          <6> QED BY <4>1, <6>1
        <5>4. Takes <=> mark \in {"?", name[t + 1]} \/ (mark = "!a" /\ name[t + 1] # "a")
          <6> HIDE DEF u
          <6> QED BY <5>2
        <5> HIDE DEF Takes, u, x, hi, b
        <5> QED BY <4>2, <4>3, <4>4, <5>1, <5>3, <5>4
      <4>5. CASE ~(t < N)
        <5>1. t = N /\ u = hi + 1
          BY <4>5
        <5>2. ~(u \in 1..M /\ Takes)
          <6> SUFFICES ASSUME u \in 1..M, Takes PROVE FALSE
            OBVIOUS
          <6>1. hi # M
            BY <1>7, <5>1
          <6>2. text[u] = "/"
            BY <1>7, <5>1, <6>1
          <6>3. mark # "!a"
            BY <2>8, <6>1
          <6> QED BY <2>2, <6>2, <6>3
        <5> HIDE DEF Takes, u, x, hi, b
        <5> QED BY <4>2, <4>3, <4>5, <5>2
      <4> QED BY <4>4, <4>5
    <3> QED BY <3>3, <3>4
  <2> QED BY <2>9
<1>13. \A n \in S : \A t \in 0..N : lo + t \in f[b + 1 - n] <=> t \in r[n] /\ hi \in f[b + 1]
  OBVIOUS
<1> HIDE DEF S
<1>14. \A n \in 0..L : n \in S
  BY <1>11, <1>12, CountsUp
<1>15. lo + 0 \in f[b + 1 - L] <=> 0 \in r[L] /\ hi \in f[b + 1]
  BY <1>13, <1>14
<1>16. lo + 0 = lo /\ b + 1 - L = a + 1
  BY <1>6, <1>7
<1> QED BY <1>1, <1>2, <1>3, <1>15, <1>16

LEMMA PiecesStand ==
    ASSUME NEW T, NEW text \in Seq(T), NEW K, NEW c, Parted(c, K, text, "/"),
           NEW P, CutPieces(P, c, K, text, T), NEW i \in 1..K
    PROVE  P[i] \in Seq(T) /\ Standing(text, c[i], P[i]) /\ c[i] + Len(P[i]) + 1 = c[i + 1]
<1>1. PICK n \in Nat : n = Len(text)
  OBVIOUS
<1>2. /\ i \in 1 .. K + 1 /\ i + 1 \in 1 .. K + 1
      /\ c[i] \in 0..n /\ c[i + 1] \in 1 .. n + 1 /\ c[i] < c[i + 1]
      /\ \A x \in 1..n : c[i] < x /\ x < c[i + 1] => text[x] # "/"
      /\ i < K <=> c[i + 1] # n + 1
      /\ i < K => text[c[i + 1]] = "/"
  BY <1>1, CutsCover
<1>3. P[i] \in Seq(T) /\ Len(P[i]) = c[i + 1] - c[i] - 1 /\ \A x \in 1 .. Len(P[i]) : P[i][x] = text[c[i] + x]
  BY DEF CutPieces
<1>4. PICK u \in 0..n : u = c[i]
  BY <1>2
<1>5. PICK v \in 1 .. n + 1 : v = c[i + 1]
  BY <1>2
<1>6. u < v /\ Len(P[i]) = v - u - 1
  BY <1>2, <1>3, <1>4, <1>5
<1>7. PICK L \in Nat : L = Len(P[i])
  BY <1>3
<1>8. L = v - u - 1
  BY <1>6, <1>7
<1>9. ASSUME NEW x \in 1..L PROVE text[u + x] = P[i][x] /\ P[i][x] # "/"
  <2>1. u + x \in 1..n /\ u < u + x /\ u + x < v
    BY <1>1, <1>8
  <2>2. text[u + x] # "/"
    BY <1>2, <1>4, <1>5, <2>1
  <2>3. P[i][x] = text[u + x]
    BY <1>3, <1>4, <1>7
  <2> QED BY <2>2, <2>3
<1>10. u + L <= n /\ u + L + 1 = v
  BY <1>1, <1>8
<1>11. u + L = n \/ text[u + L + 1] = "/"
  <2>1. CASE i < K
    BY <1>2, <1>5, <1>10, <2>1
  <2>2. CASE ~(i < K)
    <3>1. v = n + 1
      BY <1>2, <1>5, <2>2
    <3> QED BY <1>1, <1>10, <3>1
  <2> QED BY <2>1, <2>2
<1>12. Standing(text, u, P[i])
  BY <1>1, <1>7, <1>9, <1>10, <1>11 DEF Standing
<1> QED BY <1>3, <1>4, <1>5, <1>7, <1>10, <1>12

(* What stands in a part of the pattern stands in the pattern.                *)
LEMMA StarsStand ==
    ASSUME NEW T, NEW p \in Seq(T), NEW a, NEW marks \in Seq(T), Standing(p, a, marks)
    PROVE  /\ \A i \in 1 .. Len(marks) : At(p, a + i, Stars) => At(marks, i, Stars)
           /\ marks = Stars => /\ At(p, a + 1, Stars) /\ Len(marks) = 2
                               /\ At(p, a + 1, Dirs) <=> a + 2 # Len(p)
<1>1. PICK n \in Nat : n = Len(p) /\ DOMAIN p = 1..n
  OBVIOUS
<1>2. PICK L \in Nat : L = Len(marks) /\ DOMAIN marks = 1..L
  OBVIOUS
<1>3. /\ a \in Nat /\ a + L <= n
      /\ \A i \in 1..L : p[a + i] = marks[i] /\ marks[i] # "/"
      /\ a + L = n \/ p[a + L + 1] = "/"
  BY <1>1, <1>2 DEF Standing
<1>4. DOMAIN Stars = 1..2 /\ Stars[1] = "*" /\ Stars[2] = "*" /\ Len(Stars) = 2
  BY DEF Stars
<1>5. DOMAIN Dirs = 1..3 /\ Dirs[1] = "*" /\ Dirs[2] = "*" /\ Dirs[3] = "/"
  BY DEF Dirs
<1>6. \A q, i : At(q, i, Stars) <=> /\ i + 1 - 1 \in DOMAIN q /\ q[i + 1 - 1] = "*"
                                    /\ i + 2 - 1 \in DOMAIN q /\ q[i + 2 - 1] = "*"
  BY <1>4 DEF At
<1>7. \A q, i : At(q, i, Dirs) <=> /\ i + 1 - 1 \in DOMAIN q /\ q[i + 1 - 1] = "*"
                                   /\ i + 2 - 1 \in DOMAIN q /\ q[i + 2 - 1] = "*"
                                   /\ i + 3 - 1 \in DOMAIN q /\ q[i + 3 - 1] = "/"
  BY <1>5 DEF At
<1>8. \A i \in Int : i + 1 - 1 = i /\ i + 2 - 1 = i + 1 /\ i + 3 - 1 = i + 2
  OBVIOUS
<1>9. \A q : \A i \in Int : At(q, i, Stars) <=> i \in DOMAIN q /\ q[i] = "*" /\ i + 1 \in DOMAIN q /\ q[i + 1] = "*"
  BY <1>6, <1>8
<1>10. \A q : \A i \in Int : At(q, i, Dirs) <=> /\ i \in DOMAIN q /\ q[i] = "*" /\ i + 1 \in DOMAIN q /\ q[i + 1] = "*"
                                            /\ i + 2 \in DOMAIN q /\ q[i + 2] = "/"
  BY <1>7, <1>8
<1>11. ASSUME NEW i \in 1..L, At(p, a + i, Stars) PROVE At(marks, i, Stars)
  <2>1. a + i \in Int /\ i \in Int
    BY <1>3
  <2>2. a + i + 1 \in 1..n /\ p[a + i] = "*" /\ p[a + i + 1] = "*"
    BY <1>1, <1>9, <1>11, <2>1
  <2>3. i # L
    <3> SUFFICES ASSUME i = L PROVE FALSE
      OBVIOUS
    <3>1. p[a + L + 1] = "/"
      BY <1>1, <1>3, <2>2
    <3> QED BY <2>2, <3>1
  <2>4. i + 1 \in 1..L /\ a + i + 1 = a + (i + 1)
    BY <1>3, <2>3
  <2>5. marks[i] = "*" /\ marks[i + 1] = "*"
    BY <1>3, <2>2, <2>4
  <2> QED BY <1>2, <1>9, <2>1, <2>4, <2>5
<1>12. ASSUME marks = Stars
       PROVE  At(p, a + 1, Stars) /\ Len(marks) = 2 /\ (At(p, a + 1, Dirs) <=> a + 2 # Len(p))
  <2>1. L = 2 /\ marks[1] = "*" /\ marks[2] = "*"
    BY <1>2, <1>4, <1>12
  <2>2. p[a + 1] = "*" /\ p[a + 2] = "*" /\ a + 1 \in 1..n /\ a + 2 \in 1..n /\ a + 1 + 1 = a + 2 /\ a + 1 + 2 = a + 3 /\ a + 1 \in Int
    BY <1>1, <1>3, <2>1
  <2>3. At(p, a + 1, Stars)
    BY <1>1, <1>9, <2>2
  <2>4. a + 2 = n \/ p[a + 3] = "/"
    BY <1>3, <2>1, <2>2
  <2>5. At(p, a + 1, Dirs) <=> a + 3 \in 1..n /\ p[a + 3] = "/"
    BY <1>1, <1>10, <2>2
  <2>6. a + 3 \in 1..n <=> a + 2 # n
    BY <1>1, <1>3, <2>2
  <2> QED BY <1>1, <1>2, <2>1, <2>3, <2>4, <2>5, <2>6
<1> QED BY <1>2, <1>11, <1>12

(* The whole text fits the whole pattern as the table says.                   *)
LEMMA PathFits ==
    ASSUME NEW T, NEW text \in Seq(T), NEW p \in Seq(T), NEW f, Fits(f, text, p),
           NEW N, NEW c, Parted(c, N, text, "/"), NEW names, CutPieces(names, c, N, text, T),
           NEW M, NEW d, Parted(d, M, p, "/"), NEW parts, CutPieces(parts, d, M, p, T),
           \A j \in 1..M : parts[j] = Stars \/ \A i \in DOMAIN parts[j] : ~At(parts[j], i, Stars),
           (\A i \in 1 .. Len(p) : p[i] # "!a") \/ N = 1
    PROVE  0 \in f[1] <=> PathMeans(names, parts)
<1>1. /\ N \in Nat \ {0} /\ M \in Nat \ {0}
      /\ names \in Seq(Seq(T)) /\ Len(names) = N /\ parts \in Seq(Seq(T)) /\ Len(parts) = M
      /\ c[1] = 0 /\ d[1] = 0
  BY DEF Parted, CutPieces
<1>2. PICK r : PathRun(r, names, parts) /\ (PathMeans(names, parts) <=> 1 \in r[M])
  BY <1>1, PathIs
<1>3. r[0] = {N + 1} /\ \A n \in 1..M : r[n] = PathStep(names, parts[M - n + 1], n = 1, r[n - 1])
  BY <1>1, <1>2 DEF PathRun
<1>4. PICK Q \in Nat : Q = Len(p) /\ DOMAIN p = 1..Q
  OBVIOUS
<1>5. PICK L \in Nat : L = Len(text) /\ DOMAIN text = 1..L
  OBVIOUS
<1>6. /\ f[Q + 1] = {L}
      /\ \A i \in 1..Q : f[i] = {t \in 0..L : Translate(p, i, text, t) \cap f[MarkEnds(p, i)] # {}}
  BY <1>4, <1>5 DEF Fits
<1>7. /\ \A k \in 1..N : /\ k \in 1 .. N + 1 /\ k + 1 \in 1 .. N + 1
                         /\ c[k] \in 0..L /\ c[k + 1] \in 1 .. L + 1 /\ c[k] < c[k + 1]
      /\ \A k \in 1..N : (k < N <=> c[k + 1] # L + 1) /\ (k < N => text[c[k + 1]] = "/")
      /\ \A x \in 1..L, k \in 1..N : text[x] = "/" /\ c[k] < x => \E l \in k + 1 .. N : c[l] = x
  <2> USE <1>5
  <2> QED BY CutsCover
<1>8. \A k, l \in 1 .. N + 1 : k < l <=> c[k] < c[l]
  BY DEF Parted
<1>9. \A j \in 1..M : /\ d[j] \in 0..Q /\ d[j + 1] \in 1 .. Q + 1 /\ d[j] < d[j + 1]
                      /\ j < M <=> d[j + 1] # Q + 1
                      /\ j < M => p[d[j + 1]] = "/"
  <2> USE <1>4
  <2> QED BY CutsCover
<1>10. \A k \in 1..N : names[k] \in Seq(T) /\ Standing(text, c[k], names[k]) /\ c[k] + Len(names[k]) + 1 = c[k + 1]
  BY PiecesStand
<1>11. \A j \in 1..M : parts[j] \in Seq(T) /\ Standing(p, d[j], parts[j]) /\ d[j] + Len(parts[j]) + 1 = d[j + 1]
  BY PiecesStand
<1>12. ASSUME NEW j \in 1..M, parts[j] # Stars, NEW k \in 1..N
       PROVE  c[k] \in f[d[j] + 1] <=> SegmentMeans(names[k], parts[j]) /\ c[k + 1] - 1 \in f[d[j + 1]]
  <2>1. parts[j] \in Seq(T) /\ Standing(p, d[j], parts[j]) /\ names[k] \in Seq(T) /\ Standing(text, c[k], names[k])
    BY <1>10, <1>11
  <2>2. \A i \in 1 .. Len(parts[j]) : ~At(parts[j], i, Stars)
    <3>1. DOMAIN parts[j] = 1 .. Len(parts[j])
      BY <2>1
    <3> QED BY <1>12, <3>1
  <2>3. \A i \in 1 .. Len(parts[j]) : ~At(p, d[j] + i, Stars)
    BY <2>1, <2>2, StarsStand
  <2>4. PICK h \in Nat : h = Len(names[k])
    BY <2>1
  <2>5. PICK g \in Nat : g = Len(parts[j])
    BY <2>1
  <2>6. c[k] \in 0..L /\ c[k + 1] \in 1 .. L + 1 /\ c[k] + h + 1 = c[k + 1]
    BY <1>7, <1>10, <2>4
  <2>7. d[j] \in 0..Q /\ d[j + 1] \in 1 .. Q + 1 /\ d[j] + g + 1 = d[j + 1]
    BY <1>9, <1>11, <2>5
  <2>8. (\A i \in 1 .. Len(parts[j]) : parts[j][i] # "!a") \/ c[k] + Len(names[k]) = Len(text)
    <3>1. CASE \A i \in 1 .. Len(p) : p[i] # "!a"
      <4>1. \A i \in 1..g : parts[j][i] = p[d[j] + i] /\ d[j] + i \in 1..Q
        <5>1. \A i \in 1..g : p[d[j] + i] = parts[j][i]
          BY <2>1, <2>5 DEF Standing
        <5>2. \A i \in 1..g : d[j] + i \in 1..Q
          BY SMTT(30), <1>4, <2>7
        <5> QED BY <5>1, <5>2
      <4> QED BY <1>4, <2>5, <3>1, <4>1
    <3>2. CASE N = 1
      <4>1. k = N /\ ~(k < N)
        BY <3>2
      <4>2. c[k + 1] = L + 1
        BY <1>7, <4>1
      <4> QED BY SMTT(30), <1>5, <2>4, <2>6, <4>2
    <3> QED BY <3>1, <3>2
  <2>9. c[k] \in f[d[j] + 1] <=> SegmentMeans(names[k], parts[j]) /\ c[k] + Len(names[k]) \in f[d[j] + Len(parts[j]) + 1]
    BY <2>1, <2>3, <2>8, SegmentFits
  <2>10. c[k] + Len(names[k]) = c[k + 1] - 1
    BY SMTT(30), <2>4, <2>6
  <2> QED BY <1>11, <2>9, <2>10
<1>13. ASSUME NEW j \in 1..M, j < M, NEW k \in 1..N
       PROVE  c[k + 1] - 1 \in f[d[j + 1]] <=> k < N /\ c[k + 1] \in f[d[j + 1] + 1]
  <2>1. PICK b \in 1..Q : b = d[j + 1] /\ p[b] = "/"
    BY SMTT(30), <1>4, <1>9, <1>13
  <2>2. ~At(p, b, Stars) /\ ~At(p, b, Dirs)
    <3>1. 1 \in DOMAIN Stars /\ Stars[1] = "*" /\ 1 \in DOMAIN Dirs /\ Dirs[1] = "*" /\ b + 1 - 1 = b
      BY DEF Stars, Dirs
    <3>2. "*" # "/"
      OBVIOUS
    <3> QED BY <2>1, <3>1, <3>2 DEF At
  <2>3. MarkEnds(p, b) = b + 1
    BY <2>2 DEF MarkEnds
  <2>4. PICK e \in 1 .. L + 1 : e = c[k + 1]
    BY <1>7
  <2>5. Translate(p, b, text, e - 1) = {u \in {e - 1 + 1} \cap DOMAIN text : text[u] = "/"}
    <3>1. p[b] # "*" /\ p[b] # "?" /\ p[b] # "!a"
      BY <2>1
    <3> QED BY <2>1, <2>2, <3>1 DEF Translate
  <2>6. e - 1 + 1 = e /\ e - 1 \in 0..L
    OBVIOUS
  <2>7. e - 1 \in f[b] <=> e \in 1..L /\ text[e] = "/" /\ e \in f[b + 1]
    <3>1. e - 1 \in f[b] <=> Translate(p, b, text, e - 1) \cap f[b + 1] # {}
      BY <1>6, <2>3, <2>6
    <3> QED BY <1>5, <2>5, <2>6, <3>1
  <2>8. k < N <=> e \in 1..L /\ text[e] = "/"
    <3>1. (k < N <=> e # L + 1) /\ (k < N => text[e] = "/")
      BY <1>7, <2>4
    <3> QED BY SMTT(30), <1>5, <3>1
  <2> QED BY <2>1, <2>4, <2>7, <2>8
<1>14. \A j \in 1..M, k \in 1..N : j < M /\ parts[j] # Stars =>
           (c[k] \in f[d[j] + 1] <=> SegmentMeans(names[k], parts[j]) /\ k < N /\ c[k + 1] \in f[d[j + 1] + 1])
  BY <1>12, <1>13
<1>15. ASSUME NEW j \in 1..M, parts[j] = Stars, NEW k \in 1..N
       PROVE  c[k] \in f[d[j] + 1] <=> j = M \/ \E l \in k..N : c[l] \in f[d[j + 1] + 1]
  <2>1. PICK a \in 0..Q : a = d[j]
    BY <1>9
  <2>2. parts[j] \in Seq(T) /\ Standing(p, a, parts[j])
    BY <1>11, <2>1
  <2>3. At(p, a + 1, Stars) /\ Len(parts[j]) = 2 /\ (At(p, a + 1, Dirs) <=> a + 2 # Q)
    BY <1>4, <1>15, <2>2, StarsStand
  <2>4. d[j + 1] = a + 3
    <3>1. a + Len(parts[j]) + 1 = d[j + 1]
      BY <1>11, <2>1
    <3> QED BY <2>3, <3>1
  <2>5. a + 1 \in 1..Q /\ (j = M <=> a + 2 = Q)
    <3>1. j = M <=> d[j + 1] = Q + 1
      <4>1. j < M <=> ~(j = M)
        BY <1>1
      <4> QED BY <1>9, <4>1
    <3>2. a + 3 \in 1 .. Q + 1
      BY <1>9, <2>4
    <3> QED BY <1>4, <2>4, <3>1, <3>2
  <2>6. PICK e \in 0..L : e = c[k]
    BY <1>7
  <2>50. PICK x \in 1..Q : x = a + 1
    BY <2>5
  <2>7. e \in f[x] <=> Translate(p, x, text, e) \cap f[MarkEnds(p, x)] # {}
    BY <1>6
  <2>70. At(p, x, Stars) /\ p[x] = "*"
    <3>1. At(p, x, Stars)
      BY <2>3, <2>50
    <3>2. 1 \in DOMAIN Stars /\ Stars[1] = "*" /\ x + 1 - 1 = x
      BY DEF Stars
    <3> QED BY <3>1, <3>2 DEF At
  <2>71. p[x] # "?" /\ p[x] # "!a"
    BY <2>70
  <2>8. CASE j = M
    <3>1. ~At(p, x, Dirs) /\ x + 2 = Q + 1
      BY <2>3, <2>5, <2>50, <2>8
    <3>2. Translate(p, x, text, e) = e .. L /\ MarkEnds(p, x) = Q + 1
      <4>1. Translate(p, x, text, e) = e .. Len(text)
        BY <2>70, <2>71, <3>1 DEF Translate
      <4>2. MarkEnds(p, x) = x + 2
        BY <2>70, <3>1 DEF MarkEnds
      <4> QED BY <1>5, <3>1, <4>1, <4>2
    <3>3. L \in e .. L
      BY <1>5
    <3> QED BY <1>6, <2>1, <2>50, <2>6, <2>7, <2>8, <3>2, <3>3
  <2>9. CASE j # M
    <3>1. At(p, x, Dirs) /\ x + 3 = d[j + 1] + 1
      BY <2>3, <2>4, <2>5, <2>50, <2>9
    <3>2. Translate(p, x, text, e) = {e} \cup {u \in e + 1 .. L : text[u] = "/"} /\ MarkEnds(p, x) = d[j + 1] + 1
      <4>1. Translate(p, x, text, e) = {e} \cup {u \in e + 1 .. Len(text) : text[u] = "/"}
        BY <2>70, <2>71, <3>1 DEF Translate
      <4>2. MarkEnds(p, x) = x + 3
        BY <3>1 DEF MarkEnds
      <4> QED BY <1>5, <3>1, <4>1, <4>2
    <3>3. ASSUME NEW l \in k..N PROVE c[l] \in Translate(p, x, text, e)
      <4>1. CASE l = k
        BY <2>6, <3>2, <4>1
      <4>2. CASE l # k
        <5>1. l \in 1..N /\ l \in 1 .. N + 1 /\ k \in 1 .. N + 1 /\ k < l
          BY <1>1, <4>2
        <5>2. l - 1 \in 1..N /\ l - 1 < N /\ l - 1 + 1 = l
          BY <1>1, <5>1
        <5>3. text[c[l]] = "/"
          BY <1>7, <5>2
        <5>4. c[l] \in 0..L /\ e < c[l]
          BY <1>7, <1>8, <2>6, <5>1
        <5>5. c[l] \in e + 1 .. L
          BY <1>5, <5>4
        <5> QED BY <3>2, <5>3, <5>5
      <4> QED BY <4>1, <4>2
    <3>4. ASSUME NEW u \in Translate(p, x, text, e) PROVE \E l \in k..N : c[l] = u
      <4>1. CASE u = e
        <5>1. k \in k..N
          BY <1>1
        <5> QED BY <2>6, <4>1, <5>1
      <4>2. CASE u # e
        <5>1. u \in 1..L /\ text[u] = "/" /\ c[k] < u
          BY <1>5, <2>6, <3>2, <4>2
        <5>2. PICK l \in k + 1 .. N : c[l] = u
          BY <1>7, <5>1
        <5>3. l \in k..N
          BY <1>1
        <5> QED BY <5>2, <5>3
      <4> QED BY <4>1, <4>2
    <3>5. Translate(p, x, text, e) \cap f[d[j + 1] + 1] # {} <=> \E l \in k..N : c[l] \in f[d[j + 1] + 1]
      BY <3>3, <3>4
    <3> QED BY <2>1, <2>50, <2>6, <2>7, <2>9, <3>2, <3>5
  <2> QED BY <2>8, <2>9
<1> DEFINE Right(n) == r[n] \subseteq 1..N /\ \A k \in 1..N : c[k] \in f[d[M - n + 1] + 1] <=> k \in r[n]
           S == { n \in 0..M : n = 0 \/ Right(n) }
<1>16. ASSUME NEW n \in 1..M, n - 1 \in S PROVE n \in S
  <2>1. PICK j \in 1..M : j = M - n + 1
    BY <1>1
  <2>2. r[n] = {k \in 1..N : IF parts[j] = Stars THEN n = 1 \/ \E l \in k..N : l \in r[n - 1]
                             ELSE SegmentMeans(names[k], parts[j]) /\ k + 1 \in r[n - 1]}
    BY <1>1, <1>3, <2>1 DEF PathStep
  <2>3. r[n] \subseteq 1..N
    BY <2>2
  <2>4. ASSUME NEW k \in 1..N PROVE c[k] \in f[d[j] + 1] <=> k \in r[n]
    <3>1. CASE n = 1
      <4>1. j = M /\ d[j + 1] = Q + 1
        <5>1. j = M /\ ~(j < M)
          BY <1>1, <2>1, <3>1
        <5> QED BY <1>9, <5>1
      <4>2. CASE parts[j] = Stars
        BY <1>15, <2>2, <3>1, <4>1, <4>2
      <4>3. CASE parts[j] # Stars
        <5>1. c[k] \in f[d[j] + 1] <=> SegmentMeans(names[k], parts[j]) /\ c[k + 1] - 1 \in f[Q + 1]
          BY <1>12, <4>1, <4>3
        <5>2. c[k + 1] - 1 \in f[Q + 1] <=> c[k + 1] = L + 1
          <6>1. c[k + 1] \in 1 .. L + 1
            BY <1>7
          <6> QED BY <1>5, <1>6, <6>1
        <5>3. k + 1 \in r[n - 1] <=> ~(k < N)
          <6>1. n - 1 = 0
            BY <3>1
          <6> QED BY <1>1, <1>3, <6>1
        <5>4. ~(k < N) <=> c[k + 1] = L + 1
          BY <1>7
        <5> QED BY <2>2, <4>3, <5>1, <5>2, <5>3, <5>4
      <4> QED BY <4>2, <4>3
    <3>2. CASE n # 1
      <4>1. n - 1 \in 1..M /\ n - 1 # 0 /\ M - (n - 1) + 1 = j + 1 /\ j < M /\ j # M
        BY <1>1, <2>1, <3>2
      <4>2. Right(n - 1)
        BY <1>16, <4>1
      <4>3. r[n - 1] \subseteq 1..N /\ \A l \in 1..N : c[l] \in f[d[j + 1] + 1] <=> l \in r[n - 1]
        BY <4>1, <4>2
      <4>4. CASE parts[j] = Stars
        <5>1. c[k] \in f[d[j] + 1] <=> \E l \in k..N : c[l] \in f[d[j + 1] + 1]
          BY <1>15, <4>1, <4>4
        <5>2. \A l \in k..N : l \in 1..N
          BY <1>1
        <5> QED BY <2>2, <3>2, <4>3, <4>4, <5>1, <5>2
      <4>5. CASE parts[j] # Stars
        <5>1. c[k] \in f[d[j] + 1] <=> SegmentMeans(names[k], parts[j]) /\ k < N /\ c[k + 1] \in f[d[j + 1] + 1]
          BY <1>14, <4>1, <4>5
        <5>2. k < N <=> k + 1 \in 1..N
          BY <1>1
        <5>3. k < N /\ c[k + 1] \in f[d[j + 1] + 1] <=> k + 1 \in r[n - 1]
          BY <4>3, <5>2
        <5> QED BY <2>2, <4>5, <5>1, <5>3
      <4> QED BY <4>4, <4>5
    <3> QED BY <3>1, <3>2
  <2>5. Right(n)
    BY <2>1, <2>3, <2>4
  <2>6. n \in 0..M
    BY <1>1
  <2> HIDE DEF Right
  <2> QED BY <2>5, <2>6
<1>17. 0 \in S
  BY <1>1
<1>18. \A n \in S : n = 0 \/ Right(n)
  OBVIOUS
<1> HIDE DEF S, Right
<1>19. \A n \in 0..M : n \in S
  <2>1. M \in Nat
    BY <1>1
  <2> QED BY <1>16, <1>17, <2>1, CountsUp
<1>20. Right(M)
  <2>1. M \in 0..M /\ M # 0
    BY <1>1
  <2> QED BY <1>18, <1>19, <2>1
<1>21. c[1] \in f[d[1] + 1] <=> 1 \in r[M]
  <2>1. 1 \in 1..N /\ M - M + 1 = 1
    BY <1>1
  <2> QED BY <1>20, <2>1 DEF Right
<1>22. d[1] + 1 = 1
  BY <1>1
<1> QED BY <1>1, <1>2, <1>21, <1>22

(* The provers have no rule for which texts are strings.                      *)
Characters == STRING \cup {"/", "a", "b"}

LEMMA NormalizedIs ==
    ASSUME NEW text \in Seq(STRING)
    PROVE  /\ Normalized(text) \in Seq(Characters) /\ Len(Normalized(text)) = Len(text)
           /\ \A i \in DOMAIN text : text[i] # "!a" => Normalized(text)[i] # "!a"
           /\ \A i \in DOMAIN text : text[i] \notin {"/", "\\"} => Normalized(text)[i] # "/"
<1>1. PICK n \in Nat : n = Len(text) /\ DOMAIN text = 1..n
  OBVIOUS
<1>2. /\ DOMAIN FoldedChar = {"\\", "A", "B"}
      /\ FoldedChar["\\"] = "/" /\ FoldedChar["A"] = "a" /\ FoldedChar["B"] = "b"
  BY DEF FoldedChar
<1> DEFINE q == [i \in 1..n |-> IF text[i] \in DOMAIN FoldedChar THEN FoldedChar[text[i]] ELSE text[i]]
<1>3. Normalized(text) = q
  BY <1>1 DEF Normalized
<1>4. ASSUME NEW i \in 1..n
      PROVE  /\ q[i] \in Characters
             /\ text[i] # "!a" => q[i] # "!a"
             /\ text[i] \notin {"/", "\\"} => q[i] # "/"
  <2>1. text[i] \in Characters /\ q[i] = IF text[i] \in DOMAIN FoldedChar THEN FoldedChar[text[i]] ELSE text[i]
    BY <1>1 DEF Characters
  <2> HIDE DEF q
  <2>2. CASE text[i] = "\\"
    <3>1. q[i] = "/"
      BY <1>2, <2>1, <2>2
    <3>2. "/" \in Characters
      BY DEF Characters
    <3>3. "/" # "!a"
      OBVIOUS
    <3>4. text[i] \notin {"/", "\\"} => "/" # "/"
      BY <2>2
    <3> QED BY <3>1, <3>2, <3>3, <3>4
  <2>3. CASE text[i] = "A"
    <3>1. q[i] = "a"
      BY <1>2, <2>1, <2>3
    <3>2. "a" \in Characters
      BY DEF Characters
    <3>3. "a" # "!a"
      OBVIOUS
    <3>4. text[i] \notin {"/", "\\"} => "a" # "/"
      BY <2>3
    <3> QED BY <3>1, <3>2, <3>3, <3>4
  <2>4. CASE text[i] = "B"
    <3>1. q[i] = "b"
      BY <1>2, <2>1, <2>4
    <3>2. "b" \in Characters
      BY DEF Characters
    <3>3. "b" # "!a"
      OBVIOUS
    <3>4. text[i] \notin {"/", "\\"} => "b" # "/"
      BY <2>4
    <3> QED BY <3>1, <3>2, <3>3, <3>4
  <2>5. CASE text[i] \notin {"\\", "A", "B"}
    <3>1. q[i] = text[i]
      BY <1>2, <2>1, <2>5
    <3> QED BY <2>1, <3>1
  <2> QED BY <2>2, <2>3, <2>4, <2>5
<1>5. \A i \in 1..n : q[i] \in Characters
  <2> HIDE DEF q
  <2> QED BY <1>4
<1>6. DOMAIN q = 1..n
  OBVIOUS
<1>60. q = [i \in 1..n |-> q[i]]
  OBVIOUS
<1> HIDE DEF q
<1>7. q \in [1..n -> Characters]
  BY <1>5, <1>60
<1>8. q \in Seq(Characters) /\ Len(q) = n
  BY <1>7
<1> QED BY <1>1, <1>3, <1>4, <1>8

(* A text without marks is its only piece.                                    *)
LEMMA OnePiece ==
    ASSUME NEW T, NEW text \in Seq(T), NEW mark, \A x \in 1 .. Len(text) : text[x] # mark
    PROVE  Pieces(text, mark) = <<text>> /\ \A K, c : Parted(c, K, text, mark) => K = 1
<1>1. ASSUME NEW K, NEW c, Parted(c, K, text, mark) PROVE K = 1
  <2>1. K \in Nat \ {0} /\ \A i \in 2..K : c[i] \in 1 .. Len(text) /\ text[c[i]] = mark
    BY <1>1 DEF Parted
  <2>2. K # 1 => 2 \in 2..K
    BY <2>1
  <2> QED BY <2>1, <2>2
<1>2. PICK K, c : Parted(c, K, text, mark) /\ CutPieces(Pieces(text, mark), c, K, text, T)
  BY PiecesAre
<1> DEFINE P == Pieces(text, mark)
<1> HIDE DEF P
<1>3. K = 1 /\ c[1] = 0 /\ c[2] = Len(text) + 1
  <2>1. K = 1
    BY <1>1, <1>2
  <2>2. K + 1 = 2
    BY <2>1
  <2> QED BY <1>2, <2>1, <2>2 DEF Parted
<1>4. P \in Seq(Seq(T)) /\ Len(P) = 1 /\ P[1] \in Seq(T) /\ Len(P[1]) = Len(text)
      /\ \A x \in 1 .. Len(P[1]) : P[1][x] = text[c[1] + x]
  <2>1. 1 \in 1..K /\ 1 + 1 = 2
    BY <1>3
  <2>2. P \in Seq(Seq(T)) /\ Len(P) = K /\ P \in [1..K -> Seq(T)]
    BY <1>2 DEF CutPieces, P
  <2>3. Len(P[1]) = c[1 + 1] - c[1] - 1 /\ \A x \in 1 .. Len(P[1]) : P[1][x] = text[c[1] + x]
    BY <1>2, <2>1 DEF CutPieces, P
  <2>4. Len(P[1]) = Len(text)
    BY <1>3, <2>3
  <2> QED BY <1>3, <2>1, <2>2, <2>3, <2>4
<1>5. \A x \in 1 .. Len(text) : P[1][x] = text[x]
  BY <1>3, <1>4
<1>6. P[1] = text
  BY <1>4, <1>5
<1>7. P = <<text>>
  BY <1>4, <1>6
<1> QED BY <1>1, <1>7 DEF P

(* What matching does is what the table says.                                 *)
LEMMA GlobIs ==
    ASSUME NEW value \in Seq(STRING), NEW pattern, WellMarked(pattern),
           \/ \A i \in DOMAIN pattern : pattern[i] # "!a"
           \/ \A i \in DOMAIN value : value[i] \notin {"/", "\\"}
    PROVE  GlobMatch(value, pattern) <=> GlobMeans(value, pattern)
<1>1. PICK text : text = Normalized(value)
  OBVIOUS
<1>2. PICK p : p = Normalized(pattern)
  OBVIOUS
<1>3. PICK names : names = Pieces(text, "/")
  OBVIOUS
<1>4. PICK parts : parts = Pieces(p, "/")
  OBVIOUS
<1>5. pattern \in Seq(STRING) /\ \A n \in DOMAIN parts : parts[n] = Stars \/ \A i \in DOMAIN parts[n] : ~At(parts[n], i, Stars)
  BY <1>2, <1>4 DEF WellMarked
<1>6. text \in Seq(Characters) /\ p \in Seq(Characters)
  BY <1>1, <1>2, <1>5, NormalizedIs
<1>7. (\A i \in 1 .. Len(p) : p[i] # "!a") \/ (\A i \in 1 .. Len(text) : text[i] # "/")
  <2>1. CASE \A i \in DOMAIN pattern : pattern[i] # "!a"
    <3>1. Len(p) = Len(pattern) /\ \A i \in DOMAIN pattern : pattern[i] # "!a" => p[i] # "!a"
      BY <1>2, <1>5, NormalizedIs
    <3>2. DOMAIN pattern = 1 .. Len(pattern)
      BY <1>5
    <3> QED BY <2>1, <3>1, <3>2
  <2>2. CASE \A i \in DOMAIN value : value[i] \notin {"/", "\\"}
    <3>1. Len(text) = Len(value) /\ \A i \in DOMAIN value : value[i] \notin {"/", "\\"} => text[i] # "/"
      BY <1>1, NormalizedIs
    <3>2. DOMAIN value = 1 .. Len(value)
      OBVIOUS
    <3> QED BY <2>2, <3>1, <3>2
  <2> QED BY <2>1, <2>2
<1>8. PICK N, c : Parted(c, N, text, "/") /\ CutPieces(names, c, N, text, Characters)
  BY <1>3, <1>6, PiecesAre
<1>9. PICK M, d : Parted(d, M, p, "/") /\ CutPieces(parts, d, M, p, Characters)
  BY <1>4, <1>6, PiecesAre
<1>10. /\ N \in Nat \ {0} /\ names \in Seq(Seq(Characters)) /\ Len(names) = N
       /\ M \in Nat \ {0} /\ parts \in Seq(Seq(Characters)) /\ Len(parts) = M
       /\ names \in [1..N -> Seq(Characters)] /\ parts \in [1..M -> Seq(Characters)]
  BY <1>8, <1>9 DEF Parted, CutPieces
<1>11. \A j \in 1..M : parts[j] = Stars \/ \A i \in DOMAIN parts[j] : ~At(parts[j], i, Stars)
  BY <1>5, <1>10
<1>12. Whole(text, p) <=> PathMeans(names, parts)
  <2>1. PICK f : Fits(f, text, p) /\ (Whole(text, p) <=> 0 \in f[1])
    BY <1>6, WholeIs
  <2>2. (\A i \in 1 .. Len(p) : p[i] # "!a") \/ N = 1
    BY <1>6, <1>7, <1>8, OnePiece
  <2>3. 0 \in f[1] <=> PathMeans(names, parts)
    BY <1>6, <1>8, <1>9, <1>11, <2>1, <2>2, PathFits
  <2> QED BY <2>1, <2>3
<1>13. PICK last \in Seq(Characters) : last = Last(names) /\ last = names[N]
  BY <1>10 DEF Last
<1>14. \A x \in 1 .. Len(last) : last[x] # "/"
  <2>1. Standing(text, c[N], last)
    <3>1. N \in 1..N
      BY <1>10
    <3> QED BY <1>6, <1>8, <1>13, <3>1, PiecesStand
  <2> QED BY <2>1 DEF Standing
<1>15. Whole(last, p) <=> PathMeans(<<last>>, parts)
  <2>1. PICK f : Fits(f, last, p) /\ (Whole(last, p) <=> 0 \in f[1])
    BY <1>6, <1>13, WholeIs
  <2>2. PICK K, e : Parted(e, K, last, "/") /\ CutPieces(Pieces(last, "/"), e, K, last, Characters)
    BY <1>13, PiecesAre
  <2>3. Pieces(last, "/") = <<last>> /\ K = 1
    BY <1>13, <1>14, <2>2, OnePiece
  <2>4. CutPieces(<<last>>, e, K, last, Characters)
    BY <2>2, <2>3
  <2>5. 0 \in f[1] <=> PathMeans(<<last>>, parts)
    BY <1>6, <1>9, <1>11, <1>13, <2>1, <2>2, <2>3, <2>4, PathFits
  <2> QED BY <2>1, <2>5
<1>16. M = 1 <=> "/" \notin Range(p)
  <2>1. CASE M = 1
    <3>1. 2..M = {}
      BY <2>1
    <3>2. \A x \in 1 .. Len(p) : p[x] # "/"
      BY <1>9, <3>1 DEF Parted
    <3>3. DOMAIN p = 1 .. Len(p)
      BY <1>6
    <3> QED BY <2>1, <3>2, <3>3 DEF Range
  <2>2. CASE M # 1
    <3>1. 2 \in 2..M
      BY <1>10, <2>2
    <3>2. d[2] \in 1 .. Len(p) /\ p[d[2]] = "/"
      BY <1>9, <3>1 DEF Parted
    <3>3. DOMAIN p = 1 .. Len(p)
      BY <1>6
    <3> QED BY <2>2, <3>2, <3>3 DEF Range
  <2> QED BY <2>1, <2>2
<1>17. ASSUME M = 1, PathMeans(names, parts) PROVE PathMeans(<<last>>, parts)
  <2>1. PICK r : PathRun(r, names, parts) /\ 1 \in r[M]
    BY <1>10, <1>17, PathIs
  <2>2. 1 \in 1..M /\ M - 1 + 1 = 1 /\ 1 - 1 = 0
    BY <1>17
  <2>3. r[0] = {N + 1} /\ r[1] = PathStep(names, parts[M - 1 + 1], 1 = 1, r[1 - 1])
    BY <1>10, <2>1, <2>2 DEF PathRun
  <2>4. 1 \in PathStep(names, parts[1], 1 = 1, {N + 1})
    BY <1>17, <2>1, <2>2, <2>3
  <2>5. CASE parts[1] = Stars
    <3>1. <<last>> \in Seq(Seq(Characters)) /\ Len(<<last>>) = 1
      BY <1>13
    <3>2. PICK s : PathRun(s, <<last>>, parts) /\ (PathMeans(<<last>>, parts) <=> 1 \in s[M])
      BY <1>10, <3>1, PathIs
    <3>3. s[1] = PathStep(<<last>>, parts[M - 1 + 1], 1 = 1, s[1 - 1])
      BY <1>10, <2>2, <3>2 DEF PathRun
    <3>4. 1 \in s[1]
      BY <2>2, <2>5, <3>1, <3>3 DEF PathStep
    <3> QED BY <1>17, <3>2, <3>4
  <2>6. CASE parts[1] # Stars
    <3>1. 1 + 1 \in {N + 1}
      BY <2>4, <2>6 DEF PathStep
    <3>2. N = 1
      BY <1>10, <3>1
    <3>3. names = <<last>>
      BY <1>10, <1>13, <3>2
    <3> QED BY <1>17, <3>3
  <2> QED BY <2>5, <2>6
<1>18. GlobMatch(value, pattern) <=> Whole(text, p) \/ ("/" \notin Range(p) /\ Whole(last, p))
  BY <1>1, <1>2, <1>3, <1>13 DEF GlobMatch
<1>19. GlobMeans(value, pattern) <=> PathMeans(IF M = 1 THEN <<last>> ELSE names, parts)
  BY <1>1, <1>2, <1>3, <1>4, <1>10, <1>13 DEF GlobMeans
<1> QED BY <1>12, <1>15, <1>16, <1>17, <1>18, <1>19

LEMMA SameSequence ==
    ASSUME NEW T, NEW s \in Seq(T), NEW r \in Seq(T), Len(s) = Len(r), \A x \in 1 .. Len(s) : s[x] = r[x]
    PROVE  s = r
OBVIOUS

LEMMA CutOnce ==
    ASSUME NEW T, NEW text \in Seq(T), NEW mark, NEW K, NEW c, Parted(c, K, text, mark),
           NEW L, NEW d, Parted(d, L, text, mark)
    PROVE  K = L /\ c = d
<1>1. PICK n \in Nat : n = Len(text)
  OBVIOUS
<1> DEFINE S == {0, n + 1} \cup {x \in 1..n : text[x] = mark}
<1>2. S \in SUBSET Int
  OBVIOUS
<1>3. ASSUME NEW J, NEW e, Parted(e, J, text, mark) PROVE Rises(e, S) /\ Len(e) = J + 1 /\ J \in Nat
  <2>1. /\ J \in Nat \ {0} /\ e \in [1 .. J + 1 -> 0 .. n + 1]
        /\ e[1] = 0 /\ e[J + 1] = n + 1
        /\ \A i, j \in 1 .. J + 1 : i < j <=> e[i] < e[j]
        /\ \A i \in 2..J : e[i] \in 1..n /\ text[e[i]] = mark
        /\ \A x \in 1..n : text[x] = mark => \E i \in 2..J : e[i] = x
    BY <1>1, <1>3 DEF Parted
  <2>2. PICK N \in Nat : N = J + 1 /\ N - 1 = J
    BY <2>1
  <2>3. \A i \in 1..N : e[i] \in S
    <3>1. \A i \in 1..N : i = 1 \/ i = N \/ i \in 2..J
      BY <2>1, <2>2
    <3> QED BY <2>1, <2>2, <3>1
  <2>4. \A x \in S : \E i \in 1..N : e[i] = x
    <3> TAKE x \in S
    <3>1. CASE x = 0
      <4>1. 1 \in 1..N
        BY <2>1, <2>2
      <4> QED BY <2>1, <3>1, <4>1
    <3>2. CASE x = n + 1
      <4>1. N \in 1..N
        BY <2>1, <2>2
      <4> QED BY <2>1, <2>2, <3>2, <4>1
    <3>3. CASE x # 0 /\ x # n + 1
      <4>1. PICK i \in 2..J : e[i] = x
        BY <2>1, <3>3
      <4>2. i \in 1..N
        BY <2>1, <2>2
      <4> QED BY <4>1, <4>2
    <3> QED BY <3>1, <3>2, <3>3
  <2>5. e \in [1..N -> S]
    BY <2>1, <2>2, <2>3
  <2>6. e \in Seq(S) /\ Len(e) = N /\ DOMAIN e = 1..N
    BY <2>5
  <2> HIDE DEF S
  <2> QED BY <2>1, <2>2, <2>3, <2>4, <2>6 DEF Rises
<1> HIDE DEF S
<1>4. Rises(c, S) /\ Len(c) = K + 1 /\ K \in Nat
  BY <1>3
<1>5. Rises(d, S) /\ Len(d) = L + 1 /\ L \in Nat
  BY <1>3
<1>6. Len(c) = Len(d)
  BY <1>2, <1>4, <1>5, RisesCounts
<1>7. c = d
  BY <1>2, <1>4, <1>5, <1>6, RisesOnce
<1> QED BY <1>4, <1>5, <1>6, <1>7

(* What is left of a text after its first places.                             *)
After(text, t) == SubSeq(text, t + 1, Len(text))

LEMMA AfterIs ==
    ASSUME NEW T, NEW text \in Seq(T), NEW t \in 0 .. Len(text)
    PROVE  /\ After(text, t) \in Seq(T) /\ Len(After(text, t)) = Len(text) - t
           /\ \A x \in 1 .. Len(text) - t : After(text, t)[x] = text[t + x]
<1>1. PICK n \in Nat : n = Len(text) /\ DOMAIN text = 1..n
  OBVIOUS
<1> DEFINE s == After(text, t)
<1>2. s = [x \in 1 .. n - (t + 1) + 1 |-> text[t + 1 + x - 1]]
  BY <1>1 DEF SubSeq, After
<1>3. n - (t + 1) + 1 = n - t /\ n - t \in Nat
  BY <1>1
<1>4. \A x \in 1 .. n - t : t + 1 + x - 1 = t + x /\ t + x \in 1..n
  BY <1>1
<1>5. s = [x \in 1 .. n - t |-> text[t + x]]
  BY <1>2, <1>3, <1>4
<1>6. \A x \in 1 .. n - t : text[t + x] \in T
  BY <1>1, <1>4
<1>7. s \in [1 .. n - t -> T]
  BY <1>5, <1>6
<1>8. s \in Seq(T) /\ Len(s) = n - t
  BY <1>3, <1>7
<1> QED BY <1>1, <1>5, <1>8 DEF s

LEMMA AfterIsThat ==
    ASSUME NEW T, NEW text \in Seq(T), NEW t \in 0 .. Len(text), NEW s \in Seq(T),
           Len(s) = Len(text) - t, \A x \in 1 .. Len(s) : s[x] = text[t + x]
    PROVE  s = After(text, t)
<1>1. After(text, t) \in Seq(T) /\ Len(After(text, t)) = Len(text) - t
      /\ \A x \in 1 .. Len(text) - t : After(text, t)[x] = text[t + x]
  BY AfterIs
<1> DEFINE r == After(text, t)
<1> HIDE DEF r
<1>2. r \in Seq(T) /\ Len(s) = Len(r) /\ \A x \in 1 .. Len(s) : s[x] = r[x]
  BY <1>1 DEF r
<1>3. s = r
  BY <1>2, SameSequence
<1> QED BY <1>3 DEF r

(* Pieces after a cut are the pieces of what is left there.                   *)
LEMMA PiecesAfter ==
    ASSUME NEW T, NEW text \in Seq(T), NEW mark, NEW K, NEW c, Parted(c, K, text, mark),
           CutPieces(Pieces(text, mark), c, K, text, T), NEW j \in 1..K
    PROVE  Pieces(After(text, c[j]), mark) = After(Pieces(text, mark), j - 1)
<1>1. PICK n \in Nat : n = Len(text)
  OBVIOUS
<1>2. PICK P : P = Pieces(text, mark) /\ CutPieces(P, c, K, text, T)
  OBVIOUS
<1>3. /\ K \in Nat \ {0} /\ c \in [1 .. K + 1 -> 0 .. n + 1]
      /\ c[1] = 0 /\ c[K + 1] = n + 1
      /\ \A i, k \in 1 .. K + 1 : i < k <=> c[i] < c[k]
      /\ \A i \in 2..K : c[i] \in 1..n /\ text[c[i]] = mark
      /\ \A x \in 1..n : text[x] = mark => \E i \in 2..K : c[i] = x
  BY <1>1 DEF Parted
<1>4. c[j] \in 0..n
  <2>1. c[j] \in 0 .. Len(text)
    BY CutsCover
  <2> QED BY <1>1, <2>1
<1>5. PICK t \in 0..n : t = c[j]
  BY <1>4
<1>6. PICK s : s = After(text, t)
  OBVIOUS
<1>7. s \in Seq(T) /\ Len(s) = n - t /\ \A x \in 1 .. n - t : s[x] = text[t + x]
  BY <1>1, <1>6, AfterIs
<1>8. PICK J \in Nat \ {0} : J = K - j + 1
  BY <1>3
<1> DEFINE e == [i \in 1 .. J + 1 |-> c[j + i - 1] - t]
<1>9. \A i \in 1 .. J + 1 : j + i - 1 \in 1 .. K + 1 /\ j <= j + i - 1
  BY <1>3, <1>8
<1>10. ASSUME NEW i \in 1 .. J + 1 PROVE e[i] = c[j + i - 1] - t /\ c[j + i - 1] \in t .. n + 1 /\ e[i] \in 0 .. n - t + 1
  <2>1. PICK k \in 1 .. K + 1 : k = j + i - 1 /\ j <= k
    BY <1>9
  <2>2. c[k] \in 0 .. n + 1 /\ j \in 1 .. K + 1
    BY <1>3
  <2>3. ~(c[k] < c[j])
    BY <1>3, <2>1, <2>2
  <2>4. c[k] \in t .. n + 1
    BY <1>5, <2>2, <2>3
  <2> QED BY <2>1, <2>4
<1> HIDE DEF e
<1>11. e \in [1 .. J + 1 -> 0 .. Len(s) + 1]
  <2>1. e = [i \in 1 .. J + 1 |-> e[i]]
    BY DEF e
  <2> QED BY <1>7, <1>10, <2>1
<1>12. e[1] = 0 /\ e[J + 1] = Len(s) + 1
  <2>1. 1 \in 1 .. J + 1 /\ j + 1 - 1 = j /\ J + 1 \in 1 .. J + 1 /\ j + (J + 1) - 1 = K + 1
    BY <1>3, <1>8
  <2>2. e[1] = c[j] - t
    BY <1>10, <2>1
  <2>3. e[J + 1] = n + 1 - t
    <3>1. e[J + 1] = c[j + (J + 1) - 1] - t
      BY <1>10, <2>1
    <3> QED BY SMTT(30), <1>3, <2>1, <3>1
  <2> QED BY <1>5, <1>7, <2>2, <2>3
<1>13. \A i, k \in 1 .. J + 1 : i < k <=> e[i] < e[k]
  <2> TAKE i \in 1 .. J + 1, k \in 1 .. J + 1
  <2>1. PICK u \in 1 .. K + 1 : u = j + i - 1
    BY <1>9
  <2>2. PICK v \in 1 .. K + 1 : v = j + k - 1
    BY <1>9
  <2>3. i < k <=> u < v
    BY <2>1, <2>2
  <2>4. u < v <=> c[u] < c[v]
    BY <1>3
  <2>5. e[i] = c[u] - t /\ e[k] = c[v] - t /\ c[u] \in Int /\ c[v] \in Int
    <3>1. e[i] = c[j + i - 1] - t /\ e[k] = c[j + k - 1] - t
      BY <1>10
    <3>2. c[u] \in Int /\ c[v] \in Int
      BY <1>3
    <3> QED BY <2>1, <2>2, <3>1, <3>2
  <2>6. c[u] < c[v] <=> e[i] < e[k]
    BY <2>5
  <2> QED BY <2>3, <2>4, <2>6
<1>14. ASSUME NEW i \in 2..J PROVE e[i] \in 1 .. Len(s) /\ s[e[i]] = mark
  <2>1. PICK k \in 2..K : k = j + i - 1
    BY <1>3, <1>8
  <2>2. c[k] \in 1..n /\ text[c[k]] = mark
    BY <1>3
  <2>3. e[i] = c[k] - t /\ i \in 1 .. J + 1
    BY <1>10, <2>1
  <2>4. e[1] < e[i]
    <3>1. 1 \in 1 .. J + 1 /\ 1 < i
      OBVIOUS
    <3> QED BY <1>13, <2>3, <3>1
  <2>5. PICK w \in 1..n : w = c[k] /\ e[i] = w - t /\ 0 < e[i] /\ text[w] = mark
    BY <1>12, <2>2, <2>3, <2>4
  <2>6. w - t \in 1 .. n - t /\ t + (w - t) = w
    BY <1>1, <2>5
  <2>7. s[w - t] = text[t + (w - t)]
    BY <1>7, <2>6
  <2> QED BY <1>7, <2>5, <2>6, <2>7
<1>15. ASSUME NEW x \in 1 .. Len(s), s[x] = mark PROVE \E i \in 2..J : e[i] = x
  <2>1. t + x \in 1..n /\ text[t + x] = mark
    BY <1>1, <1>7, <1>15
  <2>2. PICK k \in 2..K : c[k] = t + x
    BY <1>3, <2>1
  <2>3. j < k
    <3>1. c[j] < c[k] /\ j \in 1 .. K + 1 /\ k \in 1 .. K + 1
      BY SMTT(30), <1>3, <1>5, <1>7, <2>2
    <3> QED BY <1>3, <3>1
  <2>4. k - j + 1 \in 2..J /\ j + (k - j + 1) - 1 = k /\ k - j + 1 \in 1 .. J + 1
    BY <1>3, <1>8, <2>3
  <2>5. e[k - j + 1] = c[k] - t
    BY <1>10, <2>4
  <2>6. e[k - j + 1] = x
    BY <1>7, <2>2, <2>5
  <2> QED BY <2>4, <2>6
<1>16. Parted(e, J, s, mark)
  BY <1>11, <1>12, <1>13, <1>14, <1>15 DEF Parted
<1>17. PICK L, d : Parted(d, L, s, mark) /\ CutPieces(Pieces(s, mark), d, L, s, T)
  BY <1>7, PiecesAre
<1>18. L = J /\ d = e
  BY <1>7, <1>16, <1>17, CutOnce
<1>19. PICK R : R = Pieces(s, mark) /\ CutPieces(R, e, J, s, T)
  BY <1>17, <1>18
<1>20. /\ P \in Seq(Seq(T)) /\ Len(P) = K /\ P \in [1..K -> Seq(T)]
       /\ \A i \in 1..K : /\ Len(P[i]) = c[i + 1] - c[i] - 1
                          /\ \A x \in 1 .. Len(P[i]) : P[i][x] = text[c[i] + x]
  BY <1>2 DEF CutPieces
<1>21. /\ R \in Seq(Seq(T)) /\ Len(R) = J /\ R \in [1..J -> Seq(T)]
       /\ \A i \in 1..J : /\ Len(R[i]) = e[i + 1] - e[i] - 1
                          /\ \A x \in 1 .. Len(R[i]) : R[i][x] = s[e[i] + x]
  BY <1>19 DEF CutPieces
<1>22. ASSUME NEW i \in 1..J PROVE R[i] = P[j - 1 + i]
  <2>1. PICK k \in 1..K : k = j - 1 + i /\ k = j + i - 1 /\ k + 1 = j + (i + 1) - 1 /\ i \in 1 .. J + 1 /\ i + 1 \in 1 .. J + 1
    BY <1>3, <1>8
  <2>2. PICK u \in t .. n + 1 : u = c[k] /\ e[i] = u - t
    BY <1>10, <2>1
  <2>3. PICK v \in t .. n + 1 : v = c[k + 1] /\ e[i + 1] = v - t
    BY <1>10, <2>1
  <2>4. P[k] \in Seq(T) /\ R[i] \in Seq(T)
    BY <1>20, <1>21
  <2>5. PICK l \in Nat : l = Len(P[k])
    BY <2>4
  <2>6. l = v - u - 1
    BY <1>20, <2>2, <2>3, <2>5
  <2>7. Len(R[i]) = l
    <3>1. Len(R[i]) = (v - t) - (u - t) - 1
      BY <1>21, <2>2, <2>3
    <3> QED BY <1>1, <2>6, <3>1
  <2>8. ASSUME NEW x \in 1..l PROVE R[i][x] = P[k][x]
    <3>1. R[i][x] = s[u - t + x]
      <4>1. x \in 1 .. Len(R[i])
        BY <2>7
      <4>2. R[i][x] = s[e[i] + x]
        BY <1>21, <4>1
      <4> QED BY <2>2, <4>2
    <3>2. P[k][x] = text[u + x]
      BY SMTT(30), <1>20, <2>2, <2>5
    <3>3. u - t + x \in 1 .. n - t /\ t + (u - t + x) = u + x
      BY <1>1, <2>6
    <3>4. s[u - t + x] = text[t + (u - t + x)]
      BY <1>7, <3>3
    <3> QED BY <3>1, <3>2, <3>3, <3>4
  <2>9. R[i] = P[k]
    <3>1. Len(R[i]) = Len(P[k]) /\ \A x \in 1 .. Len(R[i]) : R[i][x] = P[k][x]
      BY <2>5, <2>7, <2>8
    <3> QED BY <2>4, <3>1, SameSequence
  <2> QED BY <2>1, <2>9
<1>23. R = After(P, j - 1)
  <2>1. j - 1 \in 0 .. Len(P) /\ Len(R) = Len(P) - (j - 1)
    BY <1>3, <1>8, <1>20, <1>21
  <2>2. \A i \in 1 .. Len(R) : R[i] = P[j - 1 + i]
    BY <1>21, <1>22
  <2> QED BY ZenonT(30), <1>20, <1>21, <2>1, <2>2, AfterIsThat
<1> QED BY <1>2, <1>5, <1>6, <1>19, <1>23

(* Texts with the same pieces are the same.                                   *)
LEMMA PiecesTell ==
    ASSUME NEW T, NEW text \in Seq(T), NEW other \in Seq(T), NEW mark, Pieces(text, mark) = Pieces(other, mark)
    PROVE  text = other
<1>1. PICK K, c : Parted(c, K, text, mark) /\ CutPieces(Pieces(text, mark), c, K, text, T)
  BY PiecesAre
<1>2. PICK L, d : Parted(d, L, other, mark) /\ CutPieces(Pieces(other, mark), d, L, other, T)
  BY PiecesAre
<1>3. PICK P : P = Pieces(text, mark) /\ P = Pieces(other, mark)
  OBVIOUS
<1>4. PICK n \in Nat : n = Len(text)
  OBVIOUS
<1>5. PICK m \in Nat : m = Len(other)
  OBVIOUS
<1>6. /\ K \in Nat \ {0} /\ c \in [1 .. K + 1 -> 0 .. n + 1]
      /\ c[1] = 0 /\ c[K + 1] = n + 1
      /\ \A i \in 2..K : text[c[i]] = mark
      /\ \A x \in 1..n : text[x] = mark => \E i \in 2..K : c[i] = x
  BY <1>1, <1>4 DEF Parted
<1>7. /\ L \in Nat \ {0} /\ d \in [1 .. L + 1 -> 0 .. m + 1]
      /\ d[1] = 0 /\ d[L + 1] = m + 1
      /\ \A i \in 2..L : other[d[i]] = mark
      /\ \A x \in 1..m : other[x] = mark => \E i \in 2..L : d[i] = x
  BY <1>2, <1>5 DEF Parted
<1>8. /\ Len(P) = K
      /\ \A i \in 1..K : P[i] \in Seq(T) /\ Len(P[i]) = c[i + 1] - c[i] - 1
      /\ \A i \in 1..K : \A x \in 1 .. Len(P[i]) : P[i][x] = text[c[i] + x]
  <2>1. CutPieces(P, c, K, text, T)
    BY <1>1, <1>3
  <2> QED BY <2>1 DEF CutPieces
<1>9. /\ Len(P) = L
      /\ \A i \in 1..L : Len(P[i]) = d[i + 1] - d[i] - 1
      /\ \A i \in 1..L : \A x \in 1 .. Len(P[i]) : P[i][x] = other[d[i] + x]
  <2>1. CutPieces(P, d, L, other, T)
    BY <1>2, <1>3
  <2> QED BY <2>1 DEF CutPieces
<1>10. L = K
  BY <1>8, <1>9
<1> DEFINE S == { i \in 0..K : c[i + 1] = d[i + 1] }
<1>11. 0 \in S
  BY <1>6, <1>7
<1>12. ASSUME NEW i \in 1..K, i - 1 \in S PROVE i \in S
  <2>1. c[i] = d[i] /\ i \in 0..K
    <3>1. i - 1 + 1 = i
      OBVIOUS
    <3> QED BY <1>12, <3>1, <1>6
  <2>2. c[i] \in Int /\ c[i + 1] \in Int /\ d[i] \in Int /\ d[i + 1] \in Int
    <3>1. i \in 1 .. K + 1 /\ i + 1 \in 1 .. K + 1
      BY <1>6
    <3> QED BY <1>6, <1>7, <1>10, <3>1
  <2>3. c[i + 1] - c[i] - 1 = d[i + 1] - d[i] - 1
    BY <1>8, <1>9, <1>10
  <2>4. c[i + 1] = d[i + 1]
    BY <2>1, <2>2, <2>3
  <2> QED BY <2>1, <2>4
<1>13. \A i \in S : c[i + 1] = d[i + 1]
  OBVIOUS
<1> HIDE DEF S
<1>14. \A i \in 0..K : i \in S
  <2>1. K \in Nat
    BY <1>6
  <2> QED BY <1>11, <1>12, <2>1, CountsUp
<1>15. \A i \in 1 .. K + 1 : c[i] = d[i]
  <2> TAKE i \in 1 .. K + 1
  <2>1. i - 1 \in 0..K /\ i - 1 + 1 = i
    BY <1>6
  <2> QED BY <1>13, <1>14, <2>1
<1>16. n = m
  <2>1. K + 1 \in 1 .. K + 1
    BY <1>6
  <2>2. n + 1 = m + 1
    BY <1>6, <1>7, <1>10, <1>15, <2>1
  <2> QED BY <1>4, <1>5, <2>2
<1>17. ASSUME NEW x \in 1..n PROVE text[x] = other[x]
  <2> DEFINE U == { i \in 0..K : i # 0 /\ c[i] < x }
  <2>1. 1 \in U
    BY <1>6
  <2>2. PICK i \in U : \A k \in U : k <= i
    BY <1>6, <2>1, LargestExists
  <2>3. i \in 1..K /\ c[i] < x
    BY <1>6, <2>2
  <2>4. i + 1 \in U => FALSE
    BY <1>6, <2>2, <2>3
  <2>5. i \in 1 .. K + 1 /\ i + 1 \in 1 .. K + 1
    BY <1>6, <2>3
  <2>6. x <= c[i + 1]
    <3>1. CASE i = K
      BY <1>4, <1>6, <3>1
    <3>2. CASE i # K
      <4>1. i + 1 \in 0..K /\ i + 1 # 0
        BY <1>6, <2>3, <3>2
      <4>2. ~(c[i + 1] < x)
        BY <2>4, <4>1
      <4>3. c[i + 1] \in Int
        BY <1>6, <2>5
      <4> QED BY <4>2, <4>3
    <3> QED BY <3>1, <3>2
  <2> HIDE DEF U
  <2>7. PICK u \in 0 .. n + 1 : u = c[i] /\ u = d[i]
    BY <1>6, <1>15, <2>5
  <2>8. PICK v \in 0 .. n + 1 : v = c[i + 1] /\ v = d[i + 1]
    BY <1>6, <1>15, <2>5
  <2>9. u < x /\ x <= v
    BY <2>3, <2>6, <2>7, <2>8
  <2>10. CASE x = v
    <3>1. i # K
      <4>1. c[K + 1] = n + 1 /\ c[i + 1] = v /\ v # n + 1
        BY <1>4, <1>6, <2>8, <2>10
      <4> QED BY <4>1
    <3>2. i + 1 \in 2..K
      BY <1>6, <2>3, <3>1
    <3>3. text[v] = mark /\ other[v] = mark
      <4>1. text[c[i + 1]] = mark /\ other[d[i + 1]] = mark
        BY <1>6, <1>7, <1>10, <3>2
      <4> QED BY <2>8, <4>1
    <3> QED BY <2>10, <3>3
  <2>11. CASE x # v
    <3>1. Len(P[i]) = v - u - 1
      BY <1>8, <2>3, <2>7, <2>8
    <3>2. x - u \in 1 .. v - u - 1 /\ u + (x - u) = x
      BY <1>4, <2>9, <2>11
    <3>3. x - u \in 1 .. Len(P[i])
      BY <3>1, <3>2
    <3>4. P[i][x - u] = text[u + (x - u)]
      BY <1>8, <2>3, <2>7, <3>3
    <3>5. P[i][x - u] = other[u + (x - u)]
      BY <1>9, <1>10, <2>3, <2>7, <3>3
    <3> QED BY <3>2, <3>4, <3>5
  <2> QED BY <2>10, <2>11
<1>18. Len(text) = Len(other) /\ \A x \in 1 .. Len(text) : text[x] = other[x]
  BY <1>4, <1>5, <1>16, <1>17
<1> QED BY <1>18, SameSequence

LEMMA TailIs ==
    ASSUME NEW T, NEW s \in Seq(T), s # <<>>
    PROVE  /\ Tail(s) = After(s, 1) /\ Tail(s) \in Seq(T) /\ Len(Tail(s)) = Len(s) - 1 /\ Len(s) \in Nat \ {0}
           /\ \A x \in 1 .. Len(s) - 1 : Tail(s)[x] = s[1 + x]
<1>1. PICK n \in Nat : n = Len(s) /\ n # 0
  OBVIOUS
<1>2. 1 \in 0 .. Len(s)
  BY <1>1
<1>3. After(s, 1) \in Seq(T) /\ Len(After(s, 1)) = n - 1 /\ \A x \in 1 .. n - 1 : After(s, 1)[x] = s[1 + x]
  BY <1>1, <1>2, AfterIs
<1>4. Tail(s) = After(s, 1)
  BY DEF After, Tail
<1> QED BY <1>1, <1>3, <1>4

LEMMA EndsIs ==
    ASSUME NEW T, NEW s \in Seq(T), NEW end \in Seq(T)
    PROVE  EndsIn(s, end) <=> Len(end) <= Len(s) /\ After(s, Len(s) - Len(end)) = end
BY DEF EndsIn, After

LEMMA BareIs ==
    ASSUME NEW host \in Seq(STRING)
    PROVE  Bare(host) \in Seq(Characters)
<1>1. PICK n \in Nat : n = Len(host)
  OBVIOUS
<1>2. PICK q \in Seq(Characters) : q = Normalized(host) /\ Len(q) = n
  BY <1>1, NormalizedIs
<1> DEFINE kept == {k \in 0 .. n : \A i \in k + 1 .. n : host[i] = "."}
           k == CHOOSE k \in kept : \A m \in kept : k <= m
<1>3. Bare(host) = SubSeq(q, 1, k)
  BY <1>1, <1>2 DEF Bare
<1>4. n \in kept
  OBVIOUS
<1>5. kept \in SUBSET Nat /\ \A x \in kept : x \in 0..n
  OBVIOUS
<1> HIDE DEF kept
<1>6. \E x \in kept : \A m \in kept : x <= m
  BY <1>4, <1>5, LeastExists
<1>7. k \in kept
  BY <1>6
<1> HIDE DEF k
<1>8. k \in 0..n
  BY <1>5, <1>7
<1>9. SubSeq(q, 1, k) = [x \in 1 .. k - 1 + 1 |-> q[1 + x - 1]]
  BY <1>2, <1>8 DEF SubSeq
<1>10. k - 1 + 1 = k /\ \A x \in 1..k : 1 + x - 1 = x /\ x \in 1..n
  BY <1>8
<1>11. SubSeq(q, 1, k) = [x \in 1..k |-> q[x]]
  BY <1>9, <1>10
<1>12. \A x \in 1..k : q[x] \in Characters
  BY <1>2, <1>10
<1> QED BY <1>3, <1>8, <1>11, <1>12

LEMMA HostIs ==
    ASSUME NEW text \in Seq(STRING)
    PROVE  HostOf(text) \in Seq(STRING)
<1>1. PICK n \in Nat : n = Len(text) /\ DOMAIN text = 1..n
  OBVIOUS
<1> DEFINE marks == {i \in DOMAIN text : At(text, i, <<":", "/", "/">>)}
           i == CHOOSE i \in marks : \A j \in marks : i <= j
<1>2. HostOf(text) = IF marks = {} THEN <<>> ELSE Head(Pieces(SubSeq(text, 3 + i, Len(text)), "/"))
  BY DEF HostOf
<1>3. marks \in SUBSET Nat /\ \A x \in marks : x \in 1..n /\ At(text, x, <<":", "/", "/">>)
  BY <1>1
<1> HIDE DEF marks
<1>4. CASE marks = {}
  BY <1>2, <1>4
<1>5. CASE marks # {}
  <2>1. \E x \in marks : \A j \in marks : x <= j
    BY <1>3, <1>5, LeastExists
  <2>2. i \in marks
    BY <2>1
  <2> HIDE DEF i
  <2>3. i \in 1..n /\ At(text, i, <<":", "/", "/">>)
    BY <1>3, <2>2
  <2>4. i + 3 - 1 \in 1..n
    BY <1>1, <2>3 DEF At
  <2>5. i + 2 \in 0 .. Len(text) /\ i + 2 + 1 = 3 + i
    BY <1>1, <2>3, <2>4
  <2>6. SubSeq(text, 3 + i, Len(text)) = After(text, i + 2)
    BY <2>5 DEF After
  <2>7. PICK s \in Seq(STRING) : s = After(text, i + 2)
    BY <2>5, AfterIs
  <2>8. PICK K, c : Parted(c, K, s, "/") /\ CutPieces(Pieces(s, "/"), c, K, s, STRING)
    BY <2>7, PiecesAre
  <2>9. Pieces(s, "/") \in Seq(Seq(STRING)) /\ Len(Pieces(s, "/")) # 0
    BY <2>8 DEF Parted, CutPieces
  <2>10. Head(Pieces(s, "/")) \in Seq(STRING)
    BY <2>9
  <2> QED BY <1>2, <1>5, <2>6, <2>7, <2>10
<1> QED BY <1>4, <1>5

Below(host, named) ==
    IF Len(named) > 1 /\ Head(named) = <<"*">>
    THEN Len(host) >= Len(named) /\ EndsIn(host, Tail(named))
    ELSE host = named

LEMMA StarBegins ==
    ASSUME NEW p \in Seq(Characters), NEW M, NEW d, Parted(d, M, p, "."), NEW B, CutPieces(B, d, M, p, Characters)
    PROVE  /\ At(p, 1, <<"*", ".">>) <=> M > 1 /\ Head(B) = <<"*">>
           /\ At(p, 1, <<"*", ".">>) => d[2] = 2 /\ Len(p) >= 2 /\ p[2] = "."
<1>1. PICK m \in Nat : m = Len(p) /\ DOMAIN p = 1..m
  OBVIOUS
<1>2. /\ M \in Nat \ {0} /\ d \in [1 .. M + 1 -> 0 .. m + 1]
      /\ d[1] = 0 /\ d[M + 1] = m + 1
      /\ \A i, j \in 1 .. M + 1 : i < j <=> d[i] < d[j]
      /\ \A i \in 2..M : d[i] \in 1..m /\ p[d[i]] = "."
      /\ \A x \in 1..m : p[x] = "." => \E i \in 2..M : d[i] = x
  BY <1>1 DEF Parted
<1>3. /\ B \in Seq(Seq(Characters)) /\ Len(B) = M
      /\ \A i \in 1..M : Len(B[i]) = d[i + 1] - d[i] - 1
      /\ \A i \in 1..M : \A x \in 1 .. Len(B[i]) : B[i][x] = p[d[i] + x]
  BY DEF CutPieces
<1>4. PICK b \in Seq(Characters) : b = B[1] /\ b = Head(B)
  <2>1. 1 \in 1..M
    BY <1>2
  <2> QED BY <1>2, <1>3, <2>1
<1>5. Len(b) = d[2] - 1 /\ \A x \in 1 .. Len(b) : b[x] = p[x]
  <2>1. 1 \in 1..M /\ 1 + 1 = 2
    BY <1>2
  <2>2. Len(b) = d[2] - d[1] - 1 /\ \A x \in 1 .. Len(b) : b[x] = p[d[1] + x]
    BY <1>3, <1>4, <2>1
  <2>3. 2 \in 1 .. M + 1
    BY <1>2
  <2>4. d[2] \in Int
    BY <1>2, <2>3
  <2> QED BY <1>2, <2>2, <2>4
<1>6. At(p, 1, <<"*", ".">>) <=> 1 \in 1..m /\ p[1] = "*" /\ 2 \in 1..m /\ p[2] = "."
  <2>1. PICK q : q = <<"*", ".">>
    OBVIOUS
  <2>2. DOMAIN q = 1..2 /\ q[1] = "*" /\ q[2] = "."
    BY <2>1
  <2>3. At(p, 1, q) <=> 1 + 1 - 1 \in 1..m /\ p[1 + 1 - 1] = "*" /\ 1 + 2 - 1 \in 1..m /\ p[1 + 2 - 1] = "."
    BY <1>1, <2>2 DEF At
  <2>4. 1 + 1 - 1 = 1 /\ 1 + 2 - 1 = 2
    OBVIOUS
  <2> QED BY <2>1, <2>3, <2>4
<1>7. ASSUME 1 \in 1..m, p[1] = "*", 2 \in 1..m, p[2] = "."
      PROVE  M > 1 /\ b = <<"*">> /\ d[2] = 2
  <2>1. PICK i \in 2..M : d[i] = 2
    BY <1>2, <1>7
  <2>2. 2 \in 2..M /\ 2 \in 1 .. M + 1 /\ i \in 1 .. M + 1 /\ ~(i < 2)
    BY <1>2, <2>1
  <2>3. d[2] \in 1..m /\ p[d[2]] = "."
    BY <1>2, <2>2
  <2>4. ~(d[i] < d[2])
    BY <1>2, <2>2
  <2>5. d[2] # 1
    BY <1>7, <2>3
  <2>6. d[2] = 2
    BY <2>1, <2>3, <2>4, <2>5
  <2>7. Len(b) = 1 /\ b[1] = "*"
    BY <1>5, <1>7, <2>6
  <2>8. b = <<"*">>
    BY <2>7
  <2> QED BY <1>2, <2>2, <2>6, <2>8
<1>8. ASSUME M > 1, b = <<"*">> PROVE 1 \in 1..m /\ p[1] = "*" /\ 2 \in 1..m /\ p[2] = "."
  <2>1. 2 \in 2..M
    BY <1>2, <1>8
  <2>2. d[2] \in 1..m /\ p[d[2]] = "."
    BY <1>2, <2>1
  <2>3. Len(b) = 1 /\ b[1] = "*"
    BY <1>8
  <2>4. d[2] = 2 /\ p[1] = "*"
    BY SMTT(30), <1>5, <2>2, <2>3
  <2> QED BY <1>1, <2>2, <2>4
<1>9. At(p, 1, <<"*", ".">>) <=> M > 1 /\ b = <<"*">>
  BY <1>6, <1>7, <1>8
<1>10. At(p, 1, <<"*", ".">>) => d[2] = 2 /\ Len(p) >= 2 /\ p[2] = "."
  BY <1>1, <1>6, <1>7
<1> QED BY <1>4, <1>9, <1>10

(* To end in a dot and a domain is to end in its labels.                      *)
LEMMA EndsInLabels ==
    ASSUME NEW T, NEW h \in Seq(T), NEW p \in Seq(T), NEW N, NEW c, NEW M, NEW d,
           Parted(c, N, h, "."), CutPieces(Pieces(h, "."), c, N, h, T),
           Parted(d, M, p, "."), CutPieces(Pieces(p, "."), d, M, p, T),
           M > 1, d[2] = 2, Len(p) >= 2, p[2] = "."
    PROVE  EndsIn(h, Tail(p)) /\ h # Tail(Tail(p)) <=> N >= M /\ EndsIn(Pieces(h, "."), Tail(Pieces(p, ".")))
<1>1. PICK n \in Nat : n = Len(h)
  OBVIOUS
<1>2. PICK m \in Nat : m = Len(p) /\ m >= 2
  OBVIOUS
<1>3. PICK A : A = Pieces(h, ".")
  OBVIOUS
<1>4. PICK B : B = Pieces(p, ".")
  OBVIOUS
<1>5. N \in Nat \ {0} /\ A \in Seq(Seq(T)) /\ Len(A) = N
  BY <1>3 DEF Parted, CutPieces
<1>6. M \in Nat \ {0} /\ B \in Seq(Seq(T)) /\ Len(B) = M
  BY <1>4 DEF Parted, CutPieces
<1>7. PICK q : q = Tail(p)
  OBVIOUS
<1>8. q \in Seq(T) /\ Len(q) = m - 1 /\ \A x \in 1 .. m - 1 : q[x] = p[1 + x]
  <2>1. p # <<>>
    BY <1>2
  <2> QED BY <1>2, <1>7, <2>1, TailIs
<1>9. PICK rest : rest = Tail(q)
  OBVIOUS
<1>10. rest \in Seq(T) /\ Len(rest) = m - 2 /\ \A x \in 1 .. m - 2 : rest[x] = q[1 + x]
  <2>1. q # <<>>
    BY <1>2, <1>8
  <2>2. m - 1 - 1 = m - 2
    BY <1>2
  <2> QED BY <1>8, <1>9, <2>1, <2>2, TailIs
<1>11. q[1] = "." /\ \A x \in 1 .. m - 2 : rest[x] = p[2 + x]
  <2>1. 1 \in 1 .. m - 1 /\ 1 + 1 = 2
    BY <1>2
  <2>2. \A x \in 1 .. m - 2 : 1 + x \in 1 .. m - 1 /\ 1 + (1 + x) = 2 + x
    BY <1>2
  <2> QED BY <1>8, <1>10, <2>1, <2>2
<1>12. rest = After(p, 2)
  <2>1. 2 \in 0 .. Len(p) /\ Len(rest) = Len(p) - 2
    BY <1>2, <1>10
  <2>2. \A x \in 1 .. Len(rest) : rest[x] = p[2 + x]
    BY <1>10, <1>11
  <2> QED BY <1>10, <2>1, <2>2, AfterIsThat
<1>13. PICK named : named = Tail(B)
  OBVIOUS
<1>14. named = After(B, 1) /\ named \in Seq(Seq(T)) /\ Len(named) = M - 1
  <2>1. B # <<>>
    BY <1>6
  <2> QED BY <1>6, <1>13, <2>1, TailIs
<1>15. Pieces(rest, ".") = named
  <2>1. 2 \in 1..M /\ 2 - 1 = 1
    BY <1>6
  <2>2. Pieces(After(p, d[2]), ".") = After(Pieces(p, "."), 2 - 1)
    BY <2>1, PiecesAfter
  <2> QED BY <1>4, <1>12, <1>14, <2>1, <2>2
<1>16. \A j \in 1..N : Pieces(After(h, c[j]), ".") = After(A, j - 1)
  BY <1>3, PiecesAfter
<1>17. /\ \A i \in 2..N : c[i] \in 1..n /\ h[c[i]] = "."
       /\ \A x \in 1..n : h[x] = "." => \E i \in 2..N : c[i] = x
  BY <1>1 DEF Parted
<1>18. EndsIn(h, q) <=> m - 1 <= n /\ After(h, n - (m - 1)) = q
  BY <1>1, <1>8, EndsIs
<1>19. EndsIn(A, named) <=> M - 1 <= N /\ After(A, N - (M - 1)) = named
  BY ZenonT(30), <1>5, <1>14, EndsIs
<1>20. ASSUME EndsIn(h, q) PROVE N >= M /\ EndsIn(A, named)
  <2>1. PICK t \in 1..n : t = n - (m - 1) + 1 /\ n - (m - 1) = t - 1 /\ m - 1 <= n
    <3>1. m - 1 <= n
      BY <1>18, <1>20
    <3>2. n - (m - 1) + 1 \in 1..n /\ n - (m - 1) = n - (m - 1) + 1 - 1
      BY <1>2, <3>1
    <3> QED BY <3>1, <3>2
  <2>2. After(h, t - 1) = q
    BY <1>18, <1>20, <2>1
  <2>3. t - 1 \in 0 .. Len(h) /\ Len(h) - (t - 1) = m - 1
    BY <1>1, <1>2, <2>1
  <2>4. \A x \in 1 .. m - 1 : q[x] = h[t - 1 + x]
    BY ZenonT(30), <2>2, <2>3, AfterIs
  <2>5. h[t] = "."
    <3>1. 1 \in 1 .. m - 1 /\ t - 1 + 1 = t
      BY <1>2
    <3>2. q[1] = h[t - 1 + 1]
      BY <2>4, <3>1
    <3> QED BY <1>11, <3>1, <3>2
  <2>6. PICK j \in 2..N : c[j] = t
    BY <1>17, <2>5
  <2>7. rest = After(h, t)
    <3>1. t \in 0 .. Len(h) /\ Len(rest) = Len(h) - t
      BY <1>1, <1>2, <1>10, <2>1
    <3>2. ASSUME NEW x \in 1 .. Len(rest) PROVE rest[x] = h[t + x]
      <4>1. x \in 1 .. m - 2 /\ 1 + x \in 1 .. m - 1 /\ t - 1 + (1 + x) = t + x
        BY <1>2, <1>10, <3>2
      <4>2. rest[x] = q[1 + x]
        BY <1>10, <4>1
      <4>3. q[1 + x] = h[t - 1 + (1 + x)]
        BY <2>4, <4>1
      <4> QED BY <4>1, <4>2, <4>3
    <3> QED BY <1>10, <3>1, <3>2, AfterIsThat
  <2>8. named = After(A, j - 1) /\ j - 1 \in 0 .. Len(A)
    <3>1. j \in 1..N
      BY <1>5
    <3>2. Pieces(After(h, c[j]), ".") = After(A, j - 1)
      BY <1>16, <3>1
    <3> QED BY <1>5, <1>15, <2>6, <2>7, <3>2
  <2>9. M - 1 = N - (j - 1)
    <3>1. Len(After(A, j - 1)) = Len(A) - (j - 1)
      BY ZenonT(30), <1>5, <2>8, AfterIs
    <3> QED BY <1>5, <1>14, <2>8, <3>1
  <2>10. M - 1 <= N /\ N - (M - 1) = j - 1 /\ N >= M
    BY <1>5, <1>6, <2>9
  <2> QED BY <1>19, <2>8, <2>10
<1>21. ASSUME N >= M, EndsIn(A, named) PROVE EndsIn(h, q) /\ h # rest
  <2>1. PICK j \in 2..N : j = N - (M - 1) + 1 /\ N - (M - 1) = j - 1
    BY <1>5, <1>6, <1>21
  <2>2. After(A, j - 1) = named
    BY <1>19, <1>21, <2>1
  <2>3. PICK t \in 1..n : t = c[j] /\ h[t] = "."
    BY <1>17
  <2>4. t \in 0 .. Len(h)
    BY <1>1
  <2>5. PICK s \in Seq(T) : s = After(h, t) /\ Len(s) = n - t /\ \A x \in 1 .. n - t : s[x] = h[t + x]
    <3>1. After(h, t) \in Seq(T) /\ Len(After(h, t)) = Len(h) - t /\ \A x \in 1 .. Len(h) - t : After(h, t)[x] = h[t + x]
      BY <2>4, AfterIs
    <3> QED BY <1>1, <3>1
  <2>6. Pieces(s, ".") = Pieces(rest, ".")
    <3>1. j \in 1..N
      BY <1>5
    <3>2. Pieces(After(h, c[j]), ".") = After(A, j - 1)
      BY <1>16, <3>1
    <3> QED BY <1>15, <2>2, <2>3, <2>5, <3>2
  <2>7. s = rest
    BY <1>10, <2>5, <2>6, PiecesTell
  <2>8. n - t = m - 2
    BY <1>10, <2>5, <2>7
  <2>9. m - 1 <= n /\ n - (m - 1) = t - 1 /\ t - 1 \in 0 .. Len(h) /\ Len(q) = Len(h) - (t - 1)
    BY <1>1, <1>2, <1>8, <2>8
  <2>10. ASSUME NEW x \in 1 .. Len(q) PROVE q[x] = h[t - 1 + x]
    <3>1. x \in 1 .. m - 1
      BY <1>2, <1>8, <2>10
    <3>2. CASE x = 1
      BY <1>11, <2>3, <3>2
    <3>3. CASE x # 1
      <4>1. x - 1 \in 1 .. m - 2 /\ 1 + (x - 1) = x /\ t + (x - 1) = t - 1 + x
        BY <1>2, <3>1, <3>3
      <4>2. rest[x - 1] = q[1 + (x - 1)]
        BY <1>10, <4>1
      <4>3. s[x - 1] = h[t + (x - 1)]
        BY <2>5, <2>8, <4>1
      <4> QED BY <2>7, <4>1, <4>2, <4>3
    <3> QED BY <3>2, <3>3
  <2>11. q = After(h, t - 1)
    BY <1>8, <2>9, <2>10, AfterIsThat
  <2>12. EndsIn(h, q)
    BY <1>18, <2>9, <2>11
  <2>13. h # rest
    <3>1. Len(rest) = n - t
      BY <2>5, <2>7
    <3>2. n # n - t
      OBVIOUS
    <3> QED BY <1>1, <3>1, <3>2
  <2> QED BY <2>12, <2>13
<1>22. EndsIn(h, q) /\ h # rest <=> N >= M /\ EndsIn(A, named)
  BY <1>20, <1>21
<1> QED BY <1>3, <1>4, <1>7, <1>9, <1>13, <1>22

LEMMA DomainIs ==
    ASSUME NEW host \in Seq(STRING), NEW pattern \in Seq(STRING)
    PROVE  DomainMatch(host, pattern) <=> Below(Labels(host), Labels(pattern))
<1>1. PICK h \in Seq(Characters) : h = Bare(host)
  BY BareIs
<1>2. PICK p \in Seq(Characters) : p = Bare(pattern)
  BY BareIs
<1>3. PICK N, c : Parted(c, N, h, ".") /\ CutPieces(Pieces(h, "."), c, N, h, Characters)
  BY PiecesAre
<1>4. PICK M, d : Parted(d, M, p, ".") /\ CutPieces(Pieces(p, "."), d, M, p, Characters)
  BY PiecesAre
<1>5. DomainMatch(host, pattern) <=>
        IF At(p, 1, <<"*", ".">>) THEN EndsIn(h, Tail(p)) /\ h # Tail(Tail(p)) ELSE h = p
  BY <1>1, <1>2 DEF DomainMatch
<1>6. Labels(host) = Pieces(h, ".") /\ Labels(pattern) = Pieces(p, ".")
  BY <1>1, <1>2 DEF Labels
<1>7. Len(Pieces(h, ".")) = N /\ Len(Pieces(p, ".")) = M
  BY <1>3, <1>4 DEF CutPieces
<1>8. At(p, 1, <<"*", ".">>) <=> M > 1 /\ Head(Pieces(p, ".")) = <<"*">>
  BY <1>4, StarBegins
<1>9. CASE At(p, 1, <<"*", ".">>)
  <2>1. d[2] = 2 /\ Len(p) >= 2 /\ p[2] = "." /\ M > 1
    BY <1>4, <1>8, <1>9, StarBegins
  <2>2. EndsIn(h, Tail(p)) /\ h # Tail(Tail(p)) <=> N >= M /\ EndsIn(Pieces(h, "."), Tail(Pieces(p, ".")))
    BY <1>3, <1>4, <2>1, EndsInLabels
  <2> QED BY <1>5, <1>6, <1>7, <1>8, <1>9, <2>2 DEF Below
<1>10. CASE ~At(p, 1, <<"*", ".">>)
  <2>1. h = p <=> Pieces(h, ".") = Pieces(p, ".")
    BY PiecesTell
  <2> QED BY <1>5, <1>6, <1>7, <1>8, <1>10, <2>1 DEF Below
<1> QED BY <1>9, <1>10

LEMMA KeyIs ==
    ASSUME NEW keys \in Seq(STRING) \ {<<>>}, Head(keys) # "item"
    PROVE  NearestKey(keys) \in PathKeys <=>
             \E n \in DOMAIN keys : keys[n] \in PathKeys /\ \A m \in n + 1 .. Len(keys) : keys[m] = "item"
<1>1. PICK L \in Nat \ {0} : L = Len(keys) /\ DOMAIN keys = 1..L
  OBVIOUS
<1> DEFINE NearestAt(n) == keys[n] # "item" /\ \A m \in n + 1 .. Len(keys) : keys[m] = "item"
           k == CHOOSE n \in DOMAIN keys : NearestAt(n)
           S == { n \in 0..L : n # 0 /\ keys[n] # "item" }
<1>2. 1 \in S
  BY <1>1
<1>3. PICK n \in S : \A m \in S : m <= n
  BY <1>2, LargestExists
<1>4. n \in DOMAIN keys /\ NearestAt(n)
  <2>1. n \in 1..L /\ keys[n] # "item"
    BY <1>1, <1>3
  <2>2. ASSUME NEW m \in n + 1 .. L PROVE keys[m] = "item"
    <3>1. m \in 0..L /\ m # 0 /\ ~(m <= n)
      BY <2>1
    <3> QED BY <1>3, <3>1
  <2> QED BY <1>1, <2>1, <2>2
<1>5. k \in DOMAIN keys /\ NearestAt(k)
  BY <1>4
<1>6. NearestKey(keys) = keys[k]
  BY DEF NearestKey
<1>7. "item" \notin PathKeys
  BY DEF PathKeys
<1> HIDE DEF k
<1>8. ASSUME NEW i \in DOMAIN keys, keys[i] \in PathKeys, \A m \in i + 1 .. Len(keys) : keys[m] = "item"
      PROVE  i = k
  <2>1. k \in 1..L /\ i \in 1..L
    BY <1>1, <1>5
  <2>2. ~(k < i)
    <3>1. k < i => i \in k + 1 .. Len(keys)
      BY <1>1, <2>1
    <3> QED BY <1>5, <1>7, <1>8, <3>1
  <2>3. ~(i < k)
    <3>1. i < k => k \in i + 1 .. Len(keys)
      BY <1>1, <2>1
    <3> QED BY <1>5, <1>8, <3>1
  <2> QED BY <2>1, <2>2, <2>3
<1> QED BY <1>5, <1>6, <1>8

RuleMeans(doc, request) ==
    /\ doc.tool # Unnamed => GlobMeans(request.tool, doc.tool)
    /\ doc.workflow # Unnamed => request.workflow # Unnamed /\ GlobMeans(request.workflow, doc.workflow)
    /\ \A key \in DOMAIN doc.args :
          \E leaf \in request.parameters, p \in doc.args[key] :
              leaf.keys = <<key>> /\ GlobMeans(leaf.text, Substitute(p))

LEMMA CoversIs ==
    ASSUME NEW doc \in PolicyRules, NEW request \in PolicyRequests
    PROVE  Covers(ParseMatch(doc), request) <=> RuleMeans(doc, request)
<1>1. PICK rule : rule = ParseMatch(doc)
  OBVIOUS
<1>2. /\ rule.tool = doc.tool /\ rule.workflow = doc.workflow /\ DOMAIN rule.args = DOMAIN doc.args
      /\ \A key \in DOMAIN doc.args : rule.args[key] = {Substitute(p) : p \in doc.args[key]}
  BY <1>1 DEF ParseMatch
<1>3. /\ doc.tool # Unnamed => WellMarked(doc.tool)
      /\ doc.workflow # Unnamed => WellMarked(doc.workflow)
  BY MatchingAssumption
<1>4. \A key \in DOMAIN doc.args : \A p \in doc.args[key] : IsPathPattern(Substitute(p))
  BY MatchingAssumption
<1>5. /\ request.tool \in Seq(STRING) /\ \A i \in DOMAIN request.tool : request.tool[i] \notin {"/", "\\"}
      /\ request.workflow \in Seq(STRING)
      /\ \A i \in DOMAIN request.workflow : request.workflow[i] \notin {"/", "\\"}
  BY MatchingAssumption DEF IsName
<1>6. \A leaf \in request.parameters : leaf.text \in Seq(STRING)
  BY MatchingAssumption
<1>7. doc.tool # Unnamed => (GlobMatch(request.tool, rule.tool) <=> GlobMeans(request.tool, doc.tool))
  <2> SUFFICES ASSUME doc.tool # Unnamed PROVE GlobMatch(request.tool, doc.tool) <=> GlobMeans(request.tool, doc.tool)
    BY <1>2
  <2>1. WellMarked(doc.tool)
    BY <1>3
  <2> QED BY <1>5, <2>1, GlobIs
<1>7a. doc.workflow # Unnamed =>
         (GlobMatch(request.workflow, rule.workflow) <=> GlobMeans(request.workflow, doc.workflow))
  <2> SUFFICES ASSUME doc.workflow # Unnamed
               PROVE  GlobMatch(request.workflow, doc.workflow) <=> GlobMeans(request.workflow, doc.workflow)
    BY <1>2
  <2>1. WellMarked(doc.workflow)
    BY <1>3
  <2> QED BY <1>5, <2>1, GlobIs
<1>8. ASSUME NEW key \in DOMAIN doc.args, NEW leaf \in request.parameters
      PROVE  AnyMatch(leaf.text, rule.args[key]) <=> \E p \in doc.args[key] : GlobMeans(leaf.text, Substitute(p))
  <2>1. AnyMatch(leaf.text, rule.args[key]) <=> \E p \in doc.args[key] : GlobMatch(leaf.text, Substitute(p))
    BY <1>2 DEF AnyMatch
  <2>2. ASSUME NEW p \in doc.args[key] PROVE GlobMatch(leaf.text, Substitute(p)) <=> GlobMeans(leaf.text, Substitute(p))
    <3>1. PICK pattern : pattern = Substitute(p)
      OBVIOUS
    <3>2. WellMarked(pattern) /\ \A i \in DOMAIN pattern : pattern[i] # "!a"
      BY <1>4, <3>1 DEF IsPathPattern
    <3>3. GlobMatch(leaf.text, pattern) <=> GlobMeans(leaf.text, pattern)
      BY <1>6, <3>2, GlobIs
    <3> QED BY <3>1, <3>3
  <2> QED BY <2>1, <2>2
<1>9. Covers(rule, request) <=>
        /\ doc.tool # Unnamed => GlobMatch(request.tool, rule.tool)
        /\ doc.workflow # Unnamed =>
              request.workflow # Unnamed /\ GlobMatch(request.workflow, rule.workflow)
        /\ \A key \in DOMAIN doc.args : \E leaf \in request.parameters :
              leaf.keys = <<key>> /\ AnyMatch(leaf.text, rule.args[key])
  BY <1>2 DEF Covers
<1>10. \A key \in DOMAIN doc.args :
         (\E leaf \in request.parameters : leaf.keys = <<key>> /\ AnyMatch(leaf.text, rule.args[key])) <=>
         (\E leaf \in request.parameters, p \in doc.args[key] : leaf.keys = <<key>> /\ GlobMeans(leaf.text, Substitute(p)))
  BY <1>8
<1> QED BY <1>1, <1>7, <1>7a, <1>9, <1>10 DEF RuleMeans

SensitiveMeans(request) ==
    \E leaf \in request.parameters :
        /\ Len(leaf.keys) <= Deepest
        /\ \/ /\ \E n \in DOMAIN leaf.keys :
                     /\ leaf.keys[n] \in PathKeys
                     /\ \A m \in n + 1 .. Len(leaf.keys) : leaf.keys[m] = "item"
               /\ \E p \in SensitivePaths : GlobMeans(leaf.text, p)
           \/ HostOf(leaf.text) # <<>> /\ \E p \in SensitiveHosts : Below(Labels(HostOf(leaf.text)), Labels(p))

LEMMA TouchesIs ==
    ASSUME NEW request \in PolicyRequests
    PROVE  TouchesSensitive(request) <=> SensitiveMeans(request)
<1> DEFINE Path(leaf) == NearestKey(leaf.keys) \in PathKeys /\ AnyMatch(leaf.text, SensitivePaths)
           Host(leaf) == HostOf(leaf.text) # <<>> /\ \E p \in SensitiveHosts : DomainMatch(HostOf(leaf.text), p)
           PathMeant(leaf) == /\ \E n \in DOMAIN leaf.keys :
                                    /\ leaf.keys[n] \in PathKeys
                                    /\ \A m \in n + 1 .. Len(leaf.keys) : leaf.keys[m] = "item"
                              /\ \E p \in SensitivePaths : GlobMeans(leaf.text, p)
           HostMeant(leaf) == HostOf(leaf.text) # <<>> /\ \E p \in SensitiveHosts : Below(Labels(HostOf(leaf.text)), Labels(p))
<1>1. ASSUME NEW leaf \in request.parameters PROVE (Path(leaf) <=> PathMeant(leaf)) /\ (Host(leaf) <=> HostMeant(leaf))
  <2>1. leaf.text \in Seq(STRING) /\ leaf.keys \in Seq(STRING) \ {<<>>} /\ Head(leaf.keys) # "item"
    BY MatchingAssumption
  <2>2. \A p \in SensitivePaths : GlobMatch(leaf.text, p) <=> GlobMeans(leaf.text, p)
    <3> TAKE p \in SensitivePaths
    <3>1. WellMarked(p) /\ \A i \in DOMAIN p : p[i] # "!a"
      BY MatchingAssumption DEF IsPathPattern
    <3> QED BY <2>1, <3>1, GlobIs
  <2>3. \A p \in SensitiveHosts : DomainMatch(HostOf(leaf.text), p) <=> Below(Labels(HostOf(leaf.text)), Labels(p))
    <3> TAKE p \in SensitiveHosts
    <3>1. p \in Seq(STRING)
      BY MatchingAssumption
    <3>2. HostOf(leaf.text) \in Seq(STRING)
      BY <2>1, HostIs
    <3> QED BY <3>1, <3>2, DomainIs
  <2>4. NearestKey(leaf.keys) \in PathKeys <=>
          \E n \in DOMAIN leaf.keys : leaf.keys[n] \in PathKeys /\ \A m \in n + 1 .. Len(leaf.keys) : leaf.keys[m] = "item"
    BY <2>1, KeyIs
  <2>5. AnyMatch(leaf.text, SensitivePaths) <=> \E p \in SensitivePaths : GlobMeans(leaf.text, p)
    BY <2>2 DEF AnyMatch
  <2> QED BY <2>3, <2>4, <2>5
<1>2. TouchesSensitive(request) <=> \E leaf \in request.parameters : Len(leaf.keys) <= Deepest /\ (Path(leaf) \/ Host(leaf))
  BY DEF TouchesSensitive, Walk
<1>3. SensitiveMeans(request) <=> \E leaf \in request.parameters : Len(leaf.keys) <= Deepest /\ (PathMeant(leaf) \/ HostMeant(leaf))
  BY DEF SensitiveMeans
<1> HIDE DEF Path, Host, PathMeant, HostMeant
<1> QED BY <1>1, <1>2, <1>3

(* What has been judged was judged by the rule that was read.                 *)
ReadOf(doc) == [stage |-> "read", doc |-> doc, rule |-> ParseMatch(doc)]
Judged(r, doc, request) ==
    /\ r.stage = "judged" /\ r.doc = doc /\ r.request = request
    /\ r.covers = Covers(ParseMatch(doc), request)
    /\ r.touches = TouchesSensitive(request)
MatchingInv ==
    \/ reading = Unread
    \/ reading = [stage |-> "refused"]
    \/ \E doc \in PolicyRules : reading = ReadOf(doc)
    \/ \E doc \in PolicyRules, request \in PolicyRequests : Judged(reading, doc, request)

LEMMA JudgingIs ==
    ASSUME NEW doc \in PolicyRules, NEW request \in PolicyRequests, reading = ReadOf(doc), JudgeCall(request)
    PROVE  Judged(reading', doc, request)
<1>1. reading = [stage |-> "read", doc |-> doc, rule |-> ParseMatch(doc)]
  BY DEF ReadOf
<1>2. reading.doc = doc /\ reading.rule = ParseMatch(doc)
  BY <1>1
<1>3. /\ reading'.stage = "judged" /\ reading'.doc = reading.doc /\ reading'.request = request
      /\ reading'.covers = Covers(reading.rule, request) /\ reading'.touches = TouchesSensitive(request)
  BY DEF JudgeCall
<1> QED BY <1>2, <1>3 DEF Judged

LEMMA MatchingInvHolds == MatchingSpec => []MatchingInv
<1>1. MatchingInit => MatchingInv
  BY DEF MatchingInit, MatchingInv
<1>2. MatchingInv /\ [MatchingNext]_matchingVars => MatchingInv'
  <2> SUFFICES ASSUME MatchingInv, [MatchingNext]_matchingVars PROVE MatchingInv'
    OBVIOUS
  <2>1. ASSUME NEW doc \in PolicyRules, ReadRule(doc) PROVE MatchingInv'
    <3>1. reading' = [stage |-> "refused"] \/ reading' = ReadOf(doc)
      BY <2>1 DEF ReadRule, ReadOf
    <3> QED BY <3>1 DEF MatchingInv
  <2>2. ASSUME NEW request \in PolicyRequests, JudgeCall(request) PROVE MatchingInv'
    <3>1. reading.stage = "read"
      BY <2>2 DEF JudgeCall
    <3>2. PICK doc \in PolicyRules : reading = ReadOf(doc)
      BY <3>1 DEF MatchingInv, Judged, Unread
    <3>3. Judged(reading', doc, request)
      BY <2>2, <3>2, JudgingIs
    <3> QED BY <3>3 DEF MatchingInv
  <2>3. CASE UNCHANGED matchingVars
    BY <2>3 DEF MatchingInv, matchingVars
  <2> QED BY <2>1, <2>2, <2>3 DEF MatchingNext
<1> QED BY <1>1, <1>2, PTL DEF MatchingSpec

LEMMA WhatIsJudged ==
    ASSUME MatchingInv PROVE RulesReadAsWritten
<1> SUFFICES ASSUME reading.stage = "judged"
             PROVE  (reading.covers <=> RuleMeans(reading.doc, reading.request)) /\ (reading.touches <=> SensitiveMeans(reading.request))
  BY DEF RulesReadAsWritten, CoversAsWritten, SensitiveIsFound, RuleMeans, SensitiveMeans, Below
<1>1. PICK doc \in PolicyRules, request \in PolicyRequests : Judged(reading, doc, request)
  BY DEF MatchingInv, Unread, ReadOf
<1>2. Covers(ParseMatch(doc), request) <=> RuleMeans(doc, request)
  BY CoversIs
<1>3. TouchesSensitive(request) <=> SensitiveMeans(request)
  BY TouchesIs
<1>4. reading.doc = doc /\ reading.request = request /\ reading.covers = Covers(ParseMatch(doc), request) /\ reading.touches = TouchesSensitive(request)
  BY <1>1 DEF Judged
<1> QED BY <1>2, <1>3, <1>4

(* Whatever the policy file says in the table's marks and whatever is asked,  *)
(* a rule covers exactly the calls its patterns name segment by segment, and  *)
(* a call is found sensitive exactly when it names such a path or an address  *)
(* below such a domain: the regular expressions of _translate read as the     *)
(* table of matching.py does (glob_match, domain_match, Match.matches,        *)
(* _touches_sensitive_resource).                                              *)
THEOREM PatternsReadAsTheTable == MatchingSpec => []RulesReadAsWritten
<1>1. MatchingInv => RulesReadAsWritten
  BY WhatIsJudged
<1> QED BY <1>1, MatchingInvHolds, PTL
===============================================================================
